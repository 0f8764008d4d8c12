SPECIFICATION FairSpec
CONSTANTS
    h1 = h1
    p1 = p1
    ours = ours
    alice = alice
    key = key
    i1 = i1
    i2 = i2
    Unset = Unset
    DefaultKey = DefaultKey
    Keys = {key, DefaultKey}
    BadKey = BadKey
    NoFile = NoFile
    Malformed = Malformed
    Unreadable = Unreadable
    NoConfig = NoConfig
    Instances = {i1, i2}
    Observed = i1
    NoInstance = NoInstance
    Deployments <- MCDeployments
    LastMigration = 2
    MaxStarts = 3
    Slots = {0}
    Accounts = {alice}
    Proposers = {p1}
    Delegates = {ours}
    Hash = {h1}
    CommitmentTypes = {1}
    NoRow = NoRow
    CommitmentInputs <- MCCommitments
    DelegationInputs <- MCDelegations
CHECK_DEADLOCK FALSE
INVARIANTS
    TypeOK
    JobsNeedSchema
    RunsConfigured
    GaugesCoherent
PROPERTIES
    StartEnds
    TotalsNeverFall
