SPECIFICATION ScheduledSpec
CONSTANTS
    c1 = c1
    c2 = c2
    r1 = r1
    r2 = r2
    p1 = p1
    p2 = p2
    ours = ours
    alice = alice
    b1 = b1
    b2 = b2
    Calls = {c1}
    Requests <- MCAnySpelling
    Bodies = {b1}
    NoSlot = NoSlot
    Slots = {0}
    Accounts = {alice}
    Whitelist = {alice}
    OurCommitter <- MCOurCommitter
    Scheduled <- MCScheduled
    NoProposer = NoProposer
    NoRequest = NoRequest
    NoDelegation = NoDelegation
    Hash <- MCHash
    CommitmentTypes = {1}
    NoRow = NoRow
    Proposers = {p1, p2}
    Delegates = {ours}
    SeenDelegations <- MCBothProposers
    DelegationInputs <- MCBothProposers
    CommitmentInputs <- MCInputs
    OurDelegate = ours
    Runs = {r1}
    LOOKAHEAD = 0
    MaxRetries = 2
    NoMsg = NoMsg
    GENESIS_TIME = 0
    SLOT_DURATION_SECONDS = 2
    CONSTRAINTS_SUBMISSION_DEADLINE = 1
    MaxTime = 1
    MaxCrashes = 1
    MaxRestarts = 1
PROPERTIES
    CallsEnd
    RunsEnd
    SameSpellingIsConstrained
