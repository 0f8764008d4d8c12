SPECIFICATION Spec
CONSTANTS
    h1 = h1
    h2 = h2
    p1 = p1
    ours = ours
    other = other
    alice = alice
    r1 = r1
    r2 = r2
    Hash = {h1, h2}
    Slots <- MCSlots
    Accounts = {alice}
    CommitmentTypes = {1}
    NoRow = NoRow
    Proposers = {p1}
    Delegates = {ours, other}
    OurDelegate = ours
    CommitmentInputs <- MCCommitments
    DelegationInputs <- MCDelegations
    Runs = {r1}
    LOOKAHEAD = 0
    MaxRetries = 2
    NoMsg = NoMsg
    GENESIS_TIME = 0
    SLOT_DURATION_SECONDS = 3
    CONSTRAINTS_SUBMISSION_DEADLINE = 1
    MaxTime = 2
    MaxRestarts = 0
INVARIANT NoLateMessage
