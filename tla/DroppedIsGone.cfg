SPECIFICATION Spec
CONSTANTS
    v1 = v1
    ours = ours
    other = other
    alice = alice
    p1 = p1
    p2 = p2
    k1 = k1
    Slots = {0, 1}
    Accounts = {alice}
    Proposers = {v1}
    Delegates = {ours, other}
    Jobs <- MCJobs
    Polls = {p1, p2}
    Cleanups = {k1}
    OurDelegate = ours
    Offered <- MCOne
    NoItem = NoItem
    NoInfo = NoInfo
    TTL = 1
    Latency = 1
    lookahead_epochs = 0
    GENESIS_TIME = 0
    SLOT_DURATION_SECONDS = 2
    SLOTS_PER_EPOCH = 1
    CONSTRAINTS_SUBMISSION_DEADLINE = 1
    MaxTime = 0
    MaxRestarts = 0
INVARIANT DroppedIsGone
