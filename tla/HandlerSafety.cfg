SPECIFICATION HandlerSpec
CONSTANTS
    c1 = c1
    c2 = c2
    p1 = p1
    p2 = p2
    ours = ours
    alice = alice
    bob = bob
    b1 = b1
    b2 = b2
    Calls = {c1, c2}
    Requests <- MCRequests
    Bodies = {b1, b2}
    NoSlot = NoSlot
    Slots = {0, 1}
    Accounts = {alice, bob}
    Whitelist = {alice}
    OurCommitter <- MCOurCommitter
    Scheduled <- MCScheduled
    NoProposer = NoProposer
    NoRequest = NoRequest
    NoDelegation = NoDelegation
    Hash <- MCHash
    CommitmentTypes = {1, 2}
    NoRow = NoRow
    Proposers = {p1, p2}
    Delegates = {ours}
    SeenDelegations <- MCDelegations
    MaxCrashes = 1
SYMMETRY CallSymmetry
INVARIANTS
    HandlerTypeOK
    StoredIsAuthorised
    SignedIsRetrievable
    OneSignedPerHash
    GasCountedOnce
    InvalidLeavesNothing
CHECK_DEADLOCK FALSE
