SPECIFICATION FairSpec
CONSTANTS
    c1 = c1
    c2 = c2
    f1 = f1
    Slots = {0}
    FeeCalls = {f1}
    CommitCalls = {c1, c2}
    Estimates = {9, 3000}
    GasPrices = {0, 33}
    default_gas_limit = 16
    min_fee_multiplier = 116
    max_fee_multiplier = 800
    ONE = 64
    F64_MAX = 1000000000
    NaN = NaN
    round <- MCRound
    powf <- MCPowf
    max_lookahead = 0
    reth_max_retries = 1
    U64_MAX = 4000
    NoRow = NoRow
    NoCall = NoCall
    NoQuote = NoQuote
    GENESIS_TIME = 0
    SLOT_DURATION_SECONDS = 1
    CONSTRAINTS_SUBMISSION_DEADLINE = 0
    MaxTime = 1
    MaxCrashes = 1
INVARIANTS
    TypeOK
    NoGasLost
    QuoteWithinBounds
PROPERTIES
    PriceRises
    FeeCallsEnd
CHECK_DEADLOCK FALSE
