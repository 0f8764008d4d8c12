SPECIFICATION Spec
CONSTANTS
    WORD = 2
    BASE = 64
    KEY_LEN = 3
    ADDRESS_LEN = 1
    MAX_I64 = 7
    MAX_U64 = 15
    SlotText <- MCSlotText
    Points <- MCPoints
    DELEGATION_DOMAIN_SEPARATOR = "delegation"
    Domain = "delegation"
    OurKey <- gateway
    OurCommitter <- MCCommitter
    EcdsaKey = "ecdsa"
    slasher_whitelist <- MCWhitelist
    authorized_builders <- MCBuilders
    Scheduled <- MCScheduled
    Messages <- MCMessages
    Offers <- MCOffers
    RequestInputs <- MCRequests
    MaxSigned = 2
    MaxCommitments = 2
CHECK_DEADLOCK FALSE
INVARIANTS
    DelegationsAuthentic
    RequestHashBinds
    AnswersVerify
    ReadersAgree
    PostsAreGranted
    LookupsAgree
