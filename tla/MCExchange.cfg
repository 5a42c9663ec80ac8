CONSTANTS
    Device = {alice, bob, carol}
    PreKeyCount = 0
    MaxKeys = 13
    MaxSessions = 2
    keyid <- DistinctId
    verify32 <- ExactVerify
SYMMETRY Symmetry
SPECIFICATION Spec
CHECK_DEADLOCK FALSE
INVARIANTS KeyAgreement IdentityContinuity
PROPERTIES IsExchange
