CONSTANTS
    PreKeyCount = 0
    MaxRefill = 2
    MaxKeys = 11
    MaxSent = 1
    keyid <- DistinctId
    verify32 <- ExactVerify
SPECIFICATION Spec
INVARIANTS TypeOK RefillBacked
PROPERTIES KeepsPromises
