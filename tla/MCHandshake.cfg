CONSTANTS
    Device = {alice, bob}
    PreKeyCount = 1
    MaxKeys = 17
    MaxSessions = 2
    keyid <- DistinctId
    verify32 <- ExactVerify
SPECIFICATION FairSpec
CHECK_DEADLOCK FALSE
INVARIANTS TypeOK KeyAgreement RootKeyNamesHandshake
PROPERTIES HandshakeCompletes
