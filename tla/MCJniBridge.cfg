CONSTANTS
    Thread = {t1, t2}
    Width = 24
    PreKeyCount = 0
    MaxReserve = 2
    NumKeys <- SomeNumKeys
    MaxKeys = 17
    Overlap = FALSE
    keyid <- HighId
    verify32 <- ExactVerify
SPECIFICATION FairSpec
INVARIANTS TypeOK SessionHandedOver RefillSigned RefillCount ResultUsable
PROPERTIES CallsEnd
