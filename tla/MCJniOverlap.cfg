CONSTANTS
    Thread = {t1, t2}
    Width = 24
    PreKeyCount = 0
    MaxReserve = 2
    NumKeys <- SomeNumKeys
    MaxKeys = 17
    Overlap = TRUE
    keyid <- HighId
    verify32 <- ExactVerify
SYMMETRY Symmetry
SPECIFICATION Spec
INVARIANTS ResultUsable
