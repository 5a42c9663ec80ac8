CONSTANTS
    P = 509
    Q = 67
    D = 88
    SignBit = 512
    ScalarBound = 128
    BasePoint <- MCBasePoint
    PrivateKeys <- TypicalKeys
    Hashes <- TypicalHashes
SPECIFICATION Spec
INVARIANTS GeneratedKeyVerifies
