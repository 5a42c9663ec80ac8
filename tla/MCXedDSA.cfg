CONSTANTS
    P = 509
    Q = 67
    D = 88
    SignBit = 512
    ScalarBound = 128
    BasePoint <- MCBasePoint
    PrivateKeys <- AllKeys
    Hashes <- SomeHashes
SPECIFICATION Spec
INVARIANTS TypeOK OwnKeyVerifies ClampedKeyVerifies
