CONSTANTS
    Byte <- SomeBytes
    Sizes <- SomeSizes
    MaxParts = 3
SPECIFICATION Spec
CHECK_DEADLOCK FALSE
INVARIANTS Concatenated LoadedWhole
