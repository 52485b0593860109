CONSTANTS
    ByteBits = 2
    ShortBits = 3
    IntBits = 4
    LongBits = 5
    None = None
    Bits <- MCBits
    Sessions <- MCSessions
SPECIFICATION Spec
INVARIANTS ValuesExact UsesExact
