SPECIFICATION MCSpec
CONSTANTS
    RegBytes = 16
    NumRegs = 32
    MemBytes = 320
    MagicBit = 512
    Base = 520
    Programs <- MCPrograms
    Widths = {4, 8}
    IntBits = 8
    Operands <- MCOperands
CHECK_DEADLOCK FALSE
INVARIANTS
    LanesRight
    OperandsFit
    OrderRestored
    WalkReadsBack
    ArithmeticExact
    RoundingExact
    ShiftsAndBitsExact
