SPECIFICATION Spec
CONSTANTS
    BufSize <- MCBufSize
    Bits <- MCBits
    CharBits <- MCCharBits
    ShortBits <- MCShortBits
    IntBits <- MCIntBits
    IntMax <- MCIntMax
    PointerWidth <- MCPointerWidth
    Room <- MCRoom
    Garbage <- MCGarbage
    Inputs <- MCInputs
INVARIANTS
    PrintsFormat
    ArgumentsInStep
    OutputContract
    BufferHolds
PROPERTIES
    Terminates
CHECK_DEADLOCK FALSE
