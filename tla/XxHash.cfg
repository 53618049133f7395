SPECIFICATION HashSpec
CONSTANTS
    Widths = {32, 64}
    Seeds = {0, 7}
    Pieces <- Lengths
    MaxLength = 100
    Streams = 2
INVARIANTS
    StreamIsOneShot
    BufferIsTail
    EveryByteOnce
CHECK_DEADLOCK FALSE
