CONSTANTS
    Byte = 2
    MapSize = 24
    Positions <- Starts
    Extents <- Lengths
    Ranges <- BitRanges
    WordRanges <- WholeWords
SPECIFICATION RegistersSpec
INVARIANTS ReadsShifted
