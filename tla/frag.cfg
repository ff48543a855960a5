SPECIFICATION FragSpec
CONSTANTS
    BLOCK = 2
    BITS = 2
    SPARE = 2
    UNIT = 2
    WORD = 64
    d1 = d1
    d2 = d2
    Datagrams = {d1, d2}
    Length <- Lengths
    Path <- OneLink
    Networks <- AnyNetwork
    Repeats = 1
INVARIANTS WholeInOrder NoneWaits DataFits
