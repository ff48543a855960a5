SPECIFICATION ThreadSpec
CONSTANTS
    Fractions = {2, 3}
    CleanPeriod = 4
    MaxDepth = 2
INVARIANT RegistersIntact
PROPERTY WorkServed
