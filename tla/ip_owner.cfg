SPECIFICATION Spec
CONSTANTS
    Dgrams = {d1, d2, d3}
    Arrivals <- MCArrivals
    Sends <- MCSends
    MaskAgent = FALSE
    PortGoesOff = TRUE
    Free = Free
    NULL = NULL
INVARIANTS OneOwner NothingLeaks
PROPERTIES ImplementsMailbox MovesOn
