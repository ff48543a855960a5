SPECIFICATION Spec
CONSTANTS
    Tasks = {t1, t2}
    Connections = {k1, k2, k3, k4}
    Hosts = {a, b}
    Ports = {1, 2}
    HANDLES = 3
    MAX_HANDLE = 2
    NULL = NULL
INVARIANTS LookupIsTrue HandleReceives NothingLeaks
PROPERTY WaitingStaysOpen
CONSTRAINT ListAsRead
SYMMETRY Symmetric
