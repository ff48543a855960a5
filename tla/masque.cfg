CONSTANTS
    Inner = {h, g}
    Local = l
    Remotes = {r}
    Reals = {n, m}
    dummy_IP = dummy
    Ports = {1, 5}
    MASQ_START = 5
    MASQ_TOTAL = 2
    QueueLen = 2
SPECIFICATION Spec
INVARIANTS AnswersGoHome PortsApart
