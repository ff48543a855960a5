SPECIFICATION Spec
CONSTANTS
    Callers = {c1, c2}
    Workloads <- AloneOrShared
    Bytes = {"x", "n"}
    NewLine = "n"
    Payloads <- MCPayloads
    Lengths = {0, 1, 2, 3, 4}
    Behind = {"x"}
    MaxArrivals = 2
INVARIANTS OneWorks CountIsTrue
PROPERTIES ImplementsStream GetsReadable
