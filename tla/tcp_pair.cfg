SPECIFICATION TcpSpec
CONSTANTS
    SEQS = 32
    WINS = 8
    MSS = 2
    RCV_WINDOW = 2
    Junk = 0
    BUFFER = 2
    Ini <- MCIni
    Plans <- MCPlans
    EarlyCalls = FALSE
INVARIANTS WindowIsRoom SidesAgree 
PROPERTIES ImplementsConnection AllArrives EndsClean
