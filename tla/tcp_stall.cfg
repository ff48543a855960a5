SPECIFICATION TcpSpec
CONSTANTS
    SEQS = 32
    WINS = 8
    MSS = 1
    RCV_WINDOW = 1
    Junk = 0
    BUFFER = 2
    Ini <- MCIni
    Plans <- MCBoth
    EarlyCalls = FALSE
PROPERTY BufferClears
