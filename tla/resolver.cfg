SPECIFICATION Spec
CONSTANTS
    Tasks = {t1, t2}
    www = www
    host = host
    home = home
    Names <- MCNames
    IPs = {1, 2, 3}
    Zone <- MCZone
    Commands <- MCCommands
    Servers = 1
    UDP_MAX_TRIES = 2
    DNS_CACHE = 2
    MaxTime = 3
    Calls = 3
    NULL = NULL
INVARIANTS AnswersFresh CacheIsSound CursorIsSound
PROPERTY QueryEnds
