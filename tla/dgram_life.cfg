SPECIFICATION Spec
CONSTANTS
    MAX_CLOCK = 86400000
    Ttls = {0, 1, 2, 3, 254}
    Rests = {1, 17510, 62470, 65278, 130813}
    StartClocks = {0, 43200000, 86398995, 86399995}
    Steps = {5, 495, 995, 1000}
    MaxAge = 3500
INVARIANTS WireChecksumCorrect HopCostsTtl ExpiresOnTime
