SPECIFICATION FairSpec
CONSTANTS
    c1 = c1
    c2 = c2
    NoConn = NoConn
    Conn = {c1, c2}
    MaxAttempts = 2
    MaxBuffered = 1
    MaxChunks = 1
    MaxBreaks = 1
PROPERTIES RetryEnds
