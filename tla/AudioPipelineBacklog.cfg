SPECIFICATION FairSpec
CONSTANTS
    s1 = s1
    c1 = c1
    c2 = c2
    NoConn = NoConn
    Session = {s1}
    Conn = {c1, c2}
    ChunkCapacity = 2
    MaxSessionChunks = 2
    MaxAttempts = 2
    SweepAbove = 1
    MaxFrames = 2
    MaxRestarts = 0
    MaxFaults = 1
PROPERTIES EveryFrameSettles 
