SPECIFICATION Spec
CONSTANTS
    s1 = s1
    c1 = c1
    NoConn = NoConn
    Session = {s1}
    Conn = {c1}
    ChunkCapacity = 1
    MaxSessionChunks = 2
    MaxAttempts = 1
    SweepAbove = 1
    MaxFrames = 2
    MaxRestarts = 0
    MaxFaults = 0
INVARIANTS IndexFailsOnlyOnFault
