SPECIFICATION Spec
CONSTANTS
    s1 = s1
    s2 = s2
    c1 = c1
    c2 = c2
    c3 = c3
    NoConn = NoConn
    Session = {s1, s2}
    Conn = {c1, c2, c3}
    ChunkCapacity = 1
    MaxSessionChunks = 2
    MaxAttempts = 1
    SweepAbove = 1
    MaxFrames = 2
    MaxRestarts = 0
    MaxFaults = 0
SYMMETRY IdSymmetry
INVARIANTS OneHandlerPerSession AckedOnce NumbersWithoutGaps
