SPECIFICATION WebSpec
CONSTANTS
    c1 = c1
    c2 = c2
    NoConn = NoConn
    Conn = {c1, c2}
    MaxAttempts = 2
    MaxBuffered = 2
    MaxChunks = 3
    MaxBreaks = 2
    Nothing = Nothing
    s1 = s1
    s2 = s2
    f1 = f1
    f2 = f2
    Steps <- SomeSteps
    Session = {s1, s2}
    Finding = {f1, f2}
    SessionOf <- FindingsOf
    MaxPractices = 2
    MaxCalls = 2
    MaxMics = 6
    MaxAnalyses = 2
    MaxStarts = 3
    MaxPieces = 2
    MaxPlayers = 2
    MaxLoads = 2
INVARIANTS PagesTyped ArrivesInOrder OneAttemptAtATime DropsAreReported
             NothingLeftOpen
PROPERTIES NoSocketAfterClose RetryEnds 
