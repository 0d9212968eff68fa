\* Two tool calls, two stages, one client; every channel holds one event.
SPECIFICATION FairSpec
CONSTANTS
    Tools = {"t1", "t2"}
    Clients = {"c1"}
    LoopBuffer = 1
    PipeBuffer = 1
    SubBuffer = 1
    MaxLines = 2
    MaxStages = 2
INVARIANTS ParserIsJoined ScopesBalanced
PROPERTY StreamEnds
CHECK_DEADLOCK FALSE
