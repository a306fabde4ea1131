CONSTANTS
    n1 = n1
    n2 = n2
    rexec1 = rexec1
    rexec2 = rexec2
    script = script
    Nodes = {n1, n2}
    Calls = {rexec1, rexec2, script}
    Menu <- McMenu
    scripts <- McScripts
    Quitters = {n2}
    MAX_FRAME_SIZE = 1
    Numbers = {"1"}
    InboundCap = 1
    EventCap = 1
    CmdCap = 2
    Hosts = {n2}
SPECIFICATION FairSpec
INVARIANTS TypeOK AnswerExact RepliesOwned ResponsesTracked
PROPERTY CallsEnd
