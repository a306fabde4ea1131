\* A pipeline over up to four nodes, which hold the model in five ways, or the
\* program that offloads; everything may fail.
CONSTANTS
    t1 = t1  t2 = t2  None = None
    Threads = {t1}  Programs = {"pipeline_coord", "offload_pingpong"}
    host <- Host0  sid <- Id1
    Nodes = {0, 1, 2, 3, 4}  Placements <- AllPlacements  SameName = TRUE
    Blocks = 4  Tied = TRUE  RawOrder <- AsUsual
    MaxStages = 4  MaxFrames = 5  MaxStale = 2
    Faults = {"load", "send", "run", "close"}
SPECIFICATION FairSpec
INVARIANTS TypeOK
PROPERTIES ImplementsMlThread TensorsAnswered WorkersEnd
CHECK_DEADLOCK FALSE
