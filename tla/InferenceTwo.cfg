\* Two sessions whose pipelines meet on two nodes; everything may fail.
CONSTANTS
    t1 = t1  t2 = t2  None = None
    Threads = {t1, t2}  Programs = {"pipeline_coord"}
    host <- Hosts02  sid <- Ids12
    Nodes = {0, 1, 2}  Placements <- SharedOnly  SameName = TRUE
    Blocks = 2  Tied = TRUE  RawOrder <- AsUsual
    MaxStages = 2  MaxFrames = 4  MaxStale = 1
    Faults = {"load", "send", "run", "close"}
SPECIFICATION Spec
INVARIANTS StagesLinked AnswersInOrder
CHECK_DEADLOCK FALSE
