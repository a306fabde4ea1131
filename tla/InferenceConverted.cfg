\* The same, without faults, when the .gguf file was not in the order of its
\* tensor names: token_embd.weight came first.
CONSTANTS
    t1 = t1  t2 = t2  None = None
    Threads = {t1}  Programs = {"pipeline_coord", "offload_pingpong"}
    host <- Host0  sid <- Id1
    Nodes = {0, 1, 2, 3, 4}  Placements <- AllPlacements  SameName = TRUE
    Blocks = 4  Tied = TRUE  RawOrder <- AsUsual
    MaxStages = 4  MaxFrames = 4  MaxStale = 1
    Faults = {}
SPECIFICATION Spec
INVARIANTS WeightsKept
CHECK_DEADLOCK FALSE
