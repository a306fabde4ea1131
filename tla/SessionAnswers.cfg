\* One API server with three requests; askers hang up, answers hit the limit.
CONSTANTS
    c1 = c1  c2 = c2  c3 = c3  r1 = r1  r2 = r2  r3 = r3
    Clients = {c1}  Bridges = {}  Requests = {r1, r2, r3}  clientOf <- ThreeOfOne
    Streaming = {r1, r2}  MaxSlots = 1  MaxTokens = 2  None = None
    Faults = {"limit", "hangup"}
SPECIFICATION FairSpec
PROPERTIES EveryRequestAnswered
CHECK_DEADLOCK FALSE
