\* An API server with two requests, a bridge with one, and a third client for
\* two slots; everything may fail, but no HTTP asker hangs up and answers end
\* within their limit.
CONSTANTS
    c1 = c1  c2 = c2  c3 = c3  r1 = r1  r2 = r2  r3 = r3
    Clients = {c1, c2, c3}  Bridges = {c2}  Requests = {r1, r2, r3}  clientOf <- TwoAndOne
    Streaming = {}  MaxSlots = 2  MaxTokens = 3  None = None
    Faults = {"load", "accept", "encode", "generate", "ml", "bind", "read", "hangup"}
SPECIFICATION Spec
INVARIANTS TypeOK ReplyExact
CHECK_DEADLOCK FALSE
