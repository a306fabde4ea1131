CONSTANTS
    NumberWords = {"1"}
    PairWords = {"k=v"}
    RangeWords = {"p:0-1"}
    DeviceWords = {"cpu"}
    Lines <- McLines
    Builtin = {}
    Listings <- McListings
    Peers = {p1}
    BusCap = 2
    UserCap = 1
    MaxTyped = 2
    MaxNews = 2
SPECIFICATION FairSpec
INVARIANTS TypeOK ShownIsConnected
PROPERTIES ResultsInOrder ResultShown 
