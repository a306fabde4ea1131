\* Four inbound streams, three of them of one inference, and three acceptors.
CONSTANTS
    s1 = s1  s2 = s2  s3 = s3  s4 = s4  i1 = i1  i2 = i2
    Streams = {s1, s2, s3, s4}  Acceptors = {a1, a2, a3}  Ids = {i1, i2}
    NoId = NoId  None = None  idOf <- FourStreams
SPECIFICATION Spec
INVARIANTS NoStreamWhileAwaited
PROPERTIES ImplementsMatchmaker
SYMMETRY Symmetry
