\* Three streams, two of them under one id, and three acceptors that retry.
CONSTANTS
    s1 = s1  s2 = s2  s3 = s3  a1 = a1  a2 = a2  a3 = a3  i1 = i1  i2 = i2
    Streams = {s1, s2, s3}  Acceptors = {a1, a2, a3}  Ids = {i1, i2}
    NoId = NoId  None = None  idOf <- ThreeStreams
SPECIFICATION Spec
INVARIANTS TypeOK
PROPERTIES ImplementsMatchmaker
SYMMETRY Symmetry
