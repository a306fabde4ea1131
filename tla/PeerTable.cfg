\* Two nodes with up to two connections, two commands at a time on one of them.
CONSTANTS
    p1 = p1  p2 = p2  l1 = l1  l2 = l2  t1 = t1  t2 = t2  m1 = m1
    Nodes = {p1, p2}  Links = {l1, l2}  Ends <- TwoLinks
    Tasks = {t1, t2}  Owner <- AllAtFirst  NamesOf <- FirstMayBePiped
    ModelFiles = {m1}  MaxSessions = 1  MaxChanges = 4  None = None
SPECIFICATION Spec
INVARIANTS TypeOK OneLocalEntry ListedIsOnline ListsCurrent
SYMMETRY Symmetry
CHECK_DEADLOCK FALSE
