\* Three tasks acquire and drop guards of a file that is not there yet; they
\* are served fairly.
CONSTANTS
    f1 = f1  f2 = f2  t1 = t1  t2 = t2  t3 = t3
    k1 = k1  k2 = k2  k3 = k3  k4 = k4  k5 = k5
    Files = {f1}  Tasks = {t1, t2, t3}  LockIds = {k1, k2, k3}
    NoLock = NoLock  NoFile = NoFile  MaxSize = 1
    ModelFiles = {}  Convertible = {}  PggufOf <- NoConversion
    ExternalFiles = {}  OnDisk = {}
    Ops = {"Acquire_Read", "Acquire_Write"}
SPECIFICATION FairSpec
PROPERTIES ImplementsContract OperationsEnd
