\* Two tasks race every operation on a raw .gguf file and the .pgguf it is
\* converted into; users delete and create the former.
CONSTANTS
    f1 = f1  f2 = f2  t1 = t1  t2 = t2  t3 = t3
    k1 = k1  k2 = k2  k3 = k3  k4 = k4  k5 = k5
    Files = {f1, f2}  Tasks = {t1, t2}  LockIds = {k1, k2, k3, k4}
    NoLock = NoLock  NoFile = NoFile  MaxSize = 1
    ModelFiles = {f1, f2}  Convertible = {f1}  PggufOf <- ConvertF1
    ExternalFiles = {f1}  OnDisk = {f1}
    Ops = {"Acquire_Read", "Acquire_Write", "Remove", "Exists", "Flush"}
SPECIFICATION Spec
INVARIANTS TypeOK FlushMirrorsDisk
PROPERTIES EntryLockStable
SYMMETRY Symmetry
