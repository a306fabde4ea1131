--------------------------- MODULE StorageContract ---------------------------
(***************************************************************************)
(* What the storage manager promises the holders of its guards (the doc    *)
(* comments of StorageCapability::Acquire_Read and Acquire_Write): one     *)
(* reader/writer lock per file name, and a file that changes only under    *)
(* the write guard of that name.                                           *)
(***************************************************************************)
CONSTANTS Files, Tasks, Contents, NoFile

VARIABLES disk,    \* the contents of each file
          guarded, \* the file a task holds a guard of, or NoFile
          access   \* "read" or "write" for a holder, "none" for the others

contract == <<disk, guarded, access>>

Init ==
    /\ disk \in [Files -> Contents]
    /\ guarded = [t \in Tasks |-> NoFile]
    /\ access = [t \in Tasks |-> "none"]

Acquire(t, f, m) ==
    /\ guarded[t] = NoFile
    /\ \A u \in Tasks : guarded[u] = f => m = "read" /\ access[u] = "read"
    /\ guarded' = [guarded EXCEPT ![t] = f]
    /\ access' = [access EXCEPT ![t] = m]
    /\ UNCHANGED disk

Write(t, c) ==
    /\ guarded[t] # NoFile /\ access[t] = "write"
    /\ disk' = [disk EXCEPT ![guarded[t]] = c]
    /\ UNCHANGED <<guarded, access>>

Release(t) ==
    /\ guarded[t] # NoFile
    /\ guarded' = [guarded EXCEPT ![t] = NoFile]
    /\ access' = [access EXCEPT ![t] = "none"]
    /\ UNCHANGED disk

Next ==
    \E t \in Tasks :
        \/ \E f \in Files, m \in {"read", "write"} : Acquire(t, f, m)
        \/ \E c \in Contents : Write(t, c)
        \/ Release(t)

Spec == Init /\ [][Next]_contract

=============================================================================
