---------------------------- MODULE StorageProofs ----------------------------
(***************************************************************************)
(* Proofs about the storage manager, for any sets of files, tasks and lock *)
(* objects.                                                                *)
(***************************************************************************)
EXTENDS Storage, TLAPS

\* Between these points a task's operation is about a file.
OnFile(t) == pc[t] \notin {"Idle", "FlushNext", "FlushClean", "FlushPublish"}

FileKnown == \A t \in Tasks : OnFile(t) => file[t] \in Files

TypeInv == TypeOK /\ FileKnown

\* A task that does not scan has an empty scan.
LEMMA NoScanType == NoScan \in ScanType
  BY StorageConstants DEF NoScan, ScanType, Sizes

\* Changing a field of a scan keeps its type.
LEMMA ScanUpdate ==
  ASSUME NEW s \in ScanType
  PROVE  /\ \A size \in Sizes : [s EXCEPT !.size = size] \in ScanType
         /\ \A model \in BOOLEAN : [s EXCEPT !.model = model] \in ScanType
         /\ \A todo \in SUBSET Files : [s EXCEPT !.todo = todo] \in ScanType
         /\ \A seen \in SUBSET Files : [s EXCEPT !.seen = seen] \in ScanType
         /\ \A todo \in SUBSET Files : [s EXCEPT !.todo = todo, !.seen = {}] \in ScanType
         /\ [s EXCEPT !.size = 0, !.model = FALSE] \in ScanType
  <1>1. 0 \in Sizes
    BY StorageConstants DEF Sizes
  <1>2. QED
    BY <1>1 DEF ScanType

\* Types hold initially.
LEMMA InitType == Init => TypeInv
  <1> SUFFICES ASSUME Init PROVE TypeInv
    OBVIOUS
  <1>1. TypeOK
    <2>1. entrySize \in [Files -> Sizes]
      BY StorageConstants DEF Init, Sizes, Absent
    <2>2. queue \in [LockIds -> Seq(Tasks)]
      BY DEF Init
    <2>3. scan \in [Tasks -> ScanType]
      BY NoScanType DEF Init
    <2>4. QED
      BY <2>1, <2>2, <2>3 DEF Init, TypeOK, PCs, Modes
  <1>2. FileKnown
    BY DEF Init, FileKnown, OnFile
  <1>3. QED
    BY <1>1, <1>2 DEF TypeInv

\* Acquire_Read and Acquire_Write keep the types.
LEMMA AcquireType ==
  ASSUME TypeInv, NEW t \in Tasks, AcquireStep(t), MovedBy(t)
  PROVE  TypeInv'
  <1> USE DEF TypeInv, TypeOK, FileKnown, OnFile, PCs, FlushPCs, Modes, MovedBy, manager, entries, locals
  <1>1. ASSUME NEW f \in Files, NEW m \in {"read", "write"}, NEW miss \in {"DiscoverStat", "InsertEntry"},
               Lookup(t, f, m, miss)
        PROVE  TypeInv'
    <2>1. CASE Indexed(f) /\ CloneLock(t, f, m) /\ UNCHANGED manager
      BY <2>1, NoScanType DEF CloneLock
    <2>2. CASE ~Indexed(f) /\ Begin(t, f, m, miss) /\ UNCHANGED manager
      BY <2>2 DEF Begin
    <2>3. QED
      BY <1>1, <2>1, <2>2 DEF Lookup
  <1>2. CASE DiscoverStat(t)
    <2>1. CASE Return(t) /\ UNCHANGED manager
      BY <2>1, NoScanType DEF Return
    <2>2. CASE ~(Return(t) /\ UNCHANGED manager)
      <3>1. file[t] \in Files /\ disk[file[t]] \in Sizes
        BY <1>2, <2>2 DEF DiscoverStat, IsFile
      <3>2. scan' \in [Tasks -> ScanType]
        <4>1. [scan[t] EXCEPT !.size = disk[file[t]]] \in ScanType
          BY <3>1, ScanUpdate
        <4>2. QED
          BY <1>2, <2>2, <4>1 DEF DiscoverStat
      <3>3. QED
        BY <1>2, <2>2, <3>2 DEF DiscoverStat
    <2>3. QED
      BY <2>1, <2>2
  <1>3. CASE InsertEntry(t)
    <2>1. file[t] \in Files /\ scan[t].size \in Sizes
      BY <1>3 DEF InsertEntry, ScanType
    <2>2. entryLock' \in [Files -> LockIds \cup {NoLock}] /\ entrySize' \in [Files -> Sizes]
          /\ entryModel' \in [Files -> BOOLEAN]
      BY <1>3, <2>1 DEF InsertEntry, Insert, FreshLocks
    <2>3. scan' \in [Tasks -> ScanType]
      BY <1>3, NoScanType DEF InsertEntry, CloneLock
    <2>4. QED
      BY <1>3, <2>1, <2>2, <2>3 DEF InsertEntry, CloneLock
  <1>4. QED
    BY <1>1, <1>2, <1>3 DEF AcquireStep, Acquire_Read, Acquire_Write

\* Guards keep the types.
LEMMA GuardType ==
  ASSUME TypeInv, NEW t \in Tasks, GuardStep(t), MovedBy(t)
  PROVE  TypeInv'
  <1> USE DEF TypeInv, TypeOK, FileKnown, OnFile, PCs, FlushPCs, Modes, MovedBy, manager, entries, locals
  <1>1. CASE LockOwned(t)
    <2>1. queue' \in [LockIds -> Seq(Tasks)]
      <3>1. CASE lock[t] \in LockIds
        <4>1. Append(queue[lock[t]], t) \in Seq(Tasks)
          BY <3>1
        <4>2. QED
          BY <1>1, <4>1 DEF LockOwned
      <3>2. CASE lock[t] \notin LockIds
        BY <1>1, <3>2 DEF LockOwned
      <3>3. QED
        BY <3>1, <3>2
    <2>2. QED
      BY <1>1, <2>1 DEF LockOwned, Goto
  <1>2. CASE GrantHead(t)
    <2>1. queue' \in [LockIds -> Seq(Tasks)]
      <3>1. CASE lock[t] \in LockIds
        <4>1. Tail(queue[lock[t]]) \in Seq(Tasks)
          BY <1>2, <3>1 DEF GrantHead
        <4>2. QED
          BY <1>2, <3>1, <4>1 DEF GrantHead
      <3>2. CASE lock[t] \notin LockIds
        BY <1>2, <3>2 DEF GrantHead
      <3>3. QED
        BY <3>1, <3>2
    <2>2. QED
      BY <1>2, <2>1 DEF GrantHead, Goto
  <1>3. ASSUME NEW size \in Sizes, WriteFile(t, size)
        PROVE  TypeInv'
    BY <1>3 DEF WriteFile, Goto
  <1>4. CASE DropReadGuard(t)
    BY <1>4, NoScanType DEF DropReadGuard, Return
  <1>5. CASE DropWriteGuard(t)
    <2>1. entrySize' \in [Files -> Sizes] /\ UNCHANGED <<entryLock, entryModel>>
      BY <1>5 DEF DropWriteGuard, RefreshSize, IsFile
    <2>2. scan' \in [Tasks -> ScanType]
      BY <1>5, NoScanType DEF DropWriteGuard, Return
    <2>3. QED
      BY <1>5, <2>1, <2>2 DEF DropWriteGuard, Return
  <1>6. QED
    BY <1>1, <1>2, <1>3, <1>4, <1>5 DEF GuardStep

\* Dropping an entry keeps the types of the index.
LEMMA DeindexType ==
  ASSUME TypeOK, NEW f, Deindex(f)
  PROVE  /\ entryLock' \in [Files -> LockIds \cup {NoLock}]
         /\ entrySize' \in [Files -> Sizes]
         /\ entryModel' \in [Files -> BOOLEAN]
  <1>1. 0 \in Sizes
    BY StorageConstants DEF Sizes
  <1>2. QED
    BY <1>1 DEF TypeOK, Deindex

\* Remove keeps the types.
LEMMA RemovalType ==
  ASSUME TypeInv, NEW t \in Tasks, RemovalStep(t), MovedBy(t)
  PROVE  TypeInv'
  <1> USE DEF TypeInv, TypeOK, FileKnown, OnFile, PCs, FlushPCs, Modes, MovedBy, manager, entries, locals
  <1>1. ASSUME NEW f \in Files, Remove(t, f)
        PROVE  TypeInv'
    BY <1>1 DEF Remove, Begin
  <1>2. ASSUME NEW f \in Files, Exists(t, f)
        PROVE  TypeInv'
    BY <1>2 DEF Exists, Begin
  <1>3. CASE RemoveFast(t)
    BY <1>3, NoScanType DEF RemoveFast, Return
  <1>4. CASE RemoveProbe(t)
    <2>1. CASE Goto(t, "RemoveUnlink") /\ UNCHANGED manager
      BY <1>4, <2>1 DEF RemoveProbe, Goto
    <2>2. CASE Return(t) /\ UNCHANGED manager
      BY <2>2, NoScanType DEF Return
    <2>3. QED
      BY <1>4, <2>1, <2>2 DEF RemoveProbe
  <1>5. CASE RemoveUnlink(t)
    <2>1. scan' \in [Tasks -> ScanType]
      BY <1>5, NoScanType DEF RemoveUnlink, Return
    <2>2. QED
      BY <1>5, <2>1, DeindexType DEF RemoveUnlink, Return
  <1>6. CASE ExistsRecheck(t)
    <2>1. scan' \in [Tasks -> ScanType]
      BY <1>6, NoScanType DEF ExistsRecheck, Return
    <2>2. QED
      BY <1>6, <2>1, DeindexType DEF ExistsRecheck, Return
  <1>7. QED
    BY <1>1, <1>2, <1>3, <1>4, <1>5, <1>6 DEF RemovalStep

\* Going on to the next file keeps the types of the locals.
LEMMA NextFileType ==
  ASSUME TypeInv, NEW t \in Tasks, NextFile(t)
  PROVE  /\ pc' \in [Tasks -> PCs] /\ file' \in [Tasks -> Files \cup {NoFile}]
         /\ mode' \in [Tasks -> Modes] /\ lock' \in [Tasks -> LockIds \cup {NoLock}]
         /\ scan' \in [Tasks -> ScanType]
         /\ FileKnown'
  <1> USE DEF TypeInv, TypeOK, NextFile
  <1>1. scan' \in [Tasks -> ScanType]
    <2>1. [scan[t] EXCEPT !.size = 0, !.model = FALSE] \in ScanType
      BY ScanUpdate
    <2>2. QED
      BY <2>1
  <1>2. FileKnown'
    BY DEF FileKnown, OnFile
  <1>3. QED
    BY <1>1, <1>2 DEF PCs, FlushPCs, Modes

\* Flush keeps the types.
LEMMA FlushType ==
  ASSUME TypeInv, NEW t \in Tasks, FlushStep(t), MovedBy(t)
  PROVE  TypeInv'
  <1> USE DEF TypeInv, TypeOK, FileKnown, OnFile, PCs, FlushPCs, Modes, MovedBy, manager, entries, locals
  <1>1. CASE Flush(t)
    <2>1. scan' \in [Tasks -> ScanType]
      <3>1. [scan[t] EXCEPT !.todo = {f \in Files : IsFile(f)}] \in ScanType
        BY ScanUpdate
      <3>2. QED
        BY <1>1, <3>1 DEF Flush
    <2>2. QED
      BY <1>1, <2>1 DEF Flush
  <1>2. ASSUME NEW f \in Files, FlushNext(t, f)
        PROVE  TypeInv'
    <2>1. CASE Return(t) /\ UNCHANGED manager
      BY <2>1, NoScanType DEF Return
    <2>2. CASE ~(Return(t) /\ UNCHANGED manager)
      <3>1. disk[f] \in Sizes /\ scan[t].todo \in SUBSET Files /\ scan[t].seen \in SUBSET Files
        BY <1>2, <2>2 DEF FlushNext, IsFile, ScanType
      <3>2. [size |-> disk[f], model |-> FALSE, todo |-> scan[t].todo \ {f},
             seen |-> scan[t].seen \cup {f}] \in ScanType
        BY <3>1 DEF ScanType
      <3>3. scan' \in [Tasks -> ScanType]
        BY <1>2, <2>2, <3>2 DEF FlushNext
      <3>4. /\ pc' = [pc EXCEPT ![t] = "FlushCheck"] /\ file' = [file EXCEPT ![t] = f]
            /\ UNCHANGED <<manager, mode, lock>>
        BY <1>2, <2>2 DEF FlushNext
      <3>5. QED
        BY <3>3, <3>4
    <2>3. QED
      BY <2>1, <2>2
  <1>3. ASSUME NEW f \in Files, FlushClean(t, f)
        PROVE  TypeInv'
    <2>1. scan' \in [Tasks -> ScanType]
      <3>1. scan[t] \in ScanType /\ scan[t].todo \ {f} \in SUBSET Files
        BY DEF ScanType
      <3>2. [scan[t] EXCEPT !.todo = scan[t].todo \ {f}] \in ScanType
        BY <3>1, ScanUpdate
      <3>3. QED
        BY <1>3, <3>2 DEF FlushClean
    <2>2. QED
      BY <1>3, <2>1, DeindexType DEF FlushClean
  <1>4. CASE FlushCheck(t)
    BY <1>4 DEF FlushCheck
  <1>5. CASE FlushUpdate(t)
    <2>1. entrySize' \in [Files -> Sizes]
      BY <1>5 DEF FlushUpdate, ScanType
    <2>2. CASE Goto(t, "FlushAnalyze")
      BY <1>5, <2>1, <2>2 DEF FlushUpdate, Goto
    <2>3. CASE NextFile(t)
      BY <1>5, <2>1, <2>3, NextFileType DEF FlushUpdate
    <2>4. QED
      BY <1>5, <2>2, <2>3 DEF FlushUpdate
  <1>6. ASSUME NEW ok \in BOOLEAN, Analyzed(t, ok), OnFile(t), pc[t] \in FlushPCs,
               disk' \in [Files -> Sizes \cup {Absent}], UNCHANGED <<entries, queue>>
        PROVE  TypeInv'
    <2>1. CASE mode[t] = "insert" \/ ok
      <3>1. scan' \in [Tasks -> ScanType]
        <4>1. [scan[t] EXCEPT !.model = ok] \in ScanType
          BY ScanUpdate
        <4>2. QED
          BY <1>6, <2>1, <4>1 DEF Analyzed
      <3>2. QED
        BY <1>6, <2>1, <3>1 DEF Analyzed
    <2>2. CASE NextFile(t)
      BY <1>6, <2>2, NextFileType
    <2>3. QED
      BY <1>6, <2>1, <2>2 DEF Analyzed
  <1>7. CASE FlushAnalyze(t)
    <2>1. disk' \in [Files -> Sizes \cup {Absent}]
      BY <1>7 DEF FlushAnalyze
    <2>2. QED
      BY <1>6, <1>7, <2>1 DEF FlushAnalyze, Goto
  <1>8. CASE FlushConvert(t)
    <2>1. disk' \in [Files -> Sizes \cup {Absent}]
      BY <1>8 DEF FlushConvert
    <2>2. QED
      BY <1>6, <1>8, <2>1 DEF FlushConvert
  <1>9. CASE FlushMeta(t)
    BY <1>9, NextFileType DEF FlushMeta
  <1>10. CASE FlushInsert(t)
    <2>1. file[t] \in Files /\ scan[t].size \in Sizes /\ scan[t].model \in BOOLEAN
      BY <1>10 DEF FlushInsert, ScanType
    <2>2. entryLock' \in [Files -> LockIds \cup {NoLock}] /\ entrySize' \in [Files -> Sizes]
          /\ entryModel' \in [Files -> BOOLEAN]
      BY <1>10, <2>1 DEF FlushInsert, Insert, FreshLocks
    <2>3. QED
      BY <1>10, <2>2, NextFileType DEF FlushInsert
  <1>11. CASE FlushZombies(t)
    <2>1. scan' \in [Tasks -> ScanType]
      <3>1. [scan[t] EXCEPT !.todo = {f \in Files : Indexed(f)} \ scan[t].seen, !.seen = {}] \in ScanType
        BY ScanUpdate
      <3>2. QED
        BY <1>11, <3>1 DEF FlushZombies
    <2>2. QED
      BY <1>11, <2>1 DEF FlushZombies
  <1>12. CASE FlushList(t)
    <2>1. scan' \in [Tasks -> ScanType]
      <3>1. [scan[t] EXCEPT !.seen = {f \in Files : Indexed(f) /\ entryModel[f]}] \in ScanType
        BY ScanUpdate
      <3>2. QED
        BY <1>12, <3>1 DEF FlushList
    <2>2. QED
      BY <1>12, <2>1 DEF FlushList
  <1>13. CASE FlushPublish(t)
    <2>1. scan[t].seen \in SUBSET Files /\ scan' \in [Tasks -> ScanType]
      BY <1>13, NoScanType DEF FlushPublish, Return, ScanType
    <2>2. QED
      BY <1>13, <2>1 DEF FlushPublish, Return
  <1>14. QED
    BY <1>1, <1>2, <1>3, <1>4, <1>5, <1>7, <1>8, <1>9, <1>10, <1>11, <1>12, <1>13 DEF FlushStep

\* Every step keeps the types.
LEMMA TypeStep == TypeInv /\ [Next]_vars => TypeInv'
  <1> SUFFICES ASSUME TypeInv, [Next]_vars PROVE TypeInv'
    OBVIOUS
  <1>1. ASSUME NEW t \in Tasks, TaskStep(t), MovedBy(t) PROVE TypeInv'
    BY <1>1, AcquireType, GuardType, RemovalType, FlushType DEF TaskStep
  <1>2. ASSUME NEW f \in Files, ExternalChange(f), alone' = [u \in Tasks |-> FALSE]
        PROVE  TypeInv'
    BY <1>2 DEF ExternalChange, TypeInv, TypeOK, FileKnown, OnFile, entries, locals
  <1>3. CASE UNCHANGED vars
    BY <1>3 DEF vars, manager, entries, locals, TypeInv, TypeOK, FileKnown, OnFile
  <1>4. QED
    BY <1>1, <1>2, <1>3 DEF Next

\* Every step of the manager, its callers and the users keeps the types: the
\* sizes in the index and the locals of a Flush stay sizes and known names,
\* and an operation on a file keeps its file.
THEOREM TypeCorrect == Spec => []TypeOK
  <1>1. TypeInv => TypeOK
    BY DEF TypeInv
  <1>2. QED
    BY InitType, TypeStep, <1>1, PTL DEF Spec

(***************************************************************************)
(* Every step that may touch the index, in the words of the index: it      *)
(* leaves the locks of the entries alone, drops one entry, or inserts one  *)
(* entry that was missing, with a lock object nobody refers to.            *)
(***************************************************************************)
InsertsMissing ==
    \E f \in Files, k \in FreshLocks :
        ~Indexed(f) /\ entryLock' = [entryLock EXCEPT ![f] = k]

\* What the steps do to the locks in the index.
LEMMA IndexSteps ==
  ASSUME TypeInv, [Next]_vars
  PROVE  \/ UNCHANGED entryLock
         \/ \E f \in Files : entryLock' = [entryLock EXCEPT ![f] = NoLock]
         \/ InsertsMissing
  <1> USE DEF manager, entries
  <1>1. CASE UNCHANGED vars
    BY <1>1 DEF vars
  <1>2. ASSUME NEW f \in Files, ExternalChange(f) PROVE UNCHANGED entryLock
    BY <1>2 DEF ExternalChange
  <1>3. ASSUME NEW t \in Tasks, AcquireStep(t) PROVE UNCHANGED entryLock \/ InsertsMissing
    <2>1. CASE InsertEntry(t)
      <3>1. file[t] \in Files
        BY <2>1 DEF InsertEntry, TypeInv, FileKnown, OnFile
      <3>2. QED
        BY <2>1, <3>1 DEF InsertEntry, Insert, InsertsMissing
    <2>2. CASE ~InsertEntry(t)
      BY <1>3, <2>2 DEF AcquireStep, Acquire_Read, Acquire_Write, Lookup, DiscoverStat
    <2>3. QED
      BY <2>1, <2>2
  <1>4. ASSUME NEW t \in Tasks, GuardStep(t) PROVE UNCHANGED entryLock
    BY <1>4 DEF GuardStep, LockOwned, GrantHead, WriteFile, DropReadGuard, DropWriteGuard, RefreshSize
  <1>5. ASSUME NEW t \in Tasks, RemovalStep(t)
        PROVE  UNCHANGED entryLock \/ \E f \in Files : entryLock' = [entryLock EXCEPT ![f] = NoLock]
    <2>1. CASE RemoveUnlink(t) \/ ExistsRecheck(t)
      <3>1. file[t] \in Files
        BY <2>1 DEF RemoveUnlink, ExistsRecheck, TypeInv, FileKnown, OnFile
      <3>2. QED
        BY <2>1, <3>1 DEF RemoveUnlink, ExistsRecheck, Deindex
    <2>2. CASE ~(RemoveUnlink(t) \/ ExistsRecheck(t))
      BY <1>5, <2>2 DEF RemovalStep, Remove, Exists, RemoveFast, RemoveProbe
    <2>3. QED
      BY <2>1, <2>2
  <1>6. ASSUME NEW t \in Tasks, FlushStep(t)
        PROVE  \/ UNCHANGED entryLock
               \/ \E f \in Files : entryLock' = [entryLock EXCEPT ![f] = NoLock]
               \/ InsertsMissing
    <2>1. CASE FlushInsert(t)
      <3>1. file[t] \in Files
        BY <2>1 DEF FlushInsert, TypeInv, FileKnown, OnFile
      <3>2. QED
        BY <2>1, <3>1 DEF FlushInsert, Insert, InsertsMissing
    <2>2. ASSUME NEW f \in Files, FlushClean(t, f)
          PROVE  UNCHANGED entryLock \/ entryLock' = [entryLock EXCEPT ![f] = NoLock]
      BY <2>2 DEF FlushClean, Deindex
    <2>3. CASE ~FlushInsert(t) /\ ~(\E f \in Files : FlushClean(t, f))
      BY <1>6, <2>3 DEF FlushStep, Flush, FlushNext, FlushCheck, FlushUpdate, FlushAnalyze,
                        FlushConvert, FlushMeta, FlushZombies, FlushList, FlushPublish
    <2>4. QED
      BY <2>1, <2>2, <2>3
  <1>7. QED
    BY <1>1, <1>2, <1>3, <1>4, <1>5, <1>6 DEF Next, TaskStep

\* No race between Lazy_Discover, Ensure_Entry and Flush exchanges the lock of
\* a file that stays indexed.
THEOREM EntryLockNeverExchanged == Spec => EntryLockStable
  <1>1. TypeInv /\ [Next]_vars =>
            \A f \in Files : entryLock[f] # NoLock /\ entryLock'[f] # NoLock => entryLock'[f] = entryLock[f]
    BY IndexSteps DEF TypeInv, TypeOK, InsertsMissing, Indexed
  <1>2. TypeInv /\ [Next]_vars =>
            [\A f \in Files : entryLock[f] # NoLock /\ entryLock'[f] # NoLock
                              => entryLock'[f] = entryLock[f]]_vars
    BY <1>1
  <1>3. Spec => []TypeInv
    BY InitType, TypeStep, PTL DEF Spec
  <1>4. QED
    BY <1>2, <1>3, PTL DEF Spec, EntryLockStable

(***************************************************************************)
(* The contract of the guards.  As long as entries only come into the      *)
(* index, a task that cloned the lock of an entry keeps the lock that the  *)
(* index has for its file; so two tasks with guards of one file have       *)
(* guards of one lock object.                                              *)
(***************************************************************************)
OnlyGuards == Ops \subseteq {"Acquire_Read", "Acquire_Write"} /\ ExternalFiles = {}

GuardPCs == {"Cloned", "Waiting", "Holding"}

GuardInv ==
    /\ TypeInv
    /\ \A t \in Tasks :
         /\ pc[t] \in {"Idle", "DiscoverStat", "InsertEntry"} \cup GuardPCs
         /\ pc[t] # "Idle" => mode[t] \in {"read", "write"}
         /\ pc[t] \in GuardPCs => lock[t] # NoLock /\ entryLock[file[t]] = lock[t]

\* Nobody holds a guard initially.
LEMMA InitGuard == Init => GuardInv
  BY InitType DEF Init, GuardInv, GuardPCs

\* GuardInv is inductive for callers that only acquire and drop.
LEMMA GuardInvStep ==
  ASSUME OnlyGuards, GuardInv, [Next]_vars
  PROVE  GuardInv'
  <1> USE DEF GuardInv, GuardPCs, manager, entries, locals
  <1>1. TypeInv /\ TypeInv'
    BY TypeStep
  <1>2. CASE UNCHANGED vars
    BY <1>1, <1>2 DEF vars
  <1>3. ASSUME NEW t \in Tasks, AcquireStep(t)
        PROVE  GuardInv'
    <2>1. ASSUME NEW f \in Files, NEW m \in {"read", "write"},
                 NEW miss \in {"DiscoverStat", "InsertEntry"}, Lookup(t, f, m, miss)
          PROVE  GuardInv'
      BY <1>1, <2>1 DEF Lookup, CloneLock, Begin, Indexed, TypeInv, TypeOK
    <2>2. CASE DiscoverStat(t)
      <3>1. CASE Return(t) /\ UNCHANGED manager
        BY <1>1, <2>2, <3>1 DEF Return, TypeInv, TypeOK
      <3>2. CASE ~(Return(t) /\ UNCHANGED manager)
        <4>1. /\ pc' = [pc EXCEPT ![t] = "InsertEntry"] /\ pc[t] = "DiscoverStat"
              /\ UNCHANGED <<manager, file, mode, lock>>
          BY <2>2, <3>2 DEF DiscoverStat
        <4>2. QED
          BY <1>1, <4>1 DEF TypeInv, TypeOK
      <3>3. QED
        BY <3>1, <3>2
    <2>3. CASE InsertEntry(t)
      <3>1. file[t] \in Files
        BY <2>3 DEF InsertEntry, TypeInv, FileKnown, OnFile
      <3>2. entryLock'[file[t]] # NoLock
        BY <2>3, <3>1, StorageConstants DEF InsertEntry, Insert, Indexed, FreshLocks, TypeInv, TypeOK
      <3>3. \A g \in Files : Indexed(g) => entryLock'[g] = entryLock[g]
        BY <2>3, <3>1 DEF InsertEntry, Insert, Indexed, TypeInv, TypeOK
      <3>4. \A u \in Tasks : u # t /\ pc[u] \in GuardPCs => file[u] \in Files /\ Indexed(file[u])
        BY DEF Indexed, TypeInv, FileKnown, OnFile
      <3>5. QED
        BY <1>1, <2>3, <3>1, <3>2, <3>3, <3>4 DEF InsertEntry, CloneLock, TypeInv, TypeOK
    <2>4. QED
      BY <1>3, <2>1, <2>2, <2>3 DEF AcquireStep, Acquire_Read, Acquire_Write
  <1>4. ASSUME NEW t \in Tasks, GuardStep(t)
        PROVE  GuardInv'
    BY <1>1, <1>4 DEF GuardStep, LockOwned, GrantHead, WriteFile, DropReadGuard, DropWriteGuard,
                      RefreshSize, Goto, Return, TypeInv, TypeOK
  <1>5. ASSUME NEW t \in Tasks, RemovalStep(t) \/ FlushStep(t)
        PROVE  FALSE
    BY <1>5 DEF OnlyGuards, RemovalStep, Remove, Exists, RemoveFast, RemoveProbe, RemoveUnlink,
                ExistsRecheck, FlushStep, Flush, FlushNext, FlushClean, FlushCheck, FlushUpdate,
                FlushAnalyze, FlushConvert, FlushMeta, FlushInsert, FlushZombies, FlushList,
                FlushPublish
  <1>6. ASSUME NEW f \in Files, ExternalChange(f)
        PROVE  FALSE
    BY <1>6 DEF OnlyGuards, ExternalChange
  <1>7. QED
    BY <1>2, <1>3, <1>4, <1>5, <1>6 DEF Next, TaskStep

\* A granted request meets the contract: every holder of a guard of the file
\* holds a guard of the same lock object.
LEMMA GrantMeetsContract ==
  ASSUME GuardInv, NEW t \in Tasks, pc[t] \in {"Cloned", "Waiting"}, Compatible(t, lock[t]),
         pc' = [pc EXCEPT ![t] = "Holding"], UNCHANGED <<disk, file, mode>>
  PROVE  Contract!Next
  <1> USE DEF GuardInv, GuardPCs
  <1>1. file[t] \in Files /\ mode[t] \in {"read", "write"}
    BY DEF TypeInv, FileKnown, OnFile
  <1>2. \A u \in Tasks : pc[u] = "Holding" /\ file[u] = file[t] => mode[t] = "read" /\ mode[u] = "read"
    BY DEF Compatible, Holders
  <1>3. PICK f \in Files, m \in {"read", "write"} : f = file[t] /\ m = mode[t]
    BY <1>1
  <1>4. Contract!Acquire(t, f, m)
    BY <1>1, <1>2, <1>3, StorageConstants DEF Contract!Acquire, TypeInv, TypeOK, FileKnown, OnFile
  <1>5. QED
    BY <1>4 DEF Contract!Next

\* Every step is one of the contract, or none.
LEMMA ContractStep ==
  ASSUME OnlyGuards, GuardInv, [Next]_vars
  PROVE  [Contract!Next]_Contract!contract
  <1> USE DEF GuardInv, GuardPCs, manager, entries, locals
  <1>1. CASE UNCHANGED vars
    BY <1>1 DEF vars, Contract!contract
  <1>2. ASSUME NEW t \in Tasks, AcquireStep(t)
        PROVE  UNCHANGED Contract!contract
    <2>1. UNCHANGED disk /\ pc[t] # "Holding"
      BY <1>2 DEF AcquireStep, Acquire_Read, Acquire_Write, Lookup, DiscoverStat, InsertEntry
    <2>2. \E where \in PCs \ {"Holding"} : pc' = [pc EXCEPT ![t] = where]
      BY <1>2 DEF AcquireStep, Acquire_Read, Acquire_Write, Lookup, DiscoverStat, InsertEntry,
                  Begin, CloneLock, Return, PCs, FlushPCs
    <2>3. /\ file' = [file EXCEPT ![t] = file'[t]]
          /\ mode' = [mode EXCEPT ![t] = mode'[t]]
      BY <1>2 DEF AcquireStep, Acquire_Read, Acquire_Write, Lookup, DiscoverStat, InsertEntry,
                  Begin, CloneLock, Return, TypeInv, TypeOK
    <2>4. QED
      BY <2>1, <2>2, <2>3 DEF Contract!contract, TypeInv, TypeOK
  <1>3. ASSUME NEW t \in Tasks, LockOwned(t)
        PROVE  [Contract!Next]_Contract!contract
    <2>1. CASE Compatible(t, lock[t]) /\ queue[lock[t]] = <<>>
      BY <1>3, <2>1, GrantMeetsContract DEF LockOwned, Goto
    <2>2. CASE ~(Compatible(t, lock[t]) /\ queue[lock[t]] = <<>>)
      BY <1>3, <2>2 DEF LockOwned, Goto, Contract!contract, TypeInv, TypeOK
    <2>3. QED
      BY <2>1, <2>2
  <1>4. ASSUME NEW t \in Tasks, GrantHead(t)
        PROVE  Contract!Next
    BY <1>4, GrantMeetsContract DEF GrantHead, Goto
  <1>5. ASSUME NEW t \in Tasks, NEW size \in Sizes, WriteFile(t, size)
        PROVE  Contract!Next
    <2>1. file[t] \in Files
      BY <1>5 DEF WriteFile, TypeInv, FileKnown, OnFile
    <2>2. Contract!Write(t, size)
      BY <1>5, <2>1, StorageConstants DEF WriteFile, Goto, Contract!Write, TypeInv, TypeOK
    <2>3. QED
      BY <2>2 DEF Contract!Next
  <1>6. ASSUME NEW t \in Tasks, DropReadGuard(t) \/ DropWriteGuard(t)
        PROVE  Contract!Next
    <2>1. pc[t] = "Holding" /\ UNCHANGED disk /\ Return(t)
      BY <1>6 DEF DropReadGuard, DropWriteGuard
    <2>2. file[t] \in Files
      BY <2>1 DEF TypeInv, FileKnown, OnFile
    <2>3. Contract!Release(t)
      BY <2>1, <2>2, StorageConstants DEF Return, Contract!Release, TypeInv, TypeOK
    <2>4. QED
      BY <2>3 DEF Contract!Next
  <1>7. ASSUME NEW t \in Tasks, RemovalStep(t) \/ FlushStep(t)
        PROVE  FALSE
    BY <1>7 DEF OnlyGuards, RemovalStep, Remove, Exists, RemoveFast, RemoveProbe, RemoveUnlink,
                ExistsRecheck, FlushStep, Flush, FlushNext, FlushClean, FlushCheck, FlushUpdate,
                FlushAnalyze, FlushConvert, FlushMeta, FlushInsert, FlushZombies, FlushList,
                FlushPublish
  <1>8. ASSUME NEW f \in Files, ExternalChange(f)
        PROVE  FALSE
    BY <1>8 DEF OnlyGuards, ExternalChange
  <1>9. QED
    BY <1>1, <1>2, <1>3, <1>4, <1>5, <1>6, <1>7, <1>8 DEF Next, TaskStep, GuardStep

\* Callers that only acquire and drop guards, in any number, over any files and
\* in any interleaving, get what Acquire_Read and Acquire_Write promise: one
\* reader/writer lock per file name, and a file changes only under its
\* WriteGuard.
THEOREM GuardsImplementContract ==
  ASSUME OnlyGuards
  PROVE  Spec => ImplementsContract
  <1>1. Init => Contract!Init
    BY DEF Init, Contract!Init
  <1>2. GuardInv /\ [Next]_vars => GuardInv'
    BY GuardInvStep
  <1>3. GuardInv /\ [Next]_vars => [Contract!Next]_Contract!contract
    BY ContractStep
  <1>4. QED
    BY InitGuard, <1>1, <1>2, <1>3, PTL DEF Spec, ImplementsContract, Contract!Spec

(***************************************************************************)
(* A Flush nobody disturbs and that converts nothing.  The invariant       *)
(* says of each point of the Flush how far the index agrees with the       *)
(* directory: the listing is what was seen and what is still to be read,   *)
(* the files read are mirrored except the one being worked on, and in the  *)
(* second phase an entry without a file is still to be looked at or in     *)
(* use.                                                                    *)
(***************************************************************************)
Mirrored(f) == Indexed(f) /\ entrySize[f] = disk[f]

\* Phase 1, between two files.
Listing(t) ==
    /\ scan[t].seen \cup scan[t].todo = {f \in Files : IsFile(f)}
    /\ \A f \in scan[t].seen : Mirrored(f) \/ (f = file[t] /\ pc[t] # "FlushNext")

\* Phase 1, on a file.
OnListed(t) ==
    /\ file[t] \in scan[t].seen /\ scan[t].size = disk[file[t]]
    /\ pc[t] = "FlushUpdate" => mode[t] = "update" /\ Indexed(file[t])
    /\ pc[t] = "FlushInsert" => ~Indexed(file[t])
    /\ pc[t] = "FlushMeta" => Mirrored(file[t])
    /\ pc[t] = "FlushAnalyze" => IF mode[t] = "insert" THEN ~Indexed(file[t]) ELSE Mirrored(file[t])

\* Phase 2, over the zombies.
Cleaning(t) ==
    /\ \A f \in Files : IsFile(f) => Mirrored(f) /\ f \notin scan[t].todo
    /\ \A f \in Files : Indexed(f) /\ ~IsFile(f) => f \in scan[t].todo \/ ~Unused(entryLock[f])

\* The end.
AllMirrored ==
    \A f \in Files :
        /\ IsFile(f) => Mirrored(f)
        /\ Indexed(f) /\ ~IsFile(f) => ~Unused(entryLock[f])

OnListedPCs == {"FlushCheck", "FlushUpdate", "FlushAnalyze", "FlushMeta", "FlushInsert"}

FlushView(t) ==
    /\ pc[t] \in FlushPCs \ {"FlushConvert"}
    /\ pc[t] = "FlushNext" => Listing(t)
    /\ pc[t] \in OnListedPCs => Listing(t) /\ OnListed(t)
    /\ pc[t] = "FlushClean" => Cleaning(t)
    /\ pc[t] = "FlushPublish" => AllMirrored

IdleClean == \A t \in Tasks : pc[t] = "Idle" => scan[t] = NoScan

FlushInv ==
    /\ TypeInv
    /\ IdleClean
    /\ \A t \in Tasks : alone[t] => FlushView(t)

\* An operation that returns drops its scan, and no other step of an idle task
\* touches it.
LEMMA IdleStep ==
  ASSUME TypeInv, IdleClean, [Next]_vars
  PROVE  IdleClean'
  <1> USE DEF TypeInv, TypeOK, IdleClean, manager, entries, locals
  <1>1. CASE UNCHANGED vars
    BY <1>1 DEF vars
  <1>2. ASSUME NEW f \in Files, ExternalChange(f) PROVE IdleClean'
    BY <1>2 DEF ExternalChange
  <1>3. ASSUME NEW t \in Tasks, Return(t) PROVE IdleClean'
    BY <1>3 DEF Return
  <1>4. ASSUME NEW t \in Tasks, NEW where \in PCs \ {"Idle"}, pc' = [pc EXCEPT ![t] = where],
               \A u \in Tasks : u # t => scan'[u] = scan[u]
        PROVE  IdleClean'
    BY <1>4
  <1>5. ASSUME NEW t \in Tasks, AcquireStep(t) PROVE IdleClean'
    BY <1>3, <1>4, <1>5 DEF AcquireStep, Acquire_Read, Acquire_Write, Lookup, DiscoverStat, InsertEntry,
                            CloneLock, Begin, PCs, FlushPCs
  <1>6. ASSUME NEW t \in Tasks, GuardStep(t) PROVE IdleClean'
    BY <1>3, <1>4, <1>6 DEF GuardStep, LockOwned, GrantHead, WriteFile, DropReadGuard, DropWriteGuard,
                            Goto, PCs, FlushPCs
  <1>7. ASSUME NEW t \in Tasks, RemovalStep(t) PROVE IdleClean'
    BY <1>3, <1>4, <1>7 DEF RemovalStep, Remove, Exists, RemoveFast, RemoveProbe, RemoveUnlink,
                            ExistsRecheck, Begin, Goto, PCs, FlushPCs
  <1>8. ASSUME NEW t \in Tasks, FlushStep(t) PROVE IdleClean'
    <2>1. ASSUME NEW f \in Files, FlushClean(t, f) PROVE IdleClean'
      BY <2>1 DEF FlushClean
    <2>2. CASE FlushAnalyze(t) \/ FlushConvert(t)
      BY <1>4, <2>2 DEF FlushAnalyze, FlushConvert, Analyzed, NextFile, Goto, PCs, FlushPCs
    <2>3. QED
      BY <1>3, <1>4, <1>8, <2>1, <2>2
         DEF FlushStep, Flush, FlushNext, FlushCheck, FlushUpdate, FlushMeta,
             FlushInsert, FlushZombies, FlushList, FlushPublish, Goto, NextFile, PCs, FlushPCs
  <1>9. QED
    BY <1>1, <1>2, <1>5, <1>6, <1>7, <1>8 DEF Next, TaskStep

\* Only Flush brings a task to a point of Flush.
LEMMA OthersNotFlushing ==
  ASSUME TypeInv, NEW t \in Tasks, AcquireStep(t) \/ GuardStep(t) \/ RemovalStep(t)
  PROVE  pc'[t] \notin FlushPCs
  <1> USE DEF TypeInv, TypeOK, manager, entries, locals, FlushPCs
  <1>1. CASE AcquireStep(t)
    BY <1>1 DEF AcquireStep, Acquire_Read, Acquire_Write, Lookup, DiscoverStat, InsertEntry,
                CloneLock, Begin, Return
  <1>2. CASE GuardStep(t)
    BY <1>2 DEF GuardStep, LockOwned, GrantHead, WriteFile, DropReadGuard, DropWriteGuard, Goto, Return
  <1>3. CASE RemovalStep(t)
    BY <1>3 DEF RemovalStep, Remove, Exists, RemoveFast, RemoveProbe, RemoveUnlink, ExistsRecheck,
                Begin, Goto, Return
  <1>4. QED
    BY <1>1, <1>2, <1>3

\* Each step of a Flush nobody disturbs brings the index closer to the
\* directory.
LEMMA FlushViewStep ==
  ASSUME TypeInv, TypeInv', IdleClean, NEW t \in Tasks, FlushStep(t),
         pc[t] = "Idle" \/ FlushView(t), pc'[t] \in FlushPCs \ {"FlushConvert"}
  PROVE  FlushView(t)'
  <1> USE DEF manager, entries, locals
  <1>t. /\ scan[t].seen \subseteq Files /\ scan[t].todo \subseteq Files
        /\ scan[t].size \in Sizes
        /\ scan[t] \in ScanType
    BY DEF TypeInv, TypeOK, ScanType
  <1>p. pc \in [Tasks -> PCs] /\ file \in [Tasks -> Files \cup {NoFile}] /\ mode \in [Tasks -> Modes]
        /\ scan \in [Tasks -> ScanType] /\ entryLock \in [Files -> LockIds \cup {NoLock}]
        /\ entrySize \in [Files -> Sizes]
    BY DEF TypeInv, TypeOK
  <1>n. ASSUME NextFile(t), UNCHANGED disk, Listing(t), \A g \in scan[t].seen : Mirrored(g)'
        PROVE  FlushView(t)'
    <2>1. scan'[t] = [scan[t] EXCEPT !.size = 0, !.model = FALSE] /\ pc'[t] = "FlushNext"
      BY <1>n, <1>p DEF NextFile
    <2>2. scan'[t].seen = scan[t].seen /\ scan'[t].todo = scan[t].todo
      BY <1>t, <2>1 DEF ScanType
    <2>3. Listing(t)'
      BY <1>t, <1>n, <2>1, <2>2 DEF Listing, IsFile
    <2>4. QED
      BY <2>1, <2>3 DEF FlushView, FlushPCs, OnListedPCs
  <1>1. CASE Flush(t)
    <2>1. scan[t].seen = {} /\ scan[t] = NoScan
      BY <1>1 DEF Flush, IdleClean, NoScan
    <2>2. scan'[t].todo = {f \in Files : IsFile(f)} /\ scan'[t].seen = {}
      BY <1>1, <1>p, <2>1 DEF Flush, ScanType
    <2>3. pc'[t] = "FlushNext" /\ UNCHANGED disk
      BY <1>1, <1>p DEF Flush
    <2>4. Listing(t)'
      BY <2>2, <2>3 DEF Listing, IsFile
    <2>5. QED
      BY <2>3, <2>4 DEF FlushView, FlushPCs, OnListedPCs
  <1>2. ASSUME NEW f \in Files, FlushNext(t, f)
        PROVE  FlushView(t)'
    <2>1. Listing(t) /\ pc[t] = "FlushNext"
      BY <1>2 DEF FlushNext, FlushView
    <2>2. IsFile(f)
      BY <1>2, <1>p DEF FlushNext, Return, FlushPCs
    <2>3. /\ scan'[t] = [size |-> disk[f], model |-> FALSE, todo |-> scan[t].todo \ {f},
                         seen |-> scan[t].seen \cup {f}]
          /\ pc'[t] = "FlushCheck" /\ file'[t] = f /\ f \in scan[t].todo
          /\ UNCHANGED <<disk, entryLock, entrySize>>
      BY <1>2, <1>p, <2>2 DEF FlushNext
    <2>4. scan'[t].size = disk[f] /\ scan'[t].todo = scan[t].todo \ {f}
          /\ scan'[t].seen = scan[t].seen \cup {f}
      BY <2>3
    <2>5. Listing(t)'
      BY <2>1, <2>3, <2>4 DEF Listing, IsFile, Mirrored, Indexed
    <2>6. OnListed(t)'
      BY <2>3, <2>4 DEF OnListed
    <2>7. QED
      BY <2>3, <2>5, <2>6 DEF FlushView, FlushPCs, OnListedPCs
  <1>3. ASSUME NEW f \in Files, FlushClean(t, f)
        PROVE  FlushView(t)'
    <2>1. Cleaning(t) /\ pc[t] = "FlushClean"
      BY <1>3 DEF FlushClean, FlushView
    <2>2. /\ scan'[t] = [scan[t] EXCEPT !.todo = @ \ {f}] /\ pc'[t] = "FlushClean"
          /\ f \in scan[t].todo /\ UNCHANGED disk
      BY <1>3, <1>p, <2>1 DEF FlushClean
    <2>3. scan'[t].todo = scan[t].todo \ {f} /\ scan'[t].seen = scan[t].seen
      BY <1>t, <2>2 DEF ScanType
    <2>4. ~IsFile(f)
      BY <2>1, <2>2 DEF Cleaning
    <2>5. \A g \in Files : g # f => entryLock'[g] = entryLock[g] /\ entrySize'[g] = entrySize[g]
      BY <1>3, <1>p DEF FlushClean, Deindex
    <2>6. entryLock'[f] = NoLock \/ (entryLock'[f] = entryLock[f] /\ ~Unused(entryLock[f]))
      BY <1>3, <1>p DEF FlushClean, Deindex, Indexed
    <2>7. \A g \in Files : IsFile(g) => Mirrored(g)'
      BY <2>1, <2>2, <2>4, <2>5 DEF Cleaning, Mirrored, Indexed, IsFile
    <2>8. \A g \in Files : entryLock'[g] # NoLock /\ disk[g] = Absent
                           => g \in scan'[t].todo \/ ~Unused(entryLock'[g])
      BY <2>1, <2>3, <2>5, <2>6 DEF Cleaning, Indexed, IsFile
    <2>9. \A g \in Files : entryLock'[g] # NoLock /\ disk[g] = Absent
                           => g \in scan'[t].todo \/ ~Unused(entryLock[g])'
      <3>1. \A g \in Files : entryLock'[g] \in LockIds \cup {NoLock}
        BY DEF TypeInv, TypeOK
      <3>2. UNCHANGED <<pc, lock, queue>>
        BY <1>3 DEF FlushClean
      <3>3. \A k : Unused(k)' = Unused(k)
        BY <3>2 DEF Unused, Holders
      <3>4. SUFFICES ASSUME NEW g \in Files, entryLock'[g] # NoLock, disk[g] = Absent,
                            g \notin scan'[t].todo
                     PROVE  ~Unused(entryLock[g])'
        OBVIOUS
      <3>5. ~Unused(entryLock'[g])
        BY <2>8, <3>4
      <3>6. QED
        BY <3>2, <3>5 DEF Unused, Holders
    <2>10. Cleaning(t)'
      BY <2>1, <2>2, <2>3, <2>7, <2>9 DEF Cleaning, Indexed, IsFile
    <2>11. QED
      BY <2>2, <2>10 DEF FlushView, FlushPCs, OnListedPCs
  <1>4. CASE FlushCheck(t)
    <2>1. Listing(t) /\ OnListed(t) /\ pc[t] = "FlushCheck"
      BY <1>4 DEF FlushCheck, FlushView, OnListedPCs
    <2>2. UNCHANGED <<disk, entryLock, entrySize, file, scan>>
      BY <1>4 DEF FlushCheck
    <2>3. \/ pc'[t] = "FlushUpdate" /\ mode'[t] = "update" /\ Indexed(file[t])
          \/ pc'[t] \in {"FlushAnalyze", "FlushInsert"} /\ mode'[t] = "insert" /\ ~Indexed(file[t])
      BY <1>4, <1>p DEF FlushCheck
    <2>4. Listing(t)'
      BY <2>1, <2>2, <2>3 DEF Listing, IsFile, Mirrored, Indexed
    <2>5. OnListed(t)'
      BY <2>1, <2>2, <2>3 DEF OnListed, Indexed
    <2>6. QED
      BY <2>3, <2>4, <2>5 DEF FlushView, FlushPCs, OnListedPCs
  <1>5. CASE FlushUpdate(t)
    <2>1. Listing(t) /\ OnListed(t) /\ pc[t] = "FlushUpdate" /\ Indexed(file[t]) /\ file[t] \in Files
      BY <1>5 DEF FlushUpdate, FlushView, OnListedPCs, OnListed, TypeInv, FileKnown, OnFile
    <2>2. UNCHANGED <<disk, entryLock>> /\ entrySize' = [entrySize EXCEPT ![file[t]] = disk[file[t]]]
      BY <1>5, <2>1 DEF FlushUpdate, OnListed
    <2>3. (entryLock'[file[t]] # NoLock /\ entrySize'[file[t]] = disk'[file[t]]) /\ mode[t] = "update"
      BY <1>p, <2>1, <2>2 DEF Indexed, OnListed
    <2>4. \A g \in Files : Mirrored(g) => Mirrored(g)'
      BY <1>p, <2>1, <2>2 DEF Mirrored, Indexed
    <2>5. CASE Goto(t, "FlushAnalyze")
      <3>1. UNCHANGED <<file, mode, scan>> /\ pc'[t] = "FlushAnalyze"
        BY <1>p, <2>5 DEF Goto
      <3>2. Mirrored(file[t])'
        BY <2>3, <3>1 DEF Mirrored, Indexed
      <3>3. Listing(t)'
        BY <1>t, <2>1, <2>2, <2>4, <3>1, <3>2 DEF Listing, IsFile
      <3>4. QED
        BY <2>1, <2>2, <2>3, <3>1, <3>2, <3>3 DEF FlushView, FlushPCs, OnListedPCs, OnListed
    <2>6. CASE NextFile(t)
      <3>1. \A g \in scan[t].seen : Mirrored(g)'
        BY <1>t, <2>1, <2>3, <2>4 DEF Listing, Mirrored, Indexed
      <3>2. QED
        BY <1>n, <2>1, <2>2, <2>6, <3>1
    <2>7. QED
      BY <1>5, <2>5, <2>6 DEF FlushUpdate
  <1>6. CASE FlushAnalyze(t)
    <2>1. Listing(t) /\ OnListed(t) /\ pc[t] = "FlushAnalyze"
      BY <1>6 DEF FlushAnalyze, FlushView, OnListedPCs
    <2>2. PICK ok \in BOOLEAN : Analyzed(t, ok) /\ UNCHANGED <<disk, entryLock, entrySize>>
      BY <1>6, <1>p DEF FlushAnalyze, Goto
    <2>3. CASE mode[t] = "insert" \/ ok
      <3>1. /\ UNCHANGED file
            /\ pc'[t] = IF mode[t] = "insert" THEN "FlushInsert" ELSE "FlushMeta"
            /\ scan'[t] = [scan[t] EXCEPT !.model = ok]
        BY <1>p, <2>2, <2>3 DEF Analyzed, NextFile
      <3>2. scan'[t].seen = scan[t].seen /\ scan'[t].todo = scan[t].todo /\ scan'[t].size = scan[t].size
        BY <1>t, <3>1 DEF ScanType
      <3>3. \/ mode[t] = "insert" /\ pc'[t] = "FlushInsert" /\ ~Indexed(file[t])
            \/ pc'[t] = "FlushMeta" /\ Mirrored(file[t])
        BY <2>1, <3>1 DEF OnListed
      <3>4. Listing(t)'
        BY <2>1, <2>2, <3>1, <3>2, <3>3 DEF Listing, IsFile, Mirrored, Indexed
      <3>5. OnListed(t)'
        BY <2>1, <2>2, <3>1, <3>2, <3>3 DEF OnListed, Mirrored, Indexed
      <3>6. QED
        BY <3>3, <3>4, <3>5 DEF FlushView, FlushPCs, OnListedPCs
    <2>4. CASE mode[t] # "insert" /\ NextFile(t)
      <3>1. \A g \in scan[t].seen : Mirrored(g)'
        BY <2>1, <2>2, <2>4 DEF Listing, OnListed, Mirrored, Indexed
      <3>2. QED
        BY <1>n, <2>1, <2>2, <2>4, <3>1
    <2>5. QED
      BY <2>2, <2>3, <2>4 DEF Analyzed
  <1>7. CASE FlushConvert(t)
    BY <1>7 DEF FlushConvert, FlushView
  <1>8. CASE FlushMeta(t)
    <2>1. Listing(t) /\ pc[t] = "FlushMeta" /\ Mirrored(file[t])
      BY <1>8 DEF FlushMeta, FlushView, OnListedPCs, OnListed
    <2>2. NextFile(t) /\ UNCHANGED <<disk, entryLock, entrySize>>
      BY <1>8 DEF FlushMeta
    <2>3. \A g \in scan[t].seen : Mirrored(g)'
      BY <2>1, <2>2 DEF Listing, Mirrored, Indexed
    <2>4. QED
      BY <1>n, <2>1, <2>2, <2>3
  <1>9. CASE FlushInsert(t)
    <2>1. Listing(t) /\ OnListed(t) /\ pc[t] = "FlushInsert" /\ ~Indexed(file[t]) /\ file[t] \in Files
      BY <1>9 DEF FlushInsert, FlushView, OnListedPCs, OnListed, TypeInv, FileKnown, OnFile
    <2>2. PICK k \in FreshLocks : /\ entryLock' = [entryLock EXCEPT ![file[t]] = k]
                                  /\ entrySize' = [entrySize EXCEPT ![file[t]] = disk[file[t]]]
      BY <1>9, <2>1 DEF FlushInsert, Insert, OnListed
    <2>3. NextFile(t) /\ UNCHANGED disk
      BY <1>9 DEF FlushInsert
    <2>4. k # NoLock
      BY <2>2, StorageConstants DEF FreshLocks
    <2>5. ASSUME NEW g \in scan[t].seen PROVE Mirrored(g)'
      <3>1. CASE g = file[t]
        BY <1>p, <2>1, <2>2, <2>3, <2>4, <3>1 DEF Mirrored, Indexed
      <3>2. CASE g # file[t]
        BY <1>p, <1>t, <2>1, <2>2, <2>3, <3>2 DEF Listing, Mirrored, Indexed
      <3>3. QED
        BY <3>1, <3>2
    <2>6. QED
      BY <1>n, <2>1, <2>3, <2>5
  <1>10. CASE FlushZombies(t)
    <2>1. Listing(t) /\ pc[t] = "FlushNext" /\ scan[t].todo = {}
      BY <1>10 DEF FlushZombies, FlushView
    <2>2. /\ scan'[t] = [scan[t] EXCEPT !.todo = {f \in Files : Indexed(f)} \ scan[t].seen, !.seen = {}]
          /\ pc'[t] = "FlushClean" /\ UNCHANGED <<disk, entryLock, entrySize>>
      BY <1>10, <1>p DEF FlushZombies
    <2>3. scan'[t].todo = {f \in Files : Indexed(f)} \ scan[t].seen
      BY <1>t, <2>2 DEF ScanType
    <2>4. scan[t].seen = {f \in Files : IsFile(f)} /\ \A f \in scan[t].seen : Mirrored(f)
      BY <2>1 DEF Listing
    <2>5. Cleaning(t)'
      BY <2>2, <2>3, <2>4 DEF Cleaning, IsFile, Mirrored, Indexed
    <2>6. QED
      BY <2>2, <2>5 DEF FlushView, FlushPCs, OnListedPCs
  <1>11. CASE FlushList(t)
    <2>1. Cleaning(t) /\ pc[t] = "FlushClean" /\ scan[t].todo = {}
      BY <1>11 DEF FlushList, FlushView
    <2>2. pc'[t] = "FlushPublish" /\ UNCHANGED <<disk, entryLock, entrySize>>
      BY <1>11, <1>p DEF FlushList
    <2>3. \A g \in Files : entryLock[g] # NoLock => Unused(entryLock[g])' = Unused(entryLock[g])
      <3>1. UNCHANGED <<entryLock, queue, lock>>
        BY <1>11 DEF FlushList
      <3>2. \A k : Holders(k)' = Holders(k)
        BY <1>11, <1>p, <2>1 DEF FlushList, Holders
      <3>3. QED
        BY <3>1, <3>2 DEF Unused, Holders
    <2>4. AllMirrored'
      BY <2>1, <2>2, <2>3 DEF Cleaning, AllMirrored, IsFile, Mirrored, Indexed
    <2>5. QED
      BY <2>2, <2>4 DEF FlushView, FlushPCs, OnListedPCs
  <1>12. CASE FlushPublish(t)
    BY <1>12, <1>p DEF FlushPublish, Return, FlushPCs
  <1>13. QED
    BY <1>1, <1>2, <1>3, <1>4, <1>5, <1>6, <1>7, <1>8, <1>9, <1>10, <1>11, <1>12 DEF FlushStep

\* FlushInv is inductive: any step but its own ends a task's solitude.
LEMMA FlushInvStep ==
  ASSUME FlushInv, [Next]_vars
  PROVE  FlushInv'
  <1>1. TypeInv /\ TypeInv' /\ IdleClean /\ IdleClean'
    BY TypeStep, IdleStep DEF FlushInv
  <1>2. CASE UNCHANGED vars
    <2>1. \A t \in Tasks : FlushView(t) => FlushView(t)'
      BY <1>2 DEF vars, manager, entries, locals, FlushView, Listing, OnListed, Cleaning, AllMirrored,
                  Mirrored, Indexed, IsFile, Unused, Holders
    <2>2. QED
      BY <1>1, <1>2, <2>1 DEF FlushInv, vars
  <1>3. ASSUME NEW f \in Files, alone' = [u \in Tasks |-> FALSE]
        PROVE  FlushInv'
    BY <1>1, <1>3 DEF FlushInv
  <1>4. ASSUME NEW t \in Tasks, TaskStep(t), MovedBy(t)
        PROVE  FlushInv'
    <2>1. SUFFICES ASSUME NEW u \in Tasks, alone'[u] PROVE FlushView(u)'
      BY <1>1 DEF FlushInv
    <2>2. u = t /\ pc'[t] \in FlushPCs \ {"FlushConvert"} /\ (alone[t] \/ pc[t] = "Idle")
      BY <1>4, <2>1 DEF MovedBy
    <2>3. FlushStep(t)
      BY <1>1, <1>4, <2>2, OthersNotFlushing DEF TaskStep
    <2>4. pc[t] = "Idle" \/ FlushView(t)
      BY <2>2 DEF FlushInv
    <2>5. QED
      BY <1>1, <2>2, <2>3, <2>4, FlushViewStep
  <1>5. QED
    BY <1>2, <1>3, <1>4 DEF Next

\* A Flush that nobody disturbs leaves the index equal to the directory,
\* whatever files, entries, sizes and guards it starts from: unless it begins
\* to convert a raw .gguf on the way, its directory listing, its per-file
\* sections and its clean-up miss no file and keep no entry of a missing one
\* that is unused.
THEOREM FlushAloneMirrors == Spec => []FlushMirrorsDisk
  <1>1. Init => FlushInv
    BY InitType DEF Init, FlushInv, IdleClean
  <1>2. FlushInv /\ [Next]_vars => FlushInv'
    BY FlushInvStep
  <1>3. FlushInv => FlushMirrorsDisk
    BY DEF FlushInv, FlushView, FlushMirrorsDisk, AllMirrored, Mirrored
  <1>4. QED
    BY <1>1, <1>2, <1>3, PTL DEF Spec

=============================================================================
