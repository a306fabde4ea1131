------------------------------- MODULE Storage -------------------------------
(***************************************************************************)
(* The storage manager (Src/Storage/storage_manager.rs): an index of files *)
(* under one directory, one reader/writer lock object per index entry, and *)
(* the tasks (Lua scripts, session tasks, the file-stream receiver) that   *)
(* call it concurrently.                                                   *)
(*                                                                         *)
(* `files` (an async RwLock around the index) is held across an await by   *)
(* Remove, between its probe of the file lock and the end of the unlink,   *)
(* which are two steps here, and by Exists, while it stats the file; as    *)
(* nobody sees the index meanwhile, stat and removal of the entry are one  *)
(* step.  Every other section under it runs without yielding and is one    *)
(* atomic step, too.  The lock objects are reference counted: an entry     *)
(* that leaves the index leaves its lock object to the tasks that cloned   *)
(* it, and a new entry for the same name gets a new object.                *)
(***************************************************************************)
EXTENDS Integers, Sequences, FiniteSets

CONSTANTS Files,          \* names Resolve_Path accepts
          Tasks,          \* concurrent callers of the storage manager
          LockIds,        \* identities of the Arc<RwLock<()>> objects
          NoLock, NoFile, \* "none" values
          MaxSize,        \* bound on file sizes
          ModelFiles,     \* names ending in .gguf or .pgguf
          Convertible,    \* raw .gguf names, converted when analyzed
          PggufOf,        \* the .pgguf name a raw .gguf is converted into
          ExternalFiles,  \* names that users also create or delete by hand
          OnDisk,         \* files found in base_dir when the manager starts
          Ops             \* the operations the callers use

ASSUME StorageConstants ==
    /\ NoLock \notin LockIds
    /\ NoFile \notin Files
    /\ MaxSize \in Nat
    /\ ModelFiles \subseteq Files
    /\ Convertible \subseteq ModelFiles
    /\ PggufOf \in [Convertible -> ModelFiles \ Convertible]
    /\ ExternalFiles \subseteq Files
    /\ OnDisk \subseteq Files
    /\ Ops \subseteq {"Acquire_Read", "Acquire_Write", "Remove", "Exists", "Flush"}

VARIABLES
    disk,        \* what is in base_dir: the size of each file, or Absent
    entryLock,   \* the index: the lock of each entry, NoLock if not indexed
    entrySize,   \* FileEntry.size
    entryModel,  \* whether the entry carries model metadata
    queue,       \* FIFO of tasks waiting for each lock
    pc,          \* where each task is in its operation
    file,        \* the file the task's operation is about
    mode,        \* what the task wants with it
    lock,        \* the lock object the task has cloned
    scan,        \* the locals of Lazy_Discover and Flush
    alone        \* history: no other task moved since this task's Flush began

entries == <<entryLock, entrySize, entryModel>>
manager == <<disk, entries, queue>>
locals  == <<file, mode, lock, scan>>
vars    == <<manager, pc, locals, alone>>

Absent == -1
Sizes  == 0..MaxSize
Modes  == {"none", "read", "write", "update", "insert"}
FlushPCs == {"FlushNext", "FlushCheck", "FlushUpdate", "FlushAnalyze", "FlushConvert",
             "FlushMeta", "FlushInsert", "FlushClean", "FlushPublish"}
PCs == {"Idle", "DiscoverStat", "InsertEntry", "Cloned",
        "Waiting", "Holding", "RemoveFast", "RemoveProbe", "RemoveUnlink",
        "ExistsRecheck"} \cup FlushPCs

NoScan == [size |-> 0, model |-> FALSE, todo |-> {}, seen |-> {}]

(***************************************************************************)
(* The index and the locks.                                                *)
(***************************************************************************)
Indexed(f) == entryLock[f] # NoLock
IsFile(f)  == disk[f] # Absent

\* The `files` lock can be taken: no Remove is between its probe and its end.
FilesFree == \A t \in Tasks : pc[t] # "RemoveUnlink"

\* An Arc is alive as long as the index or a task refers to it.
LiveLocks == {entryLock[f] : f \in Files} \cup {lock[t] : t \in Tasks}
FreshLocks == LockIds \ LiveLocks

Holders(k) == {t \in Tasks : pc[t] = "Holding" /\ lock[t] = k}

\* read_owned succeeds beside readers, write_owned only on an unheld lock.
Compatible(t, k) ==
    \A u \in Holders(k) : mode[t] = "read" /\ mode[u] = "read"

\* try_write_owned: no guard is held and nobody is queued for one.
Unused(k) == Holders(k) = {} /\ queue[k] = <<>>

Insert(f, size, model) ==
    \E k \in FreshLocks :
        /\ entryLock'  = [entryLock EXCEPT ![f] = k]
        /\ entrySize'  = [entrySize EXCEPT ![f] = size]
        /\ entryModel' = [entryModel EXCEPT ![f] = model]

Deindex(f) ==
    /\ entryLock'  = [entryLock EXCEPT ![f] = NoLock]
    /\ entrySize'  = [entrySize EXCEPT ![f] = 0]
    /\ entryModel' = [entryModel EXCEPT ![f] = FALSE]

\* The task goes on at the given point with its locals unchanged.
Goto(t, where) ==
    /\ pc' = [pc EXCEPT ![t] = where]
    /\ UNCHANGED locals

\* Flush goes on to the next file.
NextFile(t) ==
    /\ pc'   = [pc EXCEPT ![t] = "FlushNext"]
    /\ file' = [file EXCEPT ![t] = NoFile]
    /\ mode' = [mode EXCEPT ![t] = "none"]
    /\ scan' = [scan EXCEPT ![t].size = 0, ![t].model = FALSE]
    /\ UNCHANGED lock

\* The operation returns: its locals are dropped.
Return(t) ==
    /\ pc'   = [pc EXCEPT ![t] = "Idle"]
    /\ file' = [file EXCEPT ![t] = NoFile]
    /\ mode' = [mode EXCEPT ![t] = "none"]
    /\ lock' = [lock EXCEPT ![t] = NoLock]
    /\ scan' = [scan EXCEPT ![t] = NoScan]

\* The operation starts on file f and goes on at the given point.
Begin(t, f, m, where) ==
    /\ pc'   = [pc EXCEPT ![t] = where]
    /\ file' = [file EXCEPT ![t] = f]
    /\ mode' = [mode EXCEPT ![t] = m]
    /\ UNCHANGED <<lock, scan>>

\* Arc::clone of the entry's lock, as it is after the step.
CloneLock(t, f, m) ==
    /\ pc'   = [pc EXCEPT ![t] = "Cloned"]
    /\ file' = [file EXCEPT ![t] = f]
    /\ mode' = [mode EXCEPT ![t] = m]
    /\ lock' = [lock EXCEPT ![t] = entryLock'[f]]
    /\ scan' = [scan EXCEPT ![t] = NoScan]

(***************************************************************************)
(* New: scan base_dir, one entry with a fresh lock per file.               *)
(***************************************************************************)
Init ==
    /\ disk \in [Files -> Sizes \cup {Absent}]
    /\ \A f \in Files : disk[f] # Absent <=> f \in OnDisk
    /\ entryLock \in [Files -> LockIds \cup {NoLock}]
    /\ \A f \in Files : entryLock[f] # NoLock <=> disk[f] # Absent
    /\ \A f, g \in Files : f # g /\ entryLock[f] # NoLock => entryLock[f] # entryLock[g]
    /\ entrySize = [f \in Files |-> IF disk[f] = Absent THEN 0 ELSE disk[f]]
    /\ entryModel = [f \in Files |-> FALSE]
    /\ queue = [k \in LockIds |-> <<>>]
    /\ pc   = [t \in Tasks |-> "Idle"]
    /\ file = [t \in Tasks |-> NoFile]
    /\ mode = [t \in Tasks |-> "none"]
    /\ lock = [t \in Tasks |-> NoLock]
    /\ scan = [t \in Tasks |-> NoScan]
    /\ alone = [t \in Tasks |-> FALSE]

\* The first look into the index, under files.read(): clone the lock of the
\* entry, or go on outside the lock.
Lookup(t, f, m, miss) ==
    /\ pc[t] = "Idle" /\ FilesFree
    /\ UNCHANGED manager
    /\ \/ Indexed(f) /\ CloneLock(t, f, m)
       \/ ~Indexed(f) /\ Begin(t, f, m, miss)

\* Acquire_Read starts with Lazy_Discover, Acquire_Write with Ensure_Entry.
Acquire_Read(t, f)  == "Acquire_Read" \in Ops /\ Lookup(t, f, "read", "DiscoverStat")
Acquire_Write(t, f) == "Acquire_Write" \in Ops /\ Lookup(t, f, "write", "InsertEntry")

\* Lazy_Discover: fs::metadata outside the `files` lock; or NotFound.
DiscoverStat(t) ==
    /\ pc[t] = "DiscoverStat"
    /\ \/ ~IsFile(file[t]) /\ Return(t)
       \/ /\ IsFile(file[t])
          /\ pc'   = [pc EXCEPT ![t] = "InsertEntry"]
          /\ scan' = [scan EXCEPT ![t].size = disk[file[t]]]
          /\ UNCHANGED <<file, mode, lock>>
    /\ UNCHANGED manager

\* Wrong variant: the index is not looked at again under the write lock.
InsertEntryBlindly(t) ==
    /\ pc[t] = "InsertEntry" /\ FilesFree
    /\ Insert(file[t], scan[t].size, FALSE)
    /\ CloneLock(t, file[t], mode[t])
    /\ UNCHANGED <<disk, queue>>

\* files.write() with the double check of Lazy_Discover and Ensure_Entry (the
\* latter inserts size 0, which is what scan[t].size is without a stat).
InsertEntry(t) ==
    /\ pc[t] = "InsertEntry" /\ FilesFree
    /\ IF Indexed(file[t]) THEN UNCHANGED entries
                           ELSE Insert(file[t], scan[t].size, FALSE)
    /\ CloneLock(t, file[t], mode[t])
    /\ UNCHANGED <<disk, queue>>

(***************************************************************************)
(* The guards.  tokio's RwLock is fair: a request that cannot be granted,  *)
(* or that finds others waiting, joins the FIFO of its lock.               *)
(***************************************************************************)
LockOwned(t) ==
    /\ pc[t] = "Cloned"
    /\ \/ /\ Compatible(t, lock[t]) /\ queue[lock[t]] = <<>>
          /\ Goto(t, "Holding")
          /\ UNCHANGED queue
       \/ /\ ~(Compatible(t, lock[t]) /\ queue[lock[t]] = <<>>)
          /\ Goto(t, "Waiting")
          /\ queue' = [queue EXCEPT ![lock[t]] = Append(@, t)]
    /\ UNCHANGED <<disk, entries>>

\* Wrong variant: a lock that wakes whichever waiter fits first.
GrantAnyWaiter(t) ==
    /\ pc[t] = "Waiting"
    /\ Compatible(t, lock[t])
    /\ Goto(t, "Holding")
    /\ queue' = [queue EXCEPT ![lock[t]] = SelectSeq(@, LAMBDA u : u # t)]
    /\ UNCHANGED <<disk, entries>>

GrantHead(t) ==
    /\ pc[t] = "Waiting"
    /\ Compatible(t, lock[t])
    /\ queue[lock[t]] # <<>> /\ t = Head(queue[lock[t]])
    /\ Goto(t, "Holding")
    /\ queue' = [queue EXCEPT ![lock[t]] = Tail(@)]
    /\ UNCHANGED <<disk, entries>>

\* The holder of a WriteGuard creates, truncates or extends the file.
WriteFile(t, size) ==
    /\ pc[t] = "Holding" /\ mode[t] = "write"
    /\ disk' = [disk EXCEPT ![file[t]] = size]
    /\ Goto(t, "Holding")
    /\ UNCHANGED <<entries, queue>>

\* Drop of a ReadGuard (also the end of Checksum, which reads under one).
DropReadGuard(t) ==
    /\ pc[t] = "Holding" /\ mode[t] = "read"
    /\ Return(t)
    /\ UNCHANGED manager

\* Wrong variant: the size is taken from a stat that may have failed.
RefreshSizeUnchecked(f) ==
    /\ entrySize' = IF Indexed(f) THEN [entrySize EXCEPT ![f] = disk[f]] ELSE entrySize
    /\ UNCHANGED <<entryLock, entryModel>>

\* The on_drop callback: stat the file and refresh its size in the index.
RefreshSize(f) ==
    /\ entrySize' = IF Indexed(f) /\ IsFile(f)
                    THEN [entrySize EXCEPT ![f] = disk[f]]
                    ELSE entrySize
    /\ UNCHANGED <<entryLock, entryModel>>

\* Another task may be inside a section under the `files` lock at this
\* moment: any that is not waiting for a file lock or holding one (an idle
\* one may be in List).
FilesContended(t) ==
    \E u \in Tasks \ {t} : pc[u] \notin {"Cloned", "Waiting", "Holding"}

\* Drop of a WriteGuard: on_drop uses try_write on `files`, and skips the
\* refresh when that fails; then the lock is released.
DropWriteGuard(t) ==
    /\ pc[t] = "Holding" /\ mode[t] = "write"
    /\ \/ FilesFree /\ RefreshSize(file[t])
       \/ FilesContended(t) /\ UNCHANGED entries
    /\ Return(t)
    /\ UNCHANGED <<disk, queue>>

(***************************************************************************)
(* Remove.                                                                 *)
(***************************************************************************)
Remove(t, f) ==
    /\ "Remove" \in Ops /\ pc[t] = "Idle" /\ FilesFree
    /\ Begin(t, f, "none", IF Indexed(f) THEN "RemoveProbe" ELSE "RemoveFast")
    /\ UNCHANGED manager

\* The fast path, for a name that was not indexed: unlink without any lock.
\* A failing remove_file leaves the file (StorageError::Io).
RemoveFast(t) ==
    /\ pc[t] = "RemoveFast"
    /\ disk' \in {disk, [disk EXCEPT ![file[t]] = Absent]}
    /\ Return(t)
    /\ UNCHANGED <<entries, queue>>

\* files.write(), look up again, probe the file lock with try_write_owned and
\* drop the probe; InUse when somebody has or awaits the lock.
RemoveProbe(t) ==
    /\ pc[t] = "RemoveProbe" /\ FilesFree
    /\ \/ Indexed(file[t]) /\ Unused(entryLock[file[t]]) /\ Goto(t, "RemoveUnlink")
       \/ ~(Indexed(file[t]) /\ Unused(entryLock[file[t]])) /\ Return(t)
    /\ UNCHANGED manager

\* remove_file and files.remove, still under files.write(); when remove_file
\* fails for another reason than NotFound the entry stays.
RemoveUnlink(t) ==
    /\ pc[t] = "RemoveUnlink"
    /\ \/ disk' = [disk EXCEPT ![file[t]] = Absent] /\ Deindex(file[t])
       \/ IsFile(file[t]) /\ UNCHANGED <<disk, entries>>
    /\ Return(t)
    /\ UNCHANGED <<queue>>

(***************************************************************************)
(* Exists.                                                                 *)
(***************************************************************************)
Exists(t, f) ==
    /\ "Exists" \in Ops /\ pc[t] = "Idle" /\ FilesFree
    /\ Indexed(f) /\ ~IsFile(f)   \* otherwise it answers at once
    /\ Begin(t, f, "none", "ExistsRecheck")
    /\ UNCHANGED manager

\* files.write(), look and stat again, drop the zombie entry; the file's own
\* lock is not consulted.
ExistsRecheck(t) ==
    /\ pc[t] = "ExistsRecheck" /\ FilesFree
    /\ IF Indexed(file[t]) /\ ~IsFile(file[t]) THEN Deindex(file[t])
                                               ELSE UNCHANGED entries
    /\ Return(t)
    /\ UNCHANGED <<disk, queue>>

(***************************************************************************)
(* Flush.  scan[t].todo is first the directory listing still to be read,   *)
(* later the zombies still to be cleaned; scan[t].seen is disk_files, and  *)
(* in the end the list of models for the peer manager.                     *)
(***************************************************************************)
Flush(t) ==
    /\ "Flush" \in Ops /\ pc[t] = "Idle"
    /\ pc'   = [pc EXCEPT ![t] = "FlushNext"]
    /\ scan' = [scan EXCEPT ![t].todo = {f \in Files : IsFile(f)}]
    /\ UNCHANGED <<manager, file, mode, lock>>

\* next_entry and metadata; a file that vanished since the listing ends the
\* Flush with an error.
FlushNext(t, f) ==
    /\ pc[t] = "FlushNext"
    /\ f \in scan[t].todo
    /\ \/ ~IsFile(f) /\ Return(t)
       \/ /\ IsFile(f)
          /\ pc'   = [pc EXCEPT ![t] = "FlushCheck"]
          /\ file' = [file EXCEPT ![t] = f]
          /\ scan' = [scan EXCEPT ![t] = [size |-> disk[f], model |-> FALSE,
                                          todo |-> @.todo \ {f},
                                          seen |-> @.seen \cup {f}]]
          /\ UNCHANGED <<mode, lock>>
    /\ UNCHANGED manager

\* Is the file indexed?  Then it is refreshed, otherwise inserted, after the
\* analysis if it is a model.
FlushCheck(t) ==
    /\ pc[t] = "FlushCheck" /\ FilesFree
    /\ \/ /\ Indexed(file[t])
          /\ pc'   = [pc EXCEPT ![t] = "FlushUpdate"]
          /\ mode' = [mode EXCEPT ![t] = "update"]
       \/ /\ ~Indexed(file[t])
          /\ pc'   = [pc EXCEPT ![t] = IF file[t] \in ModelFiles THEN "FlushAnalyze"
                                                                 ELSE "FlushInsert"]
          /\ mode' = [mode EXCEPT ![t] = "insert"]
    /\ UNCHANGED <<manager, file, lock, scan>>

\* Wrong variant: an indexed file keeps the size it had.
FlushUpdateNoSize(t) ==
    /\ pc[t] = "FlushUpdate" /\ FilesFree
    /\ IF file[t] \in ModelFiles THEN Goto(t, "FlushAnalyze") ELSE NextFile(t)
    /\ UNCHANGED manager

FlushUpdate(t) ==
    /\ pc[t] = "FlushUpdate" /\ FilesFree
    /\ entrySize' = IF Indexed(file[t]) THEN [entrySize EXCEPT ![file[t]] = scan[t].size]
                                        ELSE entrySize
    /\ IF file[t] \in ModelFiles THEN Goto(t, "FlushAnalyze") ELSE NextFile(t)
    /\ UNCHANGED <<disk, entryLock, entryModel, queue>>

\* Where Flush goes after analyze_model.
Analyzed(t, ok) ==
    \/ /\ mode[t] = "insert" \/ ok
       /\ pc' = [pc EXCEPT ![t] = IF mode[t] = "insert" THEN "FlushInsert" ELSE "FlushMeta"]
       /\ scan' = [scan EXCEPT ![t].model = ok]
       /\ UNCHANGED <<file, mode, lock>>
    \/ /\ mode[t] # "insert" /\ ~ok
       /\ NextFile(t)

\* analyze_model (GGUF_Analyze_And_Convert), without any guard: it fails, it
\* finds the metadata in place, or it writes the .pgguf next to a raw .gguf.
FlushAnalyze(t) ==
    /\ pc[t] = "FlushAnalyze"
    /\ \/ Analyzed(t, FALSE) /\ UNCHANGED disk
       \/ /\ IsFile(file[t]) /\ file[t] \notin Convertible
          /\ Analyzed(t, TRUE) /\ UNCHANGED disk
       \/ /\ IsFile(file[t]) /\ file[t] \in Convertible
          /\ \E size \in Sizes : disk' = [disk EXCEPT ![PggufOf[file[t]]] = size]
          /\ Goto(t, "FlushConvert")
    /\ UNCHANGED <<entries, queue>>

\* The conversion ends by deleting the original, or fails on the way (the
\* copy broke off, or the original is gone already) and leaves what it wrote.
FlushConvert(t) ==
    /\ pc[t] = "FlushConvert"
    /\ \/ /\ IsFile(file[t])
          /\ disk' = [disk EXCEPT ![file[t]] = Absent]
          /\ Analyzed(t, TRUE)
       \/ UNCHANGED disk /\ Analyzed(t, FALSE)
    /\ UNCHANGED <<entries, queue>>

FlushMeta(t) ==
    /\ pc[t] = "FlushMeta" /\ FilesFree
    /\ entryModel' = IF Indexed(file[t]) THEN [entryModel EXCEPT ![file[t]] = TRUE]
                                         ELSE entryModel
    /\ NextFile(t)
    /\ UNCHANGED <<disk, entryLock, entrySize, queue>>

\* files.write() with the double check of Flush.
FlushInsert(t) ==
    /\ pc[t] = "FlushInsert" /\ FilesFree
    /\ IF Indexed(file[t]) THEN UNCHANGED entries
                           ELSE Insert(file[t], scan[t].size, scan[t].model)
    /\ NextFile(t)
    /\ UNCHANGED <<disk, queue>>

\* Phase 2: the indexed names the scan did not see.
FlushZombies(t) ==
    /\ pc[t] = "FlushNext"
    /\ scan[t].todo = {}
    /\ FilesFree
    /\ pc'   = [pc EXCEPT ![t] = "FlushClean"]
    /\ scan' = [scan EXCEPT ![t].todo = {f \in Files : Indexed(f)} \ scan[t].seen, ![t].seen = {}]
    /\ UNCHANGED <<manager, file, mode, lock>>

\* One zombie: removed from the index unless its lock is in use.  The disk is
\* not looked at again.
FlushClean(t, f) ==
    /\ pc[t] = "FlushClean"
    /\ f \in scan[t].todo
    /\ FilesFree
    /\ IF Indexed(f) /\ Unused(entryLock[f]) THEN Deindex(f) ELSE UNCHANGED entries
    /\ pc'   = pc
    /\ scan' = [scan EXCEPT ![t].todo = @ \ {f}]
    /\ UNCHANGED <<disk, queue, file, mode, lock>>

\* Sync_Models_To_Peer_Manager, first half: List the entries with metadata.
FlushList(t) ==
    /\ pc[t] = "FlushClean"
    /\ scan[t].todo = {}
    /\ FilesFree
    /\ pc'   = [pc EXCEPT ![t] = "FlushPublish"]
    /\ scan' = [scan EXCEPT ![t].seen = {f \in Files : Indexed(f) /\ entryModel[f]}]
    /\ UNCHANGED <<manager, file, mode, lock>>

\* Second half: Update_Supported_Models of the local peer with that list, which
\* PeerTable models; Flush returns.
FlushPublish(t) ==
    /\ pc[t] = "FlushPublish"
    /\ Return(t)
    /\ UNCHANGED manager

(***************************************************************************)
(* Users put files into base_dir, or delete them, behind the manager.      *)
(***************************************************************************)
ExternalChange(f) ==
    /\ f \in ExternalFiles
    /\ \E size \in Sizes \cup {Absent} :
           (size = Absent) # (disk[f] = Absent) /\ disk' = [disk EXCEPT ![f] = size]
    /\ UNCHANGED <<entries, queue, pc, locals>>

AcquireStep(t) ==
    \/ \E f \in Files : Acquire_Read(t, f) \/ Acquire_Write(t, f)
    \/ DiscoverStat(t) \/ InsertEntry(t)

GuardStep(t) ==
    \/ LockOwned(t) \/ GrantHead(t)
    \/ \E size \in Sizes : WriteFile(t, size)
    \/ DropReadGuard(t) \/ DropWriteGuard(t)

RemovalStep(t) ==
    \/ \E f \in Files : Remove(t, f) \/ Exists(t, f)
    \/ RemoveFast(t) \/ RemoveProbe(t) \/ RemoveUnlink(t) \/ ExistsRecheck(t)

FlushStep(t) ==
    \/ Flush(t)
    \/ \E f \in Files : FlushNext(t, f) \/ FlushClean(t, f)
    \/ FlushCheck(t) \/ FlushUpdate(t) \/ FlushAnalyze(t) \/ FlushConvert(t)
    \/ FlushMeta(t) \/ FlushInsert(t) \/ FlushZombies(t) \/ FlushList(t)
    \/ FlushPublish(t)

TaskStep(t) == AcquireStep(t) \/ GuardStep(t) \/ RemovalStep(t) \/ FlushStep(t)

\* History: a task is alone from the start of its Flush until another task,
\* or a user, moves, or its own scan converts a file of the directory it lists.
MovedBy(t) ==
    alone' = [u \in Tasks |-> /\ u = t /\ pc'[u] \in FlushPCs \ {"FlushConvert"}
                              /\ alone[u] \/ pc[u] = "Idle"]

Next ==
    \/ \E t \in Tasks : TaskStep(t) /\ MovedBy(t)
    \/ \E f \in Files : ExternalChange(f) /\ alone' = [u \in Tasks |-> FALSE]

Spec == Init /\ [][Next]_vars

(***************************************************************************)
(* Fairness.  The runtime keeps polling a task that can go on, and both    *)
(* the `files` lock and the file locks are tokio RwLocks, which serve      *)
(* their waiters in FIFO order: a task that can go on again and again does *)
(* so.  Guards are dropped at the end of their scope; no task is forced to *)
(* start an operation or to write.                                         *)
(***************************************************************************)
Progress(t) ==
    /\ pc[t] # "Idle"
    /\ \/ DiscoverStat(t) \/ InsertEntry(t)
       \/ LockOwned(t) \/ GrantHead(t) \/ DropReadGuard(t) \/ DropWriteGuard(t)
       \/ RemovalStep(t) \/ FlushStep(t)
    /\ MovedBy(t)

FairSpec == Spec /\ \A t \in Tasks : SF_vars(Progress(t))

(***************************************************************************)
(* Properties.                                                             *)
(***************************************************************************)
ScanType == [size : Sizes, model : BOOLEAN, todo : SUBSET Files, seen : SUBSET Files]

\* Every variable has its type: sizes within bounds, names and lock objects
\* that exist, tasks at points of the code.
TypeOK ==
    /\ disk \in [Files -> Sizes \cup {Absent}]
    /\ entryLock \in [Files -> LockIds \cup {NoLock}]
    /\ entrySize \in [Files -> Sizes]
    /\ entryModel \in [Files -> BOOLEAN]
    /\ queue \in [LockIds -> Seq(Tasks)]
    /\ pc \in [Tasks -> PCs]
    /\ file \in [Tasks -> Files \cup {NoFile}]
    /\ mode \in [Tasks -> Modes]
    /\ lock \in [Tasks -> LockIds \cup {NoLock}]
    /\ scan \in [Tasks -> ScanType]
    /\ alone \in [Tasks -> BOOLEAN]

\* The lock of an indexed file is never exchanged for another while the file
\* stays indexed: the double checks of Lazy_Discover, Ensure_Entry and Flush
\* keep two tasks that both missed the entry from both inserting one.
EntryLockStable ==
    [][\A f \in Files :
          entryLock[f] # NoLock /\ entryLock'[f] # NoLock => entryLock'[f] = entryLock[f]]_vars

\* A Flush that nobody disturbs, and that converts nothing, leaves the index
\* equal to the directory: each file is indexed with its size, and an entry
\* without a file is one whose lock is in use (the doc comment of StorageCapability::Flush).
FlushMirrorsDisk ==
    \A t \in Tasks :
        pc[t] = "FlushPublish" /\ alone[t] =>
            \A f \in Files :
                /\ IsFile(f) => Indexed(f) /\ entrySize[f] = disk[f]
                /\ Indexed(f) /\ ~IsFile(f) => ~Unused(entryLock[f])

\* Every operation ends, if guards are dropped: no reader or writer starves
\* in the queue of a file lock, and the `files` lock and the file locks are
\* never waited for in a circle.
OperationsEnd == \A t \in Tasks : pc[t] # "Idle" ~> pc[t] = "Idle"

\* While callers only acquire and drop guards, the manager implements the
\* contract of its guards: one reader/writer lock per file name, and no change
\* of a file except by the holder of its WriteGuard.
Contract == INSTANCE StorageContract
    WITH Contents <- Sizes \cup {Absent},
         guarded  <- [t \in Tasks |-> IF pc[t] = "Holding" THEN file[t] ELSE NoFile],
         access   <- [t \in Tasks |-> IF pc[t] = "Holding" THEN mode[t] ELSE "none"]

ImplementsContract == Contract!Spec

\* "同一时刻只能有一个 WriteGuard（排他写）" (guard.rs:20): at most one WriteGuard
\* for a file at any time.
OneWriteGuard ==
    \A t, u \in Tasks :
        pc[t] = "Holding" /\ pc[u] = "Holding" /\ file[t] = file[u]
        /\ mode[t] = "write" /\ mode[u] = "write" => t = u

=============================================================================
