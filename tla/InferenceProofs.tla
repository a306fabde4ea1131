--------------------------- MODULE InferenceProofs ---------------------------
(***************************************************************************)
(* Proofs about Inference: its types, that a session gets the answers to   *)
(* its tensors in the order it sent them, that every stage reads the       *)
(* stream of the stage before it, and that the answers are the logits of   *)
(* the whole model; for any number of sessions, nodes, workers, files and  *)
(* tensors and whatever goes wrong.                                        *)
(*                                                                         *)
(* The first argument is about the one frame a thread has under way        *)
(* (IInv). A tensor is sent into the pipeline only when none of its        *)
(* streams holds a frame, a worker takes one frame and passes one on, and  *)
(* the coordinator takes the last. A stage reads only streams of its own   *)
(* thread, as the rendezvous matches ids and no two threads have the       *)
(* same.                                                                   *)
(*                                                                         *)
(* The second is about who meets whom (LInv): a node has one stage of a    *)
(* thread, so that node and id name the stage.                             *)
(*                                                                         *)
(* The third is about the data (CInv): the frame is what the layers up to  *)
(* its sender make of the tensor, and a worker has the caches of the       *)
(* tensors it has passed on.                                               *)
(***************************************************************************)
EXTENDS Inference, FiniteSetTheorems, WellFoundedInduction, TLAPS

\* No two threads have an id in common.  The sessions of one node are counted
\* (SessionManager::create), so it holds of them; sessions of two nodes may
\* have the same number, and then meet in the rendezvous of a third.
DistinctIds == \A t, u \in Threads : sid[t] = sid[u] => t = u

\* A program reads streams of its own session only: the id in the handshake of
\* a stream says whose it is, on whichever node stream and program meet.
OwnStreams == \A s \in Stages : reads[s] # None => reads[s][1] = s[1]

(***************************************************************************)
(* The inductive invariant.                                                *)
(***************************************************************************)
CoordPcs  == {"pipeline_coord", "offload_pingpong", "dispatch", "register", "accept", "connect",
              "preload", "loop", "wait", "second", "restore", "ended"}
WorkerPcs == {"absent", "load", "register", "accept", "open", "loop", "ended"}
Unplanned == {"pipeline_coord", "offload_pingpong", "preload", "second", "restore"}
Idle      == Programs \cup {"absent", "ended"}

PcI ==
    /\ pc \in [Stages -> CoordPcs \cup WorkerPcs]
    /\ \A s \in Stages : /\ s[2] = 0 => pc[s] \in CoordPcs
                         /\ pc[s] = "pipeline_coord" => pc[s] \in Programs
                         /\ pc[s] = "offload_pingpong" => pc[s] \in Programs
                         /\ s[2] # 0 => pc[s] \in WorkerPcs

\* A stage that was started, or has a stream, is in the plan of its thread.
PlanI ==
    /\ DOMAIN plan = Threads
    /\ \A t \in Threads :
          /\ Len(plan[t]) \in 0..MaxStages /\ DOMAIN plan[t] = 1..Len(plan[t])
          /\ \A i \in DOMAIN plan[t] : plan[t][i].peer \in Nodes
          /\ pc[<<t, 0>>] \in Unplanned => plan[t] = <<>>
    /\ \A s \in Stages :
          pc[s] # "absent" \/ stream[s].at # "none" => s[2] <= Len(plan[s[1]])

\* A coordinator loads no model.
ModelI ==
    /\ DOMAIN sess = Stages
    /\ \A s \in Stages : pc[s] \in Idle => sess[s] = <<new, new>>
    /\ \A t \in Threads :
          plan[t] # <<>> \/ pc[<<t, 0>>] = "dispatch" => sess[<<t, 0>>] = <<new, new>>

\* Streams are read by stages of the thread that opened them.
StreamI ==
    /\ DOMAIN stream = Stages
    /\ \A s \in Stages : /\ DOMAIN stream[s] = {"at", "q", "open", "read"}
                         /\ stream[s].at \in {"none", "flying", "pending", "read"}
ReadI ==
    /\ reads \in [Stages -> Stages \cup {None}]
    /\ pending_inbound \in [Slots -> Stages \cup {None}]
    /\ pending_accept \in [Slots -> Stages \cup {None}]
    /\ \A s \in Stages : reads[s] # None => reads[s][1] = s[1]
    /\ \A k \in Slots : pending_inbound[k] # None => /\ sid[pending_inbound[k][1]] = k[2]
                                                     /\ stream[pending_inbound[k]].at # "none"
    /\ \A k \in Slots : pending_accept[k] # None => sid[pending_accept[k][1]] = k[2]

\* The streams of a thread hold one frame at most, and only while its
\* coordinator waits for it or has ended.
AtMostOne(q) == q = <<>> \/ q = <<q[1]>>
FrameI ==
    /\ \A s \in Stages : /\ AtMostOne(stream[s].q)
                         /\ stream[s].q # <<>> => pc[<<s[1], 0>>] \in {"wait", "ended"}
    /\ \A s, u \in Stages :
          s[1] = u[1] /\ stream[s].q # <<>> /\ stream[u].q # <<>> => s = u

IsList(q) == q \in Seq({q[i] : i \in DOMAIN q})
AskI ==
    /\ open \in [Threads -> BOOLEAN] /\ stale \in [Threads -> 0..MaxStale]
    /\ DOMAIN asked = Threads /\ DOMAIN answered = Threads /\ DOMAIN work = Threads
    /\ \A t \in Threads :
          /\ asked[t] \in Seq(Nat \X Nat) /\ Len(asked[t]) <= MaxFrames
          /\ \A i \in 1..Len(asked[t]) : asked[t][i][1] >= 1 /\ asked[t][i][1] + asked[t][i][2] <= i
          /\ IsList(answered[t]) /\ Len(answered[t]) <= Len(asked[t])

\* What is under way belongs to the next tensor to be answered.
OrderI ==
    /\ \A t \in Threads : \A k \in 1..Len(answered[t]) : answered[t][k].chunk = asked[t][k]
    /\ \A t \in Threads : pc[<<t, 0>>] \in {"wait", "second"} => Waiting(t)
    /\ \A t \in Threads : pc[<<t, 0>>] = "second" => work[t].chunk = NextAsked(t)
    /\ \A s \in Stages : pc[<<s[1], 0>>] = "wait" /\ stream[s].q # <<>>
                            => stream[s].q[1].chunk = NextAsked(s[1])

IInv == PcI /\ PlanI /\ ModelI /\ StreamI /\ ReadI /\ FrameI /\ AskI /\ OrderI

(***************************************************************************)
(* Lists, and the least element of a set of numbers.                       *)
(***************************************************************************)
LEMMA LeastIn ==
    ASSUME NEW S, S \subseteq Nat, S # {}
    PROVE  Min(S) \in S /\ \A y \in S : Min(S) <= y
<1>1. \E x \in S : \A y \in S : <<y, x>> \notin OpToRel(<, Nat)
  BY NatLessThanWellFounded, WFMin, Zenon
<1>2. \A x, y \in Nat : <<y, x>> \notin OpToRel(<, Nat) => x <= y
  <2> SUFFICES ASSUME NEW x \in Nat, NEW y \in Nat, ~(x <= y)
               PROVE  <<y, x>> \in OpToRel(<, Nat)
    OBVIOUS
  <2>1. <<y, x>> \in Nat \X Nat /\ y < x
    OBVIOUS
  <2> QED BY <2>1 DEF OpToRel
<1>3. \E x \in S : \A y \in S : x <= y
  BY <1>1, <1>2
<1> QED BY <1>3 DEF Min

LEMMA Lists ==
    /\ IsList(<<>>) /\ Len(<<>>) = 0 /\ DOMAIN <<>> = {} /\ AtMostOne(<<>>)
    /\ \A x : Append(<<>>, x) = <<x>> /\ Tail(<<x>>) = <<>> /\ Head(<<x>>) = x
              /\ AtMostOne(<<x>>) /\ <<x>> # <<>> /\ <<x>>[1] = x /\ Len(<<x>>) = 1
<1>1. IsList(<<>>) /\ Len(<<>>) = 0 /\ DOMAIN <<>> = {} /\ AtMostOne(<<>>)
  BY DEF IsList, AtMostOne
<1>2. ASSUME NEW x
      PROVE  Append(<<>>, x) = <<x>> /\ Tail(<<x>>) = <<>> /\ Head(<<x>>) = x
              /\ AtMostOne(<<x>>) /\ <<x>> # <<>> /\ <<x>>[1] = x /\ Len(<<x>>) = 1
  <2>1. <<>> \in Seq({x}) /\ <<x>> \in Seq({x})
    OBVIOUS
  <2> QED BY <2>1 DEF AtMostOne
<1> QED BY <1>1, <1>2

LEMMA ListAppend ==
    ASSUME NEW q, IsList(q), NEW x
    PROVE  /\ IsList(Append(q, x)) /\ Len(q) \in Nat /\ Len(Append(q, x)) = Len(q) + 1
           /\ DOMAIN q = 1..Len(q) /\ DOMAIN Append(q, x) = 1..(Len(q) + 1)
           /\ Append(q, x)[Len(q) + 1] = x
           /\ \A i \in 1..Len(q) : Append(q, x)[i] = q[i]
<1> DEFINE S == {q[i] : i \in DOMAIN q} \cup {x}
<1>1. q \in Seq(S)
  BY DEF IsList
<1>2. Append(q, x) \in Seq(S)
  BY <1>1
<1>3. /\ Len(q) \in Nat /\ Len(Append(q, x)) = Len(q) + 1
      /\ DOMAIN q = 1..Len(q) /\ DOMAIN Append(q, x) = 1..(Len(q) + 1)
      /\ Append(q, x)[Len(q) + 1] = x
      /\ \A i \in 1..Len(q) : Append(q, x)[i] = q[i]
  <2> HIDE DEF S
  <2>1. x \in S
    BY DEF S
  <2> QED BY <1>1, <2>1
<1>4. IsList(Append(q, x))
  <2> DEFINE r == Append(q, x)
  <2> HIDE DEF r, S
  <2>0. r \in Seq(S)
    BY <1>2 DEF r
  <2>1. r \in [1..Len(r) -> S] /\ Len(r) \in Nat
    BY <2>0
  <2>2. r \in [1..Len(r) -> {r[i] : i \in DOMAIN r}]
    BY <2>1
  <2>3. r \in Seq({r[i] : i \in DOMAIN r})
    BY <2>1, <2>2
  <2> QED BY <2>3 DEF IsList, r
<1> QED BY <1>3, <1>4

LEMMA ListFacts ==
    ASSUME NEW q, IsList(q)
    PROVE  Len(q) \in Nat /\ DOMAIN q = 1..Len(q)
BY DEF IsList

\* What a model computes of a tensor belongs to the chunk of the tensor.
LEMMA ForwardKeepsChunk ==
    ASSUME NEW s, NEW x, forward(s, x).ok
    PROVE  forward(s, x).out.chunk = x.chunk
<1> DEFINE f == GGUF_Model_Inference(s.model, x)
<1>1. ~(s.model = None \/ f = None)
  BY DEF forward, Err
<1>2. f = Forward(s.model, x)
  BY <1>1 DEF GGUF_Model_Inference
<1>3. Forward(s.model, x).out.chunk = x.chunk
  BY Zenon DEF Forward
<1>4. forward(s, x).out = f.out
  BY <1>1 DEF forward
<1> QED BY <1>2, <1>3, <1>4

(***************************************************************************)
(* The plan: as many workers as there is room for, on nodes.               *)
(***************************************************************************)
LEMMA FiniteImage ==
    ASSUME NEW S, IsFiniteSet(S), NEW T, NEW f \in [S -> T], T = {f[x] : x \in S}
    PROVE  IsFiniteSet(T)
<1>1. f \in Surjection(S, T)
  BY DEF Surjection
<1> QED BY <1>1, FS_Surjection

LEMMA RemoteFinite ==
    ASSUME NEW t \in Threads, NEW held \in Placements
    PROVE  /\ IsFiniteSet(Remote(t, held))
           /\ \A e \in Remote(t, held) : e.peer \in Nodes
<1>1. ASSUME NEW n \in Nodes
      PROVE  IsFiniteSet(Listed(n, held[n])) /\ \A e \in Listed(n, held[n]) : e.peer = n
  <2> DEFINE F == held[n]
             f == [G \in Groups(F) |-> [peer |-> n, file |-> Widest(G)]]
  <2>1. IsFiniteSet(0..LastLayer)
    BY FS_Interval, GgufConstants DEF LastLayer
  <2>2. IsFiniteSet(F)
    BY <2>1, FS_Product, FS_Subset, InferenceConstants
  <2>3. Groups(F) \in SUBSET SUBSET F
    BY DEF Groups
  <2>4. IsFiniteSet(SUBSET F)
    BY <2>2, FS_SUBSET
  <2>5. IsFiniteSet(Groups(F))
    BY <2>3, <2>4, FS_Subset
  <2>6. f \in [Groups(F) -> Listed(n, F)] /\ Listed(n, F) = {f[G] : G \in Groups(F)}
    BY DEF Listed
  <2>7. IsFiniteSet(Listed(n, F))
    <3> HIDE DEF f, F
    <3> QED BY <2>5, <2>6, FiniteImage
  <2>8. \A e \in Listed(n, F) : e.peer = n
    BY DEF Listed
  <2> QED BY <2>7, <2>8
<1>2. IsFiniteSet({Listed(n, held[n]) : n \in Nodes})
  <2> DEFINE f == [n \in Nodes |-> Listed(n, held[n])]
             T == {Listed(n, held[n]) : n \in Nodes}
  <2>1. f \in [Nodes -> T] /\ T = {f[n] : n \in Nodes}
    OBVIOUS
  <2>2. IsFiniteSet(Nodes)
    BY InferenceConstants
  <2> HIDE DEF f, T
  <2>3. IsFiniteSet(T)
    BY <2>1, <2>2, FiniteImage
  <2> QED BY <2>3 DEF T
<1>3. IsFiniteSet(UNION {Listed(n, held[n]) : n \in Nodes})
  <2> DEFINE U == {Listed(n, held[n]) : n \in Nodes}
  <2>1. \A T \in U : IsFiniteSet(T)
    BY <1>1
  <2> QED BY <1>2, <2>1, FS_UNION
<1>4. IsFiniteSet(Remote(t, held))
  BY <1>3, FS_Subset DEF Remote, list_model_peers
<1> QED BY <1>1, <1>4 DEF Remote, list_model_peers

LEMMA OrdersFit ==
    ASSUME NEW t \in Threads, NEW held \in Placements, NEW o \in Orders(t, held)
    PROVE  /\ Len(Assign(o)) \in 0..MaxStages /\ DOMAIN Assign(o) = 1..Len(Assign(o))
           /\ \A i \in DOMAIN Assign(o) : Assign(o)[i].peer \in Nodes
<1> DEFINE n == Cardinality(Remote(t, held))
<1>1. n \in Nat /\ n <= MaxStages
  BY RemoteFinite, FS_CardinalityType, StagesAssumption
<1>2. o \in [1..n -> Remote(t, held)]
  BY DEF Orders, SetToSeqs
<1>3. /\ DOMAIN Assign(o) = 1..n
      /\ \A i \in 1..n : Assign(o)[i].peer = o[i].peer
  BY <1>2 DEF Assign
<1>4. Len(Assign(o)) = n
  <2> HIDE DEF n
  <2>1. DOMAIN Assign(o) = DOMAIN o
    BY DEF Assign
  <2>2. Len(Assign(o)) \in Nat /\ DOMAIN Assign(o) = 1..Len(Assign(o))
    BY <1>1, <1>3
  <2> QED BY <1>1, <1>3, <2>2
<1>5. MaxStages \in Nat
  BY InferenceConstants
<1>6. \A i \in 1..n : o[i].peer \in Nodes
  BY <1>2, RemoteFinite
<1> QED BY <1>1, <1>3, <1>4, <1>5, <1>6

(***************************************************************************)
(* The invariant holds at first.                                           *)
(***************************************************************************)
LEMMA StageFacts ==
    /\ \A s \in Stages : /\ s = <<s[1], s[2]>> /\ s[1] \in Threads /\ s[2] \in 0..MaxStages
                         /\ <<s[1], 0>> \in Stages
    /\ \A t \in Threads : <<t, 0>> \in Stages /\ \A i \in 0..MaxStages : <<t, i>> \in Stages
    /\ \A t \in Threads : <<t, 0>>[1] = t /\ <<t, 0>>[2] = 0
    /\ MaxStages \in Nat
BY InferenceConstants DEF Stages

LEMMA InitInv == Init => IInv
<1> SUFFICES ASSUME Init PROVE IInv
  OBVIOUS
<1>1. PICK p \in [Threads -> Programs] :
          pc = [s \in Stages |-> IF s[2] = 0 THEN p[s[1]] ELSE "absent"]
  BY DEF Init
<1>2. \A s \in Stages : IF s[2] = 0 THEN pc[s] \in Programs /\ pc[s] \in {"pipeline_coord", "offload_pingpong"}
                                    ELSE pc[s] = "absent"
  BY <1>1, StageFacts, InferenceConstants
<1>3. PcI
  BY <1>1, <1>2 DEF PcI, CoordPcs, WorkerPcs
<1>4. PlanI
  <2>1. plan = [t \in Threads |-> <<>>] /\ \A s \in Stages : stream[s].at = "none"
    BY DEF Init, Closed
  <2>2. \A s \in Stages : pc[s] # "absent" => s[2] = 0
    BY <1>2
  <2> QED BY <2>1, <2>2, Lists, StageFacts DEF PlanI
<1>5. ModelI
  BY StageFacts DEF Init, ModelI
<1>6. StreamI
  BY DEF Init, StreamI, Closed
<1>7. ReadI
  BY DEF Init, ReadI
<1>8. \A s \in Stages : stream[s].q = <<>>
  BY DEF Init, Closed
<1>9. FrameI
  BY <1>8, Lists DEF FrameI
<1>10. AskI
  BY Lists, InferenceConstants DEF Init, AskI
<1>11. OrderI
  <2>1. \A t \in Threads : pc[<<t, 0>>] \in {"pipeline_coord", "offload_pingpong"}
    BY <1>2, StageFacts
  <2>2. \A t \in Threads : Len(answered[t]) = 0
    BY Lists DEF Init
  <2> QED BY <1>8, <2>1, <2>2, StageFacts DEF OrderI
<1> QED BY <1>3, <1>4, <1>5, <1>6, <1>7, <1>9, <1>10, <1>11 DEF IInv

(***************************************************************************)
(* A stage that goes on, with its own state only.                          *)
(***************************************************************************)
LEMMA PcMoves ==
    ASSUME DOMAIN pc = Stages, NEW s \in Stages, NEW p, pc' = [pc EXCEPT ![s] = p]
    PROVE  /\ pc'[s] = p /\ DOMAIN pc' = Stages
           /\ \A x \in Stages : x # s => pc'[x] = pc[x]
           /\ \A u \in Threads : <<u, 0>> # s => pc'[<<u, 0>>] = pc[<<u, 0>>]
           /\ \A u \in Threads : <<u, 0>> = s <=> u = s[1] /\ s[2] = 0
BY StageFacts

\* Where a stage may go.
Fits0(s, p) ==
    IF s[2] = 0 THEN p \in CoordPcs \ {"pipeline_coord", "offload_pingpong"}
    ELSE p \in WorkerPcs \ {"absent"}

LEMMA PcStep ==
    ASSUME PcI, NEW s \in Stages, NEW p, pc' = [pc EXCEPT ![s] = p], Fits0(s, p)
    PROVE  PcI'
<1>0. DOMAIN pc = Stages
  BY DEF PcI
<1>1. pc'[s] = p /\ DOMAIN pc' = Stages /\ \A x \in Stages : x # s => pc'[x] = pc[x]
  BY <1>0, PcMoves
<1> SUFFICES ASSUME NEW x \in Stages
             PROVE  /\ x[2] = 0 => pc'[x] \in CoordPcs
                    /\ pc'[x] = "pipeline_coord" => pc'[x] \in Programs
                    /\ pc'[x] = "offload_pingpong" => pc'[x] \in Programs
                    /\ x[2] # 0 => pc'[x] \in WorkerPcs
  BY <1>1 DEF PcI
<1>2. CASE x = s
  BY <1>1, <1>2 DEF Fits0, CoordPcs, WorkerPcs
<1>3. CASE x # s
  BY <1>1, <1>3 DEF PcI
<1> QED BY <1>2, <1>3

LEMMA PlanStep ==
    ASSUME PcI, PlanI, NEW s \in Stages, NEW p, pc' = [pc EXCEPT ![s] = p], UNCHANGED plan,
           s[2] <= Len(plan[s[1]]),
           s[2] = 0 /\ p \in Unplanned => plan[s[1]] = <<>>,
           \A x \in Stages : x # s => stream'[x].at = stream[x].at \/ stream[x].at # "none"
    PROVE  PlanI'
<1>0. DOMAIN pc = Stages
  BY DEF PcI
<1>1. /\ pc'[s] = p /\ \A x \in Stages : x # s => pc'[x] = pc[x]
      /\ \A u \in Threads : <<u, 0>> # s => pc'[<<u, 0>>] = pc[<<u, 0>>]
      /\ \A u \in Threads : <<u, 0>> = s <=> u = s[1] /\ s[2] = 0
  BY <1>0, PcMoves
<1>2. \A t \in Threads : pc'[<<t, 0>>] \in Unplanned => plan[t] = <<>>
  <2> SUFFICES ASSUME NEW t \in Threads, pc'[<<t, 0>>] \in Unplanned PROVE plan[t] = <<>>
    OBVIOUS
  <2>1. CASE <<t, 0>> = s
    BY <1>1, <2>1
  <2>2. CASE <<t, 0>> # s
    BY <1>1, <2>2 DEF PlanI
  <2> QED BY <2>1, <2>2
<1>3. \A x \in Stages : pc'[x] # "absent" \/ stream'[x].at # "none" => x[2] <= Len(plan[x[1]])
  <2> SUFFICES ASSUME NEW x \in Stages, pc'[x] # "absent" \/ stream'[x].at # "none"
               PROVE  x[2] <= Len(plan[x[1]])
    OBVIOUS
  <2>1. CASE x = s
    BY <2>1
  <2>2. CASE x # s
    BY <1>1, <2>2 DEF PlanI
  <2> QED BY <2>1, <2>2
<1> QED BY <1>2, <1>3 DEF PlanI

LEMMA ModelStep ==
    ASSUME PcI, ModelI, NEW s \in Stages, NEW p, pc' = [pc EXCEPT ![s] = p], UNCHANGED plan,
           DOMAIN sess' = Stages, \A x \in Stages : x # s => sess'[x] = sess[x],
           p = "ended" => sess'[s] = <<new, new>>, Fits0(s, p),
           s[2] = 0 /\ (plan[s[1]] # <<>> \/ p = "dispatch") => sess'[s] = <<new, new>>
    PROVE  ModelI'
<1>0. DOMAIN pc = Stages
  BY DEF PcI
<1>1. /\ pc'[s] = p /\ \A x \in Stages : x # s => pc'[x] = pc[x]
      /\ \A u \in Threads : <<u, 0>> # s => pc'[<<u, 0>>] = pc[<<u, 0>>]
      /\ \A u \in Threads : <<u, 0>> = s <=> u = s[1] /\ s[2] = 0
  BY <1>0, PcMoves
<1>2. p \in Idle => p = "ended"
  BY InferenceConstants DEF Fits0, Idle, CoordPcs, WorkerPcs
<1>3. \A x \in Stages : pc'[x] \in Idle => sess'[x] = <<new, new>>
  <2> SUFFICES ASSUME NEW x \in Stages, pc'[x] \in Idle PROVE sess'[x] = <<new, new>>
    OBVIOUS
  <2>1. CASE x = s
    BY <1>1, <1>2, <2>1
  <2>2. CASE x # s
    BY <1>1, <2>2 DEF ModelI
  <2> QED BY <2>1, <2>2
<1>4. \A t \in Threads : plan[t] # <<>> \/ pc'[<<t, 0>>] = "dispatch" => sess'[<<t, 0>>] = <<new, new>>
  <2> SUFFICES ASSUME NEW t \in Threads, plan[t] # <<>> \/ pc'[<<t, 0>>] = "dispatch"
               PROVE  sess'[<<t, 0>>] = <<new, new>>
    OBVIOUS
  <2>1. CASE <<t, 0>> = s
    BY <1>1, <2>1
  <2>2. CASE <<t, 0>> # s
    BY <1>1, <2>2, StageFacts DEF ModelI
  <2> QED BY <2>1, <2>2
<1> QED BY <1>3, <1>4 DEF ModelI, Idle

\* Frames may get lost while nothing else happens to them.
LEMMA FrameStep ==
    ASSUME PcI, FrameI, NEW s \in Stages, NEW p, pc' = [pc EXCEPT ![s] = p],
           s[2] = 0 => pc[s] # "ended" /\ (pc[s] = "wait" => p = "ended"),
           \A x \in Stages : stream'[x].q = stream[x].q \/ stream'[x].q = <<>>
    PROVE  FrameI'
<1>0. DOMAIN pc = Stages
  BY DEF PcI
<1>1. /\ pc'[s] = p /\ \A x \in Stages : x # s => pc'[x] = pc[x]
      /\ \A u \in Threads : <<u, 0>> # s => pc'[<<u, 0>>] = pc[<<u, 0>>]
      /\ \A u \in Threads : <<u, 0>> = s <=> u = s[1] /\ s[2] = 0
  BY <1>0, PcMoves
<1>2. \A x \in Stages : AtMostOne(stream'[x].q)
  BY Lists DEF FrameI
<1>3. \A x \in Stages : stream'[x].q # <<>> => pc'[<<x[1], 0>>] \in {"wait", "ended"}
  <2> SUFFICES ASSUME NEW x \in Stages, stream'[x].q # <<>>
               PROVE  pc'[<<x[1], 0>>] \in {"wait", "ended"}
    OBVIOUS
  <2>1. pc[<<x[1], 0>>] \in {"wait", "ended"} /\ x[1] \in Threads
    BY StageFacts DEF FrameI
  <2>2. CASE <<x[1], 0>> = s
    BY <1>1, <2>1, <2>2
  <2>3. CASE <<x[1], 0>> # s
    BY <1>1, <2>1, <2>3
  <2> QED BY <2>2, <2>3
<1>4. \A x, u \in Stages : x[1] = u[1] /\ stream'[x].q # <<>> /\ stream'[u].q # <<>> => x = u
  BY DEF FrameI
<1> QED BY <1>2, <1>3, <1>4 DEF FrameI

LEMMA OrderStep ==
    ASSUME PcI, OrderI, NEW s \in Stages, NEW p, pc' = [pc EXCEPT ![s] = p],
           UNCHANGED <<asked, answered>>, s[2] = 0 => p # "wait",
           \A u \in Threads : <<u, 0>> # s => work'[u] = work[u],
           s[2] = 0 /\ p = "second" => Waiting(s[1]) /\ work'[s[1]].chunk = NextAsked(s[1]),
           \A x \in Stages : stream'[x].q = stream[x].q \/ stream'[x].q = <<>>
    PROVE  OrderI'
<1>0. DOMAIN pc = Stages
  BY DEF PcI
<1>1. /\ pc'[s] = p /\ \A x \in Stages : x # s => pc'[x] = pc[x]
      /\ \A u \in Threads : <<u, 0>> # s => pc'[<<u, 0>>] = pc[<<u, 0>>]
      /\ \A u \in Threads : <<u, 0>> = s <=> u = s[1] /\ s[2] = 0
  BY <1>0, PcMoves
<1>2. \A t \in Threads : Waiting(t)' = Waiting(t) /\ NextAsked(t)' = NextAsked(t)
  BY DEF Waiting, NextAsked
<1>3. ASSUME NEW t \in Threads
      PROVE  /\ pc'[<<t, 0>>] \in {"wait", "second"} => Waiting(t)
             /\ pc'[<<t, 0>>] = "second" => work'[t].chunk = NextAsked(t)
  <2>1. CASE <<t, 0>> = s
    BY <1>1, <2>1
  <2>2. CASE <<t, 0>> # s
    BY <1>1, <2>2 DEF OrderI
  <2> QED BY <2>1, <2>2
<1>4. ASSUME NEW x \in Stages, pc'[<<x[1], 0>>] = "wait", stream'[x].q # <<>>
      PROVE  stream'[x].q[1].chunk = NextAsked(x[1])
  <2>1. x[1] \in Threads /\ <<x[1], 0>> # s
    BY <1>1, <1>4, StageFacts
  <2>2. pc[<<x[1], 0>>] = "wait" /\ stream'[x].q = stream[x].q
    BY <1>1, <1>4, <2>1
  <2> QED BY <1>4, <2>2 DEF OrderI
<1>5. \A x \in Stages : x[1] \in Threads
  BY StageFacts
<1> QED BY <1>2, <1>3, <1>4, <1>5 DEF OrderI

LEMMA ReadQuiet ==
    ASSUME ReadI, UNCHANGED <<reads, pending_inbound, pending_accept>>,
           \A x \in Stages : stream[x].at # "none" => stream'[x].at # "none"
    PROVE  ReadI'
BY DEF ReadI

LEMMA AskQuiet ==
    ASSUME AskI, UNCHANGED <<user, answered>>, DOMAIN work' = Threads
    PROVE  AskI'
BY DEF AskI, user

LEMMA StageMoves ==
    ASSUME IInv, NEW s \in Stages, NEW p, pc' = [pc EXCEPT ![s] = p], Fits0(s, p),
           UNCHANGED <<plan, net, user, answered>>,
           s[2] <= Len(plan[s[1]]),
           s[2] = 0 => pc[s] \notin {"wait", "ended"} /\ p # "wait",
           s[2] = 0 /\ p \in Unplanned => plan[s[1]] = <<>>,
           DOMAIN sess' = Stages, \A x \in Stages : x # s => sess'[x] = sess[x],
           p = "ended" => sess'[s] = <<new, new>>,
           s[2] = 0 /\ (plan[s[1]] # <<>> \/ p = "dispatch") => sess'[s] = <<new, new>>,
           DOMAIN work' = Threads, \A u \in Threads : <<u, 0>> # s => work'[u] = work[u],
           s[2] = 0 /\ p = "second" => Waiting(s[1]) /\ work'[s[1]].chunk = NextAsked(s[1])
    PROVE  IInv'
<1>0. PcI /\ PlanI /\ ModelI /\ StreamI /\ ReadI /\ FrameI /\ AskI /\ OrderI
  BY DEF IInv
<1>1. stream' = stream /\ UNCHANGED <<reads, pending_inbound, pending_accept>>
  BY DEF net
<1>2. UNCHANGED <<asked, answered>>
  BY DEF user
<1>3. PcI'
  BY <1>0, PcStep
<1>4. PlanI'
  BY <1>0, <1>1, PlanStep
<1>5. ModelI'
  BY <1>0, ModelStep
<1>6. StreamI' /\ ReadI'
  BY <1>0, <1>1, ReadQuiet DEF StreamI
<1>7. FrameI'
  BY <1>0, <1>1, FrameStep
<1>8. AskI'
  BY <1>0, AskQuiet
<1>9. OrderI'
  BY <1>0, <1>1, <1>2, OrderStep
<1> QED BY <1>3, <1>4, <1>5, <1>6, <1>7, <1>8, <1>9 DEF IInv

(***************************************************************************)
(* A stage that ends.                                                      *)
(***************************************************************************)
LEMMA DropDoes ==
    ASSUME StreamI, NEW s \in Stages, Drop(s)
    PROVE  /\ StreamI'
           /\ \A x \in Stages : /\ stream'[x].at = stream[x].at
                                /\ stream'[x].q = stream[x].q \/ stream'[x].q = <<>>
                                /\ x # s => stream'[x].q = stream[x].q
<1>1. PICK lost \in BOOLEAN :
        stream' = [x \in Stages |->
            [stream[x] EXCEPT !.open = @ /\ x # s, !.read = @ /\ reads[s] # x,
                              !.q = IF lost /\ x = s THEN <<>> ELSE @]]
  BY DEF Drop
<1>2. ASSUME NEW x \in Stages
      PROVE  /\ DOMAIN stream'[x] = {"at", "q", "open", "read"} /\ stream'[x].at = stream[x].at
             /\ stream'[x].q = stream[x].q \/ stream'[x].q = <<>>
             /\ x # s => stream'[x].q = stream[x].q
  BY <1>1 DEF StreamI
<1>3. DOMAIN stream' = Stages
  BY <1>1
<1> QED BY <1>2, <1>3 DEF StreamI

LEMMA EndKeeps ==
    ASSUME IInv, NEW s \in Stages, End(s), UNCHANGED user, pc[s] \notin {"absent", "ended"}
    PROVE  IInv'
<1>0. PcI /\ PlanI /\ ModelI /\ StreamI /\ ReadI /\ FrameI /\ AskI /\ OrderI
  BY DEF IInv
<1> DEFINE p == "ended"
<1>1. /\ pc' = [pc EXCEPT ![s] = p] /\ sess' = [sess EXCEPT ![s] = <<new, new>>]
      /\ UNCHANGED <<plan, reads, pending_inbound, pending_accept, answered, work>> /\ Drop(s)
  BY DEF End
<1>2. StreamI' /\ \A x \in Stages : /\ stream'[x].at = stream[x].at
                                    /\ stream'[x].q = stream[x].q \/ stream'[x].q = <<>>
  BY <1>0, <1>1, DropDoes
<1>3. UNCHANGED <<asked, answered>>
  BY <1>1 DEF user
<1>4. Fits0(s, p) /\ p \notin Unplanned /\ s[2] <= Len(plan[s[1]])
  BY <1>0 DEF Fits0, CoordPcs, WorkerPcs, Unplanned, PlanI
<1>5. /\ DOMAIN sess' = Stages /\ sess'[s] = <<new, new>>
      /\ \A x \in Stages : x # s => sess'[x] = sess[x]
  BY <1>0, <1>1 DEF ModelI
<1>6. DOMAIN work' = Threads /\ p # "wait" /\ p # "second"
  BY <1>0, <1>1 DEF AskI
<1> HIDE DEF p
<1>7. PcI'
  BY <1>0, <1>1, <1>4, PcStep
<1>8. PlanI'
  BY <1>0, <1>1, <1>2, <1>4, PlanStep
<1>9. ModelI'
  BY <1>0, <1>1, <1>4, <1>5, ModelStep
<1>10. ReadI'
  BY <1>0, <1>1, <1>2, ReadQuiet
<1>11. FrameI'
  BY <1>0, <1>1, <1>2, FrameStep DEF p
<1>12. AskI'
  BY <1>0, <1>1, <1>6, AskQuiet
<1>13. OrderI'
  BY <1>0, <1>1, <1>2, <1>3, <1>6, OrderStep
<1> QED BY <1>2, <1>7, <1>8, <1>9, <1>10, <1>11, <1>12, <1>13 DEF IInv

(***************************************************************************)
(* The steps of a stage that leave the streams alone.                      *)
(***************************************************************************)
\* A stage that is somewhere on its way is in the plan.
LEMMA InPlan ==
    ASSUME IInv, NEW s \in Stages, pc[s] # "absent"
    PROVE  s[2] <= Len(plan[s[1]])
BY DEF IInv, PlanI

LEMMA AcceptedKeeps ==
    ASSUME IInv, NEW s \in Stages, Accepted(s)
    PROVE  IInv'
<1> DEFINE p == IF s[2] = 0 THEN "connect" ELSE "open"
<1>1. /\ pc[s] = "accept" /\ pc' = [pc EXCEPT ![s] = p]
      /\ UNCHANGED <<plan, sess, net, user, answered, work>>
  BY DEF Accepted
<1>2. /\ Fits0(s, p) /\ p \notin Unplanned /\ p \notin {"wait", "ended", "second", "dispatch"}
  BY DEF Fits0, CoordPcs, WorkerPcs, Unplanned
<1>3. s[2] <= Len(plan[s[1]]) /\ DOMAIN sess = Stages /\ DOMAIN work = Threads
  BY <1>1, InPlan DEF IInv, ModelI, AskI
<1>4. s[2] = 0 /\ plan[s[1]] # <<>> => sess[s] = <<new, new>>
  <2>1. s[1] \in Threads /\ (s[2] = 0 => s = <<s[1], 0>>)
    BY StageFacts
  <2> QED BY <2>1 DEF IInv, ModelI
<1> HIDE DEF p
<1> QED BY <1>1, <1>2, <1>3, <1>4, StageMoves

LEMMA ConnectKeeps ==
    ASSUME IInv, NEW t \in Threads, Connect(t)
    PROVE  IInv'
<1> DEFINE s == <<t, 0>>
           p == IF plan[t] = <<>> THEN "preload" ELSE "loop"
<1>0. s \in Stages /\ s[1] = t /\ s[2] = 0
  BY StageFacts
<1>1. /\ pc[s] = "connect" /\ pc' = [pc EXCEPT ![s] = p]
      /\ UNCHANGED <<plan, sess, net, user, answered, work>>
  BY DEF Connect
<1>2. /\ Fits0(s, p) /\ (p \in Unplanned => plan[t] = <<>>)
      /\ p \notin {"wait", "ended", "second", "dispatch"}
  BY <1>0 DEF Fits0, CoordPcs, Unplanned
<1> HIDE DEF p, s
<1>3. s[2] <= Len(plan[s[1]]) /\ DOMAIN sess = Stages /\ DOMAIN work = Threads
  BY <1>0, <1>1, InPlan DEF IInv, ModelI, AskI
<1>4. s[2] = 0 /\ plan[s[1]] # <<>> => sess[s] = <<new, new>>
  BY <1>0 DEF IInv, ModelI, s
<1> QED BY <1>0, <1>1, <1>2, <1>3, <1>4, StageMoves

\* The two steps of offload_pingpong that only go on, or fail.
LEMMA AnalyzeKeeps ==
    ASSUME IInv, NEW t \in Threads, Analyze(t)
    PROVE  IInv'
<1> DEFINE s == <<t, 0>>
           p == "connect"
<1>0. s \in Stages /\ s[1] = t /\ s[2] = 0 /\ pc[s] = "offload_pingpong" /\ UNCHANGED user
  BY StageFacts DEF Analyze
<1>1. Fits0(s, p) /\ p \notin Unplanned /\ p \notin {"wait", "ended", "second", "dispatch"}
  BY <1>0 DEF Fits0, CoordPcs, Unplanned
<1>2. CASE Local(s, p) /\ UNCHANGED <<sess, answered, work>>
  <2>1. pc' = [pc EXCEPT ![s] = p] /\ UNCHANGED <<plan, net, user, sess, answered, work>>
    BY <1>0, <1>2 DEF Local
  <2> HIDE DEF p, s
  <2>2. s[2] <= Len(plan[s[1]]) /\ DOMAIN sess = Stages /\ DOMAIN work = Threads
    BY <1>0, InPlan DEF IInv, ModelI, AskI
  <2>3. plan[s[1]] # <<>> => sess[s] = <<new, new>>
    BY <1>0 DEF IInv, ModelI, s
  <2> QED BY <1>0, <1>1, <2>1, <2>2, <2>3, StageMoves
<1>3. CASE End(s)
  <2> HIDE DEF s
  <2> QED BY <1>0, <1>3, EndKeeps
<1> QED BY <1>2, <1>3 DEF Analyze

\* The steps of offload_pingpong with a model.
LEMMA LoadsKeeps ==
    ASSUME IInv, NEW t \in Threads, NEW p, p \in {"loop", "second"},
           pc[<<t, 0>>] \in {"preload", "loop", "restore"}, plan[t] = <<>>,
           Local(<<t, 0>>, p), UNCHANGED <<user, answered>>,
           NEW m, sess' = [sess EXCEPT ![<<t, 0>>] = m],
           DOMAIN work' = Threads, \A u \in Threads : u # t => work'[u] = work[u],
           p = "second" => Waiting(t) /\ work'[t].chunk = NextAsked(t)
    PROVE  IInv'
<1> DEFINE s == <<t, 0>>
<1>0. s \in Stages /\ s[1] = t /\ s[2] = 0
  BY StageFacts
<1>1. pc' = [pc EXCEPT ![s] = p] /\ UNCHANGED <<plan, net, user, answered>>
  BY DEF Local
<1>2. Fits0(s, p) /\ p # "wait" /\ p # "ended" /\ p # "dispatch"
  BY <1>0 DEF Fits0, CoordPcs
<1>3. DOMAIN sess' = Stages /\ \A x \in Stages : x # s => sess'[x] = sess[x]
  BY DEF IInv, ModelI
<1>4. \A u \in Threads : <<u, 0>> # s => work'[u] = work[u]
  OBVIOUS
<1>5. pc[s] # "absent" /\ pc[s] \notin {"wait", "ended"}
  OBVIOUS
<1> HIDE DEF s
<1>6. s[2] <= Len(plan[s[1]])
  BY <1>0, <1>5, InPlan
<1> QED BY <1>0, <1>1, <1>2, <1>3, <1>4, <1>5, <1>6, StageMoves

LEMMA PreloadKeeps ==
    ASSUME IInv, NEW t \in Threads, Preload(t)
    PROVE  IInv'
<1> DEFINE s == <<t, 0>>
<1>0. s \in Stages /\ pc[s] = "preload" /\ UNCHANGED user
  BY StageFacts DEF Preload
<1>1. plan[t] = <<>> /\ DOMAIN work = Threads
  BY <1>0 DEF IInv, PlanI, Unplanned, AskI
<1>2. CASE End(s)
  <2> HIDE DEF s
  <2> QED BY <1>0, <1>2, EndKeeps
<1>3. CASE ~End(s)
  <2>1. PICK m : /\ sess' = [sess EXCEPT ![s] = m]
                 /\ Local(s, "loop") /\ UNCHANGED <<answered, work>>
    BY <1>3, Zenon DEF Preload
  <2> QED BY <1>0, <1>1, <2>1, LoadsKeeps
<1> QED BY <1>2, <1>3

LEMMA FirstHalfKeeps ==
    ASSUME IInv, NEW t \in Threads, FirstHalf(t)
    PROVE  IInv'
<1> DEFINE s == <<t, 0>>
           x == TokenIds(NextAsked(t))
<1>0. s \in Stages /\ pc[s] = "loop" /\ UNCHANGED user /\ Waiting(t) /\ plan[t] = <<>>
  BY StageFacts DEF FirstHalf, Coordinator
<1>1. CASE End(s)
  <2> HIDE DEF s
  <2> QED BY <1>0, <1>1, EndKeeps
<1>2. CASE ~End(s)
  <2>1. PICK two, a, off :
           /\ a = forward(two[1], x) /\ off = (IF a.ok THEN offload_to_cpu(a.sess) ELSE a)
           /\ off.ok
           /\ sess' = [sess EXCEPT ![s] = <<off.sess, two[2]>>]
           /\ work' = [work EXCEPT ![t] = a.out]
           /\ Local(s, "second") /\ UNCHANGED answered
    BY <1>2, Zenon DEF FirstHalf
  <2>2. a.ok
    <3> HIDE DEF x
    <3> QED BY <2>1
  <2>3. a.out.chunk = x.chunk
    BY <2>1, <2>2, ForwardKeepsChunk
  <2>4. x.chunk = NextAsked(t)
    BY DEF TokenIds
  <2>5. DOMAIN work = Threads
    BY DEF IInv, AskI
  <2>6. /\ DOMAIN work' = Threads /\ \A u \in Threads : u # t => work'[u] = work[u]
        /\ work'[t].chunk = NextAsked(t)
    BY <2>1, <2>3, <2>4, <2>5
  <2> DEFINE m == <<off.sess, two[2]>>
  <2>7. sess' = [sess EXCEPT ![s] = m] /\ Local(s, "second") /\ UNCHANGED answered
    BY <2>1
  <2> HIDE DEF m, x
  <2> QED BY <1>0, <2>6, <2>7, LoadsKeeps
<1> QED BY <1>1, <1>2

LEMMA BringFirstKeeps ==
    ASSUME IInv, NEW t \in Threads, BringFirst(t)
    PROVE  IInv'
<1> DEFINE s == <<t, 0>>
<1>0. s \in Stages /\ pc[s] = "restore" /\ UNCHANGED user
  BY StageFacts DEF BringFirst
<1>1. plan[t] = <<>> /\ DOMAIN work = Threads
  BY <1>0 DEF IInv, PlanI, Unplanned, AskI
<1>2. CASE End(s)
  <2> HIDE DEF s
  <2> QED BY <1>0, <1>2, EndKeeps
<1>3. CASE ~End(s)
  <2>1. PICK a : /\ sess' = [sess EXCEPT ![s][1] = a.sess]
                 /\ Local(s, "loop") /\ UNCHANGED <<answered, work>>
    BY <1>3, Zenon DEF BringFirst
  <2> DEFINE m == [sess[s] EXCEPT ![1] = a.sess]
  <2>2. sess' = [sess EXCEPT ![s] = m]
    BY <2>1
  <2> HIDE DEF m
  <2> QED BY <1>0, <1>1, <2>1, <2>2, LoadsKeeps
<1> QED BY <1>2, <1>3

LEMMA LoadHalvesKeeps ==
    ASSUME IInv, NEW s \in Stages, LoadHalves(s)
    PROVE  IInv'
<1>0. pc[s] = "load" /\ UNCHANGED user
  BY DEF LoadHalves
<1>1. s[2] # 0
  BY <1>0 DEF IInv, PcI, CoordPcs
<1>2. CASE End(s)
  BY <1>0, <1>2, EndKeeps
<1>3. CASE ~End(s)
  <2> DEFINE p == "register"
  <2>1. PICK m : /\ sess' = [sess EXCEPT ![s] = m]
                 /\ pc' = [pc EXCEPT ![s] = p]
                 /\ UNCHANGED <<plan, net, answered, work>>
    BY <1>3, Zenon DEF LoadHalves
  <2>2. /\ DOMAIN sess' = Stages /\ \A x \in Stages : x # s => sess'[x] = sess[x]
        /\ DOMAIN work = Threads
    BY <2>1 DEF IInv, ModelI, AskI
  <2>3. s[2] <= Len(plan[s[1]])
    BY <1>0, InPlan
  <2>4. Fits0(s, p) /\ p # "ended"
    BY <1>1 DEF Fits0, WorkerPcs
  <2> HIDE DEF p
  <2> QED BY <1>0, <1>1, <2>1, <2>2, <2>3, <2>4, StageMoves
<1> QED BY <1>2, <1>3

LEMMA PlanKeeps ==
    ASSUME IInv, NEW t \in Threads, Plan(t)
    PROVE  IInv'
<1> DEFINE s == <<t, 0>>
           p == "dispatch"
<1>0. s \in Stages /\ s[1] = t /\ s[2] = 0 /\ pc[s] = "pipeline_coord" /\ UNCHANGED user
  BY StageFacts DEF Plan
<1>1. CASE End(s)
  <2> HIDE DEF s
  <2> QED BY <1>0, <1>1, EndKeeps
<1>2. CASE ~End(s)
  <2>0. PICK held \in Placements :
           \E o \in Orders(t, held) :
              /\ plan' = [plan EXCEPT ![t] = Assign(o)] /\ pc' = [pc EXCEPT ![s] = p]
              /\ UNCHANGED <<sess, net, answered, work>>
    BY <1>2 DEF Plan
  <2>1. PICK o \in Orders(t, held) :
           /\ plan' = [plan EXCEPT ![t] = Assign(o)] /\ pc' = [pc EXCEPT ![s] = p]
           /\ UNCHANGED <<sess, net, answered, work>>
    BY <2>0
  <2>2. PcI /\ PlanI /\ ModelI /\ StreamI /\ ReadI /\ FrameI /\ AskI /\ OrderI
    BY DEF IInv
  <2>3. plan[t] = <<>> /\ sess[s] = <<new, new>>
    BY <1>0, <2>2 DEF PlanI, ModelI, PcI, Unplanned, Idle
  <2>4. /\ Fits0(s, p) /\ p \notin Idle /\ p \notin Unplanned
        /\ p \notin {"wait", "ended", "second", "absent"}
    BY <1>0, InferenceConstants DEF Fits0, CoordPcs, Unplanned, Idle
  <2>5. stream' = stream /\ UNCHANGED <<reads, pending_inbound, pending_accept, asked, answered>>
    BY <1>0, <2>1 DEF net, user
  <2>6. /\ pc'[s] = p /\ \A x \in Stages : x # s => pc'[x] = pc[x]
        /\ \A u \in Threads : <<u, 0>> # s => pc'[<<u, 0>>] = pc[<<u, 0>>]
        /\ \A u \in Threads : <<u, 0>> = s <=> u = t
    <3>1. DOMAIN pc = Stages
      BY <2>2 DEF PcI
    <3> HIDE DEF p, s
    <3> QED BY <1>0, <2>1, <3>1, PcMoves
  <2>7. /\ DOMAIN plan' = Threads /\ plan'[t] = Assign(o)
        /\ \A u \in Threads : u # t => plan'[u] = plan[u]
    BY <2>1, <2>2 DEF PlanI
  <2>8. /\ Len(Assign(o)) \in 0..MaxStages /\ DOMAIN Assign(o) = 1..Len(Assign(o))
        /\ \A i \in DOMAIN Assign(o) : Assign(o)[i].peer \in Nodes
    BY OrdersFit
  <2> HIDE DEF p, s
  <2>9. PcI'
    BY <1>0, <2>1, <2>2, <2>4, PcStep
  <2>10. PlanI'
    <3>1. ASSUME NEW u \in Threads
          PROVE  /\ Len(plan'[u]) \in 0..MaxStages /\ DOMAIN plan'[u] = 1..Len(plan'[u])
                 /\ \A i \in DOMAIN plan'[u] : plan'[u][i].peer \in Nodes
                 /\ pc'[<<u, 0>>] \in Unplanned => plan'[u] = <<>>
      <4>1. CASE u = t
        BY <2>4, <2>6, <2>7, <2>8, <4>1
      <4>2. CASE u # t
        BY <2>2, <2>6, <2>7, <4>2 DEF PlanI
      <4> QED BY <4>1, <4>2
    <3>2. ASSUME NEW x \in Stages, pc'[x] # "absent" \/ stream'[x].at # "none"
          PROVE  x[2] <= Len(plan'[x[1]])
      <4>0. x[1] \in Threads /\ x = <<x[1], x[2]>> /\ x[2] \in 0..MaxStages
        BY StageFacts
      <4>1. CASE x = s
        BY <1>0, <2>7, <2>8, <4>1
      <4>2. CASE x # s
        <5>1. x[2] <= Len(plan[x[1]])
          BY <2>2, <2>5, <2>6, <3>2, <4>2 DEF PlanI
        <5>2. CASE x[1] # t
          BY <2>7, <4>0, <5>1, <5>2
        <5>3. CASE x[1] = t
          <6>1. x[2] = 0
            BY <2>3, <4>0, <5>1, <5>3, Lists
          <6> QED BY <2>7, <2>8, <5>3, <6>1
        <5> QED BY <5>2, <5>3
      <4> QED BY <4>1, <4>2
    <3> QED BY <2>7, <3>1, <3>2 DEF PlanI
  <2>11. ModelI'
    <3>1. DOMAIN sess' = Stages /\ \A x \in Stages : sess'[x] = sess[x]
      BY <2>1, <2>2 DEF ModelI
    <3>2. \A x \in Stages : pc'[x] \in Idle => sess'[x] = <<new, new>>
      BY <2>2, <2>3, <2>4, <2>6, <3>1 DEF ModelI
    <3>3. ASSUME NEW u \in Threads, plan'[u] # <<>> \/ pc'[<<u, 0>>] = "dispatch"
          PROVE  sess'[<<u, 0>>] = <<new, new>>
      <4>1. CASE u = t
        BY <2>1, <2>3, <4>1 DEF s
      <4>2. CASE u # t
        BY <2>1, <2>2, <2>6, <2>7, <3>3, <4>2 DEF ModelI
      <4> QED BY <4>1, <4>2
    <3> QED BY <3>1, <3>2, <3>3 DEF ModelI, Idle
  <2>12. StreamI' /\ ReadI' /\ AskI'
    BY <1>0, <2>1, <2>2, <2>5 DEF StreamI, ReadI, AskI, user
  <2>13. FrameI'
    BY <1>0, <2>1, <2>2, <2>5, FrameStep
  <2>14. OrderI'
    BY <2>1, <2>2, <2>4, <2>5, <1>0, OrderStep
  <2> QED BY <2>9, <2>10, <2>11, <2>12, <2>13, <2>14 DEF IInv
<1> QED BY <1>1, <1>2

LEMMA WorkerStage ==
    ASSUME NEW t \in Threads, NEW n \in 0..MaxStages, NEW i \in 1..n
    PROVE  /\ <<t, i>> \in Stages /\ <<t, i>>[1] = t /\ <<t, i>>[2] = i
           /\ i # 0 /\ i <= n /\ <<t, i>> # <<t, 0>>
<1>1. i \in 0..MaxStages
  BY StageFacts
<1> QED BY <1>1 DEF Stages

LEMMA DispatchKeeps ==
    ASSUME IInv, NEW t \in Threads, Dispatch(t)
    PROVE  IInv'
<1> DEFINE c == <<t, 0>>
           todo == {i \in DOMAIN plan[t] : pc[<<t, i>>] = "absent"}
           s == <<t, Min(todo)>>
           p == "load"
<1>0. PcI /\ PlanI /\ ModelI /\ StreamI /\ ReadI /\ FrameI /\ AskI /\ OrderI
  BY DEF IInv
<1>1. pc[c] = "dispatch" /\ todo # {} /\ UNCHANGED user
  BY DEF Dispatch
<1>2. c \in Stages /\ c[1] = t /\ c[2] = 0
  BY StageFacts
<1>3. Min(todo) \in todo /\ DOMAIN plan[t] = 1..Len(plan[t]) /\ Len(plan[t]) \in 0..MaxStages
  <2>1. DOMAIN plan[t] = 1..Len(plan[t]) /\ Len(plan[t]) \in 0..MaxStages
    BY <1>0 DEF PlanI
  <2>2. todo \subseteq Nat
    BY <2>1
  <2> HIDE DEF todo
  <2> QED BY <1>1, <2>1, <2>2, LeastIn
<1>4. Min(todo) \in 1..Len(plan[t]) /\ pc[s] = "absent"
  BY <1>3
<1>5. s \in Stages /\ s[1] = t /\ s[2] # 0 /\ s[2] <= Len(plan[s[1]]) /\ s # c
  <2> HIDE DEF todo
  <2> QED BY <1>3, <1>4, WorkerStage
<1>6. Fits0(s, p) /\ p # "ended"
  BY <1>5 DEF Fits0, WorkerPcs
<1>7. DOMAIN sess = Stages /\ DOMAIN work = Threads
  BY <1>0 DEF ModelI, AskI
<1>8. CASE /\ pc' = [pc EXCEPT ![s] = p] /\ UNCHANGED <<plan, sess, net, answered, work>>
  <2> HIDE DEF s, p, c, todo
  <2> QED BY <1>1, <1>5, <1>6, <1>7, <1>8, StageMoves
<1>9. CASE End(c)
  <2> HIDE DEF c, todo
  <2> QED BY <1>1, <1>2, <1>9, EndKeeps
<1>10. CASE /\ pc' = [pc EXCEPT ![s] = p, ![c] = "ended"]
            /\ UNCHANGED <<plan, sess, net, answered, work>>
  <2> HIDE DEF s, c, todo
  <2>1. /\ DOMAIN pc' = Stages /\ pc'[s] = "load" /\ pc'[c] = "ended"
        /\ \A x \in Stages : x # s /\ x # c => pc'[x] = pc[x]
    BY <1>0, <1>2, <1>5, <1>10 DEF PcI
  <2>2. \A u \in Threads : u # t => pc'[<<u, 0>>] = pc[<<u, 0>>]
    BY <1>2, <1>5, <2>1, StageFacts
  <2>3. stream' = stream /\ UNCHANGED <<plan, sess, work, reads, pending_inbound, pending_accept, user, answered, asked>>
    BY <1>1, <1>10 DEF net, user
  <2>4. pc'[<<t, 0>>] = "ended"
    BY <2>1 DEF c
  <2>5. PcI'
    <3>1. pc' \in [Stages -> CoordPcs \cup WorkerPcs]
      BY <1>0, <1>10 DEF PcI, CoordPcs, WorkerPcs
    <3>2. ASSUME NEW x \in Stages
          PROVE  /\ x[2] = 0 => pc'[x] \in CoordPcs
                 /\ pc'[x] = "pipeline_coord" => pc'[x] \in Programs
                 /\ pc'[x] = "offload_pingpong" => pc'[x] \in Programs
                 /\ x[2] # 0 => pc'[x] \in WorkerPcs
      <4>1. CASE x = s
        BY <1>5, <2>1, <4>1 DEF WorkerPcs
      <4>2. CASE x = c
        BY <1>2, <2>1, <4>2 DEF CoordPcs
      <4>3. CASE x # s /\ x # c
        BY <1>0, <2>1, <4>3 DEF PcI
      <4> QED BY <4>1, <4>2, <4>3
    <3> QED BY <3>1, <3>2 DEF PcI
  <2>6. PlanI'
    <3>1. \A u \in Threads : pc'[<<u, 0>>] \in Unplanned => plan[u] = <<>>
      BY <1>0, <2>2, <2>4 DEF PlanI, Unplanned
    <3>2. ASSUME NEW x \in Stages, pc'[x] # "absent" \/ stream[x].at # "none"
          PROVE  x[2] <= Len(plan[x[1]])
      <4>1. CASE x = s
        BY <1>5, <4>1
      <4>2. CASE x = c
        BY <1>0, <1>1, <1>2, <4>2 DEF PlanI
      <4>3. CASE x # s /\ x # c
        BY <1>0, <2>1, <3>2, <4>3 DEF PlanI
      <4> QED BY <4>1, <4>2, <4>3
    <3> QED BY <1>0, <2>3, <3>1, <3>2 DEF PlanI
  <2>7. ModelI'
    <3>1. sess[c] = <<new, new>>
      BY <1>0, <1>1 DEF ModelI, c
    <3>2. "load" \notin Idle
      BY InferenceConstants DEF Idle
    <3>3. \A x \in Stages : pc'[x] \in Idle => sess[x] = <<new, new>>
      BY <1>0, <2>1, <3>1, <3>2 DEF ModelI
    <3>4. \A u \in Threads : plan[u] # <<>> \/ pc'[<<u, 0>>] = "dispatch" => sess[<<u, 0>>] = <<new, new>>
      BY <1>0, <2>2, <2>4 DEF ModelI
    <3> QED BY <1>7, <2>3, <3>3, <3>4 DEF ModelI, Idle
  <2>8. StreamI' /\ ReadI' /\ AskI'
    BY <1>0, <2>3 DEF StreamI, ReadI, AskI, user
  <2>9. FrameI'
    <3>1. ASSUME NEW x \in Stages, stream[x].q # <<>> PROVE pc'[<<x[1], 0>>] \in {"wait", "ended"}
      BY <1>0, <2>2, <2>4, <3>1, StageFacts DEF FrameI
    <3> QED BY <1>0, <2>3, <3>1 DEF FrameI
  <2>10. OrderI'
    <3>1. \A u \in Threads : Waiting(u)' = Waiting(u) /\ NextAsked(u)' = NextAsked(u)
      BY <2>3 DEF Waiting, NextAsked
    <3>2. \A u \in Threads : pc'[<<u, 0>>] = "ended" \/ pc'[<<u, 0>>] = pc[<<u, 0>>]
      BY <2>2, <2>4
    <3> QED BY <1>0, <2>3, <3>1, <3>2, StageFacts DEF OrderI
  <2> QED BY <2>5, <2>6, <2>7, <2>8, <2>9, <2>10 DEF IInv
<1> QED BY <1>8, <1>9, <1>10 DEF Dispatch

(***************************************************************************)
(* Streams are opened and meet the stages that read them.                  *)
(***************************************************************************)
LEMMA OpenKeeps ==
    ASSUME IInv, NEW s \in Stages, NEW p, pc' = [pc EXCEPT ![s] = p], Fits0(s, p),
           NEW node, open_tensor_stream(s, node), pc[s] \notin {"absent", "wait", "ended"},
           p \notin Unplanned, p \notin {"wait", "ended", "second", "dispatch"},
           UNCHANGED <<plan, sess, reads, pending_inbound, pending_accept, user, answered, work>>
    PROVE  IInv'
<1>0. PcI /\ PlanI /\ ModelI /\ StreamI /\ ReadI /\ FrameI /\ AskI /\ OrderI
  BY DEF IInv
<1>1. /\ DOMAIN stream' = Stages
      /\ stream'[s] = [at |-> "flying", q |-> <<>>, open |-> TRUE, read |-> TRUE]
      /\ \A x \in Stages : x # s => stream'[x] = stream[x]
  BY <1>0 DEF open_tensor_stream, StreamI
<1>2. \A x \in Stages : stream'[x].q = stream[x].q \/ stream'[x].q = <<>>
  BY <1>1
<1>3. StreamI'
  <2>1. ASSUME NEW x \in Stages
        PROVE  /\ DOMAIN stream'[x] = {"at", "q", "open", "read"}
               /\ stream'[x].at \in {"none", "flying", "pending", "read"}
    <3>1. CASE x = s
      BY <1>1, <3>1
    <3>2. CASE x # s
      BY <1>0, <1>1, <3>2 DEF StreamI
    <3> QED BY <3>1, <3>2
  <2> QED BY <1>1, <2>1 DEF StreamI
<1>4. s[2] <= Len(plan[s[1]])
  BY InPlan
<1>5. PlanI'
  BY <1>0, <1>1, <1>4, PlanStep
<1>6. ModelI'
  <2>1. s[1] \in Threads /\ (s[2] = 0 => s = <<s[1], 0>>)
    BY StageFacts
  <2>2. s[2] = 0 /\ plan[s[1]] # <<>> => sess[s] = <<new, new>>
    BY <1>0, <2>1 DEF ModelI
  <2>3. DOMAIN sess = Stages
    BY <1>0 DEF ModelI
  <2> QED BY <1>0, <2>2, <2>3, ModelStep
<1>7. DOMAIN work = Threads /\ UNCHANGED <<asked, answered>>
  BY <1>0 DEF AskI, user
<1>8. PcI' /\ ReadI' /\ AskI'
  <2>1. \A x \in Stages : stream[x].at # "none" => stream'[x].at # "none"
    BY <1>1
  <2> QED BY <1>0, <1>7, <2>1, PcStep, ReadQuiet, AskQuiet
<1>9. FrameI'
  BY <1>0, <1>2, FrameStep
<1>10. OrderI'
  BY <1>0, <1>2, <1>7, OrderStep
<1> QED BY <1>3, <1>5, <1>6, <1>8, <1>9, <1>10 DEF IInv

LEMMA OpenForwardKeeps ==
    ASSUME IInv, NEW t \in Threads, OpenForward(t)
    PROVE  IInv'
<1> DEFINE s == <<t, 0>>
           p == "register"
<1>0. s \in Stages /\ s[2] = 0 /\ pc[s] = "dispatch" /\ UNCHANGED user
  BY StageFacts DEF OpenForward
<1>1. CASE End(s)
  <2> HIDE DEF s
  <2> QED BY <1>0, <1>1, EndKeeps
<1>2. CASE ~End(s)
  <2>1. /\ open_tensor_stream(s, plan[t][1].peer) /\ pc' = [pc EXCEPT ![s] = p]
        /\ UNCHANGED <<plan, sess, reads, pending_inbound, pending_accept, answered, work>>
    BY <1>2 DEF OpenForward
  <2>2. Fits0(s, p) /\ p \notin Unplanned /\ p \notin {"wait", "ended", "second", "dispatch"}
    BY <1>0 DEF Fits0, CoordPcs, Unplanned
  <2> HIDE DEF s, p
  <2> QED BY <1>0, <2>1, <2>2, OpenKeeps
<1> QED BY <1>1, <1>2

LEMMA OpenOutKeeps ==
    ASSUME IInv, NEW s \in Stages, OpenOut(s)
    PROVE  IInv'
<1> DEFINE p == "loop"
<1>0. pc[s] = "open" /\ UNCHANGED user
  BY DEF OpenOut
<1>1. s[2] # 0
  BY <1>0 DEF IInv, PcI, CoordPcs
<1>2. CASE End(s)
  BY <1>0, <1>2, EndKeeps
<1>3. CASE ~End(s)
  <2>1. /\ open_tensor_stream(s, NodeOf(Downstream(s))) /\ pc' = [pc EXCEPT ![s] = p]
        /\ UNCHANGED <<plan, sess, reads, pending_inbound, pending_accept, answered, work>>
    BY <1>3 DEF OpenOut
  <2>2. Fits0(s, p) /\ p \notin Unplanned /\ p \notin {"wait", "ended", "second", "dispatch"}
    BY <1>1 DEF Fits0, WorkerPcs, Unplanned
  <2> HIDE DEF p
  <2> QED BY <1>0, <2>1, <2>2, OpenKeeps
<1> QED BY <1>2, <1>3

LEMMA SlotIn ==
    ASSUME PlanI, NEW s \in Stages, NEW x \in Stages, x[2] <= Len(plan[x[1]])
    PROVE  Slot(NodeOf(x), s) \in Slots /\ Slot(NodeOf(x), s)[2] = sid[s[1]]
<1>1. x[1] \in Threads /\ x[2] \in 0..MaxStages /\ s[1] \in Threads
  BY StageFacts
<1>2. NodeOf(x) \in Nodes
  <2>1. CASE x[2] = 0
    BY <1>1, <2>1, InferenceConstants DEF NodeOf
  <2>2. CASE x[2] # 0
    <3>1. x[2] \in DOMAIN plan[x[1]]
      BY <1>1, <2>2 DEF PlanI
    <3> QED BY <1>1, <2>2, <3>1 DEF NodeOf, PlanI
  <2> QED BY <2>1, <2>2
<1>3. sid[s[1]] \in Range(sid)
  BY <1>1, InferenceConstants DEF Range
<1> QED BY <1>2, <1>3 DEF Slot, Slots

LEMMA RegisterKeeps ==
    ASSUME DistinctIds, IInv, NEW s \in Stages, Register(s)
    PROVE  IInv'
<1> DEFINE p == "accept"
           k == Slot(NodeOf(s), s)
           i == pending_inbound[k]
<1>0. PcI /\ PlanI /\ ModelI /\ StreamI /\ ReadI /\ FrameI /\ AskI /\ OrderI
  BY DEF IInv
<1>1. /\ pc[s] = "register" /\ pc' = [pc EXCEPT ![s] = p]
      /\ UNCHANGED <<plan, sess, user, answered, work>>
  BY DEF Register
<1>2. s[2] <= Len(plan[s[1]])
  BY <1>1, InPlan
<1>3. k \in Slots /\ k[2] = sid[s[1]]
  BY <1>0, <1>2, SlotIn
<1>4. /\ Fits0(s, p) /\ p \notin Unplanned
      /\ p \notin {"wait", "ended", "second", "dispatch"}
  BY DEF Fits0, CoordPcs, WorkerPcs, Unplanned
<1>5. /\ s[1] \in Threads /\ (s[2] = 0 => s = <<s[1], 0>>)
      /\ \A x \in Stages : x[1] \in Threads
  BY StageFacts
<1>6. i # None => i \in Stages /\ i[1] = s[1] /\ stream[i].at # "none"
  <2> SUFFICES ASSUME i # None PROVE i \in Stages /\ i[1] = s[1] /\ stream[i].at # "none"
    OBVIOUS
  <2>1. i \in Stages /\ sid[i[1]] = k[2] /\ stream[i].at # "none"
    <3> HIDE DEF k
    <3> QED BY <1>0, <1>3 DEF ReadI
  <2> QED BY <1>3, <1>5, <2>1 DEF DistinctIds
<1>7. /\ StreamI' /\ ReadI'
      /\ \A x \in Stages : stream'[x].q = stream[x].q
      /\ \A x \in Stages : stream'[x].at = stream[x].at \/ stream[x].at # "none"
  <2>1. CASE i # None
    <3>1. /\ pending_inbound' = [pending_inbound EXCEPT ![k] = None]
          /\ reads' = [reads EXCEPT ![s] = i]
          /\ stream' = [stream EXCEPT ![i].at = "read"]
          /\ UNCHANGED pending_accept
      BY <2>1 DEF Register, register_accept
    <3> HIDE DEF k, i, p
    <3>2. /\ StreamI' /\ \A x \in Stages : stream'[x].q = stream[x].q
          /\ stream'[i].at = "read" /\ \A x \in Stages : x # i => stream'[x].at = stream[x].at
      BY <1>0, <1>6, <2>1, <3>1 DEF StreamI
    <3>3. /\ reads' \in [Stages -> Stages \cup {None}] /\ reads'[s] = i
          /\ \A x \in Stages : x # s => reads'[x] = reads[x]
      BY <1>0, <1>6, <2>1, <3>1 DEF ReadI
    <3>4. \A x \in Stages : reads'[x] # None => reads'[x][1] = x[1]
      BY <1>0, <1>6, <2>1, <3>3 DEF ReadI
    <3>5. /\ pending_inbound' \in [Slots -> Stages \cup {None}]
          /\ \A j \in Slots : pending_inbound'[j] = None \/ pending_inbound'[j] = pending_inbound[j]
      BY <1>0, <3>1 DEF ReadI
    <3>6. \A j \in Slots : pending_inbound'[j] # None =>
               sid[pending_inbound'[j][1]] = j[2] /\ stream'[pending_inbound'[j]].at # "none"
      BY <1>0, <3>2, <3>5 DEF ReadI
    <3> QED BY <1>0, <1>6, <2>1, <3>1, <3>2, <3>3, <3>4, <3>5, <3>6 DEF ReadI
  <2>2. CASE i = None
    <3>1. /\ pending_accept' = [pending_accept EXCEPT ![k] = s]
          /\ UNCHANGED <<pending_inbound, reads, stream>>
      BY <2>2 DEF Register, register_accept
    <3> HIDE DEF k, i, p
    <3>2. /\ pending_accept' \in [Slots -> Stages \cup {None}] /\ pending_accept'[k] = s
          /\ \A j \in Slots : j # k => pending_accept'[j] = pending_accept[j]
      BY <1>0, <1>3, <3>1 DEF ReadI
    <3>3. \A j \in Slots : pending_accept'[j] # None => sid[pending_accept'[j][1]] = j[2]
      BY <1>0, <1>3, <3>2 DEF ReadI
    <3> QED BY <1>0, <3>1, <3>2, <3>3 DEF ReadI, StreamI
  <2> QED BY <2>1, <2>2
<1> HIDE DEF p, k, i
<1>8. PcI'
  BY <1>0, <1>1, <1>4, PcStep
<1>9. PlanI'
  BY <1>0, <1>1, <1>2, <1>4, <1>7, PlanStep
<1>10. ModelI'
  <2>1. (s[2] = 0 /\ plan[s[1]] # <<>> => sess[s] = <<new, new>>) /\ DOMAIN sess = Stages
    BY <1>0, <1>5 DEF ModelI
  <2> QED BY <1>0, <1>1, <1>4, <2>1, ModelStep
<1>11. FrameI'
  BY <1>0, <1>1, <1>7, FrameStep
<1>12. AskI' /\ UNCHANGED <<asked, answered>>
  BY <1>0, <1>1, AskQuiet DEF AskI, user
<1>13. OrderI'
  BY <1>0, <1>1, <1>4, <1>7, <1>12, OrderStep
<1> QED BY <1>7, <1>8, <1>9, <1>10, <1>11, <1>12, <1>13 DEF IInv

LEMMA InsertKeeps ==
    ASSUME DistinctIds, IInv, NEW s \in Stages, insert_inbound(s)
    PROVE  IInv'
<1> DEFINE d == Downstream(s)
           k == Slot(NodeOf(d), s)
           w == pending_accept[k]
           o == pending_inbound[k]
<1>0. PcI /\ PlanI /\ ModelI /\ StreamI /\ ReadI /\ FrameI /\ AskI /\ OrderI
  BY DEF IInv
<1>1. stream[s].at = "flying" /\ UNCHANGED <<pc, plan, sess, user, answered, work>>
  BY DEF insert_inbound
<1>2. /\ s[1] \in Threads /\ s[2] \in 0..MaxStages
      /\ \A x \in Stages : x[1] \in Threads
  BY StageFacts
<1>3. d \in Stages /\ d[2] <= Len(plan[d[1]])
  <2>1. s[2] <= Len(plan[s[1]]) /\ Len(plan[s[1]]) \in 0..MaxStages
    BY <1>0, <1>1, <1>2 DEF PlanI
  <2>2. CASE s[2] = Len(plan[s[1]])
    <3>1. d = <<s[1], 0>>
      BY <2>2 DEF Downstream
    <3> QED BY <1>2, <2>1, <3>1, StageFacts
  <2>3. CASE s[2] # Len(plan[s[1]])
    <3>1. d = <<s[1], s[2] + 1>> /\ s[2] + 1 \in 1..Len(plan[s[1]])
      BY <1>2, <2>1, <2>3 DEF Downstream
    <3> HIDE DEF d
    <3> QED BY <1>2, <2>1, <3>1, WorkerStage
  <2> QED BY <2>2, <2>3
<1>4. k \in Slots /\ k[2] = sid[s[1]]
  <2> HIDE DEF d
  <2> QED BY <1>0, <1>3, SlotIn
<1>5. w # None => w \in Stages /\ w[1] = s[1]
  <2> SUFFICES ASSUME w # None PROVE w \in Stages /\ w[1] = s[1]
    OBVIOUS
  <2>1. w \in Stages /\ sid[w[1]] = k[2]
    <3> HIDE DEF k
    <3> QED BY <1>0, <1>4 DEF ReadI
  <2> QED BY <1>2, <1>4, <2>1 DEF DistinctIds
<1>6. /\ StreamI' /\ ReadI'
      /\ \A x \in Stages : stream'[x].q = stream[x].q
      /\ \A x \in Stages : stream'[x].at = stream[x].at \/ stream[x].at # "none"
  <2>1. CASE w # None
    <3>1. /\ pending_accept' = [pending_accept EXCEPT ![k] = None] /\ UNCHANGED pending_inbound
          /\ \/ /\ reads' = [reads EXCEPT ![w] = s]
                /\ stream' = [stream EXCEPT ![s].at = "read"]
             \/ /\ stream' = [stream EXCEPT ![s].at = "read", ![s].read = FALSE]
                /\ UNCHANGED reads
      BY <2>1 DEF insert_inbound
    <3> HIDE DEF k, w, o, d
    <3>2. /\ StreamI' /\ \A x \in Stages : stream'[x].q = stream[x].q
          /\ stream'[s].at = "read" /\ \A x \in Stages : x # s => stream'[x].at = stream[x].at
      BY <1>0, <3>1 DEF StreamI
    <3>3. /\ reads' \in [Stages -> Stages \cup {None}]
          /\ \A x \in Stages : reads'[x] = reads[x] \/ (x = w /\ reads'[x] = s)
      BY <1>0, <3>1 DEF ReadI
    <3>4. \A x \in Stages : reads'[x] # None => reads'[x][1] = x[1]
      BY <1>0, <1>5, <2>1, <3>3 DEF ReadI
    <3>5. /\ pending_accept' \in [Slots -> Stages \cup {None}]
          /\ \A j \in Slots : pending_accept'[j] = None \/ pending_accept'[j] = pending_accept[j]
      BY <1>0, <3>1 DEF ReadI
    <3>6. \A j \in Slots : pending_inbound'[j] # None =>
               sid[pending_inbound'[j][1]] = j[2] /\ stream'[pending_inbound'[j]].at # "none"
      BY <1>0, <3>1, <3>2 DEF ReadI
    <3> QED BY <1>0, <1>1, <3>1, <3>2, <3>3, <3>4, <3>5, <3>6 DEF ReadI
  <2>2. CASE w = None
    <3>1. /\ pending_inbound' = [pending_inbound EXCEPT ![k] = s]
          /\ stream' = [x \in Stages |->
                IF x = s THEN [stream[x] EXCEPT !.at = "pending"]
                ELSE IF x = o THEN [stream[x] EXCEPT !.read = FALSE] ELSE stream[x]]
          /\ UNCHANGED <<reads, pending_accept>>
      BY <2>2 DEF insert_inbound
    <3> HIDE DEF k, w, o, d
    <3>2. /\ StreamI' /\ \A x \in Stages : stream'[x].q = stream[x].q
          /\ stream'[s].at = "pending" /\ \A x \in Stages : x # s => stream'[x].at = stream[x].at
      BY <1>0, <3>1 DEF StreamI
    <3>3. /\ pending_inbound' \in [Slots -> Stages \cup {None}] /\ pending_inbound'[k] = s
          /\ \A j \in Slots : j # k => pending_inbound'[j] = pending_inbound[j]
      BY <1>0, <1>4, <3>1 DEF ReadI
    <3>4. \A j \in Slots : pending_inbound'[j] # None =>
               sid[pending_inbound'[j][1]] = j[2] /\ stream'[pending_inbound'[j]].at # "none"
      BY <1>0, <1>4, <3>2, <3>3 DEF ReadI
    <3> QED BY <1>0, <1>1, <3>1, <3>2, <3>3, <3>4 DEF ReadI
  <2> QED BY <2>1, <2>2
<1>7. PcI' /\ ModelI' /\ AskI'
  BY <1>0, <1>1 DEF PcI, ModelI, AskI, user
<1>8. PlanI'
  <2>1. \A x \in Stages : stream'[x].at # "none" => stream[x].at # "none"
    BY <1>6
  <2> QED BY <1>0, <1>1, <2>1 DEF PlanI
<1>9. FrameI'
  BY <1>0, <1>1, <1>6 DEF FrameI
<1>10. OrderI'
  <2>1. UNCHANGED asked
    BY <1>1 DEF user
  <2>2. \A u \in Threads : Waiting(u)' = Waiting(u) /\ NextAsked(u)' = NextAsked(u)
    BY <1>1, <2>1 DEF Waiting, NextAsked
  <2> QED BY <1>0, <1>1, <1>2, <1>6, <2>1, <2>2 DEF OrderI
<1> QED BY <1>6, <1>7, <1>8, <1>9, <1>10 DEF IInv

(***************************************************************************)
(* A frame goes from stream to stream.                                     *)
(***************************************************************************)
LEMMA AllEmpty ==
    ASSUME FrameI, NEW t \in Threads, pc[<<t, 0>>] \notin {"wait", "ended"}
    PROVE  \A x \in Stages : x[1] = t => stream[x].q = <<>>
BY DEF FrameI

\* After the step only the stream of s may hold a frame of its thread.
LEMMA FrameMoves ==
    ASSUME FrameI, NEW s \in Stages, AtMostOne(stream'[s].q),
           \A x \in Stages : x[1] # s[1] => stream'[x].q = stream[x].q,
           \A x \in Stages : x[1] = s[1] /\ x # s => stream'[x].q = <<>>,
           stream'[s].q = <<>> \/ pc'[<<s[1], 0>>] \in {"wait", "ended"},
           \A u \in Threads : u # s[1] => pc'[<<u, 0>>] = pc[<<u, 0>>]
    PROVE  FrameI'
<1>0. \A x \in Stages : x[1] \in Threads
  BY StageFacts
<1>1. ASSUME NEW x \in Stages
      PROVE  /\ AtMostOne(stream'[x].q)
             /\ stream'[x].q # <<>> => pc'[<<x[1], 0>>] \in {"wait", "ended"}
  <2>1. CASE x[1] # s[1]
    BY <1>0, <2>1 DEF FrameI
  <2>2. CASE x[1] = s[1] /\ x # s
    BY <2>2, Lists
  <2>3. CASE x = s
    BY <2>3
  <2> QED BY <2>1, <2>2, <2>3
<1>2. ASSUME NEW x \in Stages, NEW u \in Stages,
             x[1] = u[1], stream'[x].q # <<>>, stream'[u].q # <<>>
      PROVE  x = u
  <2>1. CASE x[1] # s[1]
    BY <1>2, <2>1 DEF FrameI
  <2>2. CASE x[1] = s[1]
    BY <1>2, <2>2
  <2> QED BY <2>1, <2>2
<1> QED BY <1>1, <1>2 DEF FrameI

LEMMA SendDoes ==
    ASSUME StreamI, NEW s \in Stages, NEW f, stream[s].q = <<>>, send_tensor(s, f)
    PROVE  /\ StreamI' /\ stream'[s].q = <<f>>
           /\ \A x \in Stages : stream'[x].at = stream[x].at
           /\ \A x \in Stages : x # s => stream'[x].q = stream[x].q
<1>1. /\ DOMAIN stream' = Stages
      /\ stream'[s] = [stream[s] EXCEPT !.q = Append(stream[s].q, f)]
      /\ \A x \in Stages : x # s => stream'[x] = stream[x]
  BY DEF send_tensor, StreamI
<1>2. DOMAIN stream'[s] = DOMAIN stream[s] /\ stream'[s].q = <<f>> /\ stream'[s].at = stream[s].at
  BY <1>1, Lists DEF StreamI
<1> QED BY <1>1, <1>2 DEF StreamI

LEMMA TakeTensorKeeps ==
    ASSUME IInv, NEW t \in Threads, TakeTensor(t)
    PROVE  IInv'
<1> DEFINE s == <<t, 0>>
           p == "wait"
           f == TokenIds(NextAsked(t))
<1>0. PcI /\ PlanI /\ ModelI /\ StreamI /\ ReadI /\ FrameI /\ AskI /\ OrderI
  BY DEF IInv
<1>1. /\ s \in Stages /\ s[1] = t /\ s[2] = 0 /\ pc[s] = "loop" /\ UNCHANGED user
      /\ Waiting(t) /\ plan[t] # <<>>
  BY StageFacts DEF TakeTensor, Coordinator
<1>2. CASE End(s)
  <2> HIDE DEF s
  <2> QED BY <1>1, <1>2, EndKeeps
<1>3. CASE ~End(s)
  <2>1. /\ send_tensor(s, f) /\ pc' = [pc EXCEPT ![s] = p]
        /\ UNCHANGED <<plan, sess, reads, pending_inbound, pending_accept, answered, work>>
    BY <1>3 DEF TakeTensor
  <2>2. Fits0(s, p) /\ p \notin Unplanned /\ p \notin {"ended", "second", "dispatch"}
    BY <1>1 DEF Fits0, CoordPcs, Unplanned
  <2>3. \A x \in Stages : x[1] = t => stream[x].q = <<>>
    BY <1>0, <1>1, AllEmpty
  <2>4. f.chunk = NextAsked(t)
    BY DEF TokenIds
  <2>5. sess[s] = <<new, new>> /\ DOMAIN sess = Stages /\ DOMAIN work = Threads /\ DOMAIN pc = Stages
    BY <1>0, <1>1 DEF ModelI, AskI, PcI
  <2>6. \A x \in Stages : x[1] \in Threads
    BY StageFacts
  <2>7. <<t, 0>> = s
    OBVIOUS
  <2> HIDE DEF f, s, p
  <2>8. /\ StreamI' /\ stream'[s].q = <<f>>
        /\ \A x \in Stages : stream'[x].at = stream[x].at
        /\ \A x \in Stages : x # s => stream'[x].q = stream[x].q
    BY <1>0, <1>1, <2>1, <2>3, SendDoes
  <2>9. /\ pc'[s] = p /\ \A x \in Stages : x # s => pc'[x] = pc[x]
        /\ \A u \in Threads : u # t => pc'[<<u, 0>>] = pc[<<u, 0>>]
    BY <1>1, <2>1, <2>5, PcMoves
  <2>10. s[2] <= Len(plan[s[1]])
    BY <1>1, InPlan
  <2>11. PcI'
    BY <1>0, <1>1, <2>1, <2>2, PcStep
  <2>12. PlanI'
    BY <1>0, <1>1, <2>1, <2>2, <2>8, <2>10, PlanStep
  <2>13. ModelI'
    BY <1>0, <1>1, <2>1, <2>2, <2>5, ModelStep
  <2>14. ReadI'
    BY <1>0, <2>1, <2>8, ReadQuiet
  <2>15. AskI' /\ UNCHANGED <<asked, answered>>
    BY <1>0, <1>1, <2>1, <2>5, AskQuiet DEF user
  <2>16. FrameI'
    <3>1. AtMostOne(stream'[s].q) /\ pc'[<<s[1], 0>>] \in {"wait", "ended"}
      BY <1>1, <2>7, <2>8, <2>9, Lists DEF p
    <3>2. /\ \A x \in Stages : x[1] # s[1] => stream'[x].q = stream[x].q
          /\ \A x \in Stages : x[1] = s[1] /\ x # s => stream'[x].q = <<>>
          /\ \A u \in Threads : u # s[1] => pc'[<<u, 0>>] = pc[<<u, 0>>]
      BY <1>1, <2>3, <2>8, <2>9
    <3> QED BY <1>0, <1>1, <3>1, <3>2, FrameMoves
  <2>17. OrderI'
    <3>1. \A u \in Threads : Waiting(u)' = Waiting(u) /\ NextAsked(u)' = NextAsked(u)
      BY <2>15 DEF Waiting, NextAsked
    <3>2. ASSUME NEW u \in Threads
          PROVE  /\ pc'[<<u, 0>>] \in {"wait", "second"} => Waiting(u)
                 /\ pc'[<<u, 0>>] = "second" => work'[u].chunk = NextAsked(u)
      <4>1. CASE u = t
        BY <1>1, <2>2, <2>7, <2>9, <4>1
      <4>2. CASE u # t
        BY <1>0, <2>1, <2>9, <4>2 DEF OrderI
      <4> QED BY <4>1, <4>2
    <3>3. ASSUME NEW x \in Stages, pc'[<<x[1], 0>>] = "wait", stream'[x].q # <<>>
          PROVE  stream'[x].q[1].chunk = NextAsked(x[1])
      <4>1. CASE x[1] # t
        BY <1>0, <1>1, <2>6, <2>8, <2>9, <3>3, <4>1 DEF OrderI
      <4>2. CASE x[1] = t
        <5>1. x = s
          BY <1>1, <2>3, <2>8, <3>3, <4>2
        <5> QED BY <1>1, <2>4, <2>8, <5>1, Lists
      <4> QED BY <4>1, <4>2
    <3> QED BY <1>0, <2>6, <2>15, <3>1, <3>2, <3>3 DEF OrderI
  <2> QED BY <2>8, <2>11, <2>12, <2>13, <2>14, <2>15, <2>16, <2>17 DEF IInv
<1> QED BY <1>2, <1>3

\* The next tensor of t is answered.
LEMMA AnswerStep ==
    ASSUME PcI, AskI, OrderI, NEW t \in Threads, Waiting(t), NEW f, f.chunk = NextAsked(t),
           answered' = [answered EXCEPT ![t] = Append(@, f)], UNCHANGED user,
           NEW p, p \notin {"wait", "second"}, pc' = [pc EXCEPT ![<<t, 0>>] = p],
           DOMAIN work' = Threads, \A u \in Threads : u # t => work'[u] = work[u],
           \A x \in Stages : x[1] # t => stream'[x].q = stream[x].q
    PROVE  AskI' /\ OrderI'
<1>0. /\ DOMAIN pc = Stages /\ DOMAIN answered = Threads /\ asked' = asked
      /\ IsList(answered[t]) /\ asked[t] \in Seq(Nat \X Nat)
  BY DEF PcI, AskI, user
<1>1. <<t, 0>> \in Stages /\ \A x \in Stages : x[1] \in Threads
  BY StageFacts
<1>2. /\ pc'[<<t, 0>>] = p
      /\ \A u \in Threads : u # t => pc'[<<u, 0>>] = pc[<<u, 0>>]
  BY <1>0, <1>1, PcMoves
<1>3. /\ DOMAIN answered' = Threads /\ answered'[t] = Append(answered[t], f)
      /\ \A u \in Threads : u # t => answered'[u] = answered[u]
  BY <1>0
<1>4. /\ IsList(answered'[t]) /\ Len(answered[t]) \in Nat /\ Len(answered'[t]) = Len(answered[t]) + 1
      /\ answered'[t][Len(answered[t]) + 1] = f
      /\ \A i \in 1..Len(answered[t]) : answered'[t][i] = answered[t][i]
  BY <1>0, <1>3, ListAppend
<1>5. Len(answered'[t]) <= Len(asked[t])
  <2>1. Len(asked[t]) \in Nat
    BY <1>0
  <2> QED BY <1>4, <2>1 DEF Waiting
<1>6. AskI'
  <2>1. ASSUME NEW u \in Threads PROVE IsList(answered'[u]) /\ Len(answered'[u]) <= Len(asked[u])
    BY <1>3, <1>4, <1>5 DEF AskI
  <2> QED BY <1>0, <1>3, <2>1 DEF AskI, user
<1>7. ASSUME NEW u \in Threads, NEW k \in 1..Len(answered'[u])
      PROVE  answered'[u][k].chunk = asked[u][k]
  <2>1. CASE u # t
    BY <1>3, <2>1 DEF OrderI
  <2>2. CASE u = t /\ k = Len(answered[t]) + 1
    BY <1>4, <2>2 DEF NextAsked
  <2>3. CASE u = t /\ k # Len(answered[t]) + 1
    <3>1. k \in 1..Len(answered[t])
      BY <1>4, <2>3
    <3> QED BY <1>4, <2>3, <3>1 DEF OrderI
  <2> QED BY <2>1, <2>2, <2>3
<1>8. \A u \in Threads : u # t => Waiting(u)' = Waiting(u) /\ NextAsked(u)' = NextAsked(u)
  BY <1>0, <1>3 DEF Waiting, NextAsked
<1>9. ASSUME NEW u \in Threads
      PROVE  /\ pc'[<<u, 0>>] \in {"wait", "second"} => Waiting(u)'
             /\ pc'[<<u, 0>>] = "second" => work'[u].chunk = NextAsked(u)'
  <2>1. CASE u = t
    BY <1>2, <2>1
  <2>2. CASE u # t
    BY <1>2, <1>8, <2>2 DEF OrderI
  <2> QED BY <2>1, <2>2
<1>10. ASSUME NEW x \in Stages, pc'[<<x[1], 0>>] = "wait", stream'[x].q # <<>>
      PROVE  stream'[x].q[1].chunk = NextAsked(x[1])'
  <2>1. x[1] # t
    BY <1>2, <1>10
  <2>2. x[1] \in Threads
    BY <1>1
  <2>3. NextAsked(x[1])' = NextAsked(x[1]) /\ pc[<<x[1], 0>>] = "wait"
    BY <1>2, <1>8, <1>10, <2>1, <2>2
  <2>4. stream[x].q # <<>> /\ stream'[x].q = stream[x].q
    BY <1>10, <2>1
  <2>5. stream[x].q[1].chunk = NextAsked(x[1])
    BY <2>3, <2>4 DEF OrderI
  <2> QED BY <2>3, <2>4, <2>5
<1>11. OrderI'
  BY <1>0, <1>7, <1>9, <1>10 DEF OrderI
<1> QED BY <1>6, <1>11

\* What a stage reads is the one frame its thread has.
LEMMA ReadsOwn ==
    ASSUME IInv, NEW s \in Stages, Readable(s)
    PROVE  /\ reads[s] \in Stages /\ reads[s][1] = s[1]
           /\ stream[reads[s]].q = <<Incoming(s)>> /\ Incoming(s) = stream[reads[s]].q[1]
           /\ \A x \in Stages : x[1] = s[1] /\ x # reads[s] => stream[x].q = <<>>
           /\ pc[<<s[1], 0>>] \in {"wait", "ended"}
<1> DEFINE r == reads[s]
<1>1. r \in Stages /\ r[1] = s[1] /\ stream[r].q # <<>>
  BY DEF Readable, IInv, ReadI
<1>2. stream[r].q = <<stream[r].q[1]>>
  BY <1>1 DEF IInv, FrameI, AtMostOne
<1>3. Incoming(s) = stream[r].q[1]
  BY <1>2, Lists DEF Incoming
<1>4. \A x \in Stages : x[1] = s[1] /\ x # r => stream[x].q = <<>>
  BY <1>1 DEF IInv, FrameI
<1>5. pc[<<s[1], 0>>] \in {"wait", "ended"}
  BY <1>1 DEF IInv, FrameI
<1> QED BY <1>1, <1>2, <1>3, <1>4, <1>5

LEMMA ReturnLogitsKeeps ==
    ASSUME IInv, NEW t \in Threads, ReturnLogits(t)
    PROVE  IInv'
<1> DEFINE s == <<t, 0>>
           r == reads[s]
           p == "loop"
<1>0. PcI /\ PlanI /\ ModelI /\ StreamI /\ ReadI /\ FrameI /\ AskI /\ OrderI
  BY DEF IInv
<1>1. s \in Stages /\ s[1] = t /\ s[2] = 0 /\ pc[s] = "wait" /\ UNCHANGED user
  BY StageFacts DEF ReturnLogits
<1>2. CASE End(s)
  <2> HIDE DEF s
  <2> QED BY <1>1, <1>2, EndKeeps
<1>3. CASE ~End(s)
  <2>1. /\ Readable(s)
        /\ answered' = [answered EXCEPT ![t] = Append(@, Incoming(s))]
        /\ stream' = [stream EXCEPT ![r].q = Tail(@)]
        /\ pc' = [pc EXCEPT ![s] = p]
        /\ UNCHANGED <<plan, sess, reads, pending_inbound, pending_accept, work>>
    BY <1>3 DEF ReturnLogits
  <2>2. /\ r \in Stages /\ r[1] = t /\ stream[r].q = <<Incoming(s)>> /\ Incoming(s) = stream[r].q[1]
        /\ \A x \in Stages : x[1] = t /\ x # r => stream[x].q = <<>>
    BY <1>1, <2>1, ReadsOwn
  <2>3. Waiting(t) /\ Incoming(s).chunk = NextAsked(t)
    <3>1. stream[r].q # <<>>
      BY <2>1 DEF Readable
    <3> QED BY <1>0, <1>1, <2>2, <3>1 DEF OrderI
  <2>4. Fits0(s, p) /\ p \notin Unplanned /\ p \notin {"wait", "ended", "second", "dispatch"}
    BY <1>1 DEF Fits0, CoordPcs, Unplanned
  <2>5. DOMAIN sess = Stages /\ DOMAIN work = Threads /\ DOMAIN pc = Stages
        /\ (plan[t] # <<>> => sess[s] = <<new, new>>)
    BY <1>0 DEF ModelI, AskI, PcI
  <2>6. <<t, 0>> = s
    OBVIOUS
  <2> HIDE DEF r, s, p
  <2>7. /\ StreamI' /\ stream'[r].q = <<>>
        /\ \A x \in Stages : stream'[x].at = stream[x].at
        /\ \A x \in Stages : x # r => stream'[x].q = stream[x].q
    <3>1. /\ DOMAIN stream' = Stages
          /\ stream'[r] = [stream[r] EXCEPT !.q = Tail(stream[r].q)]
          /\ \A x \in Stages : x # r => stream'[x] = stream[x]
      BY <1>0, <2>1, <2>2 DEF StreamI
    <3>2. /\ DOMAIN stream'[r] = DOMAIN stream[r] /\ stream'[r].q = <<>>
          /\ stream'[r].at = stream[r].at
      BY <1>0, <2>2, <3>1, Lists DEF StreamI
    <3> QED BY <1>0, <3>1, <3>2 DEF StreamI
  <2>8. \A x \in Stages : x[1] = t => stream'[x].q = <<>>
    BY <2>2, <2>7
  <2>9. PcI'
    BY <1>0, <1>1, <2>1, <2>4, PcStep
  <2>10. PlanI'
    <3>1. s[2] <= Len(plan[s[1]])
      BY <1>1, InPlan
    <3> QED BY <1>0, <1>1, <2>1, <2>4, <2>7, <3>1, PlanStep
  <2>11. ModelI'
    BY <1>0, <1>1, <2>1, <2>4, <2>5, ModelStep
  <2>12. ReadI'
    BY <1>0, <2>1, <2>7, ReadQuiet
  <2>13. FrameI'
    <3>1. \A u \in Threads : u # t => pc'[<<u, 0>>] = pc[<<u, 0>>]
      BY <1>1, <2>1, <2>5, PcMoves
    <3>2. /\ \A x \in Stages : x[1] # s[1] => stream'[x].q = stream[x].q
          /\ stream'[s].q = <<>>
      BY <1>1, <2>2, <2>7, <2>8
    <3> QED BY <1>0, <1>1, <2>8, <3>1, <3>2, Lists, FrameMoves
  <2>14. AskI' /\ OrderI'
    <3>1. \A x \in Stages : x[1] # t => stream'[x].q = stream[x].q
      BY <2>2, <2>7
    <3> DEFINE f == Incoming(s)
    <3>2. f.chunk = NextAsked(t) /\ answered' = [answered EXCEPT ![t] = Append(@, f)]
      BY <2>1, <2>3
    <3> HIDE DEF f
    <3>3. /\ DOMAIN work' = Threads /\ \A u \in Threads : u # t => work'[u] = work[u]
          /\ p \notin {"wait", "second"} /\ pc' = [pc EXCEPT ![<<t, 0>>] = p]
      BY <2>1, <2>4, <2>5, <2>6
    <3>4. PcI /\ AskI /\ OrderI /\ Waiting(t) /\ UNCHANGED user
      BY <1>0, <1>1, <2>3
    <3> QED BY <3>1, <3>2, <3>3, <3>4, AnswerStep
  <2> QED BY <2>7, <2>9, <2>10, <2>11, <2>12, <2>13, <2>14 DEF IInv
<1> QED BY <1>2, <1>3

LEMMA SecondHalfKeeps ==
    ASSUME IInv, NEW t \in Threads, SecondHalf(t)
    PROVE  IInv'
<1> DEFINE s == <<t, 0>>
           p == "restore"
<1>0. PcI /\ PlanI /\ ModelI /\ StreamI /\ ReadI /\ FrameI /\ AskI /\ OrderI
  BY DEF IInv
<1>1. s \in Stages /\ s[1] = t /\ s[2] = 0 /\ pc[s] = "second" /\ UNCHANGED user
  BY StageFacts DEF SecondHalf
<1>2. CASE End(s)
  <2> HIDE DEF s
  <2> QED BY <1>1, <1>2, EndKeeps
<1>3. CASE ~End(s)
  <2>1. PICK b, c, off :
           /\ c = (IF b.ok THEN forward(b.sess, work[t]) ELSE b)
           /\ off = (IF c.ok THEN offload_to_cpu(c.sess) ELSE c)
           /\ off.ok
           /\ sess' = [sess EXCEPT ![s][2] = off.sess]
           /\ answered' = [answered EXCEPT ![t] = Append(@, c.out)]
           /\ work' = [work EXCEPT ![t] = None]
           /\ Local(s, p)
    BY <1>3, Zenon DEF SecondHalf
  <2>2. c.ok
    BY <2>1
  <2>3. b.ok
    BY <2>1, <2>2
  <2>4. c.out.chunk = work[t].chunk
    BY <2>1, <2>2, <2>3, ForwardKeepsChunk
  <2>5. Waiting(t) /\ work[t].chunk = NextAsked(t) /\ plan[t] = <<>>
    BY <1>0, <1>1 DEF OrderI, PlanI, Unplanned
  <2>6. pc' = [pc EXCEPT ![s] = p] /\ UNCHANGED <<plan, net>>
    BY <2>1 DEF Local
  <2>7. Fits0(s, p) /\ p \notin {"wait", "ended", "second", "dispatch"}
    BY <1>1 DEF Fits0, CoordPcs
  <2>8. /\ DOMAIN sess' = Stages /\ \A x \in Stages : x # s => sess'[x] = sess[x]
        /\ DOMAIN work' = Threads /\ \A u \in Threads : u # t => work'[u] = work[u]
    BY <1>0, <2>1 DEF ModelI, AskI
  <2>9. <<t, 0>> = s /\ stream' = stream /\ UNCHANGED <<reads, pending_inbound, pending_accept>>
    BY <2>6 DEF net
  <2> DEFINE f == c.out
  <2>10. f.chunk = NextAsked(t) /\ answered' = [answered EXCEPT ![t] = Append(@, f)]
    BY <2>1, <2>4, <2>5
  <2>11. s[2] <= Len(plan[s[1]])
    BY <1>1, InPlan
  <2> HIDE DEF s, p, f
  <2>12. PcI'
    BY <1>0, <1>1, <2>6, <2>7, PcStep
  <2>13. PlanI'
    BY <1>0, <1>1, <2>5, <2>6, <2>9, <2>11, PlanStep
  <2>14. ModelI'
    BY <1>0, <1>1, <2>5, <2>6, <2>7, <2>8, ModelStep
  <2>15. StreamI' /\ ReadI'
    BY <1>0, <2>9, ReadQuiet DEF StreamI
  <2>16. FrameI'
    BY <1>0, <1>1, <2>6, <2>9, FrameStep
  <2>17. AskI' /\ OrderI'
    <3>1. p \notin {"wait", "second"} /\ pc' = [pc EXCEPT ![<<t, 0>>] = p]
      BY <2>6, <2>7, <2>9
    <3>2. \A x \in Stages : x[1] # t => stream'[x].q = stream[x].q
      BY <2>9
    <3>3. PcI /\ AskI /\ OrderI /\ UNCHANGED user /\ Waiting(t)
      BY <1>0, <1>1, <2>5
    <3>4. DOMAIN work' = Threads /\ \A u \in Threads : u # t => work'[u] = work[u]
      BY <2>8
    <3> QED BY <2>10, <3>1, <3>2, <3>3, <3>4, AnswerStep
  <2> QED BY <2>12, <2>13, <2>14, <2>15, <2>16, <2>17 DEF IInv
<1> QED BY <1>2, <1>3

LEMMA CoordinatorEndsKeeps ==
    ASSUME IInv, NEW t \in Threads, CoordinatorEnds(t)
    PROVE  IInv'
<1> DEFINE s == <<t, 0>>
           p == "ended"
<1>0. PcI /\ PlanI /\ ModelI /\ StreamI /\ ReadI /\ FrameI /\ AskI /\ OrderI
  BY DEF IInv
<1>1. /\ s \in Stages /\ s[1] = t /\ s[2] = 0 /\ pc[s] = "loop" /\ plan[t] # <<>>
      /\ pc' = [pc EXCEPT ![s] = p]
      /\ stream' = [x \in Stages |->
            [stream[x] EXCEPT !.open = @ /\ x # s, !.read = @ /\ reads[s] # x,
                              !.q = IF x = s /\ stream[s].read THEN Append(@, Eof) ELSE @]]
      /\ UNCHANGED <<plan, sess, reads, pending_inbound, pending_accept, user, answered, work>>
  BY StageFacts DEF CoordinatorEnds, Coordinator
<1>2. \A x \in Stages : x[1] = t => stream[x].q = <<>>
  BY <1>0, <1>1, AllEmpty
<1>3. Fits0(s, p) /\ p \notin Unplanned /\ p \notin {"wait", "second", "dispatch"}
  BY <1>1 DEF Fits0, CoordPcs, Unplanned
<1>4. sess[s] = <<new, new>> /\ DOMAIN sess = Stages /\ DOMAIN work = Threads /\ DOMAIN pc = Stages
  BY <1>0, <1>1 DEF ModelI, AskI, PcI
<1>5. \A x \in Stages : x[1] \in Threads
  BY StageFacts
<1>6. <<t, 0>> = s
  OBVIOUS
<1> HIDE DEF s, p
<1>7. /\ StreamI' /\ stream'[s].q \in {<<>>, <<Eof>>}
      /\ \A x \in Stages : stream'[x].at = stream[x].at
      /\ \A x \in Stages : x # s => stream'[x].q = stream[x].q
  <2>1. ASSUME NEW x \in Stages
        PROVE  /\ DOMAIN stream'[x] = {"at", "q", "open", "read"} /\ stream'[x].at = stream[x].at
               /\ x # s => stream'[x].q = stream[x].q
               /\ stream'[x].q = stream[x].q \/ stream'[x].q = Append(stream[x].q, Eof)
    BY <1>0, <1>1 DEF StreamI
  <2>2. DOMAIN stream' = Stages
    BY <1>1
  <2>3. stream'[s].q \in {<<>>, <<Eof>>}
    <3>1. stream[s].q = <<>>
      BY <1>1, <1>2
    <3>2. Append(<<>>, Eof) = <<Eof>>
      BY Lists
    <3> QED BY <1>1, <2>1, <3>1, <3>2
  <2> QED BY <1>0, <2>1, <2>2, <2>3 DEF StreamI
<1>8. /\ pc'[s] = p /\ \A u \in Threads : u # t => pc'[<<u, 0>>] = pc[<<u, 0>>]
  BY <1>1, <1>4, PcMoves
<1>9. PcI'
  BY <1>0, <1>1, <1>3, PcStep
<1>10. PlanI'
  <2>1. s[2] <= Len(plan[s[1]])
    BY <1>1, InPlan
  <2> QED BY <1>0, <1>1, <1>3, <1>7, <2>1, PlanStep
<1>11. ModelI'
  BY <1>0, <1>1, <1>3, <1>4, ModelStep
<1>12. ReadI'
  BY <1>0, <1>1, <1>7, ReadQuiet
<1>13. AskI' /\ UNCHANGED <<asked, answered>>
  BY <1>0, <1>1, <1>4, AskQuiet DEF user
<1>14. FrameI'
  <2>1. AtMostOne(stream'[s].q) /\ pc'[<<s[1], 0>>] \in {"wait", "ended"}
    BY <1>1, <1>6, <1>7, <1>8, Lists DEF p
  <2>2. /\ \A x \in Stages : x[1] # s[1] => stream'[x].q = stream[x].q
        /\ \A x \in Stages : x[1] = s[1] /\ x # s => stream'[x].q = <<>>
        /\ \A u \in Threads : u # s[1] => pc'[<<u, 0>>] = pc[<<u, 0>>]
    <3>1. \A x \in Stages : x[1] # s[1] => stream'[x].q = stream[x].q
      BY <1>7
    <3>2. \A x \in Stages : x[1] = s[1] /\ x # s => stream'[x].q = <<>>
      BY <1>1, <1>2, <1>7
    <3>3. \A u \in Threads : u # s[1] => pc'[<<u, 0>>] = pc[<<u, 0>>]
      BY <1>1, <1>8
    <3> QED BY <3>1, <3>2, <3>3
  <2> HIDE DEF s
  <2> QED BY <1>0, <1>1, <2>1, <2>2, FrameMoves
<1>15. OrderI'
  <2>1. \A u \in Threads : Waiting(u)' = Waiting(u) /\ NextAsked(u)' = NextAsked(u)
    BY <1>13 DEF Waiting, NextAsked
  <2>2. ASSUME NEW u \in Threads
        PROVE  pc'[<<u, 0>>] = pc[<<u, 0>>] \/ pc'[<<u, 0>>] = "ended"
    BY <1>6, <1>8 DEF p
  <2>3. ASSUME NEW x \in Stages, pc'[<<x[1], 0>>] = "wait", stream'[x].q # <<>>
        PROVE  stream'[x].q[1].chunk = NextAsked(x[1])
    <3>1. x[1] # t
      BY <1>3, <1>6, <1>8, <2>3
    <3> QED BY <1>0, <1>1, <1>5, <1>7, <1>8, <2>3, <3>1 DEF OrderI
  <2>4. ASSUME NEW u \in Threads
        PROVE  /\ pc'[<<u, 0>>] \in {"wait", "second"} => Waiting(u)
               /\ pc'[<<u, 0>>] = "second" => work'[u].chunk = NextAsked(u)
    BY <1>0, <1>1, <2>2 DEF OrderI
  <2> QED BY <1>0, <1>5, <1>13, <2>1, <2>3, <2>4 DEF OrderI
<1> QED BY <1>7, <1>9, <1>10, <1>11, <1>12, <1>13, <1>14, <1>15 DEF IInv

LEMMA WorkKeeps ==
    ASSUME IInv, NEW s \in Stages, Work(s)
    PROVE  IInv'
<1> DEFINE r == reads[s]
           f == Incoming(s)
           c == <<s[1], 0>>
<1>0. PcI /\ PlanI /\ ModelI /\ StreamI /\ ReadI /\ FrameI /\ AskI /\ OrderI
  BY DEF IInv
<1>1. s[2] > 0 /\ pc[s] = "loop" /\ Readable(s) /\ UNCHANGED user
  BY DEF Work
<1>2. CASE End(s)
  BY <1>1, <1>2, EndKeeps
<1>3. CASE ~End(s)
  <2>1. PICK two, a, b :
           /\ a = forward(two[1], f) /\ b = (IF a.ok THEN forward(two[2], a.out) ELSE a)
           /\ b.ok
           /\ sess' = [sess EXCEPT ![s] = <<a.sess, b.sess>>]
           /\ stream' = [[stream EXCEPT ![r].q = Tail(@)] EXCEPT ![s].q = Append(@, b.out)]
           /\ UNCHANGED <<pc, plan, reads, pending_inbound, pending_accept, answered, work>>
    BY <1>3, Zenon DEF Work
  <2>2. a.ok
    <3> HIDE DEF f
    <3> QED BY <2>1
  <2>3. b.out.chunk = f.chunk
    <3>1. a.out.chunk = f.chunk
      BY <2>1, <2>2, ForwardKeepsChunk
    <3>2. b.out.chunk = a.out.chunk
      BY <2>1, <2>2, ForwardKeepsChunk
    <3> QED BY <3>1, <3>2
  <2>4. /\ r \in Stages /\ r[1] = s[1] /\ stream[r].q = <<f>> /\ f = stream[r].q[1]
        /\ \A x \in Stages : x[1] = s[1] /\ x # r => stream[x].q = <<>>
        /\ pc[<<s[1], 0>>] \in {"wait", "ended"}
    BY <1>1, ReadsOwn
  <2>5. s[1] \in Threads /\ \A x \in Stages : x[1] \in Threads
    BY StageFacts
  <2>6. asked' = asked /\ "loop" \notin Idle
    BY <1>1, InferenceConstants DEF user, Idle
  <2> DEFINE g == b.out
             m == <<a.sess, b.sess>>
  <2>7. /\ sess' = [sess EXCEPT ![s] = m] /\ g.chunk = f.chunk
        /\ stream' = [[stream EXCEPT ![r].q = Tail(@)] EXCEPT ![s].q = Append(@, g)]
    BY <2>1, <2>3
  <2>8. UNCHANGED <<pc, plan, reads, pending_inbound, pending_accept, answered, work>>
    BY <2>1
  <2> HIDE DEF r, f, g, m
  <2>9. /\ StreamI' /\ stream'[s].q = <<g>>
        /\ \A x \in Stages : stream'[x].at = stream[x].at
        /\ \A x \in Stages : x[1] = s[1] /\ x # s => stream'[x].q = <<>>
        /\ \A x \in Stages : x[1] # s[1] => stream'[x].q = stream[x].q
    <3>0. Tail(<<f>>) = <<>> /\ Append(<<>>, g) = <<g>>
      BY Lists
    <3>1. CASE r = s
      <4>1. /\ DOMAIN stream' = Stages
            /\ stream'[s] = [[stream[s] EXCEPT !.q = Tail(@)] EXCEPT !.q = Append(@, g)]
            /\ \A x \in Stages : x # s => stream'[x] = stream[x]
        BY <1>0, <2>7, <3>1 DEF StreamI
      <4>2. /\ DOMAIN stream'[s] = DOMAIN stream[s] /\ stream'[s].at = stream[s].at
            /\ stream'[s].q = Append(Tail(stream[s].q), g)
        BY <1>0, <4>1 DEF StreamI
      <4>3. stream'[s].q = <<g>>
        BY <2>4, <3>0, <3>1, <4>2
      <4> QED BY <1>0, <2>4, <3>1, <4>1, <4>2, <4>3 DEF StreamI
    <3>2. CASE r # s
      <4>1. /\ DOMAIN stream' = Stages
            /\ stream'[r] = [stream[r] EXCEPT !.q = Tail(@)]
            /\ stream'[s] = [stream[s] EXCEPT !.q = Append(@, g)]
            /\ \A x \in Stages : x # s /\ x # r => stream'[x] = stream[x]
        BY <1>0, <2>4, <2>7, <3>2 DEF StreamI
      <4>2. /\ DOMAIN stream'[s] = DOMAIN stream[s] /\ stream'[s].at = stream[s].at
            /\ stream'[s].q = Append(stream[s].q, g)
            /\ DOMAIN stream'[r] = DOMAIN stream[r] /\ stream'[r].at = stream[r].at
            /\ stream'[r].q = Tail(stream[r].q)
        BY <1>0, <2>4, <4>1 DEF StreamI
      <4>3. stream'[s].q = <<g>> /\ stream'[r].q = <<>>
        BY <2>4, <3>0, <3>2, <4>2
      <4>4. ASSUME NEW x \in Stages
            PROVE  /\ DOMAIN stream'[x] = DOMAIN stream[x] /\ stream'[x].at = stream[x].at
                   /\ x[1] = s[1] /\ x # s => stream'[x].q = <<>>
                   /\ x[1] # s[1] => stream'[x].q = stream[x].q
        <5>1. CASE x = s
          BY <4>2, <5>1
        <5>2. CASE x = r
          BY <2>4, <4>2, <4>3, <5>2
        <5>3. CASE x # s /\ x # r
          BY <2>4, <4>1, <5>3
        <5> QED BY <5>1, <5>2, <5>3
      <4> QED BY <1>0, <4>1, <4>3, <4>4 DEF StreamI
    <3> QED BY <3>1, <3>2
  <2>10. PcI' /\ AskI'
    BY <1>0, <1>1, <2>8 DEF PcI, AskI, user
  <2>11. PlanI'
    BY <1>0, <2>8, <2>9 DEF PlanI
  <2>12. ModelI'
    <3>1. DOMAIN sess' = Stages /\ \A x \in Stages : x # s => sess'[x] = sess[x]
      BY <1>0, <2>7 DEF ModelI
    <3>2. \A x \in Stages : pc[x] \in Idle => sess'[x] = <<new, new>>
      BY <1>0, <1>1, <2>6, <3>1 DEF ModelI
    <3>3. ASSUME NEW u \in Threads PROVE <<u, 0>> \in Stages /\ <<u, 0>> # s
      <4>1. <<u, 0>> \in Stages /\ <<u, 0>>[2] = 0
        BY StageFacts
      <4>2. s[2] # 0
        BY <1>1, StageFacts
      <4> QED BY <4>1, <4>2
    <3>4. \A u \in Threads : plan[u] # <<>> \/ pc[<<u, 0>>] = "dispatch" => sess'[<<u, 0>>] = <<new, new>>
      BY <1>0, <3>1, <3>3 DEF ModelI
    <3> QED BY <2>8, <3>1, <3>2, <3>4 DEF ModelI, Idle
  <2>13. ReadI'
    BY <1>0, <2>8, <2>9, ReadQuiet
  <2>14. FrameI'
    BY <1>0, <2>4, <2>8, <2>9, Lists, FrameMoves
  <2>15. OrderI'
    <3>1. \A u \in Threads : Waiting(u)' = Waiting(u) /\ NextAsked(u)' = NextAsked(u)
      BY <2>6, <2>8 DEF Waiting, NextAsked
    <3>2. ASSUME NEW x \in Stages, pc[<<x[1], 0>>] = "wait", stream'[x].q # <<>>
          PROVE  stream'[x].q[1].chunk = NextAsked(x[1])
      <4>1. CASE x[1] # s[1]
        BY <1>0, <2>9, <3>2, <4>1 DEF OrderI
      <4>2. CASE x[1] = s[1]
        <5>1. x = s
          BY <2>9, <3>2, <4>2
        <5>2. stream[r].q # <<>>
          BY <2>4, Lists
        <5>3. f.chunk = NextAsked(s[1])
          BY <1>0, <2>4, <3>2, <4>2, <5>2 DEF OrderI
        <5>4. stream'[x].q[1] = g
          BY <2>9, <5>1, Lists
        <5> QED BY <2>7, <4>2, <5>3, <5>4
      <4> QED BY <4>1, <4>2
    <3> QED BY <1>0, <2>5, <2>6, <2>8, <3>1, <3>2 DEF OrderI
  <2> QED BY <2>9, <2>10, <2>11, <2>12, <2>13, <2>14, <2>15 DEF IInv
<1> QED BY <1>2, <1>3

(***************************************************************************)
(* The session asks, or goes away.                                         *)
(***************************************************************************)
LEMMA AskStep ==
    ASSUME IInv, NEW t \in Threads, NEW a \in Nat, NEW b \in Nat, a >= 1,
           a + b <= Len(asked[t]) + 1, Len(asked[t]) < MaxFrames,
           asked' = [asked EXCEPT ![t] = Append(@, <<a, b>>)],
           stale' \in [Threads -> 0..MaxStale],
           UNCHANGED <<pc, plan, sess, net, open, answered, work>>
    PROVE  IInv'
<1>0. PcI /\ PlanI /\ ModelI /\ StreamI /\ ReadI /\ FrameI /\ AskI /\ OrderI
  BY DEF IInv
<1>1. UNCHANGED <<stream, reads, pending_inbound, pending_accept>>
  BY DEF net
<1> DEFINE c == <<a, b>>
<1>2. asked' = [asked EXCEPT ![t] = Append(@, c)] /\ c \in Nat \X Nat /\ c[1] = a /\ c[2] = b
  OBVIOUS
<1> HIDE DEF c
<1>3. /\ DOMAIN asked' = Threads /\ asked'[t] = Append(asked[t], c)
      /\ \A u \in Threads : u # t => asked'[u] = asked[u]
  BY <1>0, <1>2 DEF AskI
<1>4. asked[t] \in Seq(Nat \X Nat) /\ Len(asked[t]) \in Nat /\ MaxFrames \in Nat
  BY <1>0, InferenceConstants DEF AskI
<1>5. /\ asked'[t] \in Seq(Nat \X Nat) /\ Len(asked'[t]) = Len(asked[t]) + 1
      /\ asked'[t][Len(asked[t]) + 1] = c
      /\ \A i \in 1..Len(asked[t]) : asked'[t][i] = asked[t][i]
  BY <1>2, <1>3, <1>4
<1>6. \A u \in Threads : /\ Len(answered[u]) \in Nat /\ Len(asked[u]) \in Nat
                         /\ Len(answered[u]) <= Len(asked[u])
  BY <1>0, ListFacts DEF AskI
<1>7. AskI'
  <2>1. ASSUME NEW u \in Threads
        PROVE  /\ asked'[u] \in Seq(Nat \X Nat) /\ Len(asked'[u]) <= MaxFrames
               /\ \A i \in 1..Len(asked'[u]) :
                     asked'[u][i][1] >= 1 /\ asked'[u][i][1] + asked'[u][i][2] <= i
               /\ Len(answered[u]) <= Len(asked'[u])
    <3>1. CASE u # t
      BY <1>0, <1>3, <3>1 DEF AskI
    <3>2. CASE u = t
      <4>1. ASSUME NEW i \in 1..Len(asked'[t])
            PROVE  asked'[t][i][1] >= 1 /\ asked'[t][i][1] + asked'[t][i][2] <= i
        <5>1. CASE i = Len(asked[t]) + 1
          BY <1>2, <1>5, <5>1
        <5>2. CASE i # Len(asked[t]) + 1
          <6>1. i \in 1..Len(asked[t])
            BY <1>4, <1>5, <5>2
          <6> QED BY <1>0, <1>5, <6>1 DEF AskI
        <5> QED BY <5>1, <5>2
      <4>2. Len(asked'[t]) <= MaxFrames /\ Len(answered[t]) <= Len(asked'[t])
        BY <1>4, <1>5, <1>6
      <4> QED BY <1>5, <3>2, <4>1, <4>2
    <3> QED BY <3>1, <3>2
  <2> QED BY <1>0, <1>3, <2>1 DEF AskI
<1>8. \A u \in Threads : Waiting(u) => Waiting(u)' /\ NextAsked(u)' = NextAsked(u)
  <2> SUFFICES ASSUME NEW u \in Threads, Waiting(u) PROVE Waiting(u)' /\ NextAsked(u)' = NextAsked(u)
    OBVIOUS
  <2>1. CASE u # t
    BY <1>3, <2>1 DEF Waiting, NextAsked
  <2>2. CASE u = t
    <3>1. Len(answered[t]) + 1 \in 1..Len(asked[t])
      BY <1>6, <2>2 DEF Waiting
    <3>2. answered' = answered /\ asked'[t][Len(answered[t]) + 1] = asked[t][Len(answered[t]) + 1]
      BY <1>5, <3>1
    <3>3. Len(answered[t]) < Len(asked'[t])
      BY <1>4, <1>5, <1>6, <3>1
    <3> QED BY <2>2, <3>2, <3>3 DEF Waiting, NextAsked
  <2> QED BY <2>1, <2>2
<1>9. OrderI'
  <2>1. ASSUME NEW u \in Threads, NEW k \in 1..Len(answered[u])
        PROVE  answered[u][k].chunk = asked'[u][k]
    <3>1. k \in 1..Len(asked[u])
      BY <1>6
    <3>2. asked'[u][k] = asked[u][k]
      BY <1>3, <1>5, <3>1
    <3> QED BY <1>0, <3>2 DEF OrderI
  <2>2. ASSUME NEW u \in Threads
        PROVE  /\ pc[<<u, 0>>] \in {"wait", "second"} => Waiting(u)'
               /\ pc[<<u, 0>>] = "second" => work[u].chunk = NextAsked(u)'
    BY <1>0, <1>8 DEF OrderI
  <2>3. ASSUME NEW x \in Stages, pc[<<x[1], 0>>] = "wait", stream[x].q # <<>>
        PROVE  stream[x].q[1].chunk = NextAsked(x[1])'
    BY <1>0, <1>8, <2>3, StageFacts DEF OrderI
  <2> QED BY <1>1, <2>1, <2>2, <2>3 DEF OrderI
<1>10. PcI' /\ PlanI' /\ ModelI' /\ StreamI' /\ ReadI' /\ FrameI'
  BY <1>0, <1>1 DEF PcI, PlanI, ModelI, StreamI, ReadI, FrameI
<1> QED BY <1>7, <1>9, <1>10 DEF IInv

\* The session sends the next token of a conversation, or the next prompt.
LEMMA AskDoes ==
    ASSUME IInv, NEW t \in Threads, Ask(t)
    PROVE  \E a, b \in Nat :
              /\ a >= 1 /\ a + b <= Len(asked[t]) + 1 /\ Len(asked[t]) < MaxFrames
              /\ asked' = [asked EXCEPT ![t] = Append(@, <<a, b>>)]
              /\ b > 0 => Len(asked[t]) > 0 /\ asked[t][Len(asked[t])] = <<a, b - 1>>
<1> DEFINE n == Len(asked[t])
           last == IF n = 0 THEN <<0, 0>> ELSE asked[t][n]
<1>0. AskI /\ n < MaxFrames
  BY DEF IInv, Ask
<1>2. /\ n \in Nat /\ last[1] \in Nat /\ last[2] \in Nat /\ last[1] + last[2] <= n
      /\ n > 0 => last[1] >= 1 /\ asked[t][n] = <<last[1], last[2]>>
  <2>1. asked[t] \in Seq(Nat \X Nat) /\ n \in Nat
    BY <1>0 DEF AskI
  <2>2. CASE n = 0
    BY <2>1, <2>2
  <2>3. CASE n # 0
    <3>1. n \in 1..n /\ last = asked[t][n] /\ asked[t][n] \in Nat \X Nat
      BY <2>1, <2>3
    <3>2. asked[t][n][1] >= 1 /\ asked[t][n][1] + asked[t][n][2] <= n
      BY <1>0, <3>1 DEF AskI
    <3> HIDE DEF last, n
    <3> QED BY <2>1, <3>1, <3>2
  <2> QED BY <2>2, <2>3
<1>4. \/ n > 0 /\ asked' = [asked EXCEPT ![t] = Append(@, <<last[1], last[2] + 1>>)]
      \/ asked' = [asked EXCEPT ![t] = Append(@, <<last[1] + 1, 0>>)]
  BY DEF Ask
<1> HIDE DEF last
<1>5. CASE n > 0 /\ asked' = [asked EXCEPT ![t] = Append(@, <<last[1], last[2] + 1>>)]
  <2> DEFINE a == last[1]
             b == last[2] + 1
  <2>1. /\ a \in Nat /\ b \in Nat /\ a >= 1 /\ a + b <= Len(asked[t]) + 1
        /\ asked' = [asked EXCEPT ![t] = Append(@, <<a, b>>)] /\ asked[t][n] = <<a, b - 1>>
    BY <1>2, <1>5
  <2> HIDE DEF a, b
  <2> QED BY <1>0, <1>5, <2>1
<1>6. CASE asked' = [asked EXCEPT ![t] = Append(@, <<last[1] + 1, 0>>)]
  <2> DEFINE a == last[1] + 1
             b == 0
  <2>1. /\ a \in Nat /\ b \in Nat /\ a >= 1 /\ a + b <= Len(asked[t]) + 1 /\ ~(b > 0)
        /\ asked' = [asked EXCEPT ![t] = Append(@, <<a, b>>)]
    BY <1>2, <1>6
  <2> HIDE DEF a, b
  <2> QED BY <1>0, <2>1
<1> QED BY <1>4, <1>5, <1>6

LEMMA AskKeeps ==
    ASSUME IInv, NEW t \in Threads, Ask(t)
    PROVE  IInv'
<1>0. AskI /\ MaxStale \in Nat
  BY InferenceConstants DEF IInv
<1>1. UNCHANGED <<pc, plan, sess, net, open, answered, work>>
  BY DEF Ask
<1>2. stale' \in [Threads -> 0..MaxStale]
  <2>1. stale \in [Threads -> 0..MaxStale]
    BY <1>0 DEF AskI
  <2>2. \/ stale' = stale
        \/ stale[t] < MaxStale /\ stale' = [stale EXCEPT ![t] = @ + 1]
    BY DEF Ask
  <2>3. stale[t] < MaxStale => stale[t] + 1 \in 0..MaxStale
    BY <1>0, <2>1
  <2> QED BY <2>1, <2>2, <2>3
<1>3. PICK a \in Nat, b \in Nat :
         /\ a >= 1 /\ a + b <= Len(asked[t]) + 1 /\ Len(asked[t]) < MaxFrames
         /\ asked' = [asked EXCEPT ![t] = Append(@, <<a, b>>)]
  BY AskDoes
<1> QED BY <1>1, <1>2, <1>3, AskStep

LEMMA QuietKeeps ==
    ASSUME IInv, UNCHANGED <<pc, plan, sess, net, stale, asked, answered, work>>,
           open' \in [Threads -> BOOLEAN]
    PROVE  IInv'
<1>0. PcI /\ PlanI /\ ModelI /\ StreamI /\ ReadI /\ FrameI /\ AskI /\ OrderI
  BY DEF IInv
<1>1. UNCHANGED <<stream, reads, pending_inbound, pending_accept>>
  BY DEF net
<1>2. PcI' /\ PlanI' /\ ModelI' /\ StreamI' /\ ReadI' /\ FrameI' /\ AskI'
  BY <1>0, <1>1 DEF PcI, PlanI, ModelI, StreamI, ReadI, FrameI, AskI
<1>3. OrderI'
  BY <1>0, <1>1 DEF OrderI, Waiting, NextAsked
<1> QED BY <1>2, <1>3 DEF IInv

(***************************************************************************)
(* Every step.                                                             *)
(***************************************************************************)
LEMMA ThreadKeeps ==
    ASSUME IInv, NEW t \in Threads, ThreadStep(t)
    PROVE  IInv'
<1>1. CASE OffloadEnds(t)
  <2> DEFINE s == <<t, 0>>
  <2>1. s \in Stages /\ End(s) /\ UNCHANGED user /\ pc[s] \notin {"absent", "ended"}
    BY <1>1, StageFacts DEF OffloadEnds
  <2> HIDE DEF s
  <2> QED BY <2>1, EndKeeps
<1>2. CASE Plan(t) \/ Dispatch(t) \/ OpenForward(t) \/ TakeTensor(t)
  BY <1>2, PlanKeeps, DispatchKeeps, OpenForwardKeeps, TakeTensorKeeps
<1>3. CASE ReturnLogits(t) \/ CoordinatorEnds(t) \/ Connect(t) \/ Analyze(t)
  BY <1>3, ReturnLogitsKeeps, CoordinatorEndsKeeps, ConnectKeeps, AnalyzeKeeps
<1>4. CASE Preload(t) \/ FirstHalf(t) \/ SecondHalf(t) \/ BringFirst(t)
  BY <1>4, PreloadKeeps, FirstHalfKeeps, SecondHalfKeeps, BringFirstKeeps
<1> QED BY <1>1, <1>2, <1>3, <1>4 DEF ThreadStep

LEMMA StageKeeps ==
    ASSUME DistinctIds, IInv, NEW s \in Stages, StageStep(s)
    PROVE  IInv'
<1>1. CASE accept_fails(s)
  BY <1>1, EndKeeps DEF accept_fails
<1>2. CASE WorkerEnds(s)
  BY <1>2, EndKeeps DEF WorkerEnds
<1>3. CASE Register(s) \/ Accepted(s)
  BY <1>3, RegisterKeeps, AcceptedKeeps
<1>4. CASE LoadHalves(s) \/ OpenOut(s) \/ Work(s)
  BY <1>4, LoadHalvesKeeps, OpenOutKeeps, WorkKeeps
<1> QED BY <1>1, <1>2, <1>3, <1>4 DEF StageStep

LEMMA NextInv ==
    ASSUME DistinctIds, IInv, [Next]_vars
    PROVE  IInv'
<1>0. open \in [Threads -> BOOLEAN]
  BY DEF IInv, AskI
<1>1. CASE \E t \in Threads : ThreadStep(t)
  BY <1>1, ThreadKeeps
<1>2. CASE \E t \in Threads : Ask(t)
  BY <1>2, AskKeeps
<1>3. CASE \E t \in Threads : Close(t)
  <2>1. /\ UNCHANGED <<pc, plan, sess, net, stale, asked, answered, work>>
        /\ open' \in [Threads -> BOOLEAN]
    BY <1>0, <1>3 DEF Close
  <2> QED BY <2>1, QuietKeeps
<1>4. CASE \E s \in Stages : StageStep(s)
  BY <1>4, StageKeeps
<1>5. CASE \E s \in Stages : insert_inbound(s)
  BY <1>5, InsertKeeps
<1>6. CASE UNCHANGED vars
  <2>1. /\ UNCHANGED <<pc, plan, sess, net, stale, asked, answered, work>>
        /\ open' \in [Threads -> BOOLEAN]
    BY <1>0, <1>6 DEF vars, user
  <2> QED BY <2>1, QuietKeeps
<1> QED BY <1>1, <1>2, <1>3, <1>4, <1>5, <1>6 DEF Next

(***************************************************************************)
(* The theorems.                                                           *)
(***************************************************************************)
\* The inductive invariant holds in every behaviour.
THEOREM Invariant ==
    ASSUME DistinctIds
    PROVE  Spec => []IInv
<1>1. Init => IInv
  BY InitInv
<1>2. IInv /\ [Next]_vars => IInv'
  BY NextInv
<1> QED BY <1>1, <1>2, PTL DEF Spec

\* Every variable keeps its type; a stage that has not started or has ended
\* holds no model, and no stream of a pipeline ever holds more than one frame.
THEOREM TypesKept ==
    ASSUME DistinctIds
    PROVE  Spec => []TypeOK
<1>1. IInv => TypeOK
  <2> SUFFICES ASSUME IInv PROVE TypeOK
    OBVIOUS
  <2>0. PcI /\ PlanI /\ ModelI /\ StreamI /\ ReadI /\ FrameI /\ AskI
    BY DEF IInv
  <2> DEFINE Pcs == Programs \cup
                  {"absent", "dispatch", "load", "register", "accept", "open", "connect",
                   "preload", "loop", "wait", "second", "restore", "ended"}
  <2>1. pc \in [Stages -> Pcs]
    <3>1. pc \in [Stages -> CoordPcs \cup WorkerPcs]
      BY <2>0 DEF PcI
    <3>2. \A s \in Stages : pc[s] \in Pcs
      BY <2>0, StageFacts DEF PcI, CoordPcs, WorkerPcs
    <3> QED BY <3>1, <3>2
  <2>2. ASSUME NEW t \in Threads PROVE Len(plan[t]) <= MaxStages
    <3>1. Len(plan[t]) \in 0..MaxStages /\ MaxStages \in Nat
      BY <2>0, InferenceConstants DEF PlanI
    <3> QED BY <3>1
  <2>3. \A s \in Stages : /\ stream[s].at \in {"none", "flying", "pending", "read"}
                          /\ pc[s] \in Programs \cup {"absent", "ended"} => sess[s] = <<new, new>>
    BY <2>0 DEF StreamI, ModelI, Idle
  <2>4. ASSUME NEW s \in Stages PROVE Len(stream[s].q) <= 1
    <3>1. stream[s].q = <<>> \/ stream[s].q = <<stream[s].q[1]>>
      BY <2>0 DEF FrameI, AtMostOne
    <3>2. Len(stream[s].q) \in {0, 1}
      BY <3>1, Lists
    <3>3. \A n \in {0, 1} : n <= 1
      OBVIOUS
    <3> QED BY <3>2, <3>3, Zenon
  <2>5. /\ reads \in [Stages -> Stages \cup {None}]
        /\ pending_inbound \in [Slots -> Stages \cup {None}]
        /\ pending_accept \in [Slots -> Stages \cup {None}]
        /\ open \in [Threads -> BOOLEAN] /\ stale \in [Threads -> 0..MaxStale]
    BY <2>0 DEF ReadI, AskI
  <2>6. ASSUME NEW t \in Threads
        PROVE  Range(asked[t]) \subseteq ChunkSet /\ Len(answered[t]) <= Len(asked[t])
    <3>1. /\ asked[t] \in Seq(Nat \X Nat) /\ Len(asked[t]) <= MaxFrames
          /\ \A i \in 1..Len(asked[t]) : asked[t][i][1] >= 1 /\ asked[t][i][1] + asked[t][i][2] <= i
          /\ Len(answered[t]) <= Len(asked[t]) /\ MaxFrames \in Nat
      BY <2>0, InferenceConstants DEF AskI
    <3>2. ASSUME NEW i \in DOMAIN asked[t] PROVE asked[t][i] \in ChunkSet
      <4> DEFINE q == asked[t]
      <4>a. q \in Seq(Nat \X Nat) /\ i \in DOMAIN q
        BY <3>1, <3>2
      <4> HIDE DEF q
      <4>b. i \in 1..Len(q) /\ q[i] \in Nat \X Nat /\ Len(q) \in Nat
        BY <4>a
      <4>0. i \in 1..Len(asked[t]) /\ asked[t][i] \in Nat \X Nat /\ Len(asked[t]) \in Nat
        BY <4>b DEF q
      <4>1. i \in 1..Len(asked[t]) /\ asked[t][i] \in Nat \X Nat /\ i <= MaxFrames /\ i \in Nat
        BY <3>1, <4>0
      <4>2. PICK a \in Nat, b \in Nat : asked[t][i] = <<a, b>>
        BY <4>1
      <4>3. a >= 1 /\ a + b <= i
        BY <3>1, <4>1, <4>2
      <4>4. a \in 1..MaxFrames /\ b \in 0..(MaxFrames - 1)
        BY <3>1, <4>1, <4>3
      <4> QED BY <4>2, <4>4 DEF ChunkSet
    <3> QED BY <3>1, <3>2 DEF Range
  <2> QED BY <2>1, <2>2, <2>3, <2>4, <2>5, <2>6 DEF TypeOK
<1> QED BY <1>1, Invariant, PTL

\* A stage only ever reads streams opened for its own session, through every
\* race of insert_inbound and register_accept.
THEOREM StreamsOwned ==
    ASSUME DistinctIds
    PROVE  Spec => []OwnStreams
<1>1. IInv => OwnStreams
  BY DEF IInv, ReadI, OwnStreams
<1> QED BY <1>1, Invariant, PTL

\* The k-th answer of a session belongs to the k-th tensor it has sent, with
\* either program, any pipeline and any failure.
THEOREM AnswersOrdered ==
    ASSUME DistinctIds
    PROVE  Spec => []AnswersInOrder
<1>1. IInv => AnswersInOrder
  <2> SUFFICES ASSUME IInv, NEW t \in Threads, NEW k \in DOMAIN answered[t]
               PROVE  answered[t][k].chunk = asked[t][k]
    BY DEF AnswersInOrder
  <2>1. k \in 1..Len(answered[t])
    BY ListFacts DEF IInv, AskI
  <2> QED BY <2>1 DEF IInv, OrderI
<1> QED BY <1>1, Invariant, PTL

(***************************************************************************)
(* Streams meet the programs they are meant for.  The hypothesis is that   *)
(* list_model_peers has one entry for a node: else two workers there wait  *)
(* under the same id.                                                      *)
(***************************************************************************)
OnePerNode == \A t \in Threads, held \in Placements :
                  \A d, e \in Remote(t, held) : d.peer = e.peer => d = e

\* Every node has one stage of a thread.
PeersI ==
    \A t \in Threads : \A i \in 1..Len(plan[t]) :
        /\ plan[t][i].peer # host[t]
        /\ \A j \in 1..Len(plan[t]) : plan[t][i].peer = plan[t][j].peer => i = j

\* A stream and a program meet where the program is the next stage.
NotYet == {"absent", "pipeline_coord", "offload_pingpong", "dispatch", "load", "register"}
MeetI ==
    /\ \A s \in Stages : reads[s] # None => /\ reads[s] = Upstream(s) /\ pc[s] \notin NotYet
                                            /\ stream[reads[s]].at # "none"
    /\ \A k \in Slots : pending_inbound[k] # None =>
          k = Slot(NodeOf(Downstream(pending_inbound[k])), pending_inbound[k])
    /\ \A k \in Slots : pending_accept[k] # None =>
          /\ k = Slot(NodeOf(pending_accept[k]), pending_accept[k])
          /\ pc[pending_accept[k]] \notin NotYet
    /\ \A t \in Threads : stream[<<t, 0>>].at # "none" => pc[<<t, 0>>] \notin NotYet \ {"register"}

\* The pipeline is set up from its beginning.
SetUpI ==
    /\ \A s \in Stages : plan[s[1]] # <<>> /\ pc[s] \in {"open", "connect", "loop", "wait"}
                            => reads[s] # None
    /\ \A s \in Stages : stream[s].at # "none" =>
          \A j \in 1..s[2] : pc[<<s[1], j>>] \in {"loop", "ended"}
    /\ \A t \in Threads : pc[<<t, 0>>] = "wait" => plan[t] # <<>>

LInv == PeersI /\ MeetI /\ SetUpI

(***************************************************************************)
(* How every stage goes through its program, and when it opens its stream. *)
(***************************************************************************)
Leaps(x, a, b) == pc[x] = a /\ pc'[x] = b
Goes(x) ==
    \/ pc'[x] = pc[x] \/ pc'[x] = "ended"
    \/ Leaps(x, "register", "accept")
    \/ /\ x[2] = 0
       /\ \/ Leaps(x, "pipeline_coord", "dispatch") \/ Leaps(x, "dispatch", "register")
          \/ Leaps(x, "accept", "connect") /\ reads[x] # None
          \/ Leaps(x, "offload_pingpong", "connect")
          \/ Leaps(x, "connect", "preload")
          \/ Leaps(x, "connect", "loop") /\ plan[x[1]] # <<>>
          \/ Leaps(x, "preload", "loop") \/ Leaps(x, "loop", "second")
          \/ Leaps(x, "second", "restore") \/ Leaps(x, "restore", "loop")
          \/ Leaps(x, "loop", "wait") /\ plan[x[1]] # <<>>
          \/ Leaps(x, "wait", "loop")
    \/ /\ x[2] # 0
       /\ \/ Leaps(x, "absent", "load") \/ Leaps(x, "load", "register")
          \/ Leaps(x, "accept", "open") /\ reads[x] # None
          \/ Leaps(x, "open", "loop")
Opens(x) ==
    \/ (stream'[x].at = "none" <=> stream[x].at = "none")
    \/ stream'[x].at # "none" /\ x[2] = 0 /\ Leaps(x, "dispatch", "register")
    \/ stream'[x].at # "none" /\ x[2] # 0 /\ Leaps(x, "open", "loop")
Moves == \A x \in Stages : Goes(x) /\ Opens(x)

\* One stage goes on; no stream is opened.
LEMMA OneGoes ==
    ASSUME IInv, NEW s \in Stages, NEW p, pc' = [pc EXCEPT ![s] = p], Goes(s),
           \A x \in Stages : stream'[x].at = "none" <=> stream[x].at = "none"
    PROVE  Moves
<1>1. \A x \in Stages : x # s => pc'[x] = pc[x]
  BY PcMoves DEF IInv, PcI
<1>2. \A x \in Stages : Goes(x)
  BY <1>1 DEF Goes
<1>3. \A x \in Stages : Opens(x)
  BY DEF Opens
<1> QED BY <1>2, <1>3 DEF Moves

LEMMA EndGoes ==
    ASSUME IInv, NEW s \in Stages, End(s)
    PROVE  Moves
<1> DEFINE p == "ended"
<1>1. pc' = [pc EXCEPT ![s] = p] /\ Drop(s)
  BY DEF End
<1>2. pc'[s] = "ended"
  BY <1>1 DEF IInv, PcI
<1>3. \A x \in Stages : stream'[x].at = stream[x].at
  BY <1>1, DropDoes DEF IInv
<1>4. Goes(s)
  BY <1>2 DEF Goes
<1> HIDE DEF p
<1> QED BY <1>1, <1>3, <1>4, OneGoes

LEMMA OpenGoes ==
    ASSUME IInv, NEW s \in Stages, NEW p, pc' = [pc EXCEPT ![s] = p], NEW node,
           open_tensor_stream(s, node),
           (s[2] = 0 /\ pc[s] = "dispatch" /\ p = "register") \/ (s[2] # 0 /\ pc[s] = "open" /\ p = "loop")
    PROVE  Moves
<1>1. pc'[s] = p /\ \A x \in Stages : x # s => pc'[x] = pc[x]
  BY PcMoves DEF IInv, PcI
<1>2. stream'[s].at = "flying" /\ \A x \in Stages : x # s => stream'[x] = stream[x]
  BY DEF open_tensor_stream, IInv, StreamI
<1>3. Goes(s) /\ Opens(s)
  BY <1>1, <1>2 DEF Goes, Opens, Leaps
<1>4. \A x \in Stages : x # s => Goes(x) /\ Opens(x)
  BY <1>1, <1>2 DEF Goes, Opens
<1> QED BY <1>3, <1>4 DEF Moves

LEMMA ThreadGoes ==
    ASSUME IInv, NEW t \in Threads, ThreadStep(t)
    PROVE  Moves
<1> DEFINE s == <<t, 0>>
<1>0. s \in Stages /\ s[1] = t /\ s[2] = 0 /\ DOMAIN pc = Stages
  BY StageFacts DEF IInv, PcI
<1>1. CASE End(s)
  <2> HIDE DEF s
  <2> QED BY <1>0, <1>1, EndGoes
<1>2. ASSUME NEW p, pc' = [pc EXCEPT ![s] = p], UNCHANGED stream
      PROVE  Goes(s) => Moves
  <2> HIDE DEF s
  <2> QED BY <1>0, <1>2, OneGoes
<1>3. ASSUME NEW p, pc' = [pc EXCEPT ![s] = p]
      PROVE  pc'[s] = p
  BY <1>0, <1>3
<1>4. CASE ~End(s) /\ (Plan(t) \/ Connect(t) \/ Analyze(t) \/ Preload(t))
  <2>1. CASE Plan(t)
    <3>1. pc[s] = "pipeline_coord" /\ pc' = [pc EXCEPT ![s] = "dispatch"] /\ UNCHANGED net
      BY <1>4, <2>1 DEF Plan
    <3>2. Goes(s)
      BY <1>0, <1>3, <3>1 DEF Goes, Leaps
    <3> QED BY <1>2, <3>1, <3>2 DEF net
  <2>2. CASE Connect(t)
    <3>1. /\ pc[s] = "connect" /\ UNCHANGED net
          /\ pc' = [pc EXCEPT ![s] = IF plan[t] = <<>> THEN "preload" ELSE "loop"]
      BY <2>2 DEF Connect
    <3>2. Goes(s)
      BY <1>0, <1>3, <3>1 DEF Goes, Leaps
    <3> QED BY <1>2, <3>1, <3>2 DEF net
  <2>3. CASE Analyze(t)
    <3>1. pc[s] = "offload_pingpong" /\ pc' = [pc EXCEPT ![s] = "connect"] /\ UNCHANGED net
      BY <1>4, <2>3 DEF Analyze, Local
    <3>2. Goes(s)
      BY <1>0, <1>3, <3>1 DEF Goes, Leaps
    <3> QED BY <1>2, <3>1, <3>2 DEF net
  <2>4. CASE Preload(t)
    <3>1. pc[s] = "preload" /\ pc' = [pc EXCEPT ![s] = "loop"] /\ UNCHANGED net
      BY <1>4, <2>4 DEF Preload, Local
    <3>2. Goes(s)
      BY <1>0, <1>3, <3>1 DEF Goes, Leaps
    <3> QED BY <1>2, <3>1, <3>2 DEF net
  <2> QED BY <1>4, <2>1, <2>2, <2>3, <2>4
<1>5. CASE ~End(s) /\ (FirstHalf(t) \/ SecondHalf(t) \/ BringFirst(t))
  <2>1. CASE FirstHalf(t)
    <3>1. pc[s] = "loop" /\ pc' = [pc EXCEPT ![s] = "second"] /\ UNCHANGED net
      BY <1>5, <2>1 DEF FirstHalf, Local
    <3>2. Goes(s)
      BY <1>0, <1>3, <3>1 DEF Goes, Leaps
    <3> QED BY <1>2, <3>1, <3>2 DEF net
  <2>2. CASE SecondHalf(t)
    <3>1. pc[s] = "second" /\ pc' = [pc EXCEPT ![s] = "restore"] /\ UNCHANGED net
      BY <1>5, <2>2 DEF SecondHalf, Local
    <3>2. Goes(s)
      BY <1>0, <1>3, <3>1 DEF Goes, Leaps
    <3> QED BY <1>2, <3>1, <3>2 DEF net
  <2>3. CASE BringFirst(t)
    <3>1. pc[s] = "restore" /\ pc' = [pc EXCEPT ![s] = "loop"] /\ UNCHANGED net
      BY <1>5, <2>3 DEF BringFirst, Local
    <3>2. Goes(s)
      BY <1>0, <1>3, <3>1 DEF Goes, Leaps
    <3> QED BY <1>2, <3>1, <3>2 DEF net
  <2> QED BY <1>5, <2>1, <2>2, <2>3
<1>6. CASE Dispatch(t)
  <2> DEFINE todo == {i \in DOMAIN plan[t] : pc[<<t, i>>] = "absent"}
             w == <<t, Min(todo)>>
  <2>1. Min(todo) \in todo
    <3>1. todo # {} /\ todo \subseteq Nat
      BY <1>6 DEF Dispatch, IInv, PlanI
    <3> HIDE DEF todo
    <3> QED BY <3>1, LeastIn
  <2>2. w \in Stages /\ w[2] # 0 /\ pc[w] = "absent" /\ w # s
    <3>1. Min(todo) \in 1..Len(plan[t]) /\ Len(plan[t]) \in 0..MaxStages
      BY <2>1 DEF IInv, PlanI
    <3>2. pc[w] = "absent"
      BY <2>1
    <3> HIDE DEF todo
    <3> QED BY <3>1, <3>2, WorkerStage
  <2>3. CASE ~End(s)
    <3>0. pc[s] = "dispatch" /\ UNCHANGED stream
      BY <1>6, <2>3 DEF Dispatch, net
    <3>1. \/ pc' = [pc EXCEPT ![w] = "load"]
          \/ pc' = [pc EXCEPT ![w] = "load", ![s] = "ended"]
      BY <1>6, <2>3 DEF Dispatch
    <3> HIDE DEF w, s, todo
    <3>2. \A x \in Stages : x # w => pc'[x] = pc[x] \/ pc'[x] = "ended"
      BY <1>0, <2>2, <3>1
    <3>3. pc'[w] = "load"
      BY <1>0, <2>2, <3>1
    <3>4. \A x \in Stages : Goes(x)
      BY <2>2, <3>2, <3>3 DEF Goes, Leaps
    <3> QED BY <3>0, <3>4 DEF Moves, Opens
  <2> QED BY <1>1, <2>3
<1>7. CASE OpenForward(t) /\ ~End(s)
  <2> DEFINE p == "register"
  <2>1. pc[s] = "dispatch" /\ open_tensor_stream(s, plan[t][1].peer) /\ pc' = [pc EXCEPT ![s] = p]
    BY <1>7 DEF OpenForward
  <2> HIDE DEF s
  <2> QED BY <1>0, <2>1, OpenGoes
<1>8. CASE TakeTensor(t) /\ ~End(s)
  <2>1. /\ pc[s] = "loop" /\ pc' = [pc EXCEPT ![s] = "wait"] /\ plan[t] # <<>>
        /\ send_tensor(s, TokenIds(NextAsked(t)))
    BY <1>8 DEF TakeTensor, Coordinator
  <2>2. Goes(s)
    BY <1>0, <1>3, <2>1 DEF Goes, Leaps
  <2> HIDE DEF s
  <2>3. \A x \in Stages : stream'[x].at = stream[x].at
    BY <1>0, <2>1 DEF send_tensor, IInv, StreamI
  <2> QED BY <1>0, <2>1, <2>2, <2>3, OneGoes
<1>9. CASE ReturnLogits(t) /\ ~End(s)
  <2>1. /\ pc[s] = "wait" /\ pc' = [pc EXCEPT ![s] = "loop"] /\ reads[s] # None
        /\ stream' = [stream EXCEPT ![reads[s]].q = Tail(@)]
    BY <1>9 DEF ReturnLogits, Readable
  <2>2. Goes(s)
    BY <1>0, <1>3, <2>1 DEF Goes, Leaps
  <2> HIDE DEF s
  <2>3. \A x \in Stages : stream'[x].at = stream[x].at
    BY <1>0, <2>1 DEF IInv, StreamI, ReadI
  <2> QED BY <1>0, <2>1, <2>2, <2>3, OneGoes
<1>10. CASE CoordinatorEnds(t)
  <2>1. /\ pc' = [pc EXCEPT ![s] = "ended"]
        /\ stream' = [x \in Stages |->
            [stream[x] EXCEPT !.open = @ /\ x # s, !.read = @ /\ reads[s] # x,
                              !.q = IF x = s /\ stream[s].read THEN Append(@, Eof) ELSE @]]
    BY <1>10 DEF CoordinatorEnds
  <2>2. Goes(s)
    BY <1>0, <1>3, <2>1 DEF Goes, Leaps
  <2> HIDE DEF s
  <2>3. \A x \in Stages : stream'[x].at = stream[x].at
    BY <1>0, <2>1 DEF IInv, StreamI
  <2> QED BY <1>0, <2>1, <2>2, <2>3, OneGoes
<1>11. CASE OffloadEnds(t)
  BY <1>1, <1>11 DEF OffloadEnds
<1> QED BY <1>1, <1>4, <1>5, <1>6, <1>7, <1>8, <1>9, <1>10, <1>11 DEF ThreadStep

LEMMA StageGoes ==
    ASSUME IInv, NEW s \in Stages, StageStep(s)
    PROVE  Moves
<1>0. DOMAIN pc = Stages /\ DOMAIN stream = Stages /\ (s[2] = 0 => pc[s] \in CoordPcs)
  BY DEF IInv, PcI, StreamI
<1>1. CASE End(s)
  BY <1>1, EndGoes
<1>2. CASE Register(s)
  <2>1. pc[s] = "register" /\ pc' = [pc EXCEPT ![s] = "accept"] /\ register_accept(s)
    BY <1>2 DEF Register
  <2>2. Goes(s)
    BY <1>0, <2>1 DEF Goes, Leaps
  <2>3. \A x \in Stages : stream'[x].at = "none" <=> stream[x].at = "none"
    <3> DEFINE k == Slot(NodeOf(s), s)
               i == pending_inbound[k]
    <3>1. CASE i = None
      BY <2>1, <3>1 DEF register_accept
    <3>2. CASE i # None
      <4>1. stream' = [stream EXCEPT ![i].at = "read"]
        BY <2>1, <3>2 DEF register_accept
      <4>2. k \in Slots
        BY <2>1, InPlan, SlotIn DEF IInv
      <4>3. i \in Stages /\ stream[i].at # "none"
        <5> HIDE DEF k
        <5> QED BY <3>2, <4>2 DEF IInv, ReadI
      <4> HIDE DEF i
      <4> QED BY <1>0, <4>1, <4>3 DEF IInv, StreamI
    <3> QED BY <3>1, <3>2
  <2> QED BY <2>1, <2>2, <2>3, OneGoes
<1>3. CASE Accepted(s)
  <2>1. /\ pc[s] = "accept" /\ reads[s] # None /\ UNCHANGED stream
        /\ pc' = [pc EXCEPT ![s] = IF s[2] = 0 THEN "connect" ELSE "open"]
    BY <1>3 DEF Accepted, net
  <2>2. Goes(s)
    BY <1>0, <2>1 DEF Goes, Leaps
  <2> QED BY <2>1, <2>2, OneGoes
<1>4. CASE LoadHalves(s) /\ ~End(s)
  <2>1. pc[s] = "load" /\ pc' = [pc EXCEPT ![s] = "register"] /\ UNCHANGED net
    BY <1>4 DEF LoadHalves
  <2>2. Goes(s)
    BY <1>0, <2>1 DEF Goes, Leaps, CoordPcs
  <2> QED BY <2>1, <2>2, OneGoes DEF net
<1>5. CASE OpenOut(s) /\ ~End(s)
  <2> DEFINE p == "loop"
  <2>1. /\ pc[s] = "open" /\ open_tensor_stream(s, NodeOf(Downstream(s)))
        /\ pc' = [pc EXCEPT ![s] = p]
    BY <1>5 DEF OpenOut
  <2>2. s[2] # 0
    BY <1>0, <2>1 DEF CoordPcs
  <2> QED BY <2>1, <2>2, OpenGoes
<1>6. CASE Work(s) /\ ~End(s)
  <2>1. PICK f : /\ UNCHANGED pc /\ reads[s] # None
                 /\ stream' = [[stream EXCEPT ![reads[s]].q = Tail(@)] EXCEPT ![s].q = Append(@, f)]
    BY <1>6 DEF Work, Readable
  <2>2. \A x \in Stages : stream'[x].at = stream[x].at
    BY <1>0, <2>1 DEF IInv, StreamI, ReadI
  <2> QED BY <2>1, <2>2 DEF Moves, Goes, Opens
<1> QED BY <1>1, <1>2, <1>3, <1>4, <1>5, <1>6 DEF StageStep, accept_fails, WorkerEnds

LEMMA InsertGoes ==
    ASSUME IInv, NEW s \in Stages, insert_inbound(s)
    PROVE  Moves
<1>1. UNCHANGED pc /\ stream[s].at = "flying"
  BY DEF insert_inbound
<1>2. DOMAIN stream = Stages /\ \A x \in Stages : DOMAIN stream[x] = {"at", "q", "open", "read"}
  BY DEF IInv, StreamI
<1>3. \/ stream' = [stream EXCEPT ![s].at = "read"]
      \/ stream' = [stream EXCEPT ![s].at = "read", ![s].read = FALSE]
      \/ \E o : stream' = [x \in Stages |->
                     IF x = s THEN [stream[x] EXCEPT !.at = "pending"]
                     ELSE IF x = o THEN [stream[x] EXCEPT !.read = FALSE] ELSE stream[x]]
  BY DEF insert_inbound
<1>4. \A x \in Stages : stream'[x].at = "none" <=> stream[x].at = "none"
  BY <1>1, <1>2, <1>3
<1> QED BY <1>1, <1>4 DEF Moves, Goes, Opens

\* Every step moves the stages along these ways.
LEMMA NextGoes ==
    ASSUME IInv, [Next]_vars
    PROVE  Moves
<1>1. CASE \E t \in Threads : ThreadStep(t)
  BY <1>1, ThreadGoes
<1>2. CASE \E t \in Threads : Ask(t) \/ Close(t)
  BY <1>2 DEF Ask, Close, net, Moves, Goes, Opens
<1>3. CASE \E s \in Stages : StageStep(s)
  BY <1>3, StageGoes
<1>4. CASE \E s \in Stages : insert_inbound(s)
  BY <1>4, InsertGoes
<1>5. CASE UNCHANGED vars
  BY <1>5 DEF vars, net, Moves, Goes, Opens
<1> QED BY <1>1, <1>2, <1>3, <1>4, <1>5 DEF Next

(***************************************************************************)
(* The rendezvous.                                                         *)
(***************************************************************************)
LEMMA DownUp ==
    ASSUME PlanI, NEW s \in Stages, s[2] <= Len(plan[s[1]])
    PROVE  /\ Downstream(s) \in Stages /\ Downstream(s)[1] = s[1]
           /\ Downstream(s)[2] <= Len(plan[s[1]]) /\ Upstream(Downstream(s)) = s
<1> DEFINE d == Downstream(s)
           n == Len(plan[s[1]])
<1>0. s[1] \in Threads /\ s[2] \in 0..MaxStages /\ s = <<s[1], s[2]>> /\ n \in 0..MaxStages
  BY StageFacts DEF PlanI
<1>1. CASE s[2] = n
  <2>1. d = <<s[1], 0>>
    BY <1>1 DEF Downstream
  <2>2. d \in Stages /\ d[1] = s[1] /\ d[2] = 0
    BY <1>0, <2>1, StageFacts
  <2>3. Upstream(d) = <<s[1], n>>
    <3> HIDE DEF d
    <3> QED BY <2>2 DEF Upstream
  <2> QED BY <1>0, <1>1, <2>2, <2>3
<1>2. CASE s[2] # n
  <2>1. d = <<s[1], s[2] + 1>> /\ s[2] + 1 \in 1..n
    BY <1>0, <1>2 DEF Downstream
  <2> HIDE DEF d, n
  <2>2. d \in Stages /\ d[1] = s[1] /\ d[2] = s[2] + 1 /\ d[2] <= n /\ d[2] # 0 /\ d[2] - 1 = s[2]
    BY <1>0, <2>1, WorkerStage
  <2>3. Upstream(d) = <<s[1], s[2]>>
    BY <2>2 DEF Upstream
  <2> QED BY <1>0, <2>2, <2>3 DEF d, n
<1> QED BY <1>1, <1>2

\* Two stages with the same place in a rendezvous are one.
LEMMA OnePlace ==
    ASSUME DistinctIds, PlanI, PeersI, NEW x \in Stages, NEW y \in Stages,
           x[2] <= Len(plan[x[1]]), y[2] <= Len(plan[y[1]]),
           Slot(NodeOf(x), x) = Slot(NodeOf(y), y)
    PROVE  x = y
<1>0. /\ x[1] \in Threads /\ y[1] \in Threads /\ x = <<x[1], x[2]>> /\ y = <<y[1], y[2]>>
      /\ x[2] \in 0..MaxStages /\ y[2] \in 0..MaxStages
  BY StageFacts
<1>1. NodeOf(x) = NodeOf(y) /\ sid[x[1]] = sid[y[1]]
  BY DEF Slot
<1>2. x[1] = y[1]
  BY <1>0, <1>1 DEF DistinctIds
<1> DEFINE n == Len(plan[x[1]])
<1>3. n \in 0..MaxStages
  BY <1>0 DEF PlanI
<1>4. \A z \in 0..MaxStages : z <= n => z = 0 \/ z \in 1..n
  BY <1>3
<1>5. x[2] = y[2]
  <2>1. CASE x[2] = 0 \/ y[2] = 0
    <3>1. x[2] # 0 \/ y[2] # 0 => NodeOf(x) # NodeOf(y)
      BY <1>0, <1>2, <1>4, <2>1 DEF NodeOf, PeersI
    <3> QED BY <1>1, <2>1, <3>1
  <2>2. CASE x[2] # 0 /\ y[2] # 0
    <3>1. plan[x[1]][x[2]].peer = plan[x[1]][y[2]].peer
      BY <1>1, <1>2, <2>2 DEF NodeOf
    <3> QED BY <1>0, <1>2, <1>4, <2>2, <3>1 DEF PeersI
  <2> QED BY <2>1, <2>2
<1> QED BY <1>0, <1>2, <1>5

LEMMA MeetStep ==
    ASSUME IInv, MeetI, Moves, UNCHANGED plan,
           \A x \in Stages : \/ reads'[x] = reads[x]
                             \/ /\ reads'[x] = Upstream(x) /\ pc'[x] \notin NotYet
                                /\ reads'[x] \in Stages /\ stream[reads'[x]].at # "none",
           \A k \in Slots : \/ pending_inbound'[k] \in {pending_inbound[k], None}
                            \/ k = Slot(NodeOf(Downstream(pending_inbound'[k])), pending_inbound'[k]),
           \A k \in Slots : \/ pending_accept'[k] \in {pending_accept[k], None}
                            \/ /\ k = Slot(NodeOf(pending_accept'[k]), pending_accept'[k])
                               /\ pc'[pending_accept'[k]] \notin NotYet
    PROVE  MeetI'
<1>1. \A x \in Stages : pc'[x] \in NotYet => pc[x] \in NotYet
  BY DEF Moves, Goes, Leaps, NotYet
<1>2. \A x \in Stages : stream[x].at # "none" => stream'[x].at # "none"
  BY DEF Moves, Opens
<1>3. ASSUME NEW x \in Stages, reads'[x] # None
      PROVE  /\ reads'[x] = Upstream(x)' /\ pc'[x] \notin NotYet
             /\ stream'[reads'[x]].at # "none"
  <2>0. Upstream(x)' = Upstream(x)
    BY DEF Upstream
  <2>1. CASE reads'[x] = reads[x]
    <3>1. reads[x] \in Stages
      BY <1>3, <2>1 DEF IInv, ReadI
    <3> QED BY <1>1, <1>2, <1>3, <2>0, <2>1, <3>1 DEF MeetI
  <2>2. CASE reads'[x] # reads[x]
    BY <1>2, <2>0, <2>2
  <2> QED BY <2>1, <2>2
<1>4. ASSUME NEW k \in Slots, pending_inbound'[k] # None
      PROVE  (k = Slot(NodeOf(Downstream(pending_inbound[k])), pending_inbound[k]))'
  <2>1. k = Slot(NodeOf(Downstream(pending_inbound'[k])), pending_inbound'[k])
    BY <1>4 DEF MeetI
  <2> QED BY <2>1 DEF Slot, NodeOf, Downstream
<1>5. ASSUME NEW k \in Slots, pending_accept'[k] # None
      PROVE  /\ (k = Slot(NodeOf(pending_accept[k]), pending_accept[k]))'
             /\ pc'[pending_accept'[k]] \notin NotYet
  <2>1. /\ k = Slot(NodeOf(pending_accept'[k]), pending_accept'[k])
        /\ pc'[pending_accept'[k]] \notin NotYet
    <3>1. CASE pending_accept'[k] = pending_accept[k]
      <4>1. pending_accept[k] \in Stages
        BY <1>5, <3>1 DEF IInv, ReadI
      <4> QED BY <1>1, <1>5, <3>1, <4>1 DEF MeetI
    <3>2. CASE pending_accept'[k] # pending_accept[k]
      BY <1>5, <3>2
    <3> QED BY <3>1, <3>2
  <2> QED BY <2>1 DEF Slot, NodeOf
<1>6. ASSUME NEW t \in Threads, stream'[<<t, 0>>].at # "none"
      PROVE  pc'[<<t, 0>>] \notin NotYet \ {"register"}
  <2> DEFINE x == <<t, 0>>
  <2>1. x \in Stages /\ x[2] = 0
    BY StageFacts
  <2>2. Goes(x) /\ Opens(x) /\ (stream[x].at # "none" => pc[x] \notin NotYet \ {"register"})
    BY <2>1 DEF Moves, MeetI
  <2> HIDE DEF x
  <2>3. stream[x].at # "none" \/ pc'[x] = "register"
    BY <1>6, <2>1, <2>2 DEF Opens, Leaps, x
  <2>4. pc'[x] \notin NotYet \ {"register"}
    BY <2>1, <2>2, <2>3 DEF Goes, Leaps, NotYet
  <2> QED BY <2>4 DEF x
<1> QED BY <1>3, <1>4, <1>5, <1>6 DEF MeetI

LEMMA SetUpStep ==
    ASSUME IInv, MeetI, SetUpI, Moves, UNCHANGED plan,
           \A x \in Stages : reads[x] # None => reads'[x] # None \/ pc'[x] = "accept"
    PROVE  SetUpI'
<1>1. ASSUME NEW x \in Stages, plan[x[1]] # <<>>, pc'[x] \in {"open", "connect", "loop", "wait"}
      PROVE  reads'[x] # None
  <2>1. Goes(x) /\ (pc[x] \in {"open", "connect", "loop", "wait"} => reads[x] # None)
    BY <1>1 DEF Moves, SetUpI
  <2>2. pc[x] \notin Unplanned \/ x[2] # 0
    <3>1. x[1] \in Threads /\ (x[2] = 0 => x = <<x[1], 0>>)
      BY StageFacts
    <3> QED BY <1>1, <3>1 DEF IInv, PlanI
  <2> QED BY <1>1, <2>1, <2>2 DEF Goes, Leaps, Unplanned
<1>2. ASSUME NEW x \in Stages, NEW j \in Nat, <<x[1], j>> \in Stages, j # 0,
             pc[<<x[1], j>>] \in {"loop", "ended"}
      PROVE  pc'[<<x[1], j>>] \in {"loop", "ended"}
  <2> DEFINE y == <<x[1], j>>
  <2>1. y \in Stages /\ y[2] # 0 /\ pc[y] \in {"loop", "ended"}
    BY <1>2
  <2> HIDE DEF y
  <2>2. pc'[y] \in {"loop", "ended"}
    BY <2>1 DEF Moves, Goes, Leaps
  <2> QED BY <2>2 DEF y
<1>3. ASSUME NEW x \in Stages, stream'[x].at # "none", NEW j \in 1..x[2]
      PROVE  pc'[<<x[1], j>>] \in {"loop", "ended"}
  <2>0. x[1] \in Threads /\ x[2] \in 0..MaxStages /\ x = <<x[1], x[2]>>
    BY StageFacts
  <2>1. <<x[1], j>> \in Stages /\ j # 0 /\ j \in Nat
    BY <2>0, WorkerStage
  <2>2. CASE stream[x].at # "none"
    BY <1>2, <2>1, <2>2 DEF SetUpI
  <2>3. CASE stream[x].at = "none"
    <3>1. x[2] # 0 /\ pc[x] = "open" /\ pc'[x] = "loop"
      BY <1>3, <2>0, <2>3 DEF Moves, Opens, Leaps
    <3>2. plan[x[1]] # <<>>
      <4>1. x[2] <= Len(plan[x[1]])
        BY <3>1, InPlan
      <4> QED BY <2>0, <3>1, <4>1, Lists
    <3>3. reads[x] = Upstream(x) /\ reads[x] \in Stages /\ stream[reads[x]].at # "none"
      BY <3>1, <3>2 DEF SetUpI, MeetI, IInv, ReadI
    <3>4. reads[x] = <<x[1], x[2] - 1>>
      BY <3>1, <3>3 DEF Upstream
    <3>5. \A i \in 1..(x[2] - 1) : pc[<<x[1], i>>] \in {"loop", "ended"}
      <4> DEFINE u == <<x[1], x[2] - 1>>
      <4>1. u \in Stages /\ stream[u].at # "none" /\ u[1] = x[1] /\ u[2] = x[2] - 1
        BY <3>3, <3>4
      <4> HIDE DEF u
      <4> QED BY <4>1 DEF SetUpI
    <3>6. CASE j = x[2]
      BY <2>0, <3>1, <3>6
    <3>7. CASE j # x[2]
      BY <1>2, <2>0, <2>1, <3>5, <3>7
    <3> QED BY <3>6, <3>7
  <2> QED BY <2>2, <2>3
<1>4. ASSUME NEW t \in Threads, pc'[<<t, 0>>] = "wait"
      PROVE  plan[t] # <<>>
  <2> DEFINE x == <<t, 0>>
  <2>1. x \in Stages /\ x[1] = t /\ x[2] = 0 /\ (pc[x] = "wait" => plan[t] # <<>>)
    BY StageFacts DEF SetUpI
  <2>2. pc'[x] = "wait"
    BY <1>4
  <2> HIDE DEF x
  <2> QED BY <2>1, <2>2 DEF Moves, Goes, Leaps
<1> QED BY <1>1, <1>3, <1>4 DEF SetUpI

\* Steps that meet nobody.
LEMMA LinkQuiet ==
    ASSUME IInv, LInv, Moves, UNCHANGED <<plan, reads, pending_inbound, pending_accept>>
    PROVE  LInv'
<1>1. PeersI'
  BY DEF LInv, PeersI
<1>2. MeetI'
  BY MeetStep DEF LInv
<1>3. SetUpI'
  BY SetUpStep DEF LInv
<1> QED BY <1>1, <1>2, <1>3 DEF LInv

LEMMA RegisterLinks ==
    ASSUME DistinctIds, IInv, LInv, Moves, NEW s \in Stages, Register(s)
    PROVE  LInv'
<1> DEFINE k == Slot(NodeOf(s), s)
           i == pending_inbound[k]
<1>0. PlanI /\ ReadI /\ PcI /\ PeersI /\ MeetI /\ SetUpI
  BY DEF IInv, LInv
<1>1. pc[s] = "register" /\ pc'[s] = "accept" /\ UNCHANGED plan /\ register_accept(s)
  BY <1>0 DEF Register, PcI
<1>2. s[2] <= Len(plan[s[1]])
  BY <1>1, InPlan
<1>3. k \in Slots
  BY <1>0, <1>2, SlotIn
<1>4. "accept" \notin NotYet
  BY DEF NotYet
<1>5. CASE i # None
  <2>1. /\ pending_inbound' = [pending_inbound EXCEPT ![k] = None]
        /\ reads' = [reads EXCEPT ![s] = i] /\ UNCHANGED pending_accept
    BY <1>1, <1>5 DEF register_accept
  <2>2. i \in Stages /\ stream[i].at # "none" /\ k = Slot(NodeOf(Downstream(i)), i)
    <3> HIDE DEF k
    <3> QED BY <1>0, <1>3, <1>5 DEF ReadI, MeetI
  <2>3. i[2] <= Len(plan[i[1]])
    <3> HIDE DEF i
    <3> QED BY <1>0, <2>2 DEF PlanI
  <2> HIDE DEF i
  <2> DEFINE d == Downstream(i)
  <2>4. d \in Stages /\ d[1] = i[1] /\ d[2] <= Len(plan[d[1]]) /\ Upstream(d) = i
    BY <1>0, <2>2, <2>3, DownUp
  <2>5. Slot(NodeOf(d), d) = Slot(NodeOf(s), s)
    BY <2>2, <2>4 DEF Slot
  <2> HIDE DEF d
  <2>6. i = Upstream(s)
    BY <1>0, <1>2, <2>4, <2>5, OnePlace
  <2> HIDE DEF k
  <2>7. \A x \in Stages : \/ reads'[x] = reads[x]
                          \/ /\ reads'[x] = Upstream(x) /\ pc'[x] \notin NotYet
                             /\ reads'[x] \in Stages /\ stream[reads'[x]].at # "none"
    BY <1>0, <1>1, <1>4, <2>1, <2>2, <2>6 DEF ReadI
  <2>8. \A j \in Slots : pending_inbound'[j] \in {pending_inbound[j], None}
    BY <1>0, <2>1 DEF ReadI
  <2>9. MeetI'
    BY <1>0, <1>1, <2>1, <2>7, <2>8, MeetStep
  <2>10. \A x \in Stages : reads[x] # None => reads'[x] # None
    BY <1>0, <1>5, <2>1 DEF ReadI, i
  <2>11. SetUpI'
    BY <1>0, <1>1, <2>10, SetUpStep
  <2> QED BY <1>0, <1>1, <2>9, <2>11 DEF LInv, PeersI
<1>6. CASE i = None
  <2>1. pending_accept' = [pending_accept EXCEPT ![k] = s] /\ UNCHANGED <<pending_inbound, reads>>
    BY <1>1, <1>6 DEF register_accept
  <2>2. \A j \in Slots : \/ pending_accept'[j] \in {pending_accept[j], None}
                         \/ /\ j = Slot(NodeOf(pending_accept'[j]), pending_accept'[j])
                            /\ pc'[pending_accept'[j]] \notin NotYet
    BY <1>0, <1>1, <1>4, <2>1 DEF ReadI
  <2>3. MeetI'
    BY <1>0, <1>1, <2>1, <2>2, MeetStep
  <2>4. SetUpI'
    BY <1>0, <1>1, <2>1, SetUpStep
  <2> QED BY <1>0, <1>1, <2>3, <2>4 DEF LInv, PeersI
<1> QED BY <1>5, <1>6

LEMMA InsertLinks ==
    ASSUME DistinctIds, IInv, LInv, Moves, NEW s \in Stages, insert_inbound(s)
    PROVE  LInv'
<1> DEFINE d == Downstream(s)
           k == Slot(NodeOf(d), s)
           w == pending_accept[k]
<1>0. PlanI /\ ReadI /\ PcI /\ PeersI /\ MeetI /\ SetUpI
  BY DEF IInv, LInv
<1>1. stream[s].at = "flying" /\ UNCHANGED <<pc, plan>>
  BY DEF insert_inbound
<1>2. s[2] <= Len(plan[s[1]])
  BY <1>0, <1>1 DEF PlanI
<1>3. d \in Stages /\ d[1] = s[1] /\ d[2] <= Len(plan[d[1]]) /\ Upstream(d) = s
  BY <1>0, <1>2, DownUp
<1>4. k \in Slots
  <2> HIDE DEF d
  <2> QED BY <1>0, <1>3, SlotIn
<1>5. CASE w # None
  <2>1. /\ pending_accept' = [pending_accept EXCEPT ![k] = None] /\ UNCHANGED pending_inbound
        /\ reads' = reads \/ (pc[w] = "accept" /\ reads' = [reads EXCEPT ![w] = s])
    BY <1>5 DEF insert_inbound
  <2>2. w \in Stages /\ k = Slot(NodeOf(w), w) /\ pc[w] \notin NotYet
    <3> HIDE DEF k
    <3> QED BY <1>0, <1>4, <1>5 DEF ReadI, MeetI
  <2> HIDE DEF w
  <2>3. w[2] <= Len(plan[w[1]])
    BY <2>2, InPlan DEF NotYet
  <2>4. Slot(NodeOf(d), d) = Slot(NodeOf(w), w)
    <3> HIDE DEF d
    <3> QED BY <1>3, <2>2 DEF Slot
  <2>5. s = Upstream(w)
    <3> HIDE DEF d
    <3> QED BY <1>0, <1>3, <2>2, <2>3, <2>4, OnePlace
  <2> HIDE DEF d, k
  <2>6. \A x \in Stages : \/ reads'[x] = reads[x]
                          \/ /\ reads'[x] = Upstream(x) /\ pc'[x] \notin NotYet
                             /\ reads'[x] \in Stages /\ stream[reads'[x]].at # "none"
    BY <1>0, <1>1, <2>1, <2>2, <2>5 DEF ReadI
  <2>7. \A j \in Slots : pending_accept'[j] \in {pending_accept[j], None}
    BY <1>0, <2>1 DEF ReadI
  <2>8. MeetI'
    BY <1>0, <1>1, <2>1, <2>6, <2>7, MeetStep
  <2>9. \A x \in Stages : reads[x] # None => reads'[x] # None \/ pc'[x] = "accept"
    BY <1>0, <1>1, <2>1, <2>2 DEF ReadI
  <2>10. SetUpI'
    BY <1>0, <1>1, <2>9, SetUpStep
  <2> QED BY <1>0, <1>1, <2>8, <2>10 DEF LInv, PeersI
<1>6. CASE w = None
  <2>1. pending_inbound' = [pending_inbound EXCEPT ![k] = s] /\ UNCHANGED <<pending_accept, reads>>
    BY <1>6 DEF insert_inbound
  <2>2. \A j \in Slots : \/ pending_inbound'[j] \in {pending_inbound[j], None}
                         \/ j = Slot(NodeOf(Downstream(pending_inbound'[j])), pending_inbound'[j])
    BY <1>0, <1>4, <2>1 DEF ReadI
  <2>3. MeetI'
    BY <1>0, <1>1, <2>1, <2>2, MeetStep
  <2>4. SetUpI'
    BY <1>0, <1>1, <2>1, SetUpStep
  <2> QED BY <1>0, <1>1, <2>3, <2>4 DEF LInv, PeersI
<1> QED BY <1>5, <1>6

\* The workers of a plan are on different nodes, none on the coordinator's.
LEMMA OrdersApart ==
    ASSUME OnePerNode, NEW t \in Threads, NEW held \in Placements, NEW o \in Orders(t, held)
    PROVE  \A i \in 1..Len(Assign(o)) :
              /\ Assign(o)[i].peer # host[t]
              /\ \A j \in 1..Len(Assign(o)) : Assign(o)[i].peer = Assign(o)[j].peer => i = j
<1> DEFINE n == Cardinality(Remote(t, held))
<1>1. o \in [1..n -> Remote(t, held)] /\ \A i, j \in 1..n : i # j => o[i] # o[j]
  BY DEF Orders, SetToSeqs
<1>2. DOMAIN Assign(o) = 1..n /\ \A i \in 1..n : Assign(o)[i].peer = o[i].peer
  BY <1>1 DEF Assign
<1>3. DOMAIN Assign(o) = 1..Len(Assign(o))
  BY OrdersFit
<1>4. \A i \in 1..n : o[i] \in Remote(t, held) /\ o[i].peer # host[t]
  BY <1>1 DEF Remote
<1>5. \A i, j \in 1..n : o[i].peer = o[j].peer => i = j
  BY <1>1, <1>4 DEF OnePerNode
<1> HIDE DEF n
<1> QED BY <1>2, <1>3, <1>4, <1>5

\* What the step that makes the plan of a thread does.
LEMMA PlanDoes ==
    ASSUME IInv, NEW t \in Threads, Plan(t), ~End(<<t, 0>>)
    PROVE  /\ pc[<<t, 0>>] = "pipeline_coord" /\ plan[t] = <<>>
           /\ pc' = [pc EXCEPT ![<<t, 0>>] = "dispatch"]
           /\ UNCHANGED <<sess, net, user, answered, work>>
           /\ \A u \in Threads : u # t => plan'[u] = plan[u]
           /\ \E held \in Placements : \E o \in Orders(t, held) : plan'[t] = Assign(o)
           /\ \A x \in Stages : x[1] = t /\ x[2] # 0 => pc[x] = "absent"
           /\ \A x \in Stages : x[1] = t => pc'[x] \in {"dispatch", "absent"} /\ pc[x] \in {"pipeline_coord", "absent"}
           /\ \A x \in Stages : x[1] # t => pc'[x] = pc[x]
<1> DEFINE s == <<t, 0>>
<1>0. s \in Stages /\ s[1] = t /\ s[2] = 0 /\ pc[s] = "pipeline_coord" /\ UNCHANGED user
  BY StageFacts DEF Plan
<1>1. PICK held \in Placements :
         \E o \in Orders(t, held) :
            /\ plan' = [plan EXCEPT ![t] = Assign(o)] /\ pc' = [pc EXCEPT ![s] = "dispatch"]
            /\ UNCHANGED <<sess, net, answered, work>>
  BY DEF Plan
<1>2. PlanI /\ PcI
  BY DEF IInv
<1>3. plan[t] = <<>>
  BY <1>0, <1>2 DEF PlanI, Unplanned
<1>4. /\ \A u \in Threads : u # t => plan'[u] = plan[u]
      /\ \E h \in Placements : \E o \in Orders(t, h) : plan'[t] = Assign(o)
  BY <1>1, <1>2 DEF PlanI
<1>5. \A x \in Stages : x[1] = t /\ x[2] # 0 => pc[x] = "absent"
  <2>1. \A x \in Stages : pc[x] # "absent" => x[2] <= Len(plan[x[1]])
    BY <1>2 DEF PlanI
  <2> QED BY <1>3, <2>1, Lists, StageFacts
<1>6. pc'[s] = "dispatch" /\ \A x \in Stages : x # s => pc'[x] = pc[x]
  BY <1>0, <1>1, <1>2 DEF PcI
<1>7. \A x \in Stages : x[1] = t /\ x[2] = 0 => x = s
  BY StageFacts
<1> QED BY <1>0, <1>1, <1>3, <1>4, <1>5, <1>6, <1>7

LEMMA PlanLinks ==
    ASSUME OnePerNode, IInv, LInv, Moves, NEW t \in Threads, Plan(t), ~End(<<t, 0>>)
    PROVE  LInv'
<1>0. PlanI /\ ReadI /\ PcI /\ PeersI /\ MeetI /\ SetUpI
  BY DEF IInv, LInv
<1>1. /\ pc[<<t, 0>>] = "pipeline_coord" /\ plan[t] = <<>>
      /\ UNCHANGED <<reads, stream, pending_inbound, pending_accept>>
      /\ \A u \in Threads : u # t => plan'[u] = plan[u]
      /\ \E held \in Placements : \E o \in Orders(t, held) : plan'[t] = Assign(o)
      /\ \A x \in Stages : x[1] = t => pc'[x] \in {"dispatch", "absent"} /\ pc[x] \in {"pipeline_coord", "absent"}
      /\ \A x \in Stages : x[1] # t => pc'[x] = pc[x]
  BY PlanDoes DEF net
<1>2. \A x \in Stages : x[1] \in Threads /\ (x[2] = 0 => x = <<x[1], 0>>)
  BY StageFacts
<1>3. PeersI'
  <2>1. ASSUME NEW u \in Threads
        PROVE  \A i \in 1..Len(plan'[u]) :
                  /\ plan'[u][i].peer # host[u]
                  /\ \A j \in 1..Len(plan'[u]) : plan'[u][i].peer = plan'[u][j].peer => i = j
    <3>1. CASE u = t
      BY <1>1, <3>1, OrdersApart
    <3>2. CASE u # t
      BY <1>0, <1>1, <3>2 DEF PeersI
    <3> QED BY <3>1, <3>2
  <2> QED BY <2>1 DEF PeersI
<1>4. \A x \in Stages : x[1] = t => reads[x] = None /\ stream[x].at = "none"
  <2>1. ASSUME NEW x \in Stages, x[1] = t PROVE reads[x] = None
    BY <1>0, <1>1, <2>1 DEF MeetI, NotYet
  <2>2. ASSUME NEW x \in Stages, x[1] = t, stream[x].at # "none" PROVE FALSE
    <3>1. x[2] <= Len(plan[x[1]])
      BY <1>0, <2>2 DEF PlanI
    <3>2. x = <<t, 0>>
      BY <1>1, <1>2, <2>2, <3>1, Lists, StageFacts
    <3> QED BY <1>0, <1>1, <2>2, <3>2 DEF MeetI, NotYet
  <2> QED BY <2>1, <2>2
<1>5. ASSUME NEW x \in Stages, x[1] # t
      PROVE  /\ Upstream(x)' = Upstream(x) /\ NodeOf(x)' = NodeOf(x)
             /\ NodeOf(Downstream(x))' = NodeOf(Downstream(x))
  <2>1. plan'[x[1]] = plan[x[1]]
    BY <1>1, <1>2, <1>5
  <2>2. Downstream(x)' = Downstream(x) /\ Downstream(x)[1] = x[1]
    BY <2>1 DEF Downstream
  <2> QED BY <2>1, <2>2 DEF Upstream, NodeOf
<1>6. ASSUME NEW x \in Stages, reads[x] # None
      PROVE  reads[x] = Upstream(x)' /\ pc'[x] \notin NotYet /\ stream[reads[x]].at # "none"
  BY <1>0, <1>1, <1>4, <1>5, <1>6 DEF MeetI
<1>7. ASSUME NEW k \in Slots, pending_inbound[k] # None
      PROVE  k = Slot(NodeOf(Downstream(pending_inbound[k]))', pending_inbound[k])
  <2>1. pending_inbound[k] \in Stages /\ stream[pending_inbound[k]].at # "none"
    BY <1>0, <1>7 DEF ReadI
  <2>2. pending_inbound[k][1] # t
    BY <1>4, <2>1
  <2> DEFINE i == pending_inbound[k]
  <2>3. k = Slot(NodeOf(Downstream(i)), i)
    BY <1>0, <1>7 DEF MeetI
  <2>4. NodeOf(Downstream(i))' = NodeOf(Downstream(i))
    <3>1. i' = i
      BY <1>1
    <3> QED BY <1>5, <2>1, <2>2, <3>1
  <2> QED BY <1>1, <2>3, <2>4 DEF Slot
<1>8. ASSUME NEW k \in Slots, pending_accept[k] # None
      PROVE  /\ k = Slot(NodeOf(pending_accept[k])', pending_accept[k])
             /\ pc'[pending_accept[k]] \notin NotYet
  <2> DEFINE i == pending_accept[k]
  <2>1. i \in Stages /\ pc[i] \notin NotYet /\ k = Slot(NodeOf(i), i)
    BY <1>0, <1>8 DEF ReadI, MeetI
  <2>2. i[1] # t
    <3> HIDE DEF i
    <3> QED BY <1>1, <2>1 DEF NotYet
  <2>3. i' = i
    BY <1>1
  <2>4. NodeOf(i)' = NodeOf(i)
    BY <1>5, <2>1, <2>2, <2>3
  <2> QED BY <1>1, <2>1, <2>2, <2>4 DEF Slot
<1>9. MeetI'
  <2>1. \A u \in Threads : stream[<<u, 0>>].at # "none" => pc'[<<u, 0>>] \notin NotYet \ {"register"}
    BY <1>0, <1>1, <1>4, StageFacts DEF MeetI
  <2>2. \A k \in Slots : Slot(NodeOf(Downstream(pending_inbound[k])), pending_inbound[k])'
                          = Slot(NodeOf(Downstream(pending_inbound[k]))', pending_inbound'[k])
    BY DEF Slot
  <2>3. \A k \in Slots : Slot(NodeOf(pending_accept[k]), pending_accept[k])'
                          = Slot(NodeOf(pending_accept[k])', pending_accept'[k])
    BY DEF Slot
  <2> QED BY <1>1, <1>6, <1>7, <1>8, <2>1, <2>2, <2>3 DEF MeetI
<1>10. SetUpI'
  <2>1. ASSUME NEW x \in Stages, plan'[x[1]] # <<>>, pc'[x] \in {"open", "connect", "loop", "wait"}
        PROVE  reads'[x] # None
    <3>1. x[1] # t
      BY <1>1, <2>1
    <3> QED BY <1>0, <1>1, <1>2, <2>1, <3>1 DEF SetUpI
  <2>2. ASSUME NEW x \in Stages, stream'[x].at # "none", NEW j \in 1..x[2]
        PROVE  pc'[<<x[1], j>>] \in {"loop", "ended"}
    <3>1. x[1] # t
      BY <1>1, <1>4, <2>2
    <3>2. <<x[1], j>> \in Stages /\ <<x[1], j>>[1] = x[1]
      <4>1. x[1] \in Threads /\ x[2] \in 0..MaxStages
        BY StageFacts
      <4> QED BY <2>2, <4>1, WorkerStage
    <3>3. stream[x].at # "none"
      BY <1>1, <2>2
    <3>4. pc[<<x[1], j>>] \in {"loop", "ended"}
      BY <1>0, <3>3 DEF SetUpI
    <3> QED BY <1>1, <3>1, <3>2, <3>4
  <2>3. ASSUME NEW u \in Threads, pc'[<<u, 0>>] = "wait" PROVE plan'[u] # <<>>
    <3>1. u # t
      BY <1>1, <2>3, StageFacts
    <3> QED BY <1>0, <1>1, <2>3, <3>1, StageFacts DEF SetUpI
  <2> QED BY <2>1, <2>2, <2>3 DEF SetUpI
<1> QED BY <1>3, <1>9, <1>10 DEF LInv

LEMMA NextLinks ==
    ASSUME DistinctIds, OnePerNode, IInv, LInv, [Next]_vars
    PROVE  LInv'
<1>0. Moves
  BY NextGoes
<1>1. ASSUME NEW s \in Stages, End(s) PROVE LInv'
  <2>1. UNCHANGED <<plan, reads, pending_inbound, pending_accept>>
    BY <1>1 DEF End
  <2> QED BY <1>0, <2>1, LinkQuiet
<1>2. ASSUME NEW t \in Threads, ThreadStep(t), ~End(<<t, 0>>) PROVE LInv'
  <2>1. CASE Plan(t)
    BY <1>0, <1>2, <2>1, PlanLinks
  <2>2. CASE ~Plan(t)
    <3>1. UNCHANGED <<plan, reads, pending_inbound, pending_accept>>
      BY <1>2, <2>2 DEF ThreadStep, Dispatch, OpenForward, TakeTensor, ReturnLogits, CoordinatorEnds,
            Connect, Analyze, Preload, FirstHalf, SecondHalf, BringFirst, OffloadEnds, Local, net
    <3> QED BY <1>0, <3>1, LinkQuiet
  <2> QED BY <2>1, <2>2
<1>3. ASSUME NEW t \in Threads, Ask(t) \/ Close(t) PROVE LInv'
  <2>1. UNCHANGED <<plan, reads, pending_inbound, pending_accept>>
    BY <1>3 DEF Ask, Close, net
  <2> QED BY <1>0, <2>1, LinkQuiet
<1>4. ASSUME NEW s \in Stages, StageStep(s), ~End(s) PROVE LInv'
  <2>1. CASE Register(s)
    BY <1>0, <2>1, RegisterLinks
  <2>2. CASE ~Register(s)
    <3>1. UNCHANGED <<plan, reads, pending_inbound, pending_accept>>
      BY <1>4, <2>2 DEF StageStep, Accepted, accept_fails, LoadHalves, OpenOut, Work, WorkerEnds, net
    <3> QED BY <1>0, <3>1, LinkQuiet
  <2> QED BY <2>1, <2>2
<1>5. ASSUME NEW s \in Stages, insert_inbound(s) PROVE LInv'
  BY <1>0, <1>5, InsertLinks
<1>6. CASE UNCHANGED vars
  <2>1. UNCHANGED <<plan, reads, pending_inbound, pending_accept>>
    BY <1>6 DEF vars, net
  <2> QED BY <1>0, <2>1, LinkQuiet
<1>7. \A t \in Threads : <<t, 0>> \in Stages
  BY StageFacts
<1> QED BY <1>1, <1>2, <1>3, <1>4, <1>5, <1>6, <1>7 DEF Next

LEMMA InitLinks == Init => LInv
<1> SUFFICES ASSUME Init PROVE LInv
  OBVIOUS
<1>1. /\ \A t \in Threads : plan[t] = <<>>
      /\ \A s \in Stages : reads[s] = None /\ stream[s].at = "none"
      /\ \A k \in Slots : pending_inbound[k] = None /\ pending_accept[k] = None
  BY DEF Init, Closed
<1>2. \A s \in Stages : s[1] \in Threads
  BY StageFacts
<1>3. PeersI
  <2>1. \A i \in 1..0 : FALSE
    OBVIOUS
  <2> QED BY <1>1, <2>1, Lists DEF PeersI
<1>4. MeetI
  BY <1>1, StageFacts DEF MeetI
<1>5. SetUpI
  <2>1. \A t \in Threads : pc[<<t, 0>>] # "wait"
    <3>1. PICK p \in [Threads -> Programs] :
          pc = [s \in Stages |-> IF s[2] = 0 THEN p[s[1]] ELSE "absent"]
      BY DEF Init
    <3> QED BY <3>1, StageFacts, InferenceConstants
  <2> QED BY <1>1, <1>2, <2>1 DEF SetUpI
<1> QED BY <1>3, <1>4, <1>5 DEF LInv

\* Every stage reads the stream of the stage before it: whatever the order in
\* which streams arrive, programs register and time out, a tensor passes all
\* layers in their order.
THEOREM StagesMeet ==
    ASSUME DistinctIds, OnePerNode
    PROVE  Spec => []StagesLinked
<1>1. Init => IInv /\ LInv
  BY InitInv, InitLinks
<1>2. IInv /\ LInv /\ [Next]_vars => (IInv /\ LInv)'
  BY NextInv, NextLinks
<1>3. LInv => StagesLinked
  BY DEF LInv, MeetI, StagesLinked
<1> QED BY <1>1, <1>2, <1>3, PTL DEF Spec

(***************************************************************************)
(* What is computed.                                                       *)
(***************************************************************************)
\* The tensor that the converted file has under a name.
Of(n) == streaming_write_pgguf[n]

\* The tensors of a conversation up to c, and those of the last answer.
Until(c) == [n \in 1..(c[2] + 1) |-> <<c[1], n - 1>>]
Done(t)  == IF answered[t] = <<>> THEN <<>> ELSE Until(asked[t][Len(answered[t])])

\* What the layers 0..l make of c: the k-th thing it goes through, and how many.
HeadOf   == <<Of(OutputNorm), Of(IF Tied THEN TokenEmbd ELSE Output)>>
Thing(c, k) == IF k = 1 THEN Of(TokenEmbd)
               ELSE IF k <= Blocks + 1 THEN <<Of(k - 1), Until(c)>> ELSE HeadOf[k - Blocks - 1]
Upto(l)  == IF l = LastLayer THEN Blocks + 3 ELSE l + 1
Partial(c, l) ==
    [kind  |-> IF l = -1 THEN "ids" ELSE IF l = LastLayer THEN "logits" ELSE "hidden",
     chunk |-> c,
     trace |-> [k \in 1..Upto(l) |-> Thing(c, k)]]

\* The layers a..b with their own weights, every block with the cache kv; and
\* the session that has them on the GPU, or their caches on the CPU.
Low(a)     == IF a = 0 THEN 0 ELSE a - 1
High(b)    == IF b = LastLayer THEN Blocks ELSE b
Size(a, b) == High(b) - Low(a)
Caches(a, b, kv)   == [i \in 1..Size(a, b) |-> kv]
LayersOf(a, b, kv) ==
    [input  |-> IF a = 0 THEN <<Of(TokenEmbd)>> ELSE <<>>,
     blocks |-> [i \in 1..Size(a, b) |-> Of(Low(a) + i)],
     head   |-> IF b = LastLayer THEN HeadOf ELSE <<>>,
     kv     |-> Caches(a, b, kv)]
OnGpu(a, b, kv) == [model |-> LayersOf(a, b, kv), offloaded_kv |-> None, layers |-> <<a, b>>]
OnCpu(a, b, kv) == [model |-> None, offloaded_kv |-> Caches(a, b, kv), layers |-> <<a, b>>]

\* The ranges of a plan follow each other and end with the last layer.
Ranges == {r \in (0..LastLayer) \X (0..LastLayer) : r[1] <= r[2]}
RangeI(t) ==
    \A i \in 1..Len(plan[t]) :
        /\ plan[t][i].file \in Ranges /\ plan[t][i].first \in Nat
        /\ plan[t][i].last \in Int /\ plan[t][i].last <= LastLayer
        /\ plan[t][i].first = (IF i = 1 THEN 0 ELSE plan[t][i - 1].last + 1)
        /\ i = Len(plan[t]) => plan[t][i].last = LastLayer

\* A session continues a conversation token by token; nothing is answered
\* before the program is connected.
Starting == NotYet \cup {"accept", "connect", "preload"}
ChainI(t) ==
    /\ \A k \in 1..Len(asked[t]) :
          asked[t][k][2] > 0 =>
             k > 1 /\ asked[t][k - 1] = <<asked[t][k][1], asked[t][k][2] - 1>>
    /\ pc[<<t, 0>>] \in Starting => answered[t] = <<>>

\* A worker has its layers, with the caches of all tensors it has passed on.
Loaded == {"register", "accept", "open", "loop"}
Mid(e) == e.first + (e.last - e.first + 1) \div 2 - 1
Halves(s, kv) ==
    LET e == plan[s[1]][s[2]]
    IN  sess[s] = <<OnGpu(e.first, Mid(e), kv), OnGpu(Mid(e) + 1, e.last, kv)>>
WorkerI(t) ==
    \A s \in Stages : s[1] = t /\ s[2] > 0 /\ pc[s] \in Loaded /\ pc[<<t, 0>>] # "ended" =>
        /\ plan[t][s[2]].first <= Mid(plan[t][s[2]])
        /\ Mid(plan[t][s[2]]) < plan[t][s[2]].last
        /\ pc[<<t, 0>>] # "wait" => Halves(s, Done(t))
        /\ pc[<<t, 0>>] = "wait" =>
              \A u \in Stages : u[1] = t /\ stream[u].q # <<>> =>
                  Halves(s, IF u[2] < s[2] THEN Done(t) ELSE Until(NextAsked(t)))

\* The frame is what the stages before have made of the tensor.
EndOf(s) == IF s[2] = 0 THEN -1 ELSE plan[s[1]][s[2]].last
ContentI(t) ==
    \A s \in Stages : s[1] = t /\ pc[<<t, 0>>] = "wait" /\ stream[s].q # <<>>
        => stream[s].q[1] = Partial(NextAsked(t), EndOf(s))

\* The offloading program has one half on the GPU and the other, or its caches,
\* on the CPU.
First(t)  == sess[<<t, 0>>][1]
Second(t) == sess[<<t, 0>>][2]
OffloadI(t) ==
    plan[t] = <<>> =>
        /\ pc[<<t, 0>>] \in {"loop", "second", "restore"} =>
              /\ sess[<<t, 0>>] = <<First(t), Second(t)>>
              /\ Second(t) = IF answered[t] = <<>> THEN new ELSE OnCpu(Half, LastLayer, Done(t))
        /\ pc[<<t, 0>>] = "loop" => First(t) = OnGpu(0, Half - 1, Done(t))
        /\ pc[<<t, 0>>] = "second" => /\ First(t) = OnCpu(0, Half - 1, Until(NextAsked(t)))
                                      /\ work[t] = Partial(NextAsked(t), Half - 1)
        /\ pc[<<t, 0>>] = "restore" => /\ First(t) = OnCpu(0, Half - 1, Done(t))
                                       /\ answered[t] # <<>>

ThreadI(t) == RangeI(t) /\ ChainI(t) /\ WorkerI(t) /\ ContentI(t) /\ OffloadI(t)
CInv == \A t \in Threads : ThreadI(t)

(***************************************************************************)
(* Loading layers from a file.                                             *)
(***************************************************************************)
LEMMA Layers ==
    /\ Blocks \in Nat /\ Blocks >= 1 /\ Blocks <= 256 /\ LastLayer = Blocks + 1 /\ LastLayer \in Nat
    /\ OutputNorm = Blocks + 1 /\ Output = Blocks + 2 /\ TokenEmbd = 0
    /\ \A n \in Names : n \in 0..(Blocks + 2)
    /\ \A n \in 0..(Blocks + 1) : n \in Names
    /\ Output \in Names <=> ~Tied
BY GgufConstants DEF LastLayer, OutputNorm, Output, TokenEmbd, Names

LEMMA Converted ==
    /\ DOMAIN streaming_write_pgguf = Names
    /\ \A n \in Names : streaming_write_pgguf[n] = Of(n)
BY DEF streaming_write_pgguf, Of

\* A file that has its tensors from the converted one; with the output layer it has
\* all that belongs to it.
Sound(file) ==
    /\ \A n \in DOMAIN file.weights : n \in Names /\ file.weights[n] = Of(n)
    /\ OutputNorm \in DOMAIN file.weights /\ ~Tied => Output \in DOMAIN file.weights

LEMMA FilesSound ==
    ASSUME NEW r \in Ranges
    PROVE  Sound(FileOf(r))
<1> DEFINE whole == GGUF_Analyze_And_Convert
<1>1. whole.weights = streaming_write_pgguf
  BY DEF GGUF_Analyze_And_Convert
<1>2. /\ DOMAIN whole.weights = Names /\ \A n \in Names : whole.weights[n] = Of(n)
  BY <1>1, Converted
<1>3. CASE r = Whole
  BY <1>2, <1>3, Layers DEF FileOf, Sound
<1>4. CASE r # Whole
  <2> DEFINE own  == (UNION {TensorsOf(l) : l \in r[1]..r[2]}) \cap DOMAIN whole.weights
             tied == IF LastLayer \in r[1]..r[2] /\ Output \notin DOMAIN whole.weights
                     THEN {TokenEmbd} \cap DOMAIN whole.weights ELSE {}
             kept == own \cup tied
  <2>1. /\ FileOf(r) = IF r[1] > r[2] \/ r[2] > LastLayer \/ kept = {} THEN None
                       ELSE [weights |-> [n \in kept |-> whole.weights[n]], split |-> <<r[1], r[2]>>]
    BY <1>4 DEF FileOf, GGUF_Split_Model
  <2>2. r[1] \in 0..LastLayer /\ r[2] \in 0..LastLayer /\ r[1] <= r[2]
    BY DEF Ranges
  <2>3. r[1] \in own
    <3>1. r[1] \in TensorsOf(r[1]) /\ r[1] \in Names
      BY <2>2, Layers DEF TensorsOf
    <3>2. r[1] \in r[1]..r[2]
      BY <2>2
    <3>3. r[1] \in UNION {TensorsOf(l) : l \in r[1]..r[2]}
      BY <3>1, <3>2
    <3>4. r[1] \in DOMAIN whole.weights
      BY <1>2, <3>1
    <3> QED BY <3>3, <3>4
  <2>4. kept \subseteq Names
    <3>1. own \subseteq DOMAIN whole.weights
      OBVIOUS
    <3>2. tied \subseteq DOMAIN whole.weights
      OBVIOUS
    <3> HIDE DEF own, tied, whole
    <3> QED BY <1>2, <3>1, <3>2
  <2>5. FileOf(r).weights = [n \in kept |-> whole.weights[n]]
    <3> HIDE DEF own, whole
    <3> QED BY <2>1, <2>2, <2>3, Layers
  <2>6. \A n \in kept : whole.weights[n] = Of(n) /\ n \in Names
    <3> HIDE DEF kept
    <3> QED BY <1>2, <2>4
  <2>7. OutputNorm \in kept /\ ~Tied => Output \in kept
    <3> SUFFICES ASSUME OutputNorm \in kept, ~Tied PROVE Output \in kept
      OBVIOUS
    <3>1. OutputNorm # TokenEmbd
      BY Layers
    <3>2. PICK l \in r[1]..r[2] : OutputNorm \in TensorsOf(l)
      BY <3>1
    <3>3. l = LastLayer
      BY <3>2, Layers DEF TensorsOf
    <3>4. Output \in TensorsOf(l) /\ Output \in Names
      BY <3>3, Layers DEF TensorsOf
    <3>5. Output \in UNION {TensorsOf(m) : m \in r[1]..r[2]}
      BY <3>2, <3>4
    <3>6. Output \in DOMAIN whole.weights
      BY <1>2, <3>4
    <3>7. Output \in own
      BY <3>5, <3>6
    <3> QED BY <3>7
  <2> HIDE DEF kept, whole
  <2> QED BY <2>5, <2>6, <2>7 DEF Sound
<1> QED BY <1>3, <1>4

\* What GGUF_Load_Model gives for the layers a..b is those layers.
LEMMA Loads ==
    ASSUME NEW file, Sound(file), NEW a \in Nat, NEW b \in Int, b <= LastLayer,
           GGUF_Load_Model(file, a, b) # None
    PROVE  a <= b /\ GGUF_Load_Model(file, a, b) = LayersOf(a, b, <<>>)
<1> DEFINE layers == LayerRange(file, a, b)
           inner  == layers \cap 1..Blocks
           below  == Max({a, 1}) - 1
           found(l) == IF l > LastLayer THEN {} ELSE TensorsOf(l) \cap DOMAIN file.weights
<1>1. /\ layers # {} /\ \A l \in layers : GGUF_Load_Layer(file, l) # None
      /\ LastLayer \in layers => OutputHead(file) # None
      /\ GGUF_Load_Model(file, a, b) =
            [input  |-> IF 0 \in layers THEN <<file.weights[TokenEmbd]>> ELSE <<>>,
              blocks |-> [i \in 1..Cardinality(inner) |-> file.weights[below + i]],
              head   |-> IF LastLayer \in layers THEN OutputHead(file) ELSE <<>>,
              kv     |-> [i \in 1..Cardinality(inner) |-> <<>>]]
  BY DEF GGUF_Load_Model
<1>2. layers = a..b /\ a <= b
  <2>1. Min({b, Blocks + 1}) = b
    BY Layers DEF Min
  <2>2. layers \in {{}, a..b}
    BY <2>1 DEF LayerRange, GGUF_Analyze_From_Content
  <2> HIDE DEF layers
  <2> QED BY <1>1, <2>2
<1> HIDE DEF layers
<1>3. \A l \in a..b : found(l) # {}
  BY <1>1, <1>2 DEF GGUF_Load_Layer
<1>4. \A l \in a..b : l <= Blocks => l \in DOMAIN file.weights /\ file.weights[l] = Of(l)
  <2> SUFFICES ASSUME NEW l \in a..b, l <= Blocks
               PROVE  l \in DOMAIN file.weights /\ file.weights[l] = Of(l)
    OBVIOUS
  <2>1. TensorsOf(l) = {l}
    BY Layers DEF TensorsOf
  <2>2. l \in DOMAIN file.weights
    BY <1>3, <2>1
  <2> QED BY <2>2 DEF Sound
<1>5. inner = (Low(a) + 1)..High(b)
  BY <1>2, Layers DEF Low, High
<1>6. below = Low(a)
  BY Layers DEF Max, Low
<1>7. Cardinality(inner) = Size(a, b) /\ Size(a, b) \in Nat
  <2>1. Low(a) + 1 \in Int /\ High(b) \in Int /\ Low(a) <= High(b) /\ Low(a) \in Nat
    BY <1>2, Layers DEF Low, High
  <2>2. Cardinality((Low(a) + 1)..High(b)) = IF Low(a) + 1 > High(b) THEN 0 ELSE High(b) - (Low(a) + 1) + 1
    BY <2>1, FS_Interval
  <2> HIDE DEF inner
  <2>3. Size(a, b) = High(b) - Low(a)
    BY DEF Size
  <2>4. Cardinality(inner) = High(b) - Low(a)
    BY <1>5, <2>1, <2>2
  <2> QED BY <2>1, <2>3, <2>4
<1>8. \A i \in 1..Size(a, b) : file.weights[below + i] = Of(Low(a) + i)
  <2> SUFFICES ASSUME NEW i \in 1..Size(a, b) PROVE file.weights[Low(a) + i] = Of(Low(a) + i)
    BY <1>6
  <2>1. Low(a) + i \in a..b /\ Low(a) + i <= Blocks
    BY <1>2, Layers DEF Low, High, Size
  <2> QED BY <1>4, <2>1
<1>9. (IF 0 \in layers THEN <<file.weights[TokenEmbd]>> ELSE <<>>) = IF a = 0 THEN <<Of(TokenEmbd)>> ELSE <<>>
  <2>1. 0 \in layers <=> a = 0
    BY <1>2
  <2>2. a = 0 => file.weights[TokenEmbd] = Of(TokenEmbd)
    BY <1>2, <1>4, Layers
  <2> QED BY <2>1, <2>2
<1>10. (IF LastLayer \in layers THEN OutputHead(file) ELSE <<>>) = IF b = LastLayer THEN HeadOf ELSE <<>>
  <2>1. LastLayer \in layers <=> b = LastLayer
    BY <1>2, Layers
  <2>2. ASSUME b = LastLayer PROVE OutputHead(file) = HeadOf
    <3>1. OutputHead(file) # None
      BY <1>1, <2>1, <2>2
    <3>2. OutputNorm \in DOMAIN file.weights
      BY <3>1 DEF OutputHead
    <3>3. CASE Tied
      <4>1. Output \notin DOMAIN file.weights
        BY <3>3, Layers DEF Sound
      <4>2. TokenEmbd \in DOMAIN file.weights /\ OutputHead(file) = <<file.weights[OutputNorm], file.weights[TokenEmbd]>>
        BY <3>1, <3>2, <4>1 DEF OutputHead
      <4> QED BY <3>2, <3>3, <4>2 DEF Sound, HeadOf
    <3>4. CASE ~Tied
      <4>1. Output \in DOMAIN file.weights
        BY <3>2, <3>4 DEF Sound
      <4> QED BY <3>2, <3>4, <4>1 DEF OutputHead, Sound, HeadOf
    <3> QED BY <3>3, <3>4
  <2> QED BY <2>1, <2>2
<1> HIDE DEF inner, below
<1>11. [i \in 1..Cardinality(inner) |-> file.weights[below + i]] = [i \in 1..Size(a, b) |-> Of(Low(a) + i)]
  BY <1>7, <1>8
<1>12. [i \in 1..Cardinality(inner) |-> <<>>] = Caches(a, b, <<>>)
  BY <1>7 DEF Caches
<1> QED BY <1>1, <1>2, <1>9, <1>10, <1>11, <1>12 DEF LayersOf

(***************************************************************************)
(* One pass through some layers.                                           *)
(***************************************************************************)
LEMMA Glue ==
    ASSUME NEW f, NEW m \in Nat, NEW n \in Nat
    PROVE  [k \in 1..m |-> f[k]] \o [i \in 1..n |-> f[m + i]] = [k \in 1..(m + n) |-> f[k]]
<1> DEFINE S == {f[k] : k \in Nat}
           p == [k \in 1..m |-> f[k]]
           q == [i \in 1..n |-> f[m + i]]
           r == [k \in 1..(m + n) |-> f[k]]
<1>1. \A k \in Nat : f[k] \in S
  OBVIOUS
<1> HIDE DEF S
<1>2. p \in Seq(S) /\ q \in Seq(S) /\ r \in Seq(S) /\ Len(p) = m /\ Len(q) = n /\ Len(r) = m + n
  BY <1>1
<1>3. \A k \in 1..m : p[k] = f[k]
  OBVIOUS
<1>4. \A k \in 1..n : q[k] = f[m + k]
  OBVIOUS
<1>5. \A k \in 1..(m + n) : r[k] = f[k]
  OBVIOUS
<1> HIDE DEF p, q, r
<1>6. p \o q \in Seq(S) /\ Len(p \o q) = m + n
  BY <1>2
<1>7. \A k \in 1..(m + n) : (p \o q)[k] = r[k]
  <2> SUFFICES ASSUME NEW k \in 1..(m + n) PROVE (p \o q)[k] = r[k]
    OBVIOUS
  <2>1. CASE k <= m
    BY <1>2, <1>3, <1>5, <2>1
  <2>2. CASE k > m
    <3>1. (p \o q)[k] = q[k - m] /\ k - m \in 1..n /\ m + (k - m) = k
      BY <1>2, <2>2
    <3> QED BY <1>4, <1>5, <3>1
  <2>3. k <= m \/ k > m
    OBVIOUS
  <2> QED BY <2>1, <2>2, <2>3
<1>8. p \o q = r
  <2> DEFINE o == p \o q
  <2>1. o \in Seq(S) /\ Len(o) = m + n /\ \A k \in 1..(m + n) : o[k] = r[k]
    BY <1>6, <1>7
  <2> HIDE DEF o
  <2>2. o \in [1..(m + n) -> S] /\ r \in [1..(m + n) -> S]
    BY <1>2, <2>1
  <2>3. o = r
    BY <2>1, <2>2
  <2> QED BY <2>3 DEF o
<1> QED BY <1>8 DEF p, q, r

LEMMA TraceGrows ==
    ASSUME NEW c, NEW a \in Nat, NEW b \in Nat, a <= b, b <= LastLayer
    PROVE  Partial(c, a - 1).trace \o (IF a = 0 THEN <<Of(TokenEmbd)>> ELSE <<>>)
              \o [i \in 1..Size(a, b) |-> <<Of(Low(a) + i), Until(c)>>]
              \o (IF b = LastLayer THEN HeadOf ELSE <<>>)
           = Partial(c, b).trace
<1> DEFINE f == [k \in Nat |-> Thing(c, k)]
           A == [k \in 1..a |-> f[k]]
           l == Low(a)
           B == [k \in 1..(l + 1) |-> f[k]]
           C == [k \in 1..(High(b) + 1) |-> f[k]]
           input == IF a = 0 THEN <<Of(TokenEmbd)>> ELSE <<>>
           blocks == [i \in 1..Size(a, b) |-> <<Of(l + i), Until(c)>>]
           head == IF b = LastLayer THEN HeadOf ELSE <<>>
<1>0. /\ l \in Nat /\ High(b) \in Nat /\ l <= High(b) /\ High(b) <= Blocks /\ Size(a, b) = High(b) - l
      /\ Size(a, b) \in Nat /\ (a = 0 => l = 0) /\ (a # 0 => l + 1 = a)
      /\ (b # LastLayer => High(b) = b) /\ (b = LastLayer => High(b) = Blocks)
  BY Layers DEF Low, High, Size
<1>1. Partial(c, a - 1).trace = A
  <2>1. Upto(a - 1) = a
    BY Layers DEF Upto
  <2>2. Partial(c, a - 1).trace = [k \in 1..Upto(a - 1) |-> Thing(c, k)]
    BY DEF Partial
  <2>3. \A k \in 1..a : f[k] = Thing(c, k)
    OBVIOUS
  <2> HIDE DEF f
  <2> QED BY <2>1, <2>2, <2>3
<1>2. A \o input = B
  <2>1. CASE a = 0
    <3>1. input = [i \in 1..1 |-> f[0 + i]]
      <4>1. f[0 + 1] = Of(TokenEmbd)
        BY DEF Thing
      <4>2. input = <<Of(TokenEmbd)>> /\ DOMAIN <<Of(TokenEmbd)>> = 1..1 /\ <<Of(TokenEmbd)>>[1] = Of(TokenEmbd)
        BY <2>1
      <4> HIDE DEF f
      <4> QED BY <4>1, <4>2
    <3> HIDE DEF f, input
    <3>2. [k \in 1..0 |-> f[k]] \o [i \in 1..1 |-> f[0 + i]] = [k \in 1..(0 + 1) |-> f[k]]
      BY Glue
    <3> QED BY <1>0, <2>1, <3>1, <3>2
  <2>2. CASE a # 0
    <3>1. input = [i \in 1..0 |-> f[a + i]]
      BY <2>2
    <3> HIDE DEF f, input
    <3>2. [k \in 1..a |-> f[k]] \o [i \in 1..0 |-> f[a + i]] = [k \in 1..(a + 0) |-> f[k]]
      BY Glue
    <3> QED BY <1>0, <2>2, <3>1, <3>2
  <2> QED BY <2>1, <2>2
<1>3. B \o blocks = C
  <2>1. blocks = [i \in 1..Size(a, b) |-> f[(l + 1) + i]]
    <3>1. ASSUME NEW i \in 1..Size(a, b) PROVE f[(l + 1) + i] = <<Of(l + i), Until(c)>>
      <4> DEFINE k == (l + 1) + i
      <4>1. k \in Nat /\ k # 1 /\ k <= Blocks + 1 /\ k - 1 = l + i
        BY <1>0, Layers
      <4> HIDE DEF k
      <4>2. f[k] = Thing(c, k)
        BY <4>1
      <4>3. Thing(c, k) = <<Of(k - 1), Until(c)>>
        BY <4>1 DEF Thing
      <4> HIDE DEF f, l
      <4>4. f[k] = <<Of(l + i), Until(c)>>
        BY <4>1, <4>2, <4>3
      <4> QED BY <4>4 DEF k
    <3> QED BY <3>1
  <2> HIDE DEF f, blocks
  <2>2. [k \in 1..(l + 1) |-> f[k]] \o [i \in 1..Size(a, b) |-> f[(l + 1) + i]]
            = [k \in 1..((l + 1) + Size(a, b)) |-> f[k]]
    <3> DEFINE m == l + 1
    <3>1. m \in Nat /\ Size(a, b) \in Nat
      BY <1>0
    <3> HIDE DEF m
    <3>2. [k \in 1..m |-> f[k]] \o [i \in 1..Size(a, b) |-> f[m + i]] = [k \in 1..(m + Size(a, b)) |-> f[k]]
      BY <3>1, Glue
    <3> QED BY <3>2 DEF m
  <2>3. (l + 1) + Size(a, b) = High(b) + 1
    BY <1>0
  <2> QED BY <2>1, <2>2, <2>3
<1>4. C \o head = [k \in 1..Upto(b) |-> f[k]]
  <2> DEFINE h == High(b) + 1
  <2>1. CASE b = LastLayer
    <3>0. h = Blocks + 1 /\ h \in Nat /\ Upto(b) = h + 2
      BY <1>0, <2>1, Layers DEF Upto
    <3>1. head = [i \in 1..2 |-> f[h + i]]
      <4>1. h + 1 = Blocks + 2 /\ h + 2 = Blocks + 3
        BY <3>0, Layers
      <4>2. f[h + 1] = HeadOf[1] /\ f[h + 2] = HeadOf[2]
        <5>1. f[Blocks + 2] = Thing(c, Blocks + 2) /\ f[Blocks + 3] = Thing(c, Blocks + 3)
          BY Layers
        <5>2. /\ Blocks + 2 # 1 /\ ~(Blocks + 2 <= Blocks + 1) /\ (Blocks + 2) - Blocks - 1 = 1
              /\ Blocks + 3 # 1 /\ ~(Blocks + 3 <= Blocks + 1) /\ (Blocks + 3) - Blocks - 1 = 2
          BY Layers
        <5> HIDE DEF f
        <5> QED BY <4>1, <5>1, <5>2 DEF Thing
      <4>3. head = HeadOf /\ DOMAIN HeadOf = 1..2 /\ HeadOf = [i \in 1..2 |-> HeadOf[i]]
        BY <2>1 DEF HeadOf
      <4> HIDE DEF f, h, head
      <4>4. \A i \in 1..2 : HeadOf[i] = f[h + i]
        BY <4>2
      <4> QED BY <4>3, <4>4
    <3> HIDE DEF f, h, head
    <3>2. [k \in 1..h |-> f[k]] \o [i \in 1..2 |-> f[h + i]] = [k \in 1..(h + 2) |-> f[k]]
      BY <3>0, Glue
    <3> QED BY <3>0, <3>1, <3>2 DEF h
  <2>2. CASE b # LastLayer
    <3>0. h \in Nat /\ Upto(b) = h + 0
      BY <1>0, <2>2, Layers DEF Upto
    <3>1. head = [i \in 1..0 |-> f[h + i]]
      BY <2>2
    <3> HIDE DEF f, h, head
    <3>2. [k \in 1..h |-> f[k]] \o [i \in 1..0 |-> f[h + i]] = [k \in 1..(h + 0) |-> f[k]]
      BY <3>0, Glue
    <3> QED BY <3>0, <3>1, <3>2 DEF h
  <2> QED BY <2>1, <2>2
<1>5. Partial(c, b).trace = [k \in 1..Upto(b) |-> f[k]]
  <2>1. Upto(b) \in Nat
    BY Layers DEF Upto
  <2>2. Partial(c, b).trace = [k \in 1..Upto(b) |-> Thing(c, k)]
    BY DEF Partial
  <2>3. \A k \in 1..Upto(b) : f[k] = Thing(c, k)
    BY <2>1
  <2> HIDE DEF f
  <2> QED BY <2>2, <2>3
<1> HIDE DEF f, A, B, C, input, blocks, head
<1>6. Partial(c, a - 1).trace \o input \o blocks \o head = Partial(c, b).trace
  BY <1>1, <1>2, <1>3, <1>4, <1>5
<1> QED BY <1>6 DEF input, blocks, head

\* A session that holds the layers a..b, whatever it has offloaded before.
Holding(a, b, kv, o) == [model |-> LayersOf(a, b, kv), offloaded_kv |-> o, layers |-> <<a, b>>]

\* A forward pass of the layers a..b makes of what the layers before have made
\* of c what they make of it, and leaves c in all caches.
LEMMA SessionRuns ==
    ASSUME NEW c, NEW a \in Nat, NEW b \in Nat, a <= b, b <= LastLayer, NEW kv, NEW o, NEW s, NEW x,
           x = Partial(c, a - 1), s = Holding(a, b, kv, o), Append(kv, c) = Until(c),
           forward(s, x).ok
    PROVE  /\ forward(s, x).out = Partial(c, b)
           /\ forward(s, x).sess = Holding(a, b, Until(c), o)
<1> DEFINE m == LayersOf(a, b, kv)
           g == GGUF_Model_Inference(m, x)
<1>0. s.model = m
  BY DEF Holding
<1>1. ~(s.model = None \/ g = None)
  BY <1>0 DEF forward, Err
<1>2. forward(s, x).out = g.out /\ forward(s, x).sess = [s EXCEPT !.model = g.model]
  BY <1>0, <1>1 DEF forward
<1>3. g = Forward(m, x)
  BY <1>1 DEF GGUF_Model_Inference
<1> DEFINE new_kv == [i \in DOMAIN m.kv |-> Append(m.kv[i], x.chunk)]
<1>4. /\ m.input = (IF a = 0 THEN <<Of(TokenEmbd)>> ELSE <<>>) /\ m.kv = Caches(a, b, kv)
      /\ m.blocks = [i \in 1..Size(a, b) |-> Of(Low(a) + i)]
      /\ m.head = (IF b = LastLayer THEN HeadOf ELSE <<>>)
  BY DEF LayersOf
<1>5. x.chunk = c
  BY DEF Partial
<1>6. new_kv = Caches(a, b, Until(c))
  BY <1>4, <1>5 DEF Caches
<1>7. /\ Forward(m, x).model = [m EXCEPT !.kv = new_kv]
      /\ Forward(m, x).out =
            [kind  |-> IF m.head = <<>> THEN "hidden" ELSE "logits",
             chunk |-> x.chunk,
             trace |-> x.trace \o m.input \o [i \in DOMAIN new_kv |-> <<m.blocks[i], new_kv[i]>>] \o m.head]
  BY DEF Forward
<1>8. [m EXCEPT !.kv = new_kv] = LayersOf(a, b, Until(c))
  <2> DEFINE i == IF a = 0 THEN <<Of(TokenEmbd)>> ELSE <<>>
             j == [n \in 1..Size(a, b) |-> Of(Low(a) + n)]
             h == IF b = LastLayer THEN HeadOf ELSE <<>>
  <2>1. /\ m = [input |-> i, blocks |-> j, head |-> h, kv |-> Caches(a, b, kv)]
        /\ LayersOf(a, b, Until(c)) = [input |-> i, blocks |-> j, head |-> h, kv |-> Caches(a, b, Until(c))]
    BY DEF LayersOf
  <2> HIDE DEF new_kv, i, j, h, m
  <2> QED BY <1>6, <2>1
<1>9. [i \in DOMAIN new_kv |-> <<m.blocks[i], new_kv[i]>>]
        = [i \in 1..Size(a, b) |-> <<Of(Low(a) + i), Until(c)>>]
  <2> HIDE DEF new_kv, m
  <2> QED BY <1>4, <1>6 DEF Caches
<1>10. x.trace \o m.input \o [i \in DOMAIN new_kv |-> <<m.blocks[i], new_kv[i]>>] \o m.head = Partial(c, b).trace
  <2> DEFINE input  == IF a = 0 THEN <<Of(TokenEmbd)>> ELSE <<>>
             blocks == [i \in 1..Size(a, b) |-> <<Of(Low(a) + i), Until(c)>>]
             head   == IF b = LastLayer THEN HeadOf ELSE <<>>
  <2>1. Partial(c, a - 1).trace \o input \o blocks \o head = Partial(c, b).trace
    BY TraceGrows
  <2>2. m.input = input /\ m.head = head /\ [i \in DOMAIN new_kv |-> <<m.blocks[i], new_kv[i]>>] = blocks
    BY <1>4, <1>9
  <2> HIDE DEF new_kv, m, input, blocks, head
  <2> QED BY <2>1, <2>2
<1>11. (IF m.head = <<>> THEN "hidden" ELSE "logits") = Partial(c, b).kind
  <2>1. HeadOf # <<>>
    BY DEF HeadOf
  <2>2. b # -1
    OBVIOUS
  <2> QED BY <1>4, <2>1, <2>2 DEF Partial
<1>12. Partial(c, b) = [kind |-> Partial(c, b).kind, chunk |-> c, trace |-> Partial(c, b).trace]
  BY DEF Partial
<1> HIDE DEF m, new_kv, g
<1>13. g.out = Partial(c, b)
  BY <1>3, <1>5, <1>7, <1>10, <1>11, <1>12
<1>14. g.model = LayersOf(a, b, Until(c))
  BY <1>3, <1>7, <1>8
<1> QED BY <1>2, <1>13, <1>14 DEF Holding

(***************************************************************************)
(* The methods of a session.                                               *)
(***************************************************************************)
LEMMA WholeSound ==
    Sound(GGUF_Analyze_And_Convert)
<1>1. Whole \in Ranges /\ FileOf(Whole) = GGUF_Analyze_And_Convert
  BY Layers DEF Whole, Ranges, FileOf
<1> QED BY <1>1, FilesSound

LEMMA SessionLoads ==
    ASSUME NEW file, Sound(file), NEW a \in Nat, NEW b \in Int, b <= LastLayer,
           NEW m, NEW o, NEW l, NEW s, s = [model |-> m, offloaded_kv |-> o, layers |-> l],
           load_model(s, file, a, b).ok
    PROVE  a <= b /\ load_model(s, file, a, b).sess = Holding(a, b, <<>>, o)
<1>1. GGUF_Load_Model(file, a, b) # None
  BY DEF load_model, Err
<1>2. a <= b /\ GGUF_Load_Model(file, a, b) = LayersOf(a, b, <<>>)
  BY <1>1, Loads
<1>3. load_model(s, file, a, b).sess = [s EXCEPT !.model = LayersOf(a, b, <<>>), !.layers = <<a, b>>]
  BY <1>1, <1>2 DEF load_model, Ok
<1> QED BY <1>2, <1>3 DEF Holding

LEMMA SessionResets ==
    ASSUME NEW a, NEW b, NEW kv, NEW s, s = OnGpu(a, b, kv), s.model # None
    PROVE  reset_kv_cache(s) = OnGpu(a, b, <<>>)
<1> DEFINE m == LayersOf(a, b, kv)
           i == IF a = 0 THEN <<Of(TokenEmbd)>> ELSE <<>>
           j == [n \in 1..Size(a, b) |-> Of(Low(a) + n)]
           h == IF b = LastLayer THEN HeadOf ELSE <<>>
<1>1. /\ m = [input |-> i, blocks |-> j, head |-> h, kv |-> Caches(a, b, kv)]
      /\ LayersOf(a, b, <<>>) = [input |-> i, blocks |-> j, head |-> h, kv |-> Caches(a, b, <<>>)]
  BY DEF LayersOf
<1>2. [n \in DOMAIN Caches(a, b, kv) |-> <<>>] = Caches(a, b, <<>>)
  BY DEF Caches
<1>3. s = [model |-> m, offloaded_kv |-> None, layers |-> <<a, b>>]
  BY DEF OnGpu
<1> HIDE DEF i, j, h, m
<1>4. Clear_Kv_Cache(m) = LayersOf(a, b, <<>>)
  BY <1>1, <1>2 DEF Clear_Kv_Cache
<1> QED BY <1>3, <1>4 DEF reset_kv_cache, OnGpu

LEMMA SessionTakenOff ==
    ASSUME NEW a, NEW b, NEW kv, NEW o, NEW s, s = Holding(a, b, kv, o), offload_to_cpu(s).ok
    PROVE  offload_to_cpu(s).sess = OnCpu(a, b, kv)
<1> DEFINE kvs == extract_kv_cache(s.model)
<1>1. s.model = LayersOf(a, b, kv) /\ s.model.kv = Caches(a, b, kv)
  BY DEF Holding, LayersOf
<1>2. ~(s.model = None \/ s.layers = None \/ kvs = None)
  BY DEF offload_to_cpu, Err
<1>3. kvs = Caches(a, b, kv)
  BY <1>1, <1>2 DEF extract_kv_cache
<1>4. offload_to_cpu(s).sess = [s EXCEPT !.model = None, !.offloaded_kv = kvs]
  BY <1>2 DEF offload_to_cpu, Ok
<1> HIDE DEF kvs
<1> QED BY <1>3, <1>4 DEF Holding, OnCpu

LEMMA SessionPutBack ==
    ASSUME NEW file, Sound(file), NEW a \in Nat, NEW b \in Int, b <= LastLayer,
           NEW T, NEW kv \in Seq(T), NEW s, s = OnCpu(a, b, kv), offload_to_cuda(s, file).ok
    PROVE  offload_to_cuda(s, file).sess = OnGpu(a, b, kv)
<1> DEFINE m == GGUF_Load_Model(file, a, b)
           r == IF m = None THEN None ELSE restore_kv_cache(m, Caches(a, b, kv))
           t == [s EXCEPT !.offloaded_kv = None]
<1>1. s.layers[1] = a /\ s.layers[2] = b /\ s.offloaded_kv = Caches(a, b, kv)
  BY DEF OnCpu
<1>2. /\ r # None /\ offload_to_cuda(s, file).sess = [t EXCEPT !.model = r]
  BY <1>1 DEF offload_to_cuda, Err, Ok
<1>3. m # None /\ m = LayersOf(a, b, <<>>) /\ r = restore_kv_cache(m, Caches(a, b, kv))
  <2>1. m # None
    BY <1>2
  <2> QED BY <2>1, Loads
<1>4. m.kv = Caches(a, b, <<>>)
  BY <1>3 DEF LayersOf
<1> HIDE DEF m
<1> DEFINE both == [n \in DOMAIN Caches(a, b, kv) |-> m.kv[n] \o Caches(a, b, kv)[n]]
<1>5. r = [m EXCEPT !.kv = both]
  BY <1>2, <1>3 DEF restore_kv_cache
<1>6. both = Caches(a, b, kv)
  <2>1. <<>> \o kv = kv
    OBVIOUS
  <2>2. DOMAIN Caches(a, b, kv) = 1..Size(a, b)
    BY DEF Caches
  <2>3. \A n \in 1..Size(a, b) : m.kv[n] = <<>> /\ Caches(a, b, kv)[n] = kv
    BY <1>4 DEF Caches
  <2>4. Caches(a, b, kv) = [n \in 1..Size(a, b) |-> kv]
    BY DEF Caches
  <2> QED BY <2>1, <2>2, <2>3, <2>4
<1>7. r = LayersOf(a, b, kv)
  <2> DEFINE i == IF a = 0 THEN <<Of(TokenEmbd)>> ELSE <<>>
             j == [n \in 1..Size(a, b) |-> Of(Low(a) + n)]
             h == IF b = LastLayer THEN HeadOf ELSE <<>>
  <2>1. /\ m = [input |-> i, blocks |-> j, head |-> h, kv |-> Caches(a, b, <<>>)]
        /\ LayersOf(a, b, kv) = [input |-> i, blocks |-> j, head |-> h, kv |-> Caches(a, b, kv)]
    BY <1>3 DEF LayersOf
  <2> HIDE DEF i, j, h, r, both
  <2> QED BY <1>5, <1>6, <2>1
<1> HIDE DEF r
<1> QED BY <1>2, <1>7 DEF OnCpu, OnGpu

\* The tensors of a conversation, one after the other.
LEMMA UntilGrows ==
    ASSUME NEW p \in Nat, NEW q \in Nat
    PROVE  /\ q = 0 => Append(<<>>, <<p, q>>) = Until(<<p, q>>)
           /\ q > 0 => Append(Until(<<p, q - 1>>), <<p, q>>) = Until(<<p, q>>)
           /\ Until(<<p, q>>) \in Seq(Nat \X Nat)
<1>0. Until(<<p, q>>) = [n \in 1..(q + 1) |-> <<p, n - 1>>]
  BY DEF Until
<1>1. Until(<<p, q>>) \in Seq(Nat \X Nat) /\ Len(Until(<<p, q>>)) = q + 1
  <2>1. \A n \in 1..(q + 1) : <<p, n - 1>> \in Nat \X Nat
    OBVIOUS
  <2>2. [n \in 1..(q + 1) |-> <<p, n - 1>>] \in [1..(q + 1) -> Nat \X Nat] /\ q + 1 \in Nat
    BY <2>1
  <2> QED BY <1>0, <2>2
<1>2. CASE q = 0
  <2>1. Append(<<>>, <<p, q>>) = <<<<p, q>>>>
    BY Lists
  <2>2. Until(<<p, q>>) = <<<<p, q>>>>
    BY <1>0, <1>2
  <2> QED BY <1>1, <1>2, <2>1, <2>2
<1>3. CASE q > 0
  <2> DEFINE r == q - 1
             u == [n \in 1..q |-> <<p, n - 1>>]
  <2>1. r \in Nat /\ r + 1 = q
    BY <1>3
  <2>2. Until(<<p, r>>) = u
    BY <2>1 DEF Until
  <2>3. u \in Seq(Nat \X Nat) /\ Len(u) = q /\ \A n \in 1..q : u[n] = <<p, n - 1>>
    OBVIOUS
  <2> HIDE DEF u, r
  <2> DEFINE v == Append(u, <<p, q>>)
  <2>4. v \in Seq(Nat \X Nat) /\ Len(v) = q + 1 /\ v[q + 1] = <<p, q>> /\ \A n \in 1..q : v[n] = u[n]
    BY <2>3
  <2> HIDE DEF v
  <2>5. v \in [1..(q + 1) -> Nat \X Nat]
    BY <2>4
  <2>6. \A n \in 1..(q + 1) : v[n] = <<p, n - 1>>
    <3> SUFFICES ASSUME NEW n \in 1..(q + 1) PROVE v[n] = <<p, n - 1>>
      OBVIOUS
    <3>1. n \in 1..q \/ (n = q + 1 /\ n - 1 = q)
      OBVIOUS
    <3> QED BY <2>3, <2>4, <3>1
  <2>7. v = Until(<<p, q>>)
    BY <1>0, <2>5, <2>6
  <2>8. Append(Until(<<p, q - 1>>), <<p, q>>) = Until(<<p, q>>)
    BY <2>2, <2>7 DEF v, r
  <2>9. q # 0
    BY <1>3
  <2> QED BY <1>1, <2>8, <2>9, Zenon
<1> QED BY <1>1, <1>2, <1>3

\* What the caches hold before and after the next tensor.
LEMMA Conversation ==
    ASSUME IInv, NEW t \in Threads, ChainI(t), Waiting(t), NEW c, c = NextAsked(t)
    PROVE  /\ c[2] = 0 => Append(<<>>, c) = Until(c)
           /\ c[2] # 0 => answered[t] # <<>> /\ Append(Done(t), c) = Until(c)
           /\ Until(c) \in Seq(Nat \X Nat)
<1> DEFINE k == Len(answered[t]) + 1
<1>1. /\ asked[t] \in Seq(Nat \X Nat) /\ IsList(answered[t]) /\ Len(answered[t]) < Len(asked[t])
  BY DEF IInv, AskI, Waiting
<1>2. Len(answered[t]) \in Nat
  BY <1>1, ListFacts
<1>3. k \in 1..Len(asked[t]) /\ k \in DOMAIN asked[t] /\ c = asked[t][k]
  BY <1>1, <1>2 DEF NextAsked
<1>4. c \in Nat \X Nat
  BY <1>1, <1>3
<1>5. PICK p \in Nat, q \in Nat : c = <<p, q>>
  BY <1>4
<1>6. c[1] = p /\ c[2] = q
  BY <1>5
<1>7. ASSUME q # 0
      PROVE  answered[t] # <<>> /\ Append(Done(t), c) = Until(c)
  <2>1. q > 0
    BY <1>7
  <2>2. k > 1 /\ asked[t][k - 1] = <<p, q - 1>>
    <3> HIDE DEF k
    <3> QED BY <1>3, <1>6, <2>1 DEF ChainI
  <2>3. Len(answered[t]) # 0 /\ k - 1 = Len(answered[t])
    BY <1>2, <2>2
  <2>4. answered[t] # <<>>
    BY <2>3, Lists
  <2>5. Done(t) = Until(<<p, q - 1>>)
    BY <2>2, <2>3, <2>4 DEF Done
  <2> QED BY <1>5, <2>1, <2>4, <2>5, UntilGrows
<1>8. q = 0 => Append(<<>>, c) = Until(c)
  BY <1>5, UntilGrows
<1>9. Until(c) \in Seq(Nat \X Nat)
  BY <1>5, UntilGrows
<1> QED BY <1>6, <1>7, <1>8, <1>9

LEMMA DoneList ==
    ASSUME IInv, NEW t \in Threads
    PROVE  Done(t) \in Seq(Nat \X Nat)
<1>1. /\ asked[t] \in Seq(Nat \X Nat) /\ IsList(answered[t]) /\ Len(answered[t]) <= Len(asked[t])
  BY DEF IInv, AskI
<1>2. Len(answered[t]) \in Nat
  BY <1>1, ListFacts
<1>3. CASE answered[t] = <<>>
  BY <1>3 DEF Done
<1>4. CASE answered[t] # <<>>
  <2> DEFINE n == Len(answered[t])
  <2>1. n # 0
    <3>1. DOMAIN answered[t] = 1..n /\ answered[t] \in Seq({answered[t][i] : i \in DOMAIN answered[t]})
      BY <1>1, ListFacts DEF IsList
    <3> QED BY <1>4, <3>1
  <2>2. asked[t][n] \in Nat \X Nat
    BY <1>1, <1>2, <2>1
  <2>3. PICK p \in Nat, q \in Nat : asked[t][n] = <<p, q>>
    BY <2>2
  <2> HIDE DEF n
  <2>4. Done(t) = Until(<<p, q>>)
    BY <1>4, <2>3 DEF Done, n
  <2> QED BY <2>4, UntilGrows
<1> QED BY <1>3, <1>4

\* The same for a session that is reset if the tensor begins a conversation.
LEMMA FreshRuns ==
    ASSUME IInv, NEW t \in Threads, ChainI(t), Waiting(t), NEW c, c = NextAsked(t),
           NEW a \in Nat, NEW b \in Nat, a <= b, b <= LastLayer,
           NEW s, s = OnGpu(a, b, Done(t)), NEW x, x = Partial(c, a - 1),
           NEW f, f = IF c[2] = 0 THEN reset_kv_cache(s) ELSE s, forward(f, x).ok
    PROVE  forward(f, x).out = Partial(c, b) /\ forward(f, x).sess = OnGpu(a, b, Until(c))
<1>0. \A kv : OnGpu(a, b, kv) = Holding(a, b, kv, None)
  BY DEF OnGpu, Holding
<1>1. f.model # None
  BY DEF forward, Err
<1>2. CASE c[2] = 0
  <2>1. s.model # None
    <3>1. s.model = None => f = s
      BY <1>2 DEF reset_kv_cache
    <3> QED BY <1>1, <3>1
  <2>2. reset_kv_cache(s) = OnGpu(a, b, <<>>)
    BY <2>1, SessionResets
  <2> DEFINE e == <<>>
  <2>3. f = Holding(a, b, e, None)
    BY <1>0, <1>2, <2>2
  <2>4. Append(e, c) = Until(c)
    BY <1>2, Conversation
  <2> HIDE DEF e
  <2>5. forward(f, x).out = Partial(c, b) /\ forward(f, x).sess = Holding(a, b, Until(c), None)
    BY <2>3, <2>4, SessionRuns
  <2> QED BY <1>0, <2>5
<1>3. CASE c[2] # 0
  <2>1. f = Holding(a, b, Done(t), None)
    BY <1>0, <1>3
  <2>2. Append(Done(t), c) = Until(c)
    BY <1>3, Conversation
  <2>3. forward(f, x).out = Partial(c, b) /\ forward(f, x).sess = Holding(a, b, Until(c), None)
    BY <2>1, <2>2, SessionRuns
  <2> QED BY <1>0, <2>3
<1> QED BY <1>2, <1>3

(***************************************************************************)
(* The ranges of a plan.                                                   *)
(***************************************************************************)
LEMMA Products ==
    /\ \A i, n, p \in Nat : i <= n => i * p <= n * p /\ i * p \in Nat
    /\ \A x, n \in Nat : n > 0 => /\ x \div n \in Nat /\ x % n \in Nat /\ x % n < n
                                  /\ x % n = x - n * (x \div n)
<1>1. ASSUME NEW i \in Nat, NEW n \in Nat, NEW p \in Nat, i <= n
      PROVE  i * p <= n * p /\ i * p \in Nat
  BY <1>1
<1>2. ASSUME NEW x \in Nat, NEW n \in Nat, n > 0
      PROVE  /\ x \div n \in Nat /\ x % n \in Nat /\ x % n < n
             /\ x % n = x - n * (x \div n)
  <2>1. x \div n \in Int /\ x % n \in Int
    BY <1>2
  <2>2. x % n >= 0 /\ x % n < n
    BY <1>2
  <2>3. x % n = x - n * (x \div n)
    BY <1>2
  <2>4. x \div n >= 0
    BY <1>2
  <2> QED BY <2>1, <2>2, <2>3, <2>4
<1> QED BY <1>1, <1>2

\* The file that stands for a group is one of the group.
LEMMA AdjustRange ==
    ASSUME NEW r \in Ranges
    PROVE  adjust_range(r)[1] \in 0..LastLayer /\ adjust_range(r)[2] \in 0..LastLayer
<1>1. r[1] \in 0..LastLayer /\ r[2] \in 0..LastLayer
  BY DEF Ranges
<1>2. CASE r # Whole \/ SameName
  <2>1. adjust_range(r) = r
    BY <1>2 DEF adjust_range
  <2> QED BY <1>1, <2>1, Layers
<1>3. CASE r = Whole /\ ~SameName
  <2> DEFINE bits == Build_Layer_Bitmap(FileOf(r))
  <2>1. FileOf(r) = GGUF_Analyze_And_Convert
    BY <1>3 DEF FileOf
  <2>2. DOMAIN FileOf(r).weights = Names
    BY <2>1 DEF GGUF_Analyze_And_Convert, streaming_write_pgguf
  <2>3. bits = 0..(Blocks - 1)
    BY <2>2, Layers DEF Build_Layer_Bitmap
  <2>4. adjust_range(r) = <<Min(bits), Max(bits)>>
    BY <1>3 DEF adjust_range
  <2> HIDE DEF bits
  <2>5. Min(bits) = 0
    BY <2>3, Layers DEF Min
  <2>6. Max(bits) = Blocks - 1
    BY <2>3, Layers DEF Max
  <2> QED BY <2>4, <2>5, <2>6, Layers
<1> QED BY <1>2, <1>3

LEMMA WidestIn ==
    ASSUME NEW G, G \subseteq Ranges, G # {}
    PROVE  Widest(G) \in G
<1> DEFINE score(q) == 1000 * (300 - Width(q)) + adjust_range(q)[1]
           S == {score(q) : q \in G}
<1>1. \A q \in G : /\ adjust_range(q)[1] \in Nat /\ adjust_range(q)[2] \in Nat /\ adjust_range(q)[1] <= 257
                  /\ Width(q) \in Int /\ Width(q) <= 257
  <2> SUFFICES ASSUME NEW q \in G
               PROVE  /\ adjust_range(q)[1] \in Nat /\ adjust_range(q)[2] \in Nat /\ adjust_range(q)[1] <= 257
                      /\ Width(q) \in Int /\ Width(q) <= 257
    OBVIOUS
  <2>1. adjust_range(q)[1] \in 0..LastLayer /\ adjust_range(q)[2] \in 0..LastLayer
    BY AdjustRange
  <2> QED BY <2>1, Layers DEF Width
<1>2. S \subseteq Nat /\ S # {}
  BY <1>1
<1>3. \E x \in S : \A y \in S : x <= y
  <2> HIDE DEF S
  <2> QED BY <1>2, LeastIn
<1>4. PICK q \in G : \A o \in G : score(q) <= score(o)
  BY <1>3
<1>5. \A o \in G : Width(q) > Width(o) \/ (Width(q) = Width(o) /\ ~Before(o, q))
  <2> SUFFICES ASSUME NEW o \in G
               PROVE  Width(q) > Width(o) \/ (Width(q) = Width(o) /\ ~Before(o, q))
    OBVIOUS
  <2>1. score(q) <= score(o)
    BY <1>4
  <2>2. Width(q) > Width(o) \/ (Width(q) = Width(o) /\ adjust_range(q)[1] <= adjust_range(o)[1])
    <3>1. \A v, w \in Int : \A a, b \in Nat :
             a <= 257 /\ b <= 257 /\ 1000 * (300 - v) + a <= 1000 * (300 - w) + b => v > w \/ (v = w /\ a <= b)
      OBVIOUS
    <3> QED BY <1>1, <2>1, <3>1
  <2>3. Width(q) = Width(o) /\ adjust_range(q)[1] <= adjust_range(o)[1] => ~Before(o, q)
    BY <1>1 DEF Width, Before
  <2> QED BY <2>2, <2>3
<1> QED BY <1>5 DEF Widest

LEMMA FilesListed ==
    ASSUME NEW t \in Threads, NEW held \in Placements, NEW e \in Remote(t, held)
    PROVE  e.file \in Ranges
<1>1. PICK n \in Nodes : e \in Listed(n, held[n])
  BY DEF Remote, list_model_peers
<1>2. held[n] \subseteq Ranges
  BY InferenceConstants DEF Ranges
<1>3. PICK G \in Groups(held[n]) : e = [peer |-> n, file |-> Widest(G)]
  BY <1>1 DEF Listed
<1>4. G \subseteq held[n] /\ G # {}
  <2> DEFINE F == held[n]
             Firsts   == {r \in F : \A q \in F : Before(q, r) => adjust_range(q)[2] < adjust_range(r)[1]}
             Group(r) == {q \in F : ~Before(q, r) /\ \A f \in Firsts : Before(r, f) => Before(q, f)}
  <2>1. PICK r \in Firsts : G = Group(r)
    BY DEF Groups
  <2>2. r \in F
    OBVIOUS
  <2>3. ~Before(r, r)
    BY <1>2, <2>2, AdjustRange DEF Before
  <2>4. r \in Group(r)
    BY <2>2, <2>3
  <2> QED BY <2>1, <2>4
<1>5. Widest(G) \in G
  BY <1>2, <1>4, WidestIn
<1> QED BY <1>2, <1>3, <1>4, <1>5

\* The ranges follow each other and end with the last layer.
LEMMA RangesAssigned ==
    ASSUME NEW t \in Threads, NEW held \in Placements, NEW o \in Orders(t, held),
           NEW p, p = Assign(o), NEW i \in 1..Len(p)
    PROVE  /\ p[i].file \in Ranges /\ p[i].first \in Nat
           /\ p[i].last \in Int /\ p[i].last <= LastLayer
           /\ p[i].first = (IF i = 1 THEN 0 ELSE p[i - 1].last + 1)
           /\ i = Len(p) => p[i].last = LastLayer
<1> DEFINE n == Cardinality(Remote(t, held))
           per  == (Blocks + 2) \div n
           rest == (Blocks + 2) % n
           from(j) == (j - 1) * per + Min({j - 1, rest})
<1>1. n \in Nat /\ o \in [1..n -> Remote(t, held)]
  BY RemoteFinite, FS_CardinalityType DEF Orders, SetToSeqs
<1>2. Len(o) = n
  BY <1>1
<1> HIDE DEF n
<1>3. p = [j \in 1..n |-> [peer |-> o[j].peer, file |-> o[j].file, first |-> from(j), last |-> from(j + 1) - 1]]
  <2>1. DOMAIN o = 1..n
    BY <1>1
  <2> QED BY <1>2, <2>1 DEF Assign
<1>4. Len(p) = n
  <2>1. DOMAIN p = 1..n
    BY <1>3
  <2>2. Len(p) \in Nat /\ DOMAIN p = 1..Len(p)
    BY OrdersFit
  <2> QED BY <1>1, <2>1, <2>2
<1>5. i \in 1..n /\ n > 0 /\ i - 1 \in Nat /\ i \in Nat /\ i <= n
  BY <1>1, <1>4
<1>6. /\ p[i].file = o[i].file /\ p[i].first = from(i) /\ p[i].last = from(i + 1) - 1
      /\ i # 1 => p[i - 1].last = from(i) - 1
  <2>1. i # 1 => i - 1 \in 1..n /\ (i - 1) + 1 = i
    <3>1. \A j, m \in Nat : j \in 1..m /\ j # 1 => j - 1 \in 1..m /\ (j - 1) + 1 = j
      OBVIOUS
    <3> QED BY <1>1, <1>5, <3>1
  <2> HIDE DEF from
  <2> QED BY <1>3, <1>5, <2>1
<1>7. /\ per \in Nat /\ rest \in Nat /\ rest < n /\ rest = (Blocks + 2) - n * per
  BY <1>1, <1>5, Products, Layers
<1> HIDE DEF per, rest
<1>8. ASSUME NEW j \in Nat, j <= n
      PROVE  /\ from(j + 1) = j * per + (IF j <= rest THEN j ELSE rest)
             /\ from(j + 1) \in Nat /\ from(j + 1) <= Blocks + 2
             /\ j = 0 => from(j + 1) = 0
             /\ j = n => from(j + 1) = Blocks + 2
  <2>1. Min({j, rest}) = IF j <= rest THEN j ELSE rest
    BY <1>7, <1>8 DEF Min
  <2>2. (j + 1) - 1 = j
    BY <1>8
  <2>3. from(j + 1) = j * per + (IF j <= rest THEN j ELSE rest)
    BY <2>1, <2>2
  <2>4. j * per \in Nat /\ n * per \in Nat /\ j * per <= n * per
    BY <1>1, <1>7, <1>8, Products
  <2> HIDE DEF from
  <2>5. from(j + 1) \in Nat /\ from(j + 1) <= Blocks + 2
    BY <1>7, <2>3, <2>4, Layers
  <2>6. j = 0 => from(j + 1) = 0
    BY <1>7, <2>3
  <2>7. j = n => from(j + 1) = Blocks + 2
    <3> DEFINE m == n * per
    <3>1. j = n => from(j + 1) = m + rest
      BY <1>1, <1>7, <2>3
    <3>2. rest = (Blocks + 2) - m /\ m \in Nat
      BY <1>7, <2>4
    <3> HIDE DEF m
    <3> QED BY <1>7, <3>1, <3>2, Layers
  <2> QED BY <2>3, <2>5, <2>6, <2>7
<1> HIDE DEF from
<1>9. from(i) \in Nat /\ (i = 1 => from(i) = 0)
  <2>1. (i - 1) + 1 = i /\ i - 1 <= n /\ (i = 1 => i - 1 = 0)
    BY <1>1, <1>5
  <2> QED BY <1>5, <1>8, <2>1
<1>10. from(i + 1) \in Nat /\ from(i + 1) <= Blocks + 2 /\ (i = n => from(i + 1) = Blocks + 2)
  BY <1>5, <1>8
<1>11. o[i].file \in Ranges
  BY <1>1, <1>5, FilesListed
<1> QED BY <1>4, <1>5, <1>6, <1>9, <1>10, <1>11, Layers

(***************************************************************************)
(* Steps that compute nothing.                                             *)
(***************************************************************************)
\* What a step keeps of a thread, of any but the one that takes it.
Keeps(t)     == plan'[t] = plan[t] /\ asked'[t] = asked[t] /\ answered'[t] = answered[t]
Untouched(t) ==
    /\ Keeps(t) /\ work'[t] = work[t]
    /\ \A s \in Stages : s[1] = t => /\ pc'[s] = pc[s] /\ sess'[s] = sess[s]
                                     /\ stream'[s].q = stream[s].q

LEMMA DeadThread ==
    ASSUME NEW t \in Threads, ThreadI(t), Keeps(t), pc'[<<t, 0>>] = "ended"
    PROVE  ThreadI(t)'
<1>1. RangeI(t)'
  BY DEF ThreadI, RangeI, Keeps
<1>2. ChainI(t)'
  BY DEF ThreadI, ChainI, Keeps, Starting, NotYet
<1>3. WorkerI(t)' /\ ContentI(t)' /\ OffloadI(t)'
  BY DEF WorkerI, ContentI, OffloadI
<1> QED BY <1>1, <1>2, <1>3 DEF ThreadI

\* The program goes on without a change to what it computes with; workers may
\* end, and what is under way be lost.
LEMMA QuietThread ==
    ASSUME NEW t \in Threads, ThreadI(t), Keeps(t), work'[t] = work[t],
           sess'[<<t, 0>>] = sess[<<t, 0>>],
           \/ pc'[<<t, 0>>] = pc[<<t, 0>>]
           \/ pc[<<t, 0>>] \in Starting /\ pc'[<<t, 0>>] \in Starting
           \/ pc[<<t, 0>>] \in Starting /\ pc'[<<t, 0>>] = "loop" /\ plan[t] # <<>>,
           \A s \in Stages : s[1] = t /\ s[2] > 0 /\ pc'[s] \in Loaded
                                => pc[s] \in Loaded /\ sess'[s] = sess[s],
           \A s \in Stages : s[1] = t => stream'[s].q \in {<<>>, stream[s].q}
    PROVE  ThreadI(t)'
<1>0. /\ pc'[<<t, 0>>] = "wait" <=> pc[<<t, 0>>] = "wait"
      /\ pc'[<<t, 0>>] # "ended" => pc[<<t, 0>>] # "ended"
  BY DEF Starting, NotYet
<1>1. RangeI(t)'
  BY DEF ThreadI, RangeI, Keeps
<1>2. ChainI(t)'
  BY DEF ThreadI, ChainI, Keeps, Starting, NotYet
<1>3. Done(t)' = Done(t) /\ NextAsked(t)' = NextAsked(t)
  BY DEF Keeps, Done, NextAsked
<1>5. WorkerI(t)'
  <2> SUFFICES ASSUME NEW s \in Stages, s[1] = t, s[2] > 0, pc'[s] \in Loaded, pc'[<<t, 0>>] # "ended"
               PROVE  /\ plan'[t][s[2]].first <= Mid(plan'[t][s[2]])
                      /\ Mid(plan'[t][s[2]]) < plan'[t][s[2]].last
                      /\ pc'[<<t, 0>>] # "wait" => Halves(s, Done(t))'
                      /\ pc'[<<t, 0>>] = "wait" =>
                            \A u \in Stages : u[1] = t /\ stream'[u].q # <<>> =>
                               Halves(s, IF u[2] < s[2] THEN Done(t) ELSE Until(NextAsked(t)))'
    BY DEF WorkerI
  <2>1. /\ pc[s] \in Loaded /\ sess'[s] = sess[s] /\ pc[<<t, 0>>] # "ended"
    BY <1>0
  <2>2. /\ plan[t][s[2]].first <= Mid(plan[t][s[2]])
        /\ Mid(plan[t][s[2]]) < plan[t][s[2]].last
        /\ pc[<<t, 0>>] # "wait" => Halves(s, Done(t))
        /\ pc[<<t, 0>>] = "wait" =>
              \A u \in Stages : u[1] = t /\ stream[u].q # <<>> =>
                  Halves(s, IF u[2] < s[2] THEN Done(t) ELSE Until(NextAsked(t)))
    BY <2>1 DEF ThreadI, WorkerI
  <2>4. CASE pc'[<<t, 0>>] # "wait"
    <3>1. Halves(s, Done(t))
      BY <1>0, <2>2, <2>4
    <3>2. Halves(s, Done(t))'
      BY <1>3, <2>1, <3>1 DEF Halves, Keeps
    <3> QED BY <2>2, <2>4, <3>2 DEF Keeps
  <2>5. CASE pc'[<<t, 0>>] = "wait"
    <3>1. ASSUME NEW u \in Stages, u[1] = t, stream'[u].q # <<>>
          PROVE  Halves(s, IF u[2] < s[2] THEN Done(t) ELSE Until(NextAsked(t)))'
      <4>1. Halves(s, IF u[2] < s[2] THEN Done(t) ELSE Until(NextAsked(t)))
        BY <1>0, <2>2, <2>5, <3>1
      <4> QED BY <1>3, <2>1, <4>1 DEF Halves, Keeps, Until
    <3> QED BY <2>2, <2>5, <3>1 DEF Keeps
  <2> QED BY <2>4, <2>5
<1>6. ContentI(t)'
  <2> SUFFICES ASSUME NEW s \in Stages, s[1] = t, pc'[<<t, 0>>] = "wait", stream'[s].q # <<>>
               PROVE  stream'[s].q[1] = Partial(NextAsked(t), EndOf(s))'
    BY DEF ContentI
  <2>1. stream'[s].q = stream[s].q /\ stream[s].q[1] = Partial(NextAsked(t), EndOf(s))
    BY <1>0 DEF ThreadI, ContentI
  <2>2. EndOf(s)' = EndOf(s)
    BY DEF EndOf, Keeps
  <2>3. Partial(NextAsked(t), EndOf(s))' = Partial(NextAsked(t), EndOf(s))
    BY <1>3, <2>2 DEF Partial, Thing, Until
  <2> QED BY <2>1, <2>3
<1>7. OffloadI(t)'
  <2>1. CASE pc'[<<t, 0>>] = pc[<<t, 0>>]
    <3>1. First(t)' = First(t) /\ Second(t)' = Second(t)
      BY DEF First, Second
    <3> QED BY <1>3, <2>1, <3>1 DEF ThreadI, OffloadI, Keeps, OnCpu, OnGpu, Partial, Thing, Until
  <2>2. CASE pc'[<<t, 0>>] # pc[<<t, 0>>]
    BY <2>2 DEF OffloadI, Keeps, Starting, NotYet
  <2> QED BY <2>1, <2>2
<1> QED BY <1>1, <1>2, <1>5, <1>6, <1>7 DEF ThreadI

LEMMA UntouchedThread ==
    ASSUME NEW t \in Threads, ThreadI(t), Untouched(t)
    PROVE  ThreadI(t)'
<1>1. <<t, 0>> \in Stages /\ <<t, 0>>[1] = t
  BY StageFacts
<1>2. pc'[<<t, 0>>] = pc[<<t, 0>>] /\ sess'[<<t, 0>>] = sess[<<t, 0>>]
  BY <1>1 DEF Untouched
<1> QED BY <1>2, QuietThread DEF Untouched

\* The end of a program.
LEMMA EndOthers ==
    ASSUME IInv, NEW s \in Stages, End(s), UNCHANGED user, NEW u \in Threads, u # s[1]
    PROVE  Untouched(u)
<1>1. \A x \in Stages : x # s => pc'[x] = pc[x] /\ sess'[x] = sess[x] /\ stream'[x].q = stream[x].q
  BY DropDoes DEF End, IInv, PcI, ModelI
<1>2. Keeps(u) /\ work'[u] = work[u]
  BY DEF End, Keeps, user
<1> QED BY <1>1, <1>2 DEF Untouched

LEMMA EndThread ==
    ASSUME IInv, CInv, NEW s \in Stages, End(s), UNCHANGED user, NEW t \in Threads
    PROVE  ThreadI(t)'
<1>0. ThreadI(t) /\ Keeps(t) /\ work'[t] = work[t] /\ s[1] \in Threads /\ s = <<s[1], s[2]>>
  BY StageFacts DEF CInv, End, Keeps, user
<1>1. CASE t # s[1]
  BY <1>0, <1>1, EndOthers, UntouchedThread
<1>2. CASE s = <<t, 0>>
  <2>1. pc'[<<t, 0>>] = "ended"
    BY <1>2 DEF End, IInv, PcI
  <2> QED BY <1>0, <2>1, DeadThread
<1>3. CASE t = s[1] /\ s # <<t, 0>>
  <2>1. <<t, 0>> \in Stages
    BY StageFacts
  <2>2. /\ \A x \in Stages : x # s => pc'[x] = pc[x] /\ sess'[x] = sess[x]
        /\ pc'[s] = "ended"
    BY DEF End, IInv, PcI, ModelI
  <2>3. \A x \in Stages : stream'[x].q \in {<<>>, stream[x].q}
    BY DropDoes DEF End, IInv
  <2>4. pc'[<<t, 0>>] = pc[<<t, 0>>] /\ sess'[<<t, 0>>] = sess[<<t, 0>>]
    BY <1>3, <2>1, <2>2
  <2>5. \A x \in Stages : pc'[x] \in Loaded => pc[x] \in Loaded /\ sess'[x] = sess[x]
    BY <2>2 DEF Loaded
  <2> QED BY <1>0, <2>3, <2>4, <2>5, QuietThread
<1> QED BY <1>0, <1>1, <1>2, <1>3

\* One stage moves, and its sessions and one stream's frames with it at most.
LEMMA OthersStay ==
    ASSUME IInv, NEW t \in Threads, NEW u \in Threads, u # t,
           \A x \in Stages : x[1] = u => pc'[x] = pc[x],
           \A x \in Stages : x[1] = u => sess'[x] = sess[x],
           \A x \in Stages : x[1] = u => stream'[x].q = stream[x].q,
           plan'[u] = plan[u], asked'[u] = asked[u], answered'[u] = answered[u], work'[u] = work[u]
    PROVE  Untouched(u)
BY DEF Untouched, Keeps

LEMMA ThreadOthers ==
    ASSUME IInv, NEW t \in Threads, ThreadStep(t), NEW u \in Threads, u # t
    PROVE  Untouched(u)
<1> DEFINE s == <<t, 0>>
<1>0. /\ s \in Stages /\ s[1] = t /\ s[2] = 0
      /\ DOMAIN pc = Stages /\ DOMAIN sess = Stages /\ DOMAIN stream = Stages /\ DOMAIN plan = Threads
      /\ DOMAIN answered = Threads /\ DOMAIN work = Threads
  BY StageFacts DEF IInv, PcI, ModelI, StreamI, PlanI, AskI
<1>a. \A x \in Stages : x[1] = u => x # s
  BY <1>0
<1>u. UNCHANGED user
  BY DEF ThreadStep, Plan, Dispatch, OpenForward, TakeTensor, ReturnLogits, CoordinatorEnds,
         Connect, Analyze, Preload, FirstHalf, SecondHalf, BringFirst, OffloadEnds
<1>1. CASE End(s)
  <2> HIDE DEF s
  <2> QED BY <1>0, <1>1, <1>u, EndOthers
<1> SUFFICES ASSUME ~End(s) PROVE Untouched(u)
  BY <1>1
<1>2. \A x \in Stages : x[1] = u => sess'[x] = sess[x]
  BY <1>0, <1>a DEF ThreadStep, Plan, Dispatch, OpenForward, TakeTensor, ReturnLogits, CoordinatorEnds,
         Connect, Analyze, Preload, FirstHalf, SecondHalf, BringFirst, OffloadEnds
<1>3. asked'[u] = asked[u]
  BY <1>u DEF user
<1>4. plan'[u] = plan[u]
  BY <1>0 DEF ThreadStep, Plan, Dispatch, OpenForward, TakeTensor, ReturnLogits, CoordinatorEnds,
         Connect, Analyze, Preload, FirstHalf, SecondHalf, BringFirst, OffloadEnds, Local
<1>5. answered'[u] = answered[u] /\ work'[u] = work[u]
  BY <1>0 DEF ThreadStep, Plan, Dispatch, OpenForward, TakeTensor, ReturnLogits, CoordinatorEnds,
         Connect, Analyze, Preload, FirstHalf, SecondHalf, BringFirst, OffloadEnds, Local
<1>6. \A x \in Stages : x[1] = u => pc'[x] = pc[x]
  <2>1. CASE Dispatch(t)
    <3> DEFINE w == <<t, Min({i \in DOMAIN plan[t] : pc[<<t, i>>] = "absent"})>>
    <3>1. w[1] = t
      OBVIOUS
    <3>2. pc' = [pc EXCEPT ![w] = "load"] \/ pc' = [pc EXCEPT ![w] = "load", ![s] = "ended"]
      BY <2>1 DEF Dispatch
    <3> HIDE DEF w
    <3> QED BY <1>0, <3>1, <3>2
  <2>2. CASE ~Dispatch(t)
    BY <1>0, <1>a, <2>2 DEF ThreadStep, Plan, OpenForward, TakeTensor, ReturnLogits, CoordinatorEnds,
         Connect, Analyze, Preload, FirstHalf, SecondHalf, BringFirst, OffloadEnds, Local
  <2> QED BY <2>1, <2>2
<1>7. \A x \in Stages : x[1] = u => stream'[x].q = stream[x].q
  <2>1. reads[s] # None => reads[s] \in Stages /\ reads[s][1] = t
    BY <1>0 DEF IInv, ReadI
  <2>2. CASE ReturnLogits(t)
    <3>1. stream' = [stream EXCEPT ![reads[s]].q = Tail(@)] /\ reads[s] # None
      BY <2>2 DEF ReturnLogits, Readable
    <3> QED BY <1>0, <2>1, <3>1
  <2>3. CASE CoordinatorEnds(t)
    <3>1. stream' = [x \in Stages |->
            [stream[x] EXCEPT !.open = @ /\ x # s, !.read = @ /\ reads[s] # x,
                              !.q = IF x = s /\ stream[s].read THEN Append(@, Eof) ELSE @]]
      BY <2>3 DEF CoordinatorEnds
    <3>2. \A x \in Stages : DOMAIN stream[x] = {"at", "q", "open", "read"}
      BY DEF IInv, StreamI
    <3> HIDE DEF s
    <3> QED BY <1>a, <3>1, <3>2
  <2>4. CASE TakeTensor(t) \/ OpenForward(t)
    BY <1>0, <1>a, <2>4 DEF TakeTensor, OpenForward, send_tensor, open_tensor_stream
  <2>5. CASE ~ReturnLogits(t) /\ ~CoordinatorEnds(t) /\ ~TakeTensor(t) /\ ~OpenForward(t)
    BY <2>5 DEF ThreadStep, Plan, Dispatch, Connect, Analyze, Preload, FirstHalf, SecondHalf, BringFirst,
         OffloadEnds, Local, net
  <2> QED BY <2>2, <2>3, <2>4, <2>5
<1> QED BY <1>2, <1>3, <1>4, <1>5, <1>6, <1>7, OthersStay

LEMMA StageOthers ==
    ASSUME IInv, NEW s \in Stages, StageStep(s), NEW u \in Threads, u # s[1]
    PROVE  Untouched(u)
<1>0. /\ s[1] \in Threads /\ DOMAIN pc = Stages /\ DOMAIN sess = Stages /\ DOMAIN stream = Stages
      /\ DOMAIN plan = Threads
  BY StageFacts DEF IInv, PcI, ModelI, StreamI, PlanI, AskI
<1>a. \A x \in Stages : x[1] = u => x # s
  OBVIOUS
<1>u. UNCHANGED user
  BY DEF StageStep, Register, Accepted, accept_fails, LoadHalves, OpenOut, Work, WorkerEnds
<1>1. CASE End(s)
  BY <1>1, <1>u, EndOthers
<1> SUFFICES ASSUME ~End(s) PROVE Untouched(u)
  BY <1>1
<1>2. \A x \in Stages : x[1] = u => sess'[x] = sess[x]
  BY <1>0, <1>a DEF StageStep, Register, Accepted, accept_fails, LoadHalves, OpenOut, Work, WorkerEnds
<1>3. asked'[u] = asked[u] /\ plan'[u] = plan[u] /\ answered'[u] = answered[u] /\ work'[u] = work[u]
  BY <1>u DEF user, StageStep, Register, Accepted, accept_fails, LoadHalves, OpenOut, Work, WorkerEnds
<1>4. \A x \in Stages : x[1] = u => pc'[x] = pc[x]
  BY <1>0, <1>a DEF StageStep, Register, Accepted, accept_fails, LoadHalves, OpenOut, Work, WorkerEnds
<1>5. \A x \in Stages : x[1] = u => stream'[x].q = stream[x].q
  <2>1. reads[s] # None => reads[s] \in Stages /\ reads[s][1] = s[1]
    BY DEF IInv, ReadI
  <2>2. CASE Register(s)
    <3>1. UNCHANGED stream \/ \E i : stream' = [stream EXCEPT ![i].at = "read"]
      BY <2>2 DEF Register, register_accept
    <3>2. \A x \in Stages : DOMAIN stream[x] = {"at", "q", "open", "read"}
      BY DEF IInv, StreamI
    <3> QED BY <1>0, <3>1, <3>2
  <2>3. CASE Work(s)
    <3>1. /\ reads[s] # None
          /\ \E f : stream' = [[stream EXCEPT ![reads[s]].q = Tail(@)] EXCEPT ![s].q = Append(@, f)]
      BY <2>3 DEF Work, Readable
    <3>2. \A x \in Stages : x[1] = u => x # s /\ x # reads[s]
      BY <2>1, <3>1
    <3> QED BY <1>0, <3>1, <3>2
  <2>4. CASE OpenOut(s)
    BY <1>0, <1>a, <2>4 DEF OpenOut, open_tensor_stream
  <2>5. CASE ~Register(s) /\ ~Work(s) /\ ~OpenOut(s)
    BY <2>5 DEF StageStep, Accepted, accept_fails, LoadHalves, WorkerEnds, net
  <2> QED BY <2>2, <2>3, <2>4, <2>5
<1> QED BY <1>0, <1>2, <1>3, <1>4, <1>5, OthersStay

\* A stream that arrives, and the session's steps.
LEMMA InsertAll ==
    ASSUME IInv, NEW s \in Stages, insert_inbound(s), NEW u \in Threads
    PROVE  Untouched(u)
<1>1. UNCHANGED <<pc, plan, sess, user, answered, work>>
  BY DEF insert_inbound
<1>2. \A x \in Stages : stream'[x].q = stream[x].q
  BY DEF insert_inbound, IInv, StreamI
<1> QED BY <1>1, <1>2 DEF Untouched, Keeps, user

LEMMA PlanThread ==
    ASSUME IInv, NEW t \in Threads, ThreadI(t), Plan(t), ~End(<<t, 0>>)
    PROVE  ThreadI(t)'
<1>1. /\ pc[<<t, 0>>] = "pipeline_coord" /\ UNCHANGED <<sess, net, user, answered, work>>
      /\ \E held \in Placements : \E o \in Orders(t, held) : plan'[t] = Assign(o)
      /\ \A x \in Stages : x[1] = t => pc'[x] \in {"dispatch", "absent"}
  BY PlanDoes
<1>2. pc'[<<t, 0>>] \in {"dispatch", "absent"}
  BY <1>1, StageFacts
<1>2a. PICK held \in Placements : \E o \in Orders(t, held) : plan'[t] = Assign(o)
  BY <1>1
<1>3. PICK o \in Orders(t, held) : plan'[t] = Assign(o)
  BY <1>2a
<1>4. RangeI(t)'
  <2> DEFINE p == plan'[t]
  <2>1. p = Assign(o)
    BY <1>3
  <2> HIDE DEF p
  <2>2. \A i \in 1..Len(p) : /\ p[i].file \in Ranges /\ p[i].first \in Nat
                             /\ p[i].last \in Int /\ p[i].last <= LastLayer
                             /\ p[i].first = (IF i = 1 THEN 0 ELSE p[i - 1].last + 1)
                             /\ i = Len(p) => p[i].last = LastLayer
    BY <2>1, RangesAssigned
  <2> QED BY <2>2 DEF RangeI, p
<1>5. ChainI(t)'
  BY <1>1 DEF ThreadI, ChainI, Starting, NotYet, user
<1>6. WorkerI(t)'
  BY <1>1 DEF WorkerI, Loaded
<1>7. ContentI(t)' /\ OffloadI(t)'
  BY <1>2 DEF ContentI, OffloadI
<1> QED BY <1>4, <1>5, <1>6, <1>7 DEF ThreadI

\* The coordinator starts its workers and opens its stream; both programs
\* connect to the session.
LEMMA StartThread ==
    ASSUME IInv, NEW t \in Threads, ThreadI(t), ~End(<<t, 0>>),
           Dispatch(t) \/ OpenForward(t) \/ Connect(t) \/ Analyze(t) \/ CoordinatorEnds(t)
    PROVE  ThreadI(t)'
<1> DEFINE s == <<t, 0>>
<1>0. /\ s \in Stages /\ s[1] = t /\ s[2] = 0 /\ DOMAIN pc = Stages /\ DOMAIN stream = Stages
  BY StageFacts DEF IInv, PcI, StreamI
<1>1. Keeps(t) /\ work'[t] = work[t] /\ UNCHANGED sess
  BY DEF Dispatch, OpenForward, Connect, Analyze, CoordinatorEnds, Local, Keeps, user
<1>2. CASE pc'[s] = "ended"
  BY <1>1, <1>2, DeadThread
<1> SUFFICES ASSUME pc'[s] # "ended" PROVE ThreadI(t)'
  BY <1>2
<1>3. ~CoordinatorEnds(t)
  BY <1>0 DEF CoordinatorEnds
<1>4. CASE Dispatch(t)
  <2> DEFINE todo == {i \in DOMAIN plan[t] : pc[<<t, i>>] = "absent"}
             w == <<t, Min(todo)>>
  <2>1. pc[s] = "dispatch" /\ UNCHANGED stream
    BY <1>4 DEF Dispatch, net
  <2>2. pc' = [pc EXCEPT ![w] = "load"] \/ pc' = [pc EXCEPT ![w] = "load", ![s] = "ended"]
    BY <1>4 DEF Dispatch
  <2> HIDE DEF w
  <2>3. pc' = [pc EXCEPT ![w] = "load"]
    <3>1. pc' # [pc EXCEPT ![w] = "load", ![s] = "ended"]
      BY <1>0
    <3> QED BY <2>2, <3>1
  <2>4. \A x \in Stages : pc'[x] = pc[x] \/ pc'[x] = "load"
    BY <1>0, <2>3
  <2>5. pc[s] \in Starting /\ pc'[s] \in Starting
    BY <1>0, <2>1, <2>4 DEF Starting, NotYet
  <2>6. \A x \in Stages : x[1] = t /\ x[2] > 0 /\ pc'[x] \in Loaded => pc[x] \in Loaded /\ sess'[x] = sess[x]
    BY <1>1, <2>4 DEF Loaded
  <2> QED BY <1>0, <1>1, <2>1, <2>5, <2>6, QuietThread
<1>5. CASE OpenForward(t) \/ Connect(t) \/ Analyze(t)
  <2>1. \A x \in Stages : x # s => pc'[x] = pc[x]
    BY <1>0, <1>5 DEF OpenForward, Connect, Analyze, Local
  <2>2. \A x \in Stages : x[1] = t /\ x[2] > 0 /\ pc'[x] \in Loaded => pc[x] \in Loaded /\ sess'[x] = sess[x]
    BY <1>0, <1>1, <2>1
  <2>3. \A x \in Stages : stream'[x].q \in {<<>>, stream[x].q}
    BY <1>0, <1>5 DEF OpenForward, Connect, Analyze, Local, net, open_tensor_stream
  <2>4. \/ pc[s] \in Starting /\ pc'[s] \in Starting
        \/ pc[s] \in Starting /\ pc'[s] = "loop" /\ plan[t] # <<>>
    BY <1>0, <1>5 DEF OpenForward, Connect, Analyze, Local, Starting, NotYet
  <2> QED BY <1>0, <1>1, <2>2, <2>3, <2>4, QuietThread
<1> QED BY <1>3, <1>4, <1>5

LEMMA StageThread ==
    ASSUME IInv, NEW s \in Stages, ThreadI(s[1]), ~End(s), Register(s) \/ Accepted(s) \/ OpenOut(s)
    PROVE  ThreadI(s[1])'
<1> DEFINE t == s[1]
           c == <<s[1], 0>>
<1>0. /\ t \in Threads /\ c \in Stages /\ c[2] = 0 /\ DOMAIN pc = Stages /\ DOMAIN stream = Stages
      /\ s[2] = 0 => s = c
  BY StageFacts DEF IInv, PcI, StreamI
<1>1. Keeps(t) /\ work'[t] = work[t] /\ UNCHANGED sess
  BY DEF Register, Accepted, OpenOut, Keeps, user
<1>2. \A x \in Stages : x # s => pc'[x] = pc[x]
  BY <1>0 DEF Register, Accepted, OpenOut
<1>3. \A x \in Stages : pc'[x] \in Loaded => pc[x] \in Loaded /\ sess'[x] = sess[x]
  <2>1. pc[s] \in Loaded
    BY DEF Register, Accepted, OpenOut, Loaded
  <2> QED BY <1>1, <1>2, <2>1
<1>4. \A x \in Stages : stream'[x].q \in {<<>>, stream[x].q}
  <2>1. CASE Register(s)
    <3>1. UNCHANGED stream \/ \E i : stream' = [stream EXCEPT ![i].at = "read"]
      BY <2>1 DEF Register, register_accept
    <3>2. \A x \in Stages : DOMAIN stream[x] = {"at", "q", "open", "read"}
      BY DEF IInv, StreamI
    <3> QED BY <1>0, <3>1, <3>2
  <2>2. CASE Accepted(s) \/ OpenOut(s)
    BY <1>0, <2>2 DEF Accepted, OpenOut, net, open_tensor_stream
  <2> QED BY <2>1, <2>2
<1>5. pc'[c] = pc[c] \/ (pc[c] \in Starting /\ pc'[c] \in Starting)
  <2>1. CASE c # s
    BY <1>0, <1>2, <2>1
  <2>2. CASE c = s
    <3>1. s[2] = 0 /\ pc[s] # "open"
      <4>1. s[2] = 0
        BY <1>0, <2>2
      <4> QED BY <4>1 DEF IInv, PcI, CoordPcs
    <3>2. pc[s] \in Starting /\ pc'[s] \in Starting
      BY <1>0, <3>1 DEF Register, Accepted, OpenOut, Starting, NotYet
    <3> QED BY <2>2, <3>2
  <2> QED BY <2>1, <2>2
<1>6. sess'[c] = sess[c]
  BY <1>1
<1> HIDE DEF t
<1>7. ThreadI(t)
  BY DEF t
<1>8. ThreadI(t)'
  <2>1. c = <<t, 0>>
    BY DEF t
  <2> HIDE DEF c
  <2> QED BY <1>0, <1>1, <1>3, <1>4, <1>5, <1>6, <1>7, <2>1, QuietThread
<1> QED BY <1>8 DEF t

(***************************************************************************)
(* The pipeline computes.                                                  *)
(***************************************************************************)
\* While a worker loads, its coordinator has not got its stream: nothing is
\* answered yet.
LEMMA LoadsFirst ==
    ASSUME IInv, LInv, NEW s \in Stages, ThreadI(s[1]), pc[s] = "load", pc[<<s[1], 0>>] # "ended"
    PROVE  pc[<<s[1], 0>>] \in Starting /\ answered[s[1]] = <<>>
<1> DEFINE t == s[1]
           n == Len(plan[t])
<1>0. /\ t \in Threads /\ <<t, 0>> \in Stages /\ s = <<t, s[2]>> /\ s[2] \in 0..MaxStages
      /\ <<t, 0>>[1] = t /\ <<t, 0>>[2] = 0
  BY StageFacts
<1>1. s[2] <= n /\ n \in 0..MaxStages
  BY <1>0, InPlan DEF IInv, PlanI
<1>2. s[2] # 0
  BY <1>0 DEF IInv, PcI, CoordPcs
<1>3. s[2] \in 1..n /\ plan[t] # <<>>
  BY <1>0, <1>1, <1>2, Lists
<1>4. pc[<<t, 0>>] \notin Unplanned
  BY <1>0, <1>3 DEF IInv, PlanI
<1>5. pc[<<t, 0>>] \notin {"connect", "loop", "wait"}
  <2> SUFFICES ASSUME pc[<<t, 0>>] \in {"connect", "loop", "wait"} PROVE FALSE
    OBVIOUS
  <2> DEFINE c == <<t, 0>>
             u == <<t, n>>
  <2>1. c \in Stages /\ c[1] = t /\ c[2] = 0 /\ pc[c] \in {"open", "connect", "loop", "wait"}
    BY <1>0
  <2> HIDE DEF c
  <2>2. reads[c] # None
    BY <1>3, <2>1 DEF LInv, SetUpI
  <2>3. reads[c] = Upstream(c) /\ stream[reads[c]].at # "none"
    BY <2>1, <2>2 DEF LInv, MeetI
  <2>4. reads[c] = u
    BY <2>1, <2>3 DEF Upstream
  <2>5. u \in Stages /\ u[1] = t /\ u[2] = n
    BY <1>0, <1>1, StageFacts
  <2> HIDE DEF u, n
  <2>6. \A j \in 1..n : pc[<<t, j>>] \in {"loop", "ended"}
    BY <2>3, <2>4, <2>5 DEF LInv, SetUpI
  <2>7. pc[<<t, s[2]>>] \in {"loop", "ended"}
    BY <1>3, <2>6
  <2> QED BY <1>0, <2>7
<1>6. pc[<<t, 0>>] \in CoordPcs
  BY <1>0 DEF IInv, PcI
<1>7. pc[<<t, 0>>] \in Starting
  BY <1>4, <1>5, <1>6 DEF CoordPcs, Unplanned, Starting, NotYet
<1> QED BY <1>7 DEF ThreadI, ChainI

LEMMA Middle ==
    ASSUME NEW f \in Nat, NEW l \in Int, l <= LastLayer, f <= LastLayer + 1
    PROVE  f + (l - f + 1) \div 2 - 1 \in Int /\ f + (l - f + 1) \div 2 - 1 <= LastLayer
<1> DEFINE d == l - f + 1
           h == d \div 2
<1>1. d \in Int /\ h \in Int /\ (h <= 0 \/ h <= d)
  OBVIOUS
<1>2. f + h - 1 <= LastLayer
  <2> HIDE DEF h
  <2> QED BY <1>1, Layers
<1> QED BY <1>1, <1>2

LEMMA LoadHalvesThread ==
    ASSUME IInv, LInv, NEW s \in Stages, ThreadI(s[1]), LoadHalves(s), ~End(s)
    PROVE  ThreadI(s[1])'
<1> DEFINE t == s[1]
           e == plan[t][s[2]]
           mid == Mid(e)
           file == FileOf(e.file)
<1>0. /\ t \in Threads /\ <<t, 0>> \in Stages /\ s = <<t, s[2]>> /\ s[2] \in 0..MaxStages
      /\ DOMAIN pc = Stages /\ DOMAIN sess = Stages
  BY StageFacts DEF IInv, PcI, ModelI
<1>1. /\ pc[s] = "load" /\ UNCHANGED <<plan, net, user, answered, work>>
      /\ pc' = [pc EXCEPT ![s] = "register"]
      /\ load_model(new, file, e.first, mid).ok /\ load_model(new, file, mid + 1, e.last).ok
      /\ sess' = [sess EXCEPT ![s] = <<load_model(new, file, e.first, mid).sess,
                                       load_model(new, file, mid + 1, e.last).sess>>]
  BY DEF LoadHalves, Mid
<1>2. s # <<t, 0>>
  BY <1>0, <1>1 DEF IInv, PcI, CoordPcs
<1>3. s[2] \in 1..Len(plan[t])
  BY <1>0, <1>1, <1>2, InPlan DEF IInv, PlanI
<1>4. Keeps(t) /\ work'[t] = work[t] /\ UNCHANGED stream
  BY <1>1 DEF Keeps, user, net
<1>5. /\ pc'[s] = "register" /\ \A x \in Stages : x # s => pc'[x] = pc[x] /\ sess'[x] = sess[x]
      /\ pc'[<<t, 0>>] = pc[<<t, 0>>] /\ sess'[<<t, 0>>] = sess[<<t, 0>>]
  BY <1>0, <1>1, <1>2
<1>6. CASE pc[<<t, 0>>] = "ended"
  <2>1. pc'[<<t, 0>>] = "ended"
    BY <1>5, <1>6
  <2> HIDE DEF t
  <2>2. ThreadI(t)'
    BY <1>0, <1>4, <2>1, DeadThread DEF t
  <2> QED BY <2>2 DEF t
<1>7. CASE pc[<<t, 0>>] # "ended"
  <2>1. pc[<<t, 0>>] \in Starting /\ answered[t] = <<>> /\ pc[<<t, 0>>] # "wait"
    BY <1>1, <1>7, LoadsFirst DEF Starting, NotYet
  <2>2. e.file \in Ranges /\ e.first \in Nat /\ e.last \in Int /\ e.last <= LastLayer
    BY <1>3 DEF ThreadI, RangeI
  <2>3. Sound(file)
    BY <2>2, FilesSound
  <2>4. e.first <= LastLayer + 1
    <3>1. e.first = (IF s[2] = 1 THEN 0 ELSE plan[t][s[2] - 1].last + 1)
      BY <1>3 DEF ThreadI, RangeI
    <3>2. s[2] # 1 => s[2] - 1 \in 1..Len(plan[t])
      BY <1>3 DEF IInv, PlanI
    <3>3. s[2] # 1 => plan[t][s[2] - 1].last \in Int /\ plan[t][s[2] - 1].last <= LastLayer
      <4> DEFINE j == s[2] - 1
      <4> HIDE DEF j
      <4>1. s[2] # 1 => j \in 1..Len(plan[t])
        BY <3>2 DEF j
      <4>2. s[2] # 1 => plan[t][j].last \in Int /\ plan[t][j].last <= LastLayer
        BY <4>1 DEF ThreadI, RangeI
      <4> QED BY <4>2 DEF j
    <3> QED BY <3>1, <3>3, Layers
  <2>5. mid \in Int /\ mid <= LastLayer
    BY <2>2, <2>4, Middle DEF Mid
  <2> DEFINE f == e.first
             l == e.last
  <2>6. f \in Nat /\ l \in Int /\ l <= LastLayer
    BY <2>2
  <2>7. new = [model |-> None, offloaded_kv |-> None, layers |-> None]
    BY DEF new
  <2> HIDE DEF e, file, mid, f, l
  <2>8. load_model(new, file, f, mid).ok /\ load_model(new, file, mid + 1, l).ok
    BY <1>1 DEF f, l
  <2>9. f <= mid /\ load_model(new, file, f, mid).sess = Holding(f, mid, <<>>, None)
    BY <2>3, <2>5, <2>6, <2>7, <2>8, SessionLoads
  <2>10. mid + 1 \in Nat
    BY <2>5, <2>6, <2>9
  <2>11. mid + 1 <= l /\ load_model(new, file, mid + 1, l).sess = Holding(mid + 1, l, <<>>, None)
    BY <2>3, <2>6, <2>7, <2>8, <2>10, SessionLoads
  <2>12. sess'[s] = <<OnGpu(f, mid, <<>>), OnGpu(mid + 1, l, <<>>)>>
    BY <1>0, <1>1, <2>9, <2>11 DEF OnGpu, Holding, f, l
  <2>13. Done(t)' = <<>> /\ Done(t) = <<>>
    BY <1>4, <2>1 DEF Done, Keeps
  <2>14. mid < l
    BY <2>5, <2>6, <2>11
  <2>15. RangeI(t)' /\ ChainI(t)'
    BY <1>4, <1>5 DEF ThreadI, RangeI, ChainI, Keeps
  <2>16. pc'[<<t, 0>>] # "wait" /\ pc'[<<t, 0>>] \notin {"loop", "second", "restore"}
    BY <1>5, <2>1 DEF Starting, NotYet
  <2>17. ContentI(t)' /\ OffloadI(t)'
    BY <2>16 DEF ContentI, OffloadI
  <2>18. WorkerI(t)'
    <3> SUFFICES ASSUME NEW x \in Stages, x[1] = t, x[2] > 0, pc'[x] \in Loaded
                 PROVE  /\ plan[t][x[2]].first <= Mid(plan[t][x[2]])
                        /\ Mid(plan[t][x[2]]) < plan[t][x[2]].last
                        /\ Halves(x, Done(t))'
      BY <2>16, <1>4 DEF WorkerI, Keeps
    <3>1. CASE x # s
      <4>1. /\ plan[t][x[2]].first <= Mid(plan[t][x[2]])
            /\ Mid(plan[t][x[2]]) < plan[t][x[2]].last
            /\ Halves(x, Done(t))
        BY <1>5, <1>7, <2>1, <3>1 DEF ThreadI, WorkerI
      <4>2. Halves(x, Done(t))'
        BY <1>4, <1>5, <2>13, <3>1, <4>1 DEF Halves, Keeps
      <4> QED BY <4>1, <4>2
    <3>2. CASE x = s
      <4>1. Halves(s, Done(t))'
        BY <1>4, <2>12, <2>13 DEF Halves, Keeps, e, f, l, mid
      <4> QED BY <2>9, <2>14, <3>2, <4>1 DEF e, f, l, mid
    <3> QED BY <3>1, <3>2
  <2> QED BY <2>15, <2>17, <2>18 DEF ThreadI
<1> QED BY <1>6, <1>7

LEMMA Ids == \A c : TokenIds(c) = Partial(c, -1)
<1> SUFFICES ASSUME NEW c PROVE TokenIds(c) = Partial(c, -1)
  OBVIOUS
<1>1. Upto(-1) = 0 /\ LastLayer # -1
  BY Layers DEF Upto
<1>2. [k \in 1..0 |-> Thing(c, k)] = <<>>
  OBVIOUS
<1> QED BY <1>1, <1>2 DEF TokenIds, Partial

LEMMA TakeTensorThread ==
    ASSUME IInv, NEW t \in Threads, ThreadI(t), TakeTensor(t), ~End(<<t, 0>>)
    PROVE  ThreadI(t)'
<1> DEFINE s == <<t, 0>>
           c == NextAsked(t)
<1>0. /\ s \in Stages /\ s[1] = t /\ s[2] = 0 /\ DOMAIN pc = Stages
  BY StageFacts DEF IInv, PcI
<1>1. /\ plan[t] # <<>> /\ pc[s] = "loop" /\ send_tensor(s, TokenIds(c))
      /\ pc' = [pc EXCEPT ![s] = "wait"]
      /\ UNCHANGED <<plan, sess, reads, pending_inbound, pending_accept, answered, work, user>>
  BY DEF TakeTensor, Coordinator
<1>2. Keeps(t) /\ Done(t)' = Done(t) /\ NextAsked(t)' = c
  BY <1>1 DEF Keeps, Done, NextAsked, user
<1>3. pc'[s] = "wait" /\ \A x \in Stages : x # s => pc'[x] = pc[x]
  BY <1>0, <1>1
<1>4. \A x \in Stages : x[1] = t => stream[x].q = <<>>
  BY <1>1, AllEmpty DEF IInv
<1>5. /\ stream'[s].q = <<TokenIds(c)>>
      /\ \A x \in Stages : x # s => stream'[x].q = stream[x].q
  <2>1. StreamI /\ stream[s].q = <<>> /\ send_tensor(s, TokenIds(c))
    BY <1>0, <1>1, <1>4 DEF IInv
  <2> HIDE DEF s, c
  <2> QED BY <1>0, <2>1, SendDoes
<1>6. \A x \in Stages : x[1] = t /\ stream'[x].q # <<>> => x = s
  BY <1>4, <1>5
<1>7. RangeI(t)' /\ ChainI(t)'
  BY <1>1, <1>2, <1>3 DEF ThreadI, RangeI, ChainI, Keeps, Starting, NotYet
<1>8. OffloadI(t)'
  BY <1>1, <1>2 DEF OffloadI, Keeps
<1>9. ContentI(t)'
  <2>1. stream'[s].q[1] = Partial(c, -1) /\ EndOf(s)' = -1
    BY <1>0, <1>5, Ids, Lists DEF EndOf
  <2> HIDE DEF s, c
  <2>2. ASSUME NEW x \in Stages, x[1] = t, stream'[x].q # <<>>
        PROVE  stream'[x].q[1] = Partial(NextAsked(t), EndOf(x))'
    <3>1. x = s
      BY <1>6, <2>2
    <3>2. Partial(NextAsked(t), EndOf(s))' = Partial(c, -1)
      BY <1>2, <2>1 DEF Partial, Thing, Until
    <3> QED BY <2>1, <3>1, <3>2
  <2> QED BY <2>2 DEF ContentI
<1>10. WorkerI(t)'
  <2> SUFFICES ASSUME NEW x \in Stages, x[1] = t, x[2] > 0, pc'[x] \in Loaded
               PROVE  /\ plan[t][x[2]].first <= Mid(plan[t][x[2]])
                      /\ Mid(plan[t][x[2]]) < plan[t][x[2]].last
                      /\ \A u \in Stages : u[1] = t /\ stream'[u].q # <<>> =>
                            Halves(x, IF u[2] < x[2] THEN Done(t) ELSE Until(NextAsked(t)))'
    BY <1>1, <1>3 DEF WorkerI
  <2>1. /\ plan[t][x[2]].first <= Mid(plan[t][x[2]])
        /\ Mid(plan[t][x[2]]) < plan[t][x[2]].last
        /\ Halves(x, Done(t))
    <3>1. pc[x] \in Loaded
      BY <1>0, <1>3
    <3> QED BY <1>1, <3>1 DEF ThreadI, WorkerI
  <2>2. Halves(x, Done(t))'
    BY <1>1, <1>2, <2>1 DEF Halves
  <2>3. ASSUME NEW u \in Stages, u[1] = t, stream'[u].q # <<>>
        PROVE  Halves(x, IF u[2] < x[2] THEN Done(t) ELSE Until(NextAsked(t)))'
    <3>1. u[2] < x[2]
      BY <1>0, <1>6, <2>3
    <3> QED BY <2>2, <3>1
  <2> QED BY <2>1, <2>3
<1> QED BY <1>7, <1>8, <1>9, <1>10 DEF ThreadI

\* The coordinator gets what the last layer has made of the tensor.
LEMMA LogitsReturn ==
    ASSUME IInv, LInv, NEW t \in Threads, ThreadI(t), pc[<<t, 0>>] = "wait", Readable(<<t, 0>>)
    PROVE  /\ plan[t] # <<>> /\ reads[<<t, 0>>] = <<t, Len(plan[t])>> /\ reads[<<t, 0>>] \in Stages
           /\ stream[reads[<<t, 0>>]].q # <<>>
           /\ Incoming(<<t, 0>>) = Partial(NextAsked(t), LastLayer)
<1> DEFINE s == <<t, 0>>
           n == Len(plan[t])
           u == <<t, n>>
<1>0. s \in Stages /\ s[1] = t /\ s[2] = 0 /\ n \in 0..MaxStages /\ pc[s] = "wait" /\ Readable(s)
  BY StageFacts DEF IInv, PlanI
<1>1. plan[t] # <<>>
  BY DEF LInv, SetUpI
<1>2. n # 0
  BY <1>1 DEF IInv, PlanI
<1>3. u \in Stages /\ u[1] = t /\ u[2] = n
  BY <1>0, StageFacts
<1> HIDE DEF s
<1>4. reads[s] = u
  BY <1>0 DEF LInv, MeetI, Readable, Upstream
<1>5. stream[u].q # <<>> /\ Incoming(s) = stream[u].q[1]
  BY <1>0, <1>4, ReadsOwn DEF Readable
<1> HIDE DEF u
<1>6. stream[u].q[1] = Partial(NextAsked(t), EndOf(u))
  BY <1>0, <1>3, <1>5 DEF ThreadI, ContentI, s
<1>7. EndOf(u) = plan[t][n].last
  BY <1>2, <1>3 DEF EndOf
<1>8. plan[t][n].last = LastLayer
  BY <1>0, <1>2 DEF ThreadI, RangeI
<1> QED BY <1>1, <1>3, <1>4, <1>5, <1>6, <1>7, <1>8 DEF s, u

LEMMA ReturnLogitsThread ==
    ASSUME IInv, LInv, NEW t \in Threads, ThreadI(t), ReturnLogits(t), ~End(<<t, 0>>)
    PROVE  ThreadI(t)'
<1> DEFINE s == <<t, 0>>
           c == NextAsked(t)
           u == <<t, Len(plan[t])>>
<1>0. /\ s \in Stages /\ s[1] = t /\ s[2] = 0 /\ DOMAIN pc = Stages /\ DOMAIN answered = Threads
      /\ IsList(answered[t])
  BY StageFacts DEF IInv, PcI, AskI
<1>1. /\ pc[s] = "wait" /\ Readable(s) /\ pc' = [pc EXCEPT ![s] = "loop"]
      /\ answered' = [answered EXCEPT ![t] = Append(@, Incoming(s))]
      /\ UNCHANGED <<plan, sess, reads, pending_inbound, pending_accept, work, user>>
  BY DEF ReturnLogits
<1>2. plan[t] # <<>> /\ reads[s] = u /\ u \in Stages /\ stream[u].q # <<>>
  BY <1>1, LogitsReturn
<1>3. pc'[s] = "loop" /\ \A x \in Stages : x # s => pc'[x] = pc[x]
  BY <1>0, <1>1
<1>4. Done(t)' = Until(c)
  <2> DEFINE y == Incoming(s)
  <2> HIDE DEF y
  <2>1. answered'[t] = Append(answered[t], y) /\ asked' = asked
    BY <1>0, <1>1 DEF user, y
  <2>2. Len(answered[t]) \in Nat /\ Len(answered'[t]) = Len(answered[t]) + 1
    BY <1>0, <2>1, ListAppend
  <2>3. answered'[t] # <<>>
    BY <2>2, Lists
  <2> QED BY <2>1, <2>2, <2>3 DEF Done, NextAsked, Until
<1>5. RangeI(t)' /\ ChainI(t)'
  BY <1>1, <1>3 DEF ThreadI, RangeI, ChainI, Starting, NotYet, user
<1>6. OffloadI(t)' /\ ContentI(t)'
  BY <1>1, <1>2, <1>3 DEF OffloadI, ContentI
<1>7. WorkerI(t)'
  <2> SUFFICES ASSUME NEW x \in Stages, x[1] = t, x[2] > 0, pc'[x] \in Loaded
               PROVE  /\ plan[t][x[2]].first <= Mid(plan[t][x[2]])
                      /\ Mid(plan[t][x[2]]) < plan[t][x[2]].last
                      /\ Halves(x, Done(t))'
    BY <1>1, <1>3 DEF WorkerI
  <2>1. pc[x] \in Loaded /\ pc[x] # "absent"
    BY <1>0, <1>3 DEF Loaded
  <2>2. x[2] <= Len(plan[t]) /\ u[1] = t /\ ~(u[2] < x[2])
    <3>1. x[2] <= Len(plan[t])
      BY <2>1, InPlan
    <3>2. x[2] \in Nat /\ Len(plan[t]) \in Nat
      BY StageFacts DEF IInv, PlanI
    <3> QED BY <3>1, <3>2
  <2> HIDE DEF u
  <2>3. /\ plan[t][x[2]].first <= Mid(plan[t][x[2]])
        /\ Mid(plan[t][x[2]]) < plan[t][x[2]].last
        /\ Halves(x, IF u[2] < x[2] THEN Done(t) ELSE Until(NextAsked(t)))
    BY <1>1, <1>2, <2>1, <2>2 DEF ThreadI, WorkerI
  <2>4. Halves(x, Until(c))
    BY <2>2, <2>3
  <2>5. Halves(x, Done(t))'
    BY <1>1, <1>4, <2>4 DEF Halves
  <2> QED BY <2>3, <2>5
<1> QED BY <1>5, <1>6, <1>7 DEF ThreadI

LEMMA PartialChunk == \A c, l : Partial(c, l).chunk = c
BY DEF Partial

\* A worker gets what the layers before its own have made of the tensor.
LEMMA WorkGets ==
    ASSUME IInv, LInv, NEW s \in Stages, ThreadI(s[1]), s[2] > 0, pc[s] = "loop", Readable(s),
           pc[<<s[1], 0>>] = "wait"
    PROVE  /\ s[2] \in 1..Len(plan[s[1]])
           /\ reads[s] \in Stages /\ reads[s][1] = s[1] /\ reads[s][2] = s[2] - 1
           /\ reads[s][2] < s[2] /\ stream[reads[s]].q # <<>>
           /\ Incoming(s).chunk = NextAsked(s[1])
           /\ Incoming(s) = Partial(NextAsked(s[1]), plan[s[1]][s[2]].first - 1)
<1> DEFINE t == s[1]
           u == <<t, s[2] - 1>>
<1>0. s[1] \in Threads /\ s[2] \in 0..MaxStages /\ s = <<s[1], s[2]>>
  BY StageFacts
<1>1. s[2] \in 1..Len(plan[t]) /\ Len(plan[t]) \in Nat
  BY <1>0, InPlan DEF IInv, PlanI
<1>2. reads[s] = u
  BY DEF LInv, MeetI, Readable, Upstream
<1>3. u \in Stages /\ u[1] = t /\ u[2] = s[2] - 1 /\ stream[u].q # <<>> /\ Incoming(s) = stream[u].q[1]
  BY <1>2, ReadsOwn DEF Readable
<1> HIDE DEF u
<1>4. stream[u].q[1] = Partial(NextAsked(t), EndOf(u))
  BY <1>3 DEF ThreadI, ContentI
<1>5. EndOf(u) = plan[t][s[2]].first - 1
  <2>1. plan[t][s[2]].first = (IF s[2] = 1 THEN 0 ELSE plan[t][s[2] - 1].last + 1)
    BY <1>1 DEF ThreadI, RangeI
  <2>2. CASE s[2] = 1
    BY <1>3, <2>1, <2>2 DEF EndOf
  <2>3. CASE s[2] # 1
    <3> DEFINE j == s[2] - 1
               l == plan[t][j].last
    <3>1. j \in 1..Len(plan[t]) /\ j # 0
      BY <1>1, <2>3
    <3>2. EndOf(u) = l /\ plan[t][s[2]].first = l + 1
      BY <1>3, <2>1, <2>3, <3>1 DEF EndOf
    <3> HIDE DEF j
    <3>3. l \in Int
      BY <3>1 DEF ThreadI, RangeI
    <3> HIDE DEF l
    <3> QED BY <3>2, <3>3
  <2> QED BY <2>2, <2>3
<1>6. u[2] < s[2]
  BY <1>1, <1>3
<1> QED BY <1>1, <1>2, <1>3, <1>4, <1>5, <1>6, PartialChunk

\* Both sessions are reset for a prompt, and left as they are for a token.
LEMMA FreshPair ==
    ASSUME NEW s, NEW p, NEW q, sess[s] = <<p, q>>, NEW x, NEW c, x.chunk = c, NEW two, two = Fresh(s, x)
    PROVE  /\ two[1] = IF c[2] = 0 THEN reset_kv_cache(p) ELSE p
           /\ two[2] = IF c[2] = 0 THEN reset_kv_cache(q) ELSE q
<1>1. CASE c[2] = 0
  <2>1. two = <<reset_kv_cache(p), reset_kv_cache(q)>>
    BY <1>1 DEF Fresh
  <2> QED BY <1>1, <2>1
<1>2. CASE c[2] # 0
  <2>1. two = <<p, q>>
    BY <1>2 DEF Fresh
  <2> QED BY <1>2, <2>1
<1> QED BY <1>1, <1>2

\* It passes on what its own layers make of that, and has it in its caches.
LEMMA WorkMakes ==
    ASSUME IInv, LInv, NEW s \in Stages, ThreadI(s[1]), s[2] > 0, pc[s] = "loop", Readable(s),
           pc[<<s[1], 0>>] = "wait",
           NEW x, x = Incoming(s), NEW two, two = Fresh(s, x), NEW a, a = forward(two[1], x),
           NEW b, b = IF a.ok THEN forward(two[2], a.out) ELSE a, b.ok,
           NEW c, c = NextAsked(s[1]), NEW e, e = plan[s[1]][s[2]]
    PROVE  /\ b.out = Partial(c, e.last)
           /\ a.sess = OnGpu(e.first, Mid(e), Until(c))
           /\ b.sess = OnGpu(Mid(e) + 1, e.last, Until(c))
<1> DEFINE t == s[1]
           f == e.first
           m == Mid(e)
           l == e.last
<1>0. t \in Threads /\ Waiting(t) /\ ChainI(t)
  BY StageFacts DEF ThreadI, IInv, OrderI
<1>1. /\ s[2] \in 1..Len(plan[t]) /\ reads[s] \in Stages /\ reads[s][1] = t /\ reads[s][2] < s[2]
      /\ stream[reads[s]].q # <<>> /\ x = Partial(c, f - 1) /\ x.chunk = c
  BY WorkGets
<1>2. f \in Nat /\ l \in Int /\ l <= LastLayer
  BY <1>1 DEF ThreadI, RangeI
<1>3. f <= m /\ m < l /\ m \in Int
  <2>1. f <= m /\ m < l
    BY DEF ThreadI, WorkerI, Loaded
  <2>2. m \in Int
    BY <1>2 DEF Mid
  <2> QED BY <2>1, <2>2
<1>4. /\ m \in Nat /\ m + 1 \in Nat /\ l \in Nat /\ m <= LastLayer /\ m + 1 <= l
      /\ (m + 1) - 1 = m
  <2> HIDE DEF f, m, l
  <2> QED BY <1>2, <1>3, Layers
<1>5. sess[s] = <<OnGpu(f, m, Done(t)), OnGpu(m + 1, l, Done(t))>>
  <2>2. Halves(s, Done(t))
    BY <1>1 DEF ThreadI, WorkerI, Loaded
  <2> QED BY <2>2 DEF Halves
<1>6. x.chunk = c
  BY <1>1
<1> DEFINE s1 == OnGpu(f, m, Done(t))
           s2 == OnGpu(m + 1, l, Done(t))
           f1 == two[1]
           f2 == two[2]
<1>7. /\ f1 = IF c[2] = 0 THEN reset_kv_cache(s1) ELSE s1
      /\ f2 = IF c[2] = 0 THEN reset_kv_cache(s2) ELSE s2
  BY <1>5, <1>6, FreshPair
<1>8. a.ok /\ b = forward(f2, a.out)
  OBVIOUS
<1>9. s1 = OnGpu(f, m, Done(t)) /\ s2 = OnGpu(m + 1, l, Done(t)) /\ a = forward(f1, x)
  OBVIOUS
<1> HIDE DEF s1, s2, f1, f2, f, m, l, t
<1>10. c = NextAsked(t)
  BY DEF t
<1>11. a.out = Partial(c, m) /\ a.sess = OnGpu(f, m, Until(c))
  BY <1>0, <1>1, <1>2, <1>3, <1>4, <1>7, <1>8, <1>9, <1>10, FreshRuns
<1> DEFINE y == a.out
           g == m + 1
<1>12. y = Partial(c, g - 1) /\ g \in Nat /\ g <= l /\ b = forward(f2, y) /\ s2 = OnGpu(g, l, Done(t))
  BY <1>4, <1>8, <1>9, <1>11
<1> HIDE DEF y, g
<1>13. b.out = Partial(c, l) /\ b.sess = OnGpu(g, l, Until(c))
  BY <1>0, <1>2, <1>4, <1>7, <1>10, <1>12, FreshRuns
<1> QED BY <1>11, <1>13 DEF f, m, l, g

LEMMA WorkThread ==
    ASSUME IInv, LInv, NEW s \in Stages, ThreadI(s[1]), Work(s), ~End(s)
    PROVE  ThreadI(s[1])'
<1> DEFINE t == s[1]
           c == NextAsked(t)
           e == plan[t][s[2]]
           u == reads[s]
<1>0. /\ t \in Threads /\ <<t, 0>> \in Stages /\ s = <<t, s[2]>> /\ s[2] \in 0..MaxStages
      /\ DOMAIN sess = Stages /\ DOMAIN stream = Stages /\ s[2] > 0 /\ pc[s] = "loop" /\ Readable(s)
  BY StageFacts DEF IInv, ModelI, StreamI, Work
<1>1. UNCHANGED <<pc, plan, reads, pending_inbound, pending_accept, answered, work, user>>
  BY DEF Work
<1>2. Keeps(t) /\ Done(t)' = Done(t) /\ NextAsked(t)' = c
  BY <1>1 DEF Keeps, Done, NextAsked, user
<1>3. pc[<<t, 0>>] \in {"wait", "ended"}
  BY <1>0, ReadsOwn
<1>4. CASE pc[<<t, 0>>] = "ended"
  <2>1. pc'[<<t, 0>>] = "ended"
    BY <1>1, <1>4
  <2> HIDE DEF t
  <2>2. ThreadI(t)'
    BY <1>0, <1>2, <2>1, DeadThread DEF t
  <2> QED BY <2>2 DEF t
<1>5. CASE pc[<<t, 0>>] = "wait"
  <2>1. \E a, b : /\ a = forward(Fresh(s, Incoming(s))[1], Incoming(s))
                  /\ b = IF a.ok THEN forward(Fresh(s, Incoming(s))[2], a.out) ELSE a
                  /\ b.ok /\ sess' = [sess EXCEPT ![s] = <<a.sess, b.sess>>]
                  /\ stream' = [[stream EXCEPT ![u].q = Tail(@)] EXCEPT ![s].q = Append(@, b.out)]
    BY SMTT(30) DEF Work
  <2>2. PICK a, b : /\ a = forward(Fresh(s, Incoming(s))[1], Incoming(s))
                    /\ b = IF a.ok THEN forward(Fresh(s, Incoming(s))[2], a.out) ELSE a
                    /\ b.ok /\ sess' = [sess EXCEPT ![s] = <<a.sess, b.sess>>]
                    /\ stream' = [[stream EXCEPT ![u].q = Tail(@)] EXCEPT ![s].q = Append(@, b.out)]
    BY <2>1
  <2>3. /\ b.out = Partial(c, e.last)
        /\ a.sess = OnGpu(e.first, Mid(e), Until(c))
        /\ b.sess = OnGpu(Mid(e) + 1, e.last, Until(c))
    BY <1>0, <1>5, <2>2, WorkMakes
  <2>4. /\ u \in Stages /\ u[1] = t /\ u[2] = s[2] - 1 /\ stream[u].q # <<>> /\ u # s
    <3>1. u \in Stages /\ u[1] = t /\ u[2] = s[2] - 1 /\ stream[u].q # <<>>
      BY <1>0, <1>5, WorkGets
    <3> QED BY <1>0, <3>1
  <2>5. stream[u].q = <<Incoming(s)>> /\ \A x \in Stages : x[1] = t /\ x # u => stream[x].q = <<>>
    BY <1>0, ReadsOwn
  <2>6. /\ stream'[s].q = <<b.out>>
        /\ \A x \in Stages : x[1] = t /\ stream'[x].q # <<>> => x = s
    <3> DEFINE o == b.out
    <3>0. \A x \in Stages : DOMAIN stream[x] = {"at", "q", "open", "read"}
      BY DEF IInv, StreamI
    <3>1. stream' = [[stream EXCEPT ![u].q = Tail(@)] EXCEPT ![s].q = Append(@, o)]
      BY <2>2
    <3> HIDE DEF u, o
    <3>2. /\ stream'[u].q = Tail(stream[u].q) /\ stream'[s].q = Append(stream[s].q, o)
          /\ \A x \in Stages : x # u /\ x # s => stream'[x] = stream[x]
      BY <1>0, <2>4, <3>0, <3>1
    <3>3. stream'[u].q = <<>> /\ stream'[s].q = <<o>>
      <4>1. stream[s].q = <<>>
        BY <2>4, <2>5
      <4>2. Tail(stream[u].q) = <<>>
        BY <2>5, Lists
      <4>3. Append(stream[s].q, o) = <<o>>
        BY <4>1, Lists
      <4> QED BY <3>2, <4>2, <4>3
    <3> QED BY <2>5, <3>2, <3>3 DEF o
  <2> HIDE DEF c, u
  <2>7. sess'[s] = <<OnGpu(e.first, Mid(e), Until(c)), OnGpu(Mid(e) + 1, e.last, Until(c))>>
    BY <1>0, <2>2, <2>3
  <2>8. \A x \in Stages : x # s => sess'[x] = sess[x]
    BY <1>0, <2>2
  <2>9. RangeI(t)' /\ ChainI(t)'
    BY <1>1, <1>2 DEF ThreadI, RangeI, ChainI, Keeps
  <2>10. OffloadI(t)'
    BY <1>1, <1>5 DEF OffloadI, LInv, SetUpI
  <2>11. ContentI(t)'
    <3>1. EndOf(s)' = e.last
      BY <1>0, <1>1 DEF EndOf
    <3> HIDE DEF e, t
    <3>2. stream'[s].q[1] = Partial(c, e.last)
      BY <2>3, <2>6, Lists
    <3>3. Partial(NextAsked(t), EndOf(s))' = Partial(c, e.last)
      BY <1>2, <3>1 DEF Partial, Thing, Until
    <3>4. \A x \in Stages : x[1] = t /\ stream'[x].q # <<>> => stream'[x].q[1] = Partial(NextAsked(t), EndOf(x))'
      <4> SUFFICES ASSUME NEW x \in Stages, x[1] = t, stream'[x].q # <<>>
                   PROVE  stream'[x].q[1] = Partial(NextAsked(t), EndOf(x))'
        OBVIOUS
      <4>1. x = s
        BY <2>6
      <4> QED BY <3>2, <3>3, <4>1
    <3> QED BY <3>4 DEF ContentI
  <2>12. WorkerI(t)'
    <3> SUFFICES ASSUME NEW x \in Stages, x[1] = t, x[2] > 0, pc[x] \in Loaded
                 PROVE  /\ plan[t][x[2]].first <= Mid(plan[t][x[2]])
                        /\ Mid(plan[t][x[2]]) < plan[t][x[2]].last
                        /\ \A v \in Stages : v[1] = t /\ stream'[v].q # <<>> =>
                              Halves(x, IF v[2] < x[2] THEN Done(t) ELSE Until(NextAsked(t)))'
      BY <1>1, <1>5 DEF WorkerI
    <3>1. /\ plan[t][x[2]].first <= Mid(plan[t][x[2]])
          /\ Mid(plan[t][x[2]]) < plan[t][x[2]].last
          /\ Halves(x, IF u[2] < x[2] THEN Done(t) ELSE Until(c))
      BY <1>5, <2>4 DEF ThreadI, WorkerI, c
    <3>2. Halves(x, IF s[2] < x[2] THEN Done(t) ELSE Until(NextAsked(t)))'
      <4>0. Until(NextAsked(t))' = Until(c)
        BY <1>2 DEF Until
      <4>1. CASE x = s
        <5>1. ~(s[2] < x[2])
          BY <1>0, <4>1
        <5>2. Halves(s, Until(NextAsked(t)))'
          BY <1>1, <2>7, <4>0 DEF Halves
        <5> QED BY <4>1, <5>1, <5>2
      <4>2. CASE x # s
        <5>1. x[2] # s[2] /\ x[2] \in Nat /\ s[2] \in Nat
          BY <1>0, <4>2, StageFacts
        <5>2. u[2] < x[2] <=> s[2] < x[2]
          BY <2>4, <5>1
        <5>3. Halves(x, IF s[2] < x[2] THEN Done(t) ELSE Until(c))
          BY <3>1, <5>2
        <5>4. CASE s[2] < x[2]
          <6>1. Halves(x, Done(t))'
            BY <1>1, <1>2, <2>8, <4>2, <5>3, <5>4 DEF Halves
          <6> QED BY <5>4, <6>1
        <5>5. CASE ~(s[2] < x[2])
          <6>1. Halves(x, Until(NextAsked(t)))'
            BY <1>1, <2>8, <4>0, <4>2, <5>3, <5>5 DEF Halves
          <6> QED BY <5>5, <6>1
        <5> QED BY <5>4, <5>5
      <4> QED BY <4>1, <4>2
    <3>3. ASSUME NEW v \in Stages, v[1] = t, stream'[v].q # <<>>
          PROVE  Halves(x, IF v[2] < x[2] THEN Done(t) ELSE Until(NextAsked(t)))'
      <4>1. v = s
        BY <2>6, <3>3
      <4> QED BY <3>2, <4>1
    <3> QED BY <3>1, <3>3
  <2> QED BY <2>9, <2>10, <2>11, <2>12 DEF ThreadI
<1> QED BY <1>3, <1>4, <1>5

(***************************************************************************)
(* The offloading program computes.                                        *)
(***************************************************************************)
LEMMA HalfFacts == Half \in Nat /\ Half - 1 \in Nat /\ Half <= LastLayer /\ Half - 1 <= LastLayer
BY Layers DEF Half

\* A step of the offloading program changes its own state only; what is left to
\* show is what it has in hand.
LEMMA OffloadThread ==
    ASSUME IInv, NEW t \in Threads, ThreadI(t), plan[t] = <<>>, OffloadI(t)', Local(<<t, 0>>, pc'[<<t, 0>>]),
           pc'[<<t, 0>>] \in {"loop", "second", "restore"}, UNCHANGED user
    PROVE  ThreadI(t)'
<1>0. plan'[t] = plan[t] /\ UNCHANGED <<stream, asked>>
  BY DEF Local, net, user
<1>1. RangeI(t)'
  BY <1>0 DEF ThreadI, RangeI
<1>2. ChainI(t)'
  BY <1>0 DEF ThreadI, ChainI, Starting, NotYet
<1>3. WorkerI(t)'
  <2>1. \A x \in Stages : x[1] = t /\ x[2] > 0 => pc[x] = "absent"
    <3>1. Len(plan[t]) = 0
      BY Lists
    <3>2. \A x \in Stages : x[1] = t /\ x[2] > 0 => ~(x[2] <= Len(plan[t]))
      BY <3>1, StageFacts
    <3> QED BY <3>2 DEF IInv, PlanI
  <2>2. \A x \in Stages : x[1] = t /\ x[2] > 0 => pc'[x] = "absent"
    <3>1. \A x \in Stages : x[2] > 0 => x # <<t, 0>>
      BY StageFacts
    <3> QED BY <2>1, <3>1 DEF Local, IInv, PcI
  <2> QED BY <2>2 DEF WorkerI, Loaded
<1>4. ContentI(t)'
  BY DEF ContentI
<1> QED BY <1>1, <1>2, <1>3, <1>4 DEF ThreadI

LEMMA PreloadThread ==
    ASSUME IInv, NEW t \in Threads, ThreadI(t), Preload(t), ~End(<<t, 0>>)
    PROVE  ThreadI(t)'
<1> DEFINE s == <<t, 0>>
           a == load_model(new, GGUF_Analyze_And_Convert, 0, Half - 1)
<1>0. s \in Stages /\ DOMAIN sess = Stages /\ DOMAIN pc = Stages
  BY StageFacts DEF IInv, ModelI, PcI
<1>1. /\ pc[s] = "preload" /\ a.ok /\ sess' = [sess EXCEPT ![s] = <<a.sess, new>>]
      /\ Local(s, "loop") /\ UNCHANGED <<answered, work, user>>
  BY DEF Preload
<1>2. plan[t] = <<>> /\ answered[t] = <<>>
  BY <1>1 DEF IInv, PlanI, Unplanned, ThreadI, ChainI, Starting
<1>3. pc'[s] = "loop"
  BY <1>0, <1>1 DEF Local
<1>4. new = [model |-> None, offloaded_kv |-> None, layers |-> None]
  BY DEF new
<1>5. a.sess = OnGpu(0, Half - 1, <<>>)
  <2> DEFINE h == Half - 1
             z == 0
  <2>1. h \in Int /\ h <= LastLayer /\ z \in Nat /\ load_model(new, GGUF_Analyze_And_Convert, z, h).ok
    BY <1>1, HalfFacts
  <2> HIDE DEF h, z
  <2>2. load_model(new, GGUF_Analyze_And_Convert, z, h).sess = Holding(z, h, <<>>, None)
    BY <1>4, <2>1, WholeSound, SessionLoads
  <2> QED BY <2>2 DEF Holding, OnGpu, h, z
<1>6. sess'[s] = <<OnGpu(0, Half - 1, <<>>), new>>
  BY <1>0, <1>1, <1>5
<1>7. Done(t)' = <<>> /\ answered'[t] = <<>>
  BY <1>1, <1>2 DEF Done
<1>8. First(t)' = OnGpu(0, Half - 1, <<>>) /\ Second(t)' = new /\ sess'[s] = <<First(t), Second(t)>>'
  BY <1>6 DEF First, Second
<1>9. OffloadI(t)'
  BY <1>3, <1>7, <1>8 DEF OffloadI
<1> QED BY <1>1, <1>2, <1>3, <1>9, OffloadThread

LEMMA BringFirstThread ==
    ASSUME IInv, NEW t \in Threads, ThreadI(t), BringFirst(t), ~End(<<t, 0>>)
    PROVE  ThreadI(t)'
<1> DEFINE s == <<t, 0>>
           f == sess[s][1]
           a == offload_to_cuda(f, GGUF_Analyze_And_Convert)
<1>0. s \in Stages /\ DOMAIN sess = Stages /\ DOMAIN pc = Stages
  BY StageFacts DEF IInv, ModelI, PcI
<1>1. /\ pc[s] = "restore" /\ a.ok /\ sess' = [sess EXCEPT ![s][1] = a.sess]
      /\ Local(s, "loop") /\ UNCHANGED <<answered, work, user>>
  BY DEF BringFirst
<1>2. plan[t] = <<>>
  BY <1>1 DEF IInv, PlanI, Unplanned
<1>3. pc'[s] = "loop"
  BY <1>0, <1>1 DEF Local
<1>4. /\ f = OnCpu(0, Half - 1, Done(t)) /\ answered[t] # <<>>
      /\ Second(t) = OnCpu(Half, LastLayer, Done(t))
  BY <1>1, <1>2 DEF ThreadI, OffloadI, First
<1>5. a.sess = OnGpu(0, Half - 1, Done(t))
  <2> DEFINE h == Half - 1
             z == 0
  <2>1. h \in Int /\ h <= LastLayer /\ z \in Nat
    BY HalfFacts
  <2>2. f = OnCpu(z, h, Done(t))
    BY <1>4
  <2> HIDE DEF h, z, f
  <2>3. offload_to_cuda(f, GGUF_Analyze_And_Convert).sess = OnGpu(z, h, Done(t))
    BY <1>1, <2>1, <2>2, DoneList, WholeSound, SessionPutBack
  <2> QED BY <2>3 DEF h, z
<1>6. First(t)' = a.sess /\ Second(t)' = Second(t) /\ sess'[s] = <<First(t), Second(t)>>'
  <2>1. sess[s] = <<f, Second(t)>>
    BY <1>1, <1>2 DEF ThreadI, OffloadI, First
  <2> HIDE DEF a
  <2>2. sess'[s] = <<a.sess, Second(t)>>
    BY <1>0, <1>1, <2>1
  <2> QED BY <2>2 DEF First, Second
<1>7. Done(t)' = Done(t) /\ answered'[t] = answered[t]
  BY <1>1 DEF Done, user
<1>8. OffloadI(t)'
  <2> HIDE DEF a
  <2> QED BY <1>3, <1>4, <1>5, <1>6, <1>7 DEF OffloadI
<1> QED BY <1>1, <1>2, <1>3, <1>8, OffloadThread

LEMMA FirstHalfThread ==
    ASSUME IInv, NEW t \in Threads, ThreadI(t), FirstHalf(t), ~End(<<t, 0>>)
    PROVE  ThreadI(t)'
<1> DEFINE s == <<t, 0>>
           c == NextAsked(t)
           h == Half - 1
<1>0. s \in Stages /\ DOMAIN sess = Stages /\ DOMAIN pc = Stages /\ DOMAIN work = Threads
  BY StageFacts DEF IInv, ModelI, PcI, AskI
<1>1. /\ plan[t] = <<>> /\ pc[s] = "loop" /\ Waiting(t) /\ Local(s, "second") /\ UNCHANGED <<answered, user>>
      /\ \E x, two, a, off :
            /\ x = TokenIds(c) /\ two = Fresh(s, x) /\ a = forward(two[1], x)
            /\ off = (IF a.ok THEN offload_to_cpu(a.sess) ELSE a) /\ off.ok
            /\ sess' = [sess EXCEPT ![s] = <<off.sess, two[2]>>]
            /\ work' = [work EXCEPT ![t] = a.out]
  BY DEF FirstHalf, Coordinator
<1>2. PICK x, two, a, off :
            /\ x = TokenIds(c) /\ two = Fresh(s, x) /\ a = forward(two[1], x)
            /\ off = (IF a.ok THEN offload_to_cpu(a.sess) ELSE a) /\ off.ok
            /\ sess' = [sess EXCEPT ![s] = <<off.sess, two[2]>>]
            /\ work' = [work EXCEPT ![t] = a.out]
  BY <1>1
<1>3. pc'[s] = "second"
  BY <1>0, <1>1 DEF Local
<1>4. /\ First(t) = OnGpu(0, h, Done(t)) /\ sess[s] = <<First(t), Second(t)>>
      /\ Second(t) = IF answered[t] = <<>> THEN new ELSE OnCpu(Half, LastLayer, Done(t))
  BY <1>1 DEF ThreadI, OffloadI
<1>5. Second(t).model = None
  BY <1>4 DEF new, OnCpu
<1>6. reset_kv_cache(Second(t)) = Second(t)
  BY <1>5 DEF reset_kv_cache
<1>7. x = Partial(c, -1) /\ x.chunk = c
  BY <1>2, Ids, PartialChunk
<1> DEFINE g == First(t)
           f == two[1]
<1>8. two[2] = Second(t) /\ f = IF c[2] = 0 THEN reset_kv_cache(g) ELSE g
  <2> DEFINE q == Second(t)
  <2>1. /\ f = IF c[2] = 0 THEN reset_kv_cache(g) ELSE g
        /\ two[2] = IF c[2] = 0 THEN reset_kv_cache(q) ELSE q
    <3> HIDE DEF g, q
    <3> QED BY <1>2, <1>4, <1>7, FreshPair DEF g, q
  <2> QED BY <1>6, <2>1
<1>9. a.ok /\ off = offload_to_cpu(a.sess)
  BY <1>2
<1>10. a.out = Partial(c, h) /\ a.sess = OnGpu(0, h, Until(c))
  <2> DEFINE z == 0
  <2>1. z \in Nat /\ h \in Nat /\ z <= h /\ h <= LastLayer /\ z - 1 = -1
    BY HalfFacts
  <2>2. g = OnGpu(z, h, Done(t)) /\ x = Partial(c, z - 1) /\ forward(f, x).ok /\ a = forward(f, x)
    BY <1>2, <1>4, <1>7, <1>9, <2>1
  <2>3. c = NextAsked(t) /\ ChainI(t)
    BY DEF ThreadI
  <2> HIDE DEF z, h, c, g, f
  <2>4. forward(f, x).out = Partial(c, h) /\ forward(f, x).sess = OnGpu(z, h, Until(c))
    BY <1>1, <1>8, <2>1, <2>2, <2>3, FreshRuns
  <2> QED BY <2>2, <2>4 DEF z
<1>11. off.sess = OnCpu(0, h, Until(c))
  <2> DEFINE p == a.sess
             kv == Until(c)
  <2>1. p = Holding(0, h, kv, None)
    BY <1>10 DEF OnGpu, Holding
  <2>2. offload_to_cpu(p).ok /\ off = offload_to_cpu(p)
    BY <1>2, <1>9
  <2> HIDE DEF p, kv, h
  <2>3. offload_to_cpu(p).sess = OnCpu(0, h, kv)
    BY <2>1, <2>2, SessionTakenOff
  <2> QED BY <2>2, <2>3 DEF kv
<1>12. sess'[s] = <<OnCpu(0, h, Until(c)), Second(t)>> /\ work'[t] = Partial(c, h)
  BY <1>0, <1>2, <1>8, <1>10, <1>11
<1>13. Done(t)' = Done(t) /\ answered'[t] = answered[t] /\ NextAsked(t)' = c
  BY <1>1 DEF Done, NextAsked, user
<1>14. First(t)' = OnCpu(0, h, Until(c)) /\ Second(t)' = Second(t) /\ sess'[s] = <<First(t), Second(t)>>'
  BY <1>12 DEF First, Second
<1>15. Until(NextAsked(t))' = Until(c) /\ Partial(NextAsked(t), Half - 1)' = Partial(c, h)
  BY <1>13 DEF Until, Partial, Thing
<1>16. OffloadI(t)'
  <2> HIDE DEF c
  <2> QED BY <1>3, <1>4, <1>12, <1>13, <1>14, <1>15 DEF OffloadI
<1> QED BY <1>1, <1>3, <1>16, OffloadThread

\* The second half, loaded anew or put back, completes the logits.
LEMMA SecondMakes ==
    ASSUME IInv, NEW t \in Threads, ThreadI(t), pc[<<t, 0>>] = "second",
           NEW c, c = NextAsked(t), NEW b, b = BringSecond(t), b.ok,
           NEW r, r = forward(b.sess, work[t]), r.ok,
           NEW off, off = offload_to_cpu(r.sess), off.ok
    PROVE  r.out = Partial(c, LastLayer) /\ off.sess = OnCpu(Half, LastLayer, Until(c))
<1> DEFINE s == Second(t)
           x == work[t]
           p == b.sess
<1>0. plan[t] = <<>> /\ Waiting(t) /\ ChainI(t)
  BY DEF IInv, PlanI, Unplanned, OrderI, ThreadI
<1>1. /\ s = IF answered[t] = <<>> THEN new ELSE OnCpu(Half, LastLayer, Done(t))
      /\ x = Partial(c, Half - 1)
  BY <1>0 DEF ThreadI, OffloadI
<1>2. x.chunk = c
  BY <1>1, PartialChunk
<1>3. Half \in Nat /\ LastLayer \in Nat /\ Half <= LastLayer /\ LastLayer \in Int /\ LastLayer <= LastLayer
  BY HalfFacts, Layers
<1>4. \E kv, o : p = Holding(Half, LastLayer, kv, o) /\ Append(kv, c) = Until(c)
  <2>1. CASE c[2] = 0
    <3>1. b = load_model(s, GGUF_Analyze_And_Convert, Half, LastLayer)
      BY <1>2, <2>1 DEF BringSecond, Second
    <3>2. \E m, o, l : s = [model |-> m, offloaded_kv |-> o, layers |-> l]
      BY <1>1 DEF new, OnCpu
    <3>3. PICK m, o, l : s = [model |-> m, offloaded_kv |-> o, layers |-> l]
      BY <3>2
    <3> DEFINE e == <<>>
    <3> HIDE DEF s
    <3>4. p = Holding(Half, LastLayer, <<>>, o)
      BY <1>3, <3>1, <3>3, WholeSound, SessionLoads
    <3>5. Append(e, c) = Until(c)
      BY <1>0, <2>1, Conversation
    <3>6. p = Holding(Half, LastLayer, e, o)
      BY <3>4
    <3> HIDE DEF e
    <3> QED BY <3>5, <3>6
  <2>2. CASE c[2] # 0
    <3>1. answered[t] # <<>> /\ Append(Done(t), c) = Until(c)
      BY <1>0, <2>2, Conversation
    <3>2. b = offload_to_cuda(s, GGUF_Analyze_And_Convert)
      BY <1>2, <2>2 DEF BringSecond, Second
    <3>3. s = OnCpu(Half, LastLayer, Done(t))
      BY <1>1, <3>1
    <3> HIDE DEF s
    <3>4. p = OnGpu(Half, LastLayer, Done(t))
      BY <1>3, <3>2, <3>3, DoneList, WholeSound, SessionPutBack
    <3>5. p = Holding(Half, LastLayer, Done(t), None)
      BY <3>4 DEF OnGpu, Holding
    <3> QED BY <3>1, <3>5
  <2> QED BY <2>1, <2>2
<1>5. PICK kv, o : p = Holding(Half, LastLayer, kv, o) /\ Append(kv, c) = Until(c)
  BY <1>4
<1> HIDE DEF p, x, s
<1>6. r = forward(p, x)
  BY DEF p, x
<1>7. r.out = Partial(c, LastLayer) /\ r.sess = Holding(Half, LastLayer, Until(c), o)
  BY <1>1, <1>3, <1>5, <1>6, SessionRuns
<1> DEFINE q == r.sess
           k == Until(c)
<1>8. q = Holding(Half, LastLayer, k, o) /\ off = offload_to_cpu(q)
  BY <1>7
<1> HIDE DEF q, k
<1>9. off.sess = OnCpu(Half, LastLayer, k)
  BY <1>8, SessionTakenOff
<1> QED BY <1>7, <1>9 DEF k

LEMMA SecondHalfDoes ==
    ASSUME IInv, NEW t \in Threads, ThreadI(t), SecondHalf(t), ~End(<<t, 0>>)
    PROVE  /\ pc[<<t, 0>>] = "second" /\ Local(<<t, 0>>, "restore") /\ UNCHANGED user
           /\ sess' = [sess EXCEPT ![<<t, 0>>][2] = OnCpu(Half, LastLayer, Until(NextAsked(t)))]
           /\ answered' = [answered EXCEPT ![t] = Append(@, Partial(NextAsked(t), LastLayer))]
<1>1. /\ pc[<<t, 0>>] = "second" /\ Local(<<t, 0>>, "restore") /\ UNCHANGED user
      /\ \E b, r, off :
            /\ b = BringSecond(t) /\ r = (IF b.ok THEN forward(b.sess, work[t]) ELSE b)
            /\ off = (IF r.ok THEN offload_to_cpu(r.sess) ELSE r) /\ off.ok
            /\ sess' = [sess EXCEPT ![<<t, 0>>][2] = off.sess]
            /\ answered' = [answered EXCEPT ![t] = Append(@, r.out)]
  BY DEF SecondHalf
<1>2. PICK b, r, off :
            /\ b = BringSecond(t) /\ r = (IF b.ok THEN forward(b.sess, work[t]) ELSE b)
            /\ off = (IF r.ok THEN offload_to_cpu(r.sess) ELSE r) /\ off.ok
            /\ sess' = [sess EXCEPT ![<<t, 0>>][2] = off.sess]
            /\ answered' = [answered EXCEPT ![t] = Append(@, r.out)]
  BY <1>1
<1>3. r.ok /\ off = offload_to_cpu(r.sess)
  BY <1>2
<1>4. b.ok /\ r = forward(b.sess, work[t])
  BY <1>2, <1>3
<1>5. r.out = Partial(NextAsked(t), LastLayer) /\ off.sess = OnCpu(Half, LastLayer, Until(NextAsked(t)))
  BY <1>1, <1>2, <1>3, <1>4, SecondMakes
<1> QED BY <1>1, <1>2, <1>5

LEMMA SecondHalfThread ==
    ASSUME IInv, NEW t \in Threads, ThreadI(t), SecondHalf(t), ~End(<<t, 0>>)
    PROVE  ThreadI(t)'
<1> DEFINE s == <<t, 0>>
           c == NextAsked(t)
           k == OnCpu(Half, LastLayer, Until(c))
           y == Partial(c, LastLayer)
<1>0. /\ s \in Stages /\ DOMAIN sess = Stages /\ DOMAIN pc = Stages /\ DOMAIN answered = Threads
      /\ IsList(answered[t])
  BY StageFacts DEF IInv, ModelI, PcI, AskI
<1>1. /\ pc[s] = "second" /\ Local(s, "restore") /\ UNCHANGED user
      /\ sess' = [sess EXCEPT ![s][2] = k] /\ answered' = [answered EXCEPT ![t] = Append(@, y)]
  BY SecondHalfDoes
<1>2. plan[t] = <<>>
  BY <1>1 DEF IInv, PlanI, Unplanned
<1>3. pc'[s] = "restore"
  BY <1>0, <1>1 DEF Local
<1>4. First(t) = OnCpu(0, Half - 1, Until(c)) /\ sess[s] = <<First(t), Second(t)>>
  BY <1>1, <1>2 DEF ThreadI, OffloadI
<1>5. Done(t)' = Until(c) /\ answered'[t] # <<>>
  <2> HIDE DEF y
  <2>1. answered'[t] = Append(answered[t], y) /\ asked' = asked
    BY <1>0, <1>1 DEF user
  <2>2. Len(answered[t]) \in Nat /\ Len(answered'[t]) = Len(answered[t]) + 1
    BY <1>0, <2>1, ListAppend
  <2>3. answered'[t] # <<>>
    BY <2>2, Lists
  <2> QED BY <2>1, <2>2, <2>3 DEF Done, NextAsked, Until
<1>6. sess'[s] = <<First(t), k>>
  <2> HIDE DEF k
  <2> QED BY <1>0, <1>1, <1>4
<1>7. First(t)' = First(t) /\ Second(t)' = k /\ sess'[s] = <<First(t), Second(t)>>'
  <2> HIDE DEF k
  <2>1. sess'[s][1] = First(t) /\ sess'[s][2] = k
    BY <1>6
  <2>2. First(t)' = sess'[s][1] /\ Second(t)' = sess'[s][2]
    BY DEF First, Second
  <2> QED BY <1>6, <2>1, <2>2
<1>8. OffloadI(t)'
  BY <1>3, <1>4, <1>5, <1>7 DEF OffloadI
<1> QED BY <1>1, <1>2, <1>3, <1>8, OffloadThread

(***************************************************************************)
(* The session asks, and every step.                                       *)
(***************************************************************************)
LEMMA AskThread ==
    ASSUME IInv, NEW t \in Threads, ThreadI(t), Ask(t)
    PROVE  ThreadI(t)'
<1> DEFINE n == Len(asked[t])
<1>0. UNCHANGED <<pc, plan, sess, stream, answered, work>> /\ DOMAIN asked = Threads
  BY DEF Ask, net, IInv, AskI
<1>1. PICK a \in Nat, b \in Nat :
         /\ asked' = [asked EXCEPT ![t] = Append(@, <<a, b>>)]
         /\ b > 0 => n > 0 /\ asked[t][n] = <<a, b - 1>>
  BY AskDoes
<1>2. asked[t] \in Seq(Nat \X Nat) /\ n \in Nat /\ Len(answered[t]) <= n /\ Len(answered[t]) \in Nat
  BY ListFacts DEF IInv, AskI
<1>3. /\ asked'[t] = Append(asked[t], <<a, b>>) /\ Len(asked'[t]) = n + 1
      /\ asked'[t][n + 1] = <<a, b>> /\ \A i \in 1..n : asked'[t][i] = asked[t][i]
  BY <1>0, <1>1, <1>2
<1>4. Waiting(t) => NextAsked(t)' = NextAsked(t)
  <2>1. Waiting(t) => Len(answered[t]) + 1 \in 1..n
    BY <1>2 DEF Waiting
  <2> QED BY <1>0, <1>3, <2>1 DEF NextAsked
<1>5. Done(t)' = Done(t)
  <2>1. answered[t] # <<>> => Len(answered[t]) \in 1..n
    <3>1. Len(answered[t]) = 0 => answered[t] = <<>>
      <4>1. answered[t] \in Seq({answered[t][i] : i \in DOMAIN answered[t]})
        BY DEF IInv, AskI, IsList
      <4> QED BY <4>1
    <3> QED BY <1>2, <3>1
  <2> QED BY <1>0, <1>3, <2>1 DEF Done, Until
<1>6. pc[<<t, 0>>] \in {"wait", "second"} => Waiting(t)
  BY DEF IInv, OrderI
<1>7. RangeI(t)'
  BY <1>0 DEF ThreadI, RangeI
<1>8. ChainI(t)'
  <2>1. ASSUME NEW k \in 1..Len(asked'[t]), asked'[t][k][2] > 0
        PROVE  k > 1 /\ asked'[t][k - 1] = <<asked'[t][k][1], asked'[t][k][2] - 1>>
    <3>1. CASE k = n + 1
      <4>1. b > 0 /\ n > 0 /\ asked'[t][k][1] = a /\ asked'[t][k][2] = b
        BY <1>1, <1>3, <2>1, <3>1
      <4>2. k - 1 = n /\ n \in 1..n /\ k > 1
        BY <1>2, <3>1, <4>1
      <4> QED BY <1>1, <1>3, <4>1, <4>2
    <3>2. CASE k # n + 1
      <4>1. k \in 1..n
        BY <1>2, <1>3, <3>2
      <4>2. asked[t][k][2] > 0
        BY <1>3, <2>1, <4>1
      <4>3. k > 1 /\ asked[t][k - 1] = <<asked[t][k][1], asked[t][k][2] - 1>>
        BY <4>1, <4>2 DEF ThreadI, ChainI
      <4>4. k - 1 \in 1..n
        <5>1. \A m \in Nat : \A i \in 1..m : i > 1 => i - 1 \in 1..m
          OBVIOUS
        <5> QED BY <1>2, <4>1, <4>3, <5>1
      <4> QED BY <1>3, <4>1, <4>3, <4>4
    <3> QED BY <3>1, <3>2
  <2> QED BY <1>0, <2>1 DEF ThreadI, ChainI
<1>9. WorkerI(t)'
  <2> SUFFICES ASSUME NEW x \in Stages, x[1] = t, x[2] > 0, pc[x] \in Loaded, pc[<<t, 0>>] # "ended"
               PROVE  /\ plan[t][x[2]].first <= Mid(plan[t][x[2]])
                      /\ Mid(plan[t][x[2]]) < plan[t][x[2]].last
                      /\ pc[<<t, 0>>] # "wait" => Halves(x, Done(t))'
                      /\ pc[<<t, 0>>] = "wait" =>
                            \A u \in Stages : u[1] = t /\ stream[u].q # <<>> =>
                               Halves(x, IF u[2] < x[2] THEN Done(t) ELSE Until(NextAsked(t)))'
    BY <1>0 DEF WorkerI
  <2>1. /\ plan[t][x[2]].first <= Mid(plan[t][x[2]])
        /\ Mid(plan[t][x[2]]) < plan[t][x[2]].last
        /\ pc[<<t, 0>>] # "wait" => Halves(x, Done(t))
        /\ pc[<<t, 0>>] = "wait" =>
              \A u \in Stages : u[1] = t /\ stream[u].q # <<>> =>
                  Halves(x, IF u[2] < x[2] THEN Done(t) ELSE Until(NextAsked(t)))
    BY DEF ThreadI, WorkerI
  <2>2. pc[<<t, 0>>] # "wait" => Halves(x, Done(t))'
    BY <1>0, <1>5, <2>1 DEF Halves
  <2>3. ASSUME pc[<<t, 0>>] = "wait", NEW u \in Stages, u[1] = t, stream[u].q # <<>>
        PROVE  Halves(x, IF u[2] < x[2] THEN Done(t) ELSE Until(NextAsked(t)))'
    <3>1. Halves(x, IF u[2] < x[2] THEN Done(t) ELSE Until(NextAsked(t)))
      BY <2>1, <2>3
    <3>2. NextAsked(t)' = NextAsked(t)
      BY <1>4, <1>6, <2>3
    <3> QED BY <1>0, <1>5, <3>1, <3>2 DEF Halves, Until
  <2> QED BY <2>1, <2>2, <2>3
<1>10. ContentI(t)'
  <2> SUFFICES ASSUME NEW x \in Stages, x[1] = t, pc[<<t, 0>>] = "wait", stream[x].q # <<>>
               PROVE  stream[x].q[1] = Partial(NextAsked(t), EndOf(x))'
    BY <1>0 DEF ContentI
  <2>1. stream[x].q[1] = Partial(NextAsked(t), EndOf(x))
    BY DEF ThreadI, ContentI
  <2>2. NextAsked(t)' = NextAsked(t) /\ EndOf(x)' = EndOf(x)
    BY <1>0, <1>4, <1>6 DEF EndOf
  <2>3. Partial(NextAsked(t), EndOf(x))' = Partial(NextAsked(t), EndOf(x))
    BY <2>2 DEF Partial, Thing, Until
  <2> QED BY <2>1, <2>3
<1>11. OffloadI(t)'
  <2>1. First(t)' = First(t) /\ Second(t)' = Second(t)
    BY <1>0 DEF First, Second
  <2>2. pc[<<t, 0>>] = "second" => /\ Until(NextAsked(t))' = Until(NextAsked(t))
                                   /\ Partial(NextAsked(t), Half - 1)' = Partial(NextAsked(t), Half - 1)
    BY <1>4, <1>6 DEF Until, Partial, Thing
  <2> QED BY <1>0, <1>5, <2>1, <2>2 DEF ThreadI, OffloadI
<1> QED BY <1>7, <1>8, <1>9, <1>10, <1>11 DEF ThreadI

LEMMA NextComputed ==
    ASSUME IInv, LInv, CInv, [Next]_vars
    PROVE  CInv'
<1> SUFFICES ASSUME NEW u \in Threads PROVE ThreadI(u)'
  BY DEF CInv
<1>0. ThreadI(u) /\ \A t \in Threads : <<t, 0>> \in Stages
  BY StageFacts DEF CInv
<1>1. ASSUME NEW t \in Threads, ThreadStep(t) PROVE ThreadI(u)'
  <2>1. CASE u # t
    BY <1>0, <1>1, <2>1, ThreadOthers, UntouchedThread
  <2>2. CASE u = t /\ End(<<t, 0>>)
    <3>1. UNCHANGED user
      BY <1>1 DEF ThreadStep, Plan, Dispatch, OpenForward, TakeTensor, ReturnLogits, CoordinatorEnds,
         Connect, Analyze, Preload, FirstHalf, SecondHalf, BringFirst, OffloadEnds
    <3> QED BY <1>0, <2>2, <3>1, EndThread
  <2>3. CASE u = t /\ ~End(<<t, 0>>)
    <3>1. ~OffloadEnds(t)
      BY <2>3 DEF OffloadEnds
    <3> QED BY <1>0, <1>1, <2>3, <3>1, PlanThread, StartThread, TakeTensorThread, ReturnLogitsThread,
            PreloadThread, FirstHalfThread, SecondHalfThread, BringFirstThread DEF ThreadStep
  <2> QED BY <2>1, <2>2, <2>3
<1>2. ASSUME NEW s \in Stages, StageStep(s) PROVE ThreadI(u)'
  <2>1. CASE u # s[1]
    BY <1>0, <1>2, <2>1, StageOthers, UntouchedThread
  <2>2. CASE End(s)
    <3>1. UNCHANGED user
      BY <1>2 DEF StageStep, Register, Accepted, accept_fails, LoadHalves, OpenOut, Work, WorkerEnds
    <3> QED BY <2>2, <3>1, EndThread
  <2>3. CASE u = s[1] /\ ~End(s)
    <3>1. ~accept_fails(s) /\ ~WorkerEnds(s)
      BY <2>3 DEF accept_fails, WorkerEnds
    <3>2. ThreadI(s[1])
      BY <1>0, <2>3
    <3>3. ThreadI(s[1])'
      BY <1>2, <2>3, <3>1, <3>2, StageThread, LoadHalvesThread, WorkThread DEF StageStep
    <3> QED BY <2>3, <3>3
  <2> QED BY <2>1, <2>2, <2>3
<1>3. ASSUME NEW t \in Threads, Ask(t) PROVE ThreadI(u)'
  <2>1. CASE u = t
    BY <1>0, <1>3, <2>1, AskThread
  <2>2. CASE u # t
    <3>1. UNCHANGED <<pc, plan, sess, net, answered, work>> /\ asked'[u] = asked[u]
      BY <1>3, <2>2 DEF Ask, IInv, AskI
    <3>2. Untouched(u)
      BY <3>1 DEF Untouched, Keeps, net
    <3> QED BY <1>0, <3>2, UntouchedThread
  <2> QED BY <2>1, <2>2
<1>4. ASSUME UNCHANGED <<pc, plan, sess, net, asked, answered, work>> PROVE ThreadI(u)'
  <2>1. Untouched(u)
    BY <1>4 DEF Untouched, Keeps, net
  <2> QED BY <1>0, <2>1, UntouchedThread
<1>5. ASSUME NEW s \in Stages, insert_inbound(s) PROVE ThreadI(u)'
  BY <1>0, <1>5, InsertAll, UntouchedThread
<1>6. ASSUME NEW t \in Threads, Close(t) PROVE ThreadI(u)'
  BY <1>4, <1>6 DEF Close
<1>7. CASE UNCHANGED vars
  BY <1>4, <1>7 DEF vars, user
<1> QED BY <1>1, <1>2, <1>3, <1>5, <1>6, <1>7 DEF Next

LEMMA InitComputed == Init => CInv
<1> SUFFICES ASSUME Init, NEW t \in Threads PROVE ThreadI(t)
  BY DEF CInv
<1>1. plan[t] = <<>> /\ asked[t] = <<>> /\ answered[t] = <<>>
  BY DEF Init
<1>2. /\ \A s \in Stages : s[2] # 0 => pc[s] = "absent"
      /\ pc[<<t, 0>>] \in {"pipeline_coord", "offload_pingpong"}
  <2>1. PICK p \in [Threads -> Programs] :
          pc = [s \in Stages |-> IF s[2] = 0 THEN p[s[1]] ELSE "absent"]
    BY DEF Init
  <2> QED BY <2>1, StageFacts, InferenceConstants
<1>3. \A i \in 1..0 : FALSE
  OBVIOUS
<1>4. RangeI(t) /\ ChainI(t)
  BY <1>1, <1>3, Lists DEF RangeI, ChainI
<1>5. WorkerI(t)
  BY <1>2, StageFacts DEF WorkerI, Loaded
<1>6. ContentI(t) /\ OffloadI(t)
  BY <1>2 DEF ContentI, OffloadI
<1> QED BY <1>4, <1>5, <1>6 DEF ThreadI

(***************************************************************************)
(* The logits.                                                             *)
(***************************************************************************)
LEMMA AllLayers ==
    ASSUME NEW c
    PROVE  Partial(c, LastLayer) = Logits(c)
<1> DEFINE one    == <<Of(TokenEmbd)>>
           blocks == [i \in 1..Blocks |-> <<Of(i), Until(c)>>]
<1>1. LastLayer # -1 /\ LastLayer \in Nat /\ 0 <= LastLayer /\ Size(0, LastLayer) = Blocks /\ Low(0) = 0
  BY Layers DEF Size, Low, High
<1>2. [i \in 1..Size(0, LastLayer) |-> <<Of(Low(0) + i), Until(c)>>] = blocks
  BY <1>1, Layers
<1>3. Partial(c, 0 - 1).trace = <<>>
  <2>1. 0 - 1 = -1
    OBVIOUS
  <2>2. TokenIds(c).trace = <<>>
    BY DEF TokenIds
  <2> QED BY <2>1, <2>2, Ids
<1>4. <<>> \o one = one
  OBVIOUS
<1>5. one \o blocks \o HeadOf = Partial(c, LastLayer).trace
  <2> DEFINE z == 0
             p == [i \in 1..Size(z, LastLayer) |-> <<Of(Low(z) + i), Until(c)>>]
             q == Partial(c, z - 1).trace
  <2>1. z \in Nat /\ z <= LastLayer /\ z = 0 /\ p = blocks /\ q = <<>>
    BY <1>1, <1>2, <1>3
  <2> HIDE DEF z
  <2>2. q \o (IF z = 0 THEN <<Of(TokenEmbd)>> ELSE <<>>) \o p
          \o (IF LastLayer = LastLayer THEN HeadOf ELSE <<>>)
        = Partial(c, LastLayer).trace
    <3>1. z \in Nat /\ LastLayer \in Nat /\ z <= LastLayer /\ LastLayer <= LastLayer
      BY <1>1, <2>1
    <3> QED BY <3>1, TraceGrows, Zenon
  <2> HIDE DEF blocks, p, q
  <2> QED BY <1>4, <2>1, <2>2
<1>6. Logits(c) = [kind |-> "logits", chunk |-> c, trace |-> one \o blocks \o HeadOf]
  BY DEF Logits, HeadOf, Until, Of
<1> DEFINE u == [k \in 1..Upto(LastLayer) |-> Thing(c, k)]
<1>7. Partial(c, LastLayer) = [kind |-> "logits", chunk |-> c, trace |-> u]
  BY <1>1 DEF Partial
<1> HIDE DEF one, blocks, u
<1> QED BY <1>5, <1>6, <1>7

\* Ended or not, as MlThread sees it.
Dead == [t \in Threads |-> pc[<<t, 0>>] = "ended"]

\* A step that answers nobody and is asked nothing: no thread ends, or one does.
LEMMA SilentMaps ==
    ASSUME IInv, NEW t \in Threads, UNCHANGED <<asked, answered>>,
           \A u \in Threads : u # t => pc'[<<u, 0>>] = pc[<<u, 0>>],
           pc[<<t, 0>>] = "ended" => pc'[<<t, 0>>] = "ended"
    PROVE  [Ideal!Next]_<<asked, answered, Dead>>
<1>1. CASE (pc'[<<t, 0>>] = "ended") <=> (pc[<<t, 0>>] = "ended")
  <2>1. ASSUME NEW u \in Threads PROVE (pc'[<<u, 0>>] = "ended") <=> (pc[<<u, 0>>] = "ended")
    <3>1. CASE u = t
      BY <1>1, <3>1
    <3>2. CASE u # t
      BY <3>2
    <3> QED BY <3>1, <3>2
  <2>2. Dead' = Dead
    BY <2>1 DEF Dead
  <2> QED BY <2>2
<1>2. CASE pc'[<<t, 0>>] = "ended" /\ pc[<<t, 0>>] # "ended"
  <2>1. \A u \in Threads : (pc'[<<u, 0>>] = "ended") <=> (u = t \/ pc[<<u, 0>>] = "ended")
    BY <1>2
  <2>2. Dead' = [Dead EXCEPT ![t] = TRUE]
    BY <2>1 DEF Dead
  <2>3. Ideal!Die(t)
    BY <2>2 DEF Ideal!Die, Dead
  <2> QED BY <2>3 DEF Ideal!Next
<1> QED BY <1>1, <1>2

\* An answer.
LEMMA AnswerMaps ==
    ASSUME IInv, NEW t \in Threads, Waiting(t), pc[<<t, 0>>] # "ended", pc'[<<t, 0>>] # "ended",
           \A u \in Threads : u # t => pc'[<<u, 0>>] = pc[<<u, 0>>], UNCHANGED asked,
           answered' = [answered EXCEPT ![t] = Append(@, Partial(NextAsked(t), LastLayer))]
    PROVE  Ideal!Next
<1>1. \A u \in Threads : (pc'[<<u, 0>>] = "ended") <=> (pc[<<u, 0>>] = "ended")
  OBVIOUS
<1>2. Dead' = Dead /\ ~Dead[t]
  BY <1>1 DEF Dead
<1>3. answered' = [answered EXCEPT ![t] = Append(@, Logits(asked[t][Len(answered[t]) + 1]))]
  BY AllLayers DEF NextAsked
<1>4. Ideal!Answer(t)
  BY <1>2, <1>3 DEF Ideal!Answer, Dead, Waiting
<1> QED BY <1>4 DEF Ideal!Next

LEMMA AskMaps ==
    ASSUME IInv, NEW t \in Threads, Ask(t)
    PROVE  Ideal!Next
<1>1. PICK a \in Nat, b \in Nat :
         /\ a >= 1 /\ a + b <= Len(asked[t]) + 1 /\ Len(asked[t]) < MaxFrames
         /\ asked' = [asked EXCEPT ![t] = Append(@, <<a, b>>)]
  BY AskDoes
<1>2. Len(asked[t]) \in Nat /\ MaxFrames \in Nat
  BY InferenceConstants DEF IInv, AskI
<1>3. a \in 1..MaxFrames /\ b \in 0..(MaxFrames - 1)
  BY <1>1, <1>2
<1>4. <<a, b>> \in ChunkSet
  BY <1>3 DEF ChunkSet
<1>5. Dead' = Dead /\ UNCHANGED answered
  BY DEF Ask, Dead
<1>6. Ideal!Ask(t)
  BY <1>1, <1>4, <1>5 DEF Ideal!Ask, Dead
<1> QED BY <1>6 DEF Ideal!Next

LEMMA StepMaps ==
    ASSUME IInv, LInv, CInv, [Next]_vars
    PROVE  [Ideal!Next]_<<asked, answered, Dead>>
<1>0. Moves /\ \A t \in Threads : <<t, 0>> \in Stages /\ ThreadI(t)
  BY NextGoes, StageFacts DEF CInv
<1>1. \A u \in Threads : pc[<<u, 0>>] = "ended" => pc'[<<u, 0>>] = "ended"
  <2> SUFFICES ASSUME NEW u \in Threads, pc[<<u, 0>>] = "ended" PROVE pc'[<<u, 0>>] = "ended"
    OBVIOUS
  <2> DEFINE x == <<u, 0>>
  <2>1. Goes(x) /\ pc[x] = "ended"
    BY <1>0 DEF Moves
  <2> HIDE DEF x
  <2>2. pc'[x] = "ended"
    BY <2>1 DEF Goes, Leaps
  <2> QED BY <2>2 DEF x
<1>2. ASSUME NEW t \in Threads, ThreadStep(t) PROVE [Ideal!Next]_<<asked, answered, Dead>>
  <2>1. \A u \in Threads : u # t => pc'[<<u, 0>>] = pc[<<u, 0>>]
    <3> SUFFICES ASSUME NEW u \in Threads, u # t PROVE pc'[<<u, 0>>] = pc[<<u, 0>>]
      OBVIOUS
    <3>1. Untouched(u) /\ <<u, 0>> \in Stages /\ <<u, 0>>[1] = u
      BY <1>2, ThreadOthers, StageFacts
    <3> QED BY <3>1 DEF Untouched
  <2>2. UNCHANGED asked
    BY <1>2 DEF ThreadStep, Plan, Dispatch, OpenForward, TakeTensor, ReturnLogits, CoordinatorEnds,
         Connect, Analyze, Preload, FirstHalf, SecondHalf, BringFirst, OffloadEnds, user
  <2>3. CASE ReturnLogits(t) /\ ~End(<<t, 0>>)
    <3>1. /\ pc[<<t, 0>>] = "wait" /\ Readable(<<t, 0>>) /\ pc' = [pc EXCEPT ![<<t, 0>>] = "loop"]
          /\ answered' = [answered EXCEPT ![t] = Append(@, Incoming(<<t, 0>>))]
      BY <2>3 DEF ReturnLogits
    <3>2. Incoming(<<t, 0>>) = Partial(NextAsked(t), LastLayer)
      BY <1>0, <3>1, LogitsReturn
    <3>3. pc'[<<t, 0>>] = "loop" /\ Waiting(t)
      BY <1>0, <3>1 DEF IInv, PcI, OrderI
    <3> QED BY <2>1, <2>2, <3>1, <3>2, <3>3, AnswerMaps
  <2>4. CASE SecondHalf(t) /\ ~End(<<t, 0>>)
    <3>1. /\ pc[<<t, 0>>] = "second" /\ Local(<<t, 0>>, "restore")
          /\ answered' = [answered EXCEPT ![t] = Append(@, Partial(NextAsked(t), LastLayer))]
      BY <1>0, <2>4, SecondHalfDoes
    <3>2. pc'[<<t, 0>>] = "restore" /\ Waiting(t)
      BY <1>0, <3>1 DEF IInv, PcI, OrderI, Local
    <3> QED BY <2>1, <2>2, <3>1, <3>2, AnswerMaps
  <2>5. CASE End(<<t, 0>>) \/ (~ReturnLogits(t) /\ ~SecondHalf(t))
    <3>1. UNCHANGED answered
      BY <1>2, <2>5 DEF ThreadStep, End, Plan, Dispatch, OpenForward, TakeTensor, CoordinatorEnds,
         Connect, Analyze, Preload, FirstHalf, BringFirst, OffloadEnds
    <3> QED BY <1>1, <2>1, <2>2, <3>1, SilentMaps
  <2> QED BY <1>2, <2>3, <2>4, <2>5
<1>3. ASSUME NEW s \in Stages, StageStep(s) PROVE [Ideal!Next]_<<asked, answered, Dead>>
  <2>1. s[1] \in Threads /\ UNCHANGED <<asked, answered>>
    BY <1>3, StageFacts DEF StageStep, Register, Accepted, accept_fails, LoadHalves, OpenOut, Work,
         WorkerEnds, End, user
  <2>2. \A u \in Threads : u # s[1] => pc'[<<u, 0>>] = pc[<<u, 0>>]
    <3> SUFFICES ASSUME NEW u \in Threads, u # s[1] PROVE pc'[<<u, 0>>] = pc[<<u, 0>>]
      OBVIOUS
    <3>1. Untouched(u) /\ <<u, 0>> \in Stages /\ <<u, 0>>[1] = u
      BY <1>3, StageOthers, StageFacts
    <3> QED BY <3>1 DEF Untouched
  <2> QED BY <1>1, <2>1, <2>2, SilentMaps
<1>4. ASSUME NEW t \in Threads, Ask(t) PROVE [Ideal!Next]_<<asked, answered, Dead>>
  BY <1>4, AskMaps
<1>5. ASSUME UNCHANGED <<pc, asked, answered>> PROVE [Ideal!Next]_<<asked, answered, Dead>>
  BY <1>5 DEF Dead
<1>6. ASSUME NEW t \in Threads, Close(t) PROVE [Ideal!Next]_<<asked, answered, Dead>>
  BY <1>5, <1>6 DEF Close
<1>7. ASSUME NEW s \in Stages, insert_inbound(s) PROVE [Ideal!Next]_<<asked, answered, Dead>>
  BY <1>5, <1>7 DEF insert_inbound, user
<1>8. CASE UNCHANGED vars
  BY <1>5, <1>8 DEF vars, user
<1> QED BY <1>2, <1>3, <1>4, <1>6, <1>7, <1>8 DEF Next

LEMMA InitMaps == Init => Ideal!Init
<1> SUFFICES ASSUME Init PROVE Ideal!Init
  OBVIOUS
<1>1. \A t \in Threads : pc[<<t, 0>>] # "ended"
  <2>1. PICK p \in [Threads -> Programs] :
          pc = [s \in Stages |-> IF s[2] = 0 THEN p[s[1]] ELSE "absent"]
    BY DEF Init
  <2> QED BY <2>1, StageFacts, InferenceConstants
<1>2. Dead = [t \in Threads |-> FALSE]
  BY <1>1 DEF Dead
<1> QED BY <1>2 DEF Init, Ideal!Init, Dead

\* Every session gets the logits of the whole model for its own conversation,
\* from either program, on any number of nodes, with any layers per worker and
\* any files, in whatever order the .gguf file has its tensors, and through all
\* interleavings and failures: the pipeline and the offloading program
\* implement MlThread.
THEOREM LogitsImplemented ==
    ASSUME DistinctIds, OnePerNode
    PROVE  Spec => ImplementsMlThread
<1>1. Init => IInv /\ LInv /\ CInv
  BY InitInv, InitLinks, InitComputed
<1>2. IInv /\ LInv /\ CInv /\ [Next]_vars => (IInv /\ LInv /\ CInv)'
  BY NextInv, NextLinks, NextComputed
<1>3. IInv /\ LInv /\ CInv /\ [Next]_vars => [Ideal!Next]_<<asked, answered, Dead>>
  BY StepMaps
<1> QED BY <1>1, <1>2, <1>3, InitMaps, PTL DEF Spec, ImplementsMlThread, Ideal!Spec, Dead

=============================================================================
