------------------------------ MODULE Inference ------------------------------
(***************************************************************************)
(* The programs that run a model for a session on more than one MlSession: *)
(* the pipeline over several nodes (programs/user/pipeline_coord.lua and   *)
(* pipe_worker.lua) and the one that shares a GPU between two halves of    *)
(* the model (programs/user/offload_pingpong.lua), with the engine         *)
(* (MlSession), the tensor streams between the nodes and the rendezvous    *)
(* where each node hands an arriving stream to a program.                  *)
(*                                                                         *)
(* A thread is one such program, started by `session inference`; a stage   *)
(* is <<t, i>>: the thread itself for i = 0, its i-th worker for i > 0.    *)
(* Every stage opens one stream, named after it, and accepts one.          *)
(***************************************************************************)
EXTENDS MlSession

CONSTANTS Threads,
          Programs,  \* the programs `session inference` may start
          host,      \* the node its session is on
          sid,       \* session_id there, also the inference_id of its streams
          Nodes,     \* numbers, in the order of their peer ids
          Placements, \* the layer ranges of the files each node may have of the model
          SameName,  \* a whole file has the same name on every node
          MaxStages, MaxFrames, MaxStale,
          Faults     \* what may go wrong in this instance

Whole == <<0, LastLayer>>

ASSUME InferenceConstants ==
    /\ Programs \subseteq {"pipeline_coord", "offload_pingpong"}
    /\ host \in [Threads -> Nodes] /\ sid \in [Threads -> Nat]
    /\ Nodes \subseteq Nat /\ IsFiniteSet(Nodes) /\ SameName \in BOOLEAN
    /\ \A held \in Placements, n \in Nodes :
          held[n] \subseteq {r \in (0..LastLayer) \X (0..LastLayer) : r[1] <= r[2]}
    /\ {MaxStages, MaxFrames, MaxStale} \subseteq Nat
    /\ Faults \subseteq {"load", "send", "run", "close"}

VARIABLES
    pc,        \* where the program of each stage is
    plan,      \* the workers of each thread: peer, file and layers
    sess,      \* the two MlSessions of each stage
    stream,    \* the stream each stage opens
    reads,     \* the stream each stage has accepted
    pending_inbound, pending_accept, \* the rendezvous: per node and id
    open, stale,   \* the session: there or not; answers it left unread
    asked, answered, \* the tensors sent to each thread and the logits sent back
    work       \* the tensor offload_pingpong has in hand

net  == <<stream, reads, pending_inbound, pending_accept>>
user == <<open, stale, asked>>
vars == <<pc, plan, sess, net, user, answered, work>>

Stages == Threads \X (0..MaxStages)
Slots  == Nodes \X Range(sid)
Closed == [at |-> "none", q |-> <<>>, open |-> FALSE, read |-> FALSE]
Eof    == [kind |-> "eof", chunk |-> <<0, 0>>, trace |-> <<>>]

Init ==
    /\ \E p \in [Threads -> Programs] :
          pc = [s \in Stages |-> IF s[2] = 0 THEN p[s[1]] ELSE "absent"]
    /\ plan = [t \in Threads |-> <<>>]
    /\ sess = [s \in Stages |-> <<new, new>>]
    /\ stream = [s \in Stages |-> Closed]
    /\ reads = [s \in Stages |-> None]
    /\ pending_inbound = [k \in Slots |-> None] /\ pending_accept = [k \in Slots |-> None]
    /\ open = [t \in Threads |-> TRUE] /\ stale = [t \in Threads |-> 0]
    /\ asked = [t \in Threads |-> <<>>] /\ answered = [t \in Threads |-> <<>>]
    /\ work = [t \in Threads |-> None]

(***************************************************************************)
(* The model files of the nodes, and who runs what.                        *)
(***************************************************************************)
FileOf(r) == IF r = Whole THEN GGUF_Analyze_And_Convert
             ELSE GGUF_Split_Model(GGUF_Analyze_And_Convert, r[1], r[2])

\* A split file has its range in its name.  The bits of a whole one count
\* blocks, and are made layers if the local Storage knows the file.
adjust_range(r) ==
    LET bits == Build_Layer_Bitmap(FileOf(r))
    IN  IF r # Whole \/ SameName THEN r ELSE <<Min(bits), Max(bits)>>

\* By their first layer; of two that begin together the longer one.
Before(a, b) == LET x == adjust_range(a)  y == adjust_range(b)
                IN  x[1] < y[1] \/ (x[1] = y[1] /\ x[2] > y[2])

\* The files of one node whose ranges overlap, from one that begins past all
\* before it to the next such one.
Groups(files) ==
    LET Firsts   == {r \in files : \A q \in files :
                         Before(q, r) => adjust_range(q)[2] < adjust_range(r)[1]}
        Group(r) == {q \in files :
                         ~Before(q, r) /\ \A f \in Firsts : Before(r, f) => Before(q, f)}
    IN  {Group(r) : r \in Firsts}

Width(r)  == adjust_range(r)[2] - adjust_range(r)[1]
Widest(G) == CHOOSE q \in G : \A o \in G :
                 Width(q) > Width(o) \/ (Width(q) = Width(o) /\ ~Before(o, q))

\* The widest file of a group stands for it.
Listed(node, files) == {[peer |-> node, file |-> Widest(G)] : G \in Groups(files)}

list_model_peers(held) == UNION {Listed(n, held[n]) : n \in Nodes}

Remote(t, held) == {e \in list_model_peers(held) : e.peer # host[t]}

\* MaxStages bounds the model, not the program: there is room for the workers
\* of every placement.
ASSUME StagesAssumption ==
    \A t \in Threads, held \in Placements : Cardinality(Remote(t, held)) <= MaxStages

\* The remote entries in the order of their peer ids.
Orders(t, held) ==
    {o \in SetToSeqs(Remote(t, held)) :
        \A i, j \in DOMAIN o : i < j => o[i].peer <= o[j].peer}

\* All layers, evenly; the first ones get what is left over.
Assign(o) ==
    LET per  == (Blocks + 2) \div Len(o)
        rest == (Blocks + 2) % Len(o)
        from(i) == (i - 1) * per + Min({i - 1, rest})
    IN  [i \in DOMAIN o |-> [peer |-> o[i].peer, file |-> o[i].file,
                             first |-> from(i), last |-> from(i + 1) - 1]]

NodeOf(s)     == IF s[2] = 0 THEN host[s[1]] ELSE plan[s[1]][s[2]].peer

Downstream(s) == <<s[1], IF s[2] = Len(plan[s[1]]) THEN 0 ELSE s[2] + 1>>

(***************************************************************************)
(* Streams and rendezvous.                                                 *)
(***************************************************************************)
\* Wrong variant: the stream the stage writes stays open.
DropReader(s) ==
    stream' = [x \in Stages |-> [stream[x] EXCEPT !.read = @ /\ reads[s] # x]]

\* What the end of a stage closes: its stream and the one it reads.  What is
\* on the way in its own may be lost.
Drop(s) ==
    \E lost \in BOOLEAN :
        stream' = [x \in Stages |->
            [stream[x] EXCEPT !.open = @ /\ x # s, !.read = @ /\ reads[s] # x,
                              !.q = IF lost /\ x = s THEN <<>> ELSE @]]

\* Wrong variant: what the program has loaded is not freed.
EndKeepingModels(s) ==
    /\ pc' = [pc EXCEPT ![s] = "ended"]
    /\ Drop(s)
    /\ UNCHANGED <<plan, sess, reads, pending_inbound, pending_accept, answered, work>>

\* The program of a stage ends, by an error or at its end: its Lua state goes.
End(s) ==
    /\ pc' = [pc EXCEPT ![s] = "ended"]
    /\ sess' = [sess EXCEPT ![s] = <<new, new>>]
    /\ Drop(s)
    /\ UNCHANGED <<plan, reads, pending_inbound, pending_accept, answered, work>>

\* A stream opened to a node: it arrives there once its handshake is read.
open_tensor_stream(s, node) ==
    stream' = [stream EXCEPT ![s] = [at |-> "flying", q |-> <<>>, open |-> TRUE, read |-> TRUE]]

\* Wrong variant: the id in the handshake is not looked at.
OneSlot(node, s) == <<node, Min(Range(sid))>>

\* Where a stream of the thread of s and a program that accepts it meet.
Slot(node, s) == <<node, sid[s[1]]>>

\* insert_inbound: to the program that waits under the id, even if it does no
\* more; else the stream waits, in the place of one that waited.
insert_inbound(s) ==
    /\ stream[s].at = "flying"
    /\ LET k == Slot(NodeOf(Downstream(s)), s)
           w == pending_accept[k]
           o == pending_inbound[k]
       IN  \/ /\ w # None
              /\ pending_accept' = [pending_accept EXCEPT ![k] = None]
              /\ IF pc[w] = "accept"
                 THEN /\ reads' = [reads EXCEPT ![w] = s]
                      /\ stream' = [stream EXCEPT ![s].at = "read"]
                 ELSE /\ stream' = [stream EXCEPT ![s].at = "read", ![s].read = FALSE]
                      /\ UNCHANGED reads
              /\ UNCHANGED pending_inbound
           \/ /\ w = None
              /\ pending_inbound' = [pending_inbound EXCEPT ![k] = s]
              /\ stream' = [x \in Stages |->
                     IF x = s THEN [stream[x] EXCEPT !.at = "pending"]
                     ELSE IF x = o THEN [stream[x] EXCEPT !.read = FALSE] ELSE stream[x]]
              /\ UNCHANGED <<reads, pending_accept>>
    /\ UNCHANGED <<pc, plan, sess, user, answered, work>>

\* register_accept: a stream that is there, or wait for one; whoever waited
\* under the id waits no more.
register_accept(s) ==
    LET k == Slot(NodeOf(s), s)
        i == pending_inbound[k]
    IN  \/ /\ i # None
           /\ pending_inbound' = [pending_inbound EXCEPT ![k] = None]
           /\ reads' = [reads EXCEPT ![s] = i]
           /\ stream' = [stream EXCEPT ![i].at = "read"]
           /\ UNCHANGED pending_accept
        \/ /\ i = None
           /\ pending_accept' = [pending_accept EXCEPT ![k] = s]
           /\ UNCHANGED <<pending_inbound, reads, stream>>

\* Wrong variant: there is no time limit.
FailsIfReplaced(s) ==
    /\ pc[s] = "accept" /\ reads[s] = None
    /\ pending_accept[Slot(NodeOf(s), s)] # s
    /\ End(s)
    /\ UNCHANGED user

\* accept_tensor_stream fails: another program has taken the place, or the
\* time is over.
accept_fails(s) ==
    /\ pc[s] = "accept" /\ reads[s] = None
    /\ End(s)
    /\ UNCHANGED user

send_tensor(s, frame) == stream' = [stream EXCEPT ![s].q = Append(@, frame)]

Readable(s) == reads[s] # None /\ stream[reads[s]].q # <<>>
Incoming(s) == Head(stream[reads[s]].q)
\* The stream is at its end: the stage that opened it is gone.
AtEnd(s) == reads[s] # None /\ stream[reads[s]].q = <<>> /\ ~stream[reads[s]].open

(***************************************************************************)
(* What all stages of a pipeline do: accept the stream they read.          *)
(***************************************************************************)
Register(s) ==
    /\ pc[s] = "register"
    /\ register_accept(s)
    /\ pc' = [pc EXCEPT ![s] = "accept"]
    /\ UNCHANGED <<plan, sess, user, answered, work>>

Accepted(s) ==
    /\ pc[s] = "accept" /\ reads[s] # None
    /\ pc' = [pc EXCEPT ![s] = IF s[2] = 0 THEN "connect" ELSE "open"]
    /\ UNCHANGED <<plan, sess, net, user, answered, work>>

\* The program opens the local stream its session accepts.  If the session has
\* given up nobody does, and recv_tensor waits for ever.
Connect(t) ==
    LET s == <<t, 0>> IN
    /\ pc[s] = "connect" /\ open[t]
    /\ pc' = [pc EXCEPT ![s] = IF plan[t] = <<>> THEN "preload" ELSE "loop"]
    /\ UNCHANGED <<plan, sess, net, user, answered, work>>

(***************************************************************************)
(* pipeline_coord.lua                                                      *)
(***************************************************************************)
\* It has a plan, and workers; the other program does not.
Coordinator(t) == plan[t] # <<>>

\* Phases 1 to 3: the model, the nodes that have it, the layers of each.
Plan(t) ==
    LET s == <<t, 0>> IN
    /\ pc[s] = "pipeline_coord"
    /\ \E held \in Placements :
          \/ /\ Orders(t, held) # {<<>>}
             /\ \E o \in Orders(t, held) : plan' = [plan EXCEPT ![t] = Assign(o)]
             /\ pc' = [pc EXCEPT ![s] = "dispatch"]
             /\ UNCHANGED <<sess, net, answered, work>>
          \/ (Orders(t, held) = {<<>>} \/ "load" \in Faults) /\ End(s)
    /\ UNCHANGED user

\* EXEC|pipe_worker goes to the next node.  If it is not answered the
\* coordinator gives up, also when the worker was started.
Dispatch(t) ==
    LET s == <<t, 0>>
        todo == {i \in DOMAIN plan[t] : pc[<<t, i>>] = "absent"}
    IN  /\ pc[s] = "dispatch" /\ todo # {}
        /\ \/ /\ pc' = [pc EXCEPT ![<<t, Min(todo)>>] = "load"]
              /\ UNCHANGED <<plan, sess, net, answered, work>>
           \/ "send" \in Faults /\ End(s)
           \/ /\ "send" \in Faults
              /\ pc' = [pc EXCEPT ![<<t, Min(todo)>>] = "load", ![s] = "ended"]
              /\ UNCHANGED <<plan, sess, net, answered, work>>
        /\ UNCHANGED user

OpenForward(t) ==
    LET s == <<t, 0>> IN
    /\ pc[s] = "dispatch" /\ \A i \in DOMAIN plan[t] : pc[<<t, i>>] # "absent"
    /\ \/ /\ open_tensor_stream(s, plan[t][1].peer)
          /\ pc' = [pc EXCEPT ![s] = "register"]
          /\ UNCHANGED <<plan, sess, reads, pending_inbound, pending_accept, answered, work>>
       \/ "send" \in Faults /\ End(s)
    /\ UNCHANGED user

Waiting(t) == Len(answered[t]) < Len(asked[t])

NextAsked(t) == asked[t][Len(answered[t]) + 1]

\* The bridge: a tensor of the session goes to the first worker, its logits
\* come back from the last.  Errors past the first receive end the program.
TakeTensor(t) ==
    LET s == <<t, 0>> IN
    /\ Coordinator(t) /\ pc[s] = "loop" /\ Waiting(t)
    /\ \/ /\ stream[s].read
          /\ send_tensor(s, TokenIds(NextAsked(t)))
          /\ pc' = [pc EXCEPT ![s] = "wait"]
          /\ UNCHANGED <<plan, sess, reads, pending_inbound, pending_accept, answered, work>>
       \/ ~stream[s].read /\ End(s)
    /\ UNCHANGED user

ReturnLogits(t) ==
    LET s == <<t, 0>> IN
    /\ pc[s] = "wait"
    /\ \/ /\ Readable(s) /\ open[t]
          /\ answered' = [answered EXCEPT ![t] = Append(@, Incoming(s))]
          /\ stream' = [stream EXCEPT ![reads[s]].q = Tail(@)]
          /\ pc' = [pc EXCEPT ![s] = "loop"]
          /\ UNCHANGED <<plan, sess, reads, pending_inbound, pending_accept, work>>
       \/ ((Readable(s) /\ ~open[t]) \/ AtEnd(s)) /\ End(s)
    /\ UNCHANGED user

\* The session is gone, or sent what cannot be read: the first worker is told.
CoordinatorEnds(t) ==
    LET s == <<t, 0>> IN
    /\ Coordinator(t) /\ pc[s] = "loop"
    /\ IF Waiting(t) THEN "run" \in Faults ELSE ~open[t]
    /\ pc' = [pc EXCEPT ![s] = "ended"]
    /\ stream' = [x \in Stages |->
            [stream[x] EXCEPT !.open = @ /\ x # s, !.read = @ /\ reads[s] # x,
                              !.q = IF x = s /\ stream[s].read THEN Append(@, Eof) ELSE @]]
    /\ UNCHANGED <<plan, sess, reads, pending_inbound, pending_accept, user, answered, work>>

(***************************************************************************)
(* pipe_worker.lua                                                         *)
(***************************************************************************)
\* The layers of the worker, one half to each GPU.
LoadHalves(s) ==
    LET e   == plan[s[1]][s[2]]
        mid == e.first + (e.last - e.first + 1) \div 2 - 1
    IN  /\ pc[s] = "load"
        /\ \E file \in {FileOf(e.file)} :
           \E a \in {load_model(new, file, e.first, mid)},
              b \in {load_model(new, file, mid + 1, e.last)} :
             \/ /\ a.ok /\ b.ok
                /\ sess' = [sess EXCEPT ![s] = <<a.sess, b.sess>>]
                /\ pc' = [pc EXCEPT ![s] = "register"]
                /\ UNCHANGED <<plan, net, answered, work>>
             \/ (~a.ok \/ ~b.ok \/ "load" \in Faults) /\ End(s)
        /\ UNCHANGED user

\* To the next worker, or back to the coordinator.  No node opens a stream to
\* itself.
OpenOut(s) ==
    /\ pc[s] = "open"
    /\ \/ /\ NodeOf(Downstream(s)) # NodeOf(s)
          /\ open_tensor_stream(s, NodeOf(Downstream(s)))
          /\ pc' = [pc EXCEPT ![s] = "loop"]
          /\ UNCHANGED <<plan, sess, reads, pending_inbound, pending_accept, answered, work>>
       \/ (NodeOf(Downstream(s)) = NodeOf(s) \/ "send" \in Faults) /\ End(s)
    /\ UNCHANGED user

\* A tensor at offset 0 begins a conversation.
Fresh(s, x) ==
    IF x.chunk[2] = 0 THEN <<reset_kv_cache(sess[s][1]), reset_kv_cache(sess[s][2])>>
    ELSE sess[s]

\* One tensor through both GPUs and on to the next stage.
Work(s) ==
    /\ s[2] > 0 /\ pc[s] = "loop" /\ Readable(s) /\ Incoming(s) # Eof
    /\ \E two \in {Fresh(s, Incoming(s))} :
       \E a \in {forward(two[1], Incoming(s))} :
       \E b \in {IF a.ok THEN forward(two[2], a.out) ELSE a} :
          \/ /\ b.ok /\ stream[s].read
             /\ sess' = [sess EXCEPT ![s] = <<a.sess, b.sess>>]
             /\ stream' = [[stream EXCEPT ![reads[s]].q = Tail(@)] EXCEPT ![s].q = Append(@, b.out)]
             /\ UNCHANGED <<pc, plan, reads, pending_inbound, pending_accept, answered, work>>
          \/ (~b.ok \/ ~stream[s].read \/ "run" \in Faults) /\ End(s)
    /\ UNCHANGED user

\* EOF, or the stage before is gone.
WorkerEnds(s) ==
    /\ s[2] > 0 /\ pc[s] = "loop"
    /\ AtEnd(s) \/ (Readable(s) /\ Incoming(s) = Eof)
    /\ End(s)
    /\ UNCHANGED user

(***************************************************************************)
(* offload_pingpong.lua                                                    *)
(***************************************************************************)
Half == (Blocks + 2) \div 2

\* Nothing but this stage's own state changes.
Local(s, next) ==
    /\ pc' = [pc EXCEPT ![s] = next]
    /\ UNCHANGED <<plan, net>>

\* The model is there to be read and analyzed.
Analyze(t) ==
    LET s == <<t, 0>> IN
    /\ pc[s] = "offload_pingpong"
    /\ \/ Local(s, "connect") /\ UNCHANGED <<sess, answered, work>>
       \/ "load" \in Faults /\ End(s)
    /\ UNCHANGED user

\* The first half is loaded before the first tensor comes.
Preload(t) ==
    LET s == <<t, 0>> IN
    /\ pc[s] = "preload"
    /\ \E a \in {load_model(new, GGUF_Analyze_And_Convert, 0, Half - 1)} :
          \/ /\ a.ok
             /\ sess' = [sess EXCEPT ![s] = <<a.sess, new>>]
             /\ Local(s, "loop") /\ UNCHANGED <<answered, work>>
          \/ (~a.ok \/ "load" \in Faults) /\ End(s)
    /\ UNCHANGED user

\* The first half runs and leaves the GPU.
FirstHalf(t) ==
    LET s == <<t, 0>> IN
    /\ ~Coordinator(t) /\ pc[s] = "loop" /\ Waiting(t)
    /\ \E x \in {TokenIds(NextAsked(t))} :
       \E two \in {Fresh(s, x)} :
       \E a \in {forward(two[1], x)} :
       \E off \in {IF a.ok THEN offload_to_cpu(a.sess) ELSE a} :
          \/ /\ off.ok
             /\ sess' = [sess EXCEPT ![s] = <<off.sess, two[2]>>]
             /\ work' = [work EXCEPT ![t] = a.out]
             /\ Local(s, "second") /\ UNCHANGED answered
          \/ (~off.ok \/ "run" \in Faults) /\ End(s)
    /\ UNCHANGED user

\* The second half is loaded anew for a prompt, and put back for a token.
BringSecond(t) ==
    IF work[t].chunk[2] = 0
    THEN load_model(sess[<<t, 0>>][2], GGUF_Analyze_And_Convert, Half, LastLayer)
    ELSE offload_to_cuda(sess[<<t, 0>>][2], GGUF_Analyze_And_Convert)

\* The second half runs and leaves the GPU; the logits go to the session.
SecondHalf(t) ==
    LET s == <<t, 0>> IN
    /\ pc[s] = "second"
    /\ \E b \in {BringSecond(t)} :
       \E c \in {IF b.ok THEN forward(b.sess, work[t]) ELSE b} :
       \E off \in {IF c.ok THEN offload_to_cpu(c.sess) ELSE c} :
          \/ /\ off.ok /\ open[t]
             /\ sess' = [sess EXCEPT ![s][2] = off.sess]
             /\ answered' = [answered EXCEPT ![t] = Append(@, c.out)]
             /\ work' = [work EXCEPT ![t] = None]
             /\ Local(s, "restore")
          \/ (~off.ok \/ ~open[t] \/ Faults \cap {"load", "run"} # {}) /\ End(s)
    /\ UNCHANGED user

\* The first half comes back for the next tensor.
BringFirst(t) ==
    LET s == <<t, 0>> IN
    /\ pc[s] = "restore"
    /\ \E a \in {offload_to_cuda(sess[s][1], GGUF_Analyze_And_Convert)} :
          \/ /\ a.ok
             /\ sess' = [sess EXCEPT ![s][1] = a.sess]
             /\ Local(s, "loop") /\ UNCHANGED <<answered, work>>
          \/ (~a.ok \/ "load" \in Faults) /\ End(s)
    /\ UNCHANGED user

\* The session is gone.
OffloadEnds(t) ==
    /\ ~Coordinator(t) /\ pc[<<t, 0>>] = "loop" /\ ~Waiting(t) /\ ~open[t]
    /\ End(<<t, 0>>)
    /\ UNCHANGED user

Connected(t) == pc[<<t, 0>>] \in {"preload", "loop", "wait", "second", "restore"}

(***************************************************************************)
(* The session (module Session): a prompt, then a token for each of the    *)
(* logits it gets; after MaxTokens of them it turns to the next prompt and *)
(* leaves one answer unread.  It may end at any time.                      *)
(***************************************************************************)
Ask(t) ==
    LET n      == Len(asked[t])
        unread == n - Len(answered[t])
        last   == IF n = 0 THEN <<0, 0>> ELSE asked[t][n]
    IN  /\ open[t] /\ Connected(t) /\ n < MaxFrames
        /\ \/ /\ n > 0 /\ unread = stale[t]
              /\ asked' = [asked EXCEPT ![t] = Append(@, <<last[1], last[2] + 1>>)]
              /\ UNCHANGED stale
           \/ /\ unread = stale[t]
              /\ asked' = [asked EXCEPT ![t] = Append(@, <<last[1] + 1, 0>>)]
              /\ UNCHANGED stale
           \/ /\ n > 0 /\ last[2] > 0 /\ unread = stale[t] + 1 /\ stale[t] < MaxStale
              /\ asked' = [asked EXCEPT ![t] = Append(@, <<last[1] + 1, 0>>)]
              /\ stale' = [stale EXCEPT ![t] = @ + 1]
    /\ UNCHANGED <<pc, plan, sess, net, open, answered, work>>

Close(t) ==
    /\ "close" \in Faults /\ open[t]
    /\ open' = [open EXCEPT ![t] = FALSE]
    /\ UNCHANGED <<pc, plan, sess, net, stale, asked, answered, work>>

ThreadStep(t) ==
    \/ Plan(t) \/ Dispatch(t) \/ OpenForward(t) \/ TakeTensor(t) \/ ReturnLogits(t)
    \/ CoordinatorEnds(t)
    \/ Connect(t) \/ Analyze(t) \/ Preload(t) \/ FirstHalf(t) \/ SecondHalf(t) \/ BringFirst(t)
    \/ OffloadEnds(t)

StageStep(s) ==
    \/ Register(s) \/ Accepted(s) \/ accept_fails(s)
    \/ LoadHalves(s) \/ OpenOut(s) \/ Work(s) \/ WorkerEnds(s)

Next ==
    \/ \E t \in Threads : ThreadStep(t) \/ Ask(t) \/ Close(t)
    \/ \E s \in Stages : StageStep(s) \/ insert_inbound(s)

Spec == Init /\ [][Next]_vars

\* The runtime runs every program that can go on, calls time out, and the
\* network delivers a handshake that was written.  Nobody has to ask.
FairSpec ==
    /\ Spec
    /\ \A t \in Threads : WF_vars(ThreadStep(t))
    /\ \A s \in Stages : WF_vars(StageStep(s)) /\ WF_vars(insert_inbound(s))

(***************************************************************************)
(* Properties.                                                             *)
(***************************************************************************)
ChunkSet == (1..MaxFrames) \X (0..(MaxFrames - 1))

\* Every variable has its type; a stage holds models only while it runs.
TypeOK ==
    /\ pc \in [Stages -> Programs \cup
                  {"absent", "dispatch", "load", "register", "accept", "open", "connect",
                   "preload", "loop", "wait", "second", "restore", "ended"}]
    /\ \A t \in Threads : Len(plan[t]) <= MaxStages
    /\ \A s \in Stages : /\ stream[s].at \in {"none", "flying", "pending", "read"}
                         /\ Len(stream[s].q) <= 1
                         /\ pc[s] \in Programs \cup {"absent", "ended"} => sess[s] = <<new, new>>
    /\ reads \in [Stages -> Stages \cup {None}]
    /\ pending_inbound \in [Slots -> Stages \cup {None}]
    /\ pending_accept \in [Slots -> Stages \cup {None}]
    /\ open \in [Threads -> BOOLEAN] /\ stale \in [Threads -> 0..MaxStale]
    /\ \A t \in Threads : Range(asked[t]) \subseteq ChunkSet /\ Len(answered[t]) <= Len(asked[t])

\* Every stage reads the stream of the stage before it, the coordinator that of
\* the last worker: a tensor passes all layers in their order and no other
\* pipeline, although a node knows an arriving stream only by the id and not by
\* who opened it, and may have stages of several pipelines that accept one.
Upstream(s)  == <<s[1], IF s[2] = 0 THEN Len(plan[s[1]]) ELSE s[2] - 1>>
StagesLinked == \A s \in Stages : reads[s] # None => reads[s] = Upstream(s)

\* The k-th answer a session gets belongs to the k-th tensor it has sent: no
\* answer is lost, doubled or overtaken on its way through programs, streams
\* and workers, also when the session goes on to the next prompt without
\* reading the one it is owed (local_recv_frame does not say which tensor a
\* frame answers, the session counts them).
AnswersInOrder ==
    \A t \in Threads : \A k \in DOMAIN answered[t] : answered[t][k].chunk = asked[t][k]

Ideal == INSTANCE MlThread
    WITH Chunks <- ChunkSet, dead <- [t \in Threads |-> pc[<<t, 0>>] = "ended"]

\* Whichever program runs the model, the session gets for its k-th tensor the
\* logits of the whole model: every layer once and in order, with the weights
\* the converted file has for it, attending to this conversation and to nothing
\* else; the layers being spread over nodes, files and GPUs, the GPU taken away
\* between two tensors, and streams matched by an id.
ImplementsMlThread == Ideal!Spec

\* A tensor the session has sent is answered, or the program that should have
\* done it has ended and the session finds its stream closed.
TensorsAnswered ==
    \A t \in Threads : \A k \in 1..MaxFrames :
        Len(asked[t]) >= k ~> Len(answered[t]) >= k \/ pc[<<t, 0>>] = "ended"

\* When the coordinator has ended, for whatever reason and wherever in the
\* set-up of the pipeline, or the session it was connected to has, every worker
\* it started ends too and gives up its GPUs.
WorkersEnd ==
    \A t \in Threads : \A i \in 1..MaxStages :
        pc[<<t, 0>>] = "ended" \/ (Connected(t) /\ ~open[t])
            ~> pc[<<t, i>>] \in {"absent", "ended"}

\* What is loaded as a layer has the weights of that layer: the conversion of
\* a .gguf file keeps all of them.
WeightsKept ==
    \A s \in Stages, h \in 1..2 :
        LET m == sess[s][h].model
        IN  m # None =>
              /\ \A i \in DOMAIN m.blocks : m.blocks[i] = Max({sess[s][h].layers[1], 1}) + i - 1
              /\ m.input # <<>> => m.input = <<TokenEmbd>>
              /\ m.head # <<>> => m.head = <<OutputNorm, IF Tied THEN TokenEmbd ELSE Output>>
=============================================================================
