------------------------------- MODULE Session -------------------------------
(***************************************************************************)
(* One inference session (Src/Session_Manager), from create_session on:    *)
(* the slots the manager gives to clients, the task spawned by Session,    *)
(* the ML thread it talks to over a local stream (programs/user/           *)
(* single_inf.lua), and the clients that hold a slot: the handler of an    *)
(* API server (Src/API/routes.rs), serial over its HTTP requests, or the   *)
(* bridge of a remote chat (Src/Orchestrator/core/branch_stream.rs).       *)
(*                                                                         *)
(* What is generated is abstracted to where it comes from: a token is the  *)
(* request whose logits it was sampled from and its place in the answer.   *)
(* destroy_session and close_slot have no caller and are left out.         *)
(***************************************************************************)
EXTENDS Naturals, Sequences, FiniteSets, SequencesExt

CONSTANTS Clients,   \* API servers and bridges of this session
          Bridges,   \* the clients that are bridges
          Requests, clientOf,
          Streaming, \* the HTTP requests with "stream": true
          MaxSlots,  \* slots of the session
          MaxTokens, \* min(max_tokens, 2048) of every request
          Faults,    \* what may go wrong in this instance
          None

ASSUME SessionConstants ==
    /\ Bridges \subseteq Clients
    /\ clientOf \in [Requests -> Clients]
    /\ Streaming \subseteq Requests
    /\ MaxSlots \in Nat /\ MaxTokens \in Nat \ {0}
    /\ Faults \subseteq {"load", "accept", "encode", "generate", "ml", "limit", "hangup", "bind", "read"}
    /\ None \notin Clients \cup Requests

VARIABLES
    slots,   \* the client in each slot, or None
    notify,  \* slot_notify channel: clients whose slot the task has not taken
    task,    \* where the session task is
    cur,     \* the client whose prompt_rx and slot_id the task holds
    gen,     \* the request being answered, or None
    left,    \* tokens it may still get
    said,    \* history: tokens sent for each request
    prompts, \* prompt channel of each client
    tokens,  \* token channel of each client
    ml,      \* the ML thread: absent, open or dead
    mlIn,    \* frames on the way to it, each with its request
    mlOut,   \* logits on the way back, each with the request they are of
    client,  \* where each client is
    asking,  \* the request it is answering
    status, reply \* what became of each request, and what its asker got

session == <<slots, notify, task, cur, gen, left, said>>
mlVars  == <<ml, mlIn, mlOut>>
askers  == <<client, asking, status, reply>>
vars    == <<session, prompts, tokens, mlVars, askers>>

SlotIds == 0..(MaxSlots - 1)
End     == <<"\\0">>       \* the empty sentinel, "\0" in the code
Token(r, n) == <<r, n>>

Init ==
    /\ slots = [i \in SlotIds |-> None] /\ notify = <<>>
    /\ task = "Load" /\ cur = None /\ gen = None /\ left = 0
    /\ said = [r \in Requests |-> 0]
    /\ prompts = [c \in Clients |-> <<>>] /\ tokens = [c \in Clients |-> <<>>]
    /\ ml = "absent" /\ mlIn = <<>> /\ mlOut = <<>>
    /\ client = [c \in Clients |-> "absent"] /\ asking = [c \in Clients |-> None]
    /\ status = [r \in Requests |-> "new"] /\ reply = [r \in Requests |-> <<>>]

Vacant == {i \in SlotIds : slots[i] = None}

\* The receiver of the client's prompts exists: in the notify channel or in
\* the hands of the task.
PromptOpen(c) == c = cur \/ c \in Range(notify)

(***************************************************************************)
(* SessionManager.allocate_slot, called by spawn_api_server or the bridge. *)
(***************************************************************************)
allocate_slot(c) ==
    LET i == CHOOSE j \in Vacant : \A k \in Vacant : j <= k
    IN  /\ slots' = [slots EXCEPT ![i] = c]
        /\ notify' = IF task = "Gone" THEN notify ELSE Append(notify, c)

\* SlotExhausted refuses the client.  A server that cannot bind its port
\* drops the handler; the slot stays taken.
Connect(c) ==
    /\ client[c] = "absent"
    /\ \/ /\ Vacant # {} /\ allocate_slot(c)
          /\ \/ client' = [client EXCEPT ![c] = "idle"]
             \/ /\ c \notin Bridges /\ "bind" \in Faults
                /\ client' = [client EXCEPT ![c] = "gone"]
       \/ /\ Vacant = {}
          /\ client' = [client EXCEPT ![c] = "gone"]
          /\ UNCHANGED <<slots, notify>>
    /\ UNCHANGED <<task, cur, gen, left, said, prompts, tokens, mlVars, asking, status, reply>>

(***************************************************************************)
(* The clients.                                                            *)
(***************************************************************************)
\* The next request goes to the session; if that is closed the client ends.
Submit(c, r) ==
    /\ client[c] = "idle" /\ status[r] = "new" /\ clientOf[r] = c
    /\ \/ /\ PromptOpen(c)
          /\ prompts' = [prompts EXCEPT ![c] = Append(@, r)]
          /\ client' = [client EXCEPT ![c] = "collect"]
          /\ asking' = [asking EXCEPT ![c] = r]
          /\ status' = [status EXCEPT ![r] = "active"]
       \/ /\ ~PromptOpen(c)
          /\ client' = [client EXCEPT ![c] = "gone"]
          /\ status' = [status EXCEPT ![r] = "error"]
          /\ UNCHANGED <<prompts, asking>>
    /\ UNCHANGED <<session, tokens, mlVars, reply>>

\* An HTTP request to a server whose handler has ended fails.
Refuse(r) ==
    /\ client[clientOf[r]] = "gone" /\ clientOf[r] \notin Bridges /\ status[r] = "new"
    /\ status' = [status EXCEPT ![r] = "error"]
    /\ UNCHANGED <<session, prompts, tokens, mlVars, client, asking, reply>>

\* The request in hand is over; the client goes on or ends.
Conclude(c, outcome, next) ==
    /\ status' = [status EXCEPT ![asking[c]] = outcome]
    /\ asking' = [asking EXCEPT ![c] = None]
    /\ client' = [client EXCEPT ![c] = next]

\* The sentinel ends the answer.
CollectEnd(c) ==
    /\ client[c] = "collect" /\ tokens[c] # <<>> /\ Head(tokens[c]) = End
    /\ tokens' = [tokens EXCEPT ![c] = Tail(@)]
    /\ Conclude(c, "done", "idle")
    /\ UNCHANGED <<session, prompts, mlVars, reply>>

CollectToken(c) ==
    /\ client[c] = "collect" /\ tokens[c] # <<>> /\ Head(tokens[c]) # End
    /\ tokens' = [tokens EXCEPT ![c] = Tail(@)]
    /\ reply' = [reply EXCEPT ![asking[c]] = Append(@, Head(tokens[c]))]
    /\ UNCHANGED <<session, prompts, mlVars, client, asking, status>>

\* The asker is gone when the token is passed on: the handler leaves the
\* answer where it is and turns to its next request; a bridge finds its
\* stream broken when it reads the next prompt.
Hangup(c) ==
    /\ "hangup" \in Faults
    /\ client[c] = "collect" /\ tokens[c] # <<>> /\ Head(tokens[c]) # End
    /\ \/ asking[c] \in Streaming /\ c \notin Bridges /\ Conclude(c, "abandoned", "idle")
       \/ c \in Bridges /\ Conclude(c, "abandoned", "gone")
    /\ tokens' = [tokens EXCEPT ![c] = Tail(@)]
    /\ UNCHANGED <<session, prompts, mlVars, reply>>

\* The remote chat closes its stream.
ReadError(c) ==
    /\ "read" \in Faults /\ c \in Bridges /\ client[c] = "idle"
    /\ client' = [client EXCEPT ![c] = "gone"]
    /\ UNCHANGED <<session, prompts, tokens, mlVars, asking, status, reply>>

(***************************************************************************)
(* The session task.                                                       *)
(***************************************************************************)
\* The task ends: its receivers are dropped, with what is in them, and its
\* end of the ML stream, once it has it, which fails the script.  The manager
\* keeps the session and, in its slots, the senders of tokens.
Terminate ==
    /\ task' = "Gone" /\ cur' = None /\ gen' = None /\ left' = 0
    /\ notify' = <<>> /\ prompts' = [c \in Clients |-> <<>>]
    /\ mlIn' = <<>> /\ mlOut' = <<>>
    /\ ml' = IF task \in {"Load", "AcceptMl"} THEN ml ELSE "dead"
    /\ UNCHANGED <<slots, said, tokens, askers>>

LoadTokenizer ==
    /\ task = "Load"
    /\ \/ /\ task' = "AcceptMl"
          /\ UNCHANGED <<slots, notify, cur, gen, left, said, prompts, tokens, mlVars, askers>>
       \/ "load" \in Faults /\ Terminate

AcceptMl ==
    /\ task = "AcceptMl"
    /\ \/ /\ ml # "absent"
          /\ task' = "FirstSlot"
          /\ UNCHANGED <<slots, notify, cur, gen, left, said, prompts, tokens, mlVars, askers>>
       \/ "accept" \in Faults /\ Terminate

\* The next slot of the notify channel becomes the one the task serves; the
\* prompt_rx it had is dropped, with what is in it.
TakeSlot ==
    /\ task \in {"FirstSlot", "Loop"} /\ notify # <<>>
    /\ cur' = Head(notify) /\ notify' = Tail(notify)
    /\ prompts' = [c \in Clients |-> IF c = cur THEN <<>> ELSE prompts[c]]
    /\ task' = "Loop"
    /\ UNCHANGED <<slots, gen, left, said, tokens, mlVars, askers>>

NoMoreSlots ==
    /\ task = "Loop" /\ notify = <<>>
    /\ task' = "Recv"
    /\ UNCHANGED <<slots, notify, cur, gen, left, said, prompts, tokens, mlVars, askers>>

\* A prompt: encoded and sent to the ML thread.  If it cannot be encoded the
\* task goes back to its loop; if it cannot be sent the task ends.
RecvPrompt ==
    /\ task = "Recv" /\ prompts[cur] # <<>>
    /\ \/ /\ ml = "open"
          /\ gen' = Head(prompts[cur]) /\ left' = MaxTokens
          /\ mlIn' = Append(mlIn, Head(prompts[cur]))
          /\ prompts' = [prompts EXCEPT ![cur] = Tail(@)]
          /\ task' = "Gen"
          /\ UNCHANGED <<slots, notify, cur, said, tokens, ml, mlOut, askers>>
       \/ /\ "encode" \in Faults
          /\ prompts' = [prompts EXCEPT ![cur] = Tail(@)]
          /\ task' = "Loop"
          /\ UNCHANGED <<slots, notify, cur, gen, left, said, tokens, mlVars, askers>>
       \/ ml = "dead" /\ Terminate

\* All senders of prompts are gone: the task ends, whoever else has a slot.
PromptClosed ==
    /\ task = "Recv" /\ prompts[cur] = <<>> /\ client[cur] = "gone"
    /\ Terminate

\* Wrong variant: the loop is left without the sentinel.
FinishSilently(out) ==
    /\ task' = "Loop" /\ gen' = None /\ left' = 0
    /\ tokens' = [tokens EXCEPT ![cur] = out]
    /\ UNCHANGED <<slots, notify, cur, prompts, ml, askers>>

\* The generation loop is left: the sentinel goes to the slot.
Finish(out) ==
    /\ task' = "Loop" /\ gen' = None /\ left' = 0
    /\ tokens' = [tokens EXCEPT ![cur] = Append(out, End)]
    /\ UNCHANGED <<slots, notify, cur, prompts, ml, askers>>

\* Wrong variant: the frame of a token is sent before EOS is looked at.
GenEosLate ==
    /\ task = "Gen" /\ left > 0 /\ mlOut # <<>>
    /\ mlOut' = Tail(mlOut)
    /\ mlIn' = Append(mlIn, gen)
    /\ Finish(tokens[cur])
    /\ UNCHANGED said

\* EOS is sampled, or the logits cannot be used.
GenEos ==
    /\ task = "Gen" /\ left > 0 /\ mlOut # <<>>
    /\ mlOut' = Tail(mlOut)
    /\ Finish(tokens[cur])
    /\ UNCHANGED <<said, mlIn>>

\* The ML thread is gone: recv error.
GenRecvError ==
    /\ task = "Gen" /\ left > 0 /\ mlOut = <<>> /\ ml = "dead"
    /\ Finish(tokens[cur])
    /\ UNCHANGED <<said, mlIn, mlOut>>

\* Wrong variant: the limit is not looked at.
GenTokenUnlimited ==
    /\ task = "Gen" /\ mlOut # <<>> /\ ml = "open"
    /\ mlOut' = Tail(mlOut)
    /\ said' = [said EXCEPT ![gen] = @ + 1]
    /\ tokens' = [tokens EXCEPT ![cur] = Append(@, Token(Head(mlOut), said[gen] + 1))]
    /\ mlIn' = Append(mlIn, gen)
    /\ left' = left - 1
    /\ UNCHANGED <<slots, notify, task, cur, gen, prompts, ml, askers>>

\* A token is sampled and sent to the slot, and its frame to the ML thread.
\* Without the fault "limit" the model ends every answer within MaxTokens.
GenToken ==
    /\ task = "Gen" /\ mlOut # <<>>
    /\ left > (IF "limit" \in Faults THEN 0 ELSE 1)
    /\ LET out == Append(tokens[cur], Token(Head(mlOut), said[gen] + 1))
       IN  \/ /\ ml = "open"
              /\ tokens' = [tokens EXCEPT ![cur] = out]
              /\ mlIn' = Append(mlIn, gen)
              /\ left' = left - 1
              /\ UNCHANGED <<slots, notify, task, cur, gen, prompts, ml, askers>>
           \/ /\ ml = "dead" \/ "generate" \in Faults
              /\ Finish(out)
              /\ UNCHANGED mlIn
    /\ mlOut' = Tail(mlOut)
    /\ said' = [said EXCEPT ![gen] = @ + 1]

\* A token that cannot be decoded is not sent, but the answer goes on.
GenDecodeError ==
    /\ "generate" \in Faults
    /\ task = "Gen" /\ mlOut # <<>> /\ ml = "open"
    /\ left > (IF "limit" \in Faults THEN 0 ELSE 1)
    /\ mlOut' = Tail(mlOut) /\ mlIn' = Append(mlIn, gen) /\ left' = left - 1
    /\ UNCHANGED <<slots, notify, task, cur, gen, said, prompts, tokens, ml, askers>>

\* gen_limit tokens are sent: the loop ends, with the last frame on its way.
GenLimit ==
    /\ task = "Gen" /\ left = 0
    /\ Finish(tokens[cur])
    /\ UNCHANGED <<said, mlIn, mlOut>>

TaskStep ==
    \/ LoadTokenizer \/ AcceptMl \/ TakeSlot \/ NoMoreSlots \/ RecvPrompt \/ PromptClosed
    \/ GenEos \/ GenRecvError \/ GenToken \/ GenDecodeError \/ GenLimit

(***************************************************************************)
(* The ML thread: open the stream, then one forward pass per frame.        *)
(***************************************************************************)
MlOpen ==
    /\ ml = "absent"
    /\ ml' = "open"
    /\ UNCHANGED <<session, prompts, tokens, mlIn, mlOut, askers>>

MlForward ==
    /\ ml = "open" /\ mlIn # <<>>
    /\ mlIn' = Tail(mlIn) /\ mlOut' = Append(mlOut, Head(mlIn))
    /\ UNCHANGED <<session, prompts, tokens, ml, askers>>

\* The script fails.
MlDies ==
    /\ ml = "open" /\ "ml" \in Faults
    /\ ml' = "dead" /\ mlIn' = <<>>
    /\ UNCHANGED <<session, prompts, tokens, mlOut, askers>>

Next ==
    \/ TaskStep \/ MlOpen \/ MlForward \/ MlDies
    \/ \E c \in Clients : \/ Connect(c) \/ CollectEnd(c) \/ CollectToken(c)
                          \/ Hangup(c) \/ ReadError(c)
    \/ \E c \in Clients, r \in Requests : Submit(c, r)
    \/ \E r \in Requests : Refuse(r)

Spec == Init /\ [][Next]_vars

\* The runtime polls a task whose channel or stream has something for it, and
\* the user starts the ML thread.  Nobody is forced to connect, to ask, to
\* hang up or to fail.
FairSpec ==
    /\ Spec
    /\ WF_vars(TaskStep) /\ WF_vars(MlOpen) /\ WF_vars(MlForward)
    /\ \A c \in Clients : WF_vars(CollectEnd(c) \/ CollectToken(c))

(***************************************************************************)
(* Properties.                                                             *)
(***************************************************************************)
TokenSet == (Requests \X (1..MaxTokens)) \cup {End}

\* Every variable has its type; a request never gets more tokens than it may.
TypeOK ==
    /\ slots \in [SlotIds -> Clients \cup {None}] /\ notify \in Seq(Clients)
    /\ task \in {"Load", "AcceptMl", "FirstSlot", "Loop", "Recv", "Gen", "Gone"}
    /\ cur \in Clients \cup {None} /\ gen \in Requests \cup {None}
    /\ left \in 0..MaxTokens /\ said \in [Requests -> 0..MaxTokens]
    /\ prompts \in [Clients -> Seq(Requests)] /\ tokens \in [Clients -> Seq(TokenSet)]
    /\ ml \in {"absent", "open", "dead"} /\ mlIn \in Seq(Requests) /\ mlOut \in Seq(Requests)
    /\ client \in [Clients -> {"absent", "idle", "collect", "gone"}]
    /\ asking \in [Clients -> Requests \cup {None}]
    /\ status \in [Requests -> {"new", "active", "done", "abandoned", "error"}]
    /\ reply \in [Requests -> Seq(TokenSet)]

\* Every answer consists of the tokens sampled for its request, in order, and
\* a finished one has all of them: slots, prompt and token channels and the
\* stream to the ML thread never mix two requests up.
ReplyExact ==
    \A r \in Requests :
        /\ \A n \in DOMAIN reply[r] : reply[r][n] = Token(r, n)
        /\ status[r] = "done" => Len(reply[r]) = said[r]

\* A request that the handler has passed to the session is answered, or its
\* asker has hung up.
EveryRequestAnswered ==
    \A r \in Requests : status[r] = "active" ~> status[r] # "active"

=============================================================================
