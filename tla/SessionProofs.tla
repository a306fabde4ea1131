----------------------------- MODULE SessionProofs -----------------------------
(***************************************************************************)
(* Proofs about Session, for any clients, requests, slots and limits.      *)
(* Types hold whatever fails.  That answers are exact holds as long as no  *)
(* answer ends at its limit and no HTTP asker hangs up: both leave frames  *)
(* or tokens of one request behind for the next one.                       *)
(***************************************************************************)
EXTENDS Session, SequenceTheorems, TLAPS

(***************************************************************************)
(* What makes the types inductive.                                         *)
(***************************************************************************)
\* The task holds a slot once it has taken one, and a request exactly while it
\* generates, of which it never has sent more than it may.
TaskHolds ==
    /\ task \in {"Loop", "Recv", "Gen"} => cur \in Clients
    /\ task = "Gen" <=> gen # None
    /\ gen # None => said[gen] + left <= MaxTokens /\ status[gen] # "new"

\* A client that collects an answer has asked for it.
AskerHolds ==
    \A c \in Clients : client[c] = "collect" => asking[c] \in Requests /\ clientOf[asking[c]] = c

\* A request is in the channel of its own client, at one place, and nothing of
\* its answer exists yet.
PromptsFresh ==
    \A c \in Clients : \A i \in 1..Len(prompts[c]) :
        /\ clientOf[prompts[c][i]] = c /\ prompts[c][i] # gen
        /\ status[prompts[c][i]] # "new" /\ said[prompts[c][i]] = 0
        /\ \A j \in 1..Len(prompts[c]) : prompts[c][i] = prompts[c][j] => i = j

\* Nothing was said to a request that has not been submitted.
NewUnsaid == \A r \in Requests : status[r] = "new" => said[r] = 0

TInv == TypeOK /\ TaskHolds /\ AskerHolds /\ PromptsFresh /\ NewUnsaid

(***************************************************************************)
(* What makes ReplyExact inductive.                                        *)
(***************************************************************************)
\* The hypotheses: no answer ends at its limit with a frame still on its way,
\* and nobody but a bridge leaves an answer before its end.
Orderly == "limit" \notin Faults /\ ("hangup" \in Faults => Streaming = {})

\* At most one frame is between the task and the ML thread, of the request
\* that is answered; between answers there is none.
OneFrame ==
    /\ Len(mlIn) + Len(mlOut) <= 1
    /\ \A i \in 1..Len(mlIn) : mlIn[i] = gen
    /\ \A i \in 1..Len(mlOut) : mlOut[i] = gen
    /\ gen = None => mlIn = <<>> /\ mlOut = <<>>
    /\ ml # "open" => mlIn = <<>>
    /\ gen # None => left > 0

\* The request that is answered is the one its client collects, unless the
\* client is gone, and no other request of the client waits behind it.
GenOfClient ==
    gen # None =>
        /\ clientOf[gen] = cur /\ prompts[cur] = <<>> /\ status[gen] # "done"
        /\ client[cur] = "gone" \/ (client[cur] = "collect" /\ asking[cur] = gen)

\* A client has at most one request in its channel, which it waits for.
OnePrompt ==
    \A c \in Clients : prompts[c] # <<>> =>
        /\ client[c] = "collect" /\ prompts[c] = <<asking[c]>>
        /\ tokens[c] = <<>> /\ reply[asking[c]] = <<>>

\* The first k of `toks` are the tokens of request r from the n-th on, and
\* with them all s that were sent.
Continues(r, n, s, toks, k) ==
    (\A i \in 1..k : toks[i] = Token(r, n + i)) /\ s = n + k

\* What is in the channel of a client continues the answer it collects, up to
\* the sentinel if the answer is over.
Remaining(r, n, s, toks, over) ==
    \/ Continues(r, n, s, toks, Len(toks))
    \/ over /\ toks # <<>> /\ toks[Len(toks)] = End /\ Continues(r, n, s, toks, Len(toks) - 1)

Collected ==
    \A c \in Clients :
        /\ client[c] = "collect" =>
              /\ status[asking[c]] = "active"
              /\ Remaining(asking[c], Len(reply[asking[c]]), said[asking[c]], tokens[c], gen # asking[c])
        /\ client[c] \in {"idle", "absent"} => tokens[c] = <<>>

\* A request that has not been submitted has no answer.
NewUnanswered == \A r \in Requests : status[r] = "new" => reply[r] = <<>>

RInv == OneFrame /\ GenOfClient /\ OnePrompt /\ Collected /\ NewUnanswered /\ ReplyExact

(***************************************************************************)
(* Types.                                                                  *)
(***************************************************************************)
\* The state create_session starts from satisfies the invariant.
LEMMA InitTInv == Init => TInv
<1> SUFFICES ASSUME Init PROVE TInv
  OBVIOUS
<1> USE SessionConstants, EmptySeq
<1>1. TypeOK
  BY DEF Init, TypeOK, SlotIds
<1>2. TaskHolds /\ AskerHolds /\ NewUnsaid
  BY DEF Init, TaskHolds, AskerHolds, NewUnsaid
<1>3. PromptsFresh
  BY DEF Init, PromptsFresh
<1> QED BY <1>1, <1>2, <1>3 DEF TInv

\* A step that adds no prompt and says nothing to a request that waits keeps
\* the prompts fresh.
LEMMA PromptsFrame ==
    ASSUME TInv, gen' \in {gen, None},
           \A c \in Clients : prompts'[c] \in {prompts[c], <<>>},
           \A r \in Requests : status[r] # "new" => status'[r] # "new",
           \A r \in Requests : r # gen => said'[r] = said[r]
    PROVE  PromptsFresh'
<1> USE SessionConstants
<1> SUFFICES ASSUME NEW c \in Clients, NEW i \in 1..Len(prompts'[c])
             PROVE  /\ clientOf[prompts'[c][i]] = c /\ prompts'[c][i] # gen'
                    /\ status'[prompts'[c][i]] # "new" /\ said'[prompts'[c][i]] = 0
                    /\ \A j \in 1..Len(prompts'[c]) : prompts'[c][i] = prompts'[c][j] => i = j
  BY DEF PromptsFresh
<1>1. prompts'[c] = prompts[c]
  BY EmptySeq
<1>2. prompts[c][i] \in Requests
  BY <1>1, ElementOfSeq DEF TInv, TypeOK
<1> QED BY <1>1, <1>2 DEF TInv, PromptsFresh

\* The request a client has in hand is over, and it goes on or ends.
LEMMA ConcludeTInv ==
    ASSUME TInv, NEW c \in Clients, NEW outcome \in {"done", "abandoned"}, NEW next \in {"idle", "gone"},
           client[c] = "collect", tokens[c] # <<>>, tokens' = [tokens EXCEPT ![c] = Tail(@)],
           Conclude(c, outcome, next), UNCHANGED <<session, prompts, mlVars, reply>>
    PROVE  TInv'
<1> USE SessionConstants
<1>1. tokens' \in [Clients -> Seq(TokenSet)]
  BY HeadTailProperties DEF TInv, TypeOK
<1>2. asking[c] \in Requests
  BY DEF TInv, AskerHolds
<1>3. TypeOK'
  BY <1>1, <1>2 DEF Conclude, session, mlVars, TInv, TypeOK
<1>4. TaskHolds' /\ NewUnsaid'
  BY <1>2 DEF Conclude, session, TInv, TypeOK, TaskHolds, NewUnsaid
<1>5. AskerHolds'
  BY DEF Conclude, TInv, TypeOK, AskerHolds
<1>6. PromptsFresh'
  BY <1>2, PromptsFrame DEF Conclude, session, TInv, TypeOK
<1> QED BY <1>3, <1>4, <1>5, <1>6 DEF TInv

\* The end of the task keeps the types.
LEMMA TerminateTInv == ASSUME TInv, Terminate PROVE TInv'
<1> USE SessionConstants, EmptySeq
<1>1. TypeOK'
  BY DEF Terminate, askers, TInv, TypeOK
<1>2. TaskHolds' /\ AskerHolds' /\ NewUnsaid'
  BY DEF Terminate, askers, TInv, TaskHolds, AskerHolds, NewUnsaid
<1>3. PromptsFresh'
  BY DEF Terminate, PromptsFresh
<1> QED BY <1>1, <1>2, <1>3 DEF TInv

\* Leaving the generation loop, with what was sent until then and the sentinel.
LEMMA FinishTInv ==
    ASSUME TInv, NEW out \in Seq(TokenSet), Finish(out), task = "Gen",
           mlIn' \in Seq(Requests), mlOut' \in Seq(Requests),
           said' \in [Requests -> 0..MaxTokens],
           \A r \in Requests : r # gen => said'[r] = said[r]
    PROVE  TInv'
<1> USE SessionConstants
<1>1. cur \in Clients /\ gen \in Requests /\ status[gen] # "new"
  BY DEF TInv, TypeOK, TaskHolds
<1>2. Append(out, End) \in Seq(TokenSet)
  BY AppendProperties DEF TokenSet
<1>3. tokens' \in [Clients -> Seq(TokenSet)]
  BY <1>2 DEF Finish, TInv, TypeOK
<1>4. TypeOK'
  <2>1. /\ task' = "Loop" /\ gen' = None /\ left' = 0 /\ slots' = slots /\ notify' = notify /\ cur' = cur
        /\ prompts' = prompts /\ ml' = ml /\ client' = client /\ asking' = asking
        /\ status' = status /\ reply' = reply
    BY DEF Finish, askers
  <2>2. left' \in 0..MaxTokens
    BY <2>1
  <2> QED BY <1>3, <2>1, <2>2 DEF TInv, TypeOK
<1>5. TaskHolds' /\ AskerHolds'
  BY <1>1 DEF Finish, askers, TInv, TaskHolds, AskerHolds
<1>6. NewUnsaid'
  BY <1>1 DEF Finish, askers, TInv, NewUnsaid
<1>7. PromptsFresh'
  BY PromptsFrame DEF Finish, askers
<1> QED BY <1>4, <1>5, <1>6, <1>7 DEF TInv

\* Taking the next prompt: it becomes the request that is answered.
LEMMA RecvPromptTInv == ASSUME TInv, RecvPrompt PROVE TInv'
<1> USE SessionConstants
<1> DEFINE r == Head(prompts[cur])
           q == Tail(prompts[cur])
<1>1. cur \in Clients /\ prompts[cur] \in Seq(Requests) /\ prompts[cur] # <<>>
      /\ gen = None
  BY DEF RecvPrompt, TInv, TypeOK, TaskHolds
<1>2. /\ r \in Requests /\ r = prompts[cur][1] /\ Len(prompts[cur]) \in Nat \ {0}
      /\ q \in Seq(Requests) /\ Len(q) = Len(prompts[cur]) - 1
      /\ \A i \in 1..Len(q) : q[i] = prompts[cur][i + 1]
  BY <1>1, HeadTailProperties, EmptySeq
<1>3. 1 \in 1..Len(prompts[cur])
  BY <1>2
<1>4. said[r] = 0 /\ status[r] # "new" /\ clientOf[r] = cur
  BY <1>1, <1>2, <1>3 DEF TInv, PromptsFresh
<1>5. \A i \in 1..Len(q) : /\ i + 1 \in 1..Len(prompts[cur]) /\ q[i] # r
                            /\ clientOf[q[i]] = cur /\ status[q[i]] # "new" /\ said[q[i]] = 0
                            /\ \A j \in 1..Len(q) : q[i] = q[j] => i = j
  BY <1>1, <1>2, <1>3 DEF TInv, PromptsFresh
<1>6. ASSUME prompts' = [prompts EXCEPT ![cur] = q], gen' \in {None, r}, UNCHANGED <<said, askers>>
      PROVE  PromptsFresh' /\ prompts' \in [Clients -> Seq(Requests)] /\ AskerHolds' /\ NewUnsaid'
  <2>1. prompts' \in [Clients -> Seq(Requests)]
    BY <1>1, <1>2, <1>6 DEF TInv, TypeOK
  <2>2. AskerHolds' /\ NewUnsaid'
    BY <1>6 DEF askers, TInv, AskerHolds, NewUnsaid
  <2>3. ASSUME NEW c \in Clients, NEW i \in 1..Len(prompts'[c])
        PROVE  /\ clientOf[prompts'[c][i]] = c /\ prompts'[c][i] # gen'
               /\ status'[prompts'[c][i]] # "new" /\ said'[prompts'[c][i]] = 0
               /\ \A j \in 1..Len(prompts'[c]) : prompts'[c][i] = prompts'[c][j] => i = j
    <3>0. status' = status /\ said' = said
      BY <1>6 DEF askers
    <3>1. prompts'[c][i] \in Requests
      BY <2>1, ElementOfSeq
    <3>2. CASE c = cur
      <4>1. prompts'[c] = q
        BY <1>1, <1>6, <3>2 DEF TInv, TypeOK
      <4> HIDE DEF q, r
      <4> QED BY <1>5, <1>6, <3>0, <3>1, <3>2, <4>1
    <3>3. CASE c # cur
      <4>1. prompts'[c] = prompts[c]
        BY <1>1, <1>6, <3>3 DEF TInv, TypeOK
      <4>2. clientOf[prompts[c][i]] = c
        BY <4>1 DEF TInv, PromptsFresh
      <4> HIDE DEF q, r
      <4> QED BY <1>4, <1>6, <3>0, <3>1, <3>3, <4>1, <4>2 DEF TInv, PromptsFresh
    <3> QED BY <3>2, <3>3
  <2> QED BY <2>1, <2>2, <2>3 DEF PromptsFresh
<1>7. CASE ml = "open" /\ gen' = r /\ left' = MaxTokens /\ mlIn' = Append(mlIn, r)
             /\ prompts' = [prompts EXCEPT ![cur] = q] /\ task' = "Gen"
             /\ UNCHANGED <<slots, notify, cur, said, tokens, ml, mlOut, askers>>
  <2> HIDE DEF r, q
  <2>1. mlIn' \in Seq(Requests)
    BY <1>2, <1>7, AppendProperties DEF TInv, TypeOK
  <2>2. TypeOK'
    <3>1. left' \in 0..MaxTokens /\ gen' \in Requests /\ prompts' \in [Clients -> Seq(Requests)]
      BY <1>2, <1>6, <1>7
    <3>2. /\ task' = "Gen" /\ slots' = slots /\ notify' = notify /\ cur' = cur /\ said' = said
          /\ tokens' = tokens /\ ml' = ml /\ mlOut' = mlOut
          /\ client' = client /\ asking' = asking /\ status' = status /\ reply' = reply
      BY <1>7 DEF askers
    <3> QED BY <2>1, <3>1, <3>2 DEF TInv, TypeOK
  <2>3. TaskHolds'
    BY <1>1, <1>2, <1>4, <1>7 DEF askers, TaskHolds
  <2> QED BY <1>6, <1>7, <2>2, <2>3 DEF TInv
<1>8. CASE /\ prompts' = [prompts EXCEPT ![cur] = q] /\ task' = "Loop"
           /\ UNCHANGED <<slots, notify, cur, gen, left, said, tokens, mlVars, askers>>
  <2> HIDE DEF r, q
  <2>2. TypeOK'
    BY <1>1, <1>6, <1>8 DEF askers, mlVars, TInv, TypeOK
  <2>3. TaskHolds'
    BY <1>1, <1>8 DEF askers, TaskHolds
  <2> QED BY <1>1, <1>6, <1>8, <2>2, <2>3 DEF TInv
<1> QED BY <1>7, <1>8, TerminateTInv DEF RecvPrompt

\* Appending a token and its frame within the limit: the answer goes on.
LEMMA GenTokenTInv == ASSUME TInv, GenToken PROVE TInv'
<1> USE SessionConstants
<1> DEFINE token == Token(Head(mlOut), said[gen] + 1)
           out == Append(tokens[cur], token)
<1>1. /\ task = "Gen" /\ mlOut # <<>> /\ left > 0 /\ mlOut' = Tail(mlOut)
      /\ said' = [said EXCEPT ![gen] = @ + 1]
  <2>1. left \in Int
    BY DEF TInv, TypeOK
  <2> QED BY <2>1 DEF GenToken
<1>2. cur \in Clients /\ gen \in Requests /\ said[gen] + left <= MaxTokens /\ status[gen] # "new"
  BY <1>1 DEF TInv, TypeOK, TaskHolds
<1>3. Head(mlOut) \in Requests /\ mlOut' \in Seq(Requests)
  BY <1>1, HeadTailProperties DEF TInv, TypeOK
<1>4. said[gen] \in Nat /\ left \in 0..MaxTokens
  BY <1>2 DEF TInv, TypeOK
<1>5. said[gen] + 1 \in 1..MaxTokens
  BY <1>1, <1>2, <1>4
<1>6. token \in TokenSet
  BY <1>3, <1>5 DEF Token, TokenSet
<1>7. out \in Seq(TokenSet)
  <2> HIDE DEF token
  <2> QED BY <1>2, <1>6, AppendProperties DEF TInv, TypeOK
<1>8. said' \in [Requests -> 0..MaxTokens] /\ said'[gen] = said[gen] + 1
      /\ \A r \in Requests : r # gen => said'[r] = said[r]
  <2>1. said \in [Requests -> 0..MaxTokens] /\ said[gen] + 1 \in 0..MaxTokens
    BY <1>5 DEF TInv, TypeOK
  <2> QED BY <1>1, <1>2, <2>1
<1> HIDE DEF token, out
<1>9. CASE ml = "open" /\ tokens' = [tokens EXCEPT ![cur] = out] /\ mlIn' = Append(mlIn, gen)
             /\ left' = left - 1 /\ UNCHANGED <<slots, notify, task, cur, gen, prompts, ml, askers>>
  <2>1. tokens' \in [Clients -> Seq(TokenSet)]
    BY <1>7, <1>9 DEF TInv, TypeOK
  <2>2. mlIn' \in Seq(Requests)
    BY <1>2, <1>9, AppendProperties DEF TInv, TypeOK
  <2>3. left' \in 0..MaxTokens /\ said'[gen] + left' <= MaxTokens
    BY <1>1, <1>2, <1>4, <1>8, <1>9
  <2>4. TypeOK'
    BY <1>3, <1>8, <1>9, <2>1, <2>2, <2>3 DEF askers, TInv, TypeOK
  <2>5. TaskHolds' /\ AskerHolds' /\ NewUnsaid'
    BY <1>2, <1>8, <1>9, <2>3 DEF askers, TInv, TaskHolds, AskerHolds, NewUnsaid
  <2>6. PromptsFresh'
    BY <1>8, <1>9, PromptsFrame DEF askers
  <2> QED BY <2>4, <2>5, <2>6 DEF TInv
<1>10. CASE Finish(out) /\ UNCHANGED mlIn
  <2>1. mlIn' \in Seq(Requests)
    BY <1>10 DEF TInv, TypeOK
  <2> QED BY <1>1, <1>3, <1>7, <1>8, <1>10, <2>1, FinishTInv
<1> QED BY <1>9, <1>10 DEF GenToken, out, token

\* A request goes into the channel of its client.
LEMMA SubmitTInv == ASSUME TInv, NEW c \in Clients, NEW r \in Requests, Submit(c, r) PROVE TInv'
<1> USE SessionConstants
<1>1. client[c] = "idle" /\ status[r] = "new" /\ clientOf[r] = c /\ said[r] = 0 /\ r # gen
  BY DEF Submit, TInv, TaskHolds, NewUnsaid
<1>2. CASE /\ prompts' = [prompts EXCEPT ![c] = Append(@, r)]
           /\ client' = [client EXCEPT ![c] = "collect"] /\ asking' = [asking EXCEPT ![c] = r]
           /\ status' = [status EXCEPT ![r] = "active"] /\ UNCHANGED <<session, tokens, mlVars, reply>>
  <2> DEFINE q == Append(prompts[c], r)
  <2>1. /\ q \in Seq(Requests) /\ Len(q) = Len(prompts[c]) + 1 /\ q[Len(q)] = r
        /\ Len(prompts[c]) \in Nat /\ \A i \in 1..Len(prompts[c]) : q[i] = prompts[c][i]
    BY AppendProperties, LenProperties DEF TInv, TypeOK
  <2>2. \A d \in Clients : prompts'[d] = IF d = c THEN q ELSE prompts[d]
    BY <1>2 DEF TInv, TypeOK
  <2> HIDE DEF q
  <2>3. prompts' \in [Clients -> Seq(Requests)]
    BY <1>2, <2>1, <2>2 DEF TInv, TypeOK
  <2>4. TypeOK'
    BY <1>2, <2>3 DEF session, mlVars, TInv, TypeOK
  <2>5. TaskHolds' /\ NewUnsaid'
    BY <1>1, <1>2 DEF session, TInv, TypeOK, TaskHolds, NewUnsaid
  <2>6. AskerHolds'
    BY <1>1, <1>2 DEF TInv, TypeOK, AskerHolds
  <2>7. ASSUME NEW d \in Clients, NEW i \in 1..Len(prompts'[d])
        PROVE  /\ clientOf[prompts'[d][i]] = d /\ prompts'[d][i] # gen'
               /\ status'[prompts'[d][i]] # "new" /\ said'[prompts'[d][i]] = 0
               /\ \A j \in 1..Len(prompts'[d]) : prompts'[d][i] = prompts'[d][j] => i = j
    <3>0. gen' = gen /\ said' = said /\ \A x \in Requests : status'[x] = IF x = r THEN "active" ELSE status[x]
      BY <1>2 DEF session, TInv, TypeOK
    <3>1. prompts'[d][i] \in Requests
      BY <2>3, ElementOfSeq
    <3>2. CASE d # c
      BY <1>1, <2>2, <3>0, <3>1, <3>2 DEF TInv, PromptsFresh
    <3>3. CASE d = c /\ i = Len(q)
      BY <1>1, <2>1, <2>2, <3>0, <3>3 DEF TInv, PromptsFresh
    <3>4. CASE d = c /\ i # Len(q)
      <4>1. i \in 1..Len(prompts[c]) /\ prompts'[d][i] = prompts[c][i] /\ prompts[c][i] \in Requests
        BY <2>1, <2>2, <3>1, <3>4
      <4>2. prompts[c][i] # r
        BY <1>1, <4>1 DEF TInv, PromptsFresh
      <4>3. ASSUME NEW j \in 1..Len(prompts'[d]), prompts'[d][i] = prompts'[d][j] PROVE i = j
        BY <2>1, <2>2, <3>4, <4>1, <4>2, <4>3 DEF TInv, PromptsFresh
      <4> QED BY <3>0, <3>4, <4>1, <4>2, <4>3 DEF TInv, PromptsFresh
    <3> QED BY <3>2, <3>3, <3>4
  <2>8. PromptsFresh'
    BY <2>7 DEF PromptsFresh
  <2> QED BY <2>4, <2>5, <2>6, <2>8 DEF TInv
<1>3. CASE /\ client' = [client EXCEPT ![c] = "gone"] /\ status' = [status EXCEPT ![r] = "error"]
           /\ UNCHANGED <<prompts, asking, session, tokens, mlVars, reply>>
  <2>1. TypeOK'
    BY <1>3 DEF session, mlVars, TInv, TypeOK
  <2>2. TaskHolds' /\ AskerHolds' /\ NewUnsaid'
    BY <1>1, <1>3 DEF session, TInv, TypeOK, TaskHolds, AskerHolds, NewUnsaid
  <2>3. PromptsFresh'
    BY <1>3, PromptsFrame DEF session, TInv, TypeOK
  <2> QED BY <2>1, <2>2, <2>3 DEF TInv
<1> QED BY <1>2, <1>3 DEF Submit

\* Every step of the clients, the manager, the task and the ML thread keeps
\* the types.
LEMMA NextTInv == TInv /\ [Next]_vars => TInv'
<1> SUFFICES ASSUME TInv, [Next]_vars PROVE TInv'
  OBVIOUS
<1> USE SessionConstants DEF session, mlVars, askers
<1>1. ASSUME NEW c \in Clients, Connect(c) PROVE TInv'
  <2>1. slots' \in [SlotIds -> Clients \cup {None}] /\ notify' \in Seq(Clients)
    <3>1. Append(notify, c) \in Seq(Clients)
      BY AppendProperties DEF TInv, TypeOK
    <3>2. slots' = slots \/ \E i : slots' = [slots EXCEPT ![i] = c]
      BY <1>1 DEF Connect, allocate_slot
    <3>3. slots' \in [SlotIds -> Clients \cup {None}]
      BY <3>2 DEF TInv, TypeOK
    <3>4. notify' \in {notify, Append(notify, c)}
      BY <1>1 DEF Connect, allocate_slot
    <3> QED BY <3>1, <3>3, <3>4 DEF TInv, TypeOK
  <2>2. TypeOK'
    BY <1>1, <2>1 DEF Connect, TInv, TypeOK
  <2>3. TaskHolds' /\ AskerHolds' /\ NewUnsaid'
    BY <1>1 DEF Connect, TInv, TypeOK, TaskHolds, AskerHolds, NewUnsaid
  <2>4. PromptsFresh'
    BY <1>1, PromptsFrame DEF Connect
  <2> QED BY <2>2, <2>3, <2>4 DEF TInv
<1>2. ASSUME NEW r \in Requests, Refuse(r) PROVE TInv'
  <2>1. TypeOK' /\ TaskHolds' /\ AskerHolds' /\ NewUnsaid'
    BY <1>2 DEF Refuse, TInv, TypeOK, TaskHolds, AskerHolds, NewUnsaid
  <2>2. PromptsFresh'
    BY <1>2, PromptsFrame DEF Refuse, TInv, TypeOK
  <2> QED BY <2>1, <2>2 DEF TInv
<1>3. ASSUME NEW c \in Clients, CollectEnd(c) PROVE TInv'
  BY <1>3, ConcludeTInv DEF CollectEnd
<1>4. ASSUME NEW c \in Clients, Hangup(c) PROVE TInv'
  BY <1>4, ConcludeTInv DEF Hangup
<1>5. ASSUME NEW c \in Clients, CollectToken(c) PROVE TInv'
  <2>1. asking[c] \in Requests
    BY <1>5 DEF CollectToken, TInv, AskerHolds
  <2>2. tokens' \in [Clients -> Seq(TokenSet)] /\ Head(tokens[c]) \in TokenSet
    BY <1>5, HeadTailProperties DEF CollectToken, TInv, TypeOK
  <2>3. Append(reply[asking[c]], Head(tokens[c])) \in Seq(TokenSet)
    BY <2>1, <2>2, AppendProperties DEF TInv, TypeOK
  <2>4. reply' \in [Requests -> Seq(TokenSet)]
    BY <1>5, <2>3 DEF CollectToken, TInv, TypeOK
  <2>5. TypeOK'
    BY <1>5, <2>2, <2>4 DEF CollectToken, TInv, TypeOK
  <2>6. TaskHolds' /\ AskerHolds' /\ NewUnsaid'
    BY <1>5 DEF CollectToken, TInv, TaskHolds, AskerHolds, NewUnsaid
  <2>7. PromptsFresh'
    BY <1>5, PromptsFrame DEF CollectToken
  <2> QED BY <2>5, <2>6, <2>7 DEF TInv
<1>6. ASSUME NEW c \in Clients, ReadError(c) PROVE TInv'
  <2>1. TypeOK' /\ TaskHolds' /\ AskerHolds' /\ NewUnsaid'
    BY <1>6 DEF ReadError, TInv, TypeOK, TaskHolds, AskerHolds, NewUnsaid
  <2>2. PromptsFresh'
    BY <1>6, PromptsFrame DEF ReadError
  <2> QED BY <2>1, <2>2 DEF TInv
<1>7. CASE (LoadTokenizer \/ AcceptMl \/ NoMoreSlots) /\ ~Terminate
  <2>1. PICK at \in {"AcceptMl", "FirstSlot", "Recv"} :
           /\ task' = at /\ (at = "Recv" => task = "Loop")
           /\ task # "Gen"
           /\ UNCHANGED <<slots, notify, cur, gen, left, said, prompts, tokens, mlVars, askers>>
    BY <1>7 DEF LoadTokenizer, AcceptMl, NoMoreSlots
  <2>2. TypeOK'
    BY <2>1 DEF TInv, TypeOK
  <2>5. TaskHolds'
    BY <2>1 DEF TInv, TaskHolds
  <2>3. AskerHolds' /\ NewUnsaid'
    BY <2>1 DEF TInv, AskerHolds, NewUnsaid
  <2>4. PromptsFresh'
    BY <2>1, PromptsFrame
  <2> QED BY <2>2, <2>3, <2>4, <2>5 DEF TInv
<1>8. CASE (LoadTokenizer \/ AcceptMl \/ NoMoreSlots \/ PromptClosed) /\ Terminate
  BY <1>8, TerminateTInv
<1>9. CASE PromptClosed
  BY <1>9, TerminateTInv DEF PromptClosed
<1>10. CASE TakeSlot
  <2>1. cur' \in Clients /\ notify' \in Seq(Clients) /\ task # "Gen"
    BY <1>10, HeadTailProperties DEF TakeSlot, TInv, TypeOK
  <2>2. prompts' \in [Clients -> Seq(Requests)] /\ \A c \in Clients : prompts'[c] \in {prompts[c], <<>>}
    BY <1>10, EmptySeq DEF TakeSlot, TInv, TypeOK
  <2>3. TypeOK'
    BY <1>10, <2>1, <2>2 DEF TakeSlot, TInv, TypeOK
  <2>4. TaskHolds' /\ AskerHolds' /\ NewUnsaid'
    BY <1>10, <2>1 DEF TakeSlot, TInv, TaskHolds, AskerHolds, NewUnsaid
  <2>5. PromptsFresh'
    BY <1>10, <2>2, PromptsFrame DEF TakeSlot
  <2> QED BY <2>3, <2>4, <2>5 DEF TInv
<1>11. CASE GenEos \/ GenRecvError \/ GenLimit
  <2>1. task = "Gen" /\ Finish(tokens[cur]) /\ said' = said /\ mlIn' = mlIn
        /\ mlOut' \in {mlOut, Tail(mlOut)} /\ (mlOut' = mlOut \/ mlOut # <<>>)
    BY <1>11 DEF GenEos, GenRecvError, GenLimit
  <2>2. mlIn' \in Seq(Requests) /\ mlOut' \in Seq(Requests) /\ said' \in [Requests -> 0..MaxTokens]
    <3>1. mlOut # <<>> => Tail(mlOut) \in Seq(Requests)
      BY HeadTailProperties DEF TInv, TypeOK
    <3> QED BY <2>1, <3>1 DEF TInv, TypeOK
  <2>3. tokens[cur] \in Seq(TokenSet)
    BY <2>1 DEF TInv, TypeOK, TaskHolds
  <2> QED BY <2>1, <2>2, <2>3, FinishTInv
<1>12. CASE GenDecodeError
  <2>1. gen \in Requests /\ left > 0 /\ left \in 0..MaxTokens /\ said[gen] \in Nat /\ said[gen] + left <= MaxTokens
    BY <1>12 DEF GenDecodeError, TInv, TypeOK, TaskHolds
  <2>2. left' \in 0..MaxTokens /\ said[gen] + left' <= MaxTokens
    BY <1>12, <2>1 DEF GenDecodeError
  <2>3. mlIn' \in Seq(Requests) /\ mlOut' \in Seq(Requests)
    BY <1>12, <2>1, AppendProperties, HeadTailProperties DEF GenDecodeError, TInv, TypeOK
  <2>4. TypeOK'
    BY <1>12, <2>2, <2>3 DEF GenDecodeError, TInv, TypeOK
  <2>5. TaskHolds' /\ AskerHolds' /\ NewUnsaid'
    BY <1>12, <2>2 DEF GenDecodeError, TInv, TaskHolds, AskerHolds, NewUnsaid
  <2>6. PromptsFresh'
    BY <1>12, PromptsFrame DEF GenDecodeError
  <2> QED BY <2>4, <2>5, <2>6 DEF TInv
<1>13. CASE MlOpen \/ MlForward \/ MlDies
  <2>1. ml' \in {"open", "dead"} \/ ml' = ml
    BY <1>13 DEF MlOpen, MlForward, MlDies
  <2>2. mlIn' \in Seq(Requests) /\ mlOut' \in Seq(Requests)
    <3>1. mlIn # <<>> => Head(mlIn) \in Requests /\ Tail(mlIn) \in Seq(Requests)
      BY HeadTailProperties DEF TInv, TypeOK
    <3>2. mlIn # <<>> => Append(mlOut, Head(mlIn)) \in Seq(Requests)
      BY <3>1, AppendProperties DEF TInv, TypeOK
    <3>3. <<>> \in Seq(Requests) /\ mlIn \in Seq(Requests) /\ mlOut \in Seq(Requests)
      BY EmptySeq DEF TInv, TypeOK
    <3> QED BY <1>13, <3>1, <3>2, <3>3 DEF MlOpen, MlForward, MlDies
  <2>3. UNCHANGED <<session, prompts, tokens, askers>>
    BY <1>13 DEF MlOpen, MlForward, MlDies
  <2>4. TypeOK'
    BY <2>1, <2>2, <2>3 DEF TInv, TypeOK
  <2>5. TaskHolds' /\ AskerHolds' /\ NewUnsaid'
    BY <2>3 DEF TInv, TaskHolds, AskerHolds, NewUnsaid
  <2>6. PromptsFresh'
    BY <2>3, PromptsFrame
  <2> QED BY <2>4, <2>5, <2>6 DEF TInv
<1>14. CASE UNCHANGED vars
  <2>1. TypeOK'
    BY <1>14 DEF vars, TInv, TypeOK
  <2>2. TaskHolds' /\ AskerHolds' /\ NewUnsaid'
    BY <1>14 DEF vars, TInv, TaskHolds, AskerHolds, NewUnsaid
  <2>3. PromptsFresh'
    BY <1>14, PromptsFrame DEF vars
  <2> QED BY <2>1, <2>2, <2>3 DEF TInv
<1>15. CASE TaskStep
  BY <1>7, <1>8, <1>9, <1>10, <1>11, <1>12, <1>15, RecvPromptTInv, GenTokenTInv DEF TaskStep
<1> QED BY <1>1, <1>2, <1>3, <1>4, <1>5, <1>6, <1>13, <1>14, <1>15, SubmitTInv DEF Next

\* Whatever fails, whoever hangs up and however long answers are, everything
\* has its type, and no request is sent more tokens than it may get.
THEOREM WithinLimits == Spec => []TypeOK
<1>1. Spec => []TInv
  BY InitTInv, NextTInv, PTL DEF Spec
<1> QED BY <1>1, PTL DEF TInv

(***************************************************************************)
(* Exact answers.                                                          *)
(***************************************************************************)
\* The state create_session starts from.
LEMMA InitRInv == Init => RInv
<1> SUFFICES ASSUME Init PROVE RInv
  OBVIOUS
<1>1. OneFrame
  BY EmptySeq DEF Init, OneFrame
<1>2. ReplyExact
  BY EmptySeq DEF Init, ReplyExact
<1>3. GenOfClient /\ OnePrompt /\ Collected /\ NewUnanswered
  BY DEF Init, GenOfClient, OnePrompt, Collected, NewUnanswered
<1> QED BY <1>1, <1>2, <1>3 DEF RInv

\* The sentinel is no token: the code sends "\0", which no decoded text is.
LEMMA EndIsNoToken == \A r, n : Token(r, n) # End
  BY DEF Token, End

\* A token more is sent: it is the next one of the answer.
LEMMA RemainingSend ==
    ASSUME NEW r, NEW n \in Nat, NEW s, NEW toks \in Seq(TokenSet), Continues(r, n, s, toks, Len(toks)),
           Token(r, s + 1) \in TokenSet
    PROVE  Continues(r, n, s + 1, Append(toks, Token(r, s + 1)), Len(Append(toks, Token(r, s + 1))))
<1> DEFINE k == Len(toks)
           e == Token(r, s + 1)
           out == Append(toks, e)
<1>1. k \in Nat /\ s = n + k /\ Len(out) = k + 1 /\ out[k + 1] = e /\ \A i \in 1..k : out[i] = toks[i]
  BY LenProperties, AppendProperties DEF Continues
<1>2. ASSUME NEW i \in 1..(k + 1) PROVE out[i] = Token(r, n + i)
  <2>1. CASE i \in 1..k
    BY <1>1, <2>1 DEF Continues
  <2>2. CASE i = k + 1
    <3>1. n + i = s + 1
      BY <1>1, <2>2
    <3> QED BY <1>1, <2>2, <3>1
  <2> QED BY <1>1, <2>1, <2>2
<1>3. s + 1 = n + (k + 1)
  BY <1>1
<1> HIDE DEF out
<1>4. Continues(r, n, s + 1, out, Len(out))
  BY <1>1, <1>2, <1>3 DEF Continues
<1> QED BY <1>4 DEF out

\* The sentinel is sent: the answer is over.
LEMMA RemainingEnd ==
    ASSUME NEW r, NEW n \in Nat, NEW s, NEW toks \in Seq(TokenSet), Continues(r, n, s, toks, Len(toks))
    PROVE  Remaining(r, n, s, Append(toks, End), TRUE)
<1> DEFINE out == Append(toks, End)
<1>1. End \in TokenSet
  BY DEF TokenSet
<1>2. /\ Len(toks) \in Nat /\ out # <<>> /\ Len(out) = Len(toks) + 1 /\ out[Len(out)] = End
      /\ \A i \in 1..Len(toks) : out[i] = toks[i]
  BY <1>1, LenProperties, AppendProperties
<1>3. Len(out) - 1 = Len(toks)
  BY <1>2
<1> HIDE DEF out
<1>4. Remaining(r, n, s, out, TRUE)
  BY <1>2, <1>3 DEF Remaining, Continues
<1> QED BY <1>4 DEF out

\* The client takes a token: it is the next one of the answer.
LEMMA RemainingTake ==
    ASSUME NEW r, NEW n \in Nat, NEW s, NEW toks \in Seq(TokenSet), NEW over \in BOOLEAN,
           Remaining(r, n, s, toks, over), toks # <<>>, Head(toks) # End
    PROVE  Head(toks) = Token(r, n + 1) /\ Remaining(r, n + 1, s, Tail(toks), over)
<1> DEFINE k == Len(toks)
           rest == Tail(toks)
<1>1. /\ k \in Nat \ {0} /\ Head(toks) = toks[1] /\ Len(rest) = k - 1
      /\ \A i \in 1..Len(rest) : rest[i] = toks[i + 1]
  BY HeadTailProperties, EmptySeq
<1> HIDE DEF rest
<1>2. ASSUME NEW m \in {k, k - 1}, m > 0, Continues(r, n, s, toks, m)
      PROVE  Head(toks) = Token(r, n + 1) /\ Continues(r, n + 1, s, rest, m - 1)
  <2>1. s = n + m /\ \A i \in 1..m : toks[i] = Token(r, n + i)
    BY <1>2 DEF Continues
  <2>2. 1 \in 1..m /\ m \in Nat /\ s = (n + 1) + (m - 1)
    BY <1>1, <1>2, <2>1
  <2>3. ASSUME NEW i \in 1..(m - 1) PROVE rest[i] = Token(r, (n + 1) + i)
    <3>1. i \in 1..Len(rest) /\ i + 1 \in 1..m /\ n + (i + 1) = (n + 1) + i
      BY <1>1, <1>2, <2>2
    <3> QED BY <1>1, <2>1, <3>1
  <2> QED BY <1>1, <2>1, <2>2, <2>3 DEF Continues
<1>3. CASE Continues(r, n, s, toks, k)
  <2>1. Head(toks) = Token(r, n + 1) /\ Continues(r, n + 1, s, rest, Len(rest))
    BY <1>1, <1>2, <1>3
  <2> QED BY <2>1 DEF Remaining, rest
<1>4. CASE over /\ toks[k] = End /\ Continues(r, n, s, toks, k - 1)
  <2>1. k - 1 > 0
    BY <1>1, <1>4
  <2>2. Head(toks) = Token(r, n + 1) /\ Continues(r, n + 1, s, rest, Len(rest) - 1)
    BY <1>1, <1>2, <1>4, <2>1
  <2>3. Len(rest) \in 1..(k - 1) /\ Len(rest) + 1 = k
    BY <1>1, <2>1
  <2>4. rest[Len(rest)] = End
    BY <1>1, <1>4, <2>3
  <2>5. rest # <<>>
    BY <2>3, EmptySeq
  <2> QED BY <1>4, <2>2, <2>4, <2>5 DEF Remaining, rest
<1> QED BY <1>3, <1>4 DEF Remaining

\* The client finds the sentinel: it has the whole answer, and the channel is empty.
LEMMA RemainingOver ==
    ASSUME NEW r, NEW n \in Nat, NEW s, NEW toks \in Seq(TokenSet), NEW over \in BOOLEAN,
           Remaining(r, n, s, toks, over), toks # <<>>, Head(toks) = End
    PROVE  over /\ s = n /\ Tail(toks) = <<>>
<1> DEFINE k == Len(toks)
<1>1. k \in Nat \ {0} /\ toks[1] = End
  BY HeadTailProperties, EmptySeq
<1>2. ASSUME NEW m \in Nat, Continues(r, n, s, toks, m) PROVE m = 0
  BY <1>1, <1>2, EndIsNoToken DEF Continues
<1>3. over /\ Continues(r, n, s, toks, k - 1) /\ k - 1 = 0
  <2>1. k \in Nat /\ k # 0 /\ k - 1 \in Nat
    BY <1>1
  <2>2. ~Continues(r, n, s, toks, k)
    BY <1>2, <2>1
  <2>3. over /\ Continues(r, n, s, toks, k - 1)
    BY <2>2 DEF Remaining
  <2> QED BY <1>2, <2>1, <2>3
<1>4. Tail(toks) \in Seq(TokenSet) /\ Len(Tail(toks)) = 0
  BY <1>3, HeadTailProperties
<1>5. Tail(toks) = <<>>
  BY <1>4, EmptySeq
<1>6. s = n
  <2>1. s = n + (k - 1)
    BY <1>3 DEF Continues
  <2>2. k - 1 = 0
    BY <1>3
  <2>3. k \in Int
    BY <1>1
  <2> HIDE DEF k
  <2> QED BY <2>1, <2>2, <2>3
<1> QED BY <1>3, <1>5, <1>6

\* A request is collected by its own client only.
LEMMA OwnAsker ==
    ASSUME TInv, NEW c \in Clients, NEW d \in Clients, client[c] = "collect", client[d] = "collect",
           asking[c] = asking[d]
    PROVE  c = d
  BY DEF TInv, AskerHolds

\* Steps that send no token and conclude nothing leave the answers as they are.
LEMMA AskersFrame ==
    ASSUME TInv, RInv, UNCHANGED <<client, asking, status, reply, tokens, said>>,
           \A c \in Clients : prompts'[c] \in {prompts[c], <<>>},
           \A c \in Clients : client[c] = "collect" /\ tokens[c] # <<>> /\ gen # asking[c] => gen' # asking[c]
    PROVE  OnePrompt' /\ Collected' /\ NewUnanswered' /\ ReplyExact'
<1>1. OnePrompt' /\ NewUnanswered' /\ ReplyExact'
  BY DEF RInv, OnePrompt, NewUnanswered, ReplyExact
<1>2. Collected'
  BY DEF RInv, Collected, Remaining
<1> QED BY <1>1, <1>2

\* While the task generates, its client has everything that was sent.
LEMMA GenContinues ==
    ASSUME TInv, RInv, task = "Gen", client[cur] = "collect"
    PROVE  /\ asking[cur] = gen /\ status[gen] = "active"
           /\ Continues(gen, Len(reply[gen]), said[gen], tokens[cur], Len(tokens[cur]))
<1>1. cur \in Clients /\ gen # None
  BY DEF TInv, TaskHolds
<1>2. asking[cur] = gen
  BY <1>1 DEF RInv, GenOfClient
<1> QED BY <1>1, <1>2 DEF RInv, Collected, Remaining

\* What is sent for the request that is answered reaches its client only, and
\* leaves it with the rest of its answer.
LEMMA SendFrame ==
    ASSUME TInv, RInv, task = "Gen", gen' \in {gen, None},
           \A r \in Requests : r # gen => said'[r] = said[r],
           \A c \in Clients : c # cur => tokens'[c] = tokens[c],
           client[cur] = "collect" => Remaining(gen, Len(reply[gen]), said'[gen], tokens'[cur], gen' # gen),
           UNCHANGED <<prompts, client, asking, status, reply>>
    PROVE  OnePrompt' /\ Collected' /\ NewUnanswered' /\ ReplyExact'
<1> USE SessionConstants
<1>0. cur \in Clients /\ gen \in Requests /\ gen # None
  BY DEF TInv, TypeOK, TaskHolds
<1>1. /\ clientOf[gen] = cur /\ prompts[cur] = <<>> /\ status[gen] # "done" /\ status[gen] # "new"
      /\ client[cur] = "gone" \/ (client[cur] = "collect" /\ asking[cur] = gen)
  BY <1>0 DEF RInv, GenOfClient, TInv, TaskHolds
<1>4. OnePrompt'
  BY <1>1 DEF RInv, OnePrompt
<1>5. ReplyExact' /\ NewUnanswered'
  BY <1>1 DEF RInv, ReplyExact, NewUnanswered
<1>6. ASSUME NEW c \in Clients, c # cur, client[c] = "collect"
      PROVE /\ status[asking[c]] = "active"
            /\ Remaining(asking[c], Len(reply[asking[c]]), said'[asking[c]], tokens'[c], gen' # asking[c])
  <2>1. asking[c] \in Requests /\ asking[c] # gen /\ asking[c] # None
    BY <1>1, <1>6 DEF TInv, AskerHolds
  <2>2. said'[asking[c]] = said[asking[c]] /\ tokens'[c] = tokens[c] /\ gen' # asking[c]
    BY <1>6, <2>1
  <2> QED BY <1>6, <2>1, <2>2 DEF RInv, Collected
<1>7. ASSUME client[cur] = "collect"
      PROVE /\ status[asking[cur]] = "active"
            /\ Remaining(asking[cur], Len(reply[asking[cur]]), said'[asking[cur]], tokens'[cur], gen' # asking[cur])
  <2>1. asking[cur] = gen /\ status[gen] = "active"
    BY <1>0, <1>7, GenContinues
  <2> QED BY <1>7, <2>1
<1>8. ASSUME NEW c \in Clients, client[c] \in {"idle", "absent"} PROVE tokens'[c] = <<>>
  BY <1>1, <1>8 DEF RInv, Collected
<1>9. Collected'
  BY <1>6, <1>7, <1>8 DEF Collected
<1> QED BY <1>4, <1>5, <1>9

\* A client that has come, or has gone, has no part in any answer.
LEMMA IdleLeaves ==
    ASSUME TInv, RInv, NEW c \in Clients, client[c] \in {"idle", "absent"}, NEW at \in {"idle", "gone"},
           client' = [client EXCEPT ![c] = at],
           UNCHANGED <<prompts, tokens, gen, cur, said, reply, asking, mlVars, left>>,
           \A r \in Requests : status'[r] = status[r] \/ (status[r] = "new" /\ status'[r] = "error")
    PROVE  RInv'
<1> USE SessionConstants
<1>1. \A d \in Clients : client'[d] = IF d = c THEN at ELSE client[d]
  BY DEF TInv, TypeOK
<1>2. OneFrame'
  BY DEF mlVars, RInv, OneFrame
<1>3. gen # None => gen \in Requests /\ cur \in Clients /\ status[gen] # "new" /\ cur # c
  BY DEF TInv, TypeOK, TaskHolds, RInv, GenOfClient
<1>4. GenOfClient'
  BY <1>1, <1>3 DEF RInv, GenOfClient
<1>5. OnePrompt' /\ NewUnanswered' /\ ReplyExact'
  BY <1>1 DEF RInv, OnePrompt, NewUnanswered, ReplyExact
<1>6. Collected'
  BY <1>1 DEF TInv, AskerHolds, RInv, Collected
<1> QED BY <1>2, <1>4, <1>5, <1>6 DEF RInv

\* A request goes into the empty channel of its client, which has no token
\* left of an earlier one.
LEMMA SubmitRInv == ASSUME TInv, RInv, NEW c \in Clients, NEW r \in Requests, Submit(c, r) PROVE RInv'
<1> USE SessionConstants
<1>1. client[c] = "idle" /\ status[r] = "new" /\ clientOf[r] = c /\ said[r] = 0 /\ r # gen
  BY DEF Submit, TInv, TaskHolds, NewUnsaid
<1>2. tokens[c] = <<>> /\ prompts[c] = <<>> /\ reply[r] = <<>>
  BY <1>1 DEF RInv, Collected, OnePrompt, NewUnanswered
<1>3. CASE /\ prompts' = [prompts EXCEPT ![c] = Append(@, r)]
           /\ client' = [client EXCEPT ![c] = "collect"] /\ asking' = [asking EXCEPT ![c] = r]
           /\ status' = [status EXCEPT ![r] = "active"] /\ UNCHANGED <<session, tokens, mlVars, reply>>
  <2>1. prompts'[c] = <<r>> /\ \A d \in Clients : d # c => prompts'[d] = prompts[d]
    BY <1>2, <1>3 DEF TInv, TypeOK
  <2>2. /\ \A d \in Clients : client'[d] = IF d = c THEN "collect" ELSE client[d]
        /\ \A d \in Clients : asking'[d] = IF d = c THEN r ELSE asking[d]
        /\ \A q \in Requests : status'[q] = IF q = r THEN "active" ELSE status[q]
        /\ tokens' = tokens /\ reply' = reply /\ said' = said /\ gen' = gen /\ cur' = cur /\ left' = left
    BY <1>3 DEF session, TInv, TypeOK
  <2>3. OneFrame'
    BY <1>3, <2>2 DEF mlVars, RInv, OneFrame
  <2>4. GenOfClient'
    <3>1. gen # None => gen \in Requests /\ cur \in Clients /\ cur # c
      BY <1>1 DEF TInv, TypeOK, TaskHolds, RInv, GenOfClient
    <3> QED BY <1>1, <2>1, <2>2, <3>1 DEF RInv, GenOfClient
  <2>5. OnePrompt'
    BY <1>2, <2>1, <2>2 DEF RInv, OnePrompt
  <2>6. Collected'
    <3>1. Remaining(r, Len(reply[r]), said[r], tokens[c], gen # r)
      BY <1>1, <1>2, EmptySeq DEF Remaining, Continues
    <3>2. ASSUME NEW d \in Clients, d # c, client[d] = "collect" PROVE status'[asking[d]] = "active"
      BY <1>1, <2>2, <3>2 DEF TInv, AskerHolds, RInv, Collected
    <3> QED BY <1>2, <2>2, <3>1, <3>2 DEF RInv, Collected
  <2>7. NewUnanswered' /\ ReplyExact'
    BY <2>2 DEF RInv, NewUnanswered, ReplyExact
  <2> QED BY <2>3, <2>4, <2>5, <2>6, <2>7 DEF RInv
<1>4. CASE /\ client' = [client EXCEPT ![c] = "gone"] /\ status' = [status EXCEPT ![r] = "error"]
           /\ UNCHANGED <<prompts, asking, session, tokens, mlVars, reply>>
  <2>1. \A q \in Requests : status'[q] = status[q] \/ (status[q] = "new" /\ status'[q] = "error")
    BY <1>1, <1>4 DEF TInv, TypeOK
  <2> QED BY <1>1, <1>4, <2>1, IdleLeaves DEF session
<1> QED BY <1>3, <1>4 DEF Submit

\* The client ends its answer: with the sentinel it has all of it, or, a
\* bridge, it goes away in the middle.
LEMMA ConcludeRInv ==
    ASSUME TInv, RInv, NEW c \in Clients, NEW outcome \in {"done", "abandoned"},
           NEW next \in {"idle", "gone"}, client[c] = "collect", tokens[c] # <<>>,
           tokens' = [tokens EXCEPT ![c] = Tail(@)], Conclude(c, outcome, next),
           \/ outcome = "done" /\ Head(tokens[c]) = End
           \/ outcome = "abandoned" /\ next = "gone",
           UNCHANGED <<session, prompts, mlVars, reply>>
    PROVE  RInv'
<1> USE SessionConstants
<1> DEFINE r == asking[c]
<1>0. r \in Requests /\ clientOf[r] = c /\ status[r] = "active" /\ prompts[c] = <<>>
  BY DEF TInv, AskerHolds, RInv, Collected, OnePrompt
<1>1. /\ \A d \in Clients : client'[d] = IF d = c THEN next ELSE client[d]
      /\ \A d \in Clients : d # c => asking'[d] = asking[d] /\ tokens'[d] = tokens[d]
      /\ \A q \in Requests : status'[q] = IF q = r THEN outcome ELSE status[q]
      /\ tokens'[c] = Tail(tokens[c])
      /\ prompts' = prompts /\ reply' = reply /\ said' = said /\ gen' = gen /\ cur' = cur /\ left' = left
  BY DEF Conclude, session, TInv, TypeOK
<1>2. outcome = "done" => gen # r /\ said[r] = Len(reply[r]) /\ Tail(tokens[c]) = <<>>
  <2>1. Remaining(r, Len(reply[r]), said[r], tokens[c], gen # r)
    BY DEF RInv, Collected
  <2> DEFINE over == gen # r
             n == Len(reply[r])
  <2>2. n \in Nat /\ tokens[c] \in Seq(TokenSet) /\ over \in BOOLEAN
    BY <1>0, LenProperties DEF TInv, TypeOK
  <2>3. Remaining(r, n, said[r], tokens[c], over)
    BY <2>1
  <2> HIDE DEF r, over, n
  <2>4. ASSUME outcome = "done" PROVE over /\ said[r] = n /\ Tail(tokens[c]) = <<>>
    <3>1. Head(tokens[c]) = End /\ tokens[c] # <<>>
      BY <2>4
    <3> QED BY <2>2, <2>3, <3>1, RemainingOver
  <2> QED BY <2>4 DEF over, n
<1>3. \A d \in Clients : d # c /\ client[d] = "collect" => asking[d] # r /\ asking[d] \in Requests
  BY <1>0 DEF TInv, AskerHolds
<1> HIDE DEF r
<1>4. OneFrame'
  BY <1>1 DEF mlVars, RInv, OneFrame
<1>5. GenOfClient'
  <2>1. gen # None => gen \in Requests /\ cur \in Clients
    BY DEF TInv, TypeOK, TaskHolds
  <2>2. gen # None /\ cur = c => gen = r
    BY DEF RInv, GenOfClient, r
  <2>3. gen # None /\ cur # c => gen # r
    BY <1>0 DEF RInv, GenOfClient
  <2> QED BY <1>0, <1>1, <1>2, <2>1, <2>2, <2>3 DEF RInv, GenOfClient
<1>6. OnePrompt'
  BY <1>0, <1>1, <1>3 DEF RInv, OnePrompt
<1>7. Collected'
  <2>1. ASSUME NEW d \in Clients, d # c, client[d] = "collect"
        PROVE  /\ status'[asking[d]] = "active"
               /\ Remaining(asking[d], Len(reply[asking[d]]), said[asking[d]], tokens[d], gen # asking[d])
    BY <1>1, <1>3, <2>1 DEF RInv, Collected
  <2>2. ASSUME NEW d \in Clients, d # c, client[d] \in {"idle", "absent"} PROVE tokens[d] = <<>>
    BY <2>2 DEF RInv, Collected
  <2>3. next = "idle" => tokens'[c] = <<>>
    BY <1>1, <1>2
  <2> QED BY <1>1, <2>1, <2>2, <2>3 DEF Collected
<1>8. NewUnanswered'
  BY <1>0, <1>1 DEF RInv, NewUnanswered
<1>9. ReplyExact'
  BY <1>0, <1>1, <1>2 DEF RInv, ReplyExact
<1> QED BY <1>4, <1>5, <1>6, <1>7, <1>8, <1>9 DEF RInv

\* The client adds the next token to its answer.
LEMMA CollectTokenRInv == ASSUME TInv, RInv, NEW c \in Clients, CollectToken(c) PROVE RInv'
<1> USE SessionConstants
<1> DEFINE r == asking[c]
           n == Len(reply[r])
<1>0. r \in Requests /\ clientOf[r] = c /\ status[r] = "active" /\ prompts[c] = <<>> /\ client[c] = "collect"
  BY DEF CollectToken, TInv, AskerHolds, RInv, Collected, OnePrompt
<1>1. /\ n \in Nat /\ reply[r] \in Seq(TokenSet) /\ tokens[c] \in Seq(TokenSet) /\ tokens[c] # <<>>
      /\ Head(tokens[c]) # End /\ Head(tokens[c]) \in TokenSet
  BY <1>0, LenProperties, HeadTailProperties DEF CollectToken, TInv, TypeOK
<1>2. Head(tokens[c]) = Token(r, n + 1) /\ Remaining(r, n + 1, said[r], Tail(tokens[c]), gen # r)
  <2>1. Remaining(r, n, said[r], tokens[c], gen # r)
    BY <1>0 DEF RInv, Collected
  <2>2. (gen # r) \in BOOLEAN
    OBVIOUS
  <2> HIDE DEF r, n
  <2> QED BY <1>1, <2>1, <2>2, RemainingTake
<1>3. /\ tokens'[c] = Tail(tokens[c]) /\ reply'[r] = Append(reply[r], Head(tokens[c]))
      /\ \A d \in Clients : d # c => tokens'[d] = tokens[d]
      /\ \A q \in Requests : q # r => reply'[q] = reply[q]
      /\ UNCHANGED <<session, prompts, mlVars, client, asking, status>>
  BY <1>0 DEF CollectToken, TInv, TypeOK
<1>4. /\ Len(reply'[r]) = n + 1 /\ reply'[r] \in Seq(TokenSet) /\ reply'[r][n + 1] = Token(r, n + 1)
      /\ \A i \in 1..n : reply'[r][i] = reply[r][i]
  BY <1>1, <1>2, <1>3, AppendProperties
<1>5. \A d \in Clients : d # c /\ client[d] = "collect" => asking[d] # r /\ asking[d] \in Requests
  BY <1>0 DEF TInv, AskerHolds
<1>6. OneFrame' /\ GenOfClient'
  BY <1>3 DEF session, mlVars, RInv, OneFrame, GenOfClient
<1>7. OnePrompt'
  BY <1>0, <1>3, <1>5 DEF RInv, OnePrompt
<1>8. Collected'
  <2>1. Remaining(r, Len(reply'[r]), said[r], tokens'[c], gen # r)
    BY <1>2, <1>3, <1>4
  <2>2. said' = said /\ gen' = gen
    BY <1>3 DEF session
  <2> HIDE DEF n
  <2> QED BY <1>0, <1>3, <1>5, <2>1, <2>2 DEF RInv, Collected
<1>9. NewUnanswered'
  BY <1>0, <1>3 DEF RInv, NewUnanswered
<1>10. ReplyExact'
  <2>1. ASSUME NEW i \in DOMAIN reply'[r] PROVE reply'[r][i] = Token(r, i)
    <3>1. i \in 1..(n + 1) /\ DOMAIN reply[r] = 1..n
      BY <1>1, <1>4, <2>1, LenProperties
    <3>2. CASE i \in 1..n
      BY <1>0, <1>4, <3>1, <3>2 DEF RInv, ReplyExact
    <3>3. CASE i = n + 1
      BY <1>4, <3>3
    <3> QED BY <1>1, <3>1, <3>2, <3>3
  <2> HIDE DEF r, n
  <2>2. said' = said /\ status' = status
    BY <1>3 DEF session
  <2> QED BY <1>0, <1>3, <2>1, <2>2 DEF RInv, ReplyExact
<1> QED BY <1>6, <1>7, <1>8, <1>9, <1>10 DEF RInv

\* The frames after a step in which the task leaves, or has not entered, the
\* generation loop.
LEMMA NoFrames ==
    ASSUME gen' = None, mlIn' = <<>>, mlOut' = <<>> PROVE OneFrame' /\ GenOfClient'
  BY EmptySeq DEF OneFrame, GenOfClient

\* While the task generates with logits to read, nothing is on the way to the
\* ML thread, and what it reads is of its own request.
LEMMA LogitsOfGen ==
    ASSUME TInv, RInv, task = "Gen", mlOut # <<>>
    PROVE  mlIn = <<>> /\ Tail(mlOut) = <<>> /\ Head(mlOut) = gen /\ gen \in Requests /\ cur \in Clients
<1>1. gen \in Requests /\ cur \in Clients
  BY DEF TInv, TypeOK, TaskHolds
<1>2. mlIn \in Seq(Requests) /\ mlOut \in Seq(Requests)
  BY DEF TInv, TypeOK
<1>3. Len(mlOut) \in Nat \ {0} /\ Len(mlIn) \in Nat /\ Len(mlIn) + Len(mlOut) <= 1
  BY <1>2, EmptySeq, LenProperties DEF RInv, OneFrame
<1>4. Len(mlIn) = 0 /\ Len(mlOut) = 1
  BY <1>3
<1>5. mlIn = <<>>
  BY <1>2, <1>4, EmptySeq
<1>6. Tail(mlOut) \in Seq(Requests) /\ Len(Tail(mlOut)) = 0 /\ Head(mlOut) = mlOut[1]
  BY <1>2, <1>4, HeadTailProperties
<1>7. Tail(mlOut) = <<>>
  BY <1>6, EmptySeq
<1> QED BY <1>1, <1>4, <1>5, <1>6, <1>7 DEF RInv, OneFrame

\* One frame is under way again after the token has been sent on.
LEMMA FrameSent ==
    ASSUME NEW r \in Requests, gen' = r, mlIn' = Append(<<>>, r), mlOut' = <<>>, ml' = "open",
           left' > 0, r # None
    PROVE  OneFrame'
<1>1. Append(<<>>, r) = <<r>>
  OBVIOUS
<1> QED BY <1>1 DEF OneFrame

\* The task takes the prompt its client waits for.
LEMMA RecvPromptRInv == ASSUME TInv, RInv, Orderly, RecvPrompt, ~Terminate PROVE RInv'
<1> USE SessionConstants
<1>0. cur \in Clients /\ gen = None /\ prompts[cur] # <<>> /\ mlIn = <<>> /\ mlOut = <<>>
  BY DEF RecvPrompt, TInv, TaskHolds, RInv, OneFrame
<1>1. /\ client[cur] = "collect" /\ prompts[cur] = <<asking[cur]>>
      /\ tokens[cur] = <<>> /\ reply[asking[cur]] = <<>> /\ status[asking[cur]] = "active"
      /\ asking[cur] \in Requests /\ clientOf[asking[cur]] = cur
  BY <1>0 DEF RInv, OnePrompt, Collected, TInv, AskerHolds
<1>2. Head(prompts[cur]) = asking[cur] /\ Tail(prompts[cur]) = <<>>
  BY <1>1
<1>3. UNCHANGED <<client, asking, status, reply, tokens, said, cur>>
  BY DEF RecvPrompt, askers
<1>4. prompts' = [prompts EXCEPT ![cur] = <<>>]
  BY <1>2 DEF RecvPrompt
<1>5. prompts'[cur] = <<>> /\ \A c \in Clients : prompts'[c] \in {prompts[c], <<>>}
  BY <1>0, <1>4 DEF TInv, TypeOK
<1>6. CASE gen' = Head(prompts[cur]) /\ left' = MaxTokens /\ mlIn' = Append(mlIn, Head(prompts[cur]))
           /\ ml = "open" /\ UNCHANGED <<ml, mlOut>>
  <2>1. OneFrame'
    <3>1. left' > 0
      BY <1>6
    <3> QED BY <1>0, <1>1, <1>2, <1>6, <3>1, FrameSent
  <2>2. GenOfClient'
    BY <1>1, <1>2, <1>3, <1>5, <1>6 DEF GenOfClient
  <2>3. \A c \in Clients : client[c] = "collect" /\ tokens[c] # <<>> /\ gen # asking[c] => gen' # asking[c]
    BY <1>0, <1>1, <1>2, <1>6, OwnAsker
  <2> QED BY <1>3, <1>5, <2>1, <2>2, <2>3, AskersFrame DEF RInv
<1>7. CASE UNCHANGED <<gen, left, mlVars>>
  <2>1. OneFrame' /\ GenOfClient'
    BY <1>0, <1>7, NoFrames DEF mlVars
  <2> QED BY <1>3, <1>5, <1>7, <2>1, AskersFrame DEF RInv
<1> QED BY <1>6, <1>7 DEF RecvPrompt

\* The end of the task leaves the answers as they are.
LEMMA TerminateRInv == ASSUME TInv, RInv, Terminate PROVE RInv'
<1>1. OneFrame' /\ GenOfClient'
  BY NoFrames DEF Terminate
<1>2. \A c \in Clients : client[c] = "collect" => asking[c] # None
  BY SessionConstants DEF TInv, AskerHolds
<1>3. OnePrompt' /\ Collected' /\ NewUnanswered' /\ ReplyExact'
  BY <1>2, AskersFrame DEF Terminate, askers
<1> QED BY <1>1, <1>3 DEF RInv

\* The generation loop is left without a further token.
LEMMA GenEndsRInv == ASSUME TInv, RInv, Orderly, GenEos \/ GenRecvError \/ GenLimit PROVE RInv'
<1> USE SessionConstants
<1>1. task = "Gen" /\ Finish(tokens[cur]) /\ said' = said /\ gen' = None /\ UNCHANGED <<prompts, client, asking, status, reply>>
  BY DEF GenEos, GenRecvError, GenLimit, Finish, askers
<1>2. cur \in Clients /\ gen \in Requests /\ gen # None
  BY <1>1 DEF TInv, TypeOK, TaskHolds
<1>3. mlIn' = <<>> /\ mlOut' = <<>>
  <2>1. CASE GenEos
    BY <1>1, <2>1, LogitsOfGen DEF GenEos
  <2>2. CASE GenRecvError
    BY <2>2 DEF GenRecvError, RInv, OneFrame
  <2>3. CASE GenLimit
    BY <1>2, <2>3 DEF GenLimit, RInv, OneFrame
  <2> QED BY <2>1, <2>2, <2>3
<1>4. OneFrame' /\ GenOfClient'
  BY <1>1, <1>3, NoFrames
<1>5. client[cur] = "collect" => Remaining(gen, Len(reply[gen]), said[gen], Append(tokens[cur], End), TRUE)
  <2>1. Len(reply[gen]) \in Nat /\ tokens[cur] \in Seq(TokenSet)
    BY <1>2, LenProperties DEF TInv, TypeOK
  <2> QED BY <1>1, <2>1, GenContinues, RemainingEnd
<1>6. tokens'[cur] = Append(tokens[cur], End) /\ \A c \in Clients : c # cur => tokens'[c] = tokens[c]
  BY <1>1, <1>2 DEF Finish, TInv, TypeOK
<1>7. client[cur] = "collect" => Remaining(gen, Len(reply[gen]), said'[gen], tokens'[cur], gen' # gen)
  BY <1>1, <1>2, <1>5, <1>6 DEF Remaining
<1>8. OnePrompt' /\ Collected' /\ NewUnanswered' /\ ReplyExact'
  BY <1>1, <1>6, <1>7, SendFrame
<1> QED BY <1>4, <1>8 DEF RInv

\* A token is sent to the client, and its frame to the ML thread unless that
\* fails.
LEMMA GenTokenRInv == ASSUME TInv, RInv, Orderly, GenToken PROVE RInv'
<1> USE SessionConstants
<1> DEFINE out == Append(tokens[cur], Token(gen, said[gen] + 1))
<1>1. /\ task = "Gen" /\ mlOut # <<>> /\ left > 1 /\ mlOut' = Tail(mlOut)
      /\ said' = [said EXCEPT ![gen] = @ + 1]
  BY DEF GenToken, Orderly
<1>2. mlIn = <<>> /\ Tail(mlOut) = <<>> /\ Head(mlOut) = gen /\ gen \in Requests /\ cur \in Clients /\ gen # None
  BY <1>1, LogitsOfGen
<1>3. /\ said[gen] \in Nat /\ said[gen] + 1 \in 1..MaxTokens /\ said'[gen] = said[gen] + 1
      /\ left \in Nat
  <2>1. said[gen] \in 0..MaxTokens /\ left \in 0..MaxTokens /\ said[gen] + left <= MaxTokens
    BY <1>1, <1>2 DEF TInv, TypeOK, TaskHolds
  <2>2. said[gen] + 1 \in 1..MaxTokens /\ said[gen] \in Nat /\ left \in Nat
    BY <1>1, <2>1
  <2>3. said'[gen] = said[gen] + 1
    BY <1>1, <1>2 DEF TInv, TypeOK
  <2> QED BY <2>2, <2>3
<1>9. \A r \in Requests : r # gen => said'[r] = said[r]
  BY <1>1 DEF TInv, TypeOK
<1>4. /\ Len(reply[gen]) \in Nat /\ tokens[cur] \in Seq(TokenSet) /\ Token(gen, said[gen] + 1) \in TokenSet
      /\ out \in Seq(TokenSet)
  <2>1. Len(reply[gen]) \in Nat /\ tokens[cur] \in Seq(TokenSet)
    BY <1>2, LenProperties DEF TInv, TypeOK
  <2>2. Token(gen, said[gen] + 1) \in TokenSet
    BY <1>2, <1>3 DEF Token, TokenSet
  <2> QED BY <2>1, <2>2, AppendProperties
<1>5. ASSUME client[cur] = "collect" PROVE Continues(gen, Len(reply[gen]), said'[gen], out, Len(out))
  <2>1. Continues(gen, Len(reply[gen]), said[gen], tokens[cur], Len(tokens[cur]))
    BY <1>1, <1>5, GenContinues
  <2> QED BY <1>3, <1>4, <2>1, RemainingSend
<1>6. \/ /\ ml = "open" /\ tokens' = [tokens EXCEPT ![cur] = out] /\ mlIn' = Append(mlIn, gen) /\ left' = left - 1
         /\ UNCHANGED <<slots, notify, task, cur, gen, prompts, ml, askers>>
      \/ Finish(out) /\ UNCHANGED mlIn
  BY <1>2 DEF GenToken
<1> HIDE DEF out
<1>7. CASE /\ ml = "open" /\ tokens' = [tokens EXCEPT ![cur] = out] /\ mlIn' = Append(mlIn, gen) /\ left' = left - 1
           /\ UNCHANGED <<slots, notify, task, cur, gen, prompts, ml, askers>>
  <2>1. OneFrame'
    <3>1. left' > 0
      BY <1>1, <1>3, <1>7
    <3> QED BY <1>1, <1>2, <1>7, <3>1, FrameSent
  <2>2. GenOfClient'
    BY <1>7 DEF askers, RInv, GenOfClient
  <2>3. tokens'[cur] = out /\ \A c \in Clients : c # cur => tokens'[c] = tokens[c]
    BY <1>2, <1>7 DEF TInv, TypeOK
  <2>5. client[cur] = "collect" => Remaining(gen, Len(reply[gen]), said'[gen], tokens'[cur], gen' # gen)
    BY <1>5, <2>3 DEF Remaining
  <2>4. OnePrompt' /\ Collected' /\ NewUnanswered' /\ ReplyExact'
    BY <1>1, <1>7, <1>9, <2>3, <2>5, SendFrame DEF askers
  <2> QED BY <2>1, <2>2, <2>4 DEF RInv
<1>8. CASE Finish(out) /\ UNCHANGED mlIn
  <2>1. gen' = None /\ tokens' = [tokens EXCEPT ![cur] = Append(out, End)]
        /\ UNCHANGED <<prompts, client, asking, status, reply>>
    BY <1>8 DEF Finish, askers
  <2>2. OneFrame' /\ GenOfClient'
    BY <1>1, <1>2, <1>8, <2>1, NoFrames
  <2>3. client[cur] = "collect" => Remaining(gen, Len(reply[gen]), said'[gen], Append(out, End), TRUE)
    BY <1>4, <1>5, RemainingEnd
  <2>6. tokens'[cur] = Append(out, End) /\ \A c \in Clients : c # cur => tokens'[c] = tokens[c]
    BY <1>2, <2>1 DEF TInv, TypeOK
  <2>4. client[cur] = "collect" => Remaining(gen, Len(reply[gen]), said'[gen], tokens'[cur], gen' # gen)
    BY <1>2, <2>1, <2>3, <2>6 DEF Remaining
  <2>5. OnePrompt' /\ Collected' /\ NewUnanswered' /\ ReplyExact'
    BY <1>1, <1>9, <2>1, <2>4, <2>6, SendFrame
  <2> QED BY <2>2, <2>5 DEF RInv
<1> QED BY <1>6, <1>7, <1>8

\* Every step keeps the answers exact, as long as none ends at its limit and
\* only bridges hang up.
LEMMA NextRInv == ASSUME Orderly PROVE TInv /\ RInv /\ [Next]_vars => RInv'
<1> SUFFICES ASSUME TInv, RInv, [Next]_vars PROVE RInv'
  OBVIOUS
<1> USE SessionConstants
<1>1. ASSUME NEW c \in Clients, Connect(c) PROVE RInv'
  <2>1. PICK at \in {"idle", "gone"} : client' = [client EXCEPT ![c] = at]
    BY <1>1 DEF Connect
  <2> QED BY <1>1, <2>1, IdleLeaves DEF Connect
<1>2. ASSUME NEW r \in Requests, Refuse(r) PROVE RInv'
  <2>1. /\ \A q \in Requests : status'[q] = IF q = r THEN "error" ELSE status[q]
        /\ status[r] = "new" /\ UNCHANGED <<session, prompts, tokens, mlVars, client, asking, reply>>
    BY <1>2 DEF Refuse, TInv, TypeOK
  <2>2. OneFrame' /\ OnePrompt' /\ NewUnanswered' /\ ReplyExact'
    BY <2>1 DEF session, mlVars, RInv, OneFrame, OnePrompt, NewUnanswered, ReplyExact
  <2>3. GenOfClient'
    BY <2>1 DEF session, TInv, TypeOK, RInv, GenOfClient
  <2>4. Collected'
    BY <2>1 DEF session, TInv, AskerHolds, RInv, Collected
  <2> QED BY <2>2, <2>3, <2>4 DEF RInv
<1>3. ASSUME NEW c \in Clients, CollectEnd(c) PROVE RInv'
  BY <1>3, ConcludeRInv DEF CollectEnd
<1>4. ASSUME NEW c \in Clients, Hangup(c) PROVE RInv'
  BY <1>4, ConcludeRInv DEF Hangup, Orderly
<1>5. ASSUME NEW c \in Clients, ReadError(c) PROVE RInv'
  BY <1>5, IdleLeaves DEF ReadError, session
<1>6. CASE (LoadTokenizer \/ AcceptMl \/ NoMoreSlots) /\ ~Terminate
  <2>1. UNCHANGED <<cur, gen, left, said, prompts, tokens, mlVars, askers>>
    BY <1>6 DEF LoadTokenizer, AcceptMl, NoMoreSlots
  <2>2. OneFrame' /\ GenOfClient'
    BY <2>1 DEF mlVars, askers, RInv, OneFrame, GenOfClient
  <2> QED BY <2>1, <2>2, AskersFrame DEF askers, RInv
<1>7. CASE TakeSlot
  <2>1. gen = None /\ gen' = None /\ UNCHANGED <<said, tokens, mlVars, askers>>
    BY <1>7 DEF TakeSlot, TInv, TaskHolds
  <2>2. OneFrame' /\ GenOfClient'
    BY <2>1, NoFrames DEF mlVars, RInv, OneFrame
  <2>3. \A c \in Clients : prompts'[c] \in {prompts[c], <<>>}
    BY <1>7 DEF TakeSlot
  <2> QED BY <2>1, <2>2, <2>3, AskersFrame DEF askers, RInv
<1>8. CASE GenDecodeError
  <2>1. task = "Gen" /\ mlOut # <<>> /\ left > 1 /\ ml = "open"
    BY <1>8 DEF GenDecodeError, Orderly
  <2>2. mlIn = <<>> /\ Tail(mlOut) = <<>> /\ gen \in Requests /\ gen # None
    BY <2>1, LogitsOfGen
  <2>3. left' > 0
    BY <1>8, <2>1 DEF GenDecodeError, TInv, TypeOK
  <2>4. OneFrame'
    BY <1>8, <2>1, <2>2, <2>3, FrameSent DEF GenDecodeError
  <2>5. GenOfClient'
    BY <1>8 DEF GenDecodeError, askers, RInv, GenOfClient
  <2> QED BY <1>8, <2>4, <2>5, AskersFrame DEF GenDecodeError, askers, RInv
<1>9. CASE MlOpen \/ MlForward \/ MlDies
  <2>1. UNCHANGED <<session, prompts, tokens, askers>>
    BY <1>9 DEF MlOpen, MlForward, MlDies
  <2>2. OneFrame'
    <3>0. gen' = gen /\ left' = left
      BY <2>1 DEF session
    <3>1. CASE MlOpen
      BY <3>0, <3>1 DEF MlOpen, RInv, OneFrame
    <3>2. CASE MlDies
      <4>1. mlIn' = <<>> /\ mlOut' = mlOut /\ Len(mlIn') = 0
        BY <3>2, EmptySeq DEF MlDies
      <4>2. Len(mlOut) \in Nat /\ Len(mlIn) \in Nat
        BY LenProperties DEF TInv, TypeOK
      <4>3. Len(mlIn') + Len(mlOut') <= 1
        BY <4>1, <4>2 DEF RInv, OneFrame
      <4> QED BY <3>0, <4>1, <4>3 DEF RInv, OneFrame
    <3>3. CASE MlForward
      <4>0. mlIn # <<>> /\ mlIn \in Seq(Requests) /\ mlOut \in Seq(Requests)
        BY <3>3 DEF MlForward, TInv, TypeOK
      <4>1. Len(mlIn) \in Nat \ {0} /\ Len(mlOut) \in Nat /\ Len(mlIn) + Len(mlOut) <= 1
        BY <4>0, LenProperties, EmptySeq DEF RInv, OneFrame
      <4>2. Len(mlIn) = 1 /\ Len(mlOut) = 0
        <5>1. \A m, n \in Nat : m # 0 /\ m + n <= 1 => m = 1 /\ n = 0
          OBVIOUS
        <5>2. Len(mlIn) \in Nat /\ Len(mlIn) # 0
          BY <4>1
        <5> QED BY <4>1, <5>1, <5>2
      <4>3. Head(mlIn) = gen /\ Tail(mlIn) \in Seq(Requests) /\ Len(Tail(mlIn)) = 0
        BY <4>0, <4>2, HeadTailProperties DEF RInv, OneFrame
      <4>4. mlOut = <<>> /\ Tail(mlIn) = <<>>
        BY <4>0, <4>2, <4>3, EmptySeq
      <4>5. mlIn' = <<>> /\ mlOut' = <<gen>>
        BY <3>3, <4>3, <4>4 DEF MlForward
      <4> QED BY <3>0, <4>0, <4>5 DEF RInv, OneFrame
    <3> QED BY <1>9, <3>1, <3>2, <3>3
  <2>3. GenOfClient'
    BY <2>1 DEF session, askers, RInv, GenOfClient
  <2> QED BY <2>1, <2>2, <2>3, AskersFrame DEF session, askers, RInv
<1>10. CASE UNCHANGED vars
  <2>1. OneFrame' /\ GenOfClient'
    BY <1>10 DEF vars, session, mlVars, askers, RInv, OneFrame, GenOfClient
  <2> QED BY <1>10, <2>1, AskersFrame DEF vars, session, askers, RInv
<1>11. CASE TaskStep
  BY <1>6, <1>7, <1>8, <1>11, RecvPromptRInv, TerminateRInv, GenEndsRInv, GenTokenRInv DEF TaskStep, PromptClosed
<1> QED BY <1>1, <1>2, <1>3, <1>4, <1>5, <1>9, <1>10, <1>11, SubmitRInv, CollectTokenRInv DEF Next

\* Every answer consists of the tokens sampled for its own request, in order,
\* and a finished one of all of them, for any number of clients, slots and
\* requests: slots taken over, prompts dropped, encoding and ML errors, clients
\* that leave and a task that ends never mix two answers up.  The two cases the
\* hypothesis excludes really do (an answer that ends at gen_limit leaves a
\* frame on its way, an HTTP asker that hangs up leaves tokens behind).
THEOREM AnswersExact == ASSUME Orderly PROVE Spec => []ReplyExact
<1>1. TInv /\ RInv /\ [Next]_vars => (TInv /\ RInv)'
  BY NextTInv, NextRInv
<1>2. Init => TInv /\ RInv
  BY InitTInv, InitRInv
<1>3. Spec => [](TInv /\ RInv)
  BY <1>1, <1>2, PTL DEF Spec
<1>4. RInv => ReplyExact
  BY DEF RInv
<1> QED BY <1>3, <1>4, PTL
================================================================================
