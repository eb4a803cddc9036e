------------------------ MODULE EngineManagerProofs ------------------------
(***************************************************************************)
(* Proofs about EngineManager, for any processes, callers and requests.    *)
(*                                                                         *)
(* That a response settles its own request only needs that ids are never   *)
(* used again (IdsOK): requestId is never reset, so that the entry found   *)
(* for a line is the request that was written, whichever process wrote it. *)
(***************************************************************************)
EXTENDS EngineManager, TLAPS

\* Requests are numbered as they are sent.
IdsOK ==
    /\ requestId = count
    /\ \A r \in Reqs : r <= count => req[r].id = r

\* Nothing is pending, on its way, or settled before it was sent.
SentOK ==
    /\ \A r \in pending : r <= count
    /\ \A r \in Reqs : line[r] # "none" => r <= count
    /\ \A r \in Reqs : r > count => outcome[r] = "none" /\ answer[r] = 0

IInv ==
    /\ TypeOK
    /\ IdsOK
    /\ SentOK
    /\ OwnAnswer
    /\ PendingGuarded

USE EngineManagerAssumption DEF procVars, sentVars, pendVars, vars, Reqs

-----------------------------------------------------------------------------

\* The invariant holds for a new engine object.
LEMMA Initial == Init => IInv
<1> SUFFICES ASSUME Init PROVE IInv
  OBVIOUS
<1> USE DEF Init
<1>1. TypeOK
  <2>1. 0 \in 0..MaxRequests  OBVIOUS
  <2>2. req \in [Reqs -> [kind : {"query", "shutdown"}, id : 0..MaxRequests,
                          to : Procs \cup {None}]]
    BY <2>1 DEF NoRequest
  <2> QED BY <2>1, <2>2 DEF TypeOK
<1>2. IdsOK  BY DEF IdsOK
<1>3. SentOK /\ OwnAnswer /\ PendingGuarded  BY DEF SentOK, OwnAnswer, PendingGuarded
<1> QED BY <1>1, <1>2, <1>3 DEF IInv

\* The entry with the id of a request that was sent is the request's own.
LEMMA OwnEntry ==
    ASSUME IInv, NEW r \in Reqs, r <= count
    PROVE  PendingWith(req[r].id) = pending \cap {r}
  BY DEF IInv, TypeOK, IdsOK, SentOK, PendingWith

\* A request is sent with a new id and gets an entry and a timer.
SendEffect ==
    /\ count' \in Reqs /\ count' = count + 1 /\ requestId' = count'
    /\ req' \in [Reqs -> [kind : {"query", "shutdown"}, id : 0..MaxRequests,
                           to : Procs \cup {None}]]
    /\ pending' = pending \cup {count'} /\ timers' = timers \cup {count'}
    /\ outcome' \in [Reqs -> {"none", "pending", "answered", "timeout", "rejected"}]
    /\ line' \in [Reqs -> {"none", "stdin", "stdout", "read"}]
    /\ answer' = answer
    /\ \A q \in Reqs : q # count' => outcome'[q] = outcome[q]

\* That is what Send does.
LEMMA Sending ==
    ASSUME IInv, NEW kind \in {"query", "shutdown"}, Send(kind)
    PROVE  SendEffect
<1> USE DEF SendEffect
<1> USE DEF IInv, TypeOK, Send
<1>1. count' \in Reqs /\ count' = count + 1 /\ requestId' = count'  BY DEF IdsOK
<1>2. [kind |-> kind, id |-> requestId', to |-> process]
        \in [kind : {"query", "shutdown"}, id : 0..MaxRequests, to : Procs \cup {None}]
  BY <1>1
<1>3. req' = [req EXCEPT ![count'] = [kind |-> kind, id |-> requestId', to |-> process]]
  BY <1>1
<1>4. ASSUME NEW q \in pending PROVE req[q].id # requestId'
  <2>1. q \in Reqs /\ q \in 1..count  BY DEF SentOK
  <2>2. req[q].id \in 1..requestId  BY <2>1 DEF IdsOK
  <2>3. requestId' = requestId + 1 /\ requestId \in Nat  BY <1>1 DEF IdsOK
  <2> QED BY <2>2, <2>3
<1>5. pending' = pending \cup {count'} /\ timers' = timers \cup {count'}
  BY <1>1, <1>4
<1>6. req' \in [Reqs -> [kind : {"query", "shutdown"}, id : 0..MaxRequests,
                         to : Procs \cup {None}]]
  BY <1>1, <1>2, <1>3
<1>7. outcome' \in [Reqs -> {"none", "pending", "answered", "timeout", "rejected"}]
  BY <1>1
<1>8. line' \in [Reqs -> {"none", "stdin", "stdout", "read"}]
  BY <1>1
<1>9. \A q \in Reqs : q # count' => outcome'[q] = outcome[q]
  BY <1>1
<1> QED BY <1>1, <1>5, <1>6, <1>7, <1>8, <1>9

\* Every call, callback and step of an engine process preserves it.
LEMMA Inductive == IInv /\ [Next]_vars => IInv'
<1> SUFFICES ASSUME IInv, [Next]_vars PROVE IInv'
  OBVIOUS
<1>1. ASSUME Request PROVE IInv'
  <2> USE <1>1 DEF IInv, TypeOK, Request
  <2>1. TypeOK'
    <3>1. SendEffect  BY Sending
    <3>2. pending' \subseteq Reqs /\ timers' \subseteq Reqs  BY <3>1 DEF SendEffect
    <3> QED BY <3>1, <3>2 DEF SendEffect
  <2>2. IdsOK'  BY DEF IdsOK, Send
  <2>3. SentOK'  BY Sending DEF SendEffect, SentOK, Send
  <2>4. OwnAnswer'  BY DEF OwnAnswer, SentOK, Send
  <2>5. PendingGuarded'  BY Sending DEF SendEffect, PendingGuarded
  <2> QED BY <2>1, <2>2, <2>3, <2>4, <2>5
<1>2. ASSUME NEW c \in Callers, Stop(c) PROVE IInv'
  <2> USE <1>2 DEF IInv, TypeOK, Stop
  <2>1. TypeOK'
    <3>1. SendEffect  BY Sending
    <3>2. waits' \in [Callers -> {None} \cup Procs \cup Reqs]  BY <3>1 DEF SendEffect
    <3>3. pending' \subseteq Reqs /\ timers' \subseteq Reqs  BY <3>1 DEF SendEffect
    <3> QED BY <3>1, <3>2, <3>3 DEF SendEffect
  <2>2. IdsOK'  BY DEF IdsOK, Send
  <2>3. SentOK'  BY Sending DEF SendEffect, SentOK, Send
  <2>4. OwnAnswer'  BY DEF OwnAnswer, SentOK, Send
  <2>5. PendingGuarded'  BY Sending DEF SendEffect, PendingGuarded
  <2> QED BY <2>1, <2>2, <2>3, <2>4, <2>5
<1>3. ASSUME NEW c \in Callers, AwaitReady(c) PROVE IInv'
  <2> USE <1>3 DEF IInv, TypeOK, AwaitReady
  <2>1. TypeOK'  OBVIOUS
  <2>2. IdsOK'  BY DEF IdsOK
  <2>3. SentOK'  BY DEF SentOK, IdsOK
  <2>4. OwnAnswer'  BY DEF OwnAnswer, SentOK
  <2>5. PendingGuarded'  BY DEF PendingGuarded, SentOK
  <2> QED BY <2>1, <2>2, <2>3, <2>4, <2>5
<1>4. ASSUME NEW c \in Callers, NEW p \in Procs, Spawn(c, p) PROVE IInv'
  <2> USE <1>4 DEF IInv, TypeOK, Spawn, NumberedOn, TimeoutSet
  <2>1. TypeOK'  OBVIOUS
  <2>2. IdsOK'  BY DEF IdsOK
  <2>3. SentOK'  BY DEF SentOK, IdsOK
  <2>4. OwnAnswer'  BY DEF OwnAnswer, SentOK
  <2>5. PendingGuarded'  BY DEF PendingGuarded, SentOK
  <2> QED BY <2>1, <2>2, <2>3, <2>4, <2>5
<1>5. ASSUME NEW p \in Procs, Boot(p) PROVE IInv'
  <2> USE <1>5 DEF IInv, TypeOK, Boot
  <2>1. TypeOK'  OBVIOUS
  <2>2. IdsOK'  BY DEF IdsOK
  <2>3. SentOK'  BY DEF SentOK, IdsOK
  <2>4. OwnAnswer'  BY DEF OwnAnswer, SentOK
  <2>5. PendingGuarded'  BY DEF PendingGuarded, SentOK
  <2> QED BY <2>1, <2>2, <2>3, <2>4, <2>5
<1>6. ASSUME NEW p \in Procs, Exit(p) PROVE IInv'
  <2> USE <1>6 DEF IInv, TypeOK, Exit
  <2>1. TypeOK'  OBVIOUS
  <2>2. IdsOK'  BY DEF IdsOK
  <2>3. SentOK'  BY DEF SentOK, IdsOK
  <2>4. OwnAnswer'  BY DEF OwnAnswer, SentOK
  <2>5. PendingGuarded'  BY DEF PendingGuarded, SentOK
  <2> QED BY <2>1, <2>2, <2>3, <2>4, <2>5
<1>7. ASSUME NEW r \in Reqs, Respond(r) PROVE IInv'
  <2> USE <1>7 DEF IInv, TypeOK, Respond
  <2>1. TypeOK'  OBVIOUS
  <2>2. IdsOK'  BY DEF IdsOK
  <2>3. SentOK'  BY DEF SentOK, IdsOK
  <2>4. OwnAnswer'  BY DEF OwnAnswer, SentOK
  <2>5. PendingGuarded'  BY DEF PendingGuarded, SentOK
  <2> QED BY <2>1, <2>2, <2>3, <2>4, <2>5
<1>8. ASSUME NEW c \in Callers, Kill(c) PROVE IInv'
  <2> USE <1>8 DEF IInv, TypeOK, Kill, RejectAllPending, RejectedOutcome, TimersCleared,
        Over, Resumed
  <2>1. TypeOK'  OBVIOUS
  <2>2. IdsOK'  BY DEF IdsOK
  <2>3. SentOK'  BY DEF SentOK, IdsOK
  <2>4. OwnAnswer'  BY DEF OwnAnswer, SentOK
  <2>5. PendingGuarded'  BY DEF PendingGuarded, SentOK
  <2> QED BY <2>1, <2>2, <2>3, <2>4, <2>5
<1>9. ASSUME NEW c \in Callers, KillNothing(c) PROVE IInv'
  <2> USE <1>9 DEF IInv, TypeOK, KillNothing, Over
  <2>1. TypeOK'  OBVIOUS
  <2>2. IdsOK'  BY DEF IdsOK
  <2>3. SentOK'  BY DEF SentOK, IdsOK
  <2>4. OwnAnswer'  BY DEF OwnAnswer, SentOK
  <2>5. PendingGuarded'  BY DEF PendingGuarded, SentOK
  <2> QED BY <2>1, <2>2, <2>3, <2>4, <2>5
<1>10. ASSUME NEW r \in Reqs, RequestTimeout(r) PROVE IInv'
  <2> USE <1>10 DEF IInv, TypeOK, RequestTimeout, Resumed
  <2>1. TypeOK'  OBVIOUS
  <2>2. IdsOK'  BY DEF IdsOK
  <2>3. SentOK'  BY DEF SentOK, IdsOK
  <2>4. OwnAnswer'  BY DEF OwnAnswer, SentOK
  <2>5. PendingGuarded'  BY OwnEntry DEF PendingGuarded, SentOK
  <2> QED BY <2>1, <2>2, <2>3, <2>4, <2>5
<1>11. ASSUME NEW r \in Reqs, HandleResponse(r) PROVE IInv'
  <2> USE <1>11 DEF IInv, TypeOK, HandleResponse, Resumed
  <2>1. TypeOK'  BY DEF PendingWith
  <2>2. IdsOK'  BY DEF IdsOK
  <2>3. SentOK'
    <3>1. PendingWith(req[r].id) = pending \cap {r}  BY OwnEntry DEF SentOK
    <3> QED BY <3>1 DEF SentOK
  <2>4. OwnAnswer'
    <3>1. PendingWith(req[r].id) = pending \cap {r}  BY OwnEntry DEF SentOK
    <3> QED BY <3>1 DEF OwnAnswer
  <2>5. PendingGuarded'  BY OwnEntry DEF PendingGuarded, SentOK
  <2> QED BY <2>1, <2>2, <2>3, <2>4, <2>5
<1>12. ASSUME NEW p \in Procs, HandleReady(p) PROVE IInv'
  <2> USE <1>12 DEF IInv, TypeOK, HandleReady, Over, Waiting, Starting
  <2>1. TypeOK'
    <3>1. CASE listener[p] = "ready"
      <4>1. listener' \in [Procs -> {"none", "ready", "responses"}]  BY <3>1
      <4>2. pc' \in [Callers -> {"idle", "starting", "waiting", "stopping", "resume"}]
        BY <3>1
      <4>3. waits' \in [Callers -> {None} \cup Procs \cup Reqs]  BY <3>1
      <4> QED BY <3>1, <4>1, <4>2, <4>3
    <3>2. CASE listener[p] # "ready"  BY <3>2
    <3> QED BY <3>1, <3>2
  <2>2. IdsOK'  BY DEF IdsOK
  <2>3. SentOK'  BY DEF SentOK, IdsOK
  <2>4. OwnAnswer'  BY DEF OwnAnswer, SentOK
  <2>5. PendingGuarded'  BY DEF PendingGuarded, SentOK
  <2> QED BY <2>1, <2>2, <2>3, <2>4, <2>5
<1>13. ASSUME NEW p \in Procs, StartupTimeout(p) PROVE IInv'
  <2> USE <1>13 DEF IInv, TypeOK, StartupTimeout, Over, Starting
  <2>1. TypeOK'  OBVIOUS
  <2>2. IdsOK'  BY DEF IdsOK
  <2>3. SentOK'  BY DEF SentOK, IdsOK
  <2>4. OwnAnswer'  BY DEF OwnAnswer, SentOK
  <2>5. PendingGuarded'  BY DEF PendingGuarded, SentOK
  <2> QED BY <2>1, <2>2, <2>3, <2>4, <2>5
<1>14. ASSUME NEW p \in Procs, OnExit(p) PROVE IInv'
  <2> USE <1>14 DEF IInv, TypeOK, OnExit, RejectAllPending, RejectedOutcome, TimersCleared,
        Over, Resumed
  <2>1. TypeOK'  OBVIOUS
  <2>2. IdsOK'  BY DEF IdsOK
  <2>3. SentOK'  BY DEF SentOK, IdsOK
  <2>4. OwnAnswer'  BY DEF OwnAnswer, SentOK
  <2>5. PendingGuarded'  BY DEF PendingGuarded, SentOK
  <2> QED BY <2>1, <2>2, <2>3, <2>4, <2>5
<1>15. ASSUME NEW p \in Procs, OnError(p) PROVE IInv'
  <2> USE <1>15 DEF IInv, TypeOK, OnError, RejectAllPending, RejectedOutcome, TimersCleared,
        Over, Resumed
  <2>1. TypeOK'  OBVIOUS
  <2>2. IdsOK'  BY DEF IdsOK
  <2>3. SentOK'  BY DEF SentOK, IdsOK
  <2>4. OwnAnswer'  BY DEF OwnAnswer, SentOK
  <2>5. PendingGuarded'  BY DEF PendingGuarded, SentOK
  <2> QED BY <2>1, <2>2, <2>3, <2>4, <2>5
<1>16. ASSUME UNCHANGED vars PROVE IInv'
  BY <1>16 DEF IInv, TypeOK, IdsOK, SentOK, OwnAnswer, PendingGuarded
<1> QED
  BY <1>1, <1>2, <1>3, <1>4, <1>5, <1>6, <1>7, <1>8, <1>9, <1>10, <1>11, <1>12, <1>13,
     <1>14, <1>15, <1>16
  DEF Next, User, Engine, Resume

\* The inductive invariant holds in every reachable state.
THEOREM Invariant == Spec => []IInv
  BY Initial, Inductive, PTL DEF Spec

\* Type correctness.
THEOREM TypeCorrect == Spec => []TypeOK
<1>1. IInv => TypeOK
  BY DEF IInv
<1> QED BY <1>1, Invariant, PTL

\* No response reaches another request, of this process or of a later one.
THEOREM AnswersOwn == Spec => []OwnAnswer
<1>1. IInv => OwnAnswer
  BY DEF IInv
<1> QED BY <1>1, Invariant, PTL

\* Every unsettled promise has an entry with a running timer.
THEOREM AlwaysGuarded == Spec => []PendingGuarded
<1>1. IInv => PendingGuarded
  BY DEF IInv
<1> QED BY <1>1, Invariant, PTL

=============================================================================
