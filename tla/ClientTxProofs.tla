--------------------------- MODULE ClientTxProofs ---------------------------
(***************************************************************************)
(* Proofs about ClientTx, for any calls and any number of operations.      *)
(*                                                                         *)
(* A promise tells the truth because a request is answered with success    *)
(* only by the engine that did it (RequestOK, EngineOK); a batch is whole  *)
(* because its commit is not sent before all its answers are here          *)
(* (OrderOK).                                                              *)
(***************************************************************************)
EXTENDS ClientTx, TLAPS

\* What the client knows of a request, and what the engine did with it.
RequestOK ==
    \A c \in Calls, r \in Requests :
        /\ Unsent(c, r) => srv[c][r] = "unsent"
        /\ Resolved(c, r) => srv[c][r] = "ok"

\* A batch has the answers to all requests before the last one that it sent, and
\* nothing is ended whose begin was not answered.
OrderOK ==
    \A c \in Calls :
        /\ ~Unsent(c, Commit) \/ ~Unsent(c, Rollback) => Resolved(c, Begin)
        /\ c \in batches => \A r \in 1..Commit, q \in Requests :
              ~Unsent(c, r) /\ q < r => Resolved(c, q)

\* Why a promise is as it is.
OutcomeOK ==
    \A c \in Calls :
        /\ outcome[c] = "none" => Unsent(c, Begin)
        /\ outcome[c] = "resolved" => Resolved(c, Commit)
        /\ outcome[c] = "rejected" =>
              Unsent(c, Begin) \/ Rejected(c, Begin) \/ ~Unsent(c, Rollback)

\* A request is in a queue.
In(q, c, r) == <<c, r>> \in q

\* What a process has to do, and its transactions, it has for itself; one that does not
\* run has neither.
QueueOK ==
    \A e \in Engines :
        /\ e \in live => e <= engines
        /\ e \notin live => queue[e] = {} /\ store[e] = {}
        /\ \A c \in Calls, r \in Requests : In(queue[e], c, r) =>
              srv[c][r] = "sent" /\ \A f \in Engines : In(queue[f], c, r) => f = e
        /\ \A c \in store[e] :
              srv[c][Begin] = "ok" /\ \A f \in Engines : c \in store[f] => f = e

\* What the engine's answers mean.
EngineOK ==
    \A c \in Calls :
          /\ srv[c][Commit] = "ok" => status[c] = "committed"
          /\ status[c] = "committed" => srv[c][Commit] \in {"ok", "error"}
          /\ \A o \in Ops : srv[c][o] = "ok" => <<c, o>> \in written[c]

\* What is published is what the committed transactions wrote.
DataOK ==
    \A c \in Calls, o \in Ops :
        /\ <<c, o>> \in db <=> status[c] = "committed" /\ <<c, o>> \in written[c]
        /\ \A d \in Calls : <<c, o>> \in written[d] => d = c

\* A transaction that is still there has its rollback on its way, once it was sent.
RollbackOK ==
    \A e \in Engines : \A c \in store[e] :
        ~Unsent(c, Rollback) => In(queue[e], c, Rollback) \/ GivenUp(e)

IInv ==
    /\ TypeOK
    /\ RequestOK
    /\ OrderOK
    /\ OutcomeOK
    /\ QueueOK
    /\ EngineOK
    /\ DataOK
    /\ RollbackOK

\* How requests are numbered.
LEMMA Numbers ==
    /\ Requests \subseteq Nat /\ N \in Nat /\ Ops \subseteq Requests
    /\ Begin \in Requests /\ Commit \in Requests /\ Rollback \in Requests /\ Raw \in Requests
    /\ Begin # Commit /\ Begin # Rollback /\ Commit # Rollback
    /\ Raw \notin {Begin, Commit, Rollback}
    /\ \A o \in Ops : o \notin {Begin, Commit, Rollback, Raw}
    /\ \A r \in 1..Commit : r \in Requests /\ r # Rollback
    /\ Engines \subseteq Nat
  BY ClientTxAssumption DEF Begin, Ops, Commit, Rollback, Raw, Requests, Engines

LEMMA Preceded ==
    ASSUME NEW r \in 1..Commit
    PROVE  r - 1 \in Requests
  BY ClientTxAssumption DEF Begin, Commit, Rollback, Raw, Requests

\* The requests before one of a batch.
LEMMA Below ==
    ASSUME NEW r \in 1..Commit, NEW q \in Requests, q < r
    PROVE  q = r - 1 \/ (r - 1 \in 1..Commit /\ q < r - 1)
  BY Numbers, ClientTxAssumption DEF Commit

USE Numbers DEF Resolved, Rejected, Unsent

-----------------------------------------------------------------------------

\* The queues stay in order when nothing but the stores changes, and they shrink.
LEMMA QueueStays ==
    ASSUME QueueOK, UNCHANGED <<engines, live, queue, srv>>,
           \A e \in Engines : store'[e] \subseteq store[e]
    PROVE  QueueOK'
  BY DEF QueueOK

\* The invariant holds at first.
LEMMA Initial == Init => IInv
<1> SUFFICES ASSUME Init PROVE IInv
  OBVIOUS
<1> USE DEF Init, A!AbsInit
<1>1. TypeOK
  <2>1. cli \in [Calls -> [Requests -> {"unsent", "waiting", "resolved", "rejected"}]]
    OBVIOUS
  <2>2. srv \in [Calls -> [Requests -> Sent]]  BY DEF Sent
  <2>3. status \in [Calls -> A!Status] /\ written \in [Calls -> SUBSET (Calls \X Ops)]
    BY DEF A!Status
  <2>4. engines \in 0..MaxEngines  BY ClientTxAssumption
  <2> QED BY <2>1, <2>2, <2>3, <2>4 DEF TypeOK
<1>2. RequestOK /\ OrderOK /\ OutcomeOK  BY DEF RequestOK, OrderOK, OutcomeOK
<1>3. QueueOK  BY DEF QueueOK, In
<1>4. EngineOK /\ DataOK /\ RollbackOK  BY DEF EngineOK, DataOK, RollbackOK
<1> QED BY <1>1, <1>2, <1>3, <1>4 DEF IInv

CliStates == {"unsent", "waiting", "resolved", "rejected"}

\* Nothing but the state of one request changes on the client's side ...
Marked(c, r, s) ==
    /\ cli' \in [Calls -> [Requests -> CliStates]]
    /\ \A d \in Calls, q \in Requests :
          cli'[d][q] = IF d = c /\ q = r THEN s ELSE cli[d][q]

\* ... and on the engine's.
Replied(c, r, s) ==
    /\ srv' \in [Calls -> [Requests -> Sent]]
    /\ \A d \in Calls, q \in Requests :
          srv'[d][q] = IF d = c /\ q = r THEN s ELSE srv[d][q]

\* Mark changes one request.
LEMMA Marking ==
    ASSUME TypeOK, NEW c \in Calls, NEW r \in Requests, NEW s \in CliStates, Mark(c, r, s)
    PROVE  Marked(c, r, s)
  BY DEF TypeOK, Mark, Marked, CliStates

\* Reply changes one request.
LEMMA Replying ==
    ASSUME TypeOK, NEW c \in Calls, NEW r \in Requests, NEW s \in Sent, Reply(c, r, s)
    PROVE  Replied(c, r, s)
  BY DEF TypeOK, Reply, Replied

\* One request is given to the process that the client uses, if that one runs.
Queued(c, r) ==
    /\ queue' \in [Engines -> SUBSET (Calls \X Requests)]
    /\ \A e \in Engines :
          /\ e # engines \/ e \notin live => queue'[e] = queue[e]
          /\ \A d \in Calls, q \in Requests :
                In(queue'[e], d, q) <=>
                    In(queue[e], d, q) \/ (d = c /\ q = r /\ e = engines /\ e \in live)

\* A request is on its way, or was refused by the client itself.
Dispatch(c, r) ==
    \/ Marked(c, r, "waiting") /\ Replied(c, r, "sent") /\ Queued(c, r)
    \/ /\ ~ready \/ r \in Ops \cup {Raw}
       /\ Marked(c, r, "rejected")
       /\ UNCHANGED <<srv, queue>>

\* Send does one of these.
LEMMA Sending ==
    ASSUME TypeOK, NEW c \in Calls, NEW r \in Requests, Send(c, r)
    PROVE  Dispatch(c, r)
<1>1. CASE ready
  <2>1. Marked(c, r, "waiting")
    BY <1>1, Marking DEF Send, CliStates
  <2>2. Replied(c, r, "sent")
    BY <1>1, Replying DEF Send, Sent
  <2>3. Queued(c, r)
    <3> DEFINE New(e) == {q \in {<<c, r>>} : e = engines /\ e \in live}
    <3>1. queue' = [e \in Engines |-> queue[e] \cup New(e)]
      BY <1>1 DEF Send
    <3>2. \A e \in Engines : New(e) \subseteq Calls \X Requests
      OBVIOUS
    <3>3. \A e \in Engines : queue[e] \subseteq Calls \X Requests
      BY DEF TypeOK
    <3>4. \A e \in Engines, d \in Calls, q \in Requests :
              <<d, q>> \in New(e) <=> d = c /\ q = r /\ e = engines /\ e \in live
      OBVIOUS
    <3>5. \A e \in Engines : e # engines \/ e \notin live => New(e) = {}
      OBVIOUS
    <3> HIDE DEF New
    <3>6. queue' \in [Engines -> SUBSET (Calls \X Requests)]
      BY <3>1, <3>2, <3>3
    <3>7. \A e \in Engines : e # engines \/ e \notin live => queue'[e] = queue[e]
      BY <3>1, <3>5
    <3> QED BY <3>1, <3>4, <3>6, <3>7 DEF Queued, In
  <2> QED BY <2>1, <2>2, <2>3 DEF Dispatch
<1>2. CASE ~ready
  BY <1>2, Marking DEF Send, Dispatch, CliStates
<1> QED BY <1>1, <1>2 DEF TypeOK

\* So does SendConnected for an operation.
LEMMA SendingConnected ==
    ASSUME TypeOK, NEW c \in Calls, NEW r \in Ops \cup {Raw}, SendConnected(c, r)
    PROVE  Dispatch(c, r)
<1>1. CASE Send(c, r)
  BY <1>1, Sending
<1>2. CASE ~connected /\ Mark(c, r, "rejected") /\ UNCHANGED <<srv, queue>>
  BY <1>2, Marking DEF Dispatch, CliStates
<1> QED BY <1>1, <1>2 DEF SendConnected

\* What sending a request needs, so that all is well but for the outcome.
LEMMA SendSafe ==
    ASSUME IInv, NEW c \in Calls, NEW r \in Requests, Unsent(c, r), Dispatch(c, r),
           UNCHANGED <<link, store, base>>,
           r \in {Commit, Rollback} => Resolved(c, Begin),
           c \in batches /\ r \in 1..Commit => Resolved(c, r - 1)
    PROVE  /\ cli' \in [Calls -> [Requests -> CliStates]]
           /\ srv' \in [Calls -> [Requests -> Sent]]
           /\ queue' \in [Engines -> SUBSET (Calls \X Requests)]
           /\ RequestOK' /\ OrderOK' /\ QueueOK' /\ EngineOK' /\ DataOK' /\ RollbackOK'
<1> USE DEF IInv, CliStates
<1>1. cli' \in [Calls -> [Requests -> CliStates]]
  BY DEF Dispatch, Marked
<1>2. srv' \in [Calls -> [Requests -> Sent]]
  BY DEF Dispatch, Replied, TypeOK
<1>3. \A d \in Calls, q \in Requests : d # c \/ q # r =>
          cli'[d][q] = cli[d][q] /\ srv'[d][q] = srv[d][q]
  BY DEF Dispatch, Marked, Replied
<1>4. /\ cli'[c][r] \in {"waiting", "rejected"}
      /\ srv[c][r] = "unsent" /\ srv'[c][r] \in {"unsent", "sent"}
  BY DEF Dispatch, Marked, Replied, RequestOK
<1>5. RequestOK'
  <2>1. cli'[c][r] = "waiting" \/ srv'[c][r] = "unsent"
    BY DEF Dispatch, Marked, Replied, RequestOK
  <2>2. RequestOK
    OBVIOUS
  <2>3. ASSUME NEW d \in Calls, NEW q \in Requests
        PROVE  (Unsent(d, q)' => srv'[d][q] = "unsent") /\ (Resolved(d, q)' => srv'[d][q] = "ok")
    <3>1. CASE d = c /\ q = r
      BY <1>4, <2>1, <3>1
    <3>2. CASE d # c \/ q # r
      BY <1>3, <2>2, <3>2 DEF RequestOK
    <3> QED BY <3>1, <3>2
  <2> QED BY <2>3 DEF RequestOK
<1>6. OrderOK'
  <2> USE DEF base
  <2> SUFFICES ASSUME NEW d \in Calls
               PROVE  /\ ~Unsent(d, Commit)' \/ ~Unsent(d, Rollback)' => Resolved(d, Begin)'
                      /\ d \in batches => \A p \in 1..Commit, q \in Requests :
                            ~Unsent(d, p)' /\ q < p => Resolved(d, q)'
    BY DEF OrderOK
  <2>1. \A q \in Requests : Resolved(d, q) => Resolved(d, q)'
    BY <1>3
  <2>2. ~Unsent(d, Commit)' \/ ~Unsent(d, Rollback)' => Resolved(d, Begin)'
    BY <1>3, <2>1 DEF OrderOK
  <2>3. ASSUME d \in batches, NEW p \in 1..Commit, NEW q \in Requests, ~Unsent(d, p)', q < p
        PROVE  Resolved(d, q)'
    <3>1. CASE d # c \/ p # r
      BY <1>3, <2>1, <2>3, <3>1 DEF OrderOK
    <3>2. CASE d = c /\ p = r
      <4>1. Resolved(c, r - 1) /\ r - 1 \in Requests
        BY <2>3, <3>2, Preceded
      <4>2. CASE q = r - 1
        BY <2>1, <3>2, <4>1, <4>2
      <4>3. CASE r - 1 \in 1..Commit /\ q < r - 1
        <5>1. ~Unsent(c, r - 1)
          BY <4>1
        <5> QED BY <2>1, <2>3, <3>2, <4>3, <5>1 DEF OrderOK
      <4> QED BY <2>3, <3>2, <4>2, <4>3, Below
    <3> QED BY <3>1, <3>2
  <2> QED BY <2>2, <2>3
<1>7. QueueOK' /\ queue' \in [Engines -> SUBSET (Calls \X Requests)]
  <2> USE DEF link
  <2>1. CASE UNCHANGED <<srv, queue>>
    <3>1. QueueOK /\ UNCHANGED <<engines, live, store>>
      OBVIOUS
    <3>2. QueueOK'
      BY <2>1, <3>1, QueueStays
    <3> QED BY <2>1, <3>2 DEF TypeOK
  <2>2. CASE Replied(c, r, "sent") /\ Queued(c, r)
    <3>1. \A e \in Engines : ~In(queue[e], c, r)
      BY <1>4 DEF QueueOK
    <3>2. \A e \in Engines : In(queue'[e], c, r) => e = engines /\ e \in live
      BY <2>2, <3>1 DEF Queued
    <3>3. srv'[c][r] = "sent"
      BY <2>2 DEF Replied
    <3>4. \A e \in Engines : e \notin live => queue'[e] = {}
      BY <2>2 DEF Queued, QueueOK
    <3>7. \A e \in Engines, d \in Calls, q \in Requests : d # c \/ q # r =>
              (In(queue'[e], d, q) <=> In(queue[e], d, q))
      BY <2>2 DEF Queued
    <3>5. \A e \in Engines, d \in Calls, q \in Requests : In(queue'[e], d, q) =>
              srv'[d][q] = "sent" /\ \A f \in Engines : In(queue'[f], d, q) => f = e
      BY <1>3, <3>2, <3>3, <3>7 DEF QueueOK
    <3>6. \A e \in Engines : \A d \in store[e] :
              srv'[d][Begin] = "ok" /\ \A f \in Engines : d \in store[f] => f = e
      <4>1. \A e \in Engines : \A d \in store[e] : d \in Calls
        BY DEF TypeOK
      <4> QED BY <1>3, <1>4, <4>1 DEF QueueOK
    <3> QED BY <2>2, <3>4, <3>5, <3>6 DEF QueueOK, Queued
  <2> QED BY <2>1, <2>2 DEF Dispatch
<1>8. EngineOK'
  BY <1>3, <1>4 DEF EngineOK, base
<1>9. DataOK'
  BY DEF DataOK, base
<1>10. RollbackOK'
  <2> SUFFICES ASSUME NEW e \in Engines, NEW d \in store[e], ~Unsent(d, Rollback)'
               PROVE  In(queue'[e], d, Rollback) \/ GivenUp(e)
    BY DEF RollbackOK, GivenUp, link
  <2>d. d \in Calls
    BY DEF TypeOK
  <2>1. CASE d # c \/ r # Rollback
    <3>1. ~Unsent(d, Rollback)
      BY <1>3, <2>1, <2>d
    <3>2. In(queue[e], d, Rollback) => In(queue'[e], d, Rollback)
      BY <2>d DEF Dispatch, Queued
    <3> QED BY <3>1, <3>2 DEF RollbackOK
  <2>2. CASE d = c /\ r = Rollback
    BY <2>2 DEF Dispatch, Queued, QueueOK, GivenUp
  <2> QED BY <2>1, <2>2
<1> QED BY <1>1, <1>2, <1>5, <1>6, <1>7, <1>8, <1>9, <1>10

\* A request that waits is answered, by the engine or by its timer.
LEMMA AnswerSafe ==
    ASSUME IInv, NEW c \in Calls, NEW r \in Requests, cli[c][r] = "waiting",
           NEW s \in {"resolved", "rejected"}, s = "resolved" => srv[c][r] = "ok",
           Mark(c, r, s), UNCHANGED <<link, outcome, srv, queue, store, base>>
    PROVE  IInv'
<1> USE DEF IInv, TypeOK, link, base, CliStates
<1>1. Marked(c, r, s)
  BY Marking
<1>2. cli' \in [Calls -> [Requests -> CliStates]]
  BY <1>1 DEF Marked
<1>3. \A d \in Calls, q \in Requests :
          IF d = c /\ q = r THEN cli'[d][q] = s ELSE cli'[d][q] = cli[d][q]
  BY <1>1 DEF Marked
<1>4. \A d \in Calls, q \in Requests :
          /\ Unsent(d, q)' <=> Unsent(d, q)
          /\ Resolved(d, q) => Resolved(d, q)'
          /\ Rejected(d, q) => Rejected(d, q)'
  BY <1>3
<1>5. TypeOK'  BY <1>2
<1>6. RequestOK'  BY <1>3 DEF RequestOK
<1>7. OrderOK'  BY <1>4 DEF OrderOK
<1>8. OutcomeOK'  BY <1>4 DEF OutcomeOK
<1>9. QueueOK' /\ EngineOK' /\ DataOK'  BY QueueStays DEF EngineOK, DataOK
<1>10. RollbackOK'  BY <1>4 DEF RollbackOK, GivenUp
<1> QED BY <1>5, <1>6, <1>7, <1>8, <1>9, <1>10

\* A step of the client that sends a request, and leaves the outcome.
LEMMA SendStep ==
    ASSUME IInv, NEW c \in Calls, NEW r \in Requests, r # Begin, Unsent(c, r), Dispatch(c, r),
           UNCHANGED <<link, outcome, store, base>>,
           r \in {Commit, Rollback} => Resolved(c, Begin),
           c \in batches /\ r \in 1..Commit => Resolved(c, r - 1)
    PROVE  IInv'
<1>1. /\ cli' \in [Calls -> [Requests -> CliStates]]
      /\ srv' \in [Calls -> [Requests -> Sent]]
      /\ queue' \in [Engines -> SUBSET (Calls \X Requests)]
      /\ RequestOK' /\ OrderOK' /\ QueueOK' /\ EngineOK' /\ DataOK' /\ RollbackOK'
  BY SendSafe
<1>2. TypeOK'  BY <1>1 DEF IInv, TypeOK, link, base, CliStates
<1>3. OutcomeOK'
  <2>1. \A d \in Calls, q \in Requests : d # c \/ q # r => cli'[d][q] = cli[d][q]
    BY DEF Dispatch, Marked
  <2>2. cli'[c][r] # "unsent"
    BY DEF Dispatch, Marked
  <2> QED BY <2>1, <2>2 DEF IInv, OutcomeOK
<1> QED BY <1>1, <1>2, <1>3 DEF IInv

\* A request that a process has executed waits there no more.
LEMMA Executed ==
    ASSUME IInv, NEW e \in Engines, NEW c \in Calls, NEW r \in Requests, Executes(e, c, r),
           NEW s \in {"ok", "error"}, Reply(c, r, s), UNCHANGED cli
    PROVE  /\ srv' \in [Calls -> [Requests -> Sent]]
           /\ queue' \in [Engines -> SUBSET (Calls \X Requests)]
           /\ RequestOK'
           /\ srv[c][r] = "sent" /\ srv'[c][r] = s
           /\ \A d \in Calls, q \in Requests : d # c \/ q # r => srv'[d][q] = srv[d][q]
           /\ \A f \in Engines : queue'[f] \subseteq queue[f] /\ ~In(queue'[f], c, r)
           /\ \A f \in Engines, d \in Calls, q \in Requests :
                 d # c \/ q # r => (In(queue'[f], d, q) <=> In(queue[f], d, q))
<1>1. Replied(c, r, s)
  BY Replying DEF IInv, Sent
<1>2. srv[c][r] = "sent"
  BY DEF IInv, Executes, QueueOK, In
<1>3. RequestOK'
  BY <1>1, <1>2 DEF IInv, RequestOK, Replied
<1>4. queue' \in [Engines -> SUBSET (Calls \X Requests)]
  BY DEF Executes, IInv, TypeOK
<1>5. \A f \in Engines : queue'[f] \subseteq queue[f]
  BY DEF Executes, IInv, TypeOK
<1>6. ASSUME NEW f \in Engines PROVE ~In(queue'[f], c, r)
  <2>1. CASE f = e
    BY <2>1 DEF Executes, IInv, TypeOK, In
  <2>2. CASE f # e
    <3>1. ~In(queue[f], c, r)  BY <2>2 DEF Executes, IInv, QueueOK, In
    <3> QED BY <1>5, <3>1 DEF In
  <2> QED BY <2>1, <2>2
<1>7. ASSUME NEW f \in Engines, NEW d \in Calls, NEW q \in Requests, d # c \/ q # r
      PROVE  In(queue'[f], d, q) <=> In(queue[f], d, q)
  <2>1. queue'[f] = IF f = e THEN queue[f] \ {<<c, r>>} ELSE queue[f]
    BY DEF Executes, IInv, TypeOK
  <2>2. <<d, q>> # <<c, r>>
    BY <1>7
  <2> QED BY <2>1, <2>2 DEF In
<1> QED BY <1>1, <1>2, <1>3, <1>4, <1>5, <1>6, <1>7 DEF Replied

\* It leaves the queues in order, if no process has more transactions than before, and
\* the one that rolls a transaction back does not have it any more.
LEMMA QueuesLeft ==
    ASSUME IInv, NEW e \in Engines, NEW c \in Calls, NEW r \in Requests, Executes(e, c, r),
           NEW s \in {"ok", "error"}, Reply(c, r, s), UNCHANGED <<link, cli>>,
           \A f \in Engines : store'[f] \subseteq store[f],
           r = Rollback => c \notin store'[e]
    PROVE  QueueOK' /\ RollbackOK'
<1>1. /\ srv[c][r] = "sent"
      /\ \A d \in Calls, q \in Requests : d # c \/ q # r => srv'[d][q] = srv[d][q]
      /\ \A f \in Engines : queue'[f] \subseteq queue[f] /\ ~In(queue'[f], c, r)
      /\ \A f \in Engines, d \in Calls, q \in Requests :
            d # c \/ q # r => (In(queue'[f], d, q) <=> In(queue[f], d, q))
  BY Executed
<1>2. \A f \in Engines : \A d \in store[f] : d \in Calls
  BY DEF IInv, TypeOK
<1>3. QueueOK'
  <2>1. \A f \in Engines : f \notin live => queue'[f] = {} /\ store'[f] = {}
    BY <1>1 DEF IInv, QueueOK
  <2>2. \A f \in Engines : \A d \in store'[f] :
            srv'[d][Begin] = "ok" /\ \A g \in Engines : d \in store'[g] => g = f
    <3>1. \A f \in Engines : \A d \in store[f] : srv[d][Begin] = "ok" /\ (d # c \/ Begin # r)
      BY <1>1 DEF IInv, QueueOK
    <3>2. \A f \in Engines : \A d \in store[f] : srv'[d][Begin] = "ok"
      BY <1>1, <1>2, <3>1
    <3>3. \A f, g \in Engines : \A d \in store'[f] : d \in store'[g] => g = f
      BY DEF IInv, QueueOK
    <3> QED BY <3>2, <3>3
  <2>3. ASSUME NEW f \in Engines, NEW d \in Calls, NEW q \in Requests, In(queue'[f], d, q)
        PROVE  srv'[d][q] = "sent" /\ \A g \in Engines : In(queue'[g], d, q) => g = f
    <3>1. d # c \/ q # r
      BY <1>1, <2>3
    <3>2. In(queue[f], d, q) /\ srv'[d][q] = srv[d][q]
      BY <1>1, <2>3, <3>1
    <3>3. \A g \in Engines : In(queue'[g], d, q) => In(queue[g], d, q)
      BY <1>1, <3>1
    <3> QED BY <3>2, <3>3 DEF IInv, QueueOK
  <2> QED BY <2>1, <2>2, <2>3 DEF IInv, QueueOK, link
<1>4. RollbackOK'
  <2> SUFFICES ASSUME NEW f \in Engines, NEW d \in store'[f], ~Unsent(d, Rollback)
               PROVE  In(queue'[f], d, Rollback) \/ GivenUp(f)
    BY DEF RollbackOK, GivenUp, link
  <2>1. d \in store[f] /\ d \in Calls
    BY <1>2
  <2>2. CASE d = c /\ r = Rollback
    <3>1. In(queue[e], c, r) /\ f # e
      BY <2>2 DEF Executes, In
    <3>2. ~In(queue[f], c, r)
      BY <3>1 DEF IInv, QueueOK
    <3> QED BY <2>1, <2>2, <3>2 DEF IInv, RollbackOK
  <2>3. CASE d # c \/ r # Rollback
    BY <1>1, <2>1, <2>3 DEF IInv, RollbackOK
  <2> QED BY <2>2, <2>3
<1> QED BY <1>3, <1>4

\* A transaction that was taken out of a store is in none.
LEMMA Removed ==
    ASSUME IInv, NEW c \in Calls, store' = Taken(c)
    PROVE  /\ \A f \in Engines : store'[f] \subseteq store[f] /\ c \notin store'[f]
           /\ \A f \in Engines : \A d \in store'[f] : d \in Calls /\ status[d] = "open"
           /\ store' \in [Engines -> SUBSET Calls]
  BY DEF IInv, TypeOK, Taken

\* What ends a transaction publishes what it wrote, or nothing.
LEMMA EndedData ==
    ASSUME TypeOK, DataOK, NEW c \in Calls, A!AbsCommit(c) \/ A!AbsAbort(c)
    PROVE  DataOK'
<1>1. written' = written /\ status[c] = "open"
  BY DEF A!AbsCommit, A!AbsAbort
<1>2. CASE A!AbsCommit(c)
  <2>1. /\ db' = db \cup written[c]
        /\ \A d \in Calls : status'[d] = "committed" <=> status[d] = "committed" \/ d = c
    BY <1>2 DEF A!AbsCommit, TypeOK
  <2> QED BY <1>1, <2>1 DEF DataOK
<1>3. CASE A!AbsAbort(c)
  <2>1. db' = db /\ \A d \in Calls : status'[d] = "committed" <=> status[d] = "committed"
    BY <1>3 DEF A!AbsAbort, TypeOK
  <2> QED BY <1>1, <2>1 DEF DataOK
<1> QED BY <1>2, <1>3

\* What Executed shows of a request.
Handled(c, r, s) ==
    /\ srv' \in [Calls -> [Requests -> Sent]]
    /\ queue' \in [Engines -> SUBSET (Calls \X Requests)]
    /\ RequestOK'
    /\ srv[c][r] = "sent" /\ srv'[c][r] = s
    /\ \A d \in Calls, q \in Requests : d # c \/ q # r => srv'[d][q] = srv[d][q]
    /\ \A f \in Engines : queue'[f] \subseteq queue[f] /\ ~In(queue'[f], c, r)
    /\ \A f \in Engines, d \in Calls, q \in Requests :
          d # c \/ q # r => (In(queue'[f], d, q) <=> In(queue[f], d, q))

LEMMA Handling ==
    ASSUME IInv, NEW e \in Engines, NEW c \in Calls, NEW r \in Requests, Executes(e, c, r),
           NEW s \in {"ok", "error"}, Reply(c, r, s), UNCHANGED cli
    PROVE  Handled(c, r, s)
BY Executed DEF Handled

-----------------------------------------------------------------------------

\* Every step preserves the invariant.
LEMMA Inductive == IInv /\ [Next]_vars => IInv'
<1> SUFFICES ASSUME IInv, [Next]_vars PROVE IInv'
  OBVIOUS
<1>1. ASSUME NEW c \in Calls, Transaction(c) PROVE IInv'
  <2>1. CASE Send(c, Begin) /\ outcome' = [outcome EXCEPT ![c] = "pending"]
    <3> USE <1>1, <2>1 DEF IInv, Transaction
    <3>1. Unsent(c, Begin)  BY DEF OutcomeOK
    <3>2. Dispatch(c, Begin)  BY Sending
    <3>3. /\ cli' \in [Calls -> [Requests -> CliStates]]
          /\ srv' \in [Calls -> [Requests -> Sent]]
          /\ queue' \in [Engines -> SUBSET (Calls \X Requests)]
          /\ RequestOK' /\ OrderOK' /\ QueueOK' /\ EngineOK' /\ DataOK' /\ RollbackOK'
      <4>1. Begin \notin 1..Commit  BY DEF Begin
      <4> QED BY <3>1, <3>2, <4>1, SendSafe
    <3>4. TypeOK'  BY <3>3 DEF TypeOK, link, base, CliStates
    <3>5. OutcomeOK'
      <4>1. \A d \in Calls, q \in Requests : d # c \/ q # Begin => cli'[d][q] = cli[d][q]
        BY <3>2 DEF Dispatch, Marked
      <4> QED BY <4>1 DEF OutcomeOK, TypeOK
    <3> QED BY <3>3, <3>4, <3>5
  <2>2. CASE outcome' = [outcome EXCEPT ![c] = "rejected"] /\ UNCHANGED <<cli, srv, queue>>
    <3> USE <1>1, <2>2 DEF IInv, Transaction, TypeOK, link, base
    <3>1. TypeOK'  OBVIOUS
    <3>2. OutcomeOK'  BY DEF OutcomeOK
    <3>3. RequestOK' /\ OrderOK' /\ QueueOK' /\ EngineOK' /\ DataOK' /\ RollbackOK'
      BY DEF RequestOK, OrderOK, QueueOK, EngineOK, DataOK, RollbackOK, GivenUp
    <3> QED BY <3>1, <3>2, <3>3
  <2> QED BY <1>1, <2>1, <2>2 DEF Transaction
<1>2. ASSUME NEW c \in Calls, BatchNext(c) PROVE IInv'
  <2>1. PICK r \in Begin..N : Awaited(c, r) /\ Unsent(c, r + 1) /\ Send(c, r + 1)
    BY <1>2 DEF BatchNext
  <2>2. r + 1 \in 1..Commit /\ (r + 1) - 1 = r /\ r + 1 # Begin
    BY DEF Begin, Commit
  <2>3. r + 1 \in Requests /\ r + 1 # Rollback
    BY <2>2
  <2>4. Dispatch(c, r + 1)
    BY <2>1, <2>3, Sending DEF IInv
  <2>5. r + 1 = Commit => Resolved(c, Begin)
    <3>1. CASE r = Begin
      BY <2>1, <3>1 DEF Awaited
    <3>2. CASE r # Begin
      <4>1. r \in 1..Commit /\ Begin < r
        BY <3>2 DEF Begin, Commit
      <4> QED BY <1>2, <2>1, <4>1 DEF IInv, OrderOK, Awaited, BatchNext
    <3> QED BY <3>1, <3>2
  <2> QED BY <1>2, <2>1, <2>2, <2>3, <2>4, <2>5, SendStep DEF BatchNext, Awaited
<1>3. ASSUME NEW c \in Calls, CallbackReturns(c) PROVE IInv'
  <2>1. Dispatch(c, Commit)
    BY <1>3, Sending DEF CallbackReturns, IInv
  <2> QED BY <1>3, <2>1, SendStep DEF CallbackReturns, InCallback
<1>4. ASSUME NEW c \in Calls, RollBack(c) PROVE IInv'
  <2>1. Dispatch(c, Rollback)
    BY <1>4, Sending DEF RollBack, IInv
  <2>2. Resolved(c, Begin)
    <3>1. CASE Rejected(c, Commit)
      BY <3>1 DEF IInv, OrderOK
    <3>2. CASE InCallback(c)
      BY <3>2 DEF InCallback
    <3>3. ASSUME c \in batches, NEW o \in Ops, Rejected(c, o) PROVE Resolved(c, Begin)
      <4>1. o \in 1..Commit /\ Begin < o
        BY DEF Ops, Begin, Commit
      <4> QED BY <3>3, <4>1 DEF IInv, OrderOK
    <3> QED BY <1>4, <3>1, <3>2, <3>3 DEF RollBack, Failed
  <2>3. Rollback \notin 1..Commit
    OBVIOUS
  <2> QED BY <1>4, <2>1, <2>2, <2>3, SendStep DEF RollBack
<1>5. ASSUME NEW c \in Calls, Settle(c) PROVE IInv'
  <2> USE <1>5 DEF IInv, Settle, TypeOK, link, base
  <2>1. TypeOK'  OBVIOUS
  <2>2. OutcomeOK'  BY DEF OutcomeOK, CommitDone, RolledBack
  <2>3. RequestOK' /\ OrderOK' /\ QueueOK' /\ EngineOK' /\ DataOK' /\ RollbackOK'
    BY DEF RequestOK, OrderOK, QueueOK, EngineOK, DataOK, RollbackOK, GivenUp
  <2> QED BY <2>1, <2>2, <2>3
<1>6. ASSUME NEW c \in Calls, NEW r \in Ops \cup {Raw}, Operation(c, r) PROVE IInv'
  <2>1. r \in Requests /\ r \notin {Begin, Commit, Rollback}
    OBVIOUS
  <2>2. Dispatch(c, r)
    BY <1>6, SendingConnected DEF Operation, IInv
  <2> QED BY <1>6, <2>1, <2>2, SendStep DEF Operation
<1>7. ASSUME NEW c \in Calls, NEW r \in Requests, Receive(c, r) PROVE IInv'
  BY <1>7, AnswerSafe DEF Receive
<1>8. ASSUME NEW c \in Calls, NEW r \in Requests, RequestTimeout(c, r) PROVE IInv'
  BY <1>8, AnswerSafe DEF RequestTimeout, TimerRuns
<1>9. ASSUME NEW e \in Engines, NEW c \in Calls, BeginTransaction(e, c) PROVE IInv'
  <2>0. Executes(e, c, Begin) /\ UNCHANGED cli
    BY <1>9 DEF BeginTransaction
  <2>1. PICK s \in {"ok", "error"} : Reply(c, Begin, s)
    BY <1>9 DEF BeginTransaction
  <2>2. /\ srv' \in [Calls -> [Requests -> Sent]] /\ RequestOK'
        /\ queue' \in [Engines -> SUBSET (Calls \X Requests)]
        /\ srv[c][Begin] = "sent" /\ srv'[c][Begin] = s
        /\ \A d \in Calls, q \in Requests : d # c \/ q # Begin => srv'[d][q] = srv[d][q]
        /\ \A f \in Engines : queue'[f] \subseteq queue[f] /\ ~In(queue'[f], c, Begin)
        /\ \A f \in Engines, d \in Calls, q \in Requests :
              d # c \/ q # Begin => (In(queue'[f], d, q) <=> In(queue[f], d, q))
    <3>1. Handled(c, Begin, s)  BY <2>0, <2>1, Handling
    <3> QED BY <3>1 DEF Handled
  <2> USE <1>9 DEF IInv, BeginTransaction, link
  <2>3. OrderOK' /\ OutcomeOK'  BY DEF OrderOK, OutcomeOK
  <2>4. CASE /\ Reply(c, Begin, "ok") /\ A!AbsBegin(c)
             /\ store' = [store EXCEPT ![e] = @ \cup {c}]
    <3> USE <2>4 DEF A!AbsBegin
    <3>1. srv'[c][Begin] = "ok"  BY Executed
    <3>2. e \in live /\ In(queue[e], c, Begin)  BY DEF Executes, QueueOK, In
    <3>3. \A f \in Engines : c \notin store[f]  BY <2>2 DEF QueueOK
    <3>4. \A f \in Engines : store'[f] = IF f = e THEN store[f] \cup {c} ELSE store[f]
      BY DEF TypeOK
    <3>5. status' = [status EXCEPT ![c] = "open"] /\ UNCHANGED <<written, db>>
      OBVIOUS
    <3>6. store' \in [Engines -> SUBSET {d \in Calls : status'[d] = "open"}]
      <4>1. \A f \in Engines : \A d \in store'[f] : d \in Calls /\ status'[d] = "open"
        BY <3>4, <3>5 DEF TypeOK
      <4>2. store' = [f \in Engines |-> store'[f]]
        BY DEF TypeOK
      <4> HIDE <1>9, <2>4
      <4> QED BY <4>1, <4>2
    <3>7. TypeOK'
      <4>1. status' \in [Calls -> A!Status]  BY <3>5 DEF TypeOK, A!Status
      <4> QED BY <2>2, <3>5, <3>6, <4>1 DEF TypeOK
    <3>8. EngineOK'  BY <2>2, <3>5 DEF EngineOK, TypeOK
    <3>9. DataOK'
      <4>1. \A d \in Calls : status'[d] = "committed" <=> status[d] = "committed"
        BY <3>5 DEF TypeOK
      <4> QED BY <3>5, <4>1 DEF DataOK
    <3>10. QueueOK'
      <4>1. \A f \in Engines : f \notin live => queue'[f] = {} /\ store'[f] = {}
        BY <2>2, <3>2, <3>4 DEF QueueOK
      <4>2. \A f \in Engines : \A d \in store'[f] :
                srv'[d][Begin] = "ok" /\ \A g \in Engines : d \in store'[g] => g = f
        BY <2>2, <3>1, <3>3, <3>4 DEF QueueOK, TypeOK
      <4>3. ASSUME NEW f \in Engines, NEW d \in Calls, NEW q \in Requests, In(queue'[f], d, q)
            PROVE  srv'[d][q] = "sent" /\ \A g \in Engines : In(queue'[g], d, q) => g = f
        <5> HIDE <1>9, <2>4
        <5>1. d # c \/ q # Begin
          BY <2>2, <4>3
        <5>2. In(queue[f], d, q) /\ srv'[d][q] = srv[d][q]
          BY <2>2, <4>3, <5>1
        <5>3. \A g \in Engines : In(queue'[g], d, q) => In(queue[g], d, q)
          BY <2>2, <5>1
        <5> QED BY <5>2, <5>3 DEF QueueOK
      <4> QED BY <4>1, <4>2, <4>3 DEF QueueOK
    <3>11. RollbackOK'
      <4>1. Unsent(c, Rollback)  BY <2>2 DEF OrderOK, RequestOK
      <4> QED BY <2>2, <3>4, <4>1 DEF RollbackOK, GivenUp, TypeOK
    <3> QED BY <2>2, <2>3, <3>7, <3>8, <3>9, <3>10, <3>11
  <2>5. CASE UNCHANGED <<store, status, written, db>>
    <3>1. TypeOK'  BY <2>2, <2>5 DEF TypeOK
    <3>2. EngineOK'  BY <2>2, <2>5 DEF EngineOK
    <3>3. DataOK'  BY <2>5 DEF DataOK
    <3>4. QueueOK' /\ RollbackOK'  BY <2>1, <2>5, QueuesLeft
    <3> QED BY <2>2, <2>3, <3>1, <3>2, <3>3, <3>4
  <2> QED BY <2>4, <2>5
<1>10. ASSUME NEW e \in Engines, NEW c \in Calls, NEW o \in Ops,
              ExecuteInTransaction(e, c, o)
       PROVE  IInv'
  <2>0. Executes(e, c, o) /\ UNCHANGED cli /\ o \in Requests
    BY <1>10 DEF ExecuteInTransaction
  <2>1. PICK s \in {"ok", "error"} : Reply(c, o, s)
    BY <1>10 DEF ExecuteInTransaction
  <2>2. /\ srv' \in [Calls -> [Requests -> Sent]] /\ RequestOK'
        /\ queue' \in [Engines -> SUBSET (Calls \X Requests)]
        /\ srv'[c][o] = s
        /\ \A d \in Calls, q \in Requests : d # c \/ q # o => srv'[d][q] = srv[d][q]
    <3>1. Handled(c, o, s)  BY <2>0, <2>1, Handling
    <3> QED BY <3>1 DEF Handled
  <2> USE <1>10 DEF IInv, ExecuteInTransaction, link
  <2>3. TypeOK'
    <3>1. UNCHANGED <<status, store, db>>  BY DEF A!AbsWrite
    <3>2. written' \in [Calls -> SUBSET (Calls \X Ops)]  BY DEF A!AbsWrite, TypeOK
    <3> QED BY <2>2, <3>1, <3>2 DEF TypeOK
  <2>4. OrderOK' /\ OutcomeOK'  BY DEF OrderOK, OutcomeOK
  <2>5. EngineOK'
    <3>1. CASE c \in store[e] /\ A!AbsWrite(c, <<c, o>>)
      BY <2>2, <3>1 DEF EngineOK, TypeOK, A!AbsWrite
    <3>2. CASE Reply(c, o, "error") /\ UNCHANGED <<status, written, db>>
      <4>1. srv'[c][o] = "error"  BY <3>2, Executed
      <4> QED BY <2>2, <3>2, <4>1 DEF EngineOK
    <3> QED BY <3>1, <3>2
  <2>6. DataOK'
    <3>1. CASE A!AbsWrite(c, <<c, o>>)
      <4>1. /\ db' = db /\ status' = status /\ status[c] = "open"
            /\ written' = [written EXCEPT ![c] = @ \cup {<<c, o>>}]
        BY <3>1 DEF A!AbsWrite
      <4>2. \A d \in Calls : d # c => written'[d] = written[d]
        BY <4>1 DEF TypeOK
      <4>3. written'[c] = written[c] \cup {<<c, o>>}
        BY <4>1 DEF TypeOK
      <4>4. ASSUME NEW d \in Calls, NEW p \in Ops
            PROVE  /\ <<d, p>> \in db' <=> status'[d] = "committed" /\ <<d, p>> \in written'[d]
                   /\ \A b \in Calls : <<d, p>> \in written'[b] => b = d
        <5>1. CASE d = c
          BY <4>1, <4>2, <4>3, <5>1 DEF DataOK
        <5>2. CASE d # c
          BY <4>1, <4>2, <4>3, <5>2 DEF DataOK
        <5> QED BY <5>1, <5>2
      <4> QED BY <4>4 DEF DataOK
    <3>2. CASE UNCHANGED <<status, written, db>>
      BY <3>2 DEF DataOK
    <3> QED BY <3>1, <3>2
  <2>7. QueueOK' /\ RollbackOK'
    <3>1. store' = store /\ Executes(e, c, o) /\ UNCHANGED <<link, cli>> /\ o # Rollback
      OBVIOUS
    <3> QED BY <2>1, <3>1, QueuesLeft
  <2> QED BY <2>2, <2>3, <2>4, <2>5, <2>6, <2>7
<1>11. ASSUME NEW e \in Engines, NEW c \in Calls, CommitTransaction(e, c) PROVE IInv'
  <2>0. Executes(e, c, Commit) /\ UNCHANGED cli
    BY <1>11 DEF CommitTransaction
  <2>1. PICK s \in {"ok", "error"} : Reply(c, Commit, s)
    BY <1>11 DEF CommitTransaction
  <2>2. /\ srv' \in [Calls -> [Requests -> Sent]] /\ RequestOK'
        /\ queue' \in [Engines -> SUBSET (Calls \X Requests)]
        /\ srv[c][Commit] = "sent" /\ srv'[c][Commit] = s
        /\ \A d \in Calls, q \in Requests : d # c \/ q # Commit => srv'[d][q] = srv[d][q]
    <3>1. Handled(c, Commit, s)  BY <2>0, <2>1, Handling
    <3> QED BY <3>1 DEF Handled
  <2> USE <1>11 DEF IInv, CommitTransaction, link
  <2>3. OrderOK' /\ OutcomeOK'  BY DEF OrderOK, OutcomeOK
  <2>4. QueueOK' /\ RollbackOK'
    <3>1. \A f \in Engines : store'[f] \subseteq store[f]
      BY Removed
    <3> QED BY <2>1, <3>1, QueuesLeft
  <2>5. CASE c \in store[e] /\ A!AbsCommit(c) /\ store' = Taken(c)
    <3> USE <2>5 DEF A!AbsCommit
    <3>1. TypeOK'
      <4>1. status' \in [Calls -> A!Status]  BY DEF TypeOK, A!Status
      <4>2. \A f \in Engines : \A d \in store'[f] : d \in Calls /\ status'[d] = "open"
        BY Removed DEF TypeOK
      <4>3. store' \in [Engines -> SUBSET {d \in Calls : status'[d] = "open"}]
        BY <4>2, Removed
      <4>4. db' \subseteq Calls \X Ops  BY DEF TypeOK
      <4> QED BY <2>2, <4>1, <4>3, <4>4 DEF TypeOK
    <3>2. EngineOK'  BY <2>2 DEF EngineOK, TypeOK
    <3>3. DataOK'  BY EndedData
    <3> QED BY <2>2, <2>3, <2>4, <3>1, <3>2, <3>3
  <2>6. CASE c \in store[e] /\ Reply(c, Commit, "error") /\ A!AbsAbort(c) /\ store' = Taken(c)
    <3> USE <2>6 DEF A!AbsAbort
    <3>1. srv'[c][Commit] = "error"
      <4>1. Executes(e, c, Commit) /\ UNCHANGED cli  OBVIOUS
      <4> QED BY <4>1, Executed
    <3>2. TypeOK'
      <4>1. status' \in [Calls -> A!Status]  BY DEF TypeOK, A!Status
      <4>2. \A f \in Engines : \A d \in store'[f] : d \in Calls /\ status'[d] = "open"
        BY Removed DEF TypeOK
      <4>3. store' \in [Engines -> SUBSET {d \in Calls : status'[d] = "open"}]
        BY <4>2, Removed
      <4> QED BY <2>2, <4>1, <4>3 DEF TypeOK
    <3>3. EngineOK'  BY <2>2, <3>1 DEF EngineOK, TypeOK
    <3>4. DataOK'  BY EndedData
    <3> QED BY <2>2, <2>3, <2>4, <3>2, <3>3, <3>4
  <2>7. CASE Reply(c, Commit, "error") /\ UNCHANGED <<store, status, written, db>>
    <3>1. srv'[c][Commit] = "error"  BY <2>7, Executed
    <3>2. EngineOK'  BY <2>2, <2>7, <3>1 DEF EngineOK
    <3>3. DataOK'  BY <2>7 DEF DataOK
    <3>4. TypeOK'  BY <2>2, <2>7 DEF TypeOK
    <3> QED BY <2>2, <2>3, <2>4, <3>2, <3>3, <3>4
  <2> QED BY <2>5, <2>6, <2>7
<1>12. ASSUME NEW e \in Engines, NEW c \in Calls, RollbackTransaction(e, c) PROVE IInv'
  <2>0. Executes(e, c, Rollback) /\ UNCHANGED cli /\ Rollback \in Requests
    BY <1>12 DEF RollbackTransaction
  <2>1. PICK s \in {"ok", "error"} : Reply(c, Rollback, s)
    BY <1>12 DEF RollbackTransaction
  <2>2. /\ srv' \in [Calls -> [Requests -> Sent]] /\ RequestOK'
        /\ queue' \in [Engines -> SUBSET (Calls \X Requests)]
        /\ \A d \in Calls, q \in Requests : d # c \/ q # Rollback => srv'[d][q] = srv[d][q]
    <3>1. Handled(c, Rollback, s)  BY <2>0, <2>1, Handling
    <3> QED BY <3>1 DEF Handled
  <2> USE <1>12 DEF IInv, RollbackTransaction, link
  <2>3. OrderOK' /\ OutcomeOK'  BY DEF OrderOK, OutcomeOK
  <2>4. QueueOK' /\ RollbackOK'
    <3>1. \A f \in Engines : store'[f] \subseteq store[f]
      BY Removed
    <3>2. c \notin store'[e]
      BY Removed
    <3> QED BY <2>1, <3>1, <3>2, QueuesLeft
  <2>5. CASE c \in store[e] /\ A!AbsAbort(c) /\ store' = Taken(c)
    <3> USE <2>5 DEF A!AbsAbort
    <3>1. TypeOK'
      <4>1. status' \in [Calls -> A!Status]  BY DEF TypeOK, A!Status
      <4>2. \A f \in Engines : \A d \in store'[f] : d \in Calls /\ status'[d] = "open"
        BY Removed DEF TypeOK
      <4>3. store' \in [Engines -> SUBSET {d \in Calls : status'[d] = "open"}]
        BY <4>2, Removed
      <4> QED BY <2>2, <4>1, <4>3 DEF TypeOK
    <3>2. EngineOK'  BY <2>2 DEF EngineOK, TypeOK
    <3>3. DataOK'  BY EndedData
    <3> QED BY <2>2, <2>3, <2>4, <3>1, <3>2, <3>3
  <2>6. CASE UNCHANGED <<store, status, written, db>>
    <3>1. EngineOK'  BY <2>2, <2>6 DEF EngineOK
    <3>2. DataOK'  BY <2>6 DEF DataOK
    <3>3. TypeOK'  BY <2>2, <2>6 DEF TypeOK
    <3> QED BY <2>2, <2>3, <2>4, <3>1, <3>2, <3>3
  <2> QED BY <2>5, <2>6
<1>13. ASSUME NEW e \in Engines, NEW c \in Calls, ExecuteRaw(e, c) PROVE IInv'
  <2>0. Executes(e, c, Raw) /\ UNCHANGED cli
    BY <1>13 DEF ExecuteRaw
  <2>1. PICK s \in {"ok", "error"} : Reply(c, Raw, s)
    BY <1>13 DEF ExecuteRaw
  <2>2. /\ srv' \in [Calls -> [Requests -> Sent]] /\ RequestOK'
        /\ queue' \in [Engines -> SUBSET (Calls \X Requests)]
        /\ \A d \in Calls, q \in Requests : d # c \/ q # Raw => srv'[d][q] = srv[d][q]
    <3>1. Handled(c, Raw, s)  BY <2>0, <2>1, Handling
    <3> QED BY <3>1 DEF Handled
  <2> USE <1>13 DEF IInv, ExecuteRaw, link
  <2>3. TypeOK'  BY <2>2 DEF TypeOK
  <2>4. OrderOK' /\ OutcomeOK' /\ DataOK'  BY DEF OrderOK, OutcomeOK, DataOK
  <2>5. EngineOK'  BY <2>2 DEF EngineOK
  <2>6. QueueOK' /\ RollbackOK'
    <3>1. store' = store /\ Executes(e, c, Raw) /\ UNCHANGED <<link, cli>> /\ Raw # Rollback
      OBVIOUS
    <3> QED BY <2>1, <3>1, QueuesLeft
  <2> QED BY <2>2, <2>3, <2>4, <2>5, <2>6
<1>14. ASSUME NEW c \in Calls, Expire(c) PROVE IInv'
  <2> USE <1>14 DEF IInv, Expire, link, A!AbsAbort
  <2>1. TypeOK'
    <3>1. status' \in [Calls -> A!Status]  BY DEF TypeOK, A!Status
    <3>2. \A f \in Engines : \A d \in store'[f] : d \in Calls /\ status'[d] = "open"
      BY Removed DEF TypeOK
    <3>3. store' \in [Engines -> SUBSET {d \in Calls : status'[d] = "open"}]
      BY <3>2, Removed
    <3> QED BY <3>1, <3>3 DEF TypeOK
  <2>2. RequestOK' /\ OrderOK' /\ OutcomeOK'  BY DEF RequestOK, OrderOK, OutcomeOK
  <2>3. EngineOK'  BY DEF EngineOK, TypeOK
  <2>4. DataOK'  BY EndedData
  <2>5. QueueOK'
    <3>1. \A f \in Engines : store'[f] \subseteq store[f]  BY Removed
    <3> QED BY <3>1, QueueStays
  <2>6. RollbackOK'
    <3>1. \A f \in Engines : store'[f] \subseteq store[f]  BY Removed
    <3> QED BY <3>1 DEF RollbackOK, GivenUp
  <2> QED BY <2>1, <2>2, <2>3, <2>4, <2>5, <2>6
<1>15. ASSUME Connect PROVE IInv'
  <2> USE <1>15 DEF IInv, Connect, base
  <2>1. TypeOK'
    <3>1. engines + 1 \in Engines /\ engines' \in 0..MaxEngines
      BY ClientTxAssumption DEF TypeOK, Engines
    <3> QED BY <3>1 DEF TypeOK
  <2>2. RequestOK' /\ OrderOK' /\ OutcomeOK'  BY DEF RequestOK, OrderOK, OutcomeOK
  <2>3. EngineOK' /\ DataOK'  BY DEF EngineOK, DataOK
  <2>4. QueueOK'
    <3>1. engines \in Nat  BY DEF TypeOK
    <3>2. \A e \in Engines : e \in live' => e <= engines'
      <4>1. \A e \in Engines : e \in live => e <= engines
        BY DEF QueueOK
      <4>2. \A e \in Engines : e \in Nat
        BY Numbers
      <4> QED BY <3>1, <4>1, <4>2
    <3>3. \A e \in Engines : e \notin live' => queue'[e] = {} /\ store'[e] = {}
      BY DEF QueueOK
    <3>4. UNCHANGED <<queue, store, srv>> /\ QueueOK
      OBVIOUS
    <3> HIDE <1>15, <2>1 DEF IInv, Connect
    <3> QED BY <3>2, <3>3, <3>4 DEF QueueOK
  <2>5. RollbackOK'
    <3>1. \A e \in Engines : store[e] # {} => e # engines'
      BY DEF QueueOK, TypeOK
    <3> QED BY <3>1 DEF RollbackOK, GivenUp
  <2> QED BY <2>1, <2>2, <2>3, <2>4, <2>5
<1>16. ASSUME NEW e \in Engines, EngineExits(e) PROVE IInv'
  <2> USE <1>16 DEF IInv, EngineExits, base
  <2>1. \A f \in Engines :
            /\ queue'[f] = IF f = e THEN {} ELSE queue[f]
            /\ store'[f] = IF f = e THEN {} ELSE store[f]
    BY DEF TypeOK
  <2>2. TypeOK'  BY DEF TypeOK
  <2>3. RequestOK' /\ OrderOK' /\ OutcomeOK'  BY DEF RequestOK, OrderOK, OutcomeOK
  <2>4. EngineOK' /\ DataOK'  BY DEF EngineOK, DataOK
  <2>5. QueueOK'
    <3>1. \A f \in Engines, d \in Calls, q \in Requests :
              In(queue'[f], d, q) => In(queue[f], d, q)
      BY <2>1 DEF In
    <3>2. \A f \in Engines : f \notin live' => queue'[f] = {} /\ store'[f] = {}
      BY <2>1 DEF QueueOK
    <3>3. \A f \in Engines : store'[f] \subseteq store[f]
      BY <2>1
    <3> QED BY <3>1, <3>2, <3>3 DEF QueueOK
  <2>6. RollbackOK'  BY <2>1 DEF RollbackOK, GivenUp, In
  <2> QED BY <2>2, <2>3, <2>4, <2>5, <2>6
<1>17. ASSUME LoseEngine PROVE IInv'
  <2> USE <1>17 DEF IInv, LoseEngine, base
  <2>1. \A d \in Calls, q \in Requests :
            cli'[d][q] = IF cli[d][q] = "waiting" THEN "rejected" ELSE cli[d][q]
    OBVIOUS
  <2>2. cli' \in [Calls -> [Requests -> CliStates]]
    BY DEF TypeOK, CliStates
  <2>3. TypeOK'  BY <2>2 DEF TypeOK, CliStates
  <2>4. RequestOK' /\ OrderOK' /\ OutcomeOK'  BY <2>1 DEF RequestOK, OrderOK, OutcomeOK
  <2>5. QueueOK' /\ EngineOK' /\ DataOK'  BY QueueStays DEF EngineOK, DataOK
  <2>6. RollbackOK'  BY <2>1 DEF RollbackOK, GivenUp, TypeOK
  <2> QED BY <2>3, <2>4, <2>5, <2>6
<1>18. ASSUME Disconnect PROVE IInv'
  <2> USE <1>18 DEF IInv, Disconnect, base
  <2>1. TypeOK'  BY DEF TypeOK
  <2>2. RequestOK' /\ OrderOK' /\ OutcomeOK'  BY DEF RequestOK, OrderOK, OutcomeOK
  <2>3. QueueOK'  BY QueueStays
  <2>4. EngineOK' /\ DataOK'  BY DEF EngineOK, DataOK
  <2>5. RollbackOK'  BY DEF RollbackOK, GivenUp
  <2> QED BY <2>1, <2>2, <2>3, <2>4, <2>5
<1>19. ASSUME UNCHANGED vars PROVE IInv'
  <2> USE <1>19 DEF IInv, vars, link, base
  <2>1. TypeOK'  BY DEF TypeOK
  <2>2. RequestOK' /\ OrderOK' /\ OutcomeOK'  BY DEF RequestOK, OrderOK, OutcomeOK
  <2>3. QueueOK'  BY QueueStays
  <2>4. EngineOK' /\ DataOK'  BY DEF EngineOK, DataOK
  <2>5. RollbackOK'  BY DEF RollbackOK, GivenUp
  <2> QED BY <2>1, <2>2, <2>3, <2>4, <2>5
<1> QED
  BY <1>1, <1>2, <1>3, <1>4, <1>5, <1>6, <1>7, <1>8, <1>9, <1>10, <1>11, <1>12, <1>13,
     <1>14, <1>15, <1>16, <1>17, <1>18, <1>19 DEF Next, Continue, Engine

-----------------------------------------------------------------------------

\* The invariant holds in every behaviour.
THEOREM Invariant == Spec => []IInv
  BY Initial, Inductive, PTL DEF Spec

\* Type correctness: the stores of the engines hold open transactions only.
THEOREM TypeCorrect == Spec => []TypeOK
<1>1. IInv => TypeOK
  BY DEF IInv
<1> QED BY <1>1, Invariant, PTL

\* A promise that is resolved tells the truth about the database.
THEOREM ResolvedTrue == Spec => []ResolvedIsCommitted
<1>1. IInv => ResolvedIsCommitted
  <2> SUFFICES ASSUME IInv, NEW c \in Calls, outcome[c] = "resolved"
               PROVE  /\ status[c] = "committed"
                      /\ \A o \in Ops : c \in batches \/ Resolved(c, o) => o \in Published(c)
    BY DEF ResolvedIsCommitted
  <2> USE DEF IInv
  <2>1. Resolved(c, Commit) /\ status[c] = "committed"
    BY DEF OutcomeOK, RequestOK, EngineOK
  <2>2. ASSUME NEW o \in Ops, Resolved(c, o) PROVE o \in Published(c)
    BY <2>1, <2>2 DEF RequestOK, EngineOK, DataOK, Published
  <2>3. ASSUME NEW o \in Ops, c \in batches PROVE Resolved(c, o)
    <3>1. Commit \in 1..Commit /\ o < Commit  BY DEF Ops, Commit
    <3> QED BY <2>1, <2>3, <3>1 DEF OrderOK
  <2> QED BY <2>1, <2>2, <2>3
<1> QED BY <1>1, Invariant, PTL

\* A batch is published as a whole, and nothing without a commit request.
THEOREM BatchAtomic == Spec => []AllOrNothing
<1>1. IInv => AllOrNothing
  <2> SUFFICES ASSUME IInv, NEW c \in Calls
               PROVE  /\ c \in batches => Published(c) \in {{}, Ops}
                      /\ Unsent(c, Commit) => Published(c) = {}
    BY DEF AllOrNothing
  <2> USE DEF IInv
  <2>1. CASE status[c] # "committed"
    BY <2>1 DEF DataOK, Published
  <2>2. CASE status[c] = "committed"
    <3>1. ~Unsent(c, Commit)
      BY <2>2 DEF EngineOK, RequestOK
    <3>2. ASSUME c \in batches, NEW o \in Ops PROVE o \in Published(c)
      <4>1. Commit \in 1..Commit /\ o < Commit  BY DEF Ops, Commit
      <4>2. Resolved(c, o)  BY <3>1, <3>2, <4>1 DEF OrderOK
      <4> QED BY <2>2, <4>2 DEF RequestOK, EngineOK, DataOK, Published
    <3>3. Published(c) \subseteq Ops  BY DEF Published
    <3> QED BY <3>1, <3>2, <3>3
  <2> QED BY <2>1, <2>2
<1> QED BY <1>1, Invariant, PTL

\* What a promise that has settled leaves open: a begin that was answered too late, a
\* rollback on its way, or a transaction of a process that the client has given up on.
THEOREM ClosedWhenSettled == Spec => []OpenAfterSettled
<1>1. IInv => OpenAfterSettled
  <2> SUFFICES ASSUME IInv, NEW e \in Engines, NEW c \in store[e], outcome[c] # "pending"
               PROVE  Rejected(c, Begin) \/ In(queue[e], c, Rollback) \/ GivenUp(e)
    BY DEF OpenAfterSettled, In
  <2> USE DEF IInv, TypeOK
  <2>1. c \in Calls /\ status[c] = "open" /\ ~Unsent(c, Begin)
    BY DEF QueueOK, RequestOK
  <2>2. CASE outcome[c] = "resolved"
    BY <2>1, <2>2 DEF OutcomeOK, RequestOK, EngineOK
  <2>3. CASE outcome[c] = "rejected"
    BY <2>1, <2>3 DEF OutcomeOK, RollbackOK
  <2> QED BY <2>1, <2>2, <2>3 DEF OutcomeOK
<1> QED BY <1>1, Invariant, PTL

=============================================================================
