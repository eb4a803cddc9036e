---------------------------- MODULE TxStoreProofs ----------------------------
(***************************************************************************)
(* Proofs about TxStore, for any number of handlers, transactions, writes  *)
(* and connections.                                                        *)
(*                                                                         *)
(* IInv is the inductive invariant.  SingleFinisher is preserved because   *)
(* only the actor that removes an entry from txStore goes on to end its    *)
(* transaction, and an id is put in the map before anybody but its         *)
(* BeginTransaction and its timer can name it (BeginOK).  NoStaleTimer     *)
(* needs to know when entry.timer is set (TimerOK); AnswersAreTrue needs   *)
(* that a write is made in one transaction only (DataOK, WriterOK).        *)
(***************************************************************************)
EXTENDS TxStore, TLAPS

Begins == {"insert", "startTimer", "arm"}
Ends   == {"take", "stop", "finish"}
Execs  == {"lookup", "run", "scan"}

\* A handler's request fits where the handler is.
RequestOK ==
    /\ \A h \in Handlers :
        /\ pc[h] \in {"idle", "beginTx"} => req[h] = Idle
        /\ pc[h] \in Begins => req[h].tx \in TxIds /\ req[h].op = "begin"
        /\ pc[h] \in Ends   => req[h].tx \in known /\ req[h].op \in {"commit", "rollback"}
        /\ pc[h] \in Execs  => req[h].tx \in known /\ req[h].op = "exec"
                               /\ req[h].write \in issued
    /\ \A t \in TxIds : pc[t] \in {"idle"} \cup Ends

\* An id belongs to the one BeginTransaction that made it until it is known.
BeginOK ==
    /\ \A t \in TxIds : sqlTx[t] = "none" =>
            /\ t \notin txStore /\ t \notin known
            /\ timer[t] = "none" /\ ~aborted[t] /\ written[t] = {}
    /\ \A h \in Handlers : pc[h] \in Begins =>
            /\ sqlTx[req[h].tx] # "none"
            /\ req[h].tx \notin known
            /\ \A g \in Handlers : pc[g] \in Begins /\ req[g].tx = req[h].tx => g = h
            /\ pc[h] = "insert" => req[h].tx \notin txStore
            /\ pc[h] = "startTimer" => req[h].tx \in txStore
            /\ pc[h] \in {"insert", "startTimer"} => timer[req[h].tx] = "none"

Stopping(t) == \E a \in Actors : pc[a] = "stop" /\ TxOf(a) = t

\* The timer's goroutine exists only after it fired; a running timer of a known
\* transaction is recorded in its entry until somebody stops it.
TimerOK ==
    \A t \in TxIds :
        /\ timer[t] # "fired" => pc[t] = "idle"
        /\ timerField[t] => t \in known
        /\ timer[t] = "pending" /\ t \in known =>
            /\ timerField[t]
            /\ t \in txStore \/ Stopping(t)
        /\ timer[t] = "pending" /\ t \notin known => t \in txStore

\* A write is made once, inside one transaction, and published by its commit.
DataOK ==
    /\ db \subseteq issued
    /\ \A t \in TxIds :
        /\ sqlTx[t] = "committed" => written[t] \subseteq db
        /\ sqlTx[t] # "committed" => written[t] \cap db = {}
        /\ t \in told => sqlTx[t] = "committed" /\ ~aborted[t]
        /\ \A w \in Writes : <<t, w>> \in acked => w \in written[t]
        /\ \A u \in TxIds : u # t => written[t] \cap written[u] = {}
        /\ written[t] \subseteq issued

\* A statement that has not run yet is the only one to carry its write.
WriterOK ==
    \A h \in Handlers :
        /\ pc[h] \in {"lookup", "run"} =>
            /\ req[h].write \notin db
            /\ \A u \in TxIds : req[h].write \notin written[u]
            /\ \A g \in Handlers : pc[g] \in Execs /\ req[g].write = req[h].write => g = h
        /\ pc[h] = "scan" =>
            /\ req[h].write \in written[req[h].tx]
            /\ sqlTx[req[h].tx] = "open"

IInv ==
    /\ TypeOK
    /\ RequestOK
    /\ BeginOK
    /\ TimerOK
    /\ SingleFinisher
    /\ NoOrphan
    /\ DataOK
    /\ WriterOK


USE TxStoreAssumption DEF vars, storeVars, dataVars, replyVars, Actors, TxOf, Ending, Goto, Answer

-----------------------------------------------------------------------------

\* A new id was not used before.
LEMMA NewUnused == \A t \in NewIds : t \in Unused
  BY DEF NewIds

\* A handler that answers, and an actor that moves on, are somewhere.
LEMMA AnswerType ==
    ASSUME TypeOK, NEW h \in Handlers, Answer(h)
    PROVE  pc' \in [Actors -> Locations] /\ req' \in [Handlers -> Requests]
  BY DEF TypeOK, Locations, Requests, Idle

\* The same for an actor that goes to a location.
LEMMA GotoType ==
    ASSUME TypeOK, NEW a \in Actors, NEW l \in Locations, Goto(a, l)
    PROVE  pc' \in [Actors -> Locations]
  BY DEF TypeOK

\* An actor that returns is idle and nobody else moves.
LEMMA ReturnOnly ==
    ASSUME IInv, NEW a \in Actors, Return(a)
    PROVE  /\ pc' = [pc EXCEPT ![a] = "idle"]
           /\ pc' \in [Actors -> Locations]
           /\ req' \in [Handlers -> Requests]
           /\ \A h \in Handlers : h # a => req'[h] = req[h]
           /\ a \in Handlers => req'[a] = Idle
  <1>1. CASE a \in Handlers  BY <1>1 DEF IInv, TypeOK, Return, Locations, Requests, Idle
  <1>2. CASE a \notin Handlers  BY <1>2 DEF IInv, TypeOK, Return, Locations, Requests, Idle
  <1> QED BY <1>1, <1>2

\* No transaction is orphaned by a step that keeps every owner.
LEMMA OpenKept ==
    ASSUME NoOrphan, Open' \subseteq Open, txStore \subseteq txStore',
           ctxDone => ctxDone',
           \A h \in Handlers : pc[h] = "insert" => pc'[h] = "insert" /\ req'[h].tx = req[h].tx,
           \A a \in Actors, t \in Open' : Holds(a, t) => Holds(a, t)'
    PROVE  NoOrphan'
  BY DEF NoOrphan, Open

\* A transaction stays owned when an actor returns that did not own it.
LEMMA ReturnKeepsOwner ==
    ASSUME IInv, NEW a \in Actors, Return(a),
           txStore \subseteq txStore', ctxDone' = ctxDone, pc[a] # "insert",
           \A t \in Open' : t \in Open /\ (ctxDone \/ ~Holds(a, t))
    PROVE  NoOrphan'
  <1> SUFFICES ASSUME NEW t \in Open', t \notin txStore, ~ctxDone
               PROVE  \/ \E h \in Handlers : pc'[h] = "insert" /\ req'[h].tx = t
                      \/ \E b \in Actors : Holds(b, t)'
    BY DEF NoOrphan
  <1>1. /\ pc' = [pc EXCEPT ![a] = "idle"]
        /\ \A h \in Handlers : h # a => req'[h] = req[h]
    BY ReturnOnly
  <1>2. CASE \E h \in Handlers : pc[h] = "insert" /\ req[h].tx = t
    BY <1>1, <1>2 DEF IInv, TypeOK
  <1>3. CASE \E b \in Actors : Holds(b, t)  BY <1>1, <1>3 DEF IInv, TypeOK, Holds
  <1> QED BY <1>2, <1>3 DEF IInv, NoOrphan, Open

-----------------------------------------------------------------------------

\* Every step of every actor preserves the invariant.
LEMMA Inductive == IInv /\ [Next]_vars => IInv'
<1> SUFFICES ASSUME IInv, [Next]_vars PROVE IInv'
  OBVIOUS
<1>1. ASSUME NEW h \in Handlers, ReceiveBegin(h) PROVE IInv'
  <2> USE <1>1 DEF IInv, TypeOK, ReceiveBegin
  <2>1. TypeOK'  BY DEF Requests, Locations, Idle
  <2>2. RequestOK'  BY DEF RequestOK, Begins, Ends, Execs, Idle
  <2>3. BeginOK'  BY DEF BeginOK, Begins
  <2>4. TimerOK'  BY DEF TimerOK, Stopping, Ends
  <2>5. SingleFinisher'  BY DEF SingleFinisher, Holds
  <2>6. NoOrphan'  BY DEF NoOrphan, Holds, Open
  <2>7. DataOK'  BY DEF DataOK
  <2>8. WriterOK'  BY DEF WriterOK, Execs
  <2> QED BY <2>1, <2>2, <2>3, <2>4, <2>5, <2>6, <2>7, <2>8
<1>2. ASSUME NEW h \in Handlers, BeginTx(h) PROVE IInv'
  <2> USE <1>2 DEF IInv, TypeOK, BeginTx
  <2>0. PICK t \in Unused : /\ sqlTx' = [sqlTx EXCEPT ![t] = "open"]
                           /\ req' = [req EXCEPT ![h].tx = t]
    BY NewUnused
  <2>1. TypeOK'  BY <2>0 DEF Requests, Locations, Idle, Open, Unused
  <2>2. RequestOK'  BY <2>0 DEF RequestOK, Begins, Ends, Execs, Idle, Open, Unused
  <2>3. BeginOK'  BY <2>0 DEF BeginOK, Begins, Open, Unused
  <2>4. TimerOK'  BY <2>0 DEF TimerOK, Stopping, Ends, Open, Unused
  <2>5. SingleFinisher'  BY <2>0 DEF SingleFinisher, Holds, Open, Unused
  <2>6. NoOrphan'  BY <2>0 DEF NoOrphan, Holds, Open, Unused
  <2>7. DataOK'  BY <2>0 DEF DataOK, Open, Unused
  <2>8. WriterOK'  BY <2>0 DEF WriterOK, Execs, Open, Unused
  <2> QED BY <2>1, <2>2, <2>3, <2>4, <2>5, <2>6, <2>7, <2>8
<1>3. ASSUME NEW h \in Handlers, BeginTxFails(h) PROVE IInv'
  <2> USE <1>3 DEF IInv, TypeOK, BeginTxFails
  <2>1. TypeOK'  BY DEF Requests, Locations, Idle
  <2>2. RequestOK'  BY DEF RequestOK, Begins, Ends, Execs, Idle
  <2>3. BeginOK'  BY DEF BeginOK, Begins
  <2>4. TimerOK'  BY DEF TimerOK, Stopping, Ends
  <2>5. SingleFinisher'  BY DEF SingleFinisher, Holds
  <2>6. NoOrphan'  BY DEF NoOrphan, Holds, Open
  <2>7. DataOK'  BY DEF DataOK
  <2>8. WriterOK'  BY DEF WriterOK, Execs
  <2> QED BY <2>1, <2>2, <2>3, <2>4, <2>5, <2>6, <2>7, <2>8
<1>4. ASSUME NEW h \in Handlers, Insert(h) PROVE IInv'
  <2> USE <1>4 DEF IInv, TypeOK, Insert
  <2>1. TypeOK'  BY DEF Requests, Locations, RequestOK, Begins, Ends, Execs, Idle
  <2>2. RequestOK'  BY DEF RequestOK, Begins, Ends, Execs, Idle
  <2>3. BeginOK'  BY DEF BeginOK, Begins
  <2>4. TimerOK'
    <3>1. \A t \in TxIds : Stopping(t) => Stopping(t)'  BY DEF Stopping
    <3> QED BY <3>1 DEF TimerOK, RequestOK, Begins, BeginOK
  <2>5. SingleFinisher'
    BY DEF RequestOK, Begins, Ends, Execs, Idle, BeginOK, TimerOK, Stopping, SingleFinisher, Holds
  <2>6. NoOrphan'  BY DEF NoOrphan, Holds, Open
  <2>7. DataOK'  BY DEF DataOK
  <2>8. WriterOK'  BY DEF WriterOK, Execs
  <2> QED BY <2>1, <2>2, <2>3, <2>4, <2>5, <2>6, <2>7, <2>8
<1>5. ASSUME NEW h \in Handlers, StartTimer(h) PROVE IInv'
  <2> USE <1>5 DEF IInv, TypeOK, StartTimer
  <2>1. TypeOK'  BY DEF Requests, Locations, RequestOK, Begins, Ends, Execs, Idle
  <2>2. RequestOK'  BY DEF RequestOK, Begins, Ends, Execs, Idle
  <2>3. BeginOK'  BY DEF BeginOK, Begins
  <2>4. TimerOK'
    <3>1. \A t \in TxIds : Stopping(t) => Stopping(t)'  BY DEF Stopping
    <3> QED BY <3>1 DEF TimerOK, RequestOK, Begins, BeginOK
  <2>5. SingleFinisher'  BY DEF SingleFinisher, Holds
  <2>6. NoOrphan'  BY DEF NoOrphan, Holds, Open
  <2>7. DataOK'  BY DEF DataOK
  <2>8. WriterOK'  BY DEF WriterOK, Execs
  <2> QED BY <2>1, <2>2, <2>3, <2>4, <2>5, <2>6, <2>7, <2>8
<1>6. ASSUME NEW h \in Handlers, ArmTimer(h) PROVE IInv'
  <2> USE <1>6 DEF IInv, TypeOK, ArmTimer
  <2>1. TypeOK'
    <3>1. pc' \in [Actors -> Locations] /\ req' \in [Handlers -> Requests]  BY AnswerType
    <3>2. timerField' \in [TxIds -> BOOLEAN]  OBVIOUS
    <3>3. timer' \in [TxIds -> {"none", "pending", "stopped", "fired"}]  BY DEF Halted
    <3>4. known' \subseteq TxIds  BY DEF RequestOK, Begins
    <3> QED BY <3>1, <3>2, <3>3, <3>4
  <2>2. RequestOK'  BY DEF RequestOK, Begins, Ends, Execs, Idle, StillStored, Halted
  <2>3. BeginOK'  BY DEF RequestOK, Begins, Ends, Execs, Idle, BeginOK, StillStored, Halted
  <2>4. TimerOK'  BY DEF TimerOK, Stopping, Ends, StillStored, Halted
  <2>5. SingleFinisher'  BY DEF SingleFinisher, Holds, StillStored, Halted
  <2>6. NoOrphan'
    <3>1. \A t \in Open' : t \in Open /\ ~Holds(h, t)  BY DEF Open, Holds
    <3> QED BY <3>1, ReturnKeepsOwner DEF Return
  <2>7. DataOK'  BY DEF DataOK, StillStored, Halted
  <2>8. WriterOK'  BY DEF WriterOK, Execs, StillStored, Halted
  <2> QED BY <2>1, <2>2, <2>3, <2>4, <2>5, <2>6, <2>7, <2>8
<1>7. ASSUME NEW h \in Handlers, Lookup(h) PROVE IInv'
  <2> USE <1>7 DEF IInv, TypeOK, Lookup
  <2>1. TypeOK'
    <3>1. pc' \in [Actors -> Locations] /\ req' \in [Handlers -> Requests]
      BY AnswerType, GotoType DEF Locations
    <3> QED BY <3>1
  <2>2. RequestOK'  BY DEF RequestOK, Begins, Ends, Execs, Idle
  <2>3. BeginOK'  BY DEF BeginOK, Begins
  <2>4. TimerOK'  BY DEF TimerOK, Stopping, Ends
  <2>5. SingleFinisher'  BY DEF SingleFinisher, Holds
  <2>6. NoOrphan'
    <3>1. \A g \in Handlers : pc[g] = "insert" => pc'[g] = "insert" /\ req'[g].tx = req[g].tx
      OBVIOUS
    <3>2. \A b \in Actors, t \in Open' : Holds(b, t) => Holds(b, t)'  BY DEF Holds
    <3> QED BY <3>1, <3>2, OpenKept DEF Open
  <2>7. DataOK'  BY DEF DataOK
  <2>8. WriterOK'  BY DEF WriterOK, Execs
  <2> QED BY <2>1, <2>2, <2>3, <2>4, <2>5, <2>6, <2>7, <2>8
<1>8. ASSUME NEW h \in Handlers, Run(h) PROVE IInv'
  <2> USE <1>8 DEF IInv, TypeOK, Run
  <2>1. TypeOK'  BY DEF Requests, Locations, RequestOK, Begins, Ends, Execs, Idle, RunInTx
  <2>2. RequestOK'  BY DEF RequestOK, Begins, Ends, Execs, Idle, RunInTx
  <2>3. BeginOK'  BY DEF BeginOK, Begins, RunInTx
  <2>4. TimerOK'  BY DEF TimerOK, Stopping, Ends, RunInTx
  <2>5. SingleFinisher'  BY DEF SingleFinisher, Holds, RunInTx
  <2>6. NoOrphan'  BY DEF NoOrphan, Holds, Open, RunInTx
  <2>7. DataOK'  BY DEF RequestOK, Begins, Ends, Execs, Idle, DataOK, WriterOK, RunInTx
  <2>8. WriterOK'  BY DEF RequestOK, Begins, Ends, Execs, Idle, WriterOK, RunInTx
  <2> QED BY <2>1, <2>2, <2>3, <2>4, <2>5, <2>6, <2>7, <2>8
<1>9. ASSUME NEW h \in Handlers, RunFails(h) PROVE IInv'
  <2> USE <1>9 DEF IInv, TypeOK, RunFails
  <2>1. TypeOK'  BY DEF Requests, Locations, RequestOK, Begins, Ends, Execs, Idle
  <2>2. RequestOK'  BY DEF RequestOK, Begins, Ends, Execs, Idle
  <2>3. BeginOK'  BY DEF BeginOK, Begins
  <2>4. TimerOK'  BY DEF TimerOK, Stopping, Ends
  <2>5. SingleFinisher'  BY DEF SingleFinisher, Holds
  <2>6. NoOrphan'
    <3>1. \A g \in Handlers : pc[g] = "insert" => pc'[g] = "insert" /\ req'[g].tx = req[g].tx
      OBVIOUS
    <3>2. \A b \in Actors, t \in Open' : Holds(b, t) => Holds(b, t)'  BY DEF Holds
    <3> QED BY <3>1, <3>2, OpenKept DEF Open
  <2>7. DataOK'  BY DEF DataOK
  <2>8. WriterOK'  BY DEF WriterOK, Execs
  <2> QED BY <2>1, <2>2, <2>3, <2>4, <2>5, <2>6, <2>7, <2>8
<1>10. ASSUME NEW h \in Handlers, Scan(h) PROVE IInv'
  <2> USE <1>10 DEF IInv, TypeOK, Scan
  <2>1. TypeOK'  BY DEF Requests, Locations, RequestOK, Begins, Ends, Execs, Idle
  <2>2. RequestOK'  BY DEF RequestOK, Begins, Ends, Execs, Idle
  <2>3. BeginOK'  BY DEF BeginOK, Begins
  <2>4. TimerOK'  BY DEF TimerOK, Stopping, Ends
  <2>5. SingleFinisher'  BY DEF SingleFinisher, Holds
  <2>6. NoOrphan'
    <3>1. \A g \in Handlers : pc[g] = "insert" => pc'[g] = "insert" /\ req'[g].tx = req[g].tx
      OBVIOUS
    <3>2. \A b \in Actors, t \in Open' : Holds(b, t) => Holds(b, t)'  BY DEF Holds
    <3> QED BY <3>1, <3>2, OpenKept DEF Open
  <2>7. DataOK'  BY DEF RequestOK, Begins, Ends, Execs, Idle, DataOK, WriterOK
  <2>8. WriterOK'  BY DEF WriterOK, Execs
  <2> QED BY <2>1, <2>2, <2>3, <2>4, <2>5, <2>6, <2>7, <2>8
<1>11. ASSUME NEW h \in Handlers, ScanFails(h) PROVE IInv'
  <2> USE <1>11 DEF IInv, TypeOK, ScanFails
  <2>1. TypeOK'  BY DEF Requests, Locations, RequestOK, Begins, Ends, Execs, Idle
  <2>2. RequestOK'  BY DEF RequestOK, Begins, Ends, Execs, Idle
  <2>3. BeginOK'  BY DEF RequestOK, Begins, Ends, Execs, Idle, BeginOK
  <2>4. TimerOK'  BY DEF TimerOK, Stopping, Ends
  <2>5. SingleFinisher'  BY DEF SingleFinisher, Holds
  <2>6. NoOrphan'
    <3>1. \A g \in Handlers : pc[g] = "insert" => pc'[g] = "insert" /\ req'[g].tx = req[g].tx
      OBVIOUS
    <3>2. \A b \in Actors, t \in Open' : Holds(b, t) => Holds(b, t)'  BY DEF Holds
    <3> QED BY <3>1, <3>2, OpenKept DEF Open
  <2>7. DataOK'  BY DEF RequestOK, Begins, Ends, Execs, Idle, DataOK, WriterOK
  <2>8. WriterOK'  BY DEF WriterOK, Execs
  <2> QED BY <2>1, <2>2, <2>3, <2>4, <2>5, <2>6, <2>7, <2>8
<1>12. ASSUME NEW h \in Handlers, NEW op \in {"commit", "rollback"}, NEW t \in TxIds,
      ReceiveEnd(h, op, t) PROVE IInv'
  <2> USE <1>12 DEF IInv, TypeOK, ReceiveEnd
  <2>1. TypeOK'  BY DEF Requests, Locations, Idle
  <2>2. RequestOK'  BY DEF RequestOK, Begins, Ends, Execs, Idle
  <2>3. BeginOK'  BY DEF BeginOK, Begins
  <2>4. TimerOK'  BY DEF TimerOK, Stopping, Ends
  <2>5. SingleFinisher'  BY DEF SingleFinisher, Holds
  <2>6. NoOrphan'
    <3>1. \A g \in Handlers : pc[g] = "insert" => pc'[g] = "insert" /\ req'[g].tx = req[g].tx
      OBVIOUS
    <3>2. \A b \in Actors, u \in Open' : Holds(b, u) => Holds(b, u)'  BY DEF Holds
    <3> QED BY <3>1, <3>2, OpenKept DEF Open
  <2>7. DataOK'  BY DEF DataOK
  <2>8. WriterOK'  BY DEF WriterOK, Execs
  <2> QED BY <2>1, <2>2, <2>3, <2>4, <2>5, <2>6, <2>7, <2>8
<1>13. ASSUME NEW h \in Handlers, NEW t \in TxIds, NEW w \in Writes,
      ReceiveExec(h, t, w) PROVE IInv'
  <2> USE <1>13 DEF IInv, TypeOK, ReceiveExec
  <2>1. TypeOK'  BY DEF Requests, Locations, Idle
  <2>2. RequestOK'  BY DEF RequestOK, Begins, Ends, Execs, Idle
  <2>3. BeginOK'  BY DEF BeginOK, Begins
  <2>4. TimerOK'  BY DEF TimerOK, Stopping, Ends
  <2>5. SingleFinisher'  BY DEF SingleFinisher, Holds
  <2>6. NoOrphan'  BY DEF RequestOK, Begins, Ends, Execs, Idle, BeginOK, NoOrphan, Holds, Open
  <2>7. DataOK'  BY DEF DataOK
  <2>8. WriterOK'
    BY DEF RequestOK, Begins, Ends, Execs, Idle, BeginOK, TimerOK, Stopping, SingleFinisher,
          Holds, DataOK, WriterOK
  <2> QED BY <2>1, <2>2, <2>3, <2>4, <2>5, <2>6, <2>7, <2>8
<1>14. ASSUME NEW a \in Actors, Take(a) PROVE IInv'
  <2> USE <1>14 DEF IInv, TypeOK, Take
  <2>1. TypeOK'  BY DEF Requests, Locations, Idle, Deleted
  <2>2. RequestOK'  BY DEF RequestOK, Begins, Ends, Execs, Idle, Deleted
  <2>3. BeginOK'
    BY DEF RequestOK, Begins, Ends, Execs, Idle, BeginOK, TimerOK, Stopping, SingleFinisher,
          Holds, Deleted
  <2>4. TimerOK'  BY DEF RequestOK, Begins, Ends, Execs, Idle, TimerOK, Stopping, Deleted
  <2>5. SingleFinisher'  BY DEF SingleFinisher, Holds, Deleted
  <2>6. NoOrphan'  BY DEF NoOrphan, Holds, Open, Deleted
  <2>7. DataOK'  BY DEF DataOK, Deleted
  <2>8. WriterOK'  BY DEF WriterOK, Execs, Deleted
  <2> QED BY <2>1, <2>2, <2>3, <2>4, <2>5, <2>6, <2>7, <2>8
<1>15. ASSUME NEW a \in Actors, TakeNothing(a) PROVE IInv'
  <2> USE <1>15 DEF IInv, TypeOK, TakeNothing
  <2>a. Return(a) /\ TxOf(a) \in TxIds
    BY DEF RequestOK, Ends
  <2>b. /\ pc' = [pc EXCEPT ![a] = "idle"]
        /\ pc' \in [Actors -> Locations]
        /\ req' \in [Handlers -> Requests]
        /\ \A h \in Handlers : h # a => req'[h] = req[h]
        /\ a \in Handlers => req'[a] = Idle
    BY <2>a, ReturnOnly
  <2>1. TypeOK'  BY <2>a, <2>b DEF Requests, Locations, Idle
  <2>2. RequestOK'  BY <2>a, <2>b DEF RequestOK, Begins, Ends, Execs, Idle
  <2>3. BeginOK'  BY <2>a, <2>b DEF BeginOK, Begins
  <2>4. TimerOK'  BY <2>a, <2>b DEF TimerOK, Stopping, Ends
  <2>5. SingleFinisher'  BY <2>a, <2>b DEF SingleFinisher, Holds
  <2>6. NoOrphan'
    <3>1. \A t \in Open' : t \in Open /\ (ctxDone \/ ~Holds(a, t))  BY DEF Open, Holds
    <3> QED BY <2>a, <3>1, ReturnKeepsOwner
  <2>7. DataOK'  BY <2>a, <2>b DEF DataOK
  <2>8. WriterOK'  BY <2>a, <2>b DEF WriterOK, Execs
  <2> QED BY <2>1, <2>2, <2>3, <2>4, <2>5, <2>6, <2>7, <2>8
<1>16. ASSUME NEW a \in Actors, StopTimer(a) PROVE IInv'
  <2> USE <1>16 DEF IInv, TypeOK, StopTimer
  <2>1. TypeOK'
    BY DEF Requests, Locations, RequestOK, Begins, Ends, Execs, Idle, StoppedTimer, Halted
  <2>2. RequestOK'  BY DEF RequestOK, Begins, Ends, Execs, Idle, StoppedTimer, Halted
  <2>3. BeginOK'  BY DEF BeginOK, Begins, StoppedTimer, Halted
  <2>4. TimerOK'  BY DEF TimerOK, Stopping, Ends, StoppedTimer, Halted
  <2>5. SingleFinisher'  BY DEF SingleFinisher, Holds, StoppedTimer, Halted
  <2>6. NoOrphan'  BY DEF NoOrphan, Holds, Open, StoppedTimer, Halted
  <2>7. DataOK'  BY DEF DataOK, StoppedTimer, Halted
  <2>8. WriterOK'  BY DEF WriterOK, Execs, StoppedTimer, Halted
  <2> QED BY <2>1, <2>2, <2>3, <2>4, <2>5, <2>6, <2>7, <2>8
<1>17. ASSUME NEW a \in Actors, Commit(a) PROVE IInv'
  <2> USE <1>17 DEF IInv, TypeOK, Commit
  <2>a. Return(a) /\ TxOf(a) \in TxIds
    BY DEF RequestOK, Ends
  <2>b. /\ pc' = [pc EXCEPT ![a] = "idle"]
        /\ pc' \in [Actors -> Locations]
        /\ req' \in [Handlers -> Requests]
        /\ \A h \in Handlers : h # a => req'[h] = req[h]
        /\ a \in Handlers => req'[a] = Idle
    BY <2>a, ReturnOnly
  <2>1. TypeOK'  BY <2>a, <2>b DEF Requests, Locations, Idle, Committed, RowsClosed
  <2>2. RequestOK'
    BY <2>a, <2>b DEF RequestOK, Begins, Ends, Execs, Idle, Committed, RowsClosed
  <2>3. BeginOK'  BY <2>a, <2>b DEF BeginOK, Begins, Committed, RowsClosed
  <2>4. TimerOK'  BY <2>a, <2>b DEF TimerOK, Stopping, Ends, Committed, RowsClosed
  <2>5. SingleFinisher'  BY <2>a, <2>b DEF SingleFinisher, Holds, Committed, RowsClosed
  <2>6. NoOrphan'
    <3>1. \A t \in Open' : t \in Open /\ (ctxDone \/ ~Holds(a, t))
      BY DEF Open, Holds, Committed, RowsClosed
    <3> QED BY <2>a, <3>1, ReturnKeepsOwner
  <2>7. DataOK'  BY <2>a, <2>b DEF DataOK, Committed, RowsClosed
  <2>8. WriterOK'  BY <2>a, <2>b DEF WriterOK, Execs, Committed, RowsClosed
  <2> QED BY <2>1, <2>2, <2>3, <2>4, <2>5, <2>6, <2>7, <2>8
<1>18. ASSUME NEW a \in Actors, CommitFails(a) PROVE IInv'
  <2> USE <1>18 DEF IInv, TypeOK, CommitFails
  <2>a. Return(a) /\ TxOf(a) \in TxIds
    BY DEF RequestOK, Ends
  <2>b. /\ pc' = [pc EXCEPT ![a] = "idle"]
        /\ pc' \in [Actors -> Locations]
        /\ req' \in [Handlers -> Requests]
        /\ \A h \in Handlers : h # a => req'[h] = req[h]
        /\ a \in Handlers => req'[a] = Idle
    BY <2>a, ReturnOnly
  <2>1. TypeOK'
    <3>1. /\ sqlTx' \in [TxIds -> {"none", "open", "committed", "rolledback"}]
          /\ db' \subseteq Writes
      BY <2>a DEF RolledBack, Committed
    <3> QED BY <2>b, <3>1 DEF CommitError
  <2>2. RequestOK'
    BY <2>a, <2>b DEF RequestOK, Begins, Ends, Execs, Idle, Committed, RolledBack, RowsClosed,
          CommitError
  <2>3. BeginOK'
    BY <2>a, <2>b DEF RequestOK, Begins, Ends, Execs, Idle, BeginOK, Committed, RolledBack,
          RowsClosed, CommitError
  <2>4. TimerOK'
    BY <2>a, <2>b DEF TimerOK, Stopping, Ends, Committed, RolledBack, RowsClosed, CommitError
  <2>5. SingleFinisher'
    BY <2>a, <2>b DEF SingleFinisher, Holds, Committed, RolledBack, RowsClosed, CommitError
  <2>6. NoOrphan'
    <3>1. \A t \in Open' : t \in Open /\ (ctxDone \/ ~Holds(a, t))
      BY DEF Open, Holds, Committed, RolledBack, RowsClosed, CommitError
    <3> QED BY <2>a, <3>1, ReturnKeepsOwner
  <2>7. DataOK'  BY <2>a, <2>b DEF DataOK, Committed, RolledBack, RowsClosed, CommitError
  <2>8. WriterOK'
    BY <2>a, <2>b DEF RequestOK, Begins, Ends, Execs, Idle, WriterOK, Committed, RolledBack,
          RowsClosed, CommitError
  <2> QED BY <2>1, <2>2, <2>3, <2>4, <2>5, <2>6, <2>7, <2>8
<1>19. ASSUME NEW a \in Actors, CommitRefused(a) PROVE IInv'
  <2> USE <1>19 DEF IInv, TypeOK, CommitRefused
  <2>a. Return(a) /\ TxOf(a) \in TxIds
    BY DEF RequestOK, Ends
  <2>b. /\ pc' = [pc EXCEPT ![a] = "idle"]
        /\ pc' \in [Actors -> Locations]
        /\ req' \in [Handlers -> Requests]
        /\ \A h \in Handlers : h # a => req'[h] = req[h]
        /\ a \in Handlers => req'[a] = Idle
    BY <2>a, ReturnOnly
  <2>1. TypeOK'  BY <2>a, <2>b DEF Requests, Locations, Idle, CommitError
  <2>2. RequestOK'  BY <2>a, <2>b DEF RequestOK, Begins, Ends, Execs, Idle, CommitError
  <2>3. BeginOK'  BY <2>a, <2>b DEF BeginOK, Begins, CommitError
  <2>4. TimerOK'  BY <2>a, <2>b DEF TimerOK, Stopping, Ends, CommitError
  <2>5. SingleFinisher'  BY <2>a, <2>b DEF SingleFinisher, Holds, CommitError
  <2>6. NoOrphan'
    <3>1. \A t \in Open' : t \in Open /\ (ctxDone \/ ~Holds(a, t))
      BY DEF Open, Holds, CommitError
    <3> QED BY <2>a, <3>1, ReturnKeepsOwner
  <2>7. DataOK'  BY <2>a, <2>b DEF DataOK, CommitError
  <2>8. WriterOK'  BY <2>a, <2>b DEF WriterOK, Execs, CommitError
  <2> QED BY <2>1, <2>2, <2>3, <2>4, <2>5, <2>6, <2>7, <2>8
<1>20. ASSUME NEW a \in Actors, Rollback(a) PROVE IInv'
  <2> USE <1>20 DEF IInv, TypeOK, Rollback
  <2>a. Return(a) /\ TxOf(a) \in TxIds
    BY DEF RequestOK, Ends
  <2>b. /\ pc' = [pc EXCEPT ![a] = "idle"]
        /\ pc' \in [Actors -> Locations]
        /\ req' \in [Handlers -> Requests]
        /\ \A h \in Handlers : h # a => req'[h] = req[h]
        /\ a \in Handlers => req'[a] = Idle
    BY <2>a, ReturnOnly
  <2>1. TypeOK'  BY <2>a, <2>b DEF Requests, Locations, Idle, RolledBack, RowsClosed
  <2>2. RequestOK'
    BY <2>a, <2>b DEF RequestOK, Begins, Ends, Execs, Idle, RolledBack, RowsClosed
  <2>3. BeginOK'
    BY <2>a, <2>b DEF RequestOK, Begins, Ends, Execs, Idle, BeginOK, RolledBack, RowsClosed
  <2>4. TimerOK'  BY <2>a, <2>b DEF TimerOK, Stopping, Ends, RolledBack, RowsClosed
  <2>5. SingleFinisher'  BY <2>a, <2>b DEF SingleFinisher, Holds, RolledBack, RowsClosed
  <2>6. NoOrphan'
    <3>1. \A t \in Open' : t \in Open /\ (ctxDone \/ ~Holds(a, t))
      BY DEF Open, Holds, RolledBack, RowsClosed
    <3> QED BY <2>a, <3>1, ReturnKeepsOwner
  <2>7. DataOK'  BY <2>a, <2>b DEF DataOK, RolledBack, RowsClosed
  <2>8. WriterOK'
    BY <2>a, <2>b DEF RequestOK, Begins, Ends, Execs, Idle, WriterOK, RolledBack, RowsClosed
  <2> QED BY <2>1, <2>2, <2>3, <2>4, <2>5, <2>6, <2>7, <2>8
<1>21. ASSUME NEW t \in TxIds, TimerFires(t) PROVE IInv'
  <2> USE <1>21 DEF IInv, TypeOK, TimerFires
  <2>1. TypeOK'  BY DEF Requests, Locations, Idle
  <2>2. RequestOK'  BY DEF RequestOK, Begins, Ends, Execs, Idle
  <2>3. BeginOK'  BY DEF BeginOK, Begins
  <2>4. TimerOK'  BY DEF TimerOK, Stopping, Ends
  <2>5. SingleFinisher'  BY DEF SingleFinisher, Holds
  <2>6. NoOrphan'
    BY DEF RequestOK, Begins, Ends, Execs, Idle, BeginOK, TimerOK, Stopping, SingleFinisher,
          Holds, NoOrphan, Open
  <2>7. DataOK'  BY DEF DataOK
  <2>8. WriterOK'  BY DEF WriterOK, Execs
  <2> QED BY <2>1, <2>2, <2>3, <2>4, <2>5, <2>6, <2>7, <2>8
<1>22. ASSUME NEW t \in TxIds, AwaitDone(t) PROVE IInv'
  <2> USE <1>22 DEF IInv, TypeOK, AwaitDone
  <2>1. TypeOK'  BY DEF Requests, Locations, Idle, RolledBack, RowsClosed
  <2>2. RequestOK'  BY DEF RequestOK, Begins, Ends, Execs, Idle, RolledBack, RowsClosed
  <2>3. BeginOK'  BY DEF BeginOK, Begins, RolledBack, RowsClosed
  <2>4. TimerOK'  BY DEF TimerOK, Stopping, Ends, RolledBack, RowsClosed
  <2>5. SingleFinisher'  BY DEF SingleFinisher, Holds, RolledBack, RowsClosed
  <2>6. NoOrphan'  BY DEF NoOrphan, Holds, Open, RolledBack, RowsClosed
  <2>7. DataOK'  BY DEF DataOK, RolledBack, RowsClosed
  <2>8. WriterOK'  BY DEF WriterOK, Execs, RolledBack, RowsClosed
  <2> QED BY <2>1, <2>2, <2>3, <2>4, <2>5, <2>6, <2>7, <2>8
<1>23. ASSUME Cancel PROVE IInv'
  <2> USE <1>23 DEF IInv, TypeOK, Cancel
  <2>1. TypeOK'  BY DEF Requests, Locations, Idle
  <2>2. RequestOK'  BY DEF RequestOK, Begins, Ends, Execs, Idle
  <2>3. BeginOK'  BY DEF BeginOK, Begins
  <2>4. TimerOK'  BY DEF TimerOK, Stopping, Ends
  <2>5. SingleFinisher'  BY DEF SingleFinisher, Holds
  <2>6. NoOrphan'  BY DEF NoOrphan, Holds, Open
  <2>7. DataOK'  BY DEF DataOK
  <2>8. WriterOK'  BY DEF WriterOK, Execs
  <2> QED BY <2>1, <2>2, <2>3, <2>4, <2>5, <2>6, <2>7, <2>8
<1>24. ASSUME UNCHANGED vars PROVE IInv'
  <2> USE <1>24 DEF IInv, TypeOK
  <2>1. TypeOK'  BY DEF Requests, Locations, Idle
  <2>2. RequestOK'  BY DEF RequestOK, Begins, Ends, Execs, Idle
  <2>3. BeginOK'  BY DEF BeginOK, Begins
  <2>4. TimerOK'  BY DEF TimerOK, Stopping, Ends
  <2>5. SingleFinisher'  BY DEF SingleFinisher, Holds
  <2>6. NoOrphan'  BY DEF NoOrphan, Holds, Open
  <2>7. DataOK'  BY DEF DataOK
  <2>8. WriterOK'  BY DEF WriterOK, Execs
  <2> QED BY <2>1, <2>2, <2>3, <2>4, <2>5, <2>6, <2>7, <2>8
<1> QED
  BY <1>1, <1>2, <1>3, <1>4, <1>5, <1>6, <1>7, <1>8, <1>9, <1>10, <1>11, <1>12,
     <1>13, <1>14, <1>15, <1>16, <1>17, <1>18, <1>19, <1>20, <1>21, <1>22, <1>23, <1>24
  DEF Next, Receive, Begin, Exec, End

-----------------------------------------------------------------------------

\* The invariant holds before any request arrives.
LEMMA Initial == Init => IInv
<1> SUFFICES ASSUME Init PROVE IInv
  OBVIOUS
<1> USE DEF Init
<1>1. TypeOK /\ RequestOK
  BY DEF TypeOK, Requests, Locations, Idle, RequestOK, Begins, Ends, Execs
<1>2. BeginOK /\ TimerOK
  BY DEF BeginOK, Begins, TimerOK
<1>3. SingleFinisher /\ NoOrphan
  BY DEF SingleFinisher, Holds, NoOrphan, Open
<1>4. DataOK /\ WriterOK
  BY DEF DataOK, WriterOK
<1> QED BY <1>1, <1>2, <1>3, <1>4 DEF IInv

\* The inductive invariant holds in every reachable state.
THEOREM Invariant == Spec => []IInv
  BY Initial, Inductive, PTL DEF Spec

\* Type correctness.
THEOREM TypeCorrect == Spec => []TypeOK
<1>1. IInv => TypeOK
  BY DEF IInv
<1> QED BY <1>1, Invariant, PTL

\* Commit, rollback and expiry never both get hold of a transaction.
THEOREM OneFinisher == Spec => []SingleFinisher
<1>1. IInv => SingleFinisher
  BY DEF IInv
<1> QED BY <1>1, Invariant, PTL

\* No open SQL transaction, and no pooled connection, is forgotten.
THEOREM NeverOrphaned == Spec => []NoOrphan
<1>1. IInv => NoOrphan
  BY DEF IInv
<1> QED BY <1>1, Invariant, PTL

\* Ending a transaction leaves no timer behind.
THEOREM TimersStopped == Spec => []NoStaleTimer
<1>1. IInv => NoStaleTimer
  BY DEF IInv, TypeOK, TimerOK, Stopping, NoStaleTimer
<1> QED BY <1>1, Invariant, PTL

\* Success told of a commit, and of a write, can be believed.
THEOREM AnswersTrue == Spec => []AnswersAreTrue
<1>1. IInv => AnswersAreTrue
  BY DEF IInv, TypeOK, DataOK, AnswersAreTrue
<1> QED BY <1>1, Invariant, PTL

\* entry.timer is not written once the entry was taken: only ArmTimer writes
\* it, of an entry that is in the map, which nobody holds then.
THEOREM TimerFieldNotRaced == Spec => TimerFieldStable
<1>1. IInv /\ [Next]_vars => [TimerFieldUnraced]_vars
  <2> SUFFICES ASSUME IInv, Next PROVE TimerFieldUnraced
    OBVIOUS
  <2>1. CASE timerField' = timerField  BY <2>1 DEF TimerFieldUnraced
  <2>2. ASSUME NEW h \in Handlers, ArmTimer(h) PROVE TimerFieldUnraced
    BY <2>2 DEF IInv, TypeOK, RequestOK, Begins, Ends, SingleFinisher, Holds, ArmTimer,
                StillStored, BeginOK, TimerFieldUnraced
  <2> QED
    BY <2>1, <2>2 DEF Next, Receive, ReceiveBegin, ReceiveEnd, ReceiveExec, Begin, BeginTx,
       BeginTxFails, Insert, StartTimer, Exec, Lookup, Run, RunFails, Scan, ScanFails, End,
       Take, TakeNothing, StopTimer, Commit, CommitFails, CommitRefused, Rollback,
       TimerFires, AwaitDone, Cancel
<1> QED BY <1>1, Invariant, PTL DEF Spec, TimerFieldStable

-----------------------------------------------------------------------------
(* Refinement *)

\* The two specifications start alike.
LEMMA AbsInitial == Init => Abs!AbsInit
  BY DEF Init, Abs!AbsInit

\* A step of the store is a step of the abstract transactions or invisible.
LEMMA AbsStep == IInv /\ [Next]_vars => [Abs!AbsNext]_Abs!absVars
<1> SUFFICES ASSUME IInv, Next PROVE Abs!AbsNext \/ UNCHANGED Abs!absVars
  BY DEF Abs!absVars
<1> DEFINE Visible == <<sqlTx, written, db, told>>
<1>1. ASSUME UNCHANGED Visible PROVE UNCHANGED Abs!absVars
  BY <1>1 DEF Abs!absVars
<1>2. ASSUME NEW h \in Handlers, BeginTx(h) PROVE Abs!AbsNext
  BY <1>2, NewUnused DEF BeginTx, Unused, Abs!AbsNext, Abs!AbsBegin
<1>3. ASSUME NEW h \in Handlers, Run(h) PROVE Abs!AbsNext
  <2>1. TxOf(h) \in TxIds /\ req[h].write \in Writes
    BY <1>3 DEF IInv, TypeOK, RequestOK, Execs, Run
  <2>2. Abs!AbsWrite(TxOf(h), req[h].write)  BY <1>3 DEF Run, RunInTx, Abs!AbsWrite
  <2> QED BY <2>1, <2>2 DEF Abs!AbsNext
<1>4. ASSUME NEW a \in Actors, Commit(a) PROVE Abs!AbsNext
  <2>1. TxOf(a) \in TxIds
    BY <1>4 DEF IInv, TypeOK, RequestOK, Ends, Commit, CommitFails, Rollback
  <2>2. Abs!AbsCommit(TxOf(a))
    BY <1>4 DEF Commit, Committed, Abs!AbsCommit
  <2> QED BY <2>1, <2>2 DEF Abs!AbsNext
<1>5. ASSUME NEW a \in Actors, CommitFails(a) PROVE Abs!AbsNext
  <2>1. TxOf(a) \in TxIds
    BY <1>5 DEF IInv, TypeOK, RequestOK, Ends, Commit, CommitFails, Rollback
  <2>2. Abs!AbsCommit(TxOf(a)) \/ Abs!AbsAbort(TxOf(a))
    BY <1>5 DEF CommitFails, CommitError, Committed, RolledBack, Abs!AbsCommit, Abs!AbsAbort
  <2> QED BY <2>1, <2>2 DEF Abs!AbsNext
<1>6. ASSUME NEW a \in Actors, Rollback(a), sqlTx[TxOf(a)] = "open" PROVE Abs!AbsNext
  <2>1. TxOf(a) \in TxIds
    BY <1>6 DEF IInv, TypeOK, RequestOK, Ends, Commit, CommitFails, Rollback
  <2>2. Abs!AbsAbort(TxOf(a))
    BY <1>6 DEF Rollback, RolledBack, Abs!AbsAbort
  <2> QED BY <2>1, <2>2 DEF Abs!AbsNext
<1>7. ASSUME NEW t \in TxIds, AwaitDone(t) PROVE Abs!AbsNext
  BY <1>7 DEF AwaitDone, RolledBack, Abs!AbsNext, Abs!AbsAbort
<1>8. ASSUME NEW h \in Handlers,
             \/ Receive(h) \/ BeginTxFails(h) \/ Insert(h) \/ StartTimer(h) \/ ArmTimer(h)
             \/ Lookup(h) \/ RunFails(h) \/ Scan(h) \/ ScanFails(h)
      PROVE  UNCHANGED Visible
  BY <1>8 DEF Receive, ReceiveBegin, ReceiveEnd, ReceiveExec, BeginTxFails, Insert,
              StartTimer, ArmTimer, Lookup, RunFails, Scan, ScanFails
<1>9. ASSUME NEW a \in Actors,
             \/ Take(a) \/ TakeNothing(a) \/ StopTimer(a) \/ CommitRefused(a)
             \/ Rollback(a) /\ sqlTx[TxOf(a)] # "open"
      PROVE  UNCHANGED Visible
  BY <1>9 DEF Take, TakeNothing, StopTimer, CommitRefused, CommitError, Rollback
<1>10. ASSUME Cancel \/ \E t \in TxIds : TimerFires(t) PROVE UNCHANGED Visible
  BY <1>10 DEF Cancel, TimerFires
<1>11. ASSUME NEW a \in Actors, End(a) PROVE Abs!AbsNext \/ UNCHANGED Visible
  <2>1. CASE Rollback(a)
    <3>1. CASE sqlTx[TxOf(a)] = "open"  BY <1>6, <2>1, <3>1
    <3>2. CASE sqlTx[TxOf(a)] # "open"  BY <1>9, <2>1, <3>2
    <3> QED BY <3>1, <3>2
  <2>2. CASE Commit(a)  BY <1>4, <2>2
  <2>3. CASE CommitFails(a)  BY <1>5, <2>3
  <2>4. CASE Take(a) \/ TakeNothing(a) \/ StopTimer(a) \/ CommitRefused(a)  BY <1>9, <2>4
  <2> QED BY <1>11, <2>1, <2>2, <2>3, <2>4 DEF End
<1>12. ASSUME NEW h \in Handlers, Receive(h) \/ Begin(h) \/ BeginTxFails(h) \/ Exec(h)
       PROVE  Abs!AbsNext \/ UNCHANGED Visible
  BY <1>2, <1>3, <1>8, <1>12 DEF Begin, Exec
<1> QED
  BY <1>1, <1>7, <1>10, <1>11, <1>12 DEF Next

\* The store implements TxAbstract.
THEOREM Refinement == Spec => Implements
  BY AbsInitial, AbsStep, Invariant, PTL DEF Spec, Implements, Abs!AbsSpec

=============================================================================
