------------------------------ MODULE TxStore ------------------------------
(***************************************************************************)
(* The transaction store of the query engine (engine/internal/query/       *)
(* engine.go): the map txStore under txMu, the expiry timers, and the      *)
(* handler goroutines that begin, use, commit and roll back SQL            *)
(* transactions.  Every section the code runs without holding txMu is a    *)
(* step of its own, so handlers and timer goroutines interleave wherever   *)
(* the code lets them.                                                     *)
(*                                                                         *)
(* An actor is a handler goroutine, or the goroutine of the timer that     *)
(* BeginTransaction starts for a transaction; the timer's goroutine is     *)
(* named by the transaction's id.                                          *)
(*                                                                         *)
(* database/sql and PostgreSQL are modelled from how the engine uses them: *)
(* a *sql.Tx owns one pooled connection until it ends, ends once, answers  *)
(* ErrTxDone afterwards, and is rolled back when the context it was begun  *)
(* with is cancelled; a failed statement dooms the transaction.            *)
(***************************************************************************)
EXTENDS Naturals, FiniteSets

CONSTANTS Handlers,      \* handler goroutines
          TxIds,         \* ids uuid.New() may return, each at most once
          Timed,         \* the ids begun with timeoutMs > 0
          Writes,        \* mutations a client may send, each at most once
          MaxOpenConns,  \* PoolConfig.MaxOpenConns
          MaxRequests,   \* bound: begins and statements the clients send
          None           \* no transaction, no write

ASSUME TxStoreAssumption ==
    /\ Handlers \cap TxIds = {}
    /\ Timed \subseteq TxIds
    /\ None \notin TxIds \cup Writes
    /\ MaxOpenConns \in Nat \ {0}
    /\ MaxRequests \in Nat

VARIABLES pc,          \* where each actor is
          req,         \* the request each handler serves
          txStore,     \* ids in the map e.txStore
          timerField,  \* entry.timer # nil
          timer,       \* the runtime timer behind it
          sqlTx,       \* the SQL transaction
          aborted,     \* a statement of it failed
          written,     \* statements executed in it
          db,          \* committed statements
          ctxDone,     \* the server's context is cancelled
          known,       \* ids BeginTransaction returned to the client
          issued,      \* writes the client has sent
          acked,       \* <<id, write>> answered with success
          told         \* ids whose commit was answered with success

storeVars == <<txStore, timerField, timer>>
dataVars  == <<sqlTx, aborted, written, db>>
replyVars == <<known, issued, acked, told>>
vars == <<pc, req, storeVars, dataVars, ctxDone, replyVars>>

Actors == Handlers \cup TxIds

\* The transaction an actor works on, and what it will do once it has it.
TxOf(a) == IF a \in TxIds THEN a ELSE req[a].tx
Ending(a) == IF a \in TxIds THEN "rollback" ELSE req[a].op

Requests == [op : {"begin", "commit", "rollback", "exec"},
             tx : TxIds \cup {None},
             write : Writes \cup {None}]

Idle == [op |-> "begin", tx |-> None, write |-> None]

Locations == {"idle", "beginTx", "insert", "startTimer", "arm",
              "take", "stop", "finish", "lookup", "run", "scan"}

TypeOK ==
    /\ pc \in [Actors -> Locations]
    /\ req \in [Handlers -> Requests]
    /\ txStore \subseteq TxIds
    /\ timerField \in [TxIds -> BOOLEAN]
    /\ timer \in [TxIds -> {"none", "pending", "stopped", "fired"}]
    /\ sqlTx \in [TxIds -> {"none", "open", "committed", "rolledback"}]
    /\ aborted \in [TxIds -> BOOLEAN]
    /\ written \in [TxIds -> SUBSET Writes]
    /\ db \subseteq Writes
    /\ ctxDone \in BOOLEAN
    /\ known \subseteq TxIds
    /\ issued \subseteq Writes
    /\ acked \subseteq TxIds \X Writes
    /\ told \subseteq TxIds

Init ==
    /\ pc = [a \in Actors |-> "idle"]
    /\ req = [h \in Handlers |-> Idle]
    /\ txStore = {}
    /\ timerField = [t \in TxIds |-> FALSE]
    /\ timer = [t \in TxIds |-> "none"]
    /\ sqlTx = [t \in TxIds |-> "none"]
    /\ aborted = [t \in TxIds |-> FALSE]
    /\ written = [t \in TxIds |-> {}]
    /\ db = {}
    /\ ctxDone = FALSE
    /\ known = {}
    /\ issued = {}
    /\ acked = {}
    /\ told = {}

Goto(a, l) == pc' = [pc EXCEPT ![a] = l]

\* The handler answers and its goroutine is free for another request.
Answer(h) == Goto(h, "idle") /\ req' = [req EXCEPT ![h] = Idle]

\* The actor is done: a handler answers, a timer's goroutine returns.
Return(a) == IF a \in Handlers THEN Answer(a) ELSE Goto(a, "idle") /\ UNCHANGED req

Open == {t \in TxIds : sqlTx[t] = "open"}
Unused == {t \in TxIds : sqlTx[t] = "none"}

\* An id is a new UUID: which one does not matter, whether its transaction has
\* a timeout does.
NewIds == {CHOOSE t \in S : TRUE : S \in {Unused \cap Timed, Unused \ Timed} \ {{}}}

-----------------------------------------------------------------------------
(* Requests.  The client knows an id once BeginTransaction has returned    *)
(* it; it may use an id again after it ended the transaction, and send     *)
(* several requests for one id at the same time.                           *)

Waiting == {h \in Handlers : pc[h] = "beginTx"}

\* Bound: begins and statements together.
MoreRequests ==
    Cardinality(TxIds \ Unused) + Cardinality(Waiting) + Cardinality(issued) < MaxRequests

\* Bound: no more pending begins than there are unused ids.
ReceiveBegin(h) ==
    /\ pc[h] = "idle"
    /\ MoreRequests
    /\ Cardinality(Waiting) < Cardinality(Unused)
    /\ Goto(h, "beginTx")
    /\ UNCHANGED <<req, storeVars, dataVars, ctxDone, replyVars>>

ReceiveEnd(h, op, t) ==
    /\ pc[h] = "idle"
    /\ t \in known
    /\ Goto(h, "take")
    /\ req' = [req EXCEPT ![h] = [op |-> op, tx |-> t, write |-> None]]
    /\ UNCHANGED <<storeVars, dataVars, ctxDone, replyVars>>

ReceiveExec(h, t, w) ==
    /\ pc[h] = "idle"
    /\ t \in known
    /\ w \notin issued /\ MoreRequests
    /\ issued' = issued \cup {w}
    /\ Goto(h, "lookup")
    /\ req' = [req EXCEPT ![h] = [op |-> "exec", tx |-> t, write |-> w]]
    /\ UNCHANGED <<storeVars, dataVars, ctxDone, known, acked, told>>

-----------------------------------------------------------------------------
(* BeginTransaction *)

\* connector.BeginTx: waits for a free connection; refused once ctx is done.
BeginTx(h) ==
    /\ pc[h] = "beginTx"
    /\ ~ctxDone
    /\ Cardinality(Open) < MaxOpenConns
    /\ \E t \in NewIds :
        /\ sqlTx' = [sqlTx EXCEPT ![t] = "open"]
        /\ req' = [req EXCEPT ![h].tx = t]
    /\ Goto(h, "insert")
    /\ UNCHANGED <<storeVars, aborted, written, db, ctxDone, replyVars>>

BeginTxFails(h) ==
    /\ pc[h] = "beginTx"
    /\ Answer(h)
    /\ UNCHANGED <<storeVars, dataVars, ctxDone, replyVars>>

Insert(h) ==
    LET t == TxOf(h) IN
    /\ pc[h] = "insert"
    /\ txStore' = txStore \cup {t}
    /\ IF t \in Timed
         THEN Goto(h, "startTimer") /\ UNCHANGED <<req, known>>
         ELSE Answer(h) /\ known' = known \cup {t}
    /\ UNCHANGED <<timerField, timer, dataVars, ctxDone, issued, acked, told>>

\* time.AfterFunc: from here on the timer may fire, before it is armed even.
StartTimer(h) ==
    /\ pc[h] = "startTimer"
    /\ timer' = [timer EXCEPT ![TxOf(h)] = "pending"]
    /\ Goto(h, "arm")
    /\ UNCHANGED <<req, txStore, timerField, dataVars, ctxDone, replyVars>>

\* timer.Stop: a timer that fired already is not called back.
Halted(t) == IF timer[t] = "pending" THEN "stopped" ELSE timer[t]

\* MUTANT: the timer is recorded without looking whether the entry is still there.
AlwaysStored(t) == TRUE
\* MUTANT: the two branches are swapped.
NotStored(t) == t \notin txStore
StillStored(t) == t \in txStore

ArmTimer(h) ==
    LET t == TxOf(h) IN
    /\ pc[h] = "arm"
    /\ IF StillStored(t)
         THEN timerField' = [timerField EXCEPT ![t] = TRUE] /\ UNCHANGED timer
         ELSE timer' = [timer EXCEPT ![t] = Halted(t)] /\ UNCHANGED timerField
    /\ known' = known \cup {t}
    /\ Answer(h)
    /\ UNCHANGED <<txStore, dataVars, ctxDone, issued, acked, told>>

-----------------------------------------------------------------------------
(* takeTransaction, called by commit, rollback and the timer's callback *)

TimerFires(t) ==
    /\ timer[t] = "pending"
    /\ timer' = [timer EXCEPT ![t] = "fired"]
    /\ Goto(t, "take")
    /\ UNCHANGED <<req, txStore, timerField, dataVars, ctxDone, replyVars>>

\* MUTANT: the entry is looked up and left in the map.
LeftInStore(t) == txStore
Deleted(t) == txStore \ {t}

Take(a) ==
    /\ pc[a] = "take"
    /\ TxOf(a) \in txStore
    /\ txStore' = Deleted(TxOf(a))
    /\ Goto(a, "stop")
    /\ UNCHANGED <<req, timerField, timer, dataVars, ctxDone, replyVars>>

\* "transaction not found" for a handler; the timer's callback just returns.
TakeNothing(a) ==
    /\ pc[a] = "take"
    /\ TxOf(a) \notin txStore
    /\ Return(a)
    /\ UNCHANGED <<storeVars, dataVars, ctxDone, replyVars>>

\* MUTANT: the timer of a taken entry is left running.
LeftRunning(t) == timer[t]
\* MUTANT: Stop is called without looking whether entry.timer is nil.
NilTimer(t) == IF timerField[t] THEN Halted(t) ELSE "nil dereferenced"
StoppedTimer(t) == IF timerField[t] THEN Halted(t) ELSE timer[t]

\* entry.timer is read here, after txMu was released.
StopTimer(a) ==
    LET t == TxOf(a) IN
    /\ pc[a] = "stop"
    /\ timer' = [timer EXCEPT ![t] = StoppedTimer(t)]
    /\ Goto(a, "finish")
    /\ UNCHANGED <<req, txStore, timerField, dataVars, ctxDone, replyVars>>

-----------------------------------------------------------------------------
(* Ending the SQL transaction.  database/sql waits until the rows that are *)
(* being read in it are closed.                                            *)

RowsClosed(t) == \A h \in Handlers : ~(pc[h] = "scan" /\ TxOf(h) = t)

\* MUTANT: the entry is dropped and tx.Rollback() is never called.
Forgotten(t) == UNCHANGED <<sqlTx, db>>
RolledBack(t) ==
    /\ sqlTx' = [sqlTx EXCEPT ![t] = "rolledback"]
    /\ UNCHANGED db

Committed(t) ==
    /\ sqlTx' = [sqlTx EXCEPT ![t] = "committed"]
    /\ db' = db \cup written[t]

\* tx.Commit() = nil
Commit(a) ==
    LET t == TxOf(a) IN
    /\ pc[a] = "finish" /\ Ending(a) = "commit"
    /\ ~ctxDone /\ sqlTx[t] = "open" /\ ~aborted[t] /\ RowsClosed(t)
    /\ Committed(t)
    /\ told' = told \cup {t}
    /\ Return(a)
    /\ UNCHANGED <<storeVars, aborted, written, ctxDone, known, issued, acked>>

\* MUTANT: the result of tx.Commit() is dropped and success is answered.
SuccessAnyway(t) == told \cup {t}
CommitError(t) == told

\* tx.Commit() # nil: a doomed transaction is rolled back; a connection lost
\* while committing leaves either outcome.
CommitFails(a) ==
    LET t == TxOf(a) IN
    /\ pc[a] = "finish" /\ Ending(a) = "commit"
    /\ ~ctxDone /\ sqlTx[t] = "open" /\ RowsClosed(t)
    /\ RolledBack(t) \/ (~aborted[t] /\ Committed(t))
    /\ told' = CommitError(t)
    /\ Return(a)
    /\ UNCHANGED <<storeVars, aborted, written, ctxDone, known, issued, acked>>

\* The context's error, or ErrTxDone; the SQL transaction is left alone.
CommitRefused(a) ==
    LET t == TxOf(a) IN
    /\ pc[a] = "finish" /\ Ending(a) = "commit"
    /\ ctxDone \/ sqlTx[t] # "open"
    /\ told' = CommitError(t)
    /\ Return(a)
    /\ UNCHANGED <<storeVars, dataVars, ctxDone, known, issued, acked>>

\* tx.Rollback(), by a handler or by expireTransaction.
Rollback(a) ==
    LET t == TxOf(a) IN
    /\ pc[a] = "finish" /\ Ending(a) = "rollback"
    /\ IF sqlTx[t] = "open"
         THEN RowsClosed(t) /\ RolledBack(t)
         ELSE UNCHANGED <<sqlTx, db>>
    /\ Return(a)
    /\ UNCHANGED <<storeVars, aborted, written, ctxDone, replyVars>>

\* database/sql's watcher of a transaction whose context is cancelled.
AwaitDone(t) ==
    /\ ctxDone /\ sqlTx[t] = "open" /\ RowsClosed(t)
    /\ RolledBack(t)
    /\ UNCHANGED <<pc, req, storeVars, aborted, written, ctxDone, replyVars>>

-----------------------------------------------------------------------------
(* ExecuteInTransaction *)

Lookup(h) ==
    /\ pc[h] = "lookup"
    /\ IF TxOf(h) \in txStore
         THEN Goto(h, "run") /\ UNCHANGED req
         ELSE Answer(h)
    /\ UNCHANGED <<storeVars, dataVars, ctxDone, replyVars>>

\* MUTANT: outside its transaction the statement is sent to the pool, which
\* commits it on its own.
RunAnywhere(t, w) ==
    IF sqlTx[t] = "open"
      THEN written' = [written EXCEPT ![t] = @ \cup {w}] /\ UNCHANGED db
      ELSE written' = written /\ db' = db \cup {w}
RunInTx(t, w) ==
    /\ sqlTx[t] = "open"
    /\ written' = [written EXCEPT ![t] = @ \cup {w}]
    /\ UNCHANGED db

\* tx.QueryContext succeeds; its rows stay open until Scan.
Run(h) ==
    LET t == TxOf(h) IN
    /\ pc[h] = "run"
    /\ ~ctxDone /\ ~aborted[t]
    /\ RunInTx(t, req[h].write)
    /\ Goto(h, "scan")
    /\ UNCHANGED <<req, storeVars, sqlTx, aborted, ctxDone, replyVars>>

\* A constraint, the connection or a concurrent use of it; ErrTxDone when the
\* transaction ended after Lookup.
RunFails(h) ==
    LET t == TxOf(h) IN
    /\ pc[h] = "run"
    /\ aborted' = [aborted EXCEPT ![t] = @ \/ sqlTx[t] = "open"]
    /\ Answer(h)
    /\ UNCHANGED <<storeVars, sqlTx, written, db, ctxDone, replyVars>>

\* ScanRows has read every row.
Scan(h) ==
    /\ pc[h] = "scan"
    /\ acked' = acked \cup {<<TxOf(h), req[h].write>>}
    /\ Answer(h)
    /\ UNCHANGED <<storeVars, dataVars, ctxDone, known, issued, told>>

\* The rows are closed under it, by Commit or Rollback of another handler, by
\* ctx, or by the connection: the statement may have had its effect.
ScanFails(h) ==
    /\ pc[h] = "scan"
    /\ \E doomed \in BOOLEAN :
        aborted' = [aborted EXCEPT ![TxOf(h)] = @ \/ doomed]
    /\ Answer(h)
    /\ UNCHANGED <<storeVars, sqlTx, written, db, ctxDone, replyVars>>

-----------------------------------------------------------------------------

\* SIGINT or SIGTERM cancels the context every handler was given.
Cancel ==
    /\ ~ctxDone
    /\ ctxDone' = TRUE
    /\ UNCHANGED <<pc, req, storeVars, dataVars, replyVars>>

Receive(h) ==
    \/ ReceiveBegin(h)
    \/ \E t \in TxIds : \E op \in {"commit", "rollback"} : ReceiveEnd(h, op, t)
    \/ \E t \in TxIds, w \in Writes : ReceiveExec(h, t, w)

\* What takes, stops and ends: the common part of handlers and timers.
End(a) ==
    \/ Take(a) \/ TakeNothing(a) \/ StopTimer(a)
    \/ Commit(a) \/ CommitFails(a) \/ CommitRefused(a) \/ Rollback(a)

Exec(h) == Lookup(h) \/ Run(h) \/ RunFails(h) \/ Scan(h) \/ ScanFails(h)

Begin(h) == BeginTx(h) \/ Insert(h) \/ StartTimer(h) \/ ArmTimer(h)

Next ==
    \/ \E h \in Handlers : Receive(h) \/ Begin(h) \/ BeginTxFails(h) \/ Exec(h)
    \/ \E a \in Actors : End(a)
    \/ \E t \in TxIds : TimerFires(t) \/ AwaitDone(t)
    \/ Cancel

Spec == Init /\ [][Next]_vars

(***************************************************************************)
(* Goroutines run, timers fire, database/sql's watcher runs.  Nothing is   *)
(* assumed of the client, of signals, or of a begin failing.               *)
(***************************************************************************)
Fairness ==
    /\ \A h \in Handlers : WF_vars(Begin(h)) /\ WF_vars(Exec(h))
    /\ \A a \in Actors : WF_vars(End(a))
    /\ \A t \in TxIds : WF_vars(TimerFires(t)) /\ WF_vars(AwaitDone(t))

FairSpec == Spec /\ Fairness

-----------------------------------------------------------------------------
(* Safety *)

\* An actor that took the entry of t and has not ended the transaction yet.
Holds(a, t) == pc[a] \in {"stop", "finish"} /\ TxOf(a) = t

(***************************************************************************)
(* Commit, rollback and the timer race for an entry: takeTransaction hands *)
(* it to one of them, and while somebody holds it nobody finds it in the   *)
(* map.                                                                    *)
(***************************************************************************)
SingleFinisher ==
    \A t \in TxIds : \A a \in Actors :
        Holds(a, t) => /\ t \notin txStore
                       /\ \A b \in Actors : Holds(b, t) => a = b

(***************************************************************************)
(* A SQL transaction pins a pooled connection.  None is ever lost while it *)
(* is open: it is in the map, or with the BeginTransaction that is about   *)
(* to put it there, or with the one actor about to end it, unless the      *)
(* context is cancelled and database/sql rolls it back.                    *)
(***************************************************************************)
NoOrphan ==
    \A t \in Open :
        \/ t \in txStore
        \/ ctxDone
        \/ \E h \in Handlers : pc[h] = "insert" /\ TxOf(h) = t
        \/ \E a \in Actors : Holds(a, t)

(***************************************************************************)
(* Once the client has the id, a timer runs only for a transaction that is *)
(* in the map or is being taken out of it: ending a transaction leaves no  *)
(* timer behind, whatever the order of firing, arming and taking.          *)
(***************************************************************************)
NoStaleTimer ==
    \A t \in known :
        timer[t] = "pending" =>
            \/ t \in txStore
            \/ \E a \in Actors : pc[a] = "stop" /\ TxOf(a) = t

(***************************************************************************)
(* The client can believe its answers.  Success of a commit means that the *)
(* transaction is committed, no statement of it having failed, with every  *)
(* write that was answered with success in the database; a transaction     *)
(* that is open or rolled back shows none of its writes.                   *)
(***************************************************************************)
AnswersAreTrue ==
    \A t \in TxIds :
        /\ t \in told => sqlTx[t] = "committed" /\ ~aborted[t]
        /\ IF sqlTx[t] = "committed"
             THEN \A w \in Writes : <<t, w>> \in acked => w \in db
             ELSE \A w \in Writes :
                    w \in written[t] \/ <<t, w>> \in acked => w \notin db

(***************************************************************************)
(* entry.timer is written under txMu by BeginTransaction and read without  *)
(* it by takeTransaction: it is never written while, or after, somebody    *)
(* took the entry, so the unlocked read is not a data race.                *)
(***************************************************************************)
TimerFieldUnraced ==
    \A t \in TxIds :
        timerField'[t] # timerField[t] =>
            \A a \in Actors : pc[a] \in {"stop", "finish"} => TxOf(a) # t

TimerFieldStable == [][TimerFieldUnraced]_vars

(***************************************************************************)
(* The store implements the transactions its API promises.                 *)
(***************************************************************************)
Abs == INSTANCE TxAbstract WITH status <- sqlTx

Implements == Abs!AbsSpec

-----------------------------------------------------------------------------
(* Liveness *)

(***************************************************************************)
(* A transaction begun with a timeout does not stay open, whatever its     *)
(* client does or fails to do.                                             *)
(***************************************************************************)
TimedTxCloses == \A t \in Timed : sqlTx[t] = "open" ~> sqlTx[t] # "open"

(***************************************************************************)
(* When all transactions have a timeout, a begin that waits for a pooled   *)
(* connection is answered.                                                 *)
(***************************************************************************)
BeginAnswered ==
    Timed = TxIds =>
        \A h \in Handlers : pc[h] = "beginTx" ~> pc[h] # "beginTx" \/ ctxDone

=============================================================================
