------------------------------ MODULE ClientTx ------------------------------
(***************************************************************************)
(* The transactions of client.ts: $transaction with a list of operations   *)
(* (a batch) or with a callback (interactive), which sends begin, the      *)
(* operations, and commit or rollback as requests of their own.            *)
(*                                                                         *)
(* The engine is TxAbstract, which TxStore implements, behind requests     *)
(* that wait: it executes those it was sent in any order, may answer late, *)
(* and may exit.  An engine process that the client has given up on may    *)
(* run on beside its successor, with its own transactions.  The requests   *)
(* of a call are numbered in the order a batch sends them: Begin,          *)
(* operations 1..N, Commit.                                                *)
(***************************************************************************)
EXTENDS Naturals

CONSTANTS
    Calls,    \* calls of $transaction
    N,        \* bound: operations of a call
    MaxEngines  \* bound: engine processes started

ASSUME ClientTxAssumption ==
    /\ N \in Nat /\ MaxEngines \in Nat

Begin == 0
Ops == 1..N
Commit == N + 1
Rollback == N + 2
Raw == N + 3   \* a raw SQL method of the client that the callback is given
Requests == Begin..Raw
Engines == 1..MaxEngines

VARIABLES
    batches,   \* the calls that are given a list: nobody changes it
    connected, \* PractorClient.connected
    ready,     \* engine.state = "ready"
    cli,       \* what the client knows of each request
    outcome,   \* of the promise of each call
    engines,   \* processes started; the last one is engine.process
    live,      \* those that run
    queue,     \* of each process: requests it was sent and has not executed
    store,     \* of each process: its transactions
    srv,       \* what became of each request
    status, written, db, \* transactions, as in TxAbstract
    loose      \* writes made outside of any transaction

link == <<connected, ready, engines, live>>
base == <<batches, status, written, db, loose>>
vars == <<link, cli, outcome, srv, queue, store, base>>

\* Commits that were answered with success.
Told == {c \in Calls : srv[c][Commit] = "ok"}

A == INSTANCE TxAbstract WITH TxIds <- Calls, Writes <- Calls \X Ops, told <- Told

Init ==
    /\ batches \in SUBSET Calls
    /\ connected = FALSE /\ ready = FALSE /\ engines = 0 /\ live = {}
    /\ cli = [c \in Calls |-> [r \in Requests |-> "unsent"]]
    /\ srv = [c \in Calls |-> [r \in Requests |-> "unsent"]]
    /\ outcome = [c \in Calls |-> "none"]
    /\ queue = [e \in Engines |-> {}]
    /\ store = [e \in Engines |-> {}]
    /\ loose = {}
    /\ A!AbsInit

-----------------------------------------------------------------------------
(* Requests                                                                 *)

Mark(c, r, s) == cli' = [cli EXCEPT ![c][r] = s]
Reply(c, r, s) == srv' = [srv EXCEPT ![c][r] = s]

\* PractorEngine.request, which writes to the last process. What is written to one that
\* has exited is gone.
Send(c, r) ==
    \/ /\ ready
       /\ Mark(c, r, "waiting")
       /\ Reply(c, r, "sent")
       /\ queue' = [e \in Engines |->
                     queue[e] \cup {q \in {<<c, r>>} : e = engines /\ e \in live}]
    \/ /\ ~ready
       /\ Mark(c, r, "rejected")
       /\ UNCHANGED <<srv, queue>>

\* What a method of the client does when it is not connected.
SendConnected(c, r) ==
    \/ connected /\ Send(c, r)
    \/ ~connected /\ Mark(c, r, "rejected") /\ UNCHANGED <<srv, queue>>

Receive(c, r) ==
    /\ cli[c][r] = "waiting"
    /\ \/ srv[c][r] = "ok" /\ Mark(c, r, "resolved")
       \/ srv[c][r] = "error" /\ Mark(c, r, "rejected")
    /\ UNCHANGED <<link, outcome, srv, queue, store, base>>

\* MUTANT: statements have no timer, as they may take long.
OnlyControl(c, r) == r \notin Ops /\ cli[c][r] = "waiting"
TimerRuns(c, r) == cli[c][r] = "waiting"

RequestTimeout(c, r) ==
    /\ TimerRuns(c, r)
    /\ Mark(c, r, "rejected")
    /\ UNCHANGED <<link, outcome, srv, queue, store, base>>

-----------------------------------------------------------------------------
(* $transaction                                                             *)

Resolved(c, r) == cli[c][r] = "resolved"
Rejected(c, r) == cli[c][r] = "rejected"
Unsent(c, r) == cli[c][r] = "unsent"

\* ensureConnected fails, or getBatchDescriptor finds something in the list that is not
\* a query, or one that was started.
MayRefuse(c) == ~connected \/ c \in batches

Transaction(c) ==
    /\ outcome[c] = "none"
    /\ \/ /\ connected
          /\ Send(c, Begin)
          /\ outcome' = [outcome EXCEPT ![c] = "pending"]
       \/ /\ MayRefuse(c)
          /\ outcome' = [outcome EXCEPT ![c] = "rejected"]
          /\ UNCHANGED <<cli, srv, queue>>
    /\ UNCHANGED <<link, store, base>>

\* MUTANT: the operations of a batch are not awaited one by one.
Dispatched(c, r) == IF r = Begin THEN Resolved(c, r) ELSE ~Unsent(c, r)
Awaited(c, r) == Resolved(c, r)

\* A batch sends its next request when it has the answer to the last one.
BatchNext(c) ==
    /\ c \in batches /\ outcome[c] = "pending"
    /\ \E r \in Begin..N :
          Awaited(c, r) /\ Unsent(c, r + 1) /\ Send(c, r + 1)
    /\ UNCHANGED <<link, outcome, store, base>>

\* A callback calls methods of its client, in any order and without waiting for
\* them; it may keep the client and call them when the transaction is over.
Operation(c, r) ==
    /\ c \notin batches
    /\ Resolved(c, Begin) /\ Unsent(c, r)
    /\ SendConnected(c, r)
    /\ UNCHANGED <<link, outcome, store, base>>

InCallback(c) ==
    /\ c \notin batches
    /\ Resolved(c, Begin) /\ Unsent(c, Commit) /\ Unsent(c, Rollback)

CallbackReturns(c) ==
    /\ InCallback(c)
    /\ Send(c, Commit)
    /\ UNCHANGED <<link, outcome, store, base>>

\* The try block was left by an error.
Failed(c) ==
    \/ Rejected(c, Commit)
    \/ c \in batches /\ \E o \in Ops : Rejected(c, o)
    \/ InCallback(c)

RollBack(c) ==
    /\ Failed(c) /\ Unsent(c, Rollback)
    /\ Send(c, Rollback)
    /\ UNCHANGED <<link, outcome, store, base>>

\* MUTANT: an error of the commit request is swallowed.
CommitOver(c) == Resolved(c, Commit) \/ Rejected(c, Commit)
CommitDone(c) == Resolved(c, Commit)

\* MUTANT: the error is thrown before the transaction is rolled back.
Thrown(c) == Rejected(c, Commit) \/ \E o \in Ops : c \in batches /\ Rejected(c, o)
RolledBack(c) == Resolved(c, Rollback) \/ Rejected(c, Rollback)

Settle(c) ==
    /\ outcome[c] = "pending"
    /\ \/ CommitDone(c) /\ outcome' = [outcome EXCEPT ![c] = "resolved"]
       \/ /\ Rejected(c, Begin) \/ RolledBack(c)
          /\ outcome' = [outcome EXCEPT ![c] = "rejected"]
    /\ UNCHANGED <<link, cli, srv, queue, store, base>>

-----------------------------------------------------------------------------
(* The engine                                                               *)

Executes(e, c, r) ==
    /\ <<c, r>> \in queue[e]
    /\ queue' = [queue EXCEPT ![e] = @ \ {<<c, r>>}]

\* MUTANT: an entry is deleted only if the transaction ended well.
Kept(c) == IF Told' = Told THEN store ELSE [e \in Engines |-> store[e] \ {c}]
Taken(c) == [e \in Engines |-> store[e] \ {c}]

BeginTransaction(e, c) ==
    /\ Executes(e, c, Begin)
    /\ \/ /\ Reply(c, Begin, "ok")
          /\ store' = [store EXCEPT ![e] = @ \cup {c}]
          /\ A!AbsBegin(c)
       \/ /\ Reply(c, Begin, "error")
          /\ UNCHANGED <<store, status, written, db>>
    /\ UNCHANGED <<batches, link, cli, outcome, loose>>

\* An operation is refused by a process that does not have its transaction; it may
\* fail with its effect.
ExecuteInTransaction(e, c, o) ==
    /\ Executes(e, c, o)
    /\ \/ /\ c \in store[e]
          /\ Reply(c, o, "ok") \/ Reply(c, o, "error")
          /\ A!AbsWrite(c, <<c, o>>)
       \/ /\ Reply(c, o, "error")
          /\ UNCHANGED <<status, written, db>>
    /\ UNCHANGED <<batches, link, cli, outcome, store, loose>>

\* A commit may take effect and be answered with an error (a lost connection).
CommitTransaction(e, c) ==
    /\ Executes(e, c, Commit)
    /\ \/ /\ c \in store[e]
          /\ \/ Reply(c, Commit, "ok") /\ A!AbsCommit(c)
             \/ Reply(c, Commit, "error") /\ (A!AbsCommit(c) \/ A!AbsAbort(c))
          /\ store' = Taken(c)
       \/ /\ c \notin store[e]
          /\ Reply(c, Commit, "error")
          /\ UNCHANGED <<store, status, written, db>>
    /\ UNCHANGED <<batches, link, cli, outcome, loose>>

RollbackTransaction(e, c) ==
    /\ Executes(e, c, Rollback)
    /\ \/ /\ c \in store[e]
          /\ Reply(c, Rollback, "ok") \/ Reply(c, Rollback, "error")
          /\ store' = Taken(c)
          /\ A!AbsAbort(c)
       \/ /\ c \notin store[e]
          /\ Reply(c, Rollback, "error")
          /\ UNCHANGED <<store, status, written, db>>
    /\ UNCHANGED <<batches, link, cli, outcome, loose>>

\* db.executeRaw: it knows of no transaction.
ExecuteRaw(e, c) ==
    /\ Executes(e, c, Raw)
    /\ \/ Reply(c, Raw, "ok") /\ loose' = loose \cup {c}
       \/ Reply(c, Raw, "error") /\ UNCHANGED loose
    /\ UNCHANGED <<batches, link, cli, outcome, store, status, written, db>>

\* A transaction with a timeout expires; one whose engine exited is ended by the
\* database. A call without a timeout is one whose timeout never comes.
Expire(c) ==
    /\ status[c] = "open"
    /\ UNCHANGED <<srv, queue>>
    /\ store' = Taken(c)
    /\ A!AbsAbort(c)
    /\ UNCHANGED <<batches, link, cli, outcome, loose>>

-----------------------------------------------------------------------------
(* Connecting                                                               *)

\* A new process is started, whether or not the one before has exited.
Connect ==
    /\ ~connected /\ ~ready /\ engines < MaxEngines
    /\ connected' = TRUE /\ ready' = TRUE
    /\ engines' = engines + 1
    /\ live' = live \cup {engines + 1}
    /\ UNCHANGED <<cli, outcome, srv, queue, store, base>>

\* A process exits, asked to or not.
EngineExits(e) ==
    /\ e \in live
    /\ live' = live \ {e}
    /\ queue' = [queue EXCEPT ![e] = {}]
    /\ store' = [store EXCEPT ![e] = {}]
    /\ UNCHANGED <<connected, ready, engines, cli, outcome, srv, base>>

\* The client hears of an exit, be it of an earlier process, or gives up on an engine
\* that does not stop.
LoseEngine ==
    /\ ready
    /\ ready' = FALSE
    /\ cli' = [c \in Calls |-> [r \in Requests |->
                  IF cli[c][r] = "waiting" THEN "rejected" ELSE cli[c][r]]]
    /\ UNCHANGED <<connected, engines, live, outcome, srv, queue, store, base>>

Disconnect ==
    /\ connected /\ ~ready
    /\ connected' = FALSE
    /\ UNCHANGED <<ready, engines, live, cli, outcome, srv, queue, store, base>>

-----------------------------------------------------------------------------
Continue(c) == BatchNext(c) \/ CallbackReturns(c) \/ RollBack(c) \/ Settle(c)

Engine(e, c) ==
    \/ BeginTransaction(e, c) \/ CommitTransaction(e, c) \/ RollbackTransaction(e, c)
    \/ ExecuteRaw(e, c) \/ \E o \in Ops : ExecuteInTransaction(e, c, o)

Next ==
    \/ Connect \/ LoseEngine \/ Disconnect
    \/ \E e \in Engines : EngineExits(e) \/ \E c \in Calls : Engine(e, c)
    \/ \E c \in Calls :
          \/ Transaction(c) \/ Continue(c) \/ Expire(c)
          \/ \E r \in Ops \cup {Raw} : Operation(c, r)
          \/ \E r \in Requests : Receive(c, r) \/ RequestTimeout(c, r)

Spec == Init /\ [][Next]_vars

\* Continuations run, timers fire, and callbacks end.
FairSpec ==
    /\ Spec
    /\ \A c \in Calls : WF_vars(Continue(c))
    /\ \A c \in Calls, r \in Requests : WF_vars(RequestTimeout(c, r))

-----------------------------------------------------------------------------
(* Properties                                                               *)

Sent == {"unsent", "sent", "ok", "error"}

\* Every variable has its type, and the stores hold open transactions only.
TypeOK ==
    /\ batches \subseteq Calls
    /\ connected \in BOOLEAN /\ ready \in BOOLEAN
    /\ engines \in 0..MaxEngines /\ live \subseteq Engines
    /\ cli \in [Calls -> [Requests -> {"unsent", "waiting", "resolved", "rejected"}]]
    /\ srv \in [Calls -> [Requests -> Sent]]
    /\ outcome \in [Calls -> {"none", "pending", "resolved", "rejected"}]
    /\ status \in [Calls -> A!Status]
    /\ written \in [Calls -> SUBSET (Calls \X Ops)]
    /\ db \subseteq Calls \X Ops
    /\ loose \subseteq Calls
    /\ queue \in [Engines -> SUBSET (Calls \X Requests)]
    /\ store \in [Engines -> SUBSET {c \in Calls : status[c] = "open"}]

Published(c) == {o \in Ops : <<c, o>> \in db}

\* A promise of $transaction that is resolved means that everything that
\* its operations were answered is in the database: all of a batch, and of a callback all
\* that it saw succeed, however late it sent it.
ResolvedIsCommitted ==
    \A c \in Calls : outcome[c] = "resolved" =>
        /\ status[c] = "committed"
        /\ \A o \in Ops : c \in batches \/ Resolved(c, o) => o \in Published(c)

\* "If any fail we rollback the whole TX" (client.ts:411): a batch is published as
\* a whole, and nothing is published before the commit request is sent, whichever answers
\* come late and whenever the engine exits.
AllOrNothing ==
    \A c \in Calls :
        /\ c \in batches => Published(c) \in {{}, Ops}
        /\ Unsent(c, Commit) => Published(c) = {}

\* The client sends nothing to process e any more: it heard of an exit, or stop gave up.
GivenUp(e) == ~ready \/ e # engines

\* A transaction that an engine still holds when the promise of its call has settled
\* is one whose begin was answered too late, or whose rollback is on its way, or one of a
\* process that the client has given up on while it runs: that one is ended by a request
\* sent before, by its timer, or by the exit of the process, and by no new request.
OpenAfterSettled ==
    \A e \in Engines : \A c \in store[e] : outcome[c] # "pending" =>
        Rejected(c, Begin) \/ <<c, Rollback>> \in queue[e] \/ GivenUp(e)

\* Every promise of $transaction settles, even if the engine never answers.
Settles == \A c \in Calls : outcome[c] = "pending" ~> outcome[c] # "pending"

=============================================================================
