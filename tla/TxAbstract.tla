----------------------------- MODULE TxAbstract -----------------------------
(***************************************************************************)
(* What the engine's transaction API promises its client, without stores,  *)
(* timers, goroutines or connections.  A transaction is opened once and    *)
(* ends once; its writes reach the database together, at the instant it is *)
(* committed, or never; success is told of committed transactions only.    *)
(* TxStore implements this specification.                                  *)
(***************************************************************************)

CONSTANTS TxIds,    \* transactions that may be begun
          Writes    \* statements that change data, each sent once

VARIABLES status,   \* [TxIds -> Status]
          written,  \* [TxIds -> SUBSET Writes]: executed inside the transaction
          db,       \* SUBSET Writes: what other connections can see
          told      \* SUBSET TxIds: a commit of it was answered with success

absVars == <<status, written, db, told>>

Status == {"none", "open", "committed", "rolledback"}

AbsInit ==
    /\ status = [t \in TxIds |-> "none"]
    /\ written = [t \in TxIds |-> {}]
    /\ db = {}
    /\ told = {}

AbsBegin(t) ==
    /\ status[t] = "none"
    /\ status' = [status EXCEPT ![t] = "open"]
    /\ UNCHANGED <<written, db, told>>

AbsWrite(t, w) ==
    /\ status[t] = "open"
    /\ written' = [written EXCEPT ![t] = @ \cup {w}]
    /\ UNCHANGED <<status, db, told>>

\* The answer may be lost or be an error, so success need not be told.
AbsCommit(t) ==
    /\ status[t] = "open"
    /\ status' = [status EXCEPT ![t] = "committed"]
    /\ db' = db \cup written[t]
    /\ told' \in {told, told \cup {t}}
    /\ UNCHANGED written

AbsAbort(t) ==
    /\ status[t] = "open"
    /\ status' = [status EXCEPT ![t] = "rolledback"]
    /\ UNCHANGED <<written, db, told>>

AbsNext ==
    \E t \in TxIds :
        \/ AbsBegin(t)
        \/ AbsCommit(t)
        \/ AbsAbort(t)
        \/ \E w \in Writes : AbsWrite(t, w)

AbsSpec == AbsInit /\ [][AbsNext]_absVars

=============================================================================
