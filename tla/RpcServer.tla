----------------------------- MODULE RpcServer -----------------------------
(***************************************************************************)
(* The JSON-RPC server of the engine process (engine/internal/protocol/    *)
(* server.go) and the way main.go starts and ends it: one reader of stdin, *)
(* a goroutine per request, a channel handlerSlots that bounds them, a     *)
(* WaitGroup the reader waits on before Start returns, a context cancelled *)
(* by SIGINT and SIGTERM.                                                  *)
(***************************************************************************)
EXTENDS Naturals, Sequences, FiniteSets

CONSTANTS Requests,   \* the lines a client may write, each at most once
          Kind,       \* [Requests -> Kinds]
          Capacity    \* of handlerSlots: 32 in the code

(***************************************************************************)
(* blank: an empty line.  prompt: not JSON, or refused for its version or  *)
(* method, or handled without the database, as schema.parse is.  query:    *)
(* its handler waits for the database, for an answer or for a pooled       *)
(* connection, which may take as long as others keep theirs                *)
(* (query/engine.go:473).  shutdown: its handler exits the process.        *)
(***************************************************************************)
Kinds == {"blank", "prompt", "query", "shutdown"}

ASSUME RpcServerAssumption ==
    /\ IsFiniteSet(Requests)
    /\ Kind \in [Requests -> Kinds]
    /\ Capacity \in Nat \ {0}

VARIABLES stdin,      \* lines written by the client and not yet read
          sent,       \* lines written so far
          closed,     \* the client closed its end of stdin
          ctxDone,    \* a signal cancelled the context
          reader,     \* where Start is
          line,       \* the line it read last
          result,     \* what Start returns once wg.Wait returns
          gor,        \* the goroutine of each request
          slots,      \* len(handlerSlots)
          wg,         \* the WaitGroup's counter
          answers,    \* what was written for a request: its own id, or id 0
          ended       \* how the process ended

vars == <<stdin, sent, closed, ctxDone, reader, line, result, gor, slots, wg,
          answers, ended>>

input == <<stdin, sent, closed>>

NoLine == <<>>

\* Of the line that is written: of the request, or 0 where the request is not
\* JSON, or its result has none (NaN).  The client looks up the request's own.
ResponseIds == {"own id", "id 0"}

TypeOK ==
    /\ stdin \in Seq(Requests)
    /\ sent \subseteq Requests
    /\ closed \in BOOLEAN
    /\ ctxDone \in BOOLEAN
    /\ reader \in {"select", "reading", "slot", "waiting"}
    /\ line \in Requests \cup {NoLine}
    /\ result \in {"nil", "ctxErr", "readErr"}
    /\ gor \in [Requests -> {"none", "handling", "answered", "released", "done"}]
    /\ slots \in Nat
    /\ wg \in Nat
    /\ answers \in [Requests -> {"nothing"} \cup ResponseIds]
    /\ ended \in {"running", "nil", "ctxErr", "readErr", "exit0"}

\* Start has written the ready message.
Init ==
    /\ stdin = <<>>
    /\ sent = {}
    /\ closed = FALSE
    /\ ctxDone = FALSE
    /\ reader = "select"
    /\ line = NoLine
    /\ result = "nil"
    /\ gor = [r \in Requests |-> "none"]
    /\ slots = 0
    /\ wg = 0
    /\ answers = [r \in Requests |-> "nothing"]
    /\ ended = "running"

-----------------------------------------------------------------------------
(* The client's end of stdin, and signals *)

Send(r) ==
    /\ ended = "running" /\ ~closed /\ r \notin sent
    /\ sent' = sent \cup {r}
    /\ stdin' = Append(stdin, r)
    /\ UNCHANGED <<closed, ctxDone, reader, line, result, gor, slots, wg, answers, ended>>

Close ==
    /\ ended = "running" /\ ~closed
    /\ closed' = TRUE
    /\ UNCHANGED <<stdin, sent, ctxDone, reader, line, result, gor, slots, wg, answers, ended>>

Signal ==
    /\ ended = "running" /\ ~ctxDone
    /\ ctxDone' = TRUE
    /\ UNCHANGED <<input, reader, line, result, gor, slots, wg, answers, ended>>

-----------------------------------------------------------------------------
(* Start: the reader *)

WaitFor(why) == reader' = "waiting" /\ result' = why

\* The first select: the context is looked at between two reads only.
Select ==
    /\ ended = "running" /\ reader = "select"
    /\ IF ctxDone THEN WaitFor("ctxErr") ELSE reader' = "reading" /\ UNCHANGED result
    /\ UNCHANGED <<input, ctxDone, line, gor, slots, wg, answers, ended>>

\* ReadBytes returns a line; an empty one is skipped.
ReadLine ==
    /\ ended = "running" /\ reader = "reading" /\ stdin # <<>>
    /\ line' = Head(stdin)
    /\ stdin' = Tail(stdin)
    /\ reader' = IF Kind[Head(stdin)] = "blank" THEN "select" ELSE "slot"
    /\ UNCHANGED <<sent, closed, ctxDone, result, gor, slots, wg, answers, ended>>

ReadEOF ==
    /\ ended = "running" /\ reader = "reading" /\ stdin = <<>> /\ closed
    /\ WaitFor("nil")
    /\ UNCHANGED <<input, ctxDone, line, gor, slots, wg, answers, ended>>

\* An error of stdin other than EOF may end the reading at any time.
ReadError ==
    /\ ended = "running" /\ reader = "reading"
    /\ WaitFor("readErr")
    /\ UNCHANGED <<input, ctxDone, line, gor, slots, wg, answers, ended>>

\* The second select, first case: a slot is free; wg.Add and the goroutine.
Dispatch ==
    /\ ended = "running" /\ reader = "slot" /\ slots < Capacity
    /\ slots' = slots + 1
    /\ wg' = wg + 1
    /\ gor' = [gor EXCEPT ![line] = "handling"]
    /\ reader' = "select"
    /\ UNCHANGED <<input, ctxDone, line, result, answers, ended>>

\* Second case: Start returns at once, without wg.Wait.
GiveUp ==
    /\ ended = "running" /\ reader = "slot" /\ ctxDone
    /\ ended' = "ctxErr"
    /\ UNCHANGED <<input, ctxDone, reader, line, result, gor, slots, wg, answers>>

\* MUTANT: Start returns without waiting for the handlers.
NoWait == TRUE
Waited == wg = 0

\* wg.Wait returns, Start returns, and so does main or its os.Exit(1).
Return ==
    /\ ended = "running" /\ reader = "waiting" /\ Waited
    /\ ended' = result
    /\ UNCHANGED <<input, ctxDone, reader, line, result, gor, slots, wg, answers>>

-----------------------------------------------------------------------------
(* handleMessage and the goroutine's deferred calls, last one first *)

\* Every path of handleMessage writes one line, under writeMu.
Respond(r) ==
    /\ ended = "running" /\ gor[r] = "handling" /\ Kind[r] # "shutdown"
    /\ \E id \in ResponseIds : answers' = [answers EXCEPT ![r] = id]
    /\ gor' = [gor EXCEPT ![r] = "answered"]
    /\ UNCHANGED <<input, ctxDone, reader, line, result, slots, wg, ended>>

\* handleShutdown: os.Exit(0) in the middle of everything else.
Exit(r) ==
    /\ ended = "running" /\ gor[r] = "handling" /\ Kind[r] = "shutdown"
    /\ ended' = "exit0"
    /\ UNCHANGED <<input, ctxDone, reader, line, result, gor, slots, wg, answers>>

\* MUTANT: the early returns do not give the slot back.
LeakySlot(r) == IF Kind[r] = "prompt" THEN slots ELSE slots - 1
FreedSlot(r) == slots - 1

ReleaseSlot(r) ==
    /\ ended = "running" /\ gor[r] = "answered"
    /\ slots' = FreedSlot(r)
    /\ gor' = [gor EXCEPT ![r] = "released"]
    /\ UNCHANGED <<input, ctxDone, reader, line, result, wg, answers, ended>>

\* MUTANT: wg.Done is called on the early returns as well.
DoneTwice(r) == IF Kind[r] = "prompt" THEN wg - 2 ELSE wg - 1
\* MUTANT: wg.Done is not called on the early returns.
NotDone(r) == IF Kind[r] = "prompt" THEN wg ELSE wg - 1
WgDone(r) == wg - 1

Done(r) ==
    /\ ended = "running" /\ gor[r] = "released"
    /\ wg' = WgDone(r)
    /\ gor' = [gor EXCEPT ![r] = "done"]
    /\ UNCHANGED <<input, ctxDone, reader, line, result, slots, answers, ended>>

Terminated == ended # "running" /\ UNCHANGED vars

Start == Select \/ ReadLine \/ ReadEOF \/ Dispatch \/ GiveUp \/ Return

Goroutine(r) == Respond(r) \/ Exit(r) \/ ReleaseSlot(r) \/ Done(r)

Next ==
    \/ Start \/ ReadError
    \/ \E r \in Requests : Send(r) \/ Goroutine(r)
    \/ Close \/ Signal
    \/ Terminated

Spec == Init /\ [][Next]_vars

\* The handler of a query waits for a connection or an answer of the database.
Waiting(r) == Kind[r] = "query" /\ gor[r] = "handling"

(***************************************************************************)
(* The reader and the goroutines run.  Nothing is assumed of the client,   *)
(* of signals, of errors of stdin, nor of handlers that wait for the       *)
(* database: transactions that nobody ends may pin the pool for ever.      *)
(***************************************************************************)
Fairness ==
    /\ WF_vars(Start)
    /\ \A r \in Requests : WF_vars(~Waiting(r) /\ Goroutine(r))

FairSpec == Spec /\ Fairness

-----------------------------------------------------------------------------

\* Requests whose goroutine holds a slot, and those the WaitGroup counts.
Holding == {r \in Requests : gor[r] \in {"handling", "answered"}}
Counted == {r \in Requests : gor[r] \in {"handling", "answered", "released"}}
Dispatched == {r \in Requests : gor[r] # "none"}
Answered == {r \in Requests : answers[r] # "nothing"}

(***************************************************************************)
(* The channel and the WaitGroup count exactly the goroutines that are     *)
(* between their first and their last step: no slot is lost on an early    *)
(* return of handleMessage, at most Capacity handlers run, and wg.Wait     *)
(* waits for each of them.                                                 *)
(***************************************************************************)
SlotsConserved ==
    /\ slots = Cardinality(Holding)
    /\ wg = Cardinality(Counted)
    /\ slots <= Capacity

(***************************************************************************)
(* When stdin ends, Start returns after a line was written for every       *)
(* request it had read, with its id or with id 0, and after EOF it had     *)
(* read every line (the case that TestServerWaitsForInFlightHandlersOnEOF  *)
(* tries with one slow handler).                                           *)
(***************************************************************************)
DrainedOnEOF ==
    ended \in {"nil", "readErr"} =>
        /\ Dispatched \subseteq Answered
        /\ ended = "nil" =>
             \A r \in sent : Kind[r] # "blank" => r \in Dispatched

(***************************************************************************)
(* For a request that was sent a line is written, with its id or with id   *)
(* 0, or, if it is a query, its handler is reached, unless stdin fails, a  *)
(* signal arrives, the process ends, or queries that wait for the database *)
(* hold every slot.  Nothing but such queries uses up the slots.           *)
(***************************************************************************)
EventuallyAnswered ==
    \A r \in Requests :
        r \in sent /\ Kind[r] # "blank" ~>
            \/ r \in Answered \/ Waiting(r)
            \/ Cardinality({q \in Requests : Waiting(q)}) = Capacity
            \/ ctxDone \/ result = "readErr" \/ ended # "running"

(***************************************************************************)
(* Closing stdin stops the engine process, unless a query waits for the    *)
(* database for ever: wg.Wait waits for it too, and nothing cancels it.    *)
(***************************************************************************)
EOFStops == closed ~> ended # "running" \/ \E q \in Requests : Waiting(q)

(***************************************************************************)
(* main.go:63, "graceful shutdown": after a signal Start returns when a    *)
(* line was written for each request it took.                              *)
(***************************************************************************)
GracefulShutdown == ended = "ctxErr" => Dispatched \subseteq Answered

=============================================================================
