--------------------------- MODULE EngineManager ---------------------------
(***************************************************************************)
(* PractorEngine (client/src/runtime/engine.ts): the Node side of the      *)
(* engine process.  start spawns a process and waits for its ready line,   *)
(* request writes a line and remembers a pending entry with a timer, stop  *)
(* asks the engine to shut down and kills it.  Lines, exits, errors and    *)
(* timers are callbacks of Node's event loop and each is one step; what    *)
(* follows an await runs in a step of its own, before the next callback.   *)
(*                                                                         *)
(* Several calls may be under way at once, an old process may outlive its  *)
(* stop, and its lines and its exit reach the same object.                 *)
(***************************************************************************)
EXTENDS Naturals, FiniteSets

CONSTANTS Procs,         \* processes spawn may return, each once
          Callers,       \* user code: at most one start or stop each
          MaxRequests,   \* bound: requests that are sent
          None           \* null

ASSUME EngineManagerAssumption == MaxRequests \in Nat /\ None \notin Procs

VARIABLES state,       \* this.state
          process,     \* this.process
          proc,        \* the process behind it, as the system sees it
          listener,    \* what the readline interface of a process calls
          readyLine,   \* the ready message of a process
          startTimer,  \* processes whose startup timeout is running
          requestId,   \* this.requestId
          count,       \* requests sent so far
          req,         \* what each request is
          line,        \* where its line is: in stdin, answered in stdout, read
          pending,     \* requests in this.pending
          timers,      \* requests whose timer is running
          outcome,     \* how a request's promise settled
          answer,      \* whose response settled it
          pc,          \* where a call of start or stop is
          waits,       \* the process a call of start, the request a call of stop awaits
          exiting      \* this turn of the event loop began with exit or error

procVars == <<proc, listener, readyLine, startTimer>>
sentVars == <<requestId, count, req>>
pendVars == <<pending, timers, outcome, answer>>
vars == <<state, process, procVars, sentVars, line, pendVars, pc, waits, exiting>>

Reqs == 1..MaxRequests

NoRequest == [kind |-> "query", id |-> 0, to |-> None]

TypeOK ==
    /\ state \in {"idle", "starting", "ready", "error", "stopped"}
    /\ process \in Procs \cup {None}
    /\ proc \in [Procs -> {"none", "booting", "up", "exited", "gone"}]
    /\ listener \in [Procs -> {"none", "ready", "responses"}]
    /\ readyLine \in [Procs -> {"none", "written", "read"}]
    /\ startTimer \subseteq Procs
    /\ requestId \in 0..MaxRequests
    /\ count \in 0..MaxRequests
    /\ req \in [Reqs -> [kind : {"query", "shutdown"}, id : 0..MaxRequests,
                         to : Procs \cup {None}]]
    /\ line \in [Reqs -> {"none", "stdin", "stdout", "read"}]
    /\ pending \subseteq Reqs
    /\ timers \subseteq Reqs
    /\ outcome \in [Reqs -> {"none", "pending", "answered", "timeout", "rejected"}]
    /\ answer \in [Reqs -> {0} \cup Reqs]
    /\ pc \in [Callers -> {"idle", "starting", "waiting", "stopping", "resume"}]
    /\ waits \in [Callers -> {None} \cup Procs \cup Reqs]
    /\ exiting \in BOOLEAN

Init ==
    /\ state = "idle"
    /\ process = None
    /\ proc = [p \in Procs |-> "none"]
    /\ listener = [p \in Procs |-> "none"]
    /\ readyLine = [p \in Procs |-> "none"]
    /\ startTimer = {}
    /\ requestId = 0
    /\ count = 0
    /\ req = [r \in Reqs |-> NoRequest]
    /\ line = [r \in Reqs |-> "none"]
    /\ pending = {}
    /\ timers = {}
    /\ outcome = [r \in Reqs |-> "none"]
    /\ answer = [r \in Reqs |-> 0]
    /\ pc = [c \in Callers |-> "idle"]
    /\ waits = [c \in Callers |-> None]
    /\ exiting = FALSE

-----------------------------------------------------------------------------
(* The event loop *)

\* Calls of stop whose shutdown request settled run before the next callback.
TurnEnded == \A c \in Callers : pc[c] # "resume"

\* User code runs between callbacks; in a turn that began with exit or error
\* it also runs before such calls of stop: listeners of "exit", and whoever
\* awaited one of the requests that were rejected.
UserRuns == TurnEnded \/ exiting

\* These calls are over, in the program counters pcs.
Over(S, pcs) ==
    /\ pc' = [c \in Callers |-> IF c \in S THEN "idle" ELSE pcs[c]]
    /\ waits' = [c \in Callers |-> IF c \in S THEN None ELSE waits[c]]

\* The calls of stop that await a request of S go on.
Resumed(S) == [c \in Callers |-> IF pc[c] = "stopping" /\ waits[c] \in S THEN "resume" ELSE pc[c]]

-----------------------------------------------------------------------------
(* request *)

\* MUTANT: every engine's requests are numbered from 1.
NumberedAnew == 0
NumberedOn == requestId

\* A request of this kind is written to the process, with its pending entry
\* and its timer.  this.process!.stdin! throws when there is no process: the
\* promise is rejected and the entry stays until its timer fires.
Send(kind) ==
    LET r == count + 1 IN
    /\ count < MaxRequests
    /\ count' = r
    /\ requestId' = requestId + 1
    /\ req' = [req EXCEPT ![r] = [kind |-> kind, id |-> requestId', to |-> process]]
    /\ pending' = {q \in pending : req[q].id # requestId'} \cup {r}
    /\ timers' = timers \cup {r}
    /\ outcome' = [outcome EXCEPT ![r] = IF process = None THEN "rejected" ELSE "pending"]
    /\ line' = [line EXCEPT ![r] = IF process = None THEN "none" ELSE "stdin"]
    /\ UNCHANGED answer

Request ==
    /\ UserRuns /\ state = "ready"
    /\ Send("query")
    /\ UNCHANGED <<state, process, procVars, pc, waits, exiting>>

\* The entry with this id, if there is one.
PendingWith(id) == {q \in pending : req[q].id = id}

\* MUTANT: the entries are dropped and their promises are left alone.
DroppedOutcome == outcome
RejectedOutcome ==
    [r \in Reqs |-> IF r \in pending /\ outcome[r] = "pending" THEN "rejected" ELSE outcome[r]]

\* MUTANT: the timers of rejected requests go on running.
TimersLeft == timers
TimersCleared == timers \ pending

\* rejectAllPending, in a turn in which the calls S end.
RejectAllPending(S) ==
    /\ outcome' = RejectedOutcome
    /\ timers' = TimersCleared
    /\ pending' = {}
    /\ Over(S, Resumed(pending))
    /\ UNCHANGED answer

RequestTimeout(r) ==
    LET gone == PendingWith(req[r].id) IN
    /\ TurnEnded /\ r \in timers
    /\ timers' = timers \ {r}
    /\ pending' = pending \ gone
    /\ outcome' = [outcome EXCEPT ![r] = IF @ = "pending" THEN "timeout" ELSE @]
    /\ pc' = Resumed({r})
    /\ exiting' = FALSE
    /\ UNCHANGED <<state, process, procVars, sentVars, line, answer, waits>>

\* handleResponse: a response whose id is not pending is ignored.
HandleResponse(r) ==
    LET found == PendingWith(req[r].id) IN
    /\ TurnEnded /\ line[r] = "stdout" /\ readyLine[req[r].to] = "read"
    /\ line' = [line EXCEPT ![r] = "read"]
    /\ pending' = pending \ found
    /\ timers' = timers \ found
    /\ outcome' = [q \in Reqs |-> IF q \in found /\ outcome[q] = "pending"
                                    THEN "answered" ELSE outcome[q]]
    /\ answer' = [q \in Reqs |-> IF q \in found THEN r ELSE answer[q]]
    /\ pc' = Resumed(found)
    /\ exiting' = FALSE
    /\ UNCHANGED <<state, process, procVars, sentVars, waits>>

-----------------------------------------------------------------------------
(* start *)

\* MUTANT: the timeout is set before this.process is, for the previous one.
PreviousTimeout(p) == startTimer \cup {process}
\* MUTANT: nothing bounds the wait for the ready message.
NoTimeout(p) == startTimer
TimeoutSet(p) == startTimer \cup {p}

Spawn(c, p) ==
    /\ UserRuns /\ pc[c] = "idle" /\ state \notin {"ready", "starting"}
    /\ proc[p] = "none"
    /\ state' = "starting"
    /\ process' = p
    /\ proc' = [proc EXCEPT ![p] = "booting"]
    /\ listener' = [listener EXCEPT ![p] = "ready"]
    /\ startTimer' = TimeoutSet(p)
    /\ requestId' = NumberedOn
    /\ pc' = [pc EXCEPT ![c] = "starting"]
    /\ waits' = [waits EXCEPT ![c] = p]
    /\ UNCHANGED <<readyLine, count, req, line, pendVars, exiting>>

\* A second call, while the first one waits.
AwaitReady(c) ==
    /\ UserRuns /\ pc[c] = "idle" /\ state = "starting"
    /\ pc' = [pc EXCEPT ![c] = "waiting"]
    /\ UNCHANGED <<state, process, procVars, sentVars, line, pendVars, waits, exiting>>

\* The calls of start that wait for "ready" or "error", and the one that
\* spawned p if its promise is not settled.
Waiting == {c \in Callers : pc[c] = "waiting"}
Starting(p) == {c \in Callers : pc[c] = "starting" /\ waits[c] = p}

\* "ready" is emitted on the engine object: every listener that waits for it,
\* of an older process too, switches that process to handleResponse.
HandleReady(p) ==
    /\ TurnEnded /\ readyLine[p] = "written"
    /\ readyLine' = [readyLine EXCEPT ![p] = "read"]
    /\ IF listener[p] = "ready"
         THEN /\ state' = "ready"
              /\ startTimer' = startTimer \ {p}
              /\ listener' = [q \in Procs |-> IF listener[q] = "ready"
                                                THEN "responses" ELSE listener[q]]
              /\ Over(Waiting \cup Starting(p), pc)
         ELSE UNCHANGED <<state, startTimer, listener, pc, waits>>
    /\ exiting' = FALSE
    /\ UNCHANGED <<process, proc, sentVars, line, pendVars>>

\* start is rejected; the state and the process are left as they are.
StartupTimeout(p) ==
    /\ TurnEnded /\ p \in startTimer
    /\ startTimer' = startTimer \ {p}
    /\ Over(Starting(p), pc)
    /\ exiting' = FALSE
    /\ UNCHANGED <<state, process, proc, listener, readyLine, sentVars, line, pendVars>>

OnExit(p) ==
    /\ TurnEnded /\ proc[p] = "exited"
    /\ proc' = [proc EXCEPT ![p] = "gone"]
    /\ state' = "stopped"
    /\ RejectAllPending({})
    /\ exiting' = TRUE
    /\ UNCHANGED <<process, listener, readyLine, startTimer, sentVars, line>>

\* The program could not be run.
OnError(p) ==
    /\ TurnEnded /\ proc[p] = "booting" /\ readyLine[p] = "none"
    /\ proc' = [proc EXCEPT ![p] = "gone"]
    /\ state' = "error"
    /\ RejectAllPending(Waiting)
    /\ exiting' = TRUE
    /\ UNCHANGED <<process, listener, readyLine, startTimer, sentVars, line>>

-----------------------------------------------------------------------------
(* stop *)

Stop(c) ==
    /\ UserRuns /\ pc[c] = "idle" /\ process # None /\ state # "stopped"
    /\ Send("shutdown")
    /\ pc' = [pc EXCEPT ![c] = "stopping"]
    /\ waits' = [waits EXCEPT ![c] = count']
    /\ UNCHANGED <<state, process, procVars, exiting>>

\* After the await: this.process may be another process by now.
Kill(c) ==
    /\ pc[c] = "resume" /\ process # None
    /\ process' = None
    /\ state' = "stopped"
    /\ RejectAllPending({c})
    /\ UNCHANGED <<procVars, sentVars, line, exiting>>

\* Or null: the call is rejected with a TypeError.
KillNothing(c) ==
    /\ pc[c] = "resume" /\ process = None
    /\ Over({c}, pc)
    /\ UNCHANGED <<state, process, procVars, sentVars, line, pendVars, exiting>>

-----------------------------------------------------------------------------
(* The engine process, seen from Node: see RpcServer for its inside. *)

\* It writes the ready message.
Boot(p) ==
    /\ proc[p] = "booting"
    /\ proc' = [proc EXCEPT ![p] = "up"]
    /\ readyLine' = [readyLine EXCEPT ![p] = "written"]
    /\ UNCHANGED <<state, process, listener, startTimer, sentVars, line, pendVars,
                   pc, waits, exiting>>

\* In any order; shutdown is answered, with an error, by an engine that has no
\* database, and by the exit of one that has.
Respond(r) ==
    /\ line[r] = "stdin" /\ proc[req[r].to] = "up"
    /\ line' = [line EXCEPT ![r] = "stdout"]
    /\ UNCHANGED <<state, process, procVars, sentVars, pendVars, pc, waits, exiting>>

\* By itself, by shutdown or by SIGTERM; what it wrote can still be read.
Exit(p) ==
    /\ proc[p] \in {"booting", "up"}
    /\ proc' = [proc EXCEPT ![p] = "exited"]
    /\ UNCHANGED <<state, process, listener, readyLine, startTimer, sentVars, line,
                   pendVars, pc, waits, exiting>>

-----------------------------------------------------------------------------

User ==
    \/ Request
    \/ \E c \in Callers : Stop(c) \/ AwaitReady(c) \/ \E p \in Procs : Spawn(c, p)

Resume(c) == Kill(c) \/ KillNothing(c)

Engine ==
    \/ \E p \in Procs : Boot(p) \/ Exit(p)
    \/ \E r \in Reqs : Respond(r)

Next ==
    \/ User
    \/ Engine
    \/ \E c \in Callers : Resume(c)
    \/ \E r \in Reqs : RequestTimeout(r) \/ HandleResponse(r)
    \/ \E p \in Procs : HandleReady(p) \/ StartupTimeout(p) \/ OnExit(p) \/ OnError(p)

Spec == Init /\ [][Next]_vars

(***************************************************************************)
(* Continuations run and timers fire.  Nothing is assumed of the engine    *)
(* process: it may hang, crash, or never start.                            *)
(***************************************************************************)
Fairness ==
    /\ \A c \in Callers : WF_vars(Resume(c))
    /\ \A r \in Reqs : WF_vars(RequestTimeout(r))
    /\ \A p \in Procs : WF_vars(StartupTimeout(p))

FairSpec == Spec /\ Fairness

-----------------------------------------------------------------------------

(***************************************************************************)
(* A request is settled by its own response only, whatever is late, timed  *)
(* out, or written by a process that was stopped long ago: ids are never   *)
(* used again, not even for the next process.                              *)
(***************************************************************************)
OwnAnswer ==
    \A r \in Reqs :
        /\ answer[r] \in {0, r}
        /\ outcome[r] = "answered" => answer[r] = r

(***************************************************************************)
(* Every promise that is not settled can still be: it has its entry and a  *)
(* running timer.  No timer outlives its entry, so that Node can exit.     *)
(***************************************************************************)
PendingGuarded ==
    /\ timers = pending
    /\ \A r \in Reqs : outcome[r] = "pending" => r \in pending

(***************************************************************************)
(* Every request settles, with an answer or an error, even if the engine   *)
(* never answers.                                                          *)
(***************************************************************************)
RequestsSettle == \A r \in Reqs : outcome[r] = "pending" ~> outcome[r] # "pending"

(***************************************************************************)
(* A call of start that spawned a process, and a call of stop, come to an  *)
(* end.  (A call of start that awaits another one's process may not.)      *)
(***************************************************************************)
CallsReturn ==
    \A c \in Callers :
        pc[c] \in {"starting", "stopping", "resume"} ~>
            pc[c] \notin {"starting", "stopping", "resume"}

=============================================================================
