-------------------------- MODULE MigrationProofs --------------------------
(***************************************************************************)
(* Proofs about Migration, for any engines, names, schemas and number of   *)
(* commands.                                                               *)
(*                                                                         *)
(* A migration takes effect once because of InsertOK: a command commits    *)
(* only after its row was accepted, and the primary key lets one           *)
(* transaction at a time hold a row that is not committed. Deploy keeps    *)
(* the order because of LoopOK, its loop invariant: what it found and has  *)
(* left behind is recorded or blank, and what is still to do comes later.  *)
(***************************************************************************)
EXTENDS Migration, TLAPS

DeployAt == {"applied", "discover", "next", "apply", "record", "commit"}
DevAt == {"schema", "discover", "load", "mkdir", "create", "fill", "snapshot", "fillSnapshot",
          "apply", "record", "commit", "cleanup"}

\* A command is where its code is.
CmdOK ==
    \A p \in Procs :
        /\ pc[p] = "idle" <=> job[p].cmd = "none"
        /\ job[p].cmd = "deploy" => pc[p] \in DeployAt
        /\ job[p].cmd = "dev" => pc[p] \in DevAt

\* A row that waits for its commit is not recorded, and nobody else inserts it.
InsertOK ==
    \A p \in Procs : pc[p] = "commit" =>
        /\ job[p].id \notin Recorded
        /\ \A q \in Procs : q # p /\ pc[q] = "commit" => job[q].id # job[p].id

\* What a command knows to be recorded is.
KnownOK == \A p \in Procs : job[p].seen \subseteq Recorded /\ job[p].done \subseteq rows

\* The loop of Deploy.
LoopOK ==
    \A p \in Procs : job[p].cmd = "deploy" =>
        /\ job[p].todo \subseteq job[p].found
        /\ pc[p] = "next" => job[p].found \ job[p].todo \subseteq Recorded \cup job[p].blank
        /\ pc[p] \in {"apply", "record", "commit"} =>
              /\ job[p].found \ job[p].todo
                    \subseteq Recorded \cup job[p].blank \cup {job[p].id}
              /\ \A i \in job[p].todo : job[p].id < i

IInv ==
    /\ TypeOK
    /\ CmdOK
    /\ InsertOK
    /\ KnownOK
    /\ LoopOK
    /\ AppliedOnce
    /\ ReportTrue

USE MigrationAssumption DEF disk, base, history, vars

-----------------------------------------------------------------------------

LEMMA NoJobOK == NoJob \in Job
<1>1. (CHOOSE i \in Ids : TRUE) \in Ids  OBVIOUS
<1> QED BY <1>1 DEF NoJob, Job, Files

\* The local variables keep their types.
LEMMA StartedJob ==
    ASSUME NEW c \in {"deploy", "dev"} PROVE [NoJob EXCEPT !.cmd = c] \in Job
<1>1. (CHOOSE i \in Ids : TRUE) \in Ids  OBVIOUS
<1> QED BY <1>1 DEF NoJob, Job, Files

LEMMA FoundJob ==
    ASSUME NEW j \in Job, NEW f \in SUBSET Ids, NEW t \in SUBSET Ids
    PROVE  [j EXCEPT !.found = f, !.todo = t] \in Job
  BY DEF Job

LEMMA SkippedJob ==
    ASSUME NEW j \in Job, NEW t \in SUBSET Ids, NEW b \in SUBSET Ids
    PROVE  [j EXCEPT !.todo = t, !.blank = b] \in Job
  BY DEF Job

LEMMA ReadJob ==
    ASSUME NEW j \in Job, NEW t \in SUBSET Ids, NEW i \in Ids, NEW f \in Files
    PROVE  [j EXCEPT !.todo = t, !.id = i, !.sql = f] \in Job
  BY DEF Job

LEMMA GeneratedJob ==
    ASSUME NEW j \in Job, NEW f \in Files PROVE [j EXCEPT !.sql = f] \in Job
  BY DEF Job

LEMMA DoneJob ==
    ASSUME NEW j \in Job, NEW r \in Row
    PROVE  [j EXCEPT !.done = @ \cup {r}] \in Job
  BY DEF Job

LEMMA NamedJob ==
    ASSUME NEW j \in Job, NEW i \in Ids PROVE [j EXCEPT !.id = i] \in Job
  BY DEF Job

LEMMA TornTyped ==
    ASSUME TypeOK, NEW p \in Procs, TornSql(p) PROVE sql' \in [Ids -> Files]
<1>1. PICK f \in {Blank, Torn} :
          sql' = [sql EXCEPT ![job[p].id] = IF @ = Absent THEN Absent ELSE f]
  BY DEF TornSql
<1>2. f \in Files /\ Absent \in Files  BY DEF Files
<1> QED BY <1>1, <1>2 DEF TypeOK

LEMMA PreviousSchema ==
    ASSUME TypeOK, NEW p \in Procs, NEW s \in Previous(job[p].found) PROVE s \in Schemas
  BY DEF TypeOK, Job, Previous, Snapshots, Latest

\* One more time.
LEMMA Counted ==
    ASSUME NEW f \in [Ids -> Nat], NEW i \in Ids
    PROVE  /\ [f EXCEPT ![i] = @ + 1] \in [Ids -> Nat]
           /\ \A j \in Ids : [f EXCEPT ![i] = @ + 1][j] = IF j = i THEN f[j] + 1 ELSE f[j]
<1>1. f[i] + 1 \in Nat  OBVIOUS
<1>2. \A j \in Ids : f[j] \in Nat  OBVIOUS
<1> QED BY <1>1, <1>2

\* The invariant holds for an empty directory and an empty database.
LEMMA Initial == Init => IInv
<1> SUFFICES ASSUME Init PROVE IInv
  OBVIOUS
<1> USE DEF Init
<1>1. TypeOK
  BY NoJobOK DEF TypeOK, Files, Snapshots, Locations
<1>2. CmdOK  BY DEF CmdOK, NoJob
<1>3. InsertOK /\ ReportTrue  BY DEF InsertOK, ReportTrue
<1>4. KnownOK /\ LoopOK  BY DEF KnownOK, LoopOK, NoJob
<1>5. AppliedOnce  BY DEF AppliedOnce, Recorded
<1> QED BY <1>1, <1>2, <1>3, <1>4, <1>5 DEF IInv

\* A command that returns leaves the invariant to the rows and the others.
LEMMA Returns ==
    ASSUME IInv, NEW p \in Procs, NEW ms, ms \subseteq rows', rows \subseteq rows',
           ms \subseteq Row, Succeed(p, ms)
    PROVE  /\ pc' \in [Procs -> Locations] /\ job' \in [Procs -> Job]
           /\ out' \in [Procs -> SUBSET Row]
           /\ CmdOK' /\ KnownOK' /\ LoopOK' /\ ReportTrue'
           /\ pc'[p] = "idle" /\ job'[p] = NoJob
           /\ \A q \in Procs : q # p => pc'[q] = pc[q] /\ job'[q] = job[q]
<1> USE DEF IInv, TypeOK, Succeed, Goto, Set
<1>1. Recorded \subseteq Recorded'  BY DEF Recorded
<1>2. pc' \in [Procs -> Locations] /\ job' \in [Procs -> Job] /\ out' \in [Procs -> SUBSET Row]
  BY NoJobOK DEF Locations
<1>3. /\ pc'[p] = "idle" /\ job'[p] = NoJob
      /\ \A q \in Procs : q # p => pc'[q] = pc[q] /\ job'[q] = job[q]
  OBVIOUS
<1>4. CmdOK'  BY <1>3 DEF CmdOK, NoJob
<1>5. KnownOK'  BY <1>1, <1>3 DEF KnownOK, NoJob
<1>6. LoopOK'  BY <1>1, <1>3 DEF LoopOK, NoJob
<1>7. ReportTrue'  BY DEF ReportTrue
<1> QED BY <1>2, <1>3, <1>4, <1>5, <1>6, <1>7

\* So does one that gives up, to clean up or to return.
LEMMA GivesUp ==
    ASSUME IInv, NEW p \in Procs, pc[p] # "idle", rows \subseteq rows', GiveUp(p)
    PROVE  /\ pc' \in [Procs -> Locations] /\ job' \in [Procs -> Job]
           /\ out' \in [Procs -> SUBSET Row]
           /\ CmdOK' /\ KnownOK' /\ LoopOK' /\ ReportTrue'
           /\ pc'[p] \in {"idle", "cleanup"}
           /\ \A q \in Procs : q # p => pc'[q] = pc[q] /\ job'[q] = job[q]
<1>1. CASE Fail(p)  BY <1>1, Returns DEF Fail
<1>2. CASE Cleans(p) /\ Goto(p, "cleanup") /\ UNCHANGED <<job, out>>
  <2> USE <1>2 DEF IInv, TypeOK, Goto
  <2>1. Recorded \subseteq Recorded'  BY DEF Recorded
  <2>2. /\ pc' \in [Procs -> Locations]
        /\ pc'[p] = "cleanup" /\ \A q \in Procs : q # p => pc'[q] = pc[q]
    BY DEF Locations
  <2>3. job[p].cmd = "dev"  BY DEF Cleans, InDev
  <2>4. CmdOK'  BY <2>2, <2>3 DEF CmdOK, DevAt
  <2>5. KnownOK' /\ ReportTrue'  BY <2>1 DEF KnownOK, ReportTrue
  <2>6. LoopOK'  BY <2>1, <2>2, <2>3 DEF LoopOK
  <2> QED BY <2>2, <2>4, <2>5, <2>6
<1> QED BY <1>1, <1>2 DEF GiveUp

\* A commit records a row that was not there.
LEMMA Commits ==
    ASSUME IInv, NEW p \in Procs, pc[p] = "commit", Committed(p)
    PROVE  /\ rows \subseteq rows' /\ ThisRow(p) \in rows' /\ rows' \subseteq Row
           /\ ran' \in [Ids -> Nat]
           /\ Recorded' = Recorded \cup {job[p].id}
           /\ AppliedOnce'
<1>1. job[p].id \in Ids /\ job[p].sql \in Files  BY DEF IInv, TypeOK, Job
<1>2. rows \subseteq Row /\ ran \in [Ids -> Nat]  BY DEF IInv, TypeOK
<1>3. rows' = rows \cup {ThisRow(p)} /\ ThisRow(p) \in Row /\ ThisRow(p).id = job[p].id
  BY <1>1 DEF Committed, ThisRow, Row
<1>4. ran' = [ran EXCEPT ![job[p].id] = @ + 1]  BY DEF Committed
<1>5. /\ ran' \in [Ids -> Nat]
      /\ \A j \in Ids : ran'[j] = IF j = job[p].id THEN ran[j] + 1 ELSE ran[j]
  BY <1>1, <1>2, <1>4, Counted
<1>6. Recorded' = Recorded \cup {job[p].id}  BY <1>3 DEF Recorded
<1>7. job[p].id \notin Recorded  BY DEF IInv, InsertOK
<1>8. AppliedOnce'  BY <1>1, <1>2, <1>5, <1>6, <1>7 DEF IInv, AppliedOnce
<1> QED BY <1>2, <1>3, <1>5, <1>6, <1>8

\* Every step of a command, every error and every crash preserves it.
LEMMA Inductive == IInv /\ [Next]_vars => IInv'
<1> SUFFICES ASSUME IInv, [Next]_vars PROVE IInv'
  OBVIOUS
<1>1. ASSUME NEW p \in Procs, NEW c \in {"deploy", "dev"}, Start(p, c) PROVE IInv'
  <2> USE <1>1 DEF IInv, TypeOK, Start, Goto, Set
  <2>1. TypeOK'  BY StartedJob DEF Locations
  <2>2. CmdOK'  BY DEF CmdOK, DeployAt, DevAt, NoJob
  <2>3. InsertOK'  BY DEF InsertOK, Recorded
  <2>4. KnownOK'  BY DEF KnownOK, NoJob, Recorded
  <2>5. LoopOK'  BY DEF LoopOK, NoJob, Recorded
  <2>6. AppliedOnce'  BY DEF AppliedOnce, Recorded
  <2>7. ReportTrue'  BY DEF ReportTrue
  <2> QED BY <2>1, <2>2, <2>3, <2>4, <2>5, <2>6, <2>7
<1>2. ASSUME NEW p \in Procs, Discover(p) PROVE IInv'
  <2> USE <1>2 DEF IInv, TypeOK, Discover, Goto, Set, InDev
  <2>1. TypeOK'  
    <3>1. job[p] \in Job /\ OnDisk \subseteq Ids  BY DEF OnDisk
    <3>2. job[p].seen \subseteq Ids  BY <3>1 DEF Job
    <3>3. [job[p] EXCEPT !.found = OnDisk, !.todo = OnDisk \ job[p].seen] \in Job
      BY <3>1, <3>2, FoundJob
    <3> QED BY <3>3 DEF Locations
  <2>2. CmdOK'  BY DEF CmdOK, DeployAt, DevAt
  <2>3. InsertOK'  BY DEF InsertOK, Recorded
  <2>4. KnownOK'  BY DEF KnownOK, Recorded
  <2>5. LoopOK'  
    <3>1. job[p].seen \subseteq Recorded  BY DEF KnownOK
    <3>2. /\ job'[p].found = OnDisk /\ job'[p].todo = OnDisk \ job[p].seen
          /\ job'[p].blank = job[p].blank /\ pc'[p] \in {"load", "next"}
          /\ \A q \in Procs : q # p => job'[q] = job[q] /\ pc'[q] = pc[q]
      BY DEF Job
    <3>3. Recorded' = Recorded  BY DEF Recorded
    <3> QED BY <3>1, <3>2, <3>3 DEF LoopOK
  <2>6. AppliedOnce'  BY DEF AppliedOnce, Recorded
  <2>7. ReportTrue'  BY DEF ReportTrue
  <2> QED BY <2>1, <2>2, <2>3, <2>4, <2>5, <2>6, <2>7
<1>3. ASSUME NEW p \in Procs, Apply(p) PROVE IInv'
  <2> USE <1>3 DEF IInv, TypeOK, Apply, Goto
  <2>1. TypeOK'  BY DEF Locations, Job
  <2>2. CmdOK'  BY DEF CmdOK, DeployAt, DevAt
  <2>3. InsertOK'  BY DEF InsertOK, Recorded
  <2>4. KnownOK'  BY DEF KnownOK, Recorded
  <2>5. LoopOK'  BY DEF LoopOK, Recorded
  <2>6. AppliedOnce'  BY DEF AppliedOnce, Recorded
  <2>7. ReportTrue'  BY DEF ReportTrue
  <2> QED BY <2>1, <2>2, <2>3, <2>4, <2>5, <2>6, <2>7
<1>4. ASSUME NEW p \in Procs, Record(p) PROVE IInv'
  <2> USE <1>4 DEF IInv, TypeOK, Record, Goto
  <2>1. TypeOK'  BY DEF Locations, Job
  <2>2. CmdOK'  BY DEF CmdOK, DeployAt, DevAt
  <2>3. InsertOK'  BY DEF InsertOK, Recorded
  <2>4. KnownOK'  BY DEF KnownOK, Recorded
  <2>5. LoopOK'  BY DEF LoopOK, Recorded
  <2>6. AppliedOnce'  BY DEF AppliedOnce, Recorded
  <2>7. ReportTrue'  BY DEF ReportTrue
  <2> QED BY <2>1, <2>2, <2>3, <2>4, <2>5, <2>6, <2>7
<1>5. ASSUME NEW p \in Procs, ReadApplied(p) PROVE IInv'
  <2> USE <1>5 DEF IInv, TypeOK, ReadApplied, Goto, Set
  <2>1. TypeOK'  BY DEF Locations, Job, Recorded, Row
  <2>2. CmdOK'  BY DEF CmdOK, DeployAt, DevAt
  <2>3. InsertOK'  BY DEF InsertOK, Recorded
  <2>4. KnownOK'  BY DEF KnownOK, Recorded
  <2>5. LoopOK'  BY DEF LoopOK, Recorded
  <2>6. AppliedOnce'  BY DEF AppliedOnce, Recorded
  <2>7. ReportTrue'  BY DEF ReportTrue
  <2> QED BY <2>1, <2>2, <2>3, <2>4, <2>5, <2>6, <2>7
<1>6. ASSUME NEW p \in Procs, SkipBlank(p) PROVE IInv'
  <2> USE <1>6 DEF IInv, TypeOK, SkipBlank, Set
  <2>a. PICK i \in First(job[p].todo) :
          /\ sql[i] = Blank
          /\ job' = [job EXCEPT ![p] = [job[p] EXCEPT !.todo = @ \ {i}, !.blank = @ \cup {i}]]
    OBVIOUS
  <2>b. /\ job[p] \in Job /\ job[p].todo \subseteq Ids /\ job[p].blank \subseteq Ids
        /\ i \in job[p].todo
    BY DEF Job, First
  <2>c. [job[p] EXCEPT !.todo = @ \ {i}, !.blank = @ \cup {i}] \in Job
    BY <2>b, SkippedJob
  <2>d. /\ job'[p].todo = job[p].todo \ {i} /\ job'[p].blank = job[p].blank \cup {i}
        /\ job'[p].found = job[p].found /\ job'[p].cmd = job[p].cmd
        /\ job'[p].seen = job[p].seen /\ job'[p].done = job[p].done
        /\ \A q \in Procs : q # p => job'[q] = job[q]
        /\ pc'[p] = "next" /\ Recorded' = Recorded
    BY <2>a, <2>b DEF Job, Recorded
  <2>1. TypeOK'  BY <2>a, <2>c
  <2>2. CmdOK'  BY <2>d DEF CmdOK
  <2>3. InsertOK'  BY <2>d DEF InsertOK
  <2>4. KnownOK'  BY <2>d DEF KnownOK
  <2>5. LoopOK'  BY <2>b, <2>d DEF LoopOK
  <2>6. AppliedOnce'  BY DEF AppliedOnce, Recorded
  <2>7. ReportTrue'  BY DEF ReportTrue
  <2> QED BY <2>1, <2>2, <2>3, <2>4, <2>5, <2>6, <2>7
<1>7. ASSUME NEW p \in Procs, ReadSql(p) PROVE IInv'
  <2> USE <1>7 DEF IInv, TypeOK, ReadSql, Goto, Set
  <2>a. PICK i \in First(job[p].todo) :
          /\ sql[i] \notin {Absent, Blank}
          /\ job' = [job EXCEPT ![p] = [job[p] EXCEPT !.todo = @ \ {i}, !.id = i, !.sql = sql[i]]]
    OBVIOUS
  <2>b. /\ job[p] \in Job /\ job[p].todo \subseteq Ids /\ i \in job[p].todo
        /\ \A k \in job[p].todo : i <= k
    BY DEF Job, First
  <2>c. [job[p] EXCEPT !.todo = @ \ {i}, !.id = i, !.sql = sql[i]] \in Job
    BY <2>b, ReadJob
  <2>d. /\ job'[p].todo = job[p].todo \ {i} /\ job'[p].id = i
        /\ job'[p].found = job[p].found /\ job'[p].blank = job[p].blank
        /\ job'[p].cmd = job[p].cmd /\ job'[p].seen = job[p].seen
        /\ job'[p].done = job[p].done
        /\ \A q \in Procs : q # p => job'[q] = job[q] /\ pc'[q] = pc[q]
        /\ pc'[p] = "apply" /\ Recorded' = Recorded
    BY <2>a, <2>b DEF Job, Recorded
  <2>1. TypeOK'  BY <2>a, <2>c DEF Locations
  <2>2. CmdOK'  BY <2>d DEF CmdOK, DeployAt, DevAt
  <2>3. InsertOK'  BY <2>d DEF InsertOK
  <2>4. KnownOK'  BY <2>d DEF KnownOK
  <2>5. LoopOK'  
    <3>1. job'[p].found \ job'[p].todo \subseteq (job[p].found \ job[p].todo) \cup {i}  BY <2>d
    <3>2. \A k \in job'[p].todo : i < k  BY <2>b, <2>d
    <3> QED BY <2>b, <2>d, <3>1, <3>2 DEF LoopOK
  <2>6. AppliedOnce'  BY DEF AppliedOnce, Recorded
  <2>7. ReportTrue'  BY DEF ReportTrue
  <2> QED BY <2>1, <2>2, <2>3, <2>4, <2>5, <2>6, <2>7
<1>8. ASSUME NEW p \in Procs, ReadSchema(p) PROVE IInv'
  <2> USE <1>8 DEF IInv, TypeOK, ReadSchema, Goto, Set
  <2>1. TypeOK'  BY DEF Locations, Job
  <2>2. CmdOK'  BY DEF CmdOK, DeployAt, DevAt
  <2>3. InsertOK'  BY DEF InsertOK, Recorded
  <2>4. KnownOK'  BY DEF KnownOK, Recorded
  <2>5. LoopOK'  BY DEF LoopOK, Recorded
  <2>6. AppliedOnce'  BY DEF AppliedOnce, Recorded
  <2>7. ReportTrue'  BY DEF ReportTrue
  <2> QED BY <2>1, <2>2, <2>3, <2>4, <2>5, <2>6, <2>7
<1>9. ASSUME NEW p \in Procs, LoadSnapshot(p) PROVE IInv'
  <2> USE <1>9 DEF IInv, TypeOK, LoadSnapshot, Goto, Set
  <2>1. TypeOK'  
    <3>1. job[p] \in Job /\ job[p].target \in Schemas  BY DEF Job
    <3>2. ASSUME NEW s \in Previous(job[p].found) \ {job[p].target}
          PROVE  [from |-> s, to |-> job[p].target] \in Files
      BY <3>1, PreviousSchema DEF Files, Migrations
    <3> QED BY <3>1, <3>2, GeneratedJob DEF Locations
  <2>2. CmdOK'  BY DEF CmdOK, DeployAt, DevAt
  <2>3. InsertOK'  BY DEF InsertOK, Recorded
  <2>4. KnownOK'  BY DEF KnownOK, Recorded
  <2>5. LoopOK'  BY DEF LoopOK, Recorded
  <2>6. AppliedOnce'  BY DEF AppliedOnce, Recorded
  <2>7. ReportTrue'  BY DEF ReportTrue
  <2> QED BY <2>1, <2>2, <2>3, <2>4, <2>5, <2>6, <2>7
<1>10. ASSUME NEW p \in Procs, MakeDir(p) PROVE IInv'
  <2> USE <1>10 DEF IInv, TypeOK, MakeDir, Goto, Set
  <2>1. TypeOK'  
    <3>1. job[p] \in Job  OBVIOUS
    <3> QED BY <3>1, NamedJob DEF Locations
  <2>2. CmdOK'  BY DEF CmdOK, DeployAt, DevAt
  <2>3. InsertOK'  BY DEF InsertOK, Recorded
  <2>4. KnownOK'  BY DEF KnownOK, Recorded
  <2>5. LoopOK'  BY DEF LoopOK, Recorded
  <2>6. AppliedOnce'  BY DEF AppliedOnce, Recorded
  <2>7. ReportTrue'  BY DEF ReportTrue
  <2> QED BY <2>1, <2>2, <2>3, <2>4, <2>5, <2>6, <2>7
<1>11. ASSUME NEW p \in Procs, CreateSql(p) PROVE IInv'
  <2> USE <1>11 DEF IInv, TypeOK, CreateSql, Goto
  <2>1. TypeOK'  BY DEF Locations, Job, Files
  <2>2. CmdOK'  BY DEF CmdOK, DeployAt, DevAt
  <2>3. InsertOK'  BY DEF InsertOK, Recorded
  <2>4. KnownOK'  BY DEF KnownOK, Recorded
  <2>5. LoopOK'  BY DEF LoopOK, Recorded
  <2>6. AppliedOnce'  BY DEF AppliedOnce, Recorded
  <2>7. ReportTrue'  BY DEF ReportTrue
  <2> QED BY <2>1, <2>2, <2>3, <2>4, <2>5, <2>6, <2>7
<1>12. ASSUME NEW p \in Procs, FillSql(p) PROVE IInv'
  <2> USE <1>12 DEF IInv, TypeOK, FillSql, Goto
  <2>1. TypeOK'  BY DEF Locations, Job, Files
  <2>2. CmdOK'  BY DEF CmdOK, DeployAt, DevAt
  <2>3. InsertOK'  BY DEF InsertOK, Recorded
  <2>4. KnownOK'  BY DEF KnownOK, Recorded
  <2>5. LoopOK'  BY DEF LoopOK, Recorded
  <2>6. AppliedOnce'  BY DEF AppliedOnce, Recorded
  <2>7. ReportTrue'  BY DEF ReportTrue
  <2> QED BY <2>1, <2>2, <2>3, <2>4, <2>5, <2>6, <2>7
<1>13. ASSUME NEW p \in Procs, CreateSnapshot(p) PROVE IInv'
  <2> USE <1>13 DEF IInv, TypeOK, CreateSnapshot, Goto
  <2>1. TypeOK'  BY DEF Locations, Job, Snapshots
  <2>2. CmdOK'  BY DEF CmdOK, DeployAt, DevAt
  <2>3. InsertOK'  BY DEF InsertOK, Recorded
  <2>4. KnownOK'  BY DEF KnownOK, Recorded
  <2>5. LoopOK'  BY DEF LoopOK, Recorded
  <2>6. AppliedOnce'  BY DEF AppliedOnce, Recorded
  <2>7. ReportTrue'  BY DEF ReportTrue
  <2> QED BY <2>1, <2>2, <2>3, <2>4, <2>5, <2>6, <2>7
<1>14. ASSUME NEW p \in Procs, FillSnapshot(p) PROVE IInv'
  <2> USE <1>14 DEF IInv, TypeOK, FillSnapshot, Goto
  <2>1. TypeOK'  BY DEF Locations, Job, Snapshots
  <2>2. CmdOK'  BY DEF CmdOK, DeployAt, DevAt
  <2>3. InsertOK'  BY DEF InsertOK, Recorded
  <2>4. KnownOK'  BY DEF KnownOK, Recorded
  <2>5. LoopOK'  BY DEF CmdOK, DeployAt, DevAt, LoopOK, Recorded
  <2>6. AppliedOnce'  BY DEF AppliedOnce, Recorded
  <2>7. ReportTrue'  BY DEF ReportTrue
  <2> QED BY <2>1, <2>2, <2>3, <2>4, <2>5, <2>6, <2>7
<1>15. ASSUME NEW p \in Procs, Finish(p) PROVE IInv'
  <2> USE <1>15 DEF IInv, TypeOK, Finish
  <2>a. /\ pc' \in [Procs -> Locations] /\ job' \in [Procs -> Job]
        /\ out' \in [Procs -> SUBSET Row]
        /\ CmdOK' /\ KnownOK' /\ LoopOK' /\ ReportTrue'
        /\ pc'[p] = "idle" /\ job'[p] = NoJob
        /\ \A q \in Procs : q # p => pc'[q] = pc[q] /\ job'[q] = job[q]
    BY Returns DEF KnownOK, Job
  <2>1. TypeOK'  BY <2>a
  <2>2. CmdOK'  BY <2>a
  <2>3. InsertOK'  BY <2>a DEF InsertOK, Recorded
  <2>4. KnownOK'  BY <2>a
  <2>5. LoopOK'  BY <2>a
  <2>6. AppliedOnce'  BY DEF AppliedOnce, Recorded
  <2>7. ReportTrue'  BY <2>a
  <2> QED BY <2>1, <2>2, <2>3, <2>4, <2>5, <2>6, <2>7
<1>16. ASSUME NEW p \in Procs, NoChanges(p) PROVE IInv'
  <2> USE <1>16 DEF IInv, TypeOK, NoChanges
  <2>a. /\ pc' \in [Procs -> Locations] /\ job' \in [Procs -> Job]
        /\ out' \in [Procs -> SUBSET Row]
        /\ CmdOK' /\ KnownOK' /\ LoopOK' /\ ReportTrue'
        /\ pc'[p] = "idle" /\ job'[p] = NoJob
        /\ \A q \in Procs : q # p => pc'[q] = pc[q] /\ job'[q] = job[q]
    BY Returns
  <2>1. TypeOK'  BY <2>a
  <2>2. CmdOK'  BY <2>a
  <2>3. InsertOK'  BY <2>a DEF InsertOK, Recorded
  <2>4. KnownOK'  BY <2>a
  <2>5. LoopOK'  BY <2>a
  <2>6. AppliedOnce'  BY DEF AppliedOnce, Recorded
  <2>7. ReportTrue'  BY <2>a
  <2> QED BY <2>1, <2>2, <2>3, <2>4, <2>5, <2>6, <2>7
<1>17. ASSUME NEW p \in Procs, FillFails(p) PROVE IInv'
  <2> USE <1>17 DEF IInv, TypeOK, FillFails, Fail
  <2>a. /\ pc' \in [Procs -> Locations] /\ job' \in [Procs -> Job]
        /\ out' \in [Procs -> SUBSET Row]
        /\ CmdOK' /\ KnownOK' /\ LoopOK' /\ ReportTrue'
        /\ pc'[p] = "idle" /\ job'[p] = NoJob
        /\ \A q \in Procs : q # p => pc'[q] = pc[q] /\ job'[q] = job[q]
    BY Returns
  <2>1. TypeOK'  
    <3>1. sql' \in [Ids -> Files]  BY TornTyped
    <3> QED BY <2>a, <3>1
  <2>2. CmdOK'  BY <2>a
  <2>3. InsertOK'  BY <2>a DEF InsertOK, Recorded
  <2>4. KnownOK'  BY <2>a
  <2>5. LoopOK'  BY <2>a
  <2>6. AppliedOnce'  BY DEF AppliedOnce, Recorded
  <2>7. ReportTrue'  BY <2>a
  <2> QED BY <2>1, <2>2, <2>3, <2>4, <2>5, <2>6, <2>7
<1>18. ASSUME NEW p \in Procs, RemoveAll(p) PROVE IInv'
  <2> USE <1>18 DEF IInv, TypeOK, RemoveAll, Fail
  <2>a. /\ pc' \in [Procs -> Locations] /\ job' \in [Procs -> Job]
        /\ out' \in [Procs -> SUBSET Row]
        /\ CmdOK' /\ KnownOK' /\ LoopOK' /\ ReportTrue'
        /\ pc'[p] = "idle" /\ job'[p] = NoJob
        /\ \A q \in Procs : q # p => pc'[q] = pc[q] /\ job'[q] = job[q]
    BY Returns
  <2>1. TypeOK'  BY <2>a DEF Files, Snapshots
  <2>2. CmdOK'  BY <2>a
  <2>3. InsertOK'  BY <2>a DEF InsertOK, Recorded
  <2>4. KnownOK'  BY <2>a
  <2>5. LoopOK'  BY <2>a
  <2>6. AppliedOnce'  BY DEF AppliedOnce, Recorded
  <2>7. ReportTrue'  BY <2>a
  <2> QED BY <2>1, <2>2, <2>3, <2>4, <2>5, <2>6, <2>7
<1>19. ASSUME NEW p \in Procs, Error(p) PROVE IInv'
  <2> USE <1>19 DEF IInv, TypeOK, Error, RolledBack
  <2>a. /\ pc' \in [Procs -> Locations] /\ job' \in [Procs -> Job]
        /\ out' \in [Procs -> SUBSET Row]
        /\ CmdOK' /\ KnownOK' /\ LoopOK' /\ ReportTrue'
        /\ pc'[p] \in {"idle", "cleanup"}
        /\ \A q \in Procs : q # p => pc'[q] = pc[q] /\ job'[q] = job[q]
    BY GivesUp
  <2>1. TypeOK'  BY <2>a
  <2>2. CmdOK'  BY <2>a
  <2>3. InsertOK'  BY <2>a DEF InsertOK, Recorded
  <2>4. KnownOK'  BY <2>a
  <2>5. LoopOK'  BY <2>a
  <2>6. AppliedOnce'  BY DEF AppliedOnce, Recorded
  <2>7. ReportTrue'  BY <2>a
  <2> QED BY <2>1, <2>2, <2>3, <2>4, <2>5, <2>6, <2>7
<1>20. ASSUME NEW p \in Procs, pc[p] = "commit", Committed(p),
      IInv, rows' \subseteq Row, ran' \in [Ids -> Nat], AppliedOnce',
      Recorded' = Recorded \cup {job[p].id}, pc'[p] # "commit",
      \A q \in Procs : q # p => pc'[q] = pc[q] /\ job'[q] = job[q]
      PROVE InsertOK'
  BY <1>20 DEF IInv, InsertOK
<1>21. ASSUME NEW p \in Procs, Commit(p) PROVE IInv'
  <2> USE <1>21 DEF IInv, TypeOK, Commit
  <2>a. /\ rows \subseteq rows' /\ ThisRow(p) \in rows' /\ rows' \subseteq Row
        /\ ran' \in [Ids -> Nat]
        /\ Recorded' = Recorded \cup {job[p].id}
        /\ AppliedOnce'
    BY Commits
  <2>b. CASE InDev(p) /\ DevDone(p)
    <3>1. {ThisRow(p)} \subseteq rows' /\ {ThisRow(p)} \subseteq Row  BY <2>a
    <3>2. Succeed(p, {ThisRow(p)})  BY <2>b DEF DevDone
    <3>3. /\ pc' \in [Procs -> Locations] /\ job' \in [Procs -> Job]
          /\ out' \in [Procs -> SUBSET Row]
          /\ CmdOK' /\ KnownOK' /\ LoopOK' /\ ReportTrue'
          /\ pc'[p] = "idle"
          /\ \A q \in Procs : q # p => pc'[q] = pc[q] /\ job'[q] = job[q]
      BY <2>a, <3>1, <3>2, Returns
    <3>4. InsertOK'  BY <1>20, <2>a, <3>3
    <3> QED BY <2>a, <3>3, <3>4
  <2>c. CASE /\ ~InDev(p) /\ Goto(p, "next")
             /\ Set(p, [job[p] EXCEPT !.done = @ \cup {ThisRow(p)}])
             /\ UNCHANGED out
    <3>1. job[p] \in Job /\ job[p].done \subseteq Row  BY DEF Job
    <3>2. [job[p] EXCEPT !.done = @ \cup {ThisRow(p)}] \in Job
      BY <2>a, <3>1, DoneJob
    <3>3. /\ job'[p].todo = job[p].todo /\ job'[p].blank = job[p].blank
          /\ job'[p].found = job[p].found /\ job'[p].cmd = job[p].cmd
          /\ job'[p].seen = job[p].seen /\ job'[p].done = job[p].done \cup {ThisRow(p)}
          /\ pc'[p] = "next"
          /\ \A q \in Procs : q # p => pc'[q] = pc[q] /\ job'[q] = job[q]
      BY <2>c, <3>1 DEF Goto, Set, Job
    <3>4. TypeOK'  BY <2>a, <2>c, <3>2 DEF Goto, Set, Locations
    <3>5. CmdOK'  BY <2>c, <3>3 DEF CmdOK, InDev, DeployAt
    <3>6. InsertOK'  BY <1>20, <2>a, <3>3
    <3>7. KnownOK'  BY <2>a, <3>3 DEF KnownOK
    <3>8. LoopOK'  BY <2>a, <3>3 DEF LoopOK
    <3>9. ReportTrue'  BY <2>a, <2>c DEF ReportTrue
    <3> QED BY <2>a, <3>4, <3>5, <3>6, <3>7, <3>8, <3>9
  <2> QED BY <2>b, <2>c
<1>22. ASSUME NEW p \in Procs, CommitError(p) PROVE IInv'
  <2> USE <1>22 DEF IInv, TypeOK, CommitError
  <2>a. rows \subseteq rows'  BY DEF Committed
  <2>b. /\ pc' \in [Procs -> Locations] /\ job' \in [Procs -> Job]
        /\ out' \in [Procs -> SUBSET Row]
        /\ CmdOK' /\ KnownOK' /\ LoopOK' /\ ReportTrue'
        /\ pc'[p] \in {"idle", "cleanup"}
        /\ \A q \in Procs : q # p => pc'[q] = pc[q] /\ job'[q] = job[q]
    BY <2>a, GivesUp
  <2>c. CASE Committed(p) /\ upset' = upset \cup {"lost"}
    <3>1. /\ rows' \subseteq Row /\ ran' \in [Ids -> Nat]
          /\ Recorded' = Recorded \cup {job[p].id}
          /\ AppliedOnce'
      BY <2>c, Commits
    <3>2. InsertOK'  BY <1>20, <2>b, <2>c, <3>1
    <3> QED BY <2>b, <2>c, <3>1, <3>2
  <2>d. CASE UNCHANGED <<base, upset>>
    <3>1. InsertOK' /\ AppliedOnce'
      BY <2>b, <2>d DEF InsertOK, AppliedOnce, Recorded
    <3> QED BY <2>b, <2>d, <3>1
  <2> QED BY <2>c, <2>d
<1>23. ASSUME NEW p \in Procs, Crash(p) PROVE IInv'
  <2> USE <1>23 DEF IInv, TypeOK, Crash
  <2>a. rows \subseteq rows'  BY DEF Committed, CrashLeaves
  <2>b. /\ pc' \in [Procs -> Locations] /\ job' \in [Procs -> Job]
        /\ out' \in [Procs -> SUBSET Row]
        /\ CmdOK' /\ KnownOK' /\ LoopOK' /\ ReportTrue'
        /\ pc'[p] = "idle"
        /\ \A q \in Procs : q # p => pc'[q] = pc[q] /\ job'[q] = job[q]
    BY <2>a, Returns DEF Fail
  <2>c. dir' \subseteq Ids /\ sql' \in [Ids -> Files] /\ snap' \in [Ids -> Snapshots]
    <3>1. CASE pc[p] = "fill"  BY <3>1, TornTyped DEF CrashLeaves
    <3>2. CASE pc[p] = "fillSnapshot"  BY <3>2 DEF CrashLeaves, Snapshots
    <3>3. CASE pc[p] = "cleanup"  BY <3>3 DEF CrashLeaves, Files, Snapshots
    <3> QED BY <3>1, <3>2, <3>3 DEF CrashLeaves
  <2>d. CASE pc[p] = "commit" /\ Committed(p)
    <3>1. /\ rows' \subseteq Row /\ ran' \in [Ids -> Nat]
          /\ Recorded' = Recorded \cup {job[p].id}
          /\ AppliedOnce'
      BY <2>d, Commits
    <3>2. InsertOK'  BY <1>20, <2>b, <2>d, <3>1
    <3> QED BY <2>b, <2>c, <3>1, <3>2
  <2>e. CASE UNCHANGED base
    <3>1. InsertOK' /\ AppliedOnce'
      BY <2>b, <2>e DEF InsertOK, AppliedOnce, Recorded
    <3> QED BY <2>b, <2>c, <2>e, <3>1
  <2> QED BY <2>d, <2>e DEF CrashLeaves
<1>24. ASSUME UNCHANGED vars PROVE IInv'
  BY <1>24
  DEF IInv, TypeOK, CmdOK, InsertOK, KnownOK, LoopOK, AppliedOnce, ReportTrue, Recorded
<1> QED
  BY <1>1, <1>2, <1>3, <1>4, <1>5, <1>6, <1>7, <1>8, <1>9, <1>10, <1>11, <1>12, <1>13, <1>14,
     <1>15, <1>16, <1>17, <1>18, <1>19, <1>21, <1>22, <1>23, <1>24
  DEF Next, Deploy, CreateDevMigration, Transaction

\* The inductive invariant holds in every reachable state.
THEOREM Invariant == Spec => []IInv
  BY Initial, Inductive, PTL DEF Spec

\* Type correctness.
THEOREM TypeCorrect == Spec => []TypeOK
<1>1. IInv => TypeOK
  BY DEF IInv
<1> QED BY <1>1, Invariant, PTL

\* A migration is recorded exactly if its SQL took effect, once.
THEOREM EffectsOnce == Spec => []AppliedOnce
<1>1. IInv => AppliedOnce
  BY DEF IInv
<1> QED BY <1>1, Invariant, PTL

\* What a command reports as applied is.
THEOREM ReportsTrue == Spec => []ReportTrue
<1>1. IInv => ReportTrue
  BY DEF IInv
<1> QED BY <1>1, Invariant, PTL

\* Deploy leaves nothing behind that it has not recorded or found empty.
THEOREM DeploysInOrder == Spec => []DeployInOrder
<1>1. IInv => DeployInOrder
  <2> SUFFICES ASSUME IInv, NEW p \in Procs, job[p].cmd = "deploy",
                      pc[p] \in {"apply", "record", "commit"},
                      NEW i \in job[p].found, i < job[p].id
               PROVE  i \in Recorded \cup job[p].blank
    BY DEF DeployInOrder
  <2>1. i \in Nat /\ job[p].id \in Nat  BY DEF IInv, TypeOK, Job
  <2>2. i \notin job[p].todo  BY <2>1 DEF IInv, LoopOK
  <2> QED BY <2>1, <2>2 DEF IInv, LoopOK
<1> QED BY <1>1, Invariant, PTL

-----------------------------------------------------------------------------
(* What is kept on disk: a recorded migration stays there, and the          *)
(* migrations can be replayed one after the other.                          *)
(*                                                                          *)
(* Both hold as long as no dev migration runs beside another command and    *)
(* ids grow. A dev migration is alone with the directory then (Alone), its  *)
(* own is the newest (DevOK), and what it removes was never recorded        *)
(* (FreshOK).                                                               *)


\* Nothing is in a directory that is not there.
AbsentOK == \A i \in Ids : i \notin dir => sql[i] = Absent /\ snap[i] = Absent

Alone ==
    upset \subseteq {"lost"} =>
        \A p \in Procs, q \in Procs : InDev(p) /\ q # p => pc[q] = "idle"

\* Where a dev migration has generated its SQL, named and written its directory.
Generated == {"mkdir", "create", "fill", "snapshot", "fillSnapshot", "apply", "record", "commit"}
Written == {"snapshot", "fillSnapshot", "apply", "record", "commit"}

\* A dev migration at work.
DevFacts(p) ==
    LET d == job[p].id IN
    /\ pc[p] = "load" => job[p].found = OnDisk
    /\ pc[p] \in Generated => job[p].sql \in Migrations /\ job[p].sql.to = job[p].target
    /\ pc[p] = "mkdir" => job[p].sql.from \in Previous(OnDisk)
    /\ pc[p] \in (Generated \cup {"cleanup"}) \ {"mkdir"} =>
          d \in dir /\ \A j \in dir : j # d => j < d
    /\ pc[p] \in {"create", "fill"} => job[p].sql.from \in Previous(OnDisk \ {d})
    /\ pc[p] \in {"create", "fill", "snapshot"} => snap[d] = Absent
    /\ pc[p] = "create" => sql[d] = Absent
    /\ pc[p] = "fill" => sql[d] = Blank
    /\ pc[p] = "fillSnapshot" => snap[d] = Empty
    /\ pc[p] \in Written => sql[d] = job[p].sql

DevOK == upset \subseteq {"lost"} => \A p \in Procs : InDev(p) => DevFacts(p)

\* What a dev migration may have to remove is not recorded.
FreshOK ==
    upset = {} => \A p \in Procs :
        InDev(p) /\ pc[p] \in (Generated \cup {"cleanup"}) \ {"mkdir"} =>
            job[p].id \notin Recorded

\* What Deploy applies is on disk.
DeployOK ==
    upset = {} => \A p \in Procs :
        job[p].cmd = "deploy" /\ pc[p] \in {"apply", "record", "commit"} =>
            job[p].id \in OnDisk /\ sql[job[p].id] = job[p].sql

\* Each migration starts from the newest snapshot before it and leads to its own,
\* whatever a crash left in between.
Before(j) == {i \in OnDisk : i < j /\ snap[i] # Absent}
Linked ==
    upset \subseteq {"lost"} =>
        \A j \in OnDisk : sql[j] \in Migrations =>
            /\ snap[j] \in {sql[j].to, Empty, Torn, Absent}
            /\ Previously(j) = {} => sql[j].from = Empty
            /\ \A i \in Before(j) :
                  (\A k \in Before(j) : k <= i) /\ snap[i] # Torn => sql[j].from = snap[i]

DiskInv ==
    /\ AbsentOK
    /\ Alone
    /\ DevOK
    /\ FreshOK
    /\ DeployOK
    /\ StaysOnDisk
    /\ Linked

USE MigrationAssumption DEF disk, base, history, vars

-----------------------------------------------------------------------------

LEMMA DiskInitial == Init => DiskInv
<1> SUFFICES ASSUME Init PROVE DiskInv
  OBVIOUS
<1> USE DEF Init
<1>1. \A p \in Procs : job[p].cmd = "none"  BY DEF NoJob
<1>2. AbsentOK /\ Alone /\ DevOK /\ FreshOK /\ DeployOK
  BY <1>1 DEF AbsentOK, Alone, DevOK, FreshOK, DeployOK, InDev
<1>3. StaysOnDisk /\ Linked  BY DEF StaysOnDisk, Linked, OnDisk
<1> QED BY <1>2, <1>3 DEF DiskInv

\* A step that leaves the directory alone leaves what is on disk.
LEMMA DiskKept ==
    ASSUME DiskInv, UNCHANGED disk, upset \subseteq upset'
    PROVE  /\ AbsentOK' /\ Linked' /\ OnDisk' = OnDisk
           /\ \A s : Previous(s)' = Previous(s)
<1>1. OnDisk' = OnDisk  BY DEF OnDisk
<1>2. \A s : Previous(s)' = Previous(s)  BY DEF Previous
<1>3. AbsentOK'  BY DEF DiskInv, AbsentOK
<1>4. Linked'  BY <1>1 DEF DiskInv, Linked, Before, Previously
<1> QED BY <1>1, <1>2, <1>3, <1>4

\* Only the command that takes a step has to be looked at: if one of the two is a
\* dev migration, any other command is idle.
LEMMA Focus ==
    ASSUME IInv, DiskInv, NEW p \in Procs, pc[p] # "idle", upset \subseteq upset',
           UNCHANGED disk \/ InDev(p),
           InDev(p)' => InDev(p),
           \A q \in Procs : q # p => pc'[q] = pc[q] /\ job'[q] = job[q]
    PROVE  /\ Alone'
           /\ (upset' \subseteq {"lost"} /\ InDev(p)' => DevFacts(p)') => DevOK'
           /\ (upset' = {} /\ InDev(p)' /\ pc'[p] \in (Generated \cup {"cleanup"}) \ {"mkdir"}
                  => job'[p].id \notin Recorded') => FreshOK'
           /\ (upset' = {} /\ job'[p].cmd = "deploy" /\ pc'[p] \in {"apply", "record", "commit"}
                  => job'[p].id \in OnDisk' /\ sql'[job'[p].id] = job'[p].sql) => DeployOK'
<1>1. ASSUME upset' \subseteq {"lost"}, NEW q \in Procs, q # p
      PROVE  ~InDev(q) /\ ~InDev(q)' /\ (InDev(p) => pc'[q] = "idle" /\ job'[q].cmd = "none")
  BY <1>1 DEF DiskInv, Alone, InDev, IInv, CmdOK
<1>2. Alone'
  <2> SUFFICES ASSUME upset' \subseteq {"lost"}, NEW r \in Procs, NEW q \in Procs,
                      InDev(r)', q # r
               PROVE  pc'[q] = "idle"
    BY DEF Alone
  <2>1. r = p  BY <1>1
  <2> QED BY <1>1, <2>1
<1>3. ASSUME upset' \subseteq {"lost"} /\ InDev(p)' => DevFacts(p)' PROVE DevOK'
  <2> SUFFICES ASSUME upset' \subseteq {"lost"}, NEW r \in Procs, InDev(r)' PROVE DevFacts(r)'
    BY DEF DevOK
  <2> QED BY <1>1, <1>3
<1>4. ASSUME upset' = {} /\ InDev(p)' /\ pc'[p] \in (Generated \cup {"cleanup"}) \ {"mkdir"}
                => job'[p].id \notin Recorded'
      PROVE  FreshOK'
  BY <1>1, <1>4 DEF FreshOK
<1>5. ASSUME upset' = {} /\ job'[p].cmd = "deploy" /\ pc'[p] \in {"apply", "record", "commit"}
                => job'[p].id \in OnDisk' /\ sql'[job'[p].id] = job'[p].sql
      PROVE  DeployOK'
  <2> SUFFICES ASSUME upset' = {}, NEW q \in Procs, q # p, job'[q].cmd = "deploy",
                      pc'[q] \in {"apply", "record", "commit"}
               PROVE  job'[q].id \in OnDisk' /\ sql'[job'[q].id] = job'[q].sql
    BY <1>5 DEF DeployOK
  <2>1. ~InDev(p)  BY <1>1
  <2>2. UNCHANGED disk /\ upset = {} /\ job'[q] = job[q] /\ pc'[q] = pc[q]  BY <2>1
  <2> QED BY <2>2 DEF DiskInv, DeployOK, OnDisk
<1> QED BY <1>2, <1>3, <1>4, <1>5

\* A dev migration changes its own directory only, which is the newest.
LEMMA NewestChanges ==
    ASSUME DiskInv, NEW d \in Ids, d \in dir, \A j \in dir : j # d => j < d,
           dir \subseteq Ids, dir' \subseteq dir, upset' = upset,
           \A j \in dir : j # d => j \in dir' /\ sql'[j] = sql[j] /\ snap'[j] = snap[j],
           d \in dir' /\ sql'[d] \in Migrations =>
               /\ snap'[d] \in {sql'[d].to, Empty, Torn, Absent}
               /\ sql'[d] = sql[d] \/ sql'[d].from \in Previous(OnDisk \ {d})
    PROVE  Linked'
<1> SUFFICES ASSUME upset \subseteq {"lost"}, NEW j \in OnDisk', sql'[j] \in Migrations
             PROVE  /\ snap'[j] \in {sql'[j].to, Empty, Torn, Absent}
                    /\ Previously(j)' = {} => sql'[j].from = Empty
                    /\ \A i \in Before(j)' :
                          (\A k \in Before(j)' : k <= i) /\ snap'[i] # Torn
                              => sql'[j].from = snap'[i]
  BY DEF Linked
<1>1. /\ Before(j)' = {i \in OnDisk \ {d} : i < j /\ snap[i] # Absent}
      /\ Previously(j)' = {i \in OnDisk \ {d} : i < j}
  <2>1. j \in dir /\ j \in Nat /\ d \in Nat /\ dir \subseteq Nat  BY DEF OnDisk
  <2>2. \A i \in Nat : i < j => i # d  BY <2>1
  <2>3. \A i \in dir' : i < j => (i \in OnDisk' <=> i \in OnDisk) /\ snap'[i] = snap[i]
    BY <2>1, <2>2 DEF OnDisk
  <2>4. \A i \in OnDisk : i < j => i \in dir'  BY <2>1, <2>2 DEF OnDisk
  <2> QED BY <2>1, <2>2, <2>3, <2>4 DEF Before, Previously, OnDisk
<1>2. CASE j # d
  <2>1. j \in OnDisk /\ sql'[j] = sql[j] /\ snap'[j] = snap[j]  BY <1>2 DEF OnDisk
  <2>2. Before(j)' = Before(j) /\ Previously(j)' = Previously(j)
    BY <1>1, <1>2, <2>1 DEF Before, Previously, OnDisk
  <2>3. \A i \in Before(j) : snap'[i] = snap[i]  BY <1>1, <2>2 DEF OnDisk
  <2> QED BY <2>1, <2>2, <2>3 DEF DiskInv, Linked
<1>3. CASE j = d /\ sql'[d] = sql[d]
  <2>1. d \in OnDisk /\ d \in dir'  BY <1>3, MigrationAssumption DEF OnDisk
  <2>a. d \in Nat /\ ~(d < d)
    <3>1. d \in Nat  OBVIOUS
    <3> QED BY <3>1
  <2>2. Before(d)' = Before(d) /\ Previously(d)' = Previously(d)
    BY <1>1, <1>3, <2>1, <2>a DEF Before, Previously
  <2>3. \A i \in Before(d) : snap'[i] = snap[i]  BY <1>1, <1>3, <2>2 DEF OnDisk
  <2> QED BY <1>3, <2>1, <2>2, <2>3 DEF DiskInv, Linked
<1>4. CASE j = d /\ sql'[d].from \in Previous(OnDisk \ {d})
  <2>1. d \in dir'  BY <1>4 DEF OnDisk
  <2>2. ASSUME NEW i \in Before(j)', \A k \in Before(j)' : k <= i, snap'[i] # Torn
        PROVE  sql'[j].from = snap'[i]
    <3> DEFINE with == {k \in OnDisk \ {d} : snap[k] # Absent}
    <3>1. Before(j)' = with  BY <1>1, <1>4 DEF OnDisk
    <3>a. with \subseteq Nat /\ i \in with /\ \A k \in with : k <= i
      BY <2>2, <3>1 DEF OnDisk
    <3>2. Latest(with) = {i}
      <4>1. \A k \in with : i <= k => k = i  BY <3>a
      <4> HIDE DEF with
      <4> QED BY <3>a, <4>1 DEF Latest
    <3>3. snap'[i] = snap[i] /\ i \in OnDisk \ {d}  BY <2>2, <3>1 DEF OnDisk
    <3>4. Previous(OnDisk \ {d})
              = UNION {IF snap[k] = Torn THEN Schemas ELSE {snap[k]} : k \in Latest(with)}
      BY <3>3 DEF Previous
    <3> HIDE DEF with
    <3>5. Previous(OnDisk \ {d}) = {snap[i]}  BY <2>2, <3>2, <3>3, <3>4
    <3> QED BY <1>4, <3>3, <3>5
  <2>3. ASSUME Previously(j)' = {} PROVE sql'[j].from = Empty
    <3>1. OnDisk \ {d} = {}  BY <1>1, <1>4, <2>3 DEF OnDisk
    <3>2. Previous({}) = {Empty}  BY DEF Previous
    <3> QED BY <1>4, <3>1, <3>2
  <2> QED BY <1>4, <2>1, <2>2, <2>3
<1> QED BY <1>2, <1>3, <1>4 DEF OnDisk

\* What is recorded stays if only a directory changes that is not.
LEMMA RecordedStays ==
    ASSUME DiskInv, NEW d \in Ids, rows' = rows, upset' = upset,
           \A j \in dir : j # d => j \in dir' /\ sql'[j] = sql[j],
           upset = {} => d \notin Recorded
    PROVE  StaysOnDisk'
<1> SUFFICES ASSUME upset = {}, NEW row \in rows
             PROVE  row.id \in OnDisk' /\ sql'[row.id] = row.sql
  BY DEF StaysOnDisk
<1>1. row.id # d  BY DEF Recorded
<1>2. row.id \in OnDisk /\ sql[row.id] = row.sql  BY DEF DiskInv, StaysOnDisk
<1> QED BY <1>1, <1>2 DEF OnDisk

\* Every step of a command, every error and every crash preserves it.
LEMMA DiskInductive == IInv /\ DiskInv /\ [Next]_vars => DiskInv'
<1> SUFFICES ASSUME IInv, DiskInv, [Next]_vars PROVE DiskInv'
  OBVIOUS
<1>1. ASSUME NEW p \in Procs, NEW c \in {"deploy", "dev"}, Start(p, c) PROVE DiskInv'
  <2> USE <1>1 DEF Start
  <2>a. /\ AbsentOK' /\ Linked' /\ OnDisk' = OnDisk
        /\ \A s : Previous(s)' = Previous(s)
    BY DiskKept
  <2>e. /\ pc[p] = "idle" /\ pc'[p] = IF c = "dev" THEN "schema" ELSE "applied"
        /\ job'[p].cmd = c /\ upset \subseteq upset'
        /\ Overlap(c) => "overlap" \in upset'
        /\ \A q \in Procs : q # p => pc'[q] = pc[q] /\ job'[q] = job[q]
    BY DEF IInv, TypeOK, Goto, Set, NoJob
  <2>1. AbsentOK'  BY <2>a
  <2>2. Alone'  BY <2>e DEF DiskInv, Alone, InDev, IInv, CmdOK, Overlap
  <2>3. DevOK'  
    <3> SUFFICES ASSUME upset' \subseteq {"lost"}, NEW r \in Procs, InDev(r)' PROVE DevFacts(r)'
      BY DEF DevOK
    <3>1. r = p  BY <2>e DEF IInv, CmdOK, InDev, Overlap
    <3> QED BY <2>e, <3>1 DEF DevFacts, Generated, Written
  <2>4. FreshOK'  BY <2>a, <2>e DEF DiskInv, FreshOK, InDev, Generated, Recorded
  <2>5. DeployOK'  BY <2>a, <2>e DEF DiskInv, DeployOK
  <2>6. StaysOnDisk'  BY <2>a DEF DiskInv, StaysOnDisk
  <2>7. Linked'  BY <2>a
  <2> QED BY <2>1, <2>2, <2>3, <2>4, <2>5, <2>6, <2>7 DEF DiskInv
<1>2. ASSUME NEW p \in Procs, Discover(p) PROVE DiskInv'
  <2> USE <1>2 DEF Discover
  <2>a. /\ AbsentOK' /\ Linked' /\ OnDisk' = OnDisk
        /\ \A s : Previous(s)' = Previous(s)
    BY DiskKept
  <2>e. /\ pc'[p] = IF InDev(p) THEN "load" ELSE "next"
        /\ job'[p].found = OnDisk /\ job'[p].cmd = job[p].cmd
        /\ \A q \in Procs : q # p => pc'[q] = pc[q] /\ job'[q] = job[q]
    BY DEF IInv, TypeOK, Job, Goto, Set
  <2>f. /\ Alone'
        /\ (upset' \subseteq {"lost"} /\ InDev(p)' => DevFacts(p)') => DevOK'
        /\ (upset' = {} /\ InDev(p)' /\ pc'[p] \in (Generated \cup {"cleanup"}) \ {"mkdir"}
               => job'[p].id \notin Recorded') => FreshOK'
        /\ (upset' = {} /\ job'[p].cmd = "deploy" /\ pc'[p] \in {"apply", "record", "commit"}
               => job'[p].id \in OnDisk' /\ sql'[job'[p].id] = job'[p].sql) => DeployOK'
    BY <2>e, Focus DEF InDev
  <2>1. AbsentOK'  BY <2>a
  <2>2. Alone'  BY <2>f
  <2>3. DevOK'  BY <2>a, <2>e, <2>f DEF DiskInv, DevOK, DevFacts, InDev, Generated, Written
  <2>4. FreshOK'  BY <2>a, <2>e, <2>f DEF DiskInv, FreshOK, InDev, Generated, Recorded
  <2>5. DeployOK'  BY <2>a, <2>e, <2>f DEF DiskInv, DeployOK, InDev
  <2>6. StaysOnDisk'  BY <2>a DEF DiskInv, StaysOnDisk
  <2>7. Linked'  BY <2>a
  <2> QED BY <2>1, <2>2, <2>3, <2>4, <2>5, <2>6, <2>7 DEF DiskInv
<1>3. ASSUME NEW p \in Procs, Apply(p) PROVE DiskInv'
  <2> USE <1>3 DEF Apply
  <2>a. /\ AbsentOK' /\ Linked' /\ OnDisk' = OnDisk
        /\ \A s : Previous(s)' = Previous(s)
    BY DiskKept
  <2>e. /\ pc'[p] = "record" /\ job'[p] = job[p]
        /\ \A q \in Procs : q # p => pc'[q] = pc[q] /\ job'[q] = job[q]
    BY DEF IInv, TypeOK, Goto
  <2>f. /\ Alone'
        /\ (upset' \subseteq {"lost"} /\ InDev(p)' => DevFacts(p)') => DevOK'
        /\ (upset' = {} /\ InDev(p)' /\ pc'[p] \in (Generated \cup {"cleanup"}) \ {"mkdir"}
               => job'[p].id \notin Recorded') => FreshOK'
        /\ (upset' = {} /\ job'[p].cmd = "deploy" /\ pc'[p] \in {"apply", "record", "commit"}
               => job'[p].id \in OnDisk' /\ sql'[job'[p].id] = job'[p].sql) => DeployOK'
    BY <2>e, Focus DEF InDev
  <2>1. AbsentOK'  BY <2>a
  <2>2. Alone'  BY <2>f
  <2>3. DevOK'  BY <2>a, <2>e, <2>f DEF DiskInv, DevOK, DevFacts, InDev, Generated, Written
  <2>4. FreshOK'  BY <2>a, <2>e, <2>f DEF DiskInv, FreshOK, InDev, Generated, Recorded
  <2>5. DeployOK'  BY <2>a, <2>e, <2>f DEF DiskInv, DeployOK, InDev
  <2>6. StaysOnDisk'  BY <2>a DEF DiskInv, StaysOnDisk
  <2>7. Linked'  BY <2>a
  <2> QED BY <2>1, <2>2, <2>3, <2>4, <2>5, <2>6, <2>7 DEF DiskInv
<1>4. ASSUME NEW p \in Procs, Record(p) PROVE DiskInv'
  <2> USE <1>4 DEF Record
  <2>a. /\ AbsentOK' /\ Linked' /\ OnDisk' = OnDisk
        /\ \A s : Previous(s)' = Previous(s)
    BY DiskKept
  <2>e. /\ pc'[p] = "commit" /\ job'[p] = job[p]
        /\ \A q \in Procs : q # p => pc'[q] = pc[q] /\ job'[q] = job[q]
    BY DEF IInv, TypeOK, Goto
  <2>f. /\ Alone'
        /\ (upset' \subseteq {"lost"} /\ InDev(p)' => DevFacts(p)') => DevOK'
        /\ (upset' = {} /\ InDev(p)' /\ pc'[p] \in (Generated \cup {"cleanup"}) \ {"mkdir"}
               => job'[p].id \notin Recorded') => FreshOK'
        /\ (upset' = {} /\ job'[p].cmd = "deploy" /\ pc'[p] \in {"apply", "record", "commit"}
               => job'[p].id \in OnDisk' /\ sql'[job'[p].id] = job'[p].sql) => DeployOK'
    BY <2>e, Focus DEF InDev
  <2>1. AbsentOK'  BY <2>a
  <2>2. Alone'  BY <2>f
  <2>3. DevOK'  BY <2>a, <2>e, <2>f DEF DiskInv, DevOK, DevFacts, InDev, Generated, Written
  <2>4. FreshOK'  BY <2>a, <2>e, <2>f DEF DiskInv, FreshOK, InDev, Generated, Recorded
  <2>5. DeployOK'  BY <2>a, <2>e, <2>f DEF DiskInv, DeployOK, InDev
  <2>6. StaysOnDisk'  BY <2>a DEF DiskInv, StaysOnDisk
  <2>7. Linked'  BY <2>a
  <2> QED BY <2>1, <2>2, <2>3, <2>4, <2>5, <2>6, <2>7 DEF DiskInv
<1>5. ASSUME NEW p \in Procs, ReadApplied(p) PROVE DiskInv'
  <2> USE <1>5 DEF ReadApplied
  <2>a. /\ AbsentOK' /\ Linked' /\ OnDisk' = OnDisk
        /\ \A s : Previous(s)' = Previous(s)
    BY DiskKept
  <2>e. /\ pc'[p] = "discover" /\ job'[p].cmd = job[p].cmd
        /\ \A q \in Procs : q # p => pc'[q] = pc[q] /\ job'[q] = job[q]
    BY DEF IInv, TypeOK, Job, Goto, Set
  <2>f. /\ Alone'
        /\ (upset' \subseteq {"lost"} /\ InDev(p)' => DevFacts(p)') => DevOK'
        /\ (upset' = {} /\ InDev(p)' /\ pc'[p] \in (Generated \cup {"cleanup"}) \ {"mkdir"}
               => job'[p].id \notin Recorded') => FreshOK'
        /\ (upset' = {} /\ job'[p].cmd = "deploy" /\ pc'[p] \in {"apply", "record", "commit"}
               => job'[p].id \in OnDisk' /\ sql'[job'[p].id] = job'[p].sql) => DeployOK'
    BY <2>e, Focus DEF InDev
  <2>1. AbsentOK'  BY <2>a
  <2>2. Alone'  BY <2>f
  <2>3. DevOK'  BY <2>a, <2>e, <2>f DEF DiskInv, DevOK, DevFacts, InDev, Generated, Written
  <2>4. FreshOK'  BY <2>a, <2>e, <2>f DEF DiskInv, FreshOK, InDev, Generated, Recorded
  <2>5. DeployOK'  BY <2>a, <2>e, <2>f DEF DiskInv, DeployOK, InDev
  <2>6. StaysOnDisk'  BY <2>a DEF DiskInv, StaysOnDisk
  <2>7. Linked'  BY <2>a
  <2> QED BY <2>1, <2>2, <2>3, <2>4, <2>5, <2>6, <2>7 DEF DiskInv
<1>6. ASSUME NEW p \in Procs, SkipBlank(p) PROVE DiskInv'
  <2> USE <1>6 DEF SkipBlank
  <2>a. /\ AbsentOK' /\ Linked' /\ OnDisk' = OnDisk
        /\ \A s : Previous(s)' = Previous(s)
    BY DiskKept
  <2>b. PICK i \in First(job[p].todo) :
          job' = [job EXCEPT ![p] = [job[p] EXCEPT !.todo = @ \ {i}, !.blank = @ \cup {i}]]
    BY DEF Set
  <2>e. /\ pc'[p] = "next" /\ job'[p].cmd = job[p].cmd /\ ~InDev(p)
        /\ \A q \in Procs : q # p => pc'[q] = pc[q] /\ job'[q] = job[q]
    BY <2>b DEF IInv, TypeOK, Job, CmdOK, DevAt, InDev
  <2>f. /\ Alone'
        /\ (upset' \subseteq {"lost"} /\ InDev(p)' => DevFacts(p)') => DevOK'
        /\ (upset' = {} /\ InDev(p)' /\ pc'[p] \in (Generated \cup {"cleanup"}) \ {"mkdir"}
               => job'[p].id \notin Recorded') => FreshOK'
        /\ (upset' = {} /\ job'[p].cmd = "deploy" /\ pc'[p] \in {"apply", "record", "commit"}
               => job'[p].id \in OnDisk' /\ sql'[job'[p].id] = job'[p].sql) => DeployOK'
    BY <2>e, Focus DEF InDev
  <2>1. AbsentOK'  BY <2>a
  <2>2. Alone'  BY <2>f
  <2>3. DevOK'  BY <2>a, <2>e, <2>f DEF DiskInv, DevOK, DevFacts, InDev, Generated, Written
  <2>4. FreshOK'  BY <2>a, <2>e, <2>f DEF DiskInv, FreshOK, InDev, Generated, Recorded
  <2>5. DeployOK'  BY <2>a, <2>e, <2>f DEF DiskInv, DeployOK, InDev
  <2>6. StaysOnDisk'  BY <2>a DEF DiskInv, StaysOnDisk
  <2>7. Linked'  BY <2>a
  <2> QED BY <2>1, <2>2, <2>3, <2>4, <2>5, <2>6, <2>7 DEF DiskInv
<1>7. ASSUME NEW p \in Procs, ReadSql(p) PROVE DiskInv'
  <2> USE <1>7 DEF ReadSql
  <2>a. /\ AbsentOK' /\ Linked' /\ OnDisk' = OnDisk
        /\ \A s : Previous(s)' = Previous(s)
    BY DiskKept
  <2>b. PICK i \in First(job[p].todo) :
          /\ sql[i] \notin {Absent, Blank}
          /\ job' = [job EXCEPT ![p] = [job[p] EXCEPT !.todo = @ \ {i}, !.id = i, !.sql = sql[i]]]
    BY DEF Set
  <2>e. /\ pc'[p] = "apply" /\ job'[p].cmd = job[p].cmd /\ ~InDev(p)
        /\ job'[p].id = i /\ job'[p].sql = sql[i] /\ i \in Ids
        /\ \A q \in Procs : q # p => pc'[q] = pc[q] /\ job'[q] = job[q]
    BY <2>b DEF IInv, TypeOK, Job, Goto, First, CmdOK, DevAt, InDev
  <2>f. /\ Alone'
        /\ (upset' \subseteq {"lost"} /\ InDev(p)' => DevFacts(p)') => DevOK'
        /\ (upset' = {} /\ InDev(p)' /\ pc'[p] \in (Generated \cup {"cleanup"}) \ {"mkdir"}
               => job'[p].id \notin Recorded') => FreshOK'
        /\ (upset' = {} /\ job'[p].cmd = "deploy" /\ pc'[p] \in {"apply", "record", "commit"}
               => job'[p].id \in OnDisk' /\ sql'[job'[p].id] = job'[p].sql) => DeployOK'
    BY <2>e, Focus DEF InDev
  <2>1. AbsentOK'  BY <2>a
  <2>2. Alone'  BY <2>f
  <2>3. DevOK'  BY <2>a, <2>e, <2>f DEF DiskInv, DevOK, DevFacts, InDev, Generated, Written
  <2>4. FreshOK'  BY <2>a, <2>e, <2>f DEF DiskInv, FreshOK, InDev, Generated, Recorded
  <2>5. DeployOK'  
    <3>1. i \in OnDisk  BY <2>b, <2>e DEF DiskInv, AbsentOK, OnDisk
    <3> QED BY <2>a, <2>e, <2>f, <3>1
  <2>6. StaysOnDisk'  BY <2>a DEF DiskInv, StaysOnDisk
  <2>7. Linked'  BY <2>a
  <2> QED BY <2>1, <2>2, <2>3, <2>4, <2>5, <2>6, <2>7 DEF DiskInv
<1>8. ASSUME NEW p \in Procs, Finish(p) PROVE DiskInv'
  <2> USE <1>8 DEF Finish
  <2>a. /\ AbsentOK' /\ Linked' /\ OnDisk' = OnDisk
        /\ \A s : Previous(s)' = Previous(s)
    BY DiskKept
  <2>e. /\ pc'[p] = "idle" /\ job'[p].cmd = "none"
        /\ \A q \in Procs : q # p => pc'[q] = pc[q] /\ job'[q] = job[q]
    BY DEF IInv, TypeOK, Succeed, Goto, Set, NoJob
  <2>f. /\ Alone'
        /\ (upset' \subseteq {"lost"} /\ InDev(p)' => DevFacts(p)') => DevOK'
        /\ (upset' = {} /\ InDev(p)' /\ pc'[p] \in (Generated \cup {"cleanup"}) \ {"mkdir"}
               => job'[p].id \notin Recorded') => FreshOK'
        /\ (upset' = {} /\ job'[p].cmd = "deploy" /\ pc'[p] \in {"apply", "record", "commit"}
               => job'[p].id \in OnDisk' /\ sql'[job'[p].id] = job'[p].sql) => DeployOK'
    BY <2>e, Focus DEF InDev
  <2>1. AbsentOK'  BY <2>a
  <2>2. Alone'  BY <2>f
  <2>3. DevOK'  BY <2>a, <2>e, <2>f DEF DiskInv, DevOK, DevFacts, InDev, Generated, Written
  <2>4. FreshOK'  BY <2>a, <2>e, <2>f DEF DiskInv, FreshOK, InDev, Generated, Recorded
  <2>5. DeployOK'  BY <2>a, <2>e, <2>f DEF DiskInv, DeployOK, InDev
  <2>6. StaysOnDisk'  BY <2>a DEF DiskInv, StaysOnDisk
  <2>7. Linked'  BY <2>a
  <2> QED BY <2>1, <2>2, <2>3, <2>4, <2>5, <2>6, <2>7 DEF DiskInv
<1>9. ASSUME NEW p \in Procs, ReadSchema(p) PROVE DiskInv'
  <2> USE <1>9 DEF ReadSchema
  <2>a. /\ AbsentOK' /\ Linked' /\ OnDisk' = OnDisk
        /\ \A s : Previous(s)' = Previous(s)
    BY DiskKept
  <2>e. /\ pc'[p] = "discover" /\ job'[p].cmd = job[p].cmd
        /\ \A q \in Procs : q # p => pc'[q] = pc[q] /\ job'[q] = job[q]
    BY DEF IInv, TypeOK, Job, Goto, Set
  <2>f. /\ Alone'
        /\ (upset' \subseteq {"lost"} /\ InDev(p)' => DevFacts(p)') => DevOK'
        /\ (upset' = {} /\ InDev(p)' /\ pc'[p] \in (Generated \cup {"cleanup"}) \ {"mkdir"}
               => job'[p].id \notin Recorded') => FreshOK'
        /\ (upset' = {} /\ job'[p].cmd = "deploy" /\ pc'[p] \in {"apply", "record", "commit"}
               => job'[p].id \in OnDisk' /\ sql'[job'[p].id] = job'[p].sql) => DeployOK'
    BY <2>e, Focus DEF InDev
  <2>1. AbsentOK'  BY <2>a
  <2>2. Alone'  BY <2>f
  <2>3. DevOK'  BY <2>a, <2>e, <2>f DEF DiskInv, DevOK, DevFacts, InDev, Generated, Written
  <2>4. FreshOK'  BY <2>a, <2>e, <2>f DEF DiskInv, FreshOK, InDev, Generated, Recorded
  <2>5. DeployOK'  BY <2>a, <2>e, <2>f DEF DiskInv, DeployOK, InDev
  <2>6. StaysOnDisk'  BY <2>a DEF DiskInv, StaysOnDisk
  <2>7. Linked'  BY <2>a
  <2> QED BY <2>1, <2>2, <2>3, <2>4, <2>5, <2>6, <2>7 DEF DiskInv
<1>10. ASSUME NEW p \in Procs, NoChanges(p) PROVE DiskInv'
  <2> USE <1>10 DEF NoChanges
  <2>a. /\ AbsentOK' /\ Linked' /\ OnDisk' = OnDisk
        /\ \A s : Previous(s)' = Previous(s)
    BY DiskKept
  <2>e. /\ pc'[p] = "idle" /\ job'[p].cmd = "none"
        /\ \A q \in Procs : q # p => pc'[q] = pc[q] /\ job'[q] = job[q]
    BY DEF IInv, TypeOK, Succeed, Goto, Set, NoJob
  <2>f. /\ Alone'
        /\ (upset' \subseteq {"lost"} /\ InDev(p)' => DevFacts(p)') => DevOK'
        /\ (upset' = {} /\ InDev(p)' /\ pc'[p] \in (Generated \cup {"cleanup"}) \ {"mkdir"}
               => job'[p].id \notin Recorded') => FreshOK'
        /\ (upset' = {} /\ job'[p].cmd = "deploy" /\ pc'[p] \in {"apply", "record", "commit"}
               => job'[p].id \in OnDisk' /\ sql'[job'[p].id] = job'[p].sql) => DeployOK'
    BY <2>e, Focus DEF InDev
  <2>1. AbsentOK'  BY <2>a
  <2>2. Alone'  BY <2>f
  <2>3. DevOK'  BY <2>a, <2>e, <2>f DEF DiskInv, DevOK, DevFacts, InDev, Generated, Written
  <2>4. FreshOK'  BY <2>a, <2>e, <2>f DEF DiskInv, FreshOK, InDev, Generated, Recorded
  <2>5. DeployOK'  BY <2>a, <2>e, <2>f DEF DiskInv, DeployOK, InDev
  <2>6. StaysOnDisk'  BY <2>a DEF DiskInv, StaysOnDisk
  <2>7. Linked'  BY <2>a
  <2> QED BY <2>1, <2>2, <2>3, <2>4, <2>5, <2>6, <2>7 DEF DiskInv
<1>11. ASSUME NEW p \in Procs, LoadSnapshot(p) PROVE DiskInv'
  <2> USE <1>11 DEF LoadSnapshot
  <2>a. /\ AbsentOK' /\ Linked' /\ OnDisk' = OnDisk
        /\ \A s : Previous(s)' = Previous(s)
    BY DiskKept
  <2>b. PICK s \in Previous(job[p].found) \ {job[p].target} :
          job' = [job EXCEPT ![p] = [job[p] EXCEPT !.sql = [from |-> s, to |-> job[p].target]]]
    BY DEF Set
  <2>c. s \in Schemas  BY <2>b, PreviousSchema DEF IInv
  <2>e. /\ pc'[p] = "mkdir" /\ job'[p].cmd = job[p].cmd
        /\ job'[p].target = job[p].target /\ job[p].target \in Schemas
        /\ job'[p].sql = [from |-> s, to |-> job[p].target]
        /\ \A q \in Procs : q # p => pc'[q] = pc[q] /\ job'[q] = job[q]
    BY <2>b DEF IInv, TypeOK, Job, Goto
  <2>f. /\ Alone'
        /\ (upset' \subseteq {"lost"} /\ InDev(p)' => DevFacts(p)') => DevOK'
        /\ (upset' = {} /\ InDev(p)' /\ pc'[p] \in (Generated \cup {"cleanup"}) \ {"mkdir"}
               => job'[p].id \notin Recorded') => FreshOK'
        /\ (upset' = {} /\ job'[p].cmd = "deploy" /\ pc'[p] \in {"apply", "record", "commit"}
               => job'[p].id \in OnDisk' /\ sql'[job'[p].id] = job'[p].sql) => DeployOK'
    BY <2>e, Focus DEF InDev
  <2>1. AbsentOK'  BY <2>a
  <2>2. Alone'  BY <2>f
  <2>3. DevOK'  
    <3>1. job'[p].sql \in Migrations /\ job'[p].sql.from = s /\ job'[p].sql.to = job'[p].target
      BY <2>b, <2>c, <2>e DEF Migrations
    <3>2. ASSUME upset' \subseteq {"lost"}, InDev(p)' PROVE s \in Previous(OnDisk)
      BY <2>b, <2>e, <3>2 DEF DiskInv, DevOK, DevFacts, InDev
    <3> QED BY <2>a, <2>e, <2>f, <3>1, <3>2 DEF DevFacts, Generated, Written
  <2>4. FreshOK'  BY <2>a, <2>e, <2>f DEF DiskInv, FreshOK, InDev, Generated, Recorded
  <2>5. DeployOK'  BY <2>a, <2>e, <2>f DEF DiskInv, DeployOK, InDev
  <2>6. StaysOnDisk'  BY <2>a DEF DiskInv, StaysOnDisk
  <2>7. Linked'  BY <2>a
  <2> QED BY <2>1, <2>2, <2>3, <2>4, <2>5, <2>6, <2>7 DEF DiskInv
<1>12. ASSUME NEW p \in Procs, CreateSql(p) PROVE DiskInv'
  <2> USE <1>12 DEF CreateSql
  <2>g. job[p].cmd = "dev" /\ job[p] \in Job /\ job[p].id \in Ids
    BY DEF IInv, TypeOK, CmdOK, DeployAt, Job
  <2>h. upset \subseteq {"lost"} => DevFacts(p)  BY <2>g DEF DiskInv, DevOK, InDev
  <2>i. upset = {} /\ pc[p] # "mkdir" => job[p].id \notin Recorded
    BY <2>g DEF DiskInv, FreshOK, InDev, Generated
  <2>e. /\ pc'[p] = "fill" /\ job'[p] = job[p]
        /\ job'[p].cmd = "dev" /\ Recorded' = Recorded
        /\ \A q \in Procs : q # p => pc'[q] = pc[q] /\ job'[q] = job[q]
    BY <2>g DEF IInv, TypeOK, Goto, Recorded
  <2>f. /\ Alone'
        /\ (upset' \subseteq {"lost"} /\ InDev(p)' => DevFacts(p)') => DevOK'
        /\ (upset' = {} /\ InDev(p)' /\ pc'[p] \in (Generated \cup {"cleanup"}) \ {"mkdir"}
               => job'[p].id \notin Recorded') => FreshOK'
        /\ (upset' = {} /\ job'[p].cmd = "deploy" /\ pc'[p] \in {"apply", "record", "commit"}
               => job'[p].id \in OnDisk' /\ sql'[job'[p].id] = job'[p].sql) => DeployOK'
    BY <2>e, <2>g, Focus DEF InDev
  <2>1. AbsentOK'  BY <2>g DEF DiskInv, AbsentOK, IInv, TypeOK
  <2>2. Alone'  BY <2>f
  <2>3. DevOK'  
    <3>1. OnDisk' \ {job[p].id} = OnDisk \ {job[p].id}  BY <2>g DEF OnDisk, IInv, TypeOK
    <3>2. \A s : Previous(s)' = Previous(s)  BY DEF Previous
    <3> QED BY <2>e, <2>f, <2>g, <2>h, <3>1, <3>2
            DEF DevFacts, Generated, Written, IInv, TypeOK
  <2>4. FreshOK'  BY <2>e, <2>f, <2>i
  <2>5. DeployOK'  BY <2>e, <2>f DEF InDev
  <2>6. StaysOnDisk'  BY <2>g, <2>i, RecordedStays DEF IInv, TypeOK
  <2>7. Linked'  
    <3>1. CASE upset \subseteq {"lost"}
      BY <2>g, <2>h, <3>1, NewestChanges DEF DevFacts, Generated, Written, IInv, TypeOK
    <3>2. CASE ~(upset \subseteq {"lost"})  BY <3>2 DEF Linked
    <3> QED BY <3>1, <3>2
  <2> QED BY <2>1, <2>2, <2>3, <2>4, <2>5, <2>6, <2>7 DEF DiskInv
<1>13. ASSUME NEW p \in Procs, FillSql(p) PROVE DiskInv'
  <2> USE <1>13 DEF FillSql
  <2>g. job[p].cmd = "dev" /\ job[p] \in Job /\ job[p].id \in Ids
    BY DEF IInv, TypeOK, CmdOK, DeployAt, Job
  <2>h. upset \subseteq {"lost"} => DevFacts(p)  BY <2>g DEF DiskInv, DevOK, InDev
  <2>i. upset = {} /\ pc[p] # "mkdir" => job[p].id \notin Recorded
    BY <2>g DEF DiskInv, FreshOK, InDev, Generated
  <2>e. /\ pc'[p] = "snapshot" /\ job'[p] = job[p]
        /\ job'[p].cmd = "dev" /\ Recorded' = Recorded
        /\ \A q \in Procs : q # p => pc'[q] = pc[q] /\ job'[q] = job[q]
    BY <2>g DEF IInv, TypeOK, Goto, Recorded
  <2>f. /\ Alone'
        /\ (upset' \subseteq {"lost"} /\ InDev(p)' => DevFacts(p)') => DevOK'
        /\ (upset' = {} /\ InDev(p)' /\ pc'[p] \in (Generated \cup {"cleanup"}) \ {"mkdir"}
               => job'[p].id \notin Recorded') => FreshOK'
        /\ (upset' = {} /\ job'[p].cmd = "deploy" /\ pc'[p] \in {"apply", "record", "commit"}
               => job'[p].id \in OnDisk' /\ sql'[job'[p].id] = job'[p].sql) => DeployOK'
    BY <2>e, <2>g, Focus DEF InDev
  <2>1. AbsentOK'  BY <2>g DEF DiskInv, AbsentOK, IInv, TypeOK
  <2>2. Alone'  BY <2>f
  <2>3. DevOK'  BY <2>e, <2>f, <2>g, <2>h DEF DevFacts, Generated, Written, OnDisk, IInv, TypeOK
  <2>4. FreshOK'  BY <2>e, <2>f, <2>i
  <2>5. DeployOK'  BY <2>e, <2>f DEF InDev
  <2>6. StaysOnDisk'  BY <2>g, <2>i, RecordedStays DEF IInv, TypeOK
  <2>7. Linked'  
    <3>1. CASE upset \subseteq {"lost"}
      BY <2>g, <2>h, <3>1, NewestChanges DEF DevFacts, Generated, Written, IInv, TypeOK
    <3>2. CASE ~(upset \subseteq {"lost"})  BY <3>2 DEF Linked
    <3> QED BY <3>1, <3>2
  <2> QED BY <2>1, <2>2, <2>3, <2>4, <2>5, <2>6, <2>7 DEF DiskInv
<1>14. ASSUME NEW p \in Procs, FillFails(p) PROVE DiskInv'
  <2> USE <1>14 DEF FillFails, Fail
  <2>g. job[p].cmd = "dev" /\ job[p] \in Job /\ job[p].id \in Ids
    BY DEF IInv, TypeOK, CmdOK, DeployAt, Job
  <2>h. upset \subseteq {"lost"} => DevFacts(p)  BY <2>g DEF DiskInv, DevOK, InDev
  <2>i. upset = {} /\ pc[p] # "mkdir" => job[p].id \notin Recorded
    BY <2>g DEF DiskInv, FreshOK, InDev, Generated
  <2>e. /\ pc'[p] = "idle" /\ job'[p].cmd = "none"
        /\ \A q \in Procs : q # p => pc'[q] = pc[q] /\ job'[q] = job[q]
    BY DEF IInv, TypeOK, Succeed, Goto, Set, NoJob
  <2>f. /\ Alone'
        /\ (upset' \subseteq {"lost"} /\ InDev(p)' => DevFacts(p)') => DevOK'
        /\ (upset' = {} /\ InDev(p)' /\ pc'[p] \in (Generated \cup {"cleanup"}) \ {"mkdir"}
               => job'[p].id \notin Recorded') => FreshOK'
        /\ (upset' = {} /\ job'[p].cmd = "deploy" /\ pc'[p] \in {"apply", "record", "commit"}
               => job'[p].id \in OnDisk' /\ sql'[job'[p].id] = job'[p].sql) => DeployOK'
    BY <2>e, <2>g, Focus DEF InDev
  <2>1. AbsentOK'  BY <2>g DEF DiskInv, AbsentOK, IInv, TypeOK, TornSql
  <2>2. Alone'  BY <2>f
  <2>3. DevOK'  BY <2>e, <2>f, <2>g, <2>h DEF DevFacts, Generated, Written, OnDisk, IInv, TypeOK
  <2>4. FreshOK'  BY <2>e, <2>f DEF InDev
  <2>5. DeployOK'  BY <2>e, <2>f DEF InDev
  <2>6. StaysOnDisk'  BY <2>g, <2>i, RecordedStays DEF TornSql, IInv, TypeOK
  <2>7. Linked'  
    <3>a. /\ sql' \in [Ids -> Files] /\ sql'[job[p].id] \notin Migrations
          /\ \A j \in Ids : j # job[p].id => sql'[j] = sql[j]
      BY <2>g DEF TornSql, IInv, TypeOK, Files
    <3>1. CASE upset \subseteq {"lost"}
      BY <2>g, <2>h, <3>1, <3>a, NewestChanges DEF DevFacts, Generated, Written, IInv, TypeOK
    <3>2. CASE ~(upset \subseteq {"lost"})  BY <3>2 DEF Linked
    <3> QED BY <3>1, <3>2
  <2> QED BY <2>1, <2>2, <2>3, <2>4, <2>5, <2>6, <2>7 DEF DiskInv
<1>15. ASSUME NEW p \in Procs, CreateSnapshot(p) PROVE DiskInv'
  <2> USE <1>15 DEF CreateSnapshot
  <2>g. job[p].cmd = "dev" /\ job[p] \in Job /\ job[p].id \in Ids
    BY DEF IInv, TypeOK, CmdOK, DeployAt, Job
  <2>h. upset \subseteq {"lost"} => DevFacts(p)  BY <2>g DEF DiskInv, DevOK, InDev
  <2>i. upset = {} /\ pc[p] # "mkdir" => job[p].id \notin Recorded
    BY <2>g DEF DiskInv, FreshOK, InDev, Generated
  <2>e. /\ pc'[p] = "fillSnapshot" /\ job'[p] = job[p]
        /\ job'[p].cmd = "dev" /\ Recorded' = Recorded
        /\ \A q \in Procs : q # p => pc'[q] = pc[q] /\ job'[q] = job[q]
    BY <2>g DEF IInv, TypeOK, Goto, Recorded
  <2>f. /\ Alone'
        /\ (upset' \subseteq {"lost"} /\ InDev(p)' => DevFacts(p)') => DevOK'
        /\ (upset' = {} /\ InDev(p)' /\ pc'[p] \in (Generated \cup {"cleanup"}) \ {"mkdir"}
               => job'[p].id \notin Recorded') => FreshOK'
        /\ (upset' = {} /\ job'[p].cmd = "deploy" /\ pc'[p] \in {"apply", "record", "commit"}
               => job'[p].id \in OnDisk' /\ sql'[job'[p].id] = job'[p].sql) => DeployOK'
    BY <2>e, <2>g, Focus DEF InDev
  <2>1. AbsentOK'  BY <2>g DEF DiskInv, AbsentOK, IInv, TypeOK
  <2>2. Alone'  BY <2>f
  <2>3. DevOK'  BY <2>e, <2>f, <2>g, <2>h DEF DevFacts, Generated, Written, OnDisk, IInv, TypeOK
  <2>4. FreshOK'  BY <2>e, <2>f, <2>i
  <2>5. DeployOK'  BY <2>e, <2>f DEF InDev
  <2>6. StaysOnDisk'  BY <2>g, <2>i, RecordedStays DEF IInv, TypeOK
  <2>7. Linked'  
    <3>1. CASE upset \subseteq {"lost"}
      BY <2>g, <2>h, <3>1, NewestChanges DEF DevFacts, Generated, Written, IInv, TypeOK
    <3>2. CASE ~(upset \subseteq {"lost"})  BY <3>2 DEF Linked
    <3> QED BY <3>1, <3>2
  <2> QED BY <2>1, <2>2, <2>3, <2>4, <2>5, <2>6, <2>7 DEF DiskInv
<1>16. ASSUME NEW p \in Procs, FillSnapshot(p) PROVE DiskInv'
  <2> USE <1>16 DEF FillSnapshot
  <2>g. job[p].cmd = "dev" /\ job[p] \in Job /\ job[p].id \in Ids
    BY DEF IInv, TypeOK, CmdOK, DeployAt, Job
  <2>h. upset \subseteq {"lost"} => DevFacts(p)  BY <2>g DEF DiskInv, DevOK, InDev
  <2>i. upset = {} /\ pc[p] # "mkdir" => job[p].id \notin Recorded
    BY <2>g DEF DiskInv, FreshOK, InDev, Generated
  <2>e. /\ pc'[p] = "apply" /\ job'[p] = job[p]
        /\ job'[p].cmd = "dev" /\ Recorded' = Recorded
        /\ \A q \in Procs : q # p => pc'[q] = pc[q] /\ job'[q] = job[q]
    BY <2>g DEF IInv, TypeOK, Goto, Recorded
  <2>f. /\ Alone'
        /\ (upset' \subseteq {"lost"} /\ InDev(p)' => DevFacts(p)') => DevOK'
        /\ (upset' = {} /\ InDev(p)' /\ pc'[p] \in (Generated \cup {"cleanup"}) \ {"mkdir"}
               => job'[p].id \notin Recorded') => FreshOK'
        /\ (upset' = {} /\ job'[p].cmd = "deploy" /\ pc'[p] \in {"apply", "record", "commit"}
               => job'[p].id \in OnDisk' /\ sql'[job'[p].id] = job'[p].sql) => DeployOK'
    BY <2>e, <2>g, Focus DEF InDev
  <2>1. AbsentOK'  BY <2>g DEF DiskInv, AbsentOK, IInv, TypeOK
  <2>2. Alone'  BY <2>f
  <2>3. DevOK'  BY <2>e, <2>f, <2>g, <2>h DEF DevFacts, Generated, Written, OnDisk, IInv, TypeOK
  <2>4. FreshOK'  BY <2>e, <2>f, <2>i
  <2>5. DeployOK'  BY <2>e, <2>f DEF InDev
  <2>6. StaysOnDisk'  BY <2>g, <2>i, RecordedStays DEF IInv, TypeOK
  <2>7. Linked'  
    <3>1. CASE upset \subseteq {"lost"}
      BY <2>g, <2>h, <3>1, NewestChanges DEF DevFacts, Generated, Written, IInv, TypeOK
    <3>2. CASE ~(upset \subseteq {"lost"})  BY <3>2 DEF Linked
    <3> QED BY <3>1, <3>2
  <2> QED BY <2>1, <2>2, <2>3, <2>4, <2>5, <2>6, <2>7 DEF DiskInv
<1>17. ASSUME NEW p \in Procs, RemoveAll(p) PROVE DiskInv'
  <2> USE <1>17 DEF RemoveAll, Fail
  <2>g. job[p].cmd = "dev" /\ job[p] \in Job /\ job[p].id \in Ids
    BY DEF IInv, TypeOK, CmdOK, DeployAt, Job
  <2>h. upset \subseteq {"lost"} => DevFacts(p)  BY <2>g DEF DiskInv, DevOK, InDev
  <2>i. upset = {} /\ pc[p] # "mkdir" => job[p].id \notin Recorded
    BY <2>g DEF DiskInv, FreshOK, InDev, Generated
  <2>e. /\ pc'[p] = "idle" /\ job'[p].cmd = "none"
        /\ \A q \in Procs : q # p => pc'[q] = pc[q] /\ job'[q] = job[q]
    BY DEF IInv, TypeOK, Succeed, Goto, Set, NoJob
  <2>f. /\ Alone'
        /\ (upset' \subseteq {"lost"} /\ InDev(p)' => DevFacts(p)') => DevOK'
        /\ (upset' = {} /\ InDev(p)' /\ pc'[p] \in (Generated \cup {"cleanup"}) \ {"mkdir"}
               => job'[p].id \notin Recorded') => FreshOK'
        /\ (upset' = {} /\ job'[p].cmd = "deploy" /\ pc'[p] \in {"apply", "record", "commit"}
               => job'[p].id \in OnDisk' /\ sql'[job'[p].id] = job'[p].sql) => DeployOK'
    BY <2>e, <2>g, Focus DEF InDev
  <2>1. AbsentOK'  BY <2>g DEF DiskInv, AbsentOK, IInv, TypeOK
  <2>2. Alone'  BY <2>f
  <2>3. DevOK'  BY <2>e, <2>f, <2>g, <2>h DEF DevFacts, Generated, Written, OnDisk, IInv, TypeOK
  <2>4. FreshOK'  BY <2>e, <2>f DEF InDev
  <2>5. DeployOK'  BY <2>e, <2>f DEF InDev
  <2>6. StaysOnDisk'  BY <2>g, <2>i, RecordedStays DEF IInv, TypeOK
  <2>7. Linked'  
    <3>1. CASE upset \subseteq {"lost"}
      BY <2>g, <2>h, <3>1, NewestChanges DEF DevFacts, Generated, Written, IInv, TypeOK
    <3>2. CASE ~(upset \subseteq {"lost"})  BY <3>2 DEF Linked
    <3> QED BY <3>1, <3>2
  <2> QED BY <2>1, <2>2, <2>3, <2>4, <2>5, <2>6, <2>7 DEF DiskInv
<1>18. ASSUME NEW p \in Procs, MakeDir(p) PROVE DiskInv'
  <2> USE <1>18 DEF MakeDir
  <2>g. job[p].cmd = "dev" /\ job[p] \in Job /\ job[p].id \in Ids
    BY DEF IInv, TypeOK, CmdOK, DeployAt, Job
  <2>h. upset \subseteq {"lost"} => DevFacts(p)  BY <2>g DEF DiskInv, DevOK, InDev
  <2>i. upset = {} /\ pc[p] # "mkdir" => job[p].id \notin Recorded
    BY <2>g DEF DiskInv, FreshOK, InDev, Generated
  <2>b. PICK i \in Ids :
          /\ job' = [job EXCEPT ![p] = [job[p] EXCEPT !.id = i]]
          /\ dir' = dir \cup {i}
          /\ upset' = IF \E j \in dir : i <= j THEN upset \cup {"order"} ELSE upset
    BY DEF Set
  <2>e. /\ pc'[p] = "create" /\ job'[p].cmd = "dev" /\ job'[p].id = i
        /\ job'[p].sql = job[p].sql /\ job'[p].target = job[p].target
        /\ \A q \in Procs : q # p => pc'[q] = pc[q] /\ job'[q] = job[q]
    BY <2>b, <2>g DEF IInv, TypeOK, Job, Goto
  <2>j. /\ OnDisk' = OnDisk /\ sql' = sql /\ snap' = snap /\ rows' = rows
        /\ \A s : Previous(s)' = Previous(s)
    <3>1. OnDisk' = OnDisk  BY <2>b DEF DiskInv, AbsentOK, OnDisk
    <3>2. \A s : Previous(s)' = Previous(s)  BY DEF Previous
    <3> QED BY <3>1, <3>2
  <2>k. ASSUME upset' \subseteq {"lost"}
        PROVE  upset = upset' /\ \A j \in dir : j < i /\ j # i
    <3>1. ~(\E j \in dir : i <= j)  BY <2>b, <2>k
    <3>2. dir \subseteq Nat /\ i \in Nat  BY DEF IInv, TypeOK
    <3>3. \A j \in dir : j < i  BY <3>1, <3>2
    <3>4. \A j \in dir : j # i  BY <3>1, <3>2
    <3> QED BY <2>b, <3>1, <3>3, <3>4
  <2>f. /\ Alone'
        /\ (upset' \subseteq {"lost"} /\ InDev(p)' => DevFacts(p)') => DevOK'
        /\ (upset' = {} /\ InDev(p)' /\ pc'[p] \in (Generated \cup {"cleanup"}) \ {"mkdir"}
               => job'[p].id \notin Recorded') => FreshOK'
        /\ (upset' = {} /\ job'[p].cmd = "deploy" /\ pc'[p] \in {"apply", "record", "commit"}
               => job'[p].id \in OnDisk' /\ sql'[job'[p].id] = job'[p].sql) => DeployOK'
    BY <2>e, <2>g, <2>b, Focus DEF InDev
  <2>1. AbsentOK'  BY <2>b DEF DiskInv, AbsentOK
  <2>2. Alone'  BY <2>f
  <2>3. DevOK'  
    <3>1. ASSUME upset' \subseteq {"lost"} PROVE DevFacts(p)'
      <4>1. i \notin dir /\ i \in dir'  BY <2>b, <2>k, <3>1
      <4>2. sql[i] = Absent /\ snap[i] = Absent  BY <4>1 DEF DiskInv, AbsentOK
      <4>3. OnDisk' \ {i} = OnDisk  BY <2>j, <4>1 DEF OnDisk
      <4>4. \A j \in dir' : j # i => j < i  BY <2>b, <2>k, <3>1
      <4>5. DevFacts(p)  BY <2>h, <2>k, <3>1
      <4> QED BY <2>e, <2>j, <4>1, <4>2, <4>3, <4>4, <4>5 DEF DevFacts, Generated, Written
    <3> QED BY <2>f, <3>1
  <2>4. FreshOK'  
    <3>1. ASSUME upset' = {} PROVE i \notin Recorded
      BY <2>k, <3>1 DEF DiskInv, StaysOnDisk, Recorded, OnDisk
    <3> QED BY <2>e, <2>f, <2>j, <3>1 DEF Recorded
  <2>5. DeployOK'  BY <2>e, <2>f
  <2>6. StaysOnDisk'  BY <2>b, <2>j DEF DiskInv, StaysOnDisk
  <2>7. Linked'  BY <2>b, <2>j DEF DiskInv, Linked, Before, Previously
  <2> QED BY <2>1, <2>2, <2>3, <2>4, <2>5, <2>6, <2>7 DEF DiskInv
<1>19. ASSUME NEW p \in Procs, Commit(p) PROVE DiskInv'
  <2> USE <1>19 DEF Commit
  <2>a. /\ AbsentOK' /\ Linked' /\ OnDisk' = OnDisk
        /\ \A s : Previous(s)' = Previous(s)
    BY DiskKept
  <2>b. /\ ThisRow(p) \in rows' /\ rows' = rows \cup {ThisRow(p)}
        /\ Recorded' = Recorded \cup {job[p].id}
    BY Commits DEF Committed
  <2>e. /\ pc'[p] \in {"idle", "next"}
        /\ job'[p].cmd = IF InDev(p) THEN "none" ELSE job[p].cmd
        /\ \A q \in Procs : q # p => pc'[q] = pc[q] /\ job'[q] = job[q]
    BY DEF IInv, TypeOK, Job, Goto, Set, DevDone, Succeed, NoJob, InDev
  <2>f. /\ Alone'
        /\ (upset' \subseteq {"lost"} /\ InDev(p)' => DevFacts(p)') => DevOK'
        /\ (upset' = {} /\ InDev(p)' /\ pc'[p] \in (Generated \cup {"cleanup"}) \ {"mkdir"}
               => job'[p].id \notin Recorded') => FreshOK'
        /\ (upset' = {} /\ job'[p].cmd = "deploy" /\ pc'[p] \in {"apply", "record", "commit"}
               => job'[p].id \in OnDisk' /\ sql'[job'[p].id] = job'[p].sql) => DeployOK'
    BY <2>e, Focus DEF InDev
  <2>1. AbsentOK'  BY <2>a
  <2>2. Alone'  BY <2>f
  <2>3. DevOK'  BY <2>e, <2>f DEF InDev
  <2>4. FreshOK'  BY <2>e, <2>f DEF InDev
  <2>5. DeployOK'  BY <2>e, <2>f
  <2>6. StaysOnDisk'  
    <3> SUFFICES ASSUME upset = {}
                 PROVE  \A row \in rows' : row.id \in OnDisk /\ sql[row.id] = row.sql
      BY <2>a DEF StaysOnDisk
    <3>1. job[p].id \in OnDisk /\ sql[job[p].id] = job[p].sql
      <4>1. CASE InDev(p)
        BY <4>1 DEF DiskInv, DevOK, DevFacts, Generated, Written, OnDisk
      <4>2. CASE ~InDev(p)
        BY <4>2 DEF DiskInv, DeployOK, IInv, TypeOK, Job, CmdOK, InDev
      <4> QED BY <4>1, <4>2
    <3> QED BY <2>b, <3>1 DEF DiskInv, StaysOnDisk, ThisRow
  <2>7. Linked'  BY <2>a
  <2> QED BY <2>1, <2>2, <2>3, <2>4, <2>5, <2>6, <2>7 DEF DiskInv
<1>20. ASSUME NEW p \in Procs, Error(p) PROVE DiskInv'
  <2> USE <1>20 DEF Error
  <2>a. /\ AbsentOK' /\ Linked' /\ OnDisk' = OnDisk
        /\ \A s : Previous(s)' = Previous(s)
    BY DiskKept
  <2>b. \/ pc'[p] = "idle" /\ job'[p].cmd = "none"
        \/ pc'[p] = "cleanup" /\ job'[p] = job[p] /\ Cleans(p)
    BY DEF GiveUp, Fail, Succeed, Goto, Set, NoJob, IInv, TypeOK
  <2>c. \A q \in Procs : q # p => pc'[q] = pc[q] /\ job'[q] = job[q]
    BY DEF GiveUp, Fail, Succeed, Goto, Set, IInv, TypeOK
  <2>f. /\ Alone'
        /\ (upset' \subseteq {"lost"} /\ InDev(p)' => DevFacts(p)') => DevOK'
        /\ (upset' = {} /\ InDev(p)' /\ pc'[p] \in (Generated \cup {"cleanup"}) \ {"mkdir"}
               => job'[p].id \notin Recorded') => FreshOK'
        /\ (upset' = {} /\ job'[p].cmd = "deploy" /\ pc'[p] \in {"apply", "record", "commit"}
               => job'[p].id \in OnDisk' /\ sql'[job'[p].id] = job'[p].sql) => DeployOK'
    BY <2>b, <2>c, Focus DEF InDev
  <2>1. AbsentOK'  BY <2>a
  <2>2. Alone'  BY <2>f
  <2>3. DevOK'  BY <2>a, <2>b, <2>f DEF DiskInv, DevOK, DevFacts, InDev, Generated, Written, Cleans
  <2>4. FreshOK'  BY <2>b, <2>f DEF DiskInv, FreshOK, InDev, Generated, Recorded, Cleans
  <2>5. DeployOK'  BY <2>b, <2>f DEF Cleans, InDev
  <2>6. StaysOnDisk'  BY <2>a DEF DiskInv, StaysOnDisk
  <2>7. Linked'  BY <2>a
  <2> QED BY <2>1, <2>2, <2>3, <2>4, <2>5, <2>6, <2>7 DEF DiskInv
<1>21. ASSUME NEW p \in Procs, CommitError(p) PROVE DiskInv'
  <2> USE <1>21 DEF CommitError
  <2>a. /\ AbsentOK' /\ Linked' /\ OnDisk' = OnDisk
        /\ \A s : Previous(s)' = Previous(s)
    BY DiskKept
  <2>b. \/ pc'[p] = "idle" /\ job'[p].cmd = "none"
        \/ pc'[p] = "cleanup" /\ job'[p] = job[p] /\ Cleans(p)
    BY DEF GiveUp, Fail, Succeed, Goto, Set, NoJob, IInv, TypeOK
  <2>c. \A q \in Procs : q # p => pc'[q] = pc[q] /\ job'[q] = job[q]
    BY DEF GiveUp, Fail, Succeed, Goto, Set, IInv, TypeOK
  <2>f. /\ Alone'
        /\ (upset' \subseteq {"lost"} /\ InDev(p)' => DevFacts(p)') => DevOK'
        /\ (upset' = {} /\ InDev(p)' /\ pc'[p] \in (Generated \cup {"cleanup"}) \ {"mkdir"}
               => job'[p].id \notin Recorded') => FreshOK'
        /\ (upset' = {} /\ job'[p].cmd = "deploy" /\ pc'[p] \in {"apply", "record", "commit"}
               => job'[p].id \in OnDisk' /\ sql'[job'[p].id] = job'[p].sql) => DeployOK'
    BY <2>b, <2>c, Focus DEF InDev
  <2>1. AbsentOK'  BY <2>a
  <2>2. Alone'  BY <2>f
  <2>3. DevOK'  BY <2>a, <2>b, <2>f DEF DiskInv, DevOK, DevFacts, InDev, Generated, Written, Cleans
  <2>4. FreshOK'  BY <2>b, <2>f DEF DiskInv, FreshOK, InDev, Generated, Recorded, Cleans
  <2>5. DeployOK'  BY <2>b, <2>f DEF Cleans, InDev
  <2>6. StaysOnDisk'  BY <2>a DEF DiskInv, StaysOnDisk
  <2>7. Linked'  BY <2>a
  <2> QED BY <2>1, <2>2, <2>3, <2>4, <2>5, <2>6, <2>7 DEF DiskInv
<1>22. ASSUME NEW p \in Procs, Crash(p) PROVE DiskInv'
  <2> USE <1>22 DEF Crash, Fail
  <2>e. /\ pc'[p] = "idle" /\ job'[p].cmd = "none"
        /\ \A q \in Procs : q # p => pc'[q] = pc[q] /\ job'[q] = job[q]
    BY DEF IInv, TypeOK, Succeed, Goto, Set, NoJob
  <2>g. job[p].id \in Ids /\ upset' = upset  BY DEF IInv, TypeOK, Job
  <2>h. InDev(p) /\ upset \subseteq {"lost"} => DevFacts(p)  BY DEF DiskInv, DevOK
  <2>i. upset = {} /\ InDev(p) /\ pc[p] \in (Generated \cup {"cleanup"}) \ {"mkdir"}
            => job[p].id \notin Recorded
    BY DEF DiskInv, FreshOK
  <2>j. pc[p] \in {"fill", "fillSnapshot", "cleanup"} => InDev(p)
    BY DEF IInv, TypeOK, Job, CmdOK, DeployAt, InDev
  <2>k. \/ UNCHANGED <<disk, base>>
        \/ pc[p] = "commit" /\ Committed(p) /\ UNCHANGED disk
        \/ /\ pc[p] \in {"fill", "fillSnapshot", "cleanup"}
           /\ dir' = dir /\ UNCHANGED base
           /\ \A j \in Ids : j # job[p].id => sql'[j] = sql[j] /\ snap'[j] = snap[j]
           /\ sql'[job[p].id] \in {sql[job[p].id], Blank, Torn, Absent}
           /\ snap'[job[p].id] \in {snap[job[p].id], Empty, Torn, Absent}
           /\ sql[job[p].id] = Absent => sql'[job[p].id] = Absent
           /\ snap[job[p].id] = Absent => snap'[job[p].id] = Absent
    BY <2>g DEF CrashLeaves, TornSql, IInv, TypeOK
  <2>f. /\ Alone'
        /\ (upset' \subseteq {"lost"} /\ InDev(p)' => DevFacts(p)') => DevOK'
        /\ (upset' = {} /\ InDev(p)' /\ pc'[p] \in (Generated \cup {"cleanup"}) \ {"mkdir"}
               => job'[p].id \notin Recorded') => FreshOK'
        /\ (upset' = {} /\ job'[p].cmd = "deploy" /\ pc'[p] \in {"apply", "record", "commit"}
               => job'[p].id \in OnDisk' /\ sql'[job'[p].id] = job'[p].sql) => DeployOK'
    BY <2>e, <2>g, <2>j, <2>k, Focus DEF InDev
  <2>1. AbsentOK'  BY <2>k DEF DiskInv, AbsentOK
  <2>2. Alone'  BY <2>f
  <2>3. DevOK'  BY <2>e, <2>f DEF InDev
  <2>4. FreshOK'  BY <2>e, <2>f DEF InDev
  <2>5. DeployOK'  BY <2>e, <2>f
  <2>6. StaysOnDisk'  
    <3>1. CASE UNCHANGED <<disk, base>>
      BY <2>g, <3>1 DEF DiskInv, StaysOnDisk, OnDisk
    <3>2. CASE pc[p] = "commit" /\ Committed(p) /\ UNCHANGED disk
      <4> SUFFICES ASSUME upset = {}
                   PROVE  \A row \in rows' : row.id \in OnDisk' /\ sql'[row.id] = row.sql
        BY <2>g DEF StaysOnDisk
      <4>1. job[p].id \in OnDisk /\ sql[job[p].id] = job[p].sql
        <5>1. CASE InDev(p)
          BY <2>h, <3>2, <5>1 DEF DevFacts, Generated, Written, OnDisk
        <5>2. CASE ~InDev(p)
          BY <3>2, <5>2 DEF DiskInv, DeployOK, IInv, CmdOK, InDev, TypeOK, Job
        <5> QED BY <5>1, <5>2
      <4>2. rows' = rows \cup {ThisRow(p)}  BY <3>2 DEF Committed
      <4> QED BY <3>2, <4>1, <4>2 DEF DiskInv, StaysOnDisk, ThisRow, OnDisk
    <3>3. CASE /\ pc[p] \in {"fill", "fillSnapshot", "cleanup"}
               /\ dir' = dir /\ UNCHANGED base
               /\ \A j \in Ids : j # job[p].id => sql'[j] = sql[j] /\ snap'[j] = snap[j]
      <4>1. upset = {} => job[p].id \notin Recorded  BY <2>i, <2>j, <3>3 DEF Generated
      <4>2. dir \subseteq Ids  BY DEF IInv, TypeOK
      <4> QED BY <2>g, <3>3, <4>1, <4>2, RecordedStays
    <3> QED BY <2>k, <3>1, <3>2, <3>3
  <2>7. Linked'  
    <3>1. CASE UNCHANGED disk
      BY <2>g, <3>1 DEF DiskInv, Linked, Before, Previously, OnDisk
    <3>2. CASE ~(upset \subseteq {"lost"})  BY <2>g, <3>2 DEF Linked
    <3>3. CASE /\ upset \subseteq {"lost"} /\ pc[p] \in {"fill", "fillSnapshot", "cleanup"}
               /\ dir' = dir
               /\ \A j \in Ids : j # job[p].id => sql'[j] = sql[j] /\ snap'[j] = snap[j]
               /\ sql'[job[p].id] \in {sql[job[p].id], Blank, Torn, Absent}
               /\ snap'[job[p].id] \in {snap[job[p].id], Empty, Torn, Absent}
      <4> DEFINE d == job[p].id
      <4>1. dir \subseteq Ids  BY DEF IInv, TypeOK
      <4>2. d \in dir /\ \A j \in dir : j # d => j < d
        BY <2>h, <2>j, <3>3 DEF DevFacts, Generated
      <4>3. ASSUME sql'[d] \in Migrations
            PROVE  sql'[d] = sql[d] /\ snap'[d] \in {sql'[d].to, Empty, Torn, Absent}
        <5>1. sql'[d] = sql[d]  BY <3>3, <4>3
        <5>2. snap[d] \in {sql[d].to, Empty, Torn, Absent}
          BY <3>3, <4>2, <4>3, <5>1 DEF DiskInv, Linked, OnDisk
        <5> QED BY <3>3, <5>1, <5>2
      <4> HIDE DEF d
      <4> QED BY <2>g, <3>3, <4>1, <4>2, <4>3, NewestChanges DEF d
    <3> QED BY <2>k, <3>1, <3>2, <3>3
  <2> QED BY <2>1, <2>2, <2>3, <2>4, <2>5, <2>6, <2>7 DEF DiskInv
<1>23. ASSUME UNCHANGED vars PROVE DiskInv'
  <2> USE <1>23
  <2>a. /\ AbsentOK' /\ Linked' /\ OnDisk' = OnDisk
        /\ \A s : Previous(s)' = Previous(s)
    BY DiskKept
  <2>1. Alone'  BY DEF DiskInv, Alone, InDev
  <2>2. DevOK'  BY <2>a DEF DiskInv, DevOK, DevFacts, InDev
  <2>3. FreshOK' /\ DeployOK' /\ StaysOnDisk'
    BY <2>a DEF DiskInv, FreshOK, DeployOK, StaysOnDisk, InDev, Recorded
  <2> QED BY <2>a, <2>1, <2>2, <2>3 DEF DiskInv
<1> QED
  BY <1>1, <1>2, <1>3, <1>4, <1>5, <1>6, <1>7, <1>8, <1>9, <1>10, <1>11, <1>12, <1>13, <1>14,
     <1>15, <1>16, <1>17, <1>18, <1>19, <1>20, <1>21, <1>22, <1>23
  DEF Next, Deploy, CreateDevMigration, Transaction

\* Both invariants hold in every reachable state.
THEOREM DiskInvariant == Spec => [](IInv /\ DiskInv)
<1>1. Init => IInv /\ DiskInv
  BY Initial, DiskInitial
<1>2. IInv /\ DiskInv /\ [Next]_vars => (IInv /\ DiskInv)'
  BY Inductive, DiskInductive
<1> QED BY <1>1, <1>2, PTL DEF Spec

\* No failure and no crash loses a recorded migration from disk.
THEOREM StaysRecorded == Spec => []StaysOnDisk
<1>1. IInv /\ DiskInv => StaysOnDisk
  BY DEF DiskInv
<1> QED BY <1>1, DiskInvariant, PTL

\* The migrations on disk start where the one before them ends, as long as files
\* are whole: then the newest directory before one is that of the newest snapshot.
THEOREM Replayable == Spec => []Chained
<1>1. IInv /\ DiskInv => Chained
  <2> SUFFICES ASSUME IInv, DiskInv, upset \subseteq {"lost"},
                      NEW j \in OnDisk, sql[j] \in Migrations,
                      \A i \in Previously(j) : Whole(i),
                      NEW i \in Previously(j), \A k \in Previously(j) : k <= i
               PROVE  sql[j].from = sql[i].to
    BY DEF DiskInv, Linked, Chained
  <2>1. Before(j) = Previously(j)
    <3>1. \A m \in Migrations : m.to # Absent  BY DEF Migrations
    <3> QED BY <3>1 DEF Before, Previously, Whole
  <2>2. snap[i] # Torn /\ snap[i] = sql[i].to
    <3>1. \A m \in Migrations : m.to # Torn  BY DEF Migrations
    <3> QED BY <3>1 DEF Whole
  <2>3. sql[j].from = snap[i]  BY <2>1, <2>2 DEF DiskInv, Linked
  <2> QED BY <2>2, <2>3
<1> QED BY <1>1, DiskInvariant, PTL

=============================================================================
