-------------------------- MODULE RpcServerProofs --------------------------
(***************************************************************************)
(* Proofs about RpcServer, for any set of requests and any Capacity.       *)
(*                                                                         *)
(* The channel handlerSlots and the WaitGroup count goroutines, so the     *)
(* invariant must say that a dispatch starts a goroutine that was not      *)
(* running: a line is in stdin, or is the line the reader holds, or has a  *)
(* goroutine, and never two of these (QueueOK, LineOK).  DrainedOnEOF needs*)
(* that nothing that was sent is anywhere else (NothingLost).              *)
(***************************************************************************)
EXTENDS RpcServer, FiniteSetTheorems, TLAPS

\* The lines in stdin are distinct and have no goroutine yet.
QueueOK ==
    /\ \A i \in 1..Len(stdin) : stdin[i] \in sent /\ gor[stdin[i]] = "none"
    /\ \A i, j \in 1..Len(stdin) : stdin[i] = stdin[j] => i = j
    /\ \A r \in Requests : gor[r] # "none" => r \in sent

\* The line the reader wants a slot for has none either.
LineOK ==
    reader = "slot" =>
        /\ line \in Requests /\ line \in sent /\ gor[line] = "none"
        /\ \A i \in 1..Len(stdin) : stdin[i] # line

\* A line that was sent is in stdin, with the reader, or has its goroutine.
NothingLost ==
    \A r \in sent : Kind[r] # "blank" =>
        \/ gor[r] # "none"
        \/ reader = "slot" /\ line = r
        \/ \E i \in 1..Len(stdin) : stdin[i] = r

\* A line was written for exactly the requests whose handleMessage returned.
WrittenOK ==
    \A r \in Requests : r \in Answered <=> gor[r] \notin {"none", "handling"}

\* What Start will return, and returned.
ResultOK ==
    /\ reader = "waiting" /\ result = "nil" => stdin = <<>> /\ closed
    /\ ended \in {"nil", "readErr"} => reader = "waiting" /\ result = ended /\ wg = 0

IInv ==
    /\ TypeOK
    /\ SlotsConserved
    /\ WrittenOK
    /\ QueueOK
    /\ LineOK
    /\ NothingLost
    /\ ResultOK

USE RpcServerAssumption DEF vars, input

-----------------------------------------------------------------------------

\* The goroutines that hold a slot, or are counted, are finitely many.
LEMMA Finite ==
    /\ IsFiniteSet(Holding) /\ Cardinality(Holding) \in Nat
    /\ IsFiniteSet(Counted) /\ Cardinality(Counted) \in Nat
  BY FS_Subset, FS_CardinalityType DEF Holding, Counted

\* A count grows by one when a request enters it.
LEMMA Entering ==
    ASSUME NEW S, IsFiniteSet(S), NEW T, NEW x, x \notin S, T = S \cup {x}
    PROVE  Cardinality(T) = Cardinality(S) + 1
  BY FS_AddElement

\* The same for one that leaves.
LEMMA Leaving ==
    ASSUME NEW S, IsFiniteSet(S), NEW T, NEW x, x \in S, T = S \ {x}
    PROVE  Cardinality(T) = Cardinality(S) - 1
  BY FS_RemoveElement

\* What Append and Tail do to the lines of a queue.
LEMMA Queue ==
    ASSUME NEW s \in Seq(Requests), NEW r \in Requests
    PROVE  /\ Append(s, r) \in Seq(Requests)
           /\ Len(Append(s, r)) = Len(s) + 1
           /\ \A i \in 1..Len(s) : Append(s, r)[i] = s[i] /\ s[i] \in Requests
           /\ Append(s, r)[Len(s) + 1] = r
           /\ s # <<>> => /\ Tail(s) \in Seq(Requests)
                          /\ Len(s) \in Nat /\ 1 \in 1..Len(s)
                          /\ Head(s) = s[1] /\ Head(s) \in Requests
                          /\ Len(Tail(s)) = Len(s) - 1
                          /\ \A i \in 1..Len(Tail(s)) : Tail(s)[i] = s[i + 1]
  OBVIOUS

\* The invariant holds once the ready message is written.
LEMMA Initial == Init => IInv
<1> SUFFICES ASSUME Init PROVE IInv
  OBVIOUS
<1> USE DEF Init
<1>1. TypeOK
  <2>1. <<>> \in Seq(Requests)  OBVIOUS
  <2> QED BY <2>1 DEF TypeOK
<1>2. SlotsConserved
  <2>1. Holding = {} /\ Counted = {}  BY DEF Holding, Counted
  <2> QED BY <2>1, FS_EmptySet DEF SlotsConserved
<1>3. WrittenOK /\ LineOK /\ NothingLost /\ ResultOK
  BY DEF WrittenOK, Answered, LineOK, NothingLost, ResultOK
<1>4. QueueOK  BY DEF QueueOK
<1> QED BY <1>1, <1>2, <1>3, <1>4 DEF IInv

\* Where no goroutine moves, the counts agree as before.
LEMMA CountsKept ==
    ASSUME SlotsConserved, UNCHANGED <<gor, slots, wg>>
    PROVE  SlotsConserved'
  BY DEF SlotsConserved, Holding, Counted

\* Every step of the reader, the goroutines and the client preserves it.
LEMMA Inductive == IInv /\ [Next]_vars => IInv'
<1> SUFFICES ASSUME IInv, [Next]_vars PROVE IInv'
  OBVIOUS
<1>s. stdin \in Seq(Requests)  BY DEF IInv, TypeOK
<1>1. ASSUME NEW r \in Requests, Send(r) PROVE IInv'
  <2> USE <1>1 DEF IInv, Send
  <2>1. TypeOK'  BY <1>s, Queue DEF TypeOK
  <2>2. SlotsConserved'  BY CountsKept
  <2>3. WrittenOK'  BY DEF TypeOK, WrittenOK, Answered
  <2>4. QueueOK'  BY <1>s, Queue DEF TypeOK, QueueOK
  <2>5. LineOK'  BY <1>s, Queue DEF TypeOK, LineOK
  <2>6. NothingLost'  BY <1>s, Queue DEF TypeOK, NothingLost
  <2>7. ResultOK'  BY DEF TypeOK, ResultOK
  <2> QED BY <2>1, <2>2, <2>3, <2>4, <2>5, <2>6, <2>7
<1>2. ASSUME Close PROVE IInv'
  <2> USE <1>2 DEF IInv, Close
  <2>1. TypeOK'  BY DEF TypeOK
  <2>2. SlotsConserved'  BY CountsKept
  <2>3. WrittenOK'  BY DEF TypeOK, WrittenOK, Answered
  <2>4. QueueOK'  BY DEF TypeOK, QueueOK
  <2>5. LineOK'  BY DEF TypeOK, LineOK
  <2>6. NothingLost'  BY DEF TypeOK, NothingLost
  <2>7. ResultOK'  BY DEF TypeOK, ResultOK
  <2> QED BY <2>1, <2>2, <2>3, <2>4, <2>5, <2>6, <2>7
<1>3. ASSUME Signal PROVE IInv'
  <2> USE <1>3 DEF IInv, Signal
  <2>1. TypeOK'  BY DEF TypeOK
  <2>2. SlotsConserved'  BY CountsKept
  <2>3. WrittenOK'  BY DEF TypeOK, WrittenOK, Answered
  <2>4. QueueOK'  BY DEF TypeOK, QueueOK
  <2>5. LineOK'  BY DEF TypeOK, LineOK
  <2>6. NothingLost'  BY DEF TypeOK, NothingLost
  <2>7. ResultOK'  BY DEF TypeOK, ResultOK
  <2> QED BY <2>1, <2>2, <2>3, <2>4, <2>5, <2>6, <2>7
<1>4. ASSUME Select PROVE IInv'
  <2> USE <1>4 DEF IInv, Select, WaitFor
  <2>1. TypeOK'  BY DEF TypeOK
  <2>2. SlotsConserved'  BY CountsKept
  <2>3. WrittenOK'  BY DEF TypeOK, WrittenOK, Answered
  <2>4. QueueOK'  BY DEF TypeOK, QueueOK
  <2>5. LineOK'  BY DEF TypeOK, LineOK
  <2>6. NothingLost'  BY DEF TypeOK, NothingLost
  <2>7. ResultOK'  BY DEF TypeOK, ResultOK
  <2> QED BY <2>1, <2>2, <2>3, <2>4, <2>5, <2>6, <2>7
<1>5. ASSUME ReadLine PROVE IInv'
  <2> USE <1>5 DEF IInv, ReadLine
  <2>1. TypeOK'  BY <1>s, Queue DEF TypeOK
  <2>2. SlotsConserved'  BY CountsKept
  <2>3. WrittenOK'  BY DEF TypeOK, WrittenOK, Answered
  <2>4. QueueOK'  BY <1>s, Queue DEF TypeOK, QueueOK
  <2>5. LineOK'  BY <1>s, Queue DEF TypeOK, QueueOK, LineOK
  <2>6. NothingLost'
    <3> SUFFICES ASSUME NEW r \in sent, Kind[r] # "blank", gor[r] = "none",
                        ~(reader' = "slot" /\ line' = r)
                 PROVE  \E i \in 1..Len(stdin') : stdin'[i] = r
      BY DEF NothingLost
    <3>1. PICK i \in 1..Len(stdin) : stdin[i] = r  BY DEF NothingLost
    <3>2. i # 1  BY <1>s, <3>1, Queue
    <3>3. i - 1 \in 1..Len(stdin') /\ stdin'[i - 1] = stdin[i]
      <4>1. i - 1 \in 1..Len(Tail(stdin)) /\ i = (i - 1) + 1  BY <1>s, <3>1, <3>2, Queue
      <4> QED BY <1>s, <4>1, Queue
    <3> QED BY <3>1, <3>3
  <2>7. ResultOK'  BY DEF TypeOK, ResultOK
  <2> QED BY <2>1, <2>2, <2>3, <2>4, <2>5, <2>6, <2>7
<1>6. ASSUME ReadEOF PROVE IInv'
  <2> USE <1>6 DEF IInv, ReadEOF, WaitFor
  <2>1. TypeOK'  BY DEF TypeOK
  <2>2. SlotsConserved'  BY CountsKept
  <2>3. WrittenOK'  BY DEF TypeOK, WrittenOK, Answered
  <2>4. QueueOK'  BY DEF TypeOK, QueueOK
  <2>5. LineOK'  BY DEF TypeOK, LineOK
  <2>6. NothingLost'  BY DEF TypeOK, NothingLost
  <2>7. ResultOK'  BY DEF TypeOK, ResultOK
  <2> QED BY <2>1, <2>2, <2>3, <2>4, <2>5, <2>6, <2>7
<1>7. ASSUME ReadError PROVE IInv'
  <2> USE <1>7 DEF IInv, ReadError, WaitFor
  <2>1. TypeOK'  BY DEF TypeOK
  <2>2. SlotsConserved'  BY CountsKept
  <2>3. WrittenOK'  BY DEF TypeOK, WrittenOK, Answered
  <2>4. QueueOK'  BY DEF TypeOK, QueueOK
  <2>5. LineOK'  BY DEF TypeOK, LineOK
  <2>6. NothingLost'  BY DEF TypeOK, NothingLost
  <2>7. ResultOK'  BY DEF TypeOK, ResultOK
  <2> QED BY <2>1, <2>2, <2>3, <2>4, <2>5, <2>6, <2>7
<1>8. ASSUME Dispatch PROVE IInv'
  <2> USE <1>8 DEF IInv, Dispatch
  <2>1. TypeOK'  BY DEF TypeOK, LineOK
  <2>2. SlotsConserved'
    <3>1. line \notin Holding /\ line \notin Counted  BY DEF LineOK, Holding, Counted
    <3>2. Holding' = Holding \cup {line} /\ Counted' = Counted \cup {line}
      BY DEF TypeOK, LineOK, Holding, Counted
    <3>3. Cardinality(Holding') = Cardinality(Holding) + 1  BY <3>1, <3>2, Entering, Finite
    <3>4. Cardinality(Counted') = Cardinality(Counted) + 1  BY <3>1, <3>2, Entering, Finite
    <3> QED BY <3>3, <3>4 DEF SlotsConserved, TypeOK
  <2>3. WrittenOK'  BY DEF TypeOK, LineOK, WrittenOK, Answered
  <2>4. QueueOK'  BY DEF TypeOK, LineOK, QueueOK
  <2>5. LineOK'  BY DEF TypeOK, LineOK
  <2>6. NothingLost'  BY DEF TypeOK, LineOK, NothingLost
  <2>7. ResultOK'  BY DEF TypeOK, ResultOK
  <2> QED BY <2>1, <2>2, <2>3, <2>4, <2>5, <2>6, <2>7
<1>9. ASSUME GiveUp PROVE IInv'
  <2> USE <1>9 DEF IInv, GiveUp
  <2>1. TypeOK'  BY DEF TypeOK
  <2>2. SlotsConserved'  BY CountsKept
  <2>3. WrittenOK'  BY DEF TypeOK, WrittenOK, Answered
  <2>4. QueueOK'  BY DEF TypeOK, QueueOK
  <2>5. LineOK'  BY DEF TypeOK, LineOK
  <2>6. NothingLost'  BY DEF TypeOK, NothingLost
  <2>7. ResultOK'  BY DEF TypeOK, ResultOK
  <2> QED BY <2>1, <2>2, <2>3, <2>4, <2>5, <2>6, <2>7
<1>10. ASSUME Return PROVE IInv'
  <2> USE <1>10 DEF IInv, Return, Waited
  <2>1. TypeOK'  BY DEF TypeOK
  <2>2. SlotsConserved'  BY CountsKept
  <2>3. WrittenOK'  BY DEF TypeOK, WrittenOK, Answered
  <2>4. QueueOK'  BY DEF TypeOK, QueueOK
  <2>5. LineOK'  BY DEF TypeOK, LineOK
  <2>6. NothingLost'  BY DEF TypeOK, NothingLost
  <2>7. ResultOK'  BY DEF TypeOK, ResultOK
  <2> QED BY <2>1, <2>2, <2>3, <2>4, <2>5, <2>6, <2>7
<1>11. ASSUME NEW r \in Requests, Respond(r) PROVE IInv'
  <2> USE <1>11 DEF IInv, Respond, ResponseIds
  <2>1. TypeOK'  BY DEF TypeOK
  <2>2. SlotsConserved'
    <3>1. Holding' = Holding /\ Counted' = Counted  BY DEF TypeOK, Holding, Counted
    <3> QED BY <3>1 DEF SlotsConserved
  <2>3. WrittenOK'  BY DEF TypeOK, WrittenOK, Answered
  <2>4. QueueOK'  BY DEF TypeOK, QueueOK
  <2>5. LineOK'  BY DEF TypeOK, LineOK
  <2>6. NothingLost'  BY DEF TypeOK, NothingLost
  <2>7. ResultOK'  BY DEF TypeOK, ResultOK
  <2> QED BY <2>1, <2>2, <2>3, <2>4, <2>5, <2>6, <2>7
<1>12. ASSUME NEW r \in Requests, Exit(r) PROVE IInv'
  <2> USE <1>12 DEF IInv, Exit
  <2>1. TypeOK'  BY DEF TypeOK
  <2>2. SlotsConserved'  BY CountsKept
  <2>3. WrittenOK'  BY DEF TypeOK, WrittenOK, Answered
  <2>4. QueueOK'  BY DEF TypeOK, QueueOK
  <2>5. LineOK'  BY DEF TypeOK, LineOK
  <2>6. NothingLost'  BY DEF TypeOK, NothingLost
  <2>7. ResultOK'  BY DEF TypeOK, ResultOK
  <2> QED BY <2>1, <2>2, <2>3, <2>4, <2>5, <2>6, <2>7
<1>13. ASSUME NEW r \in Requests, ReleaseSlot(r) PROVE IInv'
  <2> USE <1>13 DEF IInv, ReleaseSlot, FreedSlot
  <2>1. TypeOK'
    <3>1. slots - 1 \in Nat
      <4>1. r \in Holding  BY DEF Holding
      <4>2. Cardinality(Holding) # 0  BY <4>1, Finite, FS_EmptySet
      <4> QED BY <4>2 DEF TypeOK, SlotsConserved
    <3> QED BY <3>1 DEF TypeOK
  <2>2. SlotsConserved'
    <3>1. r \in Holding  BY DEF Holding
    <3>2. Holding' = Holding \ {r} /\ Counted' = Counted
      BY DEF TypeOK, Holding, Counted
    <3>3. Cardinality(Holding') = Cardinality(Holding) - 1  BY <3>1, <3>2, Leaving, Finite
    <3> QED BY <3>2, <3>3 DEF SlotsConserved, TypeOK
  <2>3. WrittenOK'  BY DEF TypeOK, WrittenOK, Answered
  <2>4. QueueOK'  BY DEF TypeOK, QueueOK
  <2>5. LineOK'  BY DEF TypeOK, LineOK
  <2>6. NothingLost'  BY DEF TypeOK, NothingLost
  <2>7. ResultOK'  BY DEF TypeOK, ResultOK
  <2> QED BY <2>1, <2>2, <2>3, <2>4, <2>5, <2>6, <2>7
<1>14. ASSUME NEW r \in Requests, Done(r) PROVE IInv'
  <2> USE <1>14 DEF IInv, Done, WgDone
  <2>1. TypeOK'
    <3>1. wg - 1 \in Nat
      <4>1. r \in Counted  BY DEF Counted
      <4>2. Cardinality(Counted) # 0  BY <4>1, Finite, FS_EmptySet
      <4> QED BY <4>2 DEF TypeOK, SlotsConserved
    <3> QED BY <3>1 DEF TypeOK
  <2>2. SlotsConserved'
    <3>1. r \in Counted  BY DEF Counted
    <3>2. Counted' = Counted \ {r} /\ Holding' = Holding
      BY DEF TypeOK, Holding, Counted
    <3>3. Cardinality(Counted') = Cardinality(Counted) - 1  BY <3>1, <3>2, Leaving, Finite
    <3> QED BY <3>2, <3>3 DEF SlotsConserved, TypeOK
  <2>3. WrittenOK'  BY DEF TypeOK, WrittenOK, Answered
  <2>4. QueueOK'  BY DEF TypeOK, QueueOK
  <2>5. LineOK'  BY DEF TypeOK, LineOK
  <2>6. NothingLost'  BY DEF TypeOK, NothingLost
  <2>7. ResultOK'  BY DEF TypeOK, ResultOK
  <2> QED BY <2>1, <2>2, <2>3, <2>4, <2>5, <2>6, <2>7
<1>15. ASSUME UNCHANGED vars PROVE IInv'
  BY <1>15 DEF IInv, TypeOK, SlotsConserved, Holding, Counted, WrittenOK, Answered, QueueOK, LineOK,
               NothingLost, ResultOK
<1> QED
  BY <1>1, <1>2, <1>3, <1>4, <1>5, <1>6, <1>7, <1>8, <1>9, <1>10, <1>11, <1>12, <1>13,
     <1>14, <1>15
  DEF Next, Start, Goroutine, Terminated

\* The inductive invariant holds in every reachable state.
THEOREM Invariant == Spec => []IInv
  BY Initial, Inductive, PTL DEF Spec

\* Type correctness; the semaphore and the WaitGroup never go below zero.
THEOREM TypeCorrect == Spec => []TypeOK
<1>1. IInv => TypeOK
  BY DEF IInv
<1> QED BY <1>1, Invariant, PTL

\* handlerSlots and the WaitGroup count the goroutines that run.
THEOREM SlotsNeverLost == Spec => []SlotsConserved
<1>1. IInv => SlotsConserved
  BY DEF IInv
<1> QED BY <1>1, Invariant, PTL

\* At EOF Start returns when everything that was sent has been answered: the
\* WaitGroup is at zero, so every goroutine is past the line it writes.
THEOREM Drained == Spec => []DrainedOnEOF
<1>1. IInv => DrainedOnEOF
  <2> SUFFICES ASSUME IInv, ended \in {"nil", "readErr"} PROVE DrainedOnEOF
    BY DEF DrainedOnEOF
  <2>1. Counted = {}
    BY Finite, FS_EmptySet DEF IInv, ResultOK, SlotsConserved
  <2>2. Dispatched \subseteq Answered
    BY <2>1 DEF IInv, TypeOK, WrittenOK, Dispatched, Counted
  <2>3. ended = "nil" => \A r \in sent : Kind[r] # "blank" => r \in Dispatched
    BY DEF IInv, TypeOK, ResultOK, NothingLost, Dispatched
  <2> QED BY <2>2, <2>3 DEF DrainedOnEOF
<1> QED BY <1>1, Invariant, PTL

=============================================================================
