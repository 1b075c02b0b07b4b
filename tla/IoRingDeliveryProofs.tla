------------------------ MODULE IoRingDeliveryProofs ------------------------
(***************************************************************************)
(* Proofs about IoRing that count: how many polls of its eventfd a ring has *)
(* and in how many places a task is.  An owner that waits has been or will *)
(* be woken for what was posted to it, and a task that was accepted is in  *)
(* one place until it has run.                                             *)
(***************************************************************************)
EXTENDS IoRingProofs, FiniteSetTheorems

-----------------------------------------------------------------------------
(* Counting in sequences. *)

\* An element occurs a finite number of times.
LEMMA OccurrencesNat ==
  ASSUME NEW S, NEW s \in Seq(S), NEW k
  PROVE  /\ IsFiniteSet({i \in DOMAIN s : s[i] = k})
         /\ Occurrences(k, s) \in Nat
         /\ Occurrences(k, s) = 0 <=> \A i \in 1..Len(s) : s[i] # k
<1> DEFINE I == {i \in DOMAIN s : s[i] = k}
<1>1. DOMAIN s = 1..Len(s) /\ Len(s) \in Nat
  BY SeqIndexed
<1>2. IsFiniteSet(1..Len(s))
  BY <1>1, FS_Interval
<1>3. IsFiniteSet(I)
  BY <1>1, <1>2, FS_Subset
<1>4. Cardinality(I) \in Nat /\ (Cardinality(I) = 0 <=> I = {})
  BY <1>3, FS_CardinalityType, FS_EmptySet
<1> QED
  BY <1>1, <1>3, <1>4 DEF Occurrences

\* push_back adds one occurrence of what is pushed.
LEMMA OccurrencesAppend ==
  ASSUME NEW S, NEW s \in Seq(S), NEW e \in S, NEW k
  PROVE  Occurrences(k, Append(s, e)) = Occurrences(k, s) + (IF e = k THEN 1 ELSE 0)
<1> DEFINE I == {i \in DOMAIN s : s[i] = k}
           J == {i \in DOMAIN Append(s, e) : Append(s, e)[i] = k}
           n == Len(s) + 1
<1>1. /\ DOMAIN s = 1..Len(s) /\ Len(s) \in Nat
      /\ Append(s, e) \in Seq(S) /\ Len(Append(s, e)) = n
      /\ \A i \in 1..Len(s) : Append(s, e)[i] = s[i]
      /\ Append(s, e)[n] = e
  BY SeqIndexed, SeqAppend
<1>0. DOMAIN Append(s, e) = 1..n
  BY <1>1, SeqIndexed
<1>2. IsFiniteSet(I) /\ Cardinality(I) \in Nat /\ n \notin I
  <2>1. IsFiniteSet(I)
    BY OccurrencesNat, Zenon
  <2>2. n \notin I
    BY <1>1
  <2> HIDE DEF I, n
  <2> QED
    BY <2>1, <2>2, FS_CardinalityType
<1>5. Occurrences(k, s) = Cardinality(I) /\ Occurrences(k, Append(s, e)) = Cardinality(J)
  BY DEF Occurrences
<1>3. CASE e = k
  <2>1. J = I \cup {n}
    BY <1>0, <1>1, <1>3
  <2> HIDE DEF I, J, n
  <2> QED
    BY <1>2, <1>3, <1>5, <2>1, FS_AddElement, Zenon
<1>4. CASE e # k
  <2>1. J = I
    BY <1>0, <1>1, <1>4
  <2> HIDE DEF I, J, n
  <2> QED
    BY <1>2, <1>4, <1>5, <2>1
<1> QED
  BY <1>3, <1>4

\* Taking the front takes one occurrence of it.
LEMMA OccurrencesTail ==
  ASSUME NEW S, NEW s \in Seq(S), s # <<>>, NEW k
  PROVE  Occurrences(k, Tail(s)) = Occurrences(k, s) - (IF Head(s) = k THEN 1 ELSE 0)
<1> DEFINE I == {i \in DOMAIN s : s[i] = k}
           J == {i \in DOMAIN Tail(s) : Tail(s)[i] = k}
           f == [i \in J |-> i + 1]
<1>1. /\ DOMAIN s = 1..Len(s) /\ Len(s) \in Nat \ {0} /\ Head(s) = s[1]
      /\ Tail(s) \in Seq(S) /\ Len(Tail(s)) = Len(s) - 1
      /\ \A i \in 1..(Len(s) - 1) : Tail(s)[i] = s[i + 1]
  BY SeqIndexed, SeqHeadTail, SeqEmpty
<1>0. DOMAIN Tail(s) = 1..(Len(s) - 1)
  BY <1>1, SeqIndexed
<1>2. IsFiniteSet(I) /\ IsFiniteSet(J)
  <2>1. IsFiniteSet(I)
    BY OccurrencesNat, Zenon
  <2>2. Tail(s) \in Seq(S)
    BY <1>1
  <2>3. IsFiniteSet(J)
    BY <2>2, OccurrencesNat, Zenon
  <2> QED
    BY <2>1, <2>3, Zenon
<1>3. f \in [J -> I \ {1}]
  BY <1>0, <1>1
<1>4. \A i, j \in J : f[i] = f[j] => i = j
  BY <1>0, <1>1
<1>5. \A i \in I \ {1} : \E j \in J : f[j] = i
  <2> SUFFICES ASSUME NEW i \in I \ {1}
               PROVE  i - 1 \in J /\ f[i - 1] = i
    BY Zenon
  <2>1. i - 1 \in 1..(Len(s) - 1) /\ (i - 1) + 1 = i
    BY <1>1
  <2> QED
    BY <1>0, <1>1, <2>1
<1>6. f \in Bijection(J, I \ {1})
  BY <1>3, <1>4, <1>5 DEF Bijection, Injection, Surjection, IsInjective
<1>7. Cardinality(I \ {1}) = Cardinality(J)
  BY <1>2, <1>6, FS_Bijection, ZenonT(40) DEF ExistsBijection
<1>8. Cardinality(I \ {1}) = IF 1 \in I THEN Cardinality(I) - 1 ELSE Cardinality(I)
  BY <1>2, FS_RemoveElement, Zenon
<1>9. 1 \in I <=> Head(s) = k
  BY <1>1
<1>10. Cardinality(I) \in Nat
  BY <1>2, FS_CardinalityType
<1>11. Occurrences(k, s) = Cardinality(I) /\ Occurrences(k, Tail(s)) = Cardinality(J)
  BY DEF Occurrences
<1> HIDE DEF I, J
<1> QED
  BY <1>7, <1>8, <1>9, <1>10, <1>11

\* Nothing occurs in an empty sequence.
\* Appending an element adds one to its own count.
LEMMA CountAppend ==
  ASSUME NEW S, NEW s \in Seq(S), NEW k \in S
  PROVE  Occurrences(k, Append(s, k)) = Occurrences(k, s) + 1
  BY OccurrencesAppend, Zenon

\* Another element leaves the count alone.
LEMMA CountOther ==
  ASSUME NEW S, NEW s \in Seq(S), NEW e \in S, NEW k, e # k
  PROVE  Occurrences(k, Append(s, e)) = Occurrences(k, s)
<1>1. PICK n \in Nat : n = Occurrences(k, s)
  BY OccurrencesNat, Zenon
<1>2. n + 0 = n
  OBVIOUS
<1>3. Occurrences(k, Append(s, e)) = n + 0
  BY <1>1, OccurrencesAppend, Zenon
<1> QED
  BY <1>1, <1>2, <1>3, Zenon

\* Taking the head off takes one off its own count and no other.
LEMMA CountTail ==
  ASSUME NEW S, NEW s \in Seq(S), s # <<>>, NEW k
  PROVE  /\ Head(s) = k => Occurrences(k, Tail(s)) = Occurrences(k, s) - 1
         /\ Head(s) # k => Occurrences(k, Tail(s)) = Occurrences(k, s)
<1>1. PICK n \in Nat : n = Occurrences(k, s)
  BY OccurrencesNat, Zenon
<1>2. n - 0 = n
  OBVIOUS
<1>3. Occurrences(k, Tail(s)) = n - (IF Head(s) = k THEN 1 ELSE 0)
  BY <1>1, OccurrencesTail, Zenon
<1> QED
  BY <1>1, <1>2, <1>3, Zenon

LEMMA OccurrencesEmpty == \A k : Occurrences(k, <<>>) = 0
  BY FS_EmptySet DEF Occurrences

-----------------------------------------------------------------------------
(* What a ring's state owes to its own threads. *)

\* The owner is in a task, a handler or a tick only where Worker::Run calls
\* one, and has nothing pending from the flush of Dispatch until it waits.
OwnerPlaced(r) ==
  /\ app[r] => pc[r] \in {"run1", "run2", "drain", "tick"}
  /\ pc[r] \in {"arm1", "wait"} => unflushed[r] = 0

\* While no submit has failed: a poll is never left behind in the ring, nothing
\* is left there once it was flushed, and the owner waits with its poll armed.
Unfailed(r) ==
  /\ sq[r].polls = 0
  /\ unflushed[r] = 0 => sq[r] = NoSqes
  /\ pc[r] = "wait" => armed[r]
  /\ WakePolls(r) = IF armed[r] THEN 1 ELSE 0

PollHeld(r) ==
  /\ armed[r] => WakePolls(r) >= 1
  /\ failures = 0 => Unfailed(r)

ForeignPosted(r) == \E i \in DOMAIN posted[r] : source[posted[r][i]] # r

\* Until the owner is past its wait and on its way to ProcessPostedTasks, what
\* other threads posted comes with a written eventfd or a thread about to.
PostsCovered(r) ==
  ForeignPosted(r) /\ pc[r] \notin {"drain", "arm2", "process2"} =>
    wake_fd[r] \/ \E t \in Threads : waking[t] = r

AwakeInv ==
  /\ TypeOK
  /\ \A r \in Rings : OwnerPlaced(r) /\ PollHeld(r) /\ PostsCovered(r)

\* A failed submit is counted, and never forgotten.
LEMMA FailureCounted ==
  ASSUME TypeOK, NEW r, NEW entries, NEW ok \in SubmitResults, IoUringSubmit(r, entries, ok),
         failures' = 0
  PROVE  failures = 0 /\ ok = TRUE
<1>0. ok \in BOOLEAN
  BY Zenon DEF SubmitResults
<1>1. failures \in Nat
  BY Bounds DEF TypeOK
<1>2. CASE ok = TRUE
  BY <1>2 DEF IoUringSubmit
<1>3. CASE ok = FALSE
  <2>1. failures' = failures + 1
    BY <1>3 DEF IoUringSubmit
  <2> QED
    BY <1>1, <2>1
<1> QED
  BY <1>0, <1>2, <1>3, Zenon

\* A handler that prepares an operation is between the flushes of Dispatch, so
\* nothing is pending when the owner waits.
LEMMA PlacedStep ==
  ASSUME TypeOK, NEW s \in Rings, OwnerPlaced(s), Next
  PROVE  OwnerPlaced(s)'
<1>1. ASSUME NEW r \in Rings \ {s}, OwnerStep(r) \/ WaitTimesOut(r)
      PROVE  OwnerPlaced(s)'
  <2>1. pc'[s] = pc[s] /\ app'[s] = app[s] /\ unflushed'[s] = unflushed[s]
    BY <1>1, OwnerLocal
  <2> QED
    BY <2>1 DEF OwnerPlaced
<1>2. ASSUME OwnerStep(s) \/ WaitTimesOut(s)
      PROVE  OwnerPlaced(s)'
  <2> USE DEF loopVars, kernelVars, ringVars, Goto, EnterApp, At
  <2>1. CASE ProcessPostedTasks(s)
    BY <2>1, Zenon DEF ProcessPostedTasks, OwnerPlaced, TypeOK
  <2>2. CASE RunTask(s)
    BY <2>2, Zenon DEF RunTask, OwnerPlaced, TypeOK
  <2>3. CASE TasksDone(s)
    BY <2>3, Zenon DEF TasksDone, OwnerPlaced, TypeOK
  <2>4. CASE AppReturns(s)
    BY <2>4 DEF AppReturns, OwnerPlaced, TypeOK
  <2>5. CASE DispatchFlush(s)
    <3>1. unflushed'[s] = 0
      BY <2>5, Zenon DEF DispatchFlush, FlushSubmissions, TypeOK
    <3>2. ~app'[s]
      BY <2>5 DEF DispatchFlush
    <3> QED
      BY <3>1, <3>2, Zenon DEF OwnerPlaced
  <2>6. CASE ArmWakePoll(s)
    <3>1. app' = app /\ unflushed' = unflushed
      BY <2>6 DEF ArmWakePoll
    <3>2. ~app[s] /\ (pc'[s] = "process2" \/ (pc[s] = "arm1" /\ pc'[s] = "wait"))
      BY <2>6, ZenonT(40) DEF ArmWakePoll, TypeOK
    <3> QED
      BY <3>1, <3>2 DEF OwnerPlaced
  <2>7. CASE WaitReturns(s) \/ WaitTimesOut(s) \/ DrainEnds(s)
    BY <2>7 DEF WaitReturns, WaitTimesOut, DrainEnds, OwnerPlaced, TypeOK
  <2>8. CASE HandleCqe(s)
    <3>1. pc' = pc /\ unflushed' = unflushed /\ pc[s] = "drain"
      BY <2>8 DEF HandleCqe
    <3> QED
      BY <3>1 DEF OwnerPlaced
  <2> QED
    BY <1>2, <2>1, <2>2, <2>3, <2>4, <2>5, <2>6, <2>7, <2>8, ZenonT(40) DEF OwnerStep
<1>3. ASSUME NEW t \in Threads, SenderStep(t)
      PROVE  OwnerPlaced(s)'
  <2>1. /\ pc' = pc /\ app' = app
        /\ t # s => unflushed'[s] = unflushed[s]
    BY <1>3, SenderLocal
  <2>2. CASE t = s
    <3>1. unflushed' = unflushed \/ app[s]
      BY <1>3, <2>2, Zenon DEF SenderStep, Wake, PrepareIo, MaySend, Post, RunOnRingInline, RunOnRingMessage, ringVars
    <3> QED
      BY <2>1, <3>1, Zenon DEF OwnerPlaced
  <2> QED
    BY <2>1, <2>2 DEF OwnerPlaced
<1>4. ASSUME KernelStep
      PROVE  OwnerPlaced(s)'
  <2>1. UNCHANGED <<pc, app, unflushed>>
    BY <1>4 DEF KernelStep, PollFires, IoCompletes, MessageArrives, loopVars, ringVars
  <2> QED
    BY <2>1 DEF OwnerPlaced
<1> QED
  BY <1>1, <1>2, <1>3, <1>4, Zenon DEF Next

\* When no submit has failed after a step, none had before it.
LEMMA FailuresGrow ==
  ASSUME TypeOK, Next, failures' = 0
  PROVE  failures = 0
<1> DEFINE Counted == failures' = failures \/ \E r, entries : \E ok \in SubmitResults : IoUringSubmit(r, entries, ok)
<1>1. ASSUME NEW r \in Rings, OwnerStep(r) \/ WaitTimesOut(r)
      PROVE  Counted
  BY <1>1 DEF OwnerStep, WaitTimesOut, ProcessPostedTasks, RunTask, TasksDone, AppReturns, DispatchFlush,
       FlushSubmissions, ArmWakePoll, WaitReturns, HandleCqe, DrainEnds, kernelVars
<1>2. ASSUME NEW t \in Threads, SenderStep(t)
      PROVE  Counted
  BY <1>2, Zenon DEF SenderStep, Wake, PrepareIo, Submit, FlushSubmissions, Post, RunOnRingInline,
       RunOnRingMessage, kernelVars
<1>3. ASSUME KernelStep
      PROVE  Counted
  BY <1>3 DEF KernelStep, PollFires, IoCompletes, MessageArrives
<1>4. Counted
  BY <1>1, <1>2, <1>3 DEF Next
<1> QED
  BY <1>4, FailureCounted, ZenonT(40)

\* The number of wake polls is a number.
LEMMA WakePollsNat ==
  ASSUME TypeOK, NEW s \in Rings
  PROVE  /\ polls[s] \in Nat /\ Occurrences(Cqe("wake"), cq[s]) \in Nat
         /\ WakePolls(s) = polls[s] + Occurrences(Cqe("wake"), cq[s])
<1>1. polls[s] \in Nat /\ cq[s] \in Seq(Cqes)
  BY DEF TypeOK
<1>2. Occurrences(Cqe("wake"), cq[s]) \in Nat
  BY <1>1, OccurrencesNat, Zenon
<1> QED
  BY <1>1, <1>2 DEF WakePolls

\* A step that moves no wake poll, prepares nothing and does not begin to wait.
LEMMA PollKept ==
  ASSUME TypeOK, NEW s \in Rings, PollHeld(s), Next,
         armed'[s] = armed[s], WakePolls(s)' = WakePolls(s), sq'[s] = sq[s], unflushed'[s] = unflushed[s],
         pc'[s] = "wait" => pc[s] = "wait"
  PROVE  PollHeld(s)'
<1>1. failures' = 0 => failures = 0
  BY FailuresGrow
<1> QED
  BY <1>1 DEF PollHeld, Unfailed

\* The same, when the wake polls are where they were.
LEMMA PollUntouched ==
  ASSUME TypeOK, NEW s \in Rings, PollHeld(s), Next,
         armed'[s] = armed[s], polls'[s] = polls[s], cq'[s] = cq[s], sq'[s] = sq[s],
         unflushed'[s] = unflushed[s], pc'[s] = "wait" => pc[s] = "wait"
  PROVE  PollHeld(s)'
<1>1. WakePolls(s)' = WakePolls(s)
  BY DEF WakePolls
<1> QED
  BY <1>1, PollKept

\* A submit of everything in the ring, when no poll was left behind there.
LEMMA PollSubmitted ==
  ASSUME TypeOK, NEW s \in Rings, PollHeld(s), NEW entries \in Sqes, NEW ok \in SubmitResults,
         IoUringSubmit(s, entries, ok), entries.polls = sq[s].polls,
         armed'[s] = armed[s], cq'[s] = cq[s], pc'[s] = "wait" => pc[s] = "wait"
  PROVE  PollHeld(s)'
<1>1. /\ polls[s] \in Nat /\ Occurrences(Cqe("wake"), cq[s]) \in Nat /\ entries.polls \in Nat
      /\ WakePolls(s) = polls[s] + Occurrences(Cqe("wake"), cq[s])
      /\ WakePolls(s)' = polls'[s] + Occurrences(Cqe("wake"), cq[s])
  BY WakePollsNat, Zenon DEF Sqes, WakePolls
<1>2. (polls'[s] = polls[s] + entries.polls /\ sq'[s] = NoSqes) \/ polls'[s] = polls[s]
  BY Zenon DEF IoUringSubmit, TypeOK
<1>3. armed'[s] => WakePolls(s)' >= 1
  BY <1>1, <1>2 DEF PollHeld
<1>4. ASSUME failures' = 0
      PROVE  Unfailed(s)'
  <2>1. failures = 0 /\ ok = TRUE
    BY <1>4, FailureCounted, ZenonT(40)
  <2>2. sq'[s] = NoSqes /\ polls'[s] = polls[s] + entries.polls
    BY <2>1 DEF IoUringSubmit, TypeOK
  <2>3. entries.polls = 0 /\ Unfailed(s)
    BY <2>1 DEF PollHeld, Unfailed
  <2>4. WakePolls(s)' = WakePolls(s)
    BY <1>1, <2>2, <2>3
  <2>5. sq'[s].polls = 0
    BY <2>2 DEF NoSqes
  <2> QED
    BY <2>2, <2>3, <2>4, <2>5, Zenon DEF Unfailed
<1> QED
  BY <1>3, <1>4, Zenon DEF PollHeld

\* ArmWakePoll arms what is not armed.  Before the wait nothing is pending, so
\* there is room for the poll.
LEMMA PollArmed ==
  ASSUME TypeOK, NEW s \in Rings, OwnerPlaced(s), PollHeld(s), ArmWakePoll(s)
  PROVE  PollHeld(s)'
<1>1. /\ polls[s] \in Nat /\ Occurrences(Cqe("wake"), cq[s]) \in Nat
      /\ WakePolls(s) = polls[s] + Occurrences(Cqe("wake"), cq[s])
      /\ WakePolls(s)' = polls'[s] + Occurrences(Cqe("wake"), cq[s])
  <2>1. cq' = cq
    BY DEF ArmWakePoll
  <2> QED
    BY <2>1, WakePollsNat DEF WakePolls
<1>2. unflushed' = unflushed /\ (pc'[s] = "wait" => pc[s] = "arm1")
  BY DEF ArmWakePoll, Goto, At, TypeOK
<1>3. CASE UNCHANGED <<sq, polls, ios, msgs, failures, armed>> /\ (armed[s] \/ ~HasSqe(s))
  <2>1. armed' = armed /\ sq' = sq /\ failures' = failures /\ WakePolls(s)' = WakePolls(s)
    BY <1>1, <1>3
  <2>2. ASSUME failures = 0, pc'[s] = "wait"
        PROVE  armed[s]
    <3>1. sq[s] = NoSqes
      BY <1>2, <2>2, Zenon DEF OwnerPlaced, PollHeld, Unfailed
    <3>2. SqesOf(sq[s]) = 0
      BY <3>1, FS_EmptySet DEF SqesOf, NoSqes
    <3> QED
      BY <1>3, <3>2, RingSizes DEF HasSqe
  <2> QED
    BY <1>2, <2>1, <2>2, Zenon DEF PollHeld, Unfailed
<1>4. ASSUME ~armed[s], NEW ok \in SubmitResults, IoUringSubmit(s, [sq[s] EXCEPT !.polls = @ + 1], ok),
             armed' = [armed EXCEPT ![s] = ok]
      PROVE  PollHeld(s)'
  <2>1. sq[s] \in Sqes
    BY DEF TypeOK
  <2>2. [sq[s] EXCEPT !.polls = @ + 1].polls = sq[s].polls + 1 /\ sq[s].polls \in Nat
    BY <2>1 DEF Sqes
  <2>3. armed'[s] = ok /\ ok \in BOOLEAN
    BY <1>4, Zenon DEF TypeOK, SubmitResults
  <2>4. ok = TRUE => polls'[s] = polls[s] + (sq[s].polls + 1) /\ sq'[s] = NoSqes
    BY <1>4, <2>2 DEF IoUringSubmit, TypeOK
  <2>5. armed'[s] => WakePolls(s)' >= 1
    BY <1>1, <2>2, <2>3, <2>4
  <2>6. ASSUME failures' = 0
        PROVE  Unfailed(s)'
    <3>1. failures = 0 /\ ok = TRUE
      BY <1>4, <2>6, FailureCounted, Zenon
    <3>2. sq[s].polls = 0 /\ WakePolls(s) = 0
      BY <1>4, <3>1 DEF PollHeld, Unfailed
    <3>3. WakePolls(s)' = 1 /\ sq'[s] = NoSqes
      BY <1>1, <2>4, <3>1, <3>2
    <3>4. sq'[s].polls = 0
      BY <3>3 DEF NoSqes
    <3> QED
      BY <2>3, <3>1, <3>3, <3>4, Zenon DEF Unfailed
  <2> QED
    BY <2>5, <2>6, Zenon DEF PollHeld
<1> QED
  BY <1>3, <1>4, Zenon DEF ArmWakePoll

\* OnWake takes the completion of the poll and disarms it.  Any other
\* completion leaves the polls as they were.
LEMMA PollHandled ==
  ASSUME TypeOK, NEW s \in Rings, PollHeld(s), Next, HandleCqe(s)
  PROVE  PollHeld(s)'
<1> DEFINE c == Head(cq[s])
<1>1. cq[s] \in Seq(Cqes) /\ cq[s] # <<>> /\ cq'[s] = Tail(cq[s]) /\ c \in Cqes
  BY SeqHeadTail, Zenon DEF HandleCqe, TypeOK
<1>2. UNCHANGED <<pc, polls, sq, unflushed, failures>> /\ pc[s] = "drain"
  BY Zenon DEF HandleCqe, At
<1>3. Occurrences(Cqe("wake"), cq'[s]) = Occurrences(Cqe("wake"), cq[s]) - (IF c = Cqe("wake") THEN 1 ELSE 0)
  BY <1>1, OccurrencesTail, Zenon
<1>4. /\ polls[s] \in Nat /\ Occurrences(Cqe("wake"), cq[s]) \in Nat
      /\ WakePolls(s) = polls[s] + Occurrences(Cqe("wake"), cq[s])
      /\ WakePolls(s)' = polls[s] + Occurrences(Cqe("wake"), cq'[s])
  BY <1>2, WakePollsNat, Zenon DEF WakePolls
<1>5. CASE c.kind = "wake"
  <2>1. c = Cqe("wake")
    BY <1>1, <1>5, Zenon DEF Cqes, Cqe
  <2>2. WakePolls(s)' = WakePolls(s) - 1
    BY <1>3, <1>4, <2>1
  <2>3. ~armed'[s]
    BY <1>5, Zenon DEF HandleCqe, OnWake, TypeOK
  <2>4. ASSUME failures = 0
        PROVE  Unfailed(s)'
    <3>1. Unfailed(s) /\ cq'[s] \in Seq(Cqes)
      BY <1>1, <2>4, SeqHeadTail, Zenon DEF PollHeld
    <3>2. Occurrences(Cqe("wake"), cq'[s]) \in Nat
      BY <3>1, OccurrencesNat, Zenon
    <3>3. WakePolls(s)' = 0
      BY <1>4, <2>2, <3>1, <3>2 DEF Unfailed
    <3> QED
      BY <1>2, <2>3, <3>1, <3>3, Zenon DEF Unfailed
  <2> QED
    BY <1>2, <2>3, <2>4, Zenon DEF PollHeld
<1>6. CASE c.kind # "wake"
  <2>1. c # Cqe("wake")
    BY <1>6 DEF Cqe
  <2>2. armed' = armed
    BY <1>6, Zenon DEF HandleCqe
  <2>3. WakePolls(s)' = WakePolls(s)
    BY <1>3, <1>4, <2>1
  <2> QED
    BY <1>2, <2>2, <2>3, PollKept, Zenon
<1> QED
  BY <1>5, <1>6, Zenon

\* The kernel turns a poll into its completion, and adds other completions.
LEMMA PollCompletes ==
  ASSUME TypeOK, NEW s \in Rings, PollHeld(s), Next, KernelStep
  PROVE  PollHeld(s)'
<1>1. UNCHANGED <<pc, armed, sq, unflushed>>
  BY Zenon DEF KernelStep, PollFires, IoCompletes, MessageArrives, loopVars, ringVars
<1>2. /\ polls[s] \in Nat /\ Occurrences(Cqe("wake"), cq[s]) \in Nat
      /\ WakePolls(s) = polls[s] + Occurrences(Cqe("wake"), cq[s])
      /\ WakePolls(s)' = polls'[s] + Occurrences(Cqe("wake"), cq'[s])
      /\ cq \in [Rings -> Seq(Cqes)] /\ polls \in [Rings -> Nat]
  BY WakePollsNat, Zenon DEF WakePolls, TypeOK
<1>3. ASSUME NEW c \in Cqes
      PROVE  Occurrences(Cqe("wake"), Append(cq[s], c))
               = Occurrences(Cqe("wake"), cq[s]) + (IF c = Cqe("wake") THEN 1 ELSE 0)
  BY <1>2, OccurrencesAppend
<1>4. WakePolls(s)' = WakePolls(s)
  <2>1. CASE cq'[s] = cq[s] /\ polls'[s] = polls[s]
    BY <1>2, <2>1
  <2>2. CASE PollFires(s)
    <3>1. Cqe("wake") \in Cqes
      BY DEF Cqe, Cqes
    <3>2. cq'[s] = Append(cq[s], Cqe("wake")) /\ polls'[s] = polls[s] - 1
      BY <1>2, <2>2, Zenon DEF PollFires
    <3> QED
      BY <1>2, <1>3, <3>1, <3>2
  <2>3. CASE polls'[s] = polls[s] /\ \E c \in Cqes : c # Cqe("wake") /\ cq'[s] = Append(cq[s], c)
    BY <1>2, <1>3, <2>3
  <2>4. ASSUME NEW r \in Rings, PollFires(r) \/ IoCompletes(r)
        PROVE  WakePolls(s)' = WakePolls(s)
    <3>1. CASE r # s
      BY <1>2, <2>1, <2>4, <3>1, Zenon DEF PollFires, IoCompletes
    <3>2. CASE r = s /\ IoCompletes(r)
      <4>1. Cqe("io") \in Cqes /\ Cqe("io") # Cqe("wake")
        BY DEF Cqe, Cqes
      <4>2. polls'[s] = polls[s] /\ cq'[s] = Append(cq[s], Cqe("io"))
        BY <1>2, <3>2, Zenon DEF IoCompletes
      <4> QED
        BY <2>3, <4>1, <4>2, Zenon
    <3> QED
      BY <2>2, <2>4, <3>1, <3>2, Zenon
  <2>5. ASSUME NEW m \in msgs, MessageArrives(m)
        PROVE  WakePolls(s)' = WakePolls(s)
    <3>1. m.to \in Rings /\ m.task \in Tasks /\ polls'[s] = polls[s]
      BY <2>5, Zenon DEF TypeOK, Messages, MessageArrives
    <3>2. TaskCqe(m.task) \in Cqes /\ TaskCqe(m.task) # Cqe("wake")
      BY <3>1 DEF TaskCqe, Cqe, Cqes
    <3>3. cq'[s] = IF m.to = s THEN Append(cq[s], TaskCqe(m.task)) ELSE cq[s]
      BY <1>2, <2>5 DEF MessageArrives
    <3> QED
      BY <2>1, <2>3, <3>1, <3>2, <3>3, ZenonT(40)
  <2> QED
    BY <2>4, <2>5 DEF KernelStep
<1> QED
  BY <1>1, <1>4, PollKept, Zenon

\* wake_poll_armed_ stays exact in every step.
LEMMA PollStep ==
  ASSUME TypeOK, NEW s \in Rings, OwnerPlaced(s), PollHeld(s), Next
  PROVE  PollHeld(s)'
<1>1. ASSUME NEW r \in Rings \ {s}, OwnerStep(r) \/ WaitTimesOut(r)
      PROVE  PollHeld(s)'
  <2>1. /\ armed'[s] = armed[s] /\ polls'[s] = polls[s] /\ cq'[s] = cq[s] /\ sq'[s] = sq[s]
        /\ unflushed'[s] = unflushed[s] /\ pc'[s] = pc[s]
    BY <1>1, OwnerLocal
  <2> QED
    BY <2>1, PollUntouched, Zenon
<1>2. ASSUME OwnerStep(s) \/ WaitTimesOut(s)
      PROVE  PollHeld(s)'
  <2>1. CASE \/ ProcessPostedTasks(s) \/ RunTask(s) \/ TasksDone(s) \/ AppReturns(s)
             \/ WaitReturns(s) \/ WaitTimesOut(s) \/ DrainEnds(s)
    <3>1. UNCHANGED <<armed, polls, cq, sq, unflushed>>
      BY <2>1, ZenonT(40) DEF ProcessPostedTasks, RunTask, TasksDone, AppReturns, WaitReturns, WaitTimesOut,
           DrainEnds, kernelVars, ringVars
    <3>2. pc'[s] = "wait" => pc[s] = "wait"
      BY <2>1 DEF ProcessPostedTasks, RunTask, TasksDone, AppReturns, WaitReturns, WaitTimesOut,
           DrainEnds, Goto, TypeOK
    <3> QED
      BY <3>1, <3>2, PollUntouched, Zenon
  <2>2. CASE DispatchFlush(s)
    <3>1. PICK ok \in SubmitResults : FlushSubmissions(s, sq[s], unflushed[s], ok)
      BY <2>2, Zenon DEF DispatchFlush
    <3>2. armed' = armed /\ cq' = cq /\ pc'[s] = "arm1" /\ sq[s] \in Sqes
      BY <2>2, Zenon DEF DispatchFlush, Goto, TypeOK
    <3>3. CASE unflushed[s] = 0
      <4>1. polls' = polls /\ unflushed' = unflushed /\ sq'[s] = sq[s]
        BY <3>1, <3>3, Zenon DEF FlushSubmissions, TypeOK
      <4> QED
        BY <3>2, <4>1, PollUntouched, Zenon
    <3>4. CASE unflushed[s] # 0
      <4>1. IoUringSubmit(s, sq[s], ok)
        BY <3>1, <3>4, Zenon DEF FlushSubmissions
      <4> QED
        BY <3>2, <4>1, PollSubmitted, Zenon
    <3> QED
      BY <3>3, <3>4, Zenon
  <2> QED
    BY <1>2, <2>1, <2>2, PollArmed, PollHandled, Zenon DEF OwnerStep
<1>3. ASSUME NEW t \in Threads \ {s}, SenderStep(t)
      PROVE  PollHeld(s)'
  <2>1. UNCHANGED <<armed, cq, pc>> /\ unflushed'[s] = unflushed[s] /\ sq'[s] = sq[s] /\ polls'[s] = polls[s]
    BY <1>3, SenderLocal, Zenon
  <2> QED
    BY <2>1, PollUntouched, Zenon
<1>4. ASSUME SenderStep(s)
      PROVE  PollHeld(s)'
  <2>0. UNCHANGED <<armed, cq, pc>> /\ sq[s] \in Sqes /\ unflushed[s] \in Nat
    <3>1. s \in Threads
      BY Zenon DEF Threads
    <3>2. UNCHANGED <<armed, cq, pc>>
      BY <1>4, <3>1, SenderLocal, Zenon
    <3> QED
      BY <3>2, RingSizes DEF TypeOK
  <2>1. CASE UNCHANGED <<sq, unflushed, polls>>
    BY <2>0, <2>1, PollUntouched, Zenon
  <2>2. CASE PrepareIo(s)
    <3>1. PICK ok \in SubmitResults : Submit(s, [sq[s] EXCEPT !.ios = @ + 1], ok)
      BY <2>2 DEF PrepareIo
    <3>2. [sq[s] EXCEPT !.ios = @ + 1] \in Sqes /\ [sq[s] EXCEPT !.ios = @ + 1].polls = sq[s].polls
      BY <2>0 DEF Sqes
    <3>3. CASE unflushed[s] + 1 < SubmitBatch
      <4>1. /\ sq'[s] = [sq[s] EXCEPT !.ios = @ + 1] /\ unflushed'[s] = unflushed[s] + 1
            /\ polls' = polls /\ failures' = failures
        BY <3>1, <3>3, ZenonT(40) DEF Submit, TypeOK
      <4>2. unflushed'[s] # 0 /\ sq'[s].polls = sq[s].polls /\ WakePolls(s)' = WakePolls(s)
        BY <2>0, <3>2, <4>1 DEF WakePolls
      <4> QED
        BY <2>0, <4>1, <4>2, Zenon DEF PollHeld, Unfailed
    <3>4. CASE ~(unflushed[s] + 1 < SubmitBatch)
      <4>1. IoUringSubmit(s, [sq[s] EXCEPT !.ios = @ + 1], ok)
        <5>1. FlushSubmissions(s, [sq[s] EXCEPT !.ios = @ + 1], unflushed[s] + 1, ok)
          BY <3>1, <3>4, Zenon DEF Submit
        <5>2. unflushed[s] + 1 # 0
          BY <2>0
        <5> QED
          BY <5>1, <5>2, Zenon DEF FlushSubmissions
      <4> QED
        BY <2>0, <3>2, <4>1, PollSubmitted, Zenon
    <3> QED
      BY <3>3, <3>4
  <2>3. ASSUME NEW k \in Tasks, NEW r \in Rings, RunOnRingMessage(s, r, k)
        PROVE  PollHeld(s)'
    <3> DEFINE entries == [sq[s] EXCEPT !.msgs = @ \cup {[to |-> r, task |-> k]}]
    <3>1. entries \in Sqes /\ entries.polls = sq[s].polls
      BY <2>0 DEF Sqes, Messages
    <3>2. UNCHANGED <<sq, unflushed, polls>> \/ \E ok \in SubmitResults : IoUringSubmit(s, entries, ok)
      BY <2>3, Zenon DEF RunOnRingMessage
    <3> HIDE DEF entries
    <3> QED
      BY <2>0, <2>1, <3>1, <3>2, PollSubmitted
  <2>4. CASE Wake(s) \/ \E k \in Tasks, r \in Rings : Post(s, r, k) \/ RunOnRingInline(r, k)
    BY <2>1, <2>4, Zenon DEF Wake, Post, RunOnRingInline, kernelVars, ringVars
  <2> QED
    BY <1>4, <2>2, <2>3, <2>4, ZenonT(40) DEF SenderStep
<1> QED
  BY <1>1, <1>2, <1>3, <1>4, PollCompletes, Zenon DEF Next, Threads

\* A step that posts nothing, takes no wakeup away and leaves the owner where
\* it was, or at a place where it has nothing to be woken for.
LEMMA CoverKept ==
  ASSUME NEW s \in Rings, PostsCovered(s), ForeignPosted(s)' => ForeignPosted(s),
         wake_fd[s] => wake_fd'[s],
         \A t \in Threads : waking[t] = s => waking'[t] = s \/ wake_fd'[s],
         pc'[s] = pc[s] \/ pc'[s] \in {"drain", "arm2", "process2"}
         \/ pc[s] \notin {"drain", "arm2", "process2"}
  PROVE  PostsCovered(s)'
  BY DEF PostsCovered

\* Until the owner is on its way to ProcessPostedTasks again, every foreign task
\* in posted_ has its wakeup, in every step.
LEMMA CoveredStep ==
  ASSUME TypeOK, NEW s \in Rings, PostsCovered(s), Next
  PROVE  PostsCovered(s)'
<1>1. ASSUME NEW r \in Rings \ {s}, OwnerStep(r) \/ WaitTimesOut(r)
      PROVE  PostsCovered(s)'
  <2>1. posted'[s] = posted[s] /\ wake_fd'[s] = wake_fd[s] /\ pc'[s] = pc[s]
    BY <1>1, OwnerLocal, ZenonT(40)
  <2>2. UNCHANGED <<waking, source>>
    BY <1>1, Zenon DEF OwnerStep, WaitTimesOut, ProcessPostedTasks, RunTask, TasksDone, AppReturns,
         DispatchFlush, ArmWakePoll, WaitReturns, HandleCqe, DrainEnds, taskVars
  <2> QED
    BY <2>1, <2>2, CoverKept, Zenon DEF ForeignPosted
<1>2. ASSUME OwnerStep(s) \/ WaitTimesOut(s)
      PROVE  PostsCovered(s)'
  <2>0. UNCHANGED <<waking, source>>
    BY <1>2 DEF OwnerStep, WaitTimesOut, ProcessPostedTasks, RunTask, TasksDone, AppReturns,
         DispatchFlush, ArmWakePoll, WaitReturns, HandleCqe, DrainEnds, taskVars
  <2>1. CASE ProcessPostedTasks(s)
    <3>1. posted'[s] = <<>>
      BY <2>1 DEF ProcessPostedTasks, TakePosted, TypeOK
    <3>2. ~ForeignPosted(s)'
      BY <3>1 DEF ForeignPosted
    <3> QED
      BY <3>2, Zenon DEF PostsCovered
  <2>2. CASE HandleCqe(s)
    <3>1. pc' = pc /\ pc[s] = "drain"
      BY <2>2, Zenon DEF HandleCqe, At
    <3> QED
      BY <3>1, Zenon DEF PostsCovered
  <2>3. CASE \/ RunTask(s) \/ TasksDone(s) \/ AppReturns(s) \/ DispatchFlush(s) \/ ArmWakePoll(s)
             \/ WaitReturns(s) \/ WaitTimesOut(s) \/ DrainEnds(s)
    <3>1. UNCHANGED <<posted, wake_fd>>
      BY <2>3, Zenon DEF RunTask, TasksDone, AppReturns, DispatchFlush, ArmWakePoll, WaitReturns,
           WaitTimesOut, DrainEnds, ringVars
    <3>2. \/ pc'[s] = pc[s] \/ pc'[s] \in {"drain", "arm2", "process2"}
          \/ pc[s] \notin {"drain", "arm2", "process2"}
      <4>1. CASE RunTask(s) \/ TasksDone(s) \/ AppReturns(s) \/ DispatchFlush(s)
        BY <4>1, Zenon DEF RunTask, TasksDone, AppReturns, DispatchFlush, Goto, At
      <4>2. CASE ArmWakePoll(s)
        BY <4>2, Zenon DEF ArmWakePoll, Goto, At, TypeOK
      <4>3. CASE WaitReturns(s) \/ WaitTimesOut(s) \/ DrainEnds(s)
        BY <4>3, Zenon DEF WaitReturns, WaitTimesOut, DrainEnds, Goto, TypeOK
      <4> QED
        BY <2>3, <4>1, <4>2, <4>3, Zenon
    <3> QED
      BY <2>0, <3>1, <3>2, CoverKept, Zenon DEF ForeignPosted
  <2> QED
    BY <1>2, <2>1, <2>2, <2>3, ZenonT(40) DEF OwnerStep
<1>3. ASSUME NEW t \in Threads, Wake(t)
      PROVE  PostsCovered(s)'
  <2>1. UNCHANGED <<posted, pc, source>>
    BY <1>3, Zenon DEF Wake, loopVars, taskVars
  <2>2. wake_fd[s] => wake_fd'[s]
    BY <1>3, Zenon DEF Wake, TypeOK
  <2>3. \A u \in Threads : waking[u] = s => waking'[u] = s \/ wake_fd'[s]
    BY <1>3, ZenonT(40) DEF Wake, TypeOK
  <2> QED
    BY <2>1, <2>2, <2>3, CoverKept, Zenon DEF ForeignPosted
<1>4. ASSUME NEW t \in Threads, PrepareIo(t)
      PROVE  PostsCovered(s)'
  <2>1. UNCHANGED <<posted, wake_fd, pc, waking, source>>
    BY <1>4 DEF PrepareIo, loopVars, taskVars
  <2> QED
    BY <2>1, CoverKept DEF ForeignPosted
<1>5. ASSUME NEW t \in Threads, NEW r \in Rings, NEW k \in Tasks, Post(t, r, k)
      PROVE  PostsCovered(s)'
  <2>1. /\ UNCHANGED <<pc, wake_fd>> /\ source[k] = NoRing /\ waking[t] = NoRing
        /\ source' = [source EXCEPT ![k] = t]
        /\ posted' = [posted EXCEPT ![r] = Append(posted[r], k)]
        /\ waking' = [waking EXCEPT ![t] = IF t = r THEN NoRing ELSE r]
    BY <1>5, Zenon DEF Post, MaySend, Unsent, SentBy, PushPosted, ThenWakes, loopVars, ringVars
  <2>2. \A u \in Threads : waking[u] = s => waking'[u] = s
    BY <2>1, RingNames, ZenonT(40) DEF TypeOK
  <2>3. ASSUME NEW i \in DOMAIN posted[s], source'[posted[s][i]] # s
        PROVE  ForeignPosted(s)
    <3>0. posted[s] \in Seq(Tasks)
      BY DEF TypeOK
    <3>1. posted[s][i] \in Tasks
      BY <3>0, SeqElement, SeqIndexed, Zenon
    <3>2. source[posted[s][i]] # s
      BY <2>1, <2>3, <3>1, RingNames, ZenonT(40) DEF TypeOK
    <3> QED
      BY <3>2, Zenon DEF ForeignPosted
  <2>4. CASE s # r
    <3>1. posted'[s] = posted[s]
      BY <2>1, <2>4, Zenon DEF TypeOK
    <3>2. ForeignPosted(s)' => ForeignPosted(s)
      BY <2>3, <3>1, Zenon DEF ForeignPosted
    <3> QED
      BY <2>1, <2>2, <3>2, CoverKept, Zenon
  <2>5. CASE s = r /\ t # r
    BY <2>1, <2>5, Zenon DEF PostsCovered, TypeOK
  <2>6. CASE s = r /\ t = r
    <3>1. /\ posted[s] \in Seq(Tasks) /\ posted'[s] = Append(posted[s], k)
          /\ source'[k] = s
      BY <2>1, <2>6, ZenonT(40) DEF TypeOK
    <3>2. /\ DOMAIN posted[s] = 1 .. Len(posted[s]) /\ Len(posted[s]) \in Nat
          /\ DOMAIN posted'[s] = 1 .. Len(posted[s]) + 1
          /\ posted'[s][Len(posted[s]) + 1] = k
          /\ \A i \in 1 .. Len(posted[s]) : posted'[s][i] = posted[s][i]
      BY <3>1, SeqAppend, SeqIndexed
    <3>3. ASSUME NEW i \in DOMAIN posted'[s], source'[posted'[s][i]] # s
          PROVE  ForeignPosted(s)
      <4>1. i \in 1 .. Len(posted[s])
        BY <3>1, <3>2, <3>3
      <4> QED
        BY <2>3, <3>2, <3>3, <4>1, ZenonT(40)
    <3>4. ForeignPosted(s)' => ForeignPosted(s)
      BY <3>3, Zenon DEF ForeignPosted
    <3> QED
      BY <2>1, <2>2, <3>4, CoverKept, ZenonT(40)
  <2> QED
    BY <2>4, <2>5, <2>6, Zenon
<1>6. ASSUME NEW t \in Threads, NEW r \in Rings, NEW k \in Tasks,
             RunOnRingInline(t, k) \/ RunOnRingMessage(t, r, k)
      PROVE  PostsCovered(s)'
  <2>1. /\ UNCHANGED <<pc, posted, wake_fd, waking>> /\ source[k] = NoRing
        /\ source' = [source EXCEPT ![k] = t]
    BY <1>6, Zenon DEF RunOnRingInline, RunOnRingMessage, Unsent, SentBy, loopVars, ringVars
  <2>2. ASSUME NEW i \in DOMAIN posted[s], source'[posted[s][i]] # s
        PROVE  ForeignPosted(s)
    <3>0. posted[s] \in Seq(Tasks)
      BY DEF TypeOK
    <3>1. posted[s][i] \in Tasks
      BY <3>0, SeqElement, SeqIndexed, Zenon
    <3>2. source[posted[s][i]] # s
      BY <2>1, <2>2, <3>1, RingNames, ZenonT(40) DEF TypeOK
    <3> QED
      BY <3>2, Zenon DEF ForeignPosted
  <2>3. ForeignPosted(s)' => ForeignPosted(s)
    BY <2>1, <2>2, Zenon DEF ForeignPosted
  <2> QED
    BY <2>1, <2>3, CoverKept, Zenon
<1>7. ASSUME KernelStep
      PROVE  PostsCovered(s)'
  <2>1. UNCHANGED <<posted, wake_fd, pc, waking, source>>
    BY <1>7 DEF KernelStep, PollFires, IoCompletes, MessageArrives, loopVars, ringVars, taskVars
  <2> QED
    BY <2>1, CoverKept, ZenonT(40) DEF ForeignPosted
<1> QED
  BY <1>1, <1>2, <1>3, <1>4, <1>5, <1>6, <1>7, ZenonT(40) DEF Next, SenderStep, Threads

-----------------------------------------------------------------------------
\* Before the first Dispatch every ring has its poll with the kernel and
\* nothing else.
LEMMA InitAwake ==
  Init => AwakeInv
<1> SUFFICES ASSUME Init, NEW s \in Rings
             PROVE  OwnerPlaced(s) /\ PollHeld(s) /\ PostsCovered(s)
  BY InitTypes, Zenon DEF AwakeInv
<1>1. OwnerPlaced(s)
  BY DEF Init, OwnerPlaced
<1>2. WakePolls(s) = 1 /\ armed[s] = TRUE
  BY OccurrencesEmpty DEF Init, WakePolls
<1>3. sq[s] = NoSqes /\ sq[s].polls = 0
  BY DEF Init, NoSqes
<1>4. PollHeld(s)
  BY <1>2, <1>3 DEF PollHeld, Unfailed
<1>5. PostsCovered(s)
  BY DEF Init, PostsCovered, ForeignPosted
<1> QED
  BY <1>1, <1>4, <1>5, Zenon

\* Every step keeps the invariant.
LEMMA NextAwake ==
  AwakeInv /\ [Next]_vars => AwakeInv'
<1>1. ASSUME AwakeInv, Next
      PROVE  AwakeInv'
  <2>1. TypeOK'
    BY <1>1, TypeStep DEF AwakeInv
  <2>2. ASSUME NEW s \in Rings
        PROVE  OwnerPlaced(s)' /\ PollHeld(s)' /\ PostsCovered(s)'
    BY <1>1, PlacedStep, PollStep, CoveredStep, Zenon DEF AwakeInv
  <2> QED
    BY <2>1, <2>2 DEF AwakeInv
<1>2. ASSUME AwakeInv, UNCHANGED vars
      PROVE  AwakeInv'
  <2>1. TypeOK'
    BY <1>2, TypeStep, Zenon DEF AwakeInv
  <2>2. UNCHANGED <<pc, app, posted, wake_fd, armed, unflushed, sq, polls, cq, waking, source, failures>>
    BY <1>2 DEF vars, loopVars, kernelVars, ringVars, taskVars
  <2> QED
    BY <1>2, <2>1, <2>2, Zenon DEF AwakeInv, OwnerPlaced, PollHeld, Unfailed, WakePolls, PostsCovered, ForeignPosted
<1> QED
  BY <1>1, <1>2

\* The invariant says what a waiting owner relies on.
LEMMA AwakeSuffices ==
  AwakeInv => WaitsAwake
<1> SUFFICES ASSUME AwakeInv
             PROVE  WaitsAwake
  OBVIOUS
<1>1. ASSUME NEW r \in Rings, failures = 0, pc[r] = "wait", ForeignPosted(r)
      PROVE  \/ \E t \in Threads : waking[t] = r
             \/ cq[r] # <<>>
             \/ wake_fd[r] /\ polls[r] > 0
  <2>1. WakePolls(r) = 1
    BY <1>1, Zenon DEF AwakeInv, PollHeld, Unfailed
  <2>2. /\ polls[r] \in Nat /\ WakePolls(r) = polls[r] + Occurrences(Cqe("wake"), cq[r])
    BY WakePollsNat, Zenon DEF AwakeInv
  <2>3. cq[r] = <<>> => polls[r] > 0
    BY <2>1, <2>2, OccurrencesEmpty
  <2>4. wake_fd[r] \/ \E t \in Threads : waking[t] = r
    BY <1>1, Zenon DEF AwakeInv, PostsCovered
  <2> QED
    BY <2>3, <2>4, Zenon
<1>2. PostedWorkWakes
  BY <1>1, Zenon DEF PostedWorkWakes, ForeignPosted
<1>3. SubmittedBeforeWait
  BY Zenon DEF AwakeInv, OwnerPlaced, PollHeld, Unfailed, SubmittedBeforeWait
<1>4. WakePollExact
  BY DEF AwakeInv, PollHeld, Unfailed, WakePollExact
<1> QED
  BY <1>2, <1>3, <1>4, Zenon DEF WaitsAwake

\* No wakeup is lost: an owner that waits in Dispatch has submitted what was
\* prepared, knows truly whether its wake poll is armed, and has a wakeup
\* coming for every task another thread posted, for any number of rings,
\* threads and tasks, any queue depth, batch size and budget.
THEOREM NoLostWakeup == Spec => []WaitsAwake
<1>1. Init => AwakeInv
  BY InitAwake
<1>2. AwakeInv /\ [Next]_vars => AwakeInv'
  BY NextAwake
<1>3. AwakeInv => WaitsAwake
  BY AwakeSuffices
<1> QED
  BY <1>1, <1>2, <1>3, PTL DEF Spec

-----------------------------------------------------------------------------
(* Every accepted task is in one place. *)

Letter(k, s) == [to |-> s, task |-> k]
Mail(k, s) == IF Letter(k, s) \in msgs THEN 1 ELSE 0

\* Before it is sent a task is nowhere; once it was accepted it is in one place.
Accounted(k) ==
  /\ Unsent(k) => \A r \in Rings : Places(k, r) = 0
  /\ ~Unsent(k) /\ k \notin refused =>
       \E r \in Rings : Places(k, r) = 1 /\ \A s \in Rings \ {r} : Places(k, s) = 0

TasksInv == OrderInv /\ \A k \in Tasks : Accounted(k)

\* A letter is in the set of messages once or not at all.
LEMMA CountOne ==
  ASSUME NEW M, NEW x
  PROVE  Cardinality({m \in M : m = x}) = IF x \in M THEN 1 ELSE 0
<1>1. CASE x \in M
  <2>1. {m \in M : m = x} = {x}
    BY <1>1
  <2> QED
    BY <1>1, <2>1, FS_Singleton, Zenon
<1>2. CASE x \notin M
  <2>1. {m \in M : m = x} = {}
    BY <1>2, Zenon
  <2> QED
    BY <1>2, <2>1, FS_EmptySet, Zenon
<1> QED
  BY <1>1, <1>2

\* The five places, before and after a step.
LEMMA PlacesSum ==
  ASSUME NEW k, NEW s
  PROVE  /\ Places(k, s) = Occurrences(k, posted[s]) + Occurrences(k, tasks[s]) + Occurrences(k, ran[s])
                           + Occurrences(TaskCqe(k), cq[s]) + Mail(k, s)
         /\ Places(k, s)' = Occurrences(k, posted'[s]) + Occurrences(k, tasks'[s]) + Occurrences(k, ran'[s])
                           + Occurrences(TaskCqe(k), cq'[s]) + Mail(k, s)'
<1>1. /\ Cardinality({m \in msgs : m = [to |-> s, task |-> k]}) = IF [to |-> s, task |-> k] \in msgs THEN 1 ELSE 0
      /\ Cardinality({m \in msgs' : m = [to |-> s, task |-> k]}) = IF [to |-> s, task |-> k] \in msgs' THEN 1 ELSE 0
  BY CountOne, Zenon
<1> QED
  BY <1>1, Zenon DEF Places, Mail, Letter

\* The counts are numbers.
LEMMA PlacesNat ==
  ASSUME TypeOK, NEW k, NEW s \in Rings
  PROVE  /\ Occurrences(k, posted[s]) \in Nat /\ Occurrences(k, tasks[s]) \in Nat
         /\ Occurrences(k, ran[s]) \in Nat /\ Occurrences(TaskCqe(k), cq[s]) \in Nat /\ Mail(k, s) \in Nat
<1>0. /\ posted[s] \in Seq(Tasks) /\ tasks[s] \in Seq(Tasks) /\ ran[s] \in Seq(Tasks) /\ cq[s] \in Seq(Cqes)
  BY RingTypes
<1>1. Occurrences(k, posted[s]) \in Nat
  BY <1>0, OccurrencesNat, Zenon
<1>2. Occurrences(k, tasks[s]) \in Nat
  BY <1>0, OccurrencesNat, Zenon
<1>3. Occurrences(k, ran[s]) \in Nat
  BY <1>0, OccurrencesNat, Zenon
<1>4. Occurrences(TaskCqe(k), cq[s]) \in Nat
  BY <1>0, OccurrencesNat, Zenon
<1> QED
  BY <1>1, <1>2, <1>3, <1>4, ZenonT(40) DEF Mail

\* No message for a task that was not refused stays in a submission queue, so
\* no step but the one that sends it adds a message for it.
LEMMA NoOtherMail ==
  ASSUME OrderInv, Next, NEW k \in Tasks, Unsent(k) \/ k \notin refused, source'[k] = source[k],
         NEW s \in Rings, Letter(k, s) \in msgs'
  PROVE  Letter(k, s) \in msgs
<1>1. Letter(k, s).task = k
  BY Zenon DEF Letter
<1>2. \A r \in Rings : Letter(k, s) \notin sq[r].msgs
  BY <1>1, Zenon DEF OrderInv, MessagesProper, Travels
<1>3. ~SentNow(k)
  BY Zenon DEF SentNow, Unsent
<1>4. TypeOK
  BY Zenon DEF OrderInv
<1> QED
  BY <1>1, <1>2, <1>3, <1>4, MessageSources, ZenonT(40)

\* A step that moves nothing here.
LEMMA PlacesSame ==
  ASSUME NEW k, NEW s, posted'[s] = posted[s], tasks'[s] = tasks[s], ran'[s] = ran[s], cq'[s] = cq[s],
         Letter(k, s) \in msgs' <=> Letter(k, s) \in msgs
  PROVE  Places(k, s)' = Places(k, s)
<1>1. Mail(k, s)' = Mail(k, s)
  BY DEF Mail, Letter
<1> QED
  BY <1>1, PlacesSum, Zenon

\* The owner moves tasks from posted_ to its batch and from there, or from a
\* completion, to what has run.
LEMMA OwnerMoves ==
  ASSUME OrderInv, NEW s \in Rings, NEW k \in Tasks, Letter(k, s) \in msgs' <=> Letter(k, s) \in msgs,
         ProcessPostedTasks(s) \/ RunTask(s) \/ HandleCqe(s)
  PROVE  Places(k, s)' = Places(k, s)
<1>0. TypeOK /\ LogSplit(s)
  BY Zenon DEF OrderInv
<1>1. /\ posted[s] \in Seq(Tasks) /\ tasks[s] \in Seq(Tasks) /\ ran[s] \in Seq(Tasks) /\ cq[s] \in Seq(Cqes)
  BY <1>0, RingTypes, Zenon
<1> DEFINE p == Occurrences(k, posted[s])
           t == Occurrences(k, tasks[s])
           r == Occurrences(k, ran[s])
           c == Occurrences(TaskCqe(k), cq[s])
           m == Mail(k, s)
<1>2n. p \in Nat /\ t \in Nat /\ r \in Nat /\ c \in Nat /\ m \in Nat
  BY <1>0, PlacesNat, Zenon
<1>2. /\ p = Occurrences(k, posted[s]) /\ t = Occurrences(k, tasks[s]) /\ r = Occurrences(k, ran[s])
      /\ c = Occurrences(TaskCqe(k), cq[s]) /\ m = Mail(k, s)
      /\ Places(k, s) = p + t + r + c + m
  BY PlacesSum, Zenon
<1> HIDE DEF p, t, r, c, m
<1>3. Mail(k, s)' = m
  BY <1>2, ZenonT(40) DEF Mail, Letter
<1>4. CASE ProcessPostedTasks(s)
  <2>1. posted'[s] = <<>> /\ tasks'[s] = posted[s] /\ tasks[s] = <<>> /\ ran' = ran /\ cq' = cq
    BY <1>0, <1>4, SwapDone, ZenonT(40) DEF ProcessPostedTasks, TakePosted, TypeOK, taskVars, kernelVars
  <2>2. Occurrences(k, posted'[s]) = 0 /\ t = 0 /\ Occurrences(k, tasks'[s]) = p
    BY <1>2, <2>1, OccurrencesEmpty, Zenon
  <2>2t. t = 0
    BY <2>2, Zenon
  <2>3. Places(k, s)' = 0 + p + r + c + m
    BY <1>2, <1>3, <2>1, <2>2, PlacesSum, ZenonT(40)
  <2>4. 0 + p + r + c + m = p + t + r + c + m
    BY <1>2n, <2>2t
  <2> QED
    BY <1>2, <2>3, <2>4, Zenon
<1>5. CASE RunTask(s)
  <2>1. /\ tasks[s] # <<>> /\ tasks'[s] = Tail(tasks[s]) /\ ran'[s] = Append(ran[s], Head(tasks[s]))
        /\ posted' = posted /\ cq' = cq
    BY <1>0, <1>5, ZenonT(40) DEF RunTask, Ran, TypeOK, kernelVars
  <2>2. Head(tasks[s]) \in Tasks
    BY <1>1, <2>1, SeqHeadTail, Zenon
  <2>3. CASE Head(tasks[s]) = k
    <3>1. Occurrences(k, tasks'[s]) = t - 1
      BY <1>1, <1>2, <2>1, <2>3, CountTail, ZenonT(40)
    <3>2. Occurrences(k, ran'[s]) = r + 1
      <4>1. Occurrences(k, Append(ran[s], k)) = Occurrences(k, ran[s]) + 1
        BY <1>1, CountAppend, ZenonT(40)
      <4> QED
        BY <1>2, <2>1, <2>3, <4>1, Zenon
    <3>3. Places(k, s)' = p + (t - 1) + (r + 1) + c + m
      BY <1>2, <1>3, <2>1, <3>1, <3>2, PlacesSum, ZenonT(40)
    <3>4. p + (t - 1) + (r + 1) + c + m = p + t + r + c + m
      BY <1>2n
    <3> QED
      BY <1>2, <3>3, <3>4, Zenon
  <2>4. CASE Head(tasks[s]) # k
    <3>1. Occurrences(k, tasks'[s]) = t
      BY <1>1, <1>2, <2>1, <2>4, CountTail, ZenonT(40)
    <3>2. Occurrences(k, ran'[s]) = r
      <4>1. Occurrences(k, Append(ran[s], Head(tasks[s]))) = Occurrences(k, ran[s])
        BY <1>1, <2>2, <2>4, CountOther, ZenonT(40)
      <4> QED
        BY <1>2, <2>1, <4>1, Zenon
    <3> QED
      BY <1>2, <1>3, <2>1, <3>1, <3>2, PlacesSum, ZenonT(40)
  <2> QED
    BY <2>3, <2>4, Zenon
<1>6. CASE HandleCqe(s)
  <2>1. cq[s] # <<>> /\ cq'[s] = Tail(cq[s]) /\ posted' = posted /\ tasks' = tasks
    BY <1>0, <1>6, Zenon DEF HandleCqe, TypeOK
  <2>2. PICK e \in Cqes : e = Head(cq[s])
    BY <1>1, <2>1, SeqHeadTail, Zenon
  <2>3. e = TaskCqe(k) <=> e.kind = "task" /\ e.task = k
    BY DEF TaskCqe, Cqes
  <2>4. CASE e = TaskCqe(k)
    <3>1. ran'[s] = Append(ran[s], k)
      <4>1. e.kind = "task" /\ e.task = k
        BY <2>3, <2>4, Zenon
      <4>2. Ran(s, Head(cq[s]).task)
        BY <1>6, <2>2, <4>1, Zenon DEF HandleCqe
      <4>3. Ran(s, k)
        BY <2>2, <4>1, <4>2, Zenon
      <4> QED
        BY <1>0, <4>3, Zenon DEF Ran, TypeOK
    <3>2. Occurrences(k, ran'[s]) = r + 1
      <4>1. Occurrences(k, Append(ran[s], k)) = Occurrences(k, ran[s]) + 1
        BY <1>1, CountAppend, ZenonT(40)
      <4> QED
        BY <1>2, <3>1, <4>1, Zenon
    <3>3. Occurrences(TaskCqe(k), cq'[s]) = c - 1
      BY <1>1, <1>2, <2>1, <2>2, <2>4, CountTail, ZenonT(40)
    <3>4. Places(k, s)' = p + t + (r + 1) + (c - 1) + m
      BY <1>2, <1>3, <2>1, <3>2, <3>3, PlacesSum, ZenonT(40)
    <3>5. p + t + (r + 1) + (c - 1) + m = p + t + r + c + m
      BY <1>2n
    <3> QED
      BY <1>2, <3>4, <3>5, Zenon
  <2>5. CASE e # TaskCqe(k)
    <3>1. Occurrences(TaskCqe(k), cq'[s]) = c
      BY <1>1, <1>2, <2>1, <2>2, <2>5, CountTail, ZenonT(40)
    <3>2. Occurrences(k, ran'[s]) = r
      <4>1. CASE e.kind = "task"
        <5>1. ran'[s] = Append(ran[s], e.task) /\ e.task \in Tasks /\ e.task # k
          BY <1>0, <1>6, <2>2, <2>3, <2>5, <4>1, ZenonT(40) DEF HandleCqe, Ran, TypeOK, Cqes
        <5> QED
          <6>1. Occurrences(k, Append(ran[s], e.task)) = Occurrences(k, ran[s])
            BY <1>1, <5>1, CountOther, ZenonT(40)
          <6> QED
            BY <1>2, <5>1, <6>1, Zenon
      <4>2. CASE e.kind # "task"
        BY <1>2, <1>6, <2>2, <4>2, Zenon DEF HandleCqe
      <4> QED
        BY <4>1, <4>2, Zenon
    <3> QED
      BY <1>2, <1>3, <2>1, <3>1, <3>2, PlacesSum, ZenonT(40)
  <2> QED
    BY <2>4, <2>5, Zenon
<1> QED
  BY <1>4, <1>5, <1>6, Zenon

\* The kernel turns a message into a completion.
LEMMA KernelMoves ==
  ASSUME TypeOK, NEW s \in Rings, NEW k \in Tasks, KernelStep
  PROVE  Places(k, s)' = Places(k, s)
<1>1. cq[s] \in Seq(Cqes)
  BY RingTypes, Zenon
<1> DEFINE p == Occurrences(k, posted[s])
           t == Occurrences(k, tasks[s])
           r == Occurrences(k, ran[s])
           c == Occurrences(TaskCqe(k), cq[s])
           m == Mail(k, s)
<1>2n. p \in Nat /\ t \in Nat /\ r \in Nat /\ c \in Nat /\ m \in Nat
  BY PlacesNat, Zenon
<1>2. /\ p = Occurrences(k, posted[s]) /\ t = Occurrences(k, tasks[s]) /\ r = Occurrences(k, ran[s])
      /\ c = Occurrences(TaskCqe(k), cq[s]) /\ m = Mail(k, s)
      /\ Places(k, s) = p + t + r + c + m
  BY PlacesSum, Zenon
<1> HIDE DEF p, t, r, c, m
<1>3. UNCHANGED <<posted, tasks, ran>>
  BY Zenon DEF KernelStep, PollFires, IoCompletes, MessageArrives, loopVars, taskVars
<1>4. ASSUME NEW e \in Cqes, e # TaskCqe(k), cq'[s] = Append(cq[s], e),
             Letter(k, s) \in msgs' <=> Letter(k, s) \in msgs
      PROVE  Places(k, s)' = Places(k, s)
  <2>1. Occurrences(TaskCqe(k), cq'[s]) = c
    <3>1. Occurrences(TaskCqe(k), Append(cq[s], e)) = Occurrences(TaskCqe(k), cq[s])
      BY <1>1, <1>4, CountOther, ZenonT(40)
    <3> QED
      BY <1>2, <1>4, <3>1, Zenon
  <2>2. Mail(k, s)' = m
    BY <1>2, <1>4, ZenonT(40) DEF Mail, Letter
  <2> QED
    BY <1>2, <1>3, <2>1, <2>2, PlacesSum, ZenonT(40)
<1>5. ASSUME NEW u \in Rings, PollFires(u) \/ IoCompletes(u)
      PROVE  Places(k, s)' = Places(k, s)
  <2>1. msgs' = msgs /\ (cq'[s] = cq[s] \/ cq'[s] = Append(cq[s], Cqe("wake")) \/ cq'[s] = Append(cq[s], Cqe("io")))
    BY <1>5, ZenonT(40) DEF PollFires, IoCompletes, TypeOK
  <2>2. /\ Cqe("wake") \in Cqes /\ Cqe("io") \in Cqes
        /\ Cqe("wake") # TaskCqe(k) /\ Cqe("io") # TaskCqe(k)
    BY DEF Cqe, Cqes, TaskCqe
  <2>3. CASE cq'[s] = cq[s]
    BY <1>3, <2>1, <2>3, PlacesSame, ZenonT(40)
  <2>4. CASE cq'[s] # cq[s]
    BY <1>4, <2>1, <2>2, <2>4, ZenonT(40)
  <2> QED
    BY <2>3, <2>4, Zenon
<1>6. ASSUME NEW l \in msgs, MessageArrives(l)
      PROVE  Places(k, s)' = Places(k, s)
  <2>1. l \in Messages /\ l.to \in Rings /\ l.task \in Tasks
    BY Zenon DEF TypeOK, Messages
  <2>2. TaskCqe(l.task) \in Cqes /\ (TaskCqe(l.task) = TaskCqe(k) <=> l.task = k)
    BY <2>1 DEF TaskCqe, Cqes
  <2>3. l = Letter(k, s) <=> (l.to = s /\ l.task = k)
    BY <2>1 DEF Letter, Messages
  <2>4. msgs' = msgs \ {l} /\ cq'[s] = IF l.to = s THEN Append(cq[s], TaskCqe(l.task)) ELSE cq[s]
    BY <1>6, Zenon DEF MessageArrives, TypeOK
  <2>5. CASE l.to # s
    BY <1>3, <2>3, <2>4, <2>5, PlacesSame, ZenonT(40)
  <2>6. CASE l.to = s /\ l.task # k
    BY <1>4, <2>2, <2>3, <2>4, <2>6, ZenonT(40)
  <2>7. CASE l.to = s /\ l.task = k
    <3>1. Letter(k, s) \in msgs /\ Letter(k, s) \notin msgs'
      BY <2>3, <2>4, <2>7, Zenon
    <3>2. m = 1 /\ Mail(k, s)' = 0
      BY <1>2, <3>1, ZenonT(40) DEF Mail, Letter
    <3>2m. m = 1
      BY <3>2, Zenon
    <3>3. cq'[s] = Append(cq[s], TaskCqe(k)) /\ TaskCqe(k) \in Cqes
      BY <2>2, <2>4, <2>7, Zenon
    <3>4. Occurrences(TaskCqe(k), cq'[s]) = c + 1
      <4>1. Occurrences(TaskCqe(k), Append(cq[s], TaskCqe(k))) = Occurrences(TaskCqe(k), cq[s]) + 1
        BY <1>1, <3>3, CountAppend, ZenonT(40)
      <4> QED
        BY <1>2, <3>3, <4>1, Zenon
    <3>5. Places(k, s)' = p + t + r + (c + 1) + 0
      BY <1>2, <1>3, <3>2, <3>4, PlacesSum, ZenonT(40)
    <3>6. p + t + r + (c + 1) + 0 = p + t + r + c + m
      BY <1>2n, <3>2m
    <3> QED
      BY <1>2, <3>5, <3>6, Zenon
  <2> QED
    BY <2>5, <2>6, <2>7
<1> QED
  BY <1>5, <1>6, Zenon DEF KernelStep

\* Only the kernel takes a message away.
LEMMA MessagesStay ==
  ASSUME (\E r \in Rings : OwnerStep(r) \/ WaitTimesOut(r)) \/ (\E t \in Threads : SenderStep(t))
  PROVE  msgs \subseteq msgs'
<1>1. ASSUME NEW r \in Rings, OwnerStep(r) \/ WaitTimesOut(r)
      PROVE  msgs \subseteq msgs'
  BY <1>1, Zenon DEF OwnerStep, WaitTimesOut, ProcessPostedTasks, RunTask, TasksDone, AppReturns, DispatchFlush,
       FlushSubmissions, IoUringSubmit, ArmWakePoll, WaitReturns, HandleCqe, DrainEnds, kernelVars
<1>2. ASSUME NEW t \in Threads, SenderStep(t)
      PROVE  msgs \subseteq msgs'
  <2>1. CASE Wake(t) \/ PrepareIo(t)
    BY <2>1, Zenon DEF Wake, PrepareIo, Submit, FlushSubmissions, IoUringSubmit, kernelVars
  <2>2. ASSUME NEW k \in Tasks, NEW r \in Rings, Post(t, r, k) \/ RunOnRingInline(r, k)
        PROVE  msgs \subseteq msgs'
    BY <2>2 DEF Post, RunOnRingInline, kernelVars
  <2>3. ASSUME NEW k \in Tasks, NEW r \in Rings, RunOnRingMessage(t, r, k)
        PROVE  msgs \subseteq msgs'
    BY <2>3, Zenon DEF RunOnRingMessage, IoUringSubmit
  <2> QED
    BY <1>2, <2>1, <2>2, <2>3, Zenon DEF SenderStep
<1> QED
  BY <1>1, <1>2, Zenon

\* Adding a task to posted_ or to what has run adds one place of that task.
LEMMA PlacesAdded ==
  ASSUME TypeOK, NEW s \in Rings, NEW k \in Tasks, NEW x \in Tasks,
         tasks'[s] = tasks[s], cq'[s] = cq[s], msgs' = msgs,
         \/ posted'[s] = Append(posted[s], x) /\ ran'[s] = ran[s]
         \/ posted'[s] = posted[s] /\ ran'[s] = Append(ran[s], x)
  PROVE  Places(k, s)' = IF x = k THEN Places(k, s) + 1 ELSE Places(k, s)
<1>1. posted[s] \in Seq(Tasks) /\ ran[s] \in Seq(Tasks)
  BY RingTypes, Zenon
<1> DEFINE p == Occurrences(k, posted[s])
           t == Occurrences(k, tasks[s])
           r == Occurrences(k, ran[s])
           c == Occurrences(TaskCqe(k), cq[s])
           m == Mail(k, s)
<1>2n. p \in Nat /\ t \in Nat /\ r \in Nat /\ c \in Nat /\ m \in Nat
  BY PlacesNat, Zenon
<1>2. /\ p = Occurrences(k, posted[s]) /\ t = Occurrences(k, tasks[s]) /\ r = Occurrences(k, ran[s])
      /\ c = Occurrences(TaskCqe(k), cq[s]) /\ m = Mail(k, s)
      /\ Places(k, s) = p + t + r + c + m
  BY PlacesSum, Zenon
<1> HIDE DEF p, t, r, c, m
<1>3. Mail(k, s)' = m
  BY <1>2, Zenon DEF Mail, Letter
<1>4. CASE x # k
  <2>1. Occurrences(k, posted'[s]) = p /\ Occurrences(k, ran'[s]) = r
    <3>1. Occurrences(k, Append(posted[s], x)) = Occurrences(k, posted[s])
      BY <1>1, <1>4, CountOther, ZenonT(40)
    <3>2. Occurrences(k, Append(ran[s], x)) = Occurrences(k, ran[s])
      BY <1>1, <1>4, CountOther, ZenonT(40)
    <3> QED
      BY <1>2, <3>1, <3>2, ZenonT(40)
  <2>2. Places(k, s)' = p + t + r + c + m
    BY <1>2, <1>3, <2>1, PlacesSum, ZenonT(40)
  <2> QED
    BY <1>2, <1>4, <2>2, Zenon
<1>5. CASE x = k
  <2>1. CASE posted'[s] = Append(posted[s], x) /\ ran'[s] = ran[s]
    <3>1. Occurrences(k, posted'[s]) = p + 1
      <4>1. Occurrences(k, Append(posted[s], k)) = Occurrences(k, posted[s]) + 1
        BY <1>1, CountAppend, ZenonT(40)
      <4> QED
        BY <1>2, <1>5, <2>1, <4>1, Zenon
    <3>2. Places(k, s)' = (p + 1) + t + r + c + m
      BY <1>2, <1>3, <2>1, <3>1, PlacesSum, ZenonT(40)
    <3>3. (p + 1) + t + r + c + m = (p + t + r + c + m) + 1
      BY <1>2n
    <3> QED
      BY <1>2, <1>5, <3>2, <3>3, Zenon
  <2>2. CASE posted'[s] = posted[s] /\ ran'[s] = Append(ran[s], x)
    <3>1. Occurrences(k, ran'[s]) = r + 1
      <4>1. Occurrences(k, Append(ran[s], k)) = Occurrences(k, ran[s]) + 1
        BY <1>1, CountAppend, ZenonT(40)
      <4> QED
        BY <1>2, <1>5, <2>2, <4>1, Zenon
    <3>2. Places(k, s)' = p + t + (r + 1) + c + m
      BY <1>2, <1>3, <2>2, <3>1, PlacesSum, ZenonT(40)
    <3>3. p + t + (r + 1) + c + m = (p + t + r + c + m) + 1
      BY <1>2n
    <3> QED
      BY <1>2, <1>5, <3>2, <3>3, Zenon
  <2> QED
    BY <2>1, <2>2, Zenon
<1> QED
  BY <1>4, <1>5, Zenon

\* What Post and an inline RunOnRing add, for every task and ring.
LEMMA SenderAdds ==
  ASSUME TypeOK, NEW t \in Threads, NEW r \in Rings, NEW x \in Tasks, Post(t, r, x) \/ RunOnRingInline(r, x)
  PROVE  \A k \in Tasks, s \in Rings :
           Places(k, s)' = IF s = r /\ x = k THEN Places(k, s) + 1 ELSE Places(k, s)
<1> TAKE k \in Tasks, s \in Rings
<1>1. UNCHANGED <<tasks, cq, msgs>>
  BY Zenon DEF Post, RunOnRingInline, loopVars, kernelVars
<1>2. CASE s = r
  <2>1. \/ posted'[s] = Append(posted[s], x) /\ ran'[s] = ran[s]
        \/ posted'[s] = posted[s] /\ ran'[s] = Append(ran[s], x)
    BY <1>2, ZenonT(40) DEF Post, PushPosted, RunOnRingInline, Ran, TypeOK
  <2>2. Places(k, s)' = IF x = k THEN Places(k, s) + 1 ELSE Places(k, s)
    BY <1>1, <2>1, PlacesAdded, ZenonT(40)
  <2> QED
    BY <1>2, <2>2, Zenon
<1>3. CASE s # r
  <2>1. posted'[s] = posted[s] /\ ran'[s] = ran[s]
    BY <1>3, Zenon DEF Post, PushPosted, RunOnRingInline, Ran, TypeOK
  <2> QED
    BY <1>1, <1>3, <2>1, PlacesSame, ZenonT(40)
<1> QED
  BY <1>2, <1>3, ZenonT(40)

\* No step but the one that sends it changes how many places a task has, unless
\* it was refused.
LEMMA PlacesKept ==
  ASSUME OrderInv, Next, NEW k \in Tasks, Unsent(k) \/ k \notin refused, source'[k] = source[k],
         NEW s \in Rings
  PROVE  Places(k, s)' = Places(k, s)
<1>0. TypeOK
  BY Zenon DEF OrderInv
<1>1. Letter(k, s) \in msgs' => Letter(k, s) \in msgs
  BY NoOtherMail, Zenon
<1>2. ASSUME NEW r \in Rings, OwnerStep(r) \/ WaitTimesOut(r)
      PROVE  Places(k, s)' = Places(k, s)
  <2>0. Letter(k, s) \in msgs' <=> Letter(k, s) \in msgs
    BY <1>1, <1>2, MessagesStay, Zenon
  <2>1. CASE r # s
    <3>1. posted'[s] = posted[s] /\ tasks'[s] = tasks[s] /\ ran'[s] = ran[s] /\ cq'[s] = cq[s]
      BY <1>0, <1>2, <2>1, OwnerLocal, ZenonT(40)
    <3> QED
      BY <2>0, <3>1, PlacesSame, Zenon
  <2>2. CASE r = s /\ (ProcessPostedTasks(s) \/ RunTask(s) \/ HandleCqe(s))
    BY <2>0, <2>2, OwnerMoves, Zenon
  <2>3. CASE r = s /\ (\/ TasksDone(s) \/ AppReturns(s) \/ DispatchFlush(s) \/ ArmWakePoll(s)
                       \/ WaitReturns(s) \/ WaitTimesOut(s) \/ DrainEnds(s))
    <3>1. UNCHANGED <<posted, tasks, ran, cq>>
      BY <2>3, Zenon DEF TasksDone, AppReturns, DispatchFlush, ArmWakePoll, WaitReturns, WaitTimesOut,
           DrainEnds, kernelVars, taskVars
    <3> QED
      BY <2>0, <3>1, PlacesSame, Zenon
  <2> QED
    BY <1>2, <2>1, <2>2, <2>3, Zenon DEF OwnerStep
<1>3. ASSUME NEW t \in Threads, SenderStep(t)
      PROVE  Places(k, s)' = Places(k, s)
  <2>0. Letter(k, s) \in msgs' <=> Letter(k, s) \in msgs
    BY <1>1, <1>3, MessagesStay, ZenonT(40)
  <2>1. ASSUME NEW r \in Rings, NEW x \in Tasks, Post(t, r, x) \/ (t = r /\ RunOnRingInline(r, x))
        PROVE  Places(k, s)' = Places(k, s)
    <3>1. source[x] = NoRing /\ source'[x] # NoRing
      BY <1>0, <2>1, RingNames, ZenonT(40) DEF Post, RunOnRingInline, SentBy, Unsent, TypeOK, Threads
    <3>2. x # k
      BY <3>1, Zenon
    <3> QED
      <4>1. Post(t, r, x) \/ RunOnRingInline(r, x)
        BY <2>1, Zenon
      <4>2. \A l \in Tasks, u \in Rings :
              Places(l, u)' = IF u = r /\ x = l THEN Places(l, u) + 1 ELSE Places(l, u)
        BY <1>0, <4>1, SenderAdds, ZenonT(40)
      <4> QED
        BY <3>2, <4>2, Zenon
  <2>2. CASE Wake(t) \/ PrepareIo(t) \/ \E r \in Rings, x \in Tasks : RunOnRingMessage(t, r, x)
    <3>1. UNCHANGED <<posted, tasks, ran, cq>>
      BY <2>2, Zenon DEF Wake, PrepareIo, RunOnRingMessage, loopVars, kernelVars, taskVars
    <3> QED
      BY <2>0, <3>1, PlacesSame
  <2> QED
    BY <1>3, <2>1, <2>2, Zenon DEF SenderStep
<1> QED
  BY <1>0, <1>2, <1>3, KernelMoves, ZenonT(40) DEF Next

\* A message that the kernel took is the one place of its task.
LEMMA MessageAdds ==
  ASSUME OrderInv, NEW t \in Rings, NEW r \in Rings, NEW k \in Tasks, RunOnRingMessage(t, r, k),
         Accounted(k), k \notin refused', NEW s \in Rings
  PROVE  Places(k, s)' = IF s = r THEN 1 ELSE 0
<1>0. TypeOK /\ MessagesProper /\ Unsent(k) /\ Places(k, s) = 0
  BY DEF OrderInv, RunOnRingMessage, Accounted
<1>1. UNCHANGED <<posted, tasks, ran, cq>>
  BY DEF RunOnRingMessage, loopVars
<1>2. PICK ok \in SubmitResults :
        /\ IoUringSubmit(t, [sq[t] EXCEPT !.msgs = @ \cup {[to |-> r, task |-> k]}], ok)
        /\ refused' = RefusedAfter(k, ok)
  BY Zenon DEF RunOnRingMessage
<1>3. ok = TRUE
  BY <1>2 DEF RefusedAfter, SubmitResults
<1>4. msgs' = msgs \cup sq[t].msgs \cup {Letter(k, r)}
  <2>1. sq[t] \in Sqes
    BY <1>0, Zenon DEF TypeOK
  <2>2. [sq[t] EXCEPT !.msgs = @ \cup {[to |-> r, task |-> k]}].msgs = sq[t].msgs \cup {[to |-> r, task |-> k]}
    BY <2>1, Zenon DEF Sqes
  <2> QED
    BY <1>2, <1>3, <2>2, ZenonT(40) DEF IoUringSubmit, Letter
<1>5. Letter(k, s) \notin msgs /\ Letter(k, s) \notin sq[t].msgs
  <2>1. Letter(k, s).task = k
    BY DEF Letter
  <2> QED
    BY <1>0, <2>1, Zenon DEF MessagesProper, Travels
<1>6. Letter(k, s) = Letter(k, r) <=> s = r
  BY Zenon DEF Letter
<1>7. CASE s # r
  <2>1. Letter(k, s) \notin msgs'
    BY <1>4, <1>5, <1>6, <1>7, ZenonT(40)
  <2> QED
    BY <1>0, <1>1, <1>5, <1>7, <2>1, PlacesSame, ZenonT(40)
<1>8. CASE s = r
  <2>1. Mail(k, s)' = 1 /\ Mail(k, s) = 0
    BY <1>4, <1>5, <1>8, Zenon DEF Mail, Letter
  <2> DEFINE p == Occurrences(k, posted[s])
             q == Occurrences(k, tasks[s])
             n == Occurrences(k, ran[s])
             c == Occurrences(TaskCqe(k), cq[s])
             m == Mail(k, s)
  <2>2n. p \in Nat /\ q \in Nat /\ n \in Nat /\ c \in Nat /\ m \in Nat
    BY <1>0, PlacesNat, Zenon
  <2>2. /\ p = Occurrences(k, posted[s]) /\ q = Occurrences(k, tasks[s]) /\ n = Occurrences(k, ran[s])
        /\ c = Occurrences(TaskCqe(k), cq[s]) /\ m = Mail(k, s)
        /\ Places(k, s) = p + q + n + c + m
    BY PlacesSum, Zenon
  <2> HIDE DEF p, q, n, c, m
  <2>3. p + q + n + c + m = 0 /\ m = 0
    BY <1>0, <2>1, <2>2, Zenon
  <2>4. Places(k, s)' = p + q + n + c + 1
    BY <1>1, <2>1, <2>2, PlacesSum, ZenonT(40)
  <2>5. p + q + n + c + 1 = 1
    BY <2>2n, <2>3
  <2> QED
    BY <1>8, <2>4, <2>5, Zenon
<1> QED
  BY <1>7, <1>8

\* Every step keeps the account of every task.
LEMMA AccountedStep ==
  ASSUME OrderInv, Next, NEW k \in Tasks, Accounted(k)
  PROVE  Accounted(k)'
<1>0. TypeOK
  BY Zenon DEF OrderInv
<1>1. CASE source'[k] = source[k]
  <2>1. Unsent(k)' <=> Unsent(k)
    BY <1>1 DEF Unsent
  <2>2. refused \subseteq refused'
    <3>1. ASSUME NEW t \in Threads, SenderStep(t)
          PROVE  refused \subseteq refused'
      BY <3>1, ZenonT(40) DEF SenderStep, Wake, PrepareIo, Post, RunOnRingInline, RunOnRingMessage, RefusedAfter, taskVars
    <3> QED
      BY <3>1, SendNothing, Zenon DEF Next
  <2>3. Unsent(k) \/ k \notin refused => \A s \in Rings : Places(k, s)' = Places(k, s)
    BY <1>1, PlacesKept
  <2> QED
    BY <2>1, <2>2, <2>3, ZenonT(40) DEF Accounted
<1>2. CASE source'[k] # source[k]
  <2>1. PICK t \in Threads, r \in Rings :
          Post(t, r, k) \/ (t = r /\ RunOnRingInline(r, k)) \/ (t \in Rings /\ RunOnRingMessage(t, r, k))
    <3>1. source' # source
      BY <1>2
    <3>2. PICK t \in Threads : SenderStep(t)
      BY <3>1, SendNothing DEF Next
    <3>3. ~Wake(t) /\ ~PrepareIo(t)
      BY <3>1 DEF Wake, PrepareIo, taskVars
    <3>4. PICK x \in Tasks, r \in Rings :
            Post(t, r, x) \/ (t = r /\ RunOnRingInline(r, x)) \/ (t \in Rings /\ RunOnRingMessage(t, r, x))
      BY <3>2, <3>3 DEF SenderStep
    <3>5. source' = [source EXCEPT ![x] = t]
      BY <3>4, Zenon DEF Post, RunOnRingInline, RunOnRingMessage, SentBy
    <3>6. x = k
      BY <1>0, <1>2, <3>5, ZenonT(40) DEF TypeOK
    <3> QED
      BY <3>4, <3>6, Zenon
  <2>2. Unsent(k) /\ source'[k] = t
    BY <1>0, <2>1, ZenonT(40) DEF Post, RunOnRingInline, RunOnRingMessage, SentBy, TypeOK
  <2>3. ~Unsent(k)'
    BY <2>2, RingNames, Zenon DEF Unsent, Threads
  <2>4. \A s \in Rings : Places(k, s) = 0
    BY <2>2, Zenon DEF Accounted
  <2>5. ASSUME k \notin refused'
        PROVE  \A s \in Rings : Places(k, s)' = IF s = r THEN 1 ELSE 0
    <3>1. CASE Post(t, r, k) \/ RunOnRingInline(r, k)
      <4>0. \A l \in Tasks, u \in Rings :
              Places(l, u)' = IF u = r /\ k = l THEN Places(l, u) + 1 ELSE Places(l, u)
        BY <1>0, <3>1, SenderAdds, ZenonT(40)
      <4>1. ASSUME NEW s \in Rings
            PROVE  Places(k, s)' = IF s = r THEN 0 + 1 ELSE 0
        <5>1. Places(k, s)' = IF s = r /\ k = k THEN Places(k, s) + 1 ELSE Places(k, s)
          BY <4>0, Zenon
        <5>2. Places(k, s) = 0
          BY <2>4, Zenon
        <5> QED
          BY <5>1, <5>2, Zenon
      <4>2. 0 + 1 = 1
        OBVIOUS
      <4> QED
        BY <4>1, <4>2, Zenon
    <3>2. CASE t \in Rings /\ RunOnRingMessage(t, r, k)
      BY <2>5, <3>2, MessageAdds, Zenon
    <3> QED
      BY <2>1, <3>1, <3>2, ZenonT(40)
  <2> QED
    BY <2>3, <2>5 DEF Accounted
<1> QED
  BY <1>1, <1>2, Zenon

-----------------------------------------------------------------------------
\* At the start there is no task.
LEMMA InitTasks ==
  Init => TasksInv
<1> SUFFICES ASSUME Init
             PROVE  TasksInv
  BY Zenon
<1>1. ASSUME NEW k \in Tasks
      PROVE  Accounted(k)
  <2>1. ASSUME NEW s \in Rings
        PROVE  Places(k, s) = 0
    <3>1. posted[s] = <<>> /\ tasks[s] = <<>> /\ ran[s] = <<>> /\ cq[s] = <<>> /\ Mail(k, s) = 0
      BY DEF Init, Mail
    <3>2. Places(k, s) = 0 + 0 + 0 + 0 + 0
      BY <3>1, OccurrencesEmpty, PlacesSum, ZenonT(40)
    <3> QED
      BY <3>2
  <2> QED
    BY <2>1, ZenonT(40) DEF Init, Accounted, Unsent
<1> QED
  BY <1>1, InitOrder DEF TasksInv

\* Every step keeps the invariant.
LEMMA NextTasks ==
  TasksInv /\ [Next]_vars => TasksInv'
<1>1. ASSUME TasksInv, Next
      PROVE  \A k \in Tasks : Accounted(k)'
  BY <1>1, AccountedStep, ZenonT(40) DEF TasksInv
<1>2. ASSUME TasksInv, UNCHANGED vars
      PROVE  \A k \in Tasks : Accounted(k)'
  <2>1. UNCHANGED <<tasks, posted, msgs, cq, source, refused, ran>>
    BY <1>2, Zenon DEF vars, loopVars, kernelVars, ringVars, taskVars
  <2>2. \A k \in Tasks, r \in Rings : Places(k, r)' = Places(k, r)
    BY <2>1, Zenon DEF Places
  <2> QED
    BY <1>2, <2>1, <2>2 DEF TasksInv, Accounted, Unsent
<1>3. OrderInv /\ [Next]_vars => OrderInv'
  BY NextOrder
<1> QED
  BY <1>1, <1>2, <1>3, Zenon DEF TasksInv

\* The invariant says that tasks are accounted for and run in order.
LEMMA TasksSuffice ==
  TasksInv => TasksInOrder
<1>1. TasksInv => TypeOK /\ PostsRunInOrder
  BY OrderSuffices, Zenon DEF TasksInv, OrderInv
<1>2. TasksInv => TaskAccounted
  BY DEF TasksInv, Accounted, TaskAccounted
<1> QED
  BY <1>1, <1>2, Zenon DEF TasksInOrder

\* No task is lost, doubled or overtaken: from the call of Post or RunOnRing on,
\* an accepted task is in one place of one ring, and posted tasks run in the
\* order of the posts, whatever messages arrive and submits fail in between.
THEOREM TasksDelivered == Spec => []TasksInOrder
<1>1. Init => TasksInv
  BY InitTasks
<1>2. TasksInv /\ [Next]_vars => TasksInv'
  BY NextTasks
<1>3. TasksInv => TasksInOrder
  BY TasksSuffice
<1> QED
  BY <1>1, <1>2, <1>3, PTL DEF Spec
=============================================================================
