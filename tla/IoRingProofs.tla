---------------------------- MODULE IoRingProofs ----------------------------
(***************************************************************************)
(* Proofs about IoRing for any number of rings, external threads and tasks *)
(* and any queue depth, submission batch and completion budget: the types, *)
(* what a step of one ring leaves alone on the others, and that the tasks  *)
(* posted to a ring run in the order of the posts.                         *)
(***************************************************************************)
EXTENDS IoRing, TLAPS

-----------------------------------------------------------------------------
(* Sequences. *)

\* A sequence is a function on the numbers up to its length.
LEMMA SeqIndexed ==
  ASSUME NEW S, NEW seq \in Seq(S)
  PROVE  Len(seq) \in Nat /\ seq \in [1..Len(seq) -> S] /\ DOMAIN seq = 1..Len(seq)
  OBVIOUS

\* What a sequence over S holds is in S.
LEMMA SeqElement ==
  ASSUME NEW S, NEW seq \in Seq(S), NEW n \in 1..Len(seq)
  PROVE  seq[n] \in S
  OBVIOUS

\* Only the empty sequence has no element.
LEMMA SeqEmpty ==
  ASSUME NEW S
  PROVE  /\ <<>> \in Seq(S) /\ Len(<<>>) = 0
         /\ \A seq \in Seq(S) : seq # <<>> => Len(seq) \in Nat \ {0}
  OBVIOUS

\* push_back leaves the elements before the new one in place.
LEMMA SeqAppend ==
  ASSUME NEW S, NEW seq \in Seq(S), NEW e \in S
  PROVE  /\ Append(seq, e) \in Seq(S) /\ Append(seq, e) # <<>>
         /\ Len(Append(seq, e)) = Len(seq) + 1
         /\ \A i \in 1..Len(seq) : Append(seq, e)[i] = seq[i]
         /\ Append(seq, e)[Len(seq) + 1] = e
  OBVIOUS

\* Taking the front moves every other element one place forward.
LEMMA SeqHeadTail ==
  ASSUME NEW S, NEW seq \in Seq(S), seq # <<>>
  PROVE  /\ Head(seq) \in S /\ Tail(seq) \in Seq(S) /\ Len(Tail(seq)) = Len(seq) - 1
         /\ \A i \in 1..Len(Tail(seq)) : Tail(seq)[i] = seq[i + 1]
  OBVIOUS

\* Positions when one is added at the end.
LEMMA IndexNext ==
  ASSUME NEW n \in Nat
  PROVE  /\ n + 1 \in 1 .. n + 1
         /\ \A i \in 1 .. n + 1 : i \in 1 .. n \/ i = n + 1
         /\ \A i \in 1 .. n : i \in 1 .. n + 1 /\ i \in 1 .. (n + 1) - 1 /\ \A m \in 1 .. i - 1 : m \in 1 .. n
  OBVIOUS

\* What is up to d is up to d + 1, and the positions below d + 1 are those up to d.
LEMMA BelowNext ==
  ASSUME NEW d \in Nat
  PROVE  /\ \A b \in Nat : b <= d => b <= d + 1
         /\ d + 1 <= d + 1
         /\ \A a \in 1 .. (d + 1) - 1 : a \in 1 .. d
  OBVIOUS

-----------------------------------------------------------------------------
(* Types. *)


\* io_uring_submit and the calls built on it keep the types of what they change.
LEMMA SubmitTypes ==
  ASSUME TypeOK, NEW r \in Rings, NEW entries \in Sqes, NEW ok \in SubmitResults,
         IoUringSubmit(r, entries, ok)
  PROVE  /\ sq' \in [Rings -> Sqes] /\ polls' \in [Rings -> Nat] /\ ios' \in [Rings -> Nat]
         /\ msgs' \subseteq Messages /\ failures' \in 0 .. MaxFailures
<1>0. /\ sq \in [Rings -> Sqes] /\ polls \in [Rings -> Nat] /\ ios \in [Rings -> Nat]
      /\ msgs \subseteq Messages /\ failures \in 0 .. MaxFailures
  BY DEF TypeOK
<1>1. /\ NoSqes \in Sqes /\ entries.polls \in Nat /\ entries.ios \in Nat
      /\ entries.msgs \subseteq Messages
  BY DEF NoSqes, Sqes
<1>2. CASE ok = TRUE
  <2>1. /\ sq' = [sq EXCEPT ![r] = NoSqes]
        /\ polls' = [polls EXCEPT ![r] = @ + entries.polls]
        /\ ios' = [ios EXCEPT ![r] = @ + entries.ios]
        /\ msgs' = msgs \cup entries.msgs
        /\ failures' = failures
    BY <1>2 DEF IoUringSubmit
  <2> QED
    BY <1>0, <1>1, <2>1
<1>3. CASE ok = FALSE
  <2>1. failures < MaxFailures
    BY <1>3, Zenon DEF SubmitResults
  <2>2. /\ sq' = [sq EXCEPT ![r] = entries] /\ failures' = failures + 1
        /\ UNCHANGED <<polls, ios, msgs>>
    BY <1>3 DEF IoUringSubmit
  <2> QED
    BY <1>0, <2>1, <2>2, Bounds
<1> QED
  BY <1>2, <1>3, Zenon DEF SubmitResults

\* FlushSubmissions keeps the types of what it hands to the kernel, whether the
\* submit succeeds or fails.
LEMMA FlushTypes ==
  ASSUME TypeOK, NEW r \in Rings, NEW entries \in Sqes, NEW n \in Nat, NEW ok \in SubmitResults,
         FlushSubmissions(r, entries, n, ok)
  PROVE  /\ sq' \in [Rings -> Sqes] /\ polls' \in [Rings -> Nat] /\ ios' \in [Rings -> Nat]
         /\ msgs' \subseteq Messages /\ failures' \in 0 .. MaxFailures
         /\ unflushed' \in [Rings -> 0 .. SubmitBatch - 1]
<1>1. CASE n = 0
  BY <1>1, Zenon DEF FlushSubmissions, TypeOK
<1>2. CASE n # 0
  <2>1. IoUringSubmit(r, entries, ok) /\ unflushed' = [unflushed EXCEPT ![r] = 0]
    BY <1>2 DEF FlushSubmissions
  <2>2. unflushed' \in [Rings -> 0 .. SubmitBatch - 1]
    BY <2>1, RingSizes DEF TypeOK
  <2> QED
    BY <2>1, <2>2, SubmitTypes
<1> QED
  BY <1>1, <1>2

\* The owner's steps keep the types.
LEMMA OwnerTypes ==
  ASSUME TypeOK, NEW r \in Rings, OwnerStep(r) \/ WaitTimesOut(r)
  PROVE  TypeOK'
<1> USE DEF loopVars, kernelVars, ringVars, taskVars, Goto, EnterApp, Ran
<1>1. CASE ProcessPostedTasks(r)
  <2>1. tasks' \in [Rings -> Seq(Tasks)] /\ posted' \in [Rings -> Seq(Tasks)]
    BY <1>1 DEF ProcessPostedTasks, TakePosted, TypeOK
  <2>2. pc' \in [Rings -> Stages]
    BY <1>1 DEF ProcessPostedTasks, TypeOK, Stages
  <2> QED
    BY <1>1, <2>1, <2>2, Zenon DEF ProcessPostedTasks, TypeOK
<1>2. CASE RunTask(r)
  <2>1. Head(tasks[r]) \in Tasks /\ Tail(tasks[r]) \in Seq(Tasks)
    BY <1>2, SeqHeadTail DEF RunTask, TypeOK
  <2>2. ran' \in [Rings -> Seq(Tasks)]
    BY <1>2, <2>1, SeqAppend DEF RunTask, TypeOK
  <2>3. tasks' \in [Rings -> Seq(Tasks)] /\ app' \in [Rings -> BOOLEAN]
    BY <1>2, <2>1, Zenon DEF RunTask, TypeOK
  <2> QED
    BY <1>2, <2>2, <2>3, Zenon DEF RunTask, TypeOK
<1>3. CASE TasksDone(r)
  <2>1. pc' \in [Rings -> Stages] /\ app' \in [Rings -> BOOLEAN]
    BY <1>3, Zenon DEF TasksDone, TypeOK, Stages
  <2> QED
    BY <1>3, <2>1, Zenon DEF TasksDone, TypeOK
<1>4. CASE AppReturns(r)
  <2>1. pc' \in [Rings -> Stages] /\ app' \in [Rings -> BOOLEAN]
    BY <1>4, Zenon DEF AppReturns, TypeOK, Stages
  <2> QED
    BY <1>4, <2>1, Zenon DEF AppReturns, TypeOK
<1>5. CASE DispatchFlush(r)
  <2>1. sq[r] \in Sqes /\ unflushed[r] \in Nat
    BY RingSizes DEF TypeOK
  <2>2. /\ sq' \in [Rings -> Sqes] /\ polls' \in [Rings -> Nat] /\ ios' \in [Rings -> Nat]
        /\ msgs' \subseteq Messages /\ failures' \in 0 .. MaxFailures
        /\ unflushed' \in [Rings -> 0 .. SubmitBatch - 1]
    BY <1>5, <2>1, FlushTypes DEF DispatchFlush
  <2>3. pc' \in [Rings -> Stages]
    BY <1>5 DEF DispatchFlush, TypeOK, Stages
  <2> QED
    BY <1>5, <2>2, <2>3, Zenon DEF DispatchFlush, TypeOK
<1>6. CASE ArmWakePoll(r)
  <2>1. [sq[r] EXCEPT !.polls = @ + 1] \in Sqes
    <3>1. sq[r] \in Sqes
      BY DEF TypeOK
    <3> QED
      BY <3>1 DEF Sqes
  <2>2. /\ sq' \in [Rings -> Sqes] /\ polls' \in [Rings -> Nat] /\ ios' \in [Rings -> Nat]
        /\ msgs' \subseteq Messages /\ failures' \in 0 .. MaxFailures
    <3>1. CASE UNCHANGED <<sq, polls, ios, msgs, failures, armed>>
      BY <3>1 DEF TypeOK
    <3>2. ASSUME NEW ok \in SubmitResults, IoUringSubmit(r, [sq[r] EXCEPT !.polls = @ + 1], ok)
          PROVE  /\ sq' \in [Rings -> Sqes] /\ polls' \in [Rings -> Nat] /\ ios' \in [Rings -> Nat]
                 /\ msgs' \subseteq Messages /\ failures' \in 0 .. MaxFailures
      BY <2>1, <3>2, SubmitTypes
    <3> QED
      BY <1>6, <3>1, <3>2 DEF ArmWakePoll
  <2>3. armed' \in [Rings -> BOOLEAN]
    <3>1. SubmitResults \subseteq BOOLEAN /\ armed \in [Rings -> BOOLEAN]
      BY Zenon DEF SubmitResults, TypeOK
    <3>2. armed' = armed \/ \E ok \in SubmitResults : armed' = [armed EXCEPT ![r] = ok]
      BY <1>6 DEF ArmWakePoll
    <3> QED
      BY <3>1, <3>2
  <2>4. pc' \in [Rings -> Stages]
    BY <1>6 DEF ArmWakePoll, TypeOK, Stages
  <2> QED
    BY <1>6, <2>2, <2>3, <2>4, Zenon DEF ArmWakePoll, TypeOK
<1>7. CASE WaitReturns(r) \/ WaitTimesOut(r) \/ DrainEnds(r)
  <2>1. pc' \in [Rings -> Stages]
    BY <1>7, Zenon DEF WaitReturns, WaitTimesOut, DrainEnds, TypeOK, Stages
  <2>2. count' \in [Rings -> 0 .. CqeBudget]
    <3>1. count' = count \/ count' = [count EXCEPT ![r] = 0]
      BY <1>7 DEF WaitReturns, WaitTimesOut, DrainEnds
    <3>2. count \in [Rings -> 0 .. CqeBudget] /\ 0 \in 0 .. CqeBudget
      BY RingSizes DEF TypeOK
    <3> QED
      BY <3>1, <3>2
  <2> QED
    BY <1>7, <2>1, <2>2, Zenon DEF WaitReturns, WaitTimesOut, DrainEnds, TypeOK
<1>8. CASE HandleCqe(r)
  <2>1. Head(cq[r]) \in Cqes /\ Tail(cq[r]) \in Seq(Cqes)
    BY <1>8, SeqHeadTail DEF HandleCqe, TypeOK
  <2>2. count' \in [Rings -> 0 .. CqeBudget]
    <3>1. count \in [Rings -> 0 .. CqeBudget] /\ CqeBudget \in Nat
      BY RingSizes DEF TypeOK
    <3>2. count' = [count EXCEPT ![r] = IF CqeBudget = 0 THEN 0 ELSE @ + 1]
      BY <1>8 DEF HandleCqe
    <3>3. CqeBudget = 0 \/ count[r] < CqeBudget
      BY <1>8, <3>1 DEF HandleCqe, BudgetSpent
    <3> QED
      BY <3>1, <3>2, <3>3
  <2>3. cq' \in [Rings -> Seq(Cqes)]
    BY <1>8, <2>1 DEF HandleCqe, TypeOK
  <2>4. ran' \in [Rings -> Seq(Tasks)]
    <3>1. Head(cq[r]).kind = "task" => Head(cq[r]).task \in Tasks
      BY <2>1 DEF Cqes
    <3>2. ran \in [Rings -> Seq(Tasks)]
      BY DEF TypeOK
    <3>3. \/ ran' = ran
          \/ Head(cq[r]).kind = "task" /\ ran' = [ran EXCEPT ![r] = Append(ran[r], Head(cq[r]).task)]
      BY <1>8 DEF HandleCqe
    <3>4. Head(cq[r]).kind = "task" => Append(ran[r], Head(cq[r]).task) \in Seq(Tasks)
      BY <3>1, <3>2, SeqAppend
    <3> QED
      BY <3>2, <3>3, <3>4, Zenon
  <2>5. app' \in [Rings -> BOOLEAN] /\ armed' \in [Rings -> BOOLEAN] /\ wake_fd' \in [Rings -> BOOLEAN]
    BY <1>8, Zenon DEF HandleCqe, OnWake, TypeOK
  <2>6. UNCHANGED <<pc, tasks, posted, polls, ios, msgs, failures, unflushed, sq, prepared, waking,
                    source, refused, postLog>>
    BY <1>8 DEF HandleCqe
  <2> QED
    BY <2>2, <2>3, <2>4, <2>5, <2>6, Zenon DEF TypeOK
<1> QED
  BY <1>1, <1>2, <1>3, <1>4, <1>5, <1>6, <1>7, <1>8 DEF OwnerStep

\* The steps of the threads that send work keep the types.
LEMMA SenderTypes ==
  ASSUME TypeOK, NEW t \in Threads, SenderStep(t)
  PROVE  TypeOK'
<1> USE DEF loopVars, kernelVars, ringVars, taskVars, Ran, SentBy
<1>1. CASE Wake(t)
  <2>1. wake_fd' \in [Rings -> BOOLEAN] /\ waking' \in [Threads -> Rings \cup {NoRing}]
    BY <1>1 DEF Wake, TypeOK
  <2> QED
    BY <1>1, <2>1, Zenon DEF Wake, TypeOK
<1>2. CASE PrepareIo(t)
  <2>1. t \in Rings /\ sq[t] \in Sqes /\ unflushed[t] \in 0 .. SubmitBatch - 1
    BY <1>2 DEF PrepareIo, TypeOK
  <2>2. [sq[t] EXCEPT !.ios = @ + 1] \in Sqes
    BY <2>1 DEF Sqes
  <2>3. PICK ok \in SubmitResults : Submit(t, [sq[t] EXCEPT !.ios = @ + 1], ok)
    BY <1>2 DEF PrepareIo
  <2>4. /\ sq' \in [Rings -> Sqes] /\ polls' \in [Rings -> Nat] /\ ios' \in [Rings -> Nat]
        /\ msgs' \subseteq Messages /\ failures' \in 0 .. MaxFailures
        /\ unflushed' \in [Rings -> 0 .. SubmitBatch - 1]
    <3>1. CASE unflushed[t] + 1 < SubmitBatch
      <4>1. /\ sq' = [sq EXCEPT ![t] = [sq[t] EXCEPT !.ios = @ + 1]]
            /\ unflushed' = [unflushed EXCEPT ![t] = unflushed[t] + 1]
            /\ UNCHANGED <<polls, ios, msgs, failures>>
        BY <2>3, <3>1 DEF Submit
      <4>2. unflushed[t] + 1 \in 0 .. SubmitBatch - 1
        BY <2>1, <3>1, RingSizes
      <4> QED
        BY <2>2, <4>1, <4>2, Zenon DEF TypeOK
    <3>2. CASE ~(unflushed[t] + 1 < SubmitBatch)
      <4>1. FlushSubmissions(t, [sq[t] EXCEPT !.ios = @ + 1], unflushed[t] + 1, ok)
        BY <2>3, <3>2 DEF Submit
      <4>2. unflushed[t] + 1 \in Nat
        BY <2>1, RingSizes
      <4> QED
        BY <2>1, <2>2, <4>1, <4>2, FlushTypes
    <3> QED
      BY <3>1, <3>2
  <2>5. prepared' \in [Rings -> 0 .. MaxIo]
    <3>1. /\ prepared \in [Rings -> 0 .. MaxIo] /\ prepared[t] < MaxIo
          /\ prepared' = [prepared EXCEPT ![t] = prepared[t] + 1]
      BY <1>2 DEF PrepareIo, TypeOK
    <3> QED
      BY <2>1, <3>1, Bounds
  <2> QED
    BY <1>2, <2>4, <2>5, Zenon DEF PrepareIo, TypeOK
<1>3. ASSUME NEW k \in Tasks, NEW r \in Rings, Post(t, r, k)
      PROVE  TypeOK'
  <2>1. Append(posted[r], k) \in Seq(Tasks) /\ Append(postLog[r], k) \in Seq(Tasks)
    BY SeqAppend DEF TypeOK
  <2>2. posted' \in [Rings -> Seq(Tasks)] /\ postLog' \in [Rings -> Seq(Tasks)]
    BY <1>3, <2>1, Zenon DEF Post, PushPosted, TypeOK
  <2>3. waking' \in [Threads -> Rings \cup {NoRing}]
    BY <1>3 DEF Post, ThenWakes, TypeOK
  <2>4. source' \in [Tasks -> Threads \cup {NoRing}]
    BY <1>3 DEF Post, TypeOK
  <2> QED
    BY <1>3, <2>2, <2>3, <2>4, Zenon DEF Post, TypeOK
<1>4. ASSUME NEW k \in Tasks, NEW r \in Rings, t = r, RunOnRingInline(r, k)
      PROVE  TypeOK'
  <2>1. Append(ran[r], k) \in Seq(Tasks)
    BY SeqAppend DEF TypeOK
  <2>2. ran' \in [Rings -> Seq(Tasks)] /\ source' \in [Tasks -> Threads \cup {NoRing}]
    BY <1>4, <2>1 DEF RunOnRingInline, TypeOK
  <2> QED
    BY <1>4, <2>2, Zenon DEF RunOnRingInline, TypeOK
<1>5. ASSUME NEW k \in Tasks, NEW r \in Rings, t \in Rings, RunOnRingMessage(t, r, k)
      PROVE  TypeOK'
  <2>1. sq[t] \in Sqes /\ [to |-> r, task |-> k] \in Messages
    BY <1>5 DEF TypeOK, Messages
  <2>2. [sq[t] EXCEPT !.msgs = @ \cup {[to |-> r, task |-> k]}] \in Sqes
    BY <2>1 DEF Sqes
  <2>3. /\ sq' \in [Rings -> Sqes] /\ polls' \in [Rings -> Nat] /\ ios' \in [Rings -> Nat]
        /\ msgs' \subseteq Messages /\ failures' \in 0 .. MaxFailures
    <3>1. CASE UNCHANGED <<sq, polls, ios, msgs, failures>>
      BY <3>1 DEF TypeOK
    <3>2. ASSUME NEW ok \in SubmitResults,
                 IoUringSubmit(t, [sq[t] EXCEPT !.msgs = @ \cup {[to |-> r, task |-> k]}], ok)
          PROVE  /\ sq' \in [Rings -> Sqes] /\ polls' \in [Rings -> Nat] /\ ios' \in [Rings -> Nat]
                 /\ msgs' \subseteq Messages /\ failures' \in 0 .. MaxFailures
      BY <1>5, <2>2, <3>2, SubmitTypes
    <3> QED
      BY <1>5, <3>1, <3>2, Zenon DEF RunOnRingMessage
  <2>4. refused' \subseteq Tasks
    <3>1. refused' = refused \cup {k} \/ \E ok \in SubmitResults : refused' = RefusedAfter(k, ok)
      BY <1>5, Zenon DEF RunOnRingMessage
    <3>2. \A ok \in SubmitResults : RefusedAfter(k, ok) \subseteq refused \cup {k}
      BY DEF RefusedAfter
    <3>3. refused \cup {k} \subseteq Tasks
      BY Zenon DEF TypeOK
    <3> QED
      BY <3>1, <3>2, <3>3, Zenon
  <2>5. source' \in [Tasks -> Threads \cup {NoRing}]
    BY <1>5 DEF RunOnRingMessage, TypeOK
  <2> QED
    BY <1>5, <2>3, <2>4, <2>5, Zenon DEF RunOnRingMessage, TypeOK
<1> QED
  BY <1>1, <1>2, <1>3, <1>4, <1>5 DEF SenderStep

\* The kernel's steps keep the types.
LEMMA KernelTypes ==
  ASSUME TypeOK, KernelStep
  PROVE  TypeOK'
<1> USE DEF loopVars, ringVars, taskVars
<1>1. ASSUME NEW r \in Rings, PollFires(r) \/ IoCompletes(r)
      PROVE  TypeOK'
  <2>1. Cqe("wake") \in Cqes /\ Cqe("io") \in Cqes
    BY DEF Cqe, Cqes
  <2>2. \A c \in Cqes : Append(cq[r], c) \in Seq(Cqes)
    BY SeqAppend DEF TypeOK
  <2>3. cq' \in [Rings -> Seq(Cqes)]
    <3>1. \E c \in Cqes : cq' = [cq EXCEPT ![r] = Append(cq[r], c)]
      BY <1>1, <2>1 DEF PollFires, IoCompletes
    <3> QED
      BY <2>2, <3>1 DEF TypeOK
  <2>4. polls' \in [Rings -> Nat]
    <3>1. polls \in [Rings -> Nat]
      BY DEF TypeOK
    <3>2. polls' = polls \/ (polls[r] > 0 /\ polls' = [polls EXCEPT ![r] = polls[r] - 1])
      BY <1>1 DEF PollFires, IoCompletes
    <3> QED
      BY <3>1, <3>2
  <2>5. ios' \in [Rings -> Nat]
    <3>1. ios \in [Rings -> Nat]
      BY DEF TypeOK
    <3>2. ios' = ios \/ (ios[r] > 0 /\ ios' = [ios EXCEPT ![r] = ios[r] - 1])
      BY <1>1 DEF PollFires, IoCompletes
    <3> QED
      BY <3>1, <3>2
  <2> QED
    BY <1>1, <2>3, <2>4, <2>5, Zenon DEF PollFires, IoCompletes, TypeOK
<1>2. ASSUME NEW m \in msgs, MessageArrives(m)
      PROVE  TypeOK'
  <2>1. m.to \in Rings /\ m.task \in Tasks
    BY DEF TypeOK, Messages
  <2>2. TaskCqe(m.task) \in Cqes
    BY <2>1 DEF TaskCqe, Cqes
  <2>3. Append(cq[m.to], TaskCqe(m.task)) \in Seq(Cqes)
    BY <2>1, <2>2, SeqAppend DEF TypeOK
  <2>4. cq' \in [Rings -> Seq(Cqes)] /\ msgs' \subseteq Messages
    BY <1>2, <2>1, <2>3, Zenon DEF MessageArrives, TypeOK
  <2> QED
    BY <1>2, <2>4, Zenon DEF MessageArrives, TypeOK
<1> QED
  BY <1>1, <1>2 DEF KernelStep

\* Every step keeps the types.
LEMMA TypeStep ==
  TypeOK /\ [Next]_vars => TypeOK'
<1>1. ASSUME TypeOK, Next
      PROVE  TypeOK'
  BY <1>1, OwnerTypes, SenderTypes, KernelTypes DEF Next
<1>2. ASSUME TypeOK, UNCHANGED vars
      PROVE  TypeOK'
  BY <1>2 DEF TypeOK, vars, loopVars, kernelVars, ringVars, taskVars
<1> QED
  BY <1>1, <1>2

\* The types hold at the start.
LEMMA InitTypes ==
  Init => TypeOK
<1>1. NoSqes \in Sqes
  BY DEF NoSqes, Sqes
<1>2. 0 \in 0 .. SubmitBatch - 1 /\ 0 \in 0 .. CqeBudget /\ 0 \in 0 .. MaxIo /\ 0 \in 0 .. MaxFailures
  BY RingSizes, Bounds
<1>3. "process1" \in Stages
  BY DEF Stages
<1> QED
  BY <1>1, <1>2, <1>3 DEF Init, TypeOK

-----------------------------------------------------------------------------
(* What a step of one ring or thread leaves alone. *)

\* A submit on one ring leaves the others alone.
LEMMA SubmitLocal ==
  ASSUME TypeOK, NEW r \in Rings, NEW entries \in Sqes, NEW ok \in SubmitResults,
         IoUringSubmit(r, entries, ok), NEW s \in Rings \ {r}
  PROVE  sq'[s] = sq[s] /\ polls'[s] = polls[s]
<1>1. sq \in [Rings -> Sqes] /\ polls \in [Rings -> Nat]
  BY Zenon DEF TypeOK
<1>2. CASE ok = TRUE
  BY <1>1, <1>2 DEF IoUringSubmit
<1>3. CASE ok = FALSE
  BY <1>1, <1>3 DEF IoUringSubmit
<1> QED
  BY <1>2, <1>3, Zenon DEF SubmitResults

\* A step of one ring's owner leaves the loop and the queues of every other
\* ring alone.
LEMMA OwnerLocal ==
  ASSUME TypeOK, NEW r \in Rings, OwnerStep(r) \/ WaitTimesOut(r), NEW s \in Rings \ {r}
  PROVE  /\ pc'[s] = pc[s] /\ app'[s] = app[s] /\ tasks'[s] = tasks[s]
         /\ posted'[s] = posted[s] /\ wake_fd'[s] = wake_fd[s] /\ armed'[s] = armed[s]
         /\ unflushed'[s] = unflushed[s] /\ sq'[s] = sq[s] /\ polls'[s] = polls[s]
         /\ cq'[s] = cq[s] /\ ran'[s] = ran[s]
<1> USE DEF loopVars, kernelVars, ringVars, taskVars, Goto, EnterApp, Ran
<1>1. CASE ProcessPostedTasks(r)
  BY <1>1 DEF ProcessPostedTasks, TakePosted, TypeOK
<1>2. CASE RunTask(r)
  BY <1>2 DEF RunTask, TypeOK
<1>3. CASE TasksDone(r)
  BY <1>3, Zenon DEF TasksDone, TypeOK
<1>4. CASE AppReturns(r)
  BY <1>4, ZenonT(40) DEF AppReturns, TypeOK
<1>5. CASE DispatchFlush(r)
  <2>1. PICK ok \in SubmitResults : FlushSubmissions(r, sq[r], unflushed[r], ok)
    BY <1>5 DEF DispatchFlush
  <2>2. unflushed'[s] = unflushed[s] /\ sq'[s] = sq[s] /\ polls'[s] = polls[s]
    <3>1. CASE unflushed[r] = 0
      BY <2>1, <3>1 DEF FlushSubmissions, TypeOK
    <3>2. CASE unflushed[r] # 0
      BY <2>1, <3>2, SubmitLocal, Zenon DEF FlushSubmissions, TypeOK
    <3> QED
      BY <3>1, <3>2
  <2>3. pc'[s] = pc[s]
    BY <1>5 DEF DispatchFlush, TypeOK
  <2> QED
    BY <1>5, <2>2, <2>3, Zenon DEF DispatchFlush
<1>6. CASE ArmWakePoll(r)
  <2>1. [sq[r] EXCEPT !.polls = @ + 1] \in Sqes
    <3>1. sq[r] \in Sqes
      BY DEF TypeOK
    <3> QED
      BY <3>1 DEF Sqes
  <2>2. sq'[s] = sq[s] /\ polls'[s] = polls[s] /\ armed'[s] = armed[s]
    <3>1. CASE UNCHANGED <<sq, polls, ios, msgs, failures, armed>>
      BY <3>1
    <3>2. ASSUME NEW ok \in SubmitResults, IoUringSubmit(r, [sq[r] EXCEPT !.polls = @ + 1], ok),
                 armed' = [armed EXCEPT ![r] = ok]
          PROVE  sq'[s] = sq[s] /\ polls'[s] = polls[s] /\ armed'[s] = armed[s]
      <4>1. sq'[s] = sq[s] /\ polls'[s] = polls[s]
        BY <2>1, <3>2, SubmitLocal
      <4> QED
        BY <3>2, <4>1 DEF TypeOK
    <3> QED
      BY <1>6, <3>1, <3>2 DEF ArmWakePoll
  <2>3. pc'[s] = pc[s]
    BY <1>6, Zenon DEF ArmWakePoll, TypeOK
  <2> QED
    BY <1>6, <2>2, <2>3 DEF ArmWakePoll
<1>7. CASE WaitReturns(r) \/ WaitTimesOut(r) \/ DrainEnds(r)
  BY <1>7, Zenon DEF WaitReturns, WaitTimesOut, DrainEnds, TypeOK
<1>8. CASE HandleCqe(r)
  <2>1. app'[s] = app[s] /\ armed'[s] = armed[s] /\ wake_fd'[s] = wake_fd[s]
    BY <1>8, Zenon DEF HandleCqe, OnWake, TypeOK
  <2>2. cq'[s] = cq[s] /\ ran'[s] = ran[s]
    <3>1. ran' = ran \/ \E k : Ran(r, k)
      BY <1>8, Zenon DEF HandleCqe
    <3>2. cq' = [cq EXCEPT ![r] = Tail(@)]
      BY <1>8, Zenon DEF HandleCqe
    <3>3. ran'[s] = ran[s]
      BY <3>1, Zenon DEF Ran, TypeOK
    <3> QED
      BY <3>2, <3>3, Zenon DEF TypeOK
  <2> QED
    BY <1>8, <2>1, <2>2, Zenon DEF HandleCqe
<1> QED
  BY <1>1, <1>2, <1>3, <1>4, <1>5, <1>6, <1>7, <1>8, Zenon DEF OwnerStep

\* What a thread that sends work does not touch: the loops and the completions
\* of all rings, and the submission queues of all but its own.
LEMMA SenderLocal ==
  ASSUME TypeOK, NEW t \in Threads, SenderStep(t)
  PROVE  /\ UNCHANGED <<pc, app, tasks, armed, cq>>
         /\ \A s \in Rings \ {t} : unflushed'[s] = unflushed[s] /\ sq'[s] = sq[s] /\ polls'[s] = polls[s]
<1> USE DEF loopVars, kernelVars, ringVars, taskVars
<1>1. CASE Wake(t)
  BY <1>1 DEF Wake
<1>2. CASE PrepareIo(t)
  <2>1. t \in Rings /\ sq[t] \in Sqes
    BY <1>2 DEF PrepareIo, TypeOK
  <2>2. [sq[t] EXCEPT !.ios = @ + 1] \in Sqes
    BY <2>1 DEF Sqes
  <2>3. PICK ok \in SubmitResults : Submit(t, [sq[t] EXCEPT !.ios = @ + 1], ok)
    BY <1>2 DEF PrepareIo
  <2>4. ASSUME NEW s \in Rings \ {t}
        PROVE  unflushed'[s] = unflushed[s] /\ sq'[s] = sq[s] /\ polls'[s] = polls[s]
    <3>1. CASE IoUringSubmit(t, [sq[t] EXCEPT !.ios = @ + 1], ok) /\ unflushed' = [unflushed EXCEPT ![t] = 0]
      <4>1. sq'[s] = sq[s] /\ polls'[s] = polls[s]
        BY <2>1, <2>2, <3>1, SubmitLocal
      <4> QED
        BY <3>1, <4>1 DEF TypeOK
    <3>2. CASE /\ sq' = [sq EXCEPT ![t] = [sq[t] EXCEPT !.ios = @ + 1]] /\ UNCHANGED polls
               /\ unflushed' = [unflushed EXCEPT ![t] = @ + 1] \/ UNCHANGED unflushed
      BY <2>1, <3>2, Zenon DEF TypeOK
    <3> QED
      BY <2>3, <3>1, <3>2 DEF Submit, FlushSubmissions
  <2> QED
    BY <1>2, <2>4 DEF PrepareIo
<1>3. ASSUME NEW k \in Tasks, NEW r \in Rings, Post(t, r, k)
      PROVE  UNCHANGED <<pc, app, tasks, armed, cq, unflushed, sq, polls>>
  BY <1>3 DEF Post
<1>4. ASSUME NEW k \in Tasks, NEW r \in Rings, RunOnRingInline(r, k)
      PROVE  UNCHANGED <<pc, app, tasks, armed, cq, unflushed, sq, polls>>
  BY <1>4 DEF RunOnRingInline
<1>5. ASSUME NEW k \in Tasks, NEW r \in Rings, t \in Rings, RunOnRingMessage(t, r, k)
      PROVE  /\ UNCHANGED <<pc, app, tasks, armed, cq, unflushed>>
             /\ \A s \in Rings \ {t} : sq'[s] = sq[s] /\ polls'[s] = polls[s]
  <2>1. sq[t] \in Sqes /\ [to |-> r, task |-> k] \in Messages
    BY <1>5 DEF TypeOK, Messages
  <2>2. [sq[t] EXCEPT !.msgs = @ \cup {[to |-> r, task |-> k]}] \in Sqes
    BY <2>1 DEF Sqes
  <2>3. ASSUME NEW ok \in SubmitResults, NEW s \in Rings \ {t},
               IoUringSubmit(t, [sq[t] EXCEPT !.msgs = @ \cup {[to |-> r, task |-> k]}], ok)
        PROVE  sq'[s] = sq[s] /\ polls'[s] = polls[s]
    BY <1>5, <2>2, <2>3, SubmitLocal
  <2>4. \/ UNCHANGED <<sq, polls>>
        \/ \E ok \in SubmitResults :
             IoUringSubmit(t, [sq[t] EXCEPT !.msgs = @ \cup {[to |-> r, task |-> k]}], ok)
    BY <1>5 DEF RunOnRingMessage
  <2> QED
    BY <1>5, <2>3, <2>4 DEF RunOnRingMessage
<1> QED
  BY <1>1, <1>2, <1>3, <1>4, <1>5, Zenon DEF SenderStep

-----------------------------------------------------------------------------
(* Where the tasks are.  The log of what was posted to a ring falls into what
   its owner has taken up, what it is about to and what is still in posted_. *)

WasPosted(k) == \E r \in Rings : \E i \in 1 .. Len(postLog[r]) : postLog[r][i] = k

Done(r) == Len(postLog[r]) - Len(tasks[r]) - Len(posted[r])

LogSplit(r) ==
  /\ pc[r] \notin {"run1", "run2"} => tasks[r] = <<>>
  /\ Done(r) >= 0
  /\ \A i \in 1 .. Len(tasks[r]) : tasks[r][i] = postLog[r][Done(r) + i]
  /\ \A i \in 1 .. Len(posted[r]) : posted[r][i] = postLog[r][Done(r) + Len(tasks[r]) + i]

\* A task is posted once, by a thread.
LogProper(r) ==
  /\ \A i, j \in 1 .. Len(postLog[r]) : postLog[r][i] = postLog[r][j] => i = j
  /\ \A i \in 1 .. Len(postLog[r]) : ~Unsent(postLog[r][i])

\* What was taken up has run, in the order of the log.
RunProper(r) ==
  /\ \A n \in 1 .. Len(ran[r]) : ~Unsent(ran[r][n])
  /\ \A a \in 1 .. Done(r) : \E n \in 1 .. Len(ran[r]) : ran[r][n] = postLog[r][a]
  /\ \A n \in 1 .. Len(ran[r]), b \in 1 .. Len(postLog[r]) :
       ran[r][n] = postLog[r][b] =>
         b <= Done(r) /\ \A a \in 1 .. b - 1 : \E m \in 1 .. n - 1 : ran[r][m] = postLog[r][a]

\* What travels as a message was sent and not posted.
Travels(k) == ~Unsent(k) /\ ~WasPosted(k)

\* A message that stays in a submission queue is one whose sender was told so.
MessagesProper ==
  /\ \A m \in msgs : Travels(m.task)
  /\ \A r \in Rings : \A m \in sq[r].msgs : Travels(m.task) /\ m.task \in refused
  /\ \A r \in Rings : \A i \in 1 .. Len(cq[r]) : cq[r][i].kind = "task" => Travels(cq[r][i].task)

OrderInv ==
  /\ TypeOK
  /\ MessagesProper
  /\ \A r \in Rings : LogSplit(r) /\ LogProper(r) /\ RunProper(r)

\* The types of one ring's sequences.
LEMMA RingTypes ==
  ASSUME TypeOK, NEW r \in Rings
  PROVE  /\ tasks[r] \in Seq(Tasks) /\ posted[r] \in Seq(Tasks) /\ postLog[r] \in Seq(Tasks)
         /\ ran[r] \in Seq(Tasks) /\ cq[r] \in Seq(Cqes) /\ sq[r] \in Sqes
         /\ Len(tasks[r]) \in Nat /\ Len(posted[r]) \in Nat /\ Len(postLog[r]) \in Nat
         /\ Len(ran[r]) \in Nat /\ Len(cq[r]) \in Nat
         /\ \A i \in 1 .. Len(postLog[r]) : postLog[r][i] \in Tasks
         /\ \A i \in 1 .. Len(ran[r]) : ran[r][i] \in Tasks
<1>1. /\ tasks[r] \in Seq(Tasks) /\ posted[r] \in Seq(Tasks) /\ postLog[r] \in Seq(Tasks)
      /\ ran[r] \in Seq(Tasks) /\ cq[r] \in Seq(Cqes) /\ sq[r] \in Sqes
  BY DEF TypeOK
<1> QED
  BY <1>1, SeqIndexed, SeqElement, Zenon

\* A sent task stays sent.
LEMMA SentStays ==
  ASSUME TypeOK, NEW k \in Tasks, NEW t \in Threads, NEW x \in Tasks,
         source' = source \/ SentBy(t, k), ~Unsent(x)
  PROVE  ~Unsent(x)'
  BY RingNames, Zenon DEF TypeOK, SentBy, Unsent, Threads

\* The owner's and the kernel's steps send nothing.
LEMMA SendNothing ==
  ASSUME KernelStep \/ \E r \in Rings : OwnerStep(r) \/ WaitTimesOut(r)
  PROVE  UNCHANGED <<source, refused, postLog>>
  BY Zenon DEF KernelStep, PollFires, IoCompletes, MessageArrives, OwnerStep, WaitTimesOut, ProcessPostedTasks,
       RunTask, TasksDone, AppReturns, DispatchFlush, ArmWakePoll, WaitReturns, HandleCqe, DrainEnds, taskVars

\* A step that leaves a ring's log and its parts alone.
LEMMA LogKept ==
  ASSUME NEW s \in Rings, LogSplit(s), tasks'[s] = tasks[s], posted'[s] = posted[s],
         postLog'[s] = postLog[s], pc'[s] \in {"run1", "run2"} \/ pc'[s] = pc[s] \/ tasks[s] = <<>>
  PROVE  LogSplit(s)'
<1>1. Done(s)' = Done(s)
  BY DEF Done
<1> QED
  BY <1>1 DEF LogSplit

\* The three parts make up the log.
LEMMA DoneNat ==
  ASSUME TypeOK, NEW s \in Rings, LogSplit(s)
  PROVE  Done(s) \in Nat /\ Len(postLog[s]) = Done(s) + Len(tasks[s]) + Len(posted[s])
<1>0. Len(tasks[s]) \in Nat /\ Len(posted[s]) \in Nat /\ Len(postLog[s]) \in Nat
  BY RingTypes
<1>1. Done(s) >= 0
  BY DEF LogSplit
<1>2. Done(s) = Len(postLog[s]) - Len(tasks[s]) - Len(posted[s])
  BY DEF Done
<1>3. Done(s) \in Int
  BY <1>0, <1>2
<1>4. Done(s) \in Nat
  BY <1>1, <1>3
<1>5. Len(postLog[s]) = Done(s) + Len(tasks[s]) + Len(posted[s])
  BY <1>0, <1>2, <1>4
<1> QED
  BY <1>4, <1>5

\* So the positions of each part are positions of the log.
LEMMA DoneParts ==
  ASSUME TypeOK, NEW s \in Rings, LogSplit(s)
  PROVE  /\ Done(s) + Len(tasks[s]) + (Len(posted[s]) + 1) = Len(postLog[s]) + 1
         /\ Len(tasks[s]) > 0 => Done(s) + 1 \in 1 .. Len(postLog[s])
         /\ \A i \in 1 .. Done(s) : i \in 1 .. Len(postLog[s])
         /\ \A i \in 1 .. Len(tasks[s]) : Done(s) + i \in 1 .. Len(postLog[s])
         /\ \A i \in 1 .. Len(posted[s]) : Done(s) + Len(tasks[s]) + i \in 1 .. Len(postLog[s])
<1> DEFINE d == Done(s)
<1> DEFINE t == Len(tasks[s])
<1> DEFINE p == Len(posted[s])
<1> DEFINE n == Len(postLog[s])
<1>1. d \in Nat /\ t \in Nat /\ p \in Nat /\ n \in Nat /\ n = d + t + p
  BY DoneNat, RingTypes, Zenon
<1> HIDE DEF d, t, p, n
<1>2. /\ d + t + (p + 1) = n + 1
      /\ t > 0 => d + 1 \in 1 .. n
      /\ \A i \in 1 .. d : i \in 1 .. n
      /\ \A i \in 1 .. t : d + i \in 1 .. n
      /\ \A i \in 1 .. p : d + t + i \in 1 .. n
  BY <1>1
<1> QED
  BY <1>2, Zenon DEF d, t, p, n

\* Swapping posted_ out takes nothing up yet: the batch before it was done.
LEMMA SwapDone ==
  ASSUME TypeOK, NEW s \in Rings, LogSplit(s), ProcessPostedTasks(s)
  PROVE  tasks[s] = <<>> /\ Len(posted'[s]) = 0 /\ Done(s)' = Done(s)
<1>0. Len(tasks[s]) \in Nat /\ Len(posted[s]) \in Nat /\ Len(postLog[s]) \in Nat
  BY RingTypes, Zenon
<1>1. tasks'[s] = posted[s] /\ posted'[s] = <<>> /\ postLog' = postLog
  BY Zenon DEF ProcessPostedTasks, TakePosted, TypeOK, taskVars
<1>2. tasks[s] = <<>>
  BY Zenon DEF ProcessPostedTasks, At, LogSplit
<1>3. Len(tasks[s]) = 0 /\ Len(posted'[s]) = 0
  BY <1>1, <1>2
<1>4. Done(s)' = Done(s)
  BY <1>0, <1>1, <1>3 DEF Done
<1> QED
  BY <1>2, <1>3, <1>4

\* Running a task takes one up.
LEMMA RunDone ==
  ASSUME TypeOK, NEW s \in Rings, LogSplit(s), RunTask(s)
  PROVE  /\ Len(tasks[s]) > 0 /\ Len(tasks'[s]) = Len(tasks[s]) - 1 /\ Done(s)' = Done(s) + 1
         /\ \A i \in 1 .. Len(tasks[s]) - 1 : tasks'[s][i] = tasks[s][i + 1]
<1>0. /\ tasks[s] \in Seq(Tasks)
      /\ Len(tasks[s]) \in Nat /\ Len(posted[s]) \in Nat /\ Len(postLog[s]) \in Nat
  BY RingTypes
<1>1. tasks'[s] = Tail(tasks[s]) /\ tasks[s] # <<>> /\ posted' = posted /\ postLog' = postLog
  BY DEF RunTask, TypeOK
<1>2. Len(tasks[s]) > 0 /\ Len(tasks'[s]) = Len(tasks[s]) - 1
  BY <1>0, <1>1, SeqHeadTail, SeqEmpty, SMTT(30)
<1>3. \A i \in 1 .. Len(tasks[s]) - 1 : tasks'[s][i] = tasks[s][i + 1]
  BY <1>0, <1>1, SeqHeadTail, SeqEmpty
<1>4. Done(s)' = Done(s) + 1
  <2>1. Len(posted'[s]) = Len(posted[s]) /\ Len(postLog'[s]) = Len(postLog[s])
    BY <1>1
  <2>2. Len(tasks[s]) \in Nat /\ Len(posted[s]) \in Nat /\ Len(postLog[s]) \in Nat
    BY <1>0
  <2> QED
    BY <1>2, <2>1, <2>2 DEF Done
<1> QED
  BY <1>2, <1>3, <1>4

\* Posting a task adds it to the log and to posted_.
LEMMA PostDone ==
  ASSUME TypeOK, NEW s \in Rings, NEW t \in Threads, NEW k \in Tasks, Post(t, s, k)
  PROVE  /\ Len(posted'[s]) = Len(posted[s]) + 1 /\ Len(postLog'[s]) = Len(postLog[s]) + 1
         /\ posted'[s][Len(posted[s]) + 1] = k /\ postLog'[s][Len(postLog[s]) + 1] = k
         /\ \A i \in 1 .. Len(posted[s]) : posted'[s][i] = posted[s][i]
         /\ \A i \in 1 .. Len(postLog[s]) : postLog'[s][i] = postLog[s][i]
         /\ Done(s)' = Done(s)
<1>0. posted[s] \in Seq(Tasks) /\ postLog[s] \in Seq(Tasks)
  BY RingTypes
<1>1. /\ posted'[s] = Append(posted[s], k) /\ postLog'[s] = Append(postLog[s], k)
      /\ tasks' = tasks
  BY Zenon DEF Post, PushPosted, TypeOK, loopVars
<1>2. Len(posted'[s]) = Len(posted[s]) + 1 /\ Len(postLog'[s]) = Len(postLog[s]) + 1
  BY <1>0, <1>1, SeqAppend, SMTT(30)
<1>3. /\ posted'[s][Len(posted[s]) + 1] = k /\ postLog'[s][Len(postLog[s]) + 1] = k
      /\ \A i \in 1 .. Len(posted[s]) : posted'[s][i] = posted[s][i]
      /\ \A i \in 1 .. Len(postLog[s]) : postLog'[s][i] = postLog[s][i]
  BY <1>0, <1>1, SeqAppend, SMTT(30)
<1>4. Done(s)' = Done(s)
  <2>1. Len(tasks[s]) \in Nat /\ Len(posted[s]) \in Nat /\ Len(postLog[s]) \in Nat
    BY RingTypes
  <2>2. (Len(postLog[s]) + 1) - Len(tasks[s]) - (Len(posted[s]) + 1)
          = Len(postLog[s]) - Len(tasks[s]) - Len(posted[s])
    BY <2>1
  <2> QED
    BY <1>1, <1>2, <2>2 DEF Done
<1> QED
  BY <1>2, <1>3, <1>4, Zenon

\* posted_ and the batch stay the two last parts of the log: swapping posted_
\* out moves the border between them, running a task moves the other one.
LEMMA SplitStep ==
  ASSUME TypeOK, NEW s \in Rings, LogSplit(s), Next
  PROVE  LogSplit(s)'
<1>9. Len(tasks[s]) \in Nat /\ Len(posted[s]) \in Nat /\ Len(postLog[s]) \in Nat
  BY RingTypes
<1>8. Done(s) \in Nat /\ Len(postLog[s]) = Done(s) + Len(tasks[s]) + Len(posted[s])
  BY DoneNat
<1>7. Done(s) \in Nat
  BY DoneNat
<1>6. Done(s) + Len(tasks[s]) + (Len(posted[s]) + 1) = Len(postLog[s]) + 1
  BY DoneParts, Zenon
<1>1. ASSUME NEW r \in Rings \ {s}, OwnerStep(r) \/ WaitTimesOut(r)
      PROVE  LogSplit(s)'
  <2>1. tasks'[s] = tasks[s] /\ posted'[s] = posted[s] /\ pc'[s] = pc[s]
    BY <1>1, OwnerLocal
  <2>2. postLog' = postLog
    BY <1>1, SendNothing
  <2> QED
    BY <2>1, <2>2, LogKept
<1>2. ASSUME OwnerStep(s) \/ WaitTimesOut(s)
      PROVE  LogSplit(s)'
  <2>0. postLog' = postLog
    BY <1>2, SendNothing, Zenon
  <2>1. CASE ProcessPostedTasks(s)
    <3>1. tasks'[s] = posted[s] /\ posted'[s] = <<>> /\ pc'[s] \in {"run1", "run2"}
      BY <2>1 DEF ProcessPostedTasks, TakePosted, Goto, TypeOK
    <3>2. Len(tasks[s]) = 0 /\ Len(posted'[s]) = 0 /\ Done(s)' = Done(s)
      BY <2>1, SwapDone, Zenon
    <3>3. \A d \in Nat : d + 0 = d /\ d >= 0 /\ \A i \in 1 .. 0 : FALSE
      OBVIOUS
    <3>4. \A i \in 1 .. Len(posted[s]) : posted[s][i] = postLog[s][Done(s) + i]
      BY <1>7, <3>2, <3>3, Zenon DEF LogSplit
    <3> QED
      BY <1>7, <2>0, <3>1, <3>2, <3>3, <3>4, Zenon DEF LogSplit
  <2>2. CASE RunTask(s)
    <3>1. posted' = posted /\ pc[s] \in {"run1", "run2"} /\ pc' = pc
      BY <2>2 DEF RunTask, At, TypeOK
    <3>2. Len(tasks[s]) > 0 /\ Len(tasks'[s]) = Len(tasks[s]) - 1 /\ Done(s)' = Done(s) + 1
      BY <2>2, RunDone
    <3>3. \A i \in 1 .. Len(tasks[s]) - 1 : tasks'[s][i] = tasks[s][i + 1]
      BY <2>2, RunDone, Zenon
    <3>4. ASSUME NEW i \in 1 .. Len(tasks'[s])
          PROVE  tasks'[s][i] = postLog[s][Done(s) + 1 + i]
      <4>2. i \in 1 .. Len(tasks[s]) - 1
        BY <3>2
      <4>1. i + 1 \in 1 .. Len(tasks[s]) /\ Done(s) + (i + 1) = Done(s) + 1 + i
        BY <1>7, <1>9, <4>2
      <4> QED
        BY <3>3, <4>1, <4>2 DEF LogSplit
    <3>5. ASSUME NEW i \in 1 .. Len(posted[s])
          PROVE  posted[s][i] = postLog[s][Done(s) + 1 + Len(tasks'[s]) + i]
      <4>1. Done(s) + 1 + Len(tasks'[s]) + i = Done(s) + Len(tasks[s]) + i
        BY <1>8, <1>9, <3>2
      <4> QED
        BY <4>1 DEF LogSplit
    <3>6. Done(s)' = Done(s) + 1 /\ Done(s) + 1 >= 0
      BY <1>7, <3>2
    <3> QED
      BY <2>0, <3>1, <3>4, <3>5, <3>6, Zenon DEF LogSplit
  <2>3. CASE \/ TasksDone(s) \/ AppReturns(s) \/ DispatchFlush(s) \/ ArmWakePoll(s) \/ WaitReturns(s)
             \/ HandleCqe(s) \/ WaitTimesOut(s) \/ DrainEnds(s)
    <3>1. UNCHANGED <<tasks, posted>>
      BY <2>3 DEF TasksDone, AppReturns, DispatchFlush, ArmWakePoll, WaitReturns, HandleCqe,
           WaitTimesOut, DrainEnds
    <3>2. pc'[s] = pc[s] \/ tasks[s] = <<>>
      BY <2>3 DEF TasksDone, AppReturns, DispatchFlush, ArmWakePoll, WaitReturns, HandleCqe,
           WaitTimesOut, DrainEnds, At, LogSplit
    <3> QED
      BY <2>0, <3>1, <3>2, LogKept
  <2> QED
    BY <1>2, <2>1, <2>2, <2>3 DEF OwnerStep
<1>3. ASSUME NEW t \in Threads, SenderStep(t)
      PROVE  LogSplit(s)'
  <2>0. UNCHANGED <<pc, tasks>>
    BY <1>3, SenderLocal
  <2>1. CASE posted'[s] = posted[s] /\ postLog'[s] = postLog[s]
    BY <2>0, <2>1, LogKept
  <2>2. ASSUME NEW r \in Rings, NEW k \in Tasks, Post(t, r, k)
        PROVE  LogSplit(s)'
    <3>1. CASE r # s
      BY <2>1, <2>2, <3>1 DEF Post, PushPosted, TypeOK
    <3>2. CASE r = s
      <4>1. Len(posted'[s]) = Len(posted[s]) + 1 /\ Done(s)' = Done(s)
        BY <2>2, <3>2, PostDone, Zenon
      <4>2. /\ posted'[s][Len(posted[s]) + 1] = k /\ postLog'[s][Len(postLog[s]) + 1] = k
            /\ \A i \in 1 .. Len(posted[s]) : posted'[s][i] = posted[s][i]
            /\ \A i \in 1 .. Len(postLog[s]) : postLog'[s][i] = postLog[s][i]
        BY <2>2, <3>2, PostDone, ZenonT(40)
      <4>4. ASSUME NEW i \in 1 .. Len(tasks[s])
            PROVE  tasks[s][i] = postLog'[s][Done(s) + i]
        <5>1. Done(s) + i \in 1 .. Len(postLog[s])
          BY DoneParts, Zenon
        <5> QED
          BY <4>2, <5>1, Zenon DEF LogSplit
      <4>5. ASSUME NEW i \in 1 .. Len(posted'[s])
            PROVE  posted'[s][i] = postLog'[s][Done(s) + Len(tasks[s]) + i]
        <5>1. CASE i = Len(posted[s]) + 1
          <6>1. Done(s) + Len(tasks[s]) + i = Len(postLog[s]) + 1
            BY <1>6, <5>1
          <6> QED
            BY <4>2, <5>1, <6>1
        <5>2. CASE i \in 1 .. Len(posted[s])
          <6>1. Done(s) + Len(tasks[s]) + i \in 1 .. Len(postLog[s])
            BY <5>2, DoneParts, Zenon
          <6> QED
            BY <4>2, <5>2, <6>1, Zenon DEF LogSplit
        <5> QED
          BY <1>9, <4>1, <5>1, <5>2
      <4> QED
        BY <1>8, <2>0, <4>1, <4>4, <4>5, Zenon DEF LogSplit
    <3> QED
      BY <3>1, <3>2
  <2>3. CASE UNCHANGED <<posted, postLog>>
    BY <2>1, <2>3
  <2> QED
    BY <1>3, <2>2, <2>3, Zenon DEF SenderStep, Wake, PrepareIo, RunOnRingInline, RunOnRingMessage, taskVars
<1>4. ASSUME KernelStep
      PROVE  LogSplit(s)'
  <2>1. UNCHANGED <<pc, tasks, posted, postLog>>
    BY <1>4 DEF KernelStep, PollFires, IoCompletes, MessageArrives, loopVars, taskVars
  <2> QED
    BY <2>1, LogKept, Zenon
<1> QED
  BY <1>1, <1>2, <1>3, <1>4 DEF Next

\* What a step may do to what was sent: send one task that was unsent, and
\* post it to one ring or not at all.
LEMMA OneIsSent ==
  ASSUME TypeOK, Next
  PROVE  \/ UNCHANGED <<source, postLog>>
         \/ \E t \in Threads, k \in Tasks :
              /\ Unsent(k) /\ SentBy(t, k)
              /\ postLog' = postLog \/ \E r \in Rings : postLog' = [postLog EXCEPT ![r] = Append(@, k)]
<1>1. ASSUME NEW t \in Threads, SenderStep(t)
      PROVE  \/ UNCHANGED <<source, postLog>>
             \/ \E k \in Tasks :
                  /\ Unsent(k) /\ SentBy(t, k)
                  /\ postLog' = postLog \/ \E r \in Rings : postLog' = [postLog EXCEPT ![r] = Append(@, k)]
  BY <1>1, ZenonT(40) DEF SenderStep, Wake, PrepareIo, Post, RunOnRingInline, RunOnRingMessage, taskVars
<1> QED
  BY <1>1, SendNothing DEF Next

\* A task is not posted twice: Post takes a task nobody has sent.
LEMMA ProperStep ==
  ASSUME TypeOK, NEW s \in Rings, LogProper(s), Next
  PROVE  LogProper(s)'
<1>0. /\ postLog[s] \in Seq(Tasks) /\ Len(postLog[s]) \in Nat
      /\ \A i \in 1 .. Len(postLog[s]) : postLog[s][i] \in Tasks
  BY RingTypes
<1>1. CASE UNCHANGED <<source, postLog>>
  BY <1>1 DEF LogProper, Unsent
<1>2. ASSUME NEW t \in Threads, NEW k \in Tasks, Unsent(k), SentBy(t, k)
      PROVE  /\ \A i \in 1 .. Len(postLog[s]) : source'[postLog[s][i]] # NoRing /\ postLog[s][i] # k
             /\ ~Unsent(k)'
  <2>1. ~Unsent(k)'
    BY <1>2, RingNames DEF SentBy, Unsent, TypeOK, Threads
  <2> SUFFICES ASSUME NEW i \in 1 .. Len(postLog[s])
               PROVE  source'[postLog[s][i]] # NoRing /\ postLog[s][i] # k
    BY <2>1, Zenon
  <2>2. PICK x \in Tasks : x = postLog[s][i]
    BY <1>0, ZenonT(40)
  <2>3. ~Unsent(x)
    BY <2>2 DEF LogProper
  <2>4. ~Unsent(x)'
    BY <1>2, <2>3, SentStays, Zenon
  <2> QED
    BY <1>2, <2>2, <2>3, <2>4 DEF Unsent
<1>3. ASSUME NEW t \in Threads, NEW k \in Tasks, Unsent(k), SentBy(t, k),
             postLog'[s] = postLog[s] \/ postLog'[s] = Append(postLog[s], k)
      PROVE  LogProper(s)'
  <2>1. CASE postLog'[s] = postLog[s]
    BY <1>2, <1>3, <2>1, Zenon DEF LogProper, Unsent
  <2>2. CASE postLog'[s] = Append(postLog[s], k)
    <3>1. /\ Len(postLog'[s]) = Len(postLog[s]) + 1 /\ postLog'[s][Len(postLog[s]) + 1] = k
          /\ \A i \in 1 .. Len(postLog[s]) : postLog'[s][i] = postLog[s][i]
      BY <1>0, <2>2, SeqAppend
    <3>2. \A i \in 1 .. Len(postLog'[s]) : i = Len(postLog[s]) + 1 \/ i \in 1 .. Len(postLog[s])
      BY <1>0, <3>1, IndexNext, Zenon
    <3>3. \A i, j \in 1 .. Len(postLog'[s]) : postLog'[s][i] = postLog'[s][j] => i = j
      BY <1>2, <1>3, <3>1, <3>2, Zenon DEF LogProper
    <3>4. \A i \in 1 .. Len(postLog'[s]) : source'[postLog'[s][i]] # NoRing
      BY <1>2, <1>3, <3>1, <3>2, ZenonT(40) DEF Unsent
    <3> QED
      BY <3>3, <3>4, ZenonT(40) DEF LogProper, Unsent
  <2> QED
    BY <1>3, <2>1, <2>2, Zenon
<1>4. ASSUME NEW k \in Tasks, NEW r \in Rings, postLog' = [postLog EXCEPT ![r] = Append(@, k)]
      PROVE  postLog'[s] = postLog[s] \/ postLog'[s] = Append(postLog[s], k)
  BY <1>4, Zenon DEF TypeOK
<1> QED
  BY <1>1, <1>3, <1>4, OneIsSent

\* A task that was sent stays sent in every step.
LEMMA SentForever ==
  ASSUME TypeOK, Next, NEW x \in Tasks, ~Unsent(x)
  PROVE  source'[x] # NoRing
<1>1. CASE source' = source
  BY <1>1 DEF Unsent
<1>2. ASSUME NEW t \in Threads, NEW k \in Tasks, SentBy(t, k)
      PROVE  source'[x] # NoRing
  BY <1>2, SentStays, Zenon DEF Unsent
<1> QED
  BY <1>1, <1>2, OneIsSent

\* The order says the same of the same lists.
LEMMA RunSame ==
  ASSUME NEW s \in Rings, RunProper(s), \A n \in 1 .. Len(ran[s]) : source'[ran[s][n]] # NoRing,
         ran'[s] = ran[s], postLog'[s] = postLog[s], Done(s)' = Done(s)
  PROVE  RunProper(s)'
<1>1. \A a \in 1 .. Done(s)' : \E n \in 1 .. Len(ran'[s]) : ran'[s][n] = postLog'[s][a]
  BY Zenon DEF RunProper
<1>2. ASSUME NEW n \in 1 .. Len(ran'[s]), NEW b \in 1 .. Len(postLog'[s]), ran'[s][n] = postLog'[s][b]
      PROVE  b <= Done(s)' /\ \A a \in 1 .. b - 1 : \E m \in 1 .. n - 1 : ran'[s][m] = postLog'[s][a]
  <2>1. n \in 1 .. Len(ran[s]) /\ b \in 1 .. Len(postLog[s]) /\ ran[s][n] = postLog[s][b]
    BY <1>2, Zenon
  <2>2. b <= Done(s) /\ \A a \in 1 .. b - 1 : \E m \in 1 .. n - 1 : ran[s][m] = postLog[s][a]
    BY <2>1, Zenon DEF RunProper
  <2> QED
    BY <2>2, Zenon
<1>3. \A n \in 1 .. Len(ran'[s]) : source'[ran'[s][n]] # NoRing
  BY Zenon
<1> QED
  BY <1>1, <1>2, <1>3, Zenon DEF RunProper, Unsent

\* A step that runs nothing here, takes nothing up and posts nothing here.
LEMMA RunKept ==
  ASSUME TypeOK, NEW s \in Rings, RunProper(s), Next,
         ran'[s] = ran[s], postLog'[s] = postLog[s], Done(s)' = Done(s)
  PROVE  RunProper(s)'
<1>1. \A n \in 1 .. Len(ran[s]) : source'[ran[s][n]] # NoRing
  <2>1. ASSUME NEW n \in 1 .. Len(ran[s])
        PROVE  source'[ran[s][n]] # NoRing
    <3>1. ran[s][n] \in Tasks
      BY RingTypes, SeqElement, Zenon
    <3>2. ~Unsent(ran[s][n])
      BY Zenon DEF RunProper
    <3> QED
      BY <3>1, <3>2, SentForever, Zenon
  <2> QED
    BY <2>1, Zenon
<1> QED
  BY <1>1, RunSame, Zenon

\* Running a task that was not posted here, by message or inline, comes between
\* the posted ones.
LEMMA RunBetween ==
  ASSUME TypeOK, NEW s \in Rings, RunProper(s), Next, NEW x \in Tasks, source'[x] # NoRing,
         \A b \in 1 .. Len(postLog[s]) : postLog[s][b] # x,
         ran'[s] = Append(ran[s], x), postLog'[s] = postLog[s], Done(s)' = Done(s)
  PROVE  RunProper(s)'
<1>0. ran[s] \in Seq(Tasks) /\ Len(ran[s]) \in Nat /\ \A n \in 1 .. Len(ran[s]) : ran[s][n] \in Tasks
  BY RingTypes, Zenon
<1>1. /\ Len(ran'[s]) = Len(ran[s]) + 1 /\ ran'[s][Len(ran[s]) + 1] = x
      /\ \A n \in 1 .. Len(ran[s]) : ran'[s][n] = ran[s][n]
  BY <1>0, SeqAppend
<1>2. \A n \in 1 .. Len(ran'[s]) : n \in 1 .. Len(ran[s]) \/ n = Len(ran[s]) + 1
  BY <1>0, <1>1, IndexNext, Zenon
<1>3. \A n \in 1 .. Len(ran[s]) : n \in 1 .. Len(ran'[s]) /\ \A m \in 1 .. n - 1 : m \in 1 .. Len(ran[s])
  BY <1>0, <1>1, IndexNext, Zenon
<1>4. \A n \in 1 .. Len(ran'[s]) : source'[ran'[s][n]] # NoRing
  BY <1>0, <1>1, <1>2, SentForever, Zenon DEF RunProper
<1>5. ASSUME NEW a \in 1 .. Done(s)
      PROVE  \E n \in 1 .. Len(ran'[s]) : ran'[s][n] = postLog[s][a]
  <2>1. PICK n \in 1 .. Len(ran[s]) : ran[s][n] = postLog[s][a]
    BY Zenon DEF RunProper
  <2> QED
    BY <1>1, <1>3, <2>1, Zenon
<1>6. ASSUME NEW n \in 1 .. Len(ran'[s]), NEW b \in 1 .. Len(postLog[s]), ran'[s][n] = postLog[s][b]
      PROVE  b <= Done(s) /\ \A a \in 1 .. b - 1 : \E m \in 1 .. n - 1 : ran'[s][m] = postLog[s][a]
  <2>1. n \in 1 .. Len(ran[s]) /\ ran[s][n] = postLog[s][b]
    BY <1>1, <1>2, <1>6, Zenon
  <2>2. b <= Done(s) /\ \A a \in 1 .. b - 1 : \E m \in 1 .. n - 1 : ran[s][m] = postLog[s][a]
    BY <2>1, Zenon DEF RunProper
  <2>3. ASSUME NEW a \in 1 .. b - 1
        PROVE  \E m \in 1 .. n - 1 : ran'[s][m] = postLog[s][a]
    <3>1. PICK m \in 1 .. n - 1 : ran[s][m] = postLog[s][a]
      BY <2>2, Zenon
    <3>2. ran'[s][m] = ran[s][m]
      BY <1>1, <1>3, <2>1, Zenon
    <3> QED
      BY <3>1, <3>2, Zenon
  <2> QED
    BY <2>2, <2>3, Zenon
<1>7. \A a \in 1 .. Done(s)' : \E n \in 1 .. Len(ran'[s]) : ran'[s][n] = postLog'[s][a]
  BY <1>5, Zenon
<1>8. \A n \in 1 .. Len(ran'[s]), b \in 1 .. Len(postLog'[s]) :
        ran'[s][n] = postLog'[s][b] =>
          b <= Done(s)' /\ \A a \in 1 .. b - 1 : \E m \in 1 .. n - 1 : ran'[s][m] = postLog'[s][a]
  <2>1. ASSUME NEW n \in 1 .. Len(ran'[s]), NEW b \in 1 .. Len(postLog'[s]), ran'[s][n] = postLog'[s][b]
        PROVE  b <= Done(s)' /\ \A a \in 1 .. b - 1 : \E m \in 1 .. n - 1 : ran'[s][m] = postLog'[s][a]
    <3>1. b \in 1 .. Len(postLog[s]) /\ ran'[s][n] = postLog[s][b]
      BY <2>1, Zenon
    <3>2. b <= Done(s) /\ \A a \in 1 .. b - 1 : \E m \in 1 .. n - 1 : ran'[s][m] = postLog[s][a]
      BY <1>6, <3>1, Zenon
    <3> QED
      BY <3>2, Zenon
  <2> QED
    BY <2>1, Zenon
<1> QED
  BY <1>4, <1>7, <1>8, Zenon DEF RunProper, Unsent

\* Running the next posted task: all before it in the log have run.
LEMMA RunNextPosted ==
  ASSUME TypeOK, NEW s \in Rings, LogSplit(s), LogProper(s), RunProper(s), Next, RunTask(s)
  PROVE  RunProper(s)'
<1> DEFINE x == Head(tasks[s])
<1>0. ran[s] \in Seq(Tasks) /\ Len(ran[s]) \in Nat /\ \A n \in 1 .. Len(ran[s]) : ran[s][n] \in Tasks
  BY RingTypes, Zenon
<1>9. /\ tasks[s] \in Seq(Tasks) /\ Len(tasks[s]) \in Nat /\ Len(posted[s]) \in Nat
      /\ Len(postLog[s]) \in Nat /\ \A i \in 1 .. Len(postLog[s]) : postLog[s][i] \in Tasks
  BY RingTypes, Zenon
<1>8. Done(s) \in Nat /\ Len(postLog[s]) = Done(s) + Len(tasks[s]) + Len(posted[s])
  BY DoneNat, Zenon
<1>1. ran'[s] = Append(ran[s], x) /\ tasks[s] # <<>> /\ postLog' = postLog /\ source' = source
  BY DEF RunTask, Ran, TypeOK
<1>2. Len(tasks[s]) > 0 /\ Done(s)' = Done(s) + 1
  BY RunDone, Zenon
<1>3. Done(s) + 1 \in 1 .. Len(postLog[s])
  BY <1>2, DoneParts, Zenon
<1>4. x = postLog[s][Done(s) + 1] /\ x \in Tasks /\ ~Unsent(x)
  <2>1. x = tasks[s][1] /\ 1 \in 1 .. Len(tasks[s])
    BY <1>1, <1>2, <1>9, SeqHeadTail, SMTT(30)
  <2>2. x = postLog[s][Done(s) + 1]
    BY <2>1, Zenon DEF LogSplit
  <2> HIDE DEF x
  <2> QED
    BY <1>3, <1>9, <2>2, ZenonT(40) DEF LogProper
<1> HIDE DEF x
<1>5. /\ Len(ran'[s]) = Len(ran[s]) + 1 /\ ran'[s][Len(ran[s]) + 1] = x
      /\ \A n \in 1 .. Len(ran[s]) : ran'[s][n] = ran[s][n]
  BY <1>0, <1>1, <1>4, SeqAppend
<1>6. \A n \in 1 .. Len(ran'[s]) : n \in 1 .. Len(ran[s]) \/ n = Len(ran[s]) + 1
  BY <1>0, <1>5, IndexNext, Zenon
<1>7. \A n \in 1 .. Len(ran[s]) : n \in 1 .. Len(ran'[s]) /\ \A m \in 1 .. n - 1 : m \in 1 .. Len(ran[s])
  BY <1>0, <1>5, IndexNext, Zenon
<1>10. \A n \in 1 .. Len(ran'[s]) : source'[ran'[s][n]] # NoRing
  BY <1>0, <1>1, <1>4, <1>5, <1>6, Zenon DEF RunProper, Unsent
<1>11. ASSUME NEW a \in 1 .. Done(s) + 1
       PROVE  \E n \in 1 .. Len(ran'[s]) : ran'[s][n] = postLog[s][a]
  <2>1. CASE a = Done(s) + 1
    <3>1. Len(ran[s]) + 1 \in 1 .. Len(ran'[s])
      BY <1>0, <1>5, IndexNext, Zenon
    <3> QED
      BY <1>4, <1>5, <2>1, <3>1, Zenon
  <2>2. CASE a \in 1 .. Done(s)
    <3>1. PICK n \in 1 .. Len(ran[s]) : ran[s][n] = postLog[s][a]
      BY <2>2, Zenon DEF RunProper
    <3> QED
      BY <1>5, <1>7, <3>1, Zenon
  <2>3. a = Done(s) + 1 \/ a \in 1 .. Done(s)
    BY <1>8, IndexNext, Zenon
  <2> QED
    BY <2>1, <2>2, <2>3, Zenon
<1>12. ASSUME NEW n \in 1 .. Len(ran'[s]), NEW b \in 1 .. Len(postLog[s]), ran'[s][n] = postLog[s][b]
       PROVE  b <= Done(s) + 1 /\ \A a \in 1 .. b - 1 : \E m \in 1 .. n - 1 : ran'[s][m] = postLog[s][a]
  <2>1. CASE n \in 1 .. Len(ran[s])
    <3>1. ran[s][n] = postLog[s][b]
      BY <1>5, <1>12, <2>1, Zenon
    <3>2. b <= Done(s) /\ \A a \in 1 .. b - 1 : \E m \in 1 .. n - 1 : ran[s][m] = postLog[s][a]
      BY <2>1, <3>1, Zenon DEF RunProper
    <3>3. b \in Nat /\ b <= Done(s) + 1
      <4>1. b \in Nat
        OBVIOUS
      <4> QED
        BY <1>8, <3>2, <4>1, BelowNext, Zenon
    <3>4. ASSUME NEW a \in 1 .. b - 1
          PROVE  \E m \in 1 .. n - 1 : ran'[s][m] = postLog[s][a]
      <4>1. PICK m \in 1 .. n - 1 : ran[s][m] = postLog[s][a]
        BY <3>2, Zenon
      <4>2. ran'[s][m] = ran[s][m]
        BY <1>5, <1>7, <2>1, Zenon
      <4> QED
        BY <4>1, <4>2, Zenon
    <3> QED
      BY <3>3, <3>4, Zenon
  <2>2. CASE n = Len(ran[s]) + 1
    <3>1. b = Done(s) + 1
      BY <1>3, <1>4, <1>5, <1>12, <2>2, Zenon DEF LogProper
    <3>2. ASSUME NEW a \in 1 .. b - 1
          PROVE  \E m \in 1 .. n - 1 : ran'[s][m] = postLog[s][a]
      <4>1. a \in 1 .. Done(s)
        BY <1>8, <3>1, BelowNext, Zenon
      <4>2. PICK m \in 1 .. Len(ran[s]) : ran[s][m] = postLog[s][a]
        BY <4>1, Zenon DEF RunProper
      <4>3. m \in 1 .. n - 1
        BY <1>0, <2>2, IndexNext, Zenon
      <4> QED
        BY <1>5, <4>2, <4>3, Zenon
    <3> QED
      BY <1>8, <3>1, <3>2, BelowNext, Zenon
  <2> QED
    BY <1>6, <2>1, <2>2, Zenon
<1>13. \A a \in 1 .. Done(s)' : \E n \in 1 .. Len(ran'[s]) : ran'[s][n] = postLog'[s][a]
  BY <1>1, <1>2, <1>11, Zenon
<1>14. \A n \in 1 .. Len(ran'[s]), b \in 1 .. Len(postLog'[s]) :
         ran'[s][n] = postLog'[s][b] =>
           b <= Done(s)' /\ \A a \in 1 .. b - 1 : \E m \in 1 .. n - 1 : ran'[s][m] = postLog'[s][a]
  BY <1>1, <1>2, <1>12, Zenon
<1> QED
  BY <1>10, <1>13, <1>14, Zenon DEF RunProper, Unsent

\* A task posted here has not run: nobody had sent it before.
LEMMA RunPosted ==
  ASSUME TypeOK, NEW s \in Rings, LogSplit(s), RunProper(s), Next,
         NEW t \in Threads, NEW k \in Tasks, Post(t, s, k)
  PROVE  RunProper(s)'
<1>0. Len(ran[s]) \in Nat /\ Len(postLog[s]) \in Nat /\ \A n \in 1 .. Len(ran[s]) : ran[s][n] \in Tasks
  BY RingTypes, Zenon
<1>1. ran' = ran /\ Unsent(k)
  BY DEF Post
<1>2. /\ Len(postLog'[s]) = Len(postLog[s]) + 1 /\ postLog'[s][Len(postLog[s]) + 1] = k
      /\ \A i \in 1 .. Len(postLog[s]) : postLog'[s][i] = postLog[s][i]
      /\ Done(s)' = Done(s)
  BY PostDone, Zenon
<1>3. Done(s) \in Nat /\ \A a \in 1 .. Done(s) : a \in 1 .. Len(postLog[s])
  BY DoneNat, DoneParts, Zenon
<1>4. ASSUME NEW n \in 1 .. Len(ran[s])
      PROVE  source'[ran[s][n]] # NoRing /\ ran[s][n] # k
  <2>1. ran[s][n] \in Tasks /\ ~Unsent(ran[s][n])
    BY <1>0, Zenon DEF RunProper
  <2> QED
    BY <1>1, <2>1, SentForever, Zenon
<1>5. ASSUME NEW a \in 1 .. Done(s)
      PROVE  \E n \in 1 .. Len(ran[s]) : ran[s][n] = postLog'[s][a]
  <2>1. postLog'[s][a] = postLog[s][a]
    BY <1>2, <1>3, Zenon
  <2> QED
    BY <2>1, Zenon DEF RunProper
<1>6. ASSUME NEW n \in 1 .. Len(ran[s]), NEW b \in 1 .. Len(postLog'[s]), ran[s][n] = postLog'[s][b]
      PROVE  b <= Done(s) /\ \A a \in 1 .. b - 1 : \E m \in 1 .. n - 1 : ran[s][m] = postLog'[s][a]
  <2>1. b \in 1 .. Len(postLog[s])
    <3>1. b \in 1 .. Len(postLog[s]) \/ b = Len(postLog[s]) + 1
      BY <1>0, <1>2, IndexNext, Zenon
    <3> QED
      BY <1>2, <1>4, <1>6, <3>1, Zenon
  <2>2. b <= Done(s) /\ \A a \in 1 .. b - 1 : \E m \in 1 .. n - 1 : ran[s][m] = postLog[s][a]
    <3>1. ran[s][n] = postLog[s][b]
      BY <1>2, <1>6, <2>1, Zenon
    <3> QED
      BY <2>1, <3>1, Zenon DEF RunProper
  <2>3. \A a \in 1 .. b - 1 : a \in 1 .. Len(postLog[s])
    BY <1>0, <2>1, IndexNext, Zenon
  <2> QED
    BY <1>2, <2>2, <2>3, Zenon
<1>7. \A a \in 1 .. Done(s)' : \E n \in 1 .. Len(ran'[s]) : ran'[s][n] = postLog'[s][a]
  BY <1>1, <1>2, <1>5, Zenon
<1>8. \A n \in 1 .. Len(ran'[s]), b \in 1 .. Len(postLog'[s]) :
        ran'[s][n] = postLog'[s][b] =>
          b <= Done(s)' /\ \A a \in 1 .. b - 1 : \E m \in 1 .. n - 1 : ran'[s][m] = postLog'[s][a]
  BY <1>1, <1>2, <1>6, ZenonT(40)
<1>9. \A n \in 1 .. Len(ran'[s]) : source'[ran'[s][n]] # NoRing
  BY <1>1, <1>4, Zenon
<1> QED
  BY <1>7, <1>8, <1>9, Zenon DEF RunProper, Unsent

\* Every step keeps the order of what has run.
LEMMA RunStep ==
  ASSUME OrderInv, Next, NEW s \in Rings
  PROVE  RunProper(s)'
<1>0. TypeOK /\ LogSplit(s) /\ LogProper(s) /\ RunProper(s)
  BY Zenon DEF OrderInv
<1>1. CASE ran'[s] = ran[s] /\ tasks'[s] = tasks[s] /\ posted'[s] = posted[s] /\ postLog'[s] = postLog[s]
  <2>1. Done(s)' = Done(s)
    BY <1>1, Zenon DEF Done
  <2> QED
    BY <1>0, <1>1, <2>1, RunKept, Zenon
<1>2. ASSUME NEW r \in Rings \ {s}, OwnerStep(r) \/ WaitTimesOut(r)
      PROVE  RunProper(s)'
  <2>1. ran'[s] = ran[s] /\ tasks'[s] = tasks[s] /\ posted'[s] = posted[s]
    BY <1>0, <1>2, OwnerLocal, Zenon
  <2>2. postLog' = postLog
    BY <1>2, SendNothing
  <2> QED
    BY <1>1, <2>1, <2>2, ZenonT(40)
<1>3. ASSUME OwnerStep(s) \/ WaitTimesOut(s)
      PROVE  RunProper(s)'
  <2>0. postLog' = postLog /\ source' = source
    BY <1>3, SendNothing, Zenon
  <2>1. CASE ProcessPostedTasks(s)
    <3>1. ran' = ran /\ Done(s)' = Done(s)
      BY <1>0, <2>1, SwapDone, Zenon DEF ProcessPostedTasks, taskVars
    <3> QED
      BY <1>0, <2>0, <3>1, RunKept, Zenon
  <2>2. CASE RunTask(s)
    BY <1>0, <2>2, RunNextPosted, ZenonT(40)
  <2>3. CASE HandleCqe(s)
    <3>1. UNCHANGED <<tasks, posted>>
      BY <2>3 DEF HandleCqe
    <3>2. CASE ran' = ran
      BY <1>1, <2>0, <3>1, <3>2, Zenon
    <3>3. CASE Head(cq[s]).kind = "task" /\ Ran(s, Head(cq[s]).task)
      <4>1. cq[s] \in Seq(Cqes) /\ cq[s] # <<>>
        BY <1>0, <2>3, Zenon DEF HandleCqe, TypeOK
      <4>2. Head(cq[s]) \in Cqes /\ Head(cq[s]) = cq[s][1] /\ 1 \in 1 .. Len(cq[s])
        BY <4>1, SeqHeadTail, SeqEmpty, SeqIndexed
      <4>3. PICK x \in Tasks : x = Head(cq[s]).task
        BY <3>3, <4>2, Zenon DEF Cqes
      <4>4. Travels(x)
        BY <3>3, <4>2, <4>3, Zenon DEF OrderInv, MessagesProper
      <4>5. source'[x] # NoRing /\ \A b \in 1 .. Len(postLog[s]) : postLog[s][b] # x
        BY <2>0, <4>4, Zenon DEF Travels, Unsent, WasPosted
      <4>6. ran'[s] = Append(ran[s], x)
        BY <1>0, <3>3, <4>3 DEF Ran, TypeOK
      <4>7. Done(s)' = Done(s)
        BY <2>0, <3>1 DEF Done
      <4> QED
        BY <1>0, <2>0, <4>5, <4>6, <4>7, RunBetween, Zenon
    <3> QED
      BY <2>3, <3>2, <3>3 DEF HandleCqe
  <2>4. CASE \/ TasksDone(s) \/ AppReturns(s) \/ DispatchFlush(s) \/ ArmWakePoll(s) \/ WaitReturns(s)
             \/ WaitTimesOut(s) \/ DrainEnds(s)
    <3>1. UNCHANGED <<ran, tasks, posted>>
      BY <2>4 DEF TasksDone, AppReturns, DispatchFlush, ArmWakePoll, WaitReturns, WaitTimesOut,
           DrainEnds, taskVars
    <3> QED
      BY <1>1, <2>0, <3>1
  <2> QED
    BY <1>3, <2>1, <2>2, <2>3, <2>4 DEF OwnerStep
<1>4. ASSUME NEW t \in Threads, NEW r \in Rings, NEW k \in Tasks, Post(t, r, k)
      PROVE  RunProper(s)'
  <2>1. CASE r = s
    BY <1>0, <1>4, <2>1, RunPosted
  <2>2. CASE r # s
    <3>1. UNCHANGED <<ran, tasks>> /\ posted'[s] = posted[s] /\ postLog'[s] = postLog[s]
      BY <1>0, <1>4, <2>2 DEF Post, PushPosted, loopVars, TypeOK
    <3> QED
      BY <1>1, <3>1, Zenon
  <2> QED
    BY <2>1, <2>2
<1>5. ASSUME NEW r \in Rings, NEW k \in Tasks, RunOnRingInline(r, k)
      PROVE  RunProper(s)'
  <2>1. UNCHANGED <<tasks, posted, postLog>> /\ Unsent(k)
    BY <1>5, Zenon DEF RunOnRingInline, loopVars
  <2>2. CASE r # s
    <3>1. ran'[s] = ran[s]
      BY <1>0, <1>5, <2>2, Zenon DEF RunOnRingInline, Ran, TypeOK
    <3> QED
      BY <1>1, <2>1, <3>1, Zenon
  <2>3. CASE r = s
    <3>1. ran'[s] = Append(ran[s], k)
      BY <1>0, <1>5, <2>3, Zenon DEF RunOnRingInline, Ran, TypeOK
    <3>2. source'[k] # NoRing
      BY <1>0, <1>5, RingNames, Zenon DEF RunOnRingInline, SentBy, TypeOK
    <3>3. \A b \in 1 .. Len(postLog[s]) : postLog[s][b] # k
      BY <1>0, <2>1, Zenon DEF LogProper
    <3>4. Done(s)' = Done(s)
      BY <2>1, Zenon DEF Done
    <3> QED
      BY <1>0, <2>1, <3>1, <3>2, <3>3, <3>4, RunBetween, Zenon
  <2> QED
    BY <2>2, <2>3
<1>6. ASSUME NEW t \in Threads, Wake(t) \/ PrepareIo(t) \/ \E r \in Rings, k \in Tasks : RunOnRingMessage(t, r, k)
      PROVE  RunProper(s)'
  <2>1. UNCHANGED <<ran, tasks, posted, postLog>>
    BY <1>6, Zenon DEF Wake, PrepareIo, RunOnRingMessage, loopVars, taskVars
  <2> QED
    BY <1>1, <2>1
<1>7. ASSUME KernelStep
      PROVE  RunProper(s)'
  <2>1. UNCHANGED <<ran, tasks, posted, postLog>>
    BY <1>7 DEF KernelStep, PollFires, IoCompletes, MessageArrives, loopVars, taskVars
  <2> QED
    BY <1>1, <2>1
<1> QED
  BY <1>2, <1>3, <1>4, <1>5, <1>6, <1>7 DEF Next, SenderStep

\* A task sent by message is never posted afterwards.
LEMMA TravelsOn ==
  ASSUME TypeOK, Next, NEW x \in Tasks, Travels(x)
  PROVE  Travels(x)'
<1>1. source'[x] # NoRing
  BY SentForever DEF Travels
<1>2. ASSUME NEW r \in Rings, NEW i \in 1 .. Len(postLog'[r])
      PROVE  postLog'[r][i] # x
  <2>0. postLog[r] \in Seq(Tasks) /\ Len(postLog[r]) \in Nat
    BY RingTypes
  <2>1. CASE postLog'[r] = postLog[r]
    BY <1>2, <2>1 DEF Travels, WasPosted
  <2>2. ASSUME NEW k \in Tasks, Unsent(k), postLog'[r] = Append(postLog[r], k)
        PROVE  postLog'[r][i] # x
    <3>1. /\ Len(postLog'[r]) = Len(postLog[r]) + 1 /\ postLog'[r][Len(postLog[r]) + 1] = k
          /\ \A j \in 1 .. Len(postLog[r]) : postLog'[r][j] = postLog[r][j]
      BY <2>0, <2>2, SeqAppend, SMTT(30)
    <3>2. i \in 1 .. Len(postLog[r]) \/ i = Len(postLog[r]) + 1
      BY <2>0, <3>1, SMTT(30)
    <3> QED
      BY <2>2, <3>1, <3>2, Zenon DEF Travels, WasPosted
  <2>3. ASSUME NEW k \in Tasks, NEW s \in Rings, postLog' = [postLog EXCEPT ![s] = Append(@, k)]
        PROVE  postLog'[r] = postLog[r] \/ postLog'[r] = Append(postLog[r], k)
    BY <2>3, Zenon DEF TypeOK
  <2> QED
    BY <2>1, <2>2, <2>3, OneIsSent
<1> QED
  BY <1>1, <1>2 DEF Travels, Unsent, WasPosted

\* A task that this step sends and does not post.
SentNow(k) == k \in Tasks /\ Unsent(k) /\ source'[k] # NoRing /\ postLog' = postLog

\* It travels from now on.
LEMMA TravelsFromNow ==
  ASSUME TypeOK, \A r \in Rings : LogProper(r), NEW k \in Tasks, SentNow(k)
  PROVE  Travels(k)'
  BY Zenon DEF SentNow, Travels, LogProper, Unsent, WasPosted

\* Where the messages with the kernel come from.
LEMMA MessagesSubmitted ==
  ASSUME TypeOK, NEW r \in Rings, NEW entries \in Sqes, NEW ok \in SubmitResults,
         IoUringSubmit(r, entries, ok), NEW s \in Rings
  PROVE  /\ msgs' \subseteq msgs \cup entries.msgs
         /\ ok = FALSE => msgs' = msgs
         /\ sq'[s].msgs \subseteq IF s # r THEN sq[s].msgs ELSE IF ok THEN {} ELSE entries.msgs
<1>1. sq \in [Rings -> Sqes] /\ ok \in BOOLEAN
  BY Zenon DEF TypeOK, SubmitResults
<1>2. CASE ok = TRUE
  <2>1. msgs' = msgs \cup entries.msgs /\ sq' = [sq EXCEPT ![r] = NoSqes]
    BY <1>2 DEF IoUringSubmit
  <2>2. sq'[s] = IF s # r THEN sq[s] ELSE NoSqes
    BY <1>1, <2>1, Zenon
  <2> QED
    BY <1>2, <2>1, <2>2 DEF NoSqes
<1>3. CASE ok = FALSE
  <2>1. msgs' = msgs /\ sq' = [sq EXCEPT ![r] = entries]
    BY <1>3 DEF IoUringSubmit
  <2>2. sq'[s] = IF s # r THEN sq[s] ELSE entries
    BY <1>1, <2>1, Zenon
  <2> QED
    BY <1>3, <2>1, <2>2
<1> QED
  BY <1>1, <1>2, <1>3, Zenon

\* A submit of what is in the ring, with no message added.
LEMMA OldMessagesSubmitted ==
  ASSUME TypeOK, NEW r \in Rings, NEW entries \in Sqes, NEW ok \in SubmitResults,
         IoUringSubmit(r, entries, ok), entries.msgs = sq[r].msgs
  PROVE  /\ msgs' \subseteq msgs \cup sq[r].msgs
         /\ \A s \in Rings : sq'[s].msgs \subseteq sq[s].msgs
<1>1. msgs' \subseteq msgs \cup sq[r].msgs
  BY MessagesSubmitted, Zenon
<1>2. ASSUME NEW s \in Rings
      PROVE  sq'[s].msgs \subseteq sq[s].msgs
  <2>1. sq'[s].msgs \subseteq IF s # r THEN sq[s].msgs ELSE IF ok THEN {} ELSE sq[r].msgs
    <3>1. CASE ok
      BY <3>1, MessagesSubmitted, Zenon
    <3>2. CASE ~ok
      BY <3>2, MessagesSubmitted, Zenon
    <3> QED
      BY <3>1, <3>2, Zenon
  <2> QED
    BY <2>1, Zenon
<1> QED
  BY <1>1, <1>2, Zenon

\* Where messages are after a step: they were with the kernel or in a
\* submission queue, or RunOnRing sends them in this step.  One that this step
\* leaves in the queue is refused.
LEMMA MessageSources ==
  ASSUME TypeOK, Next
  PROVE  /\ \A m \in msgs' : m \in msgs \/ SentNow(m.task) \/ \E r \in Rings : m \in sq[r].msgs
         /\ \A r \in Rings : \A m \in sq'[r].msgs : m \in sq[r].msgs \/ (SentNow(m.task) /\ m.task \in refused')
<1> DEFINE P == /\ \A m \in msgs' : m \in msgs \/ SentNow(m.task) \/ \E r \in Rings : m \in sq[r].msgs
                /\ \A r \in Rings : \A m \in sq'[r].msgs : m \in sq[r].msgs \/ (SentNow(m.task) /\ m.task \in refused')
<1>1. CASE UNCHANGED sq /\ msgs' \subseteq msgs
  BY <1>1
<1>2. ASSUME NEW r \in Rings, NEW entries \in Sqes, NEW ok \in SubmitResults,
             IoUringSubmit(r, entries, ok), entries.msgs = sq[r].msgs
      PROVE  P
  BY <1>2, OldMessagesSubmitted, Zenon
<1>3. ASSUME NEW r \in Rings, NEW entries \in Sqes, sq' = [sq EXCEPT ![r] = entries], msgs' = msgs,
             entries.msgs = sq[r].msgs
      PROVE  P
  <2>1. \A s \in Rings : sq'[s].msgs = sq[s].msgs
    BY <1>3, Zenon DEF TypeOK
  <2> QED
    BY <1>3, <2>1
<1>4. ASSUME NEW r \in Rings, OwnerStep(r) \/ WaitTimesOut(r)
      PROVE  P
  <2>0. sq[r] \in Sqes
    BY Zenon DEF TypeOK
  <2>1. CASE \/ ProcessPostedTasks(r) \/ RunTask(r) \/ TasksDone(r) \/ AppReturns(r) \/ WaitReturns(r)
             \/ HandleCqe(r) \/ WaitTimesOut(r) \/ DrainEnds(r)
    BY <1>1, <2>1, Zenon DEF ProcessPostedTasks, RunTask, TasksDone, AppReturns, WaitReturns, HandleCqe,
         WaitTimesOut, DrainEnds, kernelVars, ringVars
  <2>2. CASE DispatchFlush(r)
    BY <1>2, <1>3, <2>0, <2>2 DEF DispatchFlush, FlushSubmissions
  <2>3. CASE ArmWakePoll(r)
    <3>1. [sq[r] EXCEPT !.polls = @ + 1] \in Sqes /\ [sq[r] EXCEPT !.polls = @ + 1].msgs = sq[r].msgs
      BY <2>0 DEF Sqes
    <3> QED
      BY <1>1, <1>2, <2>3, <3>1, Zenon DEF ArmWakePoll
  <2> QED
    BY <1>4, <2>1, <2>2, <2>3, Zenon DEF OwnerStep
<1>5. ASSUME NEW t \in Rings, PrepareIo(t)
      PROVE  P
  <2>0. sq[t] \in Sqes
    BY DEF TypeOK
  <2>1. [sq[t] EXCEPT !.ios = @ + 1] \in Sqes /\ [sq[t] EXCEPT !.ios = @ + 1].msgs = sq[t].msgs
    BY <2>0 DEF Sqes
  <2> QED
    BY <1>2, <1>3, <1>5, <2>1, Zenon DEF PrepareIo, Submit, FlushSubmissions
<1>6. ASSUME NEW t \in Rings, NEW r \in Rings, NEW k \in Tasks, RunOnRingMessage(t, r, k)
      PROVE  P
  <2>1. SentNow(k)
    <3>1. Unsent(k) /\ postLog' = postLog /\ source' = [source EXCEPT ![k] = t]
      BY <1>6 DEF RunOnRingMessage, SentBy
    <3> QED
      BY <3>1, RingNames DEF SentNow, TypeOK
  <2>2. CASE UNCHANGED <<sq, msgs>>
    BY <1>1, <2>2, Zenon
  <2>3. ASSUME NEW ok \in SubmitResults, refused' = RefusedAfter(k, ok),
               IoUringSubmit(t, [sq[t] EXCEPT !.msgs = @ \cup {[to |-> r, task |-> k]}], ok)
        PROVE  P
    <3> DEFINE entries == [sq[t] EXCEPT !.msgs = @ \cup {[to |-> r, task |-> k]}]
    <3>0. sq[t] \in Sqes
      BY DEF TypeOK
    <3>1. entries \in Sqes /\ entries.msgs = sq[t].msgs \cup {[to |-> r, task |-> k]}
      BY <3>0 DEF Sqes, Messages
    <3>2. [to |-> r, task |-> k].task = k
      BY Zenon
    <3>3. /\ msgs' \subseteq msgs \cup entries.msgs
          /\ \A s \in Rings : sq'[s].msgs \subseteq IF s # t THEN sq[s].msgs ELSE IF ok THEN {} ELSE entries.msgs
      <4>1. IoUringSubmit(t, entries, ok) /\ entries \in Sqes
        BY <2>3, <3>1
      <4> HIDE DEF entries
      <4> QED
        BY <4>1, MessagesSubmitted, Zenon
    <3>4. ok = FALSE => k \in refused'
      BY <2>3 DEF RefusedAfter
    <3>5. ok \in BOOLEAN
      BY ZenonT(40) DEF SubmitResults
    <3> HIDE DEF entries
    <3>6. \A m \in msgs' : m \in msgs \/ SentNow(m.task) \/ \E s \in Rings : m \in sq[s].msgs
      BY <2>1, <3>1, <3>2, <3>3
    <3>7. ASSUME NEW s \in Rings, NEW m \in sq'[s].msgs
          PROVE  m \in sq[s].msgs \/ (SentNow(m.task) /\ m.task \in refused')
      BY <2>1, <3>1, <3>2, <3>3, <3>4, <3>5, Zenon
    <3> QED
      BY <3>6, <3>7, Zenon
  <2> QED
    BY <1>6, <2>2, <2>3, Zenon DEF RunOnRingMessage
<1>7. ASSUME NEW t \in Threads, Wake(t) \/ \E r \in Rings, k \in Tasks : Post(t, r, k) \/ RunOnRingInline(r, k)
      PROVE  P
  BY <1>1, <1>7, Zenon DEF Wake, Post, RunOnRingInline, kernelVars, ringVars
<1>8. ASSUME KernelStep
      PROVE  P
  BY <1>1, <1>8, Zenon DEF KernelStep, PollFires, IoCompletes, MessageArrives, ringVars
<1>9. ASSUME NEW t \in Threads, SenderStep(t)
      PROVE  P
  <2>1. PrepareIo(t) => t \in Rings
    BY DEF PrepareIo
  <2> HIDE DEF P
  <2> QED
    BY <1>5, <1>6, <1>7, <1>9, <2>1 DEF SenderStep
<1> HIDE DEF P
<1>10. P
  BY <1>4, <1>8, <1>9, Zenon DEF Next
<1> QED
  BY <1>10 DEF P

\* Where completions come from: the queue, or the kernel in this step.
LEMMA CompletionSources ==
  ASSUME TypeOK, Next, NEW s \in Rings, NEW i \in 1 .. Len(cq'[s]), cq'[s][i].kind = "task"
  PROVE  \/ \E j \in 1 .. Len(cq[s]) : cq'[s][i] = cq[s][j]
         \/ \E m \in msgs : cq'[s][i].task = m.task
<1>0. cq[s] \in Seq(Cqes) /\ Len(cq[s]) \in Nat
  BY RingTypes, Zenon
<1>1. CASE cq'[s] = cq[s]
  BY <1>1, Zenon
<1>2. CASE cq[s] # <<>> /\ cq'[s] = Tail(cq[s])
  <2>1. Len(cq'[s]) = Len(cq[s]) - 1 /\ \A j \in 1 .. Len(cq[s]) - 1 : cq'[s][j] = cq[s][j + 1]
    BY <1>0, <1>2, SeqHeadTail
  <2>2. i + 1 \in 1 .. Len(cq[s]) /\ i \in 1 .. Len(cq[s]) - 1
    BY <1>0, <2>1
  <2> QED
    BY <2>1, <2>2
<1>3. ASSUME NEW c \in Cqes, cq'[s] = Append(cq[s], c), c.kind = "task" => \E m \in msgs : c.task = m.task
      PROVE  \/ \E j \in 1 .. Len(cq[s]) : cq'[s][i] = cq[s][j]
             \/ \E m \in msgs : cq'[s][i].task = m.task
  <2>1. /\ Len(cq'[s]) = Len(cq[s]) + 1 /\ cq'[s][Len(cq[s]) + 1] = c
        /\ \A j \in 1 .. Len(cq[s]) : cq'[s][j] = cq[s][j]
    BY <1>0, <1>3, SeqAppend
  <2>2. i \in 1 .. Len(cq[s]) \/ i = Len(cq[s]) + 1
    BY <1>0, <2>1, IndexNext, Zenon
  <2> QED
    BY <1>3, <2>1, <2>2, Zenon
<1>4. ASSUME NEW r \in Rings, OwnerStep(r) \/ WaitTimesOut(r)
      PROVE  cq'[s] = cq[s] \/ (cq[s] # <<>> /\ cq'[s] = Tail(cq[s]))
  <2>1. UNCHANGED cq \/ HandleCqe(r)
    BY <1>4 DEF OwnerStep, WaitTimesOut, ProcessPostedTasks, RunTask, TasksDone, AppReturns,
         DispatchFlush, ArmWakePoll, WaitReturns, DrainEnds, kernelVars
  <2> QED
    <3>1. HandleCqe(r) => cq[r] # <<>> /\ cq' = [cq EXCEPT ![r] = Tail(@)]
      BY Zenon DEF HandleCqe
    <3> QED
      BY <2>1, <3>1, ZenonT(40) DEF TypeOK
<1>5. ASSUME NEW r \in Rings, PollFires(r) \/ IoCompletes(r)
      PROVE  cq'[s] = cq[s] \/ cq'[s] = Append(cq[s], Cqe("wake")) \/ cq'[s] = Append(cq[s], Cqe("io"))
  <2>1. cq' = [cq EXCEPT ![r] = Append(@, Cqe("wake"))] \/ cq' = [cq EXCEPT ![r] = Append(@, Cqe("io"))]
    BY <1>5, Zenon DEF PollFires, IoCompletes
  <2> QED
    BY <2>1, Zenon DEF TypeOK
<1>6. /\ Cqe("wake") \in Cqes /\ Cqe("io") \in Cqes
      /\ Cqe("wake").kind # "task" /\ Cqe("io").kind # "task"
  BY Zenon DEF Cqe, Cqes
<1>7. ASSUME NEW m \in msgs, MessageArrives(m)
      PROVE  cq'[s] = cq[s] \/ (cq'[s] = Append(cq[s], TaskCqe(m.task)) /\ TaskCqe(m.task) \in Cqes /\ TaskCqe(m.task).task = m.task)
  <2>1. m.to \in Rings /\ m.task \in Tasks
    BY Zenon DEF TypeOK, Messages
  <2>2. TaskCqe(m.task) \in Cqes /\ TaskCqe(m.task).task = m.task
    BY <2>1, Zenon DEF TaskCqe, Cqes
  <2>3. cq'[s] = cq[s] \/ cq'[s] = Append(cq[s], TaskCqe(m.task))
    BY <1>7, Zenon DEF MessageArrives, TypeOK
  <2> QED
    BY <2>2, <2>3, Zenon
<1>8. ASSUME NEW t \in Threads, SenderStep(t)
      PROVE  cq' = cq
  BY <1>8, SenderLocal, Zenon
<1> QED
  BY <1>1, <1>2, <1>3, <1>4, <1>5, <1>6, <1>7, <1>8, Zenon DEF Next, KernelStep

\* What travels goes on travelling until it runs.
LEMMA MessagesStep ==
  ASSUME OrderInv, Next
  PROVE  MessagesProper'
<1>0. TypeOK /\ MessagesProper /\ \A r \in Rings : LogProper(r)
  BY DEF OrderInv
<1>1. ASSUME NEW k \in Tasks, Travels(k) \/ SentNow(k)
      PROVE  Travels(k)'
  BY <1>0, <1>1, TravelsOn, TravelsFromNow, Zenon
<1>2. /\ \A m \in msgs' : m \in msgs \/ SentNow(m.task) \/ \E r \in Rings : m \in sq[r].msgs
      /\ \A r \in Rings : \A m \in sq'[r].msgs : m \in sq[r].msgs \/ (SentNow(m.task) /\ m.task \in refused')
  BY <1>0, MessageSources
<1>3. refused \subseteq refused'
  <2>1. ASSUME NEW t \in Threads, SenderStep(t)
        PROVE  refused \subseteq refused'
    BY <2>1, Zenon DEF SenderStep, Wake, PrepareIo, Post, RunOnRingInline, RunOnRingMessage, RefusedAfter, taskVars
  <2> QED
    BY <2>1, SendNothing DEF Next
<1>4. TypeOK'
  BY <1>0, TypeStep
<1>5. ASSUME NEW m \in msgs'
      PROVE  Travels(m.task)'
  <2>1. PICK k \in Tasks : k = m.task
    BY <1>4 DEF TypeOK, Messages
  <2>2. Travels(k) \/ SentNow(k)
    BY <1>0, <1>2, <2>1 DEF MessagesProper
  <2>3. Travels(k)'
    BY <1>1, <2>2, Zenon
  <2> QED
    BY <2>1, <2>3
<1>6. ASSUME NEW r \in Rings, NEW m \in sq'[r].msgs
      PROVE  Travels(m.task)' /\ m.task \in refused'
  <2>1. PICK k \in Tasks : k = m.task
    <3>1. sq'[r] \in Sqes
      BY <1>4, Zenon DEF TypeOK
    <3> QED
      BY <3>1, Zenon DEF Sqes, Messages
  <2>2. (Travels(k) \/ SentNow(k)) /\ k \in refused'
    BY <1>0, <1>2, <1>3, <2>1, Zenon DEF MessagesProper
  <2>3. Travels(k)'
    BY <1>1, <2>2, Zenon
  <2> QED
    BY <2>1, <2>2, <2>3
<1>7. ASSUME NEW r \in Rings, NEW i \in 1 .. Len(cq'[r]), cq'[r][i].kind = "task"
      PROVE  Travels(cq[r][i].task)'
  <2>1. PICK k \in Tasks : k = cq'[r][i].task
    <3>1. cq'[r] \in Seq(Cqes)
      BY <1>4 DEF TypeOK
    <3>2. cq'[r][i] \in Cqes
      BY <3>1, SeqElement, Zenon
    <3> QED
      BY <1>7, <3>2, Zenon DEF Cqes
  <2>2. Travels(k)
    <3>1. CASE \E j \in 1 .. Len(cq[r]) : cq'[r][i] = cq[r][j]
      BY <1>0, <1>7, <2>1, <3>1, Zenon DEF MessagesProper
    <3>2. CASE \E m \in msgs : cq'[r][i].task = m.task
      BY <1>0, <2>1, <3>2, Zenon DEF MessagesProper
    <3> QED
      BY <1>0, <1>7, <3>1, <3>2, CompletionSources, Zenon
  <2>3. Travels(k)'
    BY <1>1, <2>2
  <2> QED
    BY <2>1, <2>3 DEF Travels, Unsent, WasPosted
<1> QED
  BY <1>5, <1>6, <1>7 DEF MessagesProper

-----------------------------------------------------------------------------
\* At the start nothing was posted.
LEMMA InitOrder ==
  Init => OrderInv
<1> SUFFICES ASSUME Init
             PROVE  OrderInv
  OBVIOUS
<1>0. TypeOK
  BY InitTypes
<1>1. MessagesProper
  <2>1. msgs = {}
    BY DEF Init
  <2>2. ASSUME NEW r \in Rings
        PROVE  sq[r].msgs = {}
    <3>1. sq[r] = NoSqes
      BY Zenon DEF Init
    <3> QED
      BY <3>1 DEF NoSqes
  <2>3. ASSUME NEW r \in Rings, NEW i \in 1 .. Len(cq[r])
        PROVE  FALSE
    <3>1. cq[r] = <<>>
      BY Zenon DEF Init
    <3> QED
      BY <3>1
  <2> QED
    BY <2>1, <2>2, <2>3, Zenon DEF MessagesProper
<1>2. ASSUME NEW r \in Rings
      PROVE  LogSplit(r) /\ LogProper(r) /\ RunProper(r)
  <2>1. /\ tasks[r] = <<>> /\ posted[r] = <<>> /\ postLog[r] = <<>> /\ ran[r] = <<>>
    BY Zenon DEF Init
  <2>3. Len(tasks[r]) = 0 /\ Len(posted[r]) = 0 /\ Len(postLog[r]) = 0 /\ Len(ran[r]) = 0
    BY <2>1
  <2>2. Done(r) = 0 /\ 0 >= 0 /\ \A i \in 1 .. 0 : FALSE
    <3>1. 0 - 0 - 0 = 0 /\ 0 >= 0 /\ \A i \in 1 .. 0 : FALSE
      OBVIOUS
    <3> QED
      BY <2>3, <3>1, Zenon DEF Done
  <2>4. LogSplit(r)
    BY <2>1, <2>2, <2>3, Zenon DEF LogSplit
  <2>5. LogProper(r) /\ RunProper(r)
    BY <2>2, <2>3, Zenon DEF LogProper, RunProper
  <2> QED
    BY <2>4, <2>5
<1> QED
  BY <1>0, <1>1, <1>2 DEF OrderInv

\* Every step keeps the order.
LEMMA NextOrder ==
  OrderInv /\ [Next]_vars => OrderInv'
<1>1. ASSUME OrderInv, Next
      PROVE  OrderInv'
  <2>1. TypeOK /\ \A r \in Rings : LogSplit(r) /\ LogProper(r)
    BY <1>1 DEF OrderInv
  <2>2. TypeOK'
    BY <1>1, <2>1, TypeStep
  <2>3. MessagesProper'
    BY <1>1, <2>1, MessagesStep
  <2>4. ASSUME NEW r \in Rings
        PROVE  LogSplit(r)' /\ LogProper(r)' /\ RunProper(r)'
    BY <1>1, <2>1, SplitStep, ProperStep, RunStep
  <2> QED
    BY <2>2, <2>3, <2>4 DEF OrderInv
<1>2. ASSUME OrderInv, UNCHANGED vars
      PROVE  OrderInv'
  <2>1. TypeOK'
    BY <1>2, TypeStep DEF OrderInv
  <2>2. UNCHANGED <<pc, tasks, posted, sq, msgs, cq, source, refused, postLog, ran>>
    BY <1>2, Zenon DEF vars, loopVars, kernelVars, ringVars, taskVars
  <2>3. MessagesProper'
    <3>1. MessagesProper
      BY <1>2 DEF OrderInv
    <3>2. \A k : Travels(k)' <=> Travels(k)
      BY <2>2, Zenon DEF Travels, Unsent, WasPosted
    <3> QED
      BY <2>2, <3>1, <3>2, Zenon DEF MessagesProper
  <2>4. ASSUME NEW r \in Rings
        PROVE  LogSplit(r)' /\ LogProper(r)' /\ RunProper(r)'
    <3>1. LogSplit(r) /\ LogProper(r) /\ RunProper(r)
      BY <1>2 DEF OrderInv
    <3>2. Done(r)' = Done(r)
      BY <2>2 DEF Done
    <3>3. LogSplit(r)'
      BY <2>2, <3>1, LogKept
    <3>4. LogProper(r)'
      BY <2>2, <3>1, Zenon DEF LogProper, Unsent
    <3>5. RunProper(r)'
      <4>1. \A n \in 1 .. Len(ran[r]) : source'[ran[r][n]] # NoRing
        BY <2>2, <3>1, Zenon DEF RunProper, Unsent
      <4> QED
        BY <2>2, <3>1, <3>2, <4>1, RunSame, Zenon
    <3> QED
      BY <3>3, <3>4, <3>5
  <2> QED
    BY <2>1, <2>3, <2>4 DEF OrderInv
<1> QED
  BY <1>1, <1>2

\* What was posted to a ring and has run, ran in the order of the posts.
LEMMA OrderSuffices ==
  OrderInv => PostsRunInOrder
<1> SUFFICES ASSUME OrderInv
             PROVE  PostsRunInOrder
  OBVIOUS
<1>1. ASSUME NEW r \in Rings
      PROVE  DOMAIN ran[r] = 1 .. Len(ran[r]) /\ DOMAIN postLog[r] = 1 .. Len(postLog[r])
  <2>1. ran[r] \in Seq(Tasks) /\ postLog[r] \in Seq(Tasks)
    BY RingTypes DEF OrderInv
  <2> QED
    BY <2>1, SeqIndexed
<1>2. ASSUME NEW r \in Rings, NEW n \in DOMAIN ran[r], NEW b \in DOMAIN postLog[r],
             ran[r][n] = postLog[r][b]
      PROVE  \A a \in 1 .. b - 1 : \E m \in 1 .. n - 1 : ran[r][m] = postLog[r][a]
  <2>1. n \in 1 .. Len(ran[r]) /\ b \in 1 .. Len(postLog[r])
    BY <1>1, Zenon
  <2>2. RunProper(r)
    BY DEF OrderInv
  <2> QED
    BY <1>2, <2>1, <2>2, Zenon DEF RunProper
<1> QED
  BY <1>2 DEF PostsRunInOrder

\* ProcessPostedTasks overtakes nothing: when a posted task runs, every task
\* posted to that ring before it has run, whatever messages arrive and submits
\* fail in between.
THEOREM PostsOvertakeNothing == Spec => [](TypeOK /\ PostsRunInOrder)
<1>1. Init => OrderInv
  BY InitOrder
<1>2. OrderInv /\ [Next]_vars => OrderInv'
  BY NextOrder
<1>3. OrderInv => TypeOK /\ PostsRunInOrder
  BY OrderSuffices DEF OrderInv
<1> QED
  BY <1>1, <1>2, <1>3, PTL DEF Spec
=============================================================================
