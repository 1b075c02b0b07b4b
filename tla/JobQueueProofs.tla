--------------------------- MODULE JobQueueProofs ---------------------------
(***************************************************************************)
(* Proofs about JobQueue for any finite set of threads and any sets of     *)
(* queues and jobs.  Serialization is not inductive by itself: it rests on *)
(* the unique ownership of a queue, which rests on job_count_ being        *)
(* positive exactly while the queue has an owner, which rests on the       *)
(* counter accounting for every job that is pushed and not settled.        *)
(***************************************************************************)
EXTENDS JobQueue, FiniteSetTheorems, TLAPS

-----------------------------------------------------------------------------
(* Sequences. *)

\* A sequence is a function on the numbers up to its length.
LEMMA SeqIndexed ==
  ASSUME NEW S, NEW seq \in Seq(S)
  PROVE  Len(seq) \in Nat /\ seq \in [1..Len(seq) -> S] /\ DOMAIN seq = 1..Len(seq)
  OBVIOUS

\* What a sequence over S holds is in S.
LEMMA SeqElement ==
  ASSUME NEW S, NEW seq \in Seq(S), NEW n \in 1..Len(seq)
  PROVE  seq[n] \in S
  OBVIOUS

\* Only the empty sequence has no element.
LEMMA SeqEmpty ==
  ASSUME NEW S
  PROVE  /\ <<>> \in Seq(S) /\ Len(<<>>) = 0
         /\ \A seq \in Seq(S) : seq # <<>> => 0 < Len(seq) /\ Len(seq) \in Nat \ {0}
  OBVIOUS

\* Sequences of the same length with the same elements are the same.
LEMMA SeqEqual ==
  ASSUME NEW S, NEW a \in Seq(S), NEW b \in Seq(S), Len(a) = Len(b), \A i \in 1..Len(a) : a[i] = b[i]
  PROVE  a = b
  OBVIOUS

\* push_back leaves the elements before the new one in place.
LEMMA SeqAppend ==
  ASSUME NEW S, NEW seq \in Seq(S), NEW e \in S
  PROVE  /\ Append(seq, e) \in Seq(S) /\ Append(seq, e) # <<>>
         /\ Len(Append(seq, e)) = Len(seq) + 1 /\ DOMAIN Append(seq, e) = 1..(Len(seq) + 1)
         /\ \A i \in 1..Len(seq) : Append(seq, e)[i] = seq[i]
         /\ Append(seq, e)[Len(seq) + 1] = e
  OBVIOUS

\* Taking the front moves every other element one place forward.
LEMMA SeqHeadTail ==
  ASSUME NEW S, NEW seq \in Seq(S), seq # <<>>
  PROVE  /\ Head(seq) = seq[1] /\ Head(seq) \in S
         /\ Tail(seq) \in Seq(S) /\ Len(Tail(seq)) = Len(seq) - 1
         /\ DOMAIN Tail(seq) = 1..(Len(seq) - 1)
         /\ \A i \in 1..Len(Tail(seq)) : Tail(seq)[i] = seq[i + 1]
  OBVIOUS

\* One sequence after another.
LEMMA SeqConcat ==
  ASSUME NEW S, NEW a \in Seq(S), NEW b \in Seq(S)
  PROVE  a \o b \in Seq(S) /\ Len(a \o b) = Len(a) + Len(b)
  OBVIOUS

\* Nothing before or after a sequence changes nothing.
LEMMA SeqConcatEmpty ==
  ASSUME NEW S, NEW seq \in Seq(S)
  PROVE  seq \o <<>> = seq /\ <<>> \o seq = seq
  OBVIOUS

\* Appending to the second of two sequences appends to their concatenation.
LEMMA AppendBehind ==
  ASSUME NEW S, NEW a \in Seq(S), NEW b \in Seq(S), NEW e \in S
  PROVE  a \o Append(b, e) = Append(a \o b, e)
  OBVIOUS

\* Taking from a non-empty sequence takes from its concatenation with another.
LEMMA TakeFront ==
  ASSUME NEW S, NEW a \in Seq(S), NEW b \in Seq(S), a # <<>>
  PROVE  a \o b # <<>> /\ Head(a \o b) = Head(a) /\ Tail(a \o b) = Tail(a) \o b
<1>1. a = <<Head(a)>> \o Tail(a) /\ Head(a) \in S /\ Tail(a) \in Seq(S) /\ Len(a) \in Nat \ {0} /\ Len(b) \in Nat
  OBVIOUS
<1>2. a \o b \in Seq(S) /\ Len(a \o b) = Len(a) + Len(b) /\ a \o b # <<>> /\ Head(a \o b) = Head(a)
  BY <1>1
<1>3. /\ Tail(a) \o b \in Seq(S) /\ Len(Tail(a) \o b) = Len(a) - 1 + Len(b)
      /\ Tail(a \o b) \in Seq(S) /\ Len(Tail(a \o b)) = Len(a) + Len(b) - 1
  BY <1>1, <1>2
<1>4. \A i \in 1..(Len(a) + Len(b) - 1) : Tail(a \o b)[i] = (Tail(a) \o b)[i]
  BY <1>1, <1>2
<1> QED
  BY <1>1, <1>2, <1>3, <1>4, SeqEqual

\* The rest of a sequence from a position on.
LEMMA SeqRest ==
  ASSUME NEW S, NEW seq \in Seq(S), NEW n \in Nat
  PROVE  /\ SubSeq(seq, n + 1, Len(seq)) \in Seq(S)
         /\ n < Len(seq) => Len(SubSeq(seq, n + 1, Len(seq))) = Len(seq) - n
  OBVIOUS

\* The rest from the first position on is the sequence, past the last it is empty.
LEMMA SeqRestEnds ==
  ASSUME NEW S, NEW seq \in Seq(S)
  PROVE  SubSeq(seq, 1, Len(seq)) = seq /\ SubSeq(seq, Len(seq) + 1, Len(seq)) = <<>>
  OBVIOUS

\* Taking the front of the rest leaves the rest from the next position on.
LEMMA SeqRestHeadTail ==
  ASSUME NEW S, NEW seq \in Seq(S), NEW n \in 1..Len(seq)
  PROVE  /\ SubSeq(seq, n, Len(seq)) # <<>> /\ Head(SubSeq(seq, n, Len(seq))) = seq[n]
         /\ Tail(SubSeq(seq, n, Len(seq))) = SubSeq(seq, n + 1, Len(seq))
<1> DEFINE k == Len(seq)
<1> DEFINE r == SubSeq(seq, n, k)
<1> DEFINE t == SubSeq(seq, n + 1, k)
<1>1. k \in Nat /\ n \in 1..k
  BY SeqIndexed
<1>2. /\ r \in Seq(S) /\ Len(r) = k - n + 1 /\ \A i \in 1..(k - n + 1) : r[i] = seq[n + i - 1]
      /\ t \in Seq(S) /\ Len(t) = k - n /\ \A i \in 1..(k - n) : t[i] = seq[n + i]
  BY <1>1
<1> HIDE DEF k, r, t
<1>3. r # <<>>
  BY <1>1, <1>2
<1>4. Head(r) = seq[n]
  <2>1. 1 \in 1..(k - n + 1) /\ n + 1 - 1 = n
    BY <1>1
  <2> QED
    BY <1>2, <1>3, <2>1, SeqHeadTail
<1>5. /\ Tail(r) \in Seq(S) /\ Len(Tail(r)) = k - n
      /\ \A i \in 1..(k - n) : Tail(r)[i] = seq[n + i]
  <2>1. Tail(r) \in Seq(S) /\ Len(Tail(r)) = k - n /\ \A i \in 1..(k - n) : Tail(r)[i] = r[i + 1]
    BY <1>1, <1>2, <1>3, SeqHeadTail
  <2>2. \A i \in 1..(k - n) : i + 1 \in 1..(k - n + 1) /\ n + (i + 1) - 1 = n + i
    BY <1>1
  <2> QED
    BY <1>2, <2>1, <2>2
<1>6. Tail(r) = t
  BY <1>2, <1>5, SeqEqual, ZenonT(40)
<1> QED
  BY <1>3, <1>4, <1>6 DEF k, r, t

-----------------------------------------------------------------------------

IInv == TypeOK /\ SingleOwner /\ CountAccounts /\ OwnedIffCounted

\* The set of threads between fetch_add and push_back is finite.
LEMMA CountedFinite ==
  ASSUME NEW q \in Queues
  PROVE  IsFiniteSet(Counted(q)) /\ Cardinality(Counted(q)) \in Nat
<1>1. Counted(q) \subseteq Threads
  BY DEF Counted
<1>2. IsFiniteSet(Counted(q))
  BY <1>1, ThreadsFinite, FS_Subset
<1> QED
  BY <1>2, FS_CardinalityType

\* The initial state satisfies the invariant: no queue has a job or an owner.
LEMMA InitIInv == Init => IInv
<1> SUFFICES ASSUME Init PROVE IInv
  OBVIOUS
<1>1. TypeOK
  BY NoQueueIsNotAQueue DEF Init, TypeOK, PushRecord, NoPush
<1>2. SingleOwner
  BY DEF Init, SingleOwner, Holds, Registering, Queued
<1>3. CountAccounts
  <2>1. \A q \in Queues : Counted(q) = {}
    BY DEF Init, Counted
  <2>2. Cardinality({}) = 0
    BY FS_EmptySet
  <2>3. \A q \in Queues : job_count[q] = 0 /\ Len(jobs[q]) = 0
    BY DEF Init
  <2>4. \A q \in Queues, t \in Threads : ~Holds(t, q)
    BY DEF Init, Holds
  <2>5. 0 = 0 + 0
    OBVIOUS
  <2> QED
    BY <2>1, <2>2, <2>3, <2>4, <2>5, Zenon DEF CountAccounts
<1>4. OwnedIffCounted
  BY DEF Init, OwnedIffCounted, Owned, Holds, Registering, Queued
<1> QED
  BY <1>1, <1>2, <1>3, <1>4 DEF IInv

\* Every step keeps the types.
LEMMA TypeStep == TypeOK /\ [Next]_vars => TypeOK'
<1> SUFFICES ASSUME TypeOK, [Next]_vars PROVE TypeOK'
  OBVIOUS
<1> USE DEF TypeOK, PushRecord
<1>1. ASSUME NEW t \in Threads, NEW q \in Queues, NEW j \in Jobs, PushCount(t, q, j)
      PROVE  TypeOK'
  <2>1. push' \in [Threads -> PushRecord]
    <3>1. [queue |-> q, job |-> j, prev |-> job_count[q]] \in PushRecord
      OBVIOUS
    <3> QED
      BY <1>1, <3>1 DEF PushCount
  <2>2. job_count' \in [Queues -> Int] /\ pushed' \subseteq Jobs
    BY <1>1 DEF PushCount
  <2>3. \A u \in Threads :
          /\ ppc'[u] # "none" => push'[u].queue \in Queues /\ push'[u].job \in Jobs
          /\ ppc'[u] = "register" => NeedsRegister(push'[u].prev)
    BY <1>1 DEF PushCount
  <2>4. /\ jobs' = jobs /\ gq' = gq /\ finished' = finished
        /\ pc' = pc /\ cur' = cur /\ batch' = batch
        /\ executed' = executed /\ expired' = expired
        /\ ppc' \in [Threads -> {"none", "counted", "register"}]
    BY <1>1 DEF PushCount, execVars
  <2> QED
    BY <2>1, <2>2, <2>3, <2>4, Zenon
<1>2. ASSUME NEW t \in Threads, PushBack(t)
      PROVE  TypeOK'
  BY <1>2 DEF PushBack, execVars
<1>3. ASSUME NEW t \in Threads, PushRegister(t)
      PROVE  TypeOK'
  <2>1. gq' \in Seq(Queues)
    BY <1>3, SeqAppend DEF PushRegister
  <2> QED
    BY <1>3, <2>1, Zenon DEF PushRegister, execVars
<1>4. ASSUME NEW t \in Threads, TryPop(t)
      PROVE  TypeOK'
  <2>1. Head(gq) \in Queues /\ Tail(gq) \in Seq(Queues)
    BY <1>4, SeqHeadTail DEF TryPop
  <2> QED
    BY <1>4, <2>1, Zenon DEF TryPop, pushVars
<1>5. ASSUME NEW t \in Threads, Swap(t)
      PROVE  TypeOK'
  <2>1. cur[t] \in Queues /\ jobs[cur[t]] \in Seq(Jobs)
    BY <1>5 DEF Swap, AfterSwap
  <2>2. jobs[cur[t]] # <<>> => 0 < Len(jobs[cur[t]])
    BY <2>1, SeqEmpty
  <2>3. jobs' \in [Queues -> Seq(Jobs)] /\ batch' \in [Threads -> Seq(Jobs)]
    BY <1>5, <2>1 DEF Swap, AfterSwap
  <2>4. \A u \in Threads : pc'[u] \in {"run", "job", "giveback"} => executed'[u] < Len(batch'[u])
    BY <1>5, <2>1, <2>2 DEF Swap, AfterSwap
  <2> QED
    BY <1>5, <2>3, <2>4, Zenon DEF Swap, AfterSwap, pushVars
<1>6. ASSUME NEW t \in Threads, JobBegin(t)
      PROVE  TypeOK'
  BY <1>6 DEF JobBegin, pushVars
<1>7. ASSUME NEW t \in Threads, JobEnd(t)
      PROVE  TypeOK'
  <2>0. /\ pc[t] = "job" /\ executed' = [executed EXCEPT ![t] = @ + 1]
        /\ finished' = [finished EXCEPT ![cur[t]] = Append(@, batch[t][executed[t] + 1])]
    BY <1>7, Zenon DEF JobEnd
  <2>1. cur[t] \in Queues /\ executed[t] + 1 \in 1..Len(batch[t])
    BY <2>0, SeqIndexed
  <2>2. batch[t][executed[t] + 1] \in Jobs
    BY <2>1, SeqElement
  <2>3. finished' \in [Queues -> Seq(Jobs)]
    BY <2>0, <2>1, <2>2
  <2>4. /\ pc' \in [Threads -> {"idle", "swap", "run", "job", "giveback", "settle", "again"}]
        /\ \A u \in Threads \ {t} : pc'[u] = pc[u]
        /\ pc'[t] \in {"run", "job", "giveback"} => executed[t] + 1 < Len(batch[t])
    <3>1. PICK late :
            pc' = [pc EXCEPT ![t] = CASE executed[t] + 1 = Len(batch[t]) -> "settle"
                                      [] executed[t] + 1 < Len(batch[t]) /\ late -> "giveback"
                                      [] OTHER -> "run"]
      BY <1>7, Zenon DEF JobEnd
    <3> QED
      BY <2>1, <3>1
  <2>5. executed' = [executed EXCEPT ![t] = @ + 1] /\ expired' \in [Threads -> BOOLEAN]
    BY <1>7, ZenonT(40) DEF JobEnd
  <2>6. UNCHANGED <<jobs, job_count, gq, ppc, push, pushed, cur, batch>>
    BY <1>7, Zenon DEF JobEnd, pushVars
  <2>7. pc[t] = "job"
    BY <1>7, Zenon DEF JobEnd
  <2>8. executed' \in [Threads -> Nat]
    BY <2>5
  <2>9. \A u \in Threads :
          /\ pc'[u] # "idle" => cur[u] \in Queues
          /\ pc'[u] \in {"run", "job", "giveback"} => executed'[u] < Len(batch[u])
    BY <2>1, <2>4, <2>5, <2>7, Zenon
  <2> QED
    BY <2>3, <2>4, <2>5, <2>6, <2>8, <2>9
<1>8. ASSUME NEW t \in Threads, GiveBack(t)
      PROVE  TypeOK'
  <2>1. cur[t] \in Queues
    BY <1>8 DEF GiveBack
  <2>2. Unexecuted(t) \in Seq(Jobs)
    BY SeqRest, SeqElement, SeqIndexed DEF Unexecuted
  <2>3. jobs' \in [Queues -> Seq(Jobs)]
    BY <1>8, <2>1, <2>2, SeqConcat, Zenon DEF GiveBack, ReturnToFront
  <2> QED
    BY <1>8, <2>3 DEF GiveBack, pushVars
<1>9. ASSUME NEW t \in Threads, Settle(t)
      PROVE  TypeOK'
  <2>1. /\ cur[t] \in Queues /\ pc[t] = "settle"
        /\ job_count' = [job_count EXCEPT ![cur[t]] = job_count[cur[t]] - executed[t]]
        /\ pc' = [pc EXCEPT ![t] = IF NothingRemains(job_count[cur[t]] - executed[t]) THEN "idle" ELSE "again"]
    BY <1>9, Zenon DEF Settle, Processed
  <2>2. UNCHANGED <<jobs, gq, ppc, push, pushed, cur, batch, executed, expired, finished>>
    BY <1>9, Zenon DEF Settle, pushVars
  <2>3. job_count' \in [Queues -> Int]
    BY <2>1
  <2>4. /\ pc' \in [Threads -> {"idle", "swap", "run", "job", "giveback", "settle", "again"}]
        /\ \A u \in Threads : pc'[u] # "idle" => pc[u] # "idle"
        /\ \A u \in Threads : pc'[u] \in {"run", "job", "giveback"} => pc'[u] = pc[u]
    BY <2>1
  <2> QED
    BY <2>2, <2>3, <2>4, Zenon
<1>10. ASSUME NEW t \in Threads, Again(t)
       PROVE  TypeOK'
  <2>1. gq' \in Seq(Queues)
    <3>0. gq \in Seq(Queues) /\ (gq' = gq \/ gq' = Append(gq, cur[t]))
      BY <1>10 DEF Again
    <3>1. cur[t] \in Queues
      BY <1>10 DEF Again
    <3> QED
      <4>1. Append(gq, cur[t]) \in Seq(Queues)
        BY <3>0, <3>1, SeqAppend
      <4> QED
        BY <3>0, <4>1, Zenon
  <2>2. pc' \in [Threads -> {"idle", "swap", "run", "job", "giveback", "settle", "again"}]
    BY <1>10, ZenonT(40) DEF Again
  <2>3. /\ expired' \in [Threads -> BOOLEAN]
        /\ \A u \in Threads : pc'[u] # pc[u] => pc[u] = "again" /\ pc'[u] \in {"idle", "swap"}
    BY <1>10, Zenon DEF Again
  <2> QED
    BY <1>10, <2>1, <2>2, <2>3, Zenon DEF Again, pushVars
<1>11. CASE UNCHANGED vars
  BY <1>11 DEF vars, pushVars, execVars
<1> QED
  BY <1>1, <1>2, <1>3, <1>4, <1>5, <1>6, <1>7, <1>8, <1>9, <1>10, <1>11, Zenon
  DEF Next, PushStep, ExecuteStep

-----------------------------------------------------------------------------
(* The GlobalQueue as a sequence. *)

\* GlobalQueue::Push adds one entry, at the end, and moves none.
LEMMA AppendToQueue ==
  ASSUME NEW s \in Seq(Queues), NEW q \in Queues,
         ~ \E i \in DOMAIN s : s[i] = q,
         \A i, k \in DOMAIN s : s[i] = s[k] => i = k
  PROVE  /\ \A p \in Queues :
              (\E i \in DOMAIN Append(s, q) : Append(s, q)[i] = p)
              <=> ((\E i \in DOMAIN s : s[i] = p) \/ p = q)
         /\ \A i, k \in DOMAIN Append(s, q) : Append(s, q)[i] = Append(s, q)[k] => i = k
<1>1. /\ DOMAIN s = 1..Len(s) /\ Len(s) \in Nat
      /\ DOMAIN Append(s, q) = 1..(Len(s) + 1)
      /\ \A i \in 1..Len(s) : Append(s, q)[i] = s[i]
      /\ Append(s, q)[Len(s) + 1] = q
  BY SeqAppend, SeqIndexed
<1>2. \A i \in 1..(Len(s) + 1) : i \in 1..Len(s) \/ i = Len(s) + 1
  BY <1>1
<1> QED
  BY <1>1, <1>2

\* GlobalQueue::TryPop removes the first entry and shifts the others.
LEMMA PopFromQueue ==
  ASSUME NEW s \in Seq(Queues), s # <<>>,
         \A i, k \in DOMAIN s : s[i] = s[k] => i = k
  PROVE  /\ Head(s) \in Queues /\ \E i \in DOMAIN s : s[i] = Head(s)
         /\ \A p \in Queues :
              (\E i \in DOMAIN Tail(s) : Tail(s)[i] = p)
              <=> ((\E i \in DOMAIN s : s[i] = p) /\ p # Head(s))
         /\ \A i, k \in DOMAIN Tail(s) : Tail(s)[i] = Tail(s)[k] => i = k
<1>1. /\ DOMAIN s = 1..Len(s) /\ Len(s) \in Nat \ {0}
      /\ Head(s) = s[1] /\ Head(s) \in Queues
      /\ Tail(s) \in Seq(Queues) /\ Len(Tail(s)) = Len(s) - 1
      /\ \A i \in 1..Len(Tail(s)) : Tail(s)[i] = s[i + 1]
  BY SeqHeadTail, SeqIndexed, SeqEmpty
<1>2. DOMAIN Tail(s) = 1..(Len(s) - 1)
  BY <1>1, SeqIndexed
<1>3. \A i \in 1..Len(s) : i = 1 \/ (i - 1 \in 1..(Len(s) - 1) /\ i = (i - 1) + 1)
  BY <1>1
<1>4. \A i \in 1..(Len(s) - 1) : Tail(s)[i] = s[i + 1] /\ i + 1 \in 1..Len(s) /\ i + 1 # 1
  BY <1>1
<1>5. ASSUME NEW p \in Queues
      PROVE  (\E i \in DOMAIN Tail(s) : Tail(s)[i] = p)
             <=> ((\E i \in DOMAIN s : s[i] = p) /\ p # Head(s))
  <2>1. ASSUME NEW i \in DOMAIN Tail(s), Tail(s)[i] = p
        PROVE  (\E k \in DOMAIN s : s[k] = p) /\ p # Head(s)
    BY <1>1, <1>2, <1>4, <2>1
  <2>2. ASSUME NEW i \in DOMAIN s, s[i] = p, p # Head(s)
        PROVE  \E k \in DOMAIN Tail(s) : Tail(s)[k] = p
    <3>1. i - 1 \in DOMAIN Tail(s) /\ i = (i - 1) + 1
      BY <1>1, <1>2, <1>3, <2>2
    <3>2. Tail(s)[i - 1] = p
      BY <1>2, <1>4, <2>2, <3>1
    <3> QED
      BY <3>1, <3>2
  <2> QED
    BY <2>1, <2>2
<1>6. \A i, k \in DOMAIN Tail(s) : Tail(s)[i] = Tail(s)[k] => i = k
  BY <1>1, <1>2, <1>4
<1> QED
  BY <1>1, <1>5, <1>6

-----------------------------------------------------------------------------
(* The inductive step, one lemma per action. *)

\* A queue is in the GlobalQueue once.
LEMMA EntriesDistinct ==
  ASSUME TypeOK, SingleOwner
  PROVE  \A i, k \in DOMAIN gq : gq[i] = gq[k] => i = k
<1>1. gq \in Seq(Queues)
  BY DEF TypeOK
<1>2. ASSUME NEW i \in DOMAIN gq, NEW k \in DOMAIN gq, gq[i] = gq[k]
      PROVE  i = k
  <2>1. gq[i] \in Queues
    BY <1>1, SeqIndexed, SeqElement, Zenon
  <2> QED
    BY <1>2, <2>1, Zenon DEF SingleOwner
<1> QED
  BY <1>2, Zenon

\* The amounts that CountAccounts adds up are natural numbers.
LEMMA Amounts ==
  ASSUME TypeOK
  PROVE  /\ \A t \in Threads : Unsettled(t) \in Nat
         /\ \A q \in Queues : Len(jobs[q]) \in Nat /\ Cardinality(Counted(q)) \in Nat
<1>1. \A t \in Threads : Len(batch[t]) \in Nat
  BY SeqIndexed DEF TypeOK
<1>2. \A q \in Queues : Len(jobs[q]) \in Nat
  BY SeqIndexed DEF TypeOK
<1> QED
  BY <1>1, <1>2, CountedFinite DEF TypeOK, Unsettled

\* The counter is never negative, and covers the batch of the executing thread.
LEMMA CountNat ==
  ASSUME TypeOK, CountAccounts, NEW q \in Queues
  PROVE  /\ job_count[q] \in Nat
         /\ \A t \in Threads : Holds(t, q) => job_count[q] >= Unsettled(t)
<1>1. /\ \A t \in Threads : Unsettled(t) \in Nat
      /\ Len(jobs[q]) \in Nat /\ Cardinality(Counted(q)) \in Nat
  BY Amounts
<1>2. \A l, e, c \in Nat : l + c \in Nat /\ l + e + c \in Nat /\ l + e + c >= e
  OBVIOUS
<1>3. ASSUME NEW t \in Threads, Holds(t, q)
      PROVE  job_count[q] \in Nat /\ job_count[q] >= Unsettled(t)
  <2>1. job_count[q] = Len(jobs[q]) + Unsettled(t) + Cardinality(Counted(q))
    BY <1>3, Zenon DEF CountAccounts
  <2>2. PICK l \in Nat, e \in Nat, c \in Nat : l = Len(jobs[q]) /\ e = Unsettled(t) /\ c = Cardinality(Counted(q))
    BY <1>1, Zenon
  <2>3. job_count[q] = l + e + c
    BY <2>1, <2>2, Zenon
  <2>4. l + e + c \in Nat /\ l + e + c >= e
    OBVIOUS
  <2> QED
    BY <2>2, <2>3, <2>4, Zenon
<1>4. (\A t \in Threads : ~Holds(t, q)) => job_count[q] \in Nat
  BY <1>1, <1>2, Zenon DEF CountAccounts
<1> QED
  BY <1>3, <1>4, Zenon

\* The two ways a push moves one unit between the summands of job_count_.
LEMMA OneUnitMoves ==
  \A l, e, c \in Nat : /\ l + e + (c + 1) = (l + e + c) + 1
                       /\ (l + 1) + e + (c - 1) = l + e + c
  OBVIOUS

\* fetch_add: a count that was 0 makes the pusher the owner of a queue that had
\* none; a positive count leaves the owner as it is.
LEMMA PushCountStep ==
  ASSUME IInv, TypeOK', NEW t \in Threads, NEW q \in Queues, NEW j \in Jobs,
         PushCount(t, q, j)
  PROVE  IInv'
<1> USE DEF IInv, NeedsRegister
<1>1. /\ Counted(q)' = Counted(q) \cup {t}
      /\ t \notin Counted(q)
      /\ \A p \in Queues \ {q} : Counted(p)' = Counted(p)
  BY DEF PushCount, Counted, TypeOK, PushRecord
<1>2. Cardinality(Counted(q)') = Cardinality(Counted(q)) + 1
  BY <1>1, CountedFinite, FS_AddElement, ZenonT(40)
<1>3. /\ \A u \in Threads, p \in Queues : Holds(u, p)' <=> Holds(u, p)
      /\ \A p \in Queues : Queued(p)' <=> Queued(p)
      /\ \A u \in Threads : Unsettled(u)' = Unsettled(u)
  BY DEF PushCount, Holds, Queued, Unsettled, execVars
<1>4. \A u \in Threads, p \in Queues :
        Registering(u, p)' <=> (Registering(u, p) \/ (u = t /\ p = q /\ job_count[q] = 0))
  BY ZenonT(40) DEF PushCount, Registering, TypeOK, PushRecord
<1>5. \A p \in Queues : job_count[p] \in Nat
  BY CountNat
<1>6. SingleOwner'
  BY <1>3, <1>4, <1>5 DEF SingleOwner, OwnedIffCounted, Owned, PushCount
<1>7. /\ job_count'[q] = job_count[q] + 1
      /\ \A p \in Queues \ {q} : job_count'[p] = job_count[p]
      /\ jobs' = jobs
  BY DEF PushCount, TypeOK
<1>8. CountAccounts'
  <2> SUFFICES ASSUME NEW p \in Queues
               PROVE  /\ \A u \in Threads : Holds(u, p) =>
                           job_count'[p] = Len(jobs[p]) + Unsettled(u) + Cardinality(Counted(p)')
                      /\ (\A u \in Threads : ~Holds(u, p)) =>
                           job_count'[p] = Len(jobs[p]) + Cardinality(Counted(p)')
    BY <1>3, <1>7 DEF CountAccounts
  <2>1. CASE p = q
    <3>1. /\ \A u \in Threads : Unsettled(u) \in Nat
          /\ Len(jobs[p]) \in Nat /\ Cardinality(Counted(p)) \in Nat
      BY Amounts
    <3>2. Counted(p)' = Counted(q)'
      BY <2>1 DEF Counted
    <3>3. /\ \A u \in Threads : Holds(u, p) =>
               job_count[p] = Len(jobs[p]) + Unsettled(u) + Cardinality(Counted(p))
          /\ (\A u \in Threads : ~Holds(u, p)) =>
               job_count[p] = Len(jobs[p]) + Cardinality(Counted(p))
      BY DEF CountAccounts
    <3>4. Counted(p) = Counted(q)
      BY <2>1
    <3>5. Cardinality(Counted(p)') = Cardinality(Counted(p)) + 1
      BY <3>2, <3>4, <1>2, Zenon
    <3>6. /\ job_count'[p] = job_count[p] + 1
          /\ Len(jobs'[p]) = Len(jobs[p])
      BY <2>1, <1>7
    <3>7. ASSUME NEW u \in Threads, Holds(u, p)
          PROVE  job_count'[p] = Len(jobs[p]) + Unsettled(u) + Cardinality(Counted(p)')
      <4>1. job_count[p] = Len(jobs[p]) + Unsettled(u) + Cardinality(Counted(p))
        BY <3>3, <3>7
      <4>2. Unsettled(u) \in Nat
        BY <3>1
      <4>3. Len(jobs[p]) \in Nat /\ Cardinality(Counted(p)) \in Nat
        BY <3>1
      <4>4. Len(jobs[p]) + Unsettled(u) + (Cardinality(Counted(p)) + 1)
              = (Len(jobs[p]) + Unsettled(u) + Cardinality(Counted(p))) + 1
        BY <4>2, <4>3, OneUnitMoves, Zenon
      <4> QED
        BY ONLY <3>5, <3>6, <4>1, <4>4, Zenon
    <3>8. ASSUME \A u \in Threads : ~Holds(u, p)
          PROVE  job_count'[p] = Len(jobs[p]) + Cardinality(Counted(p)')
      <4>1. job_count[p] = Len(jobs[p]) + Cardinality(Counted(p))
        BY <3>3, <3>8, Zenon
      <4> QED
        BY <3>1, <3>5, <3>6, <4>1
    <3> QED
      BY <3>7, <3>8
  <2>2. CASE p # q
    BY <2>2, <1>1, <1>7, Zenon DEF CountAccounts
  <2> QED
    BY <2>1, <2>2, Zenon
<1>9. OwnedIffCounted'
  BY <1>3, <1>4, <1>5, <1>7 DEF OwnedIffCounted, Owned
<1> QED
  BY <1>6, <1>8, <1>9

\* push_back: the job moves from "counted" to jobs_, and the pusher that owns
\* the queue goes on to register it.
LEMMA PushBackStep ==
  ASSUME IInv, TypeOK', NEW t \in Threads, PushBack(t)
  PROVE  IInv'
<1> USE DEF IInv
<1>0. PICK q \in Queues : q = push[t].queue
  BY Zenon DEF TypeOK, PushBack
<1>1. /\ Counted(q)' = Counted(q) \ {t}
      /\ t \in Counted(q)
      /\ \A p \in Queues \ {q} : Counted(p)' = Counted(p)
  <2>1. ppc[t] = "counted" /\ push' = push
    BY Zenon DEF PushBack
  <2>2. /\ ppc'[t] # "counted"
        /\ \A u \in Threads \ {t} : ppc'[u] = ppc[u]
    BY DEF PushBack, TypeOK
  <2> QED
    BY <1>0, <2>1, <2>2 DEF Counted
<1>2. Cardinality(Counted(q)') = Cardinality(Counted(q)) - 1
  BY <1>1, CountedFinite, FS_RemoveElement, Zenon
<1>3. /\ \A u \in Threads, p \in Queues : Holds(u, p)' <=> Holds(u, p)
      /\ \A p \in Queues : Queued(p)' <=> Queued(p)
      /\ \A u \in Threads : Unsettled(u)' = Unsettled(u)
  BY DEF PushBack, Holds, Queued, Unsettled, execVars
<1>4. \A u \in Threads, p \in Queues : Registering(u, p)' <=> Registering(u, p)
  BY Zenon DEF PushBack, Registering, TypeOK, PushRecord
<1>5. SingleOwner'
  <2>1. gq' = gq
    BY Zenon DEF PushBack
  <2> QED
    BY <1>3, <1>4, <2>1, Zenon DEF SingleOwner
<1>6. /\ Len(jobs'[q]) = Len(jobs[q]) + 1
      /\ \A p \in Queues \ {q} : jobs'[p] = jobs[p]
      /\ job_count' = job_count
  <2>1. /\ jobs' = [jobs EXCEPT ![q] = Append(@, push[t].job)] /\ job_count' = job_count
        /\ push[t].job \in Jobs /\ jobs \in [Queues -> Seq(Jobs)]
    BY <1>0, Zenon DEF PushBack, TypeOK
  <2>2. jobs'[q] = Append(jobs[q], push[t].job) /\ \A p \in Queues \ {q} : jobs'[p] = jobs[p]
    BY <2>1, Zenon
  <2>3. jobs[q] \in Seq(Jobs)
    BY <2>1, Zenon
  <2>4. Len(jobs'[q]) = Len(jobs[q]) + 1
    <3>1. Len(Append(jobs[q], push[t].job)) = Len(jobs[q]) + 1
      BY <2>1, <2>3
    <3> QED
      BY <2>2, <3>1, Zenon
  <2> QED
    BY <2>1, <2>2, <2>4, Zenon
<1>7. CountAccounts'
  <2> SUFFICES ASSUME NEW p \in Queues
               PROVE  /\ \A u \in Threads : Holds(u, p) =>
                           job_count[p] = Len(jobs'[p]) + Unsettled(u) + Cardinality(Counted(p)')
                      /\ (\A u \in Threads : ~Holds(u, p)) =>
                           job_count[p] = Len(jobs'[p]) + Cardinality(Counted(p)')
    BY <1>3, <1>6 DEF CountAccounts
  <2>1. CASE p = q
    <3>1. /\ \A u \in Threads : Unsettled(u) \in Nat
          /\ Len(jobs[p]) \in Nat /\ Cardinality(Counted(p)) \in Nat
      BY Amounts
    <3>2. Counted(p)' = Counted(q)'
      BY <2>1 DEF Counted
    <3>3. /\ \A u \in Threads : Holds(u, p) =>
               job_count[p] = Len(jobs[p]) + Unsettled(u) + Cardinality(Counted(p))
          /\ (\A u \in Threads : ~Holds(u, p)) =>
               job_count[p] = Len(jobs[p]) + Cardinality(Counted(p))
      BY DEF CountAccounts
    <3>4. Counted(p) = Counted(q)
      BY <2>1
    <3>5. Cardinality(Counted(p)') = Cardinality(Counted(p)) - 1
      BY <3>2, <3>4, <1>2, Zenon
    <3>6. /\ job_count'[p] = job_count[p]
          /\ Len(jobs'[p]) = Len(jobs[p]) + 1
      BY <2>1, <1>6
    <3>7. ASSUME NEW u \in Threads, Holds(u, p)
          PROVE  job_count[p] = Len(jobs'[p]) + Unsettled(u) + Cardinality(Counted(p)')
      <4>1. job_count[p] = Len(jobs[p]) + Unsettled(u) + Cardinality(Counted(p))
        BY <3>3, <3>7
      <4>2. Unsettled(u) \in Nat
        BY <3>1
      <4>3. Len(jobs[p]) \in Nat /\ Cardinality(Counted(p)) \in Nat
        BY <3>1
      <4>4. (Len(jobs[p]) + 1) + Unsettled(u) + (Cardinality(Counted(p)) - 1)
              = Len(jobs[p]) + Unsettled(u) + Cardinality(Counted(p))
        BY <4>2, <4>3, OneUnitMoves, Zenon
      <4> QED
        BY ONLY <3>5, <3>6, <4>1, <4>4, Zenon
    <3>8. ASSUME \A u \in Threads : ~Holds(u, p)
          PROVE  job_count[p] = Len(jobs'[p]) + Cardinality(Counted(p)')
      <4>1. job_count[p] = Len(jobs[p]) + Cardinality(Counted(p))
        BY <3>3, <3>8, Zenon
      <4> QED
        BY <3>1, <3>5, <3>6, <4>1
    <3> QED
      BY <3>7, <3>8
  <2>2. CASE p # q
    BY <2>2, <1>1, <1>6, Zenon DEF CountAccounts
  <2> QED
    BY <2>1, <2>2
<1>8. OwnedIffCounted'
  BY <1>3, <1>4, <1>6 DEF OwnedIffCounted, Owned
<1> QED
  BY <1>5, <1>7, <1>8, Zenon

\* gq_.Push(this): ownership passes from the pusher to the GlobalQueue.
LEMMA PushRegisterStep ==
  ASSUME IInv, TypeOK', NEW t \in Threads, PushRegister(t)
  PROVE  IInv'
<1>0. TypeOK /\ SingleOwner /\ CountAccounts /\ OwnedIffCounted
  BY Zenon DEF IInv
<1>1. PICK q \in Queues : q = push[t].queue
  BY <1>0, Zenon DEF TypeOK, PushRegister
<1>2. /\ Registering(t, q)
      /\ \A u \in Threads, p \in Queues : Registering(u, p)' <=> (Registering(u, p) /\ u # t)
  BY <1>0, <1>1, Zenon DEF PushRegister, Registering, TypeOK
<1>3. gq' = Append(gq, q) /\ gq \in Seq(Queues)
  BY <1>0, <1>1, Zenon DEF PushRegister, TypeOK
<1>4. /\ \A p \in Queues : Counted(p)' = Counted(p)
      /\ \A u \in Threads, p \in Queues : Holds(u, p)' <=> Holds(u, p)
      /\ \A u \in Threads : Unsettled(u)' = Unsettled(u)
      /\ job_count' = job_count /\ jobs' = jobs
  BY <1>0, Zenon DEF PushRegister, Counted, Holds, Unsettled, execVars, TypeOK
<1>5. \A u \in Threads, p \in Queues :  Registering(u, p) /\ u = t => p = q
  BY <1>1 DEF Registering
<1>6. /\ \A p \in Queues : Queued(p)' <=> (Queued(p) \/ p = q)
      /\ \A i, k \in DOMAIN gq' : gq'[i] = gq'[k] => i = k
  <2>1. \A i, k \in DOMAIN gq : gq[i] = gq[k] => i = k
    BY <1>0, EntriesDistinct, Zenon
  <2>2. ~ \E i \in DOMAIN gq : gq[i] = q
    BY <1>0, <1>2, Zenon DEF SingleOwner, Queued
  <2>3. /\ \A p \in Queues : (\E i \in DOMAIN Append(gq, q) : Append(gq, q)[i] = p)
                             <=> ((\E i \in DOMAIN gq : gq[i] = p) \/ p = q)
        /\ \A i, k \in DOMAIN Append(gq, q) : Append(gq, q)[i] = Append(gq, q)[k] => i = k
    BY <1>3, <2>1, <2>2, AppendToQueue, Zenon
  <2> QED
    BY <1>3, <2>3, Zenon DEF Queued
<1>7. SingleOwner'
  <2> SUFFICES ASSUME NEW p \in Queues
               PROVE  /\ \A i, j \in DOMAIN gq' : gq'[i] = p /\ gq'[j] = p => i = j
                      /\ \A u, v \in Threads :
                           /\ Holds(u, p)' /\ Holds(v, p)' => u = v
                           /\ Registering(u, p)' /\ Registering(v, p)' => u = v
                           /\ ~(Holds(u, p)' /\ Registering(v, p)')
                      /\ Queued(p)' => \A u \in Threads : ~Holds(u, p)' /\ ~Registering(u, p)'
    BY Zenon DEF SingleOwner
  <2>1. \A i, j \in DOMAIN gq' : gq'[i] = p /\ gq'[j] = p => i = j
    BY <1>6, Zenon
  <2>2. \A u, v \in Threads :
          /\ Holds(u, p)' /\ Holds(v, p)' => u = v
          /\ Registering(u, p)' /\ Registering(v, p)' => u = v
          /\ ~(Holds(u, p)' /\ Registering(v, p)')
    BY <1>0, <1>2, <1>4, Zenon DEF SingleOwner
  <2>3. ASSUME p = q, NEW u \in Threads
        PROVE  ~Holds(u, p)' /\ ~Registering(u, p)'
    <3>1. Registering(t, p)
      BY <1>2, <2>3, Zenon
    <3>2. ~Holds(u, p) /\ (Registering(u, p) => u = t)
      BY <1>0, <3>1, Zenon DEF SingleOwner
    <3> QED
      BY <1>2, <1>4, <3>2, Zenon
  <2>4. Queued(p) => \A u \in Threads : ~Holds(u, p)' /\ ~Registering(u, p)'
    BY <1>0, <1>2, <1>4, Zenon DEF SingleOwner
  <2> QED
    BY <1>6, <2>1, <2>2, <2>3, <2>4, Zenon
<1>8. CountAccounts'
  BY <1>0, <1>4 DEF CountAccounts
<1>9. OwnedIffCounted'
  BY <1>0, <1>2, <1>4, <1>5, <1>6 DEF OwnedIffCounted, Owned
<1> QED
  BY <1>7, <1>8, <1>9 DEF IInv

\* TryPop: ownership passes from the GlobalQueue to the worker.
LEMMA TryPopStep ==
  ASSUME IInv, TypeOK', NEW t \in Threads, TryPop(t)
  PROVE  IInv'
<1>0. TypeOK /\ SingleOwner /\ CountAccounts /\ OwnedIffCounted
  BY DEF IInv
<1>1. gq \in Seq(Queues) /\ gq # <<>> /\ gq' = Tail(gq)
  BY <1>0 DEF TypeOK, TryPop
<1>2. PICK q \in Queues : q = Head(gq)
  BY <1>1, SeqHeadTail
<1>3. \A i, k \in DOMAIN gq : gq[i] = gq[k] => i = k
  BY <1>0, EntriesDistinct, Zenon
<1>4. /\ Queued(q)
      /\ \A p \in Queues : Queued(p)' <=> (Queued(p) /\ p # q)
      /\ \A i, k \in DOMAIN gq' : gq'[i] = gq'[k] => i = k
  BY <1>1, <1>2, <1>3, PopFromQueue, ZenonT(40) DEF Queued
<1>5. \A u \in Threads, p \in Queues : Holds(u, p)' <=> (Holds(u, p) \/ (u = t /\ p = q))
  BY <1>0, <1>2, Zenon DEF TryPop, Holds, TypeOK
<1>6. /\ \A u \in Threads, p \in Queues : Registering(u, p)' <=> Registering(u, p)
      /\ \A p \in Queues : Counted(p)' = Counted(p)
      /\ job_count' = job_count /\ jobs' = jobs
  BY DEF TryPop, pushVars, Registering, Counted
<1>7. \A u \in Threads : Unsettled(u)' = Unsettled(u) /\ (u = t => Unsettled(u) = 0)
  BY <1>0, Zenon DEF TryPop, Unsettled, TypeOK
<1>8. SingleOwner'
  BY <1>0, <1>4, <1>5, <1>6, ZenonT(40) DEF SingleOwner
<1>9. CountAccounts'
  <2> SUFFICES ASSUME NEW p \in Queues
               PROVE  /\ \A u \in Threads : Holds(u, p)' =>
                           job_count[p] = Len(jobs[p]) + Unsettled(u) + Cardinality(Counted(p))
                      /\ (\A u \in Threads : ~Holds(u, p)') =>
                           job_count[p] = Len(jobs[p]) + Cardinality(Counted(p))
    BY <1>6, <1>7 DEF CountAccounts
  <2>1. CASE p # q
    BY <1>0, <1>5, <2>1 DEF CountAccounts
  <2>2. CASE p = q
    <3>1. \A u \in Threads : ~Holds(u, p)
      BY <1>0, <1>4, <2>2 DEF SingleOwner
    <3>2. job_count[p] = Len(jobs[p]) + Cardinality(Counted(p))
      BY <1>0, <3>1 DEF CountAccounts
    <3>3. Unsettled(t) = 0 /\ Len(jobs[p]) \in Nat /\ Cardinality(Counted(p)) \in Nat
      BY <1>0, <1>7, Amounts, Zenon
    <3>4. job_count[p] = Len(jobs[p]) + Unsettled(t) + Cardinality(Counted(p))
      BY ONLY <3>2, <3>3
    <3> QED
      BY <1>5, <3>1, <3>2, <3>4, Zenon
  <2> QED
    BY <2>1, <2>2
<1>10. OwnedIffCounted'
  BY <1>0, <1>4, <1>5, <1>6, Zenon DEF OwnedIffCounted, Owned
<1> QED
  BY <1>8, <1>9, <1>10 DEF IInv

\* The steps of Execute that keep hold of the queue and leave the counter alone
\* preserve the invariant if they keep the sum of jobs_ and the batch.
LEMMA HoldingStep ==
  ASSUME IInv, TypeOK', NEW t \in Threads, NEW q \in Queues,
         Holds(t, q), cur' = cur,
         pc'[t] # "idle",
         \A u \in Threads \ {t} :
           pc'[u] = pc[u] /\ batch'[u] = batch[u] /\ executed'[u] = executed[u],
         \A p \in Queues \ {q} : jobs'[p] = jobs[p],
         UNCHANGED <<job_count, gq, ppc, push>>,
         Len(jobs'[q]) + Unsettled(t)' = Len(jobs[q]) + Unsettled(t)
  PROVE  IInv'
<1>0. TypeOK /\ SingleOwner /\ CountAccounts /\ OwnedIffCounted
  BY Zenon DEF IInv
<1>1. /\ \A u \in Threads, p \in Queues : Holds(u, p)' <=> Holds(u, p)
      /\ \A u \in Threads, p \in Queues : Registering(u, p)' <=> Registering(u, p)
      /\ \A p \in Queues : Counted(p)' = Counted(p) /\ (Queued(p)' <=> Queued(p))
      /\ \A u \in Threads \ {t} : Unsettled(u)' = Unsettled(u)
  BY Zenon DEF Holds, Registering, Counted, Queued, Unsettled
<1>2. SingleOwner'
  BY <1>0, <1>1, ZenonT(40) DEF SingleOwner
<1>3. CountAccounts'
  <2> SUFFICES ASSUME NEW p \in Queues
               PROVE  /\ \A u \in Threads : Holds(u, p) =>
                           job_count[p] = Len(jobs'[p]) + Unsettled(u)' + Cardinality(Counted(p))
                      /\ (\A u \in Threads : ~Holds(u, p)) =>
                           job_count[p] = Len(jobs'[p]) + Cardinality(Counted(p))
    BY <1>1, Zenon DEF CountAccounts
  <2>1. CASE p # q
    <3>1. \A u \in Threads : Holds(u, p) => u # t
      BY <2>1, Zenon DEF Holds
    <3> QED
      BY <1>0, <1>1, <2>1, <3>1, ZenonT(40) DEF CountAccounts
  <2>2. CASE p = q
    <3>1. \A u \in Threads : Holds(u, p) => u = t
      BY <1>0, <2>2, Zenon DEF SingleOwner
    <3>2. job_count[p] = Len(jobs[p]) + Unsettled(t) + Cardinality(Counted(p))
      BY <1>0, <2>2, Zenon DEF CountAccounts
    <3>3. Len(jobs'[p]) + Unsettled(t)' = Len(jobs[p]) + Unsettled(t)
      BY <2>2, Zenon
    <3>4. job_count[p] = Len(jobs'[p]) + Unsettled(t)' + Cardinality(Counted(p))
      BY <3>2, <3>3, Zenon
    <3>5. Holds(t, p)
      BY <2>2, Zenon
    <3> QED
      BY <3>1, <3>4, <3>5, Zenon
  <2> QED
    BY <2>1, <2>2, Zenon
<1>4. OwnedIffCounted'
  BY <1>0, <1>1, Zenon DEF OwnedIffCounted, Owned
<1> QED
  BY <1>2, <1>3, <1>4 DEF IInv

\* exchange: every job of jobs_ moves to the batch.
LEMMA SwapStep ==
  ASSUME IInv, TypeOK', NEW t \in Threads, Swap(t)
  PROVE  IInv'
<1>0. TypeOK
  BY Zenon DEF IInv
<1>1. PICK q \in Queues : q = cur[t]
  BY <1>0, Zenon DEF TypeOK, Swap, AfterSwap
<1>2. jobs[q] \in Seq(Jobs) /\ Len(jobs[q]) \in Nat /\ (jobs[q] = <<>> => Len(jobs[q]) = 0)
  BY <1>0, SeqIndexed DEF TypeOK
<1>3. jobs'[q] = <<>> /\ Len(jobs'[q]) = 0 /\ batch'[t] = jobs[q] /\ executed'[t] = 0
  BY <1>0, <1>1, ZenonT(40) DEF TypeOK, Swap, AfterSwap
<1>4. pc'[t] = IF jobs[q] = <<>> THEN "settle" ELSE "run"
  BY <1>0, <1>1, Zenon DEF TypeOK, Swap, AfterSwap
<1>5. Unsettled(t) = 0 /\ Unsettled(t)' = Len(jobs[q])
  BY <1>2, <1>3, <1>4 DEF Unsettled, Swap, AfterSwap
<1>6. Len(jobs'[q]) + Unsettled(t)' = Len(jobs[q]) + Unsettled(t)
  BY ONLY <1>2, <1>3, <1>5
<1>7. /\ Holds(t, q) /\ cur' = cur
      /\ pc'[t] # "idle"
      /\ \A u \in Threads \ {t} :
           pc'[u] = pc[u] /\ batch'[u] = batch[u] /\ executed'[u] = executed[u]
      /\ \A p \in Queues \ {q} : jobs'[p] = jobs[p]
      /\ UNCHANGED <<job_count, gq, ppc, push>>
  BY <1>0, <1>1, <1>4, ZenonT(40) DEF Swap, AfterSwap, TypeOK, Holds, pushVars
<1> QED
  BY <1>6, <1>7, HoldingStep

\* Entering a job moves nothing.
LEMMA JobBeginStep ==
  ASSUME IInv, TypeOK', NEW t \in Threads, JobBegin(t)
  PROVE  IInv'
<1>0. TypeOK
  BY Zenon DEF IInv
<1>1. PICK q \in Queues : q = cur[t]
  BY <1>0, Zenon DEF TypeOK, JobBegin
<1>2. Unsettled(t)' = Unsettled(t) /\ jobs' = jobs
  BY <1>0, Zenon DEF Unsettled, JobBegin, TypeOK
<1>3. /\ Holds(t, q) /\ cur' = cur
      /\ pc'[t] # "idle"
      /\ \A u \in Threads \ {t} :
           pc'[u] = pc[u] /\ batch'[u] = batch[u] /\ executed'[u] = executed[u]
      /\ UNCHANGED <<job_count, gq, ppc, push>>
  BY <1>0, <1>1, Zenon DEF JobBegin, TypeOK, Holds, pushVars
<1> QED
  BY <1>2, <1>3, HoldingStep, Zenon

\* A job that returns stays unsettled until fetch_sub.
LEMMA JobEndStep ==
  ASSUME IInv, TypeOK', NEW t \in Threads, JobEnd(t)
  PROVE  IInv'
<1>0. TypeOK
  BY DEF IInv
<1>1. PICK q \in Queues : q = cur[t]
  BY <1>0, Zenon DEF TypeOK, JobEnd
<1>2. /\ executed[t] \in Nat /\ Len(batch[t]) \in Nat
      /\ executed[t] < Len(batch[t]) /\ pc[t] = "job"
      /\ executed'[t] = executed[t] + 1 /\ batch' = batch
  BY <1>0, SeqIndexed, ZenonT(40) DEF TypeOK, JobEnd
<1>3. \/ pc'[t] = "settle" /\ executed[t] + 1 = Len(batch[t])
      \/ pc'[t] \in {"giveback", "run"}
  BY <1>0, <1>2, Zenon DEF TypeOK, JobEnd
<1>4. Unsettled(t)' = Unsettled(t)
  BY <1>2, <1>3 DEF Unsettled
<1>5. /\ Holds(t, q) /\ cur' = cur /\ jobs' = jobs
      /\ pc'[t] # "idle"
      /\ UNCHANGED <<job_count, gq, ppc, push>>
  BY <1>0, <1>1, <1>3, Zenon DEF JobEnd, Holds, pushVars
<1>6. \A u \in Threads \ {t} :
           pc'[u] = pc[u] /\ batch'[u] = batch[u] /\ executed'[u] = executed[u]
  BY <1>0, ZenonT(40) DEF JobEnd, TypeOK
<1> QED
  BY <1>4, <1>5, <1>6, HoldingStep, Zenon

\* What is given back and what was run make up the batch.
LEMMA Regroup == \A a, b, c \in Nat : (a - b + c) + b = c + a
  OBVIOUS

\* The jobs given back move from the batch to the front of jobs_.
LEMMA GiveBackStep ==
  ASSUME IInv, TypeOK', NEW t \in Threads, GiveBack(t)
  PROVE  IInv'
<1>0. TypeOK
  BY Zenon DEF IInv
<1>1. PICK q \in Queues : q = cur[t]
  BY <1>0, Zenon DEF TypeOK, GiveBack
<1>2. /\ executed[t] \in Nat /\ Len(batch[t]) \in Nat /\ executed[t] < Len(batch[t])
      /\ batch[t] \in Seq(Jobs) /\ jobs[q] \in Seq(Jobs) /\ Len(jobs[q]) \in Nat
  BY <1>0, SeqIndexed DEF TypeOK, GiveBack
<1>3. /\ Unexecuted(t) \in Seq(Jobs)
      /\ Len(Unexecuted(t)) = Len(batch[t]) - executed[t]
  <2>1. \A i \in (executed[t] + 1)..Len(batch[t]) : batch[t][i] \in Jobs
    BY <1>2, SeqElement
  <2> QED
    BY <1>2, <2>1, SeqRest DEF Unexecuted
<1>4. jobs'[q] = Unexecuted(t) \o jobs[q]
  BY <1>0, <1>1 DEF TypeOK, GiveBack, ReturnToFront
<1>5. Len(jobs'[q]) = Len(batch[t]) - executed[t] + Len(jobs[q])
  <2>1. Len(Unexecuted(t) \o jobs[q]) = Len(Unexecuted(t)) + Len(jobs[q])
    BY <1>2, <1>3, SeqConcat, Zenon
  <2> QED
    BY <1>3, <1>4, <2>1
<1>6. Unsettled(t) = Len(batch[t]) /\ Unsettled(t)' = executed[t]
  BY <1>0 DEF Unsettled, GiveBack, TypeOK
<1>7. Len(jobs'[q]) + Unsettled(t)' = Len(jobs[q]) + Unsettled(t)
  <2>1. executed[t] \in Nat /\ Len(batch[t]) \in Nat /\ Len(jobs[q]) \in Nat
    BY <1>2
  <2>2. (Len(batch[t]) - executed[t] + Len(jobs[q])) + executed[t] = Len(jobs[q]) + Len(batch[t])
    BY <2>1, Regroup, Zenon
  <2> QED
    BY <2>2, <1>5, <1>6, Zenon
<1>8. /\ Holds(t, q) /\ cur' = cur
      /\ pc'[t] # "idle"
      /\ \A u \in Threads \ {t} :
           pc'[u] = pc[u] /\ batch'[u] = batch[u] /\ executed'[u] = executed[u]
      /\ \A p \in Queues \ {q} : jobs'[p] = jobs[p]
      /\ UNCHANGED <<job_count, gq, ppc, push>>
  BY <1>0, <1>1 DEF GiveBack, TypeOK, Holds, pushVars
<1> QED
  BY <1>7, <1>8, HoldingStep, Zenon

\* fetch_sub: when something remains the worker keeps the queue; when nothing
\* remains no job is left anywhere, and giving up the queue strands none.
LEMMA SettleStep ==
  ASSUME IInv, TypeOK', NEW t \in Threads, Settle(t)
  PROVE  IInv'
<1>0. TypeOK /\ SingleOwner /\ CountAccounts /\ OwnedIffCounted
  BY Zenon DEF IInv
<1>1. PICK q \in Queues : q = cur[t]
  BY <1>0, Zenon DEF TypeOK, Settle
<1>2. Holds(t, q) /\ Unsettled(t) = executed[t] /\ Unsettled(t) \in Nat
  BY <1>0, <1>1, Zenon DEF Settle, Holds, Unsettled, TypeOK
<1>3. /\ job_count[q] = Len(jobs[q]) + Unsettled(t) + Cardinality(Counted(q))
      /\ Len(jobs[q]) \in Nat /\ Cardinality(Counted(q)) \in Nat
  BY <1>0, <1>2, Amounts, Zenon DEF CountAccounts
<1>4. /\ job_count'[q] = job_count[q] - executed[t]
      /\ \A p \in Queues \ {q} : job_count'[p] = job_count[p]
      /\ pc'[t] = IF job_count'[q] <= 0 THEN "idle" ELSE "again"
  BY <1>0, <1>1, ZenonT(40) DEF Settle, TypeOK, Processed, NothingRemains
<1>5. job_count'[q] = Len(jobs[q]) + Cardinality(Counted(q)) /\ job_count'[q] \in Nat
  BY ONLY <1>2, <1>3, <1>4
<1>6. /\ \A p \in Queues : Counted(p)' = Counted(p) /\ (Queued(p)' <=> Queued(p))
      /\ \A u \in Threads, p \in Queues : Registering(u, p)' <=> Registering(u, p)
      /\ jobs' = jobs /\ gq' = gq
  BY Zenon DEF Settle, pushVars, Counted, Queued, Registering
<1>7. /\ \A u \in Threads \ {t} : pc'[u] = pc[u] /\ Unsettled(u)' = Unsettled(u)
      /\ Unsettled(t)' = 0
  BY <1>0, <1>4 DEF Settle, Unsettled, TypeOK
<1>8. \A u \in Threads, p \in Queues :
        Holds(u, p)' <=> (Holds(u, p) /\ (u = t => job_count'[q] > 0))
  BY <1>0, <1>2, <1>4, <1>5, <1>7 DEF Settle, Holds
<1>9. \A u \in Threads, p \in Queues : Holds(u, p) => ((u = t) <=> (p = q))
  BY <1>0, <1>1, <1>2, Zenon DEF SingleOwner, Holds
<1>10. SingleOwner'
  BY <1>0, <1>6, <1>8, Zenon DEF SingleOwner
<1>11. CountAccounts'
  <2> SUFFICES ASSUME NEW p \in Queues
               PROVE  /\ \A u \in Threads : Holds(u, p)' =>
                           job_count'[p] = Len(jobs[p]) + Unsettled(u)' + Cardinality(Counted(p))
                      /\ (\A u \in Threads : ~Holds(u, p)') =>
                           job_count'[p] = Len(jobs[p]) + Cardinality(Counted(p))
    BY <1>6, Zenon DEF CountAccounts
  <2>1. CASE p # q
    <3>1. \A u \in Threads : Holds(u, p)' <=> Holds(u, p)
      BY <1>8, <1>9, <2>1, Zenon
    <3>2. \A u \in Threads : Holds(u, p) => Unsettled(u)' = Unsettled(u)
      BY <1>7, <1>9, <2>1, Zenon
    <3> QED
      BY <1>0, <1>4, <2>1, <3>1, <3>2, Zenon DEF CountAccounts
  <2>2. CASE p = q
    <3>1. job_count'[p] = Len(jobs[p]) + 0 + Cardinality(Counted(p))
      BY <1>3, <1>5, <2>2
    <3>2. \A u \in Threads : Holds(u, p)' => Unsettled(u)' = 0
      BY <1>7, <1>8, <1>9, <2>2
    <3>3. job_count'[p] = Len(jobs[p]) + Cardinality(Counted(p))
      BY <1>5, <2>2
    <3> QED
      BY <3>1, <3>2, <3>3, Zenon
  <2> QED
    BY <2>1, <2>2, Zenon
<1>12. OwnedIffCounted'
  <2> SUFFICES ASSUME NEW p \in Queues
               PROVE  Owned(p)' <=> job_count'[p] > 0
    BY DEF OwnedIffCounted
  <2>1. CASE p # q
    <3>1. Owned(p)' <=> Owned(p)
      BY <1>6, <1>8, <1>9, <2>1 DEF Owned
    <3> QED
      BY <1>0, <1>4, <2>1, <3>1, Zenon DEF OwnedIffCounted
  <2>2. CASE p = q
    <3>1. ~Queued(p) /\ \A u \in Threads : ~Registering(u, p)
      BY <1>0, <1>2, <2>2, Zenon DEF SingleOwner
    <3>2. Owned(p)' <=> Holds(t, p)'
      BY <1>6, <1>8, <1>9, <2>2, <3>1, Zenon DEF Owned
    <3>3. Holds(t, p)' <=> job_count'[q] > 0
      BY <1>2, <1>8, <2>2, Zenon
    <3> QED
      BY <2>2, <3>2, <3>3, Zenon
  <2> QED
    BY <2>1, <2>2
<1> QED
  BY <1>10, <1>11, <1>12 DEF IInv

\* Past the deadline the worker hands the queue back to the GlobalQueue.
LEMMA AgainStep ==
  ASSUME IInv, TypeOK', NEW t \in Threads, Again(t)
  PROVE  IInv'
<1>0. TypeOK /\ SingleOwner /\ CountAccounts /\ OwnedIffCounted
  BY Zenon DEF IInv
<1>1. PICK q \in Queues : q = cur[t]
  BY <1>0 DEF TypeOK, Again
<1>2. Holds(t, q)
  BY <1>1, Zenon DEF Again, Holds
<1>3. CASE gq' = gq /\ pc' = [pc EXCEPT ![t] = "swap"]
  <2>1. /\ Unsettled(t)' = Unsettled(t) /\ cur' = cur /\ jobs' = jobs
        /\ pc'[t] # "idle"
        /\ \A u \in Threads \ {t} :
             pc'[u] = pc[u] /\ batch'[u] = batch[u] /\ executed'[u] = executed[u]
        /\ UNCHANGED <<job_count, gq, ppc, push>>
    BY <1>0, <1>3 DEF Again, TypeOK, Unsettled, pushVars
  <2> QED
    BY <1>2, <2>1, HoldingStep, ZenonT(40)
<1>4. CASE gq' = Append(gq, q) /\ pc' = [pc EXCEPT ![t] = "idle"]
  <2>1. /\ \A p \in Queues : Counted(p)' = Counted(p)
        /\ \A u \in Threads, p \in Queues : Registering(u, p)' <=> Registering(u, p)
        /\ \A u \in Threads : Unsettled(u)' = Unsettled(u) /\ (u = t => Unsettled(u) = 0)
        /\ job_count' = job_count /\ jobs' = jobs
    BY <1>0, <1>4, ZenonT(40) DEF Again, TypeOK, pushVars, Counted, Registering, Unsettled
  <2>2. \A u \in Threads, p \in Queues :
          /\ Holds(u, p)' <=> (Holds(u, p) /\ u # t)
          /\ Holds(u, p) => ((u = t) <=> (p = q))
    BY <1>0, <1>1, <1>2, <1>4 DEF Again, TypeOK, Holds, SingleOwner
  <2>3. gq \in Seq(Queues) /\ ~Queued(q)
    BY <1>0, <1>2, Zenon DEF TypeOK, SingleOwner
  <2>4. \A i, k \in DOMAIN gq : gq[i] = gq[k] => i = k
    BY <1>0, EntriesDistinct, Zenon
  <2>5. /\ \A p \in Queues : Queued(p)' <=> (Queued(p) \/ p = q)
        /\ \A i, k \in DOMAIN gq' : gq'[i] = gq'[k] => i = k
    BY <1>4, <2>3, <2>4, AppendToQueue DEF Queued
  <2>6. SingleOwner'
    BY <1>0, <1>2, <2>1, <2>2, <2>5, ZenonT(40) DEF SingleOwner
  <2>7. CountAccounts'
    <3> SUFFICES ASSUME NEW p \in Queues
                 PROVE  /\ \A u \in Threads : Holds(u, p)' =>
                             job_count[p] = Len(jobs[p]) + Unsettled(u) + Cardinality(Counted(p))
                        /\ (\A u \in Threads : ~Holds(u, p)') =>
                             job_count[p] = Len(jobs[p]) + Cardinality(Counted(p))
      BY <2>1, Zenon DEF CountAccounts
    <3>1. CASE p # q
      BY <1>0, <2>2, <3>1, Zenon DEF CountAccounts
    <3>2. CASE p = q
      <4>1. job_count[p] = Len(jobs[p]) + Unsettled(t) + Cardinality(Counted(p))
        BY <1>0, <1>2, <3>2, Zenon DEF CountAccounts
      <4>2. Unsettled(t) = 0 /\ Len(jobs[p]) \in Nat /\ Cardinality(Counted(p)) \in Nat
        BY <1>0, <2>1, Amounts
      <4>3. job_count[p] = Len(jobs[p]) + Cardinality(Counted(p))
        BY ONLY <4>1, <4>2
      <4> QED
        BY <2>2, <3>2, <4>3, Zenon
    <3> QED
      BY <3>1, <3>2
  <2>8. OwnedIffCounted'
    BY <1>0, <1>2, <2>1, <2>2, <2>5, Zenon DEF OwnedIffCounted, Owned
  <2> QED
    BY <2>6, <2>7, <2>8, Zenon DEF IInv
<1> QED
  BY <1>1, <1>3, <1>4 DEF Again

-----------------------------------------------------------------------------
\* Every step preserves the invariant.
LEMMA NextIInv == IInv /\ [Next]_vars => IInv'
<1> SUFFICES ASSUME IInv, [Next]_vars PROVE IInv'
  OBVIOUS
<1>1. TypeOK'
  BY TypeStep DEF IInv
<1>2. CASE UNCHANGED vars
  <2>1. UNCHANGED <<jobs, job_count, gq, ppc, push, pc, cur, batch, executed>>
    BY <1>2, Zenon DEF vars, pushVars, execVars
  <2>2. /\ \A u \in Threads, p \in Queues : Holds(u, p)' <=> Holds(u, p)
        /\ \A u \in Threads, p \in Queues : Registering(u, p)' <=> Registering(u, p)
        /\ \A p \in Queues : Counted(p)' = Counted(p) /\ (Queued(p)' <=> Queued(p))
        /\ \A u \in Threads : Unsettled(u)' = Unsettled(u)
    BY <2>1, Zenon DEF Holds, Registering, Counted, Queued, Unsettled
  <2>3. SingleOwner'
    BY <2>1, <2>2, Zenon DEF IInv, SingleOwner
  <2>4. CountAccounts'
    BY <2>1, <2>2, Zenon DEF IInv, CountAccounts
  <2>5. OwnedIffCounted'
    BY <2>1, <2>2 DEF IInv, OwnedIffCounted, Owned
  <2> QED
    BY <1>1, <2>3, <2>4, <2>5, Zenon DEF IInv
<1>3. ASSUME NEW t \in Threads, NEW q \in Queues, NEW j \in Jobs, PushCount(t, q, j)
      PROVE  IInv'
  BY <1>1, <1>3, PushCountStep
<1>4. ASSUME NEW t \in Threads, PushBack(t)
      PROVE  IInv'
  BY <1>1, <1>4, PushBackStep
<1>5. ASSUME NEW t \in Threads, PushRegister(t)
      PROVE  IInv'
  BY <1>1, <1>5, PushRegisterStep
<1>6. ASSUME NEW t \in Threads, TryPop(t)
      PROVE  IInv'
  BY <1>1, <1>6, TryPopStep
<1>7. ASSUME NEW t \in Threads, Swap(t)
      PROVE  IInv'
  BY <1>1, <1>7, SwapStep
<1>8. ASSUME NEW t \in Threads, JobBegin(t)
      PROVE  IInv'
  BY <1>1, <1>8, JobBeginStep
<1>9. ASSUME NEW t \in Threads, JobEnd(t)
      PROVE  IInv'
  BY <1>1, <1>9, JobEndStep
<1>10. ASSUME NEW t \in Threads, GiveBack(t)
      PROVE  IInv'
  BY <1>1, <1>10, GiveBackStep
<1>11. ASSUME NEW t \in Threads, Settle(t)
      PROVE  IInv'
  BY <1>1, <1>11, SettleStep
<1>12. ASSUME NEW t \in Threads, Again(t)
      PROVE  IInv'
  BY <1>1, <1>12, AgainStep
<1> QED
  BY <1>2, <1>3, <1>4, <1>5, <1>6, <1>7, <1>8, <1>9, <1>10, <1>11, <1>12, Zenon
  DEF Next, PushStep, ExecuteStep

\* The inductive invariant holds throughout every behaviour: the queue has one
\* owner while it has jobs and none otherwise, and job_count_ counts its jobs.
THEOREM Invariance == Spec => [](TypeOK /\ SingleOwner /\ CountAccounts /\ OwnedIffCounted)
<1>1. IInv <=> TypeOK /\ SingleOwner /\ CountAccounts /\ OwnedIffCounted
  BY DEF IInv
<1> QED
  BY <1>1, InitIInv, NextIInv, PTL DEF Spec

\* "Only one thread executes jobs at any time (serialization)", for any number
\* of threads, queues and jobs (JobQueue::Execute).
THEOREM Serialization == Spec => []Serialized
<1>1. SingleOwner => Serialized
  BY Zenon DEF SingleOwner, Serialized
<1> QED
  BY <1>1, Invariance, PTL

-----------------------------------------------------------------------------
(* JobQueue implements SerialExecutor. *)

\* The refinement mapping seen from the thread that executes a queue, if any.
Mapping ==
  \A q \in Queues :
    /\ \A t \in Threads : Holds(t, q) =>
         /\ Pending[q] = NotBegun(t) \o jobs[q]
         /\ Running[q] = IF pc[t] = "job" THEN batch[t][executed[t] + 1] ELSE NoJob
    /\ (\A t \in Threads : ~Holds(t, q)) => Pending[q] = jobs[q] /\ Running[q] = NoJob

\* The mapping is well defined because a queue has one executor.
LEMMA MappingHolds == SingleOwner => Mapping
<1> SUFFICES ASSUME SingleOwner, NEW q \in Queues
             PROVE  /\ \A t \in Threads : Holds(t, q) =>
                         /\ Pending[q] = NotBegun(t) \o jobs[q]
                         /\ Running[q] = IF pc[t] = "job" THEN batch[t][executed[t] + 1] ELSE NoJob
                    /\ (\A t \in Threads : ~Holds(t, q)) => Pending[q] = jobs[q] /\ Running[q] = NoJob
  BY Zenon DEF Mapping
<1>1. ASSUME NEW t \in Threads, Holds(t, q)
      PROVE  /\ Pending[q] = NotBegun(t) \o jobs[q]
             /\ Running[q] = IF pc[t] = "job" THEN batch[t][executed[t] + 1] ELSE NoJob
  <2>1. Runner(q) = {t}
    BY <1>1 DEF Runner, SingleOwner
  <2>2. (CHOOSE u \in Runner(q) : TRUE) = t
    BY <2>1
  <2>3. pc[t] = "job" => (CHOOSE u \in Runner(q) : pc[u] = "job") = t
    BY <2>1
  <2>4. Pending[q] = NotBegun(t) \o jobs[q]
    BY <2>1, <2>2, Zenon DEF Pending
  <2>5. (\E u \in Runner(q) : pc[u] = "job") <=> pc[t] = "job"
    BY <2>1
  <2> QED
    BY <2>3, <2>4, <2>5, Zenon DEF Running
<1>2. ASSUME \A t \in Threads : ~Holds(t, q)
      PROVE  Pending[q] = jobs[q] /\ Running[q] = NoJob
  <2>1. Runner(q) = {}
    BY <1>2 DEF Runner
  <2> QED
    BY <2>1 DEF Pending, Running
<1> QED
  BY <1>1, <1>2, Zenon

\* The rest of a batch is a sequence of jobs, and not empty while Execute is in
\* its loop: the job that runs next is its head.
LEMMA RestOfBatch ==
  ASSUME TypeOK, NEW t \in Threads
  PROVE  /\ Unexecuted(t) \in Seq(Jobs)
         /\ NotBegun(t) \in Seq(Jobs)
         /\ pc[t] \in {"run", "job", "giveback"} =>
              /\ Unexecuted(t) # <<>>
              /\ Head(Unexecuted(t)) = batch[t][executed[t] + 1]
              /\ Tail(Unexecuted(t)) = SubSeq(batch[t], executed[t] + 2, Len(batch[t]))
<1> DEFINE b == batch[t]
           e == executed[t]
<1>1. b \in Seq(Jobs) /\ e \in Nat /\ Len(b) \in Nat
  BY SeqIndexed DEF TypeOK
<1>2. Unexecuted(t) = SubSeq(b, e + 1, Len(b))
  BY DEF Unexecuted
<1>3. Unexecuted(t) \in Seq(Jobs)
  BY SeqRest, SeqElement, <1>1, <1>2, Zenon
<1>4. ASSUME pc[t] \in {"run", "job", "giveback"}
      PROVE  /\ Unexecuted(t) # <<>>
             /\ Head(Unexecuted(t)) = b[e + 1]
             /\ Tail(Unexecuted(t)) = SubSeq(b, e + 2, Len(b))
  <2>1. e < Len(b)
    BY <1>4 DEF TypeOK
  <2>2. e + 1 \in 1..Len(b) /\ Len(b) \in (e + 1)..Len(b) /\ (e + 1) + 1 = e + 2
    BY <1>1, <2>1
  <2>3. /\ Head(SubSeq(b, e + 1, Len(b))) = b[e + 1]
        /\ Tail(SubSeq(b, e + 1, Len(b))) = SubSeq(b, (e + 1) + 1, Len(b))
    BY ONLY <1>1, <2>2, SeqRestHeadTail, Zenon
  <2>4. Len(Unexecuted(t)) = Len(b) - e
    BY <1>1, <1>2, <2>1, SeqRest, SeqElement, ZenonT(40)
  <2>5. Unexecuted(t) # <<>>
    BY <1>1, <2>1, <2>4
  <2> QED
    BY <1>2, <2>2, <2>3, <2>5, Zenon
<1>5. NotBegun(t) \in Seq(Jobs)
  BY <1>3, <1>4, SeqHeadTail DEF NotBegun
<1> QED
  BY <1>3, <1>4, <1>5, Zenon

\* A step that changes neither the executor of a queue nor what it has left to
\* do does not change what the abstract queue shows.
LEMMA Unmoved ==
  ASSUME Mapping, Mapping', NEW p \in Queues, jobs'[p] = jobs[p],
         \A u \in Threads : Holds(u, p)' <=> Holds(u, p),
         \A u \in Threads : Holds(u, p) =>
           /\ pc'[u] = pc[u] /\ batch'[u] = batch[u] /\ executed'[u] = executed[u]
  PROVE  Pending'[p] = Pending[p] /\ Running'[p] = Running[p]
<1>1. CASE \A u \in Threads : ~Holds(u, p)
  BY <1>1, Zenon DEF Mapping
<1>2. ASSUME NEW u \in Threads, Holds(u, p)
      PROVE  Pending'[p] = Pending[p] /\ Running'[p] = Running[p]
  <2>1. pc'[u] = pc[u] /\ Unexecuted(u)' = Unexecuted(u)
    BY <1>2, Zenon DEF Unexecuted
  <2>2. NotBegun(u)' = NotBegun(u)
    BY <2>1, Zenon DEF NotBegun
  <2>3. /\ Pending[p] = NotBegun(u) \o jobs[p]
        /\ Running[p] = IF pc[u] = "job" THEN batch[u][executed[u] + 1] ELSE NoJob
    BY <1>2, Zenon DEF Mapping
  <2>4. /\ Pending'[p] = NotBegun(u)' \o jobs'[p]
        /\ Running'[p] = IF pc'[u] = "job" THEN batch'[u][executed'[u] + 1] ELSE NoJob
    BY <1>2, Zenon DEF Mapping
  <2> QED
    BY <1>2, <2>2, <2>3, <2>4, Zenon
<1> QED
  BY <1>1, <1>2, Zenon

\* Two abstract states are compared queue by queue.
LEMMA QueueByQueue ==
  /\ Pending = [q \in Queues |-> Pending[q]] /\ Running = [q \in Queues |-> Running[q]]
  /\ Pending' = [q \in Queues |-> Pending'[q]] /\ Running' = [q \in Queues |-> Running'[q]]
  BY DEF Pending, Running

\* A step that shows nothing on any queue is a stuttering step of the promise.
LEMMA Stutters ==
  ASSUME finished' = finished,
         \A p \in Queues : Pending'[p] = Pending[p] /\ Running'[p] = Running[p]
  PROVE  UNCHANGED Abstract!aVars
<1>1. Pending' = Pending /\ Running' = Running
  BY QueueByQueue, Zenon
<1> QED
  BY <1>1 DEF Abstract!aVars

\* Counting and registering a push, and handing a queue to a worker, show nothing.
LEMMA SilentSteps ==
  ASSUME IInv, Mapping, Mapping', NEW t \in Threads,
         \/ \E q \in Queues, j \in Jobs : PushCount(t, q, j)
         \/ PushRegister(t)
  PROVE  UNCHANGED Abstract!aVars
<1>1. UNCHANGED <<jobs, pc, cur, batch, executed, finished>>
  BY Zenon DEF PushCount, PushRegister, execVars
<1>2. \A u \in Threads, p \in Queues : Holds(u, p)' <=> Holds(u, p)
  BY <1>1, Zenon DEF Holds
<1> QED
  BY <1>1, <1>2, Unmoved, Stutters, Zenon

\* push_back under mutex_ is where a job enters the order in which it will run,
\* behind the rest of the batch that is being executed.
LEMMA PushBackSubmits ==
  ASSUME IInv, Mapping, Mapping', NEW t \in Threads, PushBack(t)
  PROVE  \E q \in Queues, j \in Jobs : Abstract!Submit(q, j)
<1> DEFINE q == push[t].queue
           j == push[t].job
<1>1. q \in Queues /\ j \in Jobs /\ jobs[q] \in Seq(Jobs)
  BY Zenon DEF IInv, TypeOK, PushBack
<1>2. UNCHANGED <<pc, cur, batch, executed, finished>>
  BY Zenon DEF PushBack, execVars
<1>3. /\ jobs'[q] = Append(jobs[q], j)
      /\ \A p \in Queues : p # q => jobs'[p] = jobs[p]
  BY <1>1 DEF PushBack, IInv, TypeOK
<1> HIDE DEF q, j
<1>4. \A u \in Threads, p \in Queues : Holds(u, p)' <=> Holds(u, p)
  BY <1>2, Zenon DEF Holds
<1>5. \A p \in Queues : p # q => Pending'[p] = Pending[p] /\ Running'[p] = Running[p]
  BY <1>2, <1>3, <1>4, Unmoved, Zenon
<1>6. Pending'[q] = Append(Pending[q], j) /\ Running'[q] = Running[q]
  <2>1. CASE \A u \in Threads : ~Holds(u, q)
    <3>1. Pending[q] = jobs[q] /\ Running[q] = NoJob
      BY <1>1, <2>1, Zenon DEF Mapping
    <3>2. Pending'[q] = jobs'[q] /\ Running'[q] = NoJob
      BY <1>1, <1>4, <2>1, Zenon DEF Mapping
    <3> QED
      BY <1>3, <3>1, <3>2, Zenon
  <2>2. ASSUME NEW u \in Threads, Holds(u, q)
        PROVE  Pending'[q] = Append(Pending[q], j) /\ Running'[q] = Running[q]
    <3>1. /\ Pending[q] = NotBegun(u) \o jobs[q]
          /\ Running[q] = IF pc[u] = "job" THEN batch[u][executed[u] + 1] ELSE NoJob
      BY <1>1, <2>2, ZenonT(40) DEF Mapping
    <3>2. /\ Pending'[q] = NotBegun(u)' \o jobs'[q]
          /\ Running'[q] = IF pc'[u] = "job" THEN batch'[u][executed'[u] + 1] ELSE NoJob
      BY <1>1, <1>4, <2>2 DEF Mapping
    <3>3. NotBegun(u)' = NotBegun(u)
      BY <1>2, Zenon DEF NotBegun, Unexecuted
    <3>4. NotBegun(u) \in Seq(Jobs)
      BY RestOfBatch DEF IInv
    <3>5. NotBegun(u) \o Append(jobs[q], j) = Append(NotBegun(u) \o jobs[q], j)
      BY <1>1, <3>4, AppendBehind
    <3> QED
      BY <1>2, <1>3, <3>1, <3>2, <3>3, <3>5, Zenon
  <2> QED
    BY <2>1, <2>2, Zenon
<1>7. Running' = Running
  BY <1>5, <1>6, QueueByQueue
<1>8. Pending' = [Pending EXCEPT ![q] = Append(@, j)]
  BY <1>1, <1>5, <1>6, QueueByQueue
<1>9. Abstract!Submit(q, j)
  BY <1>2, <1>7, <1>8, Zenon DEF Abstract!Submit
<1> QED
  BY <1>1, <1>9, Zenon

\* A step of the thread that executes queue q, which the step may begin or end
\* executing, leaves every other queue as it was.
LEMMA OthersUnmoved ==
  ASSUME IInv, Mapping, Mapping', NEW t \in Threads, NEW q \in Queues,
         cur'[t] = q, pc[t] = "idle" \/ cur[t] = q,
         \A p \in Queues \ {q} : jobs'[p] = jobs[p],
         \A u \in Threads \ {t} :
           /\ pc'[u] = pc[u] /\ cur'[u] = cur[u]
           /\ batch'[u] = batch[u] /\ executed'[u] = executed[u]
  PROVE  \A p \in Queues : p # q => Pending'[p] = Pending[p] /\ Running'[p] = Running[p]
<1> SUFFICES ASSUME NEW p \in Queues, p # q
             PROVE  Pending'[p] = Pending[p] /\ Running'[p] = Running[p]
  BY Zenon
<1>1. \A u \in Threads : Holds(u, p)' <=> Holds(u, p)
  BY DEF Holds
<1>2. ~Holds(t, p)
  BY Zenon DEF Holds
<1> QED
  BY <1>1, <1>2, Unmoved, Zenon

\* TryPop gives a queue that nobody executed to thread t, whose batch is empty.
LEMMA TryPopStutters ==
  ASSUME IInv, Mapping, Mapping', NEW t \in Threads, TryPop(t)
  PROVE  UNCHANGED Abstract!aVars
<1>0. gq \in Seq(Queues) /\ gq # <<>>
  BY DEF TryPop, IInv, TypeOK
<1>1. PICK q \in Queues : q = Head(gq)
  BY <1>0
<1>2. /\ pc[t] = "idle" /\ cur'[t] = q /\ pc'[t] = "swap" /\ jobs' = jobs /\ finished' = finished
      /\ \A u \in Threads \ {t} : pc'[u] = pc[u] /\ cur'[u] = cur[u]
      /\ batch' = batch /\ executed' = executed
  BY <1>1, Zenon DEF TryPop, IInv, TypeOK
<1>3. \A p \in Queues : p # q => Pending'[p] = Pending[p] /\ Running'[p] = Running[p]
  BY <1>1, <1>2, OthersUnmoved, Zenon
<1>4. Pending[q] = jobs[q] /\ Running[q] = NoJob
  <2>1. 1 \in DOMAIN gq /\ gq[1] = q
    BY <1>0, <1>1
  <2>2. \A u \in Threads : ~Holds(u, q)
    BY <2>1, Zenon DEF Queued, IInv, SingleOwner
  <2> QED
    BY <2>2 DEF Mapping
<1>5. Pending'[q] = NotBegun(t)' \o jobs'[q] /\ Running'[q] = NoJob
  <2>1. Holds(t, q)' /\ pc'[t] # "job"
    BY <1>2 DEF Holds
  <2> QED
    BY <2>1, Zenon DEF Mapping
<1>6. NotBegun(t)' = <<>>
  BY <1>2, Zenon DEF NotBegun
<1>7. Pending'[q] = Pending[q] /\ Running'[q] = Running[q]
  <2>1. jobs[q] \in Seq(Jobs)
    BY Zenon DEF IInv, TypeOK
  <2> QED
    BY <1>2, <1>4, <1>5, <1>6, <2>1, SeqConcatEmpty, Zenon
<1> QED
  BY <1>2, <1>3, <1>7, Stutters, Zenon

\* What Execute knows of its own queue: it is the executor, before and after a
\* step that does not return.
LEMMA ExecutorView ==
  ASSUME TypeOK, Mapping, NEW t \in Threads, pc[t] # "idle"
  PROVE  /\ cur[t] \in Queues /\ jobs[cur[t]] \in Seq(Jobs)
         /\ Pending[cur[t]] = NotBegun(t) \o jobs[cur[t]]
         /\ Running[cur[t]] = IF pc[t] = "job" THEN batch[t][executed[t] + 1] ELSE NoJob
<1>1. cur[t] \in Queues /\ jobs[cur[t]] \in Seq(Jobs) /\ Holds(t, cur[t])
  BY DEF TypeOK, Holds
<1> QED
  BY <1>1, Zenon DEF Mapping

\* The same view after the step: what a thread inside Execute has not begun of
\* its batch stands before the jobs pushed since.
LEMMA ExecutorViewAfter ==
  ASSUME TypeOK', Mapping', NEW t \in Threads, pc'[t] # "idle"
  PROVE  /\ Pending'[cur'[t]] = NotBegun(t)' \o jobs'[cur'[t]]
         /\ Running'[cur'[t]] = IF pc'[t] = "job" THEN batch'[t][executed'[t] + 1] ELSE NoJob
<1>1. cur'[t] \in Queues /\ Holds(t, cur[t])'
  BY DEF TypeOK, Holds
<1> QED
  BY <1>1, Zenon DEF Mapping

\* Taking the batch out of jobs_ moves jobs and reorders none.
LEMMA SwapStutters ==
  ASSUME IInv, IInv', Mapping, Mapping', NEW t \in Threads, Swap(t)
  PROVE  UNCHANGED Abstract!aVars
<1>1. PICK q \in Queues : q = cur[t]
  BY ZenonT(40) DEF Swap, IInv, TypeOK
<1>2. /\ pc[t] = "swap" /\ pc'[t] = AfterSwap(jobs[q]) /\ finished' = finished
      /\ jobs'[q] = <<>> /\ batch'[t] = jobs[q] /\ executed'[t] = 0
      /\ cur'[t] = q /\ cur' = cur
      /\ \A u \in Threads \ {t} : pc'[u] = pc[u] /\ batch'[u] = batch[u] /\ executed'[u] = executed[u]
      /\ \A p \in Queues \ {q} : jobs'[p] = jobs[p]
  BY <1>1 DEF Swap, IInv, TypeOK
<1>3. \A p \in Queues : p # q => Pending'[p] = Pending[p] /\ Running'[p] = Running[p]
  BY <1>1, <1>2, OthersUnmoved, Zenon
<1>4. /\ jobs[q] \in Seq(Jobs) /\ Pending[q] = NotBegun(t) \o jobs[q]
      /\ Running[q] = IF pc[t] = "job" THEN batch[t][executed[t] + 1] ELSE NoJob
  BY <1>1, <1>2, ExecutorView, Zenon DEF IInv
<1>5. pc'[t] \in {"settle", "run"} /\ (pc'[t] = "settle" <=> jobs[q] = <<>>)
  BY <1>2, Zenon DEF AfterSwap
<1>6. /\ Pending'[q] = NotBegun(t)' \o jobs'[q]
      /\ Running'[q] = NoJob
  BY <1>2, <1>5, ExecutorViewAfter, Zenon DEF IInv
<1>7. Pending'[q] = Pending[q] /\ Running'[q] = Running[q]
  <2>1. NotBegun(t) = <<>>
    BY <1>2 DEF NotBegun
  <2>2. NotBegun(t)' = jobs[q]
    <3>1. CASE jobs[q] = <<>>
      BY <1>5, <3>1 DEF NotBegun
    <3>2. CASE jobs[q] # <<>>
      <4>1. NotBegun(t)' = Unexecuted(t)'
        BY <1>5, <3>2, ZenonT(40) DEF NotBegun
      <4>2. Unexecuted(t)' = SubSeq(jobs[q], 1, Len(jobs[q]))
        <5>1. 0 + 1 = 1
          OBVIOUS
        <5> QED
          BY <1>2, <5>1, Zenon DEF Unexecuted
      <4> QED
        BY <1>4, <4>1, <4>2, SeqRestEnds
    <3> QED
      BY <3>1, <3>2
  <2>3. jobs[q] = <<>> \o jobs[q] /\ jobs[q] = jobs[q] \o <<>>
    BY <1>4, SeqConcatEmpty
  <2>4. Pending[q] = jobs[q]
    BY <1>4, <2>1, <2>3, ZenonT(40)
  <2>5. jobs'[q] = <<>>
    BY <1>2
  <2>6. Pending'[q] = jobs[q]
    BY <1>6, <2>2, <2>3, <2>5, Zenon
  <2>7. Running[q] = NoJob
    BY <1>2, <1>4, Zenon
  <2> QED
    BY <1>6, <2>4, <2>6, <2>7, Zenon
<1> QED
  BY <1>2, <1>3, <1>7, Stutters, Zenon

\* job() is entered: the abstract queue begins its oldest job.
LEMMA JobBeginBegins ==
  ASSUME IInv, IInv', Mapping, Mapping', NEW t \in Threads, JobBegin(t)
  PROVE  \E q \in Queues : Abstract!Begin(q)
<1>1. PICK q \in Queues : q = cur[t]
  BY DEF JobBegin, IInv, TypeOK
<1>2. /\ pc[t] = "run" /\ pc'[t] = "job" /\ finished' = finished
      /\ jobs'[q] = jobs[q] /\ batch'[t] = batch[t] /\ executed'[t] = executed[t]
      /\ cur'[t] = q /\ cur' = cur
      /\ \A u \in Threads \ {t} : pc'[u] = pc[u] /\ batch'[u] = batch[u] /\ executed'[u] = executed[u]
      /\ \A p \in Queues \ {q} : jobs'[p] = jobs[p]
  BY <1>1 DEF JobBegin, IInv, TypeOK
<1>3. \A p \in Queues : p # q => Pending'[p] = Pending[p] /\ Running'[p] = Running[p]
  BY <1>1, <1>2, OthersUnmoved, Zenon
<1>4. /\ jobs[q] \in Seq(Jobs) /\ Pending[q] = NotBegun(t) \o jobs[q]
      /\ Running[q] = IF pc[t] = "job" THEN batch[t][executed[t] + 1] ELSE NoJob
  BY <1>1, <1>2, ExecutorView, Zenon DEF IInv
<1>5. /\ Pending'[q] = NotBegun(t)' \o jobs'[q]
      /\ Running'[q] = IF pc'[t] = "job" THEN batch'[t][executed'[t] + 1] ELSE NoJob
  BY <1>2, ExecutorViewAfter, Zenon DEF IInv
<1>6. /\ NotBegun(t) = Unexecuted(t)
      /\ NotBegun(t)' = Tail(Unexecuted(t))
  <2>1. Unexecuted(t)' = Unexecuted(t)
    BY <1>2 DEF Unexecuted
  <2> QED
    BY <1>2, <2>1 DEF NotBegun
<1>7. /\ Unexecuted(t) \in Seq(Jobs) /\ Unexecuted(t) # <<>>
      /\ Head(Unexecuted(t)) = batch[t][executed[t] + 1]
  BY <1>2, RestOfBatch, Zenon DEF IInv
<1>8. /\ Running[q] = NoJob /\ Pending[q] # <<>>
      /\ Running'[q] = Head(Pending[q]) /\ Pending'[q] = Tail(Pending[q])
  <2>1. /\ Unexecuted(t) \o jobs[q] # <<>>
        /\ Head(Unexecuted(t) \o jobs[q]) = Head(Unexecuted(t))
        /\ Tail(Unexecuted(t) \o jobs[q]) = Tail(Unexecuted(t)) \o jobs[q]
    BY <1>4, <1>7, TakeFront, ZenonT(40)
  <2>2. Running[q] = NoJob /\ Running'[q] = batch[t][executed[t] + 1]
    BY <1>2, <1>4, <1>5, Zenon
  <2> QED
    BY <1>2, <1>4, <1>5, <1>6, <1>7, <2>1, <2>2, ZenonT(40)
<1>9. Running' = [Running EXCEPT ![q] = Head(Pending[q])]
  BY <1>3, <1>8, QueueByQueue, Zenon
<1>10. Pending' = [Pending EXCEPT ![q] = Tail(@)]
  BY <1>3, <1>8, QueueByQueue, Zenon
<1> QED
  BY <1>2, <1>8, <1>9, <1>10, ZenonT(40) DEF Abstract!Begin

\* job() returns: the abstract queue finishes the job it began.
LEMMA JobEndFinishes ==
  ASSUME IInv, IInv', Mapping, Mapping', NEW t \in Threads, JobEnd(t)
  PROVE  \E q \in Queues : Abstract!Finish(q)
<1>1. PICK q \in Queues : q = cur[t]
  BY ZenonT(40) DEF JobEnd, IInv, TypeOK
<1>2. /\ pc[t] = "job" /\ executed'[t] = executed[t] + 1
      /\ finished' = [finished EXCEPT ![q] = Append(@, batch[t][executed[t] + 1])]
      /\ jobs'[q] = jobs[q] /\ batch'[t] = batch[t]
      /\ pc'[t] \in {"settle", "giveback", "run"}
      /\ pc'[t] = "settle" <=> executed[t] + 1 = Len(batch[t])
      /\ cur'[t] = q /\ cur' = cur
      /\ \A u \in Threads \ {t} : pc'[u] = pc[u] /\ batch'[u] = batch[u] /\ executed'[u] = executed[u]
      /\ \A p \in Queues \ {q} : jobs'[p] = jobs[p]
  <2>1. /\ pc[t] = "job" /\ executed' = [executed EXCEPT ![t] = @ + 1]
        /\ finished' = [finished EXCEPT ![q] = Append(@, batch[t][executed[t] + 1])]
        /\ jobs' = jobs /\ batch' = batch /\ cur' = cur
    BY <1>1, Zenon DEF JobEnd
  <2>2. PICK late :
          pc' = [pc EXCEPT ![t] = CASE executed[t] + 1 = Len(batch[t]) -> "settle"
                                    [] executed[t] + 1 < Len(batch[t]) /\ late -> "giveback"
                                    [] OTHER -> "run"]
    BY Zenon DEF JobEnd
  <2>3. pc \in [Threads -> {"idle", "swap", "run", "job", "giveback", "settle", "again"}]
        /\ executed \in [Threads -> Nat]
    BY Zenon DEF IInv, TypeOK
  <2>4. /\ pc'[t] \in {"settle", "giveback", "run"}
        /\ pc'[t] = "settle" <=> executed[t] + 1 = Len(batch[t])
        /\ \A u \in Threads \ {t} : pc'[u] = pc[u]
    BY <2>2, <2>3
  <2>5. executed'[t] = executed[t] + 1 /\ \A u \in Threads \ {t} : executed'[u] = executed[u]
    BY <2>1, <2>3, Zenon
  <2> QED
    BY <1>1, <2>1, <2>4, <2>5
<1>3. \A p \in Queues : p # q => Pending'[p] = Pending[p] /\ Running'[p] = Running[p]
  BY <1>1, <1>2, OthersUnmoved, Zenon
<1>4. /\ jobs[q] \in Seq(Jobs) /\ Pending[q] = NotBegun(t) \o jobs[q]
      /\ Running[q] = IF pc[t] = "job" THEN batch[t][executed[t] + 1] ELSE NoJob
  BY <1>1, <1>2, ExecutorView, Zenon DEF IInv
<1>5. /\ Pending'[q] = NotBegun(t)' \o jobs'[q]
      /\ Running'[q] = IF pc'[t] = "job" THEN batch'[t][executed'[t] + 1] ELSE NoJob
  BY <1>2, ExecutorViewAfter, Zenon DEF IInv
<1>6. NotBegun(t)' = NotBegun(t)
  <2>1. NotBegun(t) = SubSeq(batch[t], executed[t] + 2, Len(batch[t]))
    BY <1>2, RestOfBatch, Zenon DEF NotBegun, IInv
  <2>2. Unexecuted(t)' = SubSeq(batch[t], executed[t] + 2, Len(batch[t]))
    <3>1. executed'[t] + 1 = executed[t] + 2
      BY <1>2 DEF IInv, TypeOK
    <3> QED
      BY <1>2, <3>1, ZenonT(40) DEF Unexecuted
  <2>3. CASE pc'[t] = "settle"
    <3>1. executed[t] + 2 = Len(batch[t]) + 1 /\ batch[t] \in Seq(Jobs)
      <4>1. executed[t] + 1 = Len(batch[t]) /\ executed[t] \in Nat /\ batch[t] \in Seq(Jobs)
        BY <1>2, <2>3, Zenon DEF IInv, TypeOK
      <4>2. \A n \in Nat : n + 2 = (n + 1) + 1
        OBVIOUS
      <4> QED
        BY <4>1, <4>2, Zenon
    <3>2. NotBegun(t)' = <<>>
      BY <2>3 DEF NotBegun
    <3> QED
      BY <2>1, <3>1, <3>2, SeqRestEnds, Zenon
  <2>4. CASE pc'[t] # "settle"
    BY <1>2, <2>1, <2>2, <2>4, ZenonT(40) DEF NotBegun
  <2> QED
    BY <2>3, <2>4
<1>7. Running[q] # NoJob
  <2>1. executed[t] + 1 \in 1..Len(batch[t]) /\ batch[t] \in Seq(Jobs)
    BY <1>2 DEF IInv, TypeOK
  <2>2. batch[t][executed[t] + 1] \in Jobs
    BY <2>1, SeqElement, Zenon
  <2> QED
    BY <1>2, <1>4, <2>2, NoJobIsNotAJob, Zenon
<1>8. Pending'[q] = Pending[q] /\ Running'[q] = NoJob
  BY <1>2, <1>4, <1>5, <1>6, Zenon
<1>9. Pending' = Pending
  BY <1>3, <1>8, QueueByQueue, Zenon
<1>10. Running' = [Running EXCEPT ![q] = NoJob]
  BY <1>3, <1>8, QueueByQueue, Zenon
<1>11. finished' = [finished EXCEPT ![q] = Append(@, Running[q])]
  BY <1>2, <1>4, Zenon
<1> QED
  BY <1>7, <1>9, <1>10, <1>11, Zenon DEF Abstract!Finish

\* A deadline that sends half a batch back leaves the order as it was.
LEMMA GiveBackStutters ==
  ASSUME IInv, IInv', Mapping, Mapping', NEW t \in Threads, GiveBack(t)
  PROVE  UNCHANGED Abstract!aVars
<1>1. PICK q \in Queues : q = cur[t]
  BY Zenon DEF GiveBack, IInv, TypeOK
<1>2. /\ pc[t] = "giveback" /\ pc'[t] = "settle" /\ finished' = finished
      /\ jobs'[q] = ReturnToFront(Unexecuted(t), jobs[q])
      /\ cur'[t] = q /\ cur' = cur
      /\ \A u \in Threads \ {t} : pc'[u] = pc[u] /\ batch'[u] = batch[u] /\ executed'[u] = executed[u]
      /\ \A p \in Queues \ {q} : jobs'[p] = jobs[p]
  BY <1>1, ZenonT(40) DEF GiveBack, IInv, TypeOK
<1>3. \A p \in Queues : p # q => Pending'[p] = Pending[p] /\ Running'[p] = Running[p]
  BY <1>1, <1>2, OthersUnmoved, Zenon
<1>4. /\ jobs[q] \in Seq(Jobs) /\ Pending[q] = NotBegun(t) \o jobs[q]
      /\ Running[q] = IF pc[t] = "job" THEN batch[t][executed[t] + 1] ELSE NoJob
  BY <1>1, <1>2, ExecutorView, Zenon DEF IInv
<1>5. /\ Pending'[q] = NotBegun(t)' \o jobs'[q]
      /\ Running'[q] = IF pc'[t] = "job" THEN batch'[t][executed'[t] + 1] ELSE NoJob
  BY <1>2, ExecutorViewAfter, Zenon DEF IInv
<1>6. Unexecuted(t) \in Seq(Jobs) /\ NotBegun(t) = Unexecuted(t) /\ NotBegun(t)' = <<>>
  BY <1>2, RestOfBatch DEF NotBegun, IInv
<1>7. Pending'[q] = Pending[q] /\ Running'[q] = Running[q]
  <2>1. jobs'[q] = Unexecuted(t) \o jobs[q] /\ jobs'[q] \in Seq(Jobs)
    <3>1. jobs'[q] = Unexecuted(t) \o jobs[q]
      BY <1>2, Zenon DEF ReturnToFront
    <3> QED
      BY <1>4, <1>6, <3>1, SeqConcat, Zenon
  <2>2. <<>> \o jobs'[q] = jobs'[q]
    BY <2>1, SeqConcatEmpty
  <2>3. Pending[q] = Unexecuted(t) \o jobs[q]
    BY <1>4, <1>6, Zenon
  <2>4. Pending'[q] = <<>> \o jobs'[q]
    BY <1>5, <1>6, Zenon
  <2>5. Running[q] = NoJob
    BY <1>2, <1>4, Zenon
  <2>6. Running'[q] = NoJob
    BY <1>2, <1>5, Zenon
  <2> QED
    BY <2>1, <2>2, <2>3, <2>4, <2>5, <2>6, Zenon
<1> QED
  BY <1>2, <1>3, <1>7, Stutters, Zenon

\* Subtracting from the counter shows nothing: a thread that returns has nothing
\* of its batch left, and one that stays has not taken the next one.
LEMMA SettleAgainStutter ==
  ASSUME IInv, IInv', Mapping, Mapping', NEW t \in Threads, Settle(t) \/ Again(t)
  PROVE  UNCHANGED Abstract!aVars
<1>1. PICK q \in Queues : q = cur[t]
  BY Zenon DEF Settle, Again, IInv, TypeOK
<1>2. /\ pc[t] \in {"settle", "again"} /\ pc'[t] \in {"idle", "again", "swap"}
      /\ UNCHANGED <<jobs, cur, batch, executed, finished>>
      /\ \A u \in Threads \ {t} : pc'[u] = pc[u]
  BY ZenonT(40) DEF Settle, Again, IInv, TypeOK
<1>3. \A p \in Queues : p # q => Pending'[p] = Pending[p] /\ Running'[p] = Running[p]
  BY <1>1, <1>2, OthersUnmoved, Zenon
<1>4. /\ jobs[q] \in Seq(Jobs) /\ Pending[q] = NotBegun(t) \o jobs[q] /\ Running[q] = NoJob
  BY <1>1, <1>2, ExecutorView, Zenon DEF IInv
<1>5. NotBegun(t) = <<>> /\ NotBegun(t)' = <<>>
  BY <1>2, Zenon DEF NotBegun
<1>6. Pending[q] = jobs[q]
  BY <1>4, <1>5, SeqConcatEmpty, Zenon
<1>7. Pending'[q] = Pending[q] /\ Running'[q] = Running[q]
  <2>1. CASE pc'[t] = "idle"
    <3>1. \A u \in Threads : ~Holds(u, q)'
      BY <1>1, <1>2, <2>1, Zenon DEF Holds, IInv, SingleOwner
    <3>2. Pending'[q] = jobs'[q] /\ Running'[q] = NoJob
      BY <3>1, Zenon DEF Mapping
    <3> QED
      BY <1>2, <1>4, <1>6, <3>2, Zenon
  <2>2. CASE pc'[t] # "idle"
    <3>1. Pending'[q] = NotBegun(t)' \o jobs'[q] /\ Running'[q] = NoJob
      BY <1>1, <1>2, <2>2, ExecutorViewAfter, Zenon DEF IInv
    <3> QED
      BY <1>2, <1>4, <1>5, <1>6, <3>1, SeqConcatEmpty, Zenon
  <2> QED
    BY <2>1, <2>2, Zenon
<1> QED
  BY <1>2, <1>3, <1>7, Stutters, Zenon

-----------------------------------------------------------------------------
\* Every step of JobQueue is a step of SerialExecutor or leaves it as it is.
LEMMA NextSimulated ==
  IInv /\ IInv' /\ Mapping /\ Mapping' /\ [Next]_vars => [Abstract!ANext]_(Abstract!aVars)
<1> SUFFICES ASSUME IInv, IInv', Mapping, Mapping', [Next]_vars
             PROVE  Abstract!ANext \/ UNCHANGED Abstract!aVars
  BY Zenon
<1>1. CASE UNCHANGED vars
  <2>1. UNCHANGED <<jobs, pc, cur, batch, executed, finished>>
    BY <1>1, Zenon DEF vars, execVars
  <2>2. \A u \in Threads, p \in Queues : Holds(u, p)' <=> Holds(u, p)
    BY <2>1 DEF Holds
  <2> QED
    BY <2>1, <2>2, Unmoved, Stutters, Zenon
<1>2. ASSUME NEW t \in Threads,
             (\E q \in Queues, j \in Jobs : PushCount(t, q, j)) \/ PushRegister(t)
      PROVE  UNCHANGED Abstract!aVars
  BY <1>2, SilentSteps
<1>3. ASSUME NEW t \in Threads, PushBack(t)
      PROVE  Abstract!ANext
  BY <1>3, PushBackSubmits DEF Abstract!ANext
<1>4. ASSUME NEW t \in Threads, TryPop(t)
      PROVE  UNCHANGED Abstract!aVars
  BY <1>4, TryPopStutters
<1>5. ASSUME NEW t \in Threads, Swap(t)
      PROVE  UNCHANGED Abstract!aVars
  BY <1>5, SwapStutters
<1>6. ASSUME NEW t \in Threads, JobBegin(t)
      PROVE  Abstract!ANext
  BY <1>6, JobBeginBegins DEF Abstract!ANext
<1>7. ASSUME NEW t \in Threads, JobEnd(t)
      PROVE  Abstract!ANext
  BY <1>7, JobEndFinishes DEF Abstract!ANext
<1>8. ASSUME NEW t \in Threads, GiveBack(t)
      PROVE  UNCHANGED Abstract!aVars
  BY <1>8, GiveBackStutters
<1>9. ASSUME NEW t \in Threads, Settle(t) \/ Again(t)
      PROVE  UNCHANGED Abstract!aVars
  BY <1>9, SettleAgainStutter
<1> QED
  BY <1>1, <1>2, <1>3, <1>4, <1>5, <1>6, <1>7, <1>8, <1>9, Zenon
  DEF Next, PushStep, ExecuteStep

\* Each queue runs its jobs one at a time, exactly once and in push order, for
\* any number of threads, queues and jobs (JobQueue::Push, JobQueue::Execute).
THEOREM Refinement == Spec => RunsInPushOrder
<1>1. Init => Abstract!AInit
  <2> SUFFICES ASSUME Init PROVE Abstract!AInit
    OBVIOUS
  <2>1. \A q \in Queues : Runner(q) = {}
    BY Zenon DEF Init, Runner, Holds
  <2>2. Pending = [q \in Queues |-> <<>>] /\ Running = [q \in Queues |-> NoJob]
    BY <2>1 DEF Init, Pending, Running
  <2> QED
    BY <2>2 DEF Init, Abstract!AInit
<1>2. IInv => Mapping
  BY MappingHolds DEF IInv
<1>3. IInv <=> TypeOK /\ SingleOwner /\ CountAccounts /\ OwnedIffCounted
  BY DEF IInv
<1> QED
  BY <1>1, <1>2, <1>3, NextSimulated, Invariance, PTL
  DEF Spec, RunsInPushOrder, Abstract!ASpec
=============================================================================
