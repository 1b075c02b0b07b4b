---------------------------- MODULE WorkerProofs ----------------------------
(***************************************************************************)
(* Stop of a Worker forgets nobody, for any number of connections, any     *)
(* session limit, submission batch and completion budget, and any number   *)
(* of final dispatch rounds but zero.  The argument follows the task that  *)
(* Stop posts first: it has run before the loop's final rounds begin, so   *)
(* that the first of them submits the cancel of the accept; the first that *)
(* empties the completion queue has handled all the accept left behind.    *)
(***************************************************************************)
EXTENDS Worker, FiniteSetTheorems, TLAPS

\* A queue is a function on the numbers up to its length.
LEMMA SeqIndexed ==
  ASSUME NEW S, NEW seq \in Seq(S)
  PROVE  Len(seq) \in Nat /\ seq \in [1..Len(seq) -> S] /\ DOMAIN seq = 1..Len(seq)
  OBVIOUS

\* What a queue over S holds is in S.
LEMMA SeqElement ==
  ASSUME NEW S, NEW seq \in Seq(S), NEW n \in 1..Len(seq)
  PROVE  seq[n] \in S
  OBVIOUS

\* Only the empty queue has no element.
LEMMA SeqEmpty ==
  ASSUME NEW S
  PROVE  /\ <<>> \in Seq(S) /\ Len(<<>>) = 0
         /\ \A seq \in Seq(S) : seq # <<>> => Len(seq) \in Nat \ {0}
  OBVIOUS

\* push_back leaves the elements before the new one in place.
LEMMA SeqAppend ==
  ASSUME NEW S, NEW seq \in Seq(S), NEW e \in S
  PROVE  /\ Append(seq, e) \in Seq(S) /\ Append(seq, e) # <<>> /\ Len(Append(seq, e)) = Len(seq) + 1
         /\ \A i \in 1..Len(seq) : Append(seq, e)[i] = seq[i]
         /\ Append(seq, e)[Len(seq) + 1] = e
  OBVIOUS

\* Taking the front moves every other element one place forward.
LEMMA SeqHeadTail ==
  ASSUME NEW S, NEW seq \in Seq(S), seq # <<>>
  PROVE  /\ Head(seq) \in S /\ Tail(seq) \in Seq(S) /\ Len(Tail(seq)) = Len(seq) - 1
         /\ \A i \in 1..Len(Tail(seq)) : Tail(seq)[i] = seq[i + 1]
  OBVIOUS

\* Appending is concatenating with one element.
LEMMA SeqConcatOne ==
  ASSUME NEW S, NEW seq \in Seq(S), NEW e \in S
  PROVE  Append(seq, e) = seq \o <<e>>
  OBVIOUS

\* Nothing after a sequence changes nothing.
LEMMA SeqConcatEmpty ==
  ASSUME NEW S, NEW seq \in Seq(S)
  PROVE  seq \o <<>> = seq
  OBVIOUS

\* An entry is prepared, or a task waits.
Contains(s, e) == \E i \in 1..Len(s) : s[i] = e

\* The final completion of the multishot accept.
IsFinal(e) == e.kind \in {"accept", "error"} /\ ~e.more

NoFinal(q) == \A i \in 1..Len(q) : ~IsFinal(q[i])
OneFinal(q) == \E i \in 1..Len(q) : IsFinal(q[i]) /\ \A j \in 1..Len(q) : IsFinal(q[j]) => j = i
NoneQueued(s) == \A i \in 1..Len(s) : s[i] # "accept"
OneQueued(s) == \E i \in 1..Len(s) : s[i] = "accept" /\ \A j \in 1..Len(s) : s[j] = "accept" => j = i

\* The accept event is nowhere, or in one place: prepared, in the kernel, or
\* completed.
EventPlace(ev, q, s, a) ==
  IF ev THEN \/ ~a /\ NoFinal(q) /\ OneQueued(s)
             \/ a /\ NoFinal(q) /\ NoneQueued(s)
             \/ ~a /\ OneFinal(q) /\ NoneQueued(s)
        ELSE ~a /\ NoFinal(q) /\ NoneQueued(s)

\* The listener's flags.  A cancel that was asked for is prepared, or has found
\* the accept.
ListenerFlags ==
  /\ listen_fd /\ failures = 0 => accept_ev
  /\ cancel_requested => ~listen_fd /\ (Contains(sq, "cancel") \/ (~armed /\ NoneQueued(sq)))

\* Where the loop and the stopping thread are, one seen from the other.
LoopLeft == {"last_post", "last_tasks"}
Final == {"final_flush", "final_cqes", "final_post", "final_tasks", "done"}
LoopPlace ==
  /\ loop \notin RunsTasks => batch = <<>>
  /\ loop \in Final => batch = <<>>
  /\ loop \notin Final => round = 0
  /\ loop # "done" => round <= FinalRounds
  /\ ~running => ctl \in {"created", "joining", "stopped"}
  /\ ctl = "created" => /\ loop = "none" /\ posted = <<>> /\ ~running
                        /\ ~listen_fd /\ ~accept_ev /\ ~cancel_requested
                        /\ sq = <<>> /\ cq = <<>> /\ ~armed
                        /\ \A c \in Clients : client[c] \notin Live
  /\ ctl \in {"created", "started"} => at_stop = {}
  /\ loop \in LoopLeft \cup Final => ~running /\ ctl # "created"
  /\ loop \in Final \cup {"last_tasks"} => posted = <<>>
  /\ drained => loop \in Final
  /\ CqeBudget = 0 /\ loop \in {"final_post", "final_tasks", "done"} => drained

\* The task of StopAccepting has yet to run, or the listener is stopped.
StopRan ==
  \/ ctl \in {"created", "started"}
  \/ Contains(posted, "stop") \/ Contains(batch, "stop")
  \/ ~listen_fd /\ (failures = 0 /\ accept_ev => cancel_requested)

\* What the final rounds have done, and what stays so once one of them has
\* emptied the completion queue.
FinalDone ==
  failures = 0 =>
    /\ loop \in Final \ {"final_flush"} => sq = <<>> /\ ~armed
    /\ drained => sq = <<>> /\ ~armed /\ \A c \in Clients : client[c] # "accepted"

\* The completions of accepts are those of the accepted clients, one each; a
\* session's last completion is never that of a client yet to be accepted.
Matches(cl, q) ==
  /\ \A c \in Clients : cl[c] = "accepted" => \E i \in 1..Len(q) : q[i].kind = "accept" /\ q[i].who = c
  /\ \A i \in 1..Len(q) : q[i].kind = "accept" => cl[q[i].who] = "accepted"
  /\ \A i, j \in 1..Len(q) :
       q[i].kind = "accept" /\ q[j].kind = "accept" /\ q[i].who = q[j].who => i = j
  /\ \A i \in 1..Len(q) :
       q[i].kind = "last" => cl[q[i].who] \notin {"away", "waiting", "accepted"}

\* What became of the sessions alive at Stop.
AtStop ==
  /\ \A c \in at_stop : client[c] \in Live \cup {"released", "dropped"}
  /\ \A c \in Clients : client[c] = "dropped" => ctl = "stopped"
  /\ SessionsAtStopReleased

IInv ==
  /\ TypeOK /\ LoopPlace /\ EventPlace(accept_ev, cq, sq, armed) /\ ListenerFlags
  /\ StopRan /\ FinalDone /\ Matches(client, cq) /\ AtStop /\ SessionLimit

-----------------------------------------------------------------------------
(* Queues. *)

\* A completion behind the others.
LEMMA FinalAppend ==
  ASSUME NEW q \in Seq(Entries), NEW e \in Entries
  PROVE  /\ NoFinal(q) /\ IsFinal(e) => OneFinal(Append(q, e))
         /\ NoFinal(q) /\ ~IsFinal(e) => NoFinal(Append(q, e))
         /\ OneFinal(q) /\ ~IsFinal(e) => OneFinal(Append(q, e))
<1> DEFINE r == Append(q, e)
<1>1. /\ Len(q) \in Nat /\ Len(r) = Len(q) + 1
      /\ \A i \in 1..Len(q) : r[i] = q[i]
      /\ r[Len(q) + 1] = e
  BY SeqIndexed, SeqAppend
<1> HIDE DEF r
<1>2. \A i \in 1..Len(r) : i \in 1..Len(q) \/ i = Len(q) + 1
  BY <1>1
<1>3. ASSUME NoFinal(q), IsFinal(e) PROVE OneFinal(r)
  <2>1. Len(q) + 1 \in 1..Len(r) /\ IsFinal(r[Len(q) + 1])
    BY <1>1, <1>3
  <2>2. \A j \in 1..Len(r) : IsFinal(r[j]) => j = Len(q) + 1
    BY <1>1, <1>2, <1>3 DEF NoFinal
  <2> QED
    BY <2>1, <2>2 DEF OneFinal
<1>4. ASSUME NoFinal(q), ~IsFinal(e) PROVE NoFinal(r)
  BY <1>1, <1>2, <1>4 DEF NoFinal
<1>5. ASSUME OneFinal(q), ~IsFinal(e) PROVE OneFinal(r)
  <2>1. PICK i \in 1..Len(q) : IsFinal(q[i]) /\ \A j \in 1..Len(q) : IsFinal(q[j]) => j = i
    BY <1>5 DEF OneFinal
  <2>2. i \in 1..Len(r) /\ IsFinal(r[i])
    BY <1>1, <2>1
  <2>3. \A j \in 1..Len(r) : IsFinal(r[j]) => j = i
    BY <1>1, <1>2, <1>5, <2>1
  <2> QED
    BY <2>2, <2>3 DEF OneFinal
<1> QED
  BY <1>3, <1>4, <1>5 DEF r

\* The first completion is taken.
LEMMA FinalTail ==
  ASSUME NEW q \in Seq(Entries), q # <<>>
  PROVE  /\ OneFinal(q) /\ IsFinal(Head(q)) => NoFinal(Tail(q))
         /\ OneFinal(q) /\ ~IsFinal(Head(q)) => OneFinal(Tail(q))
         /\ NoFinal(q) => NoFinal(Tail(q)) /\ ~IsFinal(Head(q))
<1> DEFINE r == Tail(q)
<1>1. /\ Len(q) \in Nat \ {0} /\ Len(r) = Len(q) - 1
      /\ \A i \in 1..Len(r) : r[i] = q[i + 1]
      /\ Head(q) = q[1]
  BY SeqIndexed, SeqHeadTail, SeqEmpty
<1> HIDE DEF r
<1>2. 1 \in 1..Len(q) /\ \A i \in 1..Len(r) : i + 1 \in 1..Len(q) /\ i + 1 # 1
  BY <1>1
<1>3. ASSUME OneFinal(q), IsFinal(Head(q)) PROVE NoFinal(r)
  <2>1. \A j \in 1..Len(q) : IsFinal(q[j]) => j = 1
    BY <1>1, <1>2, <1>3 DEF OneFinal
  <2> QED
    BY <1>1, <1>2, <2>1 DEF NoFinal
<1>4. ASSUME OneFinal(q), ~IsFinal(Head(q)) PROVE OneFinal(r)
  <2>1. PICK i \in 1..Len(q) : IsFinal(q[i]) /\ \A j \in 1..Len(q) : IsFinal(q[j]) => j = i
    BY <1>4 DEF OneFinal
  <2>2. i # 1
    BY <1>1, <1>4, <2>1
  <2>3. i - 1 \in 1..Len(r) /\ r[i - 1] = q[i]
    BY <1>1, <2>2
  <2>4. \A j \in 1..Len(r) : IsFinal(r[j]) => j = i - 1
    BY <1>1, <1>2, <2>1
  <2> QED
    BY <2>1, <2>3, <2>4 DEF OneFinal
<1>5. ASSUME NoFinal(q) PROVE NoFinal(r) /\ ~IsFinal(Head(q))
  BY <1>1, <1>2, <1>5 DEF NoFinal
<1> QED
  BY <1>3, <1>4, <1>5 DEF r

Ops == {"accept", "cancel"}

\* An entry behind those prepared.
LEMMA QueuedAppend ==
  ASSUME NEW s \in Seq(Ops)
  PROVE  /\ Append(s, "accept") \in Seq(Ops) /\ Append(s, "cancel") \in Seq(Ops)
         /\ NoneQueued(s) => OneQueued(Append(s, "accept"))
         /\ NoneQueued(s) => NoneQueued(Append(s, "cancel"))
         /\ OneQueued(s) => OneQueued(Append(s, "cancel"))
         /\ Contains(Append(s, "cancel"), "cancel")
         /\ Contains(s, "cancel") => Contains(Append(s, "accept"), "cancel")
<1> DEFINE a == Append(s, "accept")
           c == Append(s, "cancel")
           n == Len(s) + 1
<1>1. "accept" \in Ops /\ "cancel" \in Ops /\ Len(s) \in Nat
  BY SeqIndexed DEF Ops
<1>2. a \in Seq(Ops) /\ Len(a) = n /\ (\A i \in 1..Len(s) : a[i] = s[i]) /\ a[n] = "accept"
  BY <1>1, SeqAppend
<1>3. c \in Seq(Ops) /\ Len(c) = n /\ (\A i \in 1..Len(s) : c[i] = s[i]) /\ c[n] = "cancel"
  BY <1>1, SeqAppend
<1> HIDE DEF a, c
<1>4. n \in 1..n /\ \A i \in 1..n : i \in 1..Len(s) \/ i = n
  BY <1>1
<1>7. 1..Len(s) \subseteq 1..n
  BY <1>1
<1> HIDE DEF n
<1>5. NoneQueued(s) => OneQueued(a) /\ NoneQueued(c)
  BY <1>2, <1>3, <1>4, Zenon DEF NoneQueued, OneQueued
<1>6. OneQueued(s) => OneQueued(c)
  BY <1>3, <1>4, <1>7, Zenon DEF OneQueued
<1>8. Contains(c, "cancel")
  BY <1>3, <1>4 DEF Contains
<1>9. Contains(s, "cancel") => Contains(a, "cancel")
  BY <1>2, <1>7 DEF Contains
<1> QED
  BY <1>2, <1>3, <1>5, <1>6, <1>8, <1>9 DEF a, c

-----------------------------------------------------------------------------
(* Submission. *)

\* What io_uring_submit finds among the entries.
LEMMA ContainsRange ==
  ASSUME NEW S, NEW s \in Seq(S), NEW e
  PROVE  e \in Range(s) <=> Contains(s, e)
<1>1. DOMAIN s = 1..Len(s)
  BY SeqIndexed
<1> QED
  BY <1>1 DEF Range, Contains

\* The completions of the kernel's own making.
LEMMA KernelEntries ==
  /\ AcceptError(FALSE) \in Entries /\ CancelDone \in Entries
  /\ IsFinal(AcceptError(FALSE)) /\ ~IsFinal(CancelDone)
  /\ AcceptError(FALSE).kind = "error" /\ CancelDone.kind = "cancel"
  BY DEF AcceptError, CancelDone, Entries, IsFinal

\* io_uring_submit: what it completes at once.
LEMMA EnteredCases ==
  ASSUME NEW q \in Seq(Entries), NEW s \in Seq(Ops), armed \in BOOLEAN, Entered(q, s)
  PROVE  /\ sq' = <<>> /\ armed' \in BOOLEAN
         /\ \/ /\ ~Contains(s, "cancel") /\ cq' = q
               /\ armed' = (armed \/ Contains(s, "accept"))
            \/ /\ Contains(s, "cancel") /\ ~armed /\ ~Contains(s, "accept")
               /\ cq' = Append(q, CancelDone) /\ armed' = FALSE
            \/ /\ Contains(s, "cancel") /\ (armed \/ Contains(s, "accept"))
               /\ cq' = Append(Append(q, AcceptError(FALSE)), CancelDone) /\ armed' = FALSE
<1> DEFINE accepts == armed \/ "accept" \in Range(s)
           cancels == "cancel" \in Range(s)
           q1 == q \o (IF cancels /\ accepts THEN <<AcceptError(FALSE)>> ELSE <<>>)
<1>1. /\ armed' = (accepts /\ ~cancels)
      /\ cq' = q1 \o (IF cancels THEN <<CancelDone>> ELSE <<>>)
      /\ sq' = <<>>
  BY Zenon DEF Entered
<1>2. cancels /\ accepts => q1 = Append(q, AcceptError(FALSE))
  BY KernelEntries, SeqConcatOne, Zenon
<1>3. ~(cancels /\ accepts) => q1 = q
  BY SeqConcatEmpty, Zenon
<1>4. q1 \in Seq(Entries)
  <2> HIDE DEF q1
  <2>1. Append(q, AcceptError(FALSE)) \in Seq(Entries)
    BY KernelEntries, SeqAppend, Zenon
  <2> QED
    BY <1>2, <1>3, <2>1, Zenon
<1> HIDE DEF q1
<1>5. cancels => cq' = Append(q1, CancelDone)
  BY <1>1, <1>4, KernelEntries, SeqConcatOne, Zenon
<1>6. ~cancels => cq' = q1
  BY <1>1, <1>4, SeqConcatEmpty
<1>0. /\ accepts <=> armed \/ Contains(s, "accept")
      /\ cancels <=> Contains(s, "cancel")
  BY ContainsRange
<1> HIDE DEF cancels, accepts
<1>7. CASE ~cancels
  BY <1>0, <1>1, <1>3, <1>6, <1>7, Zenon
<1>8. CASE cancels /\ ~accepts
  BY <1>0, <1>1, <1>3, <1>5, <1>8, Zenon
<1>9. CASE cancels /\ accepts
  BY <1>0, <1>1, <1>2, <1>5, <1>9, Zenon
<1> QED
  BY <1>7, <1>8, <1>9, Zenon

\* Submitting moves the accept event along and never copies it.
LEMMA EventEntered ==
  ASSUME NEW q \in Seq(Entries), NEW s \in Seq(Ops), armed \in BOOLEAN, NEW ev \in BOOLEAN,
         EventPlace(ev, q, s, armed), Entered(q, s)
  PROVE  EventPlace(ev, cq', sq', armed') /\ cq' \in Seq(Entries)
<1>1. NoneQueued(<<>>)
  BY DEF NoneQueued
<1>2. NoneQueued(s) <=> ~Contains(s, "accept")
  BY DEF NoneQueued, Contains
<1>3. OneQueued(s) => Contains(s, "accept")
  BY DEF OneQueued, Contains
<1>4. sq' = <<>> /\ armed' \in BOOLEAN
  BY EnteredCases, Zenon
<1>5. CASE ~Contains(s, "cancel") /\ cq' = q /\ armed' = (armed \/ Contains(s, "accept"))
  BY <1>1, <1>2, <1>3, <1>4, <1>5 DEF EventPlace
<1>6. CASE ~armed /\ ~Contains(s, "accept") /\ cq' = Append(q, CancelDone) /\ armed' = FALSE
  <2>1. /\ NoFinal(q) => NoFinal(cq')
        /\ OneFinal(q) => OneFinal(cq')
        /\ cq' \in Seq(Entries)
    BY <1>6, KernelEntries, FinalAppend, SeqAppend, Zenon
  <2> QED
    BY <1>1, <1>2, <1>3, <1>4, <1>6, <2>1 DEF EventPlace
<1>7. CASE (armed \/ Contains(s, "accept"))
           /\ cq' = Append(Append(q, AcceptError(FALSE)), CancelDone) /\ armed' = FALSE
  <2>1. Append(q, AcceptError(FALSE)) \in Seq(Entries)
    BY KernelEntries, SeqAppend, Zenon
  <2>2. cq' \in Seq(Entries)
    BY <1>7, <2>1, KernelEntries, SeqAppend, Zenon
  <2>3. ev /\ NoFinal(q)
    BY <1>2, <1>3, <1>7, Zenon DEF EventPlace
  <2>4. OneFinal(Append(q, AcceptError(FALSE)))
    BY <2>3, KernelEntries, FinalAppend, Zenon
  <2>5. OneFinal(cq')
    BY <1>7, <2>1, <2>4, KernelEntries, FinalAppend, Zenon
  <2> QED
    BY <1>1, <1>4, <1>7, <2>2, <2>3, <2>5, Zenon DEF EventPlace
<1> QED
  BY <1>5, <1>6, <1>7, EnteredCases, Zenon

\* IoRing::Submit of a new accept, and of the cancel of an old one.
LEMMA EventSubmitted ==
  ASSUME NEW q \in Seq(Entries), sq \in Seq(Ops), armed \in BOOLEAN, NEW e \in Ops,
         NEW ev \in BOOLEAN, EventPlace(ev, q, sq, armed), e = "accept" => ~ev,
         SubmitEntry(q, e)
  PROVE  /\ EventPlace(ev \/ e = "accept", cq', sq', armed')
         /\ cq' \in Seq(Entries) /\ sq' \in Seq(Ops) /\ armed' \in BOOLEAN
<1> DEFINE s == Append(sq, e)
<1>1. s \in Seq(Ops)
  BY SeqAppend
<1>2. EventPlace(ev \/ e = "accept", q, s, armed)
  BY QueuedAppend DEF EventPlace, Ops
<1>3. <<>> \in Seq(Ops)
  BY SeqEmpty
<1>4. SubmitEntry(q, e) => \/ Entered(q, s)
                           \/ sq' = s /\ cq' = q /\ UNCHANGED armed
  BY DEF SubmitEntry
<1> HIDE DEF s
<1>5. CASE Entered(q, s)
  <2>1. sq' = <<>> /\ armed' \in BOOLEAN
    BY <1>1, <1>5, EnteredCases, Zenon
  <2> QED
    BY <1>1, <1>2, <1>3, <1>5, <2>1, EventEntered, Zenon
<1>6. CASE sq' = s /\ cq' = q /\ UNCHANGED armed
  BY <1>1, <1>2, <1>6
<1> QED
  BY <1>4, <1>5, <1>6

-----------------------------------------------------------------------------
(* The listener. *)

\* The completions that submitting adds: of a cancel, and of the accept it ends.
Grown(q, r) ==
  \/ r = q
  \/ r = Append(q, CancelDone)
  \/ r = Append(Append(q, AcceptError(FALSE)), CancelDone)

\* What submitting an entry does to the queues besides.
LEMMA SubmitEffect ==
  ASSUME NEW q \in Seq(Entries), sq \in Seq(Ops), armed \in BOOLEAN, NEW e \in Ops,
         SubmitEntry(q, e)
  PROVE  /\ Grown(q, cq')
         /\ e = "cancel" => Contains(sq', "cancel") \/ (~armed' /\ NoneQueued(sq'))
<1> DEFINE s == Append(sq, e)
<1>1. s \in Seq(Ops) /\ (e = "cancel" => Contains(s, "cancel"))
  BY SeqAppend, QueuedAppend
<1>2. \/ Entered(q, s)
      \/ sq' = s /\ cq' = q /\ UNCHANGED armed
  BY DEF SubmitEntry
<1> HIDE DEF s
<1>3. NoneQueued(<<>>)
  BY DEF NoneQueued
<1>4. CASE Entered(q, s)
  <2>1. sq' = <<>> /\ Grown(q, cq') /\ (Contains(s, "cancel") => armed' = FALSE)
    BY <1>1, <1>4, EnteredCases, Zenon DEF Grown
  <2> QED
    BY <1>1, <1>3, <2>1
<1>5. CASE sq' = s /\ cq' = q /\ UNCHANGED armed
  BY <1>1, <1>5 DEF Grown
<1> QED
  BY <1>2, <1>4, <1>5

\* Listener::Stop cancels the accept, unless no SQE is to be had.
LEMMA StopEffect ==
  ASSUME TypeOK, EventPlace(accept_ev, cq, sq, armed), ListenerFlags, ListenerStop
  PROVE  /\ listen_fd' = FALSE /\ accept_ev' = accept_ev /\ cancel_requested' \in BOOLEAN
         /\ cq' \in Seq(Entries) /\ sq' \in Seq(Ops) /\ armed' \in BOOLEAN
         /\ failures' \in 0..MaxFailures /\ (failures' = 0 => failures = 0)
         /\ EventPlace(accept_ev, cq', sq', armed')
         /\ Grown(cq, cq')
         /\ cancel_requested' => Contains(sq', "cancel") \/ (~armed' /\ NoneQueued(sq'))
         /\ failures' = 0 /\ accept_ev' => cancel_requested'
<1>1. /\ cq \in Seq(Entries) /\ sq \in Seq(Ops) /\ armed \in BOOLEAN /\ accept_ev \in BOOLEAN
      /\ cancel_requested \in BOOLEAN /\ failures \in 0..MaxFailures
      /\ "cancel" \in Ops /\ "cancel" # "accept"
  BY DEF TypeOK, Ops
<1>2. listen_fd' = FALSE /\ accept_ev' = accept_ev
  BY DEF ListenerStop
<1>3. CASE /\ accept_ev /\ ~cancel_requested /\ cancel_requested' = TRUE
           /\ SubmitEntry(cq, "cancel") /\ UNCHANGED failures
  <2>1. /\ EventPlace(accept_ev \/ "cancel" = "accept", cq', sq', armed')
        /\ cq' \in Seq(Entries) /\ sq' \in Seq(Ops) /\ armed' \in BOOLEAN
    BY <1>1, <1>3, EventSubmitted, Zenon
  <2>2. EventPlace(accept_ev, cq', sq', armed')
    BY <1>3, <2>1 DEF EventPlace
  <2>3. /\ Grown(cq, cq')
        /\ Contains(sq', "cancel") \/ (~armed' /\ NoneQueued(sq'))
    BY <1>1, <1>3, SubmitEffect, Zenon
  <2> QED
    BY <1>1, <1>2, <1>3, <2>1, <2>2, <2>3, Zenon
<1>4. CASE SqeFull /\ UNCHANGED <<cancel_requested, sq, cq, armed>>
  <2>1. failures' \in 0..MaxFailures /\ failures' # 0
    BY <1>1, <1>4, WorkerSizes DEF SqeFull
  <2> QED
    BY <1>1, <1>2, <1>4, <2>1 DEF Grown, ListenerFlags
<1>5. CASE ~(accept_ev /\ ~cancel_requested) /\ UNCHANGED <<cancel_requested, kernelVars>>
  BY <1>1, <1>2, <1>5 DEF Grown, ListenerFlags, kernelVars
<1> QED
  BY <1>3, <1>4, <1>5, Zenon DEF ListenerStop

\* Listener::OnAccept(event, result, flags) registers the accept again when it
\* has ended, unless the listener is stopped or no SQE is to be had.
LEMMA AcceptEffect ==
  ASSUME TypeOK, EventPlace(accept_ev, cq, sq, armed), ListenerFlags, cq # <<>>,
         Head(cq).kind \in {"accept", "error"}, OnAccept(Head(cq))
  PROVE  /\ accept_ev' \in BOOLEAN /\ cancel_requested' \in BOOLEAN
         /\ cq' \in Seq(Entries) /\ sq' \in Seq(Ops) /\ armed' \in BOOLEAN
         /\ failures' \in 0..MaxFailures /\ (failures' = 0 => failures = 0)
         /\ EventPlace(accept_ev', cq', sq', armed')
         /\ Grown(Tail(cq), cq')
         /\ ~listen_fd => UNCHANGED <<sq, armed>>
         /\ listen_fd /\ failures' = 0 => accept_ev'
         /\ cancel_requested' => cancel_requested
         /\ ~listen_fd /\ accept_ev' /\ cancel_requested => cancel_requested'
         /\ ~listen_fd /\ accept_ev' => accept_ev
<1> DEFINE e == Head(cq)
           q == Tail(cq)
<1>1. /\ cq \in Seq(Entries) /\ sq \in Seq(Ops) /\ armed \in BOOLEAN /\ accept_ev \in BOOLEAN
      /\ cancel_requested \in BOOLEAN /\ listen_fd \in BOOLEAN /\ failures \in 0..MaxFailures
      /\ "accept" \in Ops
  BY DEF TypeOK, Ops
<1>2. e \in Entries /\ q \in Seq(Entries)
  BY <1>1, SeqHeadTail
<1>3. e.more \in BOOLEAN
  BY <1>2 DEF Entries
<1>4. /\ OneFinal(cq) /\ IsFinal(e) => NoFinal(q)
      /\ OneFinal(cq) /\ ~IsFinal(e) => OneFinal(q)
      /\ NoFinal(cq) => NoFinal(q) /\ ~IsFinal(e)
  BY <1>1, FinalTail
<1>5. cancel_requested' = (cancel_requested /\ e.more)
  BY DEF OnAccept
<1>6. \/ Ends(e) /\ listen_fd /\ RegisterAccept(q)
      \/ /\ ~(Ends(e) /\ listen_fd) /\ accept_ev' = (accept_ev /\ e.more)
         /\ cq' = q /\ UNCHANGED <<sq, armed, failures>>
  BY DEF OnAccept, EventAfter
<1>7. IsFinal(e) <=> Ends(e)
  BY DEF IsFinal, Ends
<1>8. Ends(e) <=> ~e.more
  BY DEF Ends
<1> HIDE DEF e, q
<1>9. Ends(e) => EventPlace(FALSE, q, sq, armed)
  BY <1>4, <1>7 DEF EventPlace
<1>10. ~Ends(e) => EventPlace(accept_ev, q, sq, armed)
  BY <1>4, <1>7 DEF EventPlace
<1>11. CASE Ends(e) /\ listen_fd /\ RegisterAccept(q)
  <2>1. CASE accept_ev' = TRUE /\ SubmitEntry(q, "accept") /\ UNCHANGED failures
    <3>1. /\ EventPlace(FALSE \/ "accept" = "accept", cq', sq', armed')
          /\ cq' \in Seq(Entries) /\ sq' \in Seq(Ops) /\ armed' \in BOOLEAN
      BY <1>1, <1>2, <1>9, <1>11, <2>1, EventSubmitted, Zenon
    <3>2. EventPlace(accept_ev', cq', sq', armed')
      BY <2>1, <3>1 DEF EventPlace
    <3>3. Grown(q, cq')
      BY <1>1, <1>2, <2>1, SubmitEffect
    <3> QED
      BY <1>1, <1>3, <1>5, <1>11, <2>1, <3>1, <3>2, <3>3, Zenon DEF q
  <2>2. CASE SqeFull /\ accept_ev' = FALSE /\ cq' = q /\ UNCHANGED <<sq, armed>>
    <3>1. failures' \in 0..MaxFailures /\ failures' # 0
      BY <1>1, <2>2, WorkerSizes DEF SqeFull
    <3>2. EventPlace(accept_ev', cq', sq', armed')
      BY <1>9, <1>11, <2>2 DEF EventPlace
    <3> QED
      BY <1>1, <1>2, <1>3, <1>5, <1>11, <2>2, <3>1, <3>2, Zenon DEF Grown, q
  <2> QED
    BY <1>11, <2>1, <2>2, Zenon DEF RegisterAccept
<1>12. CASE /\ ~(Ends(e) /\ listen_fd) /\ accept_ev' = (accept_ev /\ e.more)
            /\ cq' = q /\ UNCHANGED <<sq, armed, failures>>
  <2>1. EventPlace(accept_ev', cq', sq', armed')
    BY <1>3, <1>8, <1>9, <1>10, <1>12, <1>1 DEF EventPlace
  <2>2. listen_fd /\ failures' = 0 => accept_ev'
    BY <1>3, <1>8, <1>12, <1>1, Zenon DEF ListenerFlags
  <2> QED
    BY <1>1, <1>2, <1>3, <1>5, <1>12, <2>1, <2>2 DEF Grown, q
<1> QED
  BY <1>6, <1>11, <1>12

-----------------------------------------------------------------------------
(* Completions and the clients they are of. *)

\* A completion that is neither an accept nor a session's last changes nothing.
LEMMA MatchesAppend ==
  ASSUME NEW cl, NEW q \in Seq(Entries), NEW e \in Entries, e.kind \notin {"accept", "last"},
         Matches(cl, q)
  PROVE  Matches(cl, Append(q, e))
<1> DEFINE r == Append(q, e)
<1>1. /\ Len(q) \in Nat /\ Len(r) = Len(q) + 1
      /\ \A i \in 1..Len(q) : r[i] = q[i]
      /\ r[Len(q) + 1] = e
  BY SeqIndexed, SeqAppend
<1> HIDE DEF r
<1>2. /\ \A i \in 1..Len(r) : i \in 1..Len(q) \/ i = Len(q) + 1
      /\ \A i \in 1..Len(q) : i \in 1..Len(r)
  BY <1>1
<1>3. \A i \in 1..Len(r) : r[i].kind \in {"accept", "last"} => i \in 1..Len(q) /\ r[i] = q[i]
  BY <1>1, <1>2
<1>4. \A c \in Clients : cl[c] = "accepted" => \E i \in 1..Len(r) : r[i].kind = "accept" /\ r[i].who = c
  BY <1>1, <1>2 DEF Matches
<1>5. \A i \in 1..Len(r) : r[i].kind = "accept" => cl[r[i].who] = "accepted"
  BY <1>3 DEF Matches
<1>6. \A i, j \in 1..Len(r) :
        r[i].kind = "accept" /\ r[j].kind = "accept" /\ r[i].who = r[j].who => i = j
  BY <1>3 DEF Matches
<1>7. \A i \in 1..Len(r) : r[i].kind = "last" => cl[r[i].who] \notin {"away", "waiting", "accepted"}
  BY <1>3 DEF Matches
<1>8. Matches(cl, r)
  BY <1>4, <1>5, <1>6, <1>7 DEF Matches
<1> QED
  BY <1>8 DEF r

\* The completions that submitting adds are of that kind.
LEMMA MatchesGrown ==
  ASSUME NEW cl, NEW q \in Seq(Entries), NEW r, Grown(q, r), Matches(cl, q)
  PROVE  Matches(cl, r)
<1>1. /\ AcceptError(FALSE) \in Entries /\ AcceptError(FALSE).kind \notin {"accept", "last"}
      /\ CancelDone \in Entries /\ CancelDone.kind \notin {"accept", "last"}
  BY KernelEntries, Zenon
<1>2. Append(q, AcceptError(FALSE)) \in Seq(Entries)
  BY <1>1, SeqAppend, Zenon
<1>3. CASE r = q
  BY <1>3
<1>4. CASE r = Append(q, CancelDone)
  BY <1>1, <1>4, MatchesAppend, Zenon
<1>5. CASE r = Append(Append(q, AcceptError(FALSE)), CancelDone)
  <2>1. Matches(cl, Append(q, AcceptError(FALSE)))
    BY <1>1, MatchesAppend, Zenon
  <2> QED
    BY <1>1, <1>2, <1>5, <2>1, MatchesAppend, Zenon
<1> QED
  BY <1>3, <1>4, <1>5, Zenon DEF Grown

\* The kernel accepts a waiting client.
LEMMA MatchesAccepted ==
  ASSUME NEW q \in Seq(Entries), NEW c \in Clients, NEW more \in BOOLEAN, Matches(client, q),
         client \in [Clients -> ClientStates], client[c] = "waiting"
  PROVE  Matches([client EXCEPT ![c] = "accepted"], Append(q, Accepted(c, more)))
<1> DEFINE e == Accepted(c, more)
           r == Append(q, e)
           cl == [client EXCEPT ![c] = "accepted"]
<1>0. e \in Entries /\ e.kind = "accept" /\ e.who = c
  BY DEF Accepted, Entries
<1>1. /\ Len(q) \in Nat /\ Len(r) = Len(q) + 1
      /\ \A i \in 1..Len(q) : r[i] = q[i]
      /\ r[Len(q) + 1] = e
  BY <1>0, SeqIndexed, SeqAppend
<1>2. cl[c] = "accepted" /\ \A d \in Clients : d # c => cl[d] = client[d]
  OBVIOUS
<1>3. \A i \in 1..Len(q) : q[i].kind \in {"accept", "last"} => q[i].who \in Clients
  <2>1. \A i \in 1..Len(q) : q[i] \in Entries
    BY SeqElement
  <2> QED
    BY <2>1 DEF Entries
<1>4. \A i \in 1..Len(q) : q[i].kind \in {"accept", "last"} => q[i].who # c
  BY <1>3 DEF Matches
<1> HIDE DEF r, cl, e
<1>5. /\ \A i \in 1..Len(r) : i \in 1..Len(q) \/ (i = Len(q) + 1 /\ r[i] = e)
      /\ \A i \in 1..Len(q) : i \in 1..Len(r)
      /\ Len(q) + 1 \in 1..Len(r)
  BY <1>1
<1>6. \A d \in Clients : cl[d] = "accepted" => \E i \in 1..Len(r) : r[i].kind = "accept" /\ r[i].who = d
  <2> TAKE d \in Clients
  <2>1. CASE d = c
    BY <1>0, <1>1, <1>5, <2>1
  <2>2. CASE d # c
    BY <1>1, <1>2, <1>5, <2>2 DEF Matches
  <2> QED
    BY <2>1, <2>2
<1>7. \A i \in 1..Len(r) : r[i].kind = "accept" => cl[r[i].who] = "accepted"
  <2> TAKE i \in 1..Len(r)
  <2>1. CASE i \in 1..Len(q)
    BY <1>1, <1>2, <1>3, <1>4, <2>1 DEF Matches
  <2>2. CASE r[i] = e
    BY <1>0, <1>2, <2>2
  <2> QED
    BY <1>5, <2>1, <2>2
<1>8. \A i, j \in 1..Len(r) :
        r[i].kind = "accept" /\ r[j].kind = "accept" /\ r[i].who = r[j].who => i = j
  <2> TAKE i, j \in 1..Len(r)
  <2>1. CASE i \in 1..Len(q) /\ j \in 1..Len(q)
    BY <1>1, <2>1 DEF Matches
  <2>2. CASE i \in 1..Len(q) /\ r[j] = e
    BY <1>0, <1>1, <1>4, <2>2
  <2>3. CASE r[i] = e /\ j \in 1..Len(q)
    BY <1>0, <1>1, <1>4, <2>3
  <2> QED
    BY <1>5, <2>1, <2>2, <2>3
<1>9. \A i \in 1..Len(r) : r[i].kind = "last" => cl[r[i].who] \notin {"away", "waiting", "accepted"}
  <2> TAKE i \in 1..Len(r)
  <2>1. CASE i \in 1..Len(q)
    BY <1>1, <1>2, <1>3, <1>4, <2>1 DEF Matches
  <2>2. CASE r[i] = e
    BY <1>0, <2>2
  <2> QED
    BY <1>5, <2>1, <2>2
<1>10. Matches(cl, r)
  BY <1>6, <1>7, <1>8, <1>9, Zenon DEF Matches
<1> QED
  BY <1>10 DEF cl, r, e

\* Clients that connect, close or are released, and are not accepted meanwhile.
Early == {"away", "waiting", "accepted"}
Onward(cl, new) ==
  \A c \in Clients : /\ new[c] = "accepted" <=> cl[c] = "accepted"
                     /\ cl[c] \notin Early => new[c] \notin Early

\* The completions still match them.
LEMMA MatchesOnward ==
  ASSUME NEW cl, NEW new, NEW q \in Seq(Entries), Matches(cl, q), Onward(cl, new)
  PROVE  Matches(new, q)
<1>1. \A i \in 1..Len(q) : q[i].kind \in {"accept", "last"} => q[i].who \in Clients
  <2>1. \A i \in 1..Len(q) : q[i] \in Entries
    BY SeqElement
  <2> QED
    BY <2>1 DEF Entries
<1> QED
  BY <1>1 DEF Matches, Onward, Early

\* A completion that is no accept is taken.
LEMMA MatchesTail ==
  ASSUME NEW cl, NEW q \in Seq(Entries), q # <<>>, Head(q).kind # "accept", Matches(cl, q)
  PROVE  Matches(cl, Tail(q))
<1> DEFINE r == Tail(q)
<1>1. /\ Len(q) \in Nat \ {0} /\ Len(r) = Len(q) - 1
      /\ \A i \in 1..Len(r) : r[i] = q[i + 1]
      /\ Head(q) = q[1]
  BY SeqIndexed, SeqHeadTail, SeqEmpty
<1> HIDE DEF r
<1>2. /\ \A i \in 1..Len(r) : i + 1 \in 1..Len(q)
      /\ \A i \in 1..Len(q) : i = 1 \/ (i - 1 \in 1..Len(r) /\ r[i - 1] = q[i])
      /\ \A i, j \in 1..Len(r) : i + 1 = j + 1 => i = j
  BY <1>1
<1>3. \A c \in Clients : cl[c] = "accepted" => \E i \in 1..Len(r) : r[i].kind = "accept" /\ r[i].who = c
  BY <1>1, <1>2 DEF Matches
<1>4. /\ \A i \in 1..Len(r) : r[i].kind = "accept" => cl[r[i].who] = "accepted"
      /\ \A i \in 1..Len(r) : r[i].kind = "last" => cl[r[i].who] \notin {"away", "waiting", "accepted"}
  BY <1>1, <1>2 DEF Matches
<1>5. \A i, j \in 1..Len(r) :
        r[i].kind = "accept" /\ r[j].kind = "accept" /\ r[i].who = r[j].who => i = j
  BY <1>1, <1>2 DEF Matches
<1>6. Matches(cl, r)
  BY <1>3, <1>4, <1>5 DEF Matches
<1> QED
  BY <1>6 DEF r

\* The completion of an accept is taken, and its client refused or opened.
LEMMA MatchesTaken ==
  ASSUME NEW q \in Seq(Entries), q # <<>>, Head(q).kind = "accept", Matches(client, q),
         client \in [Clients -> ClientStates], NEW s \in {"refused", "open"}
  PROVE  Matches([client EXCEPT ![Head(q).who] = s], Tail(q))
<1> DEFINE r == Tail(q)
           c == Head(q).who
           cl == [client EXCEPT ![c] = s]
<1>1. /\ Len(q) \in Nat \ {0} /\ Len(r) = Len(q) - 1
      /\ \A i \in 1..Len(r) : r[i] = q[i + 1]
      /\ Head(q) = q[1]
  BY SeqIndexed, SeqHeadTail, SeqEmpty
<1>2. \A i \in 1..Len(q) : q[i].kind \in {"accept", "last"} => q[i].who \in Clients
  <2>1. \A i \in 1..Len(q) : q[i] \in Entries
    BY SeqElement
  <2> QED
    BY <2>1 DEF Entries
<1>3. c \in Clients /\ client[c] = "accepted" /\ q[1].kind = "accept" /\ q[1].who = c
  BY <1>1, <1>2 DEF Matches
<1>4. cl[c] = s /\ \A d \in Clients : d # c => cl[d] = client[d]
  BY <1>3
<1> HIDE DEF r, c, cl
<1>5. /\ \A i \in 1..Len(r) : i + 1 \in 1..Len(q) /\ i + 1 # 1
      /\ \A i \in 1..Len(q) : i = 1 \/ (i - 1 \in 1..Len(r) /\ r[i - 1] = q[i])
      /\ \A i, j \in 1..Len(r) : i + 1 = j + 1 => i = j
      /\ 1 \in 1..Len(q)
  BY <1>1
<1>6. \A i \in 1..Len(r) : r[i].kind \in {"accept", "last"} => r[i].who \in Clients \ {c}
  <2> TAKE i \in 1..Len(r)
  <2>1. i + 1 \in 1..Len(q) /\ i + 1 # 1 /\ r[i] = q[i + 1]
    BY <1>1, <1>5
  <2> QED
    BY <1>2, <1>3, <1>5, <2>1 DEF Matches
<1>7. \A d \in Clients : cl[d] = "accepted" => \E i \in 1..Len(r) : r[i].kind = "accept" /\ r[i].who = d
  <2> SUFFICES ASSUME NEW d \in Clients, cl[d] = "accepted"
               PROVE  \E i \in 1..Len(r) : r[i].kind = "accept" /\ r[i].who = d
    OBVIOUS
  <2>1. d # c /\ client[d] = "accepted"
    BY <1>4
  <2>2. PICK i \in 1..Len(q) : q[i].kind = "accept" /\ q[i].who = d
    BY <2>1 DEF Matches
  <2>3. i # 1
    BY <1>3, <2>1, <2>2, Zenon
  <2>4. i - 1 \in 1..Len(r) /\ r[i - 1] = q[i]
    BY <1>5, <2>3
  <2> QED
    BY <2>2, <2>4, Zenon
<1>8. \A i \in 1..Len(r) : r[i].kind = "accept" => cl[r[i].who] = "accepted"
  BY <1>1, <1>4, <1>5, <1>6 DEF Matches
<1>9. \A i, j \in 1..Len(r) :
        r[i].kind = "accept" /\ r[j].kind = "accept" /\ r[i].who = r[j].who => i = j
  BY <1>1, <1>5 DEF Matches
<1>10. \A i \in 1..Len(r) : r[i].kind = "last" => cl[r[i].who] \notin {"away", "waiting", "accepted"}
  BY <1>1, <1>4, <1>5, <1>6 DEF Matches
<1>11. Matches(cl, r)
  BY <1>7, <1>8, <1>9, <1>10 DEF Matches
<1> QED
  BY <1>11 DEF cl, r, c

-----------------------------------------------------------------------------
(* The sessions. *)

\* The steps of one client: it stays, is accepted, closes or is released.
Moved(c) ==
  \/ client'[c] = client[c]
  \/ client[c] \in Early /\ client'[c] # "dropped"
  \/ client[c] \in Live /\ client'[c] \in Live
  \/ client'[c] = "released"

\* No step of the worker's thread or the kernel takes back what Stop saw.
LEMMA AtStopKept ==
  ASSUME TypeOK, AtStop, UNCHANGED ctlVars, \A c \in Clients : Moved(c)
  PROVE  AtStop'
<1>1. ctl' = ctl /\ timed_out' = timed_out /\ at_stop' = at_stop /\ at_stop \subseteq Clients
  BY DEF ctlVars, TypeOK
<1>2. \A c \in at_stop : client'[c] \in Live \cup {"released", "dropped"}
  BY <1>1 DEF AtStop, Moved, Live, Early
<1>3. \A c \in Clients : client'[c] = "dropped" => client[c] = "dropped"
  BY DEF Moved, Live
<1>4. \A c \in at_stop : client[c] = "released" => client'[c] = "released"
  BY <1>1 DEF Moved, Live, Early
<1>5. SessionsAtStopReleased'
  BY <1>1, <1>4 DEF AtStop, SessionsAtStopReleased
<1> QED
  BY <1>1, <1>2, <1>3, <1>5, Zenon DEF AtStop

\* The limit holds as long as no session is added.
LEMMA LimitKept ==
  ASSUME TypeOK, SessionLimit, \A c \in Clients : client'[c] \in Live => client[c] \in Live
  PROVE  SessionLimit'
<1>1. Sessions' \subseteq Sessions /\ Sessions \subseteq Clients
  BY DEF Sessions
<1>2. IsFiniteSet(Sessions)
  BY <1>1, WorkerSizes, FS_Subset
<1>3. Cardinality(Sessions') <= Cardinality(Sessions) /\ IsFiniteSet(Sessions')
  BY <1>1, <1>2, FS_Subset
<1>4. Cardinality(Sessions') \in Nat /\ Cardinality(Sessions) \in Nat
  BY <1>2, <1>3, FS_CardinalityType
<1> QED
  BY <1>3, <1>4, WorkerSizes DEF SessionLimit

\* Listener::OnAccept(fd) opens a session only below the limit.
LEMMA LimitOpened ==
  ASSUME TypeOK, SessionLimit, NEW c \in Clients, OnAcceptFd(c)
  PROVE  SessionLimit'
<1>1. client \in [Clients -> ClientStates]
  BY DEF TypeOK
<1>2. CASE client' = [client EXCEPT ![c] = "refused"]
  <2>1. \A d \in Clients : client'[d] \in Live => client[d] \in Live
    BY <1>1, <1>2 DEF Live
  <2> QED
    BY <2>1, LimitKept
<1>3. CASE ~AtCapacity /\ client' = [client EXCEPT ![c] = "open"]
  <2>1. Sessions' \subseteq Sessions \cup {c} /\ Sessions \subseteq Clients
    BY <1>1, <1>3 DEF Sessions, Live
  <2>2. IsFiniteSet(Sessions)
    BY <2>1, WorkerSizes, FS_Subset
  <2>3. /\ IsFiniteSet(Sessions \cup {c})
        /\ Cardinality(Sessions \cup {c}) <= Cardinality(Sessions) + 1
    <3>1. Cardinality(Sessions) \in Nat
      BY <2>2, FS_CardinalityType
    <3>2. /\ IsFiniteSet(Sessions \cup {c})
          /\ Cardinality(Sessions \cup {c}) = IF c \in Sessions THEN Cardinality(Sessions)
                                                              ELSE Cardinality(Sessions) + 1
      BY <2>2, FS_AddElement
    <3> QED
      BY <3>1, <3>2
  <2>4. IsFiniteSet(Sessions') /\ Cardinality(Sessions') <= Cardinality(Sessions \cup {c})
    BY <2>1, <2>3, FS_Subset
  <2>5. /\ Cardinality(Sessions) \in Nat /\ Cardinality(Sessions') \in Nat
        /\ Cardinality(Sessions \cup {c}) \in Nat
    BY <2>2, <2>3, <2>4, FS_CardinalityType
  <2>6. MaxSessions > 0 => Cardinality(Sessions) < MaxSessions
    BY <1>3, <2>5, WorkerSizes DEF AtCapacity
  <2> QED
    BY <2>3, <2>4, <2>5, <2>6, WorkerSizes DEF SessionLimit
<1> QED
  BY <1>2, <1>3 DEF OnAcceptFd

\* Session::Disconnect on some sessions.
LEMMA DisconnectedMoves ==
  ASSUME TypeOK, NEW S, client' = Disconnected(S)
  PROVE  /\ client' \in [Clients -> ClientStates]
         /\ Onward(client, client') /\ \A c \in Clients : Moved(c)
         /\ \A c \in Clients : client'[c] \in Live => client[c] \in Live
         /\ \A c \in Clients : client'[c] = "accepted" => client[c] = "accepted"
<1>1. \A c \in Clients : \/ client'[c] = client[c]
                         \/ client[c] = "open" /\ client'[c] = "closing"
  BY DEF Disconnected
<1>2. client' \in [Clients -> ClientStates]
  BY DEF Disconnected, TypeOK, Live, ClientStates
<1> QED
  BY <1>1, <1>2 DEF Onward, Moved, Live, Early

-----------------------------------------------------------------------------
(* The thread that owns the Worker. *)

\* Only a final round can have emptied the completion queue.
LEMMA NotDrained == LoopPlace /\ loop \notin Final => ~drained
  BY DEF LoopPlace

Tasks == {"stop", "drain", "noop"}

\* While Stop is in progress the worker's loop has not left.
LEMMA LoopRuns ==
  ASSUME LoopPlace, ctl \in {"started", "draining", "waiting", "forcing", "waiting_forced", "halting"}
  PROVE  running /\ loop \notin LoopLeft \cup Final
  BY DEF LoopPlace

\* Posting adds a task and loses none.
LEMMA Posting ==
  ASSUME TypeOK, NEW task \in Tasks, posted' = Append(posted, task)
  PROVE  /\ posted' \in Seq(Tasks)
         /\ Contains(posted, "stop") \/ task = "stop" => Contains(posted', "stop")
<1>1. posted \in Seq(Tasks) /\ Len(posted) \in Nat
  BY SeqIndexed DEF TypeOK, Tasks
<1>2. /\ posted' \in Seq(Tasks) /\ Len(posted') = Len(posted) + 1
      /\ \A i \in 1..Len(posted) : posted'[i] = posted[i]
      /\ posted'[Len(posted) + 1] = task
  BY <1>1, SeqAppend
<1>3. Len(posted) + 1 \in 1..Len(posted') /\ \A i \in 1..Len(posted) : i \in 1..Len(posted')
  BY <1>1, <1>2
<1> QED
  BY <1>2, <1>3 DEF Contains

\* What a step of the stopping thread that only posts, waits or clears running_
\* leaves alone.
LEMMA ControlFrame ==
  ASSUME IInv, UNCHANGED <<loopVars, listenVars, kernelVars, client>>
  PROVE  /\ EventPlace(accept_ev', cq', sq', armed') /\ ListenerFlags' /\ FinalDone'
         /\ Matches(client', cq') /\ SessionLimit'
         /\ StopRan /\ ctl' \notin {"created", "started"} /\ ctl \notin {"created", "started"}
            /\ (Contains(posted, "stop") => Contains(posted', "stop")) => StopRan'
<1>1. /\ UNCHANGED <<loop, round, batch, handled, drained>> /\ UNCHANGED <<listen_fd, accept_ev, cancel_requested>>
      /\ UNCHANGED <<sq, cq, armed, failures>> /\ UNCHANGED client
  BY DEF loopVars, countVars, listenVars, kernelVars
<1>2. EventPlace(accept_ev', cq', sq', armed') /\ Matches(client', cq')
  BY <1>1 DEF IInv
<1>3. ListenerFlags' /\ FinalDone'
  BY <1>1 DEF IInv, ListenerFlags, FinalDone
<1>4. SessionLimit'
  BY <1>1 DEF IInv, SessionLimit, Sessions
<1> QED
  BY <1>1, <1>2, <1>3, <1>4 DEF StopRan

\* Worker::Start fails.
LEMMA StartFailsStep == ASSUME IInv, StartFails PROVE IInv'
<1>1. /\ ctl = "created" /\ ctl' = "stopped" /\ UNCHANGED <<up, running, timed_out, at_stop, posted>>
      /\ UNCHANGED <<loop, round, batch, handled, drained>> /\ UNCHANGED <<listen_fd, accept_ev, cancel_requested>>
      /\ UNCHANGED <<sq, cq, armed, failures>> /\ UNCHANGED client
  BY DEF StartFails, loopVars, countVars, listenVars, kernelVars
<1>2. TypeOK'
  BY <1>1 DEF IInv, TypeOK
<1>3. LoopPlace'
  BY <1>1 DEF IInv, LoopPlace, LoopLeft, Final
<1>4. AtStop'
  BY <1>1 DEF IInv, LoopPlace, AtStop, SessionsAtStopReleased
<1>5. StopRan'
  BY <1>1 DEF IInv, LoopPlace, StopRan
<1>6. UNCHANGED <<loopVars, listenVars, kernelVars, client>>
  BY DEF StartFails
<1> QED
  BY <1>2, <1>3, <1>4, <1>5, <1>6, ControlFrame, Zenon DEF IInv

\* Worker::StopAccepting: Stop begins, and its task goes first.
LEMMA StopAcceptingStep == ASSUME IInv, StopAccepting PROVE IInv'
<1>1. /\ ctl = "started" /\ ctl' = "draining" /\ posted' = Append(posted, "stop")
      /\ at_stop' = Sessions /\ UNCHANGED <<up, running, timed_out>>
      /\ UNCHANGED <<loop, round, batch, handled, drained>> /\ UNCHANGED <<listen_fd, accept_ev, cancel_requested>>
      /\ UNCHANGED <<sq, cq, armed, failures>> /\ UNCHANGED client
  BY DEF StopAccepting, Posts, loopVars, countVars, listenVars, kernelVars
<1>2. posted' \in Seq(Tasks) /\ Contains(posted', "stop")
  BY <1>1, Posting DEF IInv, Tasks
<1>3. Sessions \subseteq Clients
  BY DEF Sessions
<1>4. TypeOK'
  BY <1>1, <1>2, <1>3 DEF IInv, TypeOK, Tasks
<1>5. running /\ loop \notin LoopLeft \cup Final
  BY <1>1, LoopRuns, Zenon DEF IInv
<1>6. LoopPlace'
  BY <1>1, <1>5, Zenon DEF IInv, LoopPlace, LoopLeft
<1>7. AtStop'
  BY <1>1 DEF IInv, AtStop, SessionsAtStopReleased, Sessions
<1>8. StopRan'
  BY <1>2 DEF StopRan
<1>9. UNCHANGED <<loopVars, listenVars, kernelVars, client>>
  BY DEF StopAccepting
<1> QED
  BY <1>4, <1>6, <1>7, <1>8, <1>9, ControlFrame, Zenon DEF IInv

\* Worker::DrainSessions, once or, after the wait timed out, twice.
LEMMA DrainSessionsStep == ASSUME IInv, DrainSessions PROVE IInv'
<1>1. /\ \/ ctl = "draining" /\ ctl' = "waiting"
         \/ ctl = "forcing" /\ ctl' = "waiting_forced"
      /\ posted' = Append(posted, "drain") /\ UNCHANGED <<up, running, timed_out, at_stop>>
      /\ UNCHANGED <<loop, round, batch, handled, drained>> /\ UNCHANGED <<listen_fd, accept_ev, cancel_requested>>
      /\ UNCHANGED <<sq, cq, armed, failures>> /\ UNCHANGED client
  BY DEF DrainSessions, Posts, loopVars, countVars, listenVars, kernelVars
<1>2. posted' \in Seq(Tasks) /\ (Contains(posted, "stop") => Contains(posted', "stop"))
  BY <1>1, Posting, Zenon DEF IInv, Tasks
<1>3. TypeOK'
  BY <1>1, <1>2 DEF IInv, TypeOK, Tasks
<1>4. running /\ loop \notin LoopLeft \cup Final
  BY <1>1, LoopRuns DEF IInv
<1>5. LoopPlace'
  BY <1>1, <1>4, Zenon DEF IInv, LoopPlace, LoopLeft
<1>6. AtStop'
  BY <1>1 DEF IInv, AtStop, SessionsAtStopReleased
<1>7. UNCHANGED <<loopVars, listenVars, kernelVars, client>>
  BY DEF DrainSessions
<1>8. ctl \notin {"created", "started"} /\ ctl' \notin {"created", "started"}
  BY <1>1, Zenon
<1> QED
  BY <1>2, <1>3, <1>5, <1>6, <1>7, <1>8, ControlFrame, Zenon DEF IInv

\* Worker::WaitForZeroSessions: when it sees no session, those alive at Stop have
\* been released.
LEMMA WaitStep == ASSUME IInv, WaitForZeroSessions PROVE IInv'
<1>1. /\ ctl \in {"waiting", "waiting_forced"} /\ ctl' \in {"forcing", "halting"}
      /\ \/ NoSessions /\ UNCHANGED timed_out
         \/ timed_out' = TRUE
      /\ UNCHANGED <<up, running, at_stop, posted>>
      /\ UNCHANGED <<loop, round, batch, handled, drained>> /\ UNCHANGED <<listen_fd, accept_ev, cancel_requested>>
      /\ UNCHANGED <<sq, cq, armed, failures>> /\ UNCHANGED client
  BY DEF WaitForZeroSessions, loopVars, countVars, listenVars, kernelVars
<1>2. TypeOK'
  <2>1. timed_out' \in BOOLEAN
    BY <1>1, Zenon DEF IInv, TypeOK
  <2> QED
    BY <1>1, <2>1, ZenonT(40) DEF IInv, TypeOK
<1>3. running /\ loop \notin LoopLeft \cup Final
  BY <1>1, LoopRuns DEF IInv
<1>4. LoopPlace'
  BY <1>1, <1>3, Zenon DEF IInv, LoopPlace, LoopLeft
<1>5. at_stop \subseteq Clients
  BY DEF IInv, TypeOK
<1>6. NoSessions => \A c \in at_stop : client[c] = "released"
  BY <1>1, <1>5 DEF IInv, AtStop, NoSessions, Sessions, Live
<1>7. AtStop'
  BY <1>1, <1>6 DEF IInv, AtStop, SessionsAtStopReleased
<1>8. UNCHANGED <<loopVars, listenVars, kernelVars, client>>
  BY DEF WaitForZeroSessions
<1>9. ctl \notin {"created", "started"} /\ ctl' \notin {"created", "started"}
  BY <1>1
<1> QED
  BY <1>1, <1>2, <1>4, <1>7, <1>8, <1>9, ControlFrame, Zenon DEF IInv

\* Worker::Stop clears running_ and wakes the loop.
LEMMA HaltStep == ASSUME IInv, Halt PROVE IInv'
<1>1. /\ ctl = "halting" /\ ctl' = "joining" /\ running' = FALSE
      /\ posted' = Append(posted, "noop") /\ UNCHANGED <<up, timed_out, at_stop>>
      /\ UNCHANGED <<loop, round, batch, handled, drained>> /\ UNCHANGED <<listen_fd, accept_ev, cancel_requested>>
      /\ UNCHANGED <<sq, cq, armed, failures>> /\ UNCHANGED client
  BY DEF Halt, Posts, loopVars, countVars, listenVars, kernelVars
<1>2. posted' \in Seq(Tasks) /\ (Contains(posted, "stop") => Contains(posted', "stop"))
  BY <1>1, Posting, Zenon DEF IInv, Tasks
<1>3. TypeOK'
  <2>1. UNCHANGED <<up, timed_out, at_stop, loop, round, batch, handled, drained, listen_fd, accept_ev, cancel_requested,
                    sq, cq, armed, failures, client>>
    BY <1>1
  <2>2. running' \in BOOLEAN /\ ctl' = "joining"
    BY <1>1, Zenon
  <2> QED
    BY <1>2, <2>1, <2>2 DEF IInv, TypeOK, Tasks
<1>4. running /\ loop \notin LoopLeft \cup Final
  BY <1>1, LoopRuns DEF IInv
<1>5. LoopPlace'
  BY <1>1, <1>4 DEF IInv, LoopPlace, LoopLeft
<1>6. AtStop'
  BY <1>1 DEF IInv, AtStop, SessionsAtStopReleased
<1>7. UNCHANGED <<loopVars, listenVars, kernelVars, client>>
  BY DEF Halt
<1>8. ctl \notin {"created", "started"} /\ ctl' \notin {"created", "started"}
  BY <1>1
<1> QED
  BY <1>2, <1>3, <1>5, <1>6, <1>7, <1>8, ControlFrame, Zenon DEF IInv

\* Worker::Stop joins the thread and drops what sessions are left.
LEMMA JoinStep == ASSUME IInv, Join PROVE IInv'
<1>1. /\ ctl = "joining" /\ ctl' = "stopped" /\ up' = FALSE /\ loop = "done"
      /\ client' = [c \in Clients |-> IF c \in Sessions THEN "dropped" ELSE client[c]]
      /\ UNCHANGED <<running, timed_out, at_stop, posted>>
      /\ UNCHANGED <<loop, round, batch, handled, drained>> /\ UNCHANGED <<listen_fd, accept_ev, cancel_requested>>
      /\ UNCHANGED <<sq, cq, armed, failures>>
  BY DEF Join, loopVars, countVars, listenVars, kernelVars
<1>2. /\ client' \in [Clients -> ClientStates]
      /\ \A c \in Clients : \/ client'[c] = client[c] /\ client[c] \notin Live
                            \/ client[c] \in Live /\ client'[c] = "dropped"
  BY <1>1, Zenon DEF IInv, TypeOK, ClientStates, Sessions
<1>3. TypeOK'
  BY <1>1, <1>2, Zenon DEF IInv, TypeOK
<1>4. LoopPlace'
  BY <1>1 DEF IInv, LoopPlace, Final, LoopLeft
<1>5. EventPlace(accept_ev', cq', sq', armed')
  BY <1>1 DEF IInv
<1>6. ListenerFlags'
  BY <1>1 DEF IInv, ListenerFlags
<1>7. StopRan'
  BY <1>1 DEF IInv, StopRan
<1>8. FinalDone'
  BY <1>1, <1>2 DEF IInv, FinalDone, Live
<1>9. Matches(client', cq')
  <2>1. Onward(client, client')
    BY <1>2 DEF Onward, Early, Live
  <2>2. cq' = cq /\ cq \in Seq(Entries)
    BY <1>1 DEF IInv, TypeOK
  <2> QED
    BY <2>1, <2>2, MatchesOnward DEF IInv
<1>10. AtStop'
  <2>1. at_stop \subseteq Clients
    BY DEF IInv, TypeOK
  <2>2. \A c \in at_stop : client'[c] \in Live \cup {"released", "dropped"}
    BY <1>2, <2>1, Zenon DEF IInv, AtStop
  <2>3. SessionsAtStopReleased'
    BY <1>1, <1>2, <2>1, Zenon DEF IInv, AtStop, SessionsAtStopReleased, Live
  <2> QED
    BY <1>1, <2>2, <2>3 DEF AtStop
<1>11. SessionLimit'
  <2>1. \A c \in Clients : client'[c] \in Live => client[c] \in Live
    BY <1>2 DEF Live
  <2> QED
    BY <2>1, LimitKept DEF IInv
<1> QED
  BY <1>3, <1>4, <1>5, <1>6, <1>7, <1>8, <1>9, <1>10, <1>11, ZenonT(40) DEF IInv

\* Worker::Start: the listener registers its accept, and the loop begins.
LEMMA StartStep == ASSUME IInv, Start PROVE IInv'
<1>1. /\ ctl = "created" /\ ctl' = "started" /\ up' = TRUE /\ running' = TRUE
      /\ listen_fd' = TRUE /\ accept_ev' = TRUE /\ SubmitEntry(cq, "accept") /\ loop' = "test"
      /\ UNCHANGED <<timed_out, at_stop, round, batch, handled, drained, posted, cancel_requested, failures, client>>
  BY DEF Start, countVars
<1>2. /\ loop = "none" /\ posted = <<>> /\ ~accept_ev /\ ~cancel_requested /\ at_stop = {}
      /\ batch = <<>> /\ round = 0
  BY <1>1 DEF IInv, LoopPlace, RunsTasks, Final
<1>3. /\ cq \in Seq(Entries) /\ sq \in Seq(Ops) /\ armed \in BOOLEAN /\ accept_ev \in BOOLEAN
      /\ "accept" \in Ops
  BY DEF IInv, TypeOK, Ops
<1>4. /\ EventPlace(accept_ev \/ "accept" = "accept", cq', sq', armed')
      /\ cq' \in Seq(Entries) /\ sq' \in Seq(Ops) /\ armed' \in BOOLEAN
  BY <1>1, <1>2, <1>3, EventSubmitted, Zenon DEF IInv
<1>5. EventPlace(accept_ev', cq', sq', armed')
  BY <1>1, <1>4 DEF EventPlace
<1>6. Grown(cq, cq')
  BY <1>1, <1>3, SubmitEffect, Zenon
<1>7. TypeOK'
  BY <1>1, <1>4, Zenon DEF IInv, TypeOK, Ops
<1>8. LoopPlace'
  <2>1. ~drained /\ loop' \notin Final /\ loop' \notin LoopLeft /\ 0 <= FinalRounds
    BY <1>1, <1>2, WorkerSizes, NotDrained DEF IInv, LoopLeft, Final
  <2> QED
    BY <1>1, <1>2, <2>1 DEF LoopPlace, RunsTasks
<1>9. ListenerFlags' /\ StopRan' /\ FinalDone'
  BY <1>1, <1>2, NotDrained DEF IInv, ListenerFlags, StopRan, FinalDone, Final
<1>10. Matches(client', cq')
  BY <1>1, <1>3, <1>6, MatchesGrown, Zenon DEF IInv
<1>11. AtStop'
  BY <1>1, <1>2 DEF IInv, AtStop, SessionsAtStopReleased
<1>12. SessionLimit'
  BY <1>1 DEF IInv, SessionLimit, Sessions
<1> QED
  BY <1>5, <1>7, <1>8, <1>9, <1>10, <1>11, <1>12, Zenon DEF IInv

-----------------------------------------------------------------------------
(* The worker's thread. *)

\* In the final rounds the listener has been stopped, and nothing is posted.
LEMMA FinalStopped ==
  ASSUME IInv, loop \in Final
  PROVE  /\ ctl \in {"joining", "stopped"} /\ ~listen_fd
         /\ failures = 0 /\ accept_ev => cancel_requested
         /\ failures = 0 /\ NoneQueued(sq) /\ ~Contains(sq, "cancel") => ~armed
<1>1. ctl \in {"joining", "stopped"} /\ posted = <<>> /\ batch = <<>>
  BY DEF IInv, LoopPlace
<1>2. ~Contains(posted, "stop") /\ ~Contains(batch, "stop")
  BY <1>1 DEF Contains
<1>3. ~listen_fd /\ (failures = 0 /\ accept_ev => cancel_requested)
  BY <1>1, <1>2 DEF IInv, StopRan
<1>4. failures = 0 /\ NoneQueued(sq) /\ ~Contains(sq, "cancel") => ~armed
  BY <1>3 DEF IInv, ListenerFlags, EventPlace
<1> QED
  BY <1>1, <1>3, <1>4

\* What a step of the loop that only moves on, or takes tasks, leaves alone.
LEMMA LoopFrame ==
  ASSUME IInv, UNCHANGED <<ctlVars, listenVars, kernelVars, client>>
  PROVE  /\ EventPlace(accept_ev', cq', sq', armed') /\ ListenerFlags'
         /\ Matches(client', cq') /\ SessionLimit' /\ AtStop'
<1>1. /\ UNCHANGED <<listen_fd, accept_ev, cancel_requested>>
      /\ UNCHANGED <<sq, cq, armed, failures>> /\ UNCHANGED client
      /\ UNCHANGED <<ctl, timed_out, at_stop>>
  BY DEF ctlVars, listenVars, kernelVars
<1>2. EventPlace(accept_ev', cq', sq', armed') /\ Matches(client', cq')
  BY <1>1, Zenon DEF IInv
<1>3. ListenerFlags' /\ SessionLimit'
  BY <1>1, Zenon DEF IInv, ListenerFlags, SessionLimit, Sessions
<1>4. AtStop'
  BY <1>1 DEF IInv, AtStop, SessionsAtStopReleased
<1> QED
  BY <1>2, <1>3, <1>4, Zenon

Loops == {"none", "test", "flush", "cqes", "tick", "final_flush", "final_cqes", "done"}
           \cup TakesPosted \cup RunsTasks

\* The loop looks at running_.
LEMMA LoopTestStep == ASSUME IInv, LoopTest PROVE IInv'
<1>1. /\ loop = "test" /\ loop' = (IF running THEN "post1" ELSE "last_post")
      /\ UNCHANGED <<up, running, ctl, timed_out, at_stop>> /\ UNCHANGED <<round, batch, handled, drained, posted>>
      /\ UNCHANGED <<listen_fd, accept_ev, cancel_requested>>
      /\ UNCHANGED <<sq, cq, armed, failures>> /\ UNCHANGED client
  BY Zenon DEF LoopTest, Goto, countVars, ctlVars, listenVars, kernelVars
<1>2. TypeOK'
  <2>1. loop' \in Loops
    BY <1>1, Zenon DEF Loops, TakesPosted
  <2> QED
    BY <1>1, <2>1 DEF IInv, TypeOK, Loops
<1>3. LoopPlace'
  BY <1>1 DEF IInv, LoopPlace, LoopLeft, Final, RunsTasks
<1>4. StopRan'
  BY <1>1 DEF IInv, StopRan
<1>5. FinalDone'
  BY <1>1, NotDrained DEF IInv, FinalDone, Final
<1>6. UNCHANGED <<ctlVars, listenVars, kernelVars, client>>
  BY DEF LoopTest
<1> QED
  BY <1>2, <1>3, <1>4, <1>5, <1>6, LoopFrame, Zenon DEF IInv

\* IoRing::ProcessPostedTasks takes the posted tasks, losing none.
LEMMA TakePostedStep == ASSUME IInv, TakePosted PROVE IInv'
<1>1. /\ loop \in TakesPosted /\ batch' = posted /\ posted' = <<>> /\ loop' = TasksOf[loop]
      /\ UNCHANGED <<up, running, ctl, timed_out, at_stop>> /\ UNCHANGED <<round, handled, drained>>
      /\ UNCHANGED <<listen_fd, accept_ev, cancel_requested>>
      /\ UNCHANGED <<sq, cq, armed, failures>> /\ UNCHANGED client
  BY Zenon DEF TakePosted, Goto, countVars, ctlVars, listenVars, kernelVars
<1>2. \/ loop = "post1" /\ loop' = "tasks1"
      \/ loop = "post2" /\ loop' = "tasks2"
      \/ loop = "last_post" /\ loop' = "last_tasks"
      \/ loop = "final_post" /\ loop' = "final_tasks"
  BY <1>1 DEF TakesPosted, TasksOf
<1>3. batch = <<>>
  BY <1>2, Zenon DEF IInv, LoopPlace, RunsTasks
<1>4. TypeOK'
  <2>1. loop' \in Loops /\ posted \in Seq({"stop", "drain", "noop"}) /\ <<>> \in Seq({"stop", "drain", "noop"})
    BY <1>2, SeqEmpty, Zenon DEF Loops, RunsTasks, IInv, TypeOK
  <2> QED
    BY <1>1, <2>1, ZenonT(40) DEF IInv, TypeOK, Loops
<1>5. LoopPlace'
  BY <1>1, <1>2, <1>3, Zenon DEF IInv, LoopPlace, LoopLeft, Final, RunsTasks
<1>6. StopRan'
  <2>1. ~Contains(batch, "stop")
    BY <1>3 DEF Contains
  <2> QED
    BY <1>1, <2>1 DEF IInv, StopRan
<1>7. FinalDone'
  BY <1>1, <1>2 DEF IInv, FinalDone, Final
<1>8. UNCHANGED <<ctlVars, listenVars, kernelVars, client>>
  BY DEF TakePosted
<1> QED
  BY <1>4, <1>5, <1>6, <1>7, <1>8, LoopFrame, Zenon DEF IInv

\* All tasks taken have been run; after the loop, another final round or the end.
LEMMA TasksDoneStep == ASSUME IInv, TasksDone PROVE IInv'
<1>1. /\ loop \in RunsTasks /\ batch = <<>> /\ UNCHANGED <<batch, handled, drained, posted>>
      /\ UNCHANGED <<up, running, ctl, timed_out, at_stop>>
      /\ UNCHANGED <<listen_fd, accept_ev, cancel_requested>>
      /\ UNCHANGED <<sq, cq, armed, failures>> /\ UNCHANGED client
  BY DEF TasksDone, countVars, ctlVars, listenVars, kernelVars
<1>2. \/ loop = "tasks1" /\ loop' = "flush" /\ round' = round
      \/ loop = "tasks2" /\ loop' = "tick" /\ round' = round
      \/ /\ loop \in {"last_tasks", "final_tasks"} /\ round' = round + 1
         /\ loop' = IF round >= FinalRounds THEN "done" ELSE "final_flush"
  BY <1>1, Zenon DEF TasksDone, Goto, RunsTasks, RoundsDone
<1>3. round \in Nat /\ round <= FinalRounds /\ (loop = "last_tasks" => round = 0)
  BY <1>2 DEF IInv, TypeOK, LoopPlace, Final
<1>4. loop = "last_tasks" => loop' = "final_flush"
  BY <1>2, <1>3, WorkerSizes
<1>5. TypeOK'
  <2>1. loop' \in Loops /\ round' \in 0..(FinalRounds + 1)
    BY <1>2, <1>3, WorkerSizes DEF Loops, IInv, TypeOK
  <2> QED
    BY <1>1, <2>1, ZenonT(40) DEF IInv, TypeOK, Loops
<1>6. LoopPlace'
  <2>1. loop' # "done" => round' <= FinalRounds
    BY <1>2, <1>3, WorkerSizes
  <2>2. loop' \notin Final => round' = 0
    BY <1>2 DEF IInv, LoopPlace, Final
  <2>3. /\ drained' => loop' \in Final
        /\ CqeBudget = 0 /\ loop' \in {"final_post", "final_tasks", "done"} => drained'
    BY <1>1, <1>2, <1>4 DEF IInv, LoopPlace, Final
  <2> QED
    BY <1>1, <1>2, <2>1, <2>2, <2>3, ZenonT(40) DEF IInv, LoopPlace, LoopLeft, Final, RunsTasks
<1>7. StopRan'
  BY <1>1, Zenon DEF IInv, StopRan
<1>8. FinalDone'
  BY <1>1, <1>2, <1>4 DEF IInv, FinalDone, Final
<1>9. UNCHANGED <<ctlVars, listenVars, kernelVars, client>>
  BY DEF TasksDone
<1> QED
  BY <1>5, <1>6, <1>7, <1>8, <1>9, LoopFrame DEF IInv

\* Dispatch has handled every completion; in a final round no accepted socket is
\* left.
LEMMA DispatchDoneStep == ASSUME IInv, DispatchDone PROVE IInv'
<1>1. /\ \/ loop = "cqes" /\ loop' = "post2"
         \/ loop = "final_cqes" /\ loop' = "final_post"
      /\ (cq = <<>> \/ CqeBudget # 0) /\ handled' = 0
      /\ drained' = (drained \/ (loop = "final_cqes" /\ cq = <<>>)) /\ UNCHANGED <<round, batch, posted>>
      /\ UNCHANGED <<up, running, ctl, timed_out, at_stop>>
      /\ UNCHANGED <<listen_fd, accept_ev, cancel_requested>>
      /\ UNCHANGED <<sq, cq, armed, failures>> /\ UNCHANGED client
  BY Zenon DEF DispatchDone, BudgetSpent, Dispatches, Goto, ctlVars, listenVars, kernelVars
<1>2. TypeOK'
  <2>1. loop' \in Loops
    BY <1>1, Zenon DEF Loops, TakesPosted
  <2>2. handled' \in 0..CqeBudget /\ drained' \in BOOLEAN
    <3>1. handled' = 0 /\ drained' \in BOOLEAN
      BY <1>1, Zenon DEF IInv, TypeOK
    <3> QED
      BY <3>1, WorkerSizes
  <2> QED
    BY <1>1, <2>1, <2>2 DEF IInv, TypeOK, Loops
<1>3. LoopPlace'
  BY <1>1 DEF IInv, LoopPlace, LoopLeft, Final, RunsTasks
<1>4. StopRan'
  BY <1>1 DEF IInv, StopRan
<1>5. FinalDone'
  <2>1. cq = <<>> => \A c \in Clients : client[c] # "accepted"
    BY <1>1 DEF IInv, Matches
  <2> QED
    BY <1>1, <2>1, ZenonT(40) DEF IInv, FinalDone, Final
<1>6. UNCHANGED <<ctlVars, listenVars, kernelVars, client>>
  BY DEF DispatchDone
<1> QED
  BY <1>2, <1>3, <1>4, <1>5, <1>6, LoopFrame, Zenon DEF IInv

\* Dispatch submits what is prepared; in a final round the cancel is among it, or
\* was before.
LEMMA DispatchFlushStep == ASSUME IInv, DispatchFlush PROVE IInv'
<1>1. /\ \/ loop = "flush" /\ loop' = "cqes"
         \/ loop = "final_flush" /\ loop' = "final_cqes"
      /\ Entered(cq, sq) /\ handled' \in 0..CqeBudget /\ UNCHANGED <<round, batch, drained, posted>>
      /\ UNCHANGED <<up, running, ctl, timed_out, at_stop>>
      /\ UNCHANGED <<listen_fd, accept_ev, cancel_requested>>
      /\ UNCHANGED failures /\ UNCHANGED client
  BY DEF DispatchFlush, Goto, ctlVars, listenVars
<1>2. /\ cq \in Seq(Entries) /\ sq \in Seq(Ops) /\ armed \in BOOLEAN /\ accept_ev \in BOOLEAN
      /\ <<>> \in Seq(Ops)
  BY SeqEmpty DEF IInv, TypeOK, Ops
<1>3. EventPlace(accept_ev, cq', sq', armed') /\ cq' \in Seq(Entries)
  BY <1>1, <1>2, EventEntered DEF IInv
<1>4. /\ sq' = <<>> /\ armed' \in BOOLEAN /\ Grown(cq, cq')
      /\ Contains(sq, "cancel") => armed' = FALSE
      /\ ~armed /\ ~Contains(sq, "accept") => armed' = FALSE
  BY <1>1, <1>2, EnteredCases, Zenon DEF Grown
<1>5. TypeOK'
  <2>1. loop' \in Loops
    BY <1>1, Zenon DEF Loops
  <2> QED
    BY <1>1, <1>2, <1>3, <1>4, <2>1, ZenonT(40) DEF IInv, TypeOK, Loops, Ops
<1>6. LoopPlace'
  BY <1>1 DEF IInv, LoopPlace, LoopLeft, Final, RunsTasks
<1>7. NoneQueued(sq) => ~Contains(sq, "accept")
  BY DEF NoneQueued, Contains
<1>8. NoneQueued(<<>>)
  BY DEF NoneQueued
<1>9. ListenerFlags'
  <2>1. cancel_requested => ~listen_fd /\ armed' = FALSE
    BY <1>4, <1>7 DEF IInv, ListenerFlags
  <2> QED
    BY <1>1, <1>4, <1>8, <2>1, Zenon DEF IInv, ListenerFlags
<1>10. StopRan'
  BY <1>1 DEF IInv, StopRan
<1>11. FinalDone'
  <2>1. CASE loop' = "cqes"
    BY <1>1, <2>1, NotDrained DEF IInv, FinalDone, Final
  <2>2. CASE loop = "final_flush" /\ loop' = "final_cqes"
    <3>1. loop \in Final
      BY <2>2 DEF Final
    <3>2. failures = 0 => (accept_ev => cancel_requested)
      BY <3>1, FinalStopped
    <3>3. failures = 0 => armed' = FALSE
      BY <1>4, <1>7, <3>2, Zenon DEF IInv, ListenerFlags, EventPlace
    <3> QED
      BY <1>1, <1>4, <2>2, <3>3 DEF IInv, FinalDone
  <2> QED
    BY <1>1, <2>1, <2>2
<1>12. Matches(client', cq')
  BY <1>1, <1>2, <1>4, MatchesGrown, Zenon DEF IInv
<1>13. AtStop' /\ SessionLimit'
  BY <1>1 DEF IInv, AtStop, SessionsAtStopReleased, SessionLimit, Sessions
<1>14. EventPlace(accept_ev', cq', sq', armed')
  BY <1>1, <1>3
<1> QED
  BY <1>5, <1>6, <1>9, <1>10, <1>11, <1>12, <1>13, <1>14, ZenonT(40) DEF IInv

\* A task is run: the listener is stopped, the sessions are disconnected, or
\* nothing happens.
LEMMA RunTaskStep == ASSUME IInv, RunTask PROVE IInv'
<1>1. /\ loop \in RunsTasks /\ batch # <<>> /\ batch' = Tail(batch)
      /\ UNCHANGED <<up, running, ctl, timed_out, at_stop>> /\ UNCHANGED <<loop, round, handled, drained, posted>>
  BY Zenon DEF RunTask, countVars, ctlVars
<1>2. batch \in Seq(Tasks)
  BY DEF IInv, TypeOK, Tasks
<1>3. /\ Head(batch) \in Tasks /\ Tail(batch) \in Seq(Tasks)
      /\ Contains(batch, "stop") /\ Head(batch) # "stop" => Contains(Tail(batch), "stop")
  <2>1. /\ Len(batch) \in Nat \ {0} /\ Len(Tail(batch)) = Len(batch) - 1
        /\ \A i \in 1..Len(Tail(batch)) : Tail(batch)[i] = batch[i + 1]
        /\ Head(batch) = batch[1] /\ Head(batch) \in Tasks /\ Tail(batch) \in Seq(Tasks)
    BY <1>1, <1>2, SeqIndexed, SeqHeadTail, SeqEmpty
  <2>2. \A i \in 1..Len(batch) : i # 1 => i - 1 \in 1..Len(Tail(batch)) /\ Tail(batch)[i - 1] = batch[i]
    BY <2>1
  <2> QED
    BY <2>1, <2>2, Zenon DEF Contains
<1>4. loop \notin Final
  BY <1>1 DEF IInv, LoopPlace
<1>5. ctl # "created"
  BY <1>1, ZenonT(40) DEF IInv, LoopPlace, RunsTasks
<1>6. LoopPlace'
  BY <1>1, <1>4, <1>5 DEF IInv, LoopPlace
<1>7. FinalDone'
  <2>1. loop' \notin Final /\ loop' \notin {"final_post", "final_tasks", "done"}
    BY <1>1, <1>4, Zenon DEF Final
  <2> QED
    BY <1>1, <1>4, <2>1, NotDrained DEF IInv, FinalDone
<1>8. CASE Head(batch) = "stop"
  <2>1. ListenerStop /\ UNCHANGED client
    BY <1>8, Zenon DEF RunTask
  <2>2. /\ listen_fd' = FALSE /\ accept_ev' = accept_ev /\ cancel_requested' \in BOOLEAN
        /\ cq' \in Seq(Entries) /\ sq' \in Seq(Ops) /\ armed' \in BOOLEAN
        /\ failures' \in 0..MaxFailures /\ (failures' = 0 => failures = 0)
        /\ EventPlace(accept_ev, cq', sq', armed')
        /\ Grown(cq, cq')
        /\ cancel_requested' => Contains(sq', "cancel") \/ (~armed' /\ NoneQueued(sq'))
        /\ failures' = 0 /\ accept_ev' => cancel_requested'
    BY <2>1, StopEffect, Zenon DEF IInv
  <2>3. TypeOK'
    BY <1>1, <1>3, <2>1, <2>2, ZenonT(40) DEF IInv, TypeOK, Tasks, Ops
  <2>4. EventPlace(accept_ev', cq', sq', armed') /\ ListenerFlags' /\ StopRan'
    BY <2>2 DEF ListenerFlags, StopRan
  <2>5. Matches(client', cq')
    <3>1. cq \in Seq(Entries)
      BY Zenon DEF IInv, TypeOK
    <3> QED
      BY <2>1, <2>2, <3>1, MatchesGrown DEF IInv
  <2>6. AtStop' /\ SessionLimit'
    BY <1>1, <2>1, Zenon DEF IInv, AtStop, SessionsAtStopReleased, SessionLimit, Sessions
  <2> QED
    BY <1>6, <1>7, <2>3, <2>4, <2>5, <2>6, Zenon DEF IInv
<1>9. CASE Head(batch) # "stop"
  <2>1. /\ UNCHANGED <<listen_fd, accept_ev, cancel_requested>>
        /\ UNCHANGED <<sq, cq, armed, failures>>
        /\ client' = Disconnected(Clients) \/ client' = client
    BY <1>3, <1>9, Zenon DEF RunTask, Tasks, listenVars, kernelVars
  <2>2. /\ client' \in [Clients -> ClientStates]
        /\ Onward(client, client') /\ \A c \in Clients : Moved(c)
        /\ \A c \in Clients : client'[c] \in Live => client[c] \in Live
    <3>1. CASE client' = Disconnected(Clients)
      BY <3>1, DisconnectedMoves, Zenon DEF IInv
    <3>2. CASE client' = client
      BY <3>2, Zenon DEF IInv, TypeOK, Onward, Moved
    <3> QED
      BY <2>1, <3>1, <3>2, Zenon
  <2>3. TypeOK'
    BY <1>1, <1>3, <2>1, <2>2, ZenonT(40) DEF IInv, TypeOK, Tasks
  <2>4. EventPlace(accept_ev', cq', sq', armed') /\ ListenerFlags'
    BY <2>1, Zenon DEF IInv, ListenerFlags
  <2>5. StopRan'
    BY <1>1, <1>3, <1>9, <2>1, Zenon DEF IInv, StopRan
  <2>6. Matches(client', cq')
    <3>1. cq \in Seq(Entries) /\ cq' = cq
      BY <2>1, ZenonT(40) DEF IInv, TypeOK
    <3> QED
      BY <2>2, <3>1, MatchesOnward, Zenon DEF IInv
  <2>7. AtStop'
    <3>1. UNCHANGED ctlVars
      BY Zenon DEF RunTask
    <3> QED
      BY <2>2, <3>1, AtStopKept DEF IInv
  <2>8. SessionLimit'
    BY <2>2, LimitKept, Zenon DEF IInv
  <2> QED
    BY <1>6, <1>7, <2>3, <2>4, <2>5, <2>6, <2>7, <2>8, ZenonT(40) DEF IInv
<1> QED
  BY <1>8, <1>9

\* A completion of the accept is handled.
LEMMA HandleAcceptStep == ASSUME IInv, HandleAccept PROVE IInv'
<1> DEFINE e == Head(cq)
<1>1. /\ loop \in {"cqes", "final_cqes"} /\ cq # <<>> /\ e.kind \in {"accept", "error"} /\ OnAccept(e)
      /\ UNCHANGED <<up, running, ctl, timed_out, at_stop>> /\ UNCHANGED <<loop, round, batch, drained, posted>>
      /\ UNCHANGED listen_fd
  BY Zenon DEF HandleAccept, Dispatches, ctlVars
<1>0. handled' \in 0..CqeBudget
  <2>1. /\ handled' = IF CqeBudget = 0 THEN 0 ELSE handled + 1
        /\ CqeBudget = 0 \/ ~(handled >= CqeBudget)
        /\ handled \in 0..CqeBudget /\ CqeBudget \in Nat
    BY WorkerSizes, Zenon DEF HandleAccept, BudgetSpent, Count, IInv, TypeOK
  <2> QED
    BY <2>1
<1>2. /\ accept_ev' \in BOOLEAN /\ cancel_requested' \in BOOLEAN
      /\ cq' \in Seq(Entries) /\ sq' \in Seq(Ops) /\ armed' \in BOOLEAN
      /\ failures' \in 0..MaxFailures /\ (failures' = 0 => failures = 0)
      /\ EventPlace(accept_ev', cq', sq', armed')
      /\ Grown(Tail(cq), cq')
      /\ ~listen_fd => UNCHANGED <<sq, armed>>
      /\ listen_fd /\ failures' = 0 => accept_ev'
      /\ cancel_requested' => cancel_requested
      /\ ~listen_fd /\ accept_ev' /\ cancel_requested => cancel_requested'
      /\ ~listen_fd /\ accept_ev' => accept_ev
  BY <1>1, AcceptEffect, Zenon DEF IInv
<1>3. /\ cq \in Seq(Entries) /\ e \in Entries /\ Tail(cq) \in Seq(Entries)
      /\ client \in [Clients -> ClientStates]
  BY <1>1, SeqHeadTail, Zenon DEF IInv, TypeOK
<1>4. e.kind = "accept" => e.who \in Clients
  BY <1>3 DEF Entries
<1>5. 1 \in 1..Len(cq) /\ e = cq[1]
  BY <1>1, <1>3, SeqIndexed, SeqEmpty
<1>6. \/ e.kind = "accept" /\ OnAcceptFd(e.who)
      \/ e.kind # "accept" /\ client' = client
  BY <1>1, ZenonT(40) DEF OnAccept
<1> HIDE DEF e
<1>7. e.kind = "accept" => client[e.who] = "accepted"
  <2>1. \A i \in 1..Len(cq) : cq[i].kind = "accept" => client[cq[i].who] = "accepted"
    BY Zenon DEF IInv, Matches
  <2> QED
    BY <1>5, <2>1, Zenon
<1>8. e.kind = "accept" => \E s \in {"refused", "open"} : client' = [client EXCEPT ![e.who] = s]
  BY <1>6 DEF OnAcceptFd
<1>9. client' \in [Clients -> ClientStates] /\ \A c \in Clients : Moved(c)
  <2>1. CASE e.kind = "accept"
    BY <1>3, <1>4, <1>7, <1>8, <2>1, Zenon DEF ClientStates, Live, Moved, Early
  <2>2. CASE e.kind # "accept"
    BY <1>3, <1>6, <2>2, Zenon DEF Moved
  <2> QED
    BY <2>1, <2>2, Zenon
<1>10. TypeOK'
  BY <1>0, <1>1, <1>2, <1>9, Zenon DEF IInv, TypeOK, Ops
<1>11. LoopPlace'
  <2>1. ctl # "created"
    BY <1>1, Zenon DEF IInv, LoopPlace
  <2> QED
    BY <1>1, <2>1, Zenon DEF IInv, LoopPlace
<1>12. ListenerFlags'
  <2>1. cancel_requested' => ~listen_fd /\ (Contains(sq', "cancel") \/ (~armed' /\ NoneQueued(sq')))
    BY <1>2, Zenon DEF IInv, ListenerFlags
  <2> QED
    BY <1>1, <1>2, <2>1, Zenon DEF ListenerFlags
<1>13. StopRan'
  BY <1>1, <1>2, Zenon DEF IInv, StopRan
<1>14. FinalDone'
  <2>1. loop = "final_cqes" => ~listen_fd
    BY FinalStopped, Zenon DEF Final
  <2>2. failures' = 0 /\ loop = "final_cqes" => sq' = <<>> /\ ~armed'
    BY <1>2, <2>1, Zenon DEF IInv, FinalDone, Final
  <2>3. drained => loop = "final_cqes"
    BY <1>1 DEF IInv, LoopPlace, Final
  <2>4. \A c \in Clients : client'[c] = "accepted" => client[c] = "accepted"
    BY <1>3, <1>4, <1>6, <1>8
  <2> QED
    BY <1>1, <1>2, <2>2, <2>3, <2>4 DEF IInv, FinalDone, Final
<1>15. Matches(client', cq')
  <2>1. Matches(client', Tail(cq))
    <3>1. CASE e.kind = "accept"
      <4>1. PICK s \in {"refused", "open"} : client' = [client EXCEPT ![e.who] = s]
        BY <1>8, <3>1
      <4>2. Matches([client EXCEPT ![Head(cq).who] = s], Tail(cq))
        BY <1>1, <1>3, <3>1, MatchesTaken, Zenon DEF IInv, e
      <4> QED
        BY <4>1, <4>2 DEF e
    <3>2. CASE e.kind # "accept"
      BY <1>1, <1>3, <1>6, <3>2, MatchesTail DEF IInv, e
    <3> QED
      BY <3>1, <3>2
  <2> QED
    BY <1>2, <1>3, <2>1, MatchesGrown, Zenon
<1>16. AtStop'
  <2>1. UNCHANGED ctlVars
    BY DEF HandleAccept
  <2> QED
    BY <1>9, <2>1, AtStopKept DEF IInv
<1>17. SessionLimit'
  <2>1. CASE e.kind = "accept"
    BY <1>4, <1>6, <2>1, LimitOpened, Zenon DEF IInv
  <2>2. CASE e.kind # "accept"
    BY <1>6, <2>2, Zenon DEF IInv, SessionLimit, Sessions
  <2> QED
    BY <2>1, <2>2
<1> QED
  BY <1>2, <1>10, <1>11, <1>12, <1>13, <1>14, <1>15, <1>16, <1>17, ZenonT(40) DEF IInv

\* What a step that takes or adds other completions and moves clients on leaves
\* as it was.
LEMMA QueueFrame ==
  ASSUME IInv, UNCHANGED <<ctlVars, loop, round, batch, drained, posted, listenVars, sq, failures>>,
         handled' \in 0..CqeBudget,
         cq' \in Seq(Entries), armed' \in BOOLEAN, armed' => armed,
         client' \in [Clients -> ClientStates], \A c \in Clients : Moved(c),
         ctl = "created" => cq' = cq /\ \A c \in Clients : client'[c] \notin Live,
         ~armed => \A c \in Clients : client'[c] = "accepted" => client[c] = "accepted",
         EventPlace(accept_ev, cq', sq, armed'), Matches(client', cq'), SessionLimit'
  PROVE  IInv'
<1>1. /\ UNCHANGED <<up, running, ctl, timed_out, at_stop>> /\ UNCHANGED <<loop, round, batch, drained, posted>>
      /\ UNCHANGED <<listen_fd, accept_ev, cancel_requested>> /\ UNCHANGED <<sq, failures>>
  BY Zenon DEF ctlVars, listenVars
<1>2. TypeOK'
  BY <1>1 DEF IInv, TypeOK
<1>3. LoopPlace'
  <2>1. CASE ctl = "created"
    BY <1>1, <2>1 DEF IInv, LoopPlace
  <2>2. CASE ctl # "created"
    BY <1>1, <2>2 DEF IInv, LoopPlace
  <2> QED
    BY <2>1, <2>2
<1>4. EventPlace(accept_ev', cq', sq', armed')
  BY <1>1, Zenon
<1>5. ListenerFlags' /\ StopRan'
  BY <1>1, Zenon DEF IInv, ListenerFlags, StopRan
<1>6. FinalDone'
  <2>1. ASSUME failures = 0, loop \in Final \ {"final_flush"}
        PROVE  sq = <<>> /\ ~armed'
    BY <2>1, Zenon DEF IInv, FinalDone
  <2>2. ASSUME failures = 0, drained
        PROVE  sq = <<>> /\ ~armed' /\ \A c \in Clients : client'[c] # "accepted"
    <3>1. sq = <<>> /\ ~armed /\ \A c \in Clients : client[c] # "accepted"
      BY <2>2, Zenon DEF IInv, FinalDone
    <3> QED
      BY <3>1, Zenon
  <2>3. failures' = failures /\ loop' = loop /\ sq' = sq /\ drained' = drained
    BY <1>1, Zenon
  <2>4. failures' = 0 => /\ loop' \in Final \ {"final_flush"} => sq' = <<>> /\ ~armed'
                         /\ drained' => sq' = <<>> /\ ~armed' /\ \A c \in Clients : client'[c] # "accepted"
    BY <2>1, <2>2, <2>3
  <2> QED
    BY <2>4, Zenon DEF FinalDone
<1>7. AtStop'
  BY AtStopKept, Zenon DEF IInv
<1> QED
  BY <1>2, <1>3, <1>4, <1>5, <1>6, <1>7, Zenon DEF IInv

\* A completion that is not of the accept.
LEMMA OtherTail ==
  ASSUME IInv, cq # <<>>, Head(cq).kind \in {"cancel", "eof", "last"}
  PROVE  /\ Tail(cq) \in Seq(Entries) /\ Head(cq) \in Entries
         /\ EventPlace(accept_ev, Tail(cq), sq, armed) /\ Matches(client, Tail(cq))
         /\ Head(cq).kind \in {"eof", "last"} => Head(cq).who \in Clients
         /\ Head(cq).kind = "last" => client[Head(cq).who] \notin Early
<1>1. cq \in Seq(Entries)
  BY DEF IInv, TypeOK
<1>2. Tail(cq) \in Seq(Entries) /\ Head(cq) \in Entries
  BY <1>1, SeqHeadTail
<1>3. ~IsFinal(Head(cq)) /\ Head(cq).kind # "accept"
  BY DEF IsFinal
<1>4. EventPlace(accept_ev, Tail(cq), sq, armed)
  BY <1>1, <1>3, FinalTail, Zenon DEF IInv, EventPlace
<1>5. Matches(client, Tail(cq))
  BY <1>1, <1>3, MatchesTail, Zenon DEF IInv
<1>6. Head(cq).kind \in {"eof", "last"} => Head(cq).who \in Clients
  BY <1>2 DEF Entries
<1>7. 1 \in 1..Len(cq) /\ Head(cq) = cq[1]
  BY <1>1, SeqIndexed, SeqEmpty
<1>8. Head(cq).kind = "last" => client[Head(cq).who] \notin Early
  BY <1>7, Zenon DEF IInv, Matches, Early
<1> QED
  BY <1>2, <1>4, <1>5, <1>6, <1>8, Zenon

\* A cancel's completion does nothing; a session closes, or is released.
LEMMA HandleOtherStep == ASSUME IInv, HandleOther PROVE IInv'
<1> DEFINE e == Head(cq)
<1>1. /\ loop \in Dispatches /\ cq # <<>> /\ e.kind \in {"cancel", "eof", "last"} /\ cq' = Tail(cq)
      /\ UNCHANGED <<ctlVars, loop, round, batch, drained, posted, listenVars, sq, failures>> /\ armed' = armed
  BY DEF HandleOther
<1>0. handled' \in 0..CqeBudget
  <2>1. /\ handled' = IF CqeBudget = 0 THEN 0 ELSE handled + 1
        /\ CqeBudget = 0 \/ ~(handled >= CqeBudget)
        /\ handled \in 0..CqeBudget /\ CqeBudget \in Nat
    BY WorkerSizes, Zenon DEF HandleOther, BudgetSpent, Count, IInv, TypeOK
  <2> QED
    BY <2>1
<1>2. /\ e.kind = "eof" => client' = Disconnected({e.who})
      /\ e.kind = "last" => client' = [client EXCEPT ![e.who] = "released"]
      /\ e.kind = "cancel" => client' = client
  BY Zenon DEF HandleOther
<1>3. /\ Tail(cq) \in Seq(Entries)
      /\ EventPlace(accept_ev, Tail(cq), sq, armed) /\ Matches(client, Tail(cq))
      /\ e.kind \in {"eof", "last"} => e.who \in Clients
      /\ e.kind = "last" => client[e.who] \notin Early
  BY <1>1, OtherTail, Zenon
<1> HIDE DEF e
<1>4. client \in [Clients -> ClientStates] /\ armed \in BOOLEAN
  BY Zenon DEF IInv, TypeOK
<1>5. /\ client' \in [Clients -> ClientStates]
      /\ Onward(client, client') /\ \A c \in Clients : Moved(c)
      /\ \A c \in Clients : client'[c] \in Live => client[c] \in Live
      /\ \A c \in Clients : client'[c] = "accepted" => client[c] = "accepted"
  <2>1. CASE e.kind = "eof"
    BY <1>2, <2>1, DisconnectedMoves, Zenon DEF IInv
  <2>2. CASE e.kind = "last"
    BY <1>2, <1>3, <1>4, <2>2, Zenon DEF ClientStates, Onward, Moved, Early, Live
  <2>3. CASE e.kind = "cancel"
    BY <1>2, <1>4, <2>3, Zenon DEF Onward, Moved
  <2> QED
    BY <1>1, <2>1, <2>2, <2>3, Zenon
<1>6. Matches(client', cq')
  BY <1>1, <1>3, <1>5, MatchesOnward, ZenonT(40)
<1>7. SessionLimit'
  BY <1>5, LimitKept DEF IInv
<1>8. ctl # "created"
  BY <1>1, Zenon DEF IInv, LoopPlace, Dispatches
<1> QED
  BY <1>0, <1>1, <1>3, <1>4, <1>5, <1>6, <1>7, <1>8, QueueFrame, ZenonT(40)

\* Session::Tick disconnects sessions.
LEMMA TickStep == ASSUME IInv, Tick PROVE IInv'
<1>1. /\ loop = "tick" /\ loop' = "test" /\ UNCHANGED <<round, batch, handled, drained, posted>>
      /\ UNCHANGED <<up, running, ctl, timed_out, at_stop>>
      /\ UNCHANGED <<listen_fd, accept_ev, cancel_requested>>
      /\ UNCHANGED <<sq, cq, armed, failures>>
  BY DEF Tick, Goto, countVars, ctlVars, listenVars, kernelVars
<1>2. PICK S \in SUBSET Sessions : client' = Disconnected(S)
  BY Zenon DEF Tick
<1>3. /\ client' \in [Clients -> ClientStates]
      /\ Onward(client, client') /\ \A c \in Clients : Moved(c)
      /\ \A c \in Clients : client'[c] \in Live => client[c] \in Live
  BY <1>2, DisconnectedMoves, Zenon DEF IInv
<1>4. TypeOK'
  <2>1. loop' \in Loops
    BY <1>1, Zenon DEF Loops
  <2> QED
    BY <1>1, <1>3, <2>1, ZenonT(40) DEF IInv, TypeOK, Loops
<1>5. LoopPlace'
  BY <1>1, Zenon DEF IInv, LoopPlace, LoopLeft, Final, RunsTasks
<1>6. EventPlace(accept_ev', cq', sq', armed') /\ ListenerFlags'
  BY <1>1, Zenon DEF IInv, ListenerFlags
<1>7. StopRan' /\ FinalDone'
  BY <1>1, NotDrained DEF IInv, StopRan, FinalDone, Final
<1>8. Matches(client', cq')
  <2>1. cq \in Seq(Entries) /\ cq' = cq
    BY <1>1, ZenonT(40) DEF IInv, TypeOK
  <2> QED
    BY <1>3, <2>1, MatchesOnward, Zenon DEF IInv
<1>9. AtStop'
  <2>1. UNCHANGED ctlVars
    BY Zenon DEF Tick
  <2> QED
    BY <1>3, <2>1, AtStopKept DEF IInv
<1>10. SessionLimit'
  BY <1>3, LimitKept, Zenon DEF IInv
<1> QED
  BY <1>4, <1>5, <1>6, <1>7, <1>8, <1>9, <1>10, ZenonT(40) DEF IInv

-----------------------------------------------------------------------------
(* The kernel and the clients. *)

\* A connection arrives.
LEMMA ConnectsStep == ASSUME IInv, NEW c \in Clients, Connects(c) PROVE IInv'
<1>1. /\ client[c] = "away" /\ client' = [client EXCEPT ![c] = "waiting"]
      /\ UNCHANGED <<ctlVars, loop, round, batch, drained, posted, listenVars, sq, failures>>
      /\ handled' = handled
      /\ cq' = cq /\ armed' = armed
  BY Zenon DEF Connects, kernelVars, loopVars, countVars
<1>2. /\ client \in [Clients -> ClientStates] /\ cq \in Seq(Entries) /\ armed \in BOOLEAN
      /\ handled \in 0..CqeBudget
  BY Zenon DEF IInv, TypeOK
<1>3. /\ client' \in [Clients -> ClientStates]
      /\ Onward(client, client') /\ \A d \in Clients : Moved(d)
      /\ \A d \in Clients : client'[d] \in Live => client[d] \in Live
      /\ \A d \in Clients : client'[d] = "accepted" => client[d] = "accepted"
  BY <1>1, <1>2, Zenon DEF ClientStates, Onward, Moved, Early, Live
<1>4. Matches(client', cq')
  BY <1>1, <1>2, <1>3, MatchesOnward, Zenon DEF IInv
<1>5. SessionLimit'
  BY <1>3, LimitKept, Zenon DEF IInv
<1>6. EventPlace(accept_ev, cq', sq, armed')
  BY <1>1, Zenon DEF IInv
<1>7. ctl = "created" => cq' = cq /\ \A d \in Clients : client'[d] \notin Live
  BY <1>1, <1>3, Zenon DEF IInv, LoopPlace
<1> QED
  BY <1>1, <1>2, <1>3, <1>4, <1>5, <1>6, <1>7, QueueFrame, Zenon

\* The multishot accept takes a connection, and may end with it.
LEMMA KernelAcceptsStep == ASSUME IInv, NEW c \in Clients, KernelAccepts(c) PROVE IInv'
<1>1. PICK more \in BOOLEAN : armed' = more /\ cq' = Append(cq, Accepted(c, more))
  BY DEF KernelAccepts
<1>2. /\ armed /\ client[c] = "waiting" /\ client' = [client EXCEPT ![c] = "accepted"]
      /\ UNCHANGED <<ctlVars, loop, round, batch, drained, posted, listenVars, sq, failures>>
      /\ handled' = handled
  BY Zenon DEF KernelAccepts, loopVars, countVars
<1>3. /\ client \in [Clients -> ClientStates] /\ cq \in Seq(Entries)
      /\ handled \in 0..CqeBudget
  BY Zenon DEF IInv, TypeOK
<1>4. /\ Accepted(c, more) \in Entries
      /\ IsFinal(Accepted(c, more)) <=> ~more
  BY Zenon DEF Accepted, Entries, IsFinal
<1>5. /\ client' \in [Clients -> ClientStates] /\ \A d \in Clients : Moved(d)
      /\ \A d \in Clients : client'[d] \in Live => client[d] \in Live
  BY <1>2, <1>3 DEF ClientStates, Moved, Early, Live
<1>6. Matches(client', cq')
  BY <1>1, <1>2, <1>3, MatchesAccepted, Zenon DEF IInv
<1>7. SessionLimit'
  BY <1>5, LimitKept, Zenon DEF IInv
<1>8. cq' \in Seq(Entries) /\ EventPlace(accept_ev, cq', sq, armed')
  <2>1. accept_ev /\ NoFinal(cq) /\ NoneQueued(sq)
    BY <1>2, Zenon DEF IInv, EventPlace
  <2>2. cq' \in Seq(Entries)
    BY <1>1, <1>3, <1>4, SeqAppend, Zenon
  <2>3. IF more THEN NoFinal(cq') ELSE OneFinal(cq')
    BY <1>1, <1>3, <1>4, <2>1, FinalAppend, Zenon
  <2> QED
    BY <1>1, <2>1, <2>2, <2>3, Zenon DEF EventPlace
<1>9. ctl # "created"
  BY <1>2, Zenon DEF IInv, LoopPlace
<1> QED
  BY <1>1, <1>2, <1>3, <1>5, <1>6, <1>7, <1>8, <1>9, QueueFrame, ZenonT(40)

\* The multishot accept ends with an error.
LEMMA KernelAcceptFailsStep == ASSUME IInv, KernelAcceptFails PROVE IInv'
<1>1. /\ armed /\ failures < MaxFailures /\ failures' = failures + 1 /\ armed' = FALSE
      /\ cq' = Append(cq, AcceptError(FALSE)) /\ UNCHANGED <<sq, client>>
      /\ UNCHANGED <<up, running, ctl, timed_out, at_stop>> /\ UNCHANGED <<loop, round, batch, handled, drained, posted>>
      /\ UNCHANGED <<listen_fd, accept_ev, cancel_requested>>
  BY Zenon DEF KernelAcceptFails, ctlVars, loopVars, countVars, listenVars
<1>2. cq \in Seq(Entries) /\ failures \in 0..MaxFailures
  BY DEF IInv, TypeOK
<1>3. failures' \in 0..MaxFailures /\ failures' # 0
  <2>1. failures < MaxFailures /\ failures' = failures + 1
    BY <1>1, Zenon
  <2> QED
    BY <1>2, <2>1, WorkerSizes
<1>4. cq' \in Seq(Entries)
  BY <1>1, <1>2, KernelEntries, SeqAppend, Zenon
<1>5. EventPlace(accept_ev', cq', sq', armed')
  <2>1. accept_ev /\ NoFinal(cq) /\ NoneQueued(sq)
    BY <1>1, Zenon DEF IInv, EventPlace
  <2>2. OneFinal(cq')
    BY <1>1, <1>2, <2>1, KernelEntries, FinalAppend, ZenonT(40)
  <2> QED
    BY <1>1, <2>1, <2>2, Zenon DEF EventPlace
<1>6. TypeOK'
  <2>1. armed' \in BOOLEAN
    BY <1>1, Zenon
  <2>2. UNCHANGED <<sq, client, up, running, ctl, timed_out, at_stop, loop, round, batch, handled, drained, posted,
                    listen_fd, accept_ev, cancel_requested>>
    BY <1>1, Zenon
  <2> QED
    BY <1>3, <1>4, <2>1, <2>2 DEF IInv, TypeOK
<1>7. LoopPlace'
  BY <1>1, Zenon DEF IInv, LoopPlace
<1>8. ListenerFlags' /\ StopRan' /\ FinalDone'
  BY <1>1, <1>3, Zenon DEF IInv, ListenerFlags, StopRan, FinalDone
<1>9. Matches(client', cq')
  <2>1. AcceptError(FALSE).kind \notin {"accept", "last"} /\ AcceptError(FALSE) \in Entries
    BY KernelEntries, Zenon
  <2> QED
    BY <1>1, <1>2, <2>1, MatchesAppend, Zenon DEF IInv
<1>10. AtStop' /\ SessionLimit'
  BY <1>1, Zenon DEF IInv, AtStop, SessionsAtStopReleased, SessionLimit, Sessions
<1> QED
  BY <1>5, <1>6, <1>7, <1>8, <1>9, <1>10, Zenon DEF IInv

\* A session's peer closes, or its last operation ends.
LEMMA SessionCompletesStep == ASSUME IInv, NEW c \in Clients, SessionCompletes(c) PROVE IInv'
<1> DEFINE kind == IF client[c] = "open" THEN "eof" ELSE "last"
           e == Completion(c, kind)
<1>1. /\ client[c] \in Live /\ cq' = Append(cq, e) /\ armed' = armed /\ client' = client
      /\ UNCHANGED <<ctlVars, loop, round, batch, drained, posted, listenVars, sq, failures>>
      /\ handled' = handled
  BY Zenon DEF SessionCompletes, loopVars, countVars
<1>2. /\ client \in [Clients -> ClientStates] /\ cq \in Seq(Entries) /\ armed \in BOOLEAN
      /\ handled \in 0..CqeBudget
  BY Zenon DEF IInv, TypeOK
<1>3. e \in Entries /\ e.kind \in {"eof", "last"} /\ e.who = c /\ ~IsFinal(e)
  BY Zenon DEF Completion, Entries, IsFinal
<1> HIDE DEF e, kind
<1>4. cq' \in Seq(Entries) /\ EventPlace(accept_ev, cq', sq, armed')
  <2>1. cq' \in Seq(Entries)
    BY <1>1, <1>2, <1>3, SeqAppend, Zenon
  <2>2. (NoFinal(cq) => NoFinal(cq')) /\ (OneFinal(cq) => OneFinal(cq'))
    BY <1>1, <1>2, <1>3, FinalAppend, Zenon
  <2> QED
    BY <1>1, <2>1, <2>2, Zenon DEF IInv, EventPlace
<1>5. Matches(client', cq')
  <2> DEFINE r == Append(cq, e)
  <2>1. /\ Len(cq) \in Nat /\ Len(r) = Len(cq) + 1
        /\ \A i \in 1..Len(cq) : r[i] = cq[i]
        /\ r[Len(cq) + 1] = e
    <3>0. cq \in Seq(Entries) /\ e \in Entries
      BY <1>2, <1>3, Zenon
    <3>1. Len(cq) \in Nat
      BY <3>0, SeqIndexed, Zenon
    <3>2. Len(r) = Len(cq) + 1
      BY <3>0, SeqAppend, Zenon
    <3>3. ASSUME NEW i \in 1..Len(cq)
          PROVE  r[i] = cq[i]
      BY <3>0, SeqAppend
    <3>4. r[Len(cq) + 1] = e
      BY <3>0, SeqAppend, Zenon
    <3> QED
      BY <3>1, <3>2, <3>3, <3>4, Zenon
  <2> HIDE DEF r
  <2>2. /\ \A i \in 1..Len(r) : i \in 1..Len(cq) \/ i = Len(cq) + 1
        /\ \A i \in 1..Len(cq) : i \in 1..Len(r)
    BY <2>1
  <2>3. \A i \in 1..Len(r) : r[i].kind = "accept" => i \in 1..Len(cq) /\ r[i] = cq[i]
    BY <1>3, <2>1, <2>2, Zenon
  <2>4. \A i \in 1..Len(r) : \/ i \in 1..Len(cq) /\ r[i] = cq[i]
                             \/ r[i].who = c
    BY <1>3, <2>1, <2>2, Zenon
  <2>5. \A d \in Clients : client[d] = "accepted" => \E i \in 1..Len(r) : r[i].kind = "accept" /\ r[i].who = d
    <3> SUFFICES ASSUME NEW d \in Clients, client[d] = "accepted"
                 PROVE  \E i \in 1..Len(r) : r[i].kind = "accept" /\ r[i].who = d
      BY Zenon
    <3>1. PICK i \in 1..Len(cq) : cq[i].kind = "accept" /\ cq[i].who = d
      BY Zenon DEF IInv, Matches
    <3>2. i \in 1..Len(r) /\ r[i] = cq[i]
      BY <2>1, <2>2, ZenonT(40)
    <3> QED
      BY <3>1, <3>2, Zenon
  <2>6. \A i \in 1..Len(r) : r[i].kind = "accept" => client[r[i].who] = "accepted"
    BY <2>3 DEF IInv, Matches
  <2>7. \A i, j \in 1..Len(r) :
          r[i].kind = "accept" /\ r[j].kind = "accept" /\ r[i].who = r[j].who => i = j
    BY <2>3, ZenonT(40) DEF IInv, Matches
  <2>8. \A i \in 1..Len(r) : r[i].kind = "last" => client[r[i].who] \notin {"away", "waiting", "accepted"}
    BY <1>1, <2>4, Zenon DEF IInv, Matches, Live
  <2>9. Matches(client, r)
    BY <2>5, <2>6, <2>7, <2>8, Zenon DEF Matches
  <2> QED
    BY <1>1, <2>9, ZenonT(40) DEF r
<1>6. SessionLimit'
  BY <1>1, Zenon DEF IInv, SessionLimit, Sessions
<1>7. ctl # "created"
  BY <1>1, Zenon DEF IInv, LoopPlace
<1>8. \A d \in Clients : Moved(d)
  BY <1>1 DEF Moved
<1> QED
  BY <1>1, <1>2, <1>4, <1>5, <1>6, <1>7, <1>8, QueueFrame, Zenon

-----------------------------------------------------------------------------
(* The theorem. *)

\* A Worker that has been constructed is as the invariant says.
LEMMA InitIInv == Init => IInv
<1> SUFFICES ASSUME Init PROVE IInv
  OBVIOUS
<1>1. /\ <<>> \in Seq({"stop", "drain", "noop"}) /\ <<>> \in Seq({"accept", "cancel"})
      /\ <<>> \in Seq(Entries)
  BY SeqEmpty, Zenon
<1>2. TypeOK
  <2>1. client \in [Clients -> ClientStates] /\ at_stop \subseteq Clients
    BY DEF Init, ClientStates
  <2>2. 0 \in 0..MaxFailures /\ 0 \in 0..(FinalRounds + 1) /\ 0 \in 0..CqeBudget
    BY WorkerSizes
  <2> QED
    BY <1>1, <2>1, <2>2, Zenon DEF Init, TypeOK
<1>3. \A c \in Clients : client[c] = "away"
  BY DEF Init
<1>4. LoopPlace
  BY <1>3, WorkerSizes DEF Init, LoopPlace, LoopLeft, Final, RunsTasks, Live
<1>5. EventPlace(accept_ev, cq, sq, armed)
  BY DEF Init, EventPlace, NoFinal, NoneQueued
<1>6. ListenerFlags /\ StopRan /\ FinalDone
  BY Zenon DEF Init, ListenerFlags, StopRan, FinalDone, Final
<1>7. Matches(client, cq)
  BY <1>3 DEF Init, Matches
<1>8. AtStop
  BY <1>3 DEF Init, AtStop, SessionsAtStopReleased
<1>9. SessionLimit
  <2>1. Sessions = {}
    BY <1>3 DEF Sessions, Live
  <2> QED
    BY <2>1, FS_EmptySet, WorkerSizes DEF SessionLimit
<1> QED
  BY <1>2, <1>4, <1>5, <1>6, <1>7, <1>8, <1>9, Zenon DEF IInv

\* Every step keeps the invariant.
LEMMA NextIInv == IInv /\ [Next]_vars => IInv'
<1> SUFFICES ASSUME IInv, [Next]_vars PROVE IInv'
  OBVIOUS
<1>1. CASE Start \/ StartFails
  BY <1>1, StartStep, StartFailsStep
<1>2. CASE Control
  BY <1>2, StopAcceptingStep, DrainSessionsStep, WaitStep, HaltStep, JoinStep, Zenon DEF Control
<1>3. CASE LoopStep
  BY <1>3, LoopTestStep, TakePostedStep, RunTaskStep, TasksDoneStep, DispatchFlushStep,
     HandleAcceptStep, HandleOtherStep, DispatchDoneStep, TickStep, ZenonT(40) DEF LoopStep
<1>4. CASE Kernel
  BY <1>4, ConnectsStep, KernelAcceptsStep, SessionCompletesStep, KernelAcceptFailsStep, Zenon DEF Kernel
<1>5. CASE UNCHANGED vars
  <2>1. UNCHANGED <<loopVars, listenVars, kernelVars, client>> /\ UNCHANGED ctlVars /\ UNCHANGED posted
    BY <1>5, Zenon DEF vars
  <2>2. UNCHANGED <<up, running, ctl, timed_out, at_stop, loop, round, batch, handled, drained, posted, listen_fd,
                    accept_ev, cancel_requested, sq, cq, armed, failures, client>>
    BY <2>1, ZenonT(40) DEF ctlVars, loopVars, countVars, listenVars, kernelVars
  <2>3. TypeOK' /\ AtStop'
    BY <2>2 DEF IInv, TypeOK, AtStop, SessionsAtStopReleased
  <2>4. LoopPlace' /\ StopRan'
    BY <2>2, Zenon DEF IInv, LoopPlace, StopRan
  <2> QED
    BY <2>1, <2>3, <2>4, ControlFrame, Zenon DEF IInv
<1> QED
  BY <1>1, <1>2, <1>3, <1>4, <1>5, Zenon DEF Next

\* The places of the accept event, counted.
LEMMA PlacesCounted ==
  ASSUME TypeOK, EventPlace(accept_ev, cq, sq, armed), ListenerFlags
  PROVE  ListenerArmed
<1> DEFINE finals == {i \in DOMAIN cq : cq[i].kind \in {"accept", "error"} /\ ~cq[i].more}
           queued == {i \in DOMAIN sq : sq[i] = "accept"}
<1>1. DOMAIN cq = 1..Len(cq) /\ DOMAIN sq = 1..Len(sq) /\ accept_ev \in BOOLEAN /\ armed \in BOOLEAN
  BY SeqIndexed, Zenon DEF TypeOK
<1>2. /\ NoFinal(cq) => finals = {}
      /\ OneFinal(cq) => \E i : finals = {i}
      /\ NoneQueued(sq) => queued = {}
      /\ OneQueued(sq) => \E i : queued = {i}
  BY <1>1, ZenonT(40) DEF NoFinal, OneFinal, NoneQueued, OneQueued, IsFinal
<1>3. ListenerArmed <=> /\ Cardinality(finals) + Cardinality(queued) + (IF armed THEN 1 ELSE 0)
                             = IF accept_ev THEN 1 ELSE 0
                        /\ listen_fd /\ failures = 0 => accept_ev
  BY DEF ListenerArmed
<1> HIDE DEF finals, queued
<1>4. /\ finals = {} => Cardinality(finals) = 0
      /\ queued = {} => Cardinality(queued) = 0
      /\ \A i : finals = {i} => Cardinality(finals) = 1
      /\ \A i : queued = {i} => Cardinality(queued) = 1
  <2>1. Cardinality({}) = 0 /\ \A i : Cardinality({i}) = 1
    BY FS_EmptySet, FS_Singleton, Zenon
  <2> QED
    BY <2>1
<1>5. Cardinality(finals) + Cardinality(queued) + (IF armed THEN 1 ELSE 0) = IF accept_ev THEN 1 ELSE 0
  <2>1. CASE accept_ev /\ ~armed /\ NoFinal(cq) /\ OneQueued(sq)
    <3>1. Cardinality(finals) = 0 /\ Cardinality(queued) = 1
      <4>1. finals = {} /\ \E i : queued = {i}
        BY <1>2, <2>1, Zenon
      <4> QED
        BY <4>1, <1>4
    <3> QED
      BY <3>1, <2>1 DEF EventPlace
  <2>2. CASE accept_ev /\ armed /\ NoFinal(cq) /\ NoneQueued(sq)
    BY <1>2, <1>4, <2>2 DEF EventPlace
  <2>3. CASE accept_ev /\ ~armed /\ OneFinal(cq) /\ NoneQueued(sq)
    BY <1>2, <1>4, <2>3 DEF EventPlace
  <2>4. CASE ~accept_ev /\ ~armed /\ NoFinal(cq) /\ NoneQueued(sq)
    BY <1>2, <1>4, <2>4 DEF EventPlace
  <2> QED
    BY <2>1, <2>2, <2>3, <2>4 DEF EventPlace
<1> QED
  BY <1>3, <1>5, Zenon DEF ListenerFlags

\* Worker::Stop, for any number of connections, session limit, submission batch,
\* completion budget and final rounds: the accept event is in one place while the
\* listener owns it, the session limit is never exceeded, the accept is cancelled
\* when Run has returned, and no accepted socket is left unhandled in the
\* completion queue if there is no budget or one final round emptied the queue,
\* and the sessions alive when Stop was called have been released unless a wait
\* timed out.
THEOREM StopForgetsNobody == Spec => []StopHandlesAll
<1>1. IInv => StopHandlesAll
  <2> SUFFICES ASSUME IInv PROVE StopHandlesAll
    OBVIOUS
  <2>1. ListenerArmed
    BY PlacesCounted DEF IInv
  <2>2. AcceptedSocketsHandled
    BY DEF IInv, LoopPlace, FinalDone, Final, AcceptedSocketsHandled
  <2>3. SessionsAtStopReleased
    BY DEF IInv, AtStop
  <2> QED
    BY <2>1, <2>2, <2>3 DEF IInv, StopHandlesAll
<1> QED
  BY <1>1, InitIInv, NextIInv, PTL DEF Spec
=============================================================================
