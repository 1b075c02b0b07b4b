--------------------------- MODULE MpscQueueProofs ---------------------------
(***************************************************************************)
(* MpscQueue is safe for any number of producers and items.  The nodes not *)
(* yet taken form a chain: the items of `order` behind the popped ones, in *)
(* that order, with the stub somewhere among them or nowhere.  Every link  *)
(* of the chain is in place, or is what one thread is about to write.      *)
(***************************************************************************)
EXTENDS MpscQueue, TLAPS

\* A sequence is a function on the numbers up to its length.
LEMMA SeqIndexed ==
  ASSUME NEW S, NEW seq \in Seq(S)
  PROVE  Len(seq) \in Nat /\ seq \in [1..Len(seq) -> S] /\ DOMAIN seq = 1..Len(seq)
  OBVIOUS

\* What a sequence over S holds is in S.
LEMMA SeqElement ==
  ASSUME NEW S, NEW seq \in Seq(S), NEW n \in 1..Len(seq)
  PROVE  seq[n] \in S
  OBVIOUS

\* Sequences of the same length with the same elements are the same.
LEMMA SeqEqual ==
  ASSUME NEW S, NEW a \in Seq(S), NEW b \in Seq(S), Len(a) = Len(b), \A i \in 1..Len(a) : a[i] = b[i]
  PROVE  a = b
  OBVIOUS

\* Appending leaves the elements before the new one in place.
LEMMA SeqAppend ==
  ASSUME NEW S, NEW seq \in Seq(S), NEW e \in S
  PROVE  /\ Append(seq, e) \in Seq(S) /\ Append(seq, e) # <<>> /\ Len(Append(seq, e)) = Len(seq) + 1
         /\ \A i \in 1..Len(seq) : Append(seq, e)[i] = seq[i]
         /\ Append(seq, e)[Len(seq) + 1] = e
  OBVIOUS

\* The first n elements of a sequence that has as many.
LEMMA SeqPrefix ==
  ASSUME NEW S, NEW seq \in Seq(S), NEW n \in 0..Len(seq)
  PROVE  /\ SubSeq(seq, 1, n) \in Seq(S) /\ Len(SubSeq(seq, 1, n)) = n
         /\ \A i \in 1..n : SubSeq(seq, 1, n)[i] = seq[i]
  OBVIOUS

\* Stub and Nil are nobody's item: they are a member of the queue and nullptr.
Distinct == Stub # Nil /\ Stub \notin Items /\ Nil \notin Items

L == Len(order)
P == Len(popped)

\* The chain's node before order[i] when the stub follows order[s].
Pred(s, i) == IF i = s + 1 THEN Stub ELSE order[i - 1]

\* The items of the chain that have a node before them.
Following(s) == {i \in 1..L : i > P + 1 \/ (i = P + 1 /\ s = P)}

\* The stub follows order[s] in the chain, or, for s = -1, is not in it.
Chain(s) ==
  /\ s = -1 \/ s \in P..L
  /\ s # P => P < L
  /\ consume_end = IF s = P THEN Stub ELSE order[P + 1]
  /\ produce_end = IF s = L THEN Stub ELSE order[L]
  /\ next[produce_end] = Nil
  /\ \A i \in Following(s) :
       next[Pred(s, i)] = IF \E p \in Producers : linking[p] = order[i] THEN Nil ELSE order[i]
  /\ \A p \in Producers : linking[p] # Nil =>
       \E i \in Following(s) : linking[p] = order[i] /\ prev[p] = Pred(s, i)
  /\ s > P => next[order[s]] = IF pc = "link" THEN Nil ELSE Stub
  /\ pc = "link" => s > P /\ stubPrev = order[s]
  /\ pc \in {"recycle", "exchange"} => s = -1
  /\ pc \in {"reload", "take"} => s > P

\* What has been exchanged in, taken and deleted.
History ==
  /\ P <= L
  /\ \A i \in 1..P : popped[i] = order[i]
  /\ \A x \in deleted : \E i \in 1..P : x = order[i]
  /\ \A i, j \in 1..L : order[i] = order[j] => i = j
  /\ \A p, q \in Producers : linking[p] = linking[q] /\ linking[p] # Nil => p = q
  /\ \A x \in Items : (\A i \in 1..L : order[i] # x) => next[x] = Nil

\* What the consumer knows of the node it is at.
Consumer ==
  /\ pc # "idle" => node = consume_end
  /\ pc \in {"recycle", "exchange", "link", "reload", "take"} => node # Stub
  /\ pc \in {"loaded", "take"} /\ after # Nil => next[node] = after
  /\ pc = "take" => after # Nil
  /\ pc = "exchange" => next[Stub] = Nil
  /\ pc = "loaded" /\ after = Nil => emptyOk \/ (node # Stub /\ node = produce_end)
  /\ pc = "empty" => emptyOk

IInv == Distinct /\ TypeOK /\ History /\ Consumer /\ \E s \in -1..L : Chain(s)

-----------------------------------------------------------------------------
\* The lengths of the histories, and the values at their places.
LEMMA Lengths ==
  ASSUME TypeOK
  PROVE  /\ L \in Nat /\ P \in Nat /\ DOMAIN order = 1..L
         /\ \A i \in 1..L : order[i] \in Items
  BY SeqIndexed, SeqElement DEF TypeOK, L, P

\* The empty queue: the stub is the chain.
LEMMA InitIInv == Distinct /\ Init => IInv
<1> SUFFICES ASSUME Distinct, Init PROVE IInv
  OBVIOUS
<1>1. TypeOK
  BY DEF Init, TypeOK, Nodes, Places
<1>2. L = 0 /\ P = 0
  BY DEF Init, L, P
<1>3. History
  BY <1>2 DEF Init, History, Nodes
<1>4. Consumer
  BY DEF Init, Consumer
<1>5. Chain(0)
  BY <1>2, Distinct DEF Init, Chain, Following, Nodes
<1> QED
  BY <1>1, <1>2, <1>3, <1>4, <1>5 DEF IInv

\* Every step keeps the types.
LEMMA TypeStep ==
  ASSUME IInv, [Next]_vars
  PROVE  TypeOK'
<1> USE DEF IInv, TypeOK, Nodes, Places, Goto, NoStep, Note, pushVars, popVars
<1>1. ASSUME NEW p \in Producers, NEW x \in Items, PushExchange(p, x)
      PROVE  TypeOK'
  BY <1>1, SeqAppend DEF PushExchange
<1>2. ASSUME NEW p \in Producers, PushLink(p)
      PROVE  TypeOK'
  BY <1>2, ZenonT(60) DEF PushLink
<1>3. CASE Load
  BY <1>3 DEF Load
<1>4. CASE SkipStub
  BY <1>4 DEF SkipStub
<1>5. CASE FastPath \/ TakeLast
  <2>0. (pc = "loaded" /\ node # Stub /\ after # Nil) \/ pc = "take"
    BY <1>5, Zenon DEF FastPath, TakeLast, IsStub
  <2>1. node \in Items /\ after \in Nodes
    BY <2>0 DEF Consumer
  <2>2. popped' = Append(popped, node) /\ deleted' = deleted \cup {node} /\ consume_end' = after
    BY <1>5 DEF FastPath, TakeLast, TakeNode
  <2>3. popped' \in Seq(Items) /\ deleted' \subseteq Items /\ consume_end' \in Nodes
    BY <2>1, <2>2, SeqAppend
  <2>4. pc' = "idle" /\ UNCHANGED <<next, produce_end, node, after, stubPrev, linking, prev, order>>
    BY <1>5 DEF FastPath, TakeLast, TakeNode
  <2>5. emptyOk' \in BOOLEAN
    BY <1>5, Zenon DEF FastPath, TakeLast
  <2> QED
    BY <2>3, <2>4, <2>5
<1>6. CASE CheckTail
  BY <1>6 DEF CheckTail
<1>7. CASE RecycleClear \/ RecycleExchange
  BY <1>7, Zenon DEF RecycleClear, RecycleExchange, ClearStub
<1>8. CASE RecycleLink
  BY <1>8, Zenon DEF RecycleLink, LinkStub
<1>9. CASE Reload
  BY <1>9 DEF Reload, AfterReload, Consumer
<1>10. CASE ReturnEmpty
  BY <1>10 DEF ReturnEmpty
<1>11. CASE UNCHANGED vars
  BY <1>11 DEF vars
<1> QED
  BY <1>1, <1>2, <1>3, <1>4, <1>5, <1>6, <1>7, <1>8, <1>9, <1>10, <1>11
  DEF Next, TryPop

-----------------------------------------------------------------------------
\* The chain does not meet itself: its nodes are distinct, so that a write to the
\* link of one node touches no other link and not the end of the chain.
LEMMA ChainIsSimple ==
  ASSUME Distinct, TypeOK, History, NEW s \in -1..L, Chain(s)
  PROVE  /\ \A i \in Following(s) : Pred(s, i) \in Nodes /\ Pred(s, i) # produce_end
         /\ \A i, j \in Following(s) : Pred(s, i) = Pred(s, j) => i = j
         /\ s > P => /\ order[s] \in Items /\ order[s] # produce_end
                     /\ \A i \in Following(s) : Pred(s, i) # order[s]
         /\ produce_end \in Nodes
         /\ \A i \in Following(s) : Pred(s, i) = Stub \/ \E k \in P+1..L : Pred(s, i) = order[k]
<1>1. /\ L \in Nat /\ P \in Nat /\ P <= L /\ s \in Int
      /\ \A i \in 1..L : order[i] \in Items
  BY Lengths DEF History
<1>2. ASSUME NEW i \in Following(s)
      PROVE  \/ i = s + 1 /\ Pred(s, i) = Stub /\ s < L
             \/ i # s + 1 /\ i - 1 \in P+1..L-1 /\ i - 1 # s /\ Pred(s, i) = order[i - 1]
  BY <1>1 DEF Following, Pred, Chain
<1>3. \A i, j \in 1..L : order[i] = order[j] => i = j
  BY DEF History
<1>4. produce_end = IF s = L THEN Stub ELSE order[L]
  BY DEF Chain
<1>5. s # L => L \in 1..L
  BY <1>1 DEF Chain
<1>6. ASSUME NEW i \in Following(s)
      PROVE  /\ Pred(s, i) \in Nodes /\ Pred(s, i) # produce_end
             /\ Pred(s, i) = Stub \/ \E k \in P+1..L : Pred(s, i) = order[k]
  BY <1>1, <1>2, <1>3, <1>4, <1>5 DEF Nodes, Distinct
<1>7. ASSUME NEW i \in Following(s), NEW j \in Following(s), Pred(s, i) = Pred(s, j)
      PROVE  i = j
  <2>1. i \in Int /\ j \in Int
    BY <1>1 DEF Following
  <2> QED
    BY <1>1, <1>2, <1>3, <1>7, <2>1 DEF Distinct
<1>8. ASSUME s > P
      PROVE  /\ order[s] \in Items /\ order[s] # produce_end
             /\ \A i \in Following(s) : Pred(s, i) # order[s]
  BY <1>1, <1>2, <1>3, <1>4, <1>5, <1>8 DEF Distinct
<1> QED
  BY <1>1, <1>4, <1>5, <1>6, <1>7, <1>8 DEF Nodes

\* produce_end_.exchange(node): the item is the new end of the chain, and its
\* producer is the one who owes the link to it.
LEMMA PushExchangeStep ==
  ASSUME IInv, TypeOK', NEW p \in Producers, NEW x \in Items, PushExchange(p, x)
  PROVE  IInv'
<1>0. PICK s \in -1..L : Chain(s)
  BY DEF IInv
<1>1. /\ L \in Nat /\ P \in Nat /\ P <= L /\ s \in Int
      /\ \A i \in 1..L : order[i] \in Items
  BY Lengths DEF History, IInv
<1>2. /\ order' = Append(order, x) /\ linking[p] = Nil /\ popped' = popped
      /\ linking' = [linking EXCEPT ![p] = x]
      /\ prev' = [prev EXCEPT ![p] = produce_end] /\ produce_end' = x
      /\ emptyOk' /\ UNCHANGED <<next, consume_end, pc, node, after, stubPrev, deleted>>
  BY DEF PushExchange, popVars
<1>3. /\ L' = L + 1 /\ P' = P /\ order'[L + 1] = x
      /\ \A i \in 1..L : order'[i] = order[i] /\ order[i] # x
  <2>1. x \notin Range(order) /\ order \in Seq(Items)
    BY DEF PushExchange, IInv, TypeOK
  <2>2. \A i \in 1..L : order[i] # x
    BY <2>1, Lengths DEF Range, IInv
  <2> QED
    BY <1>2, <2>1, <2>2, SeqAppend DEF L, P
<1>4. History'
  <2>1. \A i \in 1..P : order'[i] = order[i]
    BY <1>1, <1>3
  <2>2. ASSUME NEW y \in deleted'
        PROVE  \E i \in 1..P' : y = order'[i]
    <3>1. PICK i \in 1..P : y = order[i]
      BY <1>2 DEF History, IInv
    <3> QED
      BY <1>3, <2>1, <3>1
  <2>3. \A i, j \in 1..L' : order'[i] = order'[j] => i = j
    BY <1>1, <1>3 DEF History, IInv
  <2>4. \A q \in Producers : linking[q] # x
    <3>1. \A q \in Producers : linking[q] # Nil => \E i \in 1..L : linking[q] = order[i]
      BY <1>0 DEF Chain, Following
    <3> QED
      BY <1>3, <3>1 DEF IInv, Distinct
  <2>5. \A q, r \in Producers : linking'[q] = linking'[r] /\ linking'[q] # Nil => q = r
    BY <1>2, <2>4 DEF History, IInv, TypeOK
  <2>6. \A y \in Items : (\A i \in 1..L' : order'[i] # y) => next'[y] = Nil
    BY <1>1, <1>2, <1>3 DEF History, IInv
  <2>7. P' <= L' /\ \A i \in 1..P' : popped'[i] = order'[i]
    BY <1>1, <1>2, <1>3, <2>1 DEF History, IInv
  <2> QED
    BY <2>2, <2>3, <2>5, <2>6, <2>7 DEF History
<1>5. Consumer'
  BY <1>2 DEF Consumer, IInv
<1>6. PICK n \in Nat : n = L + 1
  BY <1>1
<1>7. Chain(s)'
  <2>1. \A i \in Following(s) :
          i \in 1..L /\ Pred(s, i)' = Pred(s, i) /\ order'[i] = order[i]
    BY <1>0, <1>1, <1>3 DEF Following, Pred, Chain
  <2>2. Following(s)' = Following(s) \cup {n}
    BY <1>0, <1>1, <1>3, <1>6 DEF Following, Chain
  <2>3. Pred(s, n)' = produce_end /\ order'[n] = x
    BY <1>0, <1>1, <1>3, <1>6 DEF Pred, Chain
  <2>4. next'[x] = Nil
    BY <1>2, <1>3 DEF IInv, History
  <2>5. ASSUME NEW i \in Following(s)'
        PROVE  next'[Pred(s, i)'] =
                 IF \E q \in Producers : linking'[q] = order'[i] THEN Nil ELSE order'[i]
    <3>1. CASE i = n
      <4>1. linking'[p] = order'[i]
        BY <1>2, <2>3, <3>1, Zenon DEF IInv, TypeOK
      <4> QED
        BY <1>0, <1>2, <2>3, <3>1, <4>1, Zenon DEF Chain
    <3>2. CASE i \in Following(s)
      <4>1. (\E q \in Producers : linking'[q] = order'[i]) <=> (\E q \in Producers : linking[q] = order[i])
        BY <1>1, <1>2, <1>3, <2>1, <3>2 DEF IInv, TypeOK, Distinct
      <4> QED
        BY <1>0, <1>2, <2>1, <3>2, <4>1, ZenonT(60) DEF Chain
    <3> QED
      BY <2>2, <3>1, <3>2
  <2>6. ASSUME NEW q \in Producers, linking'[q] # Nil
        PROVE  \E i \in Following(s)' : linking'[q] = order'[i] /\ prev'[q] = Pred(s, i)'
    <3>1. CASE q = p
      BY <1>2, <2>2, <2>3, <3>1, Zenon DEF IInv, TypeOK
    <3>2. CASE q # p
      <4>1. linking'[q] = linking[q] /\ prev'[q] = prev[q]
        BY <1>2, <3>2 DEF IInv, TypeOK
      <4>2. PICK i \in Following(s) : linking[q] = order[i] /\ prev[q] = Pred(s, i)
        BY <1>0, <2>6, <4>1, Zenon DEF Chain
      <4> QED
        BY <2>1, <2>2, <4>1, <4>2
    <3> QED
      BY <3>1, <3>2
  <2>7. /\ s = -1 \/ s \in P'..L'
        /\ s # P' => P' < L'
        /\ consume_end' = IF s = P' THEN Stub ELSE order'[P' + 1]
        /\ produce_end' = IF s = L' THEN Stub ELSE order'[L']
        /\ s > P' => next'[order'[s]] = IF pc' = "link" THEN Nil ELSE Stub
        /\ pc' = "link" => s > P' /\ stubPrev' = order'[s]
    BY <1>0, <1>1, <1>2, <1>3 DEF Chain
  <2>8. /\ pc' \in {"recycle", "exchange"} => s = -1
        /\ pc' \in {"reload", "take"} => s > P'
    BY <1>0, <1>2, <1>3 DEF Chain
  <2>9. next'[produce_end'] = Nil
    BY <1>2, <2>4
  <2> QED
    BY <2>5, <2>6, <2>7, <2>8, <2>9 DEF Chain
<1>8. s \in -1..L'
  BY <1>1, <1>3
<1> QED
  BY <1>4, <1>5, <1>7, <1>8 DEF IInv, Distinct

\* prev->next = node: the producer pays the one link it owes.
LEMMA PushLinkStep ==
  ASSUME IInv, TypeOK', NEW p \in Producers, PushLink(p)
  PROVE  IInv'
<1>0. PICK s \in -1..L : Chain(s)
  BY DEF IInv
<1>1. /\ L \in Nat /\ P \in Nat /\ P <= L /\ s \in Int
      /\ \A i \in 1..L : order[i] \in Items
  BY Lengths DEF History, IInv
<1>2. /\ linking[p] # Nil /\ linking' = [linking EXCEPT ![p] = Nil]
      /\ next' = [next EXCEPT ![prev[p]] = linking[p]]
      /\ UNCHANGED <<consume_end, produce_end, prev, pc, node, after, stubPrev, deleted, order,
                     popped, emptyOk>>
  BY DEF PushLink, popVars
<1>3. L' = L /\ P' = P /\ Following(s)' = Following(s)
      /\ \A i \in Following(s) : Pred(s, i)' = Pred(s, i)
  BY <1>2 DEF L, P, Following, Pred
<1>4. PICK i \in Following(s) : linking[p] = order[i] /\ prev[p] = Pred(s, i)
  BY <1>0, <1>2 DEF Chain
<1>5. /\ \A j \in Following(s) : Pred(s, j) \in Nodes /\ Pred(s, j) # produce_end
      /\ \A j, k \in Following(s) : Pred(s, j) = Pred(s, k) => j = k
      /\ s > P => /\ order[s] \in Items /\ \A j \in Following(s) : Pred(s, j) # order[s]
      /\ produce_end \in Nodes
      /\ \A j \in Following(s) : Pred(s, j) = Stub \/ \E k \in P+1..L : Pred(s, j) = order[k]
  BY <1>0, ChainIsSimple DEF IInv
<1>6. next[Pred(s, i)] = Nil
  BY <1>0, <1>4 DEF Chain
<1>7. \A n \in Nodes : n # Pred(s, i) => next'[n] = next[n]
  BY <1>2, <1>4 DEF IInv, TypeOK
<1>8. next'[Pred(s, i)] = order[i]
  BY <1>2, <1>4, <1>5 DEF IInv, TypeOK
<1>9. \A q \in Producers \ {p} : linking'[q] = linking[q] /\ linking[q] # order[i]
  BY <1>2, <1>4 DEF IInv, TypeOK, History
<1>10. linking'[p] = Nil
  BY <1>2 DEF IInv, TypeOK
<1>11. \A j \in Following(s) : j \in 1..L /\ order[j] # Nil
  BY <1>1, Zenon DEF Following, IInv, Distinct
<1>12. History'
  <2>1. \A x \in Items : (\A j \in 1..L : order[j] # x) => next'[x] = Nil
    <3> SUFFICES ASSUME NEW x \in Items, \A j \in 1..L : order[j] # x
                 PROVE  next'[x] = Nil
      OBVIOUS
    <3>1. x \in Nodes /\ x # Pred(s, i)
      BY <1>1, <1>5 DEF IInv, Distinct, Nodes
    <3> QED
      BY <1>7, <3>1 DEF IInv, History
  <2>2. \A q, r \in Producers : linking'[q] = linking'[r] /\ linking'[q] # Nil => q = r
    BY <1>9, <1>10 DEF IInv, History
  <2> QED
    BY <1>2, <1>3, <2>1, <2>2, Zenon DEF IInv, History
<1>13. Consumer'
  <2>1. \A n \in Nodes : next[n] # Nil => next'[n] = next[n]
    BY <1>6, <1>7
  <2>2. pc # "idle" => node \in Nodes
    BY DEF IInv, Consumer, TypeOK
  <2>3. pc = "exchange" => next'[Stub] = Nil
    <3>1. pc = "exchange" => Pred(s, i) # Stub
      BY <1>0, <1>1, <1>4, <1>11 DEF Chain, Pred, IInv, Distinct, Following
    <3> QED
      BY <1>7, <3>1 DEF IInv, Consumer, Nodes
  <2>4. pc \in {"loaded", "take"} /\ after # Nil => next'[node] = after
    BY <2>1, <2>2, Zenon DEF IInv, Consumer
  <2> QED
    BY <1>2, <2>3, <2>4 DEF IInv, Consumer
<1>14. Chain(s)'
  <2>1. ASSUME NEW j \in Following(s)
        PROVE  next'[Pred(s, j)] =
                 IF \E q \in Producers : linking'[q] = order[j] THEN Nil ELSE order[j]
    <3>1. CASE j = i
      BY <1>8, <1>9, <1>10, <1>11, <3>1
    <3>2. CASE j # i
      <4>1. next'[Pred(s, j)] = next[Pred(s, j)]
        BY <1>5, <1>7, <3>2
      <4>2. order[j] # order[i]
        BY <1>11, <3>2 DEF IInv, History
      <4>3. (\E q \in Producers : linking'[q] = order[j]) <=> (\E q \in Producers : linking[q] = order[j])
        BY <1>4, <1>9, <1>10, <1>11, <4>2
      <4> QED
        BY <1>0, <4>1, <4>3, Zenon DEF Chain
    <3> QED
      BY <3>1, <3>2
  <2>2. ASSUME NEW q \in Producers, linking'[q] # Nil
        PROVE  \E j \in Following(s) : linking'[q] = order[j] /\ prev[q] = Pred(s, j)
    <3>1. linking'[q] = linking[q]
      BY <1>9, <1>10, <2>2
    <3> QED
      BY <1>0, <2>2, <3>1 DEF Chain
  <2>3. next'[produce_end] = Nil
    BY <1>0, <1>5, <1>7 DEF Chain
  <2>4. s > P => next'[order[s]] = IF pc = "link" THEN Nil ELSE Stub
    BY <1>0, <1>5, <1>7 DEF Chain, Nodes
  <2>5. \A j \in Following(s)' : next'[Pred(s, j)'] =
                 IF \E q \in Producers : linking'[q] = order'[j] THEN Nil ELSE order'[j]
    BY <1>2, <1>3, <2>1
  <2>6. \A q \in Producers : linking'[q] # Nil =>
          \E j \in Following(s)' : linking'[q] = order'[j] /\ prev'[q] = Pred(s, j)'
    BY <1>2, <1>3, <2>2
  <2> QED
    BY <1>0, <1>2, <1>3, <2>3, <2>4, <2>5, <2>6 DEF Chain
<1> QED
  BY <1>3, <1>12, <1>13, <1>14 DEF IInv, Distinct

\* A step of the consumer that writes no link keeps the chain.
LEMMA ChainKept ==
  ASSUME NEW s \in -1..L, Chain(s),
         UNCHANGED <<next, consume_end, produce_end, linking, prev, order, popped, stubPrev>>,
         pc' = "link" <=> pc = "link",
         pc' \in {"recycle", "exchange"} => s = -1,
         pc' \in {"reload", "take"} => s > P
  PROVE  Chain(s)' /\ s \in -1..L'
<1>1. /\ L' = L /\ P' = P /\ Following(s)' = Following(s)
      /\ \A i \in Following(s) : Pred(s, i)' = Pred(s, i)
  BY DEF L, P, Following, Pred
<1> QED
  BY <1>1 DEF Chain

\* A step that touches no link, push or pop leaves the history as it was.
LEMMA HistoryKept ==
  ASSUME History, UNCHANGED <<next, linking, order, popped, deleted>>
  PROVE  History'
  BY DEF History, L, P

\* A link that is missing at a node the consumer reads: the node is the end of
\* the chain, or a producer is between its two steps.
LEMMA MissingLink ==
  ASSUME IInv, pc # "link", NEW s \in -1..L, Chain(s), next[consume_end] = Nil
  PROVE  consume_end = produce_end \/ Busy
<1>1. /\ L \in Nat /\ P \in Nat /\ P <= L /\ s \in Int
      /\ \A i \in 1..L : order[i] \in Items
  BY Lengths DEF History, IInv
<1> SUFFICES ASSUME consume_end # produce_end PROVE Busy
  OBVIOUS
<1>2. CASE s = P
  <2>1. P + 1 \in Following(s) /\ Pred(s, P + 1) = Stub /\ consume_end = Stub
    BY <1>1, <1>2 DEF Chain, Following, Pred
  <2> QED
    BY <1>1, <2>1 DEF Chain, Following, Busy, IInv, Distinct
<1>3. CASE s = P + 1
  BY <1>1, <1>3 DEF Chain, IInv, Distinct
<1>4. CASE s # P /\ s # P + 1
  <2>1. P + 2 \in Following(s) /\ Pred(s, P + 2) = order[P + 1] /\ consume_end = order[P + 1]
    BY <1>1, <1>4 DEF Chain, Following, Pred
  <2> QED
    BY <1>1, <2>1 DEF Chain, Following, Busy, IInv, Distinct
<1> QED
  BY <1>2, <1>3, <1>4

\* The stub at both ends: everything pushed has been popped.
LEMMA StubAlone ==
  ASSUME IInv, NEW s \in -1..L, Chain(s), consume_end = Stub, produce_end = Stub
  PROVE  Drained
<1>1. /\ L \in Nat /\ P \in Nat /\ P <= L /\ s \in Int
      /\ \A i \in 1..L : order[i] # Stub
  BY Lengths DEF History, IInv, Distinct
<1>2. s = P
  BY <1>1 DEF Chain
<1>3. s = L
  BY <1>1, <1>2 DEF Chain
<1> QED
  BY <1>2, <1>3, Zenon DEF Drained, L, P

\* TryPop reads the consumer's end and its next pointer: nothing moves, and what
\* it may answer is settled by what it read.
LEMMA LoadStep ==
  ASSUME IInv, TypeOK', Load
  PROVE  IInv'
<1>0. PICK s \in -1..L : Chain(s)
  BY DEF IInv
<1>1. /\ pc = "idle" /\ pc' = "loaded" /\ node' = consume_end /\ after' = next[consume_end]
      /\ emptyOk' = (Drained \/ Busy)
      /\ UNCHANGED <<next, consume_end, produce_end, linking, prev, order, popped, stubPrev, deleted>>
  BY DEF Load, Goto, NoStep, pushVars
<1>2. Chain(s)' /\ s \in -1..L'
  BY <1>0, <1>1, ChainKept
<1>3. History'
  BY <1>1, HistoryKept DEF IInv
<1>4. after' = Nil => emptyOk' \/ (node' # Stub /\ node' = produce_end')
  <2> SUFFICES ASSUME after' = Nil, ~Drained, ~Busy
               PROVE  node' # Stub /\ node' = produce_end'
    BY <1>1, Zenon
  <2>1. consume_end = produce_end
    BY <1>0, <1>1, MissingLink
  <2> QED
    BY <1>0, <1>1, <2>1, StubAlone
<1>5. Consumer'
  BY <1>1, <1>4 DEF Consumer
<1> QED
  BY <1>2, <1>3, <1>5 DEF IInv, Distinct

\* Steps that end TryPop without an item, or look at the end of the queue.
LEMMA CheckTailStep ==
  ASSUME IInv, TypeOK', CheckTail
  PROVE  IInv'
<1>0. PICK s \in -1..L : Chain(s)
  BY DEF IInv
<1>1. /\ L \in Nat /\ P \in Nat /\ P <= L /\ s \in Int
      /\ \A i \in 1..L : order[i] \in Items
  BY Lengths DEF History, IInv
<1>2. /\ pc = "loaded" /\ node # Stub /\ after = Nil /\ node = consume_end
      /\ pc' = IF node = produce_end THEN "recycle" ELSE "empty"
      /\ UNCHANGED <<next, consume_end, produce_end, linking, prev, order, popped, stubPrev, deleted,
                     node, after>>
  BY DEF CheckTail, Goto, NoStep, pushVars, IsStub, AtTail, IInv, Consumer
<1>3. emptyOk' = (emptyOk \/ Drained \/ Busy)
  BY Zenon DEF CheckTail, Note
<1>4. node = produce_end => s = -1
  <2>1. s # P /\ consume_end = order[P + 1] /\ P + 1 \in 1..L
    BY <1>0, <1>1, <1>2 DEF Chain
  <2> QED
    BY <1>0, <1>1, <1>2, <2>1 DEF Chain, IInv, History
<1>5. Chain(s)' /\ s \in -1..L'
  BY <1>0, <1>2, <1>4, ChainKept
<1>6. History'
  BY <1>2, HistoryKept DEF IInv
<1>7. pc' = "empty" => emptyOk'
  <2>1. pc' = "empty" => emptyOk
    BY <1>2 DEF IInv, Consumer
  <2> QED
    BY <1>3, <2>1, Zenon
<1>8. Consumer'
  BY <1>2, <1>7 DEF Consumer
<1> QED
  BY <1>5, <1>6, <1>8 DEF IInv, Distinct

\* The consumer at the stub: with nothing behind it the queue is empty or being
\* pushed to; otherwise the stub leaves the chain.
LEMMA SkipStubStep ==
  ASSUME IInv, TypeOK', SkipStub
  PROVE  IInv'
<1>0. PICK s \in -1..L : Chain(s)
  BY DEF IInv
<1>1. /\ L \in Nat /\ P \in Nat /\ P <= L /\ s \in Int
      /\ \A i \in 1..L : order[i] \in Items
  BY Lengths DEF History, IInv
<1>2. /\ pc = "loaded" /\ node = Stub /\ consume_end = Stub
      /\ UNCHANGED <<next, produce_end, linking, prev, order, popped, stubPrev, deleted>>
  BY DEF SkipStub, NoStep, pushVars, IsStub, IInv, Consumer
<1>3. emptyOk' = (emptyOk \/ Drained \/ Busy)
  BY DEF SkipStub, Note
<1>4. History'
  BY <1>2, HistoryKept DEF IInv
<1>5. CASE after = Nil
  <2>1. pc' = "empty" /\ UNCHANGED <<consume_end, node, after>>
    BY <1>5 DEF SkipStub, Goto
  <2>2. Chain(s)' /\ s \in -1..L'
    BY <1>0, <1>2, <2>1, ChainKept
  <2>3. emptyOk'
    BY <1>2, <1>3, <1>5, Zenon DEF IInv, Consumer
  <2>4. Consumer'
    BY <1>2, <2>1, <2>3 DEF Consumer
  <2> QED
    BY <1>4, <2>2, <2>4 DEF IInv, Distinct
<1>6. CASE after # Nil
  <2>1. /\ pc' = "loaded" /\ consume_end' = after /\ node' = after /\ after' = next[after]
        /\ next[Stub] = after
    BY <1>2, <1>6, Zenon DEF SkipStub, Goto, IInv, Consumer
  <2>2. s = P
    BY <1>0, <1>1, <1>2 DEF Chain, IInv, Distinct
  <2>3. s < L
    BY <1>0, <1>1, <1>6, <2>1, <2>2 DEF Chain
  <2>4. P + 1 \in Following(s) /\ Pred(s, P + 1) = Stub
    BY <1>1, <2>2, <2>3 DEF Following, Pred
  <2>5. (~\E p \in Producers : linking[p] = order[P + 1]) /\ after = order[P + 1]
    BY <1>0, <1>6, <2>1, <2>4 DEF Chain
  <2>6. /\ L' = L /\ P' = P
        /\ Following(-1)' = Following(s) \ {P + 1}
        /\ \A i \in Following(-1)' : Pred(-1, i)' = Pred(s, i) /\ i \in 1..L
    BY <1>1, <1>2, <2>2, <2>3 DEF L, P, Following, Pred
  <2>7. \A p \in Producers : linking[p] # Nil =>
          \E i \in Following(-1)' : linking[p] = order[i] /\ prev[p] = Pred(-1, i)'
    BY <1>0, <2>5, <2>6 DEF Chain
  <2>8. \A i \in Following(-1)' :
          next[Pred(-1, i)'] = IF \E p \in Producers : linking[p] = order[i] THEN Nil ELSE order[i]
    BY <1>0, <2>6, Zenon DEF Chain
  <2>9. Chain(-1)'
    <3>1. /\ P' < L' /\ P' # -1 /\ L' # -1 /\ ~(-1 > P')
          /\ consume_end' = order'[P' + 1]
          /\ produce_end' = order'[L'] /\ next'[produce_end'] = Nil
      BY <1>0, <1>1, <1>2, <2>1, <2>2, <2>3, <2>5, <2>6 DEF Chain
    <3>2. \A p \in Producers : linking'[p] # Nil =>
            \E i \in Following(-1)' : linking'[p] = order'[i] /\ prev'[p] = Pred(-1, i)'
      BY <1>2, <2>7
    <3>3. \A i \in Following(-1)' :
            next'[Pred(-1, i)'] = IF \E p \in Producers : linking'[p] = order'[i] THEN Nil ELSE order'[i]
      BY <1>2, <2>8
    <3> QED
      BY <2>1, <3>1, <3>2, <3>3, Zenon DEF Chain
  <2>10. after' = Nil => emptyOk' \/ (node' # Stub /\ node' = produce_end')
    <3> SUFFICES ASSUME next[after] = Nil, ~Busy
                 PROVE  after # Stub /\ after = produce_end
      BY <1>2, <1>3, <2>1, Zenon
    <3>1. after # Stub
      BY <1>1, <2>2, <2>3, <2>5 DEF IInv, Distinct
    <3>2. CASE P + 1 = L
      BY <1>0, <1>1, <2>2, <2>3, <2>5, <3>1, <3>2 DEF Chain
    <3>3. CASE P + 1 < L
      <4>1. P + 2 \in Following(s) /\ Pred(s, P + 2) = after /\ order[P + 2] \in Items
        BY <1>1, <2>2, <2>5, <3>3 DEF Following, Pred
      <4> QED
        BY <1>0, <4>1 DEF Chain, Busy, IInv, Distinct
    <3> QED
      BY <1>1, <2>2, <2>3, <3>1, <3>2, <3>3
  <2>11. Consumer'
    BY <1>2, <2>1, <2>10 DEF Consumer
  <2>12. -1 \in -1..L'
    BY <1>1, <2>6
  <2> QED
    BY <1>4, <2>9, <2>11, <2>12 DEF IInv, Distinct
<1> QED
  BY <1>5, <1>6

\* The node is moved out of the chain and deleted: its link was in place, so no
\* producer is about to write to it.
LEMMA TakeStep ==
  ASSUME IInv, TypeOK', FastPath \/ TakeLast
  PROVE  IInv'
<1>0. PICK s \in -1..L : Chain(s)
  BY DEF IInv
<1>1. /\ L \in Nat /\ P \in Nat /\ P <= L /\ s \in Int
      /\ \A i \in 1..L : order[i] \in Items
  BY Lengths DEF History, IInv
<1>2. /\ pc \in {"loaded", "take"} /\ node # Stub /\ after # Nil
      /\ node = consume_end /\ next[node] = after
  BY DEF FastPath, TakeLast, IsStub, IInv, Consumer
<1>3. /\ consume_end' = after /\ popped' = Append(popped, node)
      /\ deleted' = deleted \cup {node} /\ pc' = "idle"
      /\ UNCHANGED <<next, produce_end, linking, prev, order>>
  BY DEF FastPath, TakeLast, TakeNode, Goto, NoStep, pushVars
<1>4. s # P /\ node = order[P + 1] /\ P < L
  BY <1>0, <1>2 DEF Chain
<1>5. /\ L' = L /\ P' = P + 1 /\ popped'[P + 1] = node
      /\ \A i \in 1..P : popped'[i] = popped[i]
  <2>1. popped \in Seq(Items) /\ node \in Items
    BY <1>1, <1>4 DEF IInv, TypeOK
  <2> QED
    BY <1>3, <2>1, SeqAppend DEF L, P
<1>6. after = IF s = P + 1 THEN Stub ELSE order[P + 2]
  <2>1. CASE s = P + 1
    BY <1>0, <1>1, <1>2, <1>4, <2>1 DEF Chain
  <2>2. CASE s # P + 1
    <3>1. P + 1 # L
      BY <1>0, <1>1, <1>2, <1>4, <2>2 DEF Chain
    <3>2. P + 2 \in Following(s) /\ Pred(s, P + 2) = node
      BY <1>1, <1>4, <2>2, <3>1 DEF Following, Pred
    <3> QED
      BY <1>0, <1>2, <2>2, <3>2 DEF Chain
  <2> QED
    BY <2>1, <2>2
<1>7. s # P + 1 => P + 1 < L
  BY <1>0, <1>1, <1>2, <1>4 DEF Chain
<1>8. History'
  <2>1. \A i \in 1..P' : popped'[i] = order'[i]
    BY <1>1, <1>3, <1>4, <1>5 DEF IInv, History
  <2>2. ASSUME NEW x \in deleted'
        PROVE  \E i \in 1..P' : x = order'[i]
    <3>1. CASE x = node
      BY <1>1, <1>3, <1>4, <1>5, <3>1
    <3>2. CASE x \in deleted
      <4>1. PICK i \in 1..P : x = order[i]
        BY <3>2 DEF IInv, History
      <4> QED
        BY <1>1, <1>3, <1>5, <4>1
    <3> QED
      BY <1>3, <3>1, <3>2
  <2>3. P' <= L'
    BY <1>1, <1>4, <1>5
  <2>4. /\ \A i, j \in 1..L' : order'[i] = order'[j] => i = j
        /\ \A p, q \in Producers : linking'[p] = linking'[q] /\ linking'[p] # Nil => p = q
        /\ \A x \in Items : (\A i \in 1..L' : order'[i] # x) => next'[x] = Nil
    BY <1>3, <1>5, Zenon DEF IInv, History
  <2> QED
    BY <2>1, <2>2, <2>3, <2>4 DEF History
<1>9. /\ \A i \in Following(s)' : i \in Following(s) /\ Pred(s, i)' = Pred(s, i)
      /\ \A i \in Following(s) : i \in Following(s)' \/ Pred(s, i) = node
  BY <1>0, <1>1, <1>3, <1>4, <1>5 DEF Following, Pred, Chain
<1>10. Chain(s)'
  <2>1. \A i \in Following(s)' :
          next'[Pred(s, i)'] = IF \E p \in Producers : linking'[p] = order'[i] THEN Nil ELSE order'[i]
    BY <1>0, <1>3, <1>9 DEF Chain
  <2>2. ASSUME NEW p \in Producers, linking'[p] # Nil
        PROVE  \E i \in Following(s)' : linking'[p] = order'[i] /\ prev'[p] = Pred(s, i)'
    <3>1. PICK i \in Following(s) : linking[p] = order[i] /\ prev[p] = Pred(s, i)
      BY <1>0, <1>3, <2>2, Zenon DEF Chain
    <3>2. next[Pred(s, i)] = Nil
      BY <1>0, <3>1, Zenon DEF Chain
    <3> QED
      BY <1>2, <1>3, <1>9, <3>1, <3>2
  <2>3. /\ s = -1 \/ s \in P'..L'
        /\ s # P' => P' < L'
        /\ consume_end' = IF s = P' THEN Stub ELSE order'[P' + 1]
        /\ produce_end' = IF s = L' THEN Stub ELSE order'[L']
        /\ next'[produce_end'] = Nil
    BY <1>0, <1>1, <1>3, <1>4, <1>5, <1>6, <1>7 DEF Chain
  <2>4. s > P' => next'[order'[s]] = Stub
    BY <1>0, <1>1, <1>2, <1>3, <1>5 DEF Chain
  <2> QED
    BY <1>3, <2>1, <2>2, <2>3, <2>4, Zenon DEF Chain
<1>11. Consumer'
  BY <1>3 DEF Consumer
<1>12. s \in -1..L'
  BY <1>5
<1> QED
  BY <1>8, <1>10, <1>11, <1>12 DEF IInv, Distinct

\* stub_.next = nullptr while the stub is not in the chain.
LEMMA RecycleClearStep ==
  ASSUME IInv, TypeOK', RecycleClear
  PROVE  IInv'
<1>0. PICK s \in -1..L : Chain(s)
  BY DEF IInv
<1>1. /\ L \in Nat /\ P \in Nat /\ P <= L
      /\ \A i \in 1..L : order[i] \in Items
  BY Lengths DEF History, IInv
<1>2. /\ pc = "recycle" /\ pc' = "exchange" /\ next' = [next EXCEPT ![Stub] = Nil]
      /\ node = consume_end /\ node # Stub
      /\ UNCHANGED <<consume_end, produce_end, linking, prev, order, popped, stubPrev, deleted,
                     node, after>>
  BY DEF RecycleClear, ClearStub, Goto, NoStep, pushVars, IInv, Consumer
<1>3. s = -1 /\ L' = L /\ P' = P
  BY <1>0, <1>2 DEF Chain, L, P
<1>4. next'[Stub] = Nil /\ \A n \in Nodes : n # Stub => next'[n] = next[n]
  BY <1>2 DEF IInv, TypeOK, Nodes
<1>5. History'
  BY <1>1, <1>2, <1>3, <1>4 DEF IInv, History, Distinct, Nodes
<1>6. \A i \in Following(s) :
        /\ i \in Following(s)' /\ Pred(s, i)' = Pred(s, i)
        /\ Pred(s, i) \in Nodes /\ Pred(s, i) # Stub
  BY <1>1, <1>2, <1>3 DEF Following, Pred, Nodes, IInv, Distinct
<1>7. Following(s)' = Following(s)
  BY <1>2, <1>3, Zenon DEF Following
<1>8. Chain(s)'
  <2>1. \A i \in Following(s)' :
          next'[Pred(s, i)'] = IF \E p \in Producers : linking'[p] = order'[i] THEN Nil ELSE order'[i]
    BY <1>0, <1>2, <1>4, <1>6, <1>7 DEF Chain
  <2>2. \A p \in Producers : linking'[p] # Nil =>
          \E i \in Following(s)' : linking'[p] = order'[i] /\ prev'[p] = Pred(s, i)'
    BY <1>0, <1>2, <1>6, <1>7 DEF Chain
  <2>3. /\ s # P /\ P < L /\ s # L /\ ~(s > P)
        /\ consume_end = order[P + 1] /\ produce_end = order[L] /\ produce_end \in Items
        /\ next[produce_end] = Nil
    BY <1>0, <1>1, <1>3 DEF Chain
  <2>4. next'[produce_end] = Nil
    BY <1>4, <2>3 DEF IInv, Distinct, Nodes
  <2> QED
    BY <1>2, <1>3, <2>1, <2>2, <2>3, <2>4, Zenon DEF Chain
<1>9. Consumer'
  BY <1>2, <1>4 DEF Consumer
<1> QED
  BY <1>3, <1>5, <1>8, <1>9 DEF IInv, Distinct

\* produce_end_.exchange(&stub_): the stub is the end of the chain, and the
\* consumer owes the link to it.
LEMMA RecycleExchangeStep ==
  ASSUME IInv, TypeOK', RecycleExchange
  PROVE  IInv'
<1>0. PICK s \in -1..L : Chain(s)
  BY DEF IInv
<1>1. /\ L \in Nat /\ P \in Nat /\ P <= L
      /\ \A i \in 1..L : order[i] \in Items
  BY Lengths DEF History, IInv
<1>2. /\ pc = "exchange" /\ pc' = "link" /\ stubPrev' = produce_end /\ produce_end' = Stub
      /\ node = consume_end /\ node # Stub /\ next[Stub] = Nil
      /\ UNCHANGED <<next, consume_end, linking, prev, order, popped, deleted, node, after>>
  BY DEF RecycleExchange, Goto, NoStep, pushVars, IInv, Consumer
<1>3. s = -1 /\ L' = L /\ P' = P
  BY <1>0, <1>2 DEF Chain, L, P
<1>4. History'
  BY <1>2, HistoryKept DEF IInv
<1>5. PICK n \in Nat : n = L
  BY <1>1, Zenon
<1>6. /\ P < L /\ consume_end = order[P + 1] /\ produce_end = order[L] /\ next[order[L]] = Nil
  BY <1>0, <1>1, <1>3 DEF Chain
<1>7. /\ Following(n)' = Following(s)
      /\ \A i \in Following(s) : Pred(n, i)' = Pred(s, i)
  BY <1>1, <1>2, <1>3, <1>5, <1>6 DEF Following, Pred
<1>8. Chain(n)'
  <2>1. \A i \in Following(n)' :
          next'[Pred(n, i)'] = IF \E p \in Producers : linking'[p] = order'[i] THEN Nil ELSE order'[i]
    BY <1>0, <1>2, <1>7, ZenonT(60) DEF Chain
  <2>2. \A p \in Producers : linking'[p] # Nil =>
          \E i \in Following(n)' : linking'[p] = order'[i] /\ prev'[p] = Pred(n, i)'
    BY <1>0, <1>2, <1>7 DEF Chain
  <2>3. n \in P'..L' /\ n = L' /\ n # P' /\ P' < L' /\ n > P'
    BY <1>1, <1>3, <1>5, <1>6
  <2>4. consume_end' = order'[P' + 1] /\ next'[produce_end'] = Nil /\ next'[order'[n]] = Nil
    BY <1>2, <1>3, <1>5, <1>6
  <2>5. stubPrev' = order'[n]
    BY <1>2, <1>5, <1>6
  <2> QED
    BY <1>2, <2>1, <2>2, <2>3, <2>4, <2>5, Zenon DEF Chain
<1>9. Consumer'
  BY <1>2 DEF Consumer
<1>10. n \in -1..L'
  BY <1>1, <1>3, <1>5
<1> QED
  BY <1>4, <1>8, <1>9, <1>10 DEF IInv, Distinct

\* prev->next = &stub_: the consumer pays its link.
LEMMA RecycleLinkStep ==
  ASSUME IInv, TypeOK', RecycleLink
  PROVE  IInv'
<1>0. PICK s \in -1..L : Chain(s)
  BY DEF IInv
<1>1. /\ L \in Nat /\ P \in Nat /\ P <= L /\ s \in Int
      /\ \A i \in 1..L : order[i] \in Items
  BY Lengths DEF History, IInv
<1>2. /\ pc = "link" /\ pc' = "reload" /\ next' = [next EXCEPT ![stubPrev] = Stub]
      /\ node = consume_end /\ node # Stub
      /\ UNCHANGED <<consume_end, produce_end, linking, prev, order, popped, stubPrev, deleted,
                     node, after>>
  BY DEF RecycleLink, LinkStub, Goto, NoStep, pushVars, IInv, Consumer
<1>3. s > P /\ stubPrev = order[s] /\ L' = L /\ P' = P /\ s \in 1..L
  BY <1>0, <1>1, <1>2 DEF Chain, L, P
<1>4. /\ next'[order[s]] = Stub /\ order[s] \in Items
      /\ \A n \in Nodes : n # order[s] => next'[n] = next[n]
  BY <1>1, <1>2, <1>3, Zenon DEF IInv, TypeOK, Nodes
<1>5. History'
  BY <1>2, <1>3, <1>4 DEF IInv, History, Nodes
<1>6. /\ \A i \in Following(s) : Pred(s, i) \in Nodes /\ Pred(s, i) # order[s]
      /\ order[s] # produce_end /\ produce_end \in Nodes
  BY <1>0, <1>3, ChainIsSimple DEF IInv
<1>7. Following(s)' = Following(s) /\ \A i \in Following(s) : Pred(s, i)' = Pred(s, i)
  BY <1>2, <1>3, ZenonT(40) DEF Following, Pred
<1>8. Chain(s)'
  <2>1. \A i \in Following(s)' :
          next'[Pred(s, i)'] = IF \E p \in Producers : linking'[p] = order'[i] THEN Nil ELSE order'[i]
    BY <1>0, <1>2, <1>4, <1>6, <1>7 DEF Chain
  <2>2. \A p \in Producers : linking'[p] # Nil =>
          \E i \in Following(s)' : linking'[p] = order'[i] /\ prev'[p] = Pred(s, i)'
    BY <1>0, <1>2, <1>7 DEF Chain
  <2>3. next'[produce_end] = Nil
    BY <1>0, <1>4, <1>6 DEF Chain
  <2> QED
    BY <1>0, <1>2, <1>3, <1>4, <2>1, <2>2, <2>3, Zenon DEF Chain
<1>9. Consumer'
  BY <1>2 DEF Consumer
<1> QED
  BY <1>3, <1>5, <1>8, <1>9 DEF IInv, Distinct

\* With the stub behind it the node has a successor: only a producer in mid-push
\* can make the second look fail.
LEMMA ReloadStep ==
  ASSUME IInv, TypeOK', Reload
  PROVE  IInv'
<1>0. PICK s \in -1..L : Chain(s)
  BY DEF IInv
<1>1. /\ pc = "reload" /\ after' = next[node] /\ pc' = AfterReload
      /\ node = consume_end /\ node # Stub
      /\ UNCHANGED <<next, consume_end, produce_end, linking, prev, order, popped, stubPrev, deleted,
                     node>>
  BY DEF Reload, Goto, NoStep, pushVars, IInv, Consumer
<1>2. emptyOk' = (emptyOk \/ Drained \/ Busy)
  BY DEF Reload, Note
<1>3. pc' \in {"empty", "take"} /\ (pc' = "empty" <=> next[node] = Nil)
  BY <1>1, Zenon DEF AfterReload
<1>4. s > P
  BY <1>0, <1>1 DEF Chain
<1>5. Chain(s)' /\ s \in -1..L'
  BY <1>0, <1>1, <1>3, <1>4, ChainKept
<1>6. History'
  BY <1>1, HistoryKept DEF IInv
<1>7. pc' = "empty" => emptyOk'
  <2>1. consume_end # produce_end
    <3>1. /\ L \in Nat /\ P \in Nat /\ P <= L /\ s \in Int
          /\ \A i \in 1..L : order[i] \in Items
      BY Lengths DEF History, IInv
    <3>2. /\ consume_end = order[P + 1] /\ P + 1 \in 1..L /\ s # P
          /\ produce_end = Stub \/ (produce_end = order[L] /\ L \in 1..L /\ P + 1 # L)
      BY <1>0, <1>4, <3>1 DEF Chain
    <3> QED
      BY <1>1, <3>1, <3>2, Zenon DEF IInv, History
  <2> QED
    BY <1>0, <1>1, <1>2, <1>3, <2>1, MissingLink, Zenon
<1>8. Consumer'
  BY <1>1, <1>3, <1>7 DEF Consumer
<1> QED
  BY <1>5, <1>6, <1>8 DEF IInv, Distinct

\* TryPop returns FALSE.
LEMMA ReturnEmptyStep ==
  ASSUME IInv, TypeOK', ReturnEmpty
  PROVE  IInv'
<1>0. PICK s \in -1..L : Chain(s)
  BY DEF IInv
<1>1. /\ pc = "empty" /\ pc' = "idle"
      /\ UNCHANGED <<next, consume_end, produce_end, linking, prev, order, popped, stubPrev, deleted>>
  BY DEF ReturnEmpty, Goto, NoStep, pushVars
<1>2. Chain(s)' /\ s \in -1..L'
  BY <1>0, <1>1, ChainKept
<1>3. History' /\ Consumer'
  BY <1>1, HistoryKept DEF IInv, Consumer
<1> QED
  BY <1>2, <1>3 DEF IInv, Distinct

-----------------------------------------------------------------------------
\* Every step preserves the invariant.
LEMMA NextIInv == IInv /\ [Next]_vars => IInv'
<1> SUFFICES ASSUME IInv, [Next]_vars PROVE IInv'
  OBVIOUS
<1>1. TypeOK'
  BY TypeStep
<1>2. CASE UNCHANGED vars
  <2>0. PICK s \in -1..L : Chain(s)
    BY DEF IInv
  <2>1. UNCHANGED <<next, consume_end, produce_end, linking, prev, pc, node, after, stubPrev,
                    deleted, order, popped, emptyOk>>
    BY <1>2 DEF vars, pushVars, popVars
  <2>2. Chain(s)' /\ s \in -1..L'
    <3>1. pc \in {"recycle", "exchange"} => s = -1
      BY <2>0 DEF Chain
    <3>2. pc \in {"reload", "take"} => s > P
      BY <2>0 DEF Chain
    <3> QED
      BY <2>0, <2>1, <3>1, <3>2, ChainKept, Zenon
  <2>3. History' /\ Consumer'
    BY <2>1, HistoryKept DEF IInv, Consumer
  <2> QED
    BY <1>1, <2>2, <2>3 DEF IInv, Distinct
<1>3. ASSUME NEW p \in Producers, NEW x \in Items, PushExchange(p, x)
      PROVE  IInv'
  BY <1>1, <1>3, PushExchangeStep
<1>4. ASSUME NEW p \in Producers, PushLink(p)
      PROVE  IInv'
  BY <1>1, <1>4, PushLinkStep
<1>5. CASE Load
  BY <1>1, <1>5, LoadStep
<1>6. CASE SkipStub
  BY <1>1, <1>6, SkipStubStep
<1>7. CASE FastPath \/ TakeLast
  BY <1>1, <1>7, TakeStep
<1>8. CASE CheckTail
  BY <1>1, <1>8, CheckTailStep
<1>9. CASE RecycleClear
  BY <1>1, <1>9, RecycleClearStep
<1>10. CASE RecycleExchange
  BY <1>1, <1>10, RecycleExchangeStep
<1>11. CASE RecycleLink
  BY <1>1, <1>11, RecycleLinkStep
<1>12. CASE Reload
  BY <1>1, <1>12, ReloadStep
<1>13. CASE ReturnEmpty
  BY <1>1, <1>13, ReturnEmptyStep
<1> QED
  BY <1>2, <1>3, <1>4, <1>5, <1>6, <1>7, <1>8, <1>9, <1>10, <1>11, <1>12, <1>13
  DEF Next, TryPop

\* The chain puts every node that somebody will still use behind the popped ones.
LEMMA InvariantSuffices == IInv => PopsInPushOrder
<1> SUFFICES ASSUME IInv PROVE PopsInPushOrder
  OBVIOUS
<1>0. PICK s \in -1..L : Chain(s)
  BY Zenon DEF IInv
<1>1. /\ L \in Nat /\ P \in Nat /\ P <= L /\ s \in Int
      /\ \A i \in 1..L : order[i] \in Items
  BY Lengths DEF History, IInv
<1>2. ItemsInOrder
  <2>1. /\ Len(SubSeq(order, 1, P)) = P /\ SubSeq(order, 1, P) \in Seq(Items)
        /\ \A i \in 1..P : SubSeq(order, 1, P)[i] = order[i]
    BY <1>1, SeqPrefix DEF IInv, TypeOK, L
  <2>2. popped \in Seq(Items) /\ Len(popped) = P /\ \A i \in 1..P : popped[i] = order[i]
    BY DEF IInv, History, TypeOK, P
  <2>3. popped = SubSeq(order, 1, P)
    BY <2>1, <2>2, SeqEqual
  <2> QED
    BY <1>1, <2>3 DEF ItemsInOrder, L, P
<1>3. \A k \in P+1..L : order[k] \notin deleted
  BY <1>1 DEF IInv, History
<1>4. Stub \notin deleted
  BY Zenon DEF IInv, TypeOK, Distinct
<1>5. consume_end \notin deleted /\ produce_end \notin deleted
  BY <1>0, <1>1, <1>3, <1>4 DEF Chain
<1>6. pc = "link" => stubPrev \notin deleted
  BY <1>0, <1>1, <1>3 DEF Chain
<1>7. \A i \in Following(s) : Pred(s, i) \notin deleted
  BY <1>0, <1>3, <1>4, ChainIsSimple DEF IInv
<1>8. \A p \in Producers : linking[p] # Nil => prev[p] \notin deleted
  BY <1>0, <1>7, Zenon DEF Chain
<1>9. NoUseAfterDelete
  BY <1>5, <1>6, <1>8 DEF NoUseAfterDelete, IInv, Consumer
<1>10. EmptyIsTrue
  BY DEF EmptyIsTrue, IInv, Consumer
<1> QED
  BY <1>2, <1>9, <1>10 DEF PopsInPushOrder, IInv

\* MpscQueue::Push and TryPop, for any number of producers: items come out once
\* each and in exchange order, FALSE is returned only for a queue that was empty
\* or in mid-push, and nobody touches a node after it was deleted.
THEOREM QueueIsSafe == Distinct /\ Spec => []PopsInPushOrder
<1>1. Distinct /\ Init => IInv
  BY InitIInv
<1> QED
  BY <1>1, NextIInv, InvariantSuffices, PTL DEF Spec
=============================================================================
