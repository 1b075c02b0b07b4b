----------------------------- MODULE MpscQueue -----------------------------
(***************************************************************************)
(* The lock-free queue of include/iouring_runtime/core/MpscQueue.h: many   *)
(* producers, one consumer, one action per atomic access.  A node is       *)
(* identified with the item it carries.  `order` is the order in which     *)
(* nodes were exchanged into produce_end_, `popped` what TryPop returned.  *)
(***************************************************************************)
EXTENDS Integers, Sequences, FiniteSets, Functions

CONSTANTS Producers, Items, Stub, Nil   \* Stub and Nil differ and are not items

Nodes == Items \cup {Stub}

VARIABLES
  next,             \* the next field of every node
  consume_end, produce_end,
  linking,          \* producer: the node that replaced prev, not yet linked
  prev,             \* producer: the node it has to link from
  pc,               \* consumer: where it is in TryPop
  node, after,      \* consumer: its locals node and next
  stubPrev,         \* consumer: prev in its own PushNode(&stub_)
  deleted,          \* nodes given back
  order, popped,    \* history
  emptyOk           \* TryPop may rightly say that nothing is there

pushVars == <<linking, prev>>
popVars == <<pc, node, after, stubPrev>>
vars == <<next, consume_end, produce_end, pushVars, popVars, deleted, order, popped, emptyOk>>

Init ==
  /\ next = [n \in Nodes |-> Nil]
  /\ consume_end = Stub /\ produce_end = Stub
  /\ linking = [p \in Producers |-> Nil]
  /\ prev = [p \in Producers |-> Nil]
  /\ pc = "idle"
  /\ node = Nil /\ after = Nil /\ stubPrev = Nil
  /\ deleted = {}
  /\ order = <<>> /\ popped = <<>>
  /\ emptyOk = TRUE

Busy == \E p \in Producers : linking[p] # Nil
Drained == Len(popped) = Len(order)

\* TryPop may miss an item only if the queue was empty, or a producer was
\* between its two steps, at some moment of the call.
Note == emptyOk' = (emptyOk \/ Drained \/ Busy)

-----------------------------------------------------------------------------
(* Push: produce_end_.exchange(node), then prev->next = node *)

PushExchange(p, x) ==
  /\ linking[p] = Nil
  /\ x \notin Range(order)
  /\ linking' = [linking EXCEPT ![p] = x]
  /\ prev' = [prev EXCEPT ![p] = produce_end]
  /\ produce_end' = x
  /\ order' = Append(order, x)
  /\ emptyOk' = TRUE
  /\ UNCHANGED <<next, consume_end, popVars, deleted, popped>>

PushLink(p) ==
  /\ linking[p] # Nil
  /\ next' = [next EXCEPT ![prev[p]] = linking[p]]
  /\ linking' = [linking EXCEPT ![p] = Nil]
  /\ UNCHANGED <<consume_end, produce_end, prev, popVars, deleted, order, popped, emptyOk>>

-----------------------------------------------------------------------------
(* TryPop *)

Goto(where) == pc' = where
NoStep == UNCHANGED <<pushVars, order>>

\* The loads of consume_end_ and node->next.
Load ==
  /\ pc = "idle"
  /\ node' = consume_end
  /\ after' = next[consume_end]
  /\ Goto("loaded")
  /\ emptyOk' = (Drained \/ Busy)
  /\ UNCHANGED <<next, consume_end, produce_end, stubPrev, deleted, popped>> /\ NoStep

IsStub == node = Stub

\* At the stub: nothing behind it, or step over it.
SkipStub ==
  /\ pc = "loaded" /\ IsStub
  /\ \/ /\ after = Nil
        /\ Goto("empty")
        /\ UNCHANGED <<consume_end, node, after>>
     \/ /\ after # Nil
        /\ consume_end' = after
        /\ node' = after
        /\ after' = next[after]
        /\ Goto("loaded")
  /\ Note
  /\ UNCHANGED <<next, produce_end, stubPrev, deleted, popped>> /\ NoStep

\* The node has a successor: move to it, take the value and delete the node.
TakeNode ==
  /\ consume_end' = after
  /\ popped' = Append(popped, node)
  /\ deleted' = deleted \cup {node}
  /\ Goto("idle")

FastPath ==
  /\ pc = "loaded" /\ ~IsStub /\ after # Nil
  /\ TakeNode
  /\ Note
  /\ UNCHANGED <<next, produce_end, node, after, stubPrev>> /\ NoStep

\* node is the last one as far as producers are concerned.
AtTail == node = produce_end

\* The last node: is it the tail, or is a producer in mid-push?
CheckTail ==
  /\ pc = "loaded" /\ ~IsStub /\ after = Nil
  /\ Goto(IF AtTail THEN "recycle" ELSE "empty")
  /\ Note
  /\ UNCHANGED <<next, consume_end, produce_end, node, after, stubPrev, deleted, popped>> /\ NoStep

\* Mutant: the stub keeps its old successor.
StubKeepsNext == UNCHANGED next

ClearStub == next' = [next EXCEPT ![Stub] = Nil]

\* stub_.next = nullptr, then PushNode(&stub_) in its two steps.
RecycleClear ==
  /\ pc = "recycle"
  /\ ClearStub
  /\ Goto("exchange")
  /\ Note
  /\ UNCHANGED <<consume_end, produce_end, node, after, stubPrev, deleted, popped>> /\ NoStep

RecycleExchange ==
  /\ pc = "exchange"
  /\ stubPrev' = produce_end
  /\ produce_end' = Stub
  /\ Goto("link")
  /\ Note
  /\ UNCHANGED <<next, consume_end, node, after, deleted, popped>> /\ NoStep

LinkStub == next' = [next EXCEPT ![stubPrev] = Stub]

RecycleLink ==
  /\ pc = "link"
  /\ LinkStub
  /\ Goto("reload")
  /\ Note
  /\ UNCHANGED <<consume_end, produce_end, node, after, stubPrev, deleted, popped>> /\ NoStep

\* Mutant: after recycling the stub TryPop gives up.
ReloadGivesUp == "empty"

AfterReload == IF next[node] = Nil THEN "empty" ELSE "take"

Reload ==
  /\ pc = "reload"
  /\ after' = next[node]
  /\ Goto(AfterReload)
  /\ Note
  /\ UNCHANGED <<next, consume_end, produce_end, node, stubPrev, deleted, popped>> /\ NoStep

TakeLast ==
  /\ pc = "take"
  /\ TakeNode
  /\ Note
  /\ UNCHANGED <<next, produce_end, node, after, stubPrev>> /\ NoStep

\* TryPop returns FALSE, and Drain returns.
ReturnEmpty ==
  /\ pc = "empty"
  /\ Goto("idle")
  /\ UNCHANGED <<next, consume_end, produce_end, node, after, stubPrev, deleted, popped,
                 emptyOk>> /\ NoStep

TryPop == \/ Load \/ SkipStub \/ FastPath \/ CheckTail \/ RecycleClear \/ RecycleExchange
          \/ RecycleLink \/ Reload \/ TakeLast \/ ReturnEmpty

Next ==
  \/ \E p \in Producers : PushLink(p) \/ \E x \in Items : PushExchange(p, x)
  \/ TryPop

Spec == Init /\ [][Next]_vars

\* A producer that has begun a push is scheduled again, and the consumer keeps
\* draining.
FairSpec == /\ Spec
            /\ \A p \in Producers : WF_vars(PushLink(p))
            /\ WF_vars(TryPop)

-----------------------------------------------------------------------------
(* Properties *)

Places == {"idle", "loaded", "empty", "recycle", "exchange", "link", "reload", "take"}

\* The types of the variables.
TypeOK ==
  /\ next \in [Nodes -> Nodes \cup {Nil}]
  /\ consume_end \in Nodes /\ produce_end \in Nodes
  /\ linking \in [Producers -> Items \cup {Nil}]
  /\ prev \in [Producers -> Nodes \cup {Nil}]
  /\ pc \in Places
  /\ node \in Nodes \cup {Nil} /\ after \in Nodes \cup {Nil}
  /\ stubPrev \in Nodes \cup {Nil}
  /\ deleted \subseteq Items
  /\ order \in Seq(Items) /\ popped \in Seq(Items)
  /\ emptyOk \in BOOLEAN

\* Items come out once each, in the order in which the producers exchanged
\* them in, through any number of trips of the stub.
ItemsInOrder == Len(popped) <= Len(order) /\ popped = SubSeq(order, 1, Len(popped))

\* Nobody holds a pointer to a deleted node that it will still use: not the
\* consumer, and not a producer that has yet to link its predecessor.
NoUseAfterDelete ==
  /\ consume_end \notin deleted /\ produce_end \notin deleted
  /\ pc # "idle" => node \notin deleted
  /\ pc = "link" => stubPrev \notin deleted
  /\ \A p \in Producers : linking[p] # Nil => prev[p] \notin deleted

\* TryPop says the queue is empty only if it was, or if a producer was between
\* exchange and link (the "blocking window" of the code's comments), at some
\* moment of the call.
EmptyIsTrue == pc = "empty" => emptyOk

\* What the queue promises: items come out once each, in the order of the
\* exchanges, a false result of TryPop is justified, and no deleted node is used.
PopsInPushOrder == TypeOK /\ ItemsInOrder /\ EmptyIsTrue /\ NoUseAfterDelete
=============================================================================
