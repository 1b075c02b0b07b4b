---------------------------- MODULE InboxStore -----------------------------
(***************************************************************************)
(* The store of webhook_inbox: events are appended to a log file and kept  *)
(* in memory; a deletion is a line of its own; Init replays the log after  *)
(* a restart.  A write of the log may be cut short, by a full disk or by a *)
(* crash: the fragment it leaves has no newline, and the next line is      *)
(* appended to it.  A line is represented by what Init makes of its text,  *)
(* which is searched for the names of keys and not parsed.                 *)
(***************************************************************************)
EXTENDS Integers, Sequences, SequencesExt

CONSTANTS Events,      \* ids of the events captured; GenerateId makes them new
          MaxFaults    \* bound on failed writes and crashes

VARIABLE s

(* s.log: the lines of events.jsonl, the last one perhaps a fragment;      *)
(* s.byId: by_id_; s.expired: events whose expires_at has passed;          *)
(* s.answered: the last answer about an event (history); s.unlogged:       *)
(* events whose deletion cannot be read from the log (history).            *)
Init == s = [log |-> <<>>, byId |-> <<>>, expired |-> {}, unlogged |-> {},
             answered |-> [e \in Events |-> "none"], faults |-> MaxFaults]

Without(seq, gone) == SelectSeq(seq, LAMBDA e : e \notin gone)

(* A line reads as an event, as a deletion, as neither ("unreadable"), or  *)
(* would with more text ("short"); `id' is the id it gives.  No event has  *)
(* the id Garbled; NoId stands for a fragment that ends before its id.     *)
Garbled == "garbled"
NoId == "none"
Line(reads, e) == [reads |-> reads, id |-> e, cut |-> FALSE, joined |-> FALSE]

(* EventJson, as ExtractJsonString, ExtractJsonUint and ParseEvent read it *)
(* back: the first match of a key counts, be it a key or a value.  A value *)
(* "deleted_id" makes the line a deletion of what the value after it says; *)
(* a value such as "size" hides the number.                                *)
Deletions == {Line("deleted", x) : x \in Events \cup {Garbled}}
EventLines(e) == {Line("event", e), Line("unreadable", e)} \cup Deletions

(* What is left of a line when its write is cut: enough to be an event, or *)
(* not, up to a part of the id.  A deletion may read as one of something   *)
(* else, completed by the line behind it.                                  *)
Cut(lines) == {[l EXCEPT !.cut = TRUE] : l \in lines}
EventFragments(e) == Cut(EventLines(e) \cup {Line("short", x) : x \in {e, Garbled, NoId}})
DeletionFragments == Cut(Deletions \cup {Line("short", NoId)})

(* A line behind the fragment `f'. *)
Read(f, l) ==
    IF f.reads = "deleted" THEN f
    ELSE IF l.reads = "deleted" THEN l
    ELSE IF f.reads # "short" THEN f
    ELSE IF f.id = NoId THEN l
    ELSE [l EXCEPT !.id = f.id]
Joined(f, l) == [Read(f, l) EXCEPT !.cut = l.cut, !.joined = TRUE]

(* Mutant: lines of deletions are skipped. *)
ReplayOnlyEvents(byId, l) == IF l.reads = "event" THEN Append(byId, l.id) ELSE byId

(* One turn of the loop of InboxStore::Init; a fragment at the end of the  *)
(* file is a line too.                                                     *)
ReplayLine(byId, l) ==
    IF l.reads = "deleted" THEN Without(byId, {l.id})
    ELSE IF l.reads = "event" THEN Append(byId, l.id)
    ELSE byId

Replay(log) == FoldLeft(ReplayLine, <<>>, log)

CleanupExpired(x) == [x EXCEPT !.byId = Without(@, x.expired)]

Fault(x) == [x EXCEPT !.faults = @ - 1]
AfterFragment(x) == x.log # <<>> /\ Last(x.log).cut
Logged(x, l) ==
    [x EXCEPT !.log = IF AfterFragment(x) THEN Append(Front(@), Joined(Last(@), l))
                      ELSE Append(@, l)]

(* CaptureWebhook and Put.  When the log cannot be opened, or the write is *)
(* cut and the stream notices, the answer is 500; a line that fits the     *)
(* stream's buffer is written when the stream closes, unnoticed.           *)
Put(e) ==
    LET x == CleanupExpired(s)
        kept == [x EXCEPT !.byId = Append(@, e), !.answered[e] = "201"]
        refused == [Fault(x) EXCEPT !.answered[e] = "500"]
    IN  /\ s.answered[e] = "none"
        /\ \/ \E l \in EventLines(e) : s' = Logged(kept, l)
           \/ /\ s.faults > 0
              /\ \E x1 \in {refused, Fault(kept)} :
                   s' = x1 \/ \E l \in EventFragments(e) : s' = Logged(x1, l)

Listed(x, e) == e \in ToSet(x.byId) \ x.expired

(* DeleteEvent and Remove; the answer is 204 whether or not the line of    *)
(* the deletion is written.  Behind a fragment that reads as a deletion it *)
(* is not read.                                                            *)
RemoveEvent(e) ==
    LET x == CleanupExpired(s)
        gone == [x EXCEPT !.byId = Without(@, {e}), !.answered[e] = "204"]
        unlogged == [gone EXCEPT !.unlogged = @ \cup {e}]
        hidden == AfterFragment(s) /\ Last(s.log).reads = "deleted"
    IN  /\ Listed(s, e)
        /\ \/ s' = Logged(IF hidden THEN unlogged ELSE gone, Line("deleted", e))
           \/ /\ s.faults > 0
              /\ \/ s' = Fault(unlogged)
                 \/ \E l \in DeletionFragments : s' = Logged(Fault(unlogged), l)

(* expires_at passes; whichever request or the cleanup thread comes next   *)
(* runs CleanupExpired.                                                    *)
Expire(e) == s.answered[e] # "none" /\ e \notin s.expired /\ s' = [s EXCEPT !.expired = @ \cup {e}]
Cleanup == s.byId # CleanupExpired(s).byId /\ s' = CleanupExpired(s)

(* The process ends, perhaps inside a write of Put or of Remove, and       *)
(* starts again.                                                           *)
Restarted(x) == Fault([x EXCEPT !.byId = Replay(x.log)])
Interrupted(e, l) == [Logged(s, l) EXCEPT !.answered[e] = "crash"]
Restart ==
    /\ s.faults > 0
    /\ \/ s' = Restarted(s)
       \/ \E e \in Events :
            \/ /\ s.answered[e] = "none"
               /\ \E l \in EventFragments(e) : s' = Restarted(Interrupted(e, l))
            \/ /\ Listed(s, e)
               /\ \E l \in DeletionFragments : s' = Restarted(Interrupted(e, l))

Next == (\E e \in Events : Put(e) \/ RemoveEvent(e) \/ Expire(e)) \/ Cleanup \/ Restart

Spec == Init /\ [][Next]_s

-----------------------------------------------------------------------------
(* The line of an event was cut or never written, does not read as the    *)
(* event, or stands behind a fragment.                                     *)
Hurt(e) == Line("event", e) \notin ToSet(s.log)

(* A line that is not its deletion reads as the deletion of an event. *)
Misread(e) == \E l \in ToSet(s.log) : l.reads = "deleted" /\ l.id = e

(* Before and after any number of restarts, an event that was answered     *)
(* with 201 is in the store until it expires or is deleted, and one whose  *)
(* deletion was answered stays deleted.  The log does not keep the first   *)
(* promise to an event whose own line is damaged, stands behind a fragment *)
(* or holds the name of a key as a value, nor to one that such a line      *)
(* names as deleted; nor the second where the line of the deletion was not *)
(* written whole or stands behind a fragment that reads as a deletion      *)
(* (InboxStore::Init, ExtractJsonString, ParseEvent).                      *)
AnsweredSurvives ==
    \A e \in Events \ s.expired, ids \in {ToSet(s.byId), ToSet(Replay(s.log))} :
        /\ s.answered[e] = "201" /\ ~Hurt(e) /\ ~Misread(e) => e \in ids
        /\ s.answered[e] = "204" /\ e \notin s.unlogged => e \notin ids
=============================================================================
