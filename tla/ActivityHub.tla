---------------------------- MODULE ActivityHub ----------------------------
(***************************************************************************)
(* The watch-party hub of the activity server: one ring thread that runs   *)
(* every session's handlers, and one detached thread per download.  They   *)
(* share the hub's maps under one mutex, but a change, the snapshot sent   *)
(* about it and the list of its receivers are taken under separate locks,  *)
(* so a thread's work is a list of steps (todo), each one lock section or  *)
(* one send.  A send on the ring thread is done at once; a download thread *)
(* posts it to the ring.  Queue entries are the ids of what they play;     *)
(* playback clocks and message texts are left out.                         *)
(***************************************************************************)
EXTENDS Naturals, FiniteSets, Sequences, SequencesExt, Functions, TLC

CONSTANTS
  Scenarios    \* the events of the ring thread, in order: see InitWith

VARIABLE a

Ring == 0
None == 0
Idle == [cur |-> None, playing |-> FALSE, queue |-> <<>>]

Sessions == DOMAIN a.up
Tasks == DOMAIN a.tasks

(* A scenario is the sequence of events the ring thread handles; a session *)
(* or an instance is a number, a download is named by the event it is.  An *)
(* empty instance_id means the default instance to StateLocked, and nobody *)
(* to the broadcasts.                                                      *)
Unnamed == 0
Default == 1
StateId(inst) == IF inst = Unnamed THEN Default ELSE inst

(* History: retired entries; raced, moved and untold instances (see        *)
(* StateShown and PresenceShown).                                          *)
InitWith(scn) ==
    a = [scn |-> scn, next |-> 1,
         todo |-> (Ring :> <<>>), text |-> (Ring :> Idle), posts |-> <<>>,
         clients |-> <<>>, states |-> [i \in scn.instances |-> Idle],
         tasks |-> <<>>, up |-> [s \in scn.sessions |-> TRUE],
         last |-> [s \in scn.sessions |-> Idle],
         seen |-> [s \in scn.sessions |-> {}],
         heard |-> [s \in scn.sessions |-> {}],
         retired |-> {}, raced |-> {}, moved |-> {}, untold |-> {}]

Init == \E scn \in Scenarios : InitWith(scn)

-----------------------------------------------------------------------------
(* The lists of steps. *)
Change(kind, inst, id) == <<[op |-> "change", kind |-> kind, inst |-> inst, id |-> id]>>

(* A message about a download names it. *)
BroadcastText(inst, msg, id) == <<[op |-> "targets", inst |-> inst, msg |-> msg, id |-> id]>>

BroadcastState(inst) ==
    <<[op |-> "payload", inst |-> inst]>> \o BroadcastText(inst, "STATE_UPDATE", 0)

BroadcastPresence(inst) ==
    <<[op |-> "presence", inst |-> inst]>> \o BroadcastText(inst, "PRESENCE_UPDATE", 0)

ClientsOf(x, inst) == {s \in DOMAIN x.clients : x.clients[s] = inst}

-----------------------------------------------------------------------------
(* Changes under the hub's lock. *)

Playing(id, st) == [st EXCEPT !.cur = id, !.playing = TRUE]

(* The branch of DownloadWorker that ends a download. *)
DownloadComplete(x, id) ==
    LET t == x.tasks[id]
        st == x.states[t.inst]
        y == [x EXCEPT !.tasks[id].status = "completed"]
    IN  IF t.force \/ (st.cur = None /\ ~st.playing)
        THEN [y EXCEPT !.states[t.inst] = Playing(id, @),
                       !.retired = @ \cup ({st.cur} \ {None})]
        ELSE [y EXCEPT !.states[t.inst].queue = Append(@, id)]

(* Mutant: the head of the queue stays in it. *)
AdvanceQueueKeepsHead(x, inst) ==
    LET st == x.states[inst] IN
    [x EXCEPT !.states[inst] = IF st.queue # <<>> THEN Playing(Head(st.queue), st) ELSE Idle,
              !.retired = @ \cup ({st.cur} \ {None})]

AdvanceQueue(x, inst) ==
    LET st == x.states[inst] IN
    [x EXCEPT !.states[inst] = IF st.queue # <<>>
                               THEN [Playing(Head(st.queue), st) EXCEPT !.queue = Tail(@)]
                               ELSE Idle,
              !.retired = @ \cup ({st.cur} \ {None})]

(* The one change whose instance_id is not defaulted before. *)
RemoveQueue(x, inst, id) ==
    LET i == StateId(inst)
        there == id \in Range(x.states[i].queue)
    IN  [x EXCEPT !.states[i].queue = SelectSeq(@, LAMBDA e : e # id),
                  !.retired = IF there THEN @ \cup {id} ELSE @,
                  !.untold = IF there /\ inst = Unnamed THEN @ \cup {i} ELSE @]

(* CookiePlayTving plays its own playlist at once. *)
CookiePlay(x, inst, id) ==
    [x EXCEPT !.states[inst] = Playing(id, @),
              !.retired = @ \cup ({x.states[inst].cur} \ {None})]

(* A change while an older snapshot of the instance is still on its way. *)
Underway(x, t, inst) ==
    \/ \E u \in DOMAIN x.todo \ {t} : \E i \in DOMAIN x.todo[u] :
          /\ x.todo[u][i].op \in {"targets", "send"}
          /\ x.todo[u][i].msg = "STATE_UPDATE" /\ x.todo[u][i].inst = inst
    \/ \E i \in DOMAIN x.posts : x.posts[i].msg = "STATE_UPDATE" /\ x.posts[i].inst = inst

Apply(x, t, c) ==
    LET y == CASE c.kind = "status"   -> [x EXCEPT !.tasks[c.id].status = "downloading"]
               [] c.kind = "failed"   -> [x EXCEPT !.tasks[c.id].status = "failed"]
               [] c.kind = "complete" -> DownloadComplete(x, c.id)
               [] c.kind = "next"     -> AdvanceQueue(x, c.inst)
               [] c.kind = "remove"   -> RemoveQueue(x, c.inst, c.id)
               [] c.kind = "cookie"   -> CookiePlay(x, c.inst, c.id)
    IN  IF y.states # x.states /\ Underway(x, t, StateId(c.inst))
        THEN [y EXCEPT !.raced = @ \cup {StateId(c.inst)}] ELSE y

-----------------------------------------------------------------------------
(* SendWsTextOnRing: what a client makes of a message. *)
Deliver(x, p) ==
    CASE ~x.up[p.to] -> x
      [] x.up[p.to] /\ p.msg = "STATE_UPDATE"    -> [x EXCEPT !.last[p.to] = p.text]
      [] x.up[p.to] /\ p.msg = "PRESENCE_UPDATE" -> [x EXCEPT !.seen[p.to] = p.text]
      [] OTHER -> [x EXCEPT !.heard[p.to] = @ \cup {<<p.msg, p.id>>}]

(* SendTextAsync: RunOnRing is direct on the ring thread. *)
SendTextAsync(x, t, p) ==
    IF t = Ring THEN Deliver(x, p) ELSE [x EXCEPT !.posts = Append(@, p)]

(* One step of thread t. *)
Perform(x, t, c) ==
    CASE c.op = "change"   -> Apply(x, t, c)
      [] c.op = "payload"  -> [x EXCEPT !.text[t] = x.states[StateId(c.inst)]]
      [] c.op = "presence" -> [x EXCEPT !.text[t] = ClientsOf(x, c.inst)]
      [] c.op = "targets"  ->
            LET to == SetToSeq(ClientsOf(x, c.inst)) IN
            [x EXCEPT !.todo[t] = [i \in 1..Len(to) |->
                         [op |-> "send", inst |-> c.inst, msg |-> c.msg, id |-> c.id, to |-> to[i]]] \o @,
                      !.untold = IF c.msg = "STATE_UPDATE" THEN @ \ {c.inst} ELSE @]
      [] c.op = "send"     ->
            SendTextAsync(x, t, [to |-> c.to, msg |-> c.msg, inst |-> c.inst,
                                 id |-> c.id, text |-> x.text[t]])

Step(t) ==
    /\ a.todo[t] # <<>>
    /\ Head(a.todo[t]).op # "work"
    /\ a' = Perform([a EXCEPT !.todo[t] = Tail(@)], t, Head(a.todo[t]))

(* DownloadWorker between its lock sections: it makes its directories,     *)
(* runs yt-dlp and then ffmpeg.  Any of them may fail.                     *)
Fail(t, inst) == Change("failed", inst, t) \o BroadcastText(inst, "DOWNLOAD_FAILED", t)

Begin(t, inst) ==
    Change("status", inst, t) \o BroadcastText(inst, "DOWNLOAD_PROGRESS", t)
    \o <<[op |-> "work"]>>

(* Mutant: the end is reported as progress. *)
EndSilently(t, inst) ==
    Change("complete", inst, t) \o BroadcastText(inst, "DOWNLOAD_PROGRESS", t)

(* Mutant: the state is broadcast before it changes. *)
EndBeforeChange(t, inst) ==
    BroadcastState(inst) \o Change("complete", inst, t)
    \o BroadcastText(inst, "DOWNLOAD_COMPLETE", t)

End(t, inst) ==
    Change("complete", inst, t) \o BroadcastState(inst)
    \o BroadcastText(inst, "DOWNLOAD_COMPLETE", t)

DownloadWorker(t) ==
    /\ t # Ring /\ a.todo[t] # <<>> /\ Head(a.todo[t]).op = "work"
    /\ LET inst == a.tasks[t].inst IN
       \/ a' = [a EXCEPT !.todo[t] = Fail(t, inst)]
       \/ /\ a.tasks[t].status = "pending"
          /\ a' = [a EXCEPT !.todo[t] = Begin(t, inst)]
       \/ /\ a.tasks[t].status = "downloading"
          /\ a' = [a EXCEPT !.todo[t] = End(t, inst)]

RunPost ==
    /\ a.todo[Ring] = <<>> /\ a.posts # <<>>
    /\ a' = Deliver([a EXCEPT !.posts = Tail(@)], Head(a.posts))

-----------------------------------------------------------------------------
(* Events of the ring thread.  *)

CreateDownload(x, id, inst, force) ==
    [x EXCEPT !.tasks = (id :> [status |-> "pending", force |-> force, inst |-> inst,
                               told |-> ClientsOf(x, inst)]) @@ @,
              !.text = (id :> Idle) @@ @,
              !.todo = (id :> <<[op |-> "work"]>>) @@ @]

Then(x, steps) == [x EXCEPT !.todo[Ring] = steps]

(* Mutant: the others do not hear of the newcomer. *)
HelloWithoutPresence(x, s, inst) ==
    Then([x EXCEPT !.clients = (s :> inst) @@ @],
         <<[op |-> "payload", inst |-> inst],
           [op |-> "send", inst |-> inst, msg |-> "STATE_UPDATE", id |-> 0, to |-> s]>>)

(* HELLO: register, a state for this client, presence for the instance. *)
Hello(x, s, inst) ==
    LET y == IF s \in DOMAIN x.clients /\ x.clients[s] # inst
             THEN [x EXCEPT !.moved = @ \cup {x.clients[s]}] ELSE x
    IN  Then([y EXCEPT !.clients = (s :> inst) @@ @],
             <<[op |-> "payload", inst |-> inst],
               [op |-> "send", inst |-> inst, msg |-> "STATE_UPDATE", id |-> 0, to |-> s]>>
             \o BroadcastPresence(inst))

(* OnDisconnected: ActivityHub::Remove, then presence for the others. *)
RemoveClient(x, s) ==
    LET y == [x EXCEPT !.up[s] = FALSE] IN
    IF s \notin DOMAIN x.clients THEN y
    ELSE Then([y EXCEPT !.clients = Restrict(@, DOMAIN @ \ {s})],
              BroadcastPresence(x.clients[s]))

(* HandleHttp and HandleWsText: the event's first section and its steps. *)
Handle(x, e, id) ==
    CASE e.ev = "HELLO"       -> Hello(x, e.s, e.inst)
      [] e.ev = "CHAT"        -> Then(x, BroadcastText(e.inst, "CHAT_MESSAGE", 0))
      [] e.ev = "PING"        -> Then(x, <<[op |-> "send", inst |-> e.inst, msg |-> "PONG", id |-> 0, to |-> e.s]>>)
      [] e.ev = "SYNC"        -> Then(x, BroadcastState(e.inst))
      [] e.ev = "DOWNLOAD"    -> CreateDownload(x, id, e.inst, FALSE)
      [] e.ev = "PLAY"        -> CreateDownload(x, id, e.inst, TRUE)
      [] e.ev = "NEXT"        -> Then(x, Change("next", e.inst, 0) \o BroadcastState(e.inst))
      [] e.ev = "REMOVE"      -> IF e.id = None THEN x ELSE
                                 Then(x, Change("remove", e.inst, e.id) \o BroadcastState(e.inst))
      [] e.ev = "COOKIE_PLAY" -> Then(x, Change("cookie", e.inst, id) \o BroadcastState(e.inst))
      [] e.ev = "CLOSE"       -> RemoveClient(x, e.s)

RingEvent ==
    /\ a.todo[Ring] = <<>> /\ a.next <= Len(a.scn.events)
    /\ a' = Handle([a EXCEPT !.next = @ + 1], a.scn.events[a.next], a.next)

Next == RingEvent \/ RunPost \/ \E t \in DOMAIN a.todo : Step(t) \/ DownloadWorker(t)

(* Threads run, commands end, and the ring serves its posted tasks. *)
Fairness == WF_a(RunPost) /\ WF_a(\E t \in DOMAIN a.todo : Step(t) \/ DownloadWorker(t))

Spec == Init /\ [][Next]_a /\ Fairness

-----------------------------------------------------------------------------
Quiet == a.posts = <<>> /\ \A t \in DOMAIN a.todo : a.todo[t] = <<>>

(* Two downloads, a skip and a removal may meet: the entry of a completed  *)
(* download is in exactly one place, playing, queued once or finished;     *)
(* nothing plays exactly when nothing is current; and only an instance     *)
(* that plays has a queue (DownloadWorker, AdvanceQueue, RemoveQueue).     *)
EntriesAccounted ==
    /\ \A t \in Tasks : a.tasks[t].status = "completed" =>
          LET st == a.states[a.tasks[t].inst]
              queued == Cardinality({i \in DOMAIN st.queue : st.queue[i] = t})
          IN  (IF st.cur = t THEN 1 ELSE 0) + queued
                + (IF t \in a.retired THEN 1 ELSE 0) = 1
    /\ \A i \in DOMAIN a.states :
          /\ a.states[i].playing <=> a.states[i].cur # None
          /\ a.states[i].queue # <<>> => a.states[i].playing

(* BroadcastState takes its snapshot and its receivers apart from the      *)
(* change.  When all is sent, a client of an instance shows its state,     *)
(* unless another thread changed it while an older snapshot was underway,  *)
(* or the last change was RemoveQueue's with an empty instance_id, which   *)
(* takes the entry from the default instance and tells nobody.             *)
StateShown ==
    Quiet => \A s \in DOMAIN a.clients :
        a.clients[s] \in a.raced \cup a.untold \/ a.last[s] = a.states[a.clients[s]]

(* Presence is only sent from the ring thread: between its events every    *)
(* client of an instance knows who is there, unless someone moved to       *)
(* another instance, which BroadcastPresence tells only the new one.       *)
PresenceShown ==
    a.todo[Ring] = <<>> => \A s \in DOMAIN a.clients :
        a.clients[s] \in a.moved \/ a.seen[s] = ClientsOf(a, a.clients[s])

(* Every download ends as completed or failed, and each client that was    *)
(* there when it began and stays hears of it.                              *)
DownloadsEnd ==
    (Tasks # {}) ~> \A t \in Tasks :
        /\ a.tasks[t].status \in {"completed", "failed"}
        /\ \A s \in a.tasks[t].told :
              \/ s \notin ClientsOf(a, a.tasks[t].inst)
              \/ a.heard[s] \cap {<<"DOWNLOAD_COMPLETE", t>>, <<"DOWNLOAD_FAILED", t>>} # {}
=============================================================================
