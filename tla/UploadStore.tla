---------------------------- MODULE UploadStore ----------------------------
(***************************************************************************)
(* The uploads of file_store_server and dropapp: a request body is written *)
(* by asynchronous writes to a .part file, which is renamed when the last  *)
(* write has completed.  file_store names files by the path of the request *)
(* (two uploads may meet there); dropapp by a fresh id, with a metadata    *)
(* file written after the rename and an expiry.  The disk survives a       *)
(* crash.  A chunk is two halves, so that a write can come up short.       *)
(***************************************************************************)
EXTENDS Integers, FiniteSets, Sequences

CONSTANTS Scenarios   \* see InitWith

VARIABLE u

(* u.up[i]: an upload, its UploadState; open is fd >= 0, ino the inode its *)
(*   writes go to; pend maps the chunks of pending_ to the halves written; *)
(*   registered its entry in the UploadRegistry; reply the answer, if any; *)
(*   renamed that the metadata is still to be written.                     *)
(* u.part, u.object, u.meta: the directory, for a path the inode of its    *)
(*   files, 0 if there is none, Torn for metadata that does not parse.     *)
(* u.data: of an inode, the upload that wrote each half of a chunk.        *)
(* u.shared (history): paths two uploads had open at a time.               *)
(* u.get: a download; sized is the inode whose size is the Content-Length, *)
(*   ino the one it reads, sent the writers of the halves sent; cut: no    *)
(*   buffer could be allocated for the next.                               *)
Upload(path) ==
    [path |-> path, stage |-> "none", ino |-> 0, open |-> FALSE,
     submitted |-> 0, written |-> 0, pend |-> <<>>, failed |-> FALSE, aborted |-> FALSE, complete |-> FALSE,
     finished |-> FALSE, registered |-> FALSE, renamed |-> FALSE, reply |-> "none"]

(* A scenario: dropapp or file_store, the path of each upload, chunks of a *)
(* body, and how many short or failed writes, failed calls and crashes;    *)
(* get says that a file of the first path is downloaded meanwhile.         *)
InitWith(scn) ==
    u = [scn |-> scn, up |-> [i \in DOMAIN scn.paths |-> Upload(scn.paths[i])],
         part |-> [q \in scn.names |-> 0], object |-> [q \in scn.names |-> 0],
         meta |-> [q \in scn.names |-> 0], data |-> [n \in DOMAIN scn.paths |-> <<>>],
         shared |-> {}, faults |-> scn.faults, crashes |-> scn.crashes,
         get |-> [stage |-> IF scn.get THEN "asked" ELSE "over", sized |-> 0, size |-> {},
                  ino |-> 0, chunk |-> 0, sent |-> <<>>, cut |-> FALSE]]

Init == \E scn \in Scenarios : InitWith(scn)

Torn == -1
Uploads == DOMAIN u.up
Halves(x) == (1..x.scn.chunks) \X {1, 2}
At(f, k) == IF k \in DOMAIN f THEN f[k] ELSE 0
Put(f, k, v) == [j \in DOMAIN f \cup {k} |-> IF j = k THEN v ELSE f[j]]
Drop(f, k) == [j \in DOMAIN f \ {k} |-> f[j]]

-----------------------------------------------------------------------------
(* AsyncUploadState *)

(* Close, and Cleanup: the entry leaves the registry. *)
Finish(x, i) == [x EXCEPT !.up[i].finished = TRUE, !.up[i].open = FALSE,
                          !.up[i].registered = FALSE]

Reply(x, i, what) == [Finish(x, i) EXCEPT !.up[i].reply = what]

RemovePart(x, i) == [x EXCEPT !.part[x.up[i].path] = 0]

(* Mutant: does not wait for the writes. *)
FinishWithoutWrites(x, i) ==
    LET t == x.up[i] IN
    IF t.finished \/ ~t.complete THEN x
    ELSE IF t.failed \/ x.part[t.path] = 0 THEN Reply(RemovePart(x, i), i, "500")
    ELSE LET moved == [RemovePart(x, i) EXCEPT !.object[t.path] = x.part[t.path]] IN
         IF x.scn.dropapp THEN [moved EXCEPT !.up[i].renamed = TRUE]
         ELSE Reply(moved, i, "201")

(* TryFinish.  The rename fails when another upload has taken the .part    *)
(* away.  With dropapp the commit of the metadata follows, see Commit.     *)
TryFinish(x, i) ==
    LET t == x.up[i]
        moved == [RemovePart(x, i) EXCEPT !.object[t.path] = x.part[t.path]]
    IN  IF t.finished THEN x
        ELSE IF t.aborted THEN IF t.pend = <<>> THEN Finish(x, i) ELSE x
        ELSE IF ~t.complete \/ t.pend # <<>> THEN x
        ELSE IF t.failed \/ t.submitted # x.scn.chunks \/ t.written # t.submitted
                \/ x.part[t.path] = 0
             THEN Reply(RemovePart(x, i), i, "500")
        ELSE IF x.scn.dropapp THEN [moved EXCEPT !.up[i].renamed = TRUE]
        ELSE Reply(moved, i, "201")

(* WriteMeta and the answer, still in TryFinish: the ring thread does      *)
(* nothing else before, but the process may crash.                         *)
Commit(i) ==
    /\ u.up[i].renamed
    /\ LET x == [u EXCEPT !.up[i].renamed = FALSE]
           q == u.up[i].path
       IN  \/ u' = Reply([x EXCEPT !.meta[q] = i], i, "201")
           \/ /\ u.faults > 0
              /\ \E m \in {0, Torn} :
                    u' = Reply([x EXCEPT !.object[q] = 0, !.meta[q] = m,
                                         !.faults = @ - 1], i, "500")

Busy == \E i \in Uploads : u.up[i].renamed

(* on_headers: CleanupExpired, the checks of the request, and the open,    *)
(* which truncates a .part that is there.  A rejected request is answered. *)
OnHeaders(i) ==
    LET q == u.up[i].path
        n == IF u.part[q] = 0 THEN i ELSE u.part[q]
    IN  /\ ~Busy /\ u.up[i].stage = "none"
        /\ \/ u' = [u EXCEPT !.up[i].stage = "body", !.up[i].ino = n, !.up[i].open = TRUE,
                             !.up[i].registered = TRUE, !.part[q] = n,
                             !.data[n] = <<>>,
                             !.shared = IF \E j \in Uploads \ {i} :
                                             u.up[j].path = q /\ u.up[j].open
                                        THEN @ \cup {q} ELSE @]
           \/ /\ u.faults > 0
              /\ u' = [u EXCEPT !.up[i].stage = "over", !.up[i].reply = "rejected",
                                !.faults = @ - 1]

(* on_body and SubmitChunk; the write may not be submitted. *)
SubmitChunk(i) ==
    LET t == u.up[i]
        x == [u EXCEPT !.up[i].submitted = @ + 1]
    IN  /\ ~Busy /\ t.stage = "body" /\ t.submitted < u.scn.chunks
        /\ IF t.failed \/ t.finished
           THEN u' = [u EXCEPT !.up[i].stage = "sent"]
           ELSE \/ u' = [x EXCEPT !.up[i].pend = Put(@, t.submitted + 1, 0)]
                \/ /\ u.faults > 0
                   /\ u' = TryFinish([x EXCEPT !.up[i].failed = TRUE, !.faults = @ - 1], i)

(* on_complete: DeferResponse and MarkRequestComplete. *)
OnComplete(i) ==
    /\ ~Busy /\ u.up[i].stage \in {"body", "sent"}
    /\ u.up[i].stage = "sent" \/ u.up[i].submitted = u.scn.chunks
    /\ u' = TryFinish([u EXCEPT !.up[i].stage = "over", !.up[i].complete = TRUE], i)

(* Mutant: the upload is forgotten at once, its writes still in flight. *)
AbortForgetsWrites(i) ==
    /\ ~Busy /\ u.up[i].stage \in {"body", "sent"}
    /\ u' = Finish(RemovePart([u EXCEPT !.up[i].stage = "over", !.up[i].aborted = TRUE], i), i)

(* on_abort: the connection ended before the request did. *)
Abort(i) ==
    /\ ~Busy /\ u.up[i].stage \in {"body", "sent"}
    /\ LET x == RemovePart([u EXCEPT !.up[i].stage = "over", !.up[i].aborted = TRUE,
                                     !.up[i].open = FALSE], i)
       IN  u' = IF u.up[i].pend = <<>> THEN Finish(x, i) ELSE x

(* OnWrite of chunk k: the kernel has written n halves of what was left,   *)
(* or failed.  A short write is submitted again, which may fail.           *)
OnWrite(i, k, n) ==
    LET t == u.up[i]
        h == t.pend[k]
        x == [u EXCEPT !.data[t.ino] = [e \in DOMAIN @ \cup {<<k, j>> : j \in h+1..h+n} |->
                                         IF e[1] = k /\ e[2] > h /\ e[2] <= h + n THEN i ELSE @[e]],
                       !.faults = IF n = 2 - h THEN @ ELSE @ - 1]
        gone == [x EXCEPT !.up[i].pend = Drop(@, k)]
    IN  /\ ~Busy /\ k \in DOMAIN t.pend /\ h + n <= 2
        /\ n # 2 - h => u.faults > 0
        /\ \/ u' = IF t.aborted THEN TryFinish(gone, i)
                   ELSE IF n = 0 THEN TryFinish([gone EXCEPT !.up[i].failed = TRUE], i)
                   ELSE IF h + n < 2 THEN [x EXCEPT !.up[i].pend = Put(@, k, h + n)]
                   ELSE TryFinish([gone EXCEPT !.up[i].written = @ + 1], i)
           \/ /\ ~t.aborted /\ n > 0 /\ h + n < 2
              /\ u' = TryFinish([gone EXCEPT !.up[i].failed = TRUE], i)

-----------------------------------------------------------------------------
(* DeleteFile of file_store. *)
DeleteFile(q) ==
    /\ ~Busy /\ ~u.scn.dropapp /\ u.object[q] # 0
    /\ u' = [u EXCEPT !.object[q] = 0]

(* DropStore's Remove and CleanupExpired, of a ring thread or the cleanup  *)
(* thread: the object goes first, then its metadata.  Metadata that does   *)
(* not parse stays.                                                        *)
RemoveDrop(q) ==
    /\ u.meta[q] > 0
    /\ u' = IF u.object[q] # 0 THEN [u EXCEPT !.object[q] = 0] ELSE [u EXCEPT !.meta[q] = 0]

(* SendFile, on a worker other than that of the uploads: the metadata of   *)
(* dropapp (which may have expired), the size, the open and the reads are  *)
(* separate calls.  A file that is gone when it is opened has no bytes;    *)
(* a HEAD is a download that stops at "sized".                             *)
Asked == u.scn.paths[1]

ReadMeta ==
    /\ u.get.stage = "asked"
    /\ \/ /\ u.scn.dropapp => u.meta[Asked] > 0
          /\ u' = [u EXCEPT !.get.stage = "found"]
       \/ /\ u.scn.dropapp
          /\ u' = [u EXCEPT !.get.stage = "over"]

FileSize ==
    /\ u.get.stage = "found"
    /\ LET n == u.object[Asked] IN
       u' = IF n = 0 THEN [u EXCEPT !.get.stage = "over"]
            ELSE [u EXCEPT !.get.stage = "sized", !.get.sized = n, !.get.size = DOMAIN u.data[n]]

OpenFile ==
    /\ u.get.stage = "sized"
    /\ u' = [u EXCEPT !.get.ino = u.object[Asked],
                      !.get.stage = IF u.object[Asked] = 0 THEN "sent" ELSE "reading"]

(* What the inode n holds of chunk k. *)
Chunk(n, k) == {e \in DOMAIN u.data[n] : e[1] = k}

(* Mutant: each chunk is read from the file of that name. *)
SendChunkByName ==
    LET k == u.get.chunk + 1
        n == u.object[Asked]
        part == IF n = 0 THEN <<>> ELSE [e \in Chunk(n, k) |-> u.data[n][e]]
    IN  /\ u.get.stage = "reading"
        /\ u' = IF part = <<>> THEN [u EXCEPT !.get.stage = "sent"]
                ELSE [u EXCEPT !.get.chunk = k,
                               !.get.sent = [e \in DOMAIN @ \cup DOMAIN part |->
                                               IF e \in DOMAIN part THEN part[e] ELSE @[e]]]

SendChunk ==
    LET k == u.get.chunk + 1
        n == u.get.ino
        sent == [e \in DOMAIN u.get.sent \cup Chunk(n, k) |->
                    IF e \in Chunk(n, k) THEN u.data[n][e] ELSE u.get.sent[e]]
    IN  /\ u.get.stage = "reading"
        /\ \/ u' = IF Chunk(n, k) = {} THEN [u EXCEPT !.get.stage = "sent"]
                    ELSE [u EXCEPT !.get.chunk = k, !.get.sent = sent]
           \/ /\ u.faults > 0 /\ Chunk(n, k) # {}
              /\ u' = [u EXCEPT !.get.stage = "sent", !.get.cut = TRUE, !.faults = @ - 1]

(* The process dies, perhaps while it writes metadata: uploads are gone,   *)
(* the directory stays.                                                    *)
Crash ==
    /\ u.crashes > 0
    /\ u' = [u EXCEPT !.crashes = @ - 1, !.get.stage = "over",
                      !.up = [i \in Uploads |->
                        IF @[i].stage = "none" THEN @[i]
                        ELSE [@[i] EXCEPT !.stage = "dead", !.open = FALSE, !.pend = <<>>,
                                          !.registered = FALSE, !.renamed = FALSE]],
                      !.meta = [q \in DOMAIN @ |->
                        IF \E i \in Uploads : u.up[i].renamed /\ u.up[i].path = q THEN Torn ELSE @[q]]]

Next ==
    \/ \E i \in Uploads : Commit(i) \/ OnHeaders(i) \/ SubmitChunk(i) \/ OnComplete(i) \/ Abort(i)
    \/ \E i \in Uploads, k \in 1..u.scn.chunks, n \in 0..2 : OnWrite(i, k, n)
    \/ \E q \in u.scn.names : DeleteFile(q) \/ RemoveDrop(q)
    \/ ReadMeta \/ FileSize \/ OpenFile \/ SendChunk \/ Crash

Completions ==
    \E i \in Uploads : Commit(i) \/ \E k \in 1..u.scn.chunks, n \in 0..2 : OnWrite(i, k, n)

(* The kernel completes every write. *)
Fairness == WF_u(Completions)

Spec == Init /\ [][Next]_u /\ Fairness

-----------------------------------------------------------------------------
Listed(q) == u.object[q] # 0 /\ (u.scn.dropapp => u.meta[q] > 0)

(* Writes complete in any order, come up short, fail, or are cut off by a  *)
(* crash: a file that is listed holds every byte of one upload, and of     *)
(* no other, unless two uploads had the same .part open.                   *)
ListedIsWhole ==
    \A q \in u.scn.names : Listed(q) /\ q \notin u.shared =>
        \E i \in Uploads : \A e \in Halves(u) : At(u.data[u.object[q]], e) = i

(* SendFile reads the size, opens the file and reads it while uploads      *)
(* replace it and deletes, expiry and clean-up remove it: it sends bytes   *)
(* of one upload only, and as many as it announced unless the file was     *)
(* removed or replaced before it was open, or no buffer was to be had.     *)
DownloadIsWhole ==
    u.get.stage = "sent" /\ Asked \notin u.shared =>
        /\ \E i \in Uploads : \A e \in DOMAIN u.get.sent : u.get.sent[e] = i
        /\ u.get.ino = u.get.sized /\ ~u.get.cut =>
              DOMAIN u.get.sent = u.get.size /\ u.get.size = Halves(u)

(* An upload that has ended has no write in flight whose completion would  *)
(* find it gone, is not in the registry, and was answered if the request   *)
(* was complete (TryFinish, Abort, Cleanup); one that has not keeps its    *)
(* entry and, until it is aborted, its file.                               *)
EndedIsClean ==
    \A i \in Uploads : LET t == u.up[i] IN
        /\ t.finished => t.pend = <<>> /\ ~t.registered /\ ~t.open
                         /\ (t.complete => t.reply \in {"201", "500"})
        /\ t.stage \in {"body", "sent"} => t.registered
        /\ t.pend # <<>> /\ ~t.aborted => t.open

(* Every upload ends: when the request is complete it is answered, when it *)
(* is aborted its last write lets it go.                                   *)
UploadsEnd ==
    (\E i \in Uploads : u.up[i].stage = "over") ~>
        \A i \in Uploads : u.up[i].stage = "over" =>
            u.up[i].finished \/ u.up[i].reply = "rejected"
=============================================================================
