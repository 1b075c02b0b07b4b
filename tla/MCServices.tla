----------------------------- MODULE MCServices -----------------------------
(***************************************************************************)
(* The services built on Session, for TLC: a proxied pair of connections,  *)
(* an HTTP connection, the router, the uploads of the file services, the   *)
(* log of the webhook inbox, and Start and Stop of a server.  A behaviour  *)
(* is one of one of them; the variables of the others keep an initial      *)
(* value.                                                                  *)
(***************************************************************************)
EXTENDS ServerLifecycle, TLC

CONSTANTS MaxPending, Low, PausedLimit, ConnectLimit, PlaintextLimit,
          PauseOnHigh, Bounds,                         \* ProxyPair
          Scripts, ChunksPerWrite, BodyChunks, MaxBatch, MaxAllocs,  \* HttpSession
          Patterns, Methods, Paths, MaxRoutes,         \* Router
          Scenarios,                                   \* UploadStore
          Events, MaxFaults                            \* InboxStore

VARIABLES which, p, h, r, u, s

P == INSTANCE ProxyPair
H == INSTANCE HttpSession
R == INSTANCE Router
U == INSTANCE UploadStore
I == INSTANCE InboxStore

(* The requests of a connection: each of every kind, followed by a second. *)
Request(kind, keepAlive) ==
    [kind |-> kind, keep_alive |-> keepAlive, accept |-> TRUE, body |-> "ok", complete |-> "send"]
Upload(keepAlive, accept, body, complete) ==
    [Request("upload", keepAlive) EXCEPT !.accept = accept, !.body = body, !.complete = complete]
MCScripts ==
    {<<a, b>> :
       a \in {Request(k, ka) : k \in {"small", "large", "file", "badfile", "shortfile", "cutfile", "defer", "bad"}, ka \in BOOLEAN}
             \cup {Upload(ka, acc, b, c) : ka \in BOOLEAN, acc \in BOOLEAN,
                     b \in {"ok", "fails", "too_large"}, c \in {"send", "defer"}},
       b \in {Request("small", TRUE), Request("large", FALSE), Request("defer", TRUE),
              Upload(TRUE, TRUE, "ok", "defer")}}

(* Chunks from the client and from the server, while the proxy runs, with  *)
(* a watermark and without (the queue then fills up), and while it is      *)
(* stopped.                                                                *)
MCBounds == {[tls |-> TRUE,  high |-> 1, D |-> 2, U |-> 2, stop |-> FALSE],
             [tls |-> FALSE, high |-> 1, D |-> 1, U |-> 3, stop |-> FALSE],
             [tls |-> FALSE, high |-> 0, D |-> 1, U |-> 4, stop |-> FALSE],
             [tls |-> FALSE, high |-> 1, D |-> 1, U |-> 0, stop |-> TRUE]}

(* Routes that meet at every kind of node, all paths of two segments and   *)
(* some of three.                                                          *)
Literal(n) == [kind |-> "literal", name |-> n]
Param(n) == [kind |-> "param", name |-> n]
Wildcard(n) == [kind |-> "wildcard", name |-> n]
MCPatterns == {<<Literal("a"), Literal("")>>, <<Literal("a"), Param("y")>>,
               <<Param("x"), Literal("b")>>, <<Param("z")>>, <<Wildcard("v"), Literal("a")>>}
MCPaths == UNION {[1..n -> {"a", "b", ""}] : n \in 1..2}
           \cup {<<"a", "b", "a">>, <<"b", "a", "">>, <<"a", "", "b">>}

(* Uploads to one path of file_store, and drops of dropapp, with a download *)
(* and without.                                                            *)
Store(dropapp, paths, chunks, faults, crashes, get) ==
    [dropapp |-> dropapp, paths |-> paths, names |-> {paths[i] : i \in DOMAIN paths},
     chunks |-> chunks, faults |-> faults, crashes |-> crashes, get |-> get]
MCScenarios == {Store(FALSE, <<"a", "a">>, 2, 1, 0, FALSE), Store(FALSE, <<"a", "a">>, 2, 0, 0, TRUE),
                Store(FALSE, <<"a", "a">>, 1, 1, 1, FALSE), Store(TRUE, <<"a", "b">>, 1, 1, 1, FALSE),
                Store(TRUE, <<"a">>, 2, 1, 1, TRUE)}

-----------------------------------------------------------------------------
Is(name) == which = name
ProxyInit == IF Is("proxy") THEN P!Init ELSE P!InitWith(CHOOSE b \in Bounds : TRUE)
HttpInit == IF Is("http") THEN H!Init ELSE H!InitWith(CHOOSE x \in Scripts : TRUE, FALSE)
UploadInit == IF Is("uploads") THEN U!Init ELSE U!InitWith(CHOOSE x \in Scenarios : TRUE)
ServerInit == IF Is("server") THEN Init ELSE InitWith("web")

AllInit ==
    /\ which \in {"proxy", "http", "router", "uploads", "inbox", "server"}
    /\ ProxyInit /\ HttpInit /\ R!Init /\ UploadInit /\ I!Init /\ ServerInit

AllNext ==
    /\ UNCHANGED which
    /\ \/ Is("proxy")   /\ P!Next /\ UNCHANGED <<h, r, u, s, v>>
       \/ Is("http")    /\ H!Next /\ UNCHANGED <<p, r, u, s, v>>
       \/ Is("router")  /\ R!Next /\ UNCHANGED <<p, h, u, s, v>>
       \/ Is("uploads") /\ U!Next /\ UNCHANGED <<p, h, r, s, v>>
       \/ Is("inbox")   /\ I!Next /\ UNCHANGED <<p, h, r, u, v>>
       \/ Is("server")  /\ Next /\ UNCHANGED <<p, h, r, u, s>>

AllSpec == AllInit /\ [][AllNext]_<<which, p, h, r, u, s, v>>
           /\ P!Fairness /\ H!Fairness /\ U!Fairness

-----------------------------------------------------------------------------
\* ProxyPair: both directions arrive in order, without a gap.
ForwardedInOrder == Is("proxy") => P!ForwardedInOrder

\* ProxyPair: a session is paused exactly while its peer is over the watermark.
PausedIffPeerIsHigh == Is("proxy") => P!PausedIffPeerIsHigh

\* ProxyPair: a close after flush has sent all that was forwarded.
FlushedBeforeClose == Is("proxy") => P!FlushedBeforeClose

\* ProxyPair: the connector's accounts are right in every order of connect,
\* timeout, cancel and Stop, and Stop is not deceived by them.
ConnectorAndPairAgree == Is("proxy") => P!ConnectorAndPairAgree /\ P!QuietIsQuiet

\* ProxyPair: a closed pair and its connector are released.
ClosedPairReleased == P!ClosedPairReleased

\* HttpSession: responses keep the order of the requests and do not mix.
ResponsesInRequestOrder == Is("http") => H!ResponsesInRequestOrder

\* HttpSession: a request is answered once, an accepted upload ended once.
OnceEach == Is("http") => H!AnsweredOnce /\ H!UploadEndsOnce

\* HttpSession: closing cuts no response off.
NothingCutOff == Is("http") => H!NothingCutOff

\* HttpSession, UploadStore: every request is answered, every upload ends.
BegunIsEnded == H!EveryRequestAnswered /\ U!UploadsEnd

\* Router: the most specific route serves a request, whatever the order of
\* registration.
RoutesServe == Is("router") => R!RoutesServe

\* UploadStore: what is listed is whole, and so is what is downloaded.
ListedIsWhole == Is("uploads") => U!ListedIsWhole /\ U!DownloadIsWhole

\* UploadStore: an upload that has ended has left nothing behind.
EndedIsClean == Is("uploads") => U!EndedIsClean

\* InboxStore: what was answered survives restarts.
AnsweredSurvives == Is("inbox") => I!AnsweredSurvives
=============================================================================
