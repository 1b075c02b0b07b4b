------------------------------- MODULE Router -------------------------------
(***************************************************************************)
(* The router of the web module: routes are inserted into the RadixTree    *)
(* one after another; a request is matched by a backtracking search.  A    *)
(* node is named by the way to it from the root, ":" standing for the      *)
(* param_child and "*" for the wildcard_child.  A path is the sequence of  *)
(* its segments, "" for the empty one behind a slash.                      *)
(***************************************************************************)
EXTENDS Integers, Sequences, SequencesExt

CONSTANTS Patterns,   \* paths of routes: sequences of segments [kind, name]
          Methods,    \* methods of routes, "GET" and "HEAD" among them
          Paths,      \* paths of requests
          MaxRoutes   \* bound on the routes inserted

VARIABLE r

(* r.nodes, r.names: the nodes, and param_name or wildcard_name of a node; *)
(* r.routes: the entries, by node and method; r.inserted: the routes       *)
(* inserted, in order (history).                                           *)
Init == r = [nodes |-> {<<>>}, names |-> <<>>, routes |-> <<>>, inserted |-> <<>>]

Set(f, k, v) == [j \in DOMAIN f \cup {k} |-> IF j = k THEN v ELSE f[j]]

(* SplitPath drops every empty segment; SplitPathView keeps the last one.  *)
SplitPath(path) == SelectSeq(path, LAMBDA g : g.name # "")
SplitPathView(path) ==
    SelectSeq(path, LAMBDA g : g # "") \o (IF Last(path) = "" THEN <<"">> ELSE <<>>)

RECURSIVE InsertSegments(_, _, _, _, _, _)
InsertSegments(x, node, segments, index, method, entry) ==
    IF index > Len(segments)
    THEN [x EXCEPT !.routes = Set(@, <<node, method>>, entry)]
    ELSE LET g == segments[index]
             key == CASE g.kind = "wildcard" -> "*" [] g.kind = "param" -> ":" [] OTHER -> g.name
             child == Append(node, key)
             y == IF child \in x.nodes THEN x
                  ELSE [x EXCEPT !.nodes = @ \cup {child}, !.names = Set(@, child, g.name)]
         IN  IF g.kind = "wildcard"
             THEN [y EXCEPT !.routes = Set(@, <<child, method>>, entry)]
             ELSE InsertSegments(y, child, segments, index + 1, method, entry)

(* Route and RouteStream, called while the server is set up. *)
Route(pattern, method, entry) ==
    /\ Len(r.inserted) < MaxRoutes
    /\ r' = [InsertSegments(r, <<>>, SplitPath(pattern), 1, method, entry) EXCEPT
               !.inserted = Append(@, [pattern |-> pattern, method |-> method, entry |-> entry])]

Next == \E p \in Patterns, m \in Methods, entry \in {"handler", "stream"} : Route(p, m, entry)

Spec == Init /\ [][Next]_r

-----------------------------------------------------------------------------
(* Node::HasAnyHandler, and AllowHeaderValue as the set of the methods.    *)
Served(node) == {m \in Methods : <<node, m>> \in DOMAIN r.routes}
Allow(node) == Served(node) \cup (IF "GET" \in Served(node) THEN {"HEAD"} ELSE {})

NoMatch == [entry |-> "none", params |-> <<>>, exists |-> FALSE, allow |-> {}]

(* The end of a path, or a wildcard, at a node. *)
AtNode(node, method, result, params) ==
    IF method \in Served(node)
    THEN [entry |-> r.routes[<<node, method>>], params |-> params,
          exists |-> TRUE, allow |-> Allow(node)]
    ELSE IF Served(node) # {} THEN [result EXCEPT !.exists = TRUE, !.allow = Allow(node)]
    ELSE result

(* The value of a wildcard: the text from the segment it starts at to the  *)
(* end of the last one, given by the segments in it.  The empty segment    *)
(* behind a trailing slash is a string_view without data: unless it is all *)
(* there is, the length computed from it is meaningless.                   *)
NoValue == <<"invalid">>
WildcardValue(segments, index) ==
    IF Last(segments) = "" /\ index < Len(segments) THEN NoValue
    ELSE SubSeq(segments, index, Len(segments))

(* Mutant: the wildcard is tried before the parameter. *)
RECURSIVE MatchWildcardFirst(_, _, _, _, _, _)
MatchWildcardFirst(node, segments, index, method, result, params) ==
    IF index > Len(segments) THEN AtNode(node, method, result, params)
    ELSE LET g == segments[index]
             Child(k) == Append(node, k)
             literal == IF g # "" /\ Child(g) \in r.nodes
                        THEN MatchWildcardFirst(Child(g), segments, index + 1, method, result, params)
                        ELSE result
             wild == IF literal.entry = "none" /\ Child("*") \in r.nodes
                     THEN AtNode(Child("*"), method, literal,
                            Append(params, <<r.names[Child("*")], WildcardValue(segments, index)>>))
                     ELSE literal
         IN  IF wild.entry = "none" /\ Child(":") \in r.nodes
             THEN MatchWildcardFirst(Child(":"), segments, index + 1, method, wild,
                            Append(params, <<r.names[Child(":")], <<g>>>>))
             ELSE wild

(* A literal child, then the parameter, then the rest of the path. *)
RECURSIVE MatchNode(_, _, _, _, _, _)
MatchNode(node, segments, index, method, result, params) ==
    IF index > Len(segments) THEN AtNode(node, method, result, params)
    ELSE LET g == segments[index]
             Child(k) == Append(node, k)
             literal == IF g # "" /\ Child(g) \in r.nodes
                        THEN MatchNode(Child(g), segments, index + 1, method, result, params)
                        ELSE result
             param == IF literal.entry = "none" /\ Child(":") \in r.nodes
                      THEN MatchNode(Child(":"), segments, index + 1, method, literal,
                             Append(params, <<r.names[Child(":")], <<g>>>>))
                      ELSE literal
         IN  IF param.entry = "none" /\ Child("*") \in r.nodes
             THEN AtNode(Child("*"), method, param,
                         Append(params, <<r.names[Child("*")], WildcardValue(segments, index)>>))
             ELSE param

(* RadixTree::Match; the path "/" is matched at the root. *)
Match(method, path) ==
    IF path = <<"">>
    THEN [AtNode(<<>>, method, NoMatch, <<>>) EXCEPT
            !.allow = IF method \in Served(<<>>) THEN {} ELSE @]
    ELSE MatchNode(<<>>, SplitPathView(path), 1, method, NoMatch, <<>>)

(* Dispatch of a request without a body: what runs, or the status.  HEAD   *)
(* falls back to the handler of GET.                                       *)
Dispatch(method, path) ==
    LET m == Match(method, path)
        get == Match("GET", path)
        result == IF method = "HEAD" /\ m.entry # "handler" /\ get.entry = "handler" THEN get ELSE m
    IN  IF result.entry = "handler" THEN [status |-> 200, params |-> result.params, allow |-> {}]
        ELSE IF result.exists THEN [status |-> 405, params |-> <<>>, allow |-> result.allow]
        ELSE [status |-> 404, params |-> <<>>, allow |-> {}]

-----------------------------------------------------------------------------
(* The reference.  A route as it was inserted, cut after its wildcard.     *)
Cut(pattern) ==
    LET p == SplitPath(pattern)
        w == {i \in DOMAIN p : p[i].kind = "wildcard"}
    IN  IF w = {} THEN p ELSE SubSeq(p, 1, CHOOSE i \in w : \A j \in w : i <= j)

Fits(g, name) == g.kind # "literal" \/ g.name = name

EndsInWildcard(p) == p # <<>> /\ Last(p).kind = "wildcard"

Covers(p, segs) ==
    /\ IF EndsInWildcard(p) THEN Len(segs) >= Len(p) ELSE Len(segs) = Len(p)
    /\ \A i \in DOMAIN p : Fits(p[i], segs[i])

Rank(g) == CASE g.kind = "literal" -> 0 [] g.kind = "param" -> 1 [] OTHER -> 2

(* p is more specific than q: a literal before a parameter before a        *)
(* wildcard, from the left.                                                *)
Beats(p, q) ==
    \E i \in DOMAIN p \cap DOMAIN q :
        /\ Rank(p[i]) < Rank(q[i])
        /\ \A j \in 1..i-1 : Rank(p[j]) = Rank(q[j])

ParamsOf(p, segs) ==
    FoldLeft(LAMBDA acc, i :
               IF p[i].kind = "literal" THEN acc
               ELSE Append(acc, <<p[i].name,
                      SubSeq(segs, i, IF p[i].kind = "param" THEN i ELSE Len(segs))>>),
             <<>>, [i \in DOMAIN p |-> i])

(* Two routes have the same shape, or give a position different names.     *)
SameShape(p, q) == Len(p) = Len(q) /\ \A i \in DOMAIN p :
    p[i].kind = q[i].kind /\ (p[i].kind = "literal" => p[i].name = q[i].name)
NamesClash(p, q) ==
    \E i \in DOMAIN p \cap DOMAIN q :
        /\ SameShape(SubSeq(p, 1, i), SubSeq(q, 1, i))
        /\ p[i].name # q[i].name

Routes == {[k |-> k, p |-> Cut(r.inserted[k].pattern), method |-> r.inserted[k].method,
            entry |-> r.inserted[k].entry] : k \in DOMAIN r.inserted}

(* MatchNode never misses a route: it finds the path unknown only if no    *)
(* route of any method covers it, and otherwise the route that is the most *)
(* specific of those that cover the path and have the method, the last     *)
(* registered if several are the same.  The parameters are the route's     *)
(* own, unless another route names one of their positions differently or a *)
(* wildcard's value runs into the segment behind a trailing slash, which   *)
(* MatchNode computes from a null pointer (WildcardValue).                 *)
IsMostSpecific(method, path) ==
    LET segs == IF path = <<"">> THEN <<>> ELSE SplitPathView(path)
        fit == {x \in Routes : x.method = method /\ Covers(x.p, segs)}
        best == {x \in fit : \A y \in fit : ~Beats(y.p, x.p) /\ (SameShape(x.p, y.p) => x.k >= y.k)}
        found == Match(method, path)
    IN  /\ found.exists <=> \E x \in Routes : Covers(x.p, segs)
        /\ IF fit = {} THEN found.entry = "none"
           ELSE \E x \in best :
                  /\ best = {x} /\ found.entry = x.entry
                  /\ \/ found.params = ParamsOf(x.p, segs)
                     \/ \E y \in Routes : NamesClash(x.p, y.p)
                     \/ EndsInWildcard(x.p) /\ Last(segs) = "" /\ Len(x.p) < Len(segs)

(* Whatever order the routes were registered in, a request runs the most   *)
(* specific route that covers its path (MatchNode, Dispatch); an answer    *)
(* 405 names in Allow, HEAD beside GET too, only methods that would have   *)
(* found a route at the path.                                              *)
RoutesServe ==
    \A path \in Paths, method \in Methods :
        LET d == Dispatch(method, path) IN
        /\ IsMostSpecific(method, path)
        /\ d.status = 405 => \A m \in d.allow :
             Match(m, path).entry # "none" \/ (m = "HEAD" /\ Match("GET", path).entry # "none")
=============================================================================
