-------------------------------- MODULE Mux --------------------------------
(***************************************************************************)
(* gorilla/mux: a program registers routes, then requests are served.  A   *)
(* path is a sequence of segments with or without a slash at its end; a    *)
(* segment of a template is <<"lit", s>> or <<"var", name>>.  The queries  *)
(* of a route are a Go slice, whose array other routes may share.          *)
(***************************************************************************)
EXTENDS Integers, Sequences, FiniteSets, SequencesExt, TLC

CONSTANTS
    Paths,          \* templates that are registered: [segs, slash]
    Hosts,          \* templates of hosts: <<"lit", s>> or <<"var", name>>
    Queries,        \* queries registered in one call: sequences of [key, val]
    Methods,        \* methods that are registered
    Strict,         \* the router's StrictSlash
    Requests,       \* [host, segs, slash, query, method]; query: sequence of [key, val]
    Extends,        \* pairs of strings, of which the second starts with the first
    Ends,           \* pairs of strings, of which the second ends with the first
    SubLast,        \* whether nothing is added to a route after its subrouter
    Unique,         \* whether programs give the variables of a path different names
    MaxRoutes, MaxCalls,    \* bounds
    None

MuxAssumption ==
    /\ MaxRoutes \in Nat /\ MaxCalls \in Nat /\ SubLast \in BOOLEAN /\ Unique \in BOOLEAN /\ Strict \in BOOLEAN
    /\ \A e \in Extends \cup Ends : e[1] # e[2]

VARIABLES
    routers,    \* router -> [parent: a route or 0, routes]
    routes,     \* route -> [router, matchers, handled, err, rx]
    arrays,     \* the arrays of slices; a slice is [array, len]
    calls,
    served      \* the request that was served last and its match
vars == <<routers, routes, arrays, calls, served>>

NilSlice == [array |-> 0, len |-> 0]
NoGroup == [host |-> None, path |-> None, queries |-> NilSlice]
Init ==
    /\ routers = <<[parent |-> 0, routes |-> <<>>]>> /\ routes = <<>> /\ arrays = <<>>
    /\ calls = 0 /\ served = None

(***************************************************************************)
(* Registering                                                             *)
(***************************************************************************)

Slice(xs, s) == IF s.array = 0 THEN <<>> ELSE SubSeq(xs[s.array], 1, s.len)

\* Go's append: in place while there is room, which doubles when it is used up.
Grown(xs, s, x) ==
    LET cap == IF s.len = 0 THEN 1 ELSE 2 * s.len IN
    Append(Slice(xs, s), x) \o [i \in 1..(cap - s.len - 1) |-> None]
AppendTo(xs, s, x) ==
    IF s.array # 0 /\ s.len < Len(xs[s.array])
    THEN [arrays |-> [xs EXCEPT ![s.array][s.len + 1] = x], slice |-> [s EXCEPT !.len = @ + 1]]
    ELSE [arrays |-> Append(xs, Grown(xs, s, x)), slice |-> [array |-> Len(xs) + 1, len |-> s.len + 1]]

\* What a route inherits: what the routes above it have at the time.
Parent(r) == routers[routes[r].router].parent
RECURSIVE GroupOf(_), Above(_)
GroupOf(r) ==
    IF routes[r].rx # None THEN routes[r].rx ELSE IF Parent(r) = 0 THEN NoGroup ELSE GroupOf(Parent(r))
Above(r) == IF Parent(r) = 0 THEN {} ELSE {Parent(r)} \cup Above(Parent(r))

VarsOf(segs) == {segs[i][2] : i \in {j \in DOMAIN segs : segs[j][1] = "var"}}
VarsIn(rx) ==
    CASE rx = None -> {}
      [] rx # None -> IF rx.kind = "path" THEN VarsOf(rx.segs) ELSE VarsOf(<<rx.part>>)
QueryVars(xs, g) == UNION {VarsIn(q) : q \in ToSet(Slice(xs, g.queries))}

\* A template that repeats a variable is refused.
Clashes(xs, g, rx) ==
    VarsIn(rx) \cap (QueryVars(xs, g) \cup IF rx.kind = "host" THEN VarsIn(g.path) ELSE VarsIn(g.host)) # {}

Call == calls < MaxCalls /\ calls' = calls + 1 /\ served' = None
Open(r) == SubLast => \A m \in ToSet(routes[r].matchers) : m.kind # "sub"

NewRoute(n) ==
    /\ Call /\ Len(routes) < MaxRoutes
    /\ routes' = Append(routes, [router |-> n, matchers |-> <<>>, handled |-> FALSE, err |-> FALSE, rx |-> None])
    /\ routers' = [routers EXCEPT ![n].routes = Append(@, Len(routes) + 1)]
    /\ UNCHANGED arrays

\* addRegexpMatcher, for the templates of a call one after the other
Added(acc, rx) ==
    IF acc.err THEN acc
    ELSE IF Clashes(acc.arrays, acc.rx, rx) THEN [acc EXCEPT !.err = TRUE]
    ELSE IF rx.kind = "query"
    THEN LET a == AppendTo(acc.arrays, acc.rx.queries, rx) IN
         [acc EXCEPT !.arrays = a.arrays, !.rx.queries = a.slice, !.matchers = Append(@, rx)]
    ELSE IF rx.kind = "host" THEN [acc EXCEPT !.rx.host = rx, !.matchers = Append(@, rx)]
    ELSE [acc EXCEPT !.rx.path = rx, !.matchers = Append(@, rx)]

addRegexpMatcher(r, rxs) ==
    LET acc == FoldLeft(Added, [err |-> routes[r].err, rx |-> GroupOf(r), arrays |-> arrays, matchers |-> routes[r].matchers], rxs) IN
    /\ Call /\ Open(r)
    /\ routes' = [q \in DOMAIN routes |->
                    IF routes[r].err THEN routes[q]
                    ELSE IF q = r THEN [routes[r] EXCEPT !.err = acc.err, !.matchers = acc.matchers, !.rx = acc.rx]
                    ELSE IF q \in Above(r) THEN [routes[q] EXCEPT !.rx = GroupOf(q)] ELSE routes[q]]
    /\ arrays' = acc.arrays /\ UNCHANGED routers

\* A path goes on from that of the parent.
PathOf(r, t, prefix) ==
    LET g == GroupOf(r) IN
    [kind |-> "path", prefix |-> prefix, strict |-> Strict /\ ~prefix, slash |-> t.slash,
     segs |-> IF g.path = None THEN t.segs ELSE g.path.segs \o t.segs]

Path(r) == \E t \in Paths, prefix \in BOOLEAN :
    /\ Unique => VarsOf(t.segs) \cap VarsIn(GroupOf(r).path) = {}
    /\ addRegexpMatcher(r, <<PathOf(r, t, prefix)>>)
Host(r) == \E h \in Hosts : addRegexpMatcher(r, <<[kind |-> "host", part |-> h]>>)
QueriesOf(r) == \E q \in Queries : addRegexpMatcher(r, [i \in DOMAIN q |-> [kind |-> "query", key |-> q[i].key, part |-> q[i].val]])

Add(r, m) ==
    /\ Call /\ Open(r)
    /\ routes' = IF routes[r].err THEN routes ELSE [routes EXCEPT ![r].matchers = Append(@, m)]
MethodsOf(r) == \E m \in Methods : Add(r, [kind |-> "method", method |-> m]) /\ UNCHANGED <<routers, arrays>>
Subrouter(r) ==
    /\ Add(r, [kind |-> "sub", router |-> Len(routers) + 1])
    /\ routers' = Append(routers, [parent |-> r, routes |-> <<>>])
    /\ UNCHANGED arrays
Handler(r) ==
    /\ Call /\ ~routes[r].handled
    /\ routes' = IF routes[r].err THEN routes ELSE [routes EXCEPT ![r].handled = TRUE]
    /\ UNCHANGED <<routers, arrays>>

(***************************************************************************)
(* Matching                                                                *)
(***************************************************************************)

Starts(s, t) == s = t \/ <<s, t>> \in Extends
FitsSegment(seg, s, whole) == seg[1] = "var" \/ (IF whole THEN s = seg[2] ELSE Starts(seg[2], s))

\* The regexp of a path matches: to the end, unless it is a prefix.
FitsPath(rx, req) ==
    LET n == Len(rx.segs) IN
    /\ n <= Len(req.segs)
    /\ \A i \in 1..n : FitsSegment(rx.segs[i], req.segs[i], ~rx.prefix \/ i < n \/ rx.slash)
    /\ IF rx.prefix THEN rx.slash => (Len(req.segs) > n \/ req.slash)
       ELSE Len(req.segs) = n /\ (rx.strict \/ req.slash = rx.slash)

\* A query is looked for anywhere in the query string.
FitsQuery(rx, q) ==
    /\ q.key = rx.key \/ <<rx.key, q.key>> \in Ends
    /\ (IF rx.part[1] = "var" THEN q.val # "" ELSE rx.part[2] = "" \/ Starts(rx.part[2], q.val))
Fits(m, req) ==
    CASE m.kind = "path" -> FitsPath(m, req)
      [] m.kind = "host" -> FitsSegment(m.part, req.host, TRUE)
      [] m.kind = "query" -> \E i \in DOMAIN req.query : FitsQuery(m, req.query[i])
      [] m.kind = "method" -> m.method = req.method

FirstQuery(m, req) == CHOOSE i \in DOMAIN req.query : FitsQuery(m, req.query[i]) /\ \A j \in 1..(i - 1) : ~FitsQuery(m, req.query[j])

\* The values of a template's variables in a request
Captured(m, req) ==
    CASE m.kind = "path" -> [v \in VarsOf(m.segs) |-> req.segs[CHOOSE i \in DOMAIN m.segs : m.segs[i] = <<"var", v>> /\ \A j \in DOMAIN m.segs : m.segs[j] = <<"var", v>> => j <= i]]
      [] m.kind = "host" -> [v \in VarsOf(<<m.part>>) |-> req.host]
      [] m.kind = "query" -> [v \in VarsOf(<<m.part>>) |-> req.query[FirstQuery(m, req)].val]

NoMatch == [route |-> 0, handler |-> 0, redirect |-> FALSE, vars |-> <<>>]
With(f, m, req) == IF m # None /\ Fits(m, req) THEN Captured(m, req) @@ f ELSE f

\* The path is a match but for the slash at its end.
Turned(p, req) == p # None /\ FitsPath(p, req) /\ p.strict /\ p.slash # req.slash

\* The handler of the innermost route, unless the slash makes it a redirection.
\* (_Outer: that of the outermost)
Handled_Outer(r, m) == IF routes[r].handled THEN r ELSE m.handler
Handled(r, m) == IF m.handler = 0 /\ ~m.redirect /\ routes[r].handled THEN r ELSE m.handler

setMatch(r, req, m) ==
    LET g == routes[r].rx
        found == [m EXCEPT !.route = IF @ = 0 THEN r ELSE @, !.handler = Handled(r, m)]
    IN  IF g = None THEN found
        ELSE [found EXCEPT !.redirect = @ \/ Turned(g.path, req),
                           !.vars = FoldLeft(LAMBDA f, q : With(f, q, req), With(With(@, g.host, req), g.path, req), Slice(arrays, g.queries))]

RECURSIVE MatchRoute(_, _, _)
MatchRouter(n, req, m) ==
    FoldLeft(LAMBDA acc, r : IF acc.ok THEN acc ELSE MatchRoute(r, req, acc.match), [ok |-> FALSE, match |-> m], routers[n].routes)
MatchRoute(r, req, m) ==
    LET Step(acc, x) ==
            IF ~acc.ok THEN acc
            ELSE IF x.kind = "sub" THEN MatchRouter(x.router, req, acc.match)
            ELSE [acc EXCEPT !.ok = Fits(x, req)]
        all == FoldLeft(Step, [ok |-> ~routes[r].err, match |-> m], routes[r].matchers)
    IN  IF all.ok THEN [all EXCEPT !.match = setMatch(r, req, @)] ELSE all

ServeHTTP(req) ==
    /\ served = None /\ routes # <<>>
    /\ served' = [req |-> req, ok |-> MatchRouter(1, req, NoMatch).ok, match |-> MatchRouter(1, req, NoMatch).match]
    /\ UNCHANGED <<routers, routes, arrays, calls>>

Next ==
    \/ \E n \in DOMAIN routers : NewRoute(n)
    \/ \E r \in DOMAIN routes : Path(r) \/ Host(r) \/ QueriesOf(r) \/ MethodsOf(r) \/ Subrouter(r) \/ Handler(r)
    \/ \E req \in Requests : ServeHTTP(req)
Spec == Init /\ [][Next]_vars

(***************************************************************************)
(* Properties                                                              *)
(***************************************************************************)

\* Whether a route matches by itself and, innermost first, the routes that are
\* chosen in it: those of the first of its subrouter's routes that matches.
RECURSIVE Chosen(_, _)
Oks(r, req) ==
    /\ ~routes[r].err
    /\ \A m \in ToSet(routes[r].matchers) : IF m.kind = "sub" THEN Chosen(m.router, req) # <<>> ELSE Fits(m, req)
Subs(r) == SelectSeq(routes[r].matchers, LAMBDA m : m.kind = "sub")
Chosen(n, req) ==
    LET ok == SelectSeq(routers[n].routes, LAMBDA r : Oks(r, req)) IN
    IF ok = <<>> THEN <<>>
    ELSE FoldLeft(LAMBDA s, m : s \o Chosen(m.router, req), <<>>, Subs(Head(ok))) \o <<Head(ok)>>
Chain == IF served = None THEN <<>> ELSE Chosen(1, served.req)

\* The first route that matches serves the request, with the innermost handler, and
\* one that did not match, or does not exist, has no part in it.
FirstWins ==
    (served # None /\ ~served.match.redirect) =>
        LET hs == SelectSeq(Chain, LAMBDA r : routes[r].handled) IN
        /\ served.ok = (Chain # <<>>)
        /\ served.match.handler = IF hs = <<>> THEN 0 ELSE Head(hs)

\* The handler gets the variables of every template of the routes that serve the
\* request, with the values they have in it.
AllVars ==
    (served # None /\ served.ok) =>
        \A r \in ToSet(Chain) : \A m \in ToSet(routes[r].matchers) :
            m.kind \in {"path", "host", "query"} =>
                \A v \in DOMAIN Captured(m, served.req) :
                    v \in DOMAIN served.match.vars /\ served.match.vars[v] = Captured(m, served.req)[v]

\* A redirection leads to a path that is served, not back.
RedirectEnds ==
    (served # None /\ served.match.redirect /\ served.ok) =>
        LET again == MatchRouter(1, [served.req EXCEPT !.slash = ~@], NoMatch) IN again.ok /\ ~again.match.redirect

\* From the variables of a request the route builds the request's path again.
Built(segs, f) == [i \in DOMAIN segs |-> IF segs[i][1] = "var" THEN f[segs[i][2]] ELSE segs[i][2]]
RoundTrip ==
    (served # None /\ served.ok /\ routes[served.match.route].rx # None) =>
        LET p == routes[served.match.route].rx.path IN
        (p # None /\ ~p.prefix) => Built(p.segs, served.match.vars) = served.req.segs
=============================================================================
