------------------------------ MODULE MgoIter ------------------------------
(***************************************************************************)
(* Iterators of the mgo driver: a goroutine calls Next, replies arrive     *)
(* document by document in the socket's reader, another goroutine may      *)
(* close the iterator.  Every step holds the iterator's lock.  The server  *)
(* owns the cursor.  Documents are numbered in the order of the result;    *)
(* a reply may hold fewer than asked for.                                  *)
(* A reply waits for the iterator's lock, which Next may hold for ever.    *)
(***************************************************************************)
EXTENDS Integers, Sequences, FiniteSets, SequencesExt

CONSTANTS
    Kinds,          \* "find", "tail", "pipe"
    Calls,          \* the settings of a query: sequences of <<method, number>>
    Quarters,       \* the prefetch fraction, in quarters
    Total, Later,   \* documents of the result, and those inserted later
    FirstBatch,     \* the server's batch when none is asked for
    Faults,         \* "died", "dying", "refused", "failed", "undecodable", "lost"
    Closes,         \* may the iterator be closed: "never", "late", "ever"
    MaxInt,         \* the greatest int32
    MaxAwaits       \* how often Tail asks again before its timeout has passed

IterAssumption ==
    /\ Total \in Nat /\ Later \in Nat /\ FirstBatch \in Nat \ {0} /\ Quarters \in Nat
    /\ MaxInt \in Nat /\ MaxAwaits \in Nat

MinInt == -MaxInt - 1

VARIABLES
    it,         \* [kind, err, toReceive, cursor, before, limit, opLimit, timedout, awaits]
    docs,       \* the queue of documents received
    asked,      \* queries on their way to the server
    replies,    \* and replies from it: [docs, cursor, at, died]
    kills,      \* cursors to be killed, on their way
    server,     \* [pos, open, total]
    caller,     \* "new", "idle", "waiting", "over", "panicked", "stuck"
    closed, got

vars == <<it, docs, asked, replies, kills, server, caller, closed, got>>

Least(a, b) == IF a < b THEN a ELSE b
Size(n) == IF n < 0 THEN -n ELSE n

(***************************************************************************)
(* Settings of the query                                                   *)
(***************************************************************************)

Limit(q, n) ==
    CASE n = 1 -> [limit |-> 1, opLimit |-> -1]
      [] n = MinInt -> [limit |-> -(MinInt + 1), opLimit |-> MinInt + 1]
      [] n < 0 /\ n # MinInt -> [limit |-> -n, opLimit |-> n]
      [] OTHER -> [limit |-> n, opLimit |-> n]
Batch(q, n) == [q EXCEPT !.opLimit = IF n = 1 THEN 2 ELSE n]

Query(calls) ==
    FoldLeft(LAMBDA q, c : IF c[1] = "Limit" THEN Limit(q, c[2]) ELSE Batch(q, c[2]),
             [limit |-> 0, opLimit |-> 0], calls)

(***************************************************************************)
(* The server                                                              *)
(***************************************************************************)

\* How many documents a reply may hold, and whether the cursor closes with it
Hard(a) == a.kind = "query" /\ (a.n < 0 \/ a.n = 1)
Sizes(a) ==
    LET most == Least(IF a.n = 0 THEN FirstBatch ELSE Size(a.n), server.total - server.pos) IN
    IF most = 0 \/ Hard(a) THEN {most} ELSE {1, most}

Served(a, n) ==
    LET open == IF it.kind = "tail" THEN server.total > 0 ELSE ~Hard(a) /\ server.pos + n < server.total IN
    /\ server' = [server EXCEPT !.pos = @ + n, !.open = open]
    /\ replies' = Append(replies, [docs |-> [i \in 1..n |-> server.pos + i], cursor |-> open, at |-> 1, died |-> FALSE])

\* Queries over different sockets arrive in any order.
Serve ==
    \E i \in DOMAIN asked :
        LET a == asked[i]
            none == [docs |-> <<>>, cursor |-> FALSE, at |-> 1, died |-> FALSE]
        IN  /\ asked' = RemoveAt(asked, i)
            /\ IF a.kind = "query" \/ server.open
               THEN \/ \E n \in Sizes(a) : Served(a, n)
                    \/ /\ "failed" \in Faults /\ a.kind = "query"
                       /\ replies' = Append(replies, [none EXCEPT !.docs = <<0>>])
                       /\ UNCHANGED server
               ELSE replies' = Append(replies, none) /\ UNCHANGED server
            /\ UNCHANGED <<it, docs, kills, caller, closed, got>>

ServeKill ==
    /\ kills > 0 /\ kills' = kills - 1
    /\ server' = [server EXCEPT !.open = FALSE]
    /\ UNCHANGED <<it, docs, asked, replies, caller, closed, got>>

\* The server drops a cursor that was idle for long.
Lose ==
    /\ "lost" \in Faults /\ server.open /\ asked = <<>> /\ replies = <<>>
    /\ server' = [server EXCEPT !.open = FALSE]
    /\ UNCHANGED <<it, docs, asked, replies, kills, caller, closed, got>>

Insert ==
    /\ server.total < Total + Later
    /\ server' = [server EXCEPT !.total = @ + 1]
    /\ UNCHANGED <<it, docs, asked, replies, kills, caller, closed, got>>

\* The sockets die: every query under way gets an error.
Die ==
    /\ "died" \in Faults /\ asked \o replies # <<>>
    /\ \E i \in DOMAIN (asked \o replies) : i > Len(asked) => ~replies[i - Len(asked)].died
    /\ asked' = <<>>
    /\ replies' = [i \in DOMAIN (asked \o replies) |-> [docs |-> <<>>, cursor |-> FALSE, at |-> 1, died |-> TRUE]]
    /\ UNCHANGED <<it, docs, kills, server, caller, closed, got>>

(***************************************************************************)
(* replyFunc                                                               *)
(***************************************************************************)

\* The documents that may go before more are asked for.
Before(v, nd, rdocs) ==
    IF v.limit = 0 \/ nd + rdocs < v.limit THEN nd + rdocs - (v.prefetch * rdocs) \div 4 ELSE -1

\* A reply without documents
NoDocs(v, cursor) ==
    IF cursor THEN [v EXCEPT !.toReceive = @ - 1, !.cursor = TRUE]
    ELSE [v EXCEPT !.toReceive = @ - 1, !.err = "NotFound"]

Deliver ==
    /\ replies # <<>> /\ caller # "stuck"
    /\ LET r == Head(replies)  n == Len(r.docs) IN
       /\ CASE r.died ->
                  /\ it' = [it EXCEPT !.toReceive = @ - 1, !.err = "died"]
                  /\ docs' = docs /\ replies' = Tail(replies)
            [] ~r.died /\ n = 0 ->
                  /\ it' = NoDocs(it, r.cursor)
                  /\ docs' = docs /\ replies' = Tail(replies)
            [] ~r.died /\ n > 0 ->
                  /\ it' = IF r.at > 1 THEN [it EXCEPT !.toReceive = @ - 1]
                           ELSE [it EXCEPT !.toReceive = @ + n - 2, !.cursor = r.cursor,
                                           !.before = Before(it, Len(docs), n)]
                  /\ docs' = Append(docs, r.docs[r.at])
                  /\ replies' = IF r.at = n THEN Tail(replies) ELSE [replies EXCEPT ![1].at = @ + 1]
    /\ UNCHANGED <<asked, kills, server, caller, closed, got>>

(***************************************************************************)
(* The iterator                                                            *)
(***************************************************************************)

Init ==
    /\ it = [kind |-> "none", err |-> "nil", toReceive |-> 0, cursor |-> FALSE, before |-> 0, prefetch |-> 0,
             limit |-> 0, opLimit |-> 0, most |-> 0, timedout |-> FALSE, awaits |-> 0]
    /\ docs = <<>> /\ asked = <<>> /\ replies = <<>> /\ kills = 0
    /\ server = [pos |-> 0, open |-> FALSE, total |-> Total]
    /\ caller = "new" /\ closed = FALSE /\ got = <<>>

\* Query.Iter and Query.Tail: Tail has no limit of its own.  A socket that is
\* already dead has the reply function called before Query returns.
Find ==
    /\ caller = "new" /\ caller' = "idle"
    /\ \E kind \in Kinds \ {"pipe"}, calls \in Calls, err \in {"nil"} \cup (Faults \cap {"refused", "died"}) :
          LET q == Query(calls) IN
          /\ it' = [it EXCEPT !.kind = kind, !.opLimit = q.opLimit, !.prefetch = Quarters,
                              !.toReceive = IF err = "died" THEN 0 ELSE 1,
                              !.limit = IF kind = "find" THEN q.limit ELSE 0,
                              !.most = IF kind = "find" THEN q.limit ELSE 0,
                              !.err = err]
          /\ asked' = IF err = "nil" THEN <<[kind |-> "query", n |-> q.opLimit]>> ELSE <<>>
    /\ UNCHANGED <<docs, replies, kills, server, closed, got>>

\* Pipe.Iter: the command returns the first batch itself.
Pipe ==
    /\ caller = "new" /\ caller' = "idle" /\ "pipe" \in Kinds
    /\ \E n \in Sizes([kind |-> "pipe", n |-> 0]) :
          /\ docs' = [i \in 1..n |-> i]
          /\ server' = [server EXCEPT !.pos = n, !.open = n < server.total]
          /\ it' = [it EXCEPT !.kind = "pipe", !.cursor = n < server.total]
    /\ UNCHANGED <<asked, replies, kills, closed, got>>

\* What getMore asks for, with nd documents at hand
Wanted(v, nd) ==
    IF v.limit > 0 THEN Least(v.limit - v.toReceive - nd, v.opLimit) ELSE v.opLimit

\* The outcomes of getMore that return, and those of killCursor
AfterMore(v, nd) ==
    LET asks == [v EXCEPT !.toReceive = @ + 1, !.opLimit = Wanted(v, nd)] IN
    {asks} \cup IF "refused" \in Faults THEN {[v EXCEPT !.err = "refused"], [asks EXCEPT !.err = "refused"]} ELSE {}
AfterKill(v) ==
    LET killed == [v EXCEPT !.cursor = FALSE] IN
    {[it |-> killed, kill |-> IF v.cursor THEN "sent" ELSE "none"]} \cup
    IF v.cursor /\ "refused" \in Faults
    THEN {[it |-> [killed EXCEPT !.err = IF @ \in {"nil", "NotFound"} THEN "refused" ELSE @], kill |-> "failed"]}
    ELSE {}

Killed(k) == kills' = IF k.kill = "sent" THEN kills + 1 ELSE kills

Call ==
    /\ caller = "idle" /\ caller' = "waiting"
    /\ it' = [it EXCEPT !.timedout = FALSE, !.awaits = 0]
    /\ UNCHANGED <<docs, asked, replies, kills, server, closed, got>>

\* Next has nothing to return yet, and (_Any: whether or not) nothing is coming.
MustAsk_Any(v) == TRUE
MustAsk(v) == v.toReceive = 0

Asking ==
    /\ caller = "waiting" /\ it.err = "nil" /\ docs = <<>> /\ it.cursor /\ MustAsk(it)
    /\ it.kind = "tail" => it.awaits < MaxAwaits

NextAsks ==
    /\ Asking
    /\ \E w \in AfterMore(it, 0) :
          /\ it' = [w EXCEPT !.awaits = IF it.kind = "tail" THEN @ + 1 ELSE @]
          /\ asked' = IF w.err = "nil" THEN Append(asked, [kind |-> "more", n |-> w.opLimit]) ELSE asked
    /\ UNCHANGED <<docs, replies, kills, server, caller, closed, got>>

NextTimesOut ==
    /\ it.kind = "tail" /\ caller = "waiting" /\ it.err = "nil" /\ docs = <<>> /\ it.cursor /\ MustAsk(it)
    /\ it' = [it EXCEPT !.timedout = TRUE] /\ caller' = "idle"
    /\ UNCHANGED <<docs, asked, replies, kills, server, closed, got>>

\* Next returns a document: the limit, the prefetch, then what it decodes to.
\* When the cursor cannot be killed at the limit, the document is lost.
Limited(v) ==
    IF v.limit = 1 THEN AfterKill([v EXCEPT !.limit = 0, !.err = "NotFound"])
    ELSE {[it |-> [v EXCEPT !.limit = IF @ > 0 THEN @ - 1 ELSE @], kill |-> "none"]}
Prefetches(v) == v.cursor /\ v.err = "nil" /\ v.before = 0
Prefetched(v, nd) ==
    {IF v.cursor /\ v.err = "nil" THEN [w EXCEPT !.before = @ - 1] ELSE w :
        w \in IF Prefetches(v) THEN AfterMore(v, nd) ELSE {v}}

NextReturns ==
    /\ caller = "waiting" /\ docs # <<>>
    /\ docs' = Tail(docs)
    /\ IF it.limit = 1 /\ Len(docs) > 1
       THEN caller' = "panicked" /\ UNCHANGED <<it, asked, kills, got>>
       ELSE \E k \in Limited(it) :
              /\ Killed(k)
              /\ \/ /\ k.kill = "failed"
                    /\ it' = k.it /\ caller' = "over" /\ UNCHANGED <<asked, got>>
                 \/ /\ k.kill # "failed"
                    /\ \E w \in Prefetched(k.it, Len(docs) - 1) :
                          /\ asked' = IF w.toReceive > it.toReceive /\ w.err = "nil"
                                      THEN Append(asked, [kind |-> "more", n |-> w.opLimit]) ELSE asked
                          /\ \/ /\ Head(docs) # 0
                                /\ it' = w /\ got' = Append(got, Head(docs)) /\ caller' = "idle"
                             \/ /\ Head(docs) = 0 \/ "undecodable" \in Faults
                                /\ it' = [w EXCEPT !.err = IF @ = "nil" THEN "failed" ELSE @]
                                /\ caller' = "over" /\ UNCHANGED got
    /\ UNCHANGED <<replies, server, closed>>

\* The socket dies after getMore has acquired it: Query calls the reply function,
\* which waits for the lock that Next holds.
NextHangs ==
    /\ "dying" \in Faults
    /\ \/ /\ Asking
          /\ it' = [it EXCEPT !.opLimit = Wanted(it, 0)] /\ UNCHANGED docs
       \/ /\ caller = "waiting" /\ docs # <<>>
          /\ \E k \in Limited(it) :
                Prefetches(k.it) /\ it' = [k.it EXCEPT !.opLimit = Wanted(k.it, Len(docs) - 1)]
          /\ docs' = Tail(docs)
    /\ caller' = "stuck"
    /\ UNCHANGED <<asked, replies, kills, server, closed, got>>

\* Nothing is coming any more.
Exhausted(v) == v.toReceive = 0 /\ ~v.cursor

NextEnds ==
    /\ caller = "waiting" /\ docs = <<>>
    /\ it.err # "nil" \/ Exhausted(it)
    /\ it' = [it EXCEPT !.err = IF @ = "nil" THEN "NotFound" ELSE @]
    /\ caller' = "over"
    /\ UNCHANGED <<docs, asked, replies, kills, server, closed, got>>

\* Close may come while Next waits.  ("late": not before the first reply)
Close ==
    /\ ~closed /\ caller \notin {"new", "panicked", "stuck"}
    /\ Closes = "ever" \/ (Closes = "late" /\ it.toReceive = 0)
    /\ closed' = TRUE
    /\ \E k \in AfterKill(it) : it' = k.it /\ Killed(k)
    /\ UNCHANGED <<docs, asked, replies, server, caller, got>>

Next ==
    \/ Serve \/ ServeKill \/ Lose \/ Insert \/ Die \/ Deliver
    \/ Find \/ Pipe \/ Call \/ NextAsks \/ NextTimesOut \/ NextReturns \/ NextHangs
    \/ NextEnds \/ Close

Fair ==
    /\ WF_vars(Serve) /\ WF_vars(Deliver)
    /\ WF_vars(NextAsks \/ NextTimesOut) /\ WF_vars(NextReturns) /\ WF_vars(NextEnds)
Spec == Init /\ [][Next]_vars

(***************************************************************************)
(* Properties                                                              *)
(***************************************************************************)

\* What Next returns are the documents of the result in order, none twice and none
\* left out, and not more than the limit; also when it asks ahead.  (The last one
\* of a limited iteration may be missing, after an error.)
InOrder ==
    /\ \A i \in DOMAIN got : got[i] = i
    /\ it.most > 0 => Len(got) <= it.most

\* Iteration that ended without error and was not closed has returned everything
\* up to the limit.
Complete ==
    (caller = "over" /\ it.err = "NotFound" /\ ~closed /\ it.kind # "tail")
        => Len(got) = IF it.most > 0 THEN Least(it.most, server.total) ELSE server.total

\* Of the queries one at a time waits for its reply: the order of replies over
\* different sockets rests on it.
OneQuery == Len(asked) + Cardinality({i \in DOMAIN replies : replies[i].at = 1}) <= 1

\* The panic about data after the limit does not happen.
NoPanic == caller # "panicked"

\* At the end of the iteration the server has closed the cursor, or will.
Quiet == asked = <<>> /\ replies = <<>> /\ kills = 0
CursorFreed == (caller = "over" /\ it.err = "NotFound" /\ Quiet /\ it.kind # "tail") => ~server.open

\* Close kills the server's cursor.
ClosedIsClosed == (closed /\ Quiet) => ~server.open

\* Next returns, also when the query fails, the socket dies or no document comes.
Returns == []<>(caller \notin {"waiting", "stuck"})
=============================================================================
