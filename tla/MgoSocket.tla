------------------------------ MODULE MgoSocket ------------------------------
(***************************************************************************)
(* One mongoSocket: goroutines send operations over it, readLoop hands the *)
(* replies to their reply functions, and whoever kills the socket hands an *)
(* error to those that still wait.  The lock of the socket makes each      *)
(* action below one step.                                                  *)
(*                                                                         *)
(* A call is one use of Query with one operation that has a reply function *)
(* (SimpleQuery, a cursor's query or getMore, the getLastError of a write).*)
(* Operations without a reply function go under request id 0: the server   *)
(* answers those that are queries (logout), and nobody waits.              *)
(***************************************************************************)
EXTENDS Integers, Sequences, FiniteSets

CONSTANTS
    Calls,
    Cursors,    \* the calls that may be answered with any number of documents
    MaxDocs,    \* bound on the documents of a reply
    IdSpan,     \* request ids are numbers below this (2^32)
    Timeouts,   \* whether socket.timeout is positive
    None

ASSUME CallsAssumption == Cursors \subseteq Calls /\ None \notin Calls
ASSUME SpanAssumption == IdSpan \in Nat /\ IdSpan > 2 /\ MaxDocs \in Nat \ {0}
ASSUME TimeoutsAssumption == Timeouts \in BOOLEAN

VARIABLES
    dead,
    nextRequestId,
    replyFuncs,     \* for each request id, the call whose reply function it has
    conn,           \* "open", "broken" (by the peer or a failed write), "closed"
    deadline,       \* a read deadline is set
    outgoing,       \* requests written, not yet read by the server
    incoming,       \* replies not yet read
    reading,        \* what readLoop is at: [at, call, docs, about]
    notify,         \* for each killer, the calls it still has to tell
    killer,         \* "idle", "notifying", "over"
    reported,        \* the server was told (AbendSocket)
    status, received,   \* what the reply function of each call was given
    strays              \* replies handed to a call they do not belong to

peer == <<outgoing, incoming>>
told == <<status, received, strays>>
vars == <<dead, nextRequestId, replyFuncs, conn, deadline, peer, reading,
          notify, killer, reported, told>>

Killers == {"reader", "closer"}
Ids     == 0..IdSpan - 1
Silent  == [id |-> 0, call |-> None]
Idle    == [at |-> "header", call |-> None, docs |-> 0, about |-> None]

Message == [id : Ids, call : Calls \cup {None}]
Reply   == [id : Ids, about : Calls \cup {None}, docs : 0..MaxDocs]

TypeOK ==
    /\ dead \in BOOLEAN /\ deadline \in BOOLEAN /\ reported \in BOOLEAN
    /\ nextRequestId \in Ids
    /\ replyFuncs \in [Ids -> Calls \cup {None}] /\ replyFuncs[0] = None
    /\ conn \in {"open", "broken", "closed"}
    /\ outgoing \in Seq(Message) /\ incoming \in Seq(Reply)
    /\ reading \in [at : {"header", "docs", "update", "kill", "over"},
                    call : Calls \cup {None}, docs : 0..MaxDocs, about : Calls \cup {None}]
    /\ notify \in [Killers -> SUBSET Calls]
    /\ killer \in [Killers -> {"idle", "notifying", "over"}]
    /\ status \in [Calls -> {"none", "pending", "answered", "failed"}]
    /\ received \in [Calls -> 0..MaxDocs]
    /\ strays \in Nat

Waiting == {c \in Calls : \E id \in Ids : replyFuncs[id] = c}

\* The socket after any number of requests, when its reader waits for the next.
Init ==
    /\ dead = FALSE /\ deadline = FALSE /\ reported = FALSE
    /\ nextRequestId \in Ids
    /\ replyFuncs = [id \in Ids |-> None]
    /\ conn = "open" /\ outgoing = <<>> /\ incoming = <<>>
    /\ reading = Idle
    /\ notify = [k \in Killers |-> {}] /\ killer = [k \in Killers |-> "idle"]
    /\ status = [c \in Calls |-> "none"]
    /\ received = [c \in Calls |-> 0]
    /\ strays = 0

Ended(c) == status[c] \in {"answered", "failed"}

\* replyFunc(err, nil, -1, nil) of every call of S
Fail(S) ==
    /\ status' = [c \in Calls |-> IF c \in S THEN "failed" ELSE status[c]]
    /\ UNCHANGED <<received, strays>>

(***************************************************************************)
(* Query                                                                   *)
(***************************************************************************)

\* Id 0 is for requests without a reply. (_Zero: it is not left out)
RequestId_Zero(next) == (next + 1) % IdSpan
RequestId(next) == IF (next + 1) % IdSpan = 0 THEN 1 ELSE (next + 1) % IdSpan

\* The first call to wait puts the reader under a deadline. (_Never: it does not)
SetDeadline_Never == deadline
SetDeadline == deadline \/ (Timeouts /\ Waiting = {})

\* logout: Query found credentials to log out of, and puts that first.  The
\* write may fail, and then nothing that follows can be understood.
Query(c, logout) ==
    LET id == RequestId(nextRequestId) IN
    /\ status[c] = "none"
    /\ \/ /\ dead
          /\ Fail({c})
          /\ UNCHANGED <<nextRequestId, replyFuncs, conn, deadline, outgoing>>
       \/ /\ ~dead
          /\ nextRequestId' = (id + 1) % IdSpan
          /\ replyFuncs' = [replyFuncs EXCEPT ![id] = c]
          /\ deadline' = SetDeadline
          /\ status' = [status EXCEPT ![c] = "pending"]
          /\ \/ /\ outgoing' = outgoing \o (IF logout THEN <<Silent>> ELSE <<>>)
                                        \o <<[id |-> id, call |-> c]>>
                /\ UNCHANGED conn
             \/ conn' = "broken" /\ UNCHANGED outgoing
          /\ UNCHANGED <<received, strays>>
    /\ UNCHANGED <<dead, incoming, reading, notify, killer, reported>>

(***************************************************************************)
(* readLoop                                                                *)
(***************************************************************************)

\* The reply function leaves the table before it is called.
\* (_Kept: it stays there.)
Unregister_Kept(id) == replyFuncs
Unregister(id) == [replyFuncs EXCEPT ![id] = None]

Readable == conn # "closed" /\ incoming # <<>>

ReadHeader ==
    LET reply == Head(incoming)
        call  == replyFuncs[reply.id]
    IN  /\ reading.at = "header" /\ Readable
        /\ replyFuncs' = Unregister(reply.id)
        /\ incoming' = Tail(incoming)
        /\ reading' = [at |-> IF reply.docs = 0 THEN "update" ELSE "docs",
                       call |-> call, docs |-> reply.docs, about |-> reply.about]
        /\ IF call # None /\ reply.docs = 0
           THEN /\ status' = [status EXCEPT ![call] = "answered"]
                /\ strays' = IF reply.about = call THEN strays ELSE strays + 1
                /\ UNCHANGED received
           ELSE UNCHANGED told
        /\ UNCHANGED <<dead, nextRequestId, conn, deadline, outgoing, notify, killer, reported>>

ReadDoc ==
    LET call == reading.call
        left == reading.docs - 1
    IN  /\ reading.at = "docs" /\ conn # "closed"
        /\ reading' = [reading EXCEPT !.docs = left,
                                      !.at = IF left = 0 THEN "update" ELSE "docs"]
        /\ IF call # None
           THEN /\ received' = [received EXCEPT ![call] = @ + 1]
                /\ status' = [status EXCEPT ![call] = IF left = 0 THEN "answered" ELSE @]
                /\ strays' = IF reading.about = call THEN strays ELSE strays + 1
           ELSE UNCHANGED told
        /\ UNCHANGED <<dead, nextRequestId, replyFuncs, conn, deadline, peer, notify, killer, reported>>

\* After a reply: the deadline goes with the last call that waits.
UpdateDeadline ==
    /\ reading.at = "update"
    /\ reading' = Idle
    /\ deadline' = (Timeouts /\ Waiting # {})
    /\ UNCHANGED <<dead, nextRequestId, replyFuncs, conn, peer, notify, killer, reported, told>>

\* fill returns an error: the connection is gone, the deadline has passed, or
\* what was read is no reply.  In the middle of a reply its call is told.
ReadFails ==
    /\ reading.at \in {"header", "docs"}
    /\ conn # "open" \/ deadline
    /\ reading' = [Idle EXCEPT !.at = "kill"]
    /\ IF reading.call # None THEN Fail({reading.call}) ELSE UNCHANGED told
    /\ UNCHANGED <<dead, nextRequestId, replyFuncs, conn, deadline, peer, notify, killer, reported>>

(***************************************************************************)
(* kill                                                                    *)
(***************************************************************************)

\* Those to be told.
ToTell == Waiting

Kill(k) ==
    /\ k = "reader" => reading.at = "kill"
    /\ killer[k] = "idle"
    /\ \/ /\ dead
          /\ killer' = [killer EXCEPT ![k] = "over"]
          /\ UNCHANGED <<dead, conn, replyFuncs, notify>>
       \/ /\ ~dead
          /\ dead' = TRUE /\ conn' = "closed"
          /\ replyFuncs' = [id \in Ids |-> None]
          /\ notify' = [notify EXCEPT ![k] = ToTell]
          /\ killer' = [killer EXCEPT ![k] = "notifying"]
    /\ reading' = IF k = "reader" THEN [reading EXCEPT !.at = "over"] ELSE reading
    /\ UNCHANGED <<nextRequestId, deadline, peer, reported, told>>

\* Outside of the lock: the reply functions one by one, then AbendSocket.
Notify(k) ==
    /\ killer[k] = "notifying"
    /\ \/ /\ \E c \in notify[k] :
                /\ Fail({c})
                /\ notify' = [notify EXCEPT ![k] = @ \ {c}]
          /\ UNCHANGED <<killer, reported>>
       \/ /\ notify[k] = {}
          /\ killer' = [killer EXCEPT ![k] = "over"]
          /\ reported' = (reported \/ k = "reader")
          /\ UNCHANGED <<notify, told>>
    /\ UNCHANGED <<dead, nextRequestId, replyFuncs, conn, deadline, peer, reading>>

(***************************************************************************)
(* The server at the other end                                             *)
(***************************************************************************)

Serve ==
    LET m == Head(outgoing) IN
    /\ outgoing # <<>> /\ conn = "open"
    /\ \E n \in IF m.call \in Cursors THEN 0..MaxDocs ELSE {1} :
          incoming' = Append(incoming, [id |-> m.id, about |-> m.call, docs |-> n])
    /\ outgoing' = Tail(outgoing)
    /\ UNCHANGED <<dead, nextRequestId, replyFuncs, conn, deadline, reading,
                   notify, killer, reported, told>>

Disconnect ==
    /\ conn = "open"
    /\ conn' = "broken"
    /\ UNCHANGED <<dead, nextRequestId, replyFuncs, deadline, peer, reading,
                   notify, killer, reported, told>>

Reader == ReadHeader \/ ReadDoc \/ UpdateDeadline \/ ReadFails \/ Kill("reader")

Next == \/ \E c \in Calls, logout \in BOOLEAN : Query(c, logout)
        \/ Reader
        \/ Kill("closer")
        \/ \E k \in Killers : Notify(k)
        \/ Serve \/ Disconnect

Spec == Init /\ [][Next]_vars

\* The goroutine of readLoop runs, a blocked read of it returns when the
\* deadline passes, and who kills the socket finishes doing so.
Fair == WF_vars(Reader) /\ \A k \in Killers : WF_vars(Notify(k))

(***************************************************************************)
(* Properties                                                              *)
(***************************************************************************)

Promise == INSTANCE Calls

\* Whatever the order of replies, failures and kills, each reply function gets
\* its documents and then exactly one end: none twice, none after an error.
KeepsPromise == Promise!Spec

\* No reply reaches a call it does not answer: request ids are not mixed up,
\* with those without a reply function among them, when the counter wraps.
RepliesAreOwn == TypeOK /\ strays = 0

\* A call that was sent ends, though the server may never answer it, as long as
\* the socket has a timeout.
CallsEnd == \A c \in Calls : []<>(status[c] # "pending")
=============================================================================
