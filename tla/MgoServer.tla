------------------------------ MODULE MgoServer ------------------------------
(***************************************************************************)
(* One mongoServer: its pool of sockets, and the goroutines that acquire   *)
(* and release them while readLoops find connections gone and somebody     *)
(* closes the server.  A step is what a goroutine does under one lock, the *)
(* server's or a socket's; both are free between two steps.                *)
(***************************************************************************)
EXTENDS Integers, Sequences, FiniteSets, SequencesExt

CONSTANTS
    Users,      \* goroutines that use sockets through the pool
    Pinger,     \* the goroutine of newServer
    Sockets,    \* bounds the connections ever made
    PoolLimit,  \* the poolLimit of the users; the pinger has none
    MaxRefs,    \* bound on the references one user takes to a socket
    NoSocket

ActorsAssumption ==
    Pinger \notin Users /\ NoSocket \notin Sockets /\ IsFiniteSet(Users) /\ IsFiniteSet(Sockets)
LimitAssumption == PoolLimit \in Nat /\ MaxRefs \in Nat \ {0}

VARIABLES
    unused, live, closed, abended, resync,  \* the server's fields, and its sync channel
    references, alive,                      \* the sockets' (socket.server is nil when not alive)
    reader,     \* for each socket, what its readLoop is at
    pc, sock,   \* for each goroutine, what it is at, and with which socket
    held,       \* the references it has taken to that socket
    victims     \* the sockets Close has yet to close

serverFields == <<unused, live, closed, abended, resync>>
sockets == <<references, alive, reader>>
actors == <<pc, sock, held>>
poolVars == <<serverFields, sockets, actors, victims>>

Acquirers   == Users \cup {Pinger}
Limit(a) == IF a = Pinger THEN 0 ELSE PoolLimit
Unborn   == {s \in Sockets : reader[s] = "off"}

PoolTypeOK ==
    /\ unused \in Seq(Sockets) /\ live \subseteq Sockets
    /\ closed \in BOOLEAN /\ abended \in BOOLEAN /\ resync \in BOOLEAN
    /\ references \in [Sockets -> 0..MaxRefs]
    /\ alive \in [Sockets -> BOOLEAN]
    /\ reader \in [Sockets -> {"off", "loop", "abend", "over"}]
    /\ pc \in [Acquirers -> {"idle", "acquire", "reuse", "connect", "connected",
                          "use", "recycle", "refuse", "after", "over"}]
    /\ sock \in [Acquirers -> Sockets \cup {NoSocket}]
    /\ held \in [Acquirers -> 0..MaxRefs]
    /\ victims \subseteq Sockets

PoolInit ==
    /\ unused = <<>> /\ live = {} /\ closed = FALSE /\ abended = FALSE /\ resync = FALSE
    /\ references = [s \in Sockets |-> 0] /\ alive = [s \in Sockets |-> FALSE]
    /\ reader = [s \in Sockets |-> "off"]
    /\ pc = [a \in Acquirers |-> "idle"] /\ sock = [a \in Acquirers |-> NoSocket]
    /\ held = [a \in Acquirers |-> 0]
    /\ victims = {}

Goto(a, where, s) == pc' = [pc EXCEPT ![a] = where] /\ sock' = [sock EXCEPT ![a] = s]
\* A call that gives no socket: the pinger gives up when the server is closed.
Ends(a) == Goto(a, IF a = Pinger /\ closed THEN "over" ELSE "idle", NoSocket)

(***************************************************************************)
(* AcquireSocket                                                           *)
(***************************************************************************)

Call(a) ==
    /\ pc[a] = "idle"
    /\ Goto(a, "acquire", NoSocket)
    /\ UNCHANGED <<serverFields, sockets, held, victims>>

AtLimit(a) == Limit(a) > 0 /\ Cardinality(live) - Len(unused) >= Limit(a)

\* The socket last put back is reused first. (_Kept: and stays where it was)
WithoutLast_Kept(s) == s
WithoutLast(s) == Front(s)

\* Under the server's lock: refuse, take a socket of the pool, or set out to connect.
Acquire(a) ==
    /\ pc[a] = "acquire"
    /\ \/ /\ closed \/ AtLimit(a)
          /\ Ends(a)
          /\ UNCHANGED unused
       \/ /\ ~closed /\ ~AtLimit(a) /\ unused # <<>>
          /\ Goto(a, "reuse", Last(unused))
          /\ unused' = WithoutLast(unused)
       \/ /\ ~closed /\ ~AtLimit(a) /\ unused = <<>>
          /\ Goto(a, "connect", NoSocket)
          /\ UNCHANGED unused
    /\ UNCHANGED <<live, closed, abended, resync, sockets, held, victims>>

\* A socket of the pool that has died meanwhile is dropped: try again.
InitialAcquire(a) ==
    LET s == sock[a] IN
    /\ pc[a] = "reuse"
    /\ IF alive[s]
       THEN /\ Goto(a, "use", s)
            /\ references' = [references EXCEPT ![s] = @ + 1]
            /\ held' = [held EXCEPT ![a] = 1]
       ELSE Goto(a, "acquire", NoSocket) /\ UNCHANGED <<references, held>>
    /\ UNCHANGED <<serverFields, alive, reader, victims>>

\* The socket's readLoop runs before the server knows of the socket.
Connect(a) ==
    /\ pc[a] = "connect"
    /\ \/ /\ Goto(a, "idle", NoSocket)
          /\ UNCHANGED <<references, alive, reader, held>>
       \/ \E s \in Unborn :
             /\ Goto(a, "connected", s)
             /\ references' = [references EXCEPT ![s] = 1]
             /\ alive' = [alive EXCEPT ![s] = TRUE]
             /\ reader' = [reader EXCEPT ![s] = "loop"]
             /\ held' = [held EXCEPT ![a] = 1]
    /\ UNCHANGED <<serverFields, victims>>

ClosedMeanwhile == closed

\* The server was closed in the meantime, or the socket is one of its own.
Connected(a) ==
    /\ pc[a] = "connected"
    /\ \/ /\ ClosedMeanwhile
          /\ Goto(a, "refuse", sock[a])
          /\ references' = [references EXCEPT ![sock[a]] = @ - 1]
          /\ held' = [held EXCEPT ![a] = 0]
          /\ UNCHANGED live
       \/ /\ ~ClosedMeanwhile
          /\ Goto(a, "use", sock[a])
          /\ live' = live \cup {sock[a]}
          /\ UNCHANGED <<references, held>>
    /\ UNCHANGED <<unused, closed, abended, resync, alive, reader, victims>>

\* After its Release (RecycleSocket keeps nothing in a closed server), its Close.
Refuse(a) ==
    /\ pc[a] = "refuse"
    /\ alive' = [alive EXCEPT ![sock[a]] = FALSE]
    /\ Ends(a)
    /\ UNCHANGED <<serverFields, references, reader, held, victims>>

(***************************************************************************)
(* Use and release                                                         *)
(***************************************************************************)

\* Another reference, as a session takes for each of its iterators.
AcquireAgain(a) ==
    /\ pc[a] = "use" /\ a # Pinger /\ held[a] < MaxRefs
    /\ references' = [references EXCEPT ![sock[a]] = @ + 1]
    /\ held' = [held EXCEPT ![a] = @ + 1]
    /\ UNCHANGED <<serverFields, alive, reader, pc, sock, victims>>

\* Given up when this was the last reference.
Unreferenced(n) == n = 0

\* A dead socket has no server to go back to.
Release(a) ==
    LET s == sock[a] IN
    /\ pc[a] = "use"
    /\ references' = [references EXCEPT ![s] = @ - 1]
    /\ held' = [held EXCEPT ![a] = @ - 1]
    /\ IF ~Unreferenced(references[s] - 1) THEN UNCHANGED <<pc, sock>>
       ELSE Goto(a, IF alive[s] THEN "recycle" ELSE "after", s)
    /\ UNCHANGED <<serverFields, alive, reader, victims>>

PutBack(s) == Append(unused, s)

Recycle(a) ==
    /\ pc[a] = "recycle"
    /\ unused' = IF closed THEN unused ELSE PutBack(sock[a])
    /\ Goto(a, "after", sock[a])
    /\ UNCHANGED <<live, closed, abended, resync, sockets, held, victims>>

After(a) ==
    /\ pc[a] = "after"
    /\ Goto(a, IF a = Pinger /\ closed THEN "over" ELSE "idle", NoSocket)
    /\ held' = [held EXCEPT ![a] = 0]
    /\ UNCHANGED <<serverFields, sockets, victims>>

(***************************************************************************)
(* The end of a socket, and of the server                                  *)
(***************************************************************************)

\* readLoop kills the socket: the connection is gone, or its deadline passed;
\* when somebody else closed it, there is nothing left to do.
Dies(s) ==
    /\ reader[s] = "loop"
    /\ reader' = [reader EXCEPT ![s] = IF alive[s] THEN "abend" ELSE "over"]
    /\ alive' = [alive EXCEPT ![s] = FALSE]
    /\ UNCHANGED <<serverFields, references, actors, victims>>

\* without the first s
removeSocket(seq, s) ==
    IF s \notin ToSet(seq) THEN seq
    ELSE RemoveAt(seq, CHOOSE i \in DOMAIN seq : seq[i] = s /\ \A j \in DOMAIN seq : j < i => seq[j] # s)

AbendSocket(s) ==
    /\ reader[s] = "abend"
    /\ reader' = [reader EXCEPT ![s] = "over"]
    /\ abended' = TRUE
    /\ IF closed THEN UNCHANGED <<live, unused, resync>>
       ELSE /\ live' = live \ {s}
            /\ unused' = removeSocket(unused, s)
            /\ resync' = TRUE
    /\ UNCHANGED <<closed, references, alive, actors, victims>>

\* Those Close ends.
ToClose == live

Close ==
    /\ ~closed
    /\ closed' = TRUE
    /\ victims' = ToClose
    /\ live' = {} /\ unused' = <<>>
    /\ UNCHANGED <<abended, resync, sockets, actors>>

CloseNext ==
    /\ \E s \in victims : alive' = [alive EXCEPT ![s] = FALSE] /\ victims' = victims \ {s}
    /\ UNCHANGED <<serverFields, references, reader, actors>>

Step(a) == \/ Acquire(a) \/ InitialAcquire(a) \/ Connect(a) \/ Connected(a)
           \/ Refuse(a) \/ Release(a) \/ Recycle(a) \/ After(a)

PoolNext ==
    \/ \E a \in Acquirers : Call(a) \/ Step(a) \/ AcquireAgain(a)
    \/ \E s \in Sockets : Dies(s) \/ AbendSocket(s)
    \/ Close \/ CloseNext

PoolSpec == PoolInit /\ [][PoolNext]_poolVars

\* Goroutines go on; users release what they acquired (the promise of a caller
\* of AcquireSocket); the pinger calls again and again.
PoolFair ==
    /\ \A a \in Acquirers : WF_poolVars(Step(a))
    /\ WF_poolVars(Call(Pinger))
    /\ \A s \in Sockets : WF_poolVars(AbendSocket(s))
    /\ WF_poolVars(CloseNext)

(***************************************************************************)
(* Properties                                                              *)
(***************************************************************************)

\* The goroutines that have got the socket from AcquireSocket.
Owners(s) == {a \in Acquirers : sock[a] = s /\ pc[a] \in {"reuse", "connected", "use", "refuse"}}

\* A socket belongs to one goroutine or to the pool, and to the pool once; in
\* the pool it has no references, so that InitialAcquire, Acquire and Release
\* never panic over them.
OneOwner ==
    \A s \in Sockets :
        /\ Cardinality(Owners(s)) <= 1
        /\ s \in ToSet(unused) => Owners(s) = {} /\ references[s] = 0
        /\ \A a \in Owners(s) : references[s] = held[a]
    /\ IsInjective(unused)

\* No connection is lost from sight: one that is alive is among liveSockets,
\* or about to be put there, or to be closed.
NoneLost ==
    \A s \in Sockets : alive[s] =>
        \/ s \in live \cup victims
        \/ \E a \in Acquirers : sock[a] = s /\ pc[a] \in {"connected", "refuse"}

\* The pool is used up before another connection is made: there are never more
\* alive than goroutines, whatever they wait for, fail at and release.
Reuses == Cardinality({s \in Sockets : alive[s]}) <= Cardinality(Acquirers)

\* Sockets of a pool have one owner, none is lost from sight, and the pool is
\* used up before another connection is made.
PoolIsSound == PoolTypeOK /\ OneOwner /\ NoneLost /\ Reuses

\* After Close no connection stays open, those being made then included.
CloseEndsAll == []<>(closed => \A s \in Sockets : ~alive[s])

\* The pinger of a closed server ends.
PingerEnds == []<>(closed => pc[Pinger] = "over")

\* AcquireSocket returns, however many sockets of the pool have died.
AcquireEnds == \A a \in Acquirers : []<>(pc[a] \in {"idle", "use", "over"})

=============================================================================
