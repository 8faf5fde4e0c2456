------------------------------- MODULE MCEnds -------------------------------
(***************************************************************************)
(* The calls of the mgo driver and of goamz that must return.  instance    *)
(* says whose steps a behaviour takes; the others rest where nothing of    *)
(* theirs has begun, or all is over, and none of their steps is due: the   *)
(* fairness of all of them can be asked for at once.                       *)
(***************************************************************************)
EXTENDS FiniteSets, TLC

CONSTANTS None, g1, g2, g3, ping, d1, d2, base, ann, bob

VARIABLES
    instance,
    dead, nextRequestId, replyFuncs, conn, deadline, outgoing, incoming, reading,
    notify, killer, reported, status, received, strays,
    unused, live, closed, dropped, resync, references, alive, reader, pc, sock, held, victims,
    creds, logout, cachedNonce, gone, actor, answers, user, nonce, panicked, logins,
    doc, stash, txn, nonces, f, outcome, hist, resumed, flushes, kills,
    it, docs, asked, replies, killed, server, caller, over, got,
    file, todo, rest, at, closing, flying, chunks, whole,
    chunk, offset, rbuf, rcache, call, last, failed,
    service, client, faults, calls,
    servers, masters, refs, dynaSeeds, sync, open, master, broken, loop, spawned, work,
    notYetAdded, addIfFound, seen, syncKind, place, target, late, synced, role, changes, calm

socketVars == <<dead, nextRequestId, replyFuncs, conn, deadline, outgoing, incoming, reading,
                notify, killer, reported, status, received, strays>>
serverVars == <<unused, live, closed, dropped, resync, references, alive, reader, pc, sock, held, victims>>
authVars == <<creds, logout, cachedNonce, gone, actor, answers, user, nonce, panicked, logins>>
txnVars == <<doc, stash, txn, nonces, f, outcome, hist, resumed, flushes, kills>>
iterVars == <<it, docs, asked, replies, killed, server, caller, over, got>>
writeVars == <<file, todo, rest, at, closing, flying, chunks, whole>>
readVars == <<chunk, offset, rbuf, rcache, call, last, failed>>
uploadVars == <<service, client, faults, calls>>
clusterVars ==
    <<servers, masters, refs, dynaSeeds, sync, open, master, broken, loop, spawned, work,
      notYetAdded, addIfFound, seen, syncKind, place, target, late, synced, role, changes, calm>>

\* Two calls over a socket whose server may stay silent
Socket == INSTANCE MgoSocket WITH
    Calls <- {g1, g2}, Cursors <- {g2}, MaxDocs <- 2, IdSpan <- 4, Timeouts <- TRUE

\* A goroutine and the pinger, in a pool of one
Server == INSTANCE MgoServer WITH
    Users <- {g1}, Pinger <- ping, Sockets <- {d1, d2}, PoolLimit <- 1, MaxRefs <- 1,
    abended <- dropped, NoSocket <- None

\* Three logins wait for one nonce, and the socket may die.
cred(u, g) == [source |-> base, user |-> u, mech |-> "classic", good |-> g]
Auth == INSTANCE MgoAuth WITH
    Actors <- {g1, g2, g3}, Creds <- {cred(ann, TRUE), cred(bob, FALSE)}, Mongos <- FALSE, Does <- {"login"},
    MaxCalls <- 3, Kills <- TRUE, killed <- gone, replies <- answers, calls <- logins, Nobody <- None

\* Two runners flush a document that one transaction updates and one inserts.
Apply == (d1 :> <<[doc |-> d1, kind |-> "update", assert |-> "none"]>>) @@
         (d2 :> <<[doc |-> d1, kind |-> "insert", assert |-> "missing"]>>)
Txns == INSTANCE Txn WITH
    Runners <- {g1, g2}, TxnIds <- <<d1, d2>>, DocKeys <- <<d1>>, Ops <- Apply, Existing <- {d1},
    MaxFlushes <- 2, MaxKills <- 0

\* Replies that fail or are lost
Iter == INSTANCE MgoIter WITH
    Kinds <- {"find", "pipe", "tail"}, Calls <- {<<>>, <<<<"Limit", 1>>>>, <<<<"Limit", 3>>, <<"Batch", 2>>>>},
    Quarters <- 1, Total <- 3, Later <- 1, FirstBatch <- 2, Faults <- {"died", "refused", "failed", "lost"},
    Closes <- "ever", MaxInt <- 3, MaxAwaits <- 1, kills <- killed, closed <- over

Writing == INSTANCE MgoGridWrite WITH
    ChunkSize <- 2, Megabyte <- 4, Writes <- {1, 5}, MaxLength <- 8, Faults <- {"chunk", "abort", "file", "remove"},
    NoFile <- None, doc <- whole
Reading == INSTANCE MgoGridRead WITH
    Length <- 6, PerChunk <- 2, Reads <- {1, 3}, Fails <- 1, GivesUp <- FALSE, Before <- 0, MaxChunk <- 4,
    NoChunk <- None, result <- last

Upload == INSTANCE S3Multi WITH
    Clients <- {g1}, Contents <- {<<1, 2, 3>>, <<1, 3>>}, PartSizes <- {1}, ListMax <- 1, Others <- 1,
    Tries <- 2, MaxFaults <- 1, MaxCalls <- 4, MaxUploads <- 4, server <- service

\* A pair whose members name each other
Cluster == INSTANCE MgoCluster WITH
    Hosts <- {d1, d2}, userSeeds <- {d1}, Names <- (d1 :> {d1, d2}) @@ (d2 :> {d1, d2}), Clients <- {g1}, SlaveOk <- {}, NoServer <- None,
    Tagged <- {d1, d2}, Timeouts <- FALSE, Limited <- FALSE, direct <- FALSE, failFast <- FALSE,
    Incarnations <- 2, MaxChanges <- 0, references <- refs, abended <- broken, pc <- place

ASSUME InstancesAssumption ==
    /\ Server!ActorsAssumption /\ Server!LimitAssumption /\ Auth!CredsAssumption /\ Auth!BoundAssumption
    /\ Iter!IterAssumption /\ Writing!GridAssumption /\ Reading!ReadAssumption
    /\ Cluster!HostsAssumption /\ Cluster!FlagsAssumption /\ Cluster!BoundsAssumption

(***************************************************************************)
(* Who rests, and where                                                    *)
(***************************************************************************)

IdleSocket == Socket!Init /\ nextRequestId = 0

ClosedServer ==
    /\ unused = <<>> /\ live = {} /\ closed = TRUE /\ dropped = FALSE /\ resync = FALSE /\ victims = {}
    /\ references = [s \in {d1, d2} |-> 0] /\ alive = [s \in {d1, d2} |-> FALSE]
    /\ reader = [s \in {d1, d2} |-> "off"] /\ pc = [x \in {g1, ping} |-> "over"]
    /\ sock = [x \in {g1, ping} |-> None] /\ held = [x \in {g1, ping} |-> 0]

DeadLogins ==
    /\ creds = <<>> /\ logout = <<>> /\ cachedNonce = 0 /\ gone = TRUE /\ answers = <<>>
    /\ actor = [x \in {g1, g2, g3} |-> Auth!IdleActor] /\ user = [s \in {base} |-> None]
    /\ nonce = 1 /\ panicked = FALSE /\ logins = 0

ClosedCluster ==
    /\ servers = {} /\ masters = {} /\ refs = 0 /\ dynaSeeds = {} /\ sync = FALSE /\ open = {}
    /\ master = [s \in Cluster!Servers |-> FALSE] /\ broken = {} /\ loop = "over" /\ spawned = {}
    /\ work = [h \in {d1, d2} |-> Cluster!Off] /\ notYetAdded = {} /\ addIfFound = {} /\ seen = {}
    /\ syncKind = "partial" /\ place = [u \in {g1} |-> "closed"] /\ target = [u \in {g1} |-> None]
    /\ late = [u \in {g1} |-> "no"] /\ synced = [u \in {g1} |-> FALSE]
    /\ role = [h \in {d1, d2} |-> "down"] /\ changes = 0 /\ calm = TRUE

InstanceNames == {"socket", "server", "auth", "txns", "iter", "writing", "reading", "upload", "cluster"}
AnyInit ==
    /\ instance \in InstanceNames
    /\ IF instance = "socket" THEN Socket!Init ELSE IdleSocket
    /\ IF instance = "server" THEN Server!PoolInit ELSE ClosedServer
    /\ IF instance = "auth" THEN Auth!AuthInit ELSE DeadLogins
    /\ Txns!Init /\ Iter!Init /\ Writing!GridInit /\ Reading!ReadInit /\ Upload!Init
    /\ IF instance = "cluster" THEN Cluster!ClusterInit ELSE ClosedCluster

AnyNext ==
    /\ UNCHANGED instance
    /\ IF instance = "socket" THEN Socket!Next ELSE UNCHANGED socketVars
    /\ IF instance = "server" THEN Server!PoolNext ELSE UNCHANGED serverVars
    /\ IF instance = "auth" THEN Auth!AuthNext ELSE UNCHANGED authVars
    /\ IF instance = "txns" THEN Txns!Next ELSE UNCHANGED txnVars
    /\ IF instance = "iter" THEN Iter!Next ELSE UNCHANGED iterVars
    /\ IF instance = "writing" THEN Writing!GridNext ELSE UNCHANGED writeVars
    /\ IF instance = "reading" THEN Reading!ReadNext ELSE UNCHANGED readVars
    /\ IF instance = "upload" THEN Upload!Next ELSE UNCHANGED uploadVars
    /\ IF instance = "cluster" THEN Cluster!ClusterNext ELSE UNCHANGED clusterVars

all == <<instance, socketVars, serverVars, authVars, txnVars, iterVars, writeVars, readVars,
         uploadVars, clusterVars>>
AnySpec ==
    /\ AnyInit /\ [][AnyNext]_all
    /\ Socket!Fair /\ Server!PoolFair /\ Auth!AuthFair /\ Txns!Fair /\ Iter!Fair /\ Writing!GridFair /\ Reading!ReadFair
    /\ Upload!Fair /\ Cluster!ClusterFair

\* A query that was sent ends, though the server be silent; AcquireSocket and
\* Login return, a closed server closes all its sockets and its pinger ends; a
\* flush of transactions that wait for one another ends; Next, and the writing and
\* reading of a file, and an upload return, whatever fails; and a session finds the
\* master, when there is one to stay.
CallsReturn ==
    /\ Socket!CallsEnd /\ Server!CloseEndsAll /\ Server!PingerEnds /\ Server!AcquireEnds /\ Auth!LoginEnds
    /\ Txns!FlushEnds /\ Iter!Returns /\ Writing!WritesReturn /\ Reading!ReadsReturn /\ Upload!Ends /\ Cluster!MasterFound
=============================================================================
