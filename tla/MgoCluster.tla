------------------------------ MODULE MgoCluster ------------------------------
(***************************************************************************)
(* mongoCluster: the servers it knows, the loop that synchronizes them     *)
(* with the topology by asking all of them at once, and the sessions that  *)
(* get a socket to one.  Steps are what a goroutine does under the lock of *)
(* the cluster (or of the maps of an iteration), and what it does with a   *)
(* server outside of it.                                                   *)
(*                                                                         *)
(* A mongoServer is a pair <<address, incarnation>>; that it is open says  *)
(* that nobody has closed it.  Pools and sockets are in MgoServer; of the  *)
(* servers that fit, any may be chosen (BestFit).                          *)
(***************************************************************************)
EXTENDS Integers, FiniteSets

CONSTANTS
    Hosts,          \* addresses
    userSeeds,      \* those the program dialed
    Names,          \* whom each host names when asked ismaster
    Clients,        \* sessions
    SlaveOk,        \* those content with a slave
    Tagged,         \* the hosts with the tags that slaveOk sessions want
    Timeouts,       \* whether they have a sync timeout
    Limited,        \* whether pools may be at their limit
    direct, failFast,
    Incarnations,   \* enough for those somebody still refers to
    MaxChanges,     \* bound on the changes of the topology
    NoServer

HostsAssumption ==
    /\ IsFiniteSet(Clients) /\ Clients # {} /\ NoServer \notin Hosts \X Nat
    /\ userSeeds \subseteq Hosts /\ userSeeds # {} /\ Tagged \subseteq Hosts
    /\ Names \in [Hosts -> SUBSET Hosts] /\ SlaveOk \subseteq Clients
FlagsAssumption == {Timeouts, Limited, direct, failFast} \subseteq BOOLEAN
BoundsAssumption == Incarnations \in Nat \ {0} /\ MaxChanges \in Nat

VARIABLES
    servers, masters, references, dynaSeeds,    \* the cluster's fields
    sync,           \* its channel holds a request
    open, master, abended,  \* of mongoServers: not closed, info.Master, abended
    loop,           \* what syncServersLoop is at
    spawned,        \* goroutines of spawnSync that have not begun: [host, byMaster]
    work,           \* the one of each host that went on: [at, server, master]
    notYetAdded, addIfFound, seen, syncKind,    \* the variables of an iteration
    pc, target,     \* the sessions in AcquireSocket, and the server they picked
    late, synced,   \* their timeout has passed; a sync was done since they wait
    role, changes,  \* the topology: "primary", "secondary", "down"
    calm            \* nothing has disturbed the iteration

cluster == <<servers, masters, references, dynaSeeds>>
objects == <<open, master, abended>>
maps == <<notYetAdded, addIfFound, seen, syncKind>>
iteration == <<spawned, work, maps>>
users == <<pc, target, late, synced>>
topology == <<role, changes>>
clusterVars == <<cluster, sync, objects, loop, iteration, users, topology, calm>>

Servers == Hosts \X (1..Incarnations)
Host(s) == s[1]
Off     == [at |-> "off", server |-> NoServer, master |-> FALSE]
At(h)   == {s \in servers : Host(s) = h}

ClusterTypeOK ==
    /\ servers \subseteq Servers /\ masters \subseteq servers
    /\ references \in 0..Cardinality(Clients) + 1 /\ dynaSeeds \subseteq Hosts
    /\ sync \in BOOLEAN /\ calm \in BOOLEAN
    /\ open \subseteq Servers /\ abended \subseteq Servers /\ master \in [Servers -> BOOLEAN]
    /\ loop \in {"start", "iterate", "settle", "release", "count", "wait", "over"}
    /\ spawned \subseteq [host : Hosts, byMaster : BOOLEAN]
    /\ work \in [Hosts -> [at : {"off", "server", "ask", "classify", "add", "admit", "remove"},
                           server : Servers \cup {NoServer}, master : BOOLEAN]]
    /\ notYetAdded \subseteq Servers /\ addIfFound \subseteq Hosts /\ seen \subseteq Hosts
    /\ syncKind \in {"complete", "partial"}
    /\ pc \in [Clients -> {"look", "wait", "try", "got", "failed", "closed"}]
    /\ target \in [Clients -> Servers \cup {NoServer}]
    /\ late \in [Clients -> {"no", "started", "late"}] /\ synced \in [Clients -> BOOLEAN]
    /\ role \in [Hosts -> {"primary", "secondary", "down"}] /\ changes \in 0..MaxChanges

\* The sessions that are not closed, each with a reference to the cluster
InUse == {u \in Clients : pc[u] # "closed"}

\* Any sessions there are, one at least.
ClusterInit ==
    /\ servers = {} /\ masters = {} /\ dynaSeeds = {}
    /\ sync = FALSE /\ calm = TRUE
    /\ open = {} /\ abended = {} /\ master = [s \in Servers |-> FALSE]
    /\ loop = "start" /\ spawned = {} /\ work = [h \in Hosts |-> Off]
    /\ notYetAdded = {} /\ addIfFound = {} /\ seen = {} /\ syncKind = "partial"
    /\ pc \in [Clients -> {"look", "closed"}] /\ InUse # {} /\ references = Cardinality(InUse)
    /\ target = [u \in Clients |-> NoServer]
    /\ late = [u \in Clients |-> "no"] /\ synced = [u \in Clients |-> FALSE]
    /\ role \in [Hosts -> {"primary", "secondary", "down"}] /\ changes = 0
    /\ \A g, h \in Hosts : role[g] = "primary" /\ role[h] = "primary" => g = h

\* serverSynced.Broadcast
Woken == [u \in Clients |-> IF pc[u] = "wait" THEN "look" ELSE pc[u]]

(***************************************************************************)
(* The list of servers                                                     *)
(***************************************************************************)

\* Whichever server has the address is removed and closed, with this one.
removeServer(s) ==
    /\ servers' = servers \ At(Host(s))
    /\ masters' = masters \ At(Host(s))
    /\ open' = open \ (At(Host(s)) \cup {s})

MastersWith(s, isMaster) == IF isMaster THEN masters \cup {s} ELSE masters \ {s}

\* An unknown server is of no use when no master vouches for it.
Discard(s) == open \ {s}

addServer(s, isMaster, kind) ==
    IF At(Host(s)) = {} /\ kind = "partial"
    THEN open' = Discard(s) /\ UNCHANGED <<servers, masters, master, pc>>
    ELSE /\ servers' = servers \cup {s}
         /\ masters' = MastersWith(s, isMaster)
         /\ master' = [master EXCEPT ![s] = isMaster]
         /\ pc' = Woken
         /\ UNCHANGED open

\* The last to leave closes the servers and wakes the loop.
\* (_Masters: it closes the masters)
OpenAfter_Masters == open \ masters
OpenAfter == open \ servers

ReleaseCluster ==
    /\ references' = references - 1
    /\ IF references = 1 THEN open' = OpenAfter /\ sync' = TRUE
       ELSE UNCHANGED <<open, sync>>

(***************************************************************************)
(* syncServersLoop                                                         *)
(***************************************************************************)

getKnownAddrs == userSeeds \cup dynaSeeds \cup {Host(s) : s \in servers}

StartSync ==
    /\ loop = "start"
    /\ IF references = 0
       THEN loop' = "over" /\ UNCHANGED <<references, spawned, maps, calm>>
       ELSE /\ loop' = "iterate"
            /\ references' = references + 1
            /\ spawned' = [host : getKnownAddrs, byMaster : {FALSE}]
            /\ notYetAdded' = {} /\ addIfFound' = {} /\ seen' = {} /\ syncKind' = "partial"
            /\ calm' = (servers \subseteq open)
    /\ UNCHANGED <<servers, masters, dynaSeeds, sync, objects, work, users, topology>>

Work(h, at, s, m) == work' = [work EXCEPT ![h] = [at |-> at, server |-> s, master |-> m]]

\* spawnSync: the goroutine may find its address handled already; what a master
\* names is added as soon as it has been found, in whichever order.
\* (_Not: it is not noted that a master named it)
FoundLater_Not(h) == addIfFound
FoundLater(h) == addIfFound \cup {h}

BeginSync(t) ==
    LET h == t.host
        found == {s \in notYetAdded : Host(s) = h}
    IN  /\ t \in spawned
        /\ \/ /\ t.byMaster /\ found # {}
              /\ notYetAdded' = notYetAdded \ found
              /\ \E s \in found : Work(h, "admit", s, FALSE)
              /\ spawned' = spawned \ {t}
              /\ UNCHANGED <<addIfFound, seen>>
           \/ /\ ~(t.byMaster /\ found # {})
              /\ addIfFound' = IF t.byMaster THEN FoundLater(h) ELSE addIfFound
              /\ IF h \in seen THEN UNCHANGED <<seen, work>>
                 ELSE /\ seen' = seen \cup {h}
                      /\ Work(h, "server", NoServer, FALSE)
              /\ spawned' = spawned \ {t}
              /\ UNCHANGED notYetAdded
        /\ UNCHANGED <<cluster, sync, objects, loop, syncKind, users, topology, calm>>

\* The address cannot be resolved.
Unresolved(t) ==
    /\ t \in spawned
    /\ spawned' = spawned \ {t} /\ calm' = FALSE
    /\ UNCHANGED <<cluster, sync, objects, loop, work, maps, users, topology>>

\* Incarnations somebody may still use, or refer to
Referred == open \cup servers \cup {target[u] : u \in Clients} \cup {work[h].server : h \in Hosts}

\* cluster.server: the one that is known, or a new one.
Known(h) == At(h)

GetServer(h) ==
    /\ work[h].at = "server"
    /\ \/ \E s \in Known(h) : Work(h, "ask", s, FALSE) /\ UNCHANGED objects
       \/ /\ Known(h) = {}
          /\ \E i \in 1..Incarnations :
                /\ <<h, i>> \notin Referred
                /\ \A j \in 1..i - 1 : <<h, j>> \in Referred
                /\ Work(h, "ask", <<h, i>>, FALSE)
                /\ open' = open \cup {<<h, i>>}
                /\ abended' = abended \ {<<h, i>>}
                /\ master' = [master EXCEPT ![<<h, i>>] = FALSE]
    /\ UNCHANGED <<cluster, sync, loop, spawned, maps, users, topology, calm>>

\* syncServer, with its retries.
Ask(h) ==
    LET s == work[h].server IN
    /\ work[h].at = "ask"
    /\ IF s \in open /\ role[h] # "down"
       THEN Work(h, "classify", s, role[h] = "primary")
       ELSE Work(h, "remove", s, FALSE)
    /\ UNCHANGED <<cluster, sync, objects, loop, spawned, maps, users, topology, calm>>

Spawn(h) == IF direct THEN spawned
            ELSE spawned \cup [host : Names[h], byMaster : {work[h].master}]

Vouched(h) == direct \/ work[h].master \/ h \in addIfFound

Classify(h) ==
    LET s == work[h].server IN
    /\ work[h].at = "classify"
    /\ IF Vouched(h)
       THEN /\ syncKind' = "complete"
            /\ Work(h, "add", s, work[h].master)
            /\ UNCHANGED <<notYetAdded, spawned>>
       ELSE /\ notYetAdded' = notYetAdded \cup {s}
            /\ work' = [work EXCEPT ![h] = Off]
            /\ spawned' = Spawn(h)
            /\ UNCHANGED syncKind
    /\ UNCHANGED <<cluster, sync, objects, loop, addIfFound, seen, users, topology, calm>>

\* A server taken from notYetAdded has spawned its hosts already.
Add(h) ==
    /\ work[h].at \in {"add", "admit"}
    /\ addServer(work[h].server, work[h].master, "complete")
    /\ spawned' = IF work[h].at = "add" THEN Spawn(h) ELSE spawned
    /\ work' = [work EXCEPT ![h] = Off]
    /\ UNCHANGED <<references, dynaSeeds, sync, abended, loop, maps, target, late, synced, topology, calm>>

Drop(h) ==
    /\ work[h].at = "remove"
    /\ removeServer(work[h].server)
    /\ work' = [work EXCEPT ![h] = Off]
    /\ UNCHANGED <<references, dynaSeeds, sync, master, abended, loop, spawned, maps, users, topology, calm>>

\* All the goroutines are through (wg.Wait).
Joined ==
    /\ loop = "iterate" /\ spawned = {} /\ \A h \in Hosts : work[h] = Off
    /\ loop' = "settle"
    /\ UNCHANGED <<cluster, sync, objects, iteration, users, topology, calm>>

\* The servers nobody vouched for go when a master was found; else those that
\* were known stay.
PendingKind == syncKind

Settle ==
    /\ loop = "settle" /\ notYetAdded # {}
    /\ \E s \in notYetAdded :
          /\ notYetAdded' = notYetAdded \ {s}
          /\ IF PendingKind = "complete"
             THEN removeServer(s) /\ UNCHANGED <<master, pc>>
             ELSE addServer(s, FALSE, "partial")
    /\ UNCHANGED <<references, dynaSeeds, sync, abended, loop, spawned, work, addIfFound, seen,
                   syncKind, target, late, synced, topology, calm>>

\* The seeds of the next iteration; a request that came meanwhile is answered.
Settled ==
    /\ loop = "settle" /\ notYetAdded = {}
    /\ loop' = "release"
    /\ dynaSeeds' = IF syncKind = "complete" THEN {Host(s) : s \in servers} ELSE dynaSeeds
    /\ sync' = FALSE
    /\ UNCHANGED <<servers, masters, references, objects, iteration, users, topology, calm>>

ReleaseSync ==
    /\ loop = "release" /\ loop' = "count"
    /\ ReleaseCluster
    /\ UNCHANGED <<servers, masters, dynaSeeds, master, abended, iteration, users, topology, calm>>

Poked == Woken

Count ==
    /\ loop = "count"
    /\ IF references = 0 THEN loop' = "over" /\ UNCHANGED <<pc, synced>>
       ELSE /\ synced' = [u \in Clients |-> late[u] # "no"]
            /\ pc' = Poked
            /\ loop' = IF (~direct /\ masters = {}) \/ servers = {} THEN "start" ELSE "wait"
    /\ UNCHANGED <<cluster, sync, objects, iteration, target, late, topology, calm>>

\* Somebody asks for a sync, or 30 seconds pass.
Wait ==
    /\ loop = "wait"
    /\ loop' = "start" /\ sync' = FALSE
    /\ UNCHANGED <<cluster, objects, iteration, users, topology, calm>>

(***************************************************************************)
(* AcquireSocket                                                           *)
(***************************************************************************)

Goto(u, where, s) == pc' = [pc EXCEPT ![u] = where] /\ target' = [target EXCEPT ![u] = s]
Usable(u) == masters # {} \/ (u \in SlaveOk /\ servers # {})
Fitting(u) == IF u \in SlaveOk THEN {s \in servers : Host(s) \in Tagged} ELSE masters
GivesUp(u) == late[u] = "late" \/ (late[u] # "no" /\ failFast /\ synced[u])

Look(u) ==
    /\ pc[u] = "look"
    /\ \/ /\ Usable(u)
          /\ \/ \E s \in Fitting(u) : Goto(u, "try", s)
             \/ Fitting(u) = {} /\ UNCHANGED <<pc, target>>
          /\ UNCHANGED <<late, synced, sync>>
       \/ /\ ~Usable(u)
          /\ IF GivesUp(u) THEN Goto(u, "failed", NoServer) /\ UNCHANGED <<late, synced, sync>>
             ELSE /\ Goto(u, "wait", NoServer)
                  /\ late' = [late EXCEPT ![u] = IF @ = "no" THEN "started" ELSE @]
                  /\ synced' = [synced EXCEPT ![u] = (late[u] # "no" /\ @)]
                  /\ sync' = TRUE
    /\ UNCHANGED <<cluster, objects, loop, iteration, topology, calm>>

TimePasses(u) ==
    /\ Timeouts /\ late[u] = "started"
    /\ late' = [late EXCEPT ![u] = "late"]
    /\ UNCHANGED <<cluster, sync, objects, loop, iteration, pc, target, synced, topology, calm>>

\* A server whose sockets have broken is asked whether it is still the master.
Confirmed(u) == target[u] \in abended /\ u \notin SlaveOk => role[Host(target[u])] = "primary"

Try(u) ==
    LET s == target[u] IN
    /\ pc[u] = "try"
    /\ \/ /\ s \in open /\ role[Host(s)] # "down" /\ Confirmed(u)
          /\ Goto(u, "got", s)
          /\ late' = [late EXCEPT ![u] = "no"] /\ synced' = [synced EXCEPT ![u] = FALSE]
          /\ UNCHANGED <<servers, masters, open, sync, calm>>
       \/ /\ s \in open /\ role[Host(s)] # "down" /\ ~Confirmed(u)
          /\ Goto(u, "look", NoServer)
          /\ sync' = TRUE
          /\ UNCHANGED <<servers, masters, open, late, synced, calm>>
       \/ /\ s \in open /\ Limited
          /\ Goto(u, "look", NoServer)
          /\ UNCHANGED <<servers, masters, open, sync, late, synced, calm>>
       \/ /\ s \notin open \/ role[Host(s)] = "down"
          /\ removeServer(s)
          /\ Goto(u, "look", NoServer)
          /\ sync' = TRUE /\ calm' = FALSE
          /\ UNCHANGED <<late, synced>>
    /\ UNCHANGED <<references, dynaSeeds, master, abended, loop, iteration, topology>>

Again(u) ==
    /\ pc[u] = "got"
    /\ Goto(u, "look", NoServer)
    /\ UNCHANGED <<cluster, sync, objects, loop, iteration, late, synced, topology, calm>>

CloseSession(u) ==
    /\ pc[u] \in {"got", "failed"}
    /\ Goto(u, "closed", NoServer)
    /\ ReleaseCluster
    /\ UNCHANGED <<servers, masters, dynaSeeds, master, abended, loop, iteration, late, synced, topology, calm>>

(***************************************************************************)
(* The servers out there                                                   *)
(***************************************************************************)

\* The connections to a host that steps down or goes away break (AbendSocket).
Change ==
    /\ changes < MaxChanges
    /\ \E h \in Hosts, r \in {"primary", "secondary", "down"} :
          /\ r # role[h] /\ (r = "primary" => \A g \in Hosts : role[g] # "primary")
          /\ role' = [role EXCEPT ![h] = r]
          /\ abended' = abended \cup (open \cap At(h))
          /\ sync' = (sync \/ (open \cap At(h)) # {})
    /\ changes' = changes + 1 /\ calm' = FALSE
    /\ UNCHANGED <<cluster, open, master, loop, iteration, users>>

Loop == StartSync \/ Joined \/ Settle \/ Settled \/ ReleaseSync \/ Count \/ Wait
Worker(h) == GetServer(h) \/ Ask(h) \/ Classify(h) \/ Add(h) \/ Drop(h)
Spawned == [host : Hosts, byMaster : BOOLEAN]

ClusterNext ==
    \/ Loop
    \/ \E t \in Spawned : BeginSync(t) \/ Unresolved(t)
    \/ \E h \in Hosts : Worker(h)
    \/ \E u \in Clients : Look(u) \/ TimePasses(u) \/ Try(u) \/ Again(u) \/ CloseSession(u)
    \/ Change

ClusterSpec == ClusterInit /\ [][ClusterNext]_clusterVars

\* Goroutines run, a wait for a request ends after 30 seconds,
\* names that can be resolved are.
ClusterFair ==
    /\ WF_clusterVars(Loop)
    /\ \A t \in Spawned : SF_clusterVars(BeginSync(t))
    /\ \A h \in Hosts : WF_clusterVars(Worker(h))
    /\ \A u \in Clients : WF_clusterVars(Look(u) \/ Try(u))

(***************************************************************************)
(* Properties                                                              *)
(***************************************************************************)

\* One server for an address, and the masters are the servers last seen as one,
\* though sync goroutines and sessions add and remove them at the same time.
ListsAgree ==
    /\ \A s, t \in servers : Host(s) = Host(t) => s = t
    /\ masters = {s \in servers : master[s]}

\* A server about to be added is the one known for its address, if there is
\* one: addServer never panics over a duplicate.
NoDuplicate ==
    \A h \in Hosts : work[h].at \in {"classify", "add", "admit"} => At(h) \subseteq {work[h].server}

\* A cluster nobody uses any more has no server open, and so no pinger
\* running, those the last sync found included.
EndsClosed == loop = "over" => open = {}

\* No server is open that nobody could close any more.
NoneForgotten ==
    open \subseteq servers \cup notYetAdded \cup {work[h].server : h \in Hosts}

\* One server for an address, masters that were last seen as such, none left open
\* that nobody could close, and none at all when nobody uses the cluster.
ClusterAgrees == ClusterTypeOK /\ ListsAgree /\ NoDuplicate /\ EndsClosed /\ NoneForgotten

\* When a sync has found the primary and nothing disturbed it, exactly the
\* hosts the primary names and that are up are known, whichever answered first.
Up == {h \in Hosts : role[h] # "down"}
SyncIsComplete ==
    loop = "release" /\ calm /\ ~direct /\ syncKind = "complete" =>
        LET primary == CHOOSE h \in Hosts : role[h] = "primary" IN
        {Host(s) : s \in servers} = (Names[primary] \cap Up) \cup {primary}

\* A session that waits for a master gets one when there is one to stay, without
\* any timeout.
MasterFound ==
    <>[](\E h \in userSeeds : role[h] = "primary") =>
        \A u \in Clients : []<>(pc[u] \in {"got", "closed"})
=============================================================================
