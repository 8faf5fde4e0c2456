--------------------------- MODULE MgoClusterProofs ---------------------------
(***************************************************************************)
(* Theorem about MgoCluster: one server for an address, masters that were  *)
(* last seen as such, none left open that nobody could close, and none at  *)
(* all when nobody uses the cluster.  For any number of hosts, sessions,   *)
(* servers and changes of the topology, direct or not.                     *)
(***************************************************************************)
EXTENDS MgoCluster, FiniteSetTheorems, TLAPS

(***************************************************************************)
(* The invariant                                                           *)
(***************************************************************************)

AtStates == {"off", "server", "ask", "classify", "add", "admit", "remove"}
Works == [at : AtStates, server : Servers \cup {NoServer}, master : BOOLEAN]

Types ==
    /\ servers \subseteq Servers /\ masters \subseteq servers
    /\ references \in Nat /\ dynaSeeds \subseteq Hosts
    /\ sync \in BOOLEAN /\ calm \in BOOLEAN
    /\ open \subseteq Servers /\ abended \subseteq Servers /\ master \in [Servers -> BOOLEAN]
    /\ loop \in {"start", "iterate", "settle", "release", "count", "wait", "over"}
    /\ spawned \subseteq Spawned
    /\ work \in [Hosts -> Works]
    /\ notYetAdded \subseteq Servers /\ addIfFound \subseteq Hosts /\ seen \subseteq Hosts
    /\ syncKind \in {"complete", "partial"}
    /\ pc \in [Clients -> {"look", "wait", "try", "got", "failed", "closed"}]
    /\ target \in [Clients -> Servers \cup {NoServer}]
    /\ late \in [Clients -> {"no", "started", "late"}] /\ synced \in [Clients -> BOOLEAN]
    /\ role \in [Hosts -> {"primary", "secondary", "down"}] /\ changes \in 0..MaxChanges

\* One server for an address
Single == \A s, t \in servers : Host(s) = Host(t) => s = t
MastersAgree == \A s \in servers : s \in masters <=> master[s]

\* The goroutine of a host has, from the moment it has a server, the one that is
\* known for the host, if there is one.
Has(h, s) == s \in Servers /\ Host(s) = h /\ \A t \in servers : Host(t) = h => t = s
AtWork ==
    \A h \in Hosts :
        /\ work[h].at = "off" => work[h] = Off
        /\ work[h].at = "server" => work[h].server = NoServer
        /\ work[h].at # "off" => h \in seen
        /\ work[h].at \notin {"off", "server"} => Has(h, work[h].server)

\* So has the list of those nobody vouched for, whose goroutines are over.
Pending ==
    \A s \in notYetAdded :
        /\ Host(s) \in seen /\ work[Host(s)].at = "off" /\ Has(Host(s), s)
        /\ \A t \in notYetAdded : Host(t) = Host(s) => t = s

\* Servers are found in an iteration, and settled before it ends.
Phases ==
    /\ loop # "iterate" => spawned = {} /\ \A h \in Hosts : work[h].at = "off"
    /\ loop \notin {"iterate", "settle"} => notYetAdded = {}

\* The cluster is referred to by the sessions and by the loop while it iterates; with
\* the last reference goes the last server.
LoopRefers == loop \in {"iterate", "settle", "release"}
Counted == references = Cardinality(InUse) + (IF LoopRefers THEN 1 ELSE 0)
Closing ==
    /\ references = 0 => open = {}
    /\ loop = "over" => references = 0

\* Who could close a server that is open
Watched == \A s \in open : s \in servers \/ s \in notYetAdded \/ work[Host(s)].server = s

Targets == \A u \in Clients : pc[u] \in {"try", "got"} => target[u] \in Servers

Inv ==
    /\ Types /\ Single /\ MastersAgree /\ AtWork /\ Pending /\ Phases
    /\ Counted /\ Closing /\ Watched /\ Targets

Assumed == HostsAssumption /\ FlagsAssumption /\ BoundsAssumption

(***************************************************************************)
(* Servers and references                                                  *)
(***************************************************************************)

LEMMA HostOfServer == \A s \in Servers : Host(s) \in Hosts
  BY DEF Servers, Host

LEMMA NobodyIsServer == Assumed => NoServer \notin Servers
  BY DEF Assumed, HostsAssumption, BoundsAssumption, Servers

LEMMA InUseIsFinite ==
  ASSUME Assumed
  PROVE  /\ IsFiniteSet(InUse) /\ Cardinality(InUse) \in Nat
         /\ Cardinality(InUse) <= Cardinality(Clients) /\ Cardinality(Clients) \in Nat
  <1>1. InUse \subseteq Clients /\ IsFiniteSet(Clients) BY DEF InUse, Assumed, HostsAssumption
  <1> QED BY <1>1, FS_Subset, FS_CardinalityType

\* Waking sessions does not open or close any.
LEMMA WokenInUse ==
  ASSUME Types, pc' = Woken
  PROVE  /\ pc' \in [Clients -> {"look", "wait", "try", "got", "failed", "closed"}]
         /\ InUse' = InUse
         /\ \A u \in Clients : pc'[u] \in {"try", "got"} => pc[u] = pc'[u]
  BY DEF Types, Woken, InUse

LEMMA Initially == Assumed => (ClusterInit => Inv)
  <1> SUFFICES ASSUME Assumed, ClusterInit PROVE Inv OBVIOUS
  <1>1. Cardinality(InUse) \in Nat /\ IsFiniteSet(InUse) BY InUseIsFinite
  <1>2. Cardinality(InUse) # 0 BY <1>1, FS_EmptySet DEF ClusterInit
  <1>3. Off \in Works BY DEF Off, Works, AtStates
  <1>4. Types
    <2>1. pc \in [Clients -> {"look", "wait", "try", "got", "failed", "closed"}] BY DEF ClusterInit
    <2>2. references \in Nat /\ 0 \in 0..MaxChanges BY <1>1 DEF ClusterInit, Assumed, BoundsAssumption
    <2> QED BY <1>3, <2>1, <2>2 DEF ClusterInit, Types
  <1>5. Single /\ MastersAgree /\ Pending /\ Watched BY DEF ClusterInit, Single, MastersAgree, Pending, Watched
  <1>6. AtWork BY DEF ClusterInit, AtWork, Off
  <1>7. Phases BY DEF ClusterInit, Phases, Off
  <1>8. Counted BY <1>1 DEF ClusterInit, Counted, LoopRefers
  <1>9. Closing BY <1>2 DEF ClusterInit, Closing
  <1>10. Targets BY DEF ClusterInit, Targets
  <1> QED BY <1>4, <1>5, <1>6, <1>7, <1>8, <1>9, <1>10 DEF Inv

(***************************************************************************)
(* The loop                                                                *)
(***************************************************************************)

LEMMA StartSyncKeeps == ASSUME Assumed, Inv, StartSync PROVE Inv'
  <1> USE DEF Inv
  <1>1. /\ servers' = servers /\ masters' = masters /\ dynaSeeds' = dynaSeeds /\ sync' = sync
        /\ open' = open /\ master' = master /\ abended' = abended /\ work' = work
        /\ pc' = pc /\ target' = target /\ late' = late /\ synced' = synced
        /\ role' = role /\ changes' = changes
    BY DEF StartSync, objects, users, topology
  <1>2. loop = "start" /\ spawned = {} /\ notYetAdded = {} /\ \A h \in Hosts : work[h].at = "off"
    BY DEF StartSync, Phases
  <1>3. /\ notYetAdded' = {} /\ addIfFound' \subseteq Hosts /\ seen' \subseteq Hosts
        /\ syncKind' \in {"complete", "partial"} /\ calm' \in BOOLEAN
    BY <1>2 DEF StartSync, maps, Types
  <1>4. loop' \in {"iterate", "over"} /\ (loop' = "over" => spawned' = {} /\ references = 0)
    BY <1>2 DEF StartSync
  <1>5. spawned' \subseteq Spawned
    <2>1. getKnownAddrs \subseteq Hosts
      BY HostOfServer DEF getKnownAddrs, Types, Assumed, HostsAssumption
    <2>2. [host : getKnownAddrs, byMaster : {FALSE}] \subseteq Spawned BY <2>1 DEF Spawned
    <2> QED BY <1>2, <2>2 DEF StartSync
  <1>6. InUse' = InUse /\ ~LoopRefers /\ references \in Nat /\ Cardinality(InUse) \in Nat
    BY <1>1, <1>2, InUseIsFinite DEF InUse, LoopRefers, Types
  <1>7. /\ references' = references + (IF LoopRefers' THEN 1 ELSE 0)
        /\ LoopRefers' <=> references # 0
    <2>1. CASE references = 0 BY <1>6, <2>1 DEF StartSync, LoopRefers
    <2>2. CASE references # 0 BY <1>6, <2>2 DEF StartSync, LoopRefers
    <2> QED BY <2>1, <2>2
  <1>8. references' \in Nat /\ (references' = 0 => references = 0)
    BY <1>6, <1>7
  <1>9. Types' BY <1>1, <1>3, <1>4, <1>5, <1>8 DEF Types
  <1>10. Single' /\ MastersAgree' /\ Targets' BY <1>1 DEF Single, MastersAgree, Targets
  <1>11. AtWork' BY <1>1, <1>2 DEF AtWork
  <1>12. Pending' /\ Phases' BY <1>1, <1>2, <1>3, <1>4 DEF Pending, Phases
  <1>13. Watched' BY <1>1, <1>2 DEF Watched
  <1>14. Counted' BY <1>6, <1>7 DEF Counted
  <1>15. Closing' BY <1>1, <1>4, <1>6, <1>7, <1>8 DEF Closing
  <1> QED BY <1>9, <1>10, <1>11, <1>12, <1>13, <1>14, <1>15

LEMMA JoinedKeeps == ASSUME Assumed, Inv, Joined PROVE Inv'
  <1> USE DEF Inv
  <1>1. InUse' = InUse /\ LoopRefers' /\ LoopRefers /\ references' = references
    BY DEF Joined, users, cluster, InUse, LoopRefers
  <1>2. Types' BY DEF Joined, Types, cluster, objects, iteration, maps, users, topology
  <1>3. Single' /\ MastersAgree' /\ Targets'
    BY DEF Joined, Single, MastersAgree, Targets, cluster, objects, users
  <1>4. AtWork' /\ Pending' /\ Watched'
    BY DEF Joined, AtWork, Pending, Watched, Has, cluster, objects, iteration, maps
  <1>5. Phases' BY DEF Joined, Phases, iteration, maps, Off
  <1>6. Counted' /\ Closing' BY <1>1 DEF Counted, Closing, Joined, objects
  <1> QED BY <1>2, <1>3, <1>4, <1>5, <1>6

LEMMA SettledKeeps == ASSUME Assumed, Inv, Settled PROVE Inv'
  <1> USE DEF Inv
  <1>1. InUse' = InUse /\ LoopRefers' /\ LoopRefers /\ references' = references
    BY DEF Settled, users, InUse, LoopRefers
  <1>2. Types' BY HostOfServer DEF Settled, Types, objects, iteration, maps, users, topology
  <1>3. Single' /\ MastersAgree' /\ Targets'
    BY DEF Settled, Single, MastersAgree, Targets, objects, users
  <1>4. AtWork' /\ Pending' /\ Watched' /\ Phases'
    BY DEF Settled, AtWork, Pending, Watched, Has, Phases, objects, iteration, maps
  <1>5. Counted' /\ Closing' BY <1>1 DEF Counted, Closing, Settled, objects
  <1> QED BY <1>2, <1>3, <1>4, <1>5

\* The last reference is given up, and the servers are closed.
LEMMA ReleaseKeeps ==
  ASSUME Assumed, Inv, ReleaseCluster, references > 0,
         references = 1 => notYetAdded = {} /\ \A h \in Hosts : work[h].at = "off",
         servers' = servers,
         notYetAdded' = notYetAdded, work' = work
  PROVE  /\ open' \subseteq open /\ sync' \in BOOLEAN /\ references' = references - 1 /\ references' \in Nat
         /\ references' = 0 => open' = {}
         /\ Watched'
  <1> USE DEF Inv
  <1>1. references \in Nat /\ references' = references - 1 /\ references' \in Nat BY DEF ReleaseCluster, Types
  <1>2. CASE references = 1
    <2>1. open' = open \ servers /\ sync' = TRUE BY <1>2 DEF ReleaseCluster, OpenAfter
    <2>2. open \subseteq servers
      <3> SUFFICES ASSUME NEW s \in open, s \notin servers PROVE FALSE OBVIOUS
      <3>1. work[Host(s)].server = s /\ s \in Servers /\ Host(s) \in Hosts
        BY <1>2, HostOfServer DEF Watched, Types
      <3>2. work[Host(s)].server = NoServer BY <1>2, <3>1 DEF AtWork, Off
      <3> QED BY <3>1, <3>2, NobodyIsServer
    <2> QED BY <1>1, <2>1, <2>2 DEF Watched
  <1>3. CASE references # 1
    BY <1>1, <1>3 DEF ReleaseCluster, Watched, Types
  <1> QED BY <1>2, <1>3

LEMMA ReleaseSyncKeeps == ASSUME Assumed, Inv, ReleaseSync PROVE Inv'
  <1> USE DEF Inv
  <1>1. InUse' = InUse /\ ~LoopRefers' /\ LoopRefers
    BY DEF ReleaseSync, users, InUse, LoopRefers
  <1>2. Cardinality(InUse) \in Nat /\ references = Cardinality(InUse) + 1 /\ references > 0
    BY <1>1, InUseIsFinite DEF Counted
  <1>3. /\ servers' = servers /\ masters' = masters /\ dynaSeeds' = dynaSeeds /\ master' = master
        /\ abended' = abended /\ loop' = "count" /\ spawned' = spawned /\ work' = work
        /\ notYetAdded' = notYetAdded /\ addIfFound' = addIfFound /\ seen' = seen
        /\ syncKind' = syncKind /\ pc' = pc /\ target' = target /\ late' = late /\ synced' = synced
        /\ role' = role /\ changes' = changes /\ calm' = calm
    BY DEF ReleaseSync, iteration, maps, users, topology
  <1>4. notYetAdded = {} /\ \A h \in Hosts : work[h].at = "off" BY DEF Phases, ReleaseSync
  <1>5. /\ open' \subseteq open /\ sync' \in BOOLEAN /\ references' = references - 1 /\ references' \in Nat
        /\ references' = 0 => open' = {}
        /\ Watched'
    BY <1>2, <1>3, <1>4, ReleaseKeeps DEF ReleaseSync
  <1>6. Types' BY <1>3, <1>5 DEF Types
  <1>7. Single' /\ MastersAgree' /\ Targets' /\ AtWork' /\ Pending'
    BY <1>3 DEF Single, MastersAgree, Targets, AtWork, Pending, Has
  <1>8. Phases' BY <1>3, <1>4 DEF Phases, ReleaseSync
  <1>9. Counted' /\ Closing' BY <1>1, <1>2, <1>3, <1>5 DEF Counted, Closing
  <1> QED BY <1>5, <1>6, <1>7, <1>8, <1>9

LEMMA CountKeeps == ASSUME Assumed, Inv, Count PROVE Inv'
  <1> USE DEF Inv
  <1>1. /\ pc' \in [Clients -> {"look", "wait", "try", "got", "failed", "closed"}]
        /\ InUse' = InUse /\ Targets' /\ synced' \in [Clients -> BOOLEAN]
    <2>1. CASE references = 0
      BY <2>1 DEF Count, InUse, Types, Targets
    <2>2. CASE references # 0
      <3>1. pc' = Woken BY <2>2 DEF Count, Poked
      <3>2. Targets' BY <3>1, WokenInUse DEF Targets, Count
      <3>3. synced' \in [Clients -> BOOLEAN] BY <2>2 DEF Count
      <3> QED BY <3>1, <3>2, <3>3, WokenInUse
    <2> QED BY <2>1, <2>2
  <1>2. Types' BY <1>1 DEF Count, Types, cluster, objects, iteration, maps, topology
  <1>3. Single' /\ MastersAgree' BY DEF Count, Single, MastersAgree, cluster, objects
  <1>4. AtWork' /\ Pending' /\ Watched' /\ Phases'
    BY DEF Count, AtWork, Pending, Watched, Has, Phases, cluster, objects, iteration, maps
  <1>5. ~LoopRefers /\ ~LoopRefers' /\ references' = references BY DEF Count, LoopRefers, cluster
  <1>6. Counted' BY <1>1, <1>5 DEF Counted
  <1>7. Closing' BY DEF Closing, Count, cluster, objects
  <1> QED BY <1>1, <1>2, <1>3, <1>4, <1>6, <1>7

LEMMA WaitKeeps == ASSUME Assumed, Inv, Wait PROVE Inv'
  <1> USE DEF Inv
  <1>1. Types' BY DEF Wait, Types, cluster, objects, iteration, maps, users, topology
  <1>2. Single' /\ MastersAgree' /\ Targets'
    BY DEF Wait, Single, MastersAgree, Targets, cluster, objects, users
  <1>3. AtWork' /\ Pending' /\ Watched' /\ Phases'
    BY DEF Wait, AtWork, Pending, Watched, Has, Phases, cluster, objects, iteration, maps
  <1>4. Counted' /\ Closing'
    BY DEF Counted, Closing, Wait, LoopRefers, InUse, cluster, objects, users
  <1> QED BY <1>1, <1>2, <1>3, <1>4

(***************************************************************************)
(* The goroutines of an iteration                                          *)
(***************************************************************************)

\* A goroutine has something to do: this is an iteration.
LEMMA Iterating ==
  ASSUME Assumed, Inv, NEW h \in Hosts, work[h].at # "off"
  PROVE  loop = "iterate" /\ LoopRefers /\ h \in seen /\ references # 0 /\ references > 0
  <1>1. loop = "iterate" /\ LoopRefers /\ h \in seen BY DEF Inv, Phases, LoopRefers, AtWork
  <1>2. Cardinality(InUse) \in Nat /\ references = Cardinality(InUse) + 1
    BY <1>1, InUseIsFinite DEF Inv, Counted
  <1> QED BY <1>1, <1>2

LEMMA BeginSyncKeeps == ASSUME Assumed, Inv, NEW t \in Spawned, BeginSync(t) PROVE Inv'
  <1> USE DEF Inv
  <1> DEFINE h == t.host
             found == {s \in notYetAdded : Host(s) = h}
  <1>1. h \in Hosts BY DEF Spawned
  <1>2. /\ servers' = servers /\ masters' = masters /\ dynaSeeds' = dynaSeeds /\ sync' = sync
        /\ references' = references /\ open' = open /\ master' = master /\ abended' = abended
        /\ loop' = loop /\ syncKind' = syncKind /\ calm' = calm
        /\ pc' = pc /\ target' = target /\ late' = late /\ synced' = synced
        /\ role' = role /\ changes' = changes
    BY DEF BeginSync, cluster, objects, users, topology
  <1>3. t \in spawned /\ loop = "iterate" /\ spawned' \subseteq spawned
    BY DEF BeginSync, Phases
  <1>4. /\ Types' /\ AtWork' /\ Pending' /\ Watched'
    <2>1. CASE t.byMaster /\ found # {}
      <3>1. PICK s \in found : Work(h, "admit", s, FALSE) BY <2>1 DEF BeginSync
      <3>2. work' = [work EXCEPT ![h] = [at |-> "admit", server |-> s, master |-> FALSE]]
        BY <3>1 DEF Work
      <3>3. notYetAdded' = notYetAdded \ found /\ addIfFound' = addIfFound /\ seen' = seen
        BY <2>1 DEF BeginSync
      <3>4. s \in notYetAdded /\ Host(s) = h /\ h \in seen /\ Has(h, s) /\ s \in Servers
        BY DEF Pending, Has
      <3>5. [at |-> "admit", server |-> s, master |-> FALSE] \in Works BY <3>4 DEF Works, AtStates
      <3>6. Types' BY <1>1, <1>2, <1>3, <3>2, <3>3, <3>5 DEF Types
      <3>7. AtWork' BY <1>1, <1>2, <3>2, <3>3, <3>4 DEF AtWork, Types, Has
      <3>8. Pending'
        <4> SUFFICES ASSUME NEW r \in notYetAdded'
                     PROVE  /\ Host(r) \in seen' /\ work'[Host(r)].at = "off" /\ Has(Host(r), r)'
                            /\ \A q \in notYetAdded' : Host(q) = Host(r) => q = r
          BY DEF Pending
        <4>1. r \in notYetAdded /\ Host(r) # h BY <3>3
        <4>2. Host(r) \in Hosts BY <4>1, HostOfServer DEF Types
        <4> QED BY <1>1, <1>2, <3>2, <3>3, <4>1, <4>2 DEF Pending, Has, Types
      <3>9. Watched'
        <4> SUFFICES ASSUME NEW r \in open, r \notin servers, r \notin notYetAdded'
                     PROVE  work'[Host(r)].server = r
          BY <1>2 DEF Watched
        <4>1. Host(r) \in Hosts /\ r \in Servers BY HostOfServer DEF Types
        <4>2. CASE Host(r) = h
          <5>1. work[h].at = "off" BY <3>4 DEF Pending
          <5>2. work[h].server = NoServer BY <1>1, <5>1 DEF AtWork, Off
          <5>3. r \in notYetAdded BY <4>1, <4>2, <5>2, NobodyIsServer DEF Watched
          <5>4. r = s BY <3>4, <4>2, <5>3 DEF Pending
          <5> QED BY <1>1, <3>2, <4>2, <5>4 DEF Types
        <4>3. CASE Host(r) # h
          BY <1>1, <3>2, <3>3, <4>1, <4>3 DEF Watched, Types
        <4> QED BY <4>2, <4>3
      <3> QED BY <3>6, <3>7, <3>8, <3>9
    <2>2. CASE ~(t.byMaster /\ found # {})
      <3>1. /\ addIfFound' = (IF t.byMaster THEN FoundLater(h) ELSE addIfFound)
            /\ notYetAdded' = notYetAdded
            /\ IF h \in seen THEN UNCHANGED <<seen, work>>
               ELSE seen' = seen \cup {h} /\ Work(h, "server", NoServer, FALSE)
        BY <2>2 DEF BeginSync
      <3>2. addIfFound' \subseteq Hosts BY <1>1, <3>1 DEF FoundLater, Types
      <3>3. CASE h \in seen
        <4>1. seen' = seen /\ work' = work BY <3>1, <3>3
        <4>2. Types' BY <1>2, <1>3, <3>1, <3>2, <4>1 DEF Types
        <4> QED BY <1>2, <3>1, <4>1, <4>2 DEF AtWork, Pending, Watched, Has
      <3>4. CASE h \notin seen
        <4>1. seen' = seen \cup {h} /\ work' = [work EXCEPT ![h] = [at |-> "server", server |-> NoServer, master |-> FALSE]]
          BY <3>1, <3>4 DEF Work
        <4>2. [at |-> "server", server |-> NoServer, master |-> FALSE] \in Works BY DEF Works, AtStates
        <4>3. work[h] = Off BY <1>1, <3>4 DEF AtWork
        <4>4. Types' BY <1>1, <1>2, <1>3, <3>1, <3>2, <4>1, <4>2 DEF Types
        <4>5. AtWork' BY <1>1, <1>2, <4>1 DEF AtWork, Types, Has
        <4>6. Pending'
          <5>1. \A s \in notYetAdded : Host(s) # h /\ Host(s) \in Hosts BY <3>4, HostOfServer DEF Pending, Types
          <5> QED BY <1>1, <1>2, <3>1, <4>1, <5>1 DEF Pending, Has, Types
        <4>7. \A g \in Hosts : work'[g].server = work[g].server BY <1>1, <4>1, <4>3 DEF Off, Types
        <4>8. Watched'
          BY <1>2, <3>1, <4>7, HostOfServer DEF Watched, Types
        <4> QED BY <4>4, <4>5, <4>6, <4>8
      <3> QED BY <3>3, <3>4
    <2> QED BY <2>1, <2>2
  <1>5. Single' /\ MastersAgree' /\ Targets' BY <1>2 DEF Single, MastersAgree, Targets
  <1>6. Phases' BY <1>2, <1>3 DEF Phases
  <1>7. Counted' /\ Closing' BY <1>2 DEF Counted, Closing, InUse, LoopRefers
  <1> QED BY <1>4, <1>5, <1>6, <1>7

LEMMA UnresolvedKeeps == ASSUME Assumed, Inv, NEW t \in Spawned, Unresolved(t) PROVE Inv'
  <1> USE DEF Inv
  <1>1. /\ servers' = servers /\ masters' = masters /\ dynaSeeds' = dynaSeeds /\ sync' = sync
        /\ references' = references /\ open' = open /\ master' = master /\ abended' = abended
        /\ loop' = loop /\ work' = work /\ notYetAdded' = notYetAdded /\ addIfFound' = addIfFound
        /\ seen' = seen /\ syncKind' = syncKind /\ calm' = FALSE
        /\ pc' = pc /\ target' = target /\ late' = late /\ synced' = synced
        /\ role' = role /\ changes' = changes /\ spawned' \subseteq spawned
    BY DEF Unresolved, cluster, objects, maps, users, topology
  <1>2. Types' BY <1>1 DEF Types
  <1>3. Single' /\ MastersAgree' /\ Targets' BY <1>1 DEF Single, MastersAgree, Targets
  <1>4. AtWork' /\ Pending' /\ Watched' BY <1>1 DEF AtWork, Pending, Watched, Has
  <1>5. Phases' BY <1>1 DEF Phases
  <1>6. Counted' /\ Closing' BY <1>1 DEF Counted, Closing, InUse, LoopRefers
  <1> QED BY <1>2, <1>3, <1>4, <1>5, <1>6

LEMMA GetServerKeeps == ASSUME Assumed, Inv, NEW h \in Hosts, GetServer(h) PROVE Inv'
  <1> USE DEF Inv
  <1>1. /\ servers' = servers /\ masters' = masters /\ dynaSeeds' = dynaSeeds /\ sync' = sync
        /\ references' = references /\ loop' = loop /\ spawned' = spawned
        /\ notYetAdded' = notYetAdded /\ addIfFound' = addIfFound
        /\ seen' = seen /\ syncKind' = syncKind /\ calm' = calm
        /\ pc' = pc /\ target' = target /\ late' = late /\ synced' = synced
        /\ role' = role /\ changes' = changes
    BY DEF GetServer, cluster, maps, users, topology
  <1>2. work[h].at = "server" /\ work[h].server = NoServer BY DEF GetServer, AtWork
  <1>3. loop = "iterate" /\ h \in seen /\ references # 0 BY <1>2, Iterating
  <1>4. \E s \in Servers :
           /\ work' = [work EXCEPT ![h] = [at |-> "ask", server |-> s, master |-> FALSE]]
           /\ Has(h, s)
           /\ open' \subseteq Servers /\ open' \subseteq open \cup {s} /\ abended' \subseteq Servers
           /\ master' \in [Servers -> BOOLEAN] /\ \A r \in servers : master'[r] = master[r]
    <2>1. CASE \E s \in Known(h) : Work(h, "ask", s, FALSE) /\ UNCHANGED objects
      <3>1. PICK s \in Known(h) : Work(h, "ask", s, FALSE) /\ UNCHANGED objects BY <2>1
      <3>2. s \in servers /\ Host(s) = h /\ s \in Servers BY DEF Known, At, Types
      <3>3. Has(h, s) BY <3>2 DEF Has, Single
      <3>4. open' = open /\ abended' = abended /\ master' = master BY <3>1 DEF objects
      <3> QED BY <3>1, <3>2, <3>3, <3>4 DEF Work, Types
    <2>2. CASE /\ Known(h) = {}
               /\ \E i \in 1..Incarnations :
                     /\ <<h, i>> \notin Referred
                     /\ \A j \in 1..i - 1 : <<h, j>> \in Referred
                     /\ Work(h, "ask", <<h, i>>, FALSE)
                     /\ open' = open \cup {<<h, i>>}
                     /\ abended' = abended \ {<<h, i>>}
                     /\ master' = [master EXCEPT ![<<h, i>>] = FALSE]
      <3>1. PICK i \in 1..Incarnations :
                     /\ Work(h, "ask", <<h, i>>, FALSE)
                     /\ open' = open \cup {<<h, i>>}
                     /\ abended' = abended \ {<<h, i>>}
                     /\ master' = [master EXCEPT ![<<h, i>>] = FALSE]
        BY <2>2
      <3>2. PICK s : s = <<h, i>> OBVIOUS
      <3>3. s \in Servers /\ Host(s) = h BY <3>2 DEF Servers, Host
      <3>4. \A r \in servers : Host(r) # h BY <2>2 DEF Known, At
      <3>5. Has(h, s) BY <3>3, <3>4 DEF Has
      <3>6. s \notin servers BY <3>3, <3>4
      <3>7. open' \subseteq Servers /\ open' \subseteq open \cup {s} /\ abended' \subseteq Servers
        BY <3>1, <3>2, <3>3 DEF Types
      <3>8. master' = [master EXCEPT ![s] = FALSE] BY <3>1, <3>2
      <3>9. master' \in [Servers -> BOOLEAN] /\ \A r \in servers : master'[r] = master[r]
        BY <3>3, <3>6, <3>8 DEF Types
      <3>10. work' = [work EXCEPT ![h] = [at |-> "ask", server |-> s, master |-> FALSE]]
        BY <3>1, <3>2 DEF Work
      <3> QED BY <3>3, <3>5, <3>7, <3>9, <3>10
    <2> QED BY <2>1, <2>2 DEF GetServer
  <1>5. PICK s \in Servers :
           /\ work' = [work EXCEPT ![h] = [at |-> "ask", server |-> s, master |-> FALSE]]
           /\ Has(h, s)
           /\ open' \subseteq Servers /\ open' \subseteq open \cup {s} /\ abended' \subseteq Servers
           /\ master' \in [Servers -> BOOLEAN] /\ \A r \in servers : master'[r] = master[r]
    BY <1>4
  <1>6. [at |-> "ask", server |-> s, master |-> FALSE] \in Works BY DEF Works, AtStates
  <1>7. Types' BY <1>1, <1>5, <1>6 DEF Types
  <1>8. Single' /\ MastersAgree' /\ Targets' BY <1>1, <1>5 DEF Single, MastersAgree, Targets
  <1>9. AtWork' BY <1>1, <1>3, <1>5 DEF AtWork, Types, Has
  <1>10. Pending'
    <2>1. \A r \in notYetAdded : Host(r) # h /\ Host(r) \in Hosts BY <1>2, HostOfServer DEF Pending, Types
    <2> QED BY <1>1, <1>5, <2>1 DEF Pending, Has, Types
  <1>11. Phases' BY <1>1, <1>3 DEF Phases
  <1>12. Watched'
    <2> SUFFICES ASSUME NEW r \in open', r \notin servers, r \notin notYetAdded
                 PROVE  work'[Host(r)].server = r
      BY <1>1 DEF Watched
    <2>1. r \in Servers /\ Host(r) \in Hosts BY <1>5, HostOfServer
    <2>2. CASE r = s BY <1>5, <2>2 DEF Has, Types
    <2>3. CASE r # s
      <3>1. work[Host(r)].server = r BY <1>5, <2>3 DEF Watched
      <3>2. Host(r) # h BY <1>2, <2>1, <3>1, NobodyIsServer
      <3> QED BY <1>5, <2>1, <3>1, <3>2 DEF Types
    <2> QED BY <2>2, <2>3
  <1>13. Counted' /\ Closing' BY <1>1, <1>3 DEF Counted, Closing, InUse, LoopRefers
  <1> QED BY <1>7, <1>8, <1>9, <1>10, <1>11, <1>12, <1>13

LEMMA AskKeeps == ASSUME Assumed, Inv, NEW h \in Hosts, Ask(h) PROVE Inv'
  <1> USE DEF Inv
  <1>1. /\ servers' = servers /\ masters' = masters /\ dynaSeeds' = dynaSeeds /\ sync' = sync
        /\ references' = references /\ open' = open /\ master' = master /\ abended' = abended
        /\ loop' = loop /\ spawned' = spawned /\ notYetAdded' = notYetAdded /\ addIfFound' = addIfFound
        /\ seen' = seen /\ syncKind' = syncKind /\ calm' = calm
        /\ pc' = pc /\ target' = target /\ late' = late /\ synced' = synced
        /\ role' = role /\ changes' = changes
    BY DEF Ask, cluster, objects, maps, users, topology
  <1>2. PICK s : s = work[h].server OBVIOUS
  <1>3. work[h].at = "ask" /\ Has(h, s) /\ s \in Servers BY <1>2 DEF Ask, AtWork, Has
  <1>4. loop = "iterate" /\ h \in seen BY <1>3, Iterating
  <1>5. \E at \in {"classify", "remove"}, m \in BOOLEAN :
           work' = [work EXCEPT ![h] = [at |-> at, server |-> s, master |-> m]]
    <2>1. CASE s \in open /\ role[h] # "down"
      <3>1. PICK m : m = (role[h] = "primary") OBVIOUS
      <3>2. m \in BOOLEAN BY <3>1
      <3>3. work' = [work EXCEPT ![h] = [at |-> "classify", server |-> s, master |-> m]]
        BY <1>2, <2>1, <3>1 DEF Ask, Work
      <3> QED BY <3>2, <3>3
    <2>2. CASE ~(s \in open /\ role[h] # "down")
      BY <1>2, <2>2 DEF Ask, Work
    <2> QED BY <2>1, <2>2
  <1>6. PICK at \in {"classify", "remove"}, m \in BOOLEAN :
           work' = [work EXCEPT ![h] = [at |-> at, server |-> s, master |-> m]]
    BY <1>5
  <1>7. [at |-> at, server |-> s, master |-> m] \in Works BY <1>3 DEF Works, AtStates
  <1>8. Types' BY <1>1, <1>6, <1>7 DEF Types
  <1>9. Single' /\ MastersAgree' /\ Targets' BY <1>1 DEF Single, MastersAgree, Targets
  <1>10. AtWork' BY <1>1, <1>3, <1>4, <1>6 DEF AtWork, Types, Has
  <1>11. Pending'
    <2>1. \A r \in notYetAdded : Host(r) # h /\ Host(r) \in Hosts BY <1>3, HostOfServer DEF Pending, Types
    <2> QED BY <1>1, <1>6, <2>1 DEF Pending, Has, Types
  <1>12. Phases' BY <1>1, <1>4 DEF Phases
  <1>13. \A g \in Hosts : work'[g].server = work[g].server BY <1>2, <1>6 DEF Types
  <1>14. Watched' BY <1>1, <1>13, HostOfServer DEF Watched, Types
  <1>15. Counted' /\ Closing' BY <1>1, <1>4 DEF Counted, Closing, InUse, LoopRefers
  <1> QED BY <1>8, <1>9, <1>10, <1>11, <1>12, <1>14, <1>15

LEMMA SpawnTypes == ASSUME Assumed, Inv, NEW h \in Hosts PROVE Spawn(h) \subseteq Spawned
  <1>1. work[h].master \in BOOLEAN /\ Names[h] \subseteq Hosts /\ spawned \subseteq Spawned
    BY DEF Inv, Types, Works, Assumed, HostsAssumption
  <1>2. [host : Names[h], byMaster : {work[h].master}] \subseteq Spawned BY <1>1 DEF Spawned
  <1> QED BY <1>1, <1>2 DEF Spawn

LEMMA ClassifyKeeps == ASSUME Assumed, Inv, NEW h \in Hosts, Classify(h) PROVE Inv'
  <1> USE DEF Inv
  <1>1. /\ servers' = servers /\ masters' = masters /\ dynaSeeds' = dynaSeeds /\ sync' = sync
        /\ references' = references /\ open' = open /\ master' = master /\ abended' = abended
        /\ loop' = loop /\ addIfFound' = addIfFound
        /\ seen' = seen /\ calm' = calm
        /\ pc' = pc /\ target' = target /\ late' = late /\ synced' = synced
        /\ role' = role /\ changes' = changes
    BY DEF Classify, cluster, objects, users, topology
  <1>2. PICK s : s = work[h].server OBVIOUS
  <1>3. work[h].at = "classify" /\ Has(h, s) /\ s \in Servers /\ Host(s) = h
    BY <1>2 DEF Classify, AtWork, Has
  <1>4. loop = "iterate" /\ h \in seen BY <1>3, Iterating
  <1>5. \A r \in notYetAdded : Host(r) # h /\ Host(r) \in Hosts BY <1>3, HostOfServer DEF Pending, Types
  <1>6. Single' /\ MastersAgree' /\ Targets' BY <1>1 DEF Single, MastersAgree, Targets
  <1>7. Phases' BY <1>1, <1>4 DEF Phases
  <1>8. Counted' /\ Closing' BY <1>1, <1>4 DEF Counted, Closing, InUse, LoopRefers
  <1>9. CASE Vouched(h)
    <2>1. PICK m : m = work[h].master OBVIOUS
    <2>2. m \in BOOLEAN BY <2>1 DEF Types, Works
    <2>3. /\ syncKind' = "complete" /\ notYetAdded' = notYetAdded /\ spawned' = spawned
          /\ work' = [work EXCEPT ![h] = [at |-> "add", server |-> s, master |-> m]]
      BY <1>2, <1>9, <2>1 DEF Classify, Work
    <2>4. [at |-> "add", server |-> s, master |-> m] \in Works BY <1>3, <2>2 DEF Works, AtStates
    <2>5. Types' BY <1>1, <2>3, <2>4 DEF Types
    <2>6. AtWork' BY <1>1, <1>3, <1>4, <2>3 DEF AtWork, Types, Has
    <2>7. Pending' BY <1>1, <1>5, <2>3 DEF Pending, Has, Types
    <2>8. \A g \in Hosts : work'[g].server = work[g].server BY <1>2, <2>3 DEF Types
    <2>9. Watched' BY <1>1, <2>3, <2>8, HostOfServer DEF Watched, Types
    <2> QED BY <1>6, <1>7, <1>8, <2>5, <2>6, <2>7, <2>9
  <1>10. CASE ~Vouched(h)
    <2>1. /\ notYetAdded' = notYetAdded \cup {s} /\ work' = [work EXCEPT ![h] = Off]
          /\ spawned' = Spawn(h) /\ syncKind' = syncKind
      BY <1>2, <1>10 DEF Classify
    <2>2. Off \in Works BY DEF Off, Works, AtStates
    <2>3. Types' BY <1>1, <1>3, <2>1, <2>2, SpawnTypes DEF Types
    <2>4. AtWork' BY <1>1, <2>1 DEF AtWork, Types, Has, Off
    <2>5. Pending'
      <3> SUFFICES ASSUME NEW r \in notYetAdded'
                   PROVE  /\ Host(r) \in seen' /\ work'[Host(r)].at = "off" /\ Has(Host(r), r)'
                          /\ \A q \in notYetAdded' : Host(q) = Host(r) => q = r
        BY DEF Pending
      <3>1. CASE r = s
        BY <1>1, <1>3, <1>4, <1>5, <2>1, <3>1 DEF Has, Types, Off
      <3>2. CASE r # s
        BY <1>1, <1>3, <1>5, <2>1, <3>2 DEF Pending, Has, Types
      <3> QED BY <3>1, <3>2
    <2>6. Watched'
      <3> SUFFICES ASSUME NEW r \in open, r \notin servers, r \notin notYetAdded'
                   PROVE  work'[Host(r)].server = r
        BY <1>1 DEF Watched
      <3>1. r \in Servers /\ Host(r) \in Hosts BY HostOfServer DEF Types
      <3>2. work[Host(r)].server = r /\ r # s BY <2>1 DEF Watched
      <3>3. Host(r) # h BY <1>2, <3>2
      <3> QED BY <2>1, <3>1, <3>2, <3>3 DEF Types
    <2> QED BY <1>6, <1>7, <1>8, <2>3, <2>4, <2>5, <2>6
  <1> QED BY <1>9, <1>10

\* A server is added to the list: it is the one of its host, and woken sessions look again.
LEMMA AddKeeps == ASSUME Assumed, Inv, NEW h \in Hosts, Add(h) PROVE Inv'
  <1> USE DEF Inv
  <1>1. /\ references' = references /\ dynaSeeds' = dynaSeeds /\ sync' = sync /\ abended' = abended
        /\ loop' = loop /\ notYetAdded' = notYetAdded /\ addIfFound' = addIfFound /\ seen' = seen
        /\ syncKind' = syncKind /\ target' = target /\ late' = late /\ synced' = synced
        /\ role' = role /\ changes' = changes /\ calm' = calm
        /\ work' = [work EXCEPT ![h] = Off]
    BY DEF Add, maps, topology
  <1>2. PICK s : s = work[h].server OBVIOUS
  <1>3. PICK m : m = work[h].master OBVIOUS
  <1>4. work[h].at # "off" /\ Has(h, s) /\ s \in Servers /\ Host(s) = h /\ m \in BOOLEAN
    BY <1>2, <1>3 DEF Add, AtWork, Has, Types, Works
  <1>5. /\ servers' = servers \cup {s} /\ masters' = (IF m THEN masters \cup {s} ELSE masters \ {s})
        /\ master' = [master EXCEPT ![s] = m] /\ pc' = Woken /\ open' = open
    BY <1>2, <1>3 DEF Add, addServer, MastersWith
  <1>6. loop = "iterate" /\ LoopRefers /\ h \in seen BY <1>4, Iterating
  <1>7. \A r \in notYetAdded : Host(r) # h /\ Host(r) \in Hosts BY <1>4, HostOfServer DEF Pending, Types
  <1>8. spawned' \subseteq Spawned BY SpawnTypes DEF Add, Types
  <1>9. /\ pc' \in [Clients -> {"look", "wait", "try", "got", "failed", "closed"}]
        /\ InUse' = InUse /\ \A u \in Clients : pc'[u] \in {"try", "got"} => pc[u] = pc'[u]
    BY <1>5, WokenInUse
  <1>10. Off \in Works BY DEF Off, Works, AtStates
  <1>11. masters' \subseteq servers' /\ servers' \subseteq Servers /\ master' \in [Servers -> BOOLEAN]
    BY <1>4, <1>5 DEF Types
  <1>12. Types' BY <1>1, <1>5, <1>8, <1>9, <1>10, <1>11 DEF Types
  <1>13. Single' BY <1>4, <1>5 DEF Single, Has
  <1>14. MastersAgree' BY <1>4, <1>5 DEF MastersAgree, Types
  <1>15. AtWork'
    <2> SUFFICES ASSUME NEW g \in Hosts
                 PROVE  /\ work'[g].at = "off" => work'[g] = Off
                        /\ work'[g].at = "server" => work'[g].server = NoServer
                        /\ work'[g].at # "off" => g \in seen'
                        /\ work'[g].at \notin {"off", "server"} => Has(g, work[g].server)'
      BY DEF AtWork
    <2>1. CASE g = h BY <1>1, <2>1 DEF Types, Off, Has
    <2>2. CASE g # h
      <3>1. work'[g] = work[g] BY <1>1, <2>2 DEF Types
      <3>2. ASSUME work[g].at \notin {"off", "server"} PROVE Has(g, work[g].server)'
        <4>1. Has(g, work[g].server) BY <3>2 DEF AtWork
        <4>2. \A t \in servers' : Host(t) = g => t \in servers BY <1>4, <1>5, <2>2
        <4> QED BY <3>1, <4>1, <4>2 DEF Has
      <3> QED BY <1>1, <3>1, <3>2 DEF AtWork
    <2> QED BY <2>1, <2>2
  <1>16. Pending'
    <2> SUFFICES ASSUME NEW r \in notYetAdded
                 PROVE  /\ Host(r) \in seen /\ work'[Host(r)].at = "off" /\ Has(Host(r), r)'
                        /\ \A q \in notYetAdded : Host(q) = Host(r) => q = r
      BY <1>1 DEF Pending
    <2>1. work'[Host(r)] = work[Host(r)] BY <1>1, <1>7 DEF Types
    <2>2. \A t \in servers' : Host(t) = Host(r) => t \in servers BY <1>4, <1>5, <1>7
    <2>3. Has(Host(r), r)' BY <2>2 DEF Pending, Has
    <2> QED BY <2>1, <2>3 DEF Pending
  <1>17. Phases' BY <1>1, <1>6 DEF Phases
  <1>18. Counted' /\ Closing' BY <1>1, <1>5, <1>9 DEF Counted, Closing, LoopRefers
  <1>19. Watched'
    <2> SUFFICES ASSUME NEW r \in open, r \notin servers', r \notin notYetAdded
                 PROVE  work'[Host(r)].server = r
      BY <1>1, <1>5 DEF Watched
    <2>1. r \in Servers /\ Host(r) \in Hosts BY HostOfServer DEF Types
    <2>2. work[Host(r)].server = r /\ r # s BY <1>5 DEF Watched
    <2>3. Host(r) # h BY <1>2, <2>2
    <2> QED BY <1>1, <2>1, <2>2, <2>3 DEF Types
  <1>20. Targets' BY <1>1, <1>9 DEF Targets
  <1> QED BY <1>12, <1>13, <1>14, <1>15, <1>16, <1>17, <1>18, <1>19, <1>20

(***************************************************************************)
(* Servers removed                                                         *)
(***************************************************************************)

\* Whoever removes a server, and whenever: the lists still agree, and every other
\* server that is open is watched as it was.
LEMMA RemoveKeeps ==
  ASSUME Assumed, Inv, NEW s \in Servers, removeServer(s), master' = master
  PROVE  /\ servers' \subseteq servers /\ masters' \subseteq servers' /\ open' \subseteq open
         /\ Single' /\ MastersAgree'
         /\ s \notin open'
         /\ \A r \in open' : r \in servers => r \in servers'
  <1> USE DEF Inv
  <1>1. /\ servers' = servers \ At(Host(s)) /\ masters' = masters \ At(Host(s))
        /\ open' = open \ (At(Host(s)) \cup {s})
    BY DEF removeServer
  <1>2. masters \subseteq servers BY DEF Types
  <1>3. servers' \subseteq servers /\ masters' \subseteq servers' /\ open' \subseteq open BY <1>1, <1>2
  <1>4. Single' BY <1>3 DEF Single
  <1>5. MastersAgree' BY <1>1 DEF MastersAgree
  <1> QED BY <1>1, <1>3, <1>4, <1>5

LEMMA DropKeeps == ASSUME Assumed, Inv, NEW h \in Hosts, Drop(h) PROVE Inv'
  <1> USE DEF Inv
  <1>1. /\ references' = references /\ dynaSeeds' = dynaSeeds /\ sync' = sync /\ master' = master
        /\ abended' = abended
        /\ loop' = loop /\ spawned' = spawned /\ notYetAdded' = notYetAdded
        /\ addIfFound' = addIfFound /\ seen' = seen /\ syncKind' = syncKind
        /\ pc' = pc /\ target' = target /\ late' = late /\ synced' = synced
        /\ role' = role /\ changes' = changes /\ calm' = calm
        /\ work' = [work EXCEPT ![h] = Off]
    BY DEF Drop, maps, users, topology
  <1>2. PICK s : s = work[h].server OBVIOUS
  <1>3. work[h].at # "off" /\ Has(h, s) /\ s \in Servers /\ Host(s) = h
    BY <1>2 DEF Drop, AtWork, Has
  <1>4. removeServer(s) BY <1>2 DEF Drop
  <1>5. /\ servers' \subseteq servers /\ masters' \subseteq servers' /\ open' \subseteq open
        /\ Single' /\ MastersAgree' /\ s \notin open'
        /\ \A r \in open' : r \in servers => r \in servers'
    BY <1>1, <1>3, <1>4, RemoveKeeps
  <1>6. loop = "iterate" /\ LoopRefers /\ h \in seen BY <1>3, Iterating
  <1>7. \A r \in notYetAdded : Host(r) # h /\ Host(r) \in Hosts BY <1>3, HostOfServer DEF Pending, Types
  <1>8. Off \in Works BY DEF Off, Works, AtStates
  <1>9. Types' BY <1>1, <1>5, <1>8 DEF Types
  <1>10. AtWork' BY <1>1, <1>5 DEF AtWork, Types, Has, Off
  <1>11. Pending' BY <1>1, <1>5, <1>7 DEF Pending, Has, Types
  <1>12. Phases' BY <1>1, <1>6 DEF Phases
  <1>13. Counted' /\ Closing' BY <1>1, <1>5 DEF Counted, Closing, InUse, LoopRefers
  <1>14. Watched'
    <2> SUFFICES ASSUME NEW r \in open', r \notin servers', r \notin notYetAdded
                 PROVE  work'[Host(r)].server = r
      BY <1>1 DEF Watched
    <2>1. r \in Servers /\ Host(r) \in Hosts BY <1>5, HostOfServer DEF Types
    <2>2. work[Host(r)].server = r /\ r # s BY <1>5 DEF Watched
    <2>3. Host(r) # h BY <1>2, <2>2
    <2> QED BY <1>1, <2>1, <2>2, <2>3 DEF Types
  <1>15. Targets' BY <1>1 DEF Targets
  <1> QED BY <1>5, <1>9, <1>10, <1>11, <1>12, <1>13, <1>14, <1>15

\* A server nobody vouched for is removed, or stays when it was known.
LEMMA SettleKeeps == ASSUME Assumed, Inv, Settle PROVE Inv'
  <1> USE DEF Inv
  <1>1. /\ references' = references /\ dynaSeeds' = dynaSeeds /\ sync' = sync
        /\ abended' = abended /\ loop' = loop /\ spawned' = spawned /\ work' = work
        /\ addIfFound' = addIfFound /\ seen' = seen /\ syncKind' = syncKind
        /\ target' = target /\ late' = late /\ synced' = synced
        /\ role' = role /\ changes' = changes /\ calm' = calm /\ loop = "settle"
    BY DEF Settle, topology
  <1>2. PICK s \in notYetAdded :
           /\ notYetAdded' = notYetAdded \ {s}
           /\ IF PendingKind = "complete" THEN removeServer(s) /\ UNCHANGED <<master, pc>>
              ELSE addServer(s, FALSE, "partial")
    BY DEF Settle
  <1>3. s \in Servers /\ Host(s) \in Hosts /\ Has(Host(s), s) BY HostOfServer DEF Types, Pending
  <1>4. /\ servers' \subseteq servers /\ masters' \subseteq servers' /\ open' \subseteq open
        /\ Single' /\ MastersAgree' /\ (s \in open' => s \in servers')
        /\ \A r \in open' : r \in servers => r \in servers'
        /\ master' \in [Servers -> BOOLEAN]
        /\ pc' \in [Clients -> {"look", "wait", "try", "got", "failed", "closed"}]
        /\ InUse' = InUse /\ \A u \in Clients : pc'[u] \in {"try", "got"} => pc[u] = pc'[u]
    <2>1. CASE PendingKind = "complete"
      <3>1. removeServer(s) /\ master' = master /\ pc' = pc BY <1>2, <2>1
      <3>2. /\ servers' \subseteq servers /\ masters' \subseteq servers' /\ open' \subseteq open
            /\ Single' /\ MastersAgree' /\ s \notin open'
            /\ \A r \in open' : r \in servers => r \in servers'
        BY <1>3, <3>1, RemoveKeeps
      <3> QED BY <3>1, <3>2 DEF InUse, Types
    <2>2. CASE PendingKind # "complete" /\ At(Host(s)) = {}
      <3>1. /\ open' = open \ {s} /\ servers' = servers /\ masters' = masters
            /\ master' = master /\ pc' = pc
        BY <1>2, <2>2 DEF addServer, Discard
      <3>2. Single' /\ MastersAgree' BY <3>1 DEF Single, MastersAgree
      <3> QED BY <3>1, <3>2 DEF InUse, Types
    <2>3. CASE PendingKind # "complete" /\ At(Host(s)) # {}
      <3>1. s \in servers
        <4>1. PICK t \in servers : Host(t) = Host(s) BY <2>3 DEF At
        <4> QED BY <1>3, <4>1 DEF Has
      <3>2. /\ servers' = servers \cup {s} /\ masters' = masters \ {s}
            /\ master' = [master EXCEPT ![s] = FALSE] /\ pc' = Woken /\ open' = open
        BY <1>2, <2>3 DEF addServer, MastersWith
      <3>3. servers' = servers /\ masters' \subseteq servers /\ master' \in [Servers -> BOOLEAN]
        BY <1>3, <3>1, <3>2 DEF Types
      <3>4. Single' BY <3>3 DEF Single
      <3>5. MastersAgree' BY <1>3, <3>2, <3>3 DEF MastersAgree, Types
      <3>6. /\ pc' \in [Clients -> {"look", "wait", "try", "got", "failed", "closed"}]
            /\ InUse' = InUse /\ \A u \in Clients : pc'[u] \in {"try", "got"} => pc[u] = pc'[u]
        BY <3>2, WokenInUse
      <3> QED BY <3>1, <3>2, <3>3, <3>4, <3>5, <3>6
    <2> QED BY <2>1, <2>2, <2>3
  <1>5. notYetAdded' \subseteq notYetAdded BY <1>2
  <1>6. Types' BY <1>1, <1>4, <1>5 DEF Types
  <1>7. AtWork' BY <1>1, <1>4 DEF AtWork, Has
  <1>8. Pending' BY <1>1, <1>4, <1>5 DEF Pending, Has
  <1>9. Phases' BY <1>1 DEF Phases
  <1>10. Counted' /\ Closing' BY <1>1, <1>4 DEF Counted, Closing, LoopRefers
  <1>11. Watched' BY <1>1, <1>2, <1>4 DEF Watched
  <1>12. Targets' BY <1>1, <1>4 DEF Targets
  <1> QED BY <1>4, <1>6, <1>7, <1>8, <1>9, <1>10, <1>11, <1>12

(***************************************************************************)
(* The sessions, and the servers out there                                 *)
(***************************************************************************)

PcStates == {"look", "wait", "try", "got", "failed", "closed"}

\* A session goes on that has not closed and does not close.
LEMMA SessionMoves ==
  ASSUME Assumed, Inv, NEW u \in Clients, pc[u] # "closed",
         NEW where \in PcStates \ {"closed"}, NEW s \in Servers \cup {NoServer},
         where \in {"try", "got"} => s \in Servers, Goto(u, where, s)
  PROVE  /\ pc' \in [Clients -> PcStates] /\ target' \in [Clients -> Servers \cup {NoServer}]
         /\ InUse' = InUse /\ Targets'
  <1> USE DEF Inv, PcStates
  <1>1. pc' = [pc EXCEPT ![u] = where] /\ target' = [target EXCEPT ![u] = s] BY DEF Goto
  <1>2. pc \in [Clients -> PcStates] /\ target \in [Clients -> Servers \cup {NoServer}] BY DEF Types
  <1>3. pc' \in [Clients -> PcStates] /\ target' \in [Clients -> Servers \cup {NoServer}] BY <1>1, <1>2
  <1>4. InUse' = InUse BY <1>1, <1>2 DEF InUse
  <1>5. Targets' BY <1>1, <1>2 DEF Targets
  <1> QED BY <1>3, <1>4, <1>5

\* What a step of a session leaves alone that neither removes a server nor closes.
SessionKeeps ==
    /\ servers' = servers /\ masters' = masters /\ references' = references /\ dynaSeeds' = dynaSeeds
    /\ open' = open /\ master' = master /\ abended' = abended
    /\ loop' = loop /\ spawned' = spawned /\ work' = work
    /\ notYetAdded' = notYetAdded /\ addIfFound' = addIfFound /\ seen' = seen /\ syncKind' = syncKind
    /\ role' = role /\ changes' = changes

LEMMA SessionSteps ==
  ASSUME Assumed, Inv, SessionKeeps, sync' \in BOOLEAN, calm' \in BOOLEAN,
         pc' \in [Clients -> PcStates], target' \in [Clients -> Servers \cup {NoServer}],
         late' \in [Clients -> {"no", "started", "late"}], synced' \in [Clients -> BOOLEAN],
         Targets', {u \in Clients : pc'[u] # "closed"} = InUse
  PROVE  Inv'
  <1> USE DEF Inv, SessionKeeps
  <1>1. Types' BY DEF Types, PcStates
  <1>2. Single' /\ MastersAgree' BY DEF Single, MastersAgree
  <1>3. AtWork' /\ Pending' /\ Watched' /\ Phases' BY DEF AtWork, Pending, Watched, Has, Phases
  <1>4. InUse' = InUse BY DEF InUse
  <1>5. Counted' /\ Closing' BY <1>4 DEF Counted, Closing, LoopRefers
  <1> QED BY <1>1, <1>2, <1>3, <1>5

LEMMA LookKeeps == ASSUME Assumed, Inv, NEW u \in Clients, Look(u) PROVE Inv'
  <1> USE DEF Inv
  <1>1. SessionKeeps /\ calm' = calm /\ calm \in BOOLEAN
    BY DEF SessionKeeps, Look, cluster, objects, iteration, maps, topology, Types
  <1>2. pc[u] # "closed" BY DEF Look
  <1>3. /\ pc' \in [Clients -> PcStates] /\ target' \in [Clients -> Servers \cup {NoServer}]
        /\ InUse' = InUse /\ Targets'
        /\ sync' \in BOOLEAN /\ late' \in [Clients -> {"no", "started", "late"}]
        /\ synced' \in [Clients -> BOOLEAN]
    <2>1. CASE Usable(u)
      <3>1. late' = late /\ synced' = synced /\ sync' = sync BY <2>1 DEF Look
      <3>2. CASE \E s \in Fitting(u) : Goto(u, "try", s)
        <4>1. PICK s \in Fitting(u) : Goto(u, "try", s) BY <3>2
        <4>2. s \in Servers BY DEF Fitting, Types
        <4> QED BY <1>2, <3>1, <4>1, <4>2, SessionMoves DEF PcStates, Types
      <3>3. CASE pc' = pc /\ target' = target
        BY <3>1, <3>3 DEF Types, PcStates, InUse, Targets
      <3> QED BY <2>1, <3>2, <3>3 DEF Look
    <2>2. CASE ~Usable(u) /\ GivesUp(u)
      <3>1. Goto(u, "failed", NoServer) /\ late' = late /\ synced' = synced /\ sync' = sync
        BY <2>2 DEF Look
      <3> QED BY <1>2, <3>1, SessionMoves DEF PcStates, Types
    <2>3. CASE ~Usable(u) /\ ~GivesUp(u)
      <3>1. /\ Goto(u, "wait", NoServer)
            /\ late' = [late EXCEPT ![u] = IF @ = "no" THEN "started" ELSE @]
            /\ synced' = [synced EXCEPT ![u] = (late[u] # "no" /\ @)]
            /\ sync' = TRUE
        BY <2>3 DEF Look
      <3>2. late' \in [Clients -> {"no", "started", "late"}] BY <3>1 DEF Types
      <3>3. synced' \in [Clients -> BOOLEAN]
        <4>1. PICK b : b = (late[u] # "no" /\ synced[u]) OBVIOUS
        <4>2. b \in BOOLEAN BY <4>1
        <4>3. synced' = [synced EXCEPT ![u] = b] BY <3>1, <4>1
        <4> QED BY <4>2, <4>3 DEF Types
      <3> QED BY <1>2, <3>1, <3>2, <3>3, SessionMoves DEF PcStates
    <2> QED BY <2>1, <2>2, <2>3
  <1>4. {v \in Clients : pc'[v] # "closed"} = InUse BY <1>3 DEF InUse
  <1> QED BY <1>1, <1>3, <1>4, SessionSteps

LEMMA TimePassesKeeps == ASSUME Assumed, Inv, NEW u \in Clients, TimePasses(u) PROVE Inv'
  <1> USE DEF Inv
  <1>1. SessionKeeps /\ calm' = calm /\ sync' = sync /\ pc' = pc /\ target' = target /\ synced' = synced
    BY DEF SessionKeeps, TimePasses, cluster, objects, iteration, maps, topology
  <1>2. late' = [late EXCEPT ![u] = "late"] BY DEF TimePasses
  <1>3. late' \in [Clients -> {"no", "started", "late"}] BY <1>2 DEF Types
  <1>4. Targets' BY <1>1 DEF Targets
  <1>5. {v \in Clients : pc'[v] # "closed"} = InUse BY <1>1 DEF InUse
  <1> QED BY <1>1, <1>3, <1>4, <1>5, SessionSteps DEF Types, PcStates

LEMMA AgainKeeps == ASSUME Assumed, Inv, NEW u \in Clients, Again(u) PROVE Inv'
  <1> USE DEF Inv
  <1>1. SessionKeeps /\ calm' = calm /\ sync' = sync /\ late' = late /\ synced' = synced
    BY DEF SessionKeeps, Again, cluster, objects, iteration, maps, topology
  <1>2. pc[u] # "closed" /\ Goto(u, "look", NoServer) BY DEF Again
  <1>3. /\ pc' \in [Clients -> PcStates] /\ target' \in [Clients -> Servers \cup {NoServer}]
        /\ InUse' = InUse /\ Targets'
    BY <1>2, SessionMoves DEF PcStates
  <1>4. {v \in Clients : pc'[v] # "closed"} = InUse BY <1>3 DEF InUse
  <1> QED BY <1>1, <1>3, <1>4, SessionSteps DEF Types

\* A socket is got, or the session looks again and may have removed the server.
LEMMA TryKeeps == ASSUME Assumed, Inv, NEW u \in Clients, Try(u) PROVE Inv'
  <1> USE DEF Inv
  <1>1. /\ references' = references /\ dynaSeeds' = dynaSeeds /\ master' = master /\ abended' = abended
        /\ loop' = loop /\ spawned' = spawned /\ work' = work
        /\ notYetAdded' = notYetAdded /\ addIfFound' = addIfFound /\ seen' = seen
        /\ syncKind' = syncKind /\ role' = role /\ changes' = changes
    BY DEF Try, iteration, maps, topology
  <1>2. PICK s : s = target[u] OBVIOUS
  <1>3. pc[u] = "try" /\ s \in Servers BY <1>2 DEF Try, Targets
  <1>4. CASE /\ Goto(u, "got", s)
             /\ late' = [late EXCEPT ![u] = "no"] /\ synced' = [synced EXCEPT ![u] = FALSE]
             /\ UNCHANGED <<servers, masters, open, sync, calm>>
    <2>1. late' \in [Clients -> {"no", "started", "late"}] /\ synced' \in [Clients -> BOOLEAN]
      BY <1>4 DEF Types
    <2>2. /\ pc' \in [Clients -> PcStates] /\ target' \in [Clients -> Servers \cup {NoServer}]
          /\ InUse' = InUse /\ Targets'
      BY <1>3, <1>4, SessionMoves DEF PcStates
    <2>3. {v \in Clients : pc'[v] # "closed"} = InUse BY <2>2 DEF InUse
    <2>4. SessionKeeps /\ sync' = sync /\ calm' = calm BY <1>1, <1>4 DEF SessionKeeps
    <2> QED BY <2>1, <2>2, <2>3, <2>4, SessionSteps DEF Types
  <1>5. CASE /\ Goto(u, "look", NoServer) /\ sync' \in BOOLEAN
             /\ UNCHANGED <<servers, masters, open, late, synced, calm>>
    <2>1. /\ pc' \in [Clients -> PcStates] /\ target' \in [Clients -> Servers \cup {NoServer}]
          /\ InUse' = InUse /\ Targets'
      BY <1>3, <1>5, SessionMoves DEF PcStates
    <2>2. {v \in Clients : pc'[v] # "closed"} = InUse BY <2>1 DEF InUse
    <2>3. SessionKeeps /\ late' = late /\ synced' = synced /\ calm' = calm BY <1>1, <1>5 DEF SessionKeeps
    <2> QED BY <1>5, <2>1, <2>2, <2>3, SessionSteps DEF Types
  <1>6. CASE /\ removeServer(s) /\ Goto(u, "look", NoServer)
             /\ sync' = TRUE /\ calm' = FALSE /\ UNCHANGED <<late, synced>>
    <2>1. /\ servers' \subseteq servers /\ masters' \subseteq servers' /\ open' \subseteq open
          /\ Single' /\ MastersAgree' /\ s \notin open'
          /\ \A r \in open' : r \in servers => r \in servers'
      BY <1>1, <1>3, <1>6, RemoveKeeps
    <2>2. /\ pc' \in [Clients -> PcStates] /\ target' \in [Clients -> Servers \cup {NoServer}]
          /\ InUse' = InUse /\ Targets'
      BY <1>3, <1>6, SessionMoves DEF PcStates
    <2>3. Types' BY <1>1, <1>6, <2>1, <2>2 DEF Types, PcStates
    <2>4. AtWork' /\ Pending' BY <1>1, <2>1 DEF AtWork, Pending, Has
    <2>5. Phases' BY <1>1 DEF Phases
    <2>6. Counted' /\ Closing' BY <1>1, <2>1, <2>2 DEF Counted, Closing, LoopRefers
    <2>7. Watched' BY <1>1, <2>1 DEF Watched
    <2> QED BY <2>1, <2>2, <2>3, <2>4, <2>5, <2>6, <2>7
  <1> QED BY <1>2, <1>4, <1>5, <1>6 DEF Try, Types

\* A session closes: of the references that are counted one goes, and with the
\* last one the servers.
LEMMA CloseSessionKeeps == ASSUME Assumed, Inv, NEW u \in Clients, CloseSession(u) PROVE Inv'
  <1> USE DEF Inv
  <1>1. /\ servers' = servers /\ masters' = masters /\ dynaSeeds' = dynaSeeds /\ master' = master
        /\ abended' = abended /\ loop' = loop /\ spawned' = spawned /\ work' = work
        /\ notYetAdded' = notYetAdded /\ addIfFound' = addIfFound /\ seen' = seen
        /\ syncKind' = syncKind /\ late' = late /\ synced' = synced
        /\ role' = role /\ changes' = changes /\ calm' = calm
    BY DEF CloseSession, iteration, maps, topology
  <1>2. pc[u] # "closed" /\ u \in InUse BY DEF CloseSession, InUse
  <1>3. pc' = [pc EXCEPT ![u] = "closed"] /\ target' = [target EXCEPT ![u] = NoServer]
    BY DEF CloseSession, Goto
  <1>4. /\ pc' \in [Clients -> {"look", "wait", "try", "got", "failed", "closed"}]
        /\ target' \in [Clients -> Servers \cup {NoServer}]
    BY <1>3 DEF Types
  <1>5. InUse' = InUse \ {u} BY <1>3 DEF InUse, Types
  <1>6. Targets' BY <1>3 DEF Targets, Types
  <1>7. IsFiniteSet(InUse) /\ Cardinality(InUse) \in Nat BY InUseIsFinite
  <1>8. Cardinality(InUse') = Cardinality(InUse) - 1 /\ Cardinality(InUse) # 0
    BY <1>2, <1>5, <1>7, FS_RemoveElement, FS_EmptySet
  <1>9. references > 0 /\ (references = 1 => ~LoopRefers) BY <1>7, <1>8 DEF Counted
  <1>10. references = 1 => notYetAdded = {} /\ \A h \in Hosts : work[h].at = "off"
    BY <1>9 DEF Phases, LoopRefers
  <1>11. /\ open' \subseteq open /\ sync' \in BOOLEAN /\ references' = references - 1 /\ references' \in Nat
         /\ references' = 0 => open' = {}
         /\ Watched'
    BY <1>1, <1>9, <1>10, ReleaseKeeps DEF CloseSession
  <1>12. Types' BY <1>1, <1>4, <1>11 DEF Types
  <1>13. Single' /\ MastersAgree' BY <1>1 DEF Single, MastersAgree
  <1>14. AtWork' /\ Pending' /\ Phases' BY <1>1 DEF AtWork, Pending, Has, Phases
  <1>15. Counted' BY <1>1, <1>7, <1>8, <1>11 DEF Counted, LoopRefers, Types
  <1>16. Closing' BY <1>1, <1>9, <1>11 DEF Closing
  <1> QED BY <1>6, <1>11, <1>12, <1>13, <1>14, <1>15, <1>16

LEMMA ChangeKeeps == ASSUME Assumed, Inv, Change PROVE Inv'
  <1> USE DEF Inv
  <1>1. /\ servers' = servers /\ masters' = masters /\ references' = references /\ dynaSeeds' = dynaSeeds
        /\ open' = open /\ master' = master /\ loop' = loop /\ spawned' = spawned /\ work' = work
        /\ notYetAdded' = notYetAdded /\ addIfFound' = addIfFound /\ seen' = seen /\ syncKind' = syncKind
        /\ pc' = pc /\ target' = target /\ late' = late /\ synced' = synced
        /\ changes' = changes + 1 /\ changes < MaxChanges /\ calm' = FALSE
    BY DEF Change, cluster, iteration, maps, users
  <1>2. PICK h \in Hosts, r \in {"primary", "secondary", "down"} :
           /\ role' = [role EXCEPT ![h] = r]
           /\ abended' = abended \cup (open \cap At(h))
           /\ sync' = (sync \/ (open \cap At(h)) # {})
    BY DEF Change
  <1>3. role' \in [Hosts -> {"primary", "secondary", "down"}] /\ abended' \subseteq Servers
    BY <1>2 DEF Types
  <1>4. sync' \in BOOLEAN BY <1>2
  <1>5. changes' \in 0..MaxChanges BY <1>1 DEF Types, Assumed, BoundsAssumption
  <1>6. Types' BY <1>1, <1>3, <1>4, <1>5 DEF Types
  <1>7. Single' /\ MastersAgree' /\ Targets' BY <1>1 DEF Single, MastersAgree, Targets
  <1>8. AtWork' /\ Pending' /\ Watched' /\ Phases' BY <1>1 DEF AtWork, Pending, Watched, Has, Phases
  <1>9. Counted' /\ Closing' BY <1>1 DEF Counted, Closing, InUse, LoopRefers
  <1> QED BY <1>6, <1>7, <1>8, <1>9

(***************************************************************************)
(* All of it                                                               *)
(***************************************************************************)

LEMMA NothingKeeps == ASSUME Assumed, Inv, UNCHANGED clusterVars PROVE Inv'
  <1> USE DEF Inv, clusterVars, cluster, objects, iteration, maps, users, topology
  <1>1. SessionKeeps /\ sync' = sync /\ calm' = calm /\ pc' = pc /\ target' = target
        /\ late' = late /\ synced' = synced
    BY DEF SessionKeeps
  <1>2. Targets' BY <1>1 DEF Targets
  <1>3. {v \in Clients : pc'[v] # "closed"} = InUse BY <1>1 DEF InUse
  <1> QED BY <1>1, <1>2, <1>3, SessionSteps DEF Types, PcStates

LEMMA EveryStep == ASSUME Assumed, Inv, [ClusterNext]_clusterVars PROVE Inv'
  <1>1. CASE Loop
    BY <1>1, StartSyncKeeps, JoinedKeeps, SettleKeeps, SettledKeeps, ReleaseSyncKeeps, CountKeeps, WaitKeeps
    DEF Loop
  <1>2. CASE \E t \in Spawned : BeginSync(t) \/ Unresolved(t)
    BY <1>2, BeginSyncKeeps, UnresolvedKeeps
  <1>3. CASE \E h \in Hosts : Worker(h)
    BY <1>3, GetServerKeeps, AskKeeps, ClassifyKeeps, AddKeeps, DropKeeps DEF Worker
  <1>4. CASE \E u \in Clients : Look(u) \/ TimePasses(u) \/ Try(u) \/ Again(u) \/ CloseSession(u)
    BY <1>4, LookKeeps, TimePassesKeeps, TryKeeps, AgainKeeps, CloseSessionKeeps
  <1>5. CASE Change BY <1>5, ChangeKeeps
  <1>6. CASE UNCHANGED clusterVars BY <1>6, NothingKeeps
  <1> QED BY <1>1, <1>2, <1>3, <1>4, <1>5, <1>6 DEF ClusterNext

LEMMA Always == Assumed => (ClusterSpec => []Inv)
  <1>1. Assumed => (ClusterInit => Inv) BY Initially
  <1>2. Assumed /\ Inv /\ [ClusterNext]_clusterVars => Inv' BY EveryStep
  <1>3. SUFFICES ASSUME Assumed PROVE ClusterSpec => []Inv OBVIOUS
  <1>4. ClusterInit => Inv BY <1>1, <1>3
  <1>5. Inv /\ [ClusterNext]_clusterVars => Inv' BY <1>2, <1>3
  <1> QED BY <1>4, <1>5, PTL DEF ClusterSpec

\* What the invariant says of the cluster
LEMMA InvAgrees == ASSUME Assumed, Inv PROVE ClusterAgrees
  <1> USE DEF Inv
  <1>1. references \in 0..Cardinality(Clients) + 1
    <2>1. /\ Cardinality(InUse) \in Nat /\ Cardinality(Clients) \in Nat
          /\ Cardinality(InUse) <= Cardinality(Clients) BY InUseIsFinite
    <2>2. CASE LoopRefers BY <2>1, <2>2 DEF Counted
    <2>3. CASE ~LoopRefers BY <2>1, <2>3 DEF Counted
    <2> QED BY <2>2, <2>3
  <1>2. ClusterTypeOK BY <1>1 DEF ClusterTypeOK, Types, Works, AtStates, Spawned
  <1>3. ListsAgree
    <2>1. masters \subseteq servers BY DEF Types
    <2> QED BY <2>1 DEF ListsAgree, Single, MastersAgree
  <1>4. NoDuplicate BY DEF NoDuplicate, AtWork, Has, At
  <1>5. EndsClosed BY DEF EndsClosed, Closing
  <1>6. NoneForgotten BY HostOfServer DEF NoneForgotten, Watched, Types
  <1> QED BY <1>2, <1>3, <1>4, <1>5, <1>6 DEF ClusterAgrees

\* However sync goroutines and sessions interleave, whatever the servers answer and
\* however their roles change: the list has one server for an address and the masters
\* are those last seen as such, a server that is added is never a second one of its
\* address, no server is open that nobody could close, and none at all when the loop
\* ends because nobody refers to the cluster (mongoCluster.syncServersLoop,
\* addServer, removeServer, Release).
THEOREM TheClusterAgrees == Assumed => (ClusterSpec => []ClusterAgrees)
  <1>1. Assumed /\ Inv => ClusterAgrees BY InvAgrees
  <1>2. SUFFICES ASSUME Assumed PROVE ClusterSpec => []ClusterAgrees OBVIOUS
  <1>3. ClusterSpec => []Inv BY <1>2, Always
  <1>4. Inv => ClusterAgrees BY <1>1, <1>2
  <1> QED BY <1>3, <1>4, PTL
=============================================================================
