----------------------------- MODULE MCSessions -----------------------------
(***************************************************************************)
(* Sessions of the mgo driver with the sockets they reserve, and the       *)
(* cluster that finds the servers for them.  instance says which of the    *)
(* small instances below a behaviour is of; the variables of the others    *)
(* stay as they are.                                                       *)
(***************************************************************************)
EXTENDS MgoSession, MgoCluster, TLC

CONSTANTS s1, s2, s3, g1, g2, db, ann, bob, ha, hb, hc, v1, v2

VARIABLE instance

cred(u) == [source |-> db, user |-> u]
TwoUsers == {cred(ann), cred(bob)}
Dial == cred(ann)

\* Sessions copied in every way, while one goroutine uses them
Copied == INSTANCE MgoSession WITH
    Creds <- {cred(ann)}, DialCred <- None, Modes <- {"Monotonic"}, Logouts <- {}, MaxSteps <- 4
\* One session in every mode, refreshed or not, used by two goroutines
Moded == INSTANCE MgoSession WITH
    Creds <- {cred(ann)}, DialCred <- None, Copies <- {}, Logouts <- {"one"}, MaxSteps <- 4
\* Two sessions that log in as two users, over sockets that die
Logins == INSTANCE MgoSession WITH
    Goroutines <- {g1}, Modes <- {"Monotonic"}, Copies <- {"New", "Copy"}, Logouts <- {"all"}, MaxSteps <- 5

\* A pair whose members name each other, and a third that b lists still
Stranger == [h \in {ha, hb, hc} |-> IF h = ha THEN {ha, hb} ELSE {ha, hb, hc}]
Pair == [h \in {ha, hb, hc} |-> {ha, hb}]
\* Three hosts answer a sync in any order.
Synced == INSTANCE MgoCluster WITH
    userSeeds <- {hb, hc}, SlaveOk <- {v1}, Tagged <- {}, Timeouts <- FALSE, Limited <- FALSE,
    direct <- FALSE, failFast <- FALSE, MaxChanges <- 0
\* A session and the sync work on a pair whose roles change, pools are at their limit.
Changing == INSTANCE MgoCluster WITH
    Names <- Pair, SlaveOk <- {}, Timeouts <- FALSE, direct <- FALSE, failFast <- FALSE
\* Direct connections of one session or two, with timeouts, pools at their limit
Direct == INSTANCE MgoCluster WITH Names <- Pair, Incarnations <- 4

ASSUME InstancesAssumption ==
    /\ Synced!HostsAssumption /\ Changing!HostsAssumption /\ HostsAssumption
    /\ FlagsAssumption /\ BoundsAssumption

\* The cluster of one session, or of two; of a pair, the third host is not there.
OneSession == pc[v1] = "look" /\ pc[v2] = "closed"
APair == role[hc] = "down"
NoCluster == ClusterInit /\ OneSession /\ \A h \in Hosts : role[h] = "down"

AnyInit ==
    \/ NoCluster /\ \/ instance = "copies" /\ Copied!Init
                    \/ instance = "modes" /\ Moded!Init
                    \/ instance = "logins" /\ Init
    \/ Init /\ \/ instance = "synced" /\ Synced!ClusterInit /\ OneSession /\ (\E h \in {ha, hb} : role[h] = "primary")
               \/ instance = "changing" /\ Changing!ClusterInit /\ OneSession /\ APair
               \/ instance = "direct" /\ Direct!ClusterInit /\ APair

\* Sessions are copied while one goroutine uses them; one goroutine logs in two,
\* which have no more than two sockets between them.
AnyNext ==
    \/ instance = "copies" /\ Copied!Next /\ op'[g2] = op[g2] /\ UNCHANGED <<instance, clusterVars>>
    \/ instance = "modes" /\ Moded!Next /\ UNCHANGED <<instance, clusterVars>>
    \/ instance = "logins" /\ Logins!Next /\ session'[s3] = None
       /\ Cardinality({k \in Sockets : socket'[k] # None}) <= 2 /\ UNCHANGED <<instance, clusterVars>>
    \/ instance = "synced" /\ Synced!ClusterNext /\ UNCHANGED <<instance, vars>>
    \/ instance = "changing" /\ Changing!ClusterNext /\ APair' /\ UNCHANGED <<instance, vars>>
    \/ instance = "direct" /\ Direct!ClusterNext /\ APair' /\ (InUse # Clients \/ changes' = changes)
       /\ UNCHANGED <<instance, vars>>

AnySpec == AnyInit /\ [][AnyNext]_<<instance, vars, clusterVars>>

\* A session goes on over sockets that are logged in as its credentials say, after
\* copies, refreshes and the death of sockets.
LoggedInAsSaid == instance = "logins" => LoggedIn

\* A sync that found the primary knows exactly the members that are up, whichever of
\* them and of the strangers answered first.
SyncFindsAll == instance = "synced" => Synced!SyncIsComplete

Symmetry == Permutations(Sockets)
=============================================================================
