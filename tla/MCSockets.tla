----------------------------- MODULE MCSockets -----------------------------
(***************************************************************************)
(* What the mgo driver does about connections: one socket, the pool of a   *)
(* server, and the logins over a socket that sessions share.  instance     *)
(* says which of the small instances below a behaviour is of, "socket" and *)
(* "pool" being those of the configuration, the pool with three sockets;   *)
(* the variables of the others stay as they are.                           *)
(***************************************************************************)
EXTENDS MgoSocket, MgoServer, MgoAuth, TLC

CONSTANTS u1, u2, pinger, k1, k2, k3, k4, g1, g2, g3, db, ann, bob

VARIABLE instance

\* One user and the pinger, no limit, more connections than goroutines, and no Close
Unlimited == INSTANCE MgoServer WITH PoolLimit <- 0, MaxRefs <- 1

cred(u, m, g) == [source |-> db, user |-> u, mech |-> m, good |-> g]
Classic == {cred(ann, "classic", TRUE), cred(bob, "classic", FALSE)}
Both == {cred(ann, "classic", TRUE), cred(bob, "scram", TRUE)}
AllCreds == Classic \cup Both
\* Different users, one with SCRAM, and queries
Logins == INSTANCE MgoAuth WITH Creds <- Both, Does <- {"login", "query"}, MaxCalls <- 4
\* Three after one nonce, one of the credentials wrong
Refused == INSTANCE MgoAuth WITH Creds <- Classic, Does <- {"login"}, MaxCalls <- 4, Kills <- FALSE
\* One session, in any order
Alone == INSTANCE MgoAuth WITH Creds <- Both

ASSUME InstancesAssumption ==
    /\ ActorsAssumption /\ LimitAssumption /\ Unlimited!LimitAssumption
    /\ CredsAssumption /\ BoundAssumption

AnyInit ==
    /\ instance \in {"socket", "pool", "unlimited", "logins", "refused", "alone"}
    /\ Init /\ PoolInit /\ AuthInit
    /\ instance # "socket" => nextRequestId = 0

\* These have no operation under way.
Rest(xs) == \A x \in xs : actor'[x] = actor[x]

OneUser == \E u \in Users : \A v \in Users \ {u} : pc[v] = "idle"

AnyNext ==
    /\ UNCHANGED instance
    /\ IF instance = "socket" THEN Next ELSE UNCHANGED vars
    /\ CASE instance = "pool"      -> PoolNext /\ reader'[k4] = "off"
         [] instance = "unlimited" -> Unlimited!PoolNext /\ OneUser' /\ ~closed'
         [] OTHER                  -> UNCHANGED poolVars
    /\ CASE instance = "logins"  -> Logins!AuthNext /\ Rest({g3})
         [] instance = "refused" -> Refused!AuthNext
         [] instance = "alone"   -> Alone!AuthNext /\ Rest({g2, g3}) /\ (calls' # calls => actor[g1].at = "idle")
         [] OTHER                -> UNCHANGED authVars

AnySpec == AnyInit /\ [][AnyNext]_<<instance, vars, poolVars, authVars>>

\* What the socket believes about its logins is how the server has it, whoever
\* else logs in meanwhile; logouts included, as long as nobody else does.
LoginsAgree == instance # "refused" => AuthAgrees

Symmetry == Permutations({k1, k2, k3}) \cup Permutations({u1, u2}) \cup Permutations(Calls \ Cursors)
=============================================================================
