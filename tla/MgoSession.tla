----------------------------- MODULE MgoSession -----------------------------
(***************************************************************************)
(* Sessions of the mgo driver and the sockets they reserve.  A session is  *)
(* used by several goroutines; its lock makes each of its methods one step *)
(* (acquireSocket keeps it while it waits for a new socket), and only the  *)
(* use of a socket, between acquireSocket and Release, is two.  Pools and  *)
(* the choice of a server are in MgoServer and MgoCluster: here a socket   *)
(* comes from the pool or is new, to a master or a slave, or to a server   *)
(* that was a master when it was chosen and is one no more when its socket *)
(* is taken: the lock of the cluster is released between the two.          *)
(***************************************************************************)
EXTENDS Integers, Sequences, FiniteSets, SequencesExt

CONSTANTS
    Sessions, First,    \* the first session is the one dialled
    Sockets,
    Goroutines,         \* each performs one operation at a time
    Creds,              \* credentials [source, user]
    DialCred,           \* the credential of the address that was dialled, or None
    Modes,              \* modes that SetMode sets
    Copies,             \* how sessions are made: New, Copy, Clone
    Logouts,            \* how they are logged out: "one" database or "all"
    MaxSteps,           \* bound on the operations and calls
    None

Sources == {c.source : c \in Creds}
Users == {c.user : c \in Creds}
SessionRecords ==
    [mode : {"Eventual", "Monotonic", "Strong"}, slaveOk : BOOLEAN,
     master : Sockets \cup {None}, slave : Sockets \cup {None},
     creds : Seq(Creds), family : Sessions, wrote : BOOLEAN]
SocketRecords ==
    [refs : Nat, role : {"master", "former", "slave"}, pooled : BOOLEAN, dead : BOOLEAN,
     auth : [Sources -> Users \cup {None}]]
OpRecords ==
    [kind : {"read", "write", "local"}, s : Sessions, sock : Sockets, cred : {None}]
    \cup [kind : {"login"}, s : Sessions, sock : Sockets, cred : Creds]

ASSUME SessionsAssumption ==
    /\ First \in Sessions /\ IsFiniteSet(Sessions) /\ IsFiniteSet(Goroutines)
ASSUME NoneAssumption == None \notin Sockets \cup SessionRecords \cup SocketRecords \cup OpRecords
ASSUME CredsAssumption == DialCred \in Creds \cup {None}
ASSUME ModesAssumption == Modes \subseteq {"Eventual", "Monotonic", "Strong"} /\ MaxSteps \in Nat

VARIABLES
    session,    \* None or [mode, slaveOk, master, slave, creds, family, wrote]
    socket,     \* None or [refs, role, pooled, dead, auth]; role: its server was a master when
                \* it was taken, or only when it was chosen ("former"), or a slave
    op,         \* the goroutines: None or [kind, s, sock, cred]; "local": a write to that database
    panicked,   \* "no", or over a "count", over a "slot" taken already, by a "former" master's too
    steps

vars == <<session, socket, op, panicked, steps>>

Dialled == IF DialCred = None THEN <<>> ELSE <<DialCred>>

\* DialWithInfo returns a strong session with nothing reserved.
Init ==
    /\ session = [s \in Sessions |->
          IF s # First THEN None
          ELSE [mode |-> "Strong", slaveOk |-> FALSE, master |-> None, slave |-> None,
                creds |-> Dialled, family |-> First, wrote |-> FALSE]]
    /\ socket = [k \in Sockets |-> None]
    /\ op = [g \in Goroutines |-> None]
    /\ panicked = "no" /\ steps = 0

Alive(s) == session[s] # None
Reserved(s) == {session[s].master, session[s].slave} \ {None}
Nobody == [x \in Sources |-> None]

Step == steps < MaxSteps /\ steps' = steps + 1

(***************************************************************************)
(* References                                                              *)
(***************************************************************************)

\* Acquire and Release of sockets in use, once for each of ks: no session has the
\* same socket reserved twice.  The last release logs out and puts the socket into
\* the pool.
Acquired(so, ks) ==
    [k \in Sockets |-> IF k \notin ks \/ so[k] = None THEN so[k]
                       ELSE [so[k] EXCEPT !.refs = @ + 1]]
Released(so, ks) ==
    [k \in Sockets |->
        IF k \notin ks THEN so[k]
        ELSE IF so[k].refs > 1 THEN [so[k] EXCEPT !.refs = @ - 1]
        ELSE [so[k] EXCEPT !.refs = 0, !.auth = Nobody, !.pooled = ~so[k].dead]]
Unbalanced(ks) == \E k \in ks : socket[k].refs < 1
CountPanic(ks) == IF Unbalanced(ks) THEN "count" ELSE panicked

\* unsetSocket, with what follows in Refresh or SetMode
Unset(v) == [v EXCEPT !.master = None, !.slave = None, !.wrote = FALSE]

(***************************************************************************)
(* acquireSocket                                                           *)
(***************************************************************************)

\* The socket that is reserved already for such an operation.
\* (_Slave: the slave's, whenever the operation allows it)
Ready_Slave(v, slaveOk) == IF v.slave # None /\ slaveOk THEN v.slave ELSE v.master
Ready(v, slaveOk) ==
    IF v.master # None THEN v.master
    ELSE IF v.slave # None /\ v.slaveOk /\ slaveOk THEN v.slave
    ELSE None

\* A socket of the pool, or a new one, to a server of the kind asked for.  What the
\* session is told of it was read after the choice: a sync may have come between.
Offers(slaveOk) ==
    {k \in Sockets : socket[k] = None \/ socket[k].pooled}
        \X {"master", IF slaveOk THEN "slave" ELSE "former"}

\* socketLogin: each credential of the session replaces that of its source.
\* (_First: only the first of a source does)
Login(v, of) ==
    [x \in Sources |-> IF of[x] = {} THEN None ELSE v.creds[CHOOSE i \in of[x] : TRUE].user]
Of(v, x) == {i \in DOMAIN v.creds : v.creds[i].source = x}
LoginAll_First(v) == Login(v, [x \in Sources |-> {i \in Of(v, x) : \A j \in Of(v, x) : i <= j}])
LoginAll(v) == Login(v, [x \in Sources |-> {i \in Of(v, x) : \A j \in Of(v, x) : j <= i}])

\* Whether the new socket stays with the session
Keeps(v) == v.mode # "Eventual" \/ v.slave # None

\* A monotonic session leaves the slaves when it first writes.
Switched(v, slaveOk) == IF ~slaveOk /\ v.mode = "Monotonic" THEN [v EXCEPT !.slaveOk = FALSE] ELSE v

\* setSocket finds the place of a socket of such a server taken.
SlotTaken(v, role) == Keeps(v) /\ (IF role = "master" THEN v.master ELSE v.slave) # None

\* acquireSocket, for a query, a write or a login.  When setSocket panics nothing more
\* is done: the program ends.
Begin(g) ==
    /\ op[g] = None /\ Step
    /\ \E s \in Sessions, kind \in {"read", "write", "local", "login"} : Alive(s) /\
          LET v == session[s]
              slaveOk == kind # "write"
              wrote   == v.wrote \/ (kind = "write" /\ v.mode # "Eventual")
              Use(k, c) == op' = [op EXCEPT ![g] = [kind |-> kind, s |-> s, sock |-> k, cred |-> c]]
          IN  \E c \in IF kind = "login" THEN Creds ELSE {None} :
                 \/ /\ Ready(v, slaveOk) # None
                    /\ socket' = Acquired(socket, {Ready(v, slaveOk)})
                    /\ session' = [session EXCEPT ![s].wrote = wrote]
                    /\ Use(Ready(v, slaveOk), c)
                    /\ UNCHANGED panicked
                 \/ /\ Ready(v, slaveOk) = None
                    /\ \E o \in Offers(slaveOk /\ v.slaveOk) :
                          LET k == o[1]
                              w == Switched([v EXCEPT !.wrote = wrote], slaveOk)
                              kept == IF o[2] = "master" THEN [w EXCEPT !.master = k]
                                      ELSE [w EXCEPT !.slave = k]
                          IN  IF SlotTaken(v, o[2])
                              THEN /\ panicked' = IF o[2] = "former" THEN "former" ELSE "slot"
                                   /\ UNCHANGED <<session, socket, op>>
                              ELSE /\ socket' = [socket EXCEPT ![k] =
                                          [refs |-> IF Keeps(v) THEN 2 ELSE 1, role |-> o[2],
                                           pooled |-> FALSE, dead |-> FALSE, auth |-> LoginAll(v)]]
                                   /\ session' = [session EXCEPT ![s] = IF Keeps(v) THEN kept ELSE w]
                                   /\ Use(k, c)
                                   /\ UNCHANGED panicked

\* The operation is over and releases its socket.  A login that succeeded is
\* noted by the session.
End(g) ==
    /\ op[g] # None
    /\ LET o == op[g]  k == o.sock  so == Released(socket, {k}) IN
       /\ panicked' = CountPanic({k})
       /\ IF o.kind = "login" /\ ~socket[k].dead
          THEN /\ socket' = Released([socket EXCEPT ![k].auth[o.cred.source] = o.cred.user], {k})
               /\ session' = IF Alive(o.s) THEN [session EXCEPT ![o.s].creds = Append(@, o.cred)] ELSE session
          ELSE socket' = so /\ UNCHANGED session
    /\ op' = [op EXCEPT ![g] = None]
    /\ UNCHANGED steps

(***************************************************************************)
(* Sessions                                                                *)
(***************************************************************************)

\* copySession acquires what it copies. (_Not: it does not)
CopyAcquires_Not(s) == socket
CopyAcquires(s) == Acquired(socket, Reserved(s))

\* New and Copy refresh the copy: what they acquired they release again.
Copy(s, t) ==
    /\ Alive(s) /\ session[t] = None /\ Step
    /\ \E how \in Copies :
          LET v == session[s]
              w == [v EXCEPT !.creds = IF how = "New" THEN Dialled ELSE @,
                             !.family = IF how = "Clone" THEN @ ELSE t]
          IN  IF how = "Clone"
              THEN session' = [session EXCEPT ![t] = w] /\ socket' = CopyAcquires(s)
              ELSE /\ session' = [session EXCEPT ![t] = [Unset(w) EXCEPT !.slaveOk = v.mode # "Strong"]]
                   /\ socket' = Released(CopyAcquires(s), Reserved(s))
    /\ UNCHANGED <<op, panicked>>

\* Close, when no operation of the session is under way
Close(s) ==
    /\ Alive(s) /\ Step /\ \A g \in Goroutines : op[g] # None => op[g].s # s
    /\ panicked' = CountPanic(Reserved(s))
    /\ socket' = Released(socket, Reserved(s))
    /\ session' = [session EXCEPT ![s] = None]
    /\ UNCHANGED op

Refresh(s) ==
    /\ Alive(s) /\ Step
    /\ panicked' = CountPanic(Reserved(s))
    /\ socket' = Released(socket, Reserved(s))
    /\ session' = [session EXCEPT ![s] = [Unset(@) EXCEPT !.slaveOk = session[s].mode # "Strong"]]
    /\ UNCHANGED op

\* SetMode without refresh; with it, it is followed by what Refresh does.
SlaveOkIn(v, mode) == IF mode = "Strong" THEN FALSE ELSE v.master = None \/ v.slaveOk

SetMode(s) ==
    /\ Alive(s) /\ Step
    /\ \E mode \in Modes \ {session[s].mode} :
          session' = [session EXCEPT ![s] = [@ EXCEPT !.mode = mode, !.slaveOk = SlaveOkIn(session[s], mode)]]
    /\ UNCHANGED <<socket, op, panicked>>

\* The sockets that session s has reserved, logged out of the sources xs
LoggedOut(s, xs) ==
    [k \in Sockets |-> IF k \in Reserved(s)
                       THEN [socket[k] EXCEPT !.auth = [x \in Sources |-> IF x \in xs THEN None ELSE @[x]]]
                       ELSE socket[k]]

\* Logout drops the first credential for the database.
Logout(s, x) ==
    /\ "one" \in Logouts /\ Alive(s) /\ Step
    /\ LET of == {i \in DOMAIN session[s].creds : session[s].creds[i].source = x} IN
       /\ of # {}
       /\ \E i \in of : (\A j \in of : i <= j) /\ session' = [session EXCEPT ![s].creds = RemoveAt(@, i)]
    /\ socket' = LoggedOut(s, {x})
    /\ UNCHANGED <<op, panicked>>

LogoutAll(s) ==
    /\ "all" \in Logouts /\ Alive(s) /\ Step /\ session[s].creds # <<>>
    /\ session' = [session EXCEPT ![s].creds = <<>>]
    /\ socket' = LoggedOut(s, {c.source : c \in ToSet(session[s].creds)})
    /\ UNCHANGED <<op, panicked>>

\* A socket dies: it leaves the pool, but is still counted.
Die(k) ==
    /\ socket[k] # None /\ ~socket[k].dead
    /\ socket' = [socket EXCEPT ![k] = [@ EXCEPT !.dead = TRUE, !.pooled = FALSE]]
    /\ UNCHANGED <<session, op, panicked, steps>>

Next == panicked = "no" /\
    \/ \E g \in Goroutines : Begin(g) \/ End(g)
    \/ \E s, t \in Sessions : Copy(s, t)
    \/ \E s \in Sessions : Close(s) \/ Refresh(s) \/ SetMode(s) \/ LogoutAll(s)
    \/ \E s \in Sessions, x \in Sources : Logout(s, x)
    \/ \E k \in Sockets : Die(k)

Spec == Init /\ [][Next]_vars

(***************************************************************************)
(* Properties                                                              *)
(***************************************************************************)

TypeOK ==
    /\ session \in [Sessions -> SessionRecords \cup {None}]
    /\ socket \in [Sockets -> SocketRecords \cup {None}]
    /\ op \in [Goroutines -> OpRecords \cup {None}]
    /\ panicked \in {"no", "count", "slot", "former"} /\ steps \in Nat

\* Every socket is counted by exactly those that hold it: the sessions that
\* reserve it and the operations that use it.  In the pool nobody holds it.
Reservers(k) == {s \in Sessions : Alive(s) /\ k \in Reserved(s)}
UsersOf(k) == {g \in Goroutines : op[g] # None /\ op[g].sock = k}
Holders(k) == Cardinality(Reservers(k)) + Cardinality(UsersOf(k))
RefsCounted ==
    \A k \in Sockets : socket[k] # None =>
        /\ socket[k].refs = Holders(k)
        /\ socket[k].pooled <=> (Holders(k) = 0 /\ ~socket[k].dead)

\* Acquire and Release do not panic, nor does setSocket, except over the socket of a
\* server that was a master when it was chosen.
NoPanic == panicked \in {"no", "former"}

\* Sessions have their connections for themselves: only clones share one.
Exclusive ==
    \A s, t \in Sessions :
        Alive(s) /\ Alive(t) /\ Reserved(s) \cap Reserved(t) # {} => session[s].family = session[t].family

\* Sockets are counted by exactly those that hold them, nothing panics unless a server
\* stopped being a master after it was chosen, and only clones share a reserved socket.
SocketsCounted == TypeOK /\ RefsCounted /\ NoPanic /\ Exclusive

\* What a strong or monotonic session has written its next operations see, and
\* those of its clones: until it is refreshed they go to a server that was a master
\* when it was chosen, and never to one chosen as a slave.  So do all operations of
\* a strong session, whatever it had reserved in another mode, and writes in any
\* mode, but for those to the database local.
Consistent(o, k) ==
    (session[o.s].wrote \/ session[o.s].mode = "Strong" \/ o.kind = "write") => k.role # "slave"
MasterKept ==
    [][\A g \in Goroutines : (op[g] = None /\ op'[g] # None) =>
          Consistent(op'[g], socket'[op'[g].sock])]_vars

\* While one goroutine uses it, a session that shares its sockets with no other
\* goes on over a socket that is logged in as its credentials say: the last for
\* each database counts, and the master's socket comes before the slave's.
Main(s) == IF session[s].master # None THEN session[s].master ELSE session[s].slave
LoggedInAs(auth, creds) ==
    \A x \in Sources :
        /\ (\A i \in DOMAIN creds : creds[i].source # x) => auth[x] = None
        /\ \A i \in DOMAIN creds :
              (creds[i].source = x /\ \A j \in DOMAIN creds : j > i => creds[j].source # x)
              => auth[x] = creds[i].user
LoggedIn ==
    \A s \in Sessions :
        Alive(s) /\ Main(s) # None /\ ~socket[Main(s)].dead =>
            LoggedInAs(socket[Main(s)].auth, session[s].creds)
=============================================================================
