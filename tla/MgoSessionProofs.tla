-------------------------- MODULE MgoSessionProofs --------------------------
(***************************************************************************)
(* Theorems about MgoSession: its sockets are counted by those that hold   *)
(* them, operations that must see the writes of their session go to the    *)
(* master, and sockets are logged in as the credentials of their session   *)
(* say.  For any number of sessions, goroutines and sockets.               *)
(***************************************************************************)
EXTENDS MgoSession, FiniteSetTheorems, SequenceTheorems, TLAPS

(***************************************************************************)
(* Records                                                                 *)
(***************************************************************************)

\* The sockets of a session's record, and how many hold a socket that is counted
Held(v) == {v.master, v.slave} \ {None}
Counted(r, n) == r.refs = n /\ (r.pooled <=> (n = 0 /\ ~r.dead))
One(b) == IF b THEN 1 ELSE 0

\* Two records of a socket that differ in who is logged in at most
Alike(r, q) == r.refs = q.refs /\ r.role = q.role /\ r.pooled = q.pooled /\ r.dead = q.dead

LEMMA SocketShape ==
  ASSUME NEW r \in SocketRecords
  PROVE  /\ r = [refs |-> r.refs, role |-> r.role, pooled |-> r.pooled, dead |-> r.dead, auth |-> r.auth]
         /\ r.refs \in Nat /\ r.role \in {"master", "former", "slave"} /\ r.pooled \in BOOLEAN /\ r.dead \in BOOLEAN
         /\ r.auth \in [Sources -> Users \cup {None}]
  BY DEF SocketRecords

LEMMA SocketFrom ==
  ASSUME NEW r, NEW n \in Nat, NEW m \in {"master", "former", "slave"}, NEW p \in BOOLEAN, NEW d \in BOOLEAN,
         NEW a \in [Sources -> Users \cup {None}],
         r = [refs |-> n, role |-> m, pooled |-> p, dead |-> d, auth |-> a]
  PROVE  r \in SocketRecords /\ r # None
  <1>1. r \in SocketRecords BY DEF SocketRecords
  <1> QED BY <1>1, NoneAssumption

LEMMA SessionFrom ==
  ASSUME NEW w, NEW mode \in {"Eventual", "Monotonic", "Strong"}, NEW ok \in BOOLEAN, NEW m \in Sockets \cup {None}, NEW l \in Sockets \cup {None},
         NEW cs \in Seq(Creds), NEW f \in Sessions, NEW b \in BOOLEAN,
         w = [mode |-> mode, slaveOk |-> ok, master |-> m, slave |-> l, creds |-> cs, family |-> f, wrote |-> b]
  PROVE  w \in SessionRecords /\ w # None
  <1>1. w \in SessionRecords BY DEF SessionRecords
  <1> QED BY <1>1, NoneAssumption

LEMMA SessionShape ==
  ASSUME NEW v \in SessionRecords
  PROVE  /\ v = [mode |-> v.mode, slaveOk |-> v.slaveOk, master |-> v.master, slave |-> v.slave,
                 creds |-> v.creds, family |-> v.family, wrote |-> v.wrote]
         /\ v.mode \in {"Eventual", "Monotonic", "Strong"} /\ v.slaveOk \in BOOLEAN
         /\ v.master \in Sockets \cup {None} /\ v.slave \in Sockets \cup {None}
         /\ v.creds \in Seq(Creds) /\ v.family \in Sessions /\ v.wrote \in BOOLEAN
  BY DEF SessionRecords

LEMMA Records == None \notin Sockets /\ None \notin SessionRecords /\ None \notin SocketRecords /\ None \notin OpRecords
  BY NoneAssumption

LEMMA AcquireOne ==
  ASSUME NEW so, NEW ks, NEW k \in Sockets, so[k] \in SocketRecords, k \in ks,
         NEW n \in Nat, n > 0, Counted(so[k], n)
  PROVE  LET r == Acquired(so, ks)[k] IN
         /\ r \in SocketRecords /\ r # None
         /\ Counted(r, n + 1) /\ r.role = so[k].role /\ r.dead = so[k].dead /\ r.auth = so[k].auth
  <1> DEFINE q == so[k]  r == Acquired(so, ks)[k]
  <1>1. r = [q EXCEPT !.refs = @ + 1] BY Records DEF Acquired
  <1>2. r = [refs |-> n + 1, role |-> q.role, pooled |-> q.pooled, dead |-> q.dead, auth |-> q.auth]
    BY <1>1, SocketShape DEF Counted
  <1>3. r \in SocketRecords /\ r # None BY <1>2, SocketFrom, SocketShape
  <1> QED BY <1>2, <1>3 DEF Counted

LEMMA ReleaseOne ==
  ASSUME NEW so, NEW ks, NEW k \in Sockets, so[k] \in SocketRecords, k \in ks,
         NEW n \in Nat, n > 0, Counted(so[k], n)
  PROVE  LET r == Released(so, ks)[k] IN
         /\ r \in SocketRecords /\ r # None
         /\ Counted(r, n - 1) /\ r.role = so[k].role /\ r.dead = so[k].dead
         /\ n > 1 => r.auth = so[k].auth
  <1> DEFINE q == so[k]  r == Released(so, ks)[k]
  <1>1. CASE n > 1
    <2>1. r = [q EXCEPT !.refs = @ - 1] BY <1>1 DEF Released, Counted
    <2>2. r = [refs |-> n - 1, role |-> q.role, pooled |-> q.pooled, dead |-> q.dead, auth |-> q.auth]
      BY <2>1, SocketShape DEF Counted
    <2>3. r \in SocketRecords /\ r # None BY <1>1, <2>2, SocketFrom, SocketShape
    <2> QED BY <1>1, <2>2, <2>3 DEF Counted
  <1>2. CASE n = 1
    <2>1. r = [q EXCEPT !.refs = 0, !.auth = Nobody, !.pooled = ~q.dead] BY <1>2 DEF Released, Counted
    <2>2. r = [refs |-> 0, role |-> q.role, pooled |-> ~q.dead, dead |-> q.dead, auth |-> Nobody]
      BY <2>1, SocketShape
    <2>3. Nobody \in [Sources -> Users \cup {None}] BY DEF Nobody
    <2>4. r \in SocketRecords /\ r # None
      <3>1. q.role \in {"master", "former", "slave"} /\ (~q.dead) \in BOOLEAN /\ q.dead \in BOOLEAN
        BY SocketShape
      <3> HIDE DEF q, r
      <3> QED BY <2>2, <2>3, <3>1, SocketFrom
    <2>5. r.refs = n - 1 /\ r.role = q.role /\ r.dead = q.dead /\ r.pooled = ~q.dead
      BY <1>2, <2>2
    <2>6. Counted(r, n - 1)
      <3> HIDE DEF q, r
      <3>1. (n - 1 = 0) = TRUE BY <1>2
      <3> QED BY <2>5, <3>1 DEF Counted
    <2> QED BY <1>2, <2>4, <2>5, <2>6
  <1> QED BY <1>1, <1>2, n = 1 \/ n > 1

(***************************************************************************)
(* Holders of a socket                                                     *)
(***************************************************************************)

\* A set in which one element was given a new place
LEMMA Recount ==
  ASSUME NEW S, IsFiniteSet(S), NEW x
  PROVE  /\ Cardinality((S \ {x}) \cup {x}) = Cardinality(S) - One(x \in S) + 1
         /\ Cardinality(S \ {x}) = Cardinality(S) - One(x \in S)
  <1>1. IsFiniteSet(S \ {x}) /\ Cardinality(S \ {x}) = Cardinality(S) - One(x \in S)
        /\ Cardinality(S) \in Nat
    BY FS_RemoveElement, FS_CardinalityType DEF One
  <1>2. Cardinality((S \ {x}) \cup {x}) = Cardinality(S \ {x}) + 1
    BY <1>1, FS_AddElement
  <1> QED BY <1>1, <1>2

LEMMA HoldersCount ==
  ASSUME NEW k
  PROVE  /\ IsFiniteSet(Reservers(k)) /\ IsFiniteSet(UsersOf(k))
         /\ Cardinality(Reservers(k)) \in Nat /\ Cardinality(UsersOf(k)) \in Nat
         /\ Holders(k) \in Nat
         /\ Reservers(k) # {} => Cardinality(Reservers(k)) > 0
         /\ UsersOf(k) # {} => Cardinality(UsersOf(k)) > 0
         /\ Holders(k) = 0 => Reservers(k) = {} /\ UsersOf(k) = {}
  <1>1. Reservers(k) \subseteq Sessions /\ UsersOf(k) \subseteq Goroutines BY DEF Reservers, UsersOf
  <1>2. IsFiniteSet(Reservers(k)) /\ IsFiniteSet(UsersOf(k)) BY <1>1, SessionsAssumption, FS_Subset
  <1>3. Cardinality(Reservers(k)) \in Nat /\ Cardinality(UsersOf(k)) \in Nat BY <1>2, FS_CardinalityType
  <1>4. /\ Cardinality(Reservers(k)) = 0 <=> Reservers(k) = {}
        /\ Cardinality(UsersOf(k)) = 0 <=> UsersOf(k) = {}
    BY <1>2, FS_EmptySet
  <1> QED BY <1>2, <1>3, <1>4 DEF Holders

\* One session's record changes.
LEMMA Reserving ==
  ASSUME TypeOK, NEW s \in Sessions, NEW w, session' = [session EXCEPT ![s] = w], NEW k \in Sockets
  PROVE  Cardinality(Reservers(k)') =
            Cardinality(Reservers(k)) - One(s \in Reservers(k)) + One(w # None /\ k \in Held(w))
  <1>1. CASE w # None /\ k \in Held(w)
    <2>1. Reservers(k)' = (Reservers(k) \ {s}) \cup {s}
      BY <1>1 DEF Reservers, Alive, Reserved, Held, TypeOK
    <2>2. Cardinality(Reservers(k)') = Cardinality(Reservers(k)) - One(s \in Reservers(k)) + 1
      BY <2>1, HoldersCount, Recount
    <2> QED BY <1>1, <2>2 DEF One
  <1>2. CASE ~(w # None /\ k \in Held(w))
    <2>1. Reservers(k)' = Reservers(k) \ {s}
      BY <1>2 DEF Reservers, Alive, Reserved, Held, TypeOK
    <2>2. Cardinality(Reservers(k)') = Cardinality(Reservers(k)) - One(s \in Reservers(k))
      BY <2>1, HoldersCount, Recount
    <2>3. Cardinality(Reservers(k)) \in Nat BY HoldersCount
    <2> QED BY <1>2, <2>2, <2>3 DEF One
  <1> QED BY <1>1, <1>2

\* One goroutine begins or ends an operation.
LEMMA Using ==
  ASSUME TypeOK, NEW g \in Goroutines, NEW o, op' = [op EXCEPT ![g] = o], NEW k \in Sockets
  PROVE  Cardinality(UsersOf(k)') =
            Cardinality(UsersOf(k)) - One(g \in UsersOf(k)) + One(o # None /\ o.sock = k)
  <1>1. CASE o # None /\ o.sock = k
    <2>1. UsersOf(k)' = (UsersOf(k) \ {g}) \cup {g} BY <1>1 DEF UsersOf, TypeOK
    <2>2. Cardinality(UsersOf(k)') = Cardinality(UsersOf(k)) - One(g \in UsersOf(k)) + 1
      BY <2>1, HoldersCount, Recount
    <2> QED BY <1>1, <2>2 DEF One
  <1>2. CASE ~(o # None /\ o.sock = k)
    <2>1. UsersOf(k)' = UsersOf(k) \ {g} BY <1>2 DEF UsersOf, TypeOK
    <2>2. Cardinality(UsersOf(k)') = Cardinality(UsersOf(k)) - One(g \in UsersOf(k))
      BY <2>1, HoldersCount, Recount
    <2>3. Cardinality(UsersOf(k)) \in Nat BY HoldersCount
    <2> QED BY <1>2, <2>2, <2>3 DEF One
  <1> QED BY <1>1, <1>2

(***************************************************************************)
(* The invariant                                                           *)
(***************************************************************************)

\* A session reserves a master's socket as its master and a slave's as its slave;
\* a session is not closed under its operations.
Placed ==
    \A s \in Sessions : Alive(s) =>
        LET v == session[s] IN
        /\ v.master # None => socket[v.master] # None /\ socket[v.master].role = "master"
        /\ v.slave # None => socket[v.slave] # None /\ socket[v.slave].role # "master"
OpsHold == \A g \in Goroutines : op[g] # None => Alive(op[g].s) /\ socket[op[g].sock] # None

\* Strong sessions do not go to slaves; a session that has written keeps a socket to the
\* master, or to one that stopped being it.
Sure(v, so) == v.master # None \/ (v.slave # None /\ so[v.slave].role = "former")
Committed ==
    \A s \in Sessions : Alive(s) =>
        LET v == session[s] IN
        /\ v.mode = "Strong" => ~v.slaveOk
        /\ v.wrote => Sure(v, socket)

Holding == Placed /\ OpsHold /\ RefsCounted /\ Exclusive
Inv == TypeOK /\ Holding /\ Committed /\ NoPanic

\* The sockets that sessions have reserved as slaves' keep their role.
RolesKept ==
    \A s \in Sessions : Alive(s) /\ session[s].slave # None =>
        socket'[session[s].slave].role = socket[session[s].slave].role

LEMMA RolesStay ==
  ASSUME TypeOK, Placed,
         \A k \in Sockets : socket[k] # None => socket'[k] # None /\ socket'[k].role = socket[k].role
  PROVE  RolesKept
  <1> SUFFICES ASSUME NEW s \in Sessions, Alive(s), session[s].slave # None
               PROVE  socket'[session[s].slave].role = socket[session[s].slave].role
    BY DEF RolesKept
  <1>1. session[s] \in SessionRecords BY DEF Alive, TypeOK
  <1>2. session[s].slave \in Sockets /\ socket[session[s].slave] # None BY <1>1 DEF SessionRecords, Placed
  <1> QED BY <1>2

LEMMA ReservedIn ==
  ASSUME TypeOK, Placed, NEW s \in Sessions, Alive(s)
  PROVE  /\ Reserved(s) = Held(session[s]) /\ session[s] \in SessionRecords
         /\ \A k \in Reserved(s) : k \in Sockets /\ socket[k] \in SocketRecords /\ s \in Reservers(k)
  BY DEF Reserved, Held, Alive, TypeOK, SessionRecords, Placed, Reservers

\* What somebody holds is counted, and not in the pool.
LEMMA HeldIsCounted ==
  ASSUME TypeOK, RefsCounted, NEW k \in Sockets, socket[k] # None,
         Reservers(k) # {} \/ UsersOf(k) # {}
  PROVE  /\ Counted(socket[k], Holders(k)) /\ Holders(k) > 0 /\ Holders(k) \in Nat
         /\ ~socket[k].pooled /\ socket[k].refs > 0
  <1>1. Counted(socket[k], Holders(k)) BY DEF RefsCounted, Counted
  <1>2. Holders(k) > 0 /\ Holders(k) \in Nat BY HoldersCount DEF Holders
  <1>3. Holders(k) # 0 BY <1>2
  <1> QED BY <1>1, <1>2, <1>3 DEF Counted

(***************************************************************************)
(* Steps that change who holds what                                        *)
(***************************************************************************)

Typed ==
    /\ session \in [Sessions -> SessionRecords \cup {None}]
    /\ socket \in [Sockets -> SocketRecords \cup {None}]
    /\ op \in [Goroutines -> OpRecords \cup {None}]

\* The counts are right again when every socket has as many holders more or less
\* as its count has moved.
LEMMA CountsMove ==
  ASSUME \A k \in Sockets : socket'[k] # None => Counted(socket'[k], Holders(k)')
  PROVE  RefsCounted'
  BY DEF RefsCounted, Counted

LEMMA SameUsers ==
  ASSUME op' = op, NEW k PROVE UsersOf(k)' = UsersOf(k)
  BY DEF UsersOf

\* A session gives up what it had reserved: it is refreshed or closed.
LEMMA GivesUp ==
  ASSUME TypeOK, Holding, NEW s \in Sessions, Alive(s), NEW w,
         w = None \/ (w \in SessionRecords /\ Held(w) = {}),
         w = None => \A g \in Goroutines : op[g] # None => op[g].s # s,
         session' = [session EXCEPT ![s] = w], socket' = Released(socket, Reserved(s)), op' = op
  PROVE  Typed' /\ Holding' /\ ~Unbalanced(Reserved(s)) /\ RolesKept
  <1> USE DEF Holding
  <1>1. ASSUME NEW k \in Reserved(s)
        PROVE  /\ k \in Sockets /\ socket[k] \in SocketRecords /\ s \in Reservers(k)
               /\ Counted(socket[k], Holders(k)) /\ Holders(k) \in Nat /\ Holders(k) > 0 /\ socket[k].refs > 0
    <2>1. k \in Sockets /\ socket[k] \in SocketRecords /\ s \in Reservers(k) BY <1>1, ReservedIn
    <2>2. socket[k] # None /\ Reservers(k) # {} BY <2>1, Records
    <2> QED BY <2>1, <2>2, HeldIsCounted
  <1>2. ASSUME NEW k \in Reserved(s)
        PROVE  /\ socket'[k] \in SocketRecords /\ socket'[k] # None
               /\ Counted(socket'[k], Holders(k) - 1)
               /\ socket'[k].role = socket[k].role
    BY <1>1, <1>2, ReleaseOne
  <1>3. ASSUME NEW k \in Sockets \ Reserved(s) PROVE socket'[k] = socket[k]
    BY <1>3 DEF Released
  <1>4. ASSUME NEW k \in Sockets
        PROVE  Holders(k)' = IF k \in Reserved(s) THEN Holders(k) - 1 ELSE Holders(k)
    <2>1. Cardinality(Reservers(k)') = Cardinality(Reservers(k)) - One(s \in Reservers(k)) + One(w # None /\ k \in Held(w))
      BY Reserving
    <2>2. ~(w # None /\ k \in Held(w)) OBVIOUS
    <2>3. s \in Reservers(k) <=> k \in Reserved(s) BY DEF Reservers
    <2>4. UsersOf(k)' = UsersOf(k) BY SameUsers
    <2> QED BY <2>1, <2>2, <2>3, <2>4, HoldersCount DEF Holders, One
  <1>5. \A k \in Sockets : socket'[k] # None => Counted(socket'[k], Holders(k)')
    BY <1>2, <1>3, <1>4 DEF RefsCounted, Counted
  <1>6. Typed'
    <2>1. \A k \in Sockets : socket'[k] \in SocketRecords \cup {None} BY <1>2, <1>3 DEF TypeOK
    <2>2. socket' \in [Sockets -> SocketRecords \cup {None}] BY <2>1 DEF Released
    <2> QED BY <2>2 DEF Typed, TypeOK
  <1>7. /\ \A t \in Sessions \ {s} : session'[t] = session[t]
        /\ session'[s] = w
    BY DEF TypeOK
  <1>8. \A k \in Sockets : socket[k] # None => socket'[k] # None /\ socket'[k].role = socket[k].role
    BY <1>2, <1>3
  <1>9. Placed'
    <2>1. ASSUME NEW t \in Sessions, Alive(t)', t # s
          PROVE  LET v == session'[t] IN
                 /\ v.master # None => socket'[v.master] # None /\ socket'[v.master].role = "master"
                 /\ v.slave # None => socket'[v.slave] # None /\ socket'[v.slave].role # "master"
      BY <1>7, <1>8, <2>1, SessionShape DEF Placed, Alive, TypeOK
    <2>2. w # None => w.master = None /\ w.slave = None BY DEF Held
    <2> QED BY <1>7, <2>1, <2>2 DEF Placed, Alive
  <1>10. OpsHold'
    <2>1. ASSUME NEW g \in Goroutines, op[g] # None
          PROVE  op[g].s \in Sessions /\ op[g].sock \in Sockets
      BY <2>1 DEF TypeOK, OpRecords
    <2> QED BY <1>7, <1>8, <2>1 DEF OpsHold, Alive
  <1>11. Exclusive'
    <2>1. w # None => Held(w) = {} BY Records
    <2> QED BY <1>7, <2>1 DEF Exclusive, Alive, Reserved, Held
  <1>12. ~Unbalanced(Reserved(s)) BY <1>1, ReservedIn DEF Unbalanced, SocketRecords
  <1>13. RolesKept BY <1>8, RolesStay
  <1> QED BY <1>5, <1>6, <1>9, <1>10, <1>11, <1>12, <1>13, CountsMove

\* Nobody begins or ends to hold a socket, though sockets may die and be logged out.
LEMMA Undisturbed ==
  ASSUME TypeOK, Holding, Typed', op' = op,
         \A s \in Sessions : /\ session'[s] = None <=> session[s] = None
                             /\ Alive(s) => /\ session'[s].master = session[s].master
                                            /\ session'[s].slave = session[s].slave
                                            /\ session'[s].family = session[s].family,
         \A k \in Sockets : /\ socket'[k] = None <=> socket[k] = None
                            /\ socket[k] # None =>
                                  /\ socket'[k].refs = socket[k].refs
                                  /\ socket'[k].role = socket[k].role
                                  /\ \/ socket'[k].pooled = socket[k].pooled /\ socket'[k].dead = socket[k].dead
                                     \/ ~socket'[k].pooled /\ socket'[k].dead
  PROVE  Holding' /\ RolesKept
  <1> USE DEF Holding
  <1>1. ASSUME NEW k \in Sockets PROVE Holders(k)' = Holders(k)
    <2>1. Reservers(k)' = Reservers(k) BY DEF Reservers, Alive, Reserved
    <2> QED BY <2>1, SameUsers DEF Holders
  <1>2. \A k \in Sockets : socket'[k] # None => Counted(socket'[k], Holders(k)')
    <2> SUFFICES ASSUME NEW k \in Sockets, socket'[k] # None PROVE Counted(socket'[k], Holders(k))
      BY <1>1
    <2>1. Counted(socket[k], Holders(k)) BY DEF RefsCounted, Counted
    <2> QED BY <2>1 DEF Counted
  <1>3. Placed'
    <2> SUFFICES ASSUME NEW s \in Sessions, Alive(s)'
                 PROVE  LET v == session'[s] IN
                        /\ v.master # None => socket'[v.master] # None /\ socket'[v.master].role = "master"
                        /\ v.slave # None => socket'[v.slave] # None /\ socket'[v.slave].role # "master"
      BY DEF Placed
    <2>1. session[s] \in SessionRecords /\ Alive(s) BY DEF Alive, TypeOK
    <2> QED BY <2>1, SessionShape DEF Placed, Alive
  <1>4. OpsHold'
    <2>1. ASSUME NEW g \in Goroutines, op[g] # None
          PROVE  op[g].s \in Sessions /\ op[g].sock \in Sockets
      BY <2>1 DEF TypeOK, OpRecords
    <2> QED BY <2>1 DEF OpsHold, Alive
  <1>5. Exclusive' BY DEF Exclusive, Alive, Reserved
  <1>6. RolesKept BY RolesStay
  <1> QED BY <1>2, <1>3, <1>4, <1>5, <1>6, CountsMove

\* A clone holds the sockets of its session too.
LEMMA Shares ==
  ASSUME TypeOK, Holding, NEW s \in Sessions, NEW t \in Sessions, Alive(s), session[t] = None,
         NEW w \in SessionRecords, w.master = session[s].master, w.slave = session[s].slave,
         w.family = session[s].family,
         session' = [session EXCEPT ![t] = w], socket' = Acquired(socket, Reserved(s)), op' = op
  PROVE  Typed' /\ Holding' /\ RolesKept
  <1> USE DEF Holding
  <1>0. w # None BY Records
  <1>1. ASSUME NEW k \in Reserved(s)
        PROVE  /\ k \in Sockets /\ socket[k] \in SocketRecords /\ socket[k] # None
               /\ Counted(socket[k], Holders(k)) /\ Holders(k) \in Nat /\ Holders(k) > 0
    <2>1. k \in Sockets /\ socket[k] \in SocketRecords /\ s \in Reservers(k) BY <1>1, ReservedIn
    <2>2. socket[k] # None /\ Reservers(k) # {} BY <2>1, Records
    <2> QED BY <2>1, <2>2, HeldIsCounted
  <1>2. ASSUME NEW k \in Reserved(s)
        PROVE  /\ socket'[k] \in SocketRecords /\ socket'[k] # None
               /\ Counted(socket'[k], Holders(k) + 1)
               /\ socket'[k].role = socket[k].role
    BY <1>1, <1>2, AcquireOne
  <1>3. ASSUME NEW k \in Sockets \ Reserved(s) PROVE socket'[k] = socket[k]
    BY <1>3 DEF Acquired
  <1>4. ASSUME NEW k \in Sockets
        PROVE  Holders(k)' = IF k \in Reserved(s) THEN Holders(k) + 1 ELSE Holders(k)
    <2>1. Cardinality(Reservers(k)') = Cardinality(Reservers(k)) - One(t \in Reservers(k)) + One(w # None /\ k \in Held(w))
      BY Reserving
    <2>2. (w # None /\ k \in Held(w)) <=> k \in Reserved(s) BY <1>0 DEF Held, Reserved
    <2>3. t \notin Reservers(k) BY DEF Reservers, Alive
    <2>4. UsersOf(k)' = UsersOf(k) BY SameUsers
    <2> QED BY <2>1, <2>2, <2>3, <2>4, HoldersCount DEF Holders, One
  <1>5. \A k \in Sockets : socket'[k] # None => Counted(socket'[k], Holders(k)')
    BY <1>2, <1>3, <1>4 DEF RefsCounted, Counted
  <1>6. Typed'
    <2>1. \A k \in Sockets : socket'[k] \in SocketRecords \cup {None} BY <1>2, <1>3 DEF TypeOK
    <2>2. socket' \in [Sockets -> SocketRecords \cup {None}] BY <2>1 DEF Acquired
    <2> QED BY <2>2 DEF Typed, TypeOK
  <1>7. /\ \A x \in Sessions \ {t} : session'[x] = session[x]
        /\ session'[t] = w
    BY DEF TypeOK
  <1>8. \A k \in Sockets : socket[k] # None => socket'[k] # None /\ socket'[k].role = socket[k].role
    BY <1>2, <1>3
  <1>9. Placed'
    <2>1. ASSUME NEW x \in Sessions, Alive(x), NEW v, v.master = session[x].master, v.slave = session[x].slave
          PROVE  /\ v.master # None => socket'[v.master] # None /\ socket'[v.master].role = "master"
                 /\ v.slave # None => socket'[v.slave] # None /\ socket'[v.slave].role # "master"
      <3>1. session[x] \in SessionRecords BY <2>1 DEF Alive, TypeOK
      <3>2. v.master \in Sockets \cup {None} /\ v.slave \in Sockets \cup {None} BY <2>1, <3>1, SessionShape
      <3> QED BY <1>8, <2>1, <3>2 DEF Placed
    <2> QED BY <1>7, <2>1 DEF Placed, Alive
  <1>10. OpsHold'
    <2>1. ASSUME NEW g \in Goroutines, op[g] # None
          PROVE  op[g].s \in Sessions /\ op[g].sock \in Sockets
      BY <2>1 DEF TypeOK, OpRecords
    <2> QED BY <1>0, <1>7, <1>8, <2>1 DEF OpsHold, Alive
  <1>11. Exclusive'
    <2>1. Reserved(t)' = Reserved(s) BY <1>7 DEF Reserved
    <2>2. \A x \in Sessions \ {t} : Reserved(x)' = Reserved(x) BY <1>7 DEF Reserved
    <2> DEFINE origin(x) == IF x = t THEN s ELSE x
    <2>3. ASSUME NEW x \in Sessions, Alive(x)'
          PROVE  /\ origin(x) \in Sessions /\ Alive(origin(x))
                 /\ Reserved(x)' = Reserved(origin(x)) /\ session'[x].family = session[origin(x)].family
      BY <1>7, <2>1, <2>2, <2>3 DEF Alive
    <2>4. SUFFICES ASSUME NEW x \in Sessions, NEW y \in Sessions, Alive(x)', Alive(y)',
                          Reserved(x)' \cap Reserved(y)' # {}
                   PROVE  session'[x].family = session'[y].family
      BY DEF Exclusive
    <2> HIDE DEF origin
    <2>5. Reserved(origin(x)) \cap Reserved(origin(y)) # {} BY <2>3, <2>4
    <2>6. session[origin(x)].family = session[origin(y)].family BY <2>3, <2>4, <2>5 DEF Exclusive
    <2> QED BY <2>3, <2>4, <2>6
  <1>12. RolesKept BY <1>8, RolesStay
  <1> QED BY <1>5, <1>6, <1>9, <1>10, <1>11, <1>12, CountsMove

LEMMA OpShape ==
  ASSUME NEW o \in OpRecords
  PROVE  /\ o # None /\ o.s \in Sessions /\ o.sock \in Sockets /\ o.kind \in {"read", "write", "local", "login"}
         /\ o.kind = "login" => o.cred \in Creds
  BY Records DEF OpRecords

\* The records of all sessions keep their sockets and their family.
SameSessions ==
    \A s \in Sessions :
        /\ session'[s] = None <=> session[s] = None
        /\ Alive(s) => /\ session'[s].master = session[s].master
                       /\ session'[s].slave = session[s].slave
                       /\ session'[s].family = session[s].family

LEMMA SameReservers ==
  ASSUME SameSessions, NEW k PROVE Reservers(k)' = Reservers(k)
  BY DEF SameSessions, Reservers, Alive, Reserved

\* When no socket changes its kind, sessions stay where they are.
LEMMA PlacedStill ==
  ASSUME TypeOK, Placed, Exclusive, SameSessions,
         \A k \in Sockets : socket[k] # None => socket'[k] # None /\ socket'[k].role = socket[k].role
  PROVE  Placed' /\ Exclusive'
  <1>1. Placed'
    <2> SUFFICES ASSUME NEW s \in Sessions, Alive(s)'
                 PROVE  LET v == session'[s] IN
                        /\ v.master # None => socket'[v.master] # None /\ socket'[v.master].role = "master"
                        /\ v.slave # None => socket'[v.slave] # None /\ socket'[v.slave].role # "master"
      BY DEF Placed
    <2>1. session[s] \in SessionRecords /\ Alive(s) BY DEF Alive, TypeOK, SameSessions
    <2> QED BY <2>1, SessionShape DEF Placed, Alive, SameSessions
  <1>2. Exclusive' BY DEF Exclusive, Alive, Reserved, SameSessions
  <1> QED BY <1>1, <1>2

\* An operation takes a socket that its session has reserved.
LEMMA TakesUp ==
  ASSUME TypeOK, Holding, NEW g \in Goroutines, op[g] = None, NEW s \in Sessions, Alive(s),
         NEW k \in Reserved(s), NEW o \in OpRecords, o.s = s, o.sock = k,
         session' \in [Sessions -> SessionRecords \cup {None}], SameSessions,
         socket' = Acquired(socket, {k}), op' = [op EXCEPT ![g] = o]
  PROVE  Typed' /\ Holding' /\ RolesKept
  <1> USE DEF Holding
  <1>1. k \in Sockets /\ socket[k] \in SocketRecords /\ s \in Reservers(k) BY ReservedIn
  <1>2. /\ socket[k] # None /\ Counted(socket[k], Holders(k)) /\ Holders(k) \in Nat /\ Holders(k) > 0
    <2>1. socket[k] # None /\ Reservers(k) # {} BY <1>1, Records
    <2> QED BY <1>1, <2>1, HeldIsCounted
  <1>3. /\ socket'[k] \in SocketRecords /\ socket'[k] # None
        /\ Counted(socket'[k], Holders(k) + 1) /\ socket'[k].role = socket[k].role
    BY <1>1, <1>2, AcquireOne
  <1>4. \A j \in Sockets \ {k} : socket'[j] = socket[j] BY DEF Acquired
  <1>5. ASSUME NEW j \in Sockets
        PROVE  Holders(j)' = IF j = k THEN Holders(j) + 1 ELSE Holders(j)
    <2>1. Cardinality(UsersOf(j)') = Cardinality(UsersOf(j)) - One(g \in UsersOf(j)) + One(o # None /\ o.sock = j)
      BY Using
    <2>2. g \notin UsersOf(j) BY DEF UsersOf
    <2>3. o # None BY OpShape
    <2>4. Reservers(j)' = Reservers(j) BY SameReservers
    <2> QED BY <2>1, <2>2, <2>3, <2>4, HoldersCount DEF Holders, One
  <1>6. \A j \in Sockets : socket'[j] # None => Counted(socket'[j], Holders(j)')
    BY <1>3, <1>4, <1>5 DEF RefsCounted, Counted
  <1>7. Typed'
    <2>1. \A j \in Sockets : socket'[j] \in SocketRecords \cup {None} BY <1>3, <1>4 DEF TypeOK
    <2>2. socket' \in [Sockets -> SocketRecords \cup {None}] BY <2>1 DEF Acquired
    <2> QED BY <2>2 DEF Typed, TypeOK
  <1>8. \A j \in Sockets : socket[j] # None => socket'[j] # None /\ socket'[j].role = socket[j].role
    BY <1>3, <1>4
  <1>9. Placed' /\ Exclusive' BY <1>8, PlacedStill
  <1>10. OpsHold'
    <2>1. ASSUME NEW h \in Goroutines \ {g}, op[h] # None
          PROVE  op[h].s \in Sessions /\ op[h].sock \in Sockets
      BY <2>1 DEF TypeOK, OpRecords
    <2>2. op'[g] = o /\ \A h \in Goroutines \ {g} : op'[h] = op[h] BY DEF TypeOK
    <2>3. \A x \in Sessions : Alive(x) => Alive(x)' BY DEF Alive, SameSessions
    <2>4. socket'[o.sock] # None /\ Alive(o.s)' BY <1>3, <2>3
    <2> QED BY <1>8, <2>1, <2>2, <2>3, <2>4 DEF OpsHold
  <1>11. RolesKept BY <1>8, RolesStay
  <1> QED BY <1>6, <1>7, <1>9, <1>10, <1>11, CountsMove

\* An operation ends; a login may have changed who is logged in.
LEMMA PutsDown ==
  ASSUME TypeOK, Holding, NEW g \in Goroutines, op[g] # None,
         NEW so \in [Sockets -> SocketRecords \cup {None}],
         \A j \in Sockets : /\ so[j] = None <=> socket[j] = None
                            /\ so[j] # None => Alike(so[j], socket[j]),
         session' \in [Sessions -> SessionRecords \cup {None}], SameSessions,
         socket' = Released(so, {op[g].sock}), op' = [op EXCEPT ![g] = None]
  PROVE  Typed' /\ Holding' /\ ~Unbalanced({op[g].sock}) /\ RolesKept
  <1> USE DEF Holding
  <1> DEFINE k == op[g].sock
  <1>1. k \in Sockets /\ g \in UsersOf(k) /\ socket[k] # None
    BY OpShape DEF TypeOK, UsersOf, OpsHold
  <1>2. /\ Counted(socket[k], Holders(k)) /\ Holders(k) \in Nat /\ Holders(k) > 0 /\ socket[k].refs > 0
    BY <1>1, HeldIsCounted
  <1>3. so[k] \in SocketRecords /\ Counted(so[k], Holders(k)) /\ so[k].role = socket[k].role
    BY <1>1, <1>2 DEF Alike, Counted
  <1>4. /\ socket'[k] \in SocketRecords /\ socket'[k] # None
        /\ Counted(socket'[k], Holders(k) - 1) /\ socket'[k].role = socket[k].role
    <2>1. socket'[k] = Released(so, {k})[k] OBVIOUS
    <2> HIDE DEF k
    <2> QED BY <1>1, <1>2, <1>3, <2>1, ReleaseOne
  <1>5. \A j \in Sockets \ {k} : socket'[j] = so[j] BY DEF Released
  <1>6. ASSUME NEW j \in Sockets
        PROVE  Holders(j)' = IF j = k THEN Holders(j) - 1 ELSE Holders(j)
    <2>1. Cardinality(UsersOf(j)') = Cardinality(UsersOf(j)) - One(g \in UsersOf(j)) + One(None # None /\ None.sock = j)
      BY Using
    <2>2. g \in UsersOf(j) <=> j = k BY DEF UsersOf
    <2>3. Reservers(j)' = Reservers(j) BY SameReservers
    <2> QED BY <2>1, <2>2, <2>3, HoldersCount DEF Holders, One
  <1>7. \A j \in Sockets : socket'[j] # None => Counted(socket'[j], Holders(j)')
    <2>1. ASSUME NEW j \in Sockets \ {k}, so[j] # None PROVE Counted(so[j], Holders(j))
      BY <2>1 DEF RefsCounted, Counted, Alike
    <2> QED BY <1>4, <1>5, <1>6, <2>1
  <1>8. Typed'
    <2>1. \A j \in Sockets : socket'[j] \in SocketRecords \cup {None} BY <1>4, <1>5
    <2>2. socket' \in [Sockets -> SocketRecords \cup {None}] BY <2>1 DEF Released
    <2> QED BY <2>2 DEF Typed, TypeOK
  <1>9. \A j \in Sockets : socket[j] # None => socket'[j] # None /\ socket'[j].role = socket[j].role
    BY <1>4, <1>5 DEF Alike
  <1>10. Placed' /\ Exclusive' BY <1>9, PlacedStill
  <1>11. OpsHold'
    <2>1. ASSUME NEW h \in Goroutines \ {g}, op[h] # None
          PROVE  op[h].s \in Sessions /\ op[h].sock \in Sockets
      BY <2>1 DEF TypeOK, OpRecords
    <2>2. op'[g] = None /\ \A h \in Goroutines \ {g} : op'[h] = op[h] BY DEF TypeOK
    <2>3. \A x \in Sessions : Alive(x) => Alive(x)' BY DEF Alive, SameSessions
    <2>4. ASSUME NEW h \in Goroutines, op'[h] # None
          PROVE  (Alive(op[h].s) /\ socket[op[h].sock] # None)'
      <3>1. h # g /\ op'[h] = op[h] BY <2>2, <2>4
      <3>2. Alive(op[h].s) /\ socket[op[h].sock] # None BY <2>4, <3>1 DEF OpsHold
      <3>3. session'[op[h].s] # None /\ socket'[op[h].sock] # None
        BY <1>9, <2>1, <2>3, <2>4, <3>1, <3>2 DEF Alive
      <3> QED BY <3>1, <3>3 DEF Alive
    <2> QED BY <2>4 DEF OpsHold
  <1>12. ~Unbalanced({k}) BY <1>1, <1>2 DEF Unbalanced, Counted
  <1>13. RolesKept BY <1>9, RolesStay
  <1> QED BY <1>7, <1>8, <1>10, <1>11, <1>12, <1>13, CountsMove

\* Nobody holds a socket of the pool, or one that is not open yet.
LEMMA OfferedIsFree ==
  ASSUME TypeOK, Holding, NEW k \in Sockets, socket[k] = None \/ socket[k].pooled
  PROVE  /\ Reservers(k) = {} /\ UsersOf(k) = {} /\ Holders(k) = 0
         /\ \A s \in Sessions : Alive(s) => session[s].master # k /\ session[s].slave # k
         /\ \A g \in Goroutines : op[g] # None => op[g].sock # k
  <1> USE DEF Holding
  <1>1. Reservers(k) = {} /\ UsersOf(k) = {}
    <2>1. CASE socket[k] = None
      <3>1. \A s \in Sessions : Alive(s) => session[s].master # k /\ session[s].slave # k
        BY <2>1, Records DEF Placed
      <3>2. \A g \in Goroutines : op[g] # None => op[g].sock # k BY <2>1 DEF OpsHold
      <3> QED BY <3>1, <3>2 DEF Reservers, UsersOf, Reserved
    <2>2. CASE socket[k] # None /\ socket[k].pooled
      <3>1. Holders(k) = 0 BY <2>2 DEF RefsCounted
      <3> QED BY <3>1, HoldersCount
    <2> QED BY <2>1, <2>2
  <1>2. Cardinality({}) = 0 BY FS_EmptySet
  <1>3. Holders(k) = 0 BY <1>1, <1>2 DEF Holders
  <1>4. /\ \A s \in Sessions : Alive(s) => session[s].master # k /\ session[s].slave # k
        /\ \A g \in Goroutines : op[g] # None => op[g].sock # k
    BY <1>1, Records DEF Reservers, UsersOf, Reserved
  <1> QED BY <1>1, <1>3, <1>4

\* An operation takes a socket of the pool or a new one, and its session may keep it.
LEMMA TakesNew ==
  ASSUME TypeOK, Holding, NEW g \in Goroutines, op[g] = None, NEW s \in Sessions, Alive(s),
         NEW k \in Sockets, socket[k] = None \/ socket[k].pooled, NEW keep \in BOOLEAN, NEW m \in BOOLEAN,
         NEW w \in SessionRecords, w.family = session[s].family,
         w.master = (IF keep /\ m THEN k ELSE session[s].master),
         w.slave = (IF keep /\ ~m THEN k ELSE session[s].slave),
         NEW q \in SocketRecords, q.refs = (IF keep THEN 2 ELSE 1), ~q.pooled, (q.role = "master") = m,
         NEW o \in OpRecords, o.s = s, o.sock = k,
         keep => (IF m THEN session[s].master ELSE session[s].slave) = None,
         session' = [session EXCEPT ![s] = w], socket' = [socket EXCEPT ![k] = q],
         op' = [op EXCEPT ![g] = o]
  PROVE  Typed' /\ Holding' /\ RolesKept
  <1> USE DEF Holding
  <1>1. /\ Reservers(k) = {} /\ UsersOf(k) = {} /\ Holders(k) = 0
        /\ \A x \in Sessions : Alive(x) => session[x].master # k /\ session[x].slave # k
        /\ \A h \in Goroutines : op[h] # None => op[h].sock # k
    BY OfferedIsFree
  <1>2. q # None /\ w # None /\ o # None BY Records
  <1>3. /\ session'[s] = w /\ \A x \in Sessions \ {s} : session'[x] = session[x]
        /\ socket'[k] = q /\ \A j \in Sockets \ {k} : socket'[j] = socket[j]
        /\ op'[g] = o /\ \A h \in Goroutines \ {g} : op'[h] = op[h]
    BY DEF TypeOK
  <1>4. Held(w) = Reserved(s) \cup (IF keep THEN {k} ELSE {})
    BY Records DEF Held, Reserved
  <1>5. ASSUME NEW j \in Sockets
        PROVE  Holders(j)' = Holders(j) + (IF j = k THEN q.refs ELSE 0)
    <2>1. Cardinality(Reservers(j)') = Cardinality(Reservers(j)) - One(s \in Reservers(j)) + One(w # None /\ j \in Held(w))
      BY Reserving
    <2>2. Cardinality(UsersOf(j)') = Cardinality(UsersOf(j)) - One(g \in UsersOf(j)) + One(o # None /\ o.sock = j)
      BY Using
    <2>3. g \notin UsersOf(j) BY DEF UsersOf
    <2>4. s \in Reservers(j) <=> j \in Reserved(s) BY DEF Reservers
    <2>5. CASE j = k
      <3>1. s \notin Reservers(j) /\ (j \in Held(w) <=> keep) BY <1>1, <1>4, <2>4, <2>5
      <3> QED BY <1>2, <2>1, <2>2, <2>3, <2>5, <3>1, HoldersCount DEF Holders, One
    <2>6. CASE j # k
      <3>1. j \in Held(w) <=> s \in Reservers(j) BY <1>4, <2>4, <2>6
      <3> QED BY <1>2, <2>1, <2>2, <2>3, <2>6, <3>1, HoldersCount DEF Holders, One
    <2> QED BY <2>5, <2>6
  <1>6. \A j \in Sockets : socket'[j] # None => Counted(socket'[j], Holders(j)')
    <2>1. ASSUME NEW j \in Sockets \ {k}, socket'[j] # None PROVE Counted(socket'[j], Holders(j)')
      <3>1. Holders(j)' = Holders(j) BY <1>5, HoldersCount
      <3> QED BY <1>3, <2>1, <3>1 DEF RefsCounted, Counted
    <2>2. Counted(socket'[k], Holders(k)')
      <3>1. Holders(k)' = q.refs /\ q.refs # 0 BY <1>1, <1>5
      <3> QED BY <1>3, <3>1 DEF Counted
    <2> QED BY <2>1, <2>2
  <1>7. Typed' BY DEF TypeOK, Typed
  <1>8. \A j \in Sockets : socket[j] # None /\ j # k => socket'[j] # None /\ socket'[j].role = socket[j].role
    BY <1>3
  <1>9. Placed'
    <2>1. ASSUME NEW x \in Sessions, Alive(x)
          PROVE  LET v == session[x] IN
                 /\ v.master # None => v.master # k /\ socket'[v.master] # None /\ socket'[v.master].role = "master"
                 /\ v.slave # None => v.slave # k /\ socket'[v.slave] # None /\ socket'[v.slave].role # "master"
      <3>1. session[x] \in SessionRecords BY <2>1 DEF Alive, TypeOK
      <3>2. session[x].master \in Sockets \cup {None} /\ session[x].slave \in Sockets \cup {None}
        BY <3>1, SessionShape
      <3> QED BY <1>1, <1>8, <2>1, <3>2 DEF Placed
    <2>2. /\ w.master # None => socket'[w.master] # None /\ socket'[w.master].role = "master"
          /\ w.slave # None => socket'[w.slave] # None /\ socket'[w.slave].role # "master"
      BY <1>2, <1>3, <2>1
    <2> QED BY <1>3, <2>1, <2>2 DEF Placed, Alive
  <1>10. OpsHold'
    <2>1. ASSUME NEW h \in Goroutines, op'[h] # None
          PROVE  (Alive(op[h].s) /\ socket[op[h].sock] # None)'
      <3>1. CASE h = g BY <1>2, <1>3, <3>1 DEF Alive
      <3>2. CASE h # g
        <4>1. op[h].s \in Sessions /\ op[h].sock \in Sockets /\ op'[h] = op[h]
          BY <1>3, <2>1, <3>2, OpShape DEF TypeOK
        <4>2. session[op[h].s] # None /\ socket[op[h].sock] # None
          BY <2>1, <4>1 DEF OpsHold, Alive
        <4> QED BY <1>1, <1>2, <1>3, <1>8, <2>1, <4>1, <4>2 DEF Alive
      <3> QED BY <3>1, <3>2
    <2> QED BY <2>1 DEF OpsHold
  <1>11. Exclusive'
    <2> SUFFICES ASSUME NEW x \in Sessions, NEW y \in Sessions, Alive(x)', Alive(y)',
                        Reserved(x)' \cap Reserved(y)' # {}
                 PROVE  session'[x].family = session'[y].family
      BY DEF Exclusive
    <2>1. ASSUME NEW z \in Sessions, Alive(z)'
          PROVE  /\ Alive(z) /\ session'[z].family = session[z].family /\ k \notin Reserved(z)
                 /\ Reserved(z)' \subseteq Reserved(z) \cup {k}
                 /\ k \in Reserved(z)' => z = s
      <3>1. CASE z = s
        <4>1. Reserved(z)' = Held(w) BY <1>3, <3>1 DEF Reserved, Held
        <4> QED BY <1>1, <1>3, <1>4, <3>1, <4>1 DEF Reserved
      <3>2. CASE z # s
        BY <1>1, <1>3, <2>1, <3>2 DEF Reserved, Alive
      <3> QED BY <3>1, <3>2
    <2>2. CASE k \in Reserved(x)' /\ k \in Reserved(y)' BY <2>1, <2>2
    <2>3. CASE ~(k \in Reserved(x)' /\ k \in Reserved(y)')
      <3>1. Reserved(x) \cap Reserved(y) # {} BY <2>1, <2>3
      <3> QED BY <2>1, <3>1 DEF Exclusive
    <2> QED BY <2>2, <2>3
  <1>12. RolesKept
    <2> SUFFICES ASSUME NEW x \in Sessions, Alive(x), session[x].slave # None
                 PROVE  socket'[session[x].slave].role = socket[session[x].slave].role
      BY DEF RolesKept
    <2>1. session[x] \in SessionRecords BY DEF Alive, TypeOK
    <2>2. session[x].slave \in Sockets \ {k} BY <1>1, <2>1, SessionShape
    <2> QED BY <1>3, <2>2
  <1> QED BY <1>6, <1>7, <1>9, <1>10, <1>11, <1>12, CountsMove

(***************************************************************************)
(* Operations                                                              *)
(***************************************************************************)

\* Who is logged in is one user of each source or nobody.
LEMMA LoginAllType ==
  ASSUME NEW v \in SessionRecords
  PROVE  LoginAll(v) \in [Sources -> Users \cup {None}]
  <1>1. v.creds \in Seq(Creds) BY SessionShape
  <1>2. \A i \in DOMAIN v.creds : v.creds[i] \in Creds BY <1>1
  <1>3. ASSUME NEW x \in Sources, NEW S, S \subseteq DOMAIN v.creds, S # {}
        PROVE  v.creds[CHOOSE i \in S : TRUE].user \in Users
    <2>1. (CHOOSE i \in S : TRUE) \in S BY <1>3
    <2> QED BY <1>2, <1>3, <2>1 DEF Users
  <1> DEFINE of == [x \in Sources |-> {i \in Of(v, x) : \A j \in Of(v, x) : j <= i}]
  <1>4. \A x \in Sources : of[x] \subseteq DOMAIN v.creds BY DEF Of
  <1> HIDE DEF of
  <1>5. Login(v, of) \in [Sources -> Users \cup {None}] BY <1>3, <1>4 DEF Login
  <1> QED BY <1>5 DEF LoginAll, of

\* The socket that is ready is reserved, and a write's is the master's.
LEMMA ReadyIsReserved ==
  ASSUME TypeOK, Holding, NEW s \in Sessions, Alive(s), NEW ok \in BOOLEAN,
         Ready(session[s], ok) # None
  PROVE  /\ Ready(session[s], ok) \in Reserved(s)
         /\ session[s].master # None \/ ~ok \/ ~session[s].slaveOk
               => Ready(session[s], ok) = session[s].master /\ socket[session[s].master].role = "master"
  <1>1. Placed BY DEF Holding
  <1>2. session[s] \in SessionRecords BY DEF Alive, TypeOK
  <1> QED BY <1>1, <1>2 DEF Ready, Reserved, Placed

MasterStep ==
    \A g \in Goroutines : (op[g] = None /\ op'[g] # None) =>
        Consistent(op'[g], socket'[op'[g].sock])

LEMMA NewSession ==
  ASSUME NEW v \in SessionRecords, NEW b \in BOOLEAN, NEW ok \in BOOLEAN
  PROVE  LET w == Switched([v EXCEPT !.wrote = b], ok) IN
         /\ w \in SessionRecords /\ w # None
         /\ w.mode = v.mode /\ w.master = v.master /\ w.slave = v.slave /\ w.family = v.family
         /\ w.creds = v.creds /\ w.wrote = b /\ (w.slaveOk => v.slaveOk)
  <1> DEFINE u == [v EXCEPT !.wrote = b]  w == Switched(u, ok)
  <1>1. u = [mode |-> v.mode, slaveOk |-> v.slaveOk, master |-> v.master, slave |-> v.slave,
             creds |-> v.creds, family |-> v.family, wrote |-> b]
    BY SessionShape
  <1>2. u \in SessionRecords /\ u # None BY <1>1, SessionShape, SessionFrom
  <1>3. CASE ~ok /\ u.mode = "Monotonic"
    <2>1. w = [u EXCEPT !.slaveOk = FALSE] BY <1>3 DEF Switched
    <2>2. w = [mode |-> v.mode, slaveOk |-> FALSE, master |-> v.master, slave |-> v.slave,
               creds |-> v.creds, family |-> v.family, wrote |-> b]
      BY <1>1, <2>1
    <2>3. w \in SessionRecords
      <3> HIDE DEF w, u
      <3> QED BY <2>2, SessionShape DEF SessionRecords
    <2>4. w # None BY <2>3, Records
    <2> QED BY <2>2, <2>3, <2>4
  <1>4. CASE ~(~ok /\ u.mode = "Monotonic")
    <2>1. w = u BY <1>4 DEF Switched
    <2> QED BY <1>1, <1>2, <2>1
  <1> QED BY <1>3, <1>4

\* An operation as Begin notes it
LEMMA OpFrom ==
  ASSUME NEW kind \in {"read", "write", "local", "login"}, NEW s \in Sessions, NEW k \in Sockets,
         NEW c \in IF kind = "login" THEN Creds ELSE {None}
  PROVE  [kind |-> kind, s |-> s, sock |-> k, cred |-> c] \in OpRecords
  BY DEF OpRecords

LEMMA MasterStepOf ==
  ASSUME TypeOK, NEW g \in Goroutines, NEW o, op' = [op EXCEPT ![g] = o], Consistent(o, socket'[o.sock])
  PROVE  MasterStep
  <1>1. op'[g] = o /\ \A h \in Goroutines \ {g} : op'[h] = op[h] BY DEF TypeOK
  <1> QED BY <1>1 DEF MasterStep

\* Nothing panics: what is left of the invariant
LEMMA CalmStep ==
  ASSUME TypeOK, Typed', Step \/ UNCHANGED steps, panicked' \in {"no", "former"}
  PROVE  TypeOK' /\ NoPanic'
  <1>1. steps' \in Nat BY DEF TypeOK, Step
  <1> QED BY <1>1 DEF TypeOK, Typed, NoPanic

\* The session's record after an operation has begun
LEMMA CommittedStill ==
  ASSUME TypeOK, Committed, RolesKept, NEW s \in Sessions, NEW w, session' = [session EXCEPT ![s] = w],
         w # None => (w.mode = "Strong" => ~w.slaveOk) /\ (w.wrote => Sure(w, socket'))
  PROVE  Committed'
  <1>1. session'[s] = w /\ \A x \in Sessions \ {s} : session'[x] = session[x] BY DEF TypeOK
  <1>2. ASSUME NEW x \in Sessions \ {s}, session'[x] # None
        PROVE  /\ session'[x].mode = "Strong" => ~session'[x].slaveOk
               /\ session'[x].wrote => Sure(session'[x], socket')
    <2>1. Alive(x) /\ session'[x] = session[x] BY <1>1, <1>2 DEF Alive
    <2>2. Sure(session[x], socket) => Sure(session'[x], socket') BY <2>1 DEF Sure, RolesKept
    <2> QED BY <2>1, <2>2 DEF Committed
  <1>3. ASSUME w # None
        PROVE  /\ session'[s].mode = "Strong" => ~session'[s].slaveOk
               /\ session'[s].wrote => Sure(session'[s], socket')
    BY <1>1, <1>3 DEF Sure
  <1> QED BY <1>1, <1>2, <1>3 DEF Committed, Alive

LEMMA SameCommitted ==
  ASSUME session' = session
  PROVE  (Committed /\ RolesKept => Committed') /\ SameSessions
  <1>1. \A x \in Sessions : Alive(x) /\ RolesKept /\ Sure(session[x], socket) => Sure(session'[x], socket')
    BY DEF Sure, RolesKept
  <1> QED BY <1>1 DEF Committed, SameSessions, Alive

LEMMA NoneBegins ==
  ASSUME TypeOK, op' = op \/ \E g \in Goroutines : op' = [op EXCEPT ![g] = None]
  PROVE  MasterStep
  BY DEF MasterStep, TypeOK

\* What Begin does when a socket is ready
TakesReady(g, s, kind, c, k) ==
    /\ Inv /\ op[g] = None /\ Step /\ Alive(s)
    /\ c \in IF kind = "login" THEN Creds ELSE {None}
    /\ k = Ready(session[s], kind # "write") /\ k # None
    /\ socket' = Acquired(socket, {k})
    /\ session' = [session EXCEPT ![s].wrote =
          session[s].wrote \/ (kind = "write" /\ session[s].mode # "Eventual")]
    /\ op' = [op EXCEPT ![g] = [kind |-> kind, s |-> s, sock |-> k, cred |-> c]]
    /\ UNCHANGED panicked

LEMMA BeginReady ==
  ASSUME NEW g \in Goroutines, NEW s \in Sessions, NEW kind \in {"read", "write", "local", "login"}, NEW c, NEW k,
         TakesReady(g, s, kind, c, k)
  PROVE  Inv' /\ MasterStep
  <1> USE DEF TakesReady
  <1> USE DEF Inv
  <1> DEFINE v == session[s]
             o == [kind |-> kind, s |-> s, sock |-> k, cred |-> c]
  <1>1. v \in SessionRecords BY DEF Alive, TypeOK
  <1>2. PICK b \in BOOLEAN : b = (v.wrote \/ (kind = "write" /\ v.mode # "Eventual")) OBVIOUS
  <1> DEFINE w == [v EXCEPT !.wrote = b]
  <1>3. session' = [session EXCEPT ![s] = w] BY <1>2
  <1>4. w = [mode |-> v.mode, slaveOk |-> v.slaveOk, master |-> v.master, slave |-> v.slave,
             creds |-> v.creds, family |-> v.family, wrote |-> b]
    BY <1>1, SessionShape
  <1>5. w \in SessionRecords /\ w # None BY <1>1, <1>4, SessionShape, SessionFrom
  <1>6. k \in Reserved(s) /\ k \in Sockets
    BY ReadyIsReserved, ReservedIn DEF Holding
  <1>7. o \in OpRecords BY <1>6, OpFrom
  <1>8. SameSessions /\ session' \in [Sessions -> SessionRecords \cup {None}]
    <2>1. session'[s] = w /\ \A x \in Sessions \ {s} : session'[x] = session[x] BY <1>3 DEF TypeOK
    <2>2. SameSessions BY <1>4, <1>5, <2>1 DEF SameSessions, Alive
    <2> QED BY <1>3, <1>5, <2>2 DEF TypeOK
  <1>9. Typed' /\ Holding' /\ RolesKept BY <1>6, <1>7, <1>8, TakesUp
  <1>10. TypeOK' /\ NoPanic'
    <2>1. panicked' \in {"no", "former"} BY DEF NoPanic
    <2> QED BY <1>9, <2>1, CalmStep
  <1>11. v.master # None \/ kind = "write" \/ ~v.slaveOk => k = v.master /\ socket[v.master].role = "master"
    <2>1. PICK ok \in BOOLEAN : ok = (kind # "write") OBVIOUS
    <2>2. k = Ready(v, ok) /\ Holding BY <2>1
    <2>3. v.master # None \/ ~ok \/ ~v.slaveOk => k = v.master /\ socket[v.master].role = "master"
      BY <2>2, ReadyIsReserved
    <2> QED BY <2>1, <2>3
  <1>12. Committed'
    <2>1. w.master = v.master /\ w.slave = v.slave /\ w.wrote = b BY <1>4
    <2>2. w.wrote => Sure(v, socket) BY <1>2, <1>11, <2>1 DEF Committed, Sure
    <2>3. Sure(v, socket) => Sure(w, socket') BY <1>9, <2>1 DEF Sure, RolesKept
    <2>4. w.mode = "Strong" => ~w.slaveOk BY <1>4 DEF Committed
    <2> HIDE DEF w
    <2> QED BY <1>3, <1>9, <2>2, <2>3, <2>4, CommittedStill
  <1>13. MasterStep
    <2>1. Consistent(o, socket'[o.sock])
      <3>1. v.wrote \/ v.mode = "Strong" \/ kind = "write" => socket[k].role # "slave"
        <4>1. CASE v.master # None \/ kind = "write" \/ ~v.slaveOk BY <1>11, <4>1
        <4>2. CASE v.master = None /\ kind # "write" /\ v.slaveOk
          <5>1. k = v.slave BY <1>6, <4>2 DEF Reserved
          <5> QED BY <4>2, <5>1 DEF Committed, Sure
        <4> QED BY <4>1, <4>2
      <3>2. socket'[k].role = socket[k].role
        <4>1. socket[k] \in SocketRecords /\ s \in Reservers(k) BY <1>6, ReservedIn DEF Holding
        <4>2. socket[k] # None /\ Reservers(k) # {} BY <4>1, Records
        <4>3. Counted(socket[k], Holders(k)) /\ Holders(k) > 0 /\ Holders(k) \in Nat
          BY <1>6, <4>2, HeldIsCounted DEF Holding
        <4> QED BY <1>6, <4>1, <4>3, AcquireOne
      <3> QED BY <3>1, <3>2 DEF Consistent
    <2> QED BY <2>1, MasterStepOf
  <1> QED BY <1>9, <1>10, <1>12, <1>13

LEMMA KeptRecord ==
  ASSUME NEW w, NEW a, NEW b, NEW c, NEW d, NEW e, NEW f, NEW h, NEW k,
         w = [mode |-> a, slaveOk |-> b, master |-> c, slave |-> d, creds |-> e, family |-> f, wrote |-> h]
  PROVE  /\ [w EXCEPT !.master = k] =
               [mode |-> a, slaveOk |-> b, master |-> k, slave |-> d, creds |-> e, family |-> f, wrote |-> h]
         /\ [w EXCEPT !.slave = k] =
               [mode |-> a, slaveOk |-> b, master |-> c, slave |-> k, creds |-> e, family |-> f, wrote |-> h]
  OBVIOUS

LEMMA KeptSession ==
  ASSUME NEW v \in SessionRecords, NEW w \in SessionRecords, NEW k, NEW m \in BOOLEAN, NEW keep \in BOOLEAN,
         NEW b, w.mode = v.mode, w.master = v.master, w.slave = v.slave, w.family = v.family,
         w.creds = v.creds, w.wrote = b
  PROVE  (IF ~keep THEN w ELSE IF m THEN [w EXCEPT !.master = k] ELSE [w EXCEPT !.slave = k]) =
            [mode |-> v.mode, slaveOk |-> w.slaveOk, master |-> IF keep /\ m THEN k ELSE v.master,
             slave |-> IF keep /\ ~m THEN k ELSE v.slave, creds |-> v.creds, family |-> v.family, wrote |-> b]
  <1> DEFINE u == IF ~keep THEN w ELSE IF m THEN [w EXCEPT !.master = k] ELSE [w EXCEPT !.slave = k]
  <1>1. w = [mode |-> v.mode, slaveOk |-> w.slaveOk, master |-> v.master, slave |-> v.slave,
             creds |-> v.creds, family |-> v.family, wrote |-> b]
    <2>1. w = [mode |-> w.mode, slaveOk |-> w.slaveOk, master |-> w.master, slave |-> w.slave,
               creds |-> w.creds, family |-> w.family, wrote |-> w.wrote]
      BY SessionShape
    <2> QED BY <2>1
  <1>2. CASE keep /\ m
    <2>1. u = [w EXCEPT !.master = k] BY ONLY <1>2
    <2>2. u = [mode |-> v.mode, slaveOk |-> w.slaveOk, master |-> k, slave |-> v.slave,
               creds |-> v.creds, family |-> v.family, wrote |-> b]
      BY ONLY <1>1, <2>1, KeptRecord
    <2> HIDE DEF u
    <2>3. u = [mode |-> v.mode, slaveOk |-> w.slaveOk, master |-> IF keep /\ m THEN k ELSE v.master,
               slave |-> IF keep /\ ~m THEN k ELSE v.slave, creds |-> v.creds, family |-> v.family, wrote |-> b]
      BY ONLY <1>2, <2>2
    <2> QED BY <2>3 DEF u
  <1>3. CASE keep /\ ~m
    <2>1. u = [w EXCEPT !.slave = k] BY ONLY <1>3
    <2>2. u = [mode |-> v.mode, slaveOk |-> w.slaveOk, master |-> v.master, slave |-> k,
               creds |-> v.creds, family |-> v.family, wrote |-> b]
      BY ONLY <1>1, <2>1, KeptRecord
    <2> HIDE DEF u
    <2>3. u = [mode |-> v.mode, slaveOk |-> w.slaveOk, master |-> IF keep /\ m THEN k ELSE v.master,
               slave |-> IF keep /\ ~m THEN k ELSE v.slave, creds |-> v.creds, family |-> v.family, wrote |-> b]
      BY ONLY <1>3, <2>2
    <2> QED BY <2>3 DEF u
  <1>4. CASE ~keep
    <2>1. u = w BY ONLY <1>4
    <2> HIDE DEF u
    <2>2. u = [mode |-> v.mode, slaveOk |-> w.slaveOk, master |-> IF keep /\ m THEN k ELSE v.master,
               slave |-> IF keep /\ ~m THEN k ELSE v.slave, creds |-> v.creds, family |-> v.family, wrote |-> b]
      BY ONLY <1>1, <1>4, <2>1
    <2> QED BY <2>2 DEF u
  <1> QED BY <1>2, <1>3, <1>4

\* What Begin does when no socket is ready, and when the place for the new one is taken
TakesOther(g, s, kind, c, ok, b, k, role, m, keep, w) ==
    /\ Inv /\ op[g] = None /\ Step /\ Alive(s)
    /\ c \in IF kind = "login" THEN Creds ELSE {None}
    /\ ok <=> kind # "write"
    /\ Ready(session[s], ok) = None
    /\ b <=> session[s].wrote \/ (kind = "write" /\ session[s].mode # "Eventual")
    /\ role \in {"master", IF ok /\ session[s].slaveOk THEN "slave" ELSE "former"}
    /\ m <=> role = "master"
    /\ keep => (IF m THEN session[s].master ELSE session[s].slave) = None
    /\ socket[k] = None \/ socket[k].pooled
    /\ keep <=> Keeps(session[s])
    /\ w = Switched([session[s] EXCEPT !.wrote = b], ok)
    /\ socket' = [socket EXCEPT ![k] = [refs |-> IF keep THEN 2 ELSE 1, role |-> role,
                                        pooled |-> FALSE, dead |-> FALSE, auth |-> LoginAll(session[s])]]
    /\ session' = [session EXCEPT ![s] =
          IF ~keep THEN w ELSE IF m THEN [w EXCEPT !.master = k] ELSE [w EXCEPT !.slave = k]]
    /\ UNCHANGED panicked
    /\ op' = [op EXCEPT ![g] = [kind |-> kind, s |-> s, sock |-> k, cred |-> c]]
TakesNone == Inv /\ Step /\ panicked' = "former" /\ UNCHANGED <<session, socket, op>>

LEMMA BeginPanics ==
  ASSUME TakesNone
  PROVE  Inv' /\ MasterStep
  <1> USE DEF TakesNone, Inv
  <1>1. Typed' BY DEF Typed, TypeOK
  <1>2. TypeOK' /\ NoPanic' BY <1>1, CalmStep
  <1>3. Holding' /\ RolesKept BY <1>1, Undisturbed
  <1>4. Committed' BY <1>3, SameCommitted
  <1> QED BY <1>2, <1>3, <1>4, NoneBegins

LEMMA BeginNew ==
  ASSUME NEW g \in Goroutines, NEW s \in Sessions, NEW kind \in {"read", "write", "local", "login"}, NEW c,
         NEW ok \in BOOLEAN, NEW b \in BOOLEAN, NEW k \in Sockets, NEW role, NEW m \in BOOLEAN,
         NEW keep \in BOOLEAN, NEW w, TakesOther(g, s, kind, c, ok, b, k, role, m, keep, w)
  PROVE  Inv' /\ MasterStep
  <1> USE DEF TakesOther
  <1> USE DEF Inv
  <1> DEFINE v == session[s]
             o == [kind |-> kind, s |-> s, sock |-> k, cred |-> c]
             q == [refs |-> IF keep THEN 2 ELSE 1, role |-> role,
                   pooled |-> FALSE, dead |-> FALSE, auth |-> LoginAll(v)]
             u == IF ~keep THEN w ELSE IF m THEN [w EXCEPT !.master = k] ELSE [w EXCEPT !.slave = k]
  <1>1. v \in SessionRecords BY DEF Alive, TypeOK
  <1>2. /\ w \in SessionRecords /\ w # None
        /\ w.mode = v.mode /\ w.master = v.master /\ w.slave = v.slave /\ w.family = v.family
        /\ w.creds = v.creds /\ w.wrote = b /\ (w.slaveOk => v.slaveOk)
    BY <1>1, NewSession
  <1>3. u = [mode |-> v.mode, slaveOk |-> w.slaveOk, master |-> IF keep /\ m THEN k ELSE v.master,
             slave |-> IF keep /\ ~m THEN k ELSE v.slave, creds |-> v.creds, family |-> v.family, wrote |-> b]
    BY ONLY <1>1, <1>2, KeptSession
  <1>4. u \in SessionRecords /\ u # None
    <2>1. w.slaveOk \in BOOLEAN BY <1>2, SessionShape
    <2>2. (IF keep /\ m THEN k ELSE v.master) \in Sockets \cup {None}
          /\ (IF keep /\ ~m THEN k ELSE v.slave) \in Sockets \cup {None}
      BY <1>1, SessionShape
    <2> HIDE DEF u
    <2> QED BY <1>1, <1>3, <2>1, <2>2, SessionShape, SessionFrom
  <1>5. q \in SocketRecords
    <2>1. LoginAll(v) \in [Sources -> Users \cup {None}] BY <1>1, LoginAllType
    <2>2. role \in {"master", "former", "slave"} OBVIOUS
    <2>3. (IF keep THEN 2 ELSE 1) \in Nat OBVIOUS
    <2> QED BY <2>1, <2>2, <2>3, SocketFrom
  <1>6. o \in OpRecords BY OpFrom
  <1>7. v.master = None BY Records, <1>1, SessionShape DEF Ready
  <1>8. Typed' /\ Holding' /\ RolesKept
    <2>1. u.family = v.family /\ u.master = (IF keep /\ m THEN k ELSE v.master)
          /\ u.slave = (IF keep /\ ~m THEN k ELSE v.slave)
      <3> HIDE DEF u
      <3> QED BY <1>3
    <2>2. q.refs = (IF keep THEN 2 ELSE 1) /\ ~q.pooled /\ (m <=> q.role = "master") OBVIOUS
    <2>3. keep => (IF m THEN v.master ELSE v.slave) = None OBVIOUS
    <2>4. socket[k] = None \/ socket[k].pooled OBVIOUS
    <2>5. session' = [session EXCEPT ![s] = u] /\ socket' = [socket EXCEPT ![k] = q]
          /\ op' = [op EXCEPT ![g] = o] /\ o.s = s /\ o.sock = k
      OBVIOUS
    <2>6. TypeOK /\ Holding /\ op[g] = None /\ Alive(s) /\ g \in Goroutines /\ s \in Sessions
          /\ k \in Sockets /\ keep \in BOOLEAN /\ m \in BOOLEAN
      OBVIOUS
    <2> HIDE DEF u, q, o
    <2> QED BY ONLY <1>4, <1>5, <1>6, <2>1, <2>2, <2>3, <2>4, <2>5, <2>6, TakesNew
  <1>9. TypeOK' /\ NoPanic'
    <2>1. panicked' \in {"no", "former"} BY DEF NoPanic
    <2> QED BY <1>8, <2>1, CalmStep
  <1>10. Committed'
    <2>0. socket'[k].role = role BY DEF TypeOK
    <2>1. u.wrote => Sure(u, socket')
      <3>1. u.wrote = b /\ u.master = (IF keep /\ m THEN k ELSE v.master)
            /\ u.slave = (IF keep /\ ~m THEN k ELSE v.slave)
        <4> HIDE DEF u
        <4> QED BY <1>3
      <3> HIDE DEF u
      <3>2. CASE b /\ ~v.wrote
        <4>1. keep /\ (m \/ role = "former") BY <3>2 DEF Keeps
        <4> QED BY <2>0, <3>1, <4>1, Records DEF Sure
      <3>3. CASE v.wrote
        <4>1. v.slave # None /\ socket[v.slave].role = "former" BY <1>7, <3>3 DEF Committed, Sure
        <4>2. socket'[v.slave].role = "former" BY <1>8, <4>1 DEF RolesKept
        <4>3. ~(keep /\ ~m) BY <4>1
        <4>4. u.slave = v.slave BY <3>1, <4>3
        <4> QED BY <4>1, <4>2, <4>4 DEF Sure
      <3> QED BY <3>1, <3>2, <3>3
    <2>2. u.mode = "Strong" => ~u.slaveOk
      <3> HIDE DEF u
      <3> QED BY <1>2, <1>3 DEF Committed
    <2>3. session' = [session EXCEPT ![s] = u] /\ TypeOK /\ Committed /\ RolesKept /\ s \in Sessions
      BY <1>8
    <2> HIDE DEF u
    <2> QED BY ONLY <2>1, <2>2, <2>3, CommittedStill
  <1>11. MasterStep
    <2>1. v.wrote \/ v.mode = "Strong" \/ kind = "write" => role # "slave"
      <3>1. v.wrote /\ ok /\ v.slaveOk => FALSE
        <4>1. v.wrote => v.slave # None BY <1>7 DEF Committed, Sure
        <4> QED BY <1>1, <1>7, <4>1, SessionShape DEF Ready
      <3> QED BY <3>1 DEF Committed
    <2>2. socket'[k].role = role BY DEF TypeOK
    <2>3. Consistent(o, socket'[o.sock]) BY <2>1, <2>2 DEF Consistent
    <2> QED BY <2>3, MasterStepOf
  <1> QED BY <1>8, <1>9, <1>10, <1>11

LEMMA BeginIs ==
  ASSUME Inv, NEW g \in Goroutines, Begin(g)
  PROVE  \/ \E s \in Sessions, kind \in {"read", "write", "local", "login"} :
               \E c, k : TakesReady(g, s, kind, c, k)
         \/ \E s \in Sessions, kind \in {"read", "write", "local", "login"}, ok \in BOOLEAN, b \in BOOLEAN,
               k \in Sockets, m \in BOOLEAN, keep \in BOOLEAN :
               \E c, role, w : TakesOther(g, s, kind, c, ok, b, k, role, m, keep, w)
         \/ TakesNone
  <1>1. op[g] = None /\ Step BY DEF Begin
  <1>2. PICK s \in Sessions, kind \in {"read", "write", "local", "login"} :
           /\ Alive(s)
           /\ LET v == session[s]
                  slaveOk == kind # "write"
                  wrote   == v.wrote \/ (kind = "write" /\ v.mode # "Eventual")
                  Use(k, c) == op' = [op EXCEPT ![g] = [kind |-> kind, s |-> s, sock |-> k, cred |-> c]]
              IN  \E c \in IF kind = "login" THEN Creds ELSE {None} :
                     \/ /\ Ready(v, slaveOk) # None
                        /\ socket' = Acquired(socket, {Ready(v, slaveOk)})
                        /\ session' = [session EXCEPT ![s].wrote = wrote]
                        /\ Use(Ready(v, slaveOk), c)
                        /\ UNCHANGED panicked
                     \/ /\ Ready(v, slaveOk) = None
                        /\ \E o \in Offers(slaveOk /\ v.slaveOk) :
                              LET k == o[1]
                                  w == Switched([v EXCEPT !.wrote = wrote], slaveOk)
                                  kept == IF o[2] = "master" THEN [w EXCEPT !.master = k]
                                          ELSE [w EXCEPT !.slave = k]
                              IN  IF SlotTaken(v, o[2])
                                  THEN /\ panicked' = IF o[2] = "former" THEN "former" ELSE "slot"
                                       /\ UNCHANGED <<session, socket, op>>
                                  ELSE /\ socket' = [socket EXCEPT ![k] =
                                              [refs |-> IF Keeps(v) THEN 2 ELSE 1, role |-> o[2],
                                               pooled |-> FALSE, dead |-> FALSE, auth |-> LoginAll(v)]]
                                       /\ session' = [session EXCEPT ![s] = IF Keeps(v) THEN kept ELSE w]
                                       /\ Use(k, c)
                                       /\ UNCHANGED panicked
    BY DEF Begin
  <1> DEFINE v == session[s]
  <1>3. PICK ok \in BOOLEAN : ok = (kind # "write") OBVIOUS
  <1>4. PICK b \in BOOLEAN : b = (v.wrote \/ (kind = "write" /\ v.mode # "Eventual")) OBVIOUS
  <1>5. PICK keep \in BOOLEAN : keep = Keeps(v) BY DEF Keeps
  <1>6. PICK c \in IF kind = "login" THEN Creds ELSE {None} :
          \/ /\ Ready(v, kind # "write") # None
             /\ socket' = Acquired(socket, {Ready(v, kind # "write")})
             /\ session' = [session EXCEPT ![s].wrote = v.wrote \/ (kind = "write" /\ v.mode # "Eventual")]
             /\ op' = [op EXCEPT ![g] = [kind |-> kind, s |-> s, sock |-> Ready(v, kind # "write"), cred |-> c]]
             /\ UNCHANGED panicked
          \/ /\ Ready(v, kind # "write") = None
             /\ \E o \in Offers(kind # "write" /\ v.slaveOk) :
                   LET k == o[1]
                       w == Switched([v EXCEPT !.wrote = v.wrote \/ (kind = "write" /\ v.mode # "Eventual")],
                                     kind # "write")
                       kept == IF o[2] = "master" THEN [w EXCEPT !.master = k] ELSE [w EXCEPT !.slave = k]
                   IN  IF SlotTaken(v, o[2])
                       THEN /\ panicked' = IF o[2] = "former" THEN "former" ELSE "slot"
                            /\ UNCHANGED <<session, socket, op>>
                       ELSE /\ socket' = [socket EXCEPT ![k] =
                                   [refs |-> IF Keeps(v) THEN 2 ELSE 1, role |-> o[2],
                                    pooled |-> FALSE, dead |-> FALSE, auth |-> LoginAll(v)]]
                            /\ session' = [session EXCEPT ![s] = IF Keeps(v) THEN kept ELSE w]
                            /\ op' = [op EXCEPT ![g] = [kind |-> kind, s |-> s, sock |-> k, cred |-> c]]
                            /\ UNCHANGED panicked
    BY <1>2 DEF v
  <1> HIDE DEF v
  <1>7. CASE Ready(v, kind # "write") # None
    <2>1. PICK k : k = Ready(v, kind # "write") OBVIOUS
    <2>2. /\ socket' = Acquired(socket, {k})
          /\ session' = [session EXCEPT ![s].wrote = v.wrote \/ (kind = "write" /\ v.mode # "Eventual")]
          /\ op' = [op EXCEPT ![g] = [kind |-> kind, s |-> s, sock |-> k, cred |-> c]]
          /\ UNCHANGED panicked
      BY <1>6, <1>7, <2>1
    <2>3. TakesReady(g, s, kind, c, k) BY <1>1, <1>2, <1>7, <2>1, <2>2 DEF v, TakesReady
    <2> QED BY <2>3
  <1>8. CASE Ready(v, kind # "write") = None
    <2>1. PICK o \in Offers(kind # "write" /\ v.slaveOk) :
            LET k == o[1]
                w == Switched([v EXCEPT !.wrote = v.wrote \/ (kind = "write" /\ v.mode # "Eventual")],
                              kind # "write")
                kept == IF o[2] = "master" THEN [w EXCEPT !.master = k] ELSE [w EXCEPT !.slave = k]
            IN  IF SlotTaken(v, o[2])
                THEN /\ panicked' = IF o[2] = "former" THEN "former" ELSE "slot"
                     /\ UNCHANGED <<session, socket, op>>
                ELSE /\ socket' = [socket EXCEPT ![k] =
                            [refs |-> IF Keeps(v) THEN 2 ELSE 1, role |-> o[2],
                             pooled |-> FALSE, dead |-> FALSE, auth |-> LoginAll(v)]]
                     /\ session' = [session EXCEPT ![s] = IF Keeps(v) THEN kept ELSE w]
                     /\ op' = [op EXCEPT ![g] = [kind |-> kind, s |-> s, sock |-> k, cred |-> c]]
                     /\ UNCHANGED panicked
      BY <1>6, <1>8
    <2>2. PICK k \in Sockets, role \in {"master", IF kind # "write" /\ v.slaveOk THEN "slave" ELSE "former"} :
            o = <<k, role>> /\ (socket[k] = None \/ socket[k].pooled)
      BY DEF Offers
    <2>3. PICK m \in BOOLEAN : m = (role = "master") OBVIOUS
    <2>4. PICK w : w = Switched([v EXCEPT !.wrote = b], ok) OBVIOUS
    <2>5. CASE SlotTaken(v, role)
      <3>1. /\ panicked' = IF role = "former" THEN "former" ELSE "slot"
            /\ UNCHANGED <<session, socket, op>>
        BY <2>1, <2>2, <2>5
      <3>2. v \in SessionRecords BY <1>2 DEF v, Alive, Inv, TypeOK
      <3>3. v.master = None /\ ~(v.slave # None /\ v.slaveOk /\ kind # "write")
        BY <1>8, <3>2, Records, SessionShape DEF Ready
      <3>4. role = "former" BY <2>2, <2>5, <3>3 DEF SlotTaken
      <3> QED BY <1>1, <3>1, <3>4 DEF TakesNone
    <2>6. CASE ~SlotTaken(v, role)
      <3>1. /\ socket' = [socket EXCEPT ![k] =
                   [refs |-> IF keep THEN 2 ELSE 1, role |-> role,
                    pooled |-> FALSE, dead |-> FALSE, auth |-> LoginAll(v)]]
            /\ session' = [session EXCEPT ![s] =
                   IF ~keep THEN w ELSE IF m THEN [w EXCEPT !.master = k] ELSE [w EXCEPT !.slave = k]]
            /\ UNCHANGED panicked
            /\ op' = [op EXCEPT ![g] = [kind |-> kind, s |-> s, sock |-> k, cred |-> c]]
        BY <1>3, <1>4, <1>5, <2>1, <2>2, <2>3, <2>4, <2>6
      <3>2. Ready(v, ok) = None /\ role \in {"master", IF ok /\ v.slaveOk THEN "slave" ELSE "former"}
        BY <1>3, <1>8, <2>2
      <3>3. keep => (IF m THEN v.master ELSE v.slave) = None BY <1>5, <2>3, <2>6 DEF SlotTaken
      <3>4. /\ Inv /\ op[g] = None /\ Step /\ Alive(s) /\ (ok <=> kind # "write")
            /\ (b <=> session[s].wrote \/ (kind = "write" /\ session[s].mode # "Eventual"))
            /\ (keep <=> Keeps(session[s])) /\ w = Switched([session[s] EXCEPT !.wrote = b], ok)
        BY <1>1, <1>2, <1>3, <1>4, <1>5, <2>4 DEF v
      <3>5. TakesOther(g, s, kind, c, ok, b, k, role, m, keep, w)
        BY <2>2, <2>3, <3>1, <3>2, <3>3, <3>4 DEF v, TakesOther
      <3> QED BY <3>5
    <2> QED BY <2>5, <2>6
  <1> QED BY <1>7, <1>8

LEMMA BeginStep ==
  ASSUME Inv, NEW g \in Goroutines, Begin(g)
  PROVE  Inv' /\ MasterStep
  BY BeginIs, BeginReady, BeginNew, BeginPanics

(***************************************************************************)
(* The end of an operation, and the death of a socket                      *)
(***************************************************************************)

\* A socket's record with others logged in
LEMMA OtherAuth ==
  ASSUME NEW r \in SocketRecords, NEW a \in [Sources -> Users \cup {None}]
  PROVE  LET q == [r EXCEPT !.auth = a] IN
         q \in SocketRecords /\ q # None /\ Alike(q, r) /\ q.auth = a
  <1> DEFINE q == [r EXCEPT !.auth = a]
  <1>1. q = [refs |-> r.refs, role |-> r.role, pooled |-> r.pooled, dead |-> r.dead, auth |-> a]
    BY SocketShape
  <1>2. q \in SocketRecords /\ q # None
    <2> HIDE DEF q
    <2> QED BY <1>1, SocketShape, SocketFrom
  <1> QED BY <1>1, <1>2 DEF Alike

\* A session's record with other credentials
LEMMA OtherCreds ==
  ASSUME NEW v \in SessionRecords, NEW cs \in Seq(Creds)
  PROVE  LET w == [v EXCEPT !.creds = cs] IN
         /\ w \in SessionRecords /\ w # None
         /\ w.mode = v.mode /\ w.slaveOk = v.slaveOk /\ w.master = v.master /\ w.slave = v.slave
         /\ w.creds = cs /\ w.family = v.family /\ w.wrote = v.wrote
  <1> DEFINE w == [v EXCEPT !.creds = cs]
  <1>1. w = [mode |-> v.mode, slaveOk |-> v.slaveOk, master |-> v.master, slave |-> v.slave,
             creds |-> cs, family |-> v.family, wrote |-> v.wrote]
    BY SessionShape
  <1>2. w \in SessionRecords /\ w # None
    <2> HIDE DEF w
    <2> QED BY <1>1, SessionShape, SessionFrom
  <1> QED BY <1>1, <1>2

\* The credentials of one session change.
LEMMA CredsStep ==
  ASSUME TypeOK, Committed, NEW s \in Sessions, Alive(s), NEW cs \in Seq(Creds),
         session' = [session EXCEPT ![s].creds = cs]
  PROVE  /\ session' \in [Sessions -> SessionRecords \cup {None}] /\ SameSessions
         /\ RolesKept => Committed'
         /\ session'[s].creds = cs /\ \A x \in Sessions \ {s} : session'[x] = session[x]
  <1> DEFINE v == session[s]  w == [v EXCEPT !.creds = cs]
  <1>1. v \in SessionRecords BY DEF Alive, TypeOK
  <1>2. /\ w \in SessionRecords /\ w # None
        /\ w.mode = v.mode /\ w.slaveOk = v.slaveOk /\ w.master = v.master /\ w.slave = v.slave
        /\ w.creds = cs /\ w.family = v.family /\ w.wrote = v.wrote
    BY <1>1, OtherCreds
  <1>3. session' = [session EXCEPT ![s] = w] OBVIOUS
  <1> HIDE DEF w
  <1>4. session'[s] = w /\ \A x \in Sessions \ {s} : session'[x] = session[x] BY <1>3 DEF TypeOK
  <1>5. session' \in [Sessions -> SessionRecords \cup {None}] BY <1>2, <1>3 DEF TypeOK
  <1>6. SameSessions BY <1>2, <1>4 DEF SameSessions, Alive
  <1>7. RolesKept => (w.mode = "Strong" => ~w.slaveOk) /\ (w.wrote => Sure(w, socket'))
    BY <1>2 DEF Committed, Sure, RolesKept
  <1>8. RolesKept => Committed' BY <1>3, <1>7, CommittedStill
  <1> QED BY <1>2, <1>4, <1>5, <1>6, <1>8

LEMMA EndStep ==
  ASSUME Inv, NEW g \in Goroutines, End(g)
  PROVE  Inv' /\ MasterStep
  <1> USE DEF Inv
  <1> DEFINE o == op[g]  k == o.sock
  <1>1. op[g] # None /\ op' = [op EXCEPT ![g] = None] /\ UNCHANGED steps
        /\ panicked' = CountPanic({k})
    BY DEF End
  <1>2. o \in OpRecords BY <1>1 DEF TypeOK
  <1>3. k \in Sockets /\ o.s \in Sessions /\ Alive(o.s) /\ socket[k] \in SocketRecords /\ socket[k] # None
    BY <1>1, <1>2, OpShape DEF OpsHold, Holding, TypeOK
  <1>4. Typed' /\ Holding' /\ Committed' /\ ~Unbalanced({k})
    <2>1. CASE o.kind = "login" /\ ~socket[k].dead
      <3> DEFINE a == [socket[k].auth EXCEPT ![o.cred.source] = o.cred.user]
                 so == [socket EXCEPT ![k] = [socket[k] EXCEPT !.auth = a]]
      <3>1. /\ socket' = Released(so, {k})
            /\ session' = [session EXCEPT ![o.s].creds = Append(session[o.s].creds, o.cred)]
        BY <1>3, <2>1 DEF End
      <3>2. o.cred \in Creds BY <1>2, <2>1, OpShape
      <3>3. a \in [Sources -> Users \cup {None}]
        BY <1>3, <3>2, SocketShape DEF Sources, Users
      <3>4. LET q == [socket[k] EXCEPT !.auth = a] IN q \in SocketRecords /\ q # None /\ Alike(q, socket[k])
        BY <1>3, <3>3, OtherAuth
      <3>5. so \in [Sockets -> SocketRecords \cup {None}]
            /\ \A j \in Sockets : /\ so[j] = None <=> socket[j] = None
                                  /\ so[j] # None => Alike(so[j], socket[j])
        BY <1>3, <3>4 DEF TypeOK, Alike
      <3>6. Append(session[o.s].creds, o.cred) \in Seq(Creds)
        <4>1. session[o.s] \in SessionRecords BY <1>3 DEF Alive, TypeOK
        <4> QED BY <3>2, <4>1, SessionShape
      <3>7. /\ session' \in [Sessions -> SessionRecords \cup {None}] /\ SameSessions
            /\ RolesKept => Committed'
        BY <1>3, <3>1, <3>6, CredsStep
      <3> HIDE DEF so
      <3> QED BY <1>1, <3>1, <3>5, <3>7, PutsDown
    <2>2. CASE ~(o.kind = "login" /\ ~socket[k].dead)
      <3>1. socket' = Released(socket, {k}) /\ session' = session BY <2>2 DEF End
      <3>2. (RolesKept => Committed') /\ SameSessions BY <3>1, SameCommitted
      <3>3. socket \in [Sockets -> SocketRecords \cup {None}]
            /\ \A j \in Sockets : Alike(socket[j], socket[j])
        BY DEF TypeOK, Alike
      <3>4. session' \in [Sessions -> SessionRecords \cup {None}] BY <3>1 DEF TypeOK
      <3> QED BY <1>1, <3>1, <3>2, <3>3, <3>4, PutsDown
    <2> QED BY <2>1, <2>2
  <1>5. panicked' \in {"no", "former"} BY <1>1, <1>4 DEF NoPanic, CountPanic
  <1>6. TypeOK' /\ NoPanic' BY <1>1, <1>4, <1>5, CalmStep
  <1> QED BY <1>1, <1>4, <1>6, NoneBegins

LEMMA DeadRecord ==
  ASSUME NEW r \in SocketRecords, NEW x, NEW y
  PROVE  [r EXCEPT !.dead = x, !.pooled = y] =
            [refs |-> r.refs, role |-> r.role, pooled |-> y, dead |-> x, auth |-> r.auth]
  <1>1. PICK a, b, c, d, e :
           /\ r = [refs |-> a, role |-> b, pooled |-> c, dead |-> d, auth |-> e]
           /\ a = r.refs /\ b = r.role /\ e = r.auth
    BY SocketShape
  <1>2. PICK w : w = [r EXCEPT !.dead = x] OBVIOUS
  <1>3. w = [refs |-> a, role |-> b, pooled |-> c, dead |-> x, auth |-> e] BY ONLY <1>1, <1>2
  <1>4. [w EXCEPT !.pooled = y] = [refs |-> a, role |-> b, pooled |-> y, dead |-> x, auth |-> e]
    BY ONLY <1>3
  <1>5. [[r EXCEPT !.dead = x] EXCEPT !.pooled = y] = [r EXCEPT !.dead = x, !.pooled = y]
    OBVIOUS
  <1>6. [r EXCEPT !.dead = x, !.pooled = y] = [refs |-> a, role |-> b, pooled |-> y, dead |-> x, auth |-> e]
    BY ONLY <1>2, <1>4, <1>5
  <1> QED BY ONLY <1>1, <1>6

LEMMA DieStep ==
  ASSUME Inv, NEW k \in Sockets, Die(k)
  PROVE  Inv' /\ MasterStep
  <1> USE DEF Inv
  <1> DEFINE r == socket[k]  q == [r EXCEPT !.dead = TRUE, !.pooled = FALSE]
  <1>1. /\ socket[k] # None /\ UNCHANGED <<session, op, panicked, steps>>
        /\ socket' = [socket EXCEPT ![k] = q]
    BY DEF Die
  <1>2. r \in SocketRecords BY <1>1 DEF TypeOK
  <1>3. q = [refs |-> r.refs, role |-> r.role, pooled |-> FALSE, dead |-> TRUE, auth |-> r.auth]
    BY ONLY <1>2, DeadRecord
  <1>4. q \in SocketRecords
    <2> HIDE DEF q
    <2> QED BY <1>2, <1>3, SocketShape DEF SocketRecords
  <1>5. q # None BY <1>4, Records
  <1>6. q.refs = r.refs /\ q.role = r.role /\ ~q.pooled /\ q.dead
    <2> HIDE DEF q
    <2> QED BY <1>3
  <1> HIDE DEF q
  <1>7. socket'[k] = q /\ \A j \in Sockets \ {k} : socket'[j] = socket[j] BY <1>1 DEF TypeOK
  <1>8. Typed' BY <1>1, <1>4 DEF Typed, TypeOK
  <1>9. Holding' /\ RolesKept
    <2>1. \A j \in Sockets : /\ socket'[j] = None <=> socket[j] = None
                             /\ socket[j] # None =>
                                  /\ socket'[j].refs = socket[j].refs
                                  /\ socket'[j].role = socket[j].role
                                  /\ \/ socket'[j].pooled = socket[j].pooled /\ socket'[j].dead = socket[j].dead
                                     \/ ~socket'[j].pooled /\ socket'[j].dead
      BY <1>1, <1>5, <1>6, <1>7
    <2> QED BY <1>1, <1>8, <2>1, Undisturbed
  <1>10. TypeOK' /\ NoPanic'
    <2>1. panicked' \in {"no", "former"} BY <1>1 DEF NoPanic, TypeOK
    <2> QED BY <1>1, <1>8, <2>1, CalmStep
  <1> QED BY <1>1, <1>9, <1>10, SameCommitted, NoneBegins

(***************************************************************************)
(* Sessions                                                                *)
(***************************************************************************)

\* Acquired and released again, sockets are as they were.
LEMMA BackAgain ==
  ASSUME TypeOK, Holding, NEW s \in Sessions, Alive(s)
  PROVE  Released(Acquired(socket, Reserved(s)), Reserved(s)) = socket
  <1> DEFINE so == Acquired(socket, Reserved(s))  R == Reserved(s)
  <1>1. ASSUME NEW k \in R PROVE Released(so, R)[k] = socket[k] /\ k \in Sockets
    <2> DEFINE r == socket[k]  q == so[k]
    <2>1. k \in Sockets /\ r \in SocketRecords /\ s \in Reservers(k)
      BY <1>1, ReservedIn DEF Holding
    <2>2. r.refs > 0 /\ r # None /\ r.refs \in Nat
      <3>1. r # None /\ Reservers(k) # {} BY <2>1, Records
      <3> QED BY <2>1, <3>1, HeldIsCounted, SocketShape DEF Holding
    <2>3. q = [r EXCEPT !.refs = @ + 1] BY <2>1, <2>2 DEF Acquired
    <2>4. q = [refs |-> r.refs + 1, role |-> r.role, pooled |-> r.pooled, dead |-> r.dead, auth |-> r.auth]
      BY <2>1, <2>3, SocketShape
    <2> HIDE DEF q
    <2>5. q.refs > 1 /\ q.refs = r.refs + 1 BY <2>2, <2>4
    <2>6. Released(so, R)[k] = [q EXCEPT !.refs = @ - 1] BY <2>1, <2>5 DEF Released, q
    <2>7. [q EXCEPT !.refs = @ - 1] =
            [refs |-> r.refs, role |-> r.role, pooled |-> r.pooled, dead |-> r.dead, auth |-> r.auth]
      BY <2>2, <2>4
    <2> QED BY <2>1, <2>6, <2>7, SocketShape
  <1>2. ASSUME NEW k \in Sockets \ R PROVE Released(so, R)[k] = socket[k]
    BY <1>2 DEF Released, Acquired
  <1>3. \A k \in Sockets : Released(so, R)[k] = socket[k] BY <1>1, <1>2
  <1>4. Released(so, R) = [k \in Sockets |-> Released(so, R)[k]] BY DEF Released
  <1>5. socket = [k \in Sockets |-> socket[k]] BY DEF TypeOK
  <1> HIDE DEF so, R
  <1>6. Released(so, R) = socket BY <1>3, <1>4, <1>5
  <1> QED BY <1>6 DEF so, R

\* A session that has reserved nothing appears.
LEMMA Arrives ==
  ASSUME TypeOK, Holding, NEW t \in Sessions, session[t] = None,
         NEW w \in SessionRecords, w.master = None, w.slave = None,
         session' = [session EXCEPT ![t] = w], socket' = socket, op' = op
  PROVE  Typed' /\ Holding'
  <1> USE DEF Holding
  <1>0. w # None BY Records
  <1>1. session'[t] = w /\ \A x \in Sessions \ {t} : session'[x] = session[x] BY DEF TypeOK
  <1>2. ASSUME NEW k \in Sockets PROVE Holders(k)' = Holders(k)
    <2>1. Reservers(k)' = Reservers(k)
      BY <1>1, Records DEF Reservers, Alive, Reserved
    <2> QED BY <2>1, SameUsers DEF Holders
  <1>3. RefsCounted' BY <1>2 DEF RefsCounted
  <1>4. Placed' BY <1>1 DEF Placed, Alive
  <1>5. OpsHold'
    <2>1. \A g \in Goroutines : op[g] # None => op[g].s # t BY DEF OpsHold, Alive
    <2>2. \A g \in Goroutines : op[g] # None => op[g].s \in Sessions BY DEF TypeOK, OpRecords
    <2> QED BY <1>1, <2>1, <2>2 DEF OpsHold, Alive
  <1>6. Exclusive' BY <1>1 DEF Exclusive, Alive, Reserved
  <1>7. Typed' BY DEF Typed, TypeOK
  <1> QED BY <1>3, <1>4, <1>5, <1>6, <1>7

LEMMA DialledType == Dialled \in Seq(Creds)
  BY CredsAssumption DEF Dialled

\* The record of a refreshed copy
Fresh(v, cs, t, ok) == [Unset([v EXCEPT !.creds = cs, !.family = t]) EXCEPT !.slaveOk = ok]

LEMMA FreshRecord ==
  ASSUME NEW v \in SessionRecords, NEW cs, NEW t, NEW ok, NEW no, no = FALSE
  PROVE  Fresh(v, cs, t, ok) =
            [mode |-> v.mode, slaveOk |-> ok, master |-> None, slave |-> None, creds |-> cs, family |-> t,
             wrote |-> no]
  <1>0. PICK a, b, c, d, e, f, h :
           /\ v = [mode |-> a, slaveOk |-> b, master |-> c, slave |-> d, creds |-> e, family |-> f, wrote |-> h]
           /\ a = v.mode
    BY SessionShape
  <1> DEFINE w == [v EXCEPT !.creds = cs, !.family = t]
  <1>1. PICK x : x = [v EXCEPT !.creds = cs] OBVIOUS
  <1>2. x = [mode |-> a, slaveOk |-> b, master |-> c, slave |-> d, creds |-> cs, family |-> f, wrote |-> h]
    BY ONLY <1>0, <1>1
  <1>3. w = [mode |-> a, slaveOk |-> b, master |-> c, slave |-> d, creds |-> cs, family |-> t, wrote |-> h]
    <2>1. [x EXCEPT !.family = t] =
            [mode |-> a, slaveOk |-> b, master |-> c, slave |-> d, creds |-> cs, family |-> t, wrote |-> h]
      BY ONLY <1>2
    <2>2. w = [[v EXCEPT !.creds = cs] EXCEPT !.family = t] OBVIOUS
    <2> QED BY ONLY <1>1, <2>1, <2>2
  <1> HIDE DEF w
  <1>4. PICK y : y = [w EXCEPT !.master = None] OBVIOUS
  <1>5. y = [mode |-> a, slaveOk |-> b, master |-> None, slave |-> d, creds |-> cs, family |-> t, wrote |-> h]
    BY ONLY <1>3, <1>4
  <1>6. PICK z : z = [y EXCEPT !.slave = None] OBVIOUS
  <1>7. z = [mode |-> a, slaveOk |-> b, master |-> None, slave |-> None, creds |-> cs, family |-> t, wrote |-> h]
    BY ONLY <1>5, <1>6
  <1>8. PICK u : u = Unset(w) OBVIOUS
  <1>9. u = [z EXCEPT !.wrote = no]
    <2>1. u = [[[w EXCEPT !.master = None] EXCEPT !.slave = None] EXCEPT !.wrote = FALSE]
      BY ONLY <1>8 DEF Unset
    <2> QED BY ONLY no = FALSE, <1>4, <1>6, <2>1
  <1>10. u = [mode |-> a, slaveOk |-> b, master |-> None, slave |-> None, creds |-> cs, family |-> t,
              wrote |-> no]
    BY ONLY <1>7, <1>9
  <1>11. [u EXCEPT !.slaveOk = ok] =
            [mode |-> a, slaveOk |-> ok, master |-> None, slave |-> None, creds |-> cs, family |-> t, wrote |-> no]
    BY ONLY <1>10
  <1> QED BY ONLY <1>0, <1>8, <1>11 DEF w, Fresh

\* A copy is a clone that holds the same sockets, or it has reserved nothing.
LEMMA CopyIs ==
  ASSUME Inv, NEW s \in Sessions, NEW t \in Sessions, Copy(s, t)
  PROVE  /\ Alive(s) /\ session[t] = None /\ Step /\ op' = op /\ panicked' = panicked
         /\ \/ /\ "Clone" \in Copies
               /\ session' = [session EXCEPT ![t] = session[s]]
               /\ socket' = Acquired(socket, Reserved(s))
            \/ /\ socket' = socket
               /\ \E x \in SessionRecords :
                     /\ session' = [session EXCEPT ![t] = x] /\ x.family = t
                     /\ x.master = None /\ x.slave = None /\ ~x.wrote /\ (x.mode = "Strong" => ~x.slaveOk)
  <1> USE DEF Inv
  <1> DEFINE v == session[s]
  <1>1. Alive(s) /\ session[t] = None /\ Step /\ UNCHANGED <<op, panicked>> BY DEF Copy
  <1>2. v \in SessionRecords BY <1>1 DEF Alive, TypeOK
  <1>3. PICK how \in Copies :
          LET w == [v EXCEPT !.creds = IF how = "New" THEN Dialled ELSE @,
                             !.family = IF how = "Clone" THEN @ ELSE t]
          IN  IF how = "Clone"
              THEN session' = [session EXCEPT ![t] = w] /\ socket' = CopyAcquires(s)
              ELSE /\ session' = [session EXCEPT ![t] = [Unset(w) EXCEPT !.slaveOk = v.mode # "Strong"]]
                   /\ socket' = Released(CopyAcquires(s), Reserved(s))
    BY DEF Copy
  <1>4. CASE how = "Clone"
    <2> DEFINE w == [v EXCEPT !.creds = IF how = "New" THEN Dialled ELSE @,
                              !.family = IF how = "Clone" THEN @ ELSE t]
    <2>1. w = v
      <3>1. w = [v EXCEPT !.creds = v.creds, !.family = v.family] BY <1>4
      <3> HIDE DEF w
      <3> QED BY <1>2, <3>1, SessionShape
    <2>2. session' = [session EXCEPT ![t] = v] /\ socket' = Acquired(socket, Reserved(s))
      BY <1>3, <1>4, <2>1 DEF CopyAcquires
    <2> QED BY <1>1, <1>4, <2>2
  <1>5. CASE how # "Clone"
    <2> DEFINE cs == IF how = "New" THEN Dialled ELSE v.creds
               x == [Unset([v EXCEPT !.creds = cs, !.family = t]) EXCEPT !.slaveOk = v.mode # "Strong"]
    <2>1. session' = [session EXCEPT ![t] = x] /\ socket' = socket
      BY <1>1, <1>3, <1>5, BackAgain DEF CopyAcquires
    <2>2. cs \in Seq(Creds) BY <1>2, SessionShape, DialledType
    <2> HIDE DEF cs
    <2>3. PICK ok \in BOOLEAN : ok = (v.mode # "Strong") OBVIOUS
    <2>4. PICK no \in BOOLEAN : no = FALSE OBVIOUS
    <2>5. x = [mode |-> v.mode, slaveOk |-> ok, master |-> None, slave |-> None,
               creds |-> cs, family |-> t, wrote |-> no]
      <3>1. x = Fresh(v, cs, t, ok) BY <2>3 DEF Fresh
      <3> HIDE DEF x
      <3> QED BY ONLY <1>2, <2>4, <3>1, FreshRecord
    <2> HIDE DEF x
    <2>6. x \in SessionRecords BY <1>2, <2>2, <2>5, SessionShape, SessionFrom
    <2>7. x.master = None /\ x.slave = None /\ ~x.wrote /\ (x.mode = "Strong" => ~x.slaveOk) /\ x.family = t
      BY <2>3, <2>4, <2>5
    <2> QED BY <1>1, <2>1, <2>6, <2>7
  <1> QED BY <1>4, <1>5

LEMMA CopyStep ==
  ASSUME Inv, NEW s \in Sessions, NEW t \in Sessions, Copy(s, t)
  PROVE  Inv' /\ MasterStep
  <1> USE DEF Inv
  <1>1. Alive(s) /\ session[t] = None /\ Step /\ op' = op /\ panicked' = panicked BY CopyIs
  <1>2. Typed' /\ Holding' /\ Committed'
    <2>1. CASE session' = [session EXCEPT ![t] = session[s]] /\ socket' = Acquired(socket, Reserved(s))
      <3>1. session[s] \in SessionRecords BY <1>1 DEF Alive, TypeOK
      <3>2. Typed' /\ Holding' /\ RolesKept BY <1>1, <2>1, <3>1, Shares
      <3>3. Committed'
        <4>1. PICK w : w = session[s] OBVIOUS
        <4>2. w.wrote => Sure(w, socket')
          <5>1. w.slave # None => socket'[w.slave].role = socket[w.slave].role
            BY <1>1, <3>2, <4>1 DEF RolesKept
          <5>2. w.wrote => Sure(w, socket) BY <1>1, <4>1 DEF Committed
          <5> QED BY <5>1, <5>2 DEF Sure
        <4>3. session' = [session EXCEPT ![t] = w] /\ (w.mode = "Strong" => ~w.slaveOk)
          BY <1>1, <2>1, <4>1 DEF Committed
        <4> QED BY <3>2, <4>2, <4>3, CommittedStill
      <3> QED BY <3>2, <3>3
    <2>2. ASSUME socket' = socket, NEW x \in SessionRecords, session' = [session EXCEPT ![t] = x],
                 x.master = None, x.slave = None, ~x.wrote, x.mode = "Strong" => ~x.slaveOk
          PROVE  Typed' /\ Holding' /\ Committed'
      <3>1. Typed' /\ Holding' BY <1>1, <2>2, Arrives
      <3>2. RolesKept BY <2>2 DEF RolesKept
      <3>3. Committed' BY <2>2, <3>2, CommittedStill
      <3> QED BY <3>1, <3>3
    <2> QED BY <2>1, <2>2, CopyIs
  <1>3. panicked' \in {"no", "former"} BY <1>1 DEF NoPanic, TypeOK
  <1>4. TypeOK' /\ NoPanic' BY <1>1, <1>2, <1>3, CalmStep
  <1> QED BY <1>1, <1>2, <1>4, NoneBegins

LEMMA CloseStep ==
  ASSUME Inv, NEW s \in Sessions, Close(s)
  PROVE  Inv' /\ MasterStep
  <1> USE DEF Inv
  <1>1. /\ Alive(s) /\ Step /\ op' = op /\ \A g \in Goroutines : op[g] # None => op[g].s # s
        /\ panicked' = CountPanic(Reserved(s))
        /\ socket' = Released(socket, Reserved(s)) /\ session' = [session EXCEPT ![s] = None]
    BY DEF Close
  <1>2. Typed' /\ Holding' /\ ~Unbalanced(Reserved(s)) /\ RolesKept BY <1>1, GivesUp
  <1>3. Committed' BY <1>1, <1>2, CommittedStill
  <1>4. panicked' \in {"no", "former"} BY <1>1, <1>2 DEF NoPanic, CountPanic
  <1>5. TypeOK' /\ NoPanic' BY <1>1, <1>2, <1>4, CalmStep
  <1> QED BY <1>1, <1>2, <1>3, <1>5, NoneBegins

LEMMA RefreshIs ==
  ASSUME Inv, NEW s \in Sessions, Refresh(s)
  PROVE  /\ Alive(s) /\ Step /\ op' = op /\ panicked' = CountPanic(Reserved(s))
         /\ socket' = Released(socket, Reserved(s))
         /\ \E x \in SessionRecords :
               /\ session' = [session EXCEPT ![s] = x] /\ x.family = session[s].family
               /\ x.master = None /\ x.slave = None /\ ~x.wrote /\ (x.mode = "Strong" => ~x.slaveOk)
  <1> USE DEF Inv
  <1> DEFINE v == session[s]
  <1>1. /\ Alive(s) /\ Step /\ op' = op
        /\ panicked' = CountPanic(Reserved(s))
        /\ socket' = Released(socket, Reserved(s))
        /\ session' = [session EXCEPT ![s] = [Unset(v) EXCEPT !.slaveOk = v.mode # "Strong"]]
    BY DEF Refresh
  <1>2. v \in SessionRecords BY <1>1 DEF Alive, TypeOK
  <1>3. PICK ok \in BOOLEAN : ok = (v.mode # "Strong") OBVIOUS
  <1>4. PICK no \in BOOLEAN : no = FALSE OBVIOUS
  <1> DEFINE x == [Unset(v) EXCEPT !.slaveOk = v.mode # "Strong"]
  <1>5. x = [mode |-> v.mode, slaveOk |-> ok, master |-> None, slave |-> None,
             creds |-> v.creds, family |-> v.family, wrote |-> no]
    <2>1. x = Fresh(v, v.creds, v.family, ok)
      <3>1. [v EXCEPT !.creds = v.creds, !.family = v.family] = v BY <1>2, SessionShape
      <3> QED BY <1>3, <3>1 DEF Fresh
    <2> HIDE DEF x
    <2> QED BY ONLY <1>2, <1>4, <2>1, FreshRecord
  <1>6. session' = [session EXCEPT ![s] = x] BY <1>1
  <1> HIDE DEF x
  <1>7. x \in SessionRecords BY <1>2, <1>5, SessionShape, SessionFrom
  <1>8. x.master = None /\ x.slave = None /\ ~x.wrote /\ (x.mode = "Strong" => ~x.slaveOk) /\ x.family = v.family
    BY <1>3, <1>4, <1>5
  <1> QED BY <1>1, <1>6, <1>7, <1>8

LEMMA RefreshStep ==
  ASSUME Inv, NEW s \in Sessions, Refresh(s)
  PROVE  Inv' /\ MasterStep
  <1> USE DEF Inv
  <1>1. /\ Alive(s) /\ Step /\ op' = op /\ panicked' = CountPanic(Reserved(s))
        /\ socket' = Released(socket, Reserved(s))
    BY RefreshIs
  <1>2. PICK x \in SessionRecords :
           /\ session' = [session EXCEPT ![s] = x] /\ x.master = None /\ x.slave = None
           /\ ~x.wrote /\ (x.mode = "Strong" => ~x.slaveOk)
    BY RefreshIs
  <1>3. Held(x) = {} BY <1>2 DEF Held
  <1>4. Typed' /\ Holding' /\ ~Unbalanced(Reserved(s)) /\ RolesKept BY <1>1, <1>2, <1>3, GivesUp, Records
  <1>5. Committed' BY <1>2, <1>4, CommittedStill
  <1>6. panicked' \in {"no", "former"} BY <1>1, <1>4 DEF NoPanic, CountPanic
  <1>7. TypeOK' /\ NoPanic' BY <1>1, <1>4, <1>6, CalmStep
  <1> QED BY <1>1, <1>4, <1>5, <1>7, NoneBegins

LEMMA ModeRecord ==
  ASSUME NEW v \in SessionRecords, NEW mode, NEW ok
  PROVE  [v EXCEPT !.mode = mode, !.slaveOk = ok] =
            [mode |-> mode, slaveOk |-> ok, master |-> v.master, slave |-> v.slave,
             creds |-> v.creds, family |-> v.family, wrote |-> v.wrote]
  <1>1. PICK a, b, c, d, e, f, h :
           /\ v = [mode |-> a, slaveOk |-> b, master |-> c, slave |-> d, creds |-> e, family |-> f, wrote |-> h]
           /\ c = v.master /\ d = v.slave /\ e = v.creds /\ f = v.family /\ h = v.wrote
    BY SessionShape
  <1>2. PICK w : w = [v EXCEPT !.mode = mode] OBVIOUS
  <1>3. w = [mode |-> mode, slaveOk |-> b, master |-> c, slave |-> d, creds |-> e, family |-> f, wrote |-> h]
    BY ONLY <1>1, <1>2
  <1>4. [w EXCEPT !.slaveOk = ok] =
            [mode |-> mode, slaveOk |-> ok, master |-> c, slave |-> d, creds |-> e, family |-> f, wrote |-> h]
    BY ONLY <1>3
  <1>5. [v EXCEPT !.mode = mode, !.slaveOk = ok] = [[v EXCEPT !.mode = mode] EXCEPT !.slaveOk = ok] OBVIOUS
  <1>6. [v EXCEPT !.mode = mode, !.slaveOk = ok] =
            [mode |-> mode, slaveOk |-> ok, master |-> c, slave |-> d, creds |-> e, family |-> f, wrote |-> h]
    BY ONLY <1>2, <1>4, <1>5
  <1> QED BY ONLY <1>1, <1>6

LEMMA SetModeStep ==
  ASSUME Inv, NEW s \in Sessions, SetMode(s)
  PROVE  Inv' /\ MasterStep
  <1> USE DEF Inv
  <1> DEFINE v == session[s]
  <1>1. Alive(s) /\ Step /\ UNCHANGED <<socket, op, panicked>> BY DEF SetMode
  <1>2. PICK mode \in Modes :
          session' = [session EXCEPT ![s] = [v EXCEPT !.mode = mode, !.slaveOk = SlaveOkIn(v, mode)]]
    BY DEF SetMode
  <1>3. v \in SessionRecords BY <1>1 DEF Alive, TypeOK
  <1>4. mode \in {"Eventual", "Monotonic", "Strong"} BY ModesAssumption
  <1>5. PICK ok \in BOOLEAN : ok = SlaveOkIn(v, mode) BY <1>3, SessionShape DEF SlaveOkIn
  <1> DEFINE x == [v EXCEPT !.mode = mode, !.slaveOk = ok]
  <1>6. x = [mode |-> mode, slaveOk |-> ok, master |-> v.master, slave |-> v.slave,
             creds |-> v.creds, family |-> v.family, wrote |-> v.wrote]
    BY ONLY <1>3, ModeRecord
  <1>7. session' = [session EXCEPT ![s] = x] BY <1>2, <1>5
  <1> HIDE DEF x
  <1>8. x \in SessionRecords /\ x # None BY <1>3, <1>4, <1>6, SessionShape, SessionFrom
  <1>9. session'[s] = x /\ \A y \in Sessions \ {s} : session'[y] = session[y] BY <1>7 DEF TypeOK
  <1>10. Typed' BY <1>1, <1>7, <1>8 DEF Typed, TypeOK
  <1>11. Holding' /\ RolesKept BY <1>1, <1>6, <1>8, <1>9, <1>10, Undisturbed DEF Alive
  <1>12. Committed'
    <2>1. x.mode = "Strong" => ~x.slaveOk BY <1>5, <1>6 DEF SlaveOkIn
    <2>2. x.wrote => Sure(x, socket') BY <1>1, <1>6 DEF Committed, Sure
    <2> QED BY <1>7, <1>11, <2>1, <2>2, CommittedStill
  <1>13. panicked' \in {"no", "former"} BY <1>1 DEF NoPanic, TypeOK
  <1>14. TypeOK' /\ NoPanic' BY <1>1, <1>10, <1>13, CalmStep
  <1> QED BY <1>1, <1>11, <1>12, <1>14, NoneBegins

\* A session logs out of xs: its sockets only change who is logged in.
LEMMA LogsOut ==
  ASSUME Inv, NEW s \in Sessions, Alive(s), Step, NEW cs \in Seq(Creds), NEW xs,
         session' = [session EXCEPT ![s].creds = cs], socket' = LoggedOut(s, xs),
         UNCHANGED <<op, panicked>>
  PROVE  Inv' /\ MasterStep
  <1> USE DEF Inv
  <1>1. /\ session' \in [Sessions -> SessionRecords \cup {None}] /\ SameSessions
        /\ RolesKept => Committed'
    BY CredsStep
  <1>2. ASSUME NEW k \in Reserved(s)
        PROVE  socket'[k] \in SocketRecords /\ socket'[k] # None /\ Alike(socket'[k], socket[k])
    <2> DEFINE a == [x \in Sources |-> IF x \in xs THEN None ELSE socket[k].auth[x]]
    <2>1. k \in Sockets /\ socket[k] \in SocketRecords BY <1>2, ReservedIn DEF Holding
    <2>2. a \in [Sources -> Users \cup {None}] BY <2>1, SocketShape
    <2>3. socket'[k] = [socket[k] EXCEPT !.auth = a] BY <1>2, <2>1 DEF LoggedOut
    <2> HIDE DEF a
    <2> QED BY <2>1, <2>2, <2>3, OtherAuth
  <1>3. ASSUME NEW k \in Sockets \ Reserved(s) PROVE socket'[k] = socket[k]
    BY <1>3 DEF LoggedOut
  <1>4. Typed'
    <2>1. \A k \in Sockets : socket'[k] \in SocketRecords \cup {None} BY <1>2, <1>3 DEF TypeOK
    <2>2. socket' \in [Sockets -> SocketRecords \cup {None}] BY <2>1 DEF LoggedOut
    <2> QED BY <1>1, <2>2 DEF Typed, TypeOK
  <1>5. Holding' /\ RolesKept
    <2>1. \A k \in Reserved(s) : socket[k] # None BY ReservedIn, Records DEF Holding
    <2>2. \A k \in Sockets : /\ socket'[k] = None <=> socket[k] = None
                             /\ socket[k] # None =>
                                  /\ socket'[k].refs = socket[k].refs
                                  /\ socket'[k].role = socket[k].role
                                  /\ socket'[k].pooled = socket[k].pooled /\ socket'[k].dead = socket[k].dead
      BY <1>2, <1>3, <2>1 DEF Alike
    <2> QED BY <1>1, <1>4, <2>2, Undisturbed DEF SameSessions
  <1>6. panicked' \in {"no", "former"} BY DEF NoPanic, TypeOK
  <1>7. TypeOK' /\ NoPanic' BY <1>4, <1>6, CalmStep
  <1> QED BY <1>1, <1>5, <1>7, NoneBegins

LEMMA LogoutStep ==
  ASSUME Inv, NEW s \in Sessions, NEW x \in Sources, Logout(s, x)
  PROVE  Inv' /\ MasterStep
  <1> DEFINE cs == session[s].creds
  <1>1. Alive(s) /\ Step /\ socket' = LoggedOut(s, {x}) /\ UNCHANGED <<op, panicked>> BY DEF Logout
  <1>2. PICK i \in DOMAIN cs : session' = [session EXCEPT ![s].creds = RemoveAt(cs, i)]
    BY DEF Logout
  <1>3. cs \in Seq(Creds)
    <2>1. session[s] \in SessionRecords BY <1>1 DEF Alive, Inv, TypeOK
    <2> QED BY <2>1, SessionShape
  <1> HIDE DEF cs
  <1>4. RemoveAt(cs, i) \in Seq(Creds)
    <2>1. i \in 1..Len(cs) /\ Len(cs) \in Nat /\ \A j \in 1..Len(cs) : cs[j] \in Creds BY <1>3
    <2>2. SubSeq(cs, 1, i - 1) \in Seq(Creds) /\ SubSeq(cs, i + 1, Len(cs)) \in Seq(Creds)
      BY <2>1, SubSeqProperties
    <2> QED BY <2>2, ConcatProperties DEF RemoveAt
  <1> QED BY <1>1, <1>2, <1>4, LogsOut

LEMMA LogoutAllStep ==
  ASSUME Inv, NEW s \in Sessions, LogoutAll(s)
  PROVE  Inv' /\ MasterStep
  <1>1. /\ Alive(s) /\ Step /\ UNCHANGED <<op, panicked>>
        /\ session' = [session EXCEPT ![s].creds = <<>>]
        /\ \E xs : socket' = LoggedOut(s, xs)
    BY DEF LogoutAll
  <1>2. <<>> \in Seq(Creds) OBVIOUS
  <1> QED BY <1>1, <1>2, LogsOut

(***************************************************************************)
(* Counts and the master                                                   *)
(***************************************************************************)

LEMMA Initially == Init => Inv
  <1> SUFFICES ASSUME Init PROVE Inv OBVIOUS
  <1> DEFINE v == [mode |-> "Strong", slaveOk |-> FALSE, master |-> None, slave |-> None,
                   creds |-> Dialled, family |-> First, wrote |-> FALSE]
  <1>1. v \in SessionRecords BY DialledType, SessionsAssumption DEF SessionRecords
  <1>2. /\ \A s \in Sessions : session[s] = (IF s # First THEN None ELSE v)
        /\ \A k \in Sockets : socket[k] = None
        /\ \A g \in Goroutines : op[g] = None
        /\ session \in [Sessions -> SessionRecords \cup {None}]
    BY <1>1 DEF Init
  <1>3. TypeOK BY <1>2 DEF Init, TypeOK
  <1>4. v.master = None /\ v.slave = None /\ ~v.wrote /\ ~v.slaveOk OBVIOUS
  <1> HIDE DEF v
  <1>5. Placed BY <1>2, <1>4 DEF Placed, Alive
  <1>6. OpsHold BY <1>2 DEF OpsHold
  <1>7. RefsCounted BY <1>2 DEF RefsCounted
  <1>8. Exclusive BY <1>2 DEF Exclusive, Alive
  <1>9. Committed BY <1>2, <1>4 DEF Committed, Alive
  <1>10. NoPanic BY DEF Init, NoPanic
  <1> QED BY <1>3, <1>5, <1>6, <1>7, <1>8, <1>9, <1>10 DEF Inv, Holding

LEMMA EveryStep == Inv /\ [Next]_vars => Inv' /\ MasterStep
  <1> SUFFICES ASSUME Inv, [Next]_vars PROVE Inv' /\ MasterStep OBVIOUS
  <1>1. CASE UNCHANGED vars
    <2>1. session' = session /\ socket' = socket /\ op' = op /\ panicked' = panicked /\ steps' = steps
      BY <1>1 DEF vars
    <2>2. TypeOK' /\ NoPanic' /\ Typed' BY <2>1 DEF Inv, TypeOK, NoPanic, Typed
    <2>3. Holding' /\ RolesKept
      BY <2>1, <2>2, Undisturbed DEF Inv
    <2> QED BY <2>1, <2>2, <2>3, SameCommitted, NoneBegins DEF Inv
  <1>2. CASE \E g \in Goroutines : Begin(g) \/ End(g) BY <1>2, BeginStep, EndStep
  <1>3. CASE \E s, t \in Sessions : Copy(s, t) BY <1>3, CopyStep
  <1>4. CASE \E s \in Sessions : Close(s) \/ Refresh(s) \/ SetMode(s) \/ LogoutAll(s)
    BY <1>4, CloseStep, RefreshStep, SetModeStep, LogoutAllStep
  <1>5. CASE \E s \in Sessions, x \in Sources : Logout(s, x) BY <1>5, LogoutStep
  <1>6. CASE \E k \in Sockets : Die(k) BY <1>6, DieStep
  <1> QED BY <1>1, <1>2, <1>3, <1>4, <1>5, <1>6 DEF Next

\* Every socket is counted by exactly those that hold it, whoever copies, closes and
\* refreshes sessions meanwhile; no count goes below zero; only clones share sockets.
\* setSocket panics over nothing but the socket of a server that was a master when it
\* was chosen and a slave when its socket was taken.
THEOREM CountsAreRight == Spec => []SocketsCounted
  <1>1. Inv => SocketsCounted BY DEF Inv, Holding, SocketsCounted
  <1> QED BY Initially, EveryStep, <1>1, PTL DEF Spec

\* What a session has written its operations see, and those of its clones: they go to
\* no server chosen as a slave, nor do writes, but for those to the database local, nor
\* any operations of a strong session, whichever servers cease to be masters meanwhile.
THEOREM MasterIsKept == Spec => MasterKept
  <1>1. Inv /\ [Next]_vars =>
          [\A g \in Goroutines : (op[g] = None /\ op'[g] # None) =>
              Consistent(op'[g], socket'[op'[g].sock])]_vars
    BY EveryStep DEF MasterStep
  <1> QED BY Initially, EveryStep, <1>1, PTL DEF Spec, MasterKept

(***************************************************************************)
(* Logins                                                                  *)
(***************************************************************************)

\* One goroutine uses sessions that share no sockets: none is cloned.  A logout
\* from one database is left out, since it drops a single credential of it.
Lone ==
    /\ \A g, h \in Goroutines : g = h
    /\ Copies \subseteq {"New", "Copy"} /\ "one" \notin Logouts

LoggedInAt(s) ==
    Alive(s) /\ Main(s) # None /\ ~socket[Main(s)].dead =>
        LoggedInAs(socket[Main(s)].auth, session[s].creds)

\* A session's family is itself; the operation's socket is no other session's, and
\* its session goes on over it unless it was refreshed.
Own == \A s \in Sessions : Alive(s) => session[s].family = s
Single ==
    \A g \in Goroutines : op[g] # None =>
        /\ \A s \in Sessions : Alive(s) /\ op[g].sock \in Reserved(s) => s = op[g].s
        /\ Main(op[g].s) # None => op[g].sock = Main(op[g].s)

Logged == (\A s \in Sessions : LoggedInAt(s)) /\ Own /\ Single

LEMMA MainIsReserved ==
  ASSUME Inv, NEW s \in Sessions, Alive(s), Main(s) # None
  PROVE  Main(s) \in Reserved(s) /\ Main(s) \in Sockets /\ socket[Main(s)] \in SocketRecords
  <1>1. Main(s) \in Reserved(s) BY Records DEF Main, Reserved
  <1> QED BY <1>1, ReservedIn DEF Inv, Holding

LEMMA Apart ==
  ASSUME Inv, Own, NEW s \in Sessions, NEW t \in Sessions, Alive(s), Alive(t), s # t
  PROVE  Reserved(s) \cap Reserved(t) = {}
  BY DEF Inv, Holding, Exclusive, Own

\* A session whose socket and credentials stay as they are
LEMMA Elsewhere ==
  ASSUME NEW s \in Sessions, LoggedInAt(s), Alive(s), session'[s] # None,
         session'[s].master = session[s].master, session'[s].slave = session[s].slave,
         session'[s].creds = session[s].creds,
         Main(s) # None => /\ socket'[Main(s)].auth = socket[Main(s)].auth
                           /\ socket'[Main(s)].dead \/ ~socket[Main(s)].dead
  PROVE  LoggedInAt(s)'
  <1>1. Main(s)' = Main(s) BY DEF Main
  <1>2. LoggedInAs(socket[Main(s)].auth, session[s].creds)'
           <=> LoggedInAs(socket'[Main(s)'].auth, session'[s].creds)
    BY DEF LoggedInAs
  <1> QED BY <1>1, <1>2 DEF LoggedInAt, Alive

\* socketLogin leaves a socket logged in as the session's credentials say.
LEMMA LoginsAll ==
  ASSUME NEW v \in SessionRecords
  PROVE  LoggedInAs(LoginAll(v), v.creds)
  <1> DEFINE cs == v.creds
             of == [x \in Sources |-> {i \in Of(v, x) : \A j \in Of(v, x) : j <= i}]
  <1>1. cs \in Seq(Creds) BY SessionShape
  <1>2. DOMAIN cs \subseteq Nat BY <1>1
  <1> SUFFICES ASSUME NEW x \in Sources
               PROVE  /\ (\A i \in DOMAIN cs : cs[i].source # x) => LoginAll(v)[x] = None
                      /\ \A i \in DOMAIN cs :
                            (cs[i].source = x /\ \A j \in DOMAIN cs : j > i => cs[j].source # x)
                            => LoginAll(v)[x] = cs[i].user
    BY DEF LoggedInAs
  <1>3. LoginAll(v)[x] = IF of[x] = {} THEN None ELSE cs[CHOOSE i \in of[x] : TRUE].user
    <2>1. LoginAll(v) = Login(v, of) BY DEF LoginAll
    <2> HIDE DEF of
    <2> QED BY <2>1 DEF Login
  <1>4. ASSUME \A i \in DOMAIN cs : cs[i].source # x PROVE LoginAll(v)[x] = None
    <2>1. of[x] = {} BY <1>4 DEF Of
    <2> QED BY <1>3, <2>1
  <1>5. ASSUME NEW i \in DOMAIN cs, cs[i].source = x, \A j \in DOMAIN cs : j > i => cs[j].source # x
        PROVE  LoginAll(v)[x] = cs[i].user
    <2>1. \A j \in Of(v, x) : j \in Nat /\ j <= i BY <1>2, <1>5 DEF Of
    <2>2. i \in Of(v, x) BY <1>5 DEF Of
    <2>3. of[x] = {i} BY <2>1, <2>2
    <2>4. (CHOOSE j \in of[x] : TRUE) = i BY <2>3
    <2> QED BY <1>3, <2>3, <2>4
  <1> QED BY <1>4, <1>5

\* A login that succeeds replaces who was logged in to its source.
LEMMA LoginsOne ==
  ASSUME NEW cs \in Seq(Creds), NEW c \in Creds, NEW a \in [Sources -> Users \cup {None}],
         LoggedInAs(a, cs)
  PROVE  LoggedInAs([a EXCEPT ![c.source] = c.user], Append(cs, c))
  <1> DEFINE n == Len(cs)  ds == Append(cs, c)  b == [a EXCEPT ![c.source] = c.user]
  <1>1. n \in Nat /\ DOMAIN cs = 1..n /\ DOMAIN ds = 1..(n + 1) BY DEF n
  <1>2. ds[n + 1] = c /\ \A i \in 1..n : ds[i] = cs[i] BY DEF n
  <1>3. \A x \in Sources : b[x] = IF x = c.source THEN c.user ELSE a[x] OBVIOUS
  <1> HIDE DEF n, ds, b
  <1> SUFFICES ASSUME NEW x \in Sources
               PROVE  /\ (\A i \in DOMAIN ds : ds[i].source # x) => b[x] = None
                      /\ \A i \in DOMAIN ds :
                            (ds[i].source = x /\ \A j \in DOMAIN ds : j > i => ds[j].source # x)
                            => b[x] = ds[i].user
    BY DEF LoggedInAs, b, ds
  <1>4. ASSUME \A i \in DOMAIN ds : ds[i].source # x PROVE b[x] = None
    <2>1. x # c.source BY <1>1, <1>2, <1>4
    <2>2. \A i \in DOMAIN cs : cs[i].source # x BY <1>1, <1>2, <1>4
    <2> QED BY <1>3, <2>1, <2>2 DEF LoggedInAs
  <1>5. ASSUME NEW i \in DOMAIN ds, ds[i].source = x, \A j \in DOMAIN ds : j > i => ds[j].source # x
        PROVE  b[x] = ds[i].user
    <2>1. CASE i = n + 1 BY <1>2, <1>3, <1>5, <2>1
    <2>2. CASE i # n + 1
      <3>1. i \in DOMAIN cs /\ cs[i].source = x BY <1>1, <1>2, <1>5, <2>2
      <3>2. x # c.source BY <1>1, <1>2, <1>5, <3>1
      <3>3. \A j \in DOMAIN cs : j > i => cs[j].source # x BY <1>1, <1>2, <1>5
      <3>4. a[x] = cs[i].user BY <3>1, <3>3 DEF LoggedInAs
      <3> QED BY <1>1, <1>2, <1>3, <3>1, <3>2, <3>4
    <2> QED BY <2>1, <2>2
  <1> QED BY <1>4, <1>5

\* Only session s changes, and only who uses sockets; the rest of Logged is as it was.
LEMMA OthersStay ==
  ASSUME Inv, Lone, Logged, NEW s \in Sessions, LoggedInAt(s)', session'[s] # None => session'[s].family = s,
         \A x \in Sessions \ {s} : session'[x] = session[x],
         \A x \in Sessions \ {s} : Alive(x) => \A k \in Reserved(x) : socket'[k].auth = socket[k].auth
                                                  /\ (socket'[k].dead \/ ~socket[k].dead)
  PROVE  (\A x \in Sessions : LoggedInAt(x)') /\ Own'
  <1>1. ASSUME NEW x \in Sessions \ {s} PROVE LoggedInAt(x)'
    <2>1. CASE session[x] = None BY <2>1 DEF LoggedInAt, Alive
    <2>2. CASE session[x] # None
      <3>1. LoggedInAt(x) /\ Alive(x) BY <2>2 DEF Logged, Alive
      <3>2. Main(x) # None => Main(x) \in Reserved(x) BY <3>1, MainIsReserved
      <3>3. Main(x) # None => /\ socket'[Main(x)].auth = socket[Main(x)].auth
                              /\ socket'[Main(x)].dead \/ ~socket[Main(x)].dead
        BY <3>1, <3>2
      <3>4. session'[x] = session[x] OBVIOUS
      <3> QED BY <2>2, <3>1, <3>3, <3>4, Elsewhere
    <2> QED BY <2>1, <2>2
  <1>2. Own' BY DEF Own, Logged, Alive
  <1> QED BY <1>1, <1>2

LEMMA ReadyLogged ==
  ASSUME NEW g \in Goroutines, NEW s \in Sessions, NEW kind \in {"read", "write", "local", "login"}, NEW c, NEW k,
         TakesReady(g, s, kind, c, k), Lone, Logged
  PROVE  Logged'
  <1> USE DEF TakesReady
  <1> DEFINE v == session[s]
             o == [kind |-> kind, s |-> s, sock |-> k, cred |-> c]
  <1>1. v \in SessionRecords BY DEF Inv, Alive, TypeOK
  <1>2. PICK b \in BOOLEAN : b = (v.wrote \/ (kind = "write" /\ v.mode # "Eventual")) OBVIOUS
  <1> DEFINE w == [v EXCEPT !.wrote = b]
  <1>3. session' = [session EXCEPT ![s] = w] BY <1>2
  <1>4. w = [mode |-> v.mode, slaveOk |-> v.slaveOk, master |-> v.master, slave |-> v.slave,
             creds |-> v.creds, family |-> v.family, wrote |-> b]
    BY <1>1, SessionShape
  <1>5. w # None BY <1>1, <1>4, SessionShape, SessionFrom
  <1> HIDE DEF w
  <1>6. session'[s] = w /\ \A x \in Sessions \ {s} : session'[x] = session[x] BY <1>3 DEF Inv, TypeOK
  <1>7. k \in Reserved(s) /\ k \in Sockets /\ socket[k] \in SocketRecords /\ s \in Reservers(k)
    BY ReadyIsReserved, ReservedIn DEF Inv, Holding
  <1>8. k = Main(s) BY <1>1, SessionShape DEF Ready, Main
  <1>9. \A j \in Sockets : socket[j] # None => socket'[j].auth = socket[j].auth /\ socket'[j].dead = socket[j].dead
    <2>1. Counted(socket[k], Holders(k)) /\ Holders(k) > 0 /\ Holders(k) \in Nat
      <3>1. socket[k] # None /\ Reservers(k) # {} BY <1>7, Records
      <3> QED BY <1>7, <3>1, HeldIsCounted DEF Inv, Holding
    <2>2. socket'[k].auth = socket[k].auth /\ socket'[k].dead = socket[k].dead
      BY <1>7, <2>1, AcquireOne
    <2>3. \A j \in Sockets \ {k} : socket'[j] = socket[j] BY DEF Acquired
    <2> QED BY <2>2, <2>3
  <1>10. ASSUME NEW x \in Sessions, Alive(x)
         PROVE  \A j \in Reserved(x) : socket'[j].auth = socket[j].auth /\ socket'[j].dead = socket[j].dead
    BY <1>9, <1>10, ReservedIn, Records DEF Inv, Holding
  <1>11. LoggedInAt(s)'
    <2>1. Main(s) # None => /\ socket'[Main(s)].auth = socket[Main(s)].auth
                            /\ socket'[Main(s)].dead \/ ~socket[Main(s)].dead
      BY <1>7, <1>8, <1>10
    <2>2. /\ session'[s].master = v.master /\ session'[s].slave = v.slave
          /\ session'[s].creds = v.creds /\ session'[s] # None
      BY <1>4, <1>5, <1>6
    <2>3. LoggedInAt(s) /\ Alive(s) BY DEF Logged
    <2> QED BY <2>1, <2>2, <2>3, Elsewhere
  <1>12. w.family = s BY <1>4 DEF Logged, Own
  <1>13. (\A x \in Sessions : LoggedInAt(x)') /\ Own' BY <1>6, <1>10, <1>11, <1>12, OthersStay
  <1>14. Single'
    <2>1. op'[g] = o /\ \A h \in Goroutines : h = g BY DEF Inv, TypeOK, Lone
    <2>2. \A x \in Sessions : Alive(x)' => Alive(x) /\ Reserved(x)' = Reserved(x)
      BY <1>4, <1>6 DEF Alive, Reserved
    <2>3. Main(s)' = Main(s) BY <1>4, <1>6 DEF Main
    <2>4. \A x \in Sessions : Alive(x) /\ k \in Reserved(x) => x = s BY <1>7, Apart DEF Logged
    <2> QED BY <1>8, <2>1, <2>2, <2>3, <2>4 DEF Single
  <1> QED BY <1>13, <1>14 DEF Logged

LEMMA OtherLogged ==
  ASSUME NEW g \in Goroutines, NEW s \in Sessions, NEW kind \in {"read", "write", "local", "login"}, NEW c,
         NEW ok \in BOOLEAN, NEW b \in BOOLEAN, NEW k \in Sockets, NEW role, NEW m \in BOOLEAN,
         NEW keep \in BOOLEAN, NEW w, TakesOther(g, s, kind, c, ok, b, k, role, m, keep, w), Lone, Logged
  PROVE  Logged'
  <1> USE DEF TakesOther
  <1> DEFINE v == session[s]
             o == [kind |-> kind, s |-> s, sock |-> k, cred |-> c]
             q == [refs |-> IF keep THEN 2 ELSE 1, role |-> role,
                   pooled |-> FALSE, dead |-> FALSE, auth |-> LoginAll(v)]
             u == IF ~keep THEN w ELSE IF m THEN [w EXCEPT !.master = k] ELSE [w EXCEPT !.slave = k]
  <1>1. v \in SessionRecords BY DEF Inv, Alive, TypeOK
  <1>2. /\ w \in SessionRecords
        /\ w.mode = v.mode /\ w.master = v.master /\ w.slave = v.slave /\ w.family = v.family
        /\ w.creds = v.creds /\ w.wrote = b
    BY <1>1, NewSession
  <1>3. u = [mode |-> v.mode, slaveOk |-> w.slaveOk, master |-> IF keep /\ m THEN k ELSE v.master,
             slave |-> IF keep /\ ~m THEN k ELSE v.slave, creds |-> v.creds, family |-> v.family, wrote |-> b]
    BY ONLY <1>1, <1>2, KeptSession
  <1>4. /\ session'[s] = u /\ \A x \in Sessions \ {s} : session'[x] = session[x]
        /\ socket'[k] = q /\ \A j \in Sockets \ {k} : socket'[j] = socket[j]
        /\ op'[g] = o /\ \A h \in Goroutines : h = g
    BY DEF Inv, TypeOK, Lone
  <1> HIDE DEF u
  <1>5. u.master = (IF keep /\ m THEN k ELSE v.master) /\ u.slave = (IF keep /\ ~m THEN k ELSE v.slave)
        /\ u.creds = v.creds /\ u.family = v.family
    BY <1>3
  <1>6. v.master = None BY Records, <1>1, SessionShape DEF Ready
  <1>7. keep \/ v.slave = None BY DEF Keeps
  <1>8. Main(s)' = IF keep THEN k ELSE None
    <2>1. session'[s].master = (IF keep /\ m THEN k ELSE v.master)
          /\ session'[s].slave = (IF keep /\ ~m THEN k ELSE v.slave)
      BY ONLY <1>4, <1>5
    <2>2. k # None BY Records
    <2> HIDE DEF v
    <2>3. CASE keep /\ m BY ONLY <1>6, <2>1, <2>2, <2>3 DEF Main
    <2>4. CASE keep /\ ~m BY ONLY <1>6, <2>1, <2>2, <2>4 DEF Main
    <2>5. CASE ~keep BY ONLY <1>6, <1>7, <2>1, <2>5 DEF Main
    <2> QED BY <2>3, <2>4, <2>5
  <1>9. ASSUME NEW x \in Sessions, Alive(x) PROVE k \notin Reserved(x)
    BY <1>9, OfferedIsFree DEF Inv, Holding, Reserved
  <1>10. LoggedInAt(s)'
    <2>1. LoggedInAs(LoginAll(v), v.creds) BY <1>1, LoginsAll
    <2>2. socket'[k].auth = LoginAll(v) /\ session'[s].creds = v.creds
      <3>1. socket'[k] = q BY <1>4
      <3>2. q.auth = LoginAll(v) BY DEF q
      <3> HIDE DEF q, v
      <3> QED BY ONLY <1>4, <1>5, <3>1, <3>2
    <2>3. LoggedInAs(socket'[k].auth, session'[s].creds) BY <2>1, <2>2
    <2>4. Main(s)' # None => LoggedInAs(socket[Main(s)].auth, session[s].creds)'
      BY <1>8, <2>3 DEF LoggedInAs
    <2> QED BY <2>4 DEF LoggedInAt
  <1>11. u.family = s BY <1>5 DEF Logged, Own
  <1>12. (\A x \in Sessions : LoggedInAt(x)') /\ Own'
    <2>1. ASSUME NEW x \in Sessions \ {s}, Alive(x), NEW j \in Reserved(x)
          PROVE  socket'[j] = socket[j]
      <3>1. j \in Sockets BY <2>1, ReservedIn DEF Inv, Holding
      <3> QED BY <1>4, <1>9, <2>1, <3>1
    <2>2. ASSUME NEW x \in Sessions \ {s}, Alive(x), NEW j \in Reserved(x)
          PROVE  socket'[j].auth = socket[j].auth /\ (socket'[j].dead \/ ~socket[j].dead)
      <3>1. j \in Sockets /\ socket[j] \in SocketRecords BY <2>2, ReservedIn DEF Inv, Holding
      <3> QED BY <2>1, <2>2, <3>1, SocketShape
    <2> QED BY <1>4, <1>10, <1>11, <2>2, OthersStay
  <1>13. Single'
    <2>1. \A x \in Sessions \ {s} : Alive(x)' => k \notin Reserved(x)'
      BY <1>4, <1>9 DEF Alive, Reserved
    <2> QED BY <1>4, <1>8, <2>1 DEF Single
  <1> QED BY <1>12, <1>13 DEF Logged

\* The operation's socket is still its session's, or its session reserves nothing now.
LEMMA SingleStill ==
  ASSUME Inv, Inv', Logged, op' = op,
         \A x \in Sessions : Alive(x)' =>
            \/ Alive(x) /\ session'[x].master = session[x].master /\ session'[x].slave = session[x].slave
            \/ session'[x].master = None /\ session'[x].slave = None
  PROVE  Single'
  <1> SUFFICES ASSUME NEW g \in Goroutines, op[g] # None
               PROVE  /\ \A x \in Sessions : Alive(x)' /\ op[g].sock \in Reserved(x)' => x = op[g].s
                      /\ session'[op[g].s].master # None \/ session'[op[g].s].slave # None
                            => op[g].sock = (IF session'[op[g].s].master # None
                                             THEN session'[op[g].s].master ELSE session'[op[g].s].slave)
    BY DEF Single, Main
  <1>1. op[g].s \in Sessions /\ session'[op[g].s] # None
    BY OpShape DEF Inv, TypeOK, Holding, OpsHold, Alive
  <1>2. ASSUME NEW x \in Sessions, Alive(x)', op[g].sock \in Reserved(x)' PROVE x = op[g].s
    <2>1. Alive(x) /\ op[g].sock \in Reserved(x) BY <1>2 DEF Reserved
    <2> QED BY <2>1 DEF Logged, Single
  <1>3. ASSUME session'[op[g].s].master # None \/ session'[op[g].s].slave # None
        PROVE  op[g].sock = (IF session'[op[g].s].master # None
                             THEN session'[op[g].s].master ELSE session'[op[g].s].slave)
    <2>1. /\ Alive(op[g].s) /\ session'[op[g].s].master = session[op[g].s].master
          /\ session'[op[g].s].slave = session[op[g].s].slave
      BY <1>1, <1>3 DEF Alive
    <2>2. Main(op[g].s) # None BY <1>3, <2>1 DEF Main
    <2>3. op[g].sock = Main(op[g].s) BY <2>2 DEF Logged, Single
    <2> QED BY <2>1, <2>3 DEF Main
  <1> QED BY <1>2, <1>3

\* A session goes, or it has reserved nothing yet or no more.
LEMMA EmptyLogged ==
  ASSUME Inv, Inv', Lone, Logged, NEW s \in Sessions, NEW w, session' = [session EXCEPT ![s] = w],
         w # None => w.master = None /\ w.slave = None /\ w.family = s,
         \A k \in Sockets : (\E x \in Sessions \ {s} : Alive(x) /\ k \in Reserved(x)) => socket'[k] = socket[k],
         op' = op
  PROVE  Logged'
  <1>1. session'[s] = w /\ \A x \in Sessions \ {s} : session'[x] = session[x] BY DEF Inv, TypeOK
  <1>2. LoggedInAt(s)' BY <1>1 DEF LoggedInAt, Alive, Main
  <1>3. ASSUME NEW x \in Sessions \ {s}, Alive(x), NEW k \in Reserved(x)
        PROVE  socket'[k].auth = socket[k].auth /\ (socket'[k].dead \/ ~socket[k].dead)
    <2>1. k \in Sockets /\ socket[k] \in SocketRecords BY <1>3, ReservedIn DEF Inv, Holding
    <2>2. socket'[k] = socket[k] BY <1>3, <2>1
    <2> QED BY <2>1, <2>2, SocketShape
  <1>4. session'[s] # None => session'[s].family = s BY <1>1
  <1>5. (\A x \in Sessions : LoggedInAt(x)') /\ Own' BY <1>1, <1>2, <1>3, <1>4, OthersStay
  <1>6. Single' BY <1>1, SingleStill DEF Alive
  <1> QED BY <1>5, <1>6 DEF Logged

\* Sockets may die, but sessions keep theirs and their credentials.
LEMMA KeepLogged ==
  ASSUME Inv, Inv', Logged, op' = op,
         \A x \in Sessions : /\ session'[x] = None <=> session[x] = None
                             /\ Alive(x) => /\ session'[x].master = session[x].master
                                            /\ session'[x].slave = session[x].slave
                                            /\ session'[x].creds = session[x].creds
                                            /\ session'[x].family = session[x].family,
         \A k \in Sockets : socket[k] # None =>
            socket'[k].auth = socket[k].auth /\ (socket'[k].dead \/ ~socket[k].dead)
  PROVE  Logged'
  <1>1. ASSUME NEW x \in Sessions PROVE LoggedInAt(x)'
    <2>1. CASE ~Alive(x) BY <2>1 DEF LoggedInAt, Alive
    <2>2. CASE Alive(x)
      <3>1. Main(x) # None => /\ socket'[Main(x)].auth = socket[Main(x)].auth
                              /\ socket'[Main(x)].dead \/ ~socket[Main(x)].dead
        BY <2>2, MainIsReserved, Records
      <3>2. LoggedInAt(x) BY DEF Logged
      <3>3. session'[x] # None BY <2>2 DEF Alive
      <3> QED BY <2>2, <3>1, <3>2, <3>3, Elsewhere
    <2> QED BY <2>1, <2>2
  <1>2. Own' BY DEF Own, Logged, Alive
  <1>3. Single' BY SingleStill DEF Alive
  <1> QED BY <1>1, <1>2, <1>3 DEF Logged

LEMMA CopyLogged ==
  ASSUME Inv, Inv', Lone, Logged, NEW s \in Sessions, NEW t \in Sessions, Copy(s, t)
  PROVE  Logged'
  <1>1. op' = op /\ socket' = socket
    BY CopyIs DEF Lone
  <1>2. PICK x \in SessionRecords :
           session' = [session EXCEPT ![t] = x] /\ x.family = t /\ x.master = None /\ x.slave = None
    BY CopyIs DEF Lone
  <1> QED BY <1>1, <1>2, EmptyLogged

\* A session gives up sockets that are no other session's.
LEMMA GivesUpLogged ==
  ASSUME Inv, Inv', Lone, Logged, NEW s \in Sessions, Alive(s), op' = op,
         socket' = Released(socket, Reserved(s)), NEW w, session' = [session EXCEPT ![s] = w],
         w # None => w.master = None /\ w.slave = None /\ w.family = s
  PROVE  Logged'
  <1>1. ASSUME NEW k \in Sockets, NEW x \in Sessions \ {s}, Alive(x), k \in Reserved(x)
        PROVE  socket'[k] = socket[k]
    <2>1. k \notin Reserved(s) BY <1>1, Apart DEF Logged
    <2> QED BY <2>1 DEF Released
  <1> QED BY <1>1, EmptyLogged

LEMMA CloseLogged ==
  ASSUME Inv, Inv', Lone, Logged, NEW s \in Sessions, Close(s)
  PROVE  Logged'
  BY GivesUpLogged DEF Close

LEMMA RefreshLogged ==
  ASSUME Inv, Inv', Lone, Logged, NEW s \in Sessions, Refresh(s)
  PROVE  Logged'
  <1>1. Alive(s) /\ op' = op /\ socket' = Released(socket, Reserved(s)) BY RefreshIs
  <1>2. PICK x \in SessionRecords :
           /\ session' = [session EXCEPT ![s] = x] /\ x.family = session[s].family
           /\ x.master = None /\ x.slave = None
    BY RefreshIs
  <1>3. x.family = s BY <1>1, <1>2 DEF Logged, Own
  <1> QED BY <1>1, <1>2, <1>3, GivesUpLogged

LEMMA SetModeLogged ==
  ASSUME Inv, Inv', Lone, Logged, NEW s \in Sessions, SetMode(s)
  PROVE  Logged'
  <1> DEFINE v == session[s]
  <1>1. Alive(s) /\ UNCHANGED <<socket, op>> BY DEF SetMode
  <1>2. v \in SessionRecords BY <1>1 DEF Alive, Inv, TypeOK
  <1>3. PICK mode \in {"Eventual", "Monotonic", "Strong"}, ok \in BOOLEAN :
           session' = [session EXCEPT ![s] = [v EXCEPT !.mode = mode, !.slaveOk = ok]]
    <2>1. PICK mode \in Modes \ {v.mode} :
            session' = [session EXCEPT ![s] = [v EXCEPT !.mode = mode, !.slaveOk = SlaveOkIn(v, mode)]]
      BY DEF SetMode
    <2>2. PICK ok \in BOOLEAN : ok = SlaveOkIn(v, mode) BY <1>2, SessionShape DEF SlaveOkIn
    <2>3. session' = [session EXCEPT ![s] = [v EXCEPT !.mode = mode, !.slaveOk = ok]] BY <2>1, <2>2
    <2> QED BY <2>1, <2>3, ModesAssumption
  <1> DEFINE x == [v EXCEPT !.mode = mode, !.slaveOk = ok]
  <1>4. x = [mode |-> mode, slaveOk |-> ok, master |-> v.master, slave |-> v.slave,
             creds |-> v.creds, family |-> v.family, wrote |-> v.wrote]
    BY ONLY <1>2, ModeRecord
  <1> HIDE DEF x
  <1>5. session'[s] = x /\ \A y \in Sessions \ {s} : session'[y] = session[y]
    BY <1>3 DEF x, Inv, TypeOK
  <1>6. x.master = v.master /\ x.slave = v.slave /\ x.creds = v.creds /\ x.family = v.family BY <1>4
  <1>7. x # None BY <1>2, <1>4, SessionShape, SessionFrom
  <1> QED BY <1>1, <1>5, <1>6, <1>7, KeepLogged DEF Alive

LEMMA DieLogged ==
  ASSUME Inv, Inv', Logged, NEW k \in Sockets, Die(k)
  PROVE  Logged'
  <1> DEFINE r == socket[k]  q == [r EXCEPT !.dead = TRUE, !.pooled = FALSE]
  <1>1. session' = session /\ op' = op /\ socket' = [socket EXCEPT ![k] = q] /\ r # None BY DEF Die
  <1>2. r \in SocketRecords BY <1>1 DEF Inv, TypeOK
  <1>3. q = [refs |-> r.refs, role |-> r.role, pooled |-> FALSE, dead |-> TRUE, auth |-> r.auth]
    BY ONLY <1>2, DeadRecord
  <1> HIDE DEF q
  <1>4. q.auth = r.auth /\ q.dead BY <1>3
  <1>5. socket'[k] = q /\ \A j \in Sockets \ {k} : socket'[j] = socket[j] BY <1>1 DEF Inv, TypeOK
  <1>6. ASSUME NEW j \in Sockets, socket[j] # None
        PROVE  socket'[j].auth = socket[j].auth /\ (socket'[j].dead \/ ~socket[j].dead)
    <2>1. socket[j] \in SocketRecords BY <1>6 DEF Inv, TypeOK
    <2> QED BY <1>4, <1>5, <2>1, SocketShape
  <1> QED BY <1>1, <1>6, KeepLogged

\* A session that is logged out of all its databases leaves nobody logged in.
LEMMA LogoutAllLogged ==
  ASSUME Inv, Inv', Lone, Logged, NEW s \in Sessions, LogoutAll(s)
  PROVE  Logged'
  <1> DEFINE cs == session[s].creds  xs == {c.source : c \in ToSet(cs)}
  <1>1. /\ Alive(s) /\ UNCHANGED op
        /\ session' = [session EXCEPT ![s].creds = <<>>] /\ socket' = LoggedOut(s, xs)
    BY DEF LogoutAll
  <1>2. cs \in Seq(Creds)
    <2>1. session[s] \in SessionRecords BY <1>1 DEF Alive, Inv, TypeOK
    <2> QED BY <2>1, SessionShape
  <1>3. <<>> \in Seq(Creds) OBVIOUS
  <1>4. /\ SameSessions /\ session'[s].creds = <<>>
        /\ \A x \in Sessions \ {s} : session'[x] = session[x]
    BY <1>1, <1>3, CredsStep DEF Inv
  <1>5. ASSUME NEW k \in Reserved(s)
        PROVE  /\ socket'[k].dead = socket[k].dead
               /\ socket'[k].auth = [x \in Sources |-> IF x \in xs THEN None ELSE socket[k].auth[x]]
    <2> DEFINE a == [x \in Sources |-> IF x \in xs THEN None ELSE socket[k].auth[x]]
    <2>1. k \in Sockets /\ socket[k] \in SocketRecords BY <1>1, <1>5, ReservedIn DEF Inv, Holding
    <2>2. a \in [Sources -> Users \cup {None}] BY <2>1, SocketShape
    <2>3. socket'[k] = [socket[k] EXCEPT !.auth = a] BY <1>1, <1>5, <2>1 DEF LoggedOut
    <2> HIDE DEF a
    <2>4. socket'[k].dead = socket[k].dead /\ socket'[k].auth = a
      BY <2>1, <2>2, <2>3, OtherAuth DEF Alike
    <2> QED BY <2>4 DEF a
  <1>6. Main(s)' = Main(s) BY <1>1, <1>4 DEF Main, SameSessions
  <1>7. LoggedInAt(s)'
    <2> SUFFICES ASSUME Main(s) # None, ~socket'[Main(s)].dead
                 PROVE  LoggedInAs(socket'[Main(s)].auth, <<>>)
      BY <1>4, <1>6 DEF LoggedInAt, LoggedInAs
    <2> DEFINE k == Main(s)
    <2>1. k \in Reserved(s) BY <1>1, MainIsReserved
    <2>2. LoggedInAs(socket[k].auth, cs) BY <1>1, <1>5, <2>1 DEF Logged, LoggedInAt
    <2>3. ASSUME NEW x \in Sources PROVE socket'[k].auth[x] = None
      <3>1. CASE x \in xs BY <1>5, <2>1, <3>1
      <3>2. CASE x \notin xs
        <4>1. \A i \in DOMAIN cs : cs[i].source # x BY <3>2 DEF ToSet
        <4>2. socket[k].auth[x] = None BY <2>2, <4>1 DEF LoggedInAs
        <4> QED BY <1>5, <2>1, <3>2, <4>2
      <3> QED BY <3>1, <3>2
    <2>4. DOMAIN <<>> = {} OBVIOUS
    <2> QED BY <2>3, <2>4 DEF LoggedInAs
  <1>8. ASSUME NEW x \in Sessions \ {s}, Alive(x), NEW k \in Reserved(x)
        PROVE  socket'[k].auth = socket[k].auth /\ (socket'[k].dead \/ ~socket[k].dead)
    <2>1. k \notin Reserved(s) BY <1>1, <1>8, Apart DEF Logged
    <2>2. k \in Sockets /\ socket[k] \in SocketRecords BY <1>8, ReservedIn DEF Inv, Holding
    <2>3. socket'[k] = socket[k] BY <1>1, <2>1, <2>2 DEF LoggedOut
    <2> QED BY <2>2, <2>3, SocketShape
  <1>9. session'[s].family = s BY <1>1, <1>4 DEF SameSessions, Logged, Own
  <1>10. (\A x \in Sessions : LoggedInAt(x)') /\ Own' BY <1>4, <1>7, <1>8, <1>9, OthersStay
  <1>11. Single' BY <1>1, <1>4, SingleStill DEF SameSessions, Alive
  <1> QED BY <1>10, <1>11 DEF Logged

\* The socket of an operation whose session keeps it is not logged out when the
\* operation ends, and a login is noted by the socket and by the session.
LEMMA EndLogged ==
  ASSUME Inv, Inv', Lone, Logged, NEW g \in Goroutines, End(g)
  PROVE  Logged'
  <1>0. PICK o, k, t : o = op[g] /\ k = o.sock /\ t = o.s OBVIOUS
  <1>1. o # None /\ op' = [op EXCEPT ![g] = None] BY <1>0 DEF End
  <1>2. o \in OpRecords BY <1>0, <1>1 DEF Inv, TypeOK
  <1>3. k \in Sockets /\ t \in Sessions /\ Alive(t) /\ socket[k] \in SocketRecords /\ socket[k] # None
    BY <1>0, <1>1, <1>2, OpShape DEF Inv, OpsHold, Holding, TypeOK
  <1>4. session[t] \in SessionRecords BY <1>3 DEF Alive, Inv, TypeOK
  <1>5. Single' BY <1>1 DEF Single, Lone, Inv, TypeOK
  <1>6. /\ Main(t) # None => Main(t) = k
        /\ \A x \in Sessions \ {t} : Alive(x) => k \notin Reserved(x)
    BY <1>0, <1>1 DEF Logged, Single
  <1>7. Main(t) # None => Holders(k) > 1 /\ Holders(k) \in Nat /\ Counted(socket[k], Holders(k))
    <2> SUFFICES ASSUME Main(t) # None PROVE Holders(k) > 1 /\ Holders(k) \in Nat /\ Counted(socket[k], Holders(k))
      OBVIOUS
    <2>1. t \in Reservers(k) BY <1>3, <1>6, MainIsReserved, ReservedIn DEF Inv, Holding
    <2>2. g \in UsersOf(k) BY <1>0, <1>1 DEF UsersOf
    <2>3. Cardinality(Reservers(k)) > 0 /\ Cardinality(UsersOf(k)) > 0
          /\ Cardinality(Reservers(k)) \in Nat /\ Cardinality(UsersOf(k)) \in Nat
      BY <2>1, <2>2, HoldersCount
    <2>4. Counted(socket[k], Holders(k)) BY <1>3 DEF Inv, Holding, RefsCounted, Counted
    <2> QED BY <2>3, <2>4 DEF Holders
  <1>8. ASSUME NEW so, so[k] \in SocketRecords, Alike(so[k], socket[k]), socket' = Released(so, {k}), Main(t) # None
        PROVE  socket'[k].auth = so[k].auth /\ socket'[k].dead = so[k].dead
    <2>1. Counted(so[k], Holders(k)) /\ Holders(k) > 1 /\ Holders(k) \in Nat
      BY <1>7, <1>8 DEF Counted, Alike
    <2>2. Holders(k) > 0 /\ k \in {k} BY <2>1
    <2> QED BY <1>3, <1>8, <2>1, <2>2, ReleaseOne
  <1>9. ASSUME NEW so, \A j \in Sockets \ {k} : so[j] = socket[j], socket' = Released(so, {k}),
               NEW x \in Sessions \ {t}, Alive(x), NEW j \in Reserved(x)
        PROVE  socket'[j].auth = socket[j].auth /\ (socket'[j].dead \/ ~socket[j].dead)
    <2>1. j # k /\ j \in Sockets /\ socket[j] \in SocketRecords
      BY <1>6, <1>9, ReservedIn DEF Inv, Holding
    <2>2. socket'[j] = socket[j] BY <1>9, <2>1 DEF Released
    <2> QED BY <2>1, <2>2, SocketShape
  <1>10. CASE o.kind = "login" /\ ~socket[k].dead
    <2> DEFINE a == [socket[k].auth EXCEPT ![o.cred.source] = o.cred.user]
               q == [socket[k] EXCEPT !.auth = a]
               so == [socket EXCEPT ![k] = q]
               cs == session[t].creds
    <2>1. /\ socket' = Released(so, {k})
          /\ session' = [session EXCEPT ![t].creds = Append(cs, o.cred)]
      BY <1>0, <1>3, <1>10 DEF End
    <2>2. o.cred \in Creds /\ cs \in Seq(Creds) /\ socket[k].auth \in [Sources -> Users \cup {None}]
      BY <1>2, <1>3, <1>4, <1>10, OpShape, SocketShape, SessionShape
    <2>3. a \in [Sources -> Users \cup {None}] BY <2>2 DEF Sources, Users
    <2>4. q \in SocketRecords /\ Alike(q, socket[k]) /\ q.auth = a BY <1>3, <2>3, OtherAuth
    <2>5. so[k] = q /\ \A j \in Sockets \ {k} : so[j] = socket[j] BY <1>3 DEF Inv, TypeOK
    <2>6. Append(cs, o.cred) \in Seq(Creds) BY <2>2
    <2>7. /\ SameSessions /\ session'[t].creds = Append(cs, o.cred)
          /\ \A x \in Sessions \ {t} : session'[x] = session[x]
      BY <1>3, <2>1, <2>6, CredsStep DEF Inv
    <2>8. Main(t)' = Main(t) BY <1>3, <2>7 DEF Main, SameSessions
    <2>9. LoggedInAt(t)'
      <3> SUFFICES ASSUME Main(t) # None PROVE LoggedInAs(socket'[k].auth, session'[t].creds)
        BY <1>6, <2>8 DEF LoggedInAt, LoggedInAs
      <3>1. LoggedInAs(socket[k].auth, cs) BY <1>3, <1>6, <1>10 DEF Logged, LoggedInAt
      <3>2. LoggedInAs(a, Append(cs, o.cred)) BY <2>2, <3>1, LoginsOne
      <3>3. socket'[k].auth = a
        <4>1. so[k] \in SocketRecords /\ Alike(so[k], socket[k]) /\ so[k].auth = a BY <2>4, <2>5
        <4> HIDE DEF so, a
        <4> QED BY <1>8, <2>1, <4>1
      <3> HIDE DEF a
      <3> QED BY <2>7, <3>2, <3>3
    <2>10. session'[t].family = t BY <1>3, <2>7 DEF SameSessions, Logged, Own
    <2>11. ASSUME NEW x \in Sessions \ {t}, Alive(x), NEW j \in Reserved(x)
           PROVE  socket'[j].auth = socket[j].auth /\ (socket'[j].dead \/ ~socket[j].dead)
      <3> HIDE DEF so
      <3> QED BY <1>9, <2>1, <2>5, <2>11
    <2>12. (\A x \in Sessions : LoggedInAt(x)') /\ Own'
      BY <1>3, <2>7, <2>9, <2>10, <2>11, OthersStay
    <2> QED BY <1>5, <2>12 DEF Logged
  <1>11. CASE ~(o.kind = "login" /\ ~socket[k].dead)
    <2>1. socket' = Released(socket, {k}) /\ session' = session BY <1>0, <1>11 DEF End
    <2>2. LoggedInAt(t)'
      <3>1. Alike(socket[k], socket[k]) BY DEF Alike
      <3>2. Main(t) # None => socket'[k].auth = socket[k].auth /\ socket'[k].dead = socket[k].dead
        BY <1>3, <1>8, <2>1, <3>1
      <3>3. LoggedInAt(t) /\ session'[t] # None BY <1>3, <2>1 DEF Logged, Alive
      <3>4. Main(t) # None => /\ socket'[Main(t)].auth = socket[Main(t)].auth
                              /\ socket'[Main(t)].dead \/ ~socket[Main(t)].dead
        BY <1>3, <1>6, <3>2, SocketShape
      <3> QED BY <1>3, <2>1, <3>3, <3>4, Elsewhere
    <2>3. session'[t].family = t BY <1>3, <2>1 DEF Logged, Own
    <2>4. \A x \in Sessions \ {t} : Alive(x) => \A j \in Reserved(x) :
             socket'[j].auth = socket[j].auth /\ (socket'[j].dead \/ ~socket[j].dead)
      BY <1>9, <2>1
    <2>5. (\A x \in Sessions : LoggedInAt(x)') /\ Own'
      BY <1>3, <2>1, <2>2, <2>3, <2>4, OthersStay
    <2> QED BY <1>5, <2>5 DEF Logged
  <1> QED BY <1>10, <1>11

LEMMA LoggedInitially == Init => Logged
  <1> SUFFICES ASSUME Init PROVE Logged OBVIOUS
  <1>1. \A s \in Sessions : Alive(s) => s = First /\ Main(s) = None /\ session[s].family = s
    BY DEF Init, Alive, Main
  <1>2. \A g \in Goroutines : op[g] = None BY DEF Init
  <1> QED BY <1>1, <1>2 DEF Logged, LoggedInAt, Own, Single

LEMMA LoggedStep == Inv /\ Inv' /\ Lone /\ Logged /\ [Next]_vars => Logged'
  <1> SUFFICES ASSUME Inv, Inv', Lone, Logged, [Next]_vars PROVE Logged' OBVIOUS
  <1>1. CASE UNCHANGED vars
    <2>1. session' = session /\ socket' = socket /\ op' = op BY <1>1 DEF vars
    <2>2. \A k \in Sockets : socket[k] # None => socket[k].dead \/ ~socket[k].dead
      BY SocketShape DEF Inv, TypeOK
    <2> QED BY <2>1, <2>2, KeepLogged
  <1>2. ASSUME NEW g \in Goroutines, Begin(g) PROVE Logged'
    <2>1. TakesNone => Logged'
      <3>1. \A k \in Sockets : socket[k] # None => socket[k].dead \/ ~socket[k].dead
        BY SocketShape DEF Inv, TypeOK
      <3> QED BY <3>1, KeepLogged DEF TakesNone
    <2> QED BY <1>2, <2>1, BeginIs, ReadyLogged, OtherLogged
  <1>3. CASE \E g \in Goroutines : End(g) BY <1>3, EndLogged
  <1>4. CASE \E s, t \in Sessions : Copy(s, t) BY <1>4, CopyLogged
  <1>5. CASE \E s \in Sessions : Close(s) \/ Refresh(s) \/ SetMode(s) \/ LogoutAll(s)
    BY <1>5, CloseLogged, RefreshLogged, SetModeLogged, LogoutAllLogged
  <1>6. CASE \E s \in Sessions, x \in Sources : Logout(s, x) BY <1>6 DEF Logout, Lone
  <1>7. CASE \E k \in Sockets : Die(k) BY <1>7, DieLogged
  <1> QED BY <1>1, <1>2, <1>3, <1>4, <1>5, <1>6, <1>7 DEF Next

\* A session that one goroutine uses, and that is not cloned, goes on over a socket that
\* is logged in as its credentials say: after logins, refreshes, changes of its mode and
\* the death of sockets, while others of the same credentials or other ones come and go.
THEOREM LoginsAreRight == Lone => (Spec => []LoggedIn)
  <1> SUFFICES ASSUME Lone PROVE Spec => []LoggedIn OBVIOUS
  <1>1. Init => Inv /\ Logged BY Initially, LoggedInitially
  <1>2. Inv /\ Logged /\ [Next]_vars => Inv' /\ Logged' BY EveryStep, LoggedStep
  <1>3. Logged => LoggedIn BY DEF Logged, LoggedInAt, LoggedIn
  <1> QED BY <1>1, <1>2, <1>3, PTL DEF Spec
=============================================================================
