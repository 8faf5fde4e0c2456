--------------------------- MODULE MgoServerProofs ---------------------------
(***************************************************************************)
(* Theorems about MgoServer: a socket has one owner or is in the pool      *)
(* once, no connection is lost from sight, and there are never more        *)
(* connections alive than goroutines.  For any number of users, sockets    *)
(* and references, with a limit or without.                                *)
(***************************************************************************)
EXTENDS MgoServer, FiniteSetTheorems, SequenceTheorems, TLAPS

(***************************************************************************)
(* The pool as a sequence                                                  *)
(***************************************************************************)

LEMMA FrontOfPool ==
  ASSUME NEW S, NEW q \in Seq(S), q # <<>>, IsInjective(q)
  PROVE  /\ Front(q) \in Seq(S) /\ IsInjective(Front(q))
         /\ Last(q) \in ToSet(q) /\ ToSet(Front(q)) = ToSet(q) \ {Last(q)}
  <1> DEFINE n == Len(q)
  <1>1. n \in Nat \ {0} /\ DOMAIN q = 1..n /\ q \in [1..n -> S] BY EmptySeq, LenProperties
  <1>2. Front(q) = [i \in 1..(n - 1) |-> q[i]] BY <1>1 DEF Front
  <1>3. Front(q) \in Seq(S) BY <1>1 DEF Front
  <1>4. DOMAIN Front(q) = 1..(n - 1) /\ \A i \in 1..(n - 1) : Front(q)[i] = q[i] BY <1>2
  <1>5. IsInjective(Front(q)) BY <1>1, <1>4 DEF IsInjective
  <1>6. ToSet(Front(q)) = ToSet(q) \ {Last(q)}
    BY <1>1, <1>4 DEF ToSet, Last, IsInjective
  <1>7. Last(q) \in ToSet(q) BY <1>1 DEF Last, ToSet
  <1> QED BY <1>3, <1>5, <1>6, <1>7

LEMMA AppendToPool ==
  ASSUME NEW S, NEW q \in Seq(S), IsInjective(q), NEW s \in S, s \notin ToSet(q)
  PROVE  /\ Append(q, s) \in Seq(S) /\ IsInjective(Append(q, s))
         /\ ToSet(Append(q, s)) = ToSet(q) \cup {s}
  <1> DEFINE n == Len(q)  r == Append(q, s)
  <1>1. n \in Nat /\ DOMAIN q = 1..n BY LenProperties
  <1>2. r \in Seq(S) /\ DOMAIN r = 1..(n + 1) /\ r[n + 1] = s /\ \A i \in 1..n : r[i] = q[i] BY <1>1
  <1> HIDE DEF r, n
  <1>3. ToSet(r) = ToSet(q) \cup {s} BY <1>1, <1>2 DEF ToSet
  <1>4. IsInjective(r) BY <1>1, <1>2 DEF IsInjective, ToSet
  <1> QED BY <1>2, <1>3, <1>4 DEF r

LEMMA RemoveAtOfPool ==
  ASSUME NEW S, NEW q \in Seq(S), NEW i \in 1..Len(q)
  PROVE  /\ RemoveAt(q, i) \in Seq(S) /\ DOMAIN RemoveAt(q, i) = 1..(Len(q) - 1)
         /\ \A j \in 1..(Len(q) - 1) : RemoveAt(q, i)[j] = IF j < i THEN q[j] ELSE q[j + 1]
  <1>1. PICK n \in Nat : n = Len(q) BY LenProperties
  <1>2. DOMAIN q = 1..n /\ \A j \in 1..n : q[j] \in S BY <1>1, LenProperties
  <1>3. PICK a : a = SubSeq(q, 1, i - 1) OBVIOUS
  <1>4. PICK b : b = SubSeq(q, i + 1, n) OBVIOUS
  <1>5. a \in Seq(S) /\ Len(a) = i - 1 /\ \A j \in 1..(i - 1) : a[j] = q[j]
    <2>1. i \in 1..n /\ 1 \in Int /\ i - 1 \in Int /\ \A j \in 1..(i - 1) : q[j] \in S BY <1>1, <1>2
    <2>2. /\ a \in Seq(S) /\ Len(a) = IF 1 <= i - 1 THEN (i - 1) - 1 + 1 ELSE 0
          /\ \A j \in 1..((i - 1) - 1 + 1) : a[j] = q[1 + j - 1]
      BY ONLY <2>1, <1>3, SubSeqProperties
    <2>3. \A j \in 1..(i - 1) : 1 + j - 1 = j /\ j \in 1..((i - 1) - 1 + 1) BY <2>1
    <2>4. \A j \in 1..(i - 1) : a[j] = q[j] BY <2>2, <2>3
    <2> QED BY <2>1, <2>2, <2>4
  <1>6. b \in Seq(S) /\ Len(b) = n - i /\ \A j \in 1..(n - i) : b[j] = q[i + j]
    <2>1. i \in 1..n /\ n \in Int /\ i + 1 \in Int /\ \A j \in (i + 1)..n : q[j] \in S BY <1>1, <1>2
    <2>2. /\ b \in Seq(S) /\ Len(b) = IF i + 1 <= n THEN n - (i + 1) + 1 ELSE 0
          /\ \A j \in 1..(n - (i + 1) + 1) : b[j] = q[(i + 1) + j - 1]
      BY ONLY <2>1, <1>4, SubSeqProperties
    <2>3. \A j \in 1..(n - i) : (i + 1) + j - 1 = i + j /\ j \in 1..(n - (i + 1) + 1) BY <2>1
    <2>4. \A j \in 1..(n - i) : b[j] = q[i + j] BY <2>2, <2>3
    <2> QED BY <2>1, <2>2, <2>4
  <1>7. PICK r : r = a \o b OBVIOUS
  <1>8. RemoveAt(q, i) = r BY <1>1, <1>3, <1>4, <1>7 DEF RemoveAt
  <1>9. /\ r \in Seq(S) /\ Len(r) = Len(a) + Len(b)
        /\ \A j \in 1..(Len(a) + Len(b)) : r[j] = IF j <= Len(a) THEN a[j] ELSE b[j - Len(a)]
    BY ONLY <1>5, <1>6, <1>7, ConcatProperties
  <1>10. i \in 1..n /\ Len(a) + Len(b) = n - 1 BY <1>1, <1>5, <1>6
  <1>11. DOMAIN r = 1..(n - 1) BY <1>9, <1>10, LenProperties
  <1>12. ASSUME NEW j \in 1..(n - 1) PROVE r[j] = IF j < i THEN q[j] ELSE q[j + 1]
    <2>1. r[j] = IF j <= i - 1 THEN a[j] ELSE b[j - (i - 1)] BY <1>5, <1>9, <1>10
    <2>2. CASE j < i BY <1>5, <1>10, <2>1, <2>2
    <2>3. CASE ~(j < i)
      <3>1. j - (i - 1) \in 1..(n - i) /\ i + (j - (i - 1)) = j + 1 /\ ~(j <= i - 1) BY <1>10, <2>3
      <3>2. r[j] = b[j - (i - 1)] BY <2>1, <3>1
      <3> QED BY <1>6, <2>3, <3>1, <3>2
    <2> QED BY <2>2, <2>3
  <1> QED BY <1>1, <1>8, <1>9, <1>11, <1>12

LEMMA RemoveFromPool ==
  ASSUME NEW S, NEW q \in Seq(S), IsInjective(q), NEW s
  PROVE  /\ removeSocket(q, s) \in Seq(S) /\ IsInjective(removeSocket(q, s))
         /\ ToSet(removeSocket(q, s)) = ToSet(q) \ {s}
  <1>1. CASE s \notin ToSet(q) BY <1>1 DEF removeSocket
  <1>2. CASE s \in ToSet(q)
    <2> DEFINE First(i) == q[i] = s /\ \A j \in DOMAIN q : j < i => q[j] # s
    <2>1. PICK n \in Nat : n = Len(q) /\ DOMAIN q = 1..n BY LenProperties
    <2>2. PICK i \in DOMAIN q : First(i)
      <3>1. PICK i \in DOMAIN q : q[i] = s BY <1>2 DEF ToSet
      <3>2. \A j \in DOMAIN q : j < i => q[j] # s BY <2>1, <3>1 DEF IsInjective
      <3> QED BY <3>1, <3>2
    <2>3. \A j \in DOMAIN q : First(j) => j = i BY <2>2 DEF IsInjective
    <2>4. (CHOOSE j \in DOMAIN q : First(j)) = i BY <2>2, <2>3
    <2>5. PICK r : r = RemoveAt(q, i) OBVIOUS
    <2>6. removeSocket(q, s) = r BY <1>2, <2>4, <2>5 DEF removeSocket
    <2>7. i \in 1..n /\ q[i] = s BY <2>1, <2>2
    <2>8. /\ r \in Seq(S) /\ DOMAIN r = 1..(n - 1)
          /\ \A j \in 1..(n - 1) : r[j] = IF j < i THEN q[j] ELSE q[j + 1]
      BY <2>1, <2>5, <2>7, RemoveAtOfPool
    <2>9. IsInjective(r)
      <3> SUFFICES ASSUME NEW x \in 1..(n - 1), NEW y \in 1..(n - 1), r[x] = r[y] PROVE x = y
        BY <2>8 DEF IsInjective
      <3> DEFINE at(z) == IF z < i THEN z ELSE z + 1
      <3>1. at(x) \in 1..n /\ at(y) \in 1..n BY <2>7
      <3>2. r[x] = q[at(x)] /\ r[y] = q[at(y)] BY <2>8
      <3>3. at(x) = at(y) BY <2>1, <3>1, <3>2 DEF IsInjective
      <3> QED BY <2>7, <3>3
    <2>10. ToSet(r) = ToSet(q) \ {s}
      <3>1. ASSUME NEW j \in 1..(n - 1) PROVE r[j] \in ToSet(q) \ {s}
        <4>1. PICK k \in 1..n : k # i /\ r[j] = q[k]
          <5>1. CASE j < i BY <2>7, <2>8, <5>1
          <5>2. CASE ~(j < i) 
            <6>1. j + 1 \in 1..n /\ j + 1 # i BY <2>7, <5>2
            <6>2. r[j] = q[j + 1] BY <2>8, <5>2
            <6> QED BY <6>1, <6>2
          <5> QED BY <5>1, <5>2
        <4>2. q[k] # s BY <2>1, <2>7, <4>1 DEF IsInjective
        <4> QED BY <2>1, <4>1, <4>2 DEF ToSet
      <3>2. ASSUME NEW j \in 1..n, q[j] # s PROVE q[j] \in ToSet(r)
        <4>1. CASE j < i
          <5>1. j \in 1..(n - 1) /\ r[j] = q[j] BY <2>7, <2>8, <4>1
          <5> QED BY <2>8, <5>1 DEF ToSet
        <4>2. CASE j > i
          <5>1. j - 1 \in 1..(n - 1) /\ ~(j - 1 < i) /\ (j - 1) + 1 = j BY <2>7, <4>2
          <5>2. r[j - 1] = q[j] BY <2>8, <5>1
          <5> QED BY <2>8, <5>1, <5>2 DEF ToSet
        <4> QED BY <2>7, <3>2, <4>1, <4>2
      <3> QED BY <2>1, <2>8, <3>1, <3>2 DEF ToSet
    <2> QED BY <2>6, <2>8, <2>9, <2>10
  <1> QED BY <1>1, <1>2

(***************************************************************************)
(* The inductive invariant                                                 *)
(***************************************************************************)

Pool == ToSet(unused)

\* A goroutine that has a socket, and has not given it up.
Active(a) == pc[a] \in {"reuse", "connected", "use", "refuse", "recycle"}
Has(a, s) == Active(a) /\ sock[a] = s

\* No two have the same.
Apart == \A a, b \in Acquirers : Active(a) /\ Active(b) /\ sock[a] = sock[b] => a = b

\* What is in the pool is there once, and nobody's.
Placed ==
    /\ IsInjective(unused)
    /\ \A s \in Pool : references[s] = 0 /\ reader[s] # "off" /\ \A a \in Acquirers : ~Has(a, s)

\* The references to a socket are those of the goroutine that has it.
Counts ==
    \A a \in Acquirers :
        /\ Active(a) => /\ sock[a] \in Sockets /\ reader[sock[a]] # "off"
                        /\ references[sock[a]] = held[a]
        /\ pc[a] = "connected" => held[a] = 1
        /\ pc[a] = "use" => held[a] > 0
        /\ pc[a] \notin {"connected", "use"} => held[a] = 0

\* Nobody knows of a socket that is not connected yet.
Born ==
    \A s \in Sockets :
        /\ alive[s] => reader[s] = "loop"
        /\ reader[s] = "off" => references[s] = 0 /\ s \notin live \cup victims

\* Before Close, and after.
Closing ==
    IF closed THEN unused = <<>> /\ live = {}
    ELSE victims = {} /\ \A a \in Acquirers : pc[a] # "refuse"

\* Somebody has every connection that is alive, or the pool: a goroutine that
\* finds the pool empty has none, so that there is room for another.
Kept == closed \/ \A s \in Sockets : alive[s] => s \in Pool \/ \E a \in Acquirers : Has(a, s)

Living     == {s \in Sockets : alive[s]}
Connecting == {a \in Acquirers : pc[a] = "connect"}
Few == Cardinality(Living) + Cardinality(Connecting) <= Cardinality(Acquirers)

Inv == PoolTypeOK /\ Apart /\ Placed /\ Counts /\ Born /\ Closing /\ NoneLost /\ Kept /\ Few

(***************************************************************************)
(* Lemmas on its parts                                                     *)
(***************************************************************************)

Places == {"idle", "acquire", "reuse", "connect", "connected", "use", "recycle", "refuse", "after", "over"}

LEMMA Moves ==
  ASSUME PoolTypeOK, NEW a \in Acquirers, NEW w \in Places, NEW s \in Sockets \cup {NoSocket}, Goto(a, w, s)
  PROVE  /\ pc' \in [Acquirers -> Places] /\ sock' \in [Acquirers -> Sockets \cup {NoSocket}]
         /\ pc'[a] = w /\ sock'[a] = s
         /\ \A b \in Acquirers : b # a => pc'[b] = pc[b] /\ sock'[b] = sock[b]
  BY DEF PoolTypeOK, Places, Goto

LEMMA FiniteActors ==
  ASSUME ActorsAssumption
  PROVE  IsFiniteSet(Acquirers) /\ IsFiniteSet(Sockets)
  <1>1. IsFiniteSet(Users) /\ IsFiniteSet(Sockets) BY DEF ActorsAssumption
  <1>2. IsFiniteSet(Users \cup {Pinger}) BY ONLY <1>1, FS_AddElement
  <1> QED BY <1>1, <1>2 DEF Acquirers

LEMMA NoMore ==
  ASSUME ActorsAssumption, Few, Living' \subseteq Living, Connecting' \subseteq Connecting
  PROVE  Few'
  <1>1. IsFiniteSet(Living) /\ IsFiniteSet(Connecting) /\ Cardinality(Acquirers) \in Nat
    <2>1. Living \in SUBSET Sockets /\ Connecting \in SUBSET Acquirers BY DEF Living, Connecting
    <2> QED BY <2>1, FiniteActors, FS_Subset, FS_CardinalityType
  <1>2. Cardinality(Living') <= Cardinality(Living) /\ Cardinality(Living') \in Nat
    <2>1. Living' \in SUBSET Living OBVIOUS
    <2> QED BY <1>1, <2>1, FS_Subset, FS_CardinalityType
  <1>3. Cardinality(Connecting') <= Cardinality(Connecting) /\ Cardinality(Connecting') \in Nat
    <2>1. Connecting' \in SUBSET Connecting OBVIOUS
    <2> QED BY <1>1, <2>1, FS_Subset, FS_CardinalityType
  <1>4. Cardinality(Living) \in Nat /\ Cardinality(Connecting) \in Nat BY <1>1, FS_CardinalityType
  <1> QED BY <1>1, <1>2, <1>3, <1>4 DEF Few

(***************************************************************************)
(* AcquireSocket                                                           *)
(***************************************************************************)

LEMMA CallKeeps ==
  ASSUME ActorsAssumption, LimitAssumption, Inv, NEW a \in Acquirers, Call(a)
  PROVE  Inv'
  <1> USE DEF Inv
  <1>1. /\ pc' \in [Acquirers -> Places] /\ sock' \in [Acquirers -> Sockets \cup {NoSocket}]
        /\ pc[a] = "idle" /\ pc'[a] = "acquire" /\ sock'[a] = NoSocket
        /\ \A b \in Acquirers : b # a => pc'[b] = pc[b] /\ sock'[b] = sock[b]
    BY Moves DEF Call, Places
  <1>2. /\ unused' = unused /\ live' = live /\ closed' = closed /\ abended' = abended
        /\ resync' = resync /\ references' = references /\ alive' = alive
        /\ reader' = reader /\ held' = held /\ victims' = victims
    BY DEF Call, serverFields, sockets
  <1>3. PoolTypeOK' BY <1>1, <1>2 DEF PoolTypeOK, Places
  <1>4. Apart' BY <1>1 DEF Apart, Active
  <1>5. Placed' BY <1>1, <1>2 DEF Placed, Pool, Has, Active
  <1>6. Counts' BY <1>1, <1>2 DEF Counts, Active
  <1>7. Born' BY <1>2 DEF Born
  <1>8. Closing' BY <1>1, <1>2 DEF Closing
  <1>9. NoneLost' BY <1>1, <1>2 DEF NoneLost
  <1>10. Kept' BY <1>1, <1>2 DEF Kept, Pool, Has, Active
  <1>11. Few'
    <2>1. Living' = Living BY <1>2 DEF Living
    <2>2. Connecting' \subseteq Connecting BY <1>1 DEF Connecting
    <2> QED BY <2>1, <2>2, NoMore
  <1> QED BY <1>3, <1>4, <1>5, <1>6, <1>7, <1>8, <1>9, <1>10, <1>11

\* A call that gives no socket
LEMMA EndKeeps ==
  ASSUME ActorsAssumption, LimitAssumption, Inv, NEW a \in Acquirers, pc[a] = "acquire" \/ pc[a] = "connect",
         NEW w \in {"idle", "over", "acquire"}, Goto(a, w, NoSocket),
         UNCHANGED <<serverFields, sockets, held, victims>>
  PROVE  Inv'
  <1> USE DEF Inv
  <1>1. /\ pc' \in [Acquirers -> Places] /\ sock' \in [Acquirers -> Sockets \cup {NoSocket}]
        /\ pc'[a] = w /\ sock'[a] = NoSocket
        /\ \A b \in Acquirers : b # a => pc'[b] = pc[b] /\ sock'[b] = sock[b]
    BY Moves DEF Places
  <1>2. /\ unused' = unused /\ live' = live /\ closed' = closed /\ abended' = abended
        /\ resync' = resync /\ references' = references /\ alive' = alive
        /\ reader' = reader /\ held' = held /\ victims' = victims
    BY DEF serverFields, sockets
  <1>3. PoolTypeOK' BY <1>1, <1>2 DEF PoolTypeOK, Places
  <1>4. Apart' BY <1>1 DEF Apart, Active
  <1>5. Placed' BY <1>1, <1>2 DEF Placed, Pool, Has, Active
  <1>6. Counts' BY <1>1, <1>2 DEF Counts, Active
  <1>7. Born' BY <1>2 DEF Born
  <1>8. Closing' BY <1>1, <1>2 DEF Closing
  <1>9. NoneLost' BY <1>1, <1>2 DEF NoneLost
  <1>10. Kept' BY <1>1, <1>2 DEF Kept, Pool, Has, Active
  <1>11. Few'
    <2>1. Living' = Living BY <1>2 DEF Living
    <2>2. Connecting' \subseteq Connecting BY <1>1 DEF Connecting
    <2> QED BY <2>1, <2>2, NoMore
  <1> QED BY <1>3, <1>4, <1>5, <1>6, <1>7, <1>8, <1>9, <1>10, <1>11

\* With the pool empty there is room for another connection: each that is alive
\* has a goroutine of its own, which is not connecting, and neither is a.
LEMMA RoomForOne ==
  ASSUME ActorsAssumption, Inv, NEW a \in Acquirers, ~closed, unused = <<>>, pc[a] = "acquire"
  PROVE  Cardinality(Living) + Cardinality(Connecting) + 1 <= Cardinality(Acquirers)
  <1> USE DEF Inv
  <1> DEFINE Owning == {b \in Acquirers : Active(b) /\ sock[b] \in Living}
  <1>1. Pool = {} BY DEF Pool, ToSet
  <1>2. \A s \in Living : \E b \in Owning : sock[b] = s
    BY <1>1 DEF Kept, Has, Living
  <1>3. PICK f : f = [b \in Owning |-> sock[b]] OBVIOUS
  <1>4. f \in Surjection(Owning, Living)
    <2>1. f \in [Owning -> Living] BY <1>3
    <2>2. \A s \in Living : \E b \in Owning : f[b] = s BY <1>2, <1>3
    <2> QED BY <2>1, <2>2, Zenon DEF Surjection
  <1>5. /\ Owning \in SUBSET Acquirers /\ Connecting \in SUBSET Acquirers
        /\ Owning \cap Connecting = {} /\ a \notin Owning \cup Connecting
    BY DEF Connecting, Active
  <1> HIDE DEF Owning
  <1>6. IsFiniteSet(Owning) /\ IsFiniteSet(Connecting)
    BY <1>5, FiniteActors, FS_Subset
  <1>7. Cardinality(Living) <= Cardinality(Owning) /\ IsFiniteSet(Living)
    BY <1>4, <1>6, FS_Surjection
  <1>8. Cardinality(Owning \cup Connecting) = Cardinality(Owning) + Cardinality(Connecting)
    <2>1. Cardinality(Owning \cap Connecting) = 0 BY <1>5, FS_EmptySet
    <2>2. Cardinality(Owning) \in Nat /\ Cardinality(Connecting) \in Nat BY <1>6, FS_CardinalityType
    <2>3. Cardinality(Owning \cup Connecting)
            = Cardinality(Owning) + Cardinality(Connecting) - Cardinality(Owning \cap Connecting)
      BY ONLY <1>6, FS_Union
    <2> QED BY ONLY <2>1, <2>2, <2>3
  <1>9. IsFiniteSet(Owning \cup Connecting) BY <1>6, FS_Union
  <1>10. Cardinality((Owning \cup Connecting) \cup {a}) = Cardinality(Owning \cup Connecting) + 1
    BY <1>5, <1>9, FS_AddElement
  <1>11. (Owning \cup Connecting) \cup {a} \in SUBSET Acquirers BY <1>5
  <1>12. Cardinality((Owning \cup Connecting) \cup {a}) <= Cardinality(Acquirers)
    BY <1>11, FiniteActors, FS_Subset
  <1>13. /\ Cardinality(Living) \in Nat /\ Cardinality(Owning) \in Nat
         /\ Cardinality(Connecting) \in Nat /\ Cardinality(Acquirers) \in Nat
    BY <1>6, <1>7, FiniteActors, FS_CardinalityType
  <1> QED BY <1>7, <1>8, <1>10, <1>12, <1>13

LEMMA AcquireKeeps ==
  ASSUME ActorsAssumption, LimitAssumption, Inv, NEW a \in Acquirers, Acquire(a)
  PROVE  Inv'
  <1> USE DEF Inv
  <1>1. /\ live' = live /\ closed' = closed /\ abended' = abended
        /\ resync' = resync /\ references' = references /\ alive' = alive
        /\ reader' = reader /\ held' = held /\ victims' = victims /\ pc[a] = "acquire"
    BY DEF Acquire, sockets
  <1>2. CASE Ends(a) /\ UNCHANGED unused
    <2>1. PICK w \in {"idle", "over", "acquire"} : Goto(a, w, NoSocket) BY <1>2 DEF Ends
    <2> QED BY <1>1, <1>2, <2>1, EndKeeps DEF serverFields, sockets
  <1>3. CASE ~closed /\ unused # <<>> /\ Goto(a, "reuse", Last(unused)) /\ unused' = WithoutLast(unused)
    <2>1. PICK s : s = Last(unused) OBVIOUS
    <2>2. /\ unused' \in Seq(Sockets) /\ IsInjective(unused') /\ s \in Pool /\ Pool' = Pool \ {s}
          /\ s \in Sockets
      <3>1. unused \in Seq(Sockets) /\ IsInjective(unused) /\ unused # <<>> BY <1>3 DEF PoolTypeOK, Placed
      <3>2. unused' = Front(unused) BY <1>3 DEF WithoutLast
      <3>3. /\ Front(unused) \in Seq(Sockets) /\ IsInjective(Front(unused))
            /\ s \in ToSet(unused) /\ ToSet(Front(unused)) = ToSet(unused) \ {s}
        BY <2>1, <3>1, FrontOfPool
      <3>4. ToSet(unused) \subseteq Sockets BY <3>1 DEF ToSet
      <3> QED BY <3>2, <3>3, <3>4 DEF Pool
    <2>3. /\ pc' \in [Acquirers -> Places] /\ sock' \in [Acquirers -> Sockets \cup {NoSocket}]
          /\ pc'[a] = "reuse" /\ sock'[a] = s
          /\ \A b \in Acquirers : b # a => pc'[b] = pc[b] /\ sock'[b] = sock[b]
      BY <1>3, <2>1, <2>2, Moves DEF Places
    <2>4. references[s] = 0 /\ reader[s] # "off" /\ \A b \in Acquirers : ~Has(b, s)
      BY <2>2 DEF Placed
    <2>5. PoolTypeOK' BY <1>1, <2>2, <2>3 DEF PoolTypeOK, Places
    <2>6. Apart' BY <2>3, <2>4 DEF Apart, Active, Has
    <2>7. Placed' BY <1>1, <2>2, <2>3 DEF Placed, Has, Active
    <2>8. Counts' BY <1>1, <2>2, <2>3, <2>4 DEF Counts, Active, PoolTypeOK
    <2>9. Born' BY <1>1 DEF Born
    <2>10. Closing' BY <1>1, <1>3, <2>3 DEF Closing
    <2>11. NoneLost' BY <1>1, <2>3 DEF NoneLost
    <2>12. Kept' BY <1>1, <2>2, <2>3 DEF Kept, Has, Active
    <2>13. Few'
      <3>1. Living' = Living BY <1>1 DEF Living
      <3>2. Connecting' \subseteq Connecting BY <2>3 DEF Connecting
      <3> QED BY <3>1, <3>2, NoMore
    <2> QED BY <2>5, <2>6, <2>7, <2>8, <2>9, <2>10, <2>11, <2>12, <2>13
  <1>4. CASE ~closed /\ unused = <<>> /\ Goto(a, "connect", NoSocket) /\ UNCHANGED unused
    <2>1. /\ pc' \in [Acquirers -> Places] /\ sock' \in [Acquirers -> Sockets \cup {NoSocket}]
          /\ pc'[a] = "connect" /\ sock'[a] = NoSocket
          /\ \A b \in Acquirers : b # a => pc'[b] = pc[b] /\ sock'[b] = sock[b]
      BY <1>4, Moves DEF Places
    <2>2. unused' = unused BY <1>4
    <2>3. PoolTypeOK' BY <1>1, <2>1, <2>2 DEF PoolTypeOK, Places
    <2>4. Apart' BY <2>1 DEF Apart, Active
    <2>5. Placed' BY <1>1, <2>1, <2>2 DEF Placed, Pool, Has, Active
    <2>6. Counts' BY <1>1, <2>1 DEF Counts, Active
    <2>7. Born' BY <1>1 DEF Born
    <2>8. Closing' BY <1>1, <2>1, <2>2 DEF Closing
    <2>9. NoneLost' BY <1>1, <2>1 DEF NoneLost
    <2>10. Kept' BY <1>1, <2>1, <2>2 DEF Kept, Pool, Has, Active
    <2>11. Few'
      <3>1. Living' = Living BY <1>1 DEF Living
      <3>2. Connecting' = Connecting \cup {a} BY <2>1 DEF Connecting
      <3>3. Connecting \in SUBSET Acquirers /\ a \notin Connecting BY <1>1 DEF Connecting
      <3>4. Cardinality(Connecting \cup {a}) = Cardinality(Connecting) + 1
        BY <3>3, FiniteActors, FS_Subset, FS_AddElement
      <3>5. Living \in SUBSET Sockets BY DEF Living
      <3>6. Cardinality(Living) \in Nat /\ Cardinality(Connecting) \in Nat
        BY <3>3, <3>5, FiniteActors, FS_Subset, FS_CardinalityType
      <3>7. Cardinality(Living) + Cardinality(Connecting) + 1 <= Cardinality(Acquirers)
        BY <1>1, <1>4, RoomForOne
      <3> QED BY <3>1, <3>2, <3>4, <3>6, <3>7 DEF Few
    <2> QED BY <2>3, <2>4, <2>5, <2>6, <2>7, <2>8, <2>9, <2>10, <2>11
  <1> QED BY <1>2, <1>3, <1>4 DEF Acquire

LEMMA InitialAcquireKeeps ==
  ASSUME ActorsAssumption, LimitAssumption, Inv, NEW a \in Acquirers, InitialAcquire(a)
  PROVE  Inv'
  <1> USE DEF Inv
  <1>1. /\ unused' = unused /\ live' = live /\ closed' = closed /\ abended' = abended
        /\ resync' = resync /\ alive' = alive /\ reader' = reader /\ victims' = victims
        /\ pc[a] = "reuse"
    BY DEF InitialAcquire, serverFields
  <1>2. PICK s \in Sockets : s = sock[a] /\ references[s] = 0 /\ reader[s] # "off" /\ Has(a, s) /\ held[a] = 0
    BY <1>1 DEF Counts, Active, Has
  <1>3. Pool' = Pool /\ s \notin Pool BY <1>1, <1>2 DEF Pool, Placed
  <1>4. CASE alive[s]
    <2>1. Goto(a, "use", s) BY <1>2, <1>4 DEF InitialAcquire
    <2>2. /\ pc' \in [Acquirers -> Places] /\ sock' \in [Acquirers -> Sockets \cup {NoSocket}]
          /\ pc'[a] = "use" /\ sock'[a] = s
          /\ \A b \in Acquirers : b # a => pc'[b] = pc[b] /\ sock'[b] = sock[b]
      BY <2>1, Moves DEF Places
    <2>3. /\ references' = [references EXCEPT ![s] = @ + 1] /\ held' = [held EXCEPT ![a] = 1]
      BY <1>2, <1>4 DEF InitialAcquire
    <2>4. /\ references' \in [Sockets -> 0..MaxRefs] /\ references'[s] = 1
          /\ \A x \in Sockets : x # s => references'[x] = references[x]
      BY <1>2, <2>3 DEF PoolTypeOK, LimitAssumption
    <2>5. /\ held' \in [Acquirers -> 0..MaxRefs] /\ held'[a] = 1
          /\ \A b \in Acquirers : b # a => held'[b] = held[b]
      BY <2>3 DEF PoolTypeOK, LimitAssumption
    <2>6. PoolTypeOK' BY <1>1, <2>2, <2>4, <2>5 DEF PoolTypeOK, Places
    <2>7. Apart' BY <1>2, <2>2 DEF Apart, Active, Has
    <2>8. Placed'
      <3>1. \A x \in Pool : x # s /\ x \in Sockets BY <1>3 DEF Pool, ToSet, PoolTypeOK
      <3>2. \A x \in Pool : references'[x] = 0 /\ reader'[x] # "off" BY <1>1, <2>4, <3>1 DEF Placed
      <3>3. \A x \in Pool : \A b \in Acquirers : ~Has(b, x)' BY <1>1, <2>2, <3>1 DEF Placed, Has, Active
      <3> QED BY <1>1, <1>3, <3>2, <3>3 DEF Placed
    <2>9. Counts'
      <3>1. \A b \in Acquirers : b # a /\ Active(b) => sock[b] # s BY <1>2 DEF Apart, Has
      <3> QED BY <1>1, <1>2, <2>2, <2>4, <2>5, <3>1 DEF Counts, Active
    <2>10. Born' BY <1>1, <1>2, <2>4 DEF Born
    <2>11. Closing' BY <1>1, <2>2 DEF Closing
    <2>12. NoneLost' BY <1>1, <2>2 DEF NoneLost
    <2>13. Kept' BY <1>1, <1>2, <1>3, <2>2 DEF Kept, Has, Active
    <2>14. Few'
      <3>1. Living' = Living BY <1>1 DEF Living
      <3>2. Connecting' \subseteq Connecting BY <2>2 DEF Connecting
      <3> QED BY <3>1, <3>2, NoMore
    <2> QED BY <2>6, <2>7, <2>8, <2>9, <2>10, <2>11, <2>12, <2>13, <2>14
  <1>5. CASE ~alive[s]
    <2>1. Goto(a, "acquire", NoSocket) /\ references' = references /\ held' = held
      BY <1>2, <1>5 DEF InitialAcquire
    <2>2. /\ pc' \in [Acquirers -> Places] /\ sock' \in [Acquirers -> Sockets \cup {NoSocket}]
          /\ pc'[a] = "acquire" /\ sock'[a] = NoSocket
          /\ \A b \in Acquirers : b # a => pc'[b] = pc[b] /\ sock'[b] = sock[b]
      BY <2>1, Moves DEF Places
    <2>3. PoolTypeOK' BY <1>1, <2>1, <2>2 DEF PoolTypeOK, Places
    <2>4. Apart' BY <2>2 DEF Apart, Active
    <2>5. Placed' BY <1>1, <1>3, <2>1, <2>2 DEF Placed, Has, Active
    <2>6. Counts' BY <1>1, <1>2, <2>1, <2>2 DEF Counts, Active
    <2>7. Born' BY <1>1, <2>1 DEF Born
    <2>8. Closing' BY <1>1, <2>2 DEF Closing
    <2>9. NoneLost' BY <1>1, <2>2 DEF NoneLost
    <2>10. Kept' BY <1>1, <1>2, <1>3, <1>5, <2>2 DEF Kept, Has, Active
    <2>11. Few'
      <3>1. Living' = Living BY <1>1 DEF Living
      <3>2. Connecting' \subseteq Connecting BY <2>2 DEF Connecting
      <3> QED BY <3>1, <3>2, NoMore
    <2> QED BY <2>3, <2>4, <2>5, <2>6, <2>7, <2>8, <2>9, <2>10, <2>11
  <1> QED BY <1>4, <1>5

LEMMA ConnectKeeps ==
  ASSUME ActorsAssumption, LimitAssumption, Inv, NEW a \in Acquirers, Connect(a)
  PROVE  Inv'
  <1> USE DEF Inv
  <1>1. /\ unused' = unused /\ live' = live /\ closed' = closed /\ abended' = abended
        /\ resync' = resync /\ victims' = victims /\ pc[a] = "connect"
    BY DEF Connect, serverFields
  <1>2. CASE Goto(a, "idle", NoSocket) /\ UNCHANGED <<references, alive, reader, held>>
    BY <1>1, <1>2, EndKeeps DEF serverFields, sockets
  <1>3. ASSUME NEW s \in Unborn, Goto(a, "connected", s), references' = [references EXCEPT ![s] = 1],
               alive' = [alive EXCEPT ![s] = TRUE], reader' = [reader EXCEPT ![s] = "loop"],
               held' = [held EXCEPT ![a] = 1]
        PROVE  Inv'
    <2>1. s \in Sockets /\ reader[s] = "off" /\ ~alive[s] /\ references[s] = 0 /\ s \notin live \cup victims
      BY DEF Unborn, Born
    <2>2. /\ pc' \in [Acquirers -> Places] /\ sock' \in [Acquirers -> Sockets \cup {NoSocket}]
          /\ pc'[a] = "connected" /\ sock'[a] = s
          /\ \A b \in Acquirers : b # a => pc'[b] = pc[b] /\ sock'[b] = sock[b]
      BY <1>3, <2>1, Moves DEF Places
    <2>3. /\ references' \in [Sockets -> 0..MaxRefs] /\ references'[s] = 1
          /\ \A x \in Sockets : x # s => references'[x] = references[x]
      BY <1>3, <2>1 DEF PoolTypeOK, LimitAssumption
    <2>4. /\ held' \in [Acquirers -> 0..MaxRefs] /\ held'[a] = 1
          /\ \A b \in Acquirers : b # a => held'[b] = held[b]
      BY <1>3 DEF PoolTypeOK, LimitAssumption
    <2>5. /\ alive' \in [Sockets -> BOOLEAN] /\ alive'[s]
          /\ \A x \in Sockets : x # s => alive'[x] = alive[x]
      BY <1>3, <2>1 DEF PoolTypeOK
    <2>6. /\ reader' \in [Sockets -> {"off", "loop", "abend", "over"}] /\ reader'[s] = "loop"
          /\ \A x \in Sockets : x # s => reader'[x] = reader[x]
      BY <1>3, <2>1 DEF PoolTypeOK
    <2>7. /\ Pool' = Pool /\ s \notin Pool /\ Pool \subseteq Sockets
          /\ \A b \in Acquirers : ~Has(b, s)
      BY <1>1, <2>1 DEF Pool, Placed, Counts, Has, PoolTypeOK, ToSet
    <2>8. PoolTypeOK' BY <1>1, <2>2, <2>3, <2>4, <2>5, <2>6 DEF PoolTypeOK, Places
    <2>9. Apart' BY <2>2, <2>7 DEF Apart, Active, Has
    <2>10. Placed'
      <3>1. \A x \in Pool : references'[x] = 0 /\ reader'[x] # "off" BY <2>3, <2>6, <2>7 DEF Placed
      <3>2. \A x \in Pool : \A b \in Acquirers : ~Has(b, x)' BY <2>2, <2>7 DEF Placed, Has, Active
      <3> QED BY <1>1, <2>7, <3>1, <3>2 DEF Placed
    <2>11. Counts'
      <3>1. \A b \in Acquirers : b # a /\ Active(b) => sock[b] # s BY <2>7 DEF Has
      <3> QED BY <2>1, <2>2, <2>3, <2>4, <2>6, <3>1 DEF Counts, Active
    <2>12. Born' BY <1>1, <2>1, <2>3, <2>5, <2>6 DEF Born
    <2>13. Closing' BY <1>1, <2>2 DEF Closing
    <2>14. NoneLost' BY <1>1, <2>2, <2>5 DEF NoneLost
    <2>15. Kept' BY <1>1, <2>2, <2>5, <2>7 DEF Kept, Has, Active
    <2>16. Few'
      <3>1. Living' = Living \cup {s} /\ s \notin Living BY <2>1, <2>5 DEF Living
      <3>2. Connecting' = Connecting \ {a} /\ a \in Connecting BY <1>1, <2>2 DEF Connecting
      <3>3. IsFiniteSet(Living) /\ IsFiniteSet(Connecting)
        <4>1. Living \in SUBSET Sockets /\ Connecting \in SUBSET Acquirers BY DEF Living, Connecting
        <4> QED BY <4>1, FiniteActors, FS_Subset
      <3>4. Cardinality(Living \cup {s}) = Cardinality(Living) + 1 BY <3>1, <3>3, FS_AddElement
      <3>5. Cardinality(Connecting \ {a}) = Cardinality(Connecting) - 1 BY <3>2, <3>3, FS_RemoveElement
      <3>6. Cardinality(Living) \in Nat /\ Cardinality(Connecting) \in Nat
        BY <3>3, FS_CardinalityType
      <3> QED BY <3>1, <3>2, <3>4, <3>5, <3>6 DEF Few
    <2> QED BY <2>8, <2>9, <2>10, <2>11, <2>12, <2>13, <2>14, <2>15, <2>16
  <1> QED BY <1>2, <1>3 DEF Connect

LEMMA ConnectedKeeps ==
  ASSUME ActorsAssumption, LimitAssumption, Inv, NEW a \in Acquirers, Connected(a)
  PROVE  Inv'
  <1> USE DEF Inv
  <1>1. /\ unused' = unused /\ closed' = closed /\ abended' = abended /\ resync' = resync
        /\ alive' = alive /\ reader' = reader /\ victims' = victims /\ pc[a] = "connected"
    BY DEF Connected
  <1>2. PICK s \in Sockets : /\ s = sock[a] /\ references[s] = 1 /\ reader[s] # "off"
                             /\ Has(a, s) /\ held[a] = 1
    BY <1>1 DEF Counts, Active, Has
  <1>3. Pool' = Pool /\ s \notin Pool BY <1>1, <1>2 DEF Pool, Placed
  <1>4. CASE closed
    <2>1. /\ Goto(a, "refuse", s) /\ references' = [references EXCEPT ![s] = @ - 1]
          /\ held' = [held EXCEPT ![a] = 0] /\ live' = live
      BY <1>2, <1>4 DEF Connected, ClosedMeanwhile
    <2>2. /\ pc' \in [Acquirers -> Places] /\ sock' \in [Acquirers -> Sockets \cup {NoSocket}]
          /\ pc'[a] = "refuse" /\ sock'[a] = s
          /\ \A b \in Acquirers : b # a => pc'[b] = pc[b] /\ sock'[b] = sock[b]
      BY <2>1, Moves DEF Places
    <2>3. /\ references' \in [Sockets -> 0..MaxRefs] /\ references'[s] = 0
          /\ \A x \in Sockets : x # s => references'[x] = references[x]
      BY <1>2, <2>1 DEF PoolTypeOK, LimitAssumption
    <2>4. /\ held' \in [Acquirers -> 0..MaxRefs] /\ held'[a] = 0
          /\ \A b \in Acquirers : b # a => held'[b] = held[b]
      BY <2>1 DEF PoolTypeOK, LimitAssumption
    <2>5. PoolTypeOK' BY <1>1, <2>1, <2>2, <2>3, <2>4 DEF PoolTypeOK, Places
    <2>6. Apart' BY <1>2, <2>2 DEF Apart, Active, Has
    <2>7. Placed'
      <3>1. \A x \in Pool : x # s /\ x \in Sockets BY <1>3 DEF Pool, ToSet, PoolTypeOK
      <3>2. \A x \in Pool : references'[x] = 0 /\ reader'[x] # "off" BY <1>1, <2>3, <3>1 DEF Placed
      <3>3. \A x \in Pool : \A b \in Acquirers : ~Has(b, x)' BY <1>1, <2>2, <3>1 DEF Placed, Has, Active
      <3> QED BY <1>1, <1>3, <3>2, <3>3 DEF Placed
    <2>8. Counts'
      <3>1. \A b \in Acquirers : b # a /\ Active(b) => sock[b] # s BY <1>2 DEF Apart, Has
      <3> QED BY <1>1, <1>2, <2>2, <2>3, <2>4, <3>1 DEF Counts, Active
    <2>9. Born' BY <1>1, <1>2, <2>1, <2>3 DEF Born
    <2>10. Closing' BY <1>1, <1>4, <2>1 DEF Closing
    <2>11. NoneLost' BY <1>1, <1>2, <2>1, <2>2 DEF NoneLost
    <2>12. Kept' BY <1>1, <1>4 DEF Kept
    <2>13. Few'
      <3>1. Living' = Living BY <1>1 DEF Living
      <3>2. Connecting' \subseteq Connecting BY <2>2 DEF Connecting
      <3> QED BY <3>1, <3>2, NoMore
    <2> QED BY <2>5, <2>6, <2>7, <2>8, <2>9, <2>10, <2>11, <2>12, <2>13
  <1>5. CASE ~closed
    <2>1. Goto(a, "use", s) /\ references' = references /\ held' = held /\ live' = live \cup {s}
      BY <1>2, <1>5 DEF Connected, ClosedMeanwhile
    <2>2. /\ pc' \in [Acquirers -> Places] /\ sock' \in [Acquirers -> Sockets \cup {NoSocket}]
          /\ pc'[a] = "use" /\ sock'[a] = s
          /\ \A b \in Acquirers : b # a => pc'[b] = pc[b] /\ sock'[b] = sock[b]
      BY <2>1, Moves DEF Places
    <2>3. PoolTypeOK' BY <1>1, <1>2, <2>1, <2>2 DEF PoolTypeOK, Places
    <2>4. Apart' BY <1>2, <2>2 DEF Apart, Active, Has
    <2>5. Placed' BY <1>1, <1>2, <1>3, <2>1, <2>2 DEF Placed, Has, Active
    <2>6. Counts' BY <1>1, <1>2, <2>1, <2>2 DEF Counts, Active
    <2>7. Born' BY <1>1, <1>2, <2>1 DEF Born
    <2>8. Closing' BY <1>1, <1>5, <2>2 DEF Closing
    <2>9. NoneLost' BY <1>1, <1>2, <2>1, <2>2 DEF NoneLost
    <2>10. Kept' BY <1>1, <1>2, <1>3, <2>2 DEF Kept, Has, Active
    <2>11. Few'
      <3>1. Living' = Living BY <1>1 DEF Living
      <3>2. Connecting' \subseteq Connecting BY <2>2 DEF Connecting
      <3> QED BY <3>1, <3>2, NoMore
    <2> QED BY <2>3, <2>4, <2>5, <2>6, <2>7, <2>8, <2>9, <2>10, <2>11
  <1> QED BY <1>4, <1>5

LEMMA RefuseKeeps ==
  ASSUME ActorsAssumption, LimitAssumption, Inv, NEW a \in Acquirers, Refuse(a)
  PROVE  Inv'
  <1> USE DEF Inv
  <1>1. /\ unused' = unused /\ live' = live /\ closed' = closed /\ abended' = abended
        /\ resync' = resync /\ references' = references /\ reader' = reader
        /\ held' = held /\ victims' = victims /\ pc[a] = "refuse"
    BY DEF Refuse, serverFields
  <1>2. PICK s \in Sockets : s = sock[a] /\ Has(a, s) /\ alive' = [alive EXCEPT ![s] = FALSE]
    BY <1>1 DEF Counts, Active, Has, Refuse
  <1>3. closed BY <1>1 DEF Closing
  <1>4. PICK w \in {"idle", "over"} : Goto(a, w, NoSocket) BY DEF Refuse, Ends
  <1>5. /\ pc' \in [Acquirers -> Places] /\ sock' \in [Acquirers -> Sockets \cup {NoSocket}]
        /\ pc'[a] = w /\ sock'[a] = NoSocket
        /\ \A b \in Acquirers : b # a => pc'[b] = pc[b] /\ sock'[b] = sock[b]
    BY <1>4, Moves DEF Places
  <1>6. /\ alive' \in [Sockets -> BOOLEAN] /\ ~alive'[s]
        /\ \A x \in Sockets : x # s => alive'[x] = alive[x]
    BY <1>2 DEF PoolTypeOK
  <1>7. PoolTypeOK' BY <1>1, <1>5, <1>6 DEF PoolTypeOK, Places
  <1>8. Apart' BY <1>5 DEF Apart, Active
  <1>9. Placed' BY <1>1, <1>5 DEF Placed, Pool, Has, Active
  <1>10. Counts' BY <1>1, <1>5 DEF Counts, Active
  <1>11. Born' BY <1>1, <1>6 DEF Born
  <1>12. Closing' BY <1>1, <1>3 DEF Closing
  <1>13. NoneLost' BY <1>1, <1>2, <1>5, <1>6 DEF NoneLost
  <1>14. Kept' BY <1>1, <1>3 DEF Kept
  <1>15. Few'
    <2>1. Living' \subseteq Living BY <1>6 DEF Living
    <2>2. Connecting' \subseteq Connecting BY <1>5 DEF Connecting
    <2> QED BY <2>1, <2>2, NoMore
  <1> QED BY <1>7, <1>8, <1>9, <1>10, <1>11, <1>12, <1>13, <1>14, <1>15

(***************************************************************************)
(* Use and release                                                         *)
(***************************************************************************)

LEMMA AcquireAgainKeeps ==
  ASSUME ActorsAssumption, LimitAssumption, Inv, NEW a \in Acquirers, AcquireAgain(a)
  PROVE  Inv'
  <1> USE DEF Inv
  <1>1. /\ unused' = unused /\ live' = live /\ closed' = closed /\ abended' = abended
        /\ resync' = resync /\ alive' = alive /\ reader' = reader /\ pc' = pc /\ sock' = sock
        /\ victims' = victims /\ pc[a] = "use" /\ held[a] < MaxRefs
        /\ references' = [references EXCEPT ![sock[a]] = @ + 1] /\ held' = [held EXCEPT ![a] = @ + 1]
    BY DEF AcquireAgain, serverFields
  <1>2. PICK s \in Sockets : s = sock[a] /\ references[s] = held[a] /\ reader[s] # "off" /\ Has(a, s)
    BY <1>1 DEF Counts, Active, Has
  <1>3. Pool' = Pool /\ s \notin Pool BY <1>1, <1>2 DEF Pool, Placed
  <1>4. /\ references' \in [Sockets -> 0..MaxRefs] /\ references'[s] = references[s] + 1
        /\ \A x \in Sockets : x # s => references'[x] = references[x]
    BY <1>1, <1>2 DEF PoolTypeOK, LimitAssumption
  <1>5. /\ held' \in [Acquirers -> 0..MaxRefs] /\ held'[a] = held[a] + 1
        /\ \A b \in Acquirers : b # a => held'[b] = held[b]
    BY <1>1 DEF PoolTypeOK, LimitAssumption
  <1>6. PoolTypeOK' BY <1>1, <1>4, <1>5 DEF PoolTypeOK
  <1>7. Apart' BY <1>1 DEF Apart, Active
  <1>8. Placed'
    <2>1. \A x \in Pool : x # s /\ x \in Sockets BY <1>3 DEF Pool, ToSet, PoolTypeOK
    <2>2. \A x \in Pool : references'[x] = 0 /\ reader'[x] # "off" BY <1>1, <1>4, <2>1 DEF Placed
    <2>3. \A x \in Pool : \A b \in Acquirers : ~Has(b, x)' BY <1>1 DEF Placed, Has, Active
    <2> QED BY <1>1, <1>3, <2>2, <2>3 DEF Placed
  <1>9. Counts'
    <2>1. \A b \in Acquirers : b # a /\ Active(b) => sock[b] # s BY <1>2 DEF Apart, Has
    <2>2. ASSUME NEW b \in Acquirers, b # a
          PROVE  /\ Active(b)' => /\ sock'[b] \in Sockets /\ reader'[sock'[b]] # "off"
                                  /\ references'[sock'[b]] = held'[b]
                 /\ pc'[b] = "connected" => held'[b] = 1
                 /\ pc'[b] = "use" => held'[b] > 0
                 /\ pc'[b] \notin {"connected", "use"} => held'[b] = 0
      BY <1>1, <1>4, <1>5, <2>1, <2>2 DEF Counts, Active
    <2>3. held[a] \in Nat BY DEF PoolTypeOK
    <2> QED BY <1>1, <1>2, <1>4, <1>5, <2>2, <2>3 DEF Counts, Active
  <1>10. Born' BY <1>1, <1>2, <1>4 DEF Born
  <1>11. Closing' BY <1>1 DEF Closing
  <1>12. NoneLost' BY <1>1 DEF NoneLost
  <1>13. Kept' BY <1>1, <1>3 DEF Kept, Has, Active
  <1>14. Few'
    <2>1. Living' = Living /\ Connecting' = Connecting BY <1>1 DEF Living, Connecting
    <2> QED BY <2>1, NoMore
  <1> QED BY <1>6, <1>7, <1>8, <1>9, <1>10, <1>11, <1>12, <1>13, <1>14

LEMMA ReleaseKeeps ==
  ASSUME ActorsAssumption, LimitAssumption, Inv, NEW a \in Acquirers, Release(a)
  PROVE  Inv'
  <1> USE DEF Inv
  <1>1. /\ unused' = unused /\ live' = live /\ closed' = closed /\ abended' = abended
        /\ resync' = resync /\ alive' = alive /\ reader' = reader
        /\ victims' = victims /\ pc[a] = "use"
        /\ references' = [references EXCEPT ![sock[a]] = @ - 1] /\ held' = [held EXCEPT ![a] = @ - 1]
    BY DEF Release, serverFields
  <1>2. PICK s \in Sockets : /\ s = sock[a] /\ references[s] = held[a] /\ reader[s] # "off" /\ Has(a, s)
                             /\ held[a] \in 1..MaxRefs
    BY <1>1 DEF Counts, Active, Has, PoolTypeOK, LimitAssumption
  <1>3. Pool' = Pool /\ s \notin Pool BY <1>1, <1>2 DEF Pool, Placed
  <1>4. /\ references' \in [Sockets -> 0..MaxRefs] /\ references'[s] = references[s] - 1
        /\ \A x \in Sockets : x # s => references'[x] = references[x]
    BY <1>1, <1>2 DEF PoolTypeOK, LimitAssumption
  <1>5. /\ held' \in [Acquirers -> 0..MaxRefs] /\ held'[a] = held[a] - 1
        /\ \A b \in Acquirers : b # a => held'[b] = held[b]
    BY <1>1, <1>2 DEF PoolTypeOK, LimitAssumption
  <1>6. PICK w \in {"use", "recycle", "after"} :
           /\ pc' \in [Acquirers -> Places] /\ sock' \in [Acquirers -> Sockets \cup {NoSocket}]
           /\ pc'[a] = w /\ sock'[a] = s
           /\ \A b \in Acquirers : b # a => pc'[b] = pc[b] /\ sock'[b] = sock[b]
           /\ w = "use" <=> held[a] > 1
           /\ alive[s] => w # "after"
    <2>1. CASE ~(references[s] - 1 = 0)
      <3>1. pc' = pc /\ sock' = sock BY <1>2, <2>1 DEF Release, Unreferenced
      <3>2. held[a] > 1 BY <1>2, <2>1
      <3> QED BY <1>1, <1>2, <3>1, <3>2 DEF PoolTypeOK, Places
    <2>2. CASE references[s] - 1 = 0
      <3>1. PICK w \in {"recycle", "after"} : Goto(a, w, s) /\ (alive[s] => w = "recycle")
        BY <1>2, <2>2 DEF Release, Unreferenced
      <3>2. /\ pc' \in [Acquirers -> Places] /\ sock' \in [Acquirers -> Sockets \cup {NoSocket}]
            /\ pc'[a] = w /\ sock'[a] = s
            /\ \A b \in Acquirers : b # a => pc'[b] = pc[b] /\ sock'[b] = sock[b]
        BY <3>1, Moves DEF Places
      <3>3. ~(held[a] > 1) BY <1>2, <2>2
      <3> QED BY <3>1, <3>2, <3>3
    <2> QED BY <2>1, <2>2
  <1>7. PoolTypeOK' BY <1>1, <1>4, <1>5, <1>6 DEF PoolTypeOK, Places
  <1>8. Apart' BY <1>2, <1>6 DEF Apart, Active, Has
  <1>9. Placed'
    <2>1. \A x \in Pool : x # s /\ x \in Sockets BY <1>3 DEF Pool, ToSet, PoolTypeOK
    <2>2. \A x \in Pool : references'[x] = 0 /\ reader'[x] # "off" BY <1>1, <1>4, <2>1 DEF Placed
    <2>3. \A x \in Pool : \A b \in Acquirers : ~Has(b, x)' BY <1>6, <2>1 DEF Placed, Has, Active
    <2> QED BY <1>1, <1>3, <2>2, <2>3 DEF Placed
  <1>10. Counts'
    <2>1. \A b \in Acquirers : b # a /\ Active(b) => sock[b] # s BY <1>2 DEF Apart, Has
    <2>2. ASSUME NEW b \in Acquirers, b # a
          PROVE  /\ Active(b)' => /\ sock'[b] \in Sockets /\ reader'[sock'[b]] # "off"
                                  /\ references'[sock'[b]] = held'[b]
                 /\ pc'[b] = "connected" => held'[b] = 1
                 /\ pc'[b] = "use" => held'[b] > 0
                 /\ pc'[b] \notin {"connected", "use"} => held'[b] = 0
      BY <1>1, <1>4, <1>5, <1>6, <2>1, <2>2 DEF Counts, Active
    <2> QED BY <1>1, <1>2, <1>4, <1>5, <1>6, <2>2 DEF Counts, Active
  <1>11. Born' BY <1>1, <1>2, <1>4 DEF Born
  <1>12. Closing' BY <1>1, <1>6 DEF Closing
  <1>13. NoneLost' BY <1>1, <1>6 DEF NoneLost
  <1>14. Kept' BY <1>1, <1>2, <1>3, <1>6 DEF Kept, Has, Active
  <1>15. Few'
    <2>1. Living' = Living BY <1>1 DEF Living
    <2>2. Connecting' \subseteq Connecting BY <1>6 DEF Connecting
    <2> QED BY <2>1, <2>2, NoMore
  <1> QED BY <1>7, <1>8, <1>9, <1>10, <1>11, <1>12, <1>13, <1>14, <1>15

LEMMA RecycleKeeps ==
  ASSUME ActorsAssumption, LimitAssumption, Inv, NEW a \in Acquirers, Recycle(a)
  PROVE  Inv'
  <1> USE DEF Inv
  <1>1. /\ live' = live /\ closed' = closed /\ abended' = abended /\ resync' = resync
        /\ references' = references /\ alive' = alive /\ reader' = reader
        /\ held' = held /\ victims' = victims /\ pc[a] = "recycle"
    BY DEF Recycle, sockets
  <1>2. PICK s \in Sockets : s = sock[a] /\ references[s] = 0 /\ reader[s] # "off" /\ Has(a, s)
    BY <1>1 DEF Counts, Active, Has
  <1>3. s \notin Pool BY <1>2 DEF Placed
  <1>4. Goto(a, "after", s) BY <1>2 DEF Recycle
  <1>5. /\ pc' \in [Acquirers -> Places] /\ sock' \in [Acquirers -> Sockets \cup {NoSocket}]
        /\ pc'[a] = "after" /\ sock'[a] = s
        /\ \A b \in Acquirers : b # a => pc'[b] = pc[b] /\ sock'[b] = sock[b]
    BY <1>4, Moves DEF Places
  <1>6. /\ unused' \in Seq(Sockets) /\ IsInjective(unused')
        /\ closed => unused' = unused
        /\ Pool' = IF closed THEN Pool ELSE Pool \cup {s}
    <2>1. unused \in Seq(Sockets) /\ IsInjective(unused) BY DEF PoolTypeOK, Placed
    <2>2. CASE closed BY <2>1, <2>2 DEF Recycle, Pool
    <2>3. CASE ~closed
      <3>1. unused' = Append(unused, s) BY <1>2, <2>3 DEF Recycle, PutBack
      <3>2. s \notin ToSet(unused) BY <1>3 DEF Pool
      <3>3. /\ Append(unused, s) \in Seq(Sockets) /\ IsInjective(Append(unused, s))
            /\ ToSet(Append(unused, s)) = ToSet(unused) \cup {s}
        BY <2>1, <3>2, AppendToPool
      <3> QED BY <2>3, <3>1, <3>3 DEF Pool
    <2> QED BY <2>2, <2>3
  <1>7. PoolTypeOK' BY <1>1, <1>5, <1>6 DEF PoolTypeOK, Places
  <1>8. Apart' BY <1>5 DEF Apart, Active
  <1>9. Placed'
    <2>1. ASSUME NEW x \in Pool'
          PROVE  references'[x] = 0 /\ reader'[x] # "off" /\ \A b \in Acquirers : ~Has(b, x)'
      <3>1. CASE x = s
        <4>1. \A b \in Acquirers : b # a => ~Has(b, s) BY <1>2 DEF Apart, Has
        <4> QED BY <1>1, <1>2, <1>5, <3>1, <4>1 DEF Has, Active
      <3>2. CASE x # s
        <4>1. x \in Pool BY <1>6, <3>2
        <4> QED BY <1>1, <1>5, <4>1 DEF Placed, Has, Active
      <3> QED BY <3>1, <3>2
    <2> QED BY <1>6, <2>1 DEF Placed
  <1>10. Counts' BY <1>1, <1>5 DEF Counts, Active
  <1>11. Born' BY <1>1 DEF Born
  <1>12. Closing' BY <1>1, <1>5, <1>6 DEF Closing
  <1>13. NoneLost' BY <1>1, <1>5 DEF NoneLost
  <1>14. Kept' BY <1>1, <1>2, <1>5, <1>6 DEF Kept, Has, Active
  <1>15. Few'
    <2>1. Living' = Living BY <1>1 DEF Living
    <2>2. Connecting' \subseteq Connecting BY <1>5 DEF Connecting
    <2> QED BY <2>1, <2>2, NoMore
  <1> QED BY <1>7, <1>8, <1>9, <1>10, <1>11, <1>12, <1>13, <1>14, <1>15

LEMMA AfterKeeps ==
  ASSUME ActorsAssumption, LimitAssumption, Inv, NEW a \in Acquirers, After(a)
  PROVE  Inv'
  <1> USE DEF Inv
  <1>1. /\ unused' = unused /\ live' = live /\ closed' = closed /\ abended' = abended
        /\ resync' = resync /\ references' = references /\ alive' = alive
        /\ reader' = reader /\ victims' = victims /\ pc[a] = "after"
    BY DEF After, serverFields, sockets
  <1>2. held' = held
    <2>1. held' = [held EXCEPT ![a] = 0] /\ held[a] = 0 BY <1>1 DEF After, Counts
    <2> QED BY <2>1 DEF PoolTypeOK
  <1>3. PICK w \in {"idle", "over"} : Goto(a, w, NoSocket) BY DEF After
  <1>4. /\ pc' \in [Acquirers -> Places] /\ sock' \in [Acquirers -> Sockets \cup {NoSocket}]
        /\ pc'[a] = w /\ sock'[a] = NoSocket
        /\ \A b \in Acquirers : b # a => pc'[b] = pc[b] /\ sock'[b] = sock[b]
    BY <1>3, Moves DEF Places
  <1>5. PoolTypeOK' BY <1>1, <1>2, <1>4 DEF PoolTypeOK, Places
  <1>6. Apart' BY <1>4 DEF Apart, Active
  <1>7. Placed' BY <1>1, <1>4 DEF Placed, Pool, Has, Active
  <1>8. Counts' BY <1>1, <1>2, <1>4 DEF Counts, Active
  <1>9. Born' BY <1>1 DEF Born
  <1>10. Closing' BY <1>1, <1>4 DEF Closing
  <1>11. NoneLost' BY <1>1, <1>4 DEF NoneLost
  <1>12. Kept' BY <1>1, <1>4 DEF Kept, Pool, Has, Active
  <1>13. Few'
    <2>1. Living' = Living BY <1>1 DEF Living
    <2>2. Connecting' \subseteq Connecting BY <1>4 DEF Connecting
    <2> QED BY <2>1, <2>2, NoMore
  <1> QED BY <1>5, <1>6, <1>7, <1>8, <1>9, <1>10, <1>11, <1>12, <1>13

(***************************************************************************)
(* The end of a socket, and of the server                                  *)
(***************************************************************************)

LEMMA DiesKeeps ==
  ASSUME ActorsAssumption, LimitAssumption, Inv, NEW s \in Sockets, Dies(s)
  PROVE  Inv'
  <1> USE DEF Inv
  <1>1. /\ unused' = unused /\ live' = live /\ closed' = closed /\ abended' = abended
        /\ resync' = resync /\ references' = references /\ pc' = pc /\ sock' = sock
        /\ held' = held /\ victims' = victims /\ reader[s] = "loop"
        /\ alive' = [alive EXCEPT ![s] = FALSE]
    BY DEF Dies, serverFields, actors
  <1>2. PICK w \in {"abend", "over"} : reader' = [reader EXCEPT ![s] = w] BY DEF Dies
  <1>3. /\ alive' \in [Sockets -> BOOLEAN] /\ ~alive'[s]
        /\ \A x \in Sockets : x # s => alive'[x] = alive[x]
    BY <1>1 DEF PoolTypeOK
  <1>4. /\ reader' \in [Sockets -> {"off", "loop", "abend", "over"}]
        /\ \A x \in Sockets : reader'[x] = "off" <=> reader[x] = "off"
        /\ \A x \in Sockets : x # s => reader'[x] = reader[x]
    BY <1>1, <1>2 DEF PoolTypeOK
  <1>5. Pool' = Pool /\ Pool \subseteq Sockets BY <1>1 DEF Pool, PoolTypeOK, ToSet
  <1>6. PoolTypeOK' BY <1>1, <1>3, <1>4 DEF PoolTypeOK
  <1>7. Apart' BY <1>1 DEF Apart, Active
  <1>8. Placed' BY <1>1, <1>4, <1>5 DEF Placed, Has, Active
  <1>9. Counts' BY <1>1, <1>4 DEF Counts, Active
  <1>10. Born' BY <1>1, <1>3, <1>4 DEF Born
  <1>11. Closing' BY <1>1 DEF Closing
  <1>12. NoneLost' BY <1>1, <1>3 DEF NoneLost
  <1>13. Kept' BY <1>1, <1>3, <1>5 DEF Kept, Has, Active
  <1>14. Few'
    <2>1. Living' \subseteq Living BY <1>3 DEF Living
    <2>2. Connecting' \subseteq Connecting BY <1>1 DEF Connecting
    <2> QED BY <2>1, <2>2, NoMore
  <1> QED BY <1>6, <1>7, <1>8, <1>9, <1>10, <1>11, <1>12, <1>13, <1>14

LEMMA AbendSocketKeeps ==
  ASSUME ActorsAssumption, LimitAssumption, Inv, NEW s \in Sockets, AbendSocket(s)
  PROVE  Inv'
  <1> USE DEF Inv
  <1>1. /\ closed' = closed /\ references' = references /\ alive' = alive
        /\ pc' = pc /\ sock' = sock /\ held' = held /\ victims' = victims
        /\ reader[s] = "abend" /\ reader' = [reader EXCEPT ![s] = "over"]
    BY DEF AbendSocket, actors
  <1>2. abended' \in BOOLEAN /\ resync' \in BOOLEAN BY DEF AbendSocket, PoolTypeOK
  <1>3. /\ reader' \in [Sockets -> {"off", "loop", "abend", "over"}]
        /\ \A x \in Sockets : reader'[x] = "off" <=> reader[x] = "off"
        /\ \A x \in Sockets : x # s => reader'[x] = reader[x]
    BY <1>1 DEF PoolTypeOK
  <1>4. /\ unused' \in Seq(Sockets) /\ IsInjective(unused')
        /\ closed => unused' = unused
        /\ Pool' = IF closed THEN Pool ELSE Pool \ {s}
    <2>1. unused \in Seq(Sockets) /\ IsInjective(unused) BY DEF PoolTypeOK, Placed
    <2>2. CASE closed BY <2>1, <2>2 DEF AbendSocket, Pool
    <2>3. CASE ~closed
      <3>1. unused' = removeSocket(unused, s) BY <2>3 DEF AbendSocket
      <3>2. /\ removeSocket(unused, s) \in Seq(Sockets) /\ IsInjective(removeSocket(unused, s))
            /\ ToSet(removeSocket(unused, s)) = ToSet(unused) \ {s}
        BY <2>1, RemoveFromPool
      <3> QED BY <2>3, <3>1, <3>2 DEF Pool
    <2> QED BY <2>2, <2>3
  <1>5. live' = IF closed THEN live ELSE live \ {s} BY DEF AbendSocket
  <1>6. ~alive[s] BY <1>1 DEF Born
  <1>7. Pool \subseteq Sockets BY DEF Pool, PoolTypeOK, ToSet
  <1>8. PoolTypeOK' BY <1>1, <1>2, <1>3, <1>4, <1>5 DEF PoolTypeOK
  <1>9. Apart' BY <1>1 DEF Apart, Active
  <1>10. Placed' BY <1>1, <1>3, <1>4, <1>7 DEF Placed, Has, Active
  <1>11. Counts' BY <1>1, <1>3 DEF Counts, Active
  <1>12. Born' BY <1>1, <1>3, <1>5, <1>6 DEF Born
  <1>13. Closing' BY <1>1, <1>4, <1>5 DEF Closing
  <1>14. NoneLost' BY <1>1, <1>5, <1>6 DEF NoneLost
  <1>15. Kept' BY <1>1, <1>4, <1>6 DEF Kept, Has, Active
  <1>16. Few'
    <2>1. Living' = Living /\ Connecting' = Connecting BY <1>1 DEF Living, Connecting
    <2> QED BY <2>1, NoMore
  <1> QED BY <1>8, <1>9, <1>10, <1>11, <1>12, <1>13, <1>14, <1>15, <1>16

LEMMA CloseKeeps ==
  ASSUME ActorsAssumption, LimitAssumption, Inv, Close
  PROVE  Inv'
  <1> USE DEF Inv
  <1>1. /\ abended' = abended /\ resync' = resync /\ references' = references /\ alive' = alive
        /\ reader' = reader /\ pc' = pc /\ sock' = sock /\ held' = held
        /\ ~closed /\ closed' = TRUE /\ victims' = live /\ live' = {} /\ unused' = <<>>
    BY DEF Close, ToClose, sockets, actors
  <1>2. Pool' = {} /\ IsInjective(unused') /\ unused' \in Seq(Sockets)
    BY <1>1 DEF Pool, ToSet, IsInjective
  <1>3. victims = {} BY <1>1 DEF Closing
  <1>4. PoolTypeOK' BY <1>1, <1>2 DEF PoolTypeOK
  <1>5. Apart' BY <1>1 DEF Apart, Active
  <1>6. Placed' BY <1>2 DEF Placed
  <1>7. Counts' BY <1>1 DEF Counts, Active
  <1>8. Born' BY <1>1 DEF Born
  <1>9. Closing' BY <1>1 DEF Closing
  <1>10. NoneLost' BY <1>1, <1>3 DEF NoneLost
  <1>11. Kept' BY <1>1 DEF Kept
  <1>12. Few'
    <2>1. Living' = Living /\ Connecting' = Connecting BY <1>1 DEF Living, Connecting
    <2> QED BY <2>1, NoMore
  <1> QED BY <1>4, <1>5, <1>6, <1>7, <1>8, <1>9, <1>10, <1>11, <1>12

LEMMA CloseNextKeeps ==
  ASSUME ActorsAssumption, LimitAssumption, Inv, CloseNext
  PROVE  Inv'
  <1> USE DEF Inv
  <1>1. /\ unused' = unused /\ live' = live /\ closed' = closed /\ abended' = abended
        /\ resync' = resync /\ references' = references /\ reader' = reader
        /\ pc' = pc /\ sock' = sock /\ held' = held
    BY DEF CloseNext, serverFields, actors
  <1>2. PICK s \in victims : alive' = [alive EXCEPT ![s] = FALSE] /\ victims' = victims \ {s}
    BY DEF CloseNext
  <1>3. s \in Sockets /\ closed BY <1>2 DEF Closing, PoolTypeOK
  <1>4. /\ alive' \in [Sockets -> BOOLEAN] /\ ~alive'[s]
        /\ \A x \in Sockets : x # s => alive'[x] = alive[x]
    BY <1>2, <1>3 DEF PoolTypeOK
  <1>5. PoolTypeOK' BY <1>1, <1>2, <1>4 DEF PoolTypeOK
  <1>6. Apart' BY <1>1 DEF Apart, Active
  <1>7. Placed' BY <1>1 DEF Placed, Pool, Has, Active
  <1>8. Counts' BY <1>1 DEF Counts, Active
  <1>9. Born' BY <1>1, <1>2, <1>4 DEF Born
  <1>10. Closing' BY <1>1, <1>3 DEF Closing
  <1>11. NoneLost' BY <1>1, <1>2, <1>4 DEF NoneLost
  <1>12. Kept' BY <1>1, <1>3 DEF Kept
  <1>13. Few'
    <2>1. Living' \subseteq Living BY <1>3, <1>4 DEF Living
    <2>2. Connecting' \subseteq Connecting BY <1>1 DEF Connecting
    <2> QED BY <2>1, <2>2, NoMore
  <1> QED BY <1>5, <1>6, <1>7, <1>8, <1>9, <1>10, <1>11, <1>12, <1>13

(***************************************************************************)
(* The invariant                                                           *)
(***************************************************************************)

LEMMA Initially == ActorsAssumption /\ LimitAssumption /\ PoolInit => Inv
  <1> SUFFICES ASSUME ActorsAssumption, LimitAssumption, PoolInit PROVE Inv OBVIOUS
  <1>1. Pool = {} /\ IsInjective(unused) /\ unused \in Seq(Sockets)
    BY DEF PoolInit, Pool, ToSet, IsInjective
  <1>2. PoolTypeOK
    <2>1. 0 \in 0..MaxRefs BY DEF LimitAssumption
    <2>2. references \in [Sockets -> 0..MaxRefs] /\ held \in [Acquirers -> 0..MaxRefs] BY <2>1 DEF PoolInit
    <2>3. alive \in [Sockets -> BOOLEAN] /\ sock \in [Acquirers -> Sockets \cup {NoSocket}] BY DEF PoolInit
    <2>4. pc \in [Acquirers -> Places] BY DEF PoolInit, Places
    <2>5. live \subseteq Sockets /\ victims \subseteq Sockets BY DEF PoolInit
    <2> QED BY <1>1, <2>2, <2>3, <2>4, <2>5 DEF PoolInit, PoolTypeOK, Places
  <1>3. \A a \in Acquirers : ~Active(a) BY DEF PoolInit, Active
  <1>4. Apart /\ Placed /\ Counts BY <1>1, <1>3 DEF PoolInit, Apart, Placed, Counts
  <1>5. Born /\ Closing /\ NoneLost /\ Kept BY DEF PoolInit, Born, Closing, NoneLost, Kept
  <1>6. Few
    <2>1. Living = {} /\ Connecting = {} BY DEF PoolInit, Living, Connecting
    <2>2. Cardinality(Living) = 0 /\ Cardinality(Connecting) = 0 BY <2>1, FS_EmptySet
    <2>3. Cardinality(Acquirers) \in Nat BY FiniteActors, FS_CardinalityType
    <2> QED BY <2>2, <2>3 DEF Few
  <1> QED BY <1>2, <1>4, <1>5, <1>6 DEF Inv

LEMMA NothingKeeps ==
  ASSUME Inv, UNCHANGED poolVars
  PROVE  Inv'
  <1>1. /\ unused' = unused /\ live' = live /\ closed' = closed /\ abended' = abended
        /\ resync' = resync /\ references' = references /\ alive' = alive /\ reader' = reader
        /\ pc' = pc /\ sock' = sock /\ held' = held /\ victims' = victims
    BY DEF poolVars, serverFields, sockets, actors
  <1>2. PoolTypeOK' /\ Apart' /\ Placed' /\ Counts'
    BY <1>1 DEF Inv, PoolTypeOK, Apart, Placed, Counts, Pool, Has, Active
  <1>3. Born' /\ Closing' /\ NoneLost' /\ Kept' /\ Few'
    BY <1>1 DEF Inv, Born, Closing, NoneLost, Kept, Few, Pool, Has, Active, Living, Connecting
  <1> QED BY <1>2, <1>3 DEF Inv

LEMMA EveryStep == ActorsAssumption /\ LimitAssumption /\ Inv /\ [PoolNext]_poolVars => Inv'
  <1> SUFFICES ASSUME ActorsAssumption, LimitAssumption, Inv, [PoolNext]_poolVars PROVE Inv' OBVIOUS
  <1>1. ASSUME NEW a \in Acquirers, Step(a) PROVE Inv'
    BY <1>1, AcquireKeeps, InitialAcquireKeeps, ConnectKeeps, ConnectedKeeps, RefuseKeeps,
       ReleaseKeeps, RecycleKeeps, AfterKeeps DEF Step
  <1>2. ASSUME NEW a \in Acquirers, Call(a) \/ AcquireAgain(a) PROVE Inv'
    BY <1>2, CallKeeps, AcquireAgainKeeps
  <1>3. ASSUME NEW s \in Sockets, Dies(s) \/ AbendSocket(s) PROVE Inv'
    BY <1>3, DiesKeeps, AbendSocketKeeps
  <1>4. CASE Close \/ CloseNext BY <1>4, CloseKeeps, CloseNextKeeps
  <1>5. CASE UNCHANGED poolVars BY <1>5, NothingKeeps
  <1> QED BY <1>1, <1>2, <1>3, <1>4, <1>5 DEF PoolNext

(***************************************************************************)
(* The theorems                                                            *)
(***************************************************************************)

LEMMA OneOwnerFollows == ActorsAssumption /\ Inv => OneOwner
  <1> SUFFICES ASSUME ActorsAssumption, Inv PROVE OneOwner OBVIOUS
  <1> USE DEF Inv
  <1>1. ASSUME NEW s \in Sockets PROVE Cardinality(Owners(s)) <= 1
    <2>1. Owners(s) \in SUBSET Acquirers BY DEF Owners
    <2>2. \A a, b \in Owners(s) : a = b BY DEF Owners, Apart, Active
    <2>3. CASE Owners(s) = {}
      <3>1. Cardinality(Owners(s)) = 0 BY <2>3, FS_EmptySet
      <3> QED BY <3>1
    <2>4. CASE Owners(s) # {}
      <3>1. PICK a : Owners(s) = {a} BY <2>2, <2>4
      <3>2. Cardinality({a}) = 1 BY FS_Singleton
      <3> QED BY <3>1, <3>2
    <2> QED BY <2>3, <2>4
  <1>2. ASSUME NEW s \in Sockets, s \in ToSet(unused) PROVE Owners(s) = {} /\ references[s] = 0
    BY <1>2 DEF Placed, Pool, Owners, Has, Active
  <1>3. ASSUME NEW s \in Sockets, NEW a \in Owners(s) PROVE references[s] = held[a]
    BY DEF Counts, Owners, Active
  <1>4. IsInjective(unused) BY DEF Placed
  <1> QED BY <1>1, <1>2, <1>3, <1>4 DEF OneOwner

LEMMA ReusesFollows == ActorsAssumption /\ Inv => Reuses
  <1> SUFFICES ASSUME ActorsAssumption, Inv PROVE Reuses OBVIOUS
  <1>1. Living \in SUBSET Sockets /\ Connecting \in SUBSET Acquirers BY DEF Living, Connecting
  <1>2. /\ Cardinality(Living) \in Nat /\ Cardinality(Connecting) \in Nat
        /\ Cardinality(Acquirers) \in Nat
    BY <1>1, FiniteActors, FS_Subset, FS_CardinalityType
  <1>3. Cardinality(Living) <= Cardinality(Acquirers) BY <1>2 DEF Inv, Few
  <1> QED BY <1>3 DEF Living, Reuses

LEMMA Always == ActorsAssumption /\ LimitAssumption => (PoolSpec => []Inv)
  <1> SUFFICES ASSUME ActorsAssumption, LimitAssumption PROVE PoolSpec => []Inv OBVIOUS
  <1>1. PoolInit => Inv BY Initially
  <1>2. Inv /\ [PoolNext]_poolVars => Inv' BY EveryStep
  <1> QED BY <1>1, <1>2, PTL DEF PoolSpec

\* AcquireSocket, Release, RecycleSocket, AbendSocket and Close of a server, in
\* any order: a socket has one owner or is in the pool once, and the references
\* to it are those its owner has taken, so that the driver never panics over them;
\* a connection that is open is one the server can close; and there are never more
\* of them than goroutines, with a limit or without.
THEOREM ThePoolIsSound == ActorsAssumption /\ LimitAssumption => (PoolSpec => []PoolIsSound)
  <1> SUFFICES ASSUME ActorsAssumption, LimitAssumption PROVE PoolSpec => []PoolIsSound OBVIOUS
  <1>1. Inv => PoolIsSound BY OneOwnerFollows, ReusesFollows DEF Inv, PoolIsSound
  <1>2. PoolSpec => []Inv BY Always
  <1> QED BY <1>1, <1>2, PTL
=============================================================================
