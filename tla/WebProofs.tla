----------------------------- MODULE WebProofs -----------------------------
(***************************************************************************)
(* Proofs about what requests and documents go through: the ids of new     *)
(* documents are different, what is kept of the requests that are served   *)
(* is theirs alone and taken away, and calls to S3 do what they tell.      *)
(***************************************************************************)
EXTENDS ObjectId, Context, S3Store, FiniteSetTheorems, TLAPS

(***************************************************************************)
(* Ids of documents.  An id cannot be made again before the counter of its *)
(* process has gone round.  Between the making of an id and the end of the *)
(* next second, its process makes at most three times what it begins in a  *)
(* second: what was begun in the second of the id, what was still to be    *)
(* made from the second before, and what is begun in the next.             *)
(***************************************************************************)

\* The goroutines of a process that have taken the second t and not yet a number
Pending(p, t) == {g \in Threads : time[<<p, g>>] = t}
Waiting(p) == Cardinality(Pending(p, second)) + Cardinality(Pending(p, second - 1))

\* The numbers a process has taken since it took n
Since(c, n) == IF c >= n THEN c - n ELSE (c - n) + CounterSize
Age(p, i) == Since(counter[p], i.counter)

\* What is asked of a machine: what an id keeps of a process (16 bits of its number)
\* tells those apart that it may run, none has the number of one that ended within
\* the time, and the counter does not go round within three seconds' worth of ids.
Distinguished ==
    /\ ~Reuse /\ \A m, n \in Pids : m # n => m % PidSize # n % PidSize
    /\ 3 * PerSecond <= CounterSize

IdTypes ==
    /\ pid \in [Procs -> Pids] /\ counter \in [Procs -> 0..(CounterSize - 1)]
    /\ time \in [Procs \X Threads -> Int] /\ begun \in [Procs -> 0..PerSecond]
    /\ second \in Nat /\ second >= 1
    /\ \A i \in ids : i.counter \in 0..(CounterSize - 1)
Apart == \A p, q \in Procs : p # q => pid[p] # pid[q]
Recent(p) ==
    /\ \A g \in Threads : time[<<p, g>>] \in {NoTime, second, second - 1}
    /\ IsFiniteSet(Pending(p, second)) /\ Cardinality(Pending(p, second)) <= begun[p]
    /\ IsFiniteSet(Pending(p, second - 1)) /\ Cardinality(Pending(p, second - 1)) <= PerSecond
Young(p, i) ==
    i.pid = Pid(p) =>
        /\ i.time = second => Age(p, i) + 1 + Waiting(p) <= PerSecond + begun[p]
        /\ i.time = second - 1 => Age(p, i) + 1 + Waiting(p) <= 2 * PerSecond + begun[p]
IdInv == IdTypes /\ Apart /\ (\A p \in Procs : Recent(p)) /\ (\A p \in Procs, i \in ids : Young(p, i)) /\ Unique

(***************************************************************************)
(* Counters                                                                *)
(***************************************************************************)

\* A counter goes round at most once.
LEMMA CounterGoesRound ==
  ASSUME ObjectIdAssumption, NEW c \in 0..(CounterSize - 1)
  PROVE  ((c + 1) % CounterSize) = IF c + 1 < CounterSize THEN c + 1 ELSE 0
  <1>1. CounterSize \in Nat /\ CounterSize > 0 BY DEF ObjectIdAssumption
  <1> DEFINE x == c + 1
  <1>2. x \in Nat /\ x <= CounterSize BY <1>1
  <1>3. (x \div CounterSize) \in Int /\ x = CounterSize * (x \div CounterSize) + (x % CounterSize)
        /\ (x % CounterSize) \in 0..(CounterSize - 1)
    BY <1>1, <1>2
  <1> HIDE DEF x
  <1>4. (x % CounterSize) = IF x < CounterSize THEN x ELSE 0 BY <1>1, <1>2, <1>3
  <1> QED BY <1>4 DEF x

\* The next number makes the numbers before it older by one, until one comes round
\* again.
LEMMA OlderByOne ==
  ASSUME ObjectIdAssumption,
         NEW c \in 0..(CounterSize - 1), NEW n \in 0..(CounterSize - 1),
         Since(c, n) + 1 < CounterSize
  PROVE  /\ Since((c + 1) % CounterSize, n) = Since(c, n) + 1
         /\ ((c + 1) % CounterSize) # n
  <1>1. CounterSize \in Nat /\ CounterSize > 0 BY DEF ObjectIdAssumption
  <1>2. ((c + 1) % CounterSize) = IF c + 1 < CounterSize THEN c + 1 ELSE 0 BY CounterGoesRound
  <1> QED BY <1>1, <1>2 DEF Since

(***************************************************************************)
(* Goroutines that wait                                                    *)
(***************************************************************************)

LEMMA OneMoreWaits ==
  ASSUME NEW S, IsFiniteSet(S), NEW g, g \notin S
  PROVE  IsFiniteSet(S \cup {g}) /\ Cardinality(S \cup {g}) = Cardinality(S) + 1
  BY FS_AddElement

LEMMA OneLessWaits ==
  ASSUME NEW S, IsFiniteSet(S), NEW g \in S
  PROVE  /\ IsFiniteSet(S \ {g}) /\ Cardinality(S \ {g}) = Cardinality(S) - 1
         /\ Cardinality(S) >= 1
  <1>1. IsFiniteSet(S \ {g}) /\ Cardinality(S \ {g}) = Cardinality(S) - 1 BY FS_RemoveElement
  <1>2. Cardinality(S) \in Nat /\ Cardinality(S \ {g}) \in Nat BY <1>1, FS_CardinalityType
  <1> QED BY <1>1, <1>2

LEMMA WaitingIsNumber ==
  ASSUME NEW p \in Procs, Recent(p)
  PROVE  Cardinality(Pending(p, second)) \in Nat /\ Cardinality(Pending(p, second - 1)) \in Nat
         /\ Waiting(p) \in Nat
  <1>1. Cardinality(Pending(p, second)) \in Nat /\ Cardinality(Pending(p, second - 1)) \in Nat
    BY FS_CardinalityType DEF Recent
  <1> QED BY <1>1 DEF Waiting

(***************************************************************************)
(* Steps                                                                   *)
(***************************************************************************)

LEMMA TimeIsTaken ==
  ASSUME ObjectIdAssumption, IdInv, NEW p \in Procs, NEW g \in Threads, TakeTime(p, g)
  PROVE  IdInv'
  <1>1. second \in Nat /\ second >= 1 /\ PerSecond \in Nat /\ NoTime # second /\ NoTime # second - 1
    BY DEF IdInv, IdTypes, ObjectIdAssumption, NoTime
  <1>2. time \in [Procs \X Threads -> Int] /\ begun \in [Procs -> 0..PerSecond] BY DEF IdInv, IdTypes
  <1>3. /\ time[<<p, g>>] = NoTime /\ begun[p] < PerSecond
        /\ time' = [time EXCEPT ![<<p, g>>] = second] /\ begun' = [begun EXCEPT ![p] = @ + 1]
        /\ pid' = pid /\ counter' = counter /\ second' = second /\ ids' = ids /\ twice' = twice
    BY DEF TakeTime
  <1>4. time' \in [Procs \X Threads -> Int] /\ begun' \in [Procs -> 0..PerSecond] BY <1>1, <1>2, <1>3
  <1>5. IdTypes' BY <1>3, <1>4 DEF IdInv, IdTypes
  <1>6. Apart' /\ Unique' BY <1>3 DEF IdInv, Apart, Unique
  <1>7. ASSUME NEW q \in Procs, NEW h \in Threads
        PROVE  (time[<<q, h>>])' = IF q = p /\ h = g THEN second ELSE time[<<q, h>>]
    BY <1>2, <1>3
  <1>8. ASSUME NEW q \in Procs
        PROVE  Recent(q)' /\ Waiting(q)' - begun'[q] = Waiting(q) - begun[q] /\ Waiting(q) \in Nat /\ Waiting(q)' \in Nat
    <2>1. Recent(q) BY DEF IdInv
    <2>2. Pending(q, second - 1)' = Pending(q, second - 1) BY <1>1, <1>3, <1>7 DEF Pending
    <2>3. begun[q] \in 0..PerSecond BY <1>2
    <2>4. CASE q = p
      <3>1. Pending(p, second)' = Pending(p, second) \cup {g} /\ g \notin Pending(p, second)
        BY <1>1, <1>3, <1>7 DEF Pending
      <3>2. IsFiniteSet(Pending(p, second)) BY <2>1, <2>4 DEF Recent
      <3>3. /\ IsFiniteSet(Pending(p, second)')
            /\ Cardinality(Pending(p, second)') = Cardinality(Pending(p, second)) + 1
        BY <3>1, <3>2, OneMoreWaits
      <3>4. begun'[p] = begun[p] + 1 BY <1>2, <1>3
      <3>5. /\ Cardinality(Pending(p, second)) \in Nat /\ Cardinality(Pending(p, second - 1)) \in Nat
        BY <2>1, <2>4, WaitingIsNumber
      <3>6. Recent(q)' BY <1>3, <1>7, <2>1, <2>2, <2>3, <2>4, <3>3, <3>4, <3>5 DEF Recent
      <3>7. Waiting(p)' = Cardinality(Pending(p, second)) + 1 + Cardinality(Pending(p, second - 1))
        BY <2>2, <2>4, <3>3 DEF Waiting
      <3> QED BY <2>3, <2>4, <3>4, <3>5, <3>6, <3>7 DEF Waiting
    <2>5. CASE q # p
      <3>1. Pending(q, second)' = Pending(q, second) BY <1>3, <1>7, <2>5 DEF Pending
      <3>2. begun'[q] = begun[q] BY <1>2, <1>3, <2>5
      <3>3. Recent(q)' BY <1>3, <1>7, <2>1, <2>2, <2>5, <3>1, <3>2 DEF Recent
      <3>4. Waiting(q)' = Waiting(q) BY <2>2, <3>1 DEF Waiting
      <3>5. Waiting(q) \in Nat BY <2>1, WaitingIsNumber
      <3> QED BY <2>3, <3>2, <3>3, <3>4, <3>5
    <2> QED BY <2>4, <2>5
  <1>9. ASSUME NEW q \in Procs, NEW i \in ids'
        PROVE  Young(q, i)'
    <2>1. i \in ids /\ Young(q, i) BY <1>3 DEF IdInv
    <2>2. Pid(q)' = Pid(q) /\ Age(q, i)' = Age(q, i) BY <1>3 DEF Pid, Age, Since
    <2>3. i.counter \in 0..(CounterSize - 1) /\ counter[q] \in 0..(CounterSize - 1) BY <2>1 DEF IdInv, IdTypes
    <2>4. Age(q, i) \in Int BY <2>3 DEF Age, Since, ObjectIdAssumption
    <2>5. begun[q] \in Int /\ begun'[q] \in Int BY <1>2, <1>4
    <2> QED BY <1>1, <1>3, <1>8, <2>1, <2>2, <2>4, <2>5 DEF Young
  <1> QED BY <1>5, <1>6, <1>8, <1>9 DEF IdInv

LEMMA IdIsMade ==
  ASSUME ObjectIdAssumption, Distinguished, IdInv,
         NEW p \in Procs, NEW g \in Threads, NewObjectId(p, g)
  PROVE  IdInv'
  <1>0. PICK new : new = [time |-> time[<<p, g>>], pid |-> Pid(p), counter |-> Counter(counter[p] + 1)]
    OBVIOUS
  <1>1. /\ second \in Nat /\ second >= 1 /\ PerSecond \in Nat /\ NoTime # second /\ NoTime # second - 1
        /\ CounterSize \in Nat /\ CounterSize > 0
    BY DEF IdInv, IdTypes, ObjectIdAssumption, NoTime
  <1>2. /\ time \in [Procs \X Threads -> Int] /\ begun \in [Procs -> 0..PerSecond]
        /\ counter \in [Procs -> 0..(CounterSize - 1)] /\ pid \in [Procs -> Pids]
        /\ \A i \in ids : i.counter \in 0..(CounterSize - 1)
    BY DEF IdInv, IdTypes
  <1>3. /\ time[<<p, g>>] # NoTime /\ time' = [time EXCEPT ![<<p, g>>] = NoTime]
        /\ counter' = [counter EXCEPT ![p] = (@ + 1) % CounterSize]
        /\ ids' = ids \cup {new} /\ twice' = (twice \/ new \in ids)
        /\ pid' = pid /\ begun' = begun /\ second' = second
    BY <1>0 DEF NewObjectId
  <1>4. new.time = time[<<p, g>>] /\ new.pid = Pid(p) /\ new.counter = (counter[p] + 1) % CounterSize
    BY <1>0 DEF Counter
  <1>5. counter[p] \in 0..(CounterSize - 1) BY <1>2
  <1>6. ((counter[p] + 1) % CounterSize) = IF counter[p] + 1 < CounterSize THEN counter[p] + 1 ELSE 0
    BY <1>5, CounterGoesRound
  <1>7. new.counter \in 0..(CounterSize - 1) BY <1>1, <1>4, <1>5, <1>6
  <1>8. /\ counter'[p] = new.counter /\ counter' \in [Procs -> 0..(CounterSize - 1)]
        /\ \A q \in Procs : q # p => counter'[q] = counter[q]
    BY <1>2, <1>3, <1>4, <1>7
  <1>9. ASSUME NEW q \in Procs, NEW h \in Threads
        PROVE  (time[<<q, h>>])' = IF q = p /\ h = g THEN NoTime ELSE time[<<q, h>>]
    BY <1>2, <1>3
  <1>10. time' \in [Procs \X Threads -> Int] BY <1>2, <1>3 DEF NoTime
  <1>11. \A i \in ids' : i.counter \in 0..(CounterSize - 1) BY <1>2, <1>3, <1>7
  <1>12. IdTypes' BY <1>1, <1>2, <1>3, <1>8, <1>10, <1>11 DEF IdTypes
  <1>13. Apart' BY <1>3 DEF IdInv, Apart
  <1>14. Recent(p) /\ time[<<p, g>>] \in {second, second - 1} BY <1>3 DEF IdInv, Recent
  <1>15. Recent(p)' /\ Waiting(p)' = Waiting(p) - 1 /\ Waiting(p) >= 1 /\ Waiting(p) \in Nat
    <2>1. /\ IsFiniteSet(Pending(p, second)) /\ IsFiniteSet(Pending(p, second - 1)) /\ begun[p] \in 0..PerSecond
          /\ Cardinality(Pending(p, second)) <= begun[p] /\ Cardinality(Pending(p, second - 1)) <= PerSecond
      BY <1>2, <1>14 DEF Recent
    <2>2. /\ Cardinality(Pending(p, second)) \in Nat /\ Cardinality(Pending(p, second - 1)) \in Nat
      BY <1>14, WaitingIsNumber
    <2>3. \A h \in Threads : (time[<<p, h>>])' \in {NoTime, second, second - 1}
      BY <1>9, <1>14 DEF Recent
    <2>4. CASE time[<<p, g>>] = second
      <3>1. /\ Pending(p, second)' = Pending(p, second) \ {g} /\ g \in Pending(p, second)
            /\ Pending(p, second - 1)' = Pending(p, second - 1)
        BY <1>1, <1>3, <1>9, <2>4 DEF Pending
      <3>2. /\ IsFiniteSet(Pending(p, second)') /\ Cardinality(Pending(p, second)) >= 1
            /\ Cardinality(Pending(p, second)') = Cardinality(Pending(p, second)) - 1
        BY <2>1, <3>1, OneLessWaits
      <3>3. Recent(p)' BY <1>3, <2>1, <2>2, <2>3, <3>1, <3>2 DEF Recent
      <3>4. Waiting(p)' = Cardinality(Pending(p, second)) - 1 + Cardinality(Pending(p, second - 1))
        BY <3>1, <3>2 DEF Waiting
      <3> QED BY <2>2, <3>2, <3>3, <3>4 DEF Waiting
    <2>5. CASE time[<<p, g>>] = second - 1
      <3>1. /\ Pending(p, second - 1)' = Pending(p, second - 1) \ {g} /\ g \in Pending(p, second - 1)
            /\ Pending(p, second)' = Pending(p, second)
        BY <1>1, <1>3, <1>9, <2>5 DEF Pending
      <3>2. /\ IsFiniteSet(Pending(p, second - 1)') /\ Cardinality(Pending(p, second - 1)) >= 1
            /\ Cardinality(Pending(p, second - 1)') = Cardinality(Pending(p, second - 1)) - 1
        BY <2>1, <3>1, OneLessWaits
      <3>3. Recent(p)' BY <1>1, <1>3, <2>1, <2>2, <2>3, <3>1, <3>2 DEF Recent
      <3>4. Waiting(p)' = Cardinality(Pending(p, second)) + (Cardinality(Pending(p, second - 1)) - 1)
        BY <3>1, <3>2 DEF Waiting
      <3> QED BY <2>2, <3>2, <3>3, <3>4 DEF Waiting
    <2> QED BY <1>14, <2>4, <2>5
  <1>16. ASSUME NEW q \in Procs, q # p
         PROVE  Recent(q)' /\ Waiting(q)' = Waiting(q)
    <2>1. Pending(q, second)' = Pending(q, second) /\ Pending(q, second - 1)' = Pending(q, second - 1)
      BY <1>3, <1>9, <1>16 DEF Pending
    <2>2. Recent(q) BY DEF IdInv
    <2>3. Recent(q)' BY <1>3, <1>9, <1>16, <2>1, <2>2 DEF Recent
    <2> QED BY <2>1, <2>3 DEF Waiting
  \* Every id of the process that could be the new one is young enough.
  <1>17. ASSUME NEW i \in ids, i.pid = Pid(p), i.time \in {second, second - 1}
         PROVE  /\ Age(p, i)' = Age(p, i) + 1 /\ Age(p, i) \in Nat /\ i.counter # new.counter
    <2>1. Young(p, i) /\ i.counter \in 0..(CounterSize - 1) BY <1>2 DEF IdInv
    <2>2. Age(p, i) \in Nat BY <1>1, <1>5, <2>1 DEF Age, Since
    <2>3. begun[p] \in 0..PerSecond BY <1>2
    <2>4. Age(p, i) + 1 + Waiting(p) <= 2 * PerSecond + begun[p]
      BY <1>1, <1>15, <1>17, <2>1, <2>2, <2>3 DEF Young
    <2>5. 3 * PerSecond <= CounterSize BY DEF Distinguished
    <2>6. Age(p, i) + 1 < CounterSize BY <1>1, <1>15, <2>2, <2>3, <2>4, <2>5
    <2>7. /\ Since((counter[p] + 1) % CounterSize, i.counter) = Since(counter[p], i.counter) + 1
          /\ ((counter[p] + 1) % CounterSize) # i.counter
      BY <1>5, <2>1, <2>6, OlderByOne DEF Age
    <2> QED BY <1>4, <1>8, <2>2, <2>7 DEF Age
  <1>18. Unique'
    <2>1. ASSUME new \in ids PROVE FALSE
      BY <1>4, <1>14, <1>17, <2>1
    <2> QED BY <1>3, <2>1 DEF IdInv, Unique
  <1>19. ASSUME NEW q \in Procs, NEW i \in ids'
         PROVE  Young(q, i)'
    <2>1. Pid(q)' = Pid(q) BY <1>3 DEF Pid
    <2>2. begun[q] \in 0..PerSecond /\ begun' = begun BY <1>2, <1>3
    <2>3. CASE q # p
      <3>1. ASSUME i = new PROVE i.pid # Pid(q)
        BY <1>2, <1>4, <2>3, <3>1 DEF IdInv, Apart, Distinguished, Pid
      <3>2. ASSUME i # new PROVE Young(q, i)
        BY <1>3, <3>2 DEF IdInv
      <3>3. Age(q, i)' = Age(q, i) BY <1>8, <2>3 DEF Age, Since
      <3>4. Waiting(q)' = Waiting(q) BY <1>16, <2>3
      <3> QED BY <1>3, <2>1, <2>2, <3>1, <3>2, <3>3, <3>4 DEF Young
    <2>4. CASE q = p /\ i = new
      <3>1. Age(p, new)' = 0 BY <1>1, <1>7, <1>8 DEF Age, Since
      <3>2. Waiting(p)' + 1 <= PerSecond + begun[p]
        <4>1. /\ Cardinality(Pending(p, second)) \in Nat /\ Cardinality(Pending(p, second - 1)) \in Nat
          BY <1>14, WaitingIsNumber
        <4> QED BY <1>1, <1>14, <1>15, <2>2, <2>4, <4>1 DEF Recent, Waiting
      <3>3. Waiting(p)' \in Nat BY <1>15
      <3>4. 0 + 1 + Waiting(p)' <= PerSecond + begun[p] /\ 0 + 1 + Waiting(p)' <= 2 * PerSecond + begun[p]
        BY <1>1, <2>2, <2>4, <3>2, <3>3
      <3> QED BY <1>1, <1>3, <2>2, <2>4, <3>1, <3>4 DEF Young
    <2>5. CASE q = p /\ i \in ids
      <3>1. Young(p, i) BY <2>5 DEF IdInv
      <3>2. CASE i.pid # Pid(p) BY <2>1, <2>5, <3>2 DEF Young
      <3>3. CASE i.pid = Pid(p) /\ i.time \notin {second, second - 1} BY <1>3, <3>3, <2>5 DEF Young
      <3>4. CASE i.pid = Pid(p) /\ i.time \in {second, second - 1}
        <4>1. Age(p, i)' = Age(p, i) + 1 /\ Age(p, i) \in Nat BY <1>17, <2>5, <3>4
        <4>2. (Age(p, i) + 1) + 1 + (Waiting(p) - 1) = Age(p, i) + 1 + Waiting(p) BY <1>15, <4>1
        <4>3. Waiting(p)' = Waiting(p) - 1 BY <1>15
        <4> QED BY <1>3, <2>1, <2>2, <2>5, <3>1, <4>1, <4>2, <4>3 DEF Young
      <3> QED BY <3>2, <3>3, <3>4
    <2> QED BY <1>3, <2>3, <2>4, <2>5
  <1>20. \A q \in Procs : Recent(q)' BY <1>15, <1>16
  <1> QED BY <1>12, <1>13, <1>18, <1>19, <1>20 DEF IdInv

LEMMA SecondIsOver ==
  ASSUME ObjectIdAssumption, IdInv, NextSecond
  PROVE  IdInv'
  <1>1. second \in Nat /\ second >= 1 /\ PerSecond \in Nat /\ NoTime # second + 1 /\ NoTime # second /\ NoTime # second - 1
    BY DEF IdInv, IdTypes, ObjectIdAssumption, NoTime
  <1>2. /\ time \in [Procs \X Threads -> Int] /\ begun \in [Procs -> 0..PerSecond]
        /\ counter \in [Procs -> 0..(CounterSize - 1)] /\ \A i \in ids : i.counter \in 0..(CounterSize - 1)
    BY DEF IdInv, IdTypes
  <1>3. /\ \A c \in DOMAIN time : time[c] \in {NoTime, second}
        /\ second' = second + 1 /\ begun' = [p \in Procs |-> 0] /\ ids' = {i \in ids : i.time = second}
        /\ pid' = pid /\ counter' = counter /\ time' = time /\ twice' = twice
    BY DEF NextSecond
  <1>4. IdTypes'
    <2>1. begun' \in [Procs -> 0..PerSecond] BY <1>1, <1>3
    <2>2. \A i \in ids' : i.counter \in 0..(CounterSize - 1) BY <1>2, <1>3
    <2>3. second' \in Nat /\ second' >= 1 BY <1>1, <1>3
    <2> QED BY <1>3, <2>1, <2>2, <2>3 DEF IdInv, IdTypes
  <1>5. Apart' /\ Unique' BY <1>3 DEF IdInv, Apart, Unique
  <1>6. ASSUME NEW p \in Procs
        PROVE  Recent(p)' /\ Waiting(p)' <= Waiting(p) /\ Waiting(p)' \in Nat /\ Waiting(p) \in Nat
    <2>1. Recent(p) /\ begun[p] \in 0..PerSecond /\ begun'[p] = 0 BY <1>2, <1>3 DEF IdInv
    <2>2. \A g \in Threads : time[<<p, g>>] \in {NoTime, second} BY <1>2, <1>3
    <2>3. Pending(p, second)' = {} BY <1>1, <1>3, <2>2 DEF Pending
    <2>4. Pending(p, second - 1)' = Pending(p, second) BY <1>1, <1>3 DEF Pending
    <2>5. IsFiniteSet({}) /\ Cardinality({}) = 0 BY FS_EmptySet
    <2>6. Cardinality(Pending(p, second)) \in Nat /\ Cardinality(Pending(p, second - 1)) \in Nat
      BY <2>1, WaitingIsNumber
    <2>7. Cardinality(Pending(p, second)) <= PerSecond /\ IsFiniteSet(Pending(p, second))
      BY <1>1, <2>1, <2>6 DEF Recent
    <2>8. \A g \in Threads : (time[<<p, g>>])' \in {NoTime, second + 1, (second + 1) - 1}
      BY <1>1, <1>3, <2>2
    <2>9. Recent(p)'
      <3>1. \A g \in Threads : (time[<<p, g>>])' \in {NoTime, second', second' - 1} BY <1>3, <2>8
      <3>2. IsFiniteSet(Pending(p, second)') /\ Cardinality(Pending(p, second)') <= begun'[p]
        BY <2>1, <2>3, <2>5
      <3>3. IsFiniteSet(Pending(p, second - 1)') /\ Cardinality(Pending(p, second - 1)') <= PerSecond
        BY <2>4, <2>7
      <3> QED BY <3>1, <3>2, <3>3 DEF Recent
    <2>10. Waiting(p)' = 0 + Cardinality(Pending(p, second)) BY <2>3, <2>4, <2>5 DEF Waiting
    <2> QED BY <2>6, <2>9, <2>10 DEF Waiting
  <1>7. ASSUME NEW p \in Procs, NEW i \in ids'
        PROVE  Young(p, i)'
    <2>1. i \in ids /\ i.time = second /\ i.time # second' /\ i.time = second' - 1 BY <1>1, <1>3
    <2>2. Young(p, i) BY <2>1 DEF IdInv
    <2>3. Pid(p)' = Pid(p) /\ Age(p, i)' = Age(p, i) BY <1>3 DEF Pid, Age, Since
    <2>4. Age(p, i) \in Int BY <1>2, <2>1 DEF Age, Since, ObjectIdAssumption
    <2>5. begun[p] \in 0..PerSecond /\ begun'[p] = 0 BY <1>2, <1>3
    <2> QED BY <1>1, <1>6, <2>1, <2>2, <2>3, <2>4, <2>5 DEF Young
  <1> QED BY <1>4, <1>5, <1>6, <1>7 DEF IdInv

LEMMA ProcessRestarts ==
  ASSUME ObjectIdAssumption, Distinguished, IdInv, NEW p \in Procs, Restart(p)
  PROVE  IdInv'
  <1>1. second \in Nat /\ second >= 1 /\ PerSecond \in Nat /\ NoTime # second /\ NoTime # second - 1
        /\ CounterSize \in Nat /\ CounterSize > 0
    BY DEF IdInv, IdTypes, ObjectIdAssumption, NoTime
  <1>2. /\ time \in [Procs \X Threads -> Int] /\ begun \in [Procs -> 0..PerSecond] /\ pid \in [Procs -> Pids]
        /\ counter \in [Procs -> 0..(CounterSize - 1)] /\ \A i \in ids : i.counter \in 0..(CounterSize - 1)
    BY DEF IdInv, IdTypes
  <1>3. PICK n \in Pids \ {pid[q] : q \in Procs \ {p}} :
          (\A i \in ids : i.pid # n % PidSize) /\ pid' = [pid EXCEPT ![p] = n]
    BY DEF Restart, Distinguished
  <1>4. /\ counter' = [counter EXCEPT ![p] = 0]
        /\ time' = [c \in DOMAIN time |-> IF c[1] = p THEN NoTime ELSE time[c]]
        /\ begun' = begun /\ second' = second /\ ids' = ids /\ twice' = twice
    BY DEF Restart
  <1>5. ASSUME NEW q \in Procs, NEW h \in Threads
        PROVE  (time[<<q, h>>])' = IF q = p THEN NoTime ELSE time[<<q, h>>]
    BY <1>2, <1>4
  <1>6. IdTypes'
    <2>1. time' \in [Procs \X Threads -> Int] BY <1>2, <1>4 DEF NoTime
    <2>2. counter' \in [Procs -> 0..(CounterSize - 1)] BY <1>1, <1>2, <1>4
    <2>3. pid' \in [Procs -> Pids] BY <1>2, <1>3
    <2> QED BY <1>1, <1>2, <1>4, <2>1, <2>2, <2>3 DEF IdTypes
  <1>7. Apart'
    <2> SUFFICES ASSUME NEW q \in Procs, NEW r \in Procs, q # r
                 PROVE  pid'[q] # pid'[r]
      BY DEF Apart
    <2>1. pid[q] # pid[r] BY DEF IdInv, Apart
    <2> QED BY <1>2, <1>3, <2>1
  <1>8. Unique' BY <1>4 DEF IdInv, Unique
  <1>9. Recent(p)'
    <2>1. Pending(p, second)' = {} /\ Pending(p, second - 1)' = {} BY <1>1, <1>4, <1>5 DEF Pending
    <2>2. IsFiniteSet({}) /\ Cardinality({}) = 0 BY FS_EmptySet
    <2>3. begun[p] \in 0..PerSecond BY <1>2
    <2>4. \A g \in Threads : (time[<<p, g>>])' \in {NoTime, second', second' - 1} BY <1>4, <1>5
    <2>5. IsFiniteSet(Pending(p, second)') /\ Cardinality(Pending(p, second)') <= begun'[p]
      BY <1>1, <1>4, <2>1, <2>2, <2>3
    <2>6. IsFiniteSet(Pending(p, second - 1)') /\ Cardinality(Pending(p, second - 1)') <= PerSecond
      BY <1>1, <2>1, <2>2
    <2> QED BY <2>4, <2>5, <2>6 DEF Recent
  <1>10. ASSUME NEW q \in Procs, q # p
         PROVE  Recent(q)' /\ Waiting(q)' = Waiting(q)
    <2>1. Pending(q, second)' = Pending(q, second) /\ Pending(q, second - 1)' = Pending(q, second - 1)
      BY <1>4, <1>5, <1>10 DEF Pending
    <2>2. Recent(q) BY DEF IdInv
    <2>3. Recent(q)' BY <1>4, <1>5, <1>10, <2>1, <2>2 DEF Recent
    <2> QED BY <2>1, <2>3 DEF Waiting
  <1>11. ASSUME NEW q \in Procs, NEW i \in ids'
         PROVE  Young(q, i)'
    <2>1. CASE q = p
      <3>1. Pid(p)' = n % PidSize BY <1>2, <1>3 DEF Pid
      <3> QED BY <1>3, <1>4, <2>1, <3>1 DEF Young
    <2>2. CASE q # p
      <3>1. Pid(q)' = Pid(q) BY <1>2, <1>3, <2>2 DEF Pid
      <3>2. Age(q, i)' = Age(q, i) BY <1>2, <1>4, <2>2 DEF Age, Since
      <3>3. Young(q, i) /\ Waiting(q)' = Waiting(q) BY <1>4, <1>10, <2>2 DEF IdInv
      <3> QED BY <1>4, <3>1, <3>2, <3>3 DEF Young
    <2> QED BY <2>1, <2>2
  <1> QED BY <1>6, <1>7, <1>8, <1>9, <1>10, <1>11 DEF IdInv

LEMMA NoIdsYet ==
  ASSUME ObjectIdAssumption, IdInit
  PROVE  IdInv
  <1>1. PerSecond \in Nat /\ CounterSize \in Nat /\ CounterSize > 0 BY DEF ObjectIdAssumption
  <1>2. IdTypes
    <2>1. counter \in [Procs -> 0..(CounterSize - 1)] /\ begun \in [Procs -> 0..PerSecond] BY <1>1 DEF IdInit
    <2>2. time \in [Procs \X Threads -> Int] BY DEF IdInit, NoTime
    <2> QED BY <2>1, <2>2 DEF IdInit, IdTypes
  <1>3. ASSUME NEW p \in Procs PROVE Recent(p)
    <2>1. \A g \in Threads : time[<<p, g>>] = NoTime BY DEF IdInit
    <2>2. Pending(p, second) = {} /\ Pending(p, second - 1) = {} BY <2>1 DEF Pending, IdInit, NoTime
    <2>3. IsFiniteSet({}) /\ Cardinality({}) = 0 BY FS_EmptySet
    <2>4. begun[p] = 0 BY DEF IdInit
    <2> QED BY <1>1, <2>1, <2>2, <2>3, <2>4 DEF Recent
  <1> QED BY <1>2, <1>3 DEF IdInit, IdInv, Apart, Unique

\* No two documents of a machine get the same id, by goroutines or processes, though the
\* counters go round, so long as what an id keeps of the processes tells them apart, a
\* number of a process is not taken again while its ids are fresh, and no process begins
\* in a second more than a third of the ids the counter can number.
THEOREM IdsAreUnique ==
  ASSUME ObjectIdAssumption, Distinguished
  PROVE  IdSpec => []Unique
  <1>1. IdInit => IdInv BY NoIdsYet
  <1>2. IdInv /\ [IdNext]_idVars => IdInv'
    <2> SUFFICES ASSUME IdInv, [IdNext]_idVars PROVE IdInv' OBVIOUS
    <2>1. CASE UNCHANGED idVars
      BY <2>1 DEF idVars, IdInv, IdTypes, Apart, Recent, Young, Unique, Pending, Waiting, Age, Since, Pid
    <2>2. ASSUME NEW p \in Procs, NEW g \in Threads, TakeTime(p, g) PROVE IdInv' BY <2>2, TimeIsTaken
    <2>3. ASSUME NEW p \in Procs, NEW g \in Threads, NewObjectId(p, g) PROVE IdInv' BY <2>3, IdIsMade
    <2>4. ASSUME NEW p \in Procs, Restart(p) PROVE IdInv' BY <2>4, ProcessRestarts
    <2>5. CASE NextSecond BY <2>5, SecondIsOver
    <2> QED BY <2>1, <2>2, <2>3, <2>4, <2>5 DEF IdNext
  <1>3. IdInv => Unique BY DEF IdInv
  <1> QED BY <1>1, <1>2, <1>3, PTL DEF IdSpec

(***************************************************************************)
(* What is kept for requests.  What is looked up for a request is what was *)
(* set for it last, and values and times are kept for the same requests.   *)
(***************************************************************************)

Kept(r, k) == IF k \in DOMAIN Held(r) THEN Held(r)[k] ELSE Nil

ContextTypes ==
    /\ DOMAIN data \subseteq Requests /\ own \in [Requests -> [Keys -> Values \cup {Nil}]]
    /\ at \in [Requests -> {"new", "matched", "handled", "gone"}]
    /\ now \in Nat /\ \A r \in DOMAIN datat : datat[r] \in Nat
Own == \A r \in Requests, k \in Keys : own[r][k] = Kept(r, k)
ContextInv == ContextTypes /\ Own /\ NoLeak

\* A step that changes what is kept of one request, for one key.
LEMMA SetKeeps ==
  ASSUME ContextInv, NEW r \in Requests, NEW k \in Keys, NEW v \in Values, Set(r, k, v)
  PROVE  /\ Own' /\ DOMAIN data' = DOMAIN data \cup {r} /\ DOMAIN datat' = DOMAIN datat \cup {r}
         /\ own' \in [Requests -> [Keys -> Values \cup {Nil}]] /\ \A q \in DOMAIN datat' : datat'[q] \in Nat
  <1>1. /\ data' = Put(data, r, Put(Held(r), k, v)) /\ own' = [own EXCEPT ![r][k] = v]
        /\ datat' = IF r \in DOMAIN data THEN datat ELSE Put(datat, r, now)
    BY DEF Set
  <1>2. /\ own \in [Requests -> [Keys -> Values \cup {Nil}]] /\ DOMAIN data = DOMAIN datat /\ now \in Nat
        /\ \A q \in DOMAIN datat : datat[q] \in Nat
    BY DEF ContextInv, ContextTypes, NoLeak, Clean
  <1>3. own' \in [Requests -> [Keys -> Values \cup {Nil}]] BY <1>1, <1>2
  <1>4. DOMAIN data' = DOMAIN data \cup {r} BY <1>1 DEF Put
  <1>5. DOMAIN datat' = DOMAIN datat \cup {r} /\ \A q \in DOMAIN datat' : datat'[q] \in Nat
    BY <1>1, <1>2 DEF Put
  <1>6. ASSUME NEW q \in Requests
        PROVE  Held(q)' = IF q = r THEN Put(Held(r), k, v) ELSE Held(q)
    BY <1>1, <1>4 DEF Held, Put
  <1>7. ASSUME NEW q \in Requests, NEW j \in Keys
        PROVE  own'[q][j] = Kept(q, j)'
    <2>1. own[q][j] = Kept(q, j) BY DEF ContextInv, Own
    <2>2. CASE q # r
      <3>1. Kept(q, j)' = Kept(q, j) BY <1>6, <2>2 DEF Kept
      <3> QED BY <1>1, <1>2, <2>1, <2>2, <3>1
    <2>3. CASE q = r /\ j # k
      <3>1. Kept(q, j)' = Kept(q, j) BY <1>6, <2>3 DEF Kept, Put
      <3> QED BY <1>1, <1>2, <2>1, <2>3, <3>1
    <2>4. CASE q = r /\ j = k
      <3>1. Kept(q, j)' = v BY <1>6, <2>4 DEF Kept, Put
      <3> QED BY <1>1, <1>2, <2>4, <3>1
    <2> QED BY <2>2, <2>3, <2>4
  <1> QED BY <1>3, <1>4, <1>5, <1>7 DEF Own

LEMMA DeleteKeeps ==
  ASSUME ContextInv, NEW r \in Requests, NEW k \in Keys, Delete(r, k)
  PROVE  /\ Own' /\ DOMAIN data' = DOMAIN data /\ datat' = datat
         /\ own' \in [Requests -> [Keys -> Values \cup {Nil}]]
  <1>1. /\ data' = (IF r \in DOMAIN data THEN Put(data, r, Without(data[r], {k})) ELSE data)
        /\ own' = [own EXCEPT ![r][k] = Nil] /\ datat' = datat
    BY DEF Delete
  <1>2. own \in [Requests -> [Keys -> Values \cup {Nil}]] BY DEF ContextInv, ContextTypes
  <1>3. own' \in [Requests -> [Keys -> Values \cup {Nil}]] BY <1>1, <1>2
  <1>4. DOMAIN data' = DOMAIN data BY <1>1 DEF Put
  <1>5. ASSUME NEW q \in Requests, q # r PROVE Held(q)' = Held(q)
    BY <1>1, <1>4, <1>5 DEF Held, Put
  <1>6. DOMAIN Held(r)' = DOMAIN Held(r) \ {k} /\ \A j \in DOMAIN Held(r) \ {k} : Held(r)'[j] = Held(r)[j]
    <2>1. CASE r \in DOMAIN data
      <3>1. Held(r)' = Without(data[r], {k}) /\ Held(r) = data[r] BY <1>1, <1>4, <2>1 DEF Held, Put
      <3> QED BY <3>1 DEF Without
    <2>2. CASE r \notin DOMAIN data
      <3>1. Held(r)' = Empty /\ Held(r) = Empty BY <1>1, <2>2 DEF Held
      <3> QED BY <3>1 DEF Empty
    <2> QED BY <2>1, <2>2
  <1>7. ASSUME NEW q \in Requests, NEW j \in Keys
        PROVE  own'[q][j] = Kept(q, j)'
    <2>1. own[q][j] = Kept(q, j) BY DEF ContextInv, Own
    <2>2. CASE q # r
      <3>1. Kept(q, j)' = Kept(q, j) BY <1>5, <2>2 DEF Kept
      <3> QED BY <1>1, <1>2, <2>1, <2>2, <3>1
    <2>3. CASE q = r /\ j # k
      <3>1. Kept(q, j)' = Kept(q, j) BY <1>6, <2>3 DEF Kept
      <3> QED BY <1>1, <1>2, <2>1, <2>3, <3>1
    <2>4. CASE q = r /\ j = k
      <3>1. Kept(q, j)' = Nil BY <1>6, <2>4 DEF Kept
      <3> QED BY <1>1, <1>2, <2>4, <3>1
    <2> QED BY <2>2, <2>3, <2>4
  <1> QED BY <1>1, <1>3, <1>4, <1>7 DEF Own

\* A step that takes away all that is kept of some requests.
LEMMA ClearKeeps ==
  ASSUME ContextInv, NEW s, Cleared(s), own' = [r \in Requests |-> IF r \in s THEN NoKeys ELSE own[r]]
  PROVE  /\ Own' /\ DOMAIN data' = DOMAIN data \ s /\ DOMAIN datat' = DOMAIN datat \ s
         /\ own' \in [Requests -> [Keys -> Values \cup {Nil}]] /\ \A q \in DOMAIN datat' : datat'[q] \in Nat
  <1>1. data' = Without(data, s) /\ datat' = Without(datat, s) BY DEF Cleared
  <1>2. /\ own \in [Requests -> [Keys -> Values \cup {Nil}]] /\ \A q \in DOMAIN datat : datat[q] \in Nat
    BY DEF ContextInv, ContextTypes
  <1>3. NoKeys \in [Keys -> Values \cup {Nil}] BY DEF NoKeys
  <1>4. own' \in [Requests -> [Keys -> Values \cup {Nil}]] BY <1>2, <1>3
  <1>5. DOMAIN data' = DOMAIN data \ s /\ DOMAIN datat' = DOMAIN datat \ s BY <1>1 DEF Without
  <1>6. \A q \in DOMAIN datat' : datat'[q] \in Nat BY <1>1, <1>2 DEF Without
  <1>7. ASSUME NEW q \in Requests, NEW j \in Keys
        PROVE  own'[q][j] = Kept(q, j)'
    <2>1. own[q][j] = Kept(q, j) BY DEF ContextInv, Own
    <2>2. CASE q \in s
      <3>1. Held(q)' = Empty BY <1>5, <2>2 DEF Held
      <3>2. Kept(q, j)' = Nil BY <3>1 DEF Kept, Empty
      <3> QED BY <2>2, <3>2 DEF NoKeys
    <2>3. CASE q \notin s
      <3>1. Held(q)' = Held(q) BY <1>1, <1>5, <2>3 DEF Held, Without
      <3>2. Kept(q, j)' = Kept(q, j) BY <3>1 DEF Kept
      <3> QED BY <2>1, <2>3, <3>2
    <2> QED BY <2>2, <2>3
  <1> QED BY <1>4, <1>5, <1>6, <1>7 DEF Own

LEMMA ClearOneKeeps ==
  ASSUME ContextInv, NEW r \in Requests, Clear(r)
  PROVE  /\ Own' /\ DOMAIN data' = DOMAIN data \ {r} /\ DOMAIN datat' = DOMAIN datat \ {r}
         /\ own' \in [Requests -> [Keys -> Values \cup {Nil}]] /\ \A q \in DOMAIN datat' : datat'[q] \in Nat
  <1>1. Cleared({r}) /\ own' = [own EXCEPT ![r] = NoKeys] BY DEF Clear
  <1>2. own' = [q \in Requests |-> IF q \in {r} THEN NoKeys ELSE own[q]]
    BY <1>1 DEF ContextInv, ContextTypes
  <1> QED BY <1>1, <1>2, ClearKeeps

\* Requests that come, are handled and leave.
LEMMA RequestGoesOn ==
  ASSUME ContextInv, keepContext' = keepContext, NEW r \in Requests, NotFound(r) \/ Handler(r) \/ Return(r)
  PROVE  ContextInv'
  <1>1. /\ DOMAIN data \subseteq Requests /\ own \in [Requests -> [Keys -> Values \cup {Nil}]]
        /\ at \in [Requests -> {"new", "matched", "handled", "gone"}]
        /\ now \in Nat /\ \A q \in DOMAIN datat : datat[q] \in Nat
        /\ DOMAIN data = DOMAIN datat /\ Own /\ Holds /\ Purged
        /\ ~keepContext => \A q \in DOMAIN datat : at[q] \in {"matched", "handled"}
    BY DEF ContextInv, ContextTypes, NoLeak, Clean
  <1>2. CASE NotFound(r)
    <2>1. /\ at' = [at EXCEPT ![r] = "handled"] /\ data' = data /\ datat' = datat /\ own' = own
          /\ now' = now /\ count' = count /\ got' = got
      BY <1>2 DEF NotFound
    <2>2. Own' BY <1>1, <2>1 DEF Own, Kept, Held
    <2> QED BY <1>1, <2>1, <2>2 DEF ContextInv, ContextTypes, NoLeak, Clean, Holds, Purged
  <1>3. ASSUME NEW k \in Keys, Get(r, k), at' = at, at[r] = "handled"
        PROVE  ContextInv'
    <2>1. /\ data' = data /\ datat' = datat /\ own' = own /\ now' = now /\ count' = count
          /\ got' = [req |-> r, key |-> k, value |-> Kept(r, k), should |-> own[r][k]]
      BY <1>3 DEF Get, Kept
    <2>2. Own' BY <1>1, <2>1 DEF Own, Kept, Held
    <2>3. Holds' BY <1>1, <2>1 DEF Own, Holds
    <2> QED BY <1>1, <1>3, <2>1, <2>2, <2>3 DEF ContextInv, ContextTypes, NoLeak, Clean, Purged
  <1>4. ASSUME NEW k \in Keys, Delete(r, k), at' = at, at[r] = "handled"
        PROVE  ContextInv'
    <2>1. now' = now /\ count' = count /\ got' = got BY <1>4 DEF Delete
    <2>2. /\ Own' /\ DOMAIN data' = DOMAIN data /\ datat' = datat
          /\ own' \in [Requests -> [Keys -> Values \cup {Nil}]]
      BY <1>4, DeleteKeeps
    <2> QED BY <1>1, <1>4, <2>1, <2>2 DEF ContextInv, ContextTypes, NoLeak, Clean, Holds, Purged
  <1>5. ASSUME NEW k \in Keys, NEW v \in Values, Set(r, k, v), at' = at, at[r] = "handled"
        PROVE  ContextInv'
    <2>1. now' = now /\ count' = count /\ got' = got BY <1>5 DEF Set
    <2>2. /\ Own' /\ DOMAIN data' = DOMAIN data \cup {r} /\ DOMAIN datat' = DOMAIN datat \cup {r}
          /\ own' \in [Requests -> [Keys -> Values \cup {Nil}]] /\ \A q \in DOMAIN datat' : datat'[q] \in Nat
      BY <1>5, SetKeeps
    <2> QED BY <1>1, <1>5, <2>1, <2>2 DEF ContextInv, ContextTypes, NoLeak, Clean, Holds, Purged
  <1>6. ASSUME Clear(r), at' \in [Requests -> {"new", "matched", "handled", "gone"}],
               \A q \in Requests : q # r => at'[q] = at[q]
        PROVE  ContextInv'
    <2>1. now' = now /\ count' = count /\ got' = got BY <1>6 DEF Clear
    <2>2. /\ Own' /\ DOMAIN data' = DOMAIN data \ {r} /\ DOMAIN datat' = DOMAIN datat \ {r}
          /\ own' \in [Requests -> [Keys -> Values \cup {Nil}]] /\ \A q \in DOMAIN datat' : datat'[q] \in Nat
      BY <1>6, ClearOneKeeps
    <2> QED BY <1>1, <1>6, <2>1, <2>2 DEF ContextInv, ContextTypes, NoLeak, Clean, Holds, Purged
  <1>7. CASE Handler(r)
    <2>1. at[r] = "handled" /\ at' = at BY <1>7 DEF Handler
    <2>2. \/ \E k \in Keys : Get(r, k) \/ Delete(r, k)
          \/ \E k \in Keys, v \in Values : Set(r, k, v)
          \/ Clear(r)
      BY <1>7 DEF Handler
    <2> QED BY <1>1, <1>3, <1>4, <1>5, <1>6, <2>1, <2>2
  <1>8. CASE Return(r)
    <2>1. at' = [at EXCEPT ![r] = "gone"] BY <1>8 DEF Return
    <2>2. CASE keepContext
      <3>1. /\ data' = data /\ datat' = datat /\ own' = own /\ now' = now /\ count' = count /\ got' = got
        BY <1>8, <2>2 DEF Return
      <3>2. Own' BY <1>1, <3>1 DEF Own, Kept, Held
      <3> QED BY <1>1, <2>1, <2>2, <3>1, <3>2 DEF ContextInv, ContextTypes, NoLeak, Clean, Holds, Purged
    <2>3. CASE ~keepContext
      <3>1. Clear(r) BY <1>8, <2>3 DEF Return, Leaves
      <3> QED BY <1>1, <1>6, <2>1, <3>1
    <2> QED BY <2>2, <2>3
  <1> QED BY <1>2, <1>7, <1>8

LEMMA RequestIsMatched ==
  ASSUME ContextAssumption, ContextInv, keepContext' = keepContext,
         NEW r \in Requests, NEW v \in Values, SetVars(r, v) \/ SetRoute(r, v)
  PROVE  ContextInv'
  <1>1. /\ DOMAIN data \subseteq Requests /\ at \in [Requests -> {"new", "matched", "handled", "gone"}]
        /\ now \in Nat /\ DOMAIN data = DOMAIN datat /\ Holds /\ Purged
        /\ ~keepContext => \A q \in DOMAIN datat : at[q] \in {"matched", "handled"}
    BY DEF ContextInv, ContextTypes, NoLeak, Clean
  <1>2. PICK k \in Keys, a \in {"matched", "handled"} : Set(r, k, v) /\ at' = [at EXCEPT ![r] = a]
    BY DEF SetVars, SetRoute, ContextAssumption
  <1>3. now' = now /\ count' = count /\ got' = got BY <1>2 DEF Set
  <1>4. /\ Own' /\ DOMAIN data' = DOMAIN data \cup {r} /\ DOMAIN datat' = DOMAIN datat \cup {r}
        /\ own' \in [Requests -> [Keys -> Values \cup {Nil}]] /\ \A q \in DOMAIN datat' : datat'[q] \in Nat
    BY <1>2, SetKeeps
  <1> QED BY <1>1, <1>2, <1>3, <1>4 DEF ContextInv, ContextTypes, NoLeak, Clean, Holds, Purged

\* What Purge takes for old are the requests whose time is as long ago as it says.
LEMMA OldIsPurged ==
  ASSUME ContextAssumption, ContextInv, keepContext' = keepContext, NEW age \in Ages, Purge(age)
  PROVE  ContextInv'
  <1>1. /\ DOMAIN data \subseteq Requests /\ at \in [Requests -> {"new", "matched", "handled", "gone"}]
        /\ now \in Nat /\ \A q \in DOMAIN datat : datat[q] \in Nat
        /\ DOMAIN data = DOMAIN datat /\ Holds
        /\ ~keepContext => \A q \in DOMAIN datat : at[q] \in {"matched", "handled"}
    BY DEF ContextInv, ContextTypes, NoLeak, Clean
  <1>2. age \in Nat BY DEF ContextAssumption
  <1>3. /\ Cleared(Old(age)) /\ own' = [r \in Requests |-> IF r \in Old(age) THEN NoKeys ELSE own[r]]
        /\ at' = at /\ now' = now /\ got' = got
        /\ count' = [removed |-> Cardinality(Old(age)), old |-> Cardinality({r \in DOMAIN data : age = 0 \/ now - datat[r] > age})]
    BY DEF Purge
  <1>4. /\ Own' /\ DOMAIN data' = DOMAIN data \ Old(age) /\ DOMAIN datat' = DOMAIN datat \ Old(age)
        /\ own' \in [Requests -> [Keys -> Values \cup {Nil}]] /\ \A q \in DOMAIN datat' : datat'[q] \in Nat
    BY <1>3, ClearKeeps
  <1>5. \A r \in DOMAIN data : (r \in Old(age)) <=> (age = 0 \/ now - datat[r] > age)
    BY <1>1, <1>2 DEF Old
  <1>6. Old(age) = {r \in DOMAIN data : age = 0 \/ now - datat[r] > age}
    BY <1>5 DEF Old
  <1>7. Purged' BY <1>3, <1>6 DEF Purged
  <1> QED BY <1>1, <1>3, <1>4, <1>7 DEF ContextInv, ContextTypes, NoLeak, Clean, Holds

LEMMA NothingIsKeptYet ==
  ASSUME Init
  PROVE  ContextInv
  <1>1. DOMAIN data = {} /\ DOMAIN datat = {} BY DEF Init, Empty
  <1>2. NoKeys \in [Keys -> Values \cup {Nil}] BY DEF NoKeys
  <1>3. ContextTypes BY <1>1, <1>2 DEF Init, ContextTypes
  <1>4. Own BY <1>1 DEF Init, Own, Kept, Held, Empty, NoKeys
  <1> QED BY <1>1, <1>3, <1>4 DEF Init, ContextInv, NoLeak, Holds, Clean, Purged

\* A request finds what was set for it and not taken away, and nothing of another's; when
\* the router clears the context, nothing is left of a request that was served; and Purge
\* removes as many requests as were old.
THEOREM RequestsAreKeptApart ==
  ASSUME ContextAssumption
  PROVE  Spec => []NoLeak
  <1>1. Init => ContextInv BY NothingIsKeptYet
  <1>2. ContextInv /\ [Next]_contextVars => ContextInv'
    <2> SUFFICES ASSUME ContextInv, [Next]_contextVars PROVE ContextInv' OBVIOUS
    <2>1. CASE UNCHANGED contextVars
      BY <2>1 DEF contextVars, ContextInv, ContextTypes, Own, Kept, Held, NoLeak, Holds, Clean, Purged
    <2>2. CASE Next
      <3>1. keepContext' = keepContext BY <2>2 DEF Next
      <3>2. ASSUME NEW r \in Requests, NotFound(r) \/ Handler(r) \/ Return(r)
            PROVE  ContextInv'
        BY <3>1, <3>2, RequestGoesOn
      <3>3. ASSUME NEW r \in Requests, NEW v \in Values, SetVars(r, v) \/ SetRoute(r, v)
            PROVE  ContextInv'
        BY <3>1, <3>3, RequestIsMatched
      <3>4. ASSUME NEW age \in Ages, Purge(age) PROVE ContextInv' BY <3>1, <3>4, OldIsPurged
      <3>5. CASE Tick
        <4>1. /\ now' = now + 1 /\ data' = data /\ datat' = datat /\ at' = at /\ own' = own
              /\ count' = count /\ got' = got
          BY <3>5 DEF Tick
        <4>2. now' \in Nat BY <4>1 DEF ContextInv, ContextTypes
        <4>3. Own' BY <4>1 DEF ContextInv, Own, Kept, Held
        <4> QED BY <3>1, <4>1, <4>2, <4>3 DEF ContextInv, ContextTypes, NoLeak, Holds, Clean, Purged
      <3> QED BY <2>2, <3>2, <3>3, <3>4, <3>5 DEF Next
    <2> QED BY <2>1, <2>2
  <1>3. ContextInv => NoLeak BY DEF ContextInv
  <1> QED BY <1>1, <1>2, <1>3, PTL DEF Spec

(***************************************************************************)
(* Buckets and objects.  What the server refuses changes nothing, and an   *)
(* operation that may have changed something is not tried again, but for   *)
(* deleting a bucket.                                                      *)
(***************************************************************************)

\* A call that may be tried again has had no effect, or is a DelBucket whose answer
\* was lost; one that is over tells what it did.
Attempts == DOMAIN Idle
CallOk(x) ==
    /\ DOMAIN x = Attempts /\ x.took \in Nat
    /\ (Settled(x) /\ x.at = "run") => x.took = 0
    /\ (Settled(x) /\ x.at # "run") =>
          /\ x.took <= 1
          /\ x.err = "nil" => x.took = 1
          /\ x.err \notin {"nil", "read"} => x.took = 0
StoreInv == DOMAIN call = Clients /\ \A c \in Clients : CallOk(call[c])

\* A request that is not granted changes nothing.
LEMMA RefusedIsUnchanged ==
  ASSUME NEW bs, NEW r, Serve(bs, r).answer.err # "nil"
  PROVE  Serve(bs, r).buckets = bs
  <1>1. CASE r.op = "PutBucket"
    BY <1>1 DEF Serve, putBucket, Refuses, Grants, Answer
  <1>2. CASE r.op = "DelBucket"
    BY <1>2 DEF Serve, deleteBucket, Refuses, Grants, Answer
  <1>3. CASE r.op = "Put" /\ bs[r.bucket] # Absent
    <2>1. Serve(bs, r) = putObject(bs, r) BY <1>3 DEF Serve
    <2> QED BY <2>1 DEF putObject, Saved, Answer
  <1>4. CASE r.op = "Get" /\ bs[r.bucket] # Absent
    BY <1>4 DEF Serve, getObject, Refuses
  <1>5. CASE r.op = "Del" /\ bs[r.bucket] # Absent
    BY <1>5 DEF Serve, deleteObject, Grants, Answer
  <1>6. CASE r.op \notin {"PutBucket", "DelBucket"} /\ (bs[r.bucket] = Absent \/ r.op \notin {"Put", "Get", "Del"})
    BY <1>6 DEF Serve, Refuses
  <1> QED BY <1>1, <1>2, <1>3, <1>4, <1>5, <1>6

\* An attempt ends: what may have had an effect is not tried again, unless it is a
\* DelBucket, which is marked then.
LEMMA AttemptEnds ==
  ASSUME StoreInv, NEW c \in Clients, call[c].at = "run", NEW a, NEW effect \in {0, 1}, Outcome(c, a, effect),
         a.err = "nil" => effect = 1,
         a.err \notin {"nil", "read"} => effect = 0
  PROVE  StoreInv'
  <1> DEFINE again == Retried(call[c].req.op) /\ shouldRetry(a.err) /\ call[c].tries + 1 < Tries
  <1>1. PICK new : new = [call[c] EXCEPT !.at = IF again THEN "run" ELSE "idle", !.tries = @ + 1,
                                         !.err = a.err, !.value = a.value, !.took = @ + effect,
                                         !.resent = IF again /\ a.err = "read" THEN "yes" ELSE @]
    OBVIOUS
  <1>2. call' = [call EXCEPT ![c] = new]
    BY <1>1 DEF Outcome
  <1>3. DOMAIN call[c] = Attempts /\ CallOk(call[c]) BY DEF StoreInv, CallOk
  <1>4. /\ DOMAIN new = Attempts /\ new.req = call[c].req /\ new.took = call[c].took + effect
        /\ new.err = a.err /\ new.at = (IF again THEN "run" ELSE "idle")
        /\ new.resent = (IF again /\ a.err = "read" THEN "yes" ELSE call[c].resent)
    BY <1>1, <1>3 DEF Attempts, Idle
  <1>5. again => call[c].req.op \in {"DelBucket", "Get"} /\ a.err # "nil" BY DEF Retried, shouldRetry
  <1> HIDE DEF again
  <1>6. CallOk(new)
    <2>1. new.took \in Nat BY <1>3, <1>4 DEF CallOk
    <2> SUFFICES ASSUME Settled(new)
                 PROVE  /\ new.at = "run" => new.took = 0
                        /\ (new.at # "run") => (new.took <= 1 /\ (new.err = "nil" => new.took = 1))
                        /\ (new.at # "run" /\ new.err \notin {"nil", "read"}) => new.took = 0
      BY <1>4, <2>1 DEF CallOk
    <2>2. Settled(call[c]) BY <1>4 DEF Settled
    <2>3. call[c].took = 0 /\ new.took = effect BY <1>3, <1>4, <2>2 DEF CallOk
    <2>4. again => effect = 0
      <3>1. again => call[c].req.op = "DelBucket" BY <1>4, <1>5 DEF Settled
      <3>2. again => a.err # "read" BY <1>4, <3>1 DEF Settled
      <3> QED BY <1>5, <3>2
    <2> QED BY <1>4, <2>3, <2>4
  <1> QED BY <1>2, <1>6 DEF StoreInv

LEMMA RequestReaches ==
  ASSUME StoreInv, NEW c \in Clients, call[c].at = "run", NEW lost \in BOOLEAN, NEW r, Reaches(c, r, lost)
  PROVE  StoreInv'
  <1>1. PICK s : s = Serve(buckets, r) OBVIOUS
  <1>2. PICK a : a = IF lost THEN Answer("read", Absent) ELSE s.answer OBVIOUS
  <1>3. PICK effect : effect = IF s.buckets # buckets \/ s.answer.err = "nil" THEN 1 ELSE 0 OBVIOUS
  <1>4. Outcome(c, a, effect) BY <1>1, <1>2, <1>3 DEF Reaches
  <1>5. s.answer.err # "nil" => effect = 0 BY <1>1, <1>3, RefusedIsUnchanged
  <1>6. s.answer.err = "nil" => effect = 1 BY <1>3
  <1>7. effect \in {0, 1} BY <1>3
  <1>8. lost => a.err = "read" BY <1>2 DEF Answer
  <1>9. ~lost => a.err = s.answer.err BY <1>2
  <1>10. (a.err = "nil" => effect = 1) /\ (a.err \notin {"nil", "read"} => effect = 0)
    BY <1>5, <1>6, <1>8, <1>9
  <1> QED BY <1>4, <1>7, <1>10, AttemptEnds

\* The calls of goamz (s3.go): what changes something has its effect at most once and
\* its answer says whether, whatever requests and answers get lost and are tried again;
\* but for a DelBucket that was tried again after its answer was lost.
THEOREM StoreIsRight == StoreSpec => []StoreHolds
  <1>1. StoreInit => StoreInv
    <2>1. CallOk(Idle) BY DEF CallOk, Idle, Attempts, Settled
    <2> QED BY <2>1 DEF StoreInit, StoreInv
  <1>2. StoreInv /\ [StoreNext]_storeVars => StoreInv'
    <2> SUFFICES ASSUME StoreInv, [StoreNext]_storeVars PROVE StoreInv' OBVIOUS
    <2>1. CASE UNCHANGED storeVars BY <2>1 DEF storeVars, StoreInv
    <2>2. ASSUME NEW c \in Clients, Call(c) PROVE StoreInv'
      <3>1. PICK r \in Asked : call' = [call EXCEPT ![c] = [Idle EXCEPT !.at = "run", !.req = r]]
        BY <2>2 DEF Call
      <3>2. PICK x : x = [Idle EXCEPT !.at = "run", !.req = r] OBVIOUS
      <3>3. CallOk(x) BY <3>2 DEF CallOk, Attempts, Idle
      <3> QED BY <3>1, <3>2, <3>3 DEF StoreInv
    <2>3. ASSUME NEW c \in Clients, Run(c) PROVE StoreInv'
      BY <2>3, RequestReaches DEF Run
    <2>4. ASSUME NEW c \in Clients, Fault(c) PROVE StoreInv'
      <3>1. call[c].at = "run" BY <2>4 DEF Fault
      <3>2. ASSUME NEW e \in {"read", "dial", "InternalError"}, Outcome(c, Answer(e, Absent), 0) PROVE StoreInv'
        <4>1. Answer(e, Absent).err = e BY DEF Answer
        <4> QED BY <3>1, <3>2, <4>1, AttemptEnds
      <3>3. CASE Reaches(c, call[c].req, TRUE) BY <3>1, <3>3, RequestReaches
      <3>4. CASE Reaches(c, [call[c].req EXCEPT !.cut = TRUE], FALSE) BY <3>1, <3>4, RequestReaches
      <3> QED BY <2>4, <3>2, <3>3, <3>4 DEF Fault
    <2> QED BY <2>1, <2>2, <2>3, <2>4 DEF StoreNext
  <1>3. StoreInv => StoreHolds
    <2> SUFFICES ASSUME StoreInv PROVE StoreHolds OBVIOUS
    <2>1. ASSUME NEW c \in Clients, Settled(call[c])
          PROVE  /\ call[c].took <= 1
                 /\ (call[c].at = "idle" /\ call[c].err = "nil") => call[c].took = 1
                 /\ (call[c].at = "idle" /\ call[c].err \notin {"nil", "read"}) => call[c].took = 0
      <3>1. PICK x : x = call[c] OBVIOUS
      <3>2. CallOk(x) /\ Settled(x) BY <2>1, <3>1 DEF StoreInv
      <3>3. /\ x.took <= 1
            /\ (x.at = "idle" /\ x.err = "nil") => x.took = 1
            /\ (x.at = "idle" /\ x.err \notin {"nil", "read"}) => x.took = 0
        BY <3>2 DEF CallOk
      <3> QED BY <3>1, <3>3
    <2>2. AtMostOnce BY <2>1 DEF AtMostOnce
    <2>3. AnswersTrue BY <2>1 DEF AnswersTrue
    <2> QED BY <2>2, <2>3 DEF StoreHolds
  <1> QED BY <1>1, <1>2, <1>3, PTL DEF StoreSpec
=============================================================================
