----------------------------- MODULE DataProofs -----------------------------
(***************************************************************************)
(* Proofs about MgoQueue, for any elements, first capacity and growth;     *)
(* about MgoGridWrite and MgoGridRead, for any sizes of chunks and         *)
(* buffers; and about MgoWrite, for any goroutines, sockets and calls.     *)
(***************************************************************************)
EXTENDS MgoQueue, MgoGridWrite, MgoGridRead, MgoWrite,
        SequenceTheorems, FiniteSetTheorems, WellFoundedInduction, TLAPS

(***************************************************************************)
(* Sequences given by their elements, and indices modulo a capacity        *)
(***************************************************************************)

\* A function on 1..n is a sequence of length n.
LEMMA FunctionIsSequence ==
  ASSUME NEW S, NEW n \in Nat, NEW f \in [1..n -> S]
  PROVE  f \in Seq(S) /\ Len(f) = n
  OBVIOUS

LEMMA AppendByElements ==
  ASSUME NEW S, NEW n \in Nat, NEW f \in [1..n -> S], NEW e \in S, NEW g \in [1..(n + 1) -> S],
         \A i \in 1..n : g[i] = f[i], g[n + 1] = e
  PROVE  g = Append(f, e)
  <1>1. f \in Seq(S) /\ Len(f) = n BY FunctionIsSequence
  <1>2. n + 1 \in Nat OBVIOUS
  <1>3. g \in Seq(S) /\ Len(g) = n + 1 BY <1>2, FunctionIsSequence
  <1>4. Append(f, e) \in Seq(S) /\ Len(Append(f, e)) = n + 1 BY <1>1, AppendProperties
  <1>5. \A i \in 1..(n + 1) : Append(f, e)[i] = g[i] BY <1>1, AppendProperties
  <1> QED BY <1>3, <1>4, <1>5, SeqEqual

LEMMA TailByElements ==
  ASSUME NEW S, NEW n \in Nat, NEW f \in [1..(n + 1) -> S], NEW g \in [1..n -> S],
         \A i \in 1..n : g[i] = f[i + 1]
  PROVE  f # <<>> /\ Head(f) = f[1] /\ g = Tail(f)
  <1>1. n + 1 \in Nat OBVIOUS
  <1>2. f \in Seq(S) /\ Len(f) = n + 1 BY <1>1, FunctionIsSequence
  <1>3. g \in Seq(S) /\ Len(g) = n BY FunctionIsSequence
  <1>4. f # <<>> BY <1>2
  <1>5. /\ Tail(f) \in Seq(S) /\ Len(Tail(f)) = n
        /\ \A i \in 1..n : Tail(f)[i] = f[i + 1]
    BY <1>2, <1>4, HeadTailProperties
  <1>6. Tail(f) = g BY <1>3, <1>5, SeqEqual
  <1> QED BY <1>2, <1>4, <1>6

\* An index goes round at most once.
LEMMA GoesRound ==
  ASSUME NEW c \in Nat, NEW x \in Nat, x < c + c
  PROVE  (x % c) = IF x < c THEN x ELSE x - c
  <1>1. c > 0 OBVIOUS
  <1>2. (x \div c) \in Int /\ x = c * (x \div c) + (x % c) /\ (x % c) \in 0..(c - 1) BY <1>1
  <1> QED BY <1>1, <1>2

(***************************************************************************)
(* The state of the buffer                                                 *)
(***************************************************************************)

\* The indices of the slots are 0..Cap - 1, popi is one of them, and pushi is
\* where the elements that begin at popi end.
Slots(c) == 0..(c - 1)
Sound ==
    /\ Cap \in Nat /\ elems \in [Slots(Cap) -> Elems \cup {None}]
    /\ nelems \in 0..Cap /\ popi \in Nat /\ pushi \in Nat
    /\ Cap = 0 => popi = 0 /\ pushi = 0
    /\ Cap > 0 => popi < Cap /\ pushi = (popi + nelems) % Cap

contents == [i \in 1..nelems |-> elems[(popi + i - 1) % Cap]]

LEMMA SlotsCount ==
  ASSUME NEW c \in Nat, NEW f, DOMAIN f = Slots(c)
  PROVE  Cardinality(DOMAIN f) = c
  <1>1. Cardinality(0..(c - 1)) = IF 0 > c - 1 THEN 0 ELSE (c - 1) - 0 + 1 BY FS_Interval
  <1> QED BY <1>1 DEF Slots

LEMMA SoundInit == Init => Sound /\ contents = <<>>
  <1> SUFFICES ASSUME Init PROVE Sound /\ contents = <<>> OBVIOUS
  <1>1. DOMAIN elems = {} /\ {} = Slots(0) BY DEF Init, Slots
  <1>2. Cap = 0 BY <1>1, SlotsCount DEF Cap
  <1>3. elems \in [Slots(Cap) -> Elems \cup {None}] BY <1>1, <1>2 DEF Init
  <1> QED BY <1>1, <1>2, <1>3 DEF Init, Sound, contents

\* Where the i-th element is.
Slot(i, p, c) == IF p + i - 1 < c THEN p + i - 1 ELSE p + i - 1 - c

LEMMA Place ==
  ASSUME Sound, NEW i \in 1..nelems
  PROVE  ((popi + i - 1) % Cap) = Slot(i, popi, Cap) /\ Slot(i, popi, Cap) \in Slots(Cap)
  <1>1. popi \in Nat /\ i \in Nat \ {0} /\ Cap \in Nat /\ popi + i - 1 < Cap + Cap
    BY DEF Sound
  <1>2. \A x \in Nat : x < Cap + Cap => (x % Cap) = IF x < Cap THEN x ELSE x - Cap
    BY <1>1, GoesRound
  <1>3. popi + i - 1 \in Nat BY <1>1
  <1>4. ((popi + i - 1) % Cap) = Slot(i, popi, Cap) BY <1>1, <1>2, <1>3 DEF Slot
  <1>5. Slot(i, popi, Cap) \in Slots(Cap) BY <1>1 DEF Slot, Slots
  <1> QED BY <1>4, <1>5

LEMMA ContentsType == Sound => contents \in [1..nelems -> Elems \cup {None}]
  BY Place DEF Sound, contents, Slot

\* Where the element after the last one goes.
LEMMA PushPlace ==
  ASSUME Sound, Cap > 0
  PROVE  pushi = IF popi + nelems < Cap THEN popi + nelems ELSE popi + nelems - Cap
  <1>1. popi + nelems \in Nat /\ popi + nelems < Cap + Cap /\ Cap \in Nat BY DEF Sound
  <1> QED BY <1>1, GoesRound DEF Sound

LEMMA Grows == Sound => NewCap \in Nat /\ NewCap > Cap
  BY QueueAssumption DEF Sound, NewCap

(***************************************************************************)
(* Pushing and popping                                                     *)
(***************************************************************************)

\* The contents by their slots.
LEMMA ContentsBySlot == Sound => \A i \in 1..nelems : contents[i] = elems[Slot(i, popi, Cap)]
  BY Place DEF contents

LEMMA PushedBySlots ==
  ASSUME Sound, Sound', NEW e \in Elems, nelems' = nelems + 1,
         \A i \in 1..nelems : elems'[Slot(i, popi', Cap')] = elems[Slot(i, popi, Cap)],
         elems'[Slot(nelems', popi', Cap')] = e
  PROVE  contents' = Append(contents, e)
  <1> DEFINE S == Elems \cup {None}
  <1>1. nelems \in Nat BY DEF Sound
  <1>2. contents \in [1..nelems -> S] BY ContentsType
  <1>3. contents' \in [1..(nelems + 1) -> S]
    <2>1. (Sound => contents \in [1..nelems -> Elems \cup {None}])' BY ContentsType, PTL
    <2> QED BY <2>1
  <1>4. \A i \in 1..(nelems + 1) : contents'[i] = elems'[Slot(i, popi', Cap')]
    <2>1. (Sound => \A i \in 1..nelems : contents[i] = elems[Slot(i, popi, Cap)])'
      BY ContentsBySlot, PTL
    <2> QED BY <2>1
  <1>5. \A i \in 1..nelems : contents'[i] = contents[i] BY <1>1, <1>4, ContentsBySlot
  <1>6. contents'[nelems'] = e BY <1>1, <1>4
  <1> HIDE DEF S
  <1>7. e \in S BY DEF S
  <1> QED BY <1>1, <1>2, <1>3, <1>5, <1>6, <1>7, AppendByElements

\* There is room: the slot at pushi is none of the occupied ones.
LEMMA PushFits ==
  ASSUME Sound, NEW e \in Elems, Push(e), nelems # Cap
  PROVE  Sound' /\ contents' = Append(contents, e)
  <1>1. /\ Cap \in Nat /\ nelems \in Nat /\ nelems < Cap /\ popi \in Nat /\ popi < Cap /\ pushi \in Nat
        /\ elems \in [Slots(Cap) -> Elems \cup {None}]
    BY DEF Sound
  <1>2. pushi = Slot(nelems + 1, popi, Cap) /\ pushi \in Slots(Cap)
    BY <1>1, PushPlace DEF Slot, Slots
  <1>3. /\ elems' = [elems EXCEPT ![pushi] = e] /\ nelems' = nelems + 1
        /\ popi' = popi /\ pushi' = (pushi + 1) % Cap
    BY DEF Push, Buffer, Cap
  <1>4. elems' \in [Slots(Cap) -> Elems \cup {None}] BY <1>1, <1>2, <1>3
  <1>5. Cap' = Cap BY <1>1, <1>4, SlotsCount DEF Cap
  <1> DEFINE Round(x) == IF x < Cap THEN x ELSE x - Cap
  <1>6. \A x \in Nat : x < Cap + Cap => (x % Cap) = Round(x) BY <1>1, GoesRound
  <1>7. ((popi + nelems + 1) % Cap) = Round(popi + nelems + 1)
    BY <1>1, <1>6
  <1>7a. pushi' = Round(pushi + 1)
    BY <1>1, <1>2, <1>3, <1>6 DEF Slots
  <1>8. Sound' BY <1>1, <1>2, <1>3, <1>4, <1>5, <1>7, <1>7a DEF Sound, Slot
  <1>9. \A i \in 1..nelems : Slot(i, popi', Cap') = Slot(i, popi, Cap) /\ Slot(i, popi, Cap) # pushi /\ Slot(i, popi, Cap) \in Slots(Cap)
    BY <1>1, <1>2, <1>3, <1>5 DEF Slot, Slots
  <1>10. Slot(nelems', popi', Cap') = pushi BY <1>2, <1>3, <1>5 DEF Slot
  <1>11. /\ \A i \in 1..nelems : elems'[Slot(i, popi', Cap')] = elems[Slot(i, popi, Cap)]
         /\ elems'[Slot(nelems', popi', Cap')] = e
    BY <1>1, <1>2, <1>3, <1>9, <1>10
  <1> QED BY <1>3, <1>8, <1>11, PushedBySlots

\* The buffer is full and its elements begin at its first slot (or it has no
\* slots yet): they keep their places.
LEMMA PushGrows ==
  ASSUME Sound, NEW e \in Elems, Push(e), nelems = Cap, popi = 0
  PROVE  Sound' /\ contents' = Append(contents, e)
  <1>1. /\ Cap \in Nat /\ nelems \in Nat /\ NewCap \in Nat /\ Cap < NewCap
        /\ elems \in [Slots(Cap) -> Elems \cup {None}]
    BY Grows DEF Sound
  <1> DEFINE larger == [i \in 0..NewCap - 1 |-> IF i < Cap THEN elems[i] ELSE None]
  <1>2. Buffer = [elems |-> larger, popi |-> 0, pushi |-> Cap] BY DEF Buffer, Expanded
  <1>3. larger \in [Slots(NewCap) -> Elems \cup {None}] BY <1>1 DEF Slots
  <1>4. Cardinality(DOMAIN larger) = NewCap BY <1>1, <1>3, SlotsCount
  <1> HIDE DEF larger
  <1>5. /\ elems' = [larger EXCEPT ![Cap] = e] /\ nelems' = nelems + 1
        /\ popi' = 0 /\ pushi' = (Cap + 1) % NewCap
    BY <1>2, <1>4 DEF Push
  <1>6. elems' \in [Slots(NewCap) -> Elems \cup {None}] BY <1>1, <1>3, <1>5
  <1>7. Cap' = NewCap BY <1>1, <1>6, SlotsCount DEF Cap
  <1>8. Sound'
    <2>1. (Cap + 1) % NewCap \in Nat BY <1>1
    <2> QED BY <1>1, <1>5, <1>6, <1>7, <2>1 DEF Sound
  <1>9. \A i \in 1..nelems : elems'[i - 1] = elems[i - 1]
    BY <1>1, <1>5, <1>3 DEF Slots, larger
  <1>10. elems'[Cap] = e BY <1>1, <1>3, <1>5 DEF Slots
  <1>11. /\ \A i \in 1..nelems : Slot(i, popi', Cap') = i - 1 /\ Slot(i, popi, Cap) = i - 1
         /\ Slot(nelems', popi', Cap') = Cap
    BY <1>1, <1>5, <1>7 DEF Slot
  <1>12. /\ \A i \in 1..nelems : elems'[Slot(i, popi', Cap')] = elems[Slot(i, popi, Cap)]
         /\ elems'[Slot(nelems', popi', Cap')] = e
    BY <1>9, <1>10, <1>11
  <1> QED BY <1>5, <1>8, <1>12, PushedBySlots

\* The buffer is full and its elements go round its end: those before the end
\* move to the end of the larger one, those after stay, and the new one is put
\* behind these.
LEMMA PushGrowsAround ==
  ASSUME Sound, NEW e \in Elems, Push(e), nelems = Cap, popi # 0
  PROVE  Sound' /\ contents' = Append(contents, e)
  <1>1. /\ Cap \in Nat \ {0} /\ popi \in 1..(Cap - 1) /\ NewCap \in Nat /\ Cap < NewCap
        /\ elems \in [Slots(Cap) -> Elems \cup {None}]
    BY Grows DEF Sound
  <1> DEFINE moved == NewCap - (Cap - popi)
             larger == [i \in 0..NewCap - 1 |-> IF i < popi THEN elems[i]
                          ELSE IF i >= moved THEN elems[i - moved + popi] ELSE None]
  <1>2. moved \in (popi + 1)..(NewCap - 1) BY <1>1
  <1>3. pushi = popi BY <1>1, PushPlace
  <1>4. Buffer = [elems |-> larger, popi |-> moved, pushi |-> popi]
    BY <1>3 DEF Buffer, Expanded
  <1>5. larger \in [Slots(NewCap) -> Elems \cup {None}]
    <2>1. \A i \in 0..(NewCap - 1) : i >= moved => i - moved + popi \in Slots(Cap)
      BY <1>1, <1>2 DEF Slots
    <2>2. \A i \in 0..(NewCap - 1) : i < popi => i \in Slots(Cap) BY <1>1 DEF Slots
    <2> QED BY <1>1, <2>1, <2>2 DEF Slots
  <1>6. Cardinality(DOMAIN larger) = NewCap BY <1>1, <1>5, SlotsCount
  <1> HIDE DEF larger
  <1>7. /\ elems' = [larger EXCEPT ![popi] = e] /\ nelems' = Cap + 1
        /\ popi' = moved /\ pushi' = (popi + 1) % NewCap
    BY <1>4, <1>6 DEF Push
  <1>8. elems' \in [Slots(NewCap) -> Elems \cup {None}] BY <1>1, <1>5, <1>7
  <1>9. Cap' = NewCap BY <1>1, <1>8, SlotsCount DEF Cap
  <1>10. Sound'
    <2>1. \A x \in Nat : x < NewCap + NewCap => (x % NewCap) = IF x < NewCap THEN x ELSE x - NewCap
      BY <1>1, GoesRound
    <2>2. ((popi + 1) % NewCap) = popi + 1 BY <1>1, <2>1
    <2>3. ((moved + (Cap + 1)) % NewCap) = popi + 1 BY <1>1, <1>2, <2>1
    <2> QED BY <1>1, <1>2, <1>7, <1>8, <1>9, <2>2, <2>3 DEF Sound
  <1>11. \A i \in 1..Cap : elems'[Slot(i, moved, NewCap)] = elems[Slot(i, popi, Cap)]
    <2> SUFFICES ASSUME NEW i \in 1..Cap
                 PROVE  elems'[Slot(i, moved, NewCap)] = elems[Slot(i, popi, Cap)]
      OBVIOUS
    <2>1. CASE popi + i - 1 < Cap
      <3>1. /\ Slot(i, popi, Cap) = popi + i - 1 /\ Slot(i, moved, NewCap) = moved + i - 1
            /\ moved + i - 1 \in Slots(NewCap) /\ moved + i - 1 # popi
        BY <1>1, <1>2, <2>1 DEF Slot, Slots
      <3>2. elems'[moved + i - 1] = larger[moved + i - 1] BY <1>1, <1>5, <1>7, <3>1
      <3>3. larger[moved + i - 1] = elems[popi + i - 1]
        BY <1>1, <1>2, <3>1 DEF larger, Slots
      <3> QED BY <3>1, <3>2, <3>3
    <2>2. CASE ~(popi + i - 1 < Cap)
      <3> DEFINE k == popi + i - 1 - Cap
      <3>1. /\ Slot(i, popi, Cap) = k /\ Slot(i, moved, NewCap) = k
            /\ k \in Slots(NewCap) /\ k < popi
        BY <1>1, <1>2, <2>2 DEF Slot, Slots
      <3>2. elems'[k] = larger[k] BY <1>1, <1>5, <1>7, <3>1
      <3>3. larger[k] = elems[k] BY <1>1, <3>1 DEF larger, Slots
      <3> QED BY <3>1, <3>2, <3>3
    <2> QED BY <2>1, <2>2
  <1>12. elems'[Slot(Cap + 1, moved, NewCap)] = e
    <2>1. Slot(Cap + 1, moved, NewCap) = popi /\ popi \in Slots(NewCap)
      BY <1>1, <1>2 DEF Slot, Slots
    <2> QED BY <1>5, <1>7, <2>1
  <1> HIDE DEF moved
  <1> QED BY <1>7, <1>9, <1>10, <1>11, <1>12, PushedBySlots

LEMMA PushKeepsOrder ==
  ASSUME Sound, NEW e \in Elems, Push(e)
  PROVE  Sound' /\ contents' = Append(contents, e)
  BY PushFits, PushGrows, PushGrowsAround

LEMMA PopTakesFirst ==
  ASSUME Sound, Pop, nelems # 0
  PROVE  Sound' /\ contents # <<>> /\ popped' = Head(contents) /\ contents' = Tail(contents)
  <1> DEFINE S == Elems \cup {None}
  <1>0. nelems - 1 \in Nat BY DEF Sound
  <1>n. PICK n \in Nat : nelems = n + 1 BY <1>0 DEF Sound
  <1>1. /\ Cap \in Nat /\ Cap > 0 /\ nelems = n + 1 /\ n < Cap
        /\ popi \in Nat /\ popi < Cap /\ elems \in [Slots(Cap) -> S]
    BY <1>n DEF Sound, Slots
  <1>2. /\ popped' = elems[popi] /\ elems' = [elems EXCEPT ![popi] = None] /\ nelems' = n
        /\ popi' = (popi + 1) % Cap /\ pushi' = pushi
    BY <1>1 DEF Pop
  <1>3. elems' \in [Slots(Cap) -> S] BY <1>1, <1>2
  <1>4. Cap' = Cap BY <1>1, <1>3, SlotsCount DEF Cap
  <1>r. \A x \in Nat : x < Cap + Cap => (x % Cap) = IF x < Cap THEN x ELSE x - Cap
    BY <1>1, GoesRound
  <1>5. popi' = IF popi + 1 < Cap THEN popi + 1 ELSE 0
    <2>1. popi + 1 \in Nat /\ popi + 1 < Cap + Cap BY <1>1
    <2>2. ((popi + 1) % Cap) = IF popi + 1 < Cap THEN popi + 1 ELSE popi + 1 - Cap BY <1>1, <1>r, <2>1
    <2> QED BY <1>1, <1>2, <2>2
  <1>6. Sound'
    <2>1. popi' \in Nat /\ popi' < Cap BY <1>1, <1>5
    <2>2. pushi = IF popi + nelems < Cap THEN popi + nelems ELSE popi + nelems - Cap
      BY <1>1, PushPlace
    <2>3. pushi = (popi' + n) % Cap
      <3>1. \A q \in Nat : q < Cap => ((q + n) % Cap) = IF q + n < Cap THEN q + n ELSE q + n - Cap
        BY <1>1, <1>r
      <3>2. ((popi' + n) % Cap) = IF popi' + n < Cap THEN popi' + n ELSE popi' + n - Cap
        BY <2>1, <3>1
      <3> QED BY <1>1, <1>5, <2>2, <3>2
    <2>4. pushi \in Nat /\ n \in 0..Cap BY <1>1 DEF Sound
    <2> QED BY <1>1, <1>2, <1>3, <1>4, <2>1, <2>3, <2>4 DEF Sound
  <1>7. \A i \in 1..n : /\ Slot(i, popi', Cap') = Slot(i + 1, popi, Cap)
                        /\ Slot(i + 1, popi, Cap) # popi
                        /\ Slot(i + 1, popi, Cap) \in Slots(Cap)
    BY <1>1, <1>4, <1>5 DEF Slot, Slots
  <1>8. contents \in [1..(n + 1) -> S] BY <1>1, ContentsType
  <1>9. contents' \in [1..n -> S]
    <2>1. (Sound => contents \in [1..nelems -> Elems \cup {None}])' BY ContentsType, PTL
    <2> QED BY <1>2, <1>6, <2>1
  <1>10. \A i \in 1..n : contents'[i] = contents[i + 1]
    <2>1. (Sound => \A i \in 1..nelems : contents[i] = elems[Slot(i, popi, Cap)])'
      BY ContentsBySlot, PTL
    <2> SUFFICES ASSUME NEW i \in 1..n PROVE contents'[i] = contents[i + 1] OBVIOUS
    <2>2. contents'[i] = elems'[Slot(i, popi', Cap')] BY <1>2, <1>6, <2>1
    <2>3. contents[i + 1] = elems[Slot(i + 1, popi, Cap)] BY <1>1, ContentsBySlot
    <2> QED BY <1>1, <1>2, <1>7, <2>2, <2>3
  <1>11. contents[1] = elems[popi]
    <2>1. Slot(1, popi, Cap) = popi BY <1>1 DEF Slot, Slots
    <2> QED BY <1>1, <2>1, ContentsBySlot
  <1> HIDE DEF S
  <1> QED BY <1>1, <1>2, <1>6, <1>8, <1>9, <1>10, <1>11, TailByElements

LEMMA PopOfEmpty ==
  ASSUME Sound, Pop, nelems = 0
  PROVE  Sound' /\ contents = <<>> /\ popped' = None /\ contents' = contents
  <1>1. UNCHANGED <<elems, nelems, popi, pushi>> /\ popped' = None BY DEF Pop
  <1>2. Sound' /\ contents' = contents BY <1>1 DEF Sound, contents, Cap
  <1> QED BY <1>1, <1>2 DEF contents

(***************************************************************************)
(* The buffer implements a queue                                           *)
(***************************************************************************)

\* For any elements, any first capacity and any number of pushes, in any order
\* with pops, Pop returns what was pushed and in that order, through every
\* growth of a buffer whose elements go round its end.
THEOREM QueueIsFifo == Spec => IsFifo
  <1>1. Init => Sound /\ Queue!Init BY SoundInit DEF Init, Queue!Init, contents
  <1>2. Sound /\ [Next]_vars => Sound' /\ [Queue!Next]_(Queue!vars)
    <2> SUFFICES ASSUME Sound, [Next]_vars PROVE Sound' /\ [Queue!Next]_(Queue!vars)
      OBVIOUS
    <2>1. ASSUME NEW e \in Elems, Push(e) PROVE Sound' /\ Queue!Push(e)
      <3>1. Sound' /\ contents' = Append(contents, e) BY <2>1, PushKeepsOrder
      <3>2. popped' = None BY <2>1 DEF Push
      <3> QED BY <3>1, <3>2 DEF Queue!Push, contents
    <2>2. CASE Pop /\ nelems # 0
      <3>1. Sound' /\ contents # <<>> /\ popped' = Head(contents) /\ contents' = Tail(contents)
        BY <2>2, PopTakesFirst
      <3>2. Queue!Pop BY <3>1 DEF Queue!Pop, contents
      <3> QED BY <3>1, <3>2 DEF Queue!Next
    <2>3. CASE Pop /\ nelems = 0
      <3>1. Sound' /\ contents = <<>> /\ popped' = None /\ contents' = contents
        BY <2>3, PopOfEmpty
      <3>2. Queue!Pop BY <3>1 DEF Queue!Pop, contents
      <3> QED BY <3>1, <3>2 DEF Queue!Next
    <2>4. CASE UNCHANGED vars
      <3>1. Sound' /\ contents' = contents /\ popped' = popped
        BY <2>4 DEF vars, Sound, Cap, contents
      <3> QED BY <3>1 DEF Queue!vars, contents
    <2> QED BY <2>1, <2>2, <2>3, <2>4 DEF Next, Queue!Next
  <1> QED BY <1>1, <1>2, PTL DEF Spec, IsFifo, Queue!Spec

(***************************************************************************)
(* The bytes of a file, of which the one at the offset i is i + 1          *)
(***************************************************************************)

\* The bytes from a to b of the file
Bytes(a, b) == [i \in 1..(b - a) |-> a + i]

LEMMA BytesType ==
  ASSUME NEW a \in Nat, NEW b \in Nat, a <= b
  PROVE  /\ Bytes(a, b) \in Seq(Nat) /\ Len(Bytes(a, b)) = b - a
         /\ \A i \in 1..(b - a) : Bytes(a, b)[i] = a + i
  <1>1. b - a \in Nat OBVIOUS
  <1>2. \A i \in 1..(b - a) : a + i \in Nat OBVIOUS
  <1> QED BY <1>1, <1>2 DEF Bytes

\* A sequence of that length and those elements is those bytes.
LEMMA AreBytes ==
  ASSUME NEW a \in Nat, NEW b \in Nat, a <= b, NEW s \in Seq(Nat), Len(s) = b - a,
         \A i \in 1..(b - a) : s[i] = a + i
  PROVE  s = Bytes(a, b)
  <1>1. PICK t : t = Bytes(a, b) OBVIOUS
  <1>2. t \in Seq(Nat) /\ Len(t) = b - a /\ \A i \in 1..(b - a) : t[i] = a + i BY <1>1, BytesType
  <1>3. Len(s) = Len(t) /\ \A i \in 1..Len(s) : s[i] = t[i] BY <1>2
  <1>4. s = t BY <1>2, <1>3, SeqEqual
  <1> QED BY <1>1, <1>4

LEMMA BytesJoin ==
  ASSUME NEW a \in Nat, NEW b \in Nat, NEW c \in Nat, a <= b, b <= c
  PROVE  Bytes(a, b) \o Bytes(b, c) = Bytes(a, c)
  <1>a. PICK f : f = Bytes(a, b) OBVIOUS
  <1>b. PICK g : g = Bytes(b, c) OBVIOUS
  <1>1. /\ f \in Seq(Nat) /\ Len(f) = b - a /\ \A i \in 1..(b - a) : f[i] = a + i
        /\ g \in Seq(Nat) /\ Len(g) = c - b /\ \A i \in 1..(c - b) : g[i] = b + i
    BY <1>a, <1>b, BytesType
  <1>c. PICK s : s = f \o g OBVIOUS
  <1>d. /\ s \in Seq(Nat) /\ Len(s) = Len(f) + Len(g)
        /\ \A i \in 1..(Len(f) + Len(g)) : s[i] = IF i <= Len(f) THEN f[i] ELSE g[i - Len(f)]
    BY <1>1, <1>c, ConcatProperties
  <1>2. s \in Seq(Nat) /\ Len(s) = c - a BY <1>1, <1>d
  <1>3. ASSUME NEW i \in 1..(c - a) PROVE s[i] = a + i
    <2>1. CASE i <= b - a BY <1>1, <2>1, <1>d
    <2>2. CASE i > b - a
      <3>1. s[i] = g[i - (b - a)] /\ i - (b - a) \in 1..(c - b) BY <1>1, <2>2, <1>d
      <3> QED BY <1>1, <3>1
    <2> QED BY <2>1, <2>2
  <1>4. a <= c OBVIOUS
  <1>5. s = Bytes(a, c) BY <1>2, <1>3, <1>4, AreBytes
  <1> QED BY <1>5, <1>a, <1>b, <1>c

LEMMA BytesPart ==
  ASSUME NEW a \in Nat, NEW b \in Nat, NEW c \in Nat, NEW d \in Nat, a <= c, c <= d, d <= b
  PROVE  SubSeq(Bytes(a, b), c - a + 1, d - a) = Bytes(c, d)
  <1>1. PICK f : f = Bytes(a, b) OBVIOUS
  <1>2. PICK s : s = SubSeq(f, c - a + 1, d - a) OBVIOUS
  <1>3. a <= b OBVIOUS
  <1>4. \A i \in 1..(b - a) : f[i] = a + i BY <1>1, <1>3, BytesType
  <1>a. PICK p : p = c - a + 1 OBVIOUS
  <1>b. PICK q : q = d - a OBVIOUS
  <1>5. p \in Int /\ q \in Int /\ \A i \in p..q : f[i] \in Nat BY <1>4, <1>a, <1>b
  <1>c. s = SubSeq(f, p, q) BY <1>2, <1>a, <1>b
  <1>6. /\ SubSeq(f, p, q) \in Seq(Nat) /\ Len(SubSeq(f, p, q)) = IF p <= q THEN q - p + 1 ELSE 0
        /\ \A i \in 1..(q - p + 1) : SubSeq(f, p, q)[i] = f[p + i - 1]
    BY <1>5, SubSeqProperties
  <1>d. q - p + 1 = d - c /\ (p <= q \/ d - c = 0) BY <1>a, <1>b
  <1>e. s \in Seq(Nat) /\ Len(s) = d - c /\ \A i \in 1..(d - c) : s[i] = f[p + i - 1] BY <1>c, <1>d, <1>6
  <1>7. Len(s) = d - c /\ \A i \in 1..(d - c) : s[i] = c + i
    <2> SUFFICES ASSUME NEW i \in 1..(d - c) PROVE s[i] = c + i BY <1>e
    <2>1. p + i - 1 \in 1..(b - a) /\ a + (p + i - 1) = c + i BY <1>a
    <2>2. f[p + i - 1] = c + i BY <2>1, <1>4
    <2> QED BY <1>e, <2>2
  <1>8. s = Bytes(c, d) BY <1>e, <1>7, AreBytes
  <1> QED BY <1>1, <1>2, <1>8

LEMMA BytesFrom ==
  ASSUME NEW a \in Nat, NEW b \in Nat, a <= b, NEW p \in Nat, NEW q \in Nat, p <= q, q <= b - a
  PROVE  SubSeq(Bytes(a, b), p + 1, q) = Bytes(a + p, a + q)
  <1>1. PICK c : c = a + p OBVIOUS
  <1>2. PICK d : d = a + q OBVIOUS
  <1>3. c \in Nat /\ d \in Nat /\ a <= c /\ c <= d /\ d <= b BY <1>1, <1>2
  <1>4. SubSeq(Bytes(a, b), c - a + 1, d - a) = Bytes(c, d) BY <1>3, BytesPart
  <1>5. c - a + 1 = p + 1 /\ d - a = q BY <1>1, <1>2
  <1> QED BY <1>1, <1>2, <1>4, <1>5

LEMMA BytesEmpty == ASSUME NEW a \in Nat PROVE Bytes(a, a) = <<>>
  <1>1. Bytes(a, a) \in Seq(Nat) /\ Len(Bytes(a, a)) = 0 BY BytesType
  <1> QED BY <1>1, EmptySeq

\* Cutting the bytes after the first i
LEMMA Halves ==
  ASSUME NEW a \in Nat, NEW b \in Nat, a <= b, NEW i \in Nat, i <= b - a
  PROVE  Takes(Bytes(a, b), i) = Bytes(a, a + i) /\ Drops(Bytes(a, b), i) = Bytes(a + i, b)
  <1>1. Len(Bytes(a, b)) = b - a BY BytesType
  <1>2. PICK c : c = a + i OBVIOUS
  <1>3. c \in Nat /\ a <= a /\ a <= c /\ c <= b /\ b <= b BY <1>2
  <1>4. SubSeq(Bytes(a, b), a - a + 1, c - a) = Bytes(a, c) BY <1>3, BytesPart
  <1>5. SubSeq(Bytes(a, b), c - a + 1, b - a) = Bytes(c, b) BY <1>3, BytesPart
  <1>6. a - a + 1 = 1 /\ c - a = i BY <1>2
  <1> QED BY <1>1, <1>2, <1>4, <1>5, <1>6 DEF Takes, Drops

\* Reading some bytes after others
LEMMA ReadsOn ==
  ASSUME NEW g \in Nat, NEW a \in Nat, NEW b \in Nat, g <= a, a <= b
  PROVE  /\ Bytes(a - g, a) \o Bytes(a, b) = Bytes(a - g, b)
         /\ Bytes(a - g, b) \in Seq(Nat) /\ Len(Bytes(a - g, b)) = b - (a - g)
         /\ a - g \in Nat /\ a - g <= b
  <1>1. a - g \in Nat /\ a - g <= a /\ a - g <= b OBVIOUS
  <1> QED BY <1>1, BytesJoin, BytesType

(***************************************************************************)
(* Writing a file                                                          *)
(***************************************************************************)

\* What n chunks hold of a file of some length, and of this file so far
Upto(n, length) == IF n * ChunkSize < length THEN n * ChunkSize ELSE length
Held(n) == Upto(n, file.length)

GridFile ==
    [mode : {"writing", "closed"}, err : {"nil", "late", "unfiled"} \cup Broken, chunk : Nat,
     wbuf : Seq(Nat), length : Nat, wsum : Seq(Nat), wpending : Nat, swept : {"no", "failed", "done"}]
Places == {"idle", "insert", "wait", "woken", "complete", "filing", "shut"}

GridTypes ==
    /\ file \in GridFile
    /\ todo \in Seq(Seq(Nat)) /\ rest \in Seq(Nat)
    /\ at \in Places /\ closing \in BOOLEAN
    /\ flying \subseteq [n : Nat, data : Seq(Nat)] /\ IsFiniteSet(flying)
    /\ chunks \subseteq [n : Nat, data : Seq(Nat)]
    /\ doc \in [length : Nat, md5 : Seq(Nat)] \cup {NoFile}

\* Where the caller is, and what it has to do there
Caller ==
    /\ at = "idle" => todo = <<>> /\ rest = <<>> /\ ~closing
    /\ at \in {"wait", "woken"} => todo # <<>>
    /\ at \in {"complete", "filing", "shut"} => closing /\ todo = <<>> /\ file.mode = "writing"
    /\ file.mode = "closed" => at = "idle"
    /\ (file.mode = "closed" \/ at \in {"filing", "shut"}) => flying = {}
    /\ (file.mode = "writing" /\ at # "shut") => doc = NoFile
    /\ (file.mode = "writing" /\ at \notin {"filing", "shut"}) => file.err \in {"nil"} \cup Broken
    /\ closing => rest = <<>>

\* What was numbered, what is to be inserted and what is kept are the file.
Parts ==
    /\ file.wsum = Bytes(0, Held(file.chunk))
    /\ (file.mode = "writing" /\ ~closing) => file.chunk * ChunkSize <= file.length
    /\ (file.mode = "writing" /\ at = "idle") =>
          /\ file.wbuf = Bytes(file.chunk * ChunkSize, file.length)
          /\ file.length <= (file.chunk + 1) * ChunkSize
    /\ (at # "idle" /\ ~closing) =>
          /\ file.wbuf = <<>>
          /\ \A i \in 1..Len(todo) : todo[i] = Bytes((file.chunk + i - 1) * ChunkSize, (file.chunk + i) * ChunkSize)
          /\ (file.chunk + Len(todo)) * ChunkSize <= file.length
          /\ file.length <= (file.chunk + Len(todo) + 1) * ChunkSize
          /\ rest = Bytes((file.chunk + Len(todo)) * ChunkSize, file.length)
    /\ (closing /\ todo = <<>> /\ file.err \notin Broken) => file.length <= file.chunk * ChunkSize
    /\ (closing /\ todo # <<>>) =>
          /\ todo = <<Bytes(file.chunk * ChunkSize, file.length)>>
          /\ file.chunk * ChunkSize < file.length /\ file.length <= (file.chunk + 1) * ChunkSize

\* The chunks are those numbered, with their bytes, and all of them unless one failed.
Stored ==
    /\ \A c \in chunks \cup flying :
          c.n < file.chunk /\ c.n * ChunkSize < file.length /\ c.data = Bytes(c.n * ChunkSize, Held(c.n + 1))
    /\ file.err \notin Broken => \A n \in 0..(file.chunk - 1) : \E c \in chunks \cup flying : c.n = n

\* What is under way is pending, and that is no more than a megabyte and a chunk.
Flights ==
    /\ Cardinality(flying) <= file.wpending
    /\ ChunkSize * file.wpending < Megabyte + ChunkSize

\* A document is inserted by a Close that found no error, after every chunk.
Document ==
    doc # NoFile =>
        /\ file.err \notin Broken /\ file.length <= file.chunk * ChunkSize /\ flying = {}
        /\ doc.length = file.length /\ doc.md5 = file.wsum

\* A Close that found an error, and no other, has removed what was there.
Gone ==
    /\ file.swept # "no" => file.mode = "closed" \/ at = "shut"
    /\ (file.mode = "closed" \/ at = "shut") => (file.err \in Broken <=> file.swept # "no")
    /\ at = "filing" => file.err \notin Broken
    /\ file.swept # "no" => doc = NoFile
    /\ file.swept = "done" => chunks = {}

GridInv == GridTypes /\ Caller /\ Parts /\ Stored /\ Flights /\ Document /\ Gone

\* Multiples of the size of a chunk
LEMMA Multiples ==
  ASSUME NEW a \in Nat, NEW b \in Nat
  PROVE  /\ a * ChunkSize \in Nat /\ (a + b) * ChunkSize = a * ChunkSize + b * ChunkSize
         /\ (a + 1) * ChunkSize = a * ChunkSize + ChunkSize
         /\ a < b => (a + 1) * ChunkSize <= b * ChunkSize
         /\ a <= b => a * ChunkSize <= b * ChunkSize
  <1>1. ChunkSize \in Nat BY GridAssumption
  <1>2. a * ChunkSize \in Nat /\ (a + b) * ChunkSize = a * ChunkSize + b * ChunkSize
        /\ (a + 1) * ChunkSize = a * ChunkSize + ChunkSize
    BY <1>1
  <1>3. ASSUME NEW c \in Nat, NEW d \in Nat, c <= d PROVE c * ChunkSize <= d * ChunkSize
    <2>1. d - c \in Nat /\ (d - c) * ChunkSize \in Nat /\ d * ChunkSize = c * ChunkSize + (d - c) * ChunkSize
      BY <1>1, <1>3
    <2>2. c * ChunkSize \in Nat BY <1>1
    <2> QED BY <2>1, <2>2
  <1> QED BY <1>2, <1>3

LEMMA DividedBy ==
  ASSUME NEW x \in Nat
  PROVE  /\ x \div ChunkSize \in Nat
         /\ (x \div ChunkSize) * ChunkSize <= x /\ x < ((x \div ChunkSize) + 1) * ChunkSize
  <1>1. ChunkSize \in Nat \ {0} BY GridAssumption
  <1>2. /\ (x \div ChunkSize) \in Int /\ (x % ChunkSize) \in 0..(ChunkSize - 1)
        /\ x = ChunkSize * (x \div ChunkSize) + (x % ChunkSize)
    BY <1>1
  <1>3. x \div ChunkSize \in Nat BY <1>1, <1>2
  <1> QED BY <1>1, <1>2, <1>3

\* Bytes are cut into full chunks and a rest that may be one.
LEMMA CutBytes ==
  ASSUME NEW a \in Nat, NEW b \in Nat, a <= b
  PROVE  \E m \in Nat :
            /\ a + m * ChunkSize <= b /\ b <= a + (m + 1) * ChunkSize
            /\ Cut(Bytes(a, b)).full \in Seq(Seq(Nat)) /\ Len(Cut(Bytes(a, b)).full) = m
            /\ \A i \in 1..m : Cut(Bytes(a, b)).full[i] = Bytes(a + (i - 1) * ChunkSize, a + i * ChunkSize)
            /\ Cut(Bytes(a, b)).rest = Bytes(a + m * ChunkSize, b)
  <1>1. ChunkSize \in Nat \ {0} BY GridAssumption
  <1>2. PICK data : data = Bytes(a, b) OBVIOUS
  <1>3. Len(data) = b - a BY <1>2, BytesType
  <1>4. PICK m : m = IF b - a > ChunkSize THEN (b - a - 1) \div ChunkSize ELSE 0 OBVIOUS
  <1>5. m \in Nat /\ m * ChunkSize <= b - a /\ b - a <= (m + 1) * ChunkSize
    <2>1. CASE b - a > ChunkSize
      <3>1. b - a - 1 \in Nat /\ m = (b - a - 1) \div ChunkSize BY <1>1, <1>4, <2>1
      <3>2. m \in Nat /\ m * ChunkSize <= b - a - 1 /\ b - a - 1 < (m + 1) * ChunkSize BY <3>1, DividedBy
      <3>3. m * ChunkSize \in Nat /\ (m + 1) * ChunkSize \in Nat BY <1>1, <3>2
      <3> QED BY <3>2, <3>3
    <2>2. CASE ~(b - a > ChunkSize) BY <1>1, <1>4, <2>2
    <2> QED BY <2>1, <2>2
  <1>6. m * ChunkSize \in Nat /\ (m + 1) * ChunkSize \in Nat BY <1>1, <1>5
  <1>7. /\ Cut(data).full = [i \in 1..m |-> SubSeq(data, (i - 1) * ChunkSize + 1, i * ChunkSize)]
        /\ Cut(data).rest = SubSeq(data, m * ChunkSize + 1, b - a)
    BY <1>3, <1>4 DEF Cut
  <1>8. ASSUME NEW i \in 1..m
        PROVE  /\ SubSeq(data, (i - 1) * ChunkSize + 1, i * ChunkSize)
                    = Bytes(a + (i - 1) * ChunkSize, a + i * ChunkSize)
               /\ Bytes(a + (i - 1) * ChunkSize, a + i * ChunkSize) \in Seq(Nat)
    <2>1. i \in Nat /\ i - 1 \in Nat /\ i <= m /\ i - 1 <= i BY <1>5
    <2>2. PICK p : p = (i - 1) * ChunkSize OBVIOUS
    <2>3. PICK q : q = i * ChunkSize OBVIOUS
    <2>4. p \in Nat /\ q \in Nat /\ p <= q /\ q <= m * ChunkSize BY <2>1, <2>2, <2>3, <1>5, Multiples
    <2>5. q <= b - a BY <2>4, <1>5, <1>6
    <2>a. a \in Nat /\ b \in Nat /\ a <= b /\ p \in Nat /\ q \in Nat /\ p <= q /\ q <= b - a BY <2>4, <2>5
    <2>b. SubSeq(Bytes(a, b), p + 1, q) = Bytes(a + p, a + q) BY <2>a, BytesFrom, ZenonT(60)
    <2>6. SubSeq(data, p + 1, q) = Bytes(a + p, a + q) BY <2>b, <1>2
    <2>7. a + p \in Nat /\ a + q \in Nat /\ a + p <= a + q BY <2>4
    <2>8. Bytes(a + p, a + q) \in Seq(Nat) BY <2>7, BytesType
    <2> QED BY <2>2, <2>3, <2>6, <2>8
  <1>9. /\ Cut(data).full \in Seq(Seq(Nat)) /\ Len(Cut(data).full) = m
        /\ \A i \in 1..m : Cut(data).full[i] = Bytes(a + (i - 1) * ChunkSize, a + i * ChunkSize)
    <2>1. PICK f : f = [i \in 1..m |-> SubSeq(data, (i - 1) * ChunkSize + 1, i * ChunkSize)] OBVIOUS
    <2>2. \A i \in 1..m : f[i] = Bytes(a + (i - 1) * ChunkSize, a + i * ChunkSize) /\ f[i] \in Seq(Nat)
      BY <2>1, <1>8
    <2>3. f \in [1..m -> Seq(Nat)] BY <2>1, <2>2
    <2>4. f \in Seq(Seq(Nat)) /\ Len(f) = m BY <2>3, <1>5
    <2> QED BY <2>1, <2>2, <2>4, <1>7
  <1>10. Cut(data).rest = Bytes(a + m * ChunkSize, b)
    <2>1. PICK c : c = a + m * ChunkSize OBVIOUS
    <2>2. c \in Nat /\ a <= c /\ c <= b /\ b <= b /\ c - a + 1 = m * ChunkSize + 1 BY <2>1, <1>5, <1>6
    <2>a. SubSeq(Bytes(a, b), c - a + 1, b - a) = Bytes(c, b) BY <2>2, BytesPart, ZenonT(60)
    <2>3. SubSeq(data, c - a + 1, b - a) = Bytes(c, b) BY <2>a, <1>2
    <2> QED BY <2>1, <2>2, <2>3, <1>7
  <1>11. a + m * ChunkSize <= b /\ b <= a + (m + 1) * ChunkSize BY <1>5, <1>6
  <1> QED BY <1>2, <1>5, <1>9, <1>10, <1>11

\* What a write of data inserts, and what it keeps
Inserted(data) == Flushed(data).first \o Cut(Flushed(data).data).full
Kept(data) == Cut(Flushed(data).data).rest

\* The chunks s and the rest r make up the bytes from a to e.
MakeUp(a, e, s, r) ==
  \E m \in Nat :
      /\ s \in Seq(Seq(Nat)) /\ Len(s) = m
      /\ \A i \in 1..m : s[i] = Bytes(a + (i - 1) * ChunkSize, a + i * ChunkSize)
      /\ a + m * ChunkSize <= e /\ e <= a + (m + 1) * ChunkSize
      /\ r = Bytes(a + m * ChunkSize, e)

LEMMA WriteCuts ==
  ASSUME NEW a \in Nat, NEW l \in Nat, NEW e \in Nat, file.wbuf = Bytes(a, l),
         a <= l, l <= e, l <= a + ChunkSize, a + ChunkSize <= e
  PROVE  MakeUp(a, e, Inserted(Bytes(l, e)), Kept(Bytes(l, e)))
  <1>1. ChunkSize \in Nat \ {0} BY GridAssumption
  <1>2. PICK f : f = Flushed(Bytes(l, e)) OBVIOUS
  <1>3. PICK t : t = f.first \o Cut(f.data).full OBVIOUS
  <1>a. t = Inserted(Bytes(l, e)) /\ Cut(f.data).rest = Kept(Bytes(l, e)) BY <1>2, <1>3 DEF Inserted, Kept
  <1>4. file.wbuf \in Seq(Nat) /\ Len(file.wbuf) = l - a BY BytesType
  <1>0. PICK n : n = e - l OBVIOUS
  <1>5. l <= e /\ e - l = n /\ n \in Nat BY <1>0
  <1>6. Len(Bytes(l, e)) = n BY <1>5, BytesType
  <1>7. CASE file.wbuf = <<>>
    <2>1. a = l BY <1>4, <1>7
    <2>2. f.first = <<>> /\ f.data = Bytes(l, e) BY <1>2, <1>7 DEF Flushed
    <2>3. PICK m \in Nat :
            /\ l + m * ChunkSize <= e /\ e <= l + (m + 1) * ChunkSize
            /\ Cut(Bytes(l, e)).full \in Seq(Seq(Nat)) /\ Len(Cut(Bytes(l, e)).full) = m
            /\ \A i \in 1..m : Cut(Bytes(l, e)).full[i] = Bytes(l + (i - 1) * ChunkSize, l + i * ChunkSize)
            /\ Cut(Bytes(l, e)).rest = Bytes(l + m * ChunkSize, e)
      BY <1>5, CutBytes
    <2>4. t = Cut(Bytes(l, e)).full BY <1>3, <2>2, <2>3, ConcatEmptySeq
    <2> QED BY <1>a, <2>1, <2>2, <2>3, <2>4 DEF MakeUp
  <1>8. CASE file.wbuf # <<>>
    <2>1. PICK missing : missing = ChunkSize - (l - a) OBVIOUS
    <2>2. missing \in Nat /\ missing <= n /\ missing <= e - l BY <1>1, <1>5, <2>1
    <2>3. f.first = <<file.wbuf \o SubSeq(Bytes(l, e), 1, missing)>> /\ f.data = SubSeq(Bytes(l, e), missing + 1, n)
      <3>1. PICK data : data = Bytes(l, e) OBVIOUS
      <3>2. Len(data) = n BY <3>1, <1>6
      <3>3. (IF ChunkSize - Len(file.wbuf) > n THEN n ELSE ChunkSize - Len(file.wbuf)) = missing
        BY <1>1, <1>4, <1>5, <2>1, <2>2
      <3>4. f = [first |-> <<file.wbuf \o SubSeq(data, 1, missing)>>, data |-> SubSeq(data, missing + 1, n)]
        BY <1>2, <1>8, <3>1, <3>2, <3>3, Zenon DEF Flushed
      <3> QED BY <3>1, <3>4
    <2>4. PICK b : b = a + ChunkSize OBVIOUS
    <2>5. b \in Nat /\ l <= b /\ b <= e /\ a <= b /\ l + missing = b BY <1>1, <2>1, <2>4
    <2>7. SubSeq(Bytes(l, e), 1, missing) = Bytes(l, b) /\ SubSeq(Bytes(l, e), missing + 1, n) = Bytes(b, e)
      <3>1. l \in Nat /\ e \in Nat /\ l <= e /\ missing \in Nat /\ missing <= e - l BY <1>5, <2>2, <2>5
      <3>2. Takes(Bytes(l, e), missing) = Bytes(l, l + missing) /\ Drops(Bytes(l, e), missing) = Bytes(l + missing, e)
        BY <3>1, Halves
      <3>3. Len(Bytes(l, e)) = n BY <1>6
      <3> QED BY <2>5, <3>2, <3>3 DEF Takes, Drops
    <2>8. Bytes(a, l) \o Bytes(l, b) = Bytes(a, b) BY <2>5, BytesJoin, ZenonT(60)
    <2>9. f.first = <<Bytes(a, b)>> /\ f.data = Bytes(b, e) BY <2>3, <2>7, <2>8
    <2>10. PICK m \in Nat :
            /\ b + m * ChunkSize <= e /\ e <= b + (m + 1) * ChunkSize
            /\ Cut(Bytes(b, e)).full \in Seq(Seq(Nat)) /\ Len(Cut(Bytes(b, e)).full) = m
            /\ \A i \in 1..m : Cut(Bytes(b, e)).full[i] = Bytes(b + (i - 1) * ChunkSize, b + i * ChunkSize)
            /\ Cut(Bytes(b, e)).rest = Bytes(b + m * ChunkSize, e)
      BY <2>5, CutBytes
    <2>11. PICK g : g = Cut(Bytes(b, e)).full OBVIOUS
    <2>12. PICK x : x = Bytes(a, b) OBVIOUS
    <2>13. x \in Seq(Nat) BY <2>5, <2>12, BytesType
    <2>14. PICK y : y = <<x>> OBVIOUS
    <2>15. y \in Seq(Seq(Nat)) /\ Len(y) = 1 /\ y[1] = x BY <2>13, <2>14
    <2>16. g \in Seq(Seq(Nat)) /\ Len(g) = m /\ t = y \o g BY <1>3, <2>9, <2>10, <2>11, <2>12, <2>14
    <2>a. /\ y \o g \in Seq(Seq(Nat)) /\ Len(y \o g) = Len(y) + Len(g)
          /\ \A i \in 1..(Len(y) + Len(g)) : (y \o g)[i] = IF i <= Len(y) THEN y[i] ELSE g[i - Len(y)]
      BY <2>15, <2>16, ConcatProperties, Zenon
    <2>17. /\ y \o g \in Seq(Seq(Nat)) /\ Len(y \o g) = 1 + m
           /\ \A i \in 1..(1 + m) : (y \o g)[i] = IF i <= 1 THEN y[i] ELSE g[i - 1]
      BY <2>15, <2>16, <2>a, Zenon
    <2>18. /\ m * ChunkSize \in Nat /\ (m + 1) * ChunkSize = m * ChunkSize + ChunkSize
           /\ (m + 1 + 1) * ChunkSize = (m + 1) * ChunkSize + ChunkSize
      BY <1>1
    <2>19. /\ a + (m + 1) * ChunkSize = b + m * ChunkSize
           /\ a + (m + 1 + 1) * ChunkSize = b + (m + 1) * ChunkSize
      BY <1>1, <2>4, <2>18
    <2>20. ASSUME NEW i \in 1..(m + 1)
           PROVE  t[i] = Bytes(a + (i - 1) * ChunkSize, a + i * ChunkSize)
      <3>1. CASE i = 1
        <4>1. a + (i - 1) * ChunkSize = a /\ a + i * ChunkSize = b BY <1>1, <2>4, <3>1
        <4>a. i \in 1..(1 + m) /\ i <= 1 BY <3>1
        <4>b. (y \o g)[i] = IF i <= 1 THEN y[i] ELSE g[i - 1] BY <2>17, <4>a, Zenon
        <4>c. t = y \o g /\ y[1] = x BY <2>15, <2>16
        <4>2. t[i] = x BY <3>1, <4>a, <4>b, <4>c, Zenon
        <4> QED BY <4>1, <4>2, <2>12
      <3>2. CASE i # 1
        <4>1. PICK j : j = i - 1 OBVIOUS
        <4>a. j \in 1..m /\ i \in 1..(1 + m) /\ ~(i <= 1) BY <3>2, <4>1
        <4>b. (y \o g)[i] = IF i <= 1 THEN y[i] ELSE g[i - 1] BY <2>17, <4>a, Zenon
        <4>c. t = y \o g BY <2>16
        <4>2. j \in 1..m /\ t[i] = g[j] BY <4>1, <4>a, <4>b, <4>c, Zenon
        <4>3. t[i] = Bytes(b + (j - 1) * ChunkSize, b + j * ChunkSize) BY <4>2, <2>10, <2>11
        <4>4. i = j + 1 /\ j \in Nat BY <4>1, <4>2
        <4>5. a + j * ChunkSize = b + (j - 1) * ChunkSize /\ a + (j + 1) * ChunkSize = b + j * ChunkSize
          BY <1>1, <2>4, <4>4
        <4> QED BY <4>1, <4>3, <4>4, <4>5
      <3> QED BY <3>1, <3>2
    <2>21. m + 1 \in Nat /\ Len(t) = m + 1 /\ t \in Seq(Seq(Nat)) BY <2>16, <2>17
    <2> QED BY <1>a, <2>9, <2>10, <2>19, <2>20, <2>21 DEF MakeUp
  <1> QED BY <1>7, <1>8

LEMMA UptoIs ==
  ASSUME NEW n \in Nat, NEW l \in Nat
  PROVE  /\ Upto(n, l) \in Nat /\ Upto(n, l) <= l /\ Upto(n, l) <= n * ChunkSize
         /\ n * ChunkSize <= l => Upto(n, l) = n * ChunkSize
         /\ l <= n * ChunkSize => Upto(n, l) = l
  <1>1. n * ChunkSize \in Nat BY Multiples
  <1> QED BY <1>1 DEF Upto

LEMMA GridInitially == GridInit => GridInv
  <1> SUFFICES ASSUME GridInit PROVE GridInv OBVIOUS
  <1>1. ChunkSize \in Nat \ {0} /\ Megabyte \in Nat \ {0} BY GridAssumption
  <1>2. Bytes(0, 0) = <<>> /\ Upto(0, 0) = 0 BY BytesEmpty, <1>1 DEF Upto
  <1>3. /\ file.mode = "writing" /\ file.err = "nil" /\ file.chunk = 0 /\ file.wbuf = <<>> /\ file.length = 0
        /\ file.wsum = <<>> /\ file.wpending = 0 /\ file.swept = "no" /\ todo = <<>> /\ rest = <<>> /\ at = "idle"
        /\ closing = FALSE
        /\ flying = {} /\ chunks = {} /\ doc = NoFile
    BY DEF GridInit
  <1>4. GridTypes
    <2>1. IsFiniteSet(flying) BY <1>3, FS_EmptySet
    <2>2. <<>> \in Seq(Nat) /\ <<>> \in Seq(Seq(Nat)) OBVIOUS
    <2>3. file = [mode |-> "writing", err |-> "nil", chunk |-> 0, wbuf |-> <<>>, length |-> 0, wsum |-> <<>>,
                  wpending |-> 0, swept |-> "no"]
      BY DEF GridInit
    <2>4. file \in GridFile
      BY <2>2, <2>3 DEF GridFile
    <2> QED BY <1>3, <2>1, <2>2, <2>4 DEF GridTypes, Places
  <1>5. Parts BY <1>1, <1>2, <1>3 DEF Parts, Held
  <1>6. Flights BY <1>1, <1>3, FS_EmptySet DEF Flights
  <1>7. Caller /\ Stored /\ Document /\ Gone BY <1>3 DEF Caller, Stored, Document, Gone, Broken
  <1> QED BY <1>4, <1>5, <1>6, <1>7 DEF GridInv

(***************************************************************************)
(* Writing                                                                 *)
(***************************************************************************)

\* The chunks that are there stay what they are when the file grows.
LEMMA StoredGrows ==
  ASSUME GridInv, file.chunk * ChunkSize <= file.length, UNCHANGED <<chunks, flying>>,
         file'.chunk = file.chunk, file'.err = file.err, file'.length \in Nat, file.length <= file'.length
  PROVE  Stored'
  <1>1. file.chunk \in Nat /\ file.length \in Nat BY DEF GridInv, GridTypes, GridFile
  <1>2. ASSUME NEW c \in chunks \cup flying
        PROVE  c.n * ChunkSize < file'.length /\ Upto(c.n + 1, file'.length) = Upto(c.n + 1, file.length)
    <2>1. c.n \in Nat /\ c.n + 1 \in Nat BY DEF GridInv, GridTypes, GridFile
    <2>2. c.n < file.chunk /\ c.n * ChunkSize < file.length BY DEF GridInv, Stored
    <2>3. (c.n + 1) * ChunkSize <= file.chunk * ChunkSize BY <1>1, <2>1, <2>2, Multiples
    <2>4. (c.n + 1) * ChunkSize \in Nat /\ file.chunk * ChunkSize \in Nat /\ c.n * ChunkSize \in Nat
      BY <1>1, <2>1, Multiples
    <2>5. (c.n + 1) * ChunkSize <= file.length /\ (c.n + 1) * ChunkSize <= file'.length BY <1>1, <2>3, <2>4
    <2>6. Upto(c.n + 1, file.length) = (c.n + 1) * ChunkSize BY <1>1, <2>1, <2>5, UptoIs
    <2>7. Upto(c.n + 1, file'.length) = (c.n + 1) * ChunkSize BY <2>1, <2>5, UptoIs
    <2> QED BY <1>1, <2>2, <2>4, <2>6, <2>7
  <1> QED BY <1>2 DEF GridInv, Stored, Held

LEMMA WriteStep == ASSUME GridInv, NEW n \in Writes, Write(n) PROVE GridInv'
  <1>1. PICK k : k = file.chunk OBVIOUS
  <1>2. PICK l : l = file.length OBVIOUS
  <1>3. PICK e : e = l + n OBVIOUS
  <1>4. PICK a : a = k * ChunkSize OBVIOUS
  <1>5. PICK data : data = [i \in 1..n |-> l + i] OBVIOUS
  <1>6. /\ file.mode = "writing" /\ at = "idle" /\ file.err = "nil" /\ ~closing /\ doc = NoFile
        /\ UNCHANGED <<closing, flying, chunks, doc>>
        /\ IF Len(file.wbuf) + n < ChunkSize
           THEN /\ file' = [file EXCEPT !.length = @ + n, !.wbuf = @ \o data]
                /\ UNCHANGED <<todo, rest, at>>
           ELSE /\ todo' = Flushed(data).first \o Cut(Flushed(data).data).full
                /\ rest' = Cut(Flushed(data).data).rest /\ at' = "insert"
                /\ file' = [file EXCEPT !.length = @ + n, !.wbuf = <<>>]
    BY <1>2, <1>5 DEF Write, GridInv, Caller
  <1>7. n \in Nat /\ k \in Nat /\ l \in Nat /\ a \in Nat /\ e \in Nat /\ ChunkSize \in Nat \ {0}
    BY <1>1, <1>2, <1>3, <1>4, GridAssumption, Multiples DEF GridInv, GridTypes, GridFile
  <1>8. (k + 1) * ChunkSize = a + ChunkSize BY <1>4, <1>7, Multiples
  <1>9. /\ file.wbuf = Bytes(a, l) /\ a <= l /\ l <= a + ChunkSize /\ l <= e
        /\ file.wsum = Bytes(0, Upto(k, l))
    BY <1>1, <1>2, <1>3, <1>4, <1>6, <1>7, <1>8 DEF GridInv, Parts, Held
  <1>10. Len(file.wbuf) = l - a BY <1>7, <1>9, BytesType
  <1>11. data = Bytes(l, e)
    <2>1. n = e - l BY <1>3, <1>7
    <2> QED BY <1>5, <2>1 DEF Bytes
  <1>12. Upto(k, l) = a /\ Upto(k, e) = a
    <2>1. k * ChunkSize <= l /\ k * ChunkSize <= e BY <1>4, <1>7, <1>9
    <2>2. Upto(k, l) = k * ChunkSize BY <1>7, <2>1, UptoIs
    <2>3. Upto(k, e) = k * ChunkSize BY <1>7, <2>1, UptoIs
    <2> QED BY <1>4, <2>2, <2>3
  <1>13. file \in GridFile
    BY DEF GridInv, GridTypes, GridFile
  <1>14. /\ file'.mode = "writing" /\ file'.err = "nil" /\ file'.chunk = k /\ file'.length = e
         /\ file'.wsum = file.wsum /\ file'.wpending = file.wpending /\ file'.swept = file.swept
    BY <1>1, <1>2, <1>3, <1>6, <1>13 DEF GridFile
  <1>15. Stored' BY <1>1, <1>2, <1>4, <1>6, <1>7, <1>9, <1>14, StoredGrows
  <1>16. Flights' BY <1>6, <1>14 DEF GridInv, Flights
  <1>17. Document' /\ file'.swept = "no" BY <1>6, <1>14 DEF Document, GridInv, Gone
  <1>18. CASE Len(file.wbuf) + n < ChunkSize
    <2>1. file' = [file EXCEPT !.length = @ + n, !.wbuf = @ \o data] /\ UNCHANGED <<todo, rest, at>>
      BY <1>6, <1>18
    <2>2. file'.wbuf = Bytes(a, e) 
      <3>1. file'.wbuf = Bytes(a, l) \o Bytes(l, e) BY <2>1, <1>9, <1>11, <1>13 DEF GridFile
      <3> QED BY <3>1, <1>7, <1>9, BytesJoin, ZenonT(60)
    <2>a. a \in Nat /\ e \in Nat /\ a <= e BY <1>7, <1>9
    <2>3. Bytes(a, e) \in Seq(Nat) BY <2>a, BytesType, ZenonT(60)
    <2>4. e <= a + ChunkSize /\ a <= e BY <1>3, <1>7, <1>9, <1>10, <1>18
    <2>5. GridTypes'
      <3>1. file' \in GridFile
        BY <1>7, <1>13, <1>14, <2>1, <2>2, <2>3 DEF GridFile
      <3> QED BY <3>1, <2>1, <1>6 DEF GridInv, GridTypes, GridFile
    <2>6. Caller' /\ Gone' BY <2>1, <1>6, <1>14, <1>17 DEF GridInv, Caller, Gone
    <2>7. Parts' BY <2>1, <2>2, <2>4, <1>4, <1>6, <1>8, <1>9, <1>12, <1>14 DEF Parts, Held
    <2> QED BY <2>5, <2>6, <2>7, <1>15, <1>16, <1>17 DEF GridInv
  <1>19. CASE ~(Len(file.wbuf) + n < ChunkSize)
    <2>1. /\ todo' = Flushed(data).first \o Cut(Flushed(data).data).full
          /\ rest' = Cut(Flushed(data).data).rest /\ at' = "insert"
          /\ file' = [file EXCEPT !.length = @ + n, !.wbuf = <<>>]
      BY <1>6, <1>19
    <2>2. a + ChunkSize <= e BY <1>3, <1>7, <1>9, <1>10, <1>19
    <2>3. PICK m \in Nat :
                /\ todo' \in Seq(Seq(Nat)) /\ Len(todo') = m
                /\ \A i \in 1..m : todo'[i] = Bytes(a + (i - 1) * ChunkSize, a + i * ChunkSize)
                /\ a + m * ChunkSize <= e /\ e <= a + (m + 1) * ChunkSize
                /\ rest' = Bytes(a + m * ChunkSize, e)
      <3>1. MakeUp(a, e, Inserted(Bytes(l, e)), Kept(Bytes(l, e))) BY <1>7, <1>9, <2>2, WriteCuts
      <3>2. todo' = Inserted(Bytes(l, e)) /\ rest' = Kept(Bytes(l, e)) BY <2>1, <1>11 DEF Inserted, Kept
      <3> QED BY <3>1, <3>2 DEF MakeUp
    <2>4. (k + m) * ChunkSize = a + m * ChunkSize /\ (k + m + 1) * ChunkSize = a + (m + 1) * ChunkSize
      BY <1>4, <1>7
    <2>5. ASSUME NEW i \in 1..m
          PROVE  todo'[i] = Bytes((k + i - 1) * ChunkSize, (k + i) * ChunkSize)
      <3>1. (k + i - 1) * ChunkSize = a + (i - 1) * ChunkSize /\ (k + i) * ChunkSize = a + i * ChunkSize
        BY <1>4, <1>7
      <3> QED BY <2>3, <3>1
    <2>8. file'.wbuf = <<>> BY <2>1, <1>13 DEF GridFile
    <2>6. GridTypes'
      <3>1. a + m * ChunkSize \in Nat BY <1>7
      <3>2. rest' \in Seq(Nat) BY <1>7, <2>3, <3>1, BytesType
      <3>3. file' \in GridFile
        BY <1>7, <1>13, <1>14, <2>1, <2>8, EmptySeq DEF GridFile
      <3> QED BY <3>2, <3>3, <2>1, <2>3, <1>6 DEF GridInv, GridTypes, GridFile, Places
    <2>12. todo' # <<>> \/ at' = "insert" BY <2>1
    <2>7. Caller' /\ Gone' BY <2>1, <1>6, <1>14, <1>17 DEF GridInv, Caller, Gone
    <2>9. a <= e BY <1>7, <1>9
    <2>10. Parts'
      <3>1. file'.wsum = Bytes(0, Upto(file'.chunk, file'.length)) BY <1>9, <1>12, <1>14
      <3>2. file'.chunk * ChunkSize <= file'.length BY <1>4, <1>14, <2>9
      <3>3. /\ \A i \in 1..Len(todo') : todo'[i] = Bytes((file'.chunk + i - 1) * ChunkSize, (file'.chunk + i) * ChunkSize)
            /\ (file'.chunk + Len(todo')) * ChunkSize <= file'.length
            /\ file'.length <= (file'.chunk + Len(todo') + 1) * ChunkSize
            /\ rest' = Bytes((file'.chunk + Len(todo')) * ChunkSize, file'.length)
        BY <1>14, <2>3, <2>4, <2>5
      <3> QED BY <3>1, <3>2, <3>3, <2>1, <2>8, <1>6 DEF Parts, Held
    <2> QED BY <2>6, <2>7, <2>10, <1>15, <1>16, <1>17 DEF GridInv
  <1> QED BY <1>18, <1>19

(***************************************************************************)
(* Inserting                                                               *)
(***************************************************************************)

\* The chunk to be inserted next is the one after those numbered.
LEMMA NextChunk ==
  ASSUME GridInv, todo # <<>>
  PROVE  /\ file.mode = "writing" /\ at \notin {"idle", "complete", "filing", "shut"} /\ doc = NoFile
         /\ file.err \in {"nil"} \cup Broken /\ file.swept = "no"
         /\ file.chunk * ChunkSize < file.length /\ Held(file.chunk) = file.chunk * ChunkSize
         /\ Head(todo) = Bytes(file.chunk * ChunkSize, Held(file.chunk + 1)) /\ Head(todo) \in Seq(Nat)
         /\ Tail(todo) \in Seq(Seq(Nat)) /\ Len(Tail(todo)) = Len(todo) - 1 /\ Len(todo) \in Nat \ {0}
         /\ \A i \in 1..(Len(todo) - 1) : Tail(todo)[i] = todo[i + 1]
         /\ file.wsum \o Head(todo) = Bytes(0, Held(file.chunk + 1))
  <1>1. PICK k : k = file.chunk OBVIOUS
  <1>2. PICK l : l = file.length OBVIOUS
  <1>3. PICK a : a = k * ChunkSize OBVIOUS
  <1>4. PICK b : b = (k + 1) * ChunkSize OBVIOUS
  <1>5. k \in Nat /\ l \in Nat /\ k + 1 \in Nat BY <1>1, <1>2 DEF GridInv, GridTypes, GridFile
  <1>6. a \in Nat /\ b \in Nat /\ b = a + ChunkSize /\ ChunkSize \in Nat \ {0} BY <1>3, <1>4, <1>5, Multiples, GridAssumption
  <1>7. todo \in Seq(Seq(Nat)) BY DEF GridInv, GridTypes
  <1>8. /\ Head(todo) \in Seq(Nat) /\ Head(todo) = todo[1] /\ Tail(todo) \in Seq(Seq(Nat))
        /\ Len(todo) \in Nat \ {0} /\ Len(Tail(todo)) = Len(todo) - 1
        /\ \A i \in 1..(Len(todo) - 1) : Tail(todo)[i] = todo[i + 1]
    BY <1>7
  <1>9. /\ file.mode = "writing" /\ at \notin {"idle", "complete", "filing", "shut"} /\ doc = NoFile
        /\ file.err \in {"nil"} \cup Broken /\ file.swept = "no"
    BY DEF GridInv, Caller, Gone, GridTypes, GridFile
  <1>10. a < l /\ Head(todo) = Bytes(a, Upto(k + 1, l))
    <2>1. CASE closing
      <3>1. todo = <<Bytes(a, l)>> /\ a < l /\ l <= b BY <2>1, <1>1, <1>2, <1>3, <1>4 DEF GridInv, Parts
      <3>2. Upto(k + 1, l) = l BY <3>1, <1>4, <1>5, UptoIs
      <3> QED BY <3>1, <3>2, <1>8
    <2>2. CASE ~closing
      <3>1. todo[1] = Bytes((k + 1 - 1) * ChunkSize, (k + 1) * ChunkSize) /\ (k + Len(todo)) * ChunkSize <= l
        BY <2>2, <1>1, <1>2, <1>8, <1>9 DEF GridInv, Parts
      <3>2. k + Len(todo) \in Nat /\ k + 1 <= k + Len(todo) BY <1>5, <1>8
      <3>3. b <= (k + Len(todo)) * ChunkSize /\ (k + Len(todo)) * ChunkSize \in Nat BY <1>4, <1>5, <3>2, Multiples
      <3>4. b <= l BY <3>1, <3>3, <1>5, <1>6
      <3>5. Upto(k + 1, l) = b BY <3>4, <1>4, <1>5, UptoIs
      <3>6. k + 1 - 1 = k BY <1>5
      <3> QED BY <3>1, <3>4, <3>5, <3>6, <1>3, <1>4, <1>5, <1>6, <1>8
    <2> QED BY <2>1, <2>2
  <1>11. Upto(k, l) = a BY <1>3, <1>5, <1>6, <1>10, UptoIs
  <1>12. a <= Upto(k + 1, l) /\ Upto(k + 1, l) \in Nat BY <1>4, <1>5, <1>6, <1>10 DEF Upto
  <1>13. file.wsum = Bytes(0, a) BY <1>1, <1>2, <1>11 DEF GridInv, Parts, Held
  <1>14. Bytes(0, a) \o Bytes(a, Upto(k + 1, l)) = Bytes(0, Upto(k + 1, l))
    <2>1. PICK u : u = Upto(k + 1, l) OBVIOUS
    <2>2. 0 \in Nat /\ u \in Nat /\ 0 <= a /\ a <= u BY <1>6, <1>12, <2>1
    <2>3. Bytes(0, a) \o Bytes(a, u) = Bytes(0, u) BY <1>6, <2>2, BytesJoin
    <2> QED BY <2>1, <2>3
  <1> QED BY <1>1, <1>2, <1>3, <1>8, <1>9, <1>10, <1>11, <1>13, <1>14 DEF Held

\* Once it is numbered, what is left follows it.
LEMMA PartsNumbered ==
  ASSUME GridInv, todo # <<>>, todo' = Tail(todo), UNCHANGED <<rest, closing>>, at' = "insert",
         file'.mode = file.mode, file'.chunk = file.chunk + 1, file'.length = file.length,
         file'.wsum = file.wsum \o Head(todo), file'.wbuf = file.wbuf
  PROVE  Parts'
  <1>1. PICK k : k = file.chunk OBVIOUS
  <1>2. PICK l : l = file.length OBVIOUS
  <1>3. k \in Nat /\ l \in Nat /\ k + 1 \in Nat BY <1>1, <1>2 DEF GridInv, GridTypes, GridFile
  <1>4. /\ at # "idle" /\ Len(todo) \in Nat \ {0} /\ Len(Tail(todo)) = Len(todo) - 1 /\ Tail(todo) \in Seq(Seq(Nat))
        /\ \A i \in 1..(Len(todo) - 1) : Tail(todo)[i] = todo[i + 1]
        /\ file.wsum \o Head(todo) = Bytes(0, Upto(k + 1, l))
    BY <1>1, <1>2, NextChunk DEF Held
  <1>5. file'.chunk = k + 1 /\ file'.length = l /\ file'.wsum = Bytes(0, Upto(k + 1, l)) BY <1>1, <1>2, <1>4
  <1>6. CASE closing
    <2>1. todo = <<Bytes(k * ChunkSize, l)>> /\ l <= (k + 1) * ChunkSize BY <1>1, <1>2, <1>6 DEF GridInv, Parts
    <2>2. Tail(todo) = <<>> BY <2>1
    <2> QED BY <1>5, <1>6, <2>1, <2>2 DEF Parts, Held
  <1>7. CASE ~closing
    <2>1. PICK m : m = Len(todo) OBVIOUS
    <2>2. /\ \A i \in 1..m : todo[i] = Bytes((k + i - 1) * ChunkSize, (k + i) * ChunkSize)
          /\ file.wbuf = <<>> /\ (k + m) * ChunkSize <= l /\ l <= (k + m + 1) * ChunkSize
          /\ rest = Bytes((k + m) * ChunkSize, l)
      BY <1>1, <1>2, <1>4, <1>7, <2>1 DEF GridInv, Parts
    <2>3. ASSUME NEW i \in 1..Len(todo')
          PROVE  todo'[i] = Bytes((file'.chunk + i - 1) * ChunkSize, (file'.chunk + i) * ChunkSize)
      <3>1. i \in Nat /\ i + 1 \in 1..m /\ todo'[i] = todo[i + 1] BY <1>4, <2>1
      <3>2. todo'[i] = Bytes((k + (i + 1) - 1) * ChunkSize, (k + (i + 1)) * ChunkSize) BY <2>2, <3>1
      <3>3. i \in Nat BY <3>1
      <3>4. k + (i + 1) - 1 = (k + 1) + i - 1 /\ k + (i + 1) = (k + 1) + i BY <1>3, <3>3
      <3> QED BY <1>5, <3>2, <3>4
    <2>4. file'.chunk + Len(todo') = k + m BY <1>3, <1>4, <1>5, <2>1
    <2>5. (file'.chunk + Len(todo')) * ChunkSize <= l /\ l <= (file'.chunk + Len(todo') + 1) * ChunkSize
          /\ rest = Bytes((file'.chunk + Len(todo')) * ChunkSize, l)
      BY <2>2, <2>4
    <2>6. (k + 1) * ChunkSize <= l
      <3>1. k + m \in Nat /\ k + 1 <= k + m BY <1>3, <1>4, <2>1
      <3>2. (k + 1) * ChunkSize <= (k + m) * ChunkSize /\ (k + 1) * ChunkSize \in Nat /\ (k + m) * ChunkSize \in Nat
        BY <1>3, <3>1, Multiples
      <3> QED BY <1>3, <2>2, <3>2
    <2> QED BY <1>5, <1>7, <2>2, <2>3, <2>5, <2>6 DEF Parts, Held
  <1> QED BY <1>6, <1>7

LEMMA FlyStep == ASSUME GridInv, todo # <<>>, ~Full, Fly, UNCHANGED <<rest, closing, chunks, doc>> PROVE GridInv'
  <1>1. PICK c : c = [n |-> file.chunk, data |-> Head(todo)] OBVIOUS
  <1>2. file \in GridFile BY DEF GridInv, GridTypes
  <1>a. PICK e : /\ file' = [[file EXCEPT !.chunk = @ + 1, !.wsum = @ \o Head(todo)] EXCEPT !.wpending = @ + 1, !.err = e]
                 /\ \/ flying' = flying \cup {c} /\ e = file.err
                    \/ flying' = flying /\ e = "unmarshalled"
    <2>1. Numbered.err = file.err BY <1>2 DEF Numbered, GridFile
    <2>2. CASE file' = [Numbered EXCEPT !.wpending = @ + 1] /\ flying' = flying \cup {c}
      <3>1. file' = [Numbered EXCEPT !.wpending = @ + 1, !.err = file.err] BY <1>2, <2>1, <2>2 DEF Numbered, GridFile
      <3> QED BY <2>2, <3>1 DEF Numbered
    <2>3. CASE flying' = flying /\ file' = [Numbered EXCEPT !.wpending = @ + 1, !.err = "unmarshalled"]
      BY <2>3 DEF Numbered
    <2> QED BY <1>1, <2>2, <2>3 DEF Fly
  <1>3. /\ file'.mode = file.mode /\ file'.err = e /\ file'.chunk = file.chunk + 1
        /\ file'.length = file.length /\ file'.wsum = file.wsum \o Head(todo) /\ file'.wbuf = file.wbuf
        /\ file'.wpending = file.wpending + 1 /\ file'.swept = file.swept
        /\ todo' = Tail(todo) /\ at' = "insert"
    BY <1>2, <1>a DEF Fly, GridFile
  <1>4. /\ file.mode = "writing" /\ at \notin {"idle", "complete", "filing", "shut"} /\ doc = NoFile
        /\ file.err \in {"nil"} \cup Broken /\ file.swept = "no"
        /\ file.chunk * ChunkSize < file.length
        /\ Head(todo) = Bytes(file.chunk * ChunkSize, Held(file.chunk + 1)) /\ Head(todo) \in Seq(Nat)
        /\ Tail(todo) \in Seq(Seq(Nat))
        /\ file.wsum \o Head(todo) = Bytes(0, Held(file.chunk + 1))
    BY NextChunk
  <1>5. c.n = file.chunk /\ c.data = Head(todo) /\ c \in [n : Nat, data : Seq(Nat)] BY <1>1, <1>2, <1>4 DEF GridFile
  <1>6. c \notin flying BY <1>2, <1>5 DEF GridInv, Stored, GridFile
  <1>b. e \in {"nil"} \cup Broken BY <1>4, <1>a DEF Broken
  <1>7. Parts' BY <1>3, PartsNumbered
  <1>8. GridTypes'
    <2>1. file.wsum \o Head(todo) \in Seq(Nat) BY <1>2, <1>4, ConcatProperties DEF GridFile
    <2>3. file' \in GridFile
      <3>1. PICK w : w = file.wsum \o Head(todo) OBVIOUS
      <3>2. PICK k : k = file.chunk + 1 OBVIOUS
      <3>3. PICK p : p = file.wpending + 1 OBVIOUS
      <3>4. w \in Seq(Nat) /\ k \in Nat /\ p \in Nat BY <1>2, <2>1, <3>1, <3>2, <3>3 DEF GridFile
      <3>5. file' = [file EXCEPT !.chunk = k, !.wsum = w, !.wpending = p, !.err = e]
        BY <1>2, <1>a, <3>1, <3>2, <3>3 DEF GridFile
      <3> QED BY <1>2, <1>b, <3>4, <3>5 DEF GridFile
    <2>4. IsFiniteSet(flying')
      <3>1. IsFiniteSet(flying) /\ IsFiniteSet(flying \cup {c}) BY FS_AddElement DEF GridInv, GridTypes
      <3> QED BY <1>a, <3>1
    <2> QED BY <1>3, <1>4, <1>5, <1>a, <2>3, <2>4 DEF GridInv, GridTypes, Places
  <1>9. Caller' BY <1>3, <1>4, <1>b DEF GridInv, Caller
  <1>10. Stored'
    <2>1. \A x \in chunks' \cup flying' :
            x.n < file'.chunk /\ x.n * ChunkSize < file'.length /\ x.data = Bytes(x.n * ChunkSize, Held(x.n + 1)')
      <3> SUFFICES ASSUME NEW x \in chunks \cup flying \cup {c}
                   PROVE  x.n < file'.chunk /\ x.n * ChunkSize < file'.length
                          /\ x.data = Bytes(x.n * ChunkSize, Upto(x.n + 1, file.length))
        BY <1>3, <1>a DEF Held
      <3>1. CASE x = c BY <1>2, <1>3, <1>4, <1>5, <3>1 DEF Held, GridFile
      <3>2. CASE x # c
        <4>1. x \in chunks \cup flying /\ x.n \in Nat BY <3>2 DEF GridInv, GridTypes
        <4> QED BY <1>2, <1>3, <4>1 DEF GridInv, Stored, Held, GridFile
      <3> QED BY <3>1, <3>2
    <2>2. ASSUME file'.err \notin Broken, NEW n \in 0..(file'.chunk - 1)
          PROVE  \E x \in chunks' \cup flying' : x.n = n
      <3>0. flying' = flying \cup {c} /\ file.err \notin Broken BY <1>3, <1>a, <2>2 DEF Broken
      <3>1. CASE n = file.chunk BY <1>5, <3>0, <3>1
      <3>2. CASE n # file.chunk
        <4>1. n \in 0..(file.chunk - 1) BY <1>2, <1>3, <2>2, <3>2 DEF GridFile
        <4> QED BY <3>0, <4>1 DEF GridInv, Stored
      <3> QED BY <3>1, <3>2
    <2> QED BY <2>1, <2>2 DEF Stored
  <1>11. Flights'
    <2>1. IsFiniteSet(flying) /\ Cardinality(flying) \in Nat BY FS_CardinalityType DEF GridInv, GridTypes
    <2>6. Cardinality(flying') \in {Cardinality(flying), Cardinality(flying) + 1} BY <1>6, <1>a, <2>1, FS_AddElement
    <2>2. Cardinality(flying') <= file'.wpending BY <1>2, <1>3, <2>1, <2>6 DEF GridInv, Flights, GridFile
    <2>3. PICK w : w = file.wpending OBVIOUS
    <2>4. w \in Nat /\ ChunkSize \in Nat \ {0} /\ Megabyte \in Nat \ {0} BY <1>2, <2>3, GridAssumption DEF GridFile
    <2>5. ChunkSize * w < Megabyte /\ ChunkSize * (w + 1) = ChunkSize * w + ChunkSize /\ ChunkSize * w \in Nat
      BY <2>3, <2>4 DEF Full
    <2> QED BY <1>3, <2>2, <2>3, <2>4, <2>5 DEF Flights
  <1>12. Document' /\ Gone' BY <1>3, <1>4 DEF Document, Gone
  <1> QED BY <1>7, <1>8, <1>9, <1>10, <1>11, <1>12 DEF GridInv

LEMMA InsertChunkStep == ASSUME GridInv, InsertChunk PROVE GridInv'
  <1>1. todo # <<>> /\ UNCHANGED <<rest, closing, chunks, doc>> BY DEF InsertChunk
  <1>2. file \in GridFile BY DEF GridInv, GridTypes
  <1>3. CASE at' = "wait" /\ UNCHANGED <<file, todo, flying>>
    <2>1. file.mode = "writing" /\ at \notin {"idle", "complete", "filing", "shut"} /\ file.swept = "no"
      BY <1>1, NextChunk
    <2>2. GridTypes' /\ Stored' /\ Flights' /\ Document'
      BY <1>1, <1>3 DEF GridInv, GridTypes, Places, Stored, Held, Flights, Document
    <2>3. Caller' /\ Gone' BY <1>1, <1>3, <2>1 DEF GridInv, Caller, Gone
    <2>4. at # "idle" BY <1>1, NextChunk
    <2>5. Parts' BY <1>1, <1>3, <2>4 DEF GridInv, Parts, Held
    <2> QED BY <2>2, <2>3, <2>5 DEF GridInv
  <1>4. CASE ~Full /\ Fly BY <1>1, <1>4, FlyStep
  <1>5. CASE file.err # "nil" /\ file' = Numbered /\ todo' = Tail(todo) /\ at' = "insert" /\ UNCHANGED flying
    <2>1. /\ file'.mode = file.mode /\ file'.err = file.err /\ file'.chunk = file.chunk + 1
          /\ file'.length = file.length /\ file'.wsum = file.wsum \o Head(todo) /\ file'.wbuf = file.wbuf
          /\ file'.wpending = file.wpending /\ file'.swept = file.swept
      BY <1>2, <1>5 DEF Numbered, GridFile
    <2>2. /\ file.mode = "writing" /\ doc = NoFile /\ at \notin {"idle", "complete", "filing", "shut"}
          /\ file.err \in {"nil"} \cup Broken /\ file.swept = "no"
          /\ Head(todo) \in Seq(Nat) /\ Tail(todo) \in Seq(Seq(Nat))
      BY <1>1, NextChunk
    <2>3. Parts' BY <1>1, <1>5, <2>1, PartsNumbered
    <2>4. GridTypes'
      <3>1. file.wsum \o Head(todo) \in Seq(Nat) BY <1>2, <2>2, ConcatProperties DEF GridFile
      <3>2. file' \in GridFile
        <4>1. PICK w : w = file.wsum \o Head(todo) OBVIOUS
        <4>2. PICK k : k = file.chunk + 1 OBVIOUS
        <4>3. w \in Seq(Nat) /\ k \in Nat BY <1>2, <3>1, <4>1, <4>2 DEF GridFile
        <4>4. file' = [file EXCEPT !.chunk = k, !.wsum = w] BY <1>5, <4>1, <4>2 DEF Numbered
        <4> QED BY <1>2, <4>3, <4>4 DEF GridFile
      <3> QED BY <1>1, <1>5, <2>2, <3>2 DEF GridInv, GridTypes, Places
    <2>5. Caller' BY <1>1, <1>5, <2>1, <2>2 DEF GridInv, Caller
    <2>6. Stored'
      <3>1. ASSUME NEW x \in chunks \cup flying PROVE x.n < file.chunk + 1
        <4>1. x.n \in Nat /\ x.n < file.chunk BY DEF GridInv, GridTypes, Stored
        <4> QED BY <1>2, <4>1 DEF GridFile
      <3>2. file'.err \in Broken BY <1>5, <2>1, <2>2
      <3> QED BY <1>1, <1>5, <2>1, <3>1, <3>2 DEF GridInv, Stored, Held
    <2>7. Flights' BY <1>5, <2>1 DEF GridInv, Flights
    <2>8. Document' /\ Gone' BY <1>1, <1>5, <2>1, <2>2 DEF Document, Gone
    <2> QED BY <2>3, <2>4, <2>5, <2>6, <2>7, <2>8 DEF GridInv
  <1> QED BY <1>3, <1>4, <1>5 DEF InsertChunk

LEMMA LandStep == ASSUME GridInv, NEW c \in flying, Land(c) PROVE GridInv'
  <1>1. PICK ok \in BOOLEAN :
          /\ chunks' \in {chunks \cup {c}} \cup IF ok THEN {} ELSE {chunks}
          /\ file' = [file EXCEPT !.wpending = @ - 1, !.err = IF ~ok /\ @ = "nil" THEN "failed" ELSE @]
    BY DEF Land
  <1>2. flying' = flying \ {c} /\ at' = Woken /\ UNCHANGED <<todo, rest, closing, doc>> BY DEF Land
  <1>3. file \in GridFile /\ c \in [n : Nat, data : Seq(Nat)] BY DEF GridInv, GridTypes
  <1>4. Cardinality(flying') = Cardinality(flying) - 1 /\ IsFiniteSet(flying') /\ Cardinality(flying) \in Nat \ {0}
    <2>1. IsFiniteSet(flying) /\ Cardinality(flying) \in Nat BY FS_CardinalityType DEF GridInv, GridTypes
    <2>2. Cardinality(flying) # 0 BY <2>1, FS_EmptySet
    <2> QED BY <1>2, <2>1, <2>2, FS_RemoveElement
  <1>5. Cardinality(flying) <= file.wpending /\ file.wpending \in Nat \ {0}
    BY <1>3, <1>4 DEF GridInv, Flights, GridFile
  <1>6. /\ file'.mode = file.mode /\ file'.chunk = file.chunk /\ file'.length = file.length
        /\ file'.wsum = file.wsum /\ file'.wbuf = file.wbuf /\ file'.wpending = file.wpending - 1
        /\ file'.err = IF ~ok /\ file.err = "nil" THEN "failed" ELSE file.err
        /\ file'.swept = file.swept
    BY <1>1, <1>3 DEF GridFile
  <1>7. /\ file.mode = "writing" /\ at \notin {"filing", "shut"} /\ doc = NoFile
        /\ file.err \in {"nil"} \cup Broken /\ file.swept = "no"
    BY <1>3 DEF GridInv, Caller, Gone, GridFile
  <1>8. GridTypes'
    <2>1. file' \in GridFile
      <3>1. PICK p : p = file.wpending - 1 OBVIOUS
      <3>2. PICK r : r = IF ~ok /\ file.err = "nil" THEN "failed" ELSE file.err OBVIOUS
      <3>3. p \in Nat /\ r \in {"nil"} \cup Broken BY <1>5, <1>7, <3>1, <3>2 DEF Broken
      <3>4. file' = [file EXCEPT !.wpending = p, !.err = r] BY <1>1, <1>3, <3>1, <3>2 DEF GridFile
      <3> QED BY <1>3, <3>3, <3>4 DEF GridFile
    <2>2. at' \in Places BY <1>2 DEF GridInv, GridTypes, Woken, Places
    <2> QED BY <1>1, <1>2, <1>3, <1>4, <2>1, <2>2 DEF GridInv, GridTypes
  <1>9. Caller' BY <1>2, <1>6, <1>7 DEF GridInv, Caller, Woken, Broken
  <1>10. Parts'
    <2>1. at' = "idle" <=> at = "idle" BY <1>2 DEF Woken
    <2>2. file'.err \notin Broken => file.err \notin Broken BY <1>6 DEF Broken
    <2> QED BY <1>2, <1>6, <2>1, <2>2 DEF GridInv, Parts, Held
  <1>11. Stored'
    <2>1. chunks' \cup flying' \subseteq chunks \cup flying BY <1>1, <1>2
    <2>2. file'.err \notin Broken => file.err \notin Broken /\ chunks' \cup flying' = chunks \cup flying
      <3> SUFFICES ASSUME file'.err \notin Broken
                   PROVE  file.err \notin Broken /\ chunks' \cup flying' = chunks \cup flying
        OBVIOUS
      <3>1. ok = TRUE /\ file.err \notin Broken BY <1>6, <1>7 DEF Broken
      <3> QED BY <1>1, <1>2, <3>1
    <2> QED BY <1>6, <2>1, <2>2 DEF GridInv, Stored, Held
  <1>12. Flights'
    <2>1. Cardinality(flying') <= file'.wpending BY <1>4, <1>5, <1>6
    <2>2. PICK w : w = file.wpending OBVIOUS
    <2>3. w \in Nat \ {0} /\ ChunkSize \in Nat \ {0} /\ Megabyte \in Nat \ {0} BY <1>4, <1>5, <2>2, GridAssumption
    <2>4. ChunkSize * w < Megabyte + ChunkSize BY <2>2 DEF GridInv, Flights
    <2>5. ChunkSize * (w - 1) = ChunkSize * w - ChunkSize /\ ChunkSize * w \in Nat BY <2>3
    <2> QED BY <1>6, <2>1, <2>2, <2>3, <2>4, <2>5 DEF Flights
  <1>13. Document' /\ Gone' BY <1>2, <1>6, <1>7 DEF Document, Gone, Woken
  <1> QED BY <1>8, <1>9, <1>10, <1>11, <1>12, <1>13 DEF GridInv

LEMMA WrittenStep == ASSUME GridInv, Written PROVE GridInv'
  <1>1. at = "insert" /\ todo = <<>> /\ UNCHANGED <<todo, closing, flying, chunks, doc>> BY DEF Written
  <1>2. file \in GridFile /\ rest \in Seq(Nat) BY DEF GridInv, GridTypes
  <1>3. file.mode = "writing" /\ doc = NoFile /\ file.err \in {"nil"} \cup Broken /\ file.swept = "no"
    BY <1>1, <1>2 DEF GridInv, Caller, Gone, GridFile
  <1>4. CASE closing /\ at' = "complete" /\ UNCHANGED <<file, rest>>
    <2>1. GridTypes' /\ Stored' /\ Flights' /\ Document'
      BY <1>1, <1>4 DEF GridInv, GridTypes, Places, Stored, Held, Flights, Document
    <2>2. Caller' /\ Gone' BY <1>1, <1>3, <1>4 DEF GridInv, Caller, Gone
    <2>3. Parts' BY <1>1, <1>4 DEF GridInv, Parts, Held
    <2> QED BY <2>1, <2>2, <2>3 DEF GridInv
  <1>5. CASE ~closing /\ at' = "idle" /\ file' = [file EXCEPT !.wbuf = rest] /\ rest' = <<>>
    <2>1. /\ file'.mode = file.mode /\ file'.err = file.err /\ file'.chunk = file.chunk /\ file'.length = file.length
          /\ file'.wsum = file.wsum /\ file'.wbuf = rest /\ file'.wpending = file.wpending /\ file'.swept = file.swept
      BY <1>2, <1>5 DEF GridFile
    <2>2. Len(todo) = 0 BY <1>1
    <2>3. file.chunk + Len(todo) = file.chunk BY <1>2, <2>2 DEF GridFile
    <2>4. /\ file.chunk * ChunkSize <= file.length /\ file.length <= (file.chunk + 1) * ChunkSize
          /\ rest = Bytes(file.chunk * ChunkSize, file.length) /\ file.wsum = Bytes(0, Held(file.chunk))
      BY <1>1, <1>5, <2>3 DEF GridInv, Parts
    <2>5. Parts' BY <1>1, <1>5, <2>1, <2>4 DEF Parts, Held
    <2>6. GridTypes'
      <3>1. file' \in GridFile BY <1>2, <1>5 DEF GridFile
      <3>2. rest' \in Seq(Nat) BY <1>5, EmptySeq
      <3> QED BY <1>1, <1>5, <3>1, <3>2 DEF GridInv, GridTypes, Places
    <2>7. Caller' BY <1>1, <1>3, <1>5, <2>1 DEF GridInv, Caller
    <2>8. Stored' /\ Flights' /\ Document' /\ Gone'
      BY <1>1, <1>3, <1>5, <2>1 DEF GridInv, Stored, Held, Flights, Document, Gone
    <2> QED BY <2>5, <2>6, <2>7, <2>8 DEF GridInv
  <1> QED BY <1>4, <1>5 DEF Written

(***************************************************************************)
(* Closing                                                                 *)
(***************************************************************************)

LEMMA CloseStep == ASSUME GridInv, Close PROVE GridInv'
  <1>1. PICK l : l = file.length OBVIOUS
  <1>2. PICK a : a = file.chunk * ChunkSize OBVIOUS
  <1>3. /\ file.mode = "writing" /\ at = "idle" /\ closing' = TRUE /\ at' = "insert"
        /\ todo' = IF file.wbuf # <<>> /\ file.err = "nil" THEN <<file.wbuf>> ELSE <<>>
        /\ file' = [file EXCEPT !.wbuf = IF file.err = "nil" THEN <<>> ELSE @]
        /\ UNCHANGED <<rest, flying, chunks, doc>>
    BY DEF Close
  <1>4. file \in GridFile BY DEF GridInv, GridTypes
  <1>5. rest = <<>> /\ ~closing /\ doc = NoFile /\ file.err \in {"nil"} \cup Broken /\ file.swept = "no"
    BY <1>3 DEF GridInv, Caller, Gone
  <1>6. l \in Nat /\ a \in Nat BY <1>1, <1>2, <1>4, Multiples DEF GridFile
  <1>7. /\ a <= l /\ l <= (file.chunk + 1) * ChunkSize /\ file.wbuf = Bytes(a, l)
        /\ file.wsum = Bytes(0, Held(file.chunk))
    BY <1>1, <1>2, <1>3, <1>5 DEF GridInv, Parts
  <1>8. file.wbuf = <<>> => l <= a
    <2>1. Len(file.wbuf) = l - a BY <1>6, <1>7, BytesType
    <2> QED BY <1>6, <2>1
  <1>9. file.wbuf # <<>> => a < l
    <2>1. a = l => file.wbuf = <<>> BY <1>6, <1>7, BytesEmpty
    <2> QED BY <1>6, <1>7, <2>1
  <1>10. /\ file'.mode = file.mode /\ file'.err = file.err /\ file'.chunk = file.chunk /\ file'.length = l
         /\ file'.wsum = file.wsum /\ file'.wpending = file.wpending /\ file'.swept = file.swept
    BY <1>1, <1>3, <1>4 DEF GridFile
  <1>11. GridTypes'
    <2>1. <<>> \in Seq(Nat) /\ <<>> \in Seq(Seq(Nat)) BY EmptySeq
    <2>2. file' \in GridFile BY <1>3, <1>4, <2>1 DEF GridFile
    <2>3. file.wbuf \in Seq(Nat) BY <1>4 DEF GridFile
    <2>4. <<file.wbuf>> \in Seq(Seq(Nat)) BY <2>3
    <2>5. todo' \in Seq(Seq(Nat)) BY <1>3, <2>1, <2>4
    <2> QED BY <1>3, <2>2, <2>5 DEF GridInv, GridTypes, Places
  <1>12. Caller' BY <1>3, <1>5, <1>10 DEF GridInv, Caller
  <1>13. Parts'
    <2>1. <<file.wbuf>> # <<>> OBVIOUS
    <2>2. CASE file.wbuf # <<>> /\ file.err = "nil"
      BY <1>1, <1>2, <1>3, <1>7, <1>9, <1>10, <2>1, <2>2 DEF Parts, Held
    <2>3. CASE ~(file.wbuf # <<>> /\ file.err = "nil")
      <3>1. todo' = <<>> BY <1>3, <2>3
      <3>2. file.err \notin Broken => l <= a BY <1>5, <1>8, <2>3
      <3> QED BY <1>1, <1>2, <1>3, <1>7, <1>10, <3>1, <3>2 DEF Parts, Held
    <2> QED BY <2>2, <2>3
  <1>14. Stored' BY <1>1, <1>3, <1>10 DEF GridInv, Stored, Held
  <1>15. Flights' BY <1>3, <1>10 DEF GridInv, Flights
  <1>16. Document' /\ Gone' BY <1>3, <1>5, <1>10 DEF Document, Gone
  <1> QED BY <1>11, <1>12, <1>13, <1>14, <1>15, <1>16 DEF GridInv

LEMMA CompleteWriteStep == ASSUME GridInv, completeWrite PROVE GridInv'
  <1>1. at = "complete" /\ file.wpending = 0 /\ UNCHANGED <<todo, rest, closing, flying, doc>>
    BY DEF completeWrite, Complete
  <1>2. file \in GridFile BY DEF GridInv, GridTypes
  <1>3. /\ closing /\ todo = <<>> /\ rest = <<>> /\ file.mode = "writing" /\ doc = NoFile
        /\ file.err \in {"nil"} \cup Broken /\ file.swept = "no"
    BY <1>1, <1>2 DEF GridInv, Caller, Gone, GridFile
  <1>4. flying = {}
    <2>1. IsFiniteSet(flying) /\ Cardinality(flying) \in Nat BY FS_CardinalityType DEF GridInv, GridTypes
    <2>2. Cardinality(flying) = 0 BY <1>1, <2>1 DEF GridInv, Flights
    <2> QED BY <2>1, <2>2, FS_EmptySet
  <1>5. CASE file.err = "nil" /\ at' = "filing" /\ UNCHANGED <<file, chunks>>
    <2>1. GridTypes' /\ Stored' /\ Flights' /\ Document' /\ Parts'
      BY <1>1, <1>5 DEF GridInv, GridTypes, Places, Stored, Held, Flights, Document, Parts
    <2>2. Caller' /\ Gone' BY <1>1, <1>3, <1>4, <1>5 DEF GridInv, Caller, Gone, Broken
    <2> QED BY <2>1, <2>2 DEF GridInv
  <1>6. ASSUME NEW w \in {"done", "failed"}, file.err # "nil", at' = "shut", file' = [file EXCEPT !.swept = w],
               chunks' \subseteq chunks, w = "done" => chunks' = {}
        PROVE  GridInv'
    <2>1. /\ file'.mode = file.mode /\ file'.chunk = file.chunk /\ file'.length = file.length
          /\ file'.wsum = file.wsum /\ file'.wbuf = file.wbuf /\ file'.wpending = file.wpending
          /\ file'.err = file.err /\ file'.swept = w /\ file' \in GridFile /\ file.err \in Broken
      BY <1>2, <1>3, <1>6 DEF GridFile
    <2>2. GridTypes' BY <1>1, <1>6, <2>1 DEF GridInv, GridTypes, Places
    <2>3. Caller' /\ Gone' /\ Document' BY <1>1, <1>3, <1>4, <1>6, <2>1 DEF GridInv, Caller, Gone, Document
    <2>4. Parts' BY <1>1, <1>6, <2>1 DEF GridInv, Parts, Held
    <2>5. Stored' BY <1>1, <1>6, <2>1 DEF GridInv, Stored, Held
    <2>6. Flights' BY <1>1, <2>1 DEF GridInv, Flights
    <2> QED BY <2>2, <2>3, <2>4, <2>5, <2>6 DEF GridInv
  <1>7. CASE file.err # "nil" /\ at' = "shut" /\ chunks' = {} /\ file' = [file EXCEPT !.swept = "done"]
    BY <1>6, <1>7
  <1>8. CASE file.err # "nil" /\ at' = "shut" /\ chunks' \in SUBSET chunks /\ file' = [file EXCEPT !.swept = "failed"]
    BY <1>6, <1>8
  <1> QED BY <1>5, <1>7, <1>8 DEF completeWrite

LEMMA InsertFileStep == ASSUME GridInv, InsertFile PROVE GridInv'
  <1>1. at = "filing" /\ at' = "shut" /\ UNCHANGED <<todo, rest, closing, flying, chunks>> BY DEF InsertFile
  <1>2. file \in GridFile BY DEF GridInv, GridTypes
  <1>3. /\ closing /\ todo = <<>> /\ rest = <<>> /\ file.mode = "writing" /\ doc = NoFile /\ flying = {}
        /\ file.err \notin Broken /\ file.swept = "no"
    BY <1>1, <1>2 DEF GridInv, Caller, Gone, GridFile
  <1>4. PICK d : d = [length |-> file.length, md5 |-> file.wsum] OBVIOUS
  <1>5. d \in [length : Nat, md5 : Seq(Nat)] /\ d.length = file.length /\ d.md5 = file.wsum
    BY <1>2, <1>4 DEF GridFile
  <1>6. PICK e \in {"nil", "unfiled"} : file' = [file EXCEPT !.err = e] BY DEF InsertFile
  <1>7. doc' \in {NoFile, d} BY <1>4 DEF InsertFile
  <1>8. /\ file'.mode = file.mode /\ file'.chunk = file.chunk /\ file'.length = file.length
        /\ file'.wsum = file.wsum /\ file'.wbuf = file.wbuf /\ file'.wpending = file.wpending
        /\ file'.err = e /\ file'.err \notin Broken /\ file'.swept = file.swept /\ file' \in GridFile
    BY <1>2, <1>6 DEF GridFile, Broken
  <1>9. GridTypes' BY <1>1, <1>5, <1>7, <1>8 DEF GridInv, GridTypes, Places
  <1>10. Caller' /\ Gone' BY <1>1, <1>3, <1>8 DEF GridInv, Caller, Gone
  <1>11. Parts' BY <1>1, <1>3, <1>8 DEF GridInv, Parts, Held
  <1>12. Stored' BY <1>1, <1>3, <1>8 DEF GridInv, Stored, Held
  <1>13. Flights' BY <1>1, <1>8 DEF GridInv, Flights
  <1>14. Document' BY <1>1, <1>3, <1>5, <1>7, <1>8 DEF GridInv, Parts, Document
  <1> QED BY <1>9, <1>10, <1>11, <1>12, <1>13, <1>14 DEF GridInv

LEMMA ShutStep == ASSUME GridInv, Shut PROVE GridInv'
  <1>1. /\ at = "shut" /\ at' = "idle" /\ closing' = FALSE /\ file' = [file EXCEPT !.mode = "closed"]
        /\ UNCHANGED <<todo, rest, flying, chunks, doc>>
    BY DEF Shut
  <1>2. file \in GridFile BY DEF GridInv, GridTypes
  <1>3. /\ closing /\ todo = <<>> /\ rest = <<>> /\ flying = {} BY <1>1 DEF GridInv, Caller
  <1>4. /\ file'.mode = "closed" /\ file'.chunk = file.chunk /\ file'.length = file.length
        /\ file'.wsum = file.wsum /\ file'.wbuf = file.wbuf /\ file'.wpending = file.wpending
        /\ file'.err = file.err /\ file'.swept = file.swept /\ file' \in GridFile
    BY <1>1, <1>2 DEF GridFile
  <1>5. GridTypes' BY <1>1, <1>4 DEF GridInv, GridTypes, Places
  <1>6. Caller' /\ Gone' BY <1>1, <1>3, <1>4 DEF GridInv, Caller, Gone
  <1>7. Parts' BY <1>1, <1>4 DEF GridInv, Parts, Held
  <1>8. Stored' /\ Flights' /\ Document' BY <1>1, <1>4 DEF GridInv, Stored, Held, Flights, Document
  <1> QED BY <1>5, <1>6, <1>7, <1>8 DEF GridInv

LEMMA AbortStep == ASSUME GridInv, Abort PROVE GridInv'
  <1>1. /\ file.mode = "writing" /\ file' = [file EXCEPT !.err = IF Filed THEN "late" ELSE "aborted"]
        /\ UNCHANGED <<todo, rest, at, closing, flying, chunks, doc>>
    BY DEF Abort
  <1>2. file \in GridFile BY DEF GridInv, GridTypes
  <1>3. PICK e : e = IF Filed THEN "late" ELSE "aborted" OBVIOUS
  <1>4. /\ file'.mode = "writing" /\ file'.chunk = file.chunk /\ file'.length = file.length
        /\ file'.wsum = file.wsum /\ file'.wbuf = file.wbuf /\ file'.wpending = file.wpending
        /\ file'.err = e /\ file'.swept = file.swept /\ file' \in GridFile /\ (e \in Broken <=> ~Filed)
    BY <1>1, <1>2, <1>3 DEF GridFile, Broken
  <1>5. Filed => file.err \notin Broken BY <1>1 DEF Filed, GridInv, Gone
  <1>6. GridTypes' BY <1>1, <1>4 DEF GridInv, GridTypes
  <1>7. Caller' /\ Gone' BY <1>1, <1>4 DEF GridInv, Caller, Gone, Filed
  <1>8. Parts' BY <1>1, <1>4, <1>5 DEF GridInv, Parts, Held
  <1>9. Stored' BY <1>1, <1>4, <1>5 DEF GridInv, Stored, Held
  <1>10. Flights' BY <1>1, <1>4 DEF GridInv, Flights
  <1>11. Document'
    <2>1. doc # NoFile => Filed BY <1>1 DEF GridInv, Caller, Gone, Filed
    <2> QED BY <1>1, <1>4, <2>1 DEF GridInv, Document
  <1> QED BY <1>6, <1>7, <1>8, <1>9, <1>10, <1>11 DEF GridInv

LEMMA GridStep == GridInv /\ [GridNext]_gridVars => GridInv'
  <1> SUFFICES ASSUME GridInv, [GridNext]_gridVars PROVE GridInv' OBVIOUS
  <1>1. ASSUME NEW n \in Writes, Write(n) PROVE GridInv' BY <1>1, WriteStep
  <1>2. ASSUME NEW c \in flying, Land(c) PROVE GridInv' BY <1>2, LandStep
  <1>3. CASE InsertChunk BY <1>3, InsertChunkStep
  <1>4. CASE Written BY <1>4, WrittenStep
  <1>5. CASE Close BY <1>5, CloseStep
  <1>6. CASE completeWrite BY <1>6, CompleteWriteStep
  <1>7. CASE Abort BY <1>7, AbortStep
  <1>9. CASE InsertFile BY <1>9, InsertFileStep
  <1>10. CASE Shut BY <1>10, ShutStep
  <1>8. CASE UNCHANGED gridVars
    BY <1>8 DEF gridVars, GridInv, GridTypes, Caller, Parts, Stored, Held, Flights, Document, Gone
  <1> QED BY <1>1, <1>2, <1>3, <1>4, <1>5, <1>6, <1>7, <1>8, <1>9, <1>10 DEF GridNext

\* The invariant implies what a reader of the file relies on.
LEMMA GridIsWhole == GridInv => FilesAreWhole
  <1> SUFFICES ASSUME GridInv PROVE FilesAreWhole OBVIOUS
  <1>1. PICK k : k = file.chunk OBVIOUS
  <1>2. PICK l : l = file.length OBVIOUS
  <1>3. k \in Nat /\ l \in Nat /\ ChunkSize \in Nat \ {0} BY <1>1, <1>2, GridAssumption DEF GridInv, GridTypes, GridFile
  <1>4. Whole
    <2> SUFFICES ASSUME doc # NoFile PROVE Whole BY DEF Whole
    <2>1. /\ file.err \notin Broken /\ l <= k * ChunkSize
          /\ doc.length = l /\ doc.md5 = file.wsum /\ flying = {}
      BY <1>1, <1>2 DEF GridInv, Document
    <2>2. file.wsum = [i \in 1..l |-> i]
      <3>1. Upto(k, l) = l BY <1>3, <2>1, UptoIs
      <3>2. file.wsum = Bytes(0, l) BY <1>1, <1>2, <3>1 DEF GridInv, Parts, Held
      <3>3. l - 0 = l /\ \A i \in 1..l : 0 + i = i BY <1>3
      <3> QED BY <3>2, <3>3 DEF Bytes
    <2>3. ASSUME NEW i \in 1..l
          PROVE  \E c \in chunks : /\ c.n = (i - 1) \div ChunkSize /\ ((i - 1) % ChunkSize) + 1 \in DOMAIN c.data
                                   /\ c.data[((i - 1) % ChunkSize) + 1] = i
      <3>1. PICK x : x = i - 1 OBVIOUS
      <3>2. PICK n : n = x \div ChunkSize OBVIOUS
      <3>3. x \in Nat /\ i = x + 1 /\ x < l BY <1>3, <3>1
      <3>4. n \in Nat /\ n * ChunkSize <= x /\ x < (n + 1) * ChunkSize /\ x % ChunkSize = x - n * ChunkSize
            /\ (n + 1) * ChunkSize = n * ChunkSize + ChunkSize /\ n * ChunkSize \in Nat
        BY <1>3, <3>2, <3>3, DividedBy, Multiples
      <3>5. n < k
        <4>1. SUFFICES ASSUME k <= n PROVE FALSE BY <1>3, <3>4
        <4>2. k * ChunkSize <= n * ChunkSize /\ k * ChunkSize \in Nat BY <1>3, <3>4, <4>1, Multiples
        <4> QED BY <1>3, <2>1, <3>3, <3>4, <4>2
      <3>6. PICK c \in chunks : c.n = n
        BY <1>1, <1>3, <2>1, <3>4, <3>5 DEF GridInv, Stored
      <3>7. c.data = Bytes(n * ChunkSize, Upto(n + 1, l)) BY <1>2, <3>6 DEF GridInv, Stored, Held
      <3>8. PICK a : a = n * ChunkSize OBVIOUS
      <3>9. PICK b : b = Upto(n + 1, l) OBVIOUS
      <3>10. a \in Nat /\ b \in Nat /\ a <= b /\ x < b /\ a <= x
        BY <1>3, <3>3, <3>4, <3>8, <3>9 DEF Upto
      <3>11. PICK j : j = x - a + 1 OBVIOUS
      <3>12. j \in 1..(b - a) /\ a + j = i /\ j = (x % ChunkSize) + 1 BY <1>3, <3>3, <3>4, <3>8, <3>10, <3>11
      <3>13. DOMAIN c.data = 1..(b - a) /\ c.data[j] = a + j BY <3>7, <3>8, <3>9, <3>12 DEF Bytes
      <3> QED BY <3>1, <3>2, <3>6, <3>12, <3>13
    <2>4. ASSUME NEW c \in chunks
          PROVE  Len(c.data) = ChunkSize \/ c.n * ChunkSize + Len(c.data) = l
      <3>1. PICK n : n = c.n OBVIOUS
      <3>2. n \in Nat /\ n * ChunkSize < l /\ c.data = Bytes(n * ChunkSize, Upto(n + 1, l))
        BY <1>2, <3>1 DEF GridInv, GridTypes, Stored, Held
      <3>3. PICK a : a = n * ChunkSize OBVIOUS
      <3>4. PICK b : b = Upto(n + 1, l) OBVIOUS
      <3>5. a \in Nat /\ (n + 1) * ChunkSize = a + ChunkSize BY <3>2, <3>3, Multiples
      <3>6. b \in Nat /\ a <= b /\ (b = a + ChunkSize \/ b = l) BY <1>3, <3>2, <3>3, <3>4, <3>5 DEF Upto
      <3>7. Len(c.data) = b - a BY <3>2, <3>3, <3>4, <3>5, <3>6, BytesType, ZenonT(60)
      <3> QED BY <1>3, <3>1, <3>3, <3>5, <3>6, <3>7
    <2> QED BY <1>2, <2>1, <2>2, <2>3, <2>4 DEF Whole
  <1>5. Nothing BY DEF GridInv, Gone, Caller, Document, Nothing
  <1>6. Pending
    <2>1. PICK c : c = Cardinality(flying) OBVIOUS
    <2>2. PICK w : w = file.wpending OBVIOUS
    <2>3. c \in Nat /\ w \in Nat /\ c <= w /\ ChunkSize * w < Megabyte + ChunkSize /\ Megabyte \in Nat
      BY <2>1, <2>2, FS_CardinalityType, GridAssumption DEF GridInv, GridTypes, GridFile, Flights
    <2>4. c * ChunkSize <= w * ChunkSize BY <2>3, Multiples
    <2>5. ChunkSize * c <= ChunkSize * w /\ ChunkSize * c \in Nat /\ ChunkSize * w \in Nat BY <1>3, <2>3, <2>4
    <2> QED BY <1>3, <2>1, <2>3, <2>5 DEF Pending
  <1> QED BY <1>4, <1>5, <1>6 DEF FilesAreWhole

\* Close (gridfs.go) inserts the document of a file only when all of its chunks are
\* there, and no document of one that was aborted in time or failed, and leaves no
\* chunk of it when their removal succeeds; insertChunk keeps little pending.
THEOREM FilesAreTrue == GridSpec => []FilesAreWhole
  <1> QED BY GridInitially, GridStep, GridIsWhole, PTL DEF GridSpec

(***************************************************************************)
(* Reading a file                                                          *)
(***************************************************************************)

\* What n chunks hold of the file
Reach(n) == Least(n * PerChunk, Length)

Cached == [n : Nat, state : {"fetching", "there", "failed"}, data : Seq(Nat)]
Calls == [what : {"idle", "read", "more", "seek", "close", "closed"}, want : Nat, got : Seq(Nat)]
Results == [from : Nat, want : Nat, got : Seq(Nat), err : {"nil", "EOF", "missing", "failed", "past"}]

ReadTypes ==
    /\ chunk \in Nat /\ offset \in 0..Length /\ rbuf \in Seq(Nat) /\ rcache \in Cached \cup {NoChunk}
    /\ call \in Calls /\ result \in Results /\ failed \in Nat

\* The reader has not given up.
Going == GivesUp => result.err \in {"nil", "EOF"}

\* What was read ahead is the chunk, or had a reason to fail.
Cache ==
    (rcache # NoChunk /\ rcache.state # "fetching") =>
        IF rcache.state = "there" THEN rcache.data = Chunk(rcache.n) ELSE Fails > 0

\* The buffer holds what is left of the chunks before the next; where the reader is.
Standing ==
    /\ (call.what \in {"idle", "read"} /\ Going /\ offset < Length) =>
          offset <= Reach(chunk) /\ rbuf = Bytes(offset, Reach(chunk))
    /\ call.what = "more" => offset = chunk * PerChunk
    /\ call.what = "seek" => chunk * PerChunk <= offset /\ offset < (chunk + 1) * PerChunk
    /\ call.what \in {"read", "more", "seek"} => offset < Length /\ Going

\* What the current call has read so far
SoFar ==
    /\ call.what \in {"read", "more"} => Len(call.got) <= offset /\ call.got = Bytes(offset - Len(call.got), offset)
    /\ call.what \notin {"read", "more"} => call.got = <<>>

\* What the last call returned
Returned ==
    /\ result.got = Bytes(result.from, result.from + Len(result.got))
    /\ AllOfThem

ReadInv == ReadTypes /\ Cache /\ Standing /\ SoFar /\ Returned


\* The cases in which what is read can be trusted: no seek to before the start, and no
\* reading on after an error
Sane == ReadAssumption /\ Before = 0 /\ (GivesUp \/ Fails = 0)

\* Where the chunks end
LEMMA ReachIs ==
  ASSUME Sane, NEW n \in Nat
  PROVE  /\ n * PerChunk \in Nat /\ (n + 1) * PerChunk = n * PerChunk + PerChunk
         /\ Reach(n) \in Nat /\ Reach(n) <= Length /\ Reach(n) <= n * PerChunk
         /\ n * PerChunk <= Length => Reach(n) = n * PerChunk
         /\ n * PerChunk < Length => n * PerChunk < Reach(n + 1)
  <1>1. PerChunk \in Nat \ {0} /\ Length \in Nat \ {0} BY DEF Sane, ReadAssumption
  <1>2. n * PerChunk \in Nat /\ (n + 1) * PerChunk = n * PerChunk + PerChunk BY <1>1
  <1> QED BY <1>1, <1>2 DEF Reach, Least

\* A chunk in the file holds its bytes, of which there are some.
LEMMA ChunkBytes ==
  ASSUME Sane, NEW n \in Nat, n * PerChunk < Length
  PROVE  Chunk(n) = Bytes(n * PerChunk, Reach(n + 1)) /\ Chunk(n) \in Seq(Nat) /\ Chunk(n) # <<>>
  <1>1. PerChunk \in Nat \ {0} /\ Length \in Nat \ {0} BY DEF Sane, ReadAssumption
  <1>2. PICK a : a = n * PerChunk OBVIOUS
  <1>3. PICK b : b = Reach(n + 1) OBVIOUS
  <1>4. n + 1 \in Nat OBVIOUS
  <1>5. a \in Nat /\ b \in Nat /\ a < b /\ (n + 1) * PerChunk = a + PerChunk BY <1>2, <1>3, <1>4, ReachIs
  <1>6. b - a = Least(PerChunk, Length - a) BY <1>1, <1>2, <1>3, <1>5 DEF Reach, Least
  <1>7. Chunk(n) = Bytes(a, b) BY <1>1, <1>2, <1>5, <1>6 DEF Chunk, Bytes
  <1>8. a <= b /\ b - a # 0 BY <1>5
  <1>9. Bytes(a, b) \in Seq(Nat) /\ Len(Bytes(a, b)) # 0 BY <1>5, <1>8, BytesType
  <1> QED BY <1>2, <1>3, <1>7, <1>9, EmptySeq

LEMMA ReadInitially == ASSUME Sane, ReadInit PROVE ReadInv
  <1>1. /\ chunk = 0 /\ offset = 0 /\ rbuf = <<>> /\ rcache = NoChunk /\ failed = 0
        /\ call = [what |-> "idle", want |-> 0, got |-> <<>>]
        /\ result = [from |-> 0, want |-> 0, got |-> <<>>, err |-> "nil"]
    BY DEF ReadInit, Idle, NoResult
  <1>2. Length \in Nat \ {0} /\ PerChunk \in Nat \ {0} BY DEF Sane, ReadAssumption
  <1>3. <<>> \in Seq(Nat) BY EmptySeq
  <1>4. call \in Calls /\ result \in Results BY <1>1, <1>3 DEF Calls, Results
  <1>5. ReadTypes BY <1>1, <1>2, <1>3, <1>4 DEF ReadTypes
  <1>6. Reach(0) = 0 BY <1>2 DEF Reach, Least
  <1>7. Bytes(0, 0) = <<>> BY BytesEmpty
  <1>8. Standing BY <1>1, <1>6, <1>7 DEF Standing
  <1>9. SoFar BY <1>1 DEF SoFar
  <1>10. Returned BY <1>1, <1>7 DEF Returned, AllOfThem
  <1>11. Cache BY <1>1 DEF Cache
  <1> QED BY <1>5, <1>8, <1>9, <1>10, <1>11 DEF ReadInv

\* A chunk that is got is the chunk, or there was a fault.
LEMMA GotChunk ==
  ASSUME Sane, ReadInv, chunk * PerChunk < Length, NEW r \in Fetched, GetChunk(r)
  PROVE  /\ r.err = "nil" => r.data = Bytes(chunk * PerChunk, Reach(chunk + 1))
         /\ r.err \in {"nil", "failed"} /\ (r.err = "failed" => Fails > 0) /\ r.data \in Seq(Nat)
         /\ chunk' = chunk + 1 /\ chunk' \in Nat /\ rcache' \in Cached \cup {NoChunk} /\ failed' \in Nat /\ Cache'
  <1>1. Fails \in Nat /\ PerChunk \in Nat \ {0} /\ Length \in Nat \ {0} BY DEF Sane, ReadAssumption
  <1>2. chunk \in Nat /\ failed \in Nat /\ rcache \in Cached \cup {NoChunk} BY DEF ReadInv, ReadTypes
  <1>3. Chunk(chunk) = Bytes(chunk * PerChunk, Reach(chunk + 1)) /\ Chunk(chunk) \in Seq(Nat) /\ Chunk(chunk) # <<>>
    BY <1>2, ChunkBytes
  <1>4. chunk' = chunk + 1 /\ failed' = failed + r.new
        /\ rcache' = IF (chunk + 1) * PerChunk < Length THEN [n |-> chunk + 1, state |-> "fetching", data |-> <<>>] ELSE NoChunk
    BY DEF GetChunk
  <1>5. /\ r.err = "nil" => r.data = Chunk(chunk)
        /\ r.err \in {"nil", "failed"} /\ (r.err = "failed" => Fails > 0) /\ r.data \in Seq(Nat) /\ r.new \in {0, 1}
    <2>1. CASE InCache
      <3>1. r = [data |-> rcache.data, err |-> IF rcache.state = "failed" THEN "failed" ELSE "nil", new |-> 0]
        BY <2>1 DEF Fetched
      <3>2. rcache # NoChunk /\ rcache.n = chunk /\ rcache.state \in {"there", "failed"} BY <2>1 DEF InCache, GetChunk
      <3>3. rcache.data \in Seq(Nat) BY <1>2, <3>2 DEF Cached
      <3>4. IF rcache.state = "there" THEN rcache.data = Chunk(chunk) ELSE Fails > 0
        BY <3>2 DEF ReadInv, Cache
      <3> QED BY <3>1, <3>2, <3>3, <3>4
    <2>2. CASE ~InCache
      <3>1. \/ r = [data |-> Chunk(chunk), err |-> "nil", new |-> 0]
            \/ failed < Fails /\ r = [data |-> <<>>, err |-> "failed", new |-> 1]
        BY <2>2, <1>3 DEF Fetched
      <3>2. <<>> \in Seq(Nat) BY EmptySeq
      <3>3. CASE r = [data |-> Chunk(chunk), err |-> "nil", new |-> 0] BY <3>3, <1>3
      <3>4. CASE failed < Fails /\ r = [data |-> <<>>, err |-> "failed", new |-> 1] BY <3>2, <3>4, <1>1, <1>2
      <3> QED BY <3>1, <3>3, <3>4
    <2> QED BY <2>1, <2>2
  <1>6. chunk + 1 \in Nat /\ failed' \in Nat BY <1>2, <1>4, <1>5
  <1>7. [n |-> chunk + 1, state |-> "fetching", data |-> <<>>] \in Cached BY <1>6, EmptySeq DEF Cached
  <1>8. rcache' \in Cached \cup {NoChunk} BY <1>4, <1>7
  <1>9. Cache' BY <1>4 DEF Cache
  <1> QED BY <1>3, <1>4, <1>5, <1>6, <1>8, <1>9

LEMMA ReadAheadStep == ASSUME Sane, ReadInv, ReadAhead PROVE ReadInv'
  <1>1. /\ rcache # NoChunk /\ rcache.state = "fetching" /\ UNCHANGED <<chunk, offset, rbuf, call, result>>
        /\ \/ rcache' = Fetch(TRUE) /\ UNCHANGED failed
           \/ failed < Fails /\ rcache' = Fetch(FALSE) /\ failed' = failed + 1
    BY DEF ReadAhead
  <1>2. rcache \in Cached /\ failed \in Nat /\ rcache.n \in Nat BY <1>1 DEF ReadInv, ReadTypes, Cached
  <1>3. Chunk(rcache.n) \in Seq(Nat) /\ <<>> \in Seq(Nat)
    <2>1. CASE rcache.n * PerChunk < Length BY <2>1, <1>2, ChunkBytes, EmptySeq
    <2>2. CASE ~(rcache.n * PerChunk < Length)
      <3>1. rcache.n * PerChunk \in Nat /\ Length \in Nat BY <1>2, ReachIs DEF Sane, ReadAssumption
      <3>2. Chunk(rcache.n) = <<>> BY <2>2, <3>1 DEF Chunk
      <3> QED BY <3>2, EmptySeq
    <2> QED BY <2>1, <2>2
  <1>4. CASE rcache' = Fetch(TRUE) /\ UNCHANGED failed
    <2>1. rcache' = [rcache EXCEPT !.state = "there", !.data = Chunk(rcache.n)] BY <1>4 DEF Fetch
    <2>2. rcache' \in Cached /\ rcache'.state = "there" /\ rcache'.data = Chunk(rcache'.n)
      BY <1>2, <1>3, <2>1 DEF Cached
    <2>3. ReadTypes' BY <1>1, <1>4, <2>2 DEF ReadInv, ReadTypes
    <2>4. Cache' BY <2>2 DEF Cache
    <2> QED BY <1>1, <2>3, <2>4 DEF ReadInv, Standing, Going, SoFar, Returned, AllOfThem
  <1>5. CASE failed < Fails /\ rcache' = Fetch(FALSE) /\ failed' = failed + 1
    <2>1. rcache' = [rcache EXCEPT !.state = "failed", !.data = <<>>] BY <1>5 DEF Fetch
    <2>2. rcache' \in Cached /\ rcache'.state = "failed" BY <1>2, <1>3, <2>1 DEF Cached
    <2>3. Fails > 0 /\ failed' \in Nat BY <1>2, <1>5 DEF Sane, ReadAssumption
    <2>4. ReadTypes' BY <1>1, <2>2, <2>3 DEF ReadInv, ReadTypes
    <2>5. Cache' BY <2>2, <2>3 DEF Cache
    <2> QED BY <1>1, <2>4, <2>5 DEF ReadInv, Standing, Going, SoFar, Returned, AllOfThem
  <1> QED BY <1>1, <1>4, <1>5

LEMMA ReadStart == ASSUME Sane, ReadInv, NEW n \in Reads, Read(n) PROVE ReadInv'
  <1>1. /\ call.what = "idle" /\ (GivesUp => result.err \in {"nil", "EOF"})
        /\ UNCHANGED <<chunk, offset, rbuf, rcache, failed>>
        /\ IF offset = Length
           THEN result' = [from |-> offset, want |-> n, got |-> <<>>, err |-> "EOF"] /\ UNCHANGED call
           ELSE /\ call' = [what |-> "read", want |-> n, got |-> <<>>]
                /\ result' = [from |-> 0, want |-> 0, got |-> <<>>, err |-> "nil"]
    BY DEF Read, Ready, NoResult
  <1>2. n \in Nat \ {0} /\ Length \in Nat \ {0} BY DEF Sane, ReadAssumption
  <1>3. offset \in 0..Length /\ offset \in Nat /\ <<>> \in Seq(Nat) BY <1>2, EmptySeq DEF ReadInv, ReadTypes
  <1>4. Cache' BY <1>1 DEF ReadInv, Cache
  <1>5. Bytes(offset, offset) = <<>> /\ Bytes(0, 0) = <<>> BY <1>3, BytesEmpty
  <1>6. CASE offset = Length
    <2>1. result' = [from |-> offset, want |-> n, got |-> <<>>, err |-> "EOF"] /\ UNCHANGED call BY <1>1, <1>6
    <2>2. result' \in Results BY <1>2, <1>3, <2>1 DEF Results
    <2>3. ReadTypes' BY <1>1, <2>1, <2>2 DEF ReadInv, ReadTypes
    <2>4. Returned' BY <1>3, <1>5, <2>1 DEF Returned, AllOfThem
    <2>5. Standing' BY <1>1, <1>2, <1>6, <2>1 DEF ReadInv, Standing, Going
    <2>6. SoFar' BY <1>1, <2>1 DEF ReadInv, SoFar
    <2> QED BY <1>4, <2>3, <2>4, <2>5, <2>6 DEF ReadInv
  <1>7. CASE offset # Length
    <2>1. /\ call' = [what |-> "read", want |-> n, got |-> <<>>]
          /\ result' = [from |-> 0, want |-> 0, got |-> <<>>, err |-> "nil"]
      BY <1>1, <1>7
    <2>2. result' \in Results /\ call' \in Calls BY <1>2, <1>3, <2>1 DEF Results, Calls
    <2>3. ReadTypes' BY <1>1, <2>1, <2>2 DEF ReadInv, ReadTypes
    <2>4. Returned' BY <1>5, <2>1 DEF Returned, AllOfThem
    <2>5. offset < Length BY <1>2, <1>3, <1>7
    <2>6. Standing' BY <1>1, <2>1, <2>5 DEF ReadInv, Standing, Going
    <2>7. SoFar' BY <1>3, <1>5, <1>1, <2>1 DEF SoFar
    <2> QED BY <1>4, <2>3, <2>4, <2>6, <2>7 DEF ReadInv
  <1> QED BY <1>6, <1>7

LEMMA CopyStep == ASSUME Sane, ReadInv, Copy PROVE ReadInv'
  <1>1. PICK i : i = Least(call.want, Len(rbuf)) OBVIOUS
  <1>2. PICK b : b = Reach(chunk) OBVIOUS
  <1>3. PICK g : g = Len(call.got) OBVIOUS
  <1>4. call.what = "read" /\ offset' = offset + i /\ rbuf' = Drops(rbuf, i) /\ UNCHANGED <<chunk, rcache, failed>>
        /\ IF Enough(i) THEN Returns(Takes(rbuf, i), call.want, "nil")
           ELSE /\ call' = [what |-> "more", want |-> call.want - i, got |-> call.got \o Takes(rbuf, i)]
                /\ UNCHANGED result
    BY <1>1 DEF Copy
  <1>5. Length \in Nat \ {0} /\ PerChunk \in Nat \ {0} BY DEF Sane, ReadAssumption
  <1>6. /\ offset \in Nat /\ chunk \in Nat /\ rbuf \in Seq(Nat) /\ call \in Calls /\ call.want \in Nat
        /\ call.got \in Seq(Nat) /\ g \in Nat
    BY <1>3, <1>5 DEF ReadInv, ReadTypes, Calls
  <1>7. offset < Length /\ Going /\ offset <= b /\ rbuf = Bytes(offset, b) BY <1>2, <1>4 DEF ReadInv, Standing
  <1>8. b \in Nat /\ b <= Length /\ b <= chunk * PerChunk /\ chunk * PerChunk \in Nat
        /\ (chunk * PerChunk <= Length => b = chunk * PerChunk)
    BY <1>2, <1>6, ReachIs
  <1>9. Len(rbuf) = b - offset BY <1>6, <1>7, <1>8, BytesType
  <1>10. i \in Nat /\ i <= call.want /\ i <= b - offset /\ (i = call.want \/ i = b - offset)
    BY <1>1, <1>6, <1>7, <1>8, <1>9 DEF Least
  <1>11. PICK o : o = offset + i OBVIOUS
  <1>12. o \in Nat /\ offset <= o BY <1>6, <1>10, <1>11
  <1>13. offset' = o BY <1>4, <1>11
  <1>14. o <= b BY <1>6, <1>8, <1>10, <1>11
  <1>15. o <= Length BY <1>5, <1>8, <1>12, <1>14
  <1>16. Takes(rbuf, i) = Bytes(offset, offset + i) /\ Drops(rbuf, i) = Bytes(offset + i, b)
    BY <1>6, <1>7, <1>8, <1>10, Halves
  <1>17. Takes(rbuf, i) = Bytes(offset, o) /\ rbuf' = Bytes(o, b) BY <1>4, <1>11, <1>16
  <1>18. g <= offset /\ call.got = Bytes(offset - g, offset) BY <1>3, <1>4 DEF ReadInv, SoFar
  <1>a. PICK f : f = offset - g OBVIOUS
  <1>19. /\ call.got \o Takes(rbuf, i) = Bytes(f, o) /\ Bytes(f, o) \in Seq(Nat) /\ Len(Bytes(f, o)) = o - f
         /\ f \in Nat /\ f <= o /\ f <= offset
    <2>1. /\ Bytes(offset - g, offset) \o Bytes(offset, o) = Bytes(offset - g, o)
          /\ Bytes(offset - g, o) \in Seq(Nat) /\ Len(Bytes(offset - g, o)) = o - (offset - g)
          /\ offset - g \in Nat /\ offset - g <= o
      BY <1>6, <1>12, <1>18, ReadsOn
    <2>2. f <= offset BY <1>6, <1>a
    <2> QED BY <2>1, <2>2, <1>17, <1>18, <1>a
  <1>b. rbuf' \in Seq(Nat) BY <1>8, <1>12, <1>14, <1>17, BytesType
  <1>20. Cache' BY <1>4 DEF ReadInv, Cache
  <1>21. offset' \in 0..Length BY <1>5, <1>12, <1>13, <1>15
  <1>22. CASE Enough(i)
    <2>1. PICK w : w = call.want + g OBVIOUS
    <2>2. /\ call' = [what |-> "idle", want |-> 0, got |-> <<>>]
          /\ result' = [from |-> f, want |-> w, got |-> Bytes(f, o), err |-> "nil"]
      BY <1>3, <1>4, <1>a, <1>19, <1>22, <2>1 DEF Returns, Idle
    <2>3. w \in Nat BY <1>6, <2>1
    <2>4. result' \in Results /\ call' \in Calls BY <1>19, <1>19, <2>2, <2>3, EmptySeq DEF Results, Calls
    <2>5. ReadTypes' BY <1>4, <1>b, <1>21, <2>4 DEF ReadInv, ReadTypes
    <2>6. Standing' BY <1>2, <1>4, <1>13, <1>14, <1>17, <2>2 DEF Standing
    <2>7. SoFar' BY <2>2 DEF SoFar
    <2>8. o - f = Least(w, Length - f)
      <3>1. i = call.want \/ o = Length BY <1>11, <1>22 DEF Enough
      <3>2. o - f = i + g BY <1>6, <1>10, <1>11, <1>a
      <3>3. CASE i = call.want BY <1>5, <1>6, <1>10, <1>12, <1>15, <1>19, <2>1, <3>2, <3>3 DEF Least
      <3>4. CASE o = Length BY <1>5, <1>6, <1>10, <1>12, <1>19, <2>1, <3>2, <3>4 DEF Least
      <3> QED BY <3>1, <3>3, <3>4
    <2>9. f + Len(Bytes(f, o)) = o BY <1>12, <1>19, <1>19
    <2>10. Returned' BY <1>19, <2>2, <2>8, <2>9 DEF Returned, AllOfThem
    <2> QED BY <1>20, <2>5, <2>6, <2>7, <2>10 DEF ReadInv
  <1>23. CASE ~Enough(i)
    <2>1. PICK w : w = call.want - i OBVIOUS
    <2>2. call' = [what |-> "more", want |-> w, got |-> Bytes(f, o)] /\ UNCHANGED result
      BY <1>4, <1>19, <1>23, <2>1
    <2>3. w \in Nat BY <1>6, <1>10, <2>1
    <2>4. call' \in Calls BY <1>19, <2>2, <2>3 DEF Calls
    <2>5. ReadTypes' BY <1>4, <1>b, <1>21, <2>2, <2>4 DEF ReadInv, ReadTypes
    <2>6. i # call.want /\ o # Length BY <1>11, <1>23 DEF Enough
    <2>7. o = b /\ o < Length BY <1>5, <1>6, <1>8, <1>10, <1>11, <1>12, <2>6
    <2>8. b = chunk * PerChunk BY <1>2, <1>5, <1>8, <2>7 DEF Reach, Least
    <2>9. Standing' BY <1>4, <1>7, <1>13, <2>2, <2>7, <2>8 DEF Standing, Going
    <2>10. o - (o - f) = f /\ o - f <= o BY <1>12, <1>19
    <2>11. SoFar' BY <1>12, <1>13, <1>19, <2>2, <2>10 DEF SoFar
    <2>12. Returned' BY <2>2 DEF ReadInv, Returned, AllOfThem
    <2> QED BY <1>20, <2>5, <2>9, <2>11, <2>12 DEF ReadInv
  <1> QED BY <1>22, <1>23

LEMMA MoreStep == ASSUME Sane, ReadInv, More PROVE ReadInv'
  <1>1. call.what = "more" /\ UNCHANGED offset BY DEF More
  <1>2. PICK r \in Fetched :
          /\ GetChunk(r) /\ rbuf' = r.data
          /\ IF r.err = "nil" THEN call' = [call EXCEPT !.what = "read"] /\ UNCHANGED result
             ELSE Returns(<<>>, call.want, r.err)
    BY DEF More
  <1>3. /\ offset = chunk * PerChunk /\ offset < Length /\ Going
        /\ Len(call.got) <= offset /\ call.got = Bytes(offset - Len(call.got), offset)
    BY <1>1 DEF ReadInv, Standing, SoFar
  <1>4. Length \in Nat \ {0} BY DEF Sane, ReadAssumption
  <1>5. chunk \in Nat /\ offset \in Nat /\ call \in Calls /\ call.want \in Nat /\ call.got \in Seq(Nat)
    BY <1>4 DEF ReadInv, ReadTypes, Calls
  <1>6. chunk * PerChunk < Length BY <1>3
  <1>7. /\ r.err = "nil" => r.data = Bytes(chunk * PerChunk, Reach(chunk + 1))
        /\ r.err \in {"nil", "failed"} /\ (r.err = "failed" => Fails > 0) /\ r.data \in Seq(Nat)
        /\ chunk' = chunk + 1 /\ chunk' \in Nat /\ rcache' \in Cached \cup {NoChunk} /\ failed' \in Nat /\ Cache'
    BY <1>2, <1>6, GotChunk
  <1>8. CASE r.err = "nil"
    <2>1. call' = [call EXCEPT !.what = "read"] /\ UNCHANGED result BY <1>2, <1>8
    <2>2. call' \in Calls /\ call'.what = "read" /\ call'.got = call.got BY <1>5, <2>1 DEF Calls
    <2>3. ReadTypes' BY <1>1, <1>2, <1>7, <2>1, <2>2 DEF ReadInv, ReadTypes
    <2>4. offset <= Reach(chunk + 1) BY <1>3, <1>5, <1>6, ReachIs
    <2>5. Standing' BY <1>1, <1>2, <1>3, <1>7, <1>8, <2>1, <2>2, <2>4 DEF Standing, Going
    <2>6. SoFar' BY <1>1, <1>3, <2>2 DEF SoFar
    <2>7. Returned' BY <2>1 DEF ReadInv, Returned, AllOfThem
    <2> QED BY <1>7, <2>3, <2>5, <2>6, <2>7 DEF ReadInv
  <1>9. CASE r.err = "failed"
    <2>1. PICK g : g = Len(call.got) OBVIOUS
    <2>2. PICK f : f = offset - g OBVIOUS
    <2>3. PICK w : w = call.want + g OBVIOUS
    <2>4. g \in Nat /\ f \in Nat /\ w \in Nat /\ f <= offset /\ f + (offset - f) = offset
      <3>1. g <= offset BY <1>3, <2>1
      <3>2. g \in Nat BY <1>5, <2>1
      <3>3. f \in Nat /\ f <= offset /\ f + (offset - f) = offset BY <1>5, <2>2, <3>1, <3>2
      <3> QED BY <1>5, <2>3, <3>2, <3>3
    <2>5. call.got \o <<>> = Bytes(f, offset) BY <1>3, <1>5, <2>1, <2>2, ConcatEmptySeq
    <2>6. Bytes(f, offset) \in Seq(Nat) /\ Len(Bytes(f, offset)) = offset - f BY <1>5, <2>4, BytesType
    <2>7. /\ call' = [what |-> "idle", want |-> 0, got |-> <<>>]
          /\ result' = [from |-> f, want |-> w, got |-> Bytes(f, offset), err |-> "failed"]
      BY <1>2, <1>9, <2>1, <2>2, <2>3, <2>5 DEF Returns, Idle
    <2>8. call' \in Calls /\ result' \in Results BY <2>4, <2>6, <2>7, EmptySeq DEF Calls, Results
    <2>9. ReadTypes' BY <1>1, <1>2, <1>7, <2>8 DEF ReadInv, ReadTypes
    <2>10. ~Going' BY <1>7, <1>9, <2>7 DEF Sane, ReadAssumption, Going
    <2>11. Standing' BY <2>7, <2>10 DEF Standing
    <2>12. SoFar' BY <2>7 DEF SoFar
    <2>13. Returned' BY <2>4, <2>6, <2>7 DEF Returned, AllOfThem
    <2> QED BY <1>7, <2>9, <2>11, <2>12, <2>13 DEF ReadInv
  <1> QED BY <1>7, <1>8, <1>9

\* The chunk of an offset holds it.
LEMMA OfChunk ==
  ASSUME Sane, NEW to \in Nat
  PROVE  /\ ChunkOf(to) \in Nat /\ ChunkOf(to) * PerChunk <= to /\ to < (ChunkOf(to) + 1) * PerChunk
  <1>1. PerChunk \in Nat \ {0} BY DEF Sane, ReadAssumption
  <1>2. PICK q : q = to \div PerChunk OBVIOUS
  <1>3. q \in Nat /\ q * PerChunk <= to /\ to < (q + 1) * PerChunk
    <2>1. /\ (to \div PerChunk) \in Int /\ (to % PerChunk) \in 0..(PerChunk - 1)
          /\ to = PerChunk * (to \div PerChunk) + (to % PerChunk)
      BY <1>1
    <2>2. to \div PerChunk \in Nat BY <1>1, <2>1
    <2> QED BY <1>1, <1>2, <2>1, <2>2
  <1>4. ChunkOf(to) = q BY <1>2 DEF ChunkOf
  <1> QED BY <1>3, <1>4

\* Seek returns, without an error or past the end.
LEMMA SoughtIs ==
  ASSUME Sane, ReadInv, NEW e \in {"nil", "failed", "past"},
         result' = [from |-> offset, want |-> 0, got |-> <<>>, err |-> e]
  PROVE  result' \in Results /\ Returned' /\ result'.err = e
  <1>a. Length \in Nat BY DEF Sane, ReadAssumption
  <1>b. offset \in Nat BY <1>a DEF ReadInv, ReadTypes
  <1>2. offset \in Nat /\ <<>> \in Seq(Nat) /\ Len(<<>>) = 0 /\ offset + 0 = offset BY <1>b, EmptySeq
  <1>3. Bytes(offset, offset) = <<>> BY <1>2, BytesEmpty
  <1>4. result' \in Results BY <1>2 DEF Results
  <1>5. Returned' BY <1>2, <1>3 DEF Returned, AllOfThem
  <1> QED BY <1>4, <1>5

LEMMA SeekStep == ASSUME Sane, ReadInv, NEW to \in (0 - Before)..(Length + 1), Seek(to) PROVE ReadInv'
  <1>1. Length \in Nat \ {0} /\ Before = 0 BY DEF Sane, ReadAssumption
  <1>2. to \in Nat BY <1>1
  <1>3. call.what = "idle" /\ Going /\ UNCHANGED <<rcache, failed>> BY DEF Seek, Ready, Going
  <1>4. chunk \in Nat /\ offset \in Nat /\ offset \in 0..Length /\ offset <= Length /\ call \in Calls
        /\ call.got = <<>> /\ result \in Results
    BY <1>1, <1>3 DEF ReadInv, ReadTypes, SoFar
  <1>5. Cache' BY <1>3 DEF ReadInv, Cache
  <1>6. CASE to > Length
    <2>a. to # Length /\ ~(to < Length) BY <1>1, <1>2, <1>6
    <2>1. Sought("past") /\ UNCHANGED <<chunk, offset, rbuf, call>> BY <1>6, <2>a DEF Seek
    <2>2. result' \in Results /\ Returned' /\ result'.err = "past" BY <1>4, <2>1, SoughtIs DEF Sought
    <2>3. ReadTypes' BY <1>3, <2>1, <2>2 DEF ReadInv, ReadTypes
    <2>4. Standing' BY <1>3, <2>1, <2>2 DEF ReadInv, Standing, Going
    <2>5. SoFar' BY <2>1 DEF ReadInv, SoFar
    <2> QED BY <1>5, <2>2, <2>3, <2>4, <2>5 DEF ReadInv
  <1>7. CASE to = Length
    <2>a. ~(to > Length) /\ ~(to < Length) BY <1>1, <1>7
    <2>1. offset' = to /\ Sought("nil") /\ UNCHANGED <<chunk, rbuf, call>> BY <1>7, <2>a DEF Seek
    <2>2. result' \in Results /\ Returned' /\ result'.err = "nil" BY <1>4, <2>1, SoughtIs DEF Sought
    <2>3. offset' \in 0..Length /\ ~(offset' < Length) BY <1>1, <1>7, <2>1
    <2>4. ReadTypes' BY <1>3, <2>1, <2>2, <2>3 DEF ReadInv, ReadTypes
    <2>5. Standing' BY <1>3, <2>1, <2>3 DEF Standing
    <2>6. SoFar' BY <1>3, <1>4, <2>1 DEF SoFar
    <2> QED BY <1>5, <2>2, <2>4, <2>5, <2>6 DEF ReadInv
  <1>8. CASE to < Length /\ Within(to)
    <2>1. PICK b : b = Reach(chunk) OBVIOUS
    <2>2. PICK q : q = ChunkOf(to) OBVIOUS
    <2>3. offset <= to /\ q + 1 = chunk /\ q \in Nat /\ to < (q + 1) * PerChunk
      BY <1>2, <1>8, <2>2, OfChunk DEF Within
    <2>4. b \in Nat /\ b <= Length /\ (chunk * PerChunk <= Length => b = chunk * PerChunk) /\ chunk * PerChunk \in Nat
      BY <1>4, <2>1, ReachIs
    <2>5. to < b BY <1>1, <1>2, <1>8, <2>1, <2>3, <2>4 DEF Reach, Least
    <2>6. offset < Length BY <1>1, <1>2, <1>4, <1>8, <2>3
    <2>7. offset <= b /\ rbuf = Bytes(offset, b) BY <1>3, <2>1, <2>6 DEF ReadInv, Standing
    <2>8. Len(rbuf) = b - offset BY <1>4, <2>4, <2>7, BytesType
    <2>9. PICK i : i = to - offset OBVIOUS
    <2>10. i \in Nat /\ i <= b - offset /\ i \in 0..Len(rbuf) /\ offset + i = to
      BY <1>2, <1>4, <2>3, <2>4, <2>5, <2>8, <2>9
    <2>11. rbuf' = Drops(rbuf, i) /\ offset' = to /\ Sought("nil") /\ UNCHANGED <<chunk, call>>
      BY <1>1, <1>2, <1>8, <2>9, <2>10 DEF Seek, Cuts
    <2>12. Drops(Bytes(offset, b), i) = Bytes(offset + i, b) BY <1>4, <2>4, <2>7, <2>10, Halves
    <2>13. rbuf' = Bytes(to, b) BY <2>7, <2>10, <2>11, <2>12
    <2>14. rbuf' \in Seq(Nat) /\ to <= b BY <1>2, <2>4, <2>5, <2>13, BytesType
    <2>15. result' \in Results /\ Returned' /\ result'.err = "nil" BY <1>4, <2>11, SoughtIs DEF Sought
    <2>16. offset' \in 0..Length BY <1>1, <1>2, <1>8, <2>11
    <2>17. ReadTypes' BY <1>3, <2>11, <2>14, <2>15, <2>16 DEF ReadInv, ReadTypes
    <2>18. Standing' BY <1>3, <2>1, <2>11, <2>13, <2>14 DEF Standing
    <2>19. SoFar' BY <1>3, <1>4, <2>11 DEF SoFar
    <2> QED BY <1>5, <2>15, <2>17, <2>18, <2>19 DEF ReadInv
  <1>9. CASE to < Length /\ ~Within(to)
    <2>1. PICK q : q = ChunkOf(to) OBVIOUS
    <2>2. q \in Nat /\ q * PerChunk <= to /\ to < (q + 1) * PerChunk BY <1>2, <2>1, OfChunk
    <2>a. ~(to > Length) /\ to # Length BY <1>1, <1>2, <1>9
    <2>3. /\ offset' = to /\ chunk' = q /\ rbuf' = <<>>
          /\ call' = [call EXCEPT !.what = "seek"] /\ UNCHANGED result
      BY <1>9, <2>a, <2>1 DEF Seek
    <2>4. call' \in Calls /\ call'.what = "seek" /\ call'.got = <<>> BY <1>4, <2>3 DEF Calls
    <2>5. offset' \in 0..Length /\ <<>> \in Seq(Nat) BY <1>1, <1>2, <1>9, <2>3, EmptySeq
    <2>6. ReadTypes' BY <1>3, <2>2, <2>3, <2>4, <2>5 DEF ReadInv, ReadTypes
    <2>7. Standing' BY <1>3, <1>9, <2>2, <2>3, <2>4 DEF Standing, Going
    <2>8. SoFar' BY <2>4 DEF SoFar
    <2>9. Returned' BY <2>3 DEF ReadInv, Returned, AllOfThem
    <2> QED BY <1>5, <2>6, <2>7, <2>8, <2>9 DEF ReadInv
  <1> QED BY <1>1, <1>2, <1>6, <1>7, <1>8, <1>9

LEMMA ArriveStep == ASSUME Sane, ReadInv, Arrive PROVE ReadInv'
  <1>1. call.what = "seek" /\ UNCHANGED offset BY DEF Arrive
  <1>2. PICK r \in Fetched :
          /\ GetChunk(r)
          /\ IF r.err = "nil" /\ ~Cuts(r.data, offset - chunk * PerChunk)
             THEN Panics /\ rbuf' = r.data /\ UNCHANGED result
             ELSE /\ rbuf' = IF r.err = "nil" THEN Drops(r.data, offset - chunk * PerChunk) ELSE r.data
                  /\ Sought(r.err) /\ call' = Idle
    BY DEF Arrive
  <1>3. PICK a : a = chunk * PerChunk OBVIOUS
  <1>4. PICK b : b = Reach(chunk + 1) OBVIOUS
  <1>5. a <= offset /\ offset < (chunk + 1) * PerChunk /\ offset < Length /\ Going
    BY <1>1, <1>3 DEF ReadInv, Standing
  <1>6. Length \in Nat \ {0} /\ PerChunk \in Nat \ {0} BY DEF Sane, ReadAssumption
  <1>7. chunk \in Nat /\ chunk + 1 \in Nat /\ offset \in Nat /\ offset \in 0..Length BY <1>6 DEF ReadInv, ReadTypes
  <1>8. a \in Nat /\ b \in Nat BY <1>3, <1>4, <1>7, ReachIs
  <1>9. chunk * PerChunk < Length BY <1>3, <1>5, <1>6, <1>7, <1>8
  <1>10. offset < b
    <2>1. b = (chunk + 1) * PerChunk \/ b = Length BY <1>4 DEF Reach, Least
    <2> QED BY <1>5, <2>1
  <1>11. /\ r.err = "nil" => r.data = Bytes(a, b)
         /\ r.err \in {"nil", "failed"} /\ (r.err = "failed" => Fails > 0) /\ r.data \in Seq(Nat)
         /\ chunk' = chunk + 1 /\ chunk' \in Nat /\ rcache' \in Cached \cup {NoChunk} /\ failed' \in Nat /\ Cache'
    BY <1>2, <1>3, <1>4, <1>9, GotChunk
  <1>12. call = [call EXCEPT !.got = <<>>] /\ [what |-> "idle", want |-> 0, got |-> <<>>] \in Calls
    BY <1>1, EmptySeq DEF ReadInv, ReadTypes, SoFar, Calls
  <1>13. CASE r.err = "nil"
    <2>1. PICK i : i = offset - a OBVIOUS
    <2>2. a <= b BY <1>5, <1>7, <1>8, <1>10
    <2>3. i \in Nat /\ i <= b - a /\ a + i = offset BY <1>5, <1>7, <1>8, <1>10, <2>1
    <2>4. r.data = Bytes(a, b) /\ Len(r.data) = b - a BY <1>8, <1>11, <1>13, <2>2, BytesType
    <2>5. i \in 0..Len(r.data) BY <1>8, <2>2, <2>3, <2>4
    <2>6. rbuf' = Drops(r.data, i) /\ Sought("nil") /\ call' = [what |-> "idle", want |-> 0, got |-> <<>>]
      BY <1>2, <1>3, <1>13, <2>1, <2>5 DEF Cuts, Idle
    <2>7. Drops(Bytes(a, b), i) = Bytes(a + i, b) BY <1>8, <2>2, <2>3, Halves
    <2>8. rbuf' = Bytes(offset, b) BY <2>3, <2>4, <2>6, <2>7
    <2>9. rbuf' \in Seq(Nat) /\ offset <= b BY <1>7, <1>8, <1>10, <2>8, BytesType
    <2>10. result' \in Results /\ Returned' /\ result'.err = "nil" BY <1>7, <2>6, SoughtIs DEF Sought
    <2>11. ReadTypes' BY <1>1, <1>7, <1>11, <1>12, <2>6, <2>9, <2>10 DEF ReadTypes
    <2>12. Standing' BY <1>1, <1>4, <1>11, <2>6, <2>8, <2>9 DEF Standing
    <2>13. SoFar' BY <2>6 DEF SoFar
    <2> QED BY <1>11, <2>10, <2>11, <2>12, <2>13 DEF ReadInv
  <1>14. CASE r.err = "failed"
    <2>1. rbuf' = r.data /\ Sought("failed") /\ call' = [what |-> "idle", want |-> 0, got |-> <<>>]
      BY <1>2, <1>14 DEF Idle
    <2>2. result' \in Results /\ Returned' /\ result'.err = "failed" BY <1>7, <2>1, SoughtIs DEF Sought
    <2>3. ReadTypes' BY <1>1, <1>7, <1>11, <1>12, <2>1, <2>2 DEF ReadTypes
    <2>4. ~Going' BY <1>11, <1>14, <2>2 DEF Sane, ReadAssumption, Going
    <2>5. Standing' BY <2>1, <2>4 DEF Standing
    <2>6. SoFar' BY <2>1 DEF SoFar
    <2> QED BY <1>11, <2>2, <2>3, <2>5, <2>6 DEF ReadInv
  <1> QED BY <1>11, <1>13, <1>14

LEMMA CloseReadStep == ASSUME Sane, ReadInv, CloseRead \/ Closed PROVE ReadInv'
  <1>1. PICK w \in {"close", "closed"} : call' = [call EXCEPT !.what = w] BY DEF CloseRead, Closed
  <1>2. UNCHANGED <<chunk, offset, rbuf, result, failed>> /\ rcache' \in {rcache, NoChunk} BY DEF CloseRead, Closed
  <1>3. call.what \in {"idle", "close"} BY DEF CloseRead, Closed, Ready
  <1>4. call \in Calls /\ call.got = <<>> BY <1>3 DEF ReadInv, ReadTypes, SoFar
  <1>5. call' \in Calls /\ call'.what = w /\ call'.got = <<>> BY <1>1, <1>4 DEF Calls
  <1>6. ReadTypes' BY <1>2, <1>5 DEF ReadInv, ReadTypes
  <1>7. Cache' BY <1>2 DEF ReadInv, Cache
  <1>8. Standing' BY <1>5 DEF Standing
  <1>9. SoFar' BY <1>5 DEF SoFar
  <1>10. Returned' BY <1>2 DEF ReadInv, Returned, AllOfThem
  <1> QED BY <1>6, <1>7, <1>8, <1>9, <1>10 DEF ReadInv

LEMMA ReadStep == ASSUME Sane, ReadInv, [ReadNext]_readVars PROVE ReadInv'
  <1>1. CASE UNCHANGED readVars
    BY <1>1 DEF readVars, ReadInv, ReadTypes, Cache, Standing, Going, SoFar, Returned, AllOfThem
  <1>2. CASE ReadNext BY <1>2, ReadStart, SeekStep, CopyStep, MoreStep, ArriveStep, ReadAheadStep, CloseReadStep DEF ReadNext
  <1> QED BY <1>1, <1>2

\* The invariant implies what the caller of Read relies on.
LEMMA ReadIsRight == ASSUME ReadInv PROVE BytesAreRight
  <1>1. RightBytes
    <2>1. PICK l : l = Len(result.got) OBVIOUS
    <2>a. result.from \in Nat /\ result.got \in Seq(Nat) BY DEF ReadInv, ReadTypes, Results
    <2>2. result.from \in Nat /\ result.got \in Seq(Nat) /\ l \in Nat BY <2>a, <2>1
    <2>3. result.got = Bytes(result.from, result.from + l) BY <2>1 DEF ReadInv, Returned
    <2>4. result.from + l \in Nat /\ result.from <= result.from + l /\ (result.from + l) - result.from = l BY <2>2
    <2>5. \A i \in 1..l : Bytes(result.from, result.from + l)[i] = result.from + i BY <2>2, <2>4, BytesType
    <2>6. DOMAIN result.got = 1..l BY <2>1, <2>2
    <2> QED BY <2>3, <2>5, <2>6 DEF RightBytes
  <1>2. AllOfThem BY DEF ReadInv, Returned
  <1>3. NoPanic BY DEF ReadInv, ReadTypes, Calls, NoPanic
  <1> QED BY <1>1, <1>2, <1>3 DEF BytesAreRight

\* Read (gridfs.go) returns the bytes at the offset where the reader stands, and all
\* that were asked for or are left, whatever was read ahead, sought or failed; and
\* neither it nor Seek cuts a buffer outside of its bounds.
THEOREM ReadingIsRight == ASSUME Sane PROVE ReadSpec => []BytesAreRight
  <1>1. ReadInit => ReadInv BY ReadInitially
  <1>2. ReadInv /\ [ReadNext]_readVars => ReadInv' BY ReadStep
  <1>3. ReadInv => BytesAreRight BY ReadIsRight
  <1> QED BY <1>1, <1>2, <1>3, PTL DEF ReadSpec

(***************************************************************************)
(* Writes: what is on its way over a socket                                *)
(***************************************************************************)

Colls == [Ids -> Nat]
Lerrs == [n : Nat, existing : BOOLEAN, upserted : Ids \cup {Nil}, err : {"", "dup", "failed", "timeout"}]
Wired == {Wire(o) : o \in Ops}
Messages == [g : Goroutines, what : {"op", "apply"}, op : Wired] \cup [g : Goroutines, what : {"getLastError"}]
Answers == [g : Goroutines, lerr : Lerrs]
Dids == [before : Colls, after : Colls]
Ongoing == [Goroutines -> Ops \cup {Nil}]

\* l is what there is to say about a call o that has done d ...
Does(o, c, x, l) == l = Changes(c, Wire(o)).lerr /\ x = Changes(c, Wire(o)).coll
Exact(o, d, l) == Does(o, d.before, d.after, l)
\* ... or that the server could not say it.
Tells(o, d, l) == l.err \in {"failed", "timeout"} \/ Exact(o, d, l)

\* Who asks for the result waits and has sent nothing after that; right before
\* is the operation, or it has been served last.
Waiting(w, i, p) ==
    p[w[i].g] # Nil /\ \A j \in DOMAIN w : j > i => w[j].g # w[i].g
Asks(w, i, p, d, l) ==
    IF i = 1 THEN Exact(p[w[i].g], d[w[i].g], l) ELSE w[i - 1] = Operation(w[i].g, p[w[i].g])
InLine(k, w, p, d, l) ==
    \A i \in DOMAIN w :
        /\ SocketOf[w[i].g] = k
        /\ w[i].what # "op" => Waiting(w, i, p)
        /\ w[i].what = "apply" => w[i].op = Wire(p[w[i].g])
        /\ w[i].what = "getLastError" => Asks(w, i, p, d, l)

\* Who is answered waits, has nothing else on the way, and gets the result.
Answered(k, w, b, p, d) ==
    \A i \in DOMAIN b :
        /\ SocketOf[b[i].g] = k /\ p[b[i].g] # Nil
        /\ Tells(p[b[i].g], d[b[i].g], b[i].lerr)
        /\ \A j \in DOMAIN w : w[j].g # b[i].g
        /\ \A j \in DOMAIN b : b[j].g = b[i].g => j = i

WriteTypes ==
    /\ coll \in Colls /\ op \in Ongoing /\ did \in [Goroutines -> Dids]
    /\ wire \in [Sockets -> Seq(Messages)] /\ back \in [Sockets -> Seq(Answers)]
    /\ last \in [Sockets -> Lerrs]
Lines == \A k \in Sockets : InLine(k, wire[k], op, did, last[k])
Owed == \A k \in Sockets : Answered(k, wire[k], back[k], op, did)
Ending ==
    done # Nil => /\ done.o \in Ops /\ done.did \in Dids
                  /\ \E l \in Lerrs : Tells(done.o, done.did, l) /\ done.result = Outcome(done.o, l)
WriteInv == WriteTypes /\ Lines /\ Owed /\ Ending

(***************************************************************************)
(* Writes: what a socket keeps                                             *)
(***************************************************************************)

LEMMA TailIs ==
  ASSUME NEW S, NEW s \in Seq(S), s # <<>>
  PROVE  /\ Head(s) = s[1] /\ Head(s) \in S /\ Tail(s) \in Seq(S) /\ 1 \in DOMAIN s
         /\ \A i \in DOMAIN Tail(s) : i \in Nat /\ i >= 1 /\ i + 1 \in DOMAIN s /\ Tail(s)[i] = s[i + 1]
  <1>1. /\ Tail(s) \in Seq(S) /\ Head(s) \in S /\ Len(Tail(s)) = Len(s) - 1 /\ Head(s) = s[1]
        /\ \A i \in 1..Len(Tail(s)) : Tail(s)[i] = s[i + 1]
    BY HeadTailProperties
  <1>2. Len(s) \in Nat /\ Len(s) > 0 /\ DOMAIN s = 1..Len(s) BY EmptySeq, LenProperties
  <1>3. DOMAIN Tail(s) = 1..Len(Tail(s)) BY <1>1, LenProperties
  <1> QED BY <1>1, <1>2, <1>3

LEMMA AppendIs ==
  ASSUME NEW S, NEW s \in Seq(S), NEW e \in S
  PROVE  /\ Append(s, e) \in Seq(S) /\ Len(s) \in Nat
         /\ \A i \in DOMAIN Append(s, e) :
               \/ i \in DOMAIN s /\ Append(s, e)[i] = s[i]
               \/ i = Len(s) + 1 /\ i \notin DOMAIN s /\ Append(s, e)[i] = e
  <1>1. /\ Append(s, e) \in Seq(S) /\ Len(Append(s, e)) = Len(s) + 1
        /\ \A i \in 1..Len(s) : Append(s, e)[i] = s[i]
        /\ Append(s, e)[Len(s) + 1] = e
    BY AppendProperties
  <1>2. Len(s) \in Nat /\ DOMAIN s = 1..Len(s) BY LenProperties
  <1>3. DOMAIN Append(s, e) = 1..(Len(s) + 1) BY <1>1, LenProperties
  <1>4. ASSUME NEW i \in DOMAIN Append(s, e)
        PROVE  \/ i \in DOMAIN s /\ Append(s, e)[i] = s[i]
               \/ i = Len(s) + 1 /\ i \notin DOMAIN s /\ Append(s, e)[i] = e
    BY <1>1, <1>2, <1>3, i \in 1..Len(s) \/ i = Len(s) + 1
  <1> QED BY <1>1, <1>2, <1>4

\* The line of a socket goes on without its first ...
LEMMA LineGoesOn ==
  ASSUME NEW k, NEW w \in Seq(Messages), w # <<>>, NEW p, NEW d, NEW l, InLine(k, w, p, d, l),
         NEW e, NEW x,
         2 \in DOMAIN w /\ w[2].what = "getLastError" => Exact(p[w[2].g], e[w[2].g], x)
  PROVE  InLine(k, Tail(w), p, e, x)
  <1>0. \A i \in DOMAIN Tail(w) : i \in Nat /\ i >= 1 /\ i + 1 \in DOMAIN w /\ Tail(w)[i] = w[i + 1]
    BY TailIs
  <1> SUFFICES ASSUME NEW i \in DOMAIN Tail(w)
               PROVE  /\ SocketOf[Tail(w)[i].g] = k
                      /\ Tail(w)[i].what # "op" => Waiting(Tail(w), i, p)
                      /\ Tail(w)[i].what = "apply" => Tail(w)[i].op = Wire(p[Tail(w)[i].g])
                      /\ Tail(w)[i].what = "getLastError" => Asks(Tail(w), i, p, e, x)
    BY DEF InLine
  <1>1. i \in Nat /\ i >= 1 /\ i + 1 \in DOMAIN w /\ Tail(w)[i] = w[i + 1] BY <1>0
  <1>2. /\ SocketOf[w[i + 1].g] = k
        /\ w[i + 1].what # "op" => Waiting(w, i + 1, p)
        /\ w[i + 1].what = "apply" => w[i + 1].op = Wire(p[w[i + 1].g])
        /\ w[i + 1].what = "getLastError" => Asks(w, i + 1, p, d, l)
    BY <1>1 DEF InLine
  <1>3. ASSUME Waiting(w, i + 1, p) PROVE Waiting(Tail(w), i, p)
    <2>1. ASSUME NEW j \in DOMAIN Tail(w), j > i PROVE Tail(w)[j].g # Tail(w)[i].g
      <3>1. j + 1 \in DOMAIN w /\ Tail(w)[j] = w[j + 1] /\ j + 1 > i + 1 BY <1>0, <1>1, <2>1
      <3> QED BY <1>1, <1>3, <3>1 DEF Waiting
    <2> QED BY <1>1, <1>3, <2>1 DEF Waiting
  <1>4. ASSUME w[i + 1].what = "getLastError", Asks(w, i + 1, p, d, l) PROVE Asks(Tail(w), i, p, e, x)
    <2>1. CASE i = 1
      <3>1. i + 1 = 2 /\ Tail(w)[1] = w[2] BY <1>1, <2>1
      <3>2. Exact(p[w[2].g], e[w[2].g], x) BY <1>1, <1>4, <3>1
      <3> QED BY <2>1, <3>1, <3>2 DEF Asks
    <2>2. CASE i # 1
      <3>1. w[i] = Operation(w[i + 1].g, p[w[i + 1].g]) BY <1>1, <1>4, <2>2 DEF Asks
      <3>2. i - 1 \in DOMAIN Tail(w)
        <4>1. DOMAIN Tail(w) = 1..Len(Tail(w)) BY TailIs, LenProperties
        <4> QED BY <1>1, <2>2, <4>1
      <3>3. Tail(w)[i - 1] = w[i] BY <1>0, <1>1, <3>2, (i - 1) + 1 = i
      <3> QED BY <1>1, <2>2, <3>1, <3>3 DEF Asks
    <2> QED BY <2>1, <2>2
  <1> QED BY <1>1, <1>2, <1>3, <1>4

\* ... and with one more behind the last, of one who has not asked for anything.
Follows(k, w, p, d, g, e, q, f) ==
    /\ g \in Goroutines /\ SocketOf[g] = k /\ e \in Messages /\ e.g = g
    /\ \A i \in DOMAIN w : w[i].what # "op" => w[i].g # g
    /\ \A h \in Goroutines : h # g => q[h] = p[h] /\ f[h] = d[h]
    /\ e.what # "op" => q[g] # Nil
    /\ e.what = "apply" => e.op = Wire(q[g])
    /\ e.what = "getLastError" => Len(w) # 0 /\ w[Len(w)] = Operation(g, q[g])

LEMMA LineGrows ==
  ASSUME NEW k, NEW w \in Seq(Messages), NEW p, NEW d, NEW l, InLine(k, w, p, d, l),
         NEW g, NEW e, NEW q, NEW f, Follows(k, w, p, d, g, e, q, f)
  PROVE  Append(w, e) \in Seq(Messages) /\ InLine(k, Append(w, e), q, f, l)
  <1>0. /\ g \in Goroutines /\ SocketOf[g] = k /\ e \in Messages /\ e.g = g
        /\ \A i \in DOMAIN w : w[i].what # "op" => w[i].g # g
        /\ \A h \in Goroutines : h # g => q[h] = p[h] /\ f[h] = d[h]
        /\ e.what # "op" => q[g] # Nil
        /\ e.what = "apply" => e.op = Wire(q[g])
        /\ e.what = "getLastError" => Len(w) # 0 /\ w[Len(w)] = Operation(g, q[g])
    BY DEF Follows
  <1>1. /\ Append(w, e) \in Seq(Messages) /\ Len(w) \in Nat /\ DOMAIN w = 1..Len(w)
        /\ \A i \in DOMAIN Append(w, e) :
              \/ i \in DOMAIN w /\ Append(w, e)[i] = w[i]
              \/ i = Len(w) + 1 /\ i \notin DOMAIN w /\ Append(w, e)[i] = e
    BY <1>0, AppendIs, LenProperties
  <1>2. \A i \in DOMAIN w : w[i] \in Messages /\ w[i].g \in Goroutines
    <2>1. ASSUME NEW i \in DOMAIN w PROVE w[i] \in Messages BY <1>1, ElementOfSeq
    <2> QED BY <2>1 DEF Messages
  <1>3. \A i \in DOMAIN Append(w, e) : i - 1 \in DOMAIN w => i - 1 \in DOMAIN Append(w, e) /\ Append(w, e)[i - 1] = w[i - 1]
    BY <1>0, <1>1, AppendProperties
  <1> SUFFICES ASSUME NEW i \in DOMAIN Append(w, e)
               PROVE  /\ SocketOf[Append(w, e)[i].g] = k
                      /\ Append(w, e)[i].what # "op" => Waiting(Append(w, e), i, q)
                      /\ Append(w, e)[i].what = "apply" => Append(w, e)[i].op = Wire(q[Append(w, e)[i].g])
                      /\ Append(w, e)[i].what = "getLastError" => Asks(Append(w, e), i, q, f, l)
    BY <1>1 DEF InLine
  <1>4. CASE i \in DOMAIN w /\ Append(w, e)[i] = w[i]
    <2>1. /\ SocketOf[w[i].g] = k
          /\ w[i].what # "op" => Waiting(w, i, p)
          /\ w[i].what = "apply" => w[i].op = Wire(p[w[i].g])
          /\ w[i].what = "getLastError" => Asks(w, i, p, d, l)
      BY <1>4 DEF InLine
    <2>2. CASE w[i].what = "op" BY <1>4, <2>1, <2>2
    <2>3. CASE w[i].what # "op"
      <3>1. w[i].g # g /\ q[w[i].g] = p[w[i].g] /\ f[w[i].g] = d[w[i].g] BY <1>0, <1>2, <1>4, <2>3
      <3>2. Waiting(Append(w, e), i, q)
        <4>1. ASSUME NEW j \in DOMAIN Append(w, e), j > i PROVE Append(w, e)[j].g # w[i].g
          <5>1. CASE j \in DOMAIN w /\ Append(w, e)[j] = w[j] BY <2>1, <2>3, <4>1, <5>1 DEF Waiting
          <5>2. CASE Append(w, e)[j] = e BY <1>0, <3>1, <5>2
          <5> QED BY <1>1, <5>1, <5>2
        <4> QED BY <1>4, <2>1, <2>3, <3>1, <4>1 DEF Waiting
      <3>3. ASSUME w[i].what = "getLastError" PROVE Asks(Append(w, e), i, q, f, l)
        <4>1. Asks(w, i, p, d, l) BY <2>1, <3>3
        <4>2. CASE i = 1 BY <1>4, <3>1, <4>1, <4>2 DEF Asks
        <4>3. CASE i # 1
          <5>1. i - 1 \in DOMAIN w BY <1>1, <1>4, <4>3
          <5>2. Append(w, e)[i - 1] = w[i - 1] BY <1>3, <5>1
          <5>3. w[i - 1] = Operation(w[i].g, p[w[i].g]) BY <4>1, <4>3 DEF Asks
          <5> QED BY <1>4, <3>1, <4>3, <5>2, <5>3 DEF Asks
        <4> QED BY <4>2, <4>3
      <3> QED BY <1>4, <2>1, <3>1, <3>2, <3>3
    <2> QED BY <2>2, <2>3
  <1>5. CASE i = Len(w) + 1 /\ i \notin DOMAIN w /\ Append(w, e)[i] = e
    <2>1. ASSUME e.what # "op" PROVE Waiting(Append(w, e), i, q)
      <3>1. \A j \in DOMAIN Append(w, e) : ~(j > i) BY <1>1, <1>5
      <3> QED BY <1>0, <1>5, <2>1, <3>1 DEF Waiting
    <2>2. ASSUME e.what = "getLastError" PROVE Asks(Append(w, e), i, q, f, l)
      <3>1. Len(w) # 0 /\ w[Len(w)] = Operation(g, q[g]) BY <1>0, <2>2
      <3>2. i # 1 /\ i - 1 = Len(w) /\ i - 1 \in DOMAIN w BY <1>1, <1>5, <3>1
      <3>3. Append(w, e)[i - 1] = w[Len(w)] BY <1>3, <3>2
      <3> QED BY <1>0, <1>5, <3>1, <3>2, <3>3 DEF Asks
    <2> QED BY <1>0, <1>5, <2>1, <2>2
  <1> QED BY <1>1, <1>4, <1>5

\* What becomes of others changes nothing.
LEMMA LineKept ==
  ASSUME NEW k, NEW w \in Seq(Messages), NEW p, NEW d, NEW l, InLine(k, w, p, d, l), NEW q, NEW f,
         \A i \in DOMAIN w : w[i].what # "op" => q[w[i].g] = p[w[i].g] /\ f[w[i].g] = d[w[i].g]
  PROVE  InLine(k, w, q, f, l)
  BY DEF InLine, Waiting, Asks

Others(v, b, p, d, q, f) ==
    \A i \in DOMAIN b : /\ q[b[i].g] = p[b[i].g] /\ f[b[i].g] = d[b[i].g]
                        /\ \A j \in DOMAIN v : v[j].g # b[i].g

LEMMA AnsweredKept ==
  ASSUME NEW k, NEW w, NEW b, NEW p, NEW d, Answered(k, w, b, p, d), NEW v, NEW q, NEW f,
         Others(v, b, p, d, q, f)
  PROVE  Answered(k, v, b, q, f)
  BY DEF Answered, Others

Fresh(k, w, b, p, d, r) ==
    /\ SocketOf[r.g] = k /\ p[r.g] # Nil /\ Tells(p[r.g], d[r.g], r.lerr)
    /\ \A j \in DOMAIN w : w[j].g # r.g
    /\ \A i \in DOMAIN b : b[i].g # r.g

LEMMA OneMoreAnswer ==
  ASSUME NEW k, NEW w, NEW b \in Seq(Answers), NEW p, NEW d, Answered(k, w, b, p, d), NEW r \in Answers,
         Fresh(k, w, b, p, d, r)
  PROVE  Append(b, r) \in Seq(Answers) /\ Answered(k, w, Append(b, r), p, d)
  <1>0. /\ SocketOf[r.g] = k /\ p[r.g] # Nil /\ Tells(p[r.g], d[r.g], r.lerr)
        /\ \A j \in DOMAIN w : w[j].g # r.g
        /\ \A i \in DOMAIN b : b[i].g # r.g
    BY DEF Fresh
  <1>1. /\ Append(b, r) \in Seq(Answers)
        /\ \A i \in DOMAIN Append(b, r) :
              \/ i \in DOMAIN b /\ Append(b, r)[i] = b[i]
              \/ i = Len(b) + 1 /\ i \notin DOMAIN b /\ Append(b, r)[i] = r
    BY AppendIs
  <1> SUFFICES ASSUME NEW i \in DOMAIN Append(b, r), NEW x, x = Append(b, r)[i]
               PROVE  /\ SocketOf[x.g] = k /\ p[x.g] # Nil
                      /\ Tells(p[x.g], d[x.g], x.lerr)
                      /\ \A j \in DOMAIN w : w[j].g # x.g
                      /\ \A j \in DOMAIN Append(b, r) : Append(b, r)[j].g = x.g => j = i
    BY <1>1 DEF Answered
  <1>2. CASE i \in DOMAIN b /\ x = b[i]
    <2>1. \A j \in DOMAIN Append(b, r) : Append(b, r)[j].g = x.g => j = i
      BY <1>0, <1>1, <1>2 DEF Answered
    <2> QED BY <1>2, <2>1 DEF Answered
  <1>3. CASE i = Len(b) + 1 /\ i \notin DOMAIN b /\ x = r BY <1>0, <1>1, <1>3
  <1> QED BY <1>1, <1>2, <1>3

LEMMA OneLessAnswer ==
  ASSUME NEW k, NEW w, NEW b \in Seq(Answers), b # <<>>, NEW p, NEW d, Answered(k, w, b, p, d), NEW q,
         \A h : h # b[1].g => q[h] = p[h]
  PROVE  Tail(b) \in Seq(Answers) /\ Answered(k, w, Tail(b), q, d)
  <1>1. /\ Tail(b) \in Seq(Answers) /\ 1 \in DOMAIN b
        /\ \A i \in DOMAIN Tail(b) : i \in Nat /\ i >= 1 /\ i + 1 \in DOMAIN b /\ Tail(b)[i] = b[i + 1]
    BY TailIs
  <1>2. ASSUME NEW i \in DOMAIN Tail(b)
        PROVE  /\ SocketOf[Tail(b)[i].g] = k /\ q[Tail(b)[i].g] # Nil
               /\ Tells(q[Tail(b)[i].g], d[Tail(b)[i].g], Tail(b)[i].lerr)
               /\ \A j \in DOMAIN w : w[j].g # Tail(b)[i].g
               /\ \A j \in DOMAIN Tail(b) : Tail(b)[j].g = Tail(b)[i].g => j = i
    <2>1. i \in Nat /\ i >= 1 /\ i + 1 \in DOMAIN b /\ Tail(b)[i] = b[i + 1] /\ 1 # i + 1 BY <1>1
    <2>2. /\ SocketOf[b[i + 1].g] = k /\ p[b[i + 1].g] # Nil
          /\ Tells(p[b[i + 1].g], d[b[i + 1].g], b[i + 1].lerr)
          /\ \A j \in DOMAIN w : w[j].g # b[i + 1].g
          /\ \A j \in DOMAIN b : b[j].g = b[i + 1].g => j = i + 1
      BY <2>1 DEF Answered
    <2>3. b[1].g # b[i + 1].g BY <1>1, <2>1, <2>2
    <2>4. q[b[i + 1].g] = p[b[i + 1].g] BY <2>3
    <2>5. ASSUME NEW j \in DOMAIN Tail(b), Tail(b)[j].g = Tail(b)[i].g PROVE j = i
      <3>1. j \in Nat /\ j + 1 \in DOMAIN b /\ Tail(b)[j] = b[j + 1] BY <1>1
      <3>2. j + 1 = i + 1 BY <2>1, <2>2, <2>5, <3>1
      <3> QED BY <2>1, <3>1, <3>2
    <2> QED BY <2>1, <2>2, <2>4, <2>5
  <1> QED BY <1>1, <1>2 DEF Answered

(***************************************************************************)
(* Writes: what an operation does                                          *)
(***************************************************************************)

LEMMA WiredIs ==
  ASSUME NEW o \in Ops
  PROVE  /\ Wire(o).docs = o.docs /\ o.docs \in Seq(Ids) /\ Wire(o).val = o.val /\ o.val \in Nat \ {0}
         /\ Wire(o).code = IF o.kind \in Inserting THEN "insert" ELSE IF o.kind \in Updating THEN "update" ELSE "delete"
         /\ Wire(o).goOn = (o.kind = "Unordered")
         /\ Wire(o).multi = (o.kind \in {"UpdateAll", "RemoveAll"})
         /\ Wire(o).upsert = (o.kind \in {"Upsert", "ApplyUpsert"})
         /\ o.kind \in Inserting \cup Updating \cup Removing
         /\ Wire(o).upsert => o.docs # <<>>
  BY WriteAssumption DEF Wire, GoesOn

LEMMA LeastIndex ==
  ASSUME NEW n \in Nat, NEW T \in SUBSET (1..n), T # {}
  PROVE  \E i \in T : \A j \in T : i <= j
  <1>1. T \subseteq Nat OBVIOUS
  <1>2. PICK i \in T : \A j \in T : ~(<<j, i>> \in OpToRel(<, Nat))
    BY <1>1, NatLessThanWellFounded, WFMin
  <1>3. ASSUME NEW j \in T PROVE i <= j
    <2>1. ~(<<j, i>> \in OpToRel(<, Nat)) BY <1>2
    <2>2. ~(j < i) BY <1>1, <2>1 DEF OpToRel
    <2> QED BY <1>1, <2>2
  <1> QED BY <1>3

LEMMA TheOneMatches ==
  ASSUME NEW c \in Colls, NEW w, w.docs \in Seq(Ids), Matching(c, w) # {}
  PROVE  TheOne(c, w) \in Matching(c, w)
  <1> DEFINE T == {k \in DOMAIN w.docs : c[w.docs[k]] # 0}
  <1>1. Len(w.docs) \in Nat /\ DOMAIN w.docs = 1..Len(w.docs) BY LenProperties
  <1>2. \A k \in DOMAIN w.docs : w.docs[k] \in Ids BY <1>1, ElementOfSeq
  <1>3. T # {} BY DEF Matching
  <1>4. PICK k \in T : \A j \in T : k <= j
    <2>1. T \in SUBSET (1..Len(w.docs)) BY <1>1
    <2> QED BY <1>1, <1>3, <2>1, LeastIndex
  <1>5. k \in DOMAIN w.docs /\ c[w.docs[k]] # 0 /\ \A j \in 1..k - 1 : c[w.docs[j]] = 0
    <2>1. ASSUME NEW j \in 1..k - 1 PROVE c[w.docs[j]] = 0
      <3>1. j \in DOMAIN w.docs /\ ~(k <= j) BY <1>1, <2>1
      <3> QED BY <1>4, <3>1
    <2> QED BY <2>1
  <1> DEFINE m == CHOOSE i \in DOMAIN w.docs : c[w.docs[i]] # 0 /\ \A j \in 1..i - 1 : c[w.docs[j]] = 0
  <1>6. m \in DOMAIN w.docs /\ c[w.docs[m]] # 0 BY <1>5
  <1>7. TheOne(c, w) = w.docs[m] BY DEF TheOne
  <1>8. w.docs[m] \in Matching(c, w) BY <1>2, <1>6 DEF Matching
  <1> QED BY <1>7, <1>8

LEMMA MatchingIsFinite ==
  ASSUME NEW c, NEW w, w.docs \in Seq(Ids)
  PROVE  IsFiniteSet(Matching(c, w))
  <1>1. Len(w.docs) \in Nat /\ DOMAIN w.docs = 1..Len(w.docs) BY LenProperties
  <1>2. IsFiniteSet(1..Len(w.docs)) BY <1>1, FS_Interval, 1 \in Int, Len(w.docs) \in Int
  <1>3. IsFiniteSet({w.docs[k] : k \in 1..Len(w.docs)})
    <2> DEFINE T == {w.docs[k] : k \in 1..Len(w.docs)}
    <2>1. [k \in 1..Len(w.docs) |-> w.docs[k]] \in Surjection(1..Len(w.docs), T) BY DEF Surjection
    <2> QED BY <1>2, <2>1, FS_Surjection
  <1>4. Matching(c, w) \subseteq {w.docs[k] : k \in 1..Len(w.docs)} BY <1>1 DEF Matching
  <1> QED BY <1>3, <1>4, FS_Subset

LEMMA ChosenIs ==
  ASSUME NEW c \in Colls, NEW w, w.docs \in Seq(Ids)
  PROVE  /\ Chosen(c, w) \subseteq Matching(c, w) /\ Cardinality(Chosen(c, w)) \in Nat
         /\ Chosen(c, w) = {} <=> Matching(c, w) = {}
         /\ Cardinality(Chosen(c, w)) = 0 <=> Matching(c, w) = {}
         /\ w.multi => Chosen(c, w) = Matching(c, w)
         /\ ~w.multi /\ Matching(c, w) # {} =>
               \E i \in Matching(c, w) : Chosen(c, w) = {i} /\ Cardinality(Chosen(c, w)) = 1
  <1>1. IsFiniteSet(Matching(c, w)) BY MatchingIsFinite
  <1>2. CASE w.multi \/ Matching(c, w) = {}
    <2>1. Chosen(c, w) = Matching(c, w) BY <1>2 DEF Chosen
    <2>2. Cardinality(Matching(c, w)) \in Nat BY <1>1, FS_CardinalityType
    <2>3. Cardinality(Matching(c, w)) = 0 <=> Matching(c, w) = {} BY <1>1, FS_EmptySet
    <2> QED BY <1>2, <2>1, <2>2, <2>3
  <1>3. CASE ~(w.multi \/ Matching(c, w) = {})
    <2>1. TheOne(c, w) \in Matching(c, w) BY <1>3, TheOneMatches
    <2>2. Chosen(c, w) = {TheOne(c, w)} BY <1>3 DEF Chosen
    <2>3. Cardinality(Chosen(c, w)) = 1 BY <2>2, FS_Singleton
    <2>4. Chosen(c, w) \subseteq Matching(c, w) /\ Chosen(c, w) # {} BY <2>1, <2>2
    <2>5. \E i \in Matching(c, w) : Chosen(c, w) = {i} /\ Cardinality(Chosen(c, w)) = 1 BY <2>1, <2>2, <2>3
    <2> QED BY <1>3, <2>3, <2>4, <2>5
  <1> QED BY <1>2, <1>3

LEMMA ChangesType ==
  ASSUME NEW c \in Colls, NEW w \in Wired
  PROVE  Changes(c, w).coll \in Colls /\ Changes(c, w).lerr \in Lerrs
  <1>1. PICK o \in Ops : w = Wire(o) BY DEF Wired
  <1>2. w.docs \in Seq(Ids) /\ w.val \in Nat /\ (w.upsert => w.docs # <<>>) BY <1>1, WiredIs
  <1>3. Cardinality(Chosen(c, w)) \in Nat BY <1>2, ChosenIs
  <1>4. w.docs # <<>> => Head(w.docs) \in Ids BY <1>2, TailIs
  <1>5. Inserts(c, w).coll \in Colls /\ Inserts(c, w).lerr \in Lerrs
    BY <1>2 DEF Inserts, Colls, Lerrs, Lerr
  <1>6. Updates(c, w).coll \in Colls /\ Updates(c, w).lerr \in Lerrs
    <2>1. CASE Matching(c, w) # {} \/ ~w.upsert BY <1>2, <1>3, <2>1 DEF Updates, Colls, Lerrs, Lerr
    <2>2. CASE ~(Matching(c, w) # {} \/ ~w.upsert) BY <1>2, <1>4, <2>2 DEF Updates, Colls, Lerrs, Lerr
    <2> QED BY <2>1, <2>2
  <1>7. Deletes(c, w).coll \in Colls /\ Deletes(c, w).lerr \in Lerrs
    BY <1>3 DEF Deletes, Colls, Lerrs, Lerr
  <1> QED BY <1>5, <1>6, <1>7 DEF Changes

(***************************************************************************)
(* Writes: every step keeps the lines                                      *)
(***************************************************************************)

LEMMA WriteInitially == WriteInit => WriteInv
  <1> SUFFICES ASSUME WriteInit PROVE WriteInv OBVIOUS
  <1>1. coll \in Colls
    <2>1. coll \in [Ids -> {0, 1}] BY DEF WriteInit
    <2>2. \A i \in Ids : coll[i] \in Nat BY <2>1
    <2> QED BY <2>1, <2>2 DEF Colls
  <1>2. WriteTypes
    BY <1>1, EmptySeq DEF WriteInit, WriteTypes, Ongoing, Dids, Lerrs, Lerr
  <1>3. \A k \in Sockets : wire[k] = <<>> /\ back[k] = <<>> BY DEF WriteInit
  <1>4. DOMAIN <<>> = {} OBVIOUS
  <1>5. Lines /\ Owed BY <1>3, <1>4 DEF Lines, Owed, InLine, Answered
  <1> QED BY <1>2, <1>5 DEF WriteInit, WriteInv, Ending

LEMMA MessagesAre ==
  ASSUME NEW w \in Seq(Messages), NEW i \in DOMAIN w
  PROVE  /\ w[i].g \in Goroutines /\ w[i].what \in {"op", "apply", "getLastError"}
         /\ w[i].what # "getLastError" => w[i].op \in Wired
  <1>1. w[i] \in Messages BY ElementOfSeq, LenProperties
  <1> QED BY <1>1 DEF Messages

\* What another socket has to do with is not touched by g, who is on k.
LEMMA Elsewhere ==
  ASSUME WriteTypes, Lines, Owed, NEW k \in Sockets, NEW h \in Sockets, h # k, NEW q, NEW f,
         \A g \in Goroutines : SocketOf[g] # k => q[g] = op[g] /\ f[g] = did[g]
  PROVE  InLine(h, wire[h], q, f, last[h]) /\ Answered(h, wire[h], back[h], q, f)
  <1>1. InLine(h, wire[h], op, did, last[h]) /\ Answered(h, wire[h], back[h], op, did) BY DEF Lines, Owed
  <1>2. wire[h] \in Seq(Messages) /\ back[h] \in Seq(Answers) BY DEF WriteTypes
  <1>3. \A i \in DOMAIN wire[h] : wire[h][i].g \in Goroutines /\ SocketOf[wire[h][i].g] = h
    BY <1>1, <1>2, MessagesAre DEF InLine
  <1>4. \A i \in DOMAIN back[h] : back[h][i].g \in Goroutines /\ SocketOf[back[h][i].g] = h
    <2>1. \A i \in DOMAIN back[h] : back[h][i] \in Answers BY <1>2, ElementOfSeq, LenProperties
    <2> QED BY <1>1, <2>1 DEF Answered, Answers
  <1>5. InLine(h, wire[h], q, f, last[h]) BY <1>1, <1>2, <1>3, LineKept
  <1>6. Others(wire[h], back[h], op, did, q, f) BY <1>1, <1>4 DEF Answered, Others
  <1>7. Answered(h, wire[h], back[h], q, f) BY <1>1, <1>6, AnsweredKept
  <1> QED BY <1>5, <1>7

LEMMA JoinOne ==
  ASSUME NEW S, NEW s \in Seq(S), NEW x \in S
  PROVE  s \o <<x>> = Append(s, x)
  OBVIOUS

LEMMA JoinTwo ==
  ASSUME NEW S, NEW s \in Seq(S), NEW x \in S, NEW y \in S
  PROVE  s \o <<x, y>> = Append(Append(s, x), y)
  OBVIOUS

LEMMA CallStep ==
  ASSUME WriteInv, NEW g \in Goroutines, Call(g)
  PROVE  WriteInv'
  <1> DEFINE k == SocketOf[g]
  <1>1. PICK o \in Ops, safe \in Safe :
           /\ op' = [op EXCEPT ![g] = IF safe \/ IsApply(o) THEN o ELSE Nil]
           /\ wire' = [wire EXCEPT ![k] = @ \o IF IsApply(o) THEN <<[Operation(g, o) EXCEPT !.what = "apply"]>>
                                              ELSE IF safe THEN Sent(g, o) ELSE <<Operation(g, o)>>]
    BY DEF Call
  <1>2. op[g] = Nil /\ did' = [did EXCEPT ![g] = [before |-> coll, after |-> coll]] /\ done' = Nil
        /\ coll' = coll /\ last' = last /\ back' = back
    BY DEF Call
  <1>3. k \in Sockets BY DEF Sockets
  <1>4. WriteTypes /\ InLine(k, wire[k], op, did, last[k]) /\ Answered(k, wire[k], back[k], op, did)
    BY <1>3 DEF WriteInv, Lines, Owed
  <1>5. wire[k] \in Seq(Messages) /\ back[k] \in Seq(Answers) BY <1>3, <1>4 DEF WriteTypes
  <1>6. /\ op' \in Ongoing /\ op'[g] = (IF safe \/ IsApply(o) THEN o ELSE Nil)
        /\ did' \in [Goroutines -> Dids]
        /\ \A h \in Goroutines : h # g => op'[h] = op[h] /\ did'[h] = did[h]
    BY <1>1, <1>2, <1>4 DEF WriteTypes, Ongoing, Dids
  <1>7. \A i \in DOMAIN wire[k] : wire[k][i].what # "op" => wire[k][i].g # g
    BY <1>2, <1>4 DEF InLine, Waiting
  <1>8. \A i \in DOMAIN back[k] : back[k][i].g \in Goroutines /\ back[k][i].g # g
    <2>1. \A i \in DOMAIN back[k] : back[k][i] \in Answers BY <1>5, ElementOfSeq, LenProperties
    <2> QED BY <1>2, <1>4, <2>1 DEF Answered, Answers
  <1>9. o # Nil BY WriteAssumption
  <1> DEFINE sends == Operation(g, o)
             applies == [Operation(g, o) EXCEPT !.what = "apply"]
  <1>10. /\ sends \in Messages /\ applies \in Messages /\ Asking(g) \in Messages
         /\ sends.g = g /\ applies.g = g /\ Asking(g).g = g
         /\ sends.what = "op" /\ applies.what = "apply" /\ Asking(g).what = "getLastError"
         /\ applies.op = Wire(o)
    BY DEF Operation, Asking, Messages, Wired
  <1>16. wire'[k] = wire[k] \o IF IsApply(o) THEN <<applies>> ELSE IF safe THEN <<sends, Asking(g)>> ELSE <<sends>>
    BY <1>1, <1>3, <1>4 DEF WriteTypes, Sent
  <1>17. sends = Operation(g, o) OBVIOUS
  <1> HIDE DEF sends, applies
  \* The line of the socket
  <1>11. /\ wire'[k] \in Seq(Messages) /\ InLine(k, wire'[k], op', did', last[k])
         /\ \A j \in DOMAIN wire'[k] : wire'[k][j].g = g \/ (j \in DOMAIN wire[k] /\ wire'[k][j] = wire[k][j])
    <2>1. CASE IsApply(o)
      <3>1. wire'[k] = Append(wire[k], applies) BY <1>5, <1>10, <1>16, <2>1, JoinOne
      <3>2. op'[g] = o BY <1>6, <2>1
      <3>5. Follows(k, wire[k], op, did, g, applies, op', did')
        BY <1>6, <1>7, <1>9, <1>10, <3>2 DEF Follows
      <3>3. Append(wire[k], applies) \in Seq(Messages) /\ InLine(k, Append(wire[k], applies), op', did', last[k])
        BY <1>4, <1>5, <3>5, LineGrows
      <3>4. \A j \in DOMAIN Append(wire[k], applies) :
               Append(wire[k], applies)[j].g = g \/ (j \in DOMAIN wire[k] /\ Append(wire[k], applies)[j] = wire[k][j])
        BY <1>5, <1>10, AppendIs
      <3> QED BY <3>1, <3>3, <3>4
    <2>2. CASE ~IsApply(o)
      <3>5. Follows(k, wire[k], op, did, g, sends, op', did')
        BY <1>6, <1>7, <1>10 DEF Follows
      <3>1. Append(wire[k], sends) \in Seq(Messages) /\ InLine(k, Append(wire[k], sends), op', did', last[k])
        BY <1>4, <1>5, <3>5, LineGrows
      <3>2. \A j \in DOMAIN Append(wire[k], sends) :
               \/ Append(wire[k], sends)[j] = sends
               \/ j \in DOMAIN wire[k] /\ Append(wire[k], sends)[j] = wire[k][j]
        BY <1>5, <1>10, AppendIs
      <3>3. CASE ~safe
        <4>1. wire'[k] = Append(wire[k], sends) BY <1>5, <1>10, <1>16, <2>2, <3>3, JoinOne
        <4> QED BY <1>10, <3>1, <3>2, <4>1
      <3>4. CASE safe
        <4> DEFINE v == Append(wire[k], sends)
        <4>1. wire'[k] = Append(v, Asking(g))
          <5>1. wire'[k] = wire[k] \o <<sends, Asking(g)>> BY <1>16, <2>2, <3>4
          <5> QED BY <1>5, <1>10, <5>1, JoinTwo
        <4>2. op'[g] = o BY <1>6, <3>4
        <4>3. Len(v) # 0 /\ v[Len(v)] = sends BY <1>5, <1>10, AppendProperties, LenProperties
        <4>4. \A i \in DOMAIN v : v[i].what # "op" => v[i].g # g BY <1>7, <1>10, <3>2
        <4>5. v \in Seq(Messages) /\ InLine(k, v, op', did', last[k]) BY <3>1
        <4>6. v[Len(v)] = Operation(g, op'[g]) BY <1>17, <4>2, <4>3
        <4> HIDE DEF v
        <4>7. Append(v, Asking(g)) \in Seq(Messages) /\ InLine(k, Append(v, Asking(g)), op', did', last[k])
          <5>1. Follows(k, v, op', did', g, Asking(g), op', did') BY <1>9, <1>10, <4>2, <4>3, <4>4, <4>6 DEF Follows
          <5> QED BY <4>5, <5>1, LineGrows
        <4>8. \A j \in DOMAIN Append(v, Asking(g)) :
                 Append(v, Asking(g))[j].g = g \/ (j \in DOMAIN v /\ Append(v, Asking(g))[j] = v[j])
          BY <1>10, <4>5, AppendIs
        <4>9. \A j \in DOMAIN v : v[j].g = g \/ (j \in DOMAIN wire[k] /\ v[j] = wire[k][j])
          BY <1>10, <3>2 DEF v
        <4> QED BY <4>1, <4>7, <4>8, <4>9
      <3> QED BY <3>3, <3>4
    <2> QED BY <2>1, <2>2
  <1>12. Answered(k, wire'[k], back[k], op', did')
    <2>1. Others(wire'[k], back[k], op, did, op', did') BY <1>4, <1>6, <1>8, <1>11 DEF Answered, Others
    <2> QED BY <1>4, <2>1, AnsweredKept
  \* The other sockets
  <1>13. ASSUME NEW h \in Sockets, h # k
         PROVE  /\ InLine(h, wire[h], op', did', last[h]) /\ Answered(h, wire[h], back[h], op', did')
                /\ wire'[h] = wire[h]
    <2>1. \A i \in Goroutines : SocketOf[i] # k => op'[i] = op[i] /\ did'[i] = did[i] BY <1>6
    <2>2. InLine(h, wire[h], op', did', last[h]) /\ Answered(h, wire[h], back[h], op', did')
      BY <1>3, <1>13, <2>1, Elsewhere DEF WriteInv
    <2> QED BY <1>1, <1>4, <1>13, <2>2 DEF WriteTypes
  <1>14. WriteTypes'
    <2>1. wire' \in [Sockets -> Seq(Messages)]
      <3>1. \A h \in Sockets : wire'[h] \in Seq(Messages) BY <1>4, <1>11, <1>13 DEF WriteTypes
      <3>2. wire' = [h \in Sockets |-> wire'[h]] BY <1>1, <1>4 DEF WriteTypes
      <3> QED BY <3>1, <3>2
    <2> QED BY <1>2, <1>4, <1>6, <2>1 DEF WriteTypes, Ongoing, Dids
  <1>15. Lines' /\ Owed' BY <1>2, <1>11, <1>12, <1>13 DEF Lines, Owed
  <1> QED BY <1>2, <1>14, <1>15 DEF WriteInv, Ending

\* What changes on one socket only, and there only for those who are on it.
LEMMA OneSocket ==
  ASSUME WriteTypes, Lines, Owed, NEW k \in Sockets,
         wire' \in [Sockets -> Seq(Messages)], back' \in [Sockets -> Seq(Answers)], last' \in [Sockets -> Lerrs],
         \A h \in Sockets : h # k => wire'[h] = wire[h] /\ back'[h] = back[h] /\ last'[h] = last[h],
         \A g \in Goroutines : SocketOf[g] # k => op'[g] = op[g] /\ did'[g] = did[g],
         InLine(k, wire'[k], op', did', last'[k]), Answered(k, wire'[k], back'[k], op', did')
  PROVE  Lines' /\ Owed'
  <1>1. ASSUME NEW h \in Sockets
        PROVE  InLine(h, wire'[h], op', did', last'[h]) /\ Answered(h, wire'[h], back'[h], op', did')
    <2>1. CASE h = k BY <2>1
    <2>2. CASE h # k
      <3>1. InLine(h, wire[h], op', did', last[h]) /\ Answered(h, wire[h], back[h], op', did')
        BY <2>2, Elsewhere
      <3> QED BY <2>2, <3>1
    <2> QED BY <2>1, <2>2
  <1> QED BY <1>1 DEF Lines, Owed

LEMMA AnswersAre ==
  ASSUME NEW b \in Seq(Answers), NEW i \in DOMAIN b
  PROVE  b[i].g \in Goroutines /\ b[i].lerr \in Lerrs
  <1>1. b[i] \in Answers BY ElementOfSeq, LenProperties
  <1> QED BY <1>1 DEF Answers

\* The operation at the head of a line is served.
LEMMA ServeOperation ==
  ASSUME WriteInv, NEW k \in Sockets, wire[k] # <<>>, NEW m, m = Head(wire[k]), m.what \in {"op", "apply"}
  PROVE  /\ m.g \in Goroutines /\ SocketOf[m.g] = k /\ m.op \in Wired
         /\ Changes(coll, m.op).coll \in Colls /\ Changes(coll, m.op).lerr \in Lerrs
         /\ [did EXCEPT ![m.g] = [before |-> coll, after |-> Changes(coll, m.op).coll]] \in [Goroutines -> Dids]
         /\ [did EXCEPT ![m.g] = [before |-> coll, after |-> Changes(coll, m.op).coll]][m.g]
               = [before |-> coll, after |-> Changes(coll, m.op).coll]
         /\ \A h \in Goroutines : h # m.g =>
               [did EXCEPT ![m.g] = [before |-> coll, after |-> Changes(coll, m.op).coll]][h] = did[h]
  <1>1. wire[k] \in Seq(Messages) /\ coll \in Colls /\ did \in [Goroutines -> Dids] BY DEF WriteInv, WriteTypes
  <1>2. 1 \in DOMAIN wire[k] /\ wire[k][1] = m BY <1>1, TailIs
  <1>3. m.g \in Goroutines /\ m.op \in Wired BY <1>1, <1>2, MessagesAre
  <1>4. SocketOf[m.g] = k BY <1>2 DEF WriteInv, Lines, InLine
  <1>5. Changes(coll, m.op).coll \in Colls /\ Changes(coll, m.op).lerr \in Lerrs BY <1>1, <1>3, ChangesType
  <1>6. [before |-> coll, after |-> Changes(coll, m.op).coll] \in Dids BY <1>1, <1>5 DEF Dids
  <1> QED BY <1>1, <1>3, <1>4, <1>5, <1>6

LEMMA ServeStep ==
  ASSUME WriteInv, NEW k \in Sockets, Serve(k)
  PROVE  WriteInv'
  <1>1. PICK m : m = Head(wire[k]) OBVIOUS
  <1>2. PICK c : c = Changes(coll, m.op) OBVIOUS
  <1>3. wire[k] # <<>> /\ wire' = [wire EXCEPT ![k] = Tail(@)] /\ done' = Nil /\ op' = op BY DEF Serve
  <1>4. /\ WriteTypes /\ Lines /\ Owed /\ InLine(k, wire[k], op, did, last[k])
        /\ Answered(k, wire[k], back[k], op, did)
    BY DEF WriteInv, Lines, Owed
  <1>5. wire[k] \in Seq(Messages) /\ back[k] \in Seq(Answers) BY <1>4 DEF WriteTypes
  <1>6. /\ m = wire[k][1] /\ 1 \in DOMAIN wire[k] /\ Tail(wire[k]) \in Seq(Messages)
        /\ \A j \in DOMAIN Tail(wire[k]) : j \in Nat /\ j >= 1 /\ j + 1 \in DOMAIN wire[k] /\ Tail(wire[k])[j] = wire[k][j + 1]
    BY <1>1, <1>3, <1>5, TailIs
  <1>7. m.g \in Goroutines /\ SocketOf[m.g] = k /\ m.what \in {"op", "apply", "getLastError"}
    BY <1>4, <1>5, <1>6, MessagesAre DEF InLine
  <1>8. /\ wire' \in [Sockets -> Seq(Messages)] /\ wire'[k] = Tail(wire[k])
        /\ \A h \in Sockets : h # k => wire'[h] = wire[h]
    BY <1>3, <1>4, <1>6 DEF WriteTypes
  <1>9. 2 \in DOMAIN wire[k] /\ wire[k][2].what = "getLastError" =>
           m = Operation(wire[k][2].g, op[wire[k][2].g])
    BY <1>4, <1>6 DEF InLine, Asks
  <1>10. \A i \in DOMAIN back[k] : back[k][i].g # m.g BY <1>4, <1>6 DEF Answered
  <1>11. \A i \in DOMAIN back[k] : \A j \in DOMAIN Tail(wire[k]) : Tail(wire[k])[j].g # back[k][i].g
    BY <1>4, <1>6 DEF Answered
  <1>12. \A i \in DOMAIN back[k] : back[k][i].g \in Goroutines BY <1>5, AnswersAre
  <1>13. ASSUME m.what # "op" PROVE op[m.g] # Nil /\ \A j \in DOMAIN Tail(wire[k]) : Tail(wire[k])[j].g # m.g
    BY <1>4, <1>6, <1>13 DEF InLine, Waiting
  <1>14. CASE m.what = "op"
    <2>1. /\ coll' = c.coll /\ last' = [last EXCEPT ![k] = c.lerr] /\ back' = back
          /\ did' = [did EXCEPT ![m.g] = [before |-> coll, after |-> c.coll]]
      BY <1>1, <1>2, <1>14 DEF Serve
    <2>2. /\ c.coll \in Colls /\ c.lerr \in Lerrs /\ did' \in [Goroutines -> Dids]
          /\ did'[m.g] = [before |-> coll, after |-> c.coll]
          /\ \A h \in Goroutines : h # m.g => did'[h] = did[h]
      BY <1>1, <1>2, <1>3, <1>14, <2>1, ServeOperation
    <2>3. /\ last' \in [Sockets -> Lerrs] /\ last'[k] = c.lerr
          /\ \A h \in Sockets : h # k => last'[h] = last[h]
      BY <1>4, <2>1, <2>2 DEF WriteTypes
    <2>4. ASSUME 2 \in DOMAIN wire[k], wire[k][2].what = "getLastError"
          PROVE  Exact(op[wire[k][2].g], did'[wire[k][2].g], c.lerr)
      <3>1. m = Operation(wire[k][2].g, op[wire[k][2].g]) BY <1>9, <2>4
      <3>2. m.g = wire[k][2].g /\ m.op = Wire(op[m.g]) BY <3>1 DEF Operation
      <3>3. Exact(op[m.g], did'[m.g], c.lerr) BY <1>2, <2>2, <3>2 DEF Exact, Does
      <3> QED BY <3>2, <3>3
    <2>5. InLine(k, Tail(wire[k]), op, did', c.lerr) BY <1>3, <1>4, <1>5, <2>4, LineGoesOn
    <2>6. Answered(k, Tail(wire[k]), back[k], op, did')
      <3>1. Others(Tail(wire[k]), back[k], op, did, op, did') BY <1>10, <1>11, <1>12, <2>2 DEF Others
      <3> QED BY <1>4, <3>1, AnsweredKept
    <2>7. InLine(k, wire'[k], op', did', last'[k]) /\ Answered(k, wire'[k], back'[k], op', did')
      BY <1>3, <1>8, <2>1, <2>3, <2>5, <2>6
    <2>8. back' \in [Sockets -> Seq(Answers)] /\ \A h \in Sockets : h # k => wire'[h] = wire[h] /\ back'[h] = back[h] /\ last'[h] = last[h]
      BY <1>4, <1>8, <2>1, <2>3 DEF WriteTypes
    <2>9. \A g \in Goroutines : SocketOf[g] # k => op'[g] = op[g] /\ did'[g] = did[g] BY <1>3, <1>7, <2>2
    <2>10. Lines' /\ Owed' BY <1>4, <1>8, <2>3, <2>7, <2>8, <2>9, OneSocket
    <2>11. WriteTypes' BY <1>3, <1>4, <1>8, <2>1, <2>2, <2>3, <2>8 DEF WriteTypes
    <2> QED BY <1>3, <2>10, <2>11 DEF WriteInv, Ending
  <1>15. CASE m.what = "getLastError"
    <2>1. coll' = coll /\ last' = last /\ did' = did BY <1>1, <1>15 DEF Serve
    <2>2. PICK l \in Lerrs : /\ back' = [back EXCEPT ![k] = Append(@, [g |-> m.g, lerr |-> l])]
                             /\ l = last[k] \/ l.err \in {"failed", "timeout"}
      <3>1. last[k] \in Lerrs BY <1>4 DEF WriteTypes
      <3>2. Lerr(0, FALSE, Nil, "failed") \in Lerrs /\ Lerr(0, FALSE, Nil, "failed").err = "failed" BY DEF Lerr, Lerrs
      <3>3. [last[k] EXCEPT !.err = "timeout"] \in Lerrs /\ [last[k] EXCEPT !.err = "timeout"].err = "timeout"
        BY <3>1 DEF Lerrs
      <3>4. \/ back' = [back EXCEPT ![k] = Append(@, [g |-> m.g, lerr |-> last[k]])]
            \/ back' = [back EXCEPT ![k] = Append(@, [g |-> m.g, lerr |-> Lerr(0, FALSE, Nil, "failed")])]
            \/ back' = [back EXCEPT ![k] = Append(@, [g |-> m.g, lerr |-> [last[k] EXCEPT !.err = "timeout"]])]
        BY <1>1, <1>15 DEF Serve
      <3> QED BY <3>1, <3>2, <3>3, <3>4
    <2>3. PICK r : r = [g |-> m.g, lerr |-> l] OBVIOUS
    <2>4. r \in Answers /\ r.g = m.g /\ r.lerr = l BY <1>7, <2>3 DEF Answers
    <2>5. Exact(op[m.g], did[m.g], last[k])
      <3>1. Asks(wire[k], 1, op, did, last[k]) BY <1>4, <1>6, <1>15 DEF InLine
      <3> QED BY <1>6, <3>1 DEF Asks
    <2>6. Tells(op[r.g], did[r.g], r.lerr) BY <2>2, <2>4, <2>5 DEF Tells
    <2>7. ~(2 \in DOMAIN wire[k] /\ wire[k][2].what = "getLastError") BY <1>9, <1>15 DEF Operation
    <2>8. InLine(k, Tail(wire[k]), op, did, last[k]) BY <1>3, <1>4, <1>5, <2>7, LineGoesOn
    <2>9. Answered(k, Tail(wire[k]), back[k], op, did)
      <3>1. Others(Tail(wire[k]), back[k], op, did, op, did) BY <1>11 DEF Others
      <3> QED BY <1>4, <3>1, AnsweredKept
    <2>10. Append(back[k], r) \in Seq(Answers) /\ Answered(k, Tail(wire[k]), Append(back[k], r), op, did)
      <3>1. Fresh(k, Tail(wire[k]), back[k], op, did, r)
        BY <1>7, <1>10, <1>13, <1>15, <2>4, <2>6 DEF Fresh
      <3> QED BY <1>5, <2>4, <2>9, <3>1, OneMoreAnswer
    <2>11. /\ back' \in [Sockets -> Seq(Answers)] /\ back'[k] = Append(back[k], r)
           /\ \A h \in Sockets : h # k => back'[h] = back[h]
      BY <1>4, <2>2, <2>3, <2>10 DEF WriteTypes
    <2>12. InLine(k, wire'[k], op', did', last'[k]) /\ Answered(k, wire'[k], back'[k], op', did')
      BY <1>3, <1>8, <2>1, <2>8, <2>10, <2>11
    <2>13. /\ \A h \in Sockets : h # k => wire'[h] = wire[h] /\ back'[h] = back[h] /\ last'[h] = last[h]
           /\ \A g \in Goroutines : SocketOf[g] # k => op'[g] = op[g] /\ did'[g] = did[g]
           /\ last' \in [Sockets -> Lerrs]
      BY <1>3, <1>4, <1>8, <2>1, <2>11 DEF WriteTypes
    <2>14. Lines' /\ Owed' BY <1>4, <1>8, <2>11, <2>12, <2>13, OneSocket
    <2>15. WriteTypes' BY <1>3, <1>4, <1>8, <2>1, <2>11 DEF WriteTypes
    <2> QED BY <1>3, <2>14, <2>15 DEF WriteInv, Ending
  <1>16. CASE m.what = "apply"
    <2>1. /\ coll' = c.coll /\ last' = [last EXCEPT ![k] = Lerr(0, FALSE, Nil, "")]
          /\ did' = [did EXCEPT ![m.g] = [before |-> coll, after |-> c.coll]]
          /\ back' = [back EXCEPT ![k] = Append(@, [g |-> m.g, lerr |-> c.lerr])]
      BY <1>1, <1>2, <1>16 DEF Serve
    <2>2. /\ c.coll \in Colls /\ c.lerr \in Lerrs /\ did' \in [Goroutines -> Dids]
          /\ did'[m.g] = [before |-> coll, after |-> c.coll]
          /\ \A h \in Goroutines : h # m.g => did'[h] = did[h]
      BY <1>1, <1>2, <1>3, <1>16, <2>1, ServeOperation
    <2>3. /\ last' \in [Sockets -> Lerrs] /\ \A h \in Sockets : h # k => last'[h] = last[h]
      <3>1. Lerr(0, FALSE, Nil, "") \in Lerrs BY DEF Lerr, Lerrs
      <3> QED BY <1>4, <2>1, <3>1 DEF WriteTypes
    <2>4. PICK r : r = [g |-> m.g, lerr |-> c.lerr] OBVIOUS
    <2>5. r \in Answers /\ r.g = m.g /\ r.lerr = c.lerr BY <1>7, <2>2, <2>4 DEF Answers
    <2>6. Tells(op[r.g], did'[r.g], r.lerr)
      <3>1. m.op = Wire(op[m.g]) BY <1>4, <1>6, <1>16 DEF InLine
      <3> QED BY <1>2, <2>2, <2>5, <3>1 DEF Tells, Exact, Does
    <2>7. ~(2 \in DOMAIN wire[k] /\ wire[k][2].what = "getLastError") BY <1>9, <1>16 DEF Operation
    <2>8. InLine(k, Tail(wire[k]), op, did', last'[k]) BY <1>3, <1>4, <1>5, <2>7, LineGoesOn
    <2>9. Answered(k, Tail(wire[k]), back[k], op, did')
      <3>1. Others(Tail(wire[k]), back[k], op, did, op, did') BY <1>10, <1>11, <1>12, <2>2 DEF Others
      <3> QED BY <1>4, <3>1, AnsweredKept
    <2>10. Append(back[k], r) \in Seq(Answers) /\ Answered(k, Tail(wire[k]), Append(back[k], r), op, did')
      <3>1. Fresh(k, Tail(wire[k]), back[k], op, did', r)
        BY <1>7, <1>10, <1>13, <1>16, <2>5, <2>6 DEF Fresh
      <3> QED BY <1>5, <2>5, <2>9, <3>1, OneMoreAnswer
    <2>11. /\ back' \in [Sockets -> Seq(Answers)] /\ back'[k] = Append(back[k], r)
           /\ \A h \in Sockets : h # k => back'[h] = back[h]
      BY <1>4, <2>1, <2>4, <2>10 DEF WriteTypes
    <2>12. InLine(k, wire'[k], op', did', last'[k]) /\ Answered(k, wire'[k], back'[k], op', did')
      BY <1>3, <1>8, <2>8, <2>10, <2>11
    <2>13. /\ \A h \in Sockets : h # k => wire'[h] = wire[h] /\ back'[h] = back[h] /\ last'[h] = last[h]
           /\ \A g \in Goroutines : SocketOf[g] # k => op'[g] = op[g] /\ did'[g] = did[g]
      BY <1>3, <1>7, <1>8, <2>2, <2>3, <2>11
    <2>14. Lines' /\ Owed' BY <1>4, <1>8, <2>3, <2>11, <2>12, <2>13, OneSocket
    <2>15. WriteTypes' BY <1>3, <1>4, <1>8, <2>1, <2>2, <2>3, <2>11 DEF WriteTypes
    <2> QED BY <1>3, <2>14, <2>15 DEF WriteInv, Ending
  <1> QED BY <1>7, <1>14, <1>15, <1>16

LEMMA ReadReplyStep ==
  ASSUME WriteInv, NEW k \in Sockets, ReadReply(k)
  PROVE  WriteInv'
  <1>1. PICK r : r = Head(back[k]) OBVIOUS
  <1>2. /\ WriteTypes /\ Lines /\ Owed /\ InLine(k, wire[k], op, did, last[k])
        /\ Answered(k, wire[k], back[k], op, did)
    BY DEF WriteInv, Lines, Owed
  <1>3. /\ back[k] # <<>> /\ back' = [back EXCEPT ![k] = Tail(@)] /\ op' = [op EXCEPT ![r.g] = Nil]
        /\ coll' = coll /\ wire' = wire /\ last' = last /\ did' = did
        /\ done' = [g |-> r.g, o |-> op[r.g], result |-> Outcome(op[r.g], r.lerr), did |-> did[r.g]]
    BY <1>1 DEF ReadReply, Return
  <1>4. wire[k] \in Seq(Messages) /\ back[k] \in Seq(Answers) BY <1>2 DEF WriteTypes
  <1>5. 1 \in DOMAIN back[k] /\ r = back[k][1] /\ Tail(back[k]) \in Seq(Answers) BY <1>1, <1>3, <1>4, TailIs
  <1>6. r.g \in Goroutines /\ r.lerr \in Lerrs BY <1>4, <1>5, AnswersAre
  <1>7. SocketOf[r.g] = k /\ op[r.g] # Nil /\ Tells(op[r.g], did[r.g], r.lerr) /\ \A j \in DOMAIN wire[k] : wire[k][j].g # r.g
    BY <1>2, <1>5 DEF Answered
  <1>8. op' \in Ongoing /\ op'[r.g] = Nil /\ \A h : h # r.g => op'[h] = op[h]
    <2>1. op \in Ongoing BY <1>2 DEF WriteTypes
    <2>2. op' \in Ongoing /\ op'[r.g] = Nil /\ DOMAIN op = Goroutines BY <1>3, <1>6, <2>1 DEF Ongoing
    <2> QED BY <1>3, <2>2
  <1>9. InLine(k, wire[k], op', did, last[k])
    <2>1. \A i \in DOMAIN wire[k] : wire[k][i].what # "op" => op'[wire[k][i].g] = op[wire[k][i].g] /\ did[wire[k][i].g] = did[wire[k][i].g]
      BY <1>7, <1>8
    <2> QED BY <1>2, <1>4, <2>1, LineKept
  <1>10. Answered(k, wire[k], Tail(back[k]), op', did)
    <2>1. \A h : h # back[k][1].g => op'[h] = op[h] BY <1>5, <1>8
    <2> QED BY <1>2, <1>3, <1>4, <2>1, OneLessAnswer
  <1>11. /\ back' \in [Sockets -> Seq(Answers)] /\ back'[k] = Tail(back[k])
         /\ \A h \in Sockets : h # k => back'[h] = back[h]
    BY <1>2, <1>3, <1>5 DEF WriteTypes
  <1>12. InLine(k, wire'[k], op', did', last'[k]) /\ Answered(k, wire'[k], back'[k], op', did')
    BY <1>3, <1>9, <1>10, <1>11
  <1>13. /\ \A h \in Sockets : h # k => wire'[h] = wire[h] /\ back'[h] = back[h] /\ last'[h] = last[h]
         /\ \A g \in Goroutines : SocketOf[g] # k => op'[g] = op[g] /\ did'[g] = did[g]
         /\ wire' \in [Sockets -> Seq(Messages)] /\ last' \in [Sockets -> Lerrs]
    BY <1>2, <1>3, <1>7, <1>8, <1>11 DEF WriteTypes
  <1>14. Lines' /\ Owed' BY <1>2, <1>11, <1>12, <1>13, OneSocket
  <1>15. WriteTypes' BY <1>2, <1>3, <1>8, <1>11, <1>13 DEF WriteTypes
  <1>16. Ending'
    <2>1. op[r.g] \in Ops /\ did[r.g] \in Dids BY <1>2, <1>6, <1>7 DEF WriteTypes, Ongoing
    <2>2. done'.o = op[r.g] /\ done'.did = did[r.g] /\ done'.result = Outcome(op[r.g], r.lerr) BY <1>3
    <2> QED BY <1>6, <1>7, <2>1, <2>2 DEF Ending
  <1> QED BY <1>14, <1>15, <1>16 DEF WriteInv

LEMMA DieStep ==
  ASSUME WriteInv, NEW k \in Sockets, Die(k)
  PROVE  WriteInv'
  <1>1. /\ WriteTypes /\ Lines /\ Owed /\ DOMAIN <<>> = {} BY DEF WriteInv
  <1>2. /\ wire' = [wire EXCEPT ![k] = <<>>] /\ back' = [back EXCEPT ![k] = <<>>]
        /\ last' = [last EXCEPT ![k] = Lerr(0, FALSE, Nil, "")]
        /\ op' = [g \in Goroutines |-> IF SocketOf[g] = k THEN Nil ELSE op[g]]
        /\ done' = Nil /\ coll' = coll /\ did' = did
    BY DEF Die
  <1>3. Lerr(0, FALSE, Nil, "") \in Lerrs BY DEF Lerr, Lerrs
  <1>4. <<>> \in Seq(Messages) /\ <<>> \in Seq(Answers) BY EmptySeq
  <1>5. /\ wire' \in [Sockets -> Seq(Messages)] /\ back' \in [Sockets -> Seq(Answers)] /\ last' \in [Sockets -> Lerrs]
        /\ \A h \in Sockets : h # k => wire'[h] = wire[h] /\ back'[h] = back[h] /\ last'[h] = last[h]
        /\ wire'[k] = <<>> /\ back'[k] = <<>>
    BY <1>1, <1>2, <1>3, <1>4 DEF WriteTypes
  <1>6. \A g \in Goroutines : SocketOf[g] # k => op'[g] = op[g] /\ did'[g] = did[g] BY <1>2
  <1>7. InLine(k, wire'[k], op', did', last'[k]) /\ Answered(k, wire'[k], back'[k], op', did')
    BY <1>1, <1>5 DEF InLine, Answered
  <1>8. Lines' /\ Owed' BY <1>1, <1>5, <1>6, <1>7, OneSocket
  <1>9. op' \in Ongoing BY <1>1, <1>2 DEF WriteTypes, Ongoing
  <1>10. WriteTypes' BY <1>1, <1>2, <1>5, <1>9 DEF WriteTypes
  <1> QED BY <1>2, <1>8, <1>10 DEF WriteInv, Ending

LEMMA WriteInvariant == WriteSpec => []WriteInv
  <1>1. ASSUME WriteInv, [WriteNext]_writeVars PROVE WriteInv'
    <2>1. CASE UNCHANGED writeVars
      BY <1>1, <2>1 DEF writeVars, WriteInv, WriteTypes, Lines, Owed, Ending
    <2>2. ASSUME NEW g \in Goroutines, Call(g) PROVE WriteInv' BY <1>1, <2>2, CallStep
    <2>3. ASSUME NEW k \in Sockets, Serve(k) PROVE WriteInv' BY <1>1, <2>3, ServeStep
    <2>4. ASSUME NEW k \in Sockets, ReadReply(k) PROVE WriteInv' BY <1>1, <2>4, ReadReplyStep
    <2>5. ASSUME NEW k \in Sockets, Die(k) PROVE WriteInv' BY <1>1, <2>5, DieStep
    <2> QED BY <1>1, <2>1, <2>2, <2>3, <2>4, <2>5 DEF WriteNext
  <1> QED BY <1>1, WriteInitially, PTL DEF WriteSpec

(***************************************************************************)
(* Writes: the results are right                                           *)
(***************************************************************************)

\* Whether there was a document
Had(l) == l.existing

\* The documents that a call is about
Found(c, o) == {i \in Ids : c[i] # 0 /\ \E k \in DOMAIN o.docs : o.docs[k] = i}

\* What an insertion makes of the collection, and says
InsertsRight(o, c, x, l) ==
    /\ l.err \in {"", "dup"}
    /\ l.err = "" => \A k \in DOMAIN o.docs : c[o.docs[k]] = 0 /\ x[o.docs[k]] # 0
    /\ l.err = "dup" => \E k \in DOMAIN o.docs : c[o.docs[k]] # 0 \/ \E j \in 1..k - 1 : o.docs[j] = o.docs[k]
    /\ o.kind = "Unordered" => \A k \in DOMAIN o.docs : x[o.docs[k]] # 0
    /\ o.kind # "Unordered" =>
          \A k \in DOMAIN o.docs :
             x[o.docs[k]] # 0 <=>
                \/ c[o.docs[k]] # 0
                \/ \E m \in DOMAIN o.docs :
                      /\ o.docs[m] = o.docs[k]
                      /\ \A j \in 1..m : c[o.docs[j]] = 0 /\ ~\E h \in 1..j - 1 : o.docs[h] = o.docs[j]

LEMMA InsertsIs ==
  ASSUME NEW o \in Ops, o.kind \in Inserting, NEW c \in Colls,
         NEW x, NEW l, Does(o, c, x, l)
  PROVE  InsertsRight(o, c, x, l)
  <1> DEFINE w == Wire(o)
  <1>1. /\ w.docs = o.docs /\ o.docs \in Seq(Ids) /\ w.val = o.val /\ o.val \in Nat \ {0}
        /\ w.code = "insert" /\ w.goOn = (o.kind = "Unordered")
    BY WiredIs
  <1> HIDE DEF w
  <1>2. /\ x = [i \in Ids |-> IF Enters(c, w, i) THEN o.val ELSE c[i]]
        /\ l.err = IF \E k \in DOMAIN o.docs : Refused(c, w, k) THEN "dup" ELSE ""
    BY <1>1 DEF w, Does, Changes, Inserts, Lerr
  <1>3. Len(o.docs) \in Nat /\ DOMAIN o.docs = 1..Len(o.docs) /\ \A k \in DOMAIN o.docs : o.docs[k] \in Ids
    BY <1>1, LenProperties, ElementOfSeq
  <1>4. \A k : Refused(c, w, k) <=> (c[o.docs[k]] # 0 \/ \E j \in 1..k - 1 : o.docs[j] = o.docs[k])
    BY <1>1 DEF Refused
  <1>5. \A k \in DOMAIN o.docs : x[o.docs[k]] # 0 <=> (c[o.docs[k]] # 0 \/ Enters(c, w, o.docs[k]))
    BY <1>1, <1>2, <1>3
  <1>6. \A i : Enters(c, w, i) <=>
                  \E k \in DOMAIN o.docs : /\ o.docs[k] = i /\ ~Refused(c, w, k)
                                           /\ o.kind = "Unordered" \/ \A j \in 1..k - 1 : ~Refused(c, w, j)
    BY <1>1 DEF Enters
  <1>7. ASSUME l.err = "", NEW k \in DOMAIN o.docs PROVE c[o.docs[k]] = 0 /\ x[o.docs[k]] # 0
    <2>1. \A j \in DOMAIN o.docs : ~Refused(c, w, j) BY <1>2, <1>7
    <2>2. c[o.docs[k]] = 0 BY <1>4, <2>1
    <2>3. \A j \in 1..k - 1 : j \in DOMAIN o.docs BY <1>3
    <2>4. Enters(c, w, o.docs[k]) BY <1>6, <2>1, <2>3
    <2> QED BY <1>5, <2>2, <2>4
  <1>8. l.err = "dup" => \E k \in DOMAIN o.docs : c[o.docs[k]] # 0 \/ \E j \in 1..k - 1 : o.docs[j] = o.docs[k]
    BY <1>2, <1>4
  <1>9. ASSUME o.kind = "Unordered", NEW k \in DOMAIN o.docs PROVE x[o.docs[k]] # 0
    <2>1. PICK m \in {j \in DOMAIN o.docs : o.docs[j] = o.docs[k]} : \A j \in {j \in DOMAIN o.docs : o.docs[j] = o.docs[k]} : m <= j
      <3>1. {j \in DOMAIN o.docs : o.docs[j] = o.docs[k]} \in SUBSET (1..Len(o.docs)) BY <1>3
      <3>2. {j \in DOMAIN o.docs : o.docs[j] = o.docs[k]} # {} OBVIOUS
      <3> QED BY <1>3, <3>1, <3>2, LeastIndex
    <2>2. m \in DOMAIN o.docs /\ o.docs[m] = o.docs[k] BY <2>1
    <2>3. \A j \in 1..m - 1 : o.docs[j] # o.docs[m]
      <3>1. \A j \in 1..m - 1 : j \in DOMAIN o.docs /\ ~(m <= j) BY <1>3, <2>2
      <3> QED BY <2>1, <2>2, <3>1
    <2>4. c[o.docs[k]] = 0 => ~Refused(c, w, m) BY <1>4, <2>2, <2>3
    <2>5. c[o.docs[k]] = 0 => Enters(c, w, o.docs[k]) BY <1>6, <1>9, <2>2, <2>4
    <2> QED BY <1>5, <2>5
  <1>10. ASSUME o.kind # "Unordered"
         PROVE  \A k \in DOMAIN o.docs :
                  x[o.docs[k]] # 0 <=>
                     \/ c[o.docs[k]] # 0
                     \/ \E m \in DOMAIN o.docs :
                           /\ o.docs[m] = o.docs[k]
                           /\ \A j \in 1..m : c[o.docs[j]] = 0 /\ ~\E h \in 1..j - 1 : o.docs[h] = o.docs[j]
    <2>1. \A m \in DOMAIN o.docs : (~Refused(c, w, m) /\ \A j \in 1..m - 1 : ~Refused(c, w, j)) <=> \A j \in 1..m : ~Refused(c, w, j)
      <3>1. \A m \in DOMAIN o.docs : m \in 1..m /\ \A j \in 1..m : j = m \/ j \in 1..m - 1 BY <1>3
      <3>2. \A m \in DOMAIN o.docs : \A j \in 1..m - 1 : j \in 1..m BY <1>3
      <3> QED BY <3>1, <3>2
    <2>2. \A i : Enters(c, w, i) <=> \E m \in DOMAIN o.docs : o.docs[m] = i /\ \A j \in 1..m : ~Refused(c, w, j)
      BY <1>6, <1>10, <2>1
    <2>3. \A j : ~Refused(c, w, j) <=> (c[o.docs[j]] = 0 /\ ~\E h \in 1..j - 1 : o.docs[h] = o.docs[j]) BY <1>4
    <2> QED BY <1>5, <2>2, <2>3
  <1> QED BY <1>2, <1>7, <1>8, <1>9, <1>10 DEF InsertsRight

\* What an update makes of the collection, and says
UpdatesRight(o, c, x, l) ==
    /\ l.err = ""
    /\ o.kind \in {"Update", "Apply"} =>
          /\ Found(c, o) = {} => l.n = 0 /\ ~Had(l) /\ x = c
          /\ Found(c, o) # {} => l.n = 1 /\ Had(l) /\ \E i \in Found(c, o) : x = [c EXCEPT ![i] = o.val]
    /\ o.kind = "UpdateAll" => l.n = Cardinality(Found(c, o))
    /\ o.kind \in {"Upsert", "ApplyUpsert"} =>
          /\ Found(c, o) = {} => /\ l.n = 1 /\ ~Had(l) /\ l.upserted \in Ids
                       /\ c[l.upserted] = 0 /\ x[l.upserted] # 0
          /\ Found(c, o) # {} => l.n = 1 /\ Had(l) /\ l.upserted = Nil

LEMMA UpdatesIs ==
  ASSUME NEW o \in Ops, o.kind \in Updating, NEW c \in Colls,
         NEW x, NEW l, Does(o, c, x, l)
  PROVE  UpdatesRight(o, c, x, l)
  <1> DEFINE w == Wire(o)
  <1>1. /\ w.docs = o.docs /\ o.docs \in Seq(Ids) /\ w.val = o.val /\ o.val \in Nat \ {0}
        /\ w.code = "update" /\ w.multi = (o.kind \in {"UpdateAll", "RemoveAll"})
        /\ w.upsert = (o.kind \in {"Upsert", "ApplyUpsert"}) /\ (w.upsert => o.docs # <<>>)
    <2>1. o.kind \notin Inserting BY DEF Inserting, Updating
    <2> QED BY <2>1, WiredIs
  <1> HIDE DEF w
  <1>2. Found(c, o) = Matching(c, w) /\ x = Updates(c, w).coll /\ l = Updates(c, w).lerr BY <1>1 DEF w, Does, Changes, Found, Matching
  <1>3. /\ Chosen(c, w) = {} <=> Found(c, o) = {}
        /\ Cardinality(Chosen(c, w)) = 0 <=> Found(c, o) = {}
        /\ w.multi => Chosen(c, w) = Found(c, o)
        /\ ~w.multi /\ Found(c, o) # {} => \E i \in Found(c, o) : Chosen(c, w) = {i} /\ Cardinality(Chosen(c, w)) = 1
    BY <1>1, <1>2, ChosenIs
  <1>4. CASE Found(c, o) # {} \/ ~w.upsert
    <2>1. /\ x = [i \in Ids |-> IF i \in Chosen(c, w) THEN o.val ELSE c[i]]
          /\ l.n = Cardinality(Chosen(c, w)) /\ (Had(l) <=> Found(c, o) # {}) /\ l.upserted = Nil /\ l.err = ""
      <3>1. x = [i \in Ids |-> IF i \in Chosen(c, w) THEN o.val ELSE c[i]] BY <1>1, <1>2, <1>4 DEF Updates
      <3>2. l = Lerr(Cardinality(Chosen(c, w)), Found(c, o) # {}, Nil, "")
        BY <1>1, <1>2, <1>4 DEF Updates
      <3>3. Had(Lerr(Cardinality(Chosen(c, w)), Found(c, o) # {}, Nil, "")) <=> Found(c, o) # {} BY Zenon DEF Lerr, Had
      <3>4. Had(l) <=> Found(c, o) # {} BY <3>2, <3>3, Zenon
      <3>5. l.n = Cardinality(Chosen(c, w)) /\ l.upserted = Nil /\ l.err = "" BY <3>2 DEF Lerr
      <3> QED BY <3>1, <3>4, <3>5
    <2>2. Found(c, o) = {} => x = c BY <1>3, <2>1 DEF Colls
    <2>3. ASSUME Found(c, o) # {}, ~w.multi PROVE l.n = 1 /\ \E i \in Found(c, o) : x = [c EXCEPT ![i] = o.val]
      <3>1. PICK i \in Found(c, o) : Chosen(c, w) = {i} /\ Cardinality(Chosen(c, w)) = 1 BY <1>3, <2>3
      <3>2. x = [c EXCEPT ![i] = o.val] BY <2>1, <3>1 DEF Colls
      <3> QED BY <2>1, <3>1, <3>2
    <2> QED BY <1>1, <1>3, <1>4, <2>1, <2>2, <2>3 DEF UpdatesRight
  <1>5. CASE ~(Found(c, o) # {} \/ ~w.upsert)
    <2>1. /\ x = [i \in Ids |-> IF i = Head(o.docs) THEN o.val ELSE c[i]]
          /\ l.n = 1 /\ ~Had(l) /\ l.upserted = Head(o.docs) /\ l.err = ""
      <3>1. x = [i \in Ids |-> IF i = Head(o.docs) THEN o.val ELSE c[i]] BY <1>1, <1>2, <1>5 DEF Updates
      <3>2. l = Lerr(1, FALSE, Head(o.docs), "")
        BY <1>1, <1>2, <1>5 DEF Updates
      <3>3. ~Had(Lerr(1, FALSE, Head(o.docs), "")) BY Zenon DEF Lerr, Had
      <3>4. ~Had(l) BY <3>2, <3>3, Zenon
      <3>5. l.n = 1 /\ l.upserted = Head(o.docs) /\ l.err = "" BY <3>2 DEF Lerr
      <3> QED BY <3>1, <3>4, <3>5
    <2>2. Head(o.docs) \in Ids /\ 1 \in DOMAIN o.docs /\ Head(o.docs) = o.docs[1] BY <1>1, <1>5, TailIs
    <2>3. c[Head(o.docs)] = 0 BY <1>1, <1>2, <1>5, <2>2 DEF Matching
    <2> QED BY <1>1, <1>5, <2>1, <2>2, <2>3 DEF UpdatesRight
  <1> QED BY <1>4, <1>5

\* What a removal makes of the collection, and says
DeletesRight(o, c, x, l) ==
    /\ l.err = "" /\ ~Had(l)
    /\ o.kind \in {"Remove", "ApplyRemove"} =>
          /\ Found(c, o) = {} => l.n = 0 /\ x = c
          /\ Found(c, o) # {} => l.n = 1 /\ \E i \in Found(c, o) : {j \in Ids : c[j] # 0 /\ ~(x[j] # 0)} = {i}
    /\ o.kind = "RemoveAll" => l.n = Cardinality(Found(c, o)) /\ {j \in Ids : c[j] # 0 /\ ~(x[j] # 0)} = Found(c, o)

LEMMA DeletesIs ==
  ASSUME NEW o \in Ops, o.kind \in Removing, NEW c \in Colls,
         NEW x, NEW l, Does(o, c, x, l)
  PROVE  DeletesRight(o, c, x, l)
  <1> DEFINE w == Wire(o)
  <1>1. /\ w.docs = o.docs /\ o.docs \in Seq(Ids) /\ w.code = "delete" /\ w.multi = (o.kind \in {"UpdateAll", "RemoveAll"})
    <2>1. o.kind \notin Inserting /\ o.kind \notin Updating BY DEF Inserting, Updating, Removing
    <2> QED BY <2>1, WiredIs
  <1> HIDE DEF w
  <1>2. Found(c, o) = Matching(c, w) /\ x = Deletes(c, w).coll /\ l = Deletes(c, w).lerr BY <1>1 DEF w, Does, Changes, Found, Matching
  <1>3. /\ Chosen(c, w) = {} <=> Found(c, o) = {}
        /\ Cardinality(Chosen(c, w)) = 0 <=> Found(c, o) = {}
        /\ w.multi => Chosen(c, w) = Found(c, o)
        /\ ~w.multi /\ Found(c, o) # {} => \E i \in Found(c, o) : Chosen(c, w) = {i} /\ Cardinality(Chosen(c, w)) = 1
    BY <1>1, <1>2, ChosenIs
  <1>4. /\ x = [i \in Ids |-> IF i \in Chosen(c, w) THEN 0 ELSE c[i]]
        /\ l.n = Cardinality(Chosen(c, w)) /\ ~Had(l) /\ l.err = ""
    <2>1. x = [i \in Ids |-> IF i \in Chosen(c, w) THEN 0 ELSE c[i]] BY <1>2 DEF Deletes
    <2>2. l = Lerr(Cardinality(Chosen(c, w)), FALSE, Nil, "")
      BY <1>2 DEF Deletes
    <2>3. ~Had(Lerr(Cardinality(Chosen(c, w)), FALSE, Nil, "")) BY Zenon DEF Lerr, Had
    <2>4. ~Had(l) BY <2>2, <2>3, Zenon
    <2>5. l.n = Cardinality(Chosen(c, w)) /\ l.err = "" BY <2>2 DEF Lerr
    <2> QED BY <2>1, <2>4, <2>5
  <1>5. \A i \in Found(c, o) : i \in Ids /\ c[i] # 0 BY <1>2 DEF Matching
  <1>6. Found(c, o) = {} => x = c BY <1>3, <1>4 DEF Colls
  <1>7. ASSUME Found(c, o) # {}, ~w.multi PROVE l.n = 1 /\ \E i \in Found(c, o) : {j \in Ids : c[j] # 0 /\ ~(x[j] # 0)} = {i}
    <2>1. PICK i \in Found(c, o) : Chosen(c, w) = {i} /\ Cardinality(Chosen(c, w)) = 1 BY <1>3, <1>7
    <2>2. {j \in Ids : c[j] # 0 /\ ~(x[j] # 0)} = {i} BY <1>4, <1>5, <2>1
    <2> QED BY <1>4, <2>1, <2>2
  <1>8. w.multi => {j \in Ids : c[j] # 0 /\ ~(x[j] # 0)} = Found(c, o) BY <1>3, <1>4, <1>5
  <1> QED BY <1>1, <1>3, <1>4, <1>6, <1>7, <1>8 DEF DeletesRight

LEMMA ApplyIs ==
  ASSUME NEW o, NEW l
  PROVE  /\ l.n = 0 => OfApply(o, l) = NoInfo("NotFound")
         /\ l.n # 0 /\ Had(l) => OfApply(o, l) = Result("nil", l.n, 0, Nil)
         /\ l.n # 0 /\ ~Had(l) /\ o.kind = "ApplyRemove" => OfApply(o, l) = Result("nil", 0, l.n, Nil)
         /\ l.n # 0 /\ ~Had(l) /\ o.kind = "ApplyUpsert" => OfApply(o, l) = Result("nil", 0, 0, l.upserted)
         /\ l.n # 0 /\ ~Had(l) /\ o.kind = "Apply" => OfApply(o, l) = NoInfo("nil")
  BY DEF OfApply, Had

LEMMA FieldsOf ==
  /\ \A e : NoInfo(e).err = e
  /\ \A e, u, r, i : /\ Result(e, u, r, i).err = e /\ Result(e, u, r, i).updated = u
                     /\ Result(e, u, r, i).removed = r /\ Result(e, u, r, i).upserted = i
  BY DEF NoInfo, Result

\* What is made of the LastError
Made(o, l) ==
    /\ l.err # "" => Outcome(o, l).err = l.err
    /\ l.err = "" =>
          /\ o.kind \in Inserting => Outcome(o, l).err = "nil"
          /\ o.kind = "Update" => Outcome(o, l).err = IF Had(l) THEN "nil" ELSE "NotFound"
          /\ o.kind = "Apply" => Outcome(o, l).err = IF l.n = 0 THEN "NotFound" ELSE "nil"
          /\ o.kind = "UpdateAll" => Outcome(o, l).updated = l.n
          /\ o.kind = "Upsert" \/ (o.kind = "ApplyUpsert" /\ l.n # 0) =>
                /\ Had(l) => Outcome(o, l).updated = l.n /\ Outcome(o, l).upserted = Nil
                /\ ~Had(l) => Outcome(o, l).updated = 0 /\ Outcome(o, l).upserted = l.upserted
          /\ o.kind \in {"Remove", "ApplyRemove"} => Outcome(o, l).err = IF l.n = 0 THEN "NotFound" ELSE "nil"
          /\ o.kind = "RemoveAll" => Outcome(o, l).removed = l.n

LEMMA OutcomeIs ==
  ASSUME NEW o, NEW l
  PROVE  Made(o, l)
  <1>1. ASSUME l.err # "" PROVE Outcome(o, l).err = l.err
    <2>1. Outcome(o, l) = NoInfo(l.err) BY <1>1 DEF Outcome
    <2> QED BY <2>1, FieldsOf
  <1>2. ASSUME l.err = "", o.kind \in Inserting PROVE Outcome(o, l).err = "nil"
    <2>1. Outcome(o, l) = NoInfo("nil") BY <1>2 DEF Outcome, Inserting, IsApply
    <2> QED BY <2>1, FieldsOf
  <1>3. ASSUME l.err = "", o.kind = "Update" PROVE Outcome(o, l).err = IF Had(l) THEN "nil" ELSE "NotFound"
    <2>1. Outcome(o, l) = OfUpdate(l) BY <1>3 DEF Outcome, Inserting, IsApply
    <2>2. (Had(l) => OfUpdate(l) = NoInfo("nil")) /\ (~Had(l) => OfUpdate(l) = NoInfo("NotFound")) BY DEF OfUpdate, Had
    <2> QED BY <2>1, <2>2, FieldsOf
  <1>4. ASSUME l.err = "", IsApply(o) PROVE Outcome(o, l) = OfApply(o, l)
    BY <1>4 DEF Outcome, Inserting, IsApply
  <1>5. ASSUME l.err = "", o.kind = "Apply" PROVE Outcome(o, l).err = IF l.n = 0 THEN "NotFound" ELSE "nil"
    <2>1. Outcome(o, l) = OfApply(o, l) BY <1>4, <1>5 DEF IsApply
    <2>2. /\ l.n = 0 => OfApply(o, l) = NoInfo("NotFound")
          /\ l.n # 0 => OfApply(o, l) = NoInfo("nil") \/ OfApply(o, l) = Result("nil", l.n, 0, Nil)
      BY <1>5, ApplyIs
    <2> QED BY <2>1, <2>2, FieldsOf
  <1>6. ASSUME l.err = "", o.kind = "UpdateAll" PROVE Outcome(o, l).updated = l.n
    <2>1. Outcome(o, l) = OfUpdateAll(l) BY <1>6 DEF Outcome, Inserting, IsApply
    <2> QED BY <2>1, FieldsOf DEF OfUpdateAll
  <1>7. ASSUME l.err = "", o.kind = "Upsert" \/ (o.kind = "ApplyUpsert" /\ l.n # 0)
        PROVE  /\ Had(l) => Outcome(o, l).updated = l.n /\ Outcome(o, l).upserted = Nil
               /\ ~Had(l) => Outcome(o, l).updated = 0 /\ Outcome(o, l).upserted = l.upserted
    <2>1. /\ Had(l) => Outcome(o, l) = Result("nil", l.n, 0, Nil)
          /\ ~Had(l) => Outcome(o, l) = Result("nil", 0, 0, l.upserted)
      <3>1. CASE o.kind = "Upsert"
        <4>1. Outcome(o, l) = OfUpsert(l) BY <1>7, <3>1 DEF Outcome, Inserting, IsApply
        <4> QED BY <4>1 DEF OfUpsert, Had
      <3>2. CASE o.kind = "ApplyUpsert"
        <4>1. Outcome(o, l) = OfApply(o, l) /\ l.n # 0 BY <1>4, <1>7, <3>2 DEF IsApply
        <4> QED BY <3>2, <4>1, ApplyIs
      <3> QED BY <1>7, <3>1, <3>2
    <2> QED BY <2>1, FieldsOf
  <1>8. ASSUME l.err = "", o.kind \in {"Remove", "ApplyRemove"}
        PROVE  Outcome(o, l).err = IF l.n = 0 THEN "NotFound" ELSE "nil"
    <2>1. /\ l.n = 0 => Outcome(o, l) = NoInfo("NotFound")
          /\ l.n # 0 => \/ Outcome(o, l) = NoInfo("nil") \/ Outcome(o, l) = Result("nil", l.n, 0, Nil)
                        \/ Outcome(o, l) = Result("nil", 0, l.n, Nil)
      <3>1. CASE o.kind = "Remove"
        <4>1. Outcome(o, l) = OfRemove(l) BY <1>8, <3>1 DEF Outcome, Inserting, IsApply
        <4> QED BY <4>1 DEF OfRemove
      <3>2. CASE o.kind = "ApplyRemove"
        <4>1. Outcome(o, l) = OfApply(o, l) BY <1>4, <1>8, <3>2 DEF IsApply
        <4> QED BY <3>2, <4>1, ApplyIs
      <3> QED BY <1>8, <3>1, <3>2
    <2> QED BY <2>1, FieldsOf
  <1>9. ASSUME l.err = "", o.kind = "RemoveAll" PROVE Outcome(o, l).removed = l.n
    <2>1. Outcome(o, l) = OfRemoveAll(l) BY <1>9 DEF Outcome, Inserting, IsApply
    <2> QED BY <2>1, FieldsOf DEF OfRemoveAll
  <1> QED BY <1>1, <1>2, <1>3, <1>5, <1>6, <1>7, <1>8, <1>9 DEF Made

\* A call that does not return an error of the server's returns what it did.
LEMMA WhatEnded ==
  ASSUME WriteInv, done # Nil, done.result.err \in {"nil", "NotFound", "dup"}
  PROVE  /\ done.o \in Ops /\ done.did.before \in Colls /\ done.did.after \in Colls
         /\ \E l : Does(done.o, done.did.before, done.did.after, l) /\ done.result = Outcome(done.o, l)
  <1>1. PICK l \in Lerrs : Tells(done.o, done.did, l) /\ done.result = Outcome(done.o, l)
    BY DEF WriteInv, Ending
  <1>2. done.o \in Ops /\ done.did \in Dids BY DEF WriteInv, Ending
  <1>3. l.err \notin {"failed", "timeout"}
    <2>1. l.err # "" => Outcome(done.o, l).err = l.err BY OutcomeIs DEF Made
    <2> QED BY <1>1, <2>1
  <1>4. Exact(done.o, done.did, l) BY <1>1, <1>3 DEF Tells
  <1> QED BY <1>1, <1>2, <1>4 DEF Exact, Dids

LEMMA InsertsTell ==
  ASSUME WriteInv, done # Nil, done.o.kind \in Inserting, done.result.err \in {"nil", "dup"}
  PROVE  /\ done.result.err = "nil" => \A k \in DOMAIN done.o.docs : ~Was(done.o.docs[k]) /\ Is(done.o.docs[k])
         /\ done.result.err = "dup" => \E k \in DOMAIN done.o.docs : Was(done.o.docs[k]) \/ Twice(k)
         /\ done.o.kind = "Unordered" => \A k \in DOMAIN done.o.docs : Is(done.o.docs[k])
         /\ done.o.kind # "Unordered" =>
               \A k \in DOMAIN done.o.docs :
                  Is(done.o.docs[k]) <=>
                     \/ Was(done.o.docs[k])
                     \/ \E m \in DOMAIN done.o.docs :
                           /\ done.o.docs[m] = done.o.docs[k]
                           /\ \A j \in 1..m : ~Was(done.o.docs[j]) /\ ~Twice(j)
  <1>1. PICK l : Does(done.o, done.did.before, done.did.after, l) /\ done.result = Outcome(done.o, l)
    BY WhatEnded
  <1>2. done.o \in Ops /\ done.did.before \in Colls BY WhatEnded
  <1>3. PICK o, c, x : o = done.o /\ c = done.did.before /\ x = done.did.after OBVIOUS
  <1>4. /\ l.err \in {"", "dup"}
        /\ l.err = "" => \A k \in DOMAIN o.docs : c[o.docs[k]] = 0 /\ x[o.docs[k]] # 0
        /\ l.err = "dup" => \E k \in DOMAIN o.docs : c[o.docs[k]] # 0 \/ \E j \in 1..k - 1 : o.docs[j] = o.docs[k]
        /\ o.kind = "Unordered" => \A k \in DOMAIN o.docs : x[o.docs[k]] # 0
        /\ o.kind # "Unordered" =>
              \A k \in DOMAIN o.docs :
                 x[o.docs[k]] # 0 <=>
                    \/ c[o.docs[k]] # 0
                    \/ \E m \in DOMAIN o.docs :
                          /\ o.docs[m] = o.docs[k]
                          /\ \A j \in 1..m : c[o.docs[j]] = 0 /\ ~\E h \in 1..j - 1 : o.docs[h] = o.docs[j]
    <2>1. o \in Ops /\ o.kind \in Inserting /\ c \in Colls /\ Does(o, c, x, l) BY <1>1, <1>2, <1>3
    <2>2. InsertsRight(o, c, x, l) BY <2>1, InsertsIs
    <2> QED BY <2>2 DEF InsertsRight
  <1>5. (done.result.err = "nil" => l.err = "") /\ (done.result.err = "dup" => l.err = "dup")
    <2>1. /\ l.err # "" => Outcome(done.o, l).err = l.err
          /\ l.err = "" /\ done.o.kind \in Inserting => Outcome(done.o, l).err = "nil"
      BY OutcomeIs DEF Made
    <2> QED BY <1>1, <1>4, <2>1
  <1>6. /\ done.o = o /\ \A i : (Was(i) <=> c[i] # 0) /\ (Is(i) <=> x[i] # 0)
        /\ \A k : Twice(k) <=> \E j \in 1..k - 1 : o.docs[j] = o.docs[k]
    BY <1>3 DEF Was, Is, Twice
  <1>7. done.result.err = "nil" => \A k \in DOMAIN o.docs : ~Was(o.docs[k]) /\ Is(o.docs[k])
    <2>1. ASSUME done.result.err = "nil", NEW k \in DOMAIN o.docs PROVE ~Was(o.docs[k]) /\ Is(o.docs[k])
      <3>1. c[o.docs[k]] = 0 /\ x[o.docs[k]] # 0 BY <1>4, <1>5, <2>1
      <3> QED BY <1>6, <3>1
    <2> QED BY <2>1
  <1>8. done.result.err = "dup" => \E k \in DOMAIN o.docs : Was(o.docs[k]) \/ Twice(k) BY <1>4, <1>5, <1>6
  <1>9. o.kind = "Unordered" => \A k \in DOMAIN o.docs : Is(o.docs[k]) BY <1>4, <1>6
  <1>10. o.kind # "Unordered" =>
              \A k \in DOMAIN o.docs :
                 Is(o.docs[k]) <=>
                    \/ Was(o.docs[k])
                    \/ \E m \in DOMAIN o.docs :
                          /\ o.docs[m] = o.docs[k]
                          /\ \A j \in 1..m : ~Was(o.docs[j]) /\ ~Twice(j)
    <2> SUFFICES ASSUME o.kind # "Unordered", NEW k \in DOMAIN o.docs
                 PROVE  Is(o.docs[k]) <=>
                    \/ Was(o.docs[k])
                    \/ \E m \in DOMAIN o.docs :
                          /\ o.docs[m] = o.docs[k]
                          /\ \A j \in 1..m : ~Was(o.docs[j]) /\ ~Twice(j)
      OBVIOUS
    <2>1. \A j : (c[o.docs[j]] = 0 /\ ~\E h \in 1..j - 1 : o.docs[h] = o.docs[j]) <=> (~Was(o.docs[j]) /\ ~Twice(j))
      BY <1>6
    <2>2. x[o.docs[k]] # 0 <=>
                    \/ c[o.docs[k]] # 0
                    \/ \E m \in DOMAIN o.docs :
                          /\ o.docs[m] = o.docs[k]
                          /\ \A j \in 1..m : c[o.docs[j]] = 0 /\ ~\E h \in 1..j - 1 : o.docs[h] = o.docs[j]
      BY <1>4
    <2> QED BY <1>6, <2>1, <2>2
  <1>11. done.o = o BY <1>3
  <1> QED BY <1>7, <1>8, <1>9, <1>10, <1>11

LEMMA InsertsAreTrue == ASSUME WriteInv PROVE InsertTrue /\ BulkOrder
  <1>1. InsertTrue
    <2> SUFFICES ASSUME NEW kind \in Inserting
                 PROVE  /\ Says(kind, "nil") => \A i \in Docs : ~Was(i) /\ Is(i)
                        /\ Says(kind, "dup") => \E k \in DOMAIN done.o.docs : Was(done.o.docs[k]) \/ Twice(k)
      BY DEF InsertTrue
    <2>1. ASSUME Says(kind, "nil") PROVE \A i \in Docs : ~Was(i) /\ Is(i)
      <3>1. done # Nil /\ done.o.kind \in Inserting /\ done.result.err = "nil" BY <2>1 DEF Says, Ended
      <3>2. \A k \in DOMAIN done.o.docs : ~Was(done.o.docs[k]) /\ Is(done.o.docs[k]) BY <3>1, InsertsTell
      <3> QED BY <3>2 DEF Docs
    <2>2. ASSUME Says(kind, "dup") PROVE \E k \in DOMAIN done.o.docs : Was(done.o.docs[k]) \/ Twice(k)
      <3>1. done # Nil /\ done.o.kind \in Inserting /\ done.result.err = "dup" BY <2>2 DEF Says, Ended
      <3> QED BY <3>1, InsertsTell
    <2> QED BY <2>1, <2>2
  <1>2. ASSUME Says("Unordered", "dup") PROVE \A i \in Docs : Is(i)
    <2>1. done # Nil /\ done.o.kind \in Inserting /\ done.o.kind = "Unordered" /\ done.result.err = "dup"
      BY <1>2 DEF Says, Ended, Inserting
    <2>2. \A k \in DOMAIN done.o.docs : Is(done.o.docs[k]) BY <2>1, InsertsTell
    <2> QED BY <2>2 DEF Docs
  <1>3. ASSUME Says("Bulk", "dup") \/ Says("Insert", "dup")
        PROVE  \A i \in Docs : Is(i) <=> \/ Was(i)
                                         \/ \E k \in DOMAIN done.o.docs :
                                               /\ done.o.docs[k] = i
                                               /\ \A j \in 1..k : ~Was(done.o.docs[j]) /\ ~Twice(j)
    <2>1. done # Nil /\ done.o.kind \in Inserting /\ done.o.kind # "Unordered" /\ done.result.err = "dup"
      BY <1>3 DEF Says, Ended, Inserting
    <2>2. \A k \in DOMAIN done.o.docs :
             Is(done.o.docs[k]) <=>
                \/ Was(done.o.docs[k])
                \/ \E m \in DOMAIN done.o.docs :
                      /\ done.o.docs[m] = done.o.docs[k]
                      /\ \A j \in 1..m : ~Was(done.o.docs[j]) /\ ~Twice(j)
      BY <2>1, InsertsTell
    <2> QED BY <2>2 DEF Docs
  <1> QED BY <1>1, <1>2, <1>3 DEF BulkOrder

LEMMA DocsFound ==
  ASSUME NEW c, c = done.did.before, done.o \in Ops
  PROVE  /\ {i \in Docs : Was(i)} = Found(c, done.o)
         /\ (\A i \in Docs : ~Was(i)) <=> Found(c, done.o) = {}
  <1>1. done.o.docs \in Seq(Ids) BY WiredIs
  <1>2. \A k \in DOMAIN done.o.docs : done.o.docs[k] \in Ids BY <1>1, ElementOfSeq, LenProperties
  <1>3. {i \in Docs : Was(i)} = Found(c, done.o) BY <1>2 DEF Docs, Was, Found
  <1> QED BY <1>3

LEMMA UpdatesTell ==
  ASSUME WriteInv, done # Nil, done.o.kind \in Updating, done.result.err \in {"nil", "NotFound"}
  PROVE  /\ done.o.kind \in {"Update", "Apply"} /\ done.result.err = "nil" =>
               \E i \in Docs : Was(i) /\ done.did.after = [done.did.before EXCEPT ![i] = done.o.val]
         /\ done.o.kind \in {"Update", "Apply"} /\ done.result.err = "NotFound" =>
               Untouched /\ \A i \in Docs : ~Was(i)
         /\ done.o.kind = "UpdateAll" => done.result.updated = Cardinality({i \in Docs : Was(i)})
         /\ done.o.kind \in {"Upsert", "ApplyUpsert"} =>
              /\ done.result.upserted # Nil => ~Was(done.result.upserted) /\ Is(done.result.upserted)
              /\ (done.result.updated = 1) <=> (\E i \in Docs : Was(i))
              /\ (done.result.upserted # Nil) <=> (\A i \in Docs : ~Was(i))
  <1>1. PICK l : Does(done.o, done.did.before, done.did.after, l) /\ done.result = Outcome(done.o, l)
    BY WhatEnded
  <1>2. done.o \in Ops /\ done.did.before \in Colls BY WhatEnded
  <1>3. PICK o, c, x, r : o = done.o /\ c = done.did.before /\ x = done.did.after /\ r = done.result OBVIOUS
  <1>4. /\ l.err = ""
        /\ o.kind \in {"Update", "Apply"} =>
              /\ Found(c, o) = {} => l.n = 0 /\ ~Had(l) /\ x = c
              /\ Found(c, o) # {} => l.n = 1 /\ Had(l) /\ \E i \in Found(c, o) : x = [c EXCEPT ![i] = o.val]
        /\ o.kind = "UpdateAll" => l.n = Cardinality(Found(c, o))
        /\ o.kind \in {"Upsert", "ApplyUpsert"} =>
              /\ Found(c, o) = {} => /\ l.n = 1 /\ ~Had(l) /\ l.upserted \in Ids
                                     /\ c[l.upserted] = 0 /\ x[l.upserted] # 0
              /\ Found(c, o) # {} => l.n = 1 /\ Had(l) /\ l.upserted = Nil
    <2>1. o \in Ops /\ o.kind \in Updating /\ c \in Colls /\ Does(o, c, x, l) BY <1>1, <1>2, <1>3
    <2>2. UpdatesRight(o, c, x, l) BY <2>1, UpdatesIs
    <2> QED BY <2>2 DEF UpdatesRight
  <1>5. /\ {i \in Docs : Was(i)} = Found(c, o) /\ ((\A i \in Docs : ~Was(i)) <=> Found(c, o) = {})
    BY <1>2, <1>3, DocsFound
  <1>6. /\ o.kind = "Update" => r.err = IF Had(l) THEN "nil" ELSE "NotFound"
        /\ o.kind = "Apply" => r.err = IF l.n = 0 THEN "NotFound" ELSE "nil"
        /\ o.kind = "UpdateAll" => r.updated = l.n
        /\ o.kind = "Upsert" \/ (o.kind = "ApplyUpsert" /\ l.n # 0) =>
              /\ Had(l) => r.updated = l.n /\ r.upserted = Nil
              /\ ~Had(l) => r.updated = 0 /\ r.upserted = l.upserted
    <2>1. r = Outcome(o, l) BY <1>1, <1>3
    <2>2. l.err = "" /\ Made(o, l) BY <1>4, OutcomeIs
    <2> QED BY <2>1, <2>2 DEF Made
  <1>7. ASSUME o.kind \in {"Update", "Apply"}, r.err = "nil"
        PROVE  \E i \in Docs : Was(i) /\ x = [c EXCEPT ![i] = o.val]
    <2>1. ASSUME Found(c, o) = {} PROVE FALSE
      <3>1. l.n = 0 /\ ~Had(l) BY <1>4, <1>7, <2>1
      <3>2. r.err = "NotFound" BY <1>6, <1>7, <3>1
      <3> QED BY <1>7, <3>2
    <2>2. PICK i \in Found(c, o) : x = [c EXCEPT ![i] = o.val] BY <1>4, <1>7, <2>1
    <2> QED BY <1>5, <2>2
  <1>8. ASSUME o.kind \in {"Update", "Apply"}, r.err = "NotFound" PROVE x = c /\ \A i \in Docs : ~Was(i)
    <2>1. ASSUME Found(c, o) # {} PROVE FALSE
      <3>1. l.n = 1 /\ Had(l) BY <1>4, <1>8, <2>1
      <3>2. r.err = "nil" BY <1>6, <1>8, <3>1
      <3> QED BY <1>8, <3>2
    <2> QED BY <1>4, <1>5, <1>8, <2>1
  <1>9. o.kind = "UpdateAll" => r.updated = Cardinality({i \in Docs : Was(i)}) BY <1>4, <1>5, <1>6
  <1>10. ASSUME o.kind \in {"Upsert", "ApplyUpsert"}
         PROVE  /\ r.upserted # Nil => c[r.upserted] = 0 /\ x[r.upserted] # 0
                /\ (r.updated = 1) <=> Found(c, o) # {}
                /\ (r.upserted # Nil) <=> Found(c, o) = {}
    <2>1. CASE Found(c, o) = {}
      <3>3. /\ l.n = 1 /\ ~Had(l) /\ l.upserted \in Ids /\ c[l.upserted] = 0 /\ x[l.upserted] # 0
        BY <1>4, <1>10, <2>1
      <3>4. r.updated = 0 /\ r.upserted = l.upserted BY <1>6, <1>10, <3>3
      <3>1. r.updated = 0 /\ r.upserted \in Ids /\ c[r.upserted] = 0 /\ x[r.upserted] # 0 BY <3>3, <3>4
      <3>2. r.upserted # Nil BY <3>1, WriteAssumption
      <3> QED BY <2>1, <3>1, <3>2
    <2>2. CASE Found(c, o) # {}
      <3>3. l.n = 1 /\ Had(l) BY <1>4, <1>10, <2>2
      <3>1. r.updated = 1 /\ r.upserted = Nil BY <1>6, <1>10, <3>3
      <3> QED BY <2>2, <3>1
    <2> QED BY <2>1, <2>2
  <1>11. (\E i \in Docs : Was(i)) <=> Found(c, o) # {} BY <1>5
  <1> QED BY <1>3, <1>5, <1>7, <1>8, <1>9, <1>10, <1>11 DEF Untouched, Was, Is

LEMMA UpdatesAreTrue == ASSUME WriteInv PROVE UpdateTrue
  <1>1. \A kind, e : kind \in Updating /\ e \in {"nil", "NotFound"} /\ Says(kind, e) =>
           done # Nil /\ done.o.kind \in Updating /\ done.o.kind = kind /\ done.result.err = e /\ done.result.err \in {"nil", "NotFound"}
    BY DEF Says, Ended
  <1>2. ASSUME NEW kind \in {"Update", "Apply"}
        PROVE  /\ Says(kind, "nil") => \E i \in Docs : Was(i) /\ done.did.after = [done.did.before EXCEPT ![i] = done.o.val]
               /\ Says(kind, "NotFound") => Untouched /\ \A i \in Docs : ~Was(i)
    BY <1>1, UpdatesTell DEF Updating
  <1>3. Says("UpdateAll", "nil") => done.result.updated = Cardinality({i \in Docs : Was(i)})
    BY <1>1, UpdatesTell DEF Updating
  <1>4. ASSUME NEW kind \in {"Upsert", "ApplyUpsert"}, Says(kind, "nil")
        PROVE  /\ done.result.upserted # Nil => ~Was(done.result.upserted) /\ Is(done.result.upserted)
               /\ (done.result.updated = 1) <=> (\E i \in Docs : Was(i))
               /\ (done.result.upserted # Nil) <=> (\A i \in Docs : ~Was(i))
    BY <1>1, <1>4, UpdatesTell DEF Updating
  <1> QED BY <1>2, <1>3, <1>4 DEF UpdateTrue

LEMMA RemovalsTell ==
  ASSUME WriteInv, done # Nil, done.o.kind \in Removing, done.result.err \in {"nil", "NotFound"}
  PROVE  /\ done.o.kind \in {"Remove", "ApplyRemove"} /\ done.result.err = "nil" =>
               Cardinality(Removed) = 1 /\ Removed \subseteq Docs
         /\ done.o.kind \in {"Remove", "ApplyRemove"} /\ done.result.err = "NotFound" =>
               Untouched /\ \A i \in Docs : ~Was(i)
         /\ done.o.kind = "RemoveAll" =>
               Removed = {i \in Docs : Was(i)} /\ done.result.removed = Cardinality(Removed)
  <1>1. PICK l : Does(done.o, done.did.before, done.did.after, l) /\ done.result = Outcome(done.o, l)
    BY WhatEnded
  <1>2. done.o \in Ops /\ done.did.before \in Colls BY WhatEnded
  <1>3. PICK o, c, x, r : o = done.o /\ c = done.did.before /\ x = done.did.after /\ r = done.result OBVIOUS
  <1>4. /\ l.err = "" /\ ~Had(l)
        /\ o.kind \in {"Remove", "ApplyRemove"} =>
              /\ Found(c, o) = {} => l.n = 0 /\ x = c
              /\ Found(c, o) # {} => l.n = 1 /\ \E i \in Found(c, o) : {j \in Ids : c[j] # 0 /\ ~(x[j] # 0)} = {i}
        /\ o.kind = "RemoveAll" => l.n = Cardinality(Found(c, o)) /\ {j \in Ids : c[j] # 0 /\ ~(x[j] # 0)} = Found(c, o)
    <2>1. o \in Ops /\ o.kind \in Removing /\ c \in Colls /\ Does(o, c, x, l) BY <1>1, <1>2, <1>3
    <2>2. DeletesRight(o, c, x, l) BY <2>1, DeletesIs
    <2> QED BY <2>2 DEF DeletesRight
  <1>5. /\ {i \in Docs : Was(i)} = Found(c, o) /\ ((\A i \in Docs : ~Was(i)) <=> Found(c, o) = {})
    BY <1>2, <1>3, DocsFound
  <1>6. /\ o.kind \in {"Remove", "ApplyRemove"} => r.err = IF l.n = 0 THEN "NotFound" ELSE "nil"
        /\ o.kind = "RemoveAll" => r.removed = l.n
    <2>1. r = Outcome(o, l) BY <1>1, <1>3
    <2>2. l.err = "" /\ Made(o, l) BY <1>4, OutcomeIs
    <2> QED BY <2>1, <2>2 DEF Made
  <1>7. Removed = {j \in Ids : c[j] # 0 /\ ~(x[j] # 0)} BY <1>3 DEF Removed, Was, Is
  <1>8. ASSUME o.kind \in {"Remove", "ApplyRemove"}, r.err = "nil"
        PROVE  Cardinality(Removed) = 1 /\ Removed \subseteq Docs
    <2>1. ASSUME Found(c, o) = {} PROVE FALSE
      <3>1. l.n = 0 BY <1>4, <1>8, <2>1
      <3>2. r.err = "NotFound" BY <1>6, <1>8, <3>1
      <3> QED BY <1>8, <3>2
    <2>2. PICK i \in Found(c, o) : {j \in Ids : c[j] # 0 /\ ~(x[j] # 0)} = {i} BY <1>4, <1>8, <2>1
    <2>3. Removed = {i} /\ i \in Docs BY <1>5, <1>7, <2>2
    <2>4. Cardinality(Removed) = 1 BY <2>3, FS_Singleton
    <2> QED BY <2>3, <2>4
  <1>9. ASSUME o.kind \in {"Remove", "ApplyRemove"}, r.err = "NotFound" PROVE x = c /\ \A i \in Docs : ~Was(i)
    <2>1. ASSUME Found(c, o) # {} PROVE FALSE
      <3>1. l.n = 1 BY <1>4, <1>9, <2>1
      <3>2. r.err = "nil" BY <1>6, <1>9, <3>1
      <3> QED BY <1>9, <3>2
    <2> QED BY <1>4, <1>5, <1>9, <2>1
  <1>10. o.kind = "RemoveAll" => Removed = {i \in Docs : Was(i)} /\ r.removed = Cardinality(Removed)
    BY <1>4, <1>5, <1>6, <1>7
  <1> QED BY <1>3, <1>8, <1>9, <1>10 DEF Untouched

LEMMA RemovalsAreTrue == ASSUME WriteInv PROVE RemoveTrue
  <1>1. \A kind, e : kind \in Removing /\ e \in {"nil", "NotFound"} /\ Says(kind, e) =>
           done # Nil /\ done.o.kind \in Removing /\ done.o.kind = kind /\ done.result.err = e /\ done.result.err \in {"nil", "NotFound"}
    BY DEF Says, Ended
  <1>2. ASSUME NEW kind \in {"Remove", "ApplyRemove"}
        PROVE  /\ Says(kind, "nil") => Cardinality(Removed) = 1 /\ Removed \subseteq Docs
               /\ Says(kind, "NotFound") => Untouched /\ \A i \in Docs : ~Was(i)
    BY <1>1, RemovalsTell DEF Removing
  <1>3. Says("RemoveAll", "nil") => Removed = {i \in Docs : Was(i)} /\ done.result.removed = Cardinality(Removed)
    BY <1>1, RemovalsTell DEF Removing
  <1> QED BY <1>2, <1>3 DEF RemoveTrue

\* What a write returns is what its own operation did to the collection, whoever
\* else writes over the same socket, in whatever order the server serves the
\* sockets, and however often one dies.
THEOREM WritesTellTheTruth == WriteSpec => []ResultsTrue
  <1>1. WriteInv => ResultsTrue BY InsertsAreTrue, UpdatesAreTrue, RemovalsAreTrue DEF ResultsTrue
  <1> QED BY <1>1, WriteInvariant, PTL
=============================================================================
