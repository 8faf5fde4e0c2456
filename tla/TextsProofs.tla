----------------------------- MODULE TextsProofs -----------------------------
(***************************************************************************)
(* Proofs about TextToSpeech, for every page size and every text, and      *)
(* about Feed, for libraries and answers of any size.                      *)
(***************************************************************************)
EXTENDS TextToSpeech, Feed, SequenceTheorems, FiniteSetTheorems, TLAPS

\* What division by the page size means.
LEMMA Division ==
  ASSUME NEW a \in Nat
  PROVE  /\ a \div Max \in Nat
         /\ Max * (a \div Max) <= a /\ a < Max * ((a \div Max) + 1)
  BY SizeAssumption

LEMMA PagesType == ASSUME NEW len \in Nat PROVE Pages(len) \in Nat \ {0}
  BY Division DEF Pages

\* A page ends before the next one begins.
LEMMA Apart ==
  ASSUME NEW b \in Nat, NEW c \in Nat, b < c
  PROVE  b * Max + Max <= c * Max
  <1>1. PICK d \in Nat : c = b + 1 + d BY c - b - 1 \in Nat
  <1>2. c * Max = b * Max + Max + d * Max BY <1>1, SizeAssumption
  <1>3. d * Max >= 0 BY SizeAssumption
  <1>4. b * Max \in Int /\ c * Max \in Int /\ d * Max \in Int BY SizeAssumption
  <1> QED BY <1>2, <1>3, <1>4, SizeAssumption

\* The loop's two counters are one position in the text.
Position == i = bucket * Max + count

LEMMA PositionInit == Init => TypeOK /\ Position
  <1> SUFFICES ASSUME Init PROVE TypeOK /\ Position OBVIOUS
  <1>1. runes \in Nat /\ bytes \in Nat BY SizeAssumption DEF Init
  <1>2. Pages(bytes) \in Nat \ {0} BY <1>1, PagesType
  <1>3. <<>> \in Seq(1..runes) /\ <<>> \in Seq({ZeroByte} \cup Seq(1..runes)) OBVIOUS
  <1> QED BY <1>1, <1>2, <1>3, SizeAssumption DEF Init, TypeOK, Position

\* The page the next rune goes to exists: the runes up to it are no more than
\* the bytes the number of pages was computed from.
LEMMA PositionInRange == TypeOK /\ Position => InRange
  <1> SUFFICES ASSUME TypeOK, Position, i < runes PROVE bucket \in 0..Pages(bytes) - 1
    BY DEF InRange, TypeOK
  <1>1. /\ bucket \in Nat /\ bytes \in Nat /\ Pages(bytes) \in Nat
        /\ bucket * Max <= i /\ i < bytes
    BY PagesType, SizeAssumption DEF TypeOK, Position
  <1>2. bytes < Max * Pages(bytes) BY <1>1, Division DEF Pages
  <1>3. SUFFICES ASSUME Pages(bytes) <= bucket PROVE FALSE BY <1>1
  <1>4. Pages(bytes) * Max <= bucket * Max
    <2>1. CASE Pages(bytes) = bucket BY <2>1, <1>1, SizeAssumption
    <2>2. CASE Pages(bytes) < bucket
      <3>1. Pages(bytes) * Max + Max <= bucket * Max BY ONLY <2>2, <1>1, Apart
      <3>2. Pages(bytes) * Max \in Int /\ bucket * Max \in Int BY <1>1, SizeAssumption
      <3> QED BY <3>1, <3>2, SizeAssumption
    <2> QED BY <1>1, <1>3, <2>1, <2>2
  <1>5. Pages(bytes) * Max = Max * Pages(bytes) BY <1>1, SizeAssumption
  <1>6. Max * Pages(bytes) \in Int /\ bucket * Max \in Int BY <1>1, SizeAssumption
  <1> QED BY <1>1, <1>2, <1>4, <1>5, <1>6, SizeAssumption DEF TypeOK

LEMMA PositionStep == TypeOK /\ Position /\ [Next]_vars => TypeOK' /\ Position'
  <1> SUFFICES ASSUME TypeOK, Position, [Next]_vars PROVE TypeOK' /\ Position' OBVIOUS
  <1> USE DEF text
  <1>0. /\ Pages(bytes) \in Nat \ {0} /\ runes \in Nat /\ bytes \in Nat
        /\ bucket * Max \in Int /\ Max \in Nat /\ Max > 0
    BY PagesType, SizeAssumption DEF TypeOK
  <1>1. CASE AddRune
    <2>1. CASE pc' = "panic" /\ UNCHANGED <<text, i, count, bucket, results, page, playlist>>
      BY <1>0, <2>1 DEF TypeOK, Position
    <2>2. ASSUME bucket \in DOMAIN results,
                 results' = [results EXCEPT ![bucket] = Append(@, i + 1)],
                 i' = i + 1, i < runes,
                 IF Full(count + 1) THEN bucket' = bucket + 1 /\ count' = 0
                                    ELSE bucket' = bucket /\ count' = count + 1,
                 UNCHANGED <<pc, text, page, playlist>>
          PROVE TypeOK' /\ Position'
      <3>1. Position'
        <4>1. CASE Full(count + 1)
          <5>1. (bucket + 1) * Max = bucket * Max + Max BY <1>0 DEF TypeOK
          <5> QED BY <1>0, <2>2, <4>1, <5>1 DEF TypeOK, Position, Full
        <4>2. CASE ~Full(count + 1) BY <1>0, <2>2, <4>2 DEF TypeOK, Position
        <4> QED BY <4>1, <4>2
      <3>2. i + 1 \in 1..runes BY <1>0, <2>2 DEF TypeOK
      <3>3. Append(results[bucket], i + 1) \in Seq(1..runes) BY <2>2, <3>2 DEF TypeOK
      <3>4. results' \in [0..Pages(bytes) - 1 -> Seq(1..runes)] BY <2>2, <3>3 DEF TypeOK
      <3>5. i' \in 0..runes /\ count' \in 0..Max - 1 /\ bucket' \in Nat
        BY <1>0, <2>2 DEF TypeOK, Full
      <3> QED BY <2>2, <3>1, <3>4, <3>5 DEF TypeOK
    <2> QED BY <1>1, <2>1, <2>2 DEF AddRune
  <1>2. CASE StartPlaylist
    <2>1. playlist' \in Seq({ZeroByte} \cup Seq(1..runes)) BY <1>0, <1>2 DEF StartPlaylist
    <2> QED BY <1>2, <2>1 DEF StartPlaylist, TypeOK, Position
  <1>3. CASE SpeakPage
    <2>1. CASE UNCHANGED <<page, playlist>> BY <1>3, <2>1 DEF SpeakPage, TypeOK, Position
    <2>2. CASE page' = page + 1 /\ playlist' = Append(playlist, results[NextPage]) /\ UNCHANGED pc
      <3>1. page' \in 0..Pages(bytes) /\ NextPage \in 0..Pages(bytes) - 1
        BY <1>0, <1>3, <2>2 DEF SpeakPage, TypeOK, NextPage
      <3>2. results[NextPage] \in {ZeroByte} \cup Seq(1..runes) BY <3>1 DEF TypeOK
      <3>3. playlist' \in Seq({ZeroByte} \cup Seq(1..runes)) BY <2>2, <3>2 DEF TypeOK
      <3> QED BY <1>3, <2>2, <3>1, <3>3 DEF SpeakPage, TypeOK, Position
    <2> QED BY <1>3, <2>1, <2>2 DEF SpeakPage
  <1>4. CASE Return BY <1>4 DEF Return, TypeOK, Position
  <1>5. CASE UNCHANGED vars BY <1>5 DEF vars, TypeOK, Position
  <1> QED BY <1>1, <1>2, <1>3, <1>4, <1>5 DEF Next

\* For every text, however its bytes make runes, the pagination indexes only
\* pages that exist: no text makes TextToSpeech panic there.
THEOREM NoTextIsOutOfRange == Spec => []InRange
  <1>1. Init => TypeOK /\ Position BY PositionInit
  <1>2. TypeOK /\ Position /\ [Next]_vars => TypeOK' /\ Position' BY PositionStep
  <1>3. TypeOK /\ Position => InRange BY PositionInRange
  <1> QED BY <1>1, <1>2, <1>3, PTL DEF Spec

(***************************************************************************)
(* The pages are the text                                                  *)
(***************************************************************************)

\* Chunk with its length spelled out.
LEMMA ChunkIs ==
  ASSUME NEW b \in Nat, NEW k \in Nat
  PROVE  /\ b * Max + Max <= k => Chunk(b, k) = [x \in 1..Max |-> b * Max + x]
         /\ b * Max <= k /\ k <= b * Max + Max => Chunk(b, k) = [x \in 1..(k - b * Max) |-> b * Max + x]
         /\ k <= b * Max => Chunk(b, k) = <<>>
  <1> DEFINE P == b * Max
  <1>1. P \in Int /\ (b + 1) * Max = P + Max /\ Max \in Nat /\ Max > 0 BY SizeAssumption
  <1> HIDE DEF P
  <1>2. CASE P + Max <= k
    <2>1. (IF P + Max <= k THEN P + Max ELSE k) = P + Max BY <1>2
    <2>2. (IF P + Max > P THEN P + Max - P ELSE 0) = Max BY <1>1
    <2>3. Chunk(b, k) = [x \in 1..Max |-> P + x] BY <1>1, <2>1, <2>2 DEF Chunk, P
    <2>4. P <= k /\ k <= P + Max => k - P = Max BY <1>1, <1>2
    <2>5. ~(k <= P) BY <1>1, <1>2
    <2> QED BY <2>3, <2>4, <2>5 DEF P
  <1>3. CASE ~(P + Max <= k) /\ P < k
    <2>1. (IF P + Max <= k THEN P + Max ELSE k) = k BY <1>3
    <2>2. (IF k > P THEN k - P ELSE 0) = k - P BY <1>1, <1>3
    <2>3. Chunk(b, k) = [x \in 1..(k - P) |-> P + x] BY <1>1, <2>1, <2>2 DEF Chunk, P
    <2>4. ~(k <= P) BY <1>1, <1>3
    <2> QED BY <1>3, <2>3, <2>4 DEF P
  <1>4. CASE k <= P
    <2>1. ~(P + Max <= k) BY <1>1, <1>4
    <2>2. (IF P + Max <= k THEN P + Max ELSE k) = k BY <2>1
    <2>3. (IF k > P THEN k - P ELSE 0) = 0 BY <1>1, <1>4
    <2>4. Chunk(b, k) = [x \in 1..0 |-> P + x] BY <1>1, <2>2, <2>3 DEF Chunk, P
    <2>5. Chunk(b, k) = <<>> BY <2>4
    <2>6. P <= k => 1..(k - P) = 1..0 BY <1>1, <1>4
    <2> QED BY <2>1, <2>4, <2>5, <2>6 DEF P
  <1> QED BY <1>1, <1>2, <1>3, <1>4

\* One more rune changes the chunk it belongs to and no other.
LEMMA ChunkGrows ==
  ASSUME NEW b \in Nat, NEW c \in Nat, NEW r \in 0..Max - 1, NEW k \in Nat, k = c * Max + r
  PROVE  Chunk(b, k + 1) = IF b = c THEN Append(Chunk(b, k), k + 1) ELSE Chunk(b, k)
  <1>1. /\ Max \in Nat /\ Max > 0 /\ b * Max \in Int /\ c * Max \in Int
    BY SizeAssumption
  <1>2. CASE b = c
    <2>1. Chunk(b, k) = [x \in 1..r |-> b * Max + x]
      <3>1. b * Max <= k /\ k <= b * Max + Max /\ k - b * Max = r BY <1>1, <1>2
      <3> QED BY <3>1, ChunkIs
    <2>2. Chunk(b, k + 1) = [x \in 1..r + 1 |-> b * Max + x]
      <3>1. b * Max <= k + 1 /\ k + 1 <= b * Max + Max /\ (k + 1) - b * Max = r + 1 /\ k + 1 \in Nat
        BY <1>1, <1>2
      <3>2. Chunk(b, k + 1) = [x \in 1..((k + 1) - b * Max) |-> b * Max + x] BY ONLY <3>1, ChunkIs
      <3> QED BY <3>1, <3>2
    <2>3. k + 1 = b * Max + (r + 1) BY <1>1, <1>2
    <2> DEFINE s == [x \in 1..r |-> b * Max + x]
    <2> DEFINE t == [x \in 1..r + 1 |-> b * Max + x]
    <2>4. s \in Seq(Int) /\ Len(s) = r BY <1>1
    <2>5. t \in Seq(Int) /\ Len(t) = r + 1 BY <1>1
    <2>6. Append(s, k + 1) \in Seq(Int) /\ Len(Append(s, k + 1)) = r + 1 BY <2>4
    <2>7. \A x \in 1..r + 1 : Append(s, k + 1)[x] = t[x]
      <3>1. \A x \in 1..r : Append(s, k + 1)[x] = s[x] BY <2>4
      <3>2. Append(s, k + 1)[r + 1] = k + 1 BY <2>4
      <3> QED BY <2>3, <3>1, <3>2
    <2>8. Append(s, k + 1) = t BY <2>5, <2>6, <2>7, SeqEqual
    <2> QED BY <1>2, <2>1, <2>2, <2>8
  <1>3. CASE b < c
    <2>1. b * Max + Max <= c * Max BY <1>3, Apart
    <2>2. b * Max + Max <= k /\ b * Max + Max <= k + 1 /\ k + 1 \in Nat BY <1>1, <2>1
    <2>3. Chunk(b, k) = [x \in 1..Max |-> b * Max + x] BY ONLY <2>2, ChunkIs
    <2>4. Chunk(b, k + 1) = [x \in 1..Max |-> b * Max + x] BY ONLY <2>2, ChunkIs
    <2> QED BY <1>3, <2>3, <2>4
  <1>4. CASE c < b
    <2>1. c * Max + Max <= b * Max BY <1>4, Apart
    <2>2. k <= b * Max /\ k + 1 <= b * Max /\ k + 1 \in Nat BY <1>1, <2>1
    <2>3. Chunk(b, k) = <<>> BY ONLY <2>2, ChunkIs
    <2>4. Chunk(b, k + 1) = <<>> BY ONLY <2>2, ChunkIs
    <2> QED BY <1>4, <2>3, <2>4
  <1> QED BY <1>2, <1>3, <1>4

LEMMA ChunksInit == Init => PagesAreChunks
  <1> SUFFICES ASSUME Init, NEW b \in DOMAIN results PROVE results[b] = Chunk(b, i)
    BY DEF PagesAreChunks
  <1>1. bytes \in Nat BY SizeAssumption DEF Init
  <1>2. b \in Nat /\ results[b] = <<>> /\ i = 0 BY <1>1, PagesType DEF Init
  <1>3. 0 <= b * Max /\ 0 \in Nat BY <1>2, SizeAssumption
  <1> QED BY <1>2, <1>3, ChunkIs

LEMMA ChunksStep == TypeOK /\ Position /\ PagesAreChunks /\ [Next]_vars => PagesAreChunks'
  <1> SUFFICES ASSUME TypeOK, Position, PagesAreChunks, [Next]_vars PROVE PagesAreChunks'
    OBVIOUS
  <1>1. CASE UNCHANGED <<i, results>>
    <2>1. \A b \in DOMAIN results : Chunk(b, i)' = Chunk(b, i) BY <1>1 DEF Chunk
    <2> QED BY <1>1, <2>1 DEF PagesAreChunks
  <1>2. ASSUME results' = [results EXCEPT ![bucket] = Append(@, i + 1)], i' = i + 1
        PROVE PagesAreChunks'
    <2>1. SUFFICES ASSUME NEW b \in DOMAIN results PROVE results'[b] = Chunk(b, i + 1)
      BY <1>2 DEF PagesAreChunks, Chunk
    <2>2. /\ b \in Nat /\ bucket \in Nat /\ count \in 0..Max - 1 /\ i \in Nat
          /\ i = bucket * Max + count
      <3>1. bytes \in Nat BY SizeAssumption DEF TypeOK
      <3> QED BY <3>1, PagesType, SizeAssumption DEF TypeOK, Position
    <2>3. Chunk(b, i + 1) = IF b = bucket THEN Append(Chunk(b, i), i + 1) ELSE Chunk(b, i)
      BY ONLY <2>2, ChunkGrows
    <2>4. results[b] = Chunk(b, i) BY DEF PagesAreChunks
    <2> QED BY <1>2, <2>3, <2>4
  <1> QED
    BY <1>1, <1>2 DEF Next, AddRune, StartPlaylist, SpeakPage, Return, vars, text

\* For every text and page size, the pages are at every moment the consecutive
\* stretches of the runes read so far: none is lost, repeated or moved.
THEOREM PagesSpellTheText == Spec => []PagesAreChunks
  <1>1. Init => TypeOK /\ Position /\ PagesAreChunks BY PositionInit, ChunksInit
  <1>2. TypeOK /\ Position /\ PagesAreChunks /\ [Next]_vars
          => TypeOK' /\ Position' /\ PagesAreChunks'
    BY PositionStep, ChunksStep
  <1> QED BY <1>1, <1>2, PTL DEF Spec

(***************************************************************************)
(* The playlist speaks the text                                            *)
(***************************************************************************)

\* What the playlist holds while the pages are spoken: as many zero bytes as
\* there are pages, then the pages spoken so far.
Spoken ==
    /\ pc = "split" => page = 0
    /\ pc \in {"speak", "done"} =>
          /\ i = runes
          /\ Len(playlist) = Pages(bytes) + page
          /\ \A x \in 1..page : playlist[Pages(bytes) + x] = results[x - 1]
    /\ pc = "done" => page = Pages(bytes)

LEMMA SpokenInit == Init => Spoken
  BY DEF Init, Spoken

LEMMA SpokenStep == TypeOK /\ Spoken /\ [Next]_vars => Spoken'
  <1> SUFFICES ASSUME TypeOK, Spoken, [Next]_vars PROVE Spoken' OBVIOUS
  <1> USE DEF text
  <1>0. bytes \in Nat /\ Pages(bytes) \in Nat \ {0} BY PagesType, SizeAssumption DEF TypeOK
  <1>1. CASE AddRune BY <1>1 DEF AddRune, Spoken
  <1>2. CASE StartPlaylist
    <2>1. Len(playlist') = Pages(bytes) BY <1>0, <1>2 DEF StartPlaylist
    <2> QED BY <1>0, <1>2, <2>1 DEF StartPlaylist, Spoken
  <1>3. CASE SpeakPage
    <2>1. CASE pc' \in {"failed", "panic"} BY <2>1 DEF Spoken
    <2>2. CASE /\ playlist' = Append(playlist, results[NextPage]) /\ page' = page + 1
               /\ UNCHANGED pc
      <3>1. /\ pc = "speak" /\ page \in Nat /\ playlist \in Seq({ZeroByte} \cup Seq(1..runes))
            /\ Len(playlist) = Pages(bytes) + page /\ UNCHANGED <<i, runes, bytes, results>>
            /\ page < Pages(bytes)
        BY <1>0, <1>3 DEF SpeakPage, TypeOK, Spoken
      <3>2. results[page] \in {ZeroByte} \cup Seq(1..runes) BY <1>0, <3>1 DEF TypeOK
      <3>3. /\ Len(playlist') = Pages(bytes) + page + 1
            /\ \A x \in 1..Len(playlist) : playlist'[x] = playlist[x]
            /\ playlist'[Pages(bytes) + page + 1] = results[page]
        BY <2>2, <3>1, <3>2, AppendProperties DEF NextPage
      <3>4. \A x \in 1..page + 1 : playlist'[Pages(bytes) + x] = results[x - 1]
        <4> TAKE x \in 1..page + 1
        <4>1. CASE x = page + 1 BY <1>0, <3>1, <3>3, <4>1
        <4>2. CASE x \in 1..page
          <5>1. Pages(bytes) + x \in 1..Len(playlist) BY <1>0, <3>1, <4>2
          <5> QED BY <3>1, <3>3, <4>2, <5>1 DEF Spoken
        <4> QED BY <3>1, <4>1, <4>2
      <3>5. Pages(bytes') = Pages(bytes) BY <3>1
      <3> QED BY <1>0, <2>2, <3>1, <3>3, <3>4, <3>5 DEF Spoken
    <2> QED BY <1>3, <2>1, <2>2 DEF SpeakPage
  <1>4. CASE Return BY <1>4 DEF Return, Spoken
  <1>5. CASE UNCHANGED vars BY <1>5 DEF vars, Spoken
  <1> QED BY <1>1, <1>2, <1>3, <1>4, <1>5 DEF Next

\* Rune k is on page (k - 1) \div Max, which exists, at 1 + (k - 1) % Max.
LEMMA RuneOnItsPage ==
  ASSUME NEW r \in Nat, NEW len \in Nat, r <= len, NEW k \in 1..r
  PROVE  LET q == (k - 1) \div Max
             m == (k - 1) % Max
         IN  /\ q \in 0..Pages(len) - 1
             /\ 1 + m \in DOMAIN Chunk(q, r) /\ Chunk(q, r)[1 + m] = k
  <1> DEFINE q == (k - 1) \div Max
             m == (k - 1) % Max
  <1>1. /\ k - 1 \in Nat /\ Max \in Nat /\ Max > 0 /\ k - 1 < len
    BY SizeAssumption
  <1>2. /\ q \in Nat /\ m \in 0..Max - 1 /\ k - 1 = Max * q + m
    BY <1>1
  <1>3. Max * q = q * Max /\ q * Max \in Int BY <1>1, <1>2
  <1>4. q < Pages(len)
    <2>1. len < Max * Pages(len) /\ Pages(len) \in Nat BY Division, PagesType DEF Pages
    <2>2. SUFFICES ASSUME Pages(len) <= q PROVE FALSE BY <1>2, <2>1
    <2>3. Pages(len) * Max <= q * Max
      <3>1. CASE Pages(len) = q BY <3>1, <1>2, <1>3
      <3>2. CASE Pages(len) < q
        <4>1. Pages(len) * Max + Max <= q * Max BY ONLY <3>2, <1>2, <2>1, Apart
        <4>2. Pages(len) * Max \in Int BY <1>1, <2>1
        <4> QED BY <1>1, <1>3, <4>1, <4>2
      <3> QED BY <1>2, <2>1, <2>2, <3>1, <3>2
    <2>4. Pages(len) * Max = Max * Pages(len) /\ Pages(len) * Max \in Int BY <1>1, <2>1
    <2> QED BY <1>1, <1>2, <1>3, <2>1, <2>3, <2>4
  <1> HIDE DEF q, m
  <1>5. 1 + m \in DOMAIN Chunk(q, r) /\ Chunk(q, r)[1 + m] = q * Max + (1 + m)
    <2>1. CASE q * Max + Max <= r
      <3>1. Chunk(q, r) = [x \in 1..Max |-> q * Max + x] BY ONLY <1>2, <2>1, ChunkIs, r \in Nat
      <3> QED BY <1>1, <1>2, <3>1
    <2>2. CASE ~(q * Max + Max <= r)
      <3>1. q * Max <= r /\ r <= q * Max + Max /\ 1 + m \in 1..(r - q * Max)
        BY <1>1, <1>2, <1>3, <2>2
      <3>2. Chunk(q, r) = [x \in 1..(r - q * Max) |-> q * Max + x]
        BY ONLY <1>2, <3>1, ChunkIs, r \in Nat
      <3> QED BY <3>1, <3>2
    <2> QED BY <2>1, <2>2
  <1>6. q * Max + (1 + m) = k BY <1>1, <1>2, <1>3
  <1>7. q \in 0..Pages(len) - 1 BY <1>2, <1>4, PagesType
  <1> QED BY <1>5, <1>6, <1>7 DEF q, m

LEMMA SpokenIsOrdered == TypeOK /\ PagesAreChunks /\ Spoken => SpokenInOrder
  <1> SUFFICES ASSUME TypeOK, PagesAreChunks, Spoken, pc = "done" PROVE SpokenInOrder
    BY DEF SpokenInOrder
  <1>1. /\ runes \in Nat /\ bytes \in Nat /\ runes <= bytes
        /\ Pages(bytes) \in Nat /\ i = runes /\ page = Pages(bytes)
    BY PagesType, SizeAssumption DEF TypeOK, Spoken
  <1>2. Len(playlist) = 2 * Pages(bytes) BY <1>1 DEF Spoken
  <1>3. ASSUME NEW k \in 1..runes
        PROVE  LET spoken == playlist[Pages(bytes) + 1 + ((k - 1) \div Max)]
                   x == 1 + ((k - 1) % Max)
               IN  x \in DOMAIN spoken /\ spoken[x] = k
    <2> DEFINE q == (k - 1) \div Max
               x == 1 + ((k - 1) % Max)
    <2>1. q \in 0..Pages(bytes) - 1 /\ x \in DOMAIN Chunk(q, runes) /\ Chunk(q, runes)[x] = k
      BY ONLY <1>1, <1>3, RuneOnItsPage
    <2> HIDE DEF q, x
    <2>2. playlist[Pages(bytes) + (q + 1)] = results[(q + 1) - 1] BY <1>1, <2>1 DEF Spoken
    <2>3. (q + 1) - 1 = q /\ Pages(bytes) + (q + 1) = Pages(bytes) + 1 + q BY <1>1, <2>1
    <2>4. results[q] = Chunk(q, runes) BY <1>1, <2>1 DEF PagesAreChunks, TypeOK
    <2>5. playlist[Pages(bytes) + 1 + q] = Chunk(q, runes) BY <2>2, <2>3, <2>4
    <2> QED BY <2>1, <2>5 DEF q, x
  <1> QED BY <1>2, <1>3 DEF SpokenInOrder

\* Whenever TextToSpeech returns, for every text and page size, the playlist
\* speaks each rune once, in order, after its zero bytes.
THEOREM PlaylistSpeaksTheText == Spec => []SpokenInOrder
  <1>1. Init => TypeOK /\ Position /\ PagesAreChunks /\ Spoken
    BY PositionInit, ChunksInit, SpokenInit
  <1>2. TypeOK /\ Position /\ PagesAreChunks /\ Spoken /\ [Next]_vars
          => TypeOK' /\ Position' /\ PagesAreChunks' /\ Spoken'
    BY PositionStep, ChunksStep, SpokenStep
  <1>3. TypeOK /\ PagesAreChunks /\ Spoken => SpokenInOrder BY SpokenIsOrdered
  <1> QED BY <1>1, <1>2, <1>3, PTL DEF Spec

(***************************************************************************)
(* Counting the first requests of articles                                 *)
(***************************************************************************)

Rank(F, k) == Cardinality(F \cap 1..k)

LEMMA RankType == ASSUME NEW F, NEW k \in Nat
                  PROVE  Rank(F, k) \in Nat /\ IsFiniteSet(F \cap 1..k)
  <1>1. IsFiniteSet(1..k) BY FS_Interval
  <1>2. F \cap 1..k \subseteq 1..k OBVIOUS
  <1>3. IsFiniteSet(F \cap 1..k) BY <1>1, <1>2, FS_Subset
  <1> QED BY <1>3, FS_CardinalityType DEF Rank

LEMMA RankNext ==
  ASSUME NEW F, NEW k \in Nat
  PROVE  Rank(F, k + 1) = Rank(F, k) + (IF k + 1 \in F THEN 1 ELSE 0)
  <1>1. IsFiniteSet(F \cap 1..k) /\ Rank(F, k) \in Nat BY RankType
  <1>2. CASE k + 1 \in F
    <2>1. F \cap 1..(k + 1) = (F \cap 1..k) \cup {k + 1} /\ k + 1 \notin F \cap 1..k BY <1>2
    <2>2. Cardinality(F \cap 1..(k + 1)) = Cardinality(F \cap 1..k) + 1
      BY <1>1, <2>1, FS_AddElement
    <2> QED BY <1>2, <2>2 DEF Rank
  <1>3. CASE k + 1 \notin F
    <2>1. F \cap 1..(k + 1) = F \cap 1..k BY <1>3
    <2> QED BY <1>1, <1>3, <2>1 DEF Rank
  <1> QED BY <1>2, <1>3

LEMMA RankNone == ASSUME NEW F PROVE Rank(F, 0) = 0
  <1>1. F \cap 1..0 = {} OBVIOUS
  <1> QED BY <1>1, FS_EmptySet DEF Rank

LEMMA RankInside ==
  ASSUME NEW F, NEW k \in Nat \ {0}, k \in F, NEW m \in Nat, k <= m
  PROVE  Rank(F, k) \in 1..Rank(F, m)
  <1>1. IsFiniteSet(F \cap 1..k) /\ IsFiniteSet(F \cap 1..m) /\ Rank(F, k) \in Nat /\ Rank(F, m) \in Nat
    BY RankType
  <1>2. F \cap 1..k \subseteq F \cap 1..m /\ {k} \subseteq F \cap 1..k OBVIOUS
  <1>3. Rank(F, k) <= Rank(F, m) BY <1>1, <1>2, FS_Subset DEF Rank
  <1>4. 1 <= Rank(F, k)
    <2>1. Cardinality({k}) = 1 BY FS_Singleton
    <2>2. Cardinality({k}) <= Cardinality(F \cap 1..k) BY <1>1, <1>2, FS_Subset
    <2> QED BY <2>1, <2>2 DEF Rank
  <1> QED BY <1>1, <1>3, <1>4

(***************************************************************************)
(* What makes pages good                                                   *)
(***************************************************************************)

\* What the library promises: no request without its post.
Backed == IsFiniteSet(requests) /\ \A r \in requests : r.postId \in Lib!IdsOf(posts)

\* A reader makes one page; what it holds comes from the library.
OnePage ==
    /\ at \in {"idle", "view", "viewPost"} => phone = None
    /\ at \in {"idle", "all", "posts"} => id = None
    /\ phone = None \/ id = None
    /\ at \in {"idle", "all", "view", "viewPost"} => answer = <<>> /\ n = 1 /\ listed = <<>>
    /\ at = "viewPost" => request \in requests
    /\ \A k \in DOMAIN answer : answer[k] \in requests

\* A page that is not there was not promised.
Missing ==
    /\ at = "notFound" /\ phone # None => dbError
    /\ at = "notFound" /\ id \in Lib!IdsOf(before) => dbError

Filling == at = "posts" \/ (at = "served" /\ phone # None)

\* The answer has what was stored when the page was asked for, ...
Answered == Filling => \A r \in OfPhone(before, phone) : \E k \in DOMAIN answer : answer[k] = r

\* ... and of the part of it that was gone through, the first request of each
\* article is listed, in this order.
Listing ==
    Filling =>
    /\ at = "served" => n = Len(answer) + 1
    /\ Len(listed) = Rank(FirstOfEach, n - 1)
    /\ \A k \in FirstOfEach \cap 1..(n - 1) :
          listed[Rank(FirstOfEach, k)].request = answer[k]
    /\ \A k \in 1..(n - 1) : \E l \in DOMAIN listed : listed[l].request.postId = answer[k].postId
    /\ \A l \in DOMAIN listed :
          /\ \E k \in 1..(n - 1) : listed[l].request.postId = answer[k].postId
          /\ listed[l].post.id = listed[l].request.postId

FeedInv == FeedTypeOK /\ Backed /\ OnePage /\ Missing /\ Answered /\ Listing

LEMMA Initially == FInit => FeedInv
  <1> SUFFICES ASSUME FInit PROVE FeedInv OBVIOUS
  <1>1. Len(<<>>) = 0 /\ <<>> \in Seq(Lib!Request) /\ <<>> \in Seq(Item) /\ DOMAIN <<>> = {} OBVIOUS
  <1>2. FeedTypeOK
    <2>1. Lib!TypeOK BY DEF FInit, Lib!Init, Lib!TypeOK
    <2>2. Len(answer) = 0 /\ n = 1 BY <1>1 DEF FInit
    <2>3. n \in 1..Len(answer) + 1 BY <2>2
    <2> QED BY <1>1, <2>1, <2>3 DEF FInit, FeedTypeOK
  <1>3. Backed BY FS_EmptySet DEF FInit, Backed, Lib!Init
  <1>4. OnePage BY <1>1 DEF FInit, OnePage
  <1>5. Missing /\ Answered /\ Listing BY DEF FInit, Missing, Answered, Listing, Filling
  <1> QED BY <1>2, <1>3, <1>4, <1>5 DEF FeedInv

LEMMA Good == FeedInv => LinksStayGood /\ FeedIsExact
  <1> SUFFICES ASSUME FeedInv PROVE LinksStayGood /\ FeedIsExact OBVIOUS
  <1>1. LinksStayGood
    BY DEF FeedInv, Missing, LinksStayGood, LinkStaysGood, FeedFoundUnlessError
  <1>2. ASSUME at = "served", phone # None
        PROVE  /\ \A r \in OfPhone(before, phone) :
                     \E k \in DOMAIN listed : listed[k].post.id = r.postId
               /\ Len(listed) = Cardinality(FirstOfEach)
               /\ \A k \in FirstOfEach :
                     LET item == listed[Cardinality(FirstOfEach \cap 1..k)]
                     IN  item.request = answer[k] /\ item.post.id = answer[k].postId
    <2>1. Filling /\ n = Len(answer) + 1 /\ Len(answer) \in Nat /\ DOMAIN answer = 1..Len(answer)
      BY <1>2 DEF FeedInv, FeedTypeOK, Filling, Listing
    <2>2. n - 1 = Len(answer) BY <2>1
    <2>3. FirstOfEach \subseteq 1..Len(answer) BY <2>1 DEF FirstOfEach
    <2>4. FirstOfEach \cap 1..(n - 1) = FirstOfEach BY <2>2, <2>3
    <2>5. Len(listed) = Cardinality(FirstOfEach) BY <2>1, <2>4 DEF FeedInv, Listing, Rank
    <2>6. ASSUME NEW r \in OfPhone(before, phone)
          PROVE  \E k \in DOMAIN listed : listed[k].post.id = r.postId
      <3>1. PICK k \in DOMAIN answer : answer[k] = r BY <2>1 DEF FeedInv, Answered
      <3>2. k \in 1..(n - 1) BY <2>1, <2>2
      <3>3. PICK l \in DOMAIN listed : listed[l].request.postId = answer[k].postId
        BY <2>1, <3>2 DEF FeedInv, Listing
      <3> QED BY <2>1, <3>1, <3>3 DEF FeedInv, Listing
    <2>7. ASSUME NEW k \in FirstOfEach
          PROVE  /\ listed[Rank(FirstOfEach, k)].request = answer[k]
                 /\ listed[Rank(FirstOfEach, k)].post.id = answer[k].postId
      <3>1. listed[Rank(FirstOfEach, k)].request = answer[k]
        BY <2>1, <2>4 DEF FeedInv, Listing
      <3>2. k \in Nat \ {0} /\ k <= n - 1 /\ n - 1 \in Nat BY <2>1, <2>2, <2>3
      <3>3. Rank(FirstOfEach, k) \in 1..Rank(FirstOfEach, n - 1) BY <3>2, RankInside
      <3>4. Rank(FirstOfEach, k) \in DOMAIN listed
        BY <2>1, <3>3 DEF FeedInv, FeedTypeOK, Listing
      <3>5. listed[Rank(FirstOfEach, k)].post.id = listed[Rank(FirstOfEach, k)].request.postId
        BY <2>1, <3>4 DEF FeedInv, Listing
      <3> QED BY <3>1, <3>5
    <2> QED BY <2>5, <2>6, <2>7 DEF Rank
  <1>3. FeedIsExact
    BY <1>2 DEF FeedInv, FeedIsExact, FeedComplete, FeedIsDeduplicated
  <1> QED BY <1>1, <1>3

(***************************************************************************)
(* The steps                                                               *)
(***************************************************************************)

LEMMA LibraryStep == FeedInv /\ Lib!Next /\ UNCHANGED reader => FeedInv'
  <1> SUFFICES ASSUME FeedInv, Lib!Next, UNCHANGED reader PROVE FeedInv' OBVIOUS
  <1>1. UNCHANGED <<at, phone, id, request, answer, n, listed, before, dbError>> BY DEF reader
  <1>2. /\ Lib!TypeOK' /\ Backed' /\ requests \subseteq requests'
    <2>1. ASSUME NEW p \in Lib!Post, Lib!PublishPost(p)
          PROVE  Lib!TypeOK' /\ Backed' /\ requests \subseteq requests'
      <3>1. Lib!TypeOK' /\ requests \subseteq requests'
        BY <2>1 DEF Lib!PublishPost, Lib!TypeOK, FeedInv, FeedTypeOK
      <3>2. Backed' BY <2>1 DEF Lib!PublishPost, Lib!IdsOf, Backed, FeedInv
      <3> QED BY <3>1, <3>2
    <2>2. ASSUME NEW r \in Lib!Request, Lib!FileRequest(r)
          PROVE  Lib!TypeOK' /\ Backed' /\ requests \subseteq requests'
      <3>1. Lib!TypeOK' /\ requests \subseteq requests'
        BY <2>2 DEF Lib!FileRequest, Lib!TypeOK, FeedInv, FeedTypeOK
      <3>2. IsFiniteSet(requests')
        BY <2>2, FS_AddElement DEF Lib!FileRequest, Backed, FeedInv
      <3>3. Backed' BY <2>2, <3>2 DEF Lib!FileRequest, Lib!IdsOf, Backed, FeedInv
      <3> QED BY <3>1, <3>3
    <2> QED BY <2>1, <2>2 DEF Lib!Next
  <1>3. FeedTypeOK' BY <1>1, <1>2 DEF FeedInv, FeedTypeOK
  <1>4. OnePage' BY <1>1, <1>2 DEF FeedInv, OnePage
  <1>5. Missing' BY <1>1 DEF FeedInv, Missing, Lib!IdsOf
  <1>6. Answered' BY <1>1 DEF FeedInv, Answered, Filling, OfPhone
  <1>7. FirstOfEach' = FirstOfEach BY <1>1 DEF FirstOfEach
  <1>8. Listing' BY <1>1, <1>7 DEF FeedInv, Listing, Filling, Rank
  <1> QED BY <1>2, <1>3, <1>4, <1>5, <1>6, <1>8 DEF FeedInv

\* The reader changes nothing in the library.
LEMMA LibraryKept ==
  ASSUME FeedInv, UNCHANGED <<posts, requests>>
  PROVE  Lib!TypeOK' /\ Backed'
  BY DEF FeedInv, FeedTypeOK, Lib!TypeOK, Backed, Lib!IdsOf

LEMMA AskFeedStep == ASSUME FeedInv, NEW ph \in Phones, AskFeed(ph) PROVE FeedInv'
  <1>1. /\ at = "idle" /\ at' = "all" /\ phone' = ph /\ before' = requests
        /\ UNCHANGED <<posts, requests, id, request, answer, n, listed, dbError>>
    BY DEF AskFeed
  <1>2. phone = None BY <1>1 DEF FeedInv, OnePage
  <1>3. Lib!TypeOK' /\ Backed' BY <1>1, LibraryKept
  <1>4. FeedTypeOK' BY <1>1, <1>3 DEF FeedInv, FeedTypeOK
  <1>5. OnePage' BY <1>1, <1>2 DEF FeedInv, OnePage
  <1>6. Missing' /\ Answered' /\ Listing' BY <1>1 DEF Missing, Answered, Listing, Filling
  <1> QED BY <1>3, <1>4, <1>5, <1>6 DEF FeedInv

LEMMA ReadAllStep == ASSUME FeedInv, ReadAll PROVE FeedInv'
  <1>1. /\ at = "all"
        /\ UNCHANGED <<posts, requests, phone, id, request, n, listed, before>>
    BY DEF ReadAll
  <1>2. answer = <<>> /\ n = 1 /\ listed = <<>> /\ id = None BY <1>1 DEF FeedInv, OnePage
  <1>3. Lib!TypeOK' /\ Backed' BY <1>1, LibraryKept
  <1>4. CASE QueryFails /\ UNCHANGED answer
    <2>1. at' = "notFound" /\ dbError' = TRUE /\ answer' = answer
      BY <1>4 DEF QueryFails, NotFound
    <2>2. FeedTypeOK' BY <1>1, <1>3, <2>1 DEF FeedInv, FeedTypeOK
    <2>3. OnePage' BY <1>1, <1>2, <2>1 DEF FeedInv, OnePage
    <2>4. Missing' /\ Answered' /\ Listing' BY <2>1 DEF Missing, Answered, Listing, Filling
    <2> QED BY <1>3, <2>2, <2>3, <2>4 DEF FeedInv
  <1>5. ASSUME NEW S \in Read, answer' \in Orders(S), at' = "posts", UNCHANGED dbError
        PROVE  FeedInv'
    <2>1. S \subseteq requests /\ OfPhone(before, phone) \subseteq S BY DEF Read
    <2>2. IsFiniteSet(S) /\ Cardinality(S) \in Nat
      BY <2>1, FS_Subset, FS_CardinalityType DEF FeedInv, Backed
    <2>3. /\ answer' \in [1..Cardinality(S) -> S]
          /\ \A r \in S : \E k \in DOMAIN answer' : answer'[k] = r
      BY <1>5 DEF Orders
    <2>4. answer' \in Seq(S) BY <2>2, <2>3
    <2>5. requests \subseteq Lib!Request BY DEF FeedInv, FeedTypeOK, Lib!TypeOK
    <2>6. /\ answer' \in Seq(Lib!Request) /\ Len(answer') \in Nat
          /\ \A k \in DOMAIN answer' : answer'[k] \in requests
      <3>1. S \subseteq Lib!Request BY <2>1, <2>5
      <3>2. answer' \in Seq(Lib!Request) BY <2>2, <2>3, <3>1
      <3>3. \A k \in DOMAIN answer' : answer'[k] \in S BY <2>3
      <3> QED BY <2>1, <3>2, <3>3, LenProperties
    <2>7. FeedTypeOK'
      <3>1. n' \in 1..Len(answer') + 1 BY <1>1, <1>2, <2>6
      <3> QED BY <1>1, <1>3, <1>5, <2>6, <3>1 DEF FeedInv, FeedTypeOK
    <2>8. OnePage' BY <1>1, <1>2, <1>5, <2>6 DEF FeedInv, OnePage
    <2>9. Missing' BY <1>5 DEF Missing
    <2>10. Answered' BY <1>1, <2>1, <2>3 DEF Answered, OfPhone
    <2>11. Listing'
      <3>1. n' = 1 /\ listed' = <<>> /\ Len(<<>>) = 0 /\ DOMAIN <<>> = {} BY <1>1, <1>2
      <3>2. \A F : Rank(F, 0) = 0 BY RankNone
      <3>3. Rank(FirstOfEach', n' - 1) = 0 BY <3>1, <3>2
      <3>4. 1..(n' - 1) = {} BY <3>1
      <3>5. Rank(FirstOfEach, n - 1)' = Rank(FirstOfEach', n' - 1) BY DEF Rank
      <3> QED BY <1>5, <3>1, <3>3, <3>4, <3>5 DEF Listing
    <2> QED BY <1>3, <2>7, <2>8, <2>9, <2>10, <2>11 DEF FeedInv
  <1> QED BY <1>4, <1>5 DEF ReadAll

\* One request further: its article is listed when it is the first of it.
LEMMA TurnStep ==
  ASSUME FeedInv, at = "posts", n <= Len(answer), n' = n + 1,
         UNCHANGED <<at, posts, requests, phone, id, request, answer, before, dbError>>,
         \/ Listed(answer[n].postId) /\ listed' = listed
         \/ /\ ~Listed(answer[n].postId)
            /\ \E p \in GetPostById(answer[n].postId) :
                  listed' = Append(listed, [request |-> answer[n], post |-> p])
  PROVE  FeedInv'
  <1>0. Lib!TypeOK' /\ Backed' BY LibraryKept
  <1>1. /\ Len(answer) \in Nat /\ DOMAIN answer = 1..Len(answer) /\ n \in DOMAIN answer
        /\ n' - 1 = n /\ n' \in 1..Len(answer) + 1 /\ n \in Nat \ {0} /\ n - 1 \in Nat
        /\ answer[n] \in Lib!Request /\ answer[n] \in requests
    BY DEF FeedInv, FeedTypeOK, OnePage
  <1>2. Filling /\ Filling' BY DEF Filling
  <1>3. /\ listed \in Seq(Item) /\ Len(listed) \in Nat /\ DOMAIN listed = 1..Len(listed)
        /\ Len(listed) = Rank(FirstOfEach, n - 1)
        /\ \A k \in FirstOfEach \cap 1..(n - 1) :
              listed[Rank(FirstOfEach, k)].request = answer[k]
        /\ \A k \in 1..(n - 1) : \E l \in DOMAIN listed : listed[l].request.postId = answer[k].postId
        /\ \A l \in DOMAIN listed :
              /\ \E k \in 1..(n - 1) : listed[l].request.postId = answer[k].postId
              /\ listed[l].post.id = listed[l].request.postId
    BY <1>2, LenProperties DEF FeedInv, FeedTypeOK, Listing
  <1>4. n \in FirstOfEach <=> ~Listed(answer[n].postId)
    BY <1>1, <1>3 DEF FirstOfEach, Listed
  <1>5. FirstOfEach' = FirstOfEach BY DEF FirstOfEach
  <1>6. Rank(FirstOfEach, n) = Rank(FirstOfEach, n - 1) + (IF n \in FirstOfEach THEN 1 ELSE 0)
    <2>1. (n - 1) + 1 = n BY <1>1
    <2>2. \A F, k : k \in Nat => Rank(F, k + 1) = Rank(F, k) + (IF k + 1 \in F THEN 1 ELSE 0)
      BY RankNext
    <2>3. Rank(FirstOfEach, (n - 1) + 1)
            = Rank(FirstOfEach, n - 1) + (IF (n - 1) + 1 \in FirstOfEach THEN 1 ELSE 0)
      BY <1>1, <2>2
    <2> QED BY <2>1, <2>3
  <1>7. \A k \in FirstOfEach \cap 1..(n - 1) : Rank(FirstOfEach, k) \in DOMAIN listed
    <2> TAKE k \in FirstOfEach \cap 1..(n - 1)
    <2>1. k \in Nat \ {0} /\ k <= n - 1 BY <1>1
    <2>2. Rank(FirstOfEach, k) \in 1..Rank(FirstOfEach, n - 1) BY <1>1, <2>1, RankInside
    <2> QED BY <1>3, <2>2
  <1>8. /\ listed' \in Seq(Item) /\ Len(listed') = Rank(FirstOfEach, n)
        /\ \A l \in DOMAIN listed : l \in DOMAIN listed' /\ listed'[l] = listed[l]
        /\ n \in FirstOfEach => listed'[Rank(FirstOfEach, n)].request = answer[n]
        /\ \E l \in DOMAIN listed' : listed'[l].request.postId = answer[n].postId
        /\ \A l \in DOMAIN listed' :
              \/ l \in DOMAIN listed
              \/ /\ listed'[l].request = answer[n]
                 /\ listed'[l].post.id = listed'[l].request.postId
    <2>1. CASE Listed(answer[n].postId) /\ listed' = listed
      <3>1. n \notin FirstOfEach BY <1>4, <2>1
      <3>2. Rank(FirstOfEach, n - 1) \in Nat BY <1>1, RankType
      <3>3. Rank(FirstOfEach, n) = Len(listed) BY <1>3, <1>6, <3>1, <3>2
      <3>4. \E l \in DOMAIN listed : listed[l].request.postId = answer[n].postId
        BY <2>1 DEF Listed
      <3> QED BY <1>3, <2>1, <3>1, <3>3, <3>4
    <2>2. CASE /\ ~Listed(answer[n].postId)
               /\ \E p \in GetPostById(answer[n].postId) :
                     listed' = Append(listed, [request |-> answer[n], post |-> p])
      <3>1. PICK p \in GetPostById(answer[n].postId) :
               listed' = Append(listed, [request |-> answer[n], post |-> p])
        BY <2>2
      <3> DEFINE item == [request |-> answer[n], post |-> p]
      <3>2. item \in Item /\ item.request = answer[n] /\ item.post.id = answer[n].postId
        BY <1>1 DEF Item, GetPostById, FeedInv, FeedTypeOK, Lib!TypeOK
      <3>3. listed' = Append(listed, item) BY <3>1
      <3> HIDE DEF item
      <3>4. /\ listed' \in Seq(Item) /\ Len(listed') = Len(listed) + 1
            /\ \A l \in 1..Len(listed) : listed'[l] = listed[l]
            /\ listed'[Len(listed) + 1] = item
        BY <1>3, <3>2, <3>3, AppendProperties
      <3>5. DOMAIN listed' = 1..(Len(listed) + 1) BY <3>4, LenProperties
      <3>6. n \in FirstOfEach /\ Rank(FirstOfEach, n) = Len(listed) + 1
        BY <1>3, <1>4, <1>6, <2>2
      <3>7. Len(listed) + 1 \in DOMAIN listed' BY <1>3, <3>5
      <3>8. \A l \in DOMAIN listed' : l \in DOMAIN listed \/ l = Len(listed) + 1
        BY <1>3, <3>5
      <3>9. \A l \in DOMAIN listed : l \in DOMAIN listed' BY <1>3, <3>5
      <3> QED BY <1>3, <3>2, <3>4, <3>6, <3>7, <3>8, <3>9
    <2> QED BY <2>1, <2>2
  <1>9. FeedTypeOK' BY <1>0, <1>1, <1>8 DEF FeedInv, FeedTypeOK
  <1>10. OnePage' BY <1>1 DEF FeedInv, OnePage
  <1>11. Missing' BY DEF Missing
  <1>12. Answered' BY <1>2 DEF FeedInv, Answered, OfPhone
  <1>13. Listing'
    <2>1. \A k \in FirstOfEach \cap 1..n : listed'[Rank(FirstOfEach, k)].request = answer[k]
      <3> TAKE k \in FirstOfEach \cap 1..n
      <3>1. CASE k = n BY <1>8, <3>1
      <3>2. CASE k # n
        <4>1. k \in FirstOfEach \cap 1..(n - 1) BY <1>1, <3>2
        <4> QED BY <1>3, <1>7, <1>8, <4>1
      <3> QED BY <3>1, <3>2
    <2>2. \A k \in 1..n : \E l \in DOMAIN listed' : listed'[l].request.postId = answer[k].postId
      <3> TAKE k \in 1..n
      <3>1. CASE k = n BY <1>8, <3>1
      <3>2. CASE k # n
        <4>1. k \in 1..(n - 1) BY <1>1, <3>2
        <4>2. PICK l \in DOMAIN listed : listed[l].request.postId = answer[k].postId
          BY <1>3, <4>1
        <4>3. l \in DOMAIN listed' /\ listed'[l] = listed[l] BY <1>8
        <4> QED BY <4>2, <4>3
      <3> QED BY <3>1, <3>2
    <2>3. \A l \in DOMAIN listed' :
              /\ \E k \in 1..n : listed'[l].request.postId = answer[k].postId
              /\ listed'[l].post.id = listed'[l].request.postId
      <3> TAKE l \in DOMAIN listed'
      <3>1. CASE l \in DOMAIN listed
        <4>1. PICK k \in 1..(n - 1) : listed[l].request.postId = answer[k].postId BY <1>3, <3>1
        <4>2. k \in 1..n BY <1>1
        <4> QED BY <1>3, <1>8, <3>1, <4>1, <4>2
      <3>2. CASE l \notin DOMAIN listed
        <4>1. n \in 1..n BY <1>1
        <4> QED BY <1>8, <3>2, <4>1
      <3> QED BY <3>1, <3>2
    <2>4. /\ Rank(FirstOfEach, n - 1)' = Rank(FirstOfEach, n)
          /\ \A k : Rank(FirstOfEach, k)' = Rank(FirstOfEach, k)
      BY <1>1, <1>5 DEF Rank
    <2>5. at' # "served" BY DEF Filling
    <2> QED BY <1>1, <1>5, <1>8, <2>1, <2>2, <2>3, <2>4, <2>5 DEF Listing, Rank
  <1> QED BY <1>0, <1>9, <1>10, <1>11, <1>12, <1>13 DEF FeedInv

LEMMA NextRequestStep == ASSUME FeedInv, NextRequest PROVE FeedInv'
  <1>1. /\ at = "posts" /\ n <= Len(answer)
        /\ UNCHANGED <<posts, requests, phone, id, request, answer, before>>
    BY DEF NextRequest
  <1>2. CASE ~Listed(answer[n].postId) /\ NoPostById(answer[n].postId) /\ UNCHANGED <<n, listed>>
    <2>1. /\ at' = "notFound" /\ dbError' = (GetPostById(answer[n].postId) # {})
          /\ UNCHANGED <<n, listed>>
      BY <1>2 DEF NoPostById, NotFound
    <2>2. GetPostById(answer[n].postId) # {}
      <3>1. n \in DOMAIN answer BY <1>1 DEF FeedInv, FeedTypeOK
      <3>2. answer[n].postId \in Lib!IdsOf(posts) BY <3>1 DEF FeedInv, OnePage, Backed
      <3> QED BY <3>2 DEF GetPostById, Lib!IdsOf
    <2>3. Lib!TypeOK' /\ Backed' BY <1>1, LibraryKept
    <2>4. FeedTypeOK' BY <1>1, <2>1, <2>3 DEF FeedInv, FeedTypeOK
    <2>5. OnePage' BY <1>1, <2>1 DEF FeedInv, OnePage
    <2>6. Missing' /\ Answered' /\ Listing' BY <2>1, <2>2 DEF Missing, Answered, Listing, Filling
    <2> QED BY <2>3, <2>4, <2>5, <2>6 DEF FeedInv
  <1>3. CASE /\ n' = n + 1 /\ UNCHANGED <<at, dbError>>
             /\ \/ Listed(answer[n].postId) /\ listed' = listed
                \/ /\ ~Listed(answer[n].postId)
                   /\ \E p \in GetPostById(answer[n].postId) :
                         listed' = Append(listed, [request |-> answer[n], post |-> p])
    BY <1>1, <1>3, TurnStep
  <1> QED BY <1>2, <1>3 DEF NextRequest

LEMMA WriteFeedStep == ASSUME FeedInv, WriteFeed PROVE FeedInv'
  <1>1. /\ at = "posts" /\ n = Len(answer) + 1 /\ at' = "served"
        /\ UNCHANGED <<posts, requests, phone, id, request, answer, n, listed, before, dbError>>
    BY DEF WriteFeed
  <1>2. Lib!TypeOK' /\ Backed' BY <1>1, LibraryKept
  <1>3. FeedTypeOK' BY <1>1, <1>2 DEF FeedInv, FeedTypeOK
  <1>4. OnePage' BY <1>1 DEF FeedInv, OnePage
  <1>5. Missing' BY <1>1 DEF Missing
  <1>6. Filling BY <1>1 DEF Filling
  <1>7. Answered' BY <1>1, <1>6 DEF FeedInv, Answered, OfPhone
  <1>8. FirstOfEach' = FirstOfEach BY <1>1 DEF FirstOfEach
  <1>9. Listing' BY <1>1, <1>6, <1>8 DEF FeedInv, Listing, Rank
  <1> QED BY <1>2, <1>3, <1>4, <1>5, <1>7, <1>9 DEF FeedInv

LEMMA ViewStep ==
  ASSUME FeedInv, NEW x \in Ids, NEW wellFormed \in BOOLEAN, View(x, wellFormed)
  PROVE  FeedInv'
  <1>1. /\ at = "idle" /\ before' = requests
        /\ \/ wellFormed /\ at' = "view" /\ id' = x
           \/ ~wellFormed /\ at' = "notFound" /\ id' = None
        /\ UNCHANGED <<posts, requests, phone, request, answer, n, listed, dbError>>
    BY DEF View, NotFound
  <1>2. Lib!TypeOK' /\ Backed' BY <1>1, LibraryKept
  <1>3. phone = None BY <1>1 DEF FeedInv, OnePage
  <1>4. FeedTypeOK' BY <1>1, <1>2 DEF FeedInv, FeedTypeOK
  <1>5. OnePage' BY <1>1, <1>3 DEF FeedInv, OnePage
  <1>6. Missing'
    <2>1. \A r \in requests : r.id \in Ids
      BY DEF FeedInv, FeedTypeOK, Lib!TypeOK, Lib!Request
    <2>2. None \notin Lib!IdsOf(requests) BY <2>1, NoneAssumption DEF Lib!IdsOf
    <2> QED BY <1>1, <1>3, <2>2 DEF Missing, Lib!IdsOf
  <1>7. Answered' /\ Listing' BY <1>1 DEF Answered, Listing, Filling
  <1> QED BY <1>2, <1>4, <1>5, <1>6, <1>7 DEF FeedInv

LEMMA FindRequestStep == ASSUME FeedInv, FindRequest PROVE FeedInv'
  <1>1. /\ at = "view"
        /\ UNCHANGED <<posts, requests, phone, id, answer, n, listed, before>>
        /\ \/ (\E r \in requests : r.id = id /\ request' = r) /\ at' = "viewPost" /\ UNCHANGED dbError
           \/ /\ id \notin Lib!IdsOf(requests) /\ at' = "notFound" /\ UNCHANGED <<request, dbError>>
           \/ /\ at' = "notFound" /\ dbError' = TRUE /\ UNCHANGED request
    BY DEF FindRequest, NotFound, QueryFails
  <1>2. Lib!TypeOK' /\ Backed' BY <1>1, LibraryKept
  <1>3. phone = None BY <1>1 DEF FeedInv, OnePage
  <1>4. requests \subseteq Lib!Request /\ before \subseteq requests
    BY DEF FeedInv, FeedTypeOK, Lib!TypeOK
  <1>5. FeedTypeOK' BY <1>1, <1>2, <1>4 DEF FeedInv, FeedTypeOK
  <1>6. OnePage' BY <1>1, <1>3 DEF FeedInv, OnePage
  <1>7. Missing' BY <1>1, <1>3, <1>4 DEF Missing, Lib!IdsOf
  <1>8. Answered' /\ Listing' BY <1>1 DEF Answered, Listing, Filling
  <1> QED BY <1>2, <1>5, <1>6, <1>7, <1>8 DEF FeedInv

LEMMA FindItsPostStep == ASSUME FeedInv, FindItsPost PROVE FeedInv'
  <1>1. /\ at = "viewPost"
        /\ UNCHANGED <<posts, requests, phone, id, request, answer, n, before>>
        /\ \/ /\ \E p \in GetPostById(request.postId) : listed' = <<[request |-> request, post |-> p]>>
              /\ at' = "served" /\ UNCHANGED dbError
           \/ /\ at' = "notFound" /\ dbError' = (GetPostById(request.postId) # {})
              /\ UNCHANGED listed
    BY DEF FindItsPost, NoPostById, NotFound
  <1>2. Lib!TypeOK' /\ Backed' BY <1>1, LibraryKept
  <1>3. phone = None /\ request \in requests BY <1>1 DEF FeedInv, OnePage
  <1>4. GetPostById(request.postId) # {}
    BY <1>3 DEF FeedInv, Backed, GetPostById, Lib!IdsOf
  <1>5. listed' \in Seq(Item)
    <2>1. ASSUME NEW p \in GetPostById(request.postId)
          PROVE  <<[request |-> request, post |-> p]>> \in Seq(Item)
      <3>1. [request |-> request, post |-> p] \in Item
        BY <1>3 DEF Item, GetPostById, FeedInv, FeedTypeOK, Lib!TypeOK
      <3> QED BY <3>1
    <2> QED BY <1>1, <2>1 DEF FeedInv, FeedTypeOK
  <1>6. FeedTypeOK' BY <1>1, <1>2, <1>5 DEF FeedInv, FeedTypeOK
  <1>7. OnePage' BY <1>1, <1>3 DEF FeedInv, OnePage
  <1>8. Missing' BY <1>1, <1>3, <1>4 DEF Missing
  <1>9. Answered' /\ Listing' BY <1>1, <1>3 DEF Answered, Listing, Filling
  <1> QED BY <1>2, <1>6, <1>7, <1>8, <1>9 DEF FeedInv

LEMMA FeedStep == FeedInv /\ [FNext]_fvars => FeedInv'
  <1> SUFFICES ASSUME FeedInv, [FNext]_fvars PROVE FeedInv' OBVIOUS
  <1>1. CASE Reader
    BY <1>1, AskFeedStep, ReadAllStep, NextRequestStep, WriteFeedStep, ViewStep,
       FindRequestStep, FindItsPostStep DEF Reader
  <1>2. CASE Lib!Next /\ UNCHANGED reader BY <1>2, LibraryStep
  <1>3. CASE UNCHANGED fvars
    <2>1. UNCHANGED <<posts, requests, at, phone, id, request, answer, n, listed, before, dbError>>
      BY <1>3 DEF fvars, reader
    <2>2. Lib!TypeOK' /\ Backed' BY <2>1, LibraryKept
    <2>3. FeedTypeOK' BY <2>1, <2>2 DEF FeedInv, FeedTypeOK
    <2>4. OnePage' /\ Missing' BY <2>1 DEF FeedInv, OnePage, Missing, Lib!IdsOf
    <2>5. Answered' BY <2>1 DEF FeedInv, Answered, Filling, OfPhone
    <2>6. FirstOfEach' = FirstOfEach BY <2>1 DEF FirstOfEach
    <2>7. Listing' BY <2>1, <2>6 DEF FeedInv, Listing, Filling, Rank
    <2> QED BY <2>2, <2>3, <2>4, <2>5, <2>7 DEF FeedInv
  <1> QED BY <1>1, <1>2, <1>3 DEF FNext

\* A link that was handed out shows its article, and a feed is there, unless a
\* query failed: whatever is stored meanwhile.
THEOREM LinksAreGood == FSpec => []LinksStayGood
  BY Initially, FeedStep, Good, PTL DEF FSpec

\* A feed that is served has every article the phone had asked for before, each
\* once, under its first request in the answer's order.
THEOREM FeedsAreExact == FSpec => []FeedIsExact
  BY Initially, FeedStep, Good, PTL DEF FSpec

=============================================================================
