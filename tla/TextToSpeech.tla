---------------------------- MODULE TextToSpeech ----------------------------
(***************************************************************************)
(* services.TextToSpeech: the text is cut into pages of Max runes, the     *)
(* number of pages being computed from the length of the text in bytes,    *)
(* and each page is sent to Ivona in turn.  A rune takes 1 to 4 bytes (an  *)
(* invalid byte counts as one rune).  The runes of the text are numbered   *)
(* from 1; page b is results[b], b from 0.                                 *)
(***************************************************************************)
EXTENDS Integers, Sequences

CONSTANTS
    Max,        \* runes on a page (4096)
    MaxRunes    \* bound on the length of the text

ASSUME SizeAssumption == Max \in Nat \ {0} /\ MaxRunes \in Nat

VARIABLES
    pc,
    runes, bytes,       \* len([]rune(text)) and len(text)
    i,                  \* runes handed out so far
    count, bucket,
    results,
    page,               \* pages spoken so far
    playlist            \* zero bytes, and the audio of a page as that page

text == <<runes, bytes>>
vars == <<pc, text, i, count, bucket, results, page, playlist>>

\* one byte of value zero, told apart from the audio of any page
ZeroByte == <<0>>

\* make([]string, (len(text)/max)+1) (_Exact: without the page of the remainder)
Pages_Exact(len) == len \div Max
Pages(len) == (len \div Max) + 1

TypeOK ==
    /\ pc \in {"split", "speak", "done", "failed", "panic"}
    /\ runes \in 0..MaxRunes /\ bytes \in runes..4 * runes
    /\ i \in 0..runes /\ count \in 0..Max - 1 /\ bucket \in Nat
    /\ results \in [0..Pages(bytes) - 1 -> Seq(1..runes)]
    /\ page \in 0..Pages(bytes)
    /\ playlist \in Seq({ZeroByte} \cup Seq(1..runes))

Init ==
    /\ pc = "split"
    /\ runes \in 0..MaxRunes /\ bytes \in runes..4 * runes
    /\ i = 0 /\ count = 0 /\ bucket = 0
    /\ results = [b \in 0..Pages(bytes) - 1 |-> <<>>]
    /\ page = 0 /\ playlist = <<>>

\* Whether the page is full. (_Late: noticed one rune too late)
Full_Late(c) == c > Max
Full(c) == c = Max

\* One turn of the loop over the runes.  An index out of range is a panic.
AddRune ==
    /\ pc = "split" /\ i < runes
    /\ \/ /\ bucket \in DOMAIN results
          /\ results' = [results EXCEPT ![bucket] = Append(@, i + 1)]
          /\ i' = i + 1
          /\ IF Full(count + 1) THEN bucket' = bucket + 1 /\ count' = 0
                                ELSE bucket' = bucket /\ count' = count + 1
          /\ UNCHANGED pc
       \/ /\ bucket \notin DOMAIN results
          /\ pc' = "panic"
          /\ UNCHANGED <<i, count, bucket, results>>
    /\ UNCHANGED <<text, page, playlist>>

\* playlist := make([]byte, len(results)): as many zero bytes as pages
StartPlaylist ==
    /\ pc = "split" /\ i = runes
    /\ playlist' = [b \in 1..Pages(bytes) |-> ZeroByte]
    /\ pc' = "speak"
    /\ UNCHANGED <<text, i, count, bucket, results, page>>

\* The page that is spoken next. (_Reversed: the last one first)
NextPage_Reversed == Pages(bytes) - 1 - page
NextPage == page

\* CreateSpeech of the next page, empty or not; one error ends it all, an
\* answer without Ivona's headers is an index out of range.
SpeakPage ==
    /\ pc = "speak" /\ page < Pages(bytes)
    /\ \/ /\ playlist' = Append(playlist, results[NextPage])
          /\ page' = page + 1
          /\ UNCHANGED pc
       \/ /\ pc' \in {"failed", "panic"}
          /\ UNCHANGED <<page, playlist>>
    /\ UNCHANGED <<text, i, count, bucket, results>>

Return == /\ pc = "speak" /\ page = Pages(bytes)
          /\ pc' = "done"
          /\ UNCHANGED <<text, i, count, bucket, results, page, playlist>>

Next == AddRune \/ StartPlaylist \/ SpeakPage \/ Return

Spec == Init /\ [][Next]_vars

(***************************************************************************)
(* Properties                                                              *)
(***************************************************************************)

\* The pagination never indexes past results, whatever the text: the number of
\* pages counts bytes while the pages are filled with runes, never more.
InRange == pc = "split" /\ i < runes => bucket \in DOMAIN results

\* What the b-th page of the first k runes is, by definition.
Chunk(b, k) ==
    LET last == IF (b + 1) * Max <= k THEN (b + 1) * Max ELSE k
    IN  [x \in 1..(IF last > b * Max THEN last - b * Max ELSE 0) |-> b * Max + x]

\* The pages are the consecutive stretches of Max runes, the last one shorter,
\* and what follows it empty.
PagesAreChunks == \A b \in DOMAIN results : results[b] = Chunk(b, i)

\* A playlist that is returned speaks every rune of the text once, in the order
\* of the text: behind the zero bytes, rune k is where pages of Max put it.
SpokenInOrder ==
    pc = "done" =>
        /\ Len(playlist) = 2 * Pages(bytes)
        /\ \A k \in 1..runes :
              LET spoken == playlist[Pages(bytes) + 1 + ((k - 1) \div Max)]
                  x == 1 + ((k - 1) % Max)
              IN  x \in DOMAIN spoken /\ spoken[x] = k

\* "TextToSpeech paginates text and returns appended audio bytes": nothing but
\* audio is in the playlist.
OnlyAudio == pc = "done" => \A x \in DOMAIN playlist : playlist[x] # ZeroByte
=============================================================================
