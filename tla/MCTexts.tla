------------------------------ MODULE MCTexts ------------------------------
(***************************************************************************)
(* Pages of a few runes: texts of every length up to some pages, and for   *)
(* each every length in bytes that UTF-8 can give it; and the pages of a   *)
(* library of a few documents.  instance says which of the two a behaviour *)
(* is of; the variables of the other stay as they are.                     *)
(***************************************************************************)
EXTENDS TextToSpeech, Feed, TLC

VARIABLE instance

NoText == Init /\ runes = 0 /\ bytes = 0

AnyInit ==
    \/ instance = "text" /\ Init /\ FInit
    \/ instance = "reader" /\ NoText /\ FInit
AnyNext ==
    \/ instance = "text" /\ Next /\ UNCHANGED <<instance, fvars>>
    \/ instance = "reader" /\ FNext /\ UNCHANGED <<instance, vars>>
AnySpec == AnyInit /\ [][AnyNext]_<<instance, vars, fvars>>

Symmetric == Permutations(Phones) \cup Permutations(Ids)
=============================================================================
