------------------------------ MODULE MgoQueue ------------------------------
(* The ring buffer that holds the documents an iterator has received.  It    *)
(* grows when it is full, and keeps what is between popi and the end at the  *)
(* end of the larger buffer.  None is both "no element" and a cleared slot.  *)
EXTENDS Integers, Sequences, FiniteSets
CONSTANTS
    Elems, None,
    First,      \* the capacity at first (8)
    Doubles,    \* capacities below this one are doubled (1024), others grow by a quarter
    MaxPushes   \* bound on pushes
ASSUME QueueAssumption ==
    /\ None \notin Elems /\ First \in Nat \ {0} /\ MaxPushes \in Nat
    /\ Doubles \in Nat /\ Doubles >= 4

VARIABLES elems, nelems, popi, pushi, popped, pushes
vars == <<elems, nelems, popi, pushi, popped, pushes>>

Init ==
    /\ elems = [i \in {} |-> None] /\ nelems = 0 /\ popi = 0 /\ pushi = 0
    /\ popped = None /\ pushes = 0

Cap == Cardinality(DOMAIN elems)
NewCap == IF Cap = 0 THEN First ELSE IF Cap < Doubles THEN Cap * 2 ELSE Cap + Cap \div 4

\* expand: the new elements, and where to pop and push
Expanded ==
    IF popi = 0
    THEN [elems |-> [i \in 0..NewCap - 1 |-> IF i < Cap THEN elems[i] ELSE None], popi |-> 0, pushi |-> Cap]
    ELSE LET newpopi == NewCap - (Cap - popi) IN
         [elems |-> [i \in 0..NewCap - 1 |-> IF i < popi THEN elems[i]
                                             ELSE IF i >= newpopi THEN elems[i - newpopi + popi] ELSE None],
          popi |-> newpopi, pushi |-> pushi]

\* The buffer that is pushed to (_Half: where to pop has not moved)
Buffer_Half == IF nelems = Cap THEN [Expanded EXCEPT !.popi = popi]
               ELSE [elems |-> elems, popi |-> popi, pushi |-> pushi]
Buffer == IF nelems = Cap THEN Expanded ELSE [elems |-> elems, popi |-> popi, pushi |-> pushi]

Push(e) ==
    /\ pushes < MaxPushes /\ pushes' = pushes + 1
    /\ elems' = [Buffer.elems EXCEPT ![Buffer.pushi] = e]
    /\ nelems' = nelems + 1
    /\ pushi' = (Buffer.pushi + 1) % Cardinality(DOMAIN Buffer.elems)
    /\ popi' = Buffer.popi
    /\ popped' = None

Pop ==
    /\ IF nelems = 0 THEN popped' = None /\ UNCHANGED <<elems, nelems, popi>>
       ELSE /\ popped' = elems[popi]
            /\ elems' = [elems EXCEPT ![popi] = None]
            /\ nelems' = nelems - 1
            /\ popi' = (popi + 1) % Cap
    /\ UNCHANGED <<pushi, pushes>>

Next == Pop \/ \E e \in Elems : Push(e)
Spec == Init /\ [][Next]_vars

(***************************************************************************)
(* Properties                                                              *)
(***************************************************************************)

\* Popping returns what was pushed, in that order, through any growth of a
\* buffer that has wrapped around.
Queue == INSTANCE Fifo WITH contents <- [i \in 1..nelems |-> elems[(popi + i - 1) % Cap]]
IsFifo == Queue!Spec

=============================================================================
