-------------------------------- MODULE Fifo --------------------------------
(* A queue: what is popped are the elements in the order they were pushed.  *)
EXTENDS Sequences, Naturals
CONSTANTS Elems, None
VARIABLES contents, popped
vars == <<contents, popped>>

Init == contents = <<>> /\ popped = None
Push(e) == contents' = Append(contents, e) /\ popped' = None
Pop ==
    IF contents = <<>> THEN popped' = None /\ UNCHANGED contents
    ELSE popped' = Head(contents) /\ contents' = Tail(contents)
Next == Pop \/ \E e \in Elems : Push(e)
Spec == Init /\ [][Next]_vars
=============================================================================
