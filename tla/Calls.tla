------------------------------- MODULE Calls -------------------------------
(***************************************************************************)
(* What a socket promises to the calls made over it: a call gets its own   *)
(* documents, and after them exactly one end, good or bad.                 *)
(***************************************************************************)
EXTENDS Integers

CONSTANTS
    Calls,
    MaxDocs     \* bound on the documents of a reply

VARIABLES status, received

vars == <<status, received>>

Init ==
    /\ status = [c \in Calls |-> "none"]
    /\ received = [c \in Calls |-> 0]

Begin(c) ==
    /\ status[c] = "none"
    /\ status' = [status EXCEPT ![c] = "pending"]
    /\ UNCHANGED received

Deliver(c) ==
    /\ status[c] = "pending" /\ received[c] < MaxDocs
    /\ received' = [received EXCEPT ![c] = @ + 1]
    /\ status' \in {status, [status EXCEPT ![c] = "answered"]}

Answer(c) ==
    /\ status[c] = "pending" /\ received[c] = 0
    /\ status' = [status EXCEPT ![c] = "answered"]
    /\ UNCHANGED received

\* A call may also fail at once, over a socket that is dead already; and a
\* dying socket fails what it has left in one go.
Fail(S) ==
    /\ \A c \in S : status[c] \in {"none", "pending"}
    /\ status' = [c \in Calls |-> IF c \in S THEN "failed" ELSE status[c]]
    /\ UNCHANGED received

Next == \/ \E c \in Calls : Begin(c) \/ Deliver(c) \/ Answer(c)
        \/ \E S \in SUBSET Calls : Fail(S)

Spec == Init /\ [][Next]_vars
============================================================================
