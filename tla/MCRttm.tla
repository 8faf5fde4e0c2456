------------------------------- MODULE MCRttm -------------------------------
(***************************************************************************)
(* Small instances of Rttm: two jobs with every fault or in more seconds   *)
(* than there are names, or three jobs that crowd into the same second.    *)
(* instance says which of them a behaviour is of.                          *)
(***************************************************************************)
EXTENDS Rttm, TLC

CONSTANTS
    u1, u2, empty,   \* two pages, and the empty string
    ph1, ph2
VARIABLE instance

MCUrls      == {u1, u2, empty}
MCValidUrls == {u1, u2}
\* u2 is a second address of u1, and for u1 Embedly may name no address at all.
MCCanonical == (u1 :> {u1, empty}) @@ (u2 :> {u1})

\* Two jobs and every fault
Faulty == INSTANCE Rttm WITH MaxClock <- 0
\* Two jobs while the name of an audio comes round again
Wraps == INSTANCE Rttm WITH Phones <- {ph1}, MaxWords <- 0, Faults <- {"kill", "put", "insert", "socket"}
\* Three jobs in two seconds, and sockets that die
Crowd == INSTANCE Rttm WITH
    Canonical <- (u1 :> {u1}) @@ (u2 :> {u1}), Phones <- {ph1}, MaxClock <- 1, MaxWords <- 0,
    Faults <- {"socket"}
ASSUME InstancesAssumption ==
    /\ Faulty!BoundAssumption /\ Wraps!FaultAssumption
    /\ Crowd!UrlAssumption /\ Crowd!BoundAssumption /\ Crowd!FaultAssumption

TwoJobs == Cardinality({j \in Jobs : pc[j] # "idle"}) <= 2

AnyInit == instance \in {"faulty", "wraps", "crowd"} /\ Init
AnyNext ==
    \/ instance = "faulty" /\ Faulty!Next /\ TwoJobs' /\ UNCHANGED instance
    \/ instance = "wraps" /\ Wraps!Next /\ TwoJobs' /\ UNCHANGED instance
    \/ instance = "crowd" /\ Crowd!Next /\ UNCHANGED instance
AnySpec == AnyInit /\ [][AnyNext]_<<instance, vars>>

Symmetric == Permutations(Jobs) \cup Permutations(Phones)
=============================================================================
