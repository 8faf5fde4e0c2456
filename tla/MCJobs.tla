------------------------------- MODULE MCJobs -------------------------------
(***************************************************************************)
(* Small instances of Rttm for what holds of a job from some time on, or   *)
(* must hold at last: any fault, none, a database that answers, and one    *)
(* that does not.  instance says which of them a behaviour is of.          *)
(***************************************************************************)
EXTENDS Rttm, TLC

CONSTANTS u1, u2, empty   \* two pages, and the empty string
VARIABLE instance

MCUrls      == {u1, u2, empty}
MCValidUrls == {u1, u2}
\* u2 is a second address of u1.
MCAlias     == (u1 :> {u1}) @@ (u2 :> {u1})

AnyFault == INSTANCE Rttm WITH Canonical <- (u1 :> {u1}) @@ (u2 :> {u2}), MaxWords <- 0, MaxClock <- 0
NoFault == INSTANCE Rttm WITH Faults <- {}
Answers == INSTANCE Rttm WITH Faults <- FaultKinds \ {"socket", "query", "acquire"}, MaxWords <- 0
Dies == INSTANCE Rttm WITH Faults <- {"socket", "query", "acquire", "insert"}, MaxWords <- 0
\* Extraction and speech may fail.
Troubled == INSTANCE Rttm WITH Faults <- {"text", "speech"}, MaxClock <- 0, MaxWords <- 0
ASSUME InstancesAssumption == AnyFault!UrlAssumption /\ Answers!FaultAssumption /\ Dies!FaultAssumption

all == <<instance, vars>>
AnyInit ==
    \/ instance = "anyFault" /\ AnyFault!Init
    \/ instance \in {"noFault", "answers", "dies"} /\ Init
AnyNext ==
    \/ instance = "anyFault" /\ AnyFault!Next /\ UNCHANGED instance
    \/ instance = "noFault" /\ NoFault!Next /\ UNCHANGED instance
    \/ instance = "answers" /\ Answers!Next /\ UNCHANGED instance
    \/ instance = "dies" /\ Dies!Next /\ UNCHANGED instance

\* The fairness of Rttm, of the steps of the instance
AnyJobStep(j) ==
    \/ instance = "anyFault" /\ AnyFault!JobStep(j)
    \/ instance = "noFault" /\ NoFault!JobStep(j)
    \/ instance = "answers" /\ Answers!JobStep(j)
    \/ instance = "dies" /\ Dies!JobStep(j)
    \/ instance = "troubled" /\ Troubled!JobStep(j)
AnyFairness == \A j \in Jobs : WF_vars(AnyJobStep(j)) /\ WF_vars(Settle(j))
AnySpec == AnyInit /\ [][AnyNext]_all /\ AnyFairness

TroubledSpec ==
    /\ instance = "troubled" /\ Troubled!Init
    /\ [][Troubled!Next /\ UNCHANGED instance]_all
    /\ AnyFairness

\* Every job ends, and whoever was shown "You should receive an SMS in a few seconds."
\* gets one when nothing fails.
JobsAreDone ==
    /\ JobsEnd
    /\ \A j \in Jobs : (instance = "noFault" /\ kind[j] = "submit" /\ pc[j] \in Running)
                           ~> (\E m \in sms : m.job = j)

\* While the database answers, a page is not paid for again once it is stored.
PaidOnceWhileUp == instance = "answers" => PaidOnce
=============================================================================
