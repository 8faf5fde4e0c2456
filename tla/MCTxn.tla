------------------------------- MODULE MCTxn -------------------------------
(***************************************************************************)
(* Package txn: two runners with two transactions over two documents; the  *)
(* order in which a flush takes the transactions it has found; and the     *)
(* order of the documents' keys.  instance says which of the small         *)
(* instances below a behaviour is of; the variables of the others stay as  *)
(* they are.                                                               *)
(***************************************************************************)
EXTENDS Txn, TLC

CONSTANTS docA, docB, t1, t2, t3, t4

VARIABLES
    instance,
    successors, index, nodes, stack, output, calls,
    a, b, c

Two == <<t1, t2>>
AB == <<docA, docB>>
op(d, k, s) == [doc |-> d, kind |-> k, assert |-> s]

\* Both update both documents; the second only if nobody has before.
Updates == (t1 :> <<op(docA, "update", "none"), op(docB, "update", "none")>> @@
            t2 :> <<op(docB, "update", "fresh"), op(docA, "update", "none")>>)
\* Both insert one and update the other.
Inserts == (t1 :> <<op(docA, "insert", "missing"), op(docB, "update", "exists")>> @@
            t2 :> <<op(docB, "update", "none"), op(docA, "insert", "none")>>)
\* One removes what the other updates.
Removes == (t1 :> <<op(docA, "remove", "exists"), op(docB, "update", "none")>> @@
            t2 :> <<op(docA, "update", "exists"), op(docB, "update", "none")>>)
\* One document, removed and inserted, and runners that are interrupted
Replaces == (t1 :> <<op(docA, "remove", "none")>> @@ t2 :> <<op(docA, "insert", "missing")>>)
\* Each asserts what the other may make untrue.
Refuses == (t1 :> <<op(docA, "update", "fresh")>> @@
            t2 :> <<op(docB, "assert", "missing"), op(docA, "update", "fresh")>>)

Inserting == INSTANCE Txn WITH Ops <- Inserts, Existing <- {docB}
Removing == INSTANCE Txn WITH Ops <- Removes
Replacing == INSTANCE Txn WITH Ops <- Replaces, Existing <- {docA}, MaxKills <- 1
Refusing == INSTANCE Txn WITH Ops <- Refuses, Existing <- {docA}, MaxKills <- 1

Sorting4 == INSTANCE Tarjan WITH Ids <- {t1, t2, t3, t4}, IdSeq <- <<t1, t2, t3, t4>>

\* Ids that are integers or structs of one or two fields; and two collections
\* with ids of every nature
fields(n) == UNION {[1..m -> [name : 1..2, exported : {TRUE}, value : 0..1]] : m \in 1..n}
struct(F) == {[nature |-> 5, v |-> f1] : f1 \in F}
Structs == INSTANCE DocKeys WITH
    Collections <- {0}, Ids <- {[nature |-> 2, v |-> i] : i \in 0..1} \cup struct(fields(2))
Mixed == INSTANCE DocKeys WITH
    Collections <- {0, 1}, Ids <- [nature : 1..4, v : 0..1] \cup struct(fields(1))

ASSUME InstancesAssumption ==
    /\ Inserting!OpsAssumption /\ Removing!OpsAssumption /\ Replacing!OpsAssumption
    /\ Refusing!OpsAssumption /\ Refusing!BoundsAssumption
    /\ Sorting4!IdSeqAssumption

sortVars == <<successors, index, nodes, stack, output, calls>>
keyVars == <<a, b, c>>
NoSort == successors = None /\ index = None /\ nodes = None /\ stack = None /\ output = None /\ calls = None
NoKeys == a = None /\ b = None /\ c = None

AnyInit ==
    \/ NoSort /\ NoKeys /\ \/ instance = "updates" /\ Init
                           \/ instance = "inserts" /\ Inserting!Init
                           \/ instance = "removes" /\ Removing!Init
                           \/ instance = "replaces" /\ Replacing!Init
                           \/ instance = "refuses" /\ Refusing!Init
    \/ Init /\ NoKeys /\ instance = "sorts" /\ Sorting4!Init
    \/ Init /\ NoSort /\ \/ instance = "structs" /\ Structs!Init
                         \/ instance = "mixed" /\ Mixed!Init

AnyNext ==
    \/ instance = "updates" /\ Next /\ UNCHANGED <<instance, sortVars, keyVars>>
    \/ instance = "inserts" /\ Inserting!Next /\ UNCHANGED <<instance, sortVars, keyVars>>
    \/ instance = "removes" /\ Removing!Next /\ UNCHANGED <<instance, sortVars, keyVars>>
    \/ instance = "replaces" /\ Replacing!Next /\ UNCHANGED <<instance, sortVars, keyVars>>
    \/ instance = "refuses" /\ Refusing!Next /\ UNCHANGED <<instance, sortVars, keyVars>>
    \/ instance = "sorts" /\ Sorting4!Next /\ UNCHANGED <<instance, vars, keyVars>>
    \/ instance = "structs" /\ Structs!Next /\ UNCHANGED <<instance, vars, sortVars>>
    \/ instance = "mixed" /\ Mixed!Next /\ UNCHANGED <<instance, vars, sortVars>>

AnySpec == AnyInit /\ [][AnyNext]_<<instance, vars, sortVars, keyVars>>

\* However many runners apply a transaction, and however often they are interrupted
\* and begin again, it takes effect once and wholly or not at all, and what a caller
\* was told is what happened.
Atomic ==
    /\ instance = "updates" => AppliedOnce /\ AllOrNothing
    /\ instance = "inserts" => Inserting!AppliedOnce /\ Inserting!AllOrNothing
    /\ instance = "removes" => Removing!AppliedOnce /\ Removing!AllOrNothing
    /\ instance = "replaces" => Replacing!AppliedOnce /\ TellsTruth
    /\ instance = "refuses" => TellsTruth /\ ResumedOrAborting

\* Transactions take effect as if one ran after the other, upon documents of which
\* what they assert is true, and no runner panics on the way.
OneAfterTheOther ==
    /\ instance = "updates" => Serializable /\ AssertionsHeld /\ NoPanic
    /\ instance = "inserts" => NoPanic
    /\ instance = "removes" => Removing!Serializable /\ NoPanic
    /\ instance = "refuses" => AssertionsHeld

\* All runners take the documents in one order, and the transactions they find in
\* an order in which none waits for one that comes after it.
SameOrder ==
    /\ instance = "sorts" => Sorting4!SortsComponents
    /\ instance = "structs" => Structs!SameOrderForAll /\ Structs!OneOrder
    /\ instance = "mixed" => Mixed!SameOrderForAll /\ Mixed!OneOrder

Symmetry == Permutations(Runners)
============================================================================
