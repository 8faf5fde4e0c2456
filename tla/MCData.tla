------------------------------- MODULE MCData -------------------------------
(***************************************************************************)
(* What the mgo driver does with data: the queue of received documents,    *)
(* iterators, writes, and files of GridFS that are written and read.       *)
(* instance says which of the small instances below a behaviour is of; the *)
(* variables of the others stay as they are.                               *)
(***************************************************************************)
EXTENDS MgoQueue, MgoGridWrite, MgoWrite, TLC

CONSTANTS docA, docB, g1, g2, k1, k2

VARIABLES
    instance,
    it, docs, asked, replies, kills, server, caller, closed, got,
    chunk, offset, rbuf, rcache, call, result, failed

\* A buffer that grows by quarters soon
Quarter == INSTANCE MgoQueue WITH First <- 4, Doubles <- 4, MaxPushes <- 9

L(n) == <<"Limit", n>>
B(n) == <<"Batch", n>>
Legal == {<<>>, <<B(1)>>, <<B(3)>>, <<L(1)>>, <<L(-3)>>, <<L(-4)>>, <<B(2), L(4)>>,
          <<L(4), B(2)>>, <<L(5), B(3)>>, <<L(2)>>}
Few == {<<>>, <<L(1)>>, <<L(3), B(2)>>}
\* Every legal query, whose documents are asked for at a quarter ...
Finds == INSTANCE MgoIter WITH
    Kinds <- {"find", "pipe"}, Calls <- Legal, Quarters <- 1, Total <- 6, Later <- 0, FirstBatch <- 2,
    Faults <- {}, Closes <- "late", MaxInt <- 3, MaxAwaits <- 1
\* ... or with the whole batch unread, and closed at any time
Ahead == INSTANCE MgoIter WITH
    Kinds <- {"find", "pipe"}, Calls <- Legal, Quarters <- 4, Total <- 8, Later <- 0, FirstBatch <- 3,
    Faults <- {}, Closes <- "ever", MaxInt <- 3, MaxAwaits <- 1
\* Sockets that die, queries and batches that fail
Faulty == INSTANCE MgoIter WITH
    Kinds <- {"find", "pipe"}, Calls <- {<<>>, <<B(3)>>}, Quarters <- 1, Total <- 4, Later <- 0,
    FirstBatch <- 2, Faults <- {"died", "dying", "refused", "failed", "undecodable"}, Closes <- "ever",
    MaxInt <- 3, MaxAwaits <- 1
Limited == INSTANCE MgoIter WITH
    Kinds <- {"find", "pipe"}, Calls <- Few, Quarters <- 1, Total <- 5, Later <- 0, FirstBatch <- 2,
    Faults <- {"died", "refused"}, Closes <- "ever", MaxInt <- 3, MaxAwaits <- 1
\* Tails that wait for what is inserted later
Tails == INSTANCE MgoIter WITH
    Kinds <- {"tail"}, Calls <- Few, Quarters <- 1, Total <- 2, Later <- 3, FirstBatch <- 2,
    Faults <- {"died", "lost"}, Closes <- "ever", MaxInt <- 3, MaxAwaits <- 2

Op(kind, ds) == [kind |-> kind, docs |-> ds, val |-> 2]
A == <<docA>>
AB == <<docA, docB>>
\* Two goroutines over one socket, with every call ...
Shared == (g1 :> k1) @@ (g2 :> k1)
Removals == {Op("Remove", AB), Op("RemoveAll", AB), Op("ApplyRemove", A), Op("Insert", A)}
AllOps ==
    Removals \cup
    {Op("Bulk", AB), Op("Unordered", AB), Op("Unordered", <<docB, docB>>),
     Op("Update", AB), Op("UpdateAll", AB), Op("Upsert", A), Op("Apply", <<docB, docA>>), Op("ApplyUpsert", <<docB>>)}
\* ... or over a socket each
Apart == INSTANCE MgoWrite WITH SocketOf <- (g1 :> k1) @@ (g2 :> k2), Safe <- {TRUE}, Ops <- Removals

\* A file with a rest, read and sought; one of whole chunks, with errors
Read == INSTANCE MgoGridRead WITH
    Length <- 8, PerChunk <- 3, Reads <- {1, 2, 4, 7}, Fails <- 0, GivesUp <- FALSE, Before <- 0,
    MaxChunk <- 9, NoChunk <- None
Exact == INSTANCE MgoGridRead WITH
    Length <- 6, PerChunk <- 2, Reads <- {1, 2, 3, 6}, Fails <- 2, GivesUp <- TRUE, Before <- 0,
    MaxChunk <- 9, NoChunk <- None

ASSUME InstancesAssumption ==
    /\ Quarter!QueueAssumption /\ Finds!IterAssumption /\ Ahead!IterAssumption /\ Faulty!IterAssumption
    /\ Limited!IterAssumption /\ Tails!IterAssumption
    /\ Read!ReadAssumption /\ Exact!ReadAssumption

iterVars == <<it, docs, asked, replies, kills, server, caller, closed, got>>
readVars == <<chunk, offset, rbuf, rcache, call, result, failed>>
NoIter ==
    /\ it = None /\ docs = None /\ asked = None /\ replies = None /\ kills = None /\ server = None
    /\ caller = None /\ closed = None /\ got = None
NoWrite ==
    /\ coll = Nil /\ op = Nil /\ wire = Nil /\ last = Nil /\ back = Nil /\ did = Nil
    /\ done = Nil /\ calls = 0

AnyInit ==
    \/ instance \in {"queue", "quarter"} /\ Init /\ NoIter /\ NoWrite /\ GridInit /\ Read!ReadInit
    \/ /\ \/ instance = "finds" /\ Finds!Init
          \/ instance = "ahead" /\ Ahead!Init
          \/ instance = "faulty" /\ Faulty!Init
          \/ instance = "limited" /\ Limited!Init
          \/ instance = "tails" /\ Tails!Init
       /\ Init /\ NoWrite /\ GridInit /\ Read!ReadInit
    \/ /\ \/ instance = "shared" /\ WriteInit
          \/ instance = "apart" /\ Apart!WriteInit
       /\ Init /\ NoIter /\ GridInit /\ Read!ReadInit
    \/ instance = "grid" /\ Init /\ GridInit /\ NoIter /\ NoWrite /\ Read!ReadInit
    \/ instance \in {"read", "exact"} /\ Init /\ NoIter /\ NoWrite /\ GridInit /\ Read!ReadInit

AnyNext ==
    \/ instance = "queue" /\ Next /\ UNCHANGED <<instance, iterVars, writeVars, gridVars, readVars>>
    \/ instance = "quarter" /\ Quarter!Next /\ UNCHANGED <<instance, iterVars, writeVars, gridVars, readVars>>
    \/ instance = "finds" /\ Finds!Next /\ UNCHANGED <<instance, vars, writeVars, gridVars, readVars>>
    \/ instance = "ahead" /\ Ahead!Next /\ UNCHANGED <<instance, vars, writeVars, gridVars, readVars>>
    \/ instance = "faulty" /\ Faulty!Next /\ UNCHANGED <<instance, vars, writeVars, gridVars, readVars>>
    \/ instance = "limited" /\ Limited!Next /\ UNCHANGED <<instance, vars, writeVars, gridVars, readVars>>
    \/ instance = "tails" /\ Tails!Next /\ UNCHANGED <<instance, vars, writeVars, gridVars, readVars>>
    \/ instance = "shared" /\ WriteNext /\ UNCHANGED <<instance, vars, iterVars, gridVars, readVars>>
    \/ instance = "apart" /\ Apart!WriteNext /\ UNCHANGED <<instance, vars, iterVars, gridVars, readVars>>
    \/ instance = "grid" /\ GridNext /\ UNCHANGED <<instance, vars, iterVars, writeVars, readVars>>
    \/ instance = "read" /\ Read!ReadNext /\ UNCHANGED <<instance, vars, iterVars, writeVars, gridVars>>
    \/ instance = "exact" /\ Exact!ReadNext /\ UNCHANGED <<instance, vars, iterVars, writeVars, gridVars>>

AnySpec == AnyInit /\ [][AnyNext]_<<instance, vars, iterVars, writeVars, gridVars, readVars>>

\* What iterators return are the documents in order, each once, to the end or the
\* limit unless there is an error, with one query at a time and no panic; and the
\* cursors of the server are closed.  So
\* do readers of files of GridFS return the bytes.
Iterated ==
    /\ instance = "finds" => /\ Finds!InOrder /\ Finds!Complete /\ Finds!OneQuery /\ Finds!NoPanic
                             /\ Finds!CursorFreed /\ Finds!ClosedIsClosed
    /\ instance = "ahead" => Ahead!InOrder /\ Ahead!Complete /\ Ahead!OneQuery /\ Ahead!NoPanic
    /\ instance = "faulty" => Faulty!InOrder /\ Faulty!Complete
    /\ instance = "limited" => Limited!InOrder /\ Limited!Complete /\ Limited!NoPanic
    /\ instance = "tails" => Tails!InOrder /\ Tails!OneQuery
    /\ instance = "read" => Read!BytesAreRight
    /\ instance = "exact" => Exact!BytesAreRight
=============================================================================
