------------------------------ MODULE MgoWrite ------------------------------
(***************************************************************************)
(* Writes of the mgo driver.  In safe mode the operation and getLastError  *)
(* go out together; the server answers getLastError with what the last     *)
(* operation on that connection did, and the driver turns that into the    *)
(* result of the call.  Goroutines share sockets.  A collection maps the   *)
(* ids to values, 0 where there is no document.                            *)
(***************************************************************************)
EXTENDS Integers, Sequences, FiniteSets

CONSTANTS
    Goroutines, SocketOf,   \* the socket that each goroutine's session has reserved
    Ids, Ops,               \* the calls made: [kind, docs, val]
    Safe,                   \* safe modes of the sessions, a set of BOOLEANs
    WriteFaults,            \* "died", "failed", "timeout"
    Nil, MaxCalls           \* bound on calls

Inserting == {"Insert", "Bulk", "Unordered"}
Updating == {"Update", "UpdateAll", "Upsert", "Apply", "ApplyUpsert"}
Removing == {"Remove", "RemoveAll", "ApplyRemove"}

\* docs are the documents to insert, or those that the selector allows; an upsert
\* says what to insert.
ASSUME WriteAssumption ==
    /\ Safe \subseteq BOOLEAN /\ MaxCalls \in Nat /\ Nil \notin Ids
    /\ Ops \subseteq [kind : Inserting \cup Updating \cup Removing, docs : Seq(Ids), val : Nat \ {0}]
    /\ Nil \notin Ops /\ \A o \in Ops : o.kind \in {"Upsert", "ApplyUpsert"} => o.docs # <<>>

Sockets == {SocketOf[g] : g \in Goroutines}

VARIABLES
    coll,
    op,         \* the call of a goroutine, or Nil
    wire,       \* of a socket: what is on the way to the server
    last,       \* of a connection: what the last operation did
    back,       \* replies on the way back
    did,        \* of a goroutine: the collection before and after its operation
    done,       \* the last call that returned: [g, o, result, did]
    calls
writeVars == <<coll, op, wire, last, back, did, done, calls>>

(***************************************************************************)
(* The server                                                              *)
(***************************************************************************)

Lerr(n, existing, upserted, err) == [n |-> n, existing |-> existing, upserted |-> upserted, err |-> err]

Matching(c, o) == {i \in Ids : c[i] # 0 /\ \E k \in DOMAIN o.docs : o.docs[k] = i}

\* The first one that there is
TheOne(c, o) == LET k == CHOOSE k \in DOMAIN o.docs : /\ c[o.docs[k]] # 0
                                                      /\ \A j \in 1..k - 1 : c[o.docs[j]] = 0
                IN  o.docs[k]
Chosen(c, o) == IF o.multi \/ Matching(c, o) = {} THEN Matching(c, o) ELSE {TheOne(c, o)}

\* An id that is there already, or comes twice, is refused; whether to go on then
\* is a flag.
Refused(c, o, k) == c[o.docs[k]] # 0 \/ \E j \in 1..k - 1 : o.docs[j] = o.docs[k]
Enters(c, o, i) ==
    \E k \in DOMAIN o.docs : /\ o.docs[k] = i /\ ~Refused(c, o, k)
                             /\ o.goOn \/ \A j \in 1..k - 1 : ~Refused(c, o, j)

\* What an operation does: the new collection, what there is to say about it
Inserts(c, o) ==
    [coll |-> [i \in Ids |-> IF Enters(c, o, i) THEN o.val ELSE c[i]],
     lerr |-> Lerr(0, FALSE, Nil, IF \E k \in DOMAIN o.docs : Refused(c, o, k) THEN "dup" ELSE "")]
Updates(c, o) ==
    IF Matching(c, o) # {} \/ ~o.upsert
    THEN [coll |-> [i \in Ids |-> IF i \in Chosen(c, o) THEN o.val ELSE c[i]],
          lerr |-> Lerr(Cardinality(Chosen(c, o)), Matching(c, o) # {}, Nil, "")]
    ELSE [coll |-> [i \in Ids |-> IF i = Head(o.docs) THEN o.val ELSE c[i]], lerr |-> Lerr(1, FALSE, Head(o.docs), "")]
Deletes(c, o) ==
    [coll |-> [i \in Ids |-> IF i \in Chosen(c, o) THEN 0 ELSE c[i]],
     lerr |-> Lerr(Cardinality(Chosen(c, o)), FALSE, Nil, "")]
Changes(c, o) ==
    IF o.code = "insert" THEN Inserts(c, o) ELSE IF o.code = "update" THEN Updates(c, o) ELSE Deletes(c, o)

(***************************************************************************)
(* The calls                                                               *)
(***************************************************************************)

\* An unordered bulk goes on after a failure.
GoesOn(o) == o.kind = "Unordered"

\* The operation that each call sends; the flags are those of the protocol.
Wire(o) ==
    [code |-> IF o.kind \in Inserting THEN "insert" ELSE IF o.kind \in Updating THEN "update" ELSE "delete",
     docs |-> o.docs, val |-> o.val,
     goOn |-> GoesOn(o),
     multi |-> o.kind \in {"UpdateAll", "RemoveAll"},
     upsert |-> o.kind \in {"Upsert", "ApplyUpsert"}]

IsApply(o) == o.kind \in {"Apply", "ApplyUpsert", "ApplyRemove"}

\* writeQuery: both in one message  (_First: the wrong way round)
Operation(g, o) == [g |-> g, what |-> "op", op |-> Wire(o)]
Asking(g) == [g |-> g, what |-> "getLastError"]
Sent_First(g, o) == <<Asking(g), Operation(g, o)>>
Sent(g, o) == <<Operation(g, o), Asking(g)>>

Result(err, updated, removed, upserted) ==
    [err |-> err, updated |-> updated, removed |-> removed, upserted |-> upserted]
NoInfo(err) == Result(err, 0, 0, Nil)

\* The result of a call, from the LastError that came back
OfUpdate(l) == IF ~l.existing THEN NoInfo("NotFound") ELSE NoInfo("nil")
OfUpdateAll(l) == Result("nil", l.n, 0, Nil)
OfUpsert(l) == IF l.existing THEN Result("nil", l.n, 0, Nil) ELSE Result("nil", 0, 0, l.upserted)
OfRemove(l) == IF l.n = 0 THEN NoInfo("NotFound") ELSE NoInfo("nil")
OfRemoveAll(l) == Result("nil", 0, l.n, Nil)

\* Apply: findAndModify in a strong clone of the session
OfApply(o, l) ==
    IF l.n = 0 THEN NoInfo("NotFound")
    ELSE IF l.existing THEN Result("nil", l.n, 0, Nil)
    ELSE IF o.kind = "ApplyRemove" THEN Result("nil", 0, l.n, Nil)
    ELSE IF o.kind = "ApplyUpsert" THEN Result("nil", 0, 0, l.upserted)
    ELSE NoInfo("nil")

Outcome(o, l) ==
    IF l.err # "" THEN NoInfo(l.err)
    ELSE CASE o.kind \in Inserting -> NoInfo("nil")
           [] o.kind = "Update" -> OfUpdate(l)
           [] o.kind = "UpdateAll" -> OfUpdateAll(l)
           [] o.kind = "Upsert" -> OfUpsert(l)
           [] o.kind = "Remove" -> OfRemove(l)
           [] o.kind = "RemoveAll" -> OfRemoveAll(l)
           [] IsApply(o) -> OfApply(o, l)

WriteInit ==
    /\ coll \in [Ids -> {0, 1}]
    /\ op = [g \in Goroutines |-> Nil] /\ did = [g \in Goroutines |-> [before |-> coll, after |-> coll]]
    /\ wire = [k \in Sockets |-> <<>>] /\ back = [k \in Sockets |-> <<>>]
    /\ last = [k \in Sockets |-> Lerr(0, FALSE, Nil, "")]
    /\ done = Nil /\ calls = 0

\* In unsafe mode nothing comes back, and the call returns at once.
Call(g) ==
    /\ op[g] = Nil /\ calls < MaxCalls /\ calls' = calls + 1
    /\ \E o \in Ops, safe \in Safe :
          LET k == SocketOf[g] IN
          /\ op' = [op EXCEPT ![g] = IF safe \/ IsApply(o) THEN o ELSE Nil]
          /\ wire' = [wire EXCEPT ![k] = @ \o IF IsApply(o) THEN <<[Operation(g, o) EXCEPT !.what = "apply"]>>
                                             ELSE IF safe THEN Sent(g, o) ELSE <<Operation(g, o)>>]
    /\ did' = [did EXCEPT ![g] = [before |-> coll, after |-> coll]] /\ done' = Nil
    /\ UNCHANGED <<coll, last, back>>

Serve(k) ==
    /\ wire[k] # <<>>
    /\ LET m == Head(wire[k])
           c == Changes(coll, m.op)
           Reply(l) == back' = [back EXCEPT ![k] = Append(@, [g |-> m.g, lerr |-> l])]
       IN  CASE m.what = "op" ->
                  /\ coll' = c.coll /\ last' = [last EXCEPT ![k] = c.lerr]
                  /\ did' = [did EXCEPT ![m.g] = [before |-> coll, after |-> c.coll]]
                  /\ UNCHANGED back
             [] m.what = "getLastError" ->
                  /\ \/ Reply(last[k])
                     \/ "failed" \in WriteFaults /\ Reply(Lerr(0, FALSE, Nil, "failed"))
                     \/ "timeout" \in WriteFaults /\ Reply([last[k] EXCEPT !.err = "timeout"])
                  /\ UNCHANGED <<coll, last, did>>
             [] m.what = "apply" ->
                  /\ coll' = c.coll /\ Reply(c.lerr)
                  /\ last' = [last EXCEPT ![k] = Lerr(0, FALSE, Nil, "")]
                  /\ did' = [did EXCEPT ![m.g] = [before |-> coll, after |-> c.coll]]
    /\ wire' = [wire EXCEPT ![k] = Tail(@)] /\ done' = Nil
    /\ UNCHANGED <<op, calls>>

Return(g, result) ==
    /\ done' = [g |-> g, o |-> op[g], result |-> result, did |-> did[g]]
    /\ op' = [op EXCEPT ![g] = Nil]

ReadReply(k) ==
    /\ back[k] # <<>>
    /\ LET r == Head(back[k]) IN Return(r.g, Outcome(op[r.g], r.lerr))
    /\ back' = [back EXCEPT ![k] = Tail(@)]
    /\ UNCHANGED <<coll, wire, last, did, calls>>

\* A socket dies with what is on it: each waiting call returns an error, and a
\* new connection takes its place.
Die(k) ==
    /\ "died" \in WriteFaults /\ \E g \in Goroutines : SocketOf[g] = k /\ op[g] # Nil
    /\ wire' = [wire EXCEPT ![k] = <<>>] /\ back' = [back EXCEPT ![k] = <<>>]
    /\ last' = [last EXCEPT ![k] = Lerr(0, FALSE, Nil, "")]
    /\ op' = [g \in Goroutines |-> IF SocketOf[g] = k THEN Nil ELSE op[g]]
    /\ done' = Nil
    /\ UNCHANGED <<coll, did, calls>>

WriteNext ==
    \/ \E g \in Goroutines : Call(g)
    \/ \E k \in Sockets : Serve(k) \/ ReadReply(k) \/ Die(k)
WriteSpec == WriteInit /\ [][WriteNext]_writeVars

(***************************************************************************)
(* Properties                                                              *)
(***************************************************************************)

Ended == done # Nil
Says(kind, err) == Ended /\ done.o.kind = kind /\ done.result.err = err
Was(i) == done.did.before[i] # 0
Is(i) == done.did.after[i] # 0
Removed == {i \in Ids : Was(i) /\ ~Is(i)}
Docs == {done.o.docs[k] : k \in DOMAIN done.o.docs}
Untouched == done.did.after = done.did.before
Twice(k) == \E j \in 1..k - 1 : done.o.docs[j] = done.o.docs[k]

\* An insertion that returns without error has inserted every document; one that
\* says "dup" met a document that was there, or the same id again.
InsertTrue ==
    \A kind \in Inserting :
        /\ Says(kind, "nil") => \A i \in Docs : ~Was(i) /\ Is(i)
        /\ Says(kind, "dup") => \E k \in DOMAIN done.o.docs : Was(done.o.docs[k]) \/ Twice(k)

\* A bulk goes on after a failure exactly when it is unordered.
BulkOrder ==
    /\ Says("Unordered", "dup") => \A i \in Docs : Is(i)
    /\ (Says("Bulk", "dup") \/ Says("Insert", "dup")) =>
          \A i \in Docs : Is(i) <=> \/ Was(i)
                                   \/ \E k \in DOMAIN done.o.docs :
                                         /\ done.o.docs[k] = i
                                         /\ \A j \in 1..k : ~Was(done.o.docs[j]) /\ ~Twice(j)

\* An update tells how many documents there were, and has changed one or all.
UpdateTrue ==
    /\ \A kind \in {"Update", "Apply"} :
          /\ Says(kind, "nil") => \E i \in Docs : Was(i) /\ done.did.after = [done.did.before EXCEPT ![i] = done.o.val]
          /\ Says(kind, "NotFound") => Untouched /\ \A i \in Docs : ~Was(i)
    /\ Says("UpdateAll", "nil") => done.result.updated = Cardinality({i \in Docs : Was(i)})
    /\ \A kind \in {"Upsert", "ApplyUpsert"} :
          Says(kind, "nil") =>
              /\ done.result.upserted # Nil => ~Was(done.result.upserted) /\ Is(done.result.upserted)
              /\ (done.result.updated = 1) <=> (\E i \in Docs : Was(i))
              /\ (done.result.upserted # Nil) <=> (\A i \in Docs : ~Was(i))

\* A removal has removed one document or all, as it says.
RemoveTrue ==
    /\ \A kind \in {"Remove", "ApplyRemove"} :
          /\ Says(kind, "nil") => Cardinality(Removed) = 1 /\ Removed \subseteq Docs
          /\ Says(kind, "NotFound") => Untouched /\ \A i \in Docs : ~Was(i)
    /\ Says("RemoveAll", "nil") => Removed = {i \in Docs : Was(i)} /\ done.result.removed = Cardinality(Removed)

\* What a write returns is what its own operation did, over a socket that others
\* use too.
ResultsTrue == InsertTrue /\ BulkOrder /\ UpdateTrue /\ RemoveTrue
=============================================================================
