------------------------------ MODULE S3Multi ------------------------------
(***************************************************************************)
(* Multipart uploads to S3 (goamz, s3/multi.go): Multi finds an unfinished *)
(* upload or starts one, PutAll sends what is not there yet, Complete and  *)
(* Abort end it.  Requests and answers may get lost and are then retried.  *)
(* The checksum of a part stands for its bytes.                            *)
(***************************************************************************)
EXTENDS Integers, Sequences, FiniteSets, SequencesExt

CONSTANTS
    Clients,
    Contents, PartSizes,    \* what is uploaded, and in parts of which size
    ListMax,                \* listMultiMax and listPartsMax
    Others,                 \* how many unfinished uploads of other keys there are
    Tries,                  \* attempts at a request
    MaxFaults, MaxCalls, MaxUploads,    \* bounds
    None

MultiAssumption ==
    /\ \A s \in PartSizes : s \in Nat \ {0}
    /\ ListMax \in Nat \ {0} /\ Others \in Nat /\ Tries \in Nat \ {0}
    /\ MaxFaults \in Nat /\ MaxCalls \in Nat /\ MaxUploads \in Nat

VARIABLES
    server,     \* [uploads: sequence of [key, parts, open], object: None or [data, of]]
    client,
    faults, calls
vars == <<server, client, faults, calls>>

Idle == [pc |-> "idle", err |-> "nil", tries |-> 0,
         upload |-> 0,      \* its upload, 0 for none
         marker |-> 0,      \* where the next page starts
         found |-> <<>>,    \* what the pages so far have listed
         content |-> <<>>, size |-> 1, offset |-> 0,
         current |-> 1, reuse |-> 1,    \* next part, next of the old parts to look at
         result |-> None]   \* the parts that PutAll returned

Upload(key) == [key |-> key, parts |-> {}, open |-> TRUE]
Init ==
    /\ server = [uploads |-> [i \in 1..Others |-> Upload("other")], object |-> None]
    /\ client = [c \in Clients |-> Idle] /\ faults = 0 /\ calls = [c \in Clients |-> 0]

(***************************************************************************)
(* The service                                                             *)
(***************************************************************************)

Answer(s, err, value) == [server |-> s, err |-> err, value |-> value]
Exists(id) == server.uploads[id].open
Sorted(parts) == SetToSortSeq(parts, LAMBDA p, q : p.n < q.n)
Page(items) == [items |-> SubSeq(items, 1, IF Len(items) > ListMax THEN ListMax ELSE Len(items)), truncated |-> Len(items) > ListMax]

Listed(marker) ==
    LET ids == SetToSortSeq({i \in DOMAIN server.uploads : Exists(i) /\ i > marker}, LAMBDA i, j : i < j) IN
    Answer(server, "nil", Page(ids))
Started == Answer([server EXCEPT !.uploads = Append(@, Upload("key"))], "nil", Len(server.uploads) + 1)
PartsOf(id, marker) ==
    IF Exists(id) THEN Answer(server, "nil", Page(Sorted({p \in server.uploads[id].parts : p.n > marker})))
    ELSE Answer(server, "NoSuchUpload", None)
Took(id, p) ==
    IF Exists(id) THEN Answer([server EXCEPT !.uploads[id].parts = {q \in @ : q.n # p.n} \cup {p}], "nil", p)
    ELSE Answer(server, "NoSuchUpload", None)
Assembled(id, parts, content) ==
    IF ~Exists(id) THEN Answer(server, "NoSuchUpload", None)
    ELSE IF ~(ToSet(parts) \subseteq server.uploads[id].parts) THEN Answer(server, "InvalidPart", None)
    ELSE Answer([server EXCEPT !.uploads[id].open = FALSE,
                               !.object = [data |-> FoldLeft(LAMBDA d, p : d \o p.data, <<>>, parts), of |-> content]], "nil", None)
Dropped(id) ==
    IF Exists(id) THEN Answer([server EXCEPT !.uploads[id].open = FALSE], "nil", None) ELSE Answer(server, "NoSuchUpload", None)

(***************************************************************************)
(* Requests, retried when they fail in passing                             *)
(***************************************************************************)

\* Of the errors of the network some are tried again; "other" stands for those that are
\* not, and for the answer to a part that has no ETag.
shouldRetry(err) == err \in {"read", "NoSuchUpload"}

Counted(k) == [k EXCEPT !.tries = @ + 1]
Outcome(c, err, value, After(_, _)) ==
    client' = [client EXCEPT ![c] = IF shouldRetry(err) /\ @.tries + 1 < Tries THEN Counted(@) ELSE After(err, value)]

Send(c, a, After(_, _)) ==
    /\ \/ server' = a.server /\ Outcome(c, a.err, a.value, After) /\ UNCHANGED faults
       \/ /\ faults < MaxFaults /\ faults' = faults + 1
          /\ server' \in {server, a.server}
          /\ \E e \in {"read", "other"} : Outcome(c, e, None, After)
    /\ UNCHANGED calls

Call(c, next) ==
    /\ client[c].pc = "idle" /\ calls[c] < MaxCalls
    /\ calls' = [calls EXCEPT ![c] = @ + 1]
    /\ client' = [client EXCEPT ![c] = next]
    /\ UNCHANGED <<server, faults>>

Fails(c, err) == [client[c] EXCEPT !.pc = "idle", !.err = err, !.tries = 0, !.result = None]
Returns(c) == [client[c] EXCEPT !.pc = "idle", !.err = "nil", !.tries = 0]

(***************************************************************************)
(* Multi, with ListMulti and InitMulti                                     *)
(***************************************************************************)

Multi(c) == Call(c, [Idle EXCEPT !.pc = "listmulti"])

Mine(ids) == SelectSeq(ids, LAMBDA i : server.uploads[i].key = "key")

ListMulti(c) ==
    LET After(err, page) ==
            LET ids == client[c].found \o page.items IN
            CASE err # "nil" -> Fails(c, err)
              [] err = "nil" /\ page.truncated ->
                    [client[c] EXCEPT !.found = ids, !.marker = Last(page.items), !.tries = 0]
              [] err = "nil" /\ ~page.truncated /\ Mine(ids) # <<>> ->
                    [Returns(c) EXCEPT !.upload = Head(Mine(ids)), !.found = <<>>, !.marker = 0]
              [] err = "nil" /\ ~page.truncated /\ Mine(ids) = <<>> ->
                    [client[c] EXCEPT !.pc = "init", !.found = <<>>, !.marker = 0, !.tries = 0]
    IN  client[c].pc = "listmulti" /\ Send(c, Listed(client[c].marker), After)

InitMulti(c) ==
    LET After(err, id) == IF err = "nil" THEN [Returns(c) EXCEPT !.upload = id] ELSE Fails(c, err) IN
    client[c].pc = "init" /\ Len(server.uploads) < MaxUploads /\ Send(c, Started, After)

(***************************************************************************)
(* PutAll, with ListParts and putPart                                      *)
(***************************************************************************)

PutAll(c) ==
    \E data \in Contents, size \in PartSizes :
        /\ client[c].upload # 0
        /\ Call(c, [Idle EXCEPT !.pc = "listparts", !.upload = client[c].upload, !.content = data, !.size = size])

\* Where the next page of parts starts.
NextMarker(c, page) == Last(page.items).n

ListParts(c) ==
    LET After(err, page) ==
            CASE err = "NoSuchUpload" -> [client[c] EXCEPT !.pc = "sections", !.found = <<>>, !.tries = 0, !.result = <<>>]
              [] err \notin {"nil", "NoSuchUpload"} -> Fails(c, err)
              [] err = "nil" /\ page.truncated ->
                    [client[c] EXCEPT !.found = @ \o page.items, !.marker = NextMarker(c, page), !.tries = 0]
              [] err = "nil" /\ ~page.truncated ->
                    [client[c] EXCEPT !.pc = "sections", !.found = @ \o page.items, !.tries = 0, !.result = <<>>]
    IN  client[c].pc = "listparts" /\ Send(c, PartsOf(client[c].upload, client[c].marker), After)

Section(c) ==
    LET k == client[c] end == IF k.offset + k.size > Len(k.content) THEN Len(k.content) ELSE k.offset + k.size IN
    [n |-> k.current, data |-> SubSeq(k.content, k.offset + 1, end)]

\* An old part is the one to send now.  (_Size: goes by the size)
Matches_Size(p, q) == p.n = q.n /\ Len(p.data) = Len(q.data)
Matches(p, q) == p.n = q.n /\ p.data = q.data

\* The old parts that are looked at: from the last one on, up to the current number.
Candidates(c) == {i \in client[c].reuse..Len(client[c].found) : client[c].found[i].n <= client[c].current}

\* All the content is handled, and at least one part.
Handled(c) == client[c].offset >= Len(client[c].content) /\ client[c].result # <<>>
Advance(c, k, p) ==
    [k EXCEPT !.result = Append(@, p), !.current = @ + 1, !.offset = @ + Len(p.data), !.tries = 0, !.pc = "sections"]

NextSection(c) ==
    LET same == {i \in Candidates(c) : Matches(client[c].found[i], Section(c))} IN
    /\ client[c].pc = "sections"
    /\ client' = [client EXCEPT ![c] =
           CASE Handled(c) -> Returns(c)
             [] ~Handled(c) /\ same # {} ->
                    LET i == CHOOSE i \in same : \A j \in same : i <= j IN
                    Advance(c, [client[c] EXCEPT !.reuse = i], client[c].found[i])
             [] ~Handled(c) /\ same = {} -> [client[c] EXCEPT !.reuse = @ + Cardinality(Candidates(c)), !.pc = "putpart"]]
    /\ UNCHANGED <<server, faults, calls>>

putPart(c) ==
    LET After(err, p) == IF err = "nil" THEN Advance(c, client[c], p) ELSE Fails(c, err) IN
    client[c].pc = "putpart" /\ Send(c, Took(client[c].upload, Section(c)), After)

(***************************************************************************)
(* Complete and Abort                                                      *)
(***************************************************************************)

Complete(c) ==
    client[c].upload # 0 /\ client[c].err = "nil" /\ client[c].result # None /\ Call(c, [client[c] EXCEPT !.pc = "complete"])
Abort(c) == client[c].upload # 0 /\ Call(c, [client[c] EXCEPT !.pc = "abort"])

Completed(c) ==
    LET After(err, v) == IF err = "nil" THEN Returns(c) ELSE Fails(c, err) k == client[c] IN
    k.pc = "complete" /\ Send(c, Assembled(k.upload, k.result, k.content), After)
Aborted(c) ==
    LET After(err, v) == IF err = "nil" THEN [Returns(c) EXCEPT !.result = None] ELSE Fails(c, err) IN
    client[c].pc = "abort" /\ Send(c, Dropped(client[c].upload), After)

Steps(c) == ListMulti(c) \/ InitMulti(c) \/ ListParts(c) \/ NextSection(c) \/ putPart(c) \/ Completed(c) \/ Aborted(c)
Next == \E c \in Clients : Multi(c) \/ PutAll(c) \/ Complete(c) \/ Abort(c) \/ Steps(c)
Spec == Init /\ [][Next]_vars
Fair == \A c \in Clients : WF_vars(Steps(c))

(***************************************************************************)
(* Properties                                                              *)
(***************************************************************************)

\* The object that Complete makes has the content that PutAll was given last by the
\* client, whatever was there of earlier and other attempts.
ObjectIsContent == server.object # None => server.object.data = server.object.of

\* A client works on an upload of its own key.
OwnUpload == \A c \in Clients : client[c].upload # 0 => server.uploads[client[c].upload].key = "key"

\* What was there already with the same content is not sent again.
NotAgain ==
    \A c \in Clients : client[c].pc = "putpart" => Section(c) \notin ToSet(client[c].found)

\* A part that is reused, or an old one that is left aside, is not met again, and
\* parts are listed once, by their numbers.
OldInOrder ==
    \A c \in Clients : client[c].pc \in {"listparts", "sections", "putpart"} =>
        \A i, j \in DOMAIN client[c].found : i < j => client[c].found[i].n < client[c].found[j].n

\* Calls return.
Ends == \A c \in Clients : []<>(client[c].pc = "idle")
=============================================================================
