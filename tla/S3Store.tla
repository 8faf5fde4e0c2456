------------------------------ MODULE S3Store ------------------------------
(***************************************************************************)
(* Buckets and objects of S3: clients of goamz (s3.go) and the server of   *)
(* its tests (s3test/server.go), which handles one request at a time.  A   *)
(* request or its answer may get lost; some operations are then retried.   *)
(***************************************************************************)
EXTENDS Integers, Sequences, FiniteSets, TLC

CONSTANTS
    Clients, Buckets, Names, Datas,
    Valid,          \* the valid names of buckets
    Located,        \* whether the region has a location constraint
    Conflicts,      \* Send409Conflict
    Headers,        \* sets of headers that come with an object
    Digests,        \* the Content-MD5 that comes: subset of {"none", "right", "wrong", "base64"}
    Wrapped,        \* whether the HTTP client wraps the errors of the network
    Tries,          \* attempts at an operation that is retried
    MaxFaults,      \* how many times something gets lost
    MaxCalls,       \* bound on the calls of a client
    Absent

StoreAssumption ==
    /\ Valid \subseteq Buckets /\ Located \in BOOLEAN /\ Conflicts \in BOOLEAN /\ Wrapped \in BOOLEAN
    /\ Digests \subseteq {"none", "right", "wrong", "base64"}
    /\ Tries \in Nat \ {0} /\ MaxFaults \in Nat /\ MaxCalls \in Nat

VARIABLES
    buckets,    \* bucket -> Absent or [acl, objects]
    call,       \* client -> [at, req, tries, err, value]; and took: how often the server granted
                \* it or changed anything for it; resent: whether an answer was lost and it was
                \* tried again
    faults, calls
storeVars == <<buckets, call, faults, calls>>

NoObjects == [k \in Names |-> Absent]
Idle == [at |-> "idle", req |-> Absent, tries |-> 0, err |-> "nil", value |-> Absent, took |-> 0, resent |-> "no"]
StoreInit ==
    /\ buckets = [b \in Buckets |-> Absent] /\ call = [c \in Clients |-> Idle]
    /\ faults = 0 /\ calls = [c \in Clients |-> 0]

(***************************************************************************)
(* The server                                                              *)
(***************************************************************************)

Answer(err, value) == [err |-> err, value |-> value]
Refuses(bs, err) == [buckets |-> bs, answer |-> Answer(err, Absent)]
Grants(bs) == [buckets |-> bs, answer |-> Answer("nil", Absent)]

putBucket(bs, r) ==
    IF bs[r.bucket] = Absent
    THEN IF r.bucket \notin Valid THEN Refuses(bs, "InvalidBucketName")
         ELSE IF ~Located THEN Refuses(bs, "InvalidRequets")
         ELSE Grants([bs EXCEPT ![r.bucket] = [acl |-> r.acl, objects |-> NoObjects]])
    ELSE IF Conflicts THEN Refuses(bs, "BucketAlreadyOwnedByYou")
         ELSE Grants([bs EXCEPT ![r.bucket].acl = r.acl])

EmptyBucket(b) == b.objects = NoObjects

deleteBucket(bs, r) ==
    IF bs[r.bucket] = Absent THEN Refuses(bs, "NoSuchBucket")
    ELSE IF ~EmptyBucket(bs[r.bucket]) THEN Refuses(bs, "BucketNotEmpty")
    ELSE Grants([bs EXCEPT ![r.bucket] = Absent])

\* The headers an object keeps, by their canonical names
metaHeaders == {"Content-MD5", "x-amz-acl", "Content-Type", "Content-Encoding", "Content-Disposition"}
Canonical(h) == CASE h = "Content-MD5" -> "Content-Md5" [] h = "x-amz-acl" -> "X-Amz-Acl" [] OTHER -> h
Meta(r) ==
    LET given == r.headers \cup IF r.digest = "none" THEN {} ELSE {"Content-MD5"} IN
    {Canonical(h) : h \in given} \cap metaHeaders

\* An object is saved when all of its body has come and fits its digest.
Saved(bs, r, err) == err = "nil"

putObject(bs, r) ==
    LET old == bs[r.bucket].objects[r.key]
        err == CASE r.digest = "base64" -> "InvalidDigest"
                 [] r.digest = "wrong" -> "BadDigest"
                 [] r.digest \in {"none", "right"} /\ r.cut -> "IncompleteBody"
                 [] OTHER -> "nil"
        new == [data |-> r.data, whole |-> ~r.cut, digest |-> r.digest,
                meta |-> Meta(r) \cup IF old = Absent THEN {} ELSE old.meta]
    IN  [buckets |-> IF Saved(bs, r, err) THEN [bs EXCEPT ![r.bucket].objects[r.key] = new] ELSE bs,
         answer |-> Answer(err, Absent)]

getObject(bs, r) ==
    IF bs[r.bucket].objects[r.key] = Absent THEN Refuses(bs, "NoSuchKey")
    ELSE [buckets |-> bs, answer |-> Answer("nil", bs[r.bucket].objects[r.key].data)]

deleteObject(bs, r) == Grants([bs EXCEPT ![r.bucket].objects[r.key] = Absent])

Serve(bs, r) ==
    CASE r.op = "PutBucket" -> putBucket(bs, r)
      [] r.op = "DelBucket" -> deleteBucket(bs, r)
      [] r.op \in {"Put", "Get", "Del", "Multi"} /\ bs[r.bucket] = Absent -> Refuses(bs, "NoSuchBucket")
      [] r.op = "Put" /\ bs[r.bucket] # Absent -> putObject(bs, r)
      [] r.op = "Get" /\ bs[r.bucket] # Absent -> getObject(bs, r)
      [] r.op = "Del" /\ bs[r.bucket] # Absent -> deleteObject(bs, r)
      [] OTHER -> Refuses(bs, "MethodNotAllowed")

(***************************************************************************)
(* A client                                                                *)
(***************************************************************************)

Request(ops, keys, datas, acls, headers, digests) ==
    [op : ops, bucket : Buckets, key : keys, data : datas, acl : acls, headers : headers, digest : digests, cut : {FALSE}]
Asked ==
    Request({"PutBucket"}, {Absent}, {Absent}, {"private", "public-read"}, {{}}, {"none"})
    \cup Request({"DelBucket"}, {Absent}, {Absent}, {Absent}, {{}}, {"none"})
    \cup Request({"Get", "Del", "Multi"}, Names, {Absent}, {Absent}, {{}}, {"none"})
    \cup Request({"Put"}, Names, Datas, {Absent}, Headers, Digests)

Call(c) ==
    /\ call[c].at = "idle" /\ calls[c] < MaxCalls
    /\ calls' = [calls EXCEPT ![c] = @ + 1]
    /\ \E r \in Asked :
          call' = [call EXCEPT ![c] = [Idle EXCEPT !.at = "run", !.req = r]]
    /\ UNCHANGED <<buckets, faults>>

\* Only what may be repeated is.  (_Del: or so it seems)
Retried_Del(op) == op \in {"DelBucket", "Get", "Del", "Put"}
Retried(op) == op \in {"DelBucket", "Get"}
shouldRetry(err) == err \in {"InternalError", "NoSuchBucket"} \/ (err = "read" /\ ~Wrapped)

\* An attempt ends with an answer, and is the last one or not.
Outcome(c, a, effect) ==
    LET again == Retried(call[c].req.op) /\ shouldRetry(a.err) /\ call[c].tries + 1 < Tries IN
    call' = [call EXCEPT ![c].at = IF again THEN "run" ELSE "idle", ![c].tries = @ + 1,
                         ![c].err = a.err, ![c].value = a.value, ![c].took = @ + effect,
                         ![c].resent = IF again /\ a.err = "read" THEN "yes" ELSE @]

\* A request reaches the server, and its answer, unless it is lost, the client.
Reaches(c, r, lost) ==
    LET s == Serve(buckets, r) IN
    /\ buckets' = s.buckets
    /\ Outcome(c, IF lost THEN Answer("read", Absent) ELSE s.answer,
               IF s.buckets # buckets \/ s.answer.err = "nil" THEN 1 ELSE 0)

Run(c) == call[c].at = "run" /\ Reaches(c, call[c].req, FALSE) /\ UNCHANGED <<faults, calls>>

\* What goes wrong: the request is lost or not even sent, or the server gives up;
\* the answer is lost; or part of the body.
Fault(c) ==
    /\ call[c].at = "run" /\ faults < MaxFaults /\ faults' = faults + 1
    /\ \/ buckets' = buckets /\ \E e \in {"read", "dial", "InternalError"} : Outcome(c, Answer(e, Absent), 0)
       \/ Reaches(c, call[c].req, TRUE)
       \/ call[c].req.op = "Put" /\ Reaches(c, [call[c].req EXCEPT !.cut = TRUE], FALSE)
    /\ UNCHANGED calls

StoreNext == \E c \in Clients : Call(c) \/ Run(c) \/ Fault(c)
StoreSpec == StoreInit /\ [][StoreNext]_storeVars

(***************************************************************************)
(* Properties                                                              *)
(***************************************************************************)

\* A call that changes something, but for a DelBucket that was tried again after its
\* answer was lost: that one may delete what another has created since, or be refused
\* because it has already done what it was to do.
Settled(k) == k.req # Absent /\ k.req.op # "Get" /\ (k.req.op = "DelBucket" => k.resent = "no")

\* It takes effect once at most, also when it is tried again after a refusal: what
\* others create afterwards is not undone by an attempt of an older call.
AtMostOnce == \A c \in Clients : Settled(call[c]) => call[c].took <= 1

\* The answer of its last attempt tells what it did: all of it once, or nothing.
AnswersTrue ==
    \A c \in Clients : (Settled(call[c]) /\ call[c].at = "idle") =>
        /\ call[c].err = "nil" => call[c].took = 1
        /\ call[c].err \notin {"nil", "read"} => call[c].took = 0

\* Calls of a store take effect as their callers are told, whatever is tried again.
StoreHolds == AtMostOnce /\ AnswersTrue
=============================================================================
