---------------------------- MODULE MgoGridRead ----------------------------
(***************************************************************************)
(* Reading a GridFS file: Read and Seek over chunks, of which the next one *)
(* is fetched in background.  The byte at offset i of the file is i + 1,   *)
(* so the chunk n holds the numbers after n * PerChunk.                    *)
(***************************************************************************)
EXTENDS Integers, Sequences, FiniteSets

CONSTANTS
    Length, PerChunk,
    Reads,          \* sizes of the buffers that are read into
    Fails,          \* how many fetches of a chunk may fail
    GivesUp,        \* whether the reader stops at the first error
    Before,         \* how far before the start of the file it may seek
    MaxChunk,       \* bound on the chunks that are asked for
    NoChunk

ReadAssumption ==
    /\ Length \in Nat \ {0} /\ PerChunk \in Nat \ {0} /\ Reads \subseteq Nat \ {0}
    /\ Fails \in Nat /\ Before \in Nat /\ MaxChunk \in Nat /\ GivesUp \in BOOLEAN

VARIABLES
    chunk, offset, rbuf,
    rcache,     \* the chunk that is read ahead: NoChunk or [n, state, data]
    call,       \* what the caller waits for: [what, want, got]; "idle" or "closed"
    result,       \* the result of the last call: [from, want, got, err]
    failed
readVars == <<chunk, offset, rbuf, rcache, call, result, failed>>

Idle == [what |-> "idle", want |-> 0, got |-> <<>>]
NoResult == [from |-> 0, want |-> 0, got |-> <<>>, err |-> "nil"]
ReadInit ==
    /\ chunk = 0 /\ offset = 0 /\ rbuf = <<>> /\ rcache = NoChunk
    /\ call = Idle /\ result = NoResult /\ failed = 0

Least(a, b) == IF a < b THEN a ELSE b
Chunk(n) == IF n * PerChunk >= Length THEN <<>> ELSE [i \in 1..Least(PerChunk, Length - n * PerChunk) |-> n * PerChunk + i]
Takes(s, i) == SubSeq(s, 1, i)
Drops(s, i) == SubSeq(s, i + 1, Len(s))

Ready == call.what = "idle" /\ chunk <= MaxChunk /\ (GivesUp => result.err \in {"nil", "EOF"})

(***************************************************************************)
(* getChunk                                                                *)
(***************************************************************************)

InCache == rcache # NoChunk /\ rcache.n = chunk

\* The chunk from the cache or from the database: data and error
Fetched ==
    IF InCache
    THEN {[data |-> rcache.data, err |-> IF rcache.state = "failed" THEN "failed" ELSE "nil", new |-> 0]}
    ELSE {[data |-> Chunk(chunk), err |-> IF Chunk(chunk) = <<>> THEN "missing" ELSE "nil", new |-> 0]}
         \cup {[data |-> <<>>, err |-> "failed", new |-> 1] : n \in {k \in {failed} : k < Fails}}

\* The goroutine reads ahead, and lets go of the lock.
Fetch(ok) == [rcache EXCEPT !.state = IF ok THEN "there" ELSE "failed", !.data = IF ok THEN Chunk(rcache.n) ELSE <<>>]

\* The next chunk is the one after, whether or not this one was read.
GetChunk(r) ==
    /\ InCache => rcache.state \in {"there", "failed"}
    /\ chunk' = chunk + 1
    /\ rcache' = IF (chunk + 1) * PerChunk < Length THEN [n |-> chunk + 1, state |-> "fetching", data |-> <<>>] ELSE NoChunk
    /\ failed' = failed + r.new

ReadAhead ==
    /\ rcache # NoChunk /\ rcache.state = "fetching"
    /\ \/ rcache' = Fetch(TRUE) /\ UNCHANGED failed
       \/ failed < Fails /\ rcache' = Fetch(FALSE) /\ failed' = failed + 1
    /\ UNCHANGED <<chunk, offset, rbuf, call, result>>

(***************************************************************************)
(* Read                                                                    *)
(***************************************************************************)

Returns(got, want, err) ==
    /\ call' = Idle
    /\ result' = [from |-> offset - Len(call.got), want |-> want + Len(call.got), got |-> call.got \o got, err |-> err]

Read(n) ==
    /\ Ready
    /\ IF offset = Length THEN result' = [from |-> offset, want |-> n, got |-> <<>>, err |-> "EOF"] /\ UNCHANGED call
       ELSE call' = [what |-> "read", want |-> n, got |-> <<>>] /\ result' = NoResult
    /\ UNCHANGED <<chunk, offset, rbuf, rcache, failed>>

Enough(i) == i = call.want \/ offset + i = Length

Copy ==
    /\ call.what = "read"
    /\ LET i == Least(call.want, Len(rbuf)) IN
       /\ offset' = offset + i /\ rbuf' = Drops(rbuf, i)
       /\ IF Enough(i) THEN Returns(Takes(rbuf, i), call.want, "nil")
          ELSE call' = [what |-> "more", want |-> call.want - i, got |-> call.got \o Takes(rbuf, i)] /\ UNCHANGED result
    /\ UNCHANGED <<chunk, rcache, failed>>

More ==
    /\ call.what = "more"
    /\ \E r \in Fetched :
          /\ GetChunk(r) /\ rbuf' = r.data
          /\ IF r.err = "nil" THEN call' = [call EXCEPT !.what = "read"] /\ UNCHANGED result
             ELSE Returns(<<>>, call.want, r.err)
    /\ UNCHANGED offset

(***************************************************************************)
(* Seek, to an offset from the start                                       *)
(***************************************************************************)

\* It stays within the chunk that was read.  (_Back: also backwards)
ChunkOf(to) == IF to >= 0 THEN to \div PerChunk ELSE 0 - ((0 - to) \div PerChunk)
Within(to) == ChunkOf(to) + 1 = chunk /\ to >= offset

\* Cutting i bytes from a buffer, where it has as many
Cuts(s, i) == i \in 0..Len(s)
Panics == call' = [call EXCEPT !.what = "panicked"]

Sought(err) == result' = [from |-> offset, want |-> 0, got |-> <<>>, err |-> err]

Seek(to) ==
    /\ Ready
    /\ CASE to > Length -> Sought("past") /\ UNCHANGED <<chunk, offset, rbuf, call>>
         [] to = Length -> offset' = to /\ Sought("nil") /\ UNCHANGED <<chunk, rbuf, call>>
         [] to < Length /\ Within(to) ->
                IF Cuts(rbuf, to - offset)
                THEN rbuf' = Drops(rbuf, to - offset) /\ offset' = to /\ Sought("nil") /\ UNCHANGED <<chunk, call>>
                ELSE Panics /\ UNCHANGED <<chunk, offset, rbuf, result>>
         [] to < Length /\ ~Within(to) ->
                /\ offset' = to /\ chunk' = ChunkOf(to) /\ rbuf' = <<>>
                /\ call' = [call EXCEPT !.what = "seek"] /\ UNCHANGED result
    /\ UNCHANGED <<rcache, failed>>

Arrive ==
    /\ call.what = "seek"
    /\ \E r \in Fetched :
          /\ GetChunk(r)
          /\ IF r.err = "nil" /\ ~Cuts(r.data, offset - chunk * PerChunk)
             THEN Panics /\ rbuf' = r.data /\ UNCHANGED result
             ELSE /\ rbuf' = IF r.err = "nil" THEN Drops(r.data, offset - chunk * PerChunk) ELSE r.data
                  /\ Sought(r.err) /\ call' = Idle
    /\ UNCHANGED offset

(***************************************************************************)
(* CloseRead, which waits for the chunk that is read ahead                     *)
(***************************************************************************)

CloseRead ==
    /\ Ready /\ call' = [call EXCEPT !.what = "close"]
    /\ UNCHANGED <<chunk, offset, rbuf, rcache, result, failed>>

Closed ==
    /\ call.what = "close" /\ (rcache # NoChunk => rcache.state \in {"there", "failed"})
    /\ rcache' = NoChunk /\ call' = [call EXCEPT !.what = "closed"]
    /\ UNCHANGED <<chunk, offset, rbuf, result, failed>>

ReadNext ==
    \/ \E n \in Reads : Read(n)
    \/ \E to \in (0 - Before)..(Length + 1) : Seek(to)
    \/ Copy \/ More \/ Arrive \/ ReadAhead \/ CloseRead \/ Closed

ReadSpec == ReadInit /\ [][ReadNext]_readVars
ReadFair == WF_readVars(Copy) /\ WF_readVars(More) /\ WF_readVars(Arrive) /\ WF_readVars(Closed) /\ WF_readVars(ReadAhead)

(***************************************************************************)
(* Properties                                                              *)
(***************************************************************************)

\* Read returns the bytes of the file at the offset where it stands.
RightBytes == \A i \in DOMAIN result.got : result.got[i] = result.from + i

\* It returns fewer than were asked for only at the end of the file.
AllOfThem ==
    (result.err = "nil" /\ result.want > 0) =>
        Len(result.got) = Least(result.want, Length - result.from)

\* Seek does not cut the buffer outside of its bounds.
NoPanic == call.what # "panicked"

\* What is read of a file is what was written to it, and reading it does not panic.
BytesAreRight == RightBytes /\ AllOfThem /\ NoPanic

\* Read, Seek and Close return, also when the chunk that is read ahead is the one
\* they wait for, or fails.
ReadsReturn == []<>(call.what \in {"idle", "closed", "panicked"})
=============================================================================
