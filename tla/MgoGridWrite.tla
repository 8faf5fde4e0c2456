---------------------------- MODULE MgoGridWrite ----------------------------
(***************************************************************************)
(* Writing a GridFS file: data is cut into chunks that are inserted in     *)
(* background, not too many at a time, and Close waits for them before it  *)
(* inserts the document of the file, or removes the chunks after an error. *)
(* The bytes of the file are the numbers 1, 2, ...                         *)
(***************************************************************************)
EXTENDS Integers, Sequences, FiniteSets

CONSTANTS
    ChunkSize, Megabyte,    \* size of chunks; how much may be pending
    Writes,                 \* the lengths that are written
    MaxLength,              \* bound on the file
    Faults,                 \* "chunk", "file": an insertion fails; "remove", "marshal", "abort"
    NoFile

ASSUME GridAssumption ==
    /\ NoFile \notin [length : Nat, md5 : Seq(Nat)]
    /\ ChunkSize \in Nat \ {0} /\ Megabyte \in Nat \ {0} /\ MaxLength \in Nat
    /\ Writes \subseteq Nat

VARIABLES
    file,       \* [mode, err, chunk, wbuf, length, wsum, wpending]; and whether what
                \* was inserted is removed: swept, "no", "failed" or "done"
    todo, rest, \* chunks that the current call has still to insert, and what it keeps
    at,         \* where the caller is: "idle", "insert", "wait", "woken", "complete", "filing", "shut"
    closing,    \* whether the current call is Close
    flying,     \* insertions under way: [n, data]
    chunks,     \* those inserted
    doc         \* the file's document, or NoFile
gridVars == <<file, todo, rest, at, closing, flying, chunks, doc>>

GridInit ==
    /\ file = [mode |-> "writing", err |-> "nil", chunk |-> 0, wbuf |-> <<>>, length |-> 0, wsum |-> <<>>,
               wpending |-> 0, swept |-> "no"]
    /\ todo = <<>> /\ rest = <<>> /\ at = "idle" /\ closing = FALSE
    /\ flying = {} /\ chunks = {} /\ doc = NoFile

\* The chunks to be cut from data, none of them if it is no more than a chunk
Cut(data) ==
    LET n == IF Len(data) > ChunkSize THEN (Len(data) - 1) \div ChunkSize ELSE 0 IN
    [full |-> [i \in 1..n |-> SubSeq(data, (i - 1) * ChunkSize + 1, i * ChunkSize)],
     rest |-> SubSeq(data, n * ChunkSize + 1, Len(data))]

\* What a write of data inserts, what is in the buffer first.
\* (_Separate: the buffer is a chunk of its own)
Flushed_Separate(data) ==
    [first |-> IF file.wbuf = <<>> THEN <<>> ELSE <<file.wbuf>>, data |-> data]
Flushed(data) ==
    LET missing == IF ChunkSize - Len(file.wbuf) > Len(data) THEN Len(data) ELSE ChunkSize - Len(file.wbuf) IN
    IF file.wbuf = <<>> THEN [first |-> <<>>, data |-> data]
    ELSE [first |-> <<file.wbuf \o SubSeq(data, 1, missing)>>, data |-> SubSeq(data, missing + 1, Len(data))]

Write(n) ==
    /\ file.mode = "writing" /\ at = "idle" /\ file.err = "nil" /\ file.length + n <= MaxLength
    /\ LET data == [i \in 1..n |-> file.length + i]
           f == Flushed(data)
           c == Cut(f.data)
       IN  IF Len(file.wbuf) + n < ChunkSize
           THEN /\ file' = [file EXCEPT !.length = @ + n, !.wbuf = @ \o data]
                /\ UNCHANGED <<todo, rest, at>>
           ELSE /\ todo' = f.first \o c.full /\ rest' = c.rest /\ at' = "insert"
                /\ file' = [file EXCEPT !.length = @ + n, !.wbuf = <<>>]
    /\ UNCHANGED <<closing, flying, chunks, doc>>

\* insertChunk: with a megabyte pending it waits; what it waited for may have
\* failed, and then the chunk is given up.  One that cannot be marshalled stays
\* pending for ever.
Full == ChunkSize * file.wpending >= Megabyte
Numbered == [file EXCEPT !.chunk = @ + 1, !.wsum = @ \o Head(todo)]
Fly ==
    /\ todo' = Tail(todo) /\ at' = "insert"
    /\ \/ /\ file' = [Numbered EXCEPT !.wpending = @ + 1]
          /\ flying' = flying \cup {[n |-> file.chunk, data |-> Head(todo)]}
       \/ /\ "marshal" \in Faults /\ UNCHANGED flying
          /\ file' = [Numbered EXCEPT !.wpending = @ + 1, !.err = "unmarshalled"]

InsertChunk ==
    /\ todo # <<>>
    /\ \/ /\ Full /\ (at = "insert" \/ (at = "woken" /\ file.err = "nil"))
          /\ at' = "wait" /\ UNCHANGED <<file, todo, flying>>
       \/ /\ ~Full /\ (at = "insert" \/ (at = "woken" /\ file.err = "nil"))
          /\ Fly
       \/ /\ at = "woken" /\ file.err # "nil"
          /\ file' = Numbered /\ todo' = Tail(todo) /\ at' = "insert" /\ UNCHANGED flying
    /\ UNCHANGED <<rest, closing, chunks, doc>>

Woken == IF at = "wait" THEN "woken" ELSE at

\* The insertion of a chunk ends, and wakes the caller.  One that failed may have
\* been carried out.
Land(c) ==
    /\ c \in flying /\ flying' = flying \ {c}
    /\ \E ok \in BOOLEAN :
          /\ ~ok => "chunk" \in Faults
          /\ chunks' \in {chunks \cup {c}} \cup IF ok THEN {} ELSE {chunks}
          /\ file' = [file EXCEPT !.wpending = @ - 1, !.err = IF ~ok /\ @ = "nil" THEN "failed" ELSE @]
    /\ at' = Woken
    /\ UNCHANGED <<todo, rest, closing, doc>>

Written ==
    /\ at = "insert" /\ todo = <<>>
    /\ IF closing THEN at' = "complete" /\ UNCHANGED <<file, rest>>
       ELSE at' = "idle" /\ file' = [file EXCEPT !.wbuf = rest] /\ rest' = <<>>
    /\ UNCHANGED <<todo, closing, flying, chunks, doc>>

Close ==
    /\ file.mode = "writing" /\ at = "idle"
    /\ closing' = TRUE /\ at' = "insert"
    /\ todo' = IF file.wbuf # <<>> /\ file.err = "nil" THEN <<file.wbuf>> ELSE <<>>
    /\ file' = [file EXCEPT !.wbuf = IF file.err = "nil" THEN <<>> ELSE @]
    /\ UNCHANGED <<rest, flying, chunks, doc>>

\* completeWrite waits for every pending chunk.
Complete == file.wpending = 0

completeWrite ==
    /\ at = "complete" /\ Complete
    /\ IF file.err = "nil"
       THEN at' = "filing" /\ UNCHANGED <<file, chunks>>
       ELSE /\ at' = "shut"
            /\ \/ chunks' = {} /\ file' = [file EXCEPT !.swept = "done"]
               \/ "remove" \in Faults /\ chunks' \in SUBSET chunks /\ file' = [file EXCEPT !.swept = "failed"]
    /\ UNCHANGED <<todo, rest, closing, flying, doc>>

\* The file's document is inserted; what comes of it is the error of the file.
InsertFile ==
    /\ at = "filing" /\ at' = "shut"
    /\ \/ file' = [file EXCEPT !.err = "nil"] /\ doc' = [length |-> file.length, md5 |-> file.wsum]
       \/ /\ "file" \in Faults /\ file' = [file EXCEPT !.err = "unfiled"]
          /\ doc' \in {NoFile, [length |-> file.length, md5 |-> file.wsum]}
    /\ UNCHANGED <<todo, rest, closing, flying, chunks>>

Shut ==
    /\ at = "shut" /\ at' = "idle" /\ closing' = FALSE
    /\ file' = [file EXCEPT !.mode = "closed"]
    /\ UNCHANGED <<todo, rest, flying, chunks, doc>>

\* Abort takes no lock: it may come at any moment of a write or of Close, and too
\* late ("late") once Close goes to insert the file's document.
Filed == at = "filing" \/ (at = "shut" /\ file.swept = "no")
Abort ==
    /\ "abort" \in Faults /\ file.mode = "writing"
    /\ file' = [file EXCEPT !.err = IF Filed THEN "late" ELSE "aborted"]
    /\ UNCHANGED <<todo, rest, at, closing, flying, chunks, doc>>

GridNext ==
    \/ \E n \in Writes : Write(n)
    \/ \E c \in flying : Land(c)
    \/ InsertChunk \/ Written \/ Close \/ completeWrite \/ InsertFile \/ Shut \/ Abort

GridSpec == GridInit /\ [][GridNext]_gridVars
GridFair ==
    /\ WF_gridVars(InsertChunk) /\ WF_gridVars(Written) /\ WF_gridVars(completeWrite) /\ WF_gridVars(InsertFile)
    /\ WF_gridVars(Shut) /\ WF_gridVars(\E c \in flying : Land(c))

(***************************************************************************)
(* Properties                                                              *)
(***************************************************************************)

\* A file that exists is whole: its chunks are all there, every one but the last
\* of the size of a chunk, and make up its bytes; so does its checksum.
Whole ==
    doc # NoFile =>
        /\ doc.length = file.length /\ doc.md5 = [i \in 1..file.length |-> i]
        /\ flying = {}
        /\ \A i \in 1..file.length :
              \E c \in chunks : /\ c.n = (i - 1) \div ChunkSize /\ ((i - 1) % ChunkSize) + 1 \in DOMAIN c.data
                                /\ c.data[((i - 1) % ChunkSize) + 1] = i
        /\ \A c \in chunks : Len(c.data) = ChunkSize \/ c.n * ChunkSize + Len(c.data) = file.length

\* A file that was aborted in time, or part of which could not be inserted, has no
\* document when it is closed, nor afterwards, and no chunk is on its way; it leaves
\* no chunk behind either, if their removal succeeded.  (Chunks stay, too, when it is
\* the insertion of the file's document that fails.)
Broken == {"failed", "aborted", "unmarshalled"}
Nothing ==
    (file.mode = "closed" /\ file.err \in Broken) =>
        /\ doc = NoFile /\ flying = {} /\ file.swept # "no"
        /\ file.swept = "done" => chunks = {}

\* No more than a megabyte and a chunk waits to be inserted.
Pending == ChunkSize * Cardinality(flying) < Megabyte + ChunkSize

\* A file is there wholly or not at all, and is written with little pending.
FilesAreWhole == Whole /\ Nothing /\ Pending

\* Calls return.
WritesReturn == []<>(at = "idle")
=============================================================================
