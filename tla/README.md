# A TLA+ model of rttm ("Read this to me")

rttm is a small web process. Somebody submits the address of a page and a phone
number (by a form, or by sending a text message); the process fetches the text
of the page, has it spoken, keeps the audio in an S3 bucket, stores a *post* (the
page) and a *request* (who wanted it) in MongoDB, and sends the phone a message
with the address of the audio. Stored requests can be viewed, and each phone has
a podcast feed. A second entry, the API, speaks a text and posts the address of
the audio to a callback.

Every handler that accepts work answers at once and leaves the work to a
goroutine. Nothing about the work is kept outside that goroutine, nothing is
tried again, and a panic in any goroutine ends the process. That is where the
difficulty of the application lies. The repository also carries the code it
stands on, some thirty times its size: the mgo driver of MongoDB with its
transactions and BSON, the goamz client of S3, and gorilla's router. There the
difficulty is concurrency: sockets, pools, sessions, logins, iterators and
transactions that many goroutines share.

## 1. Inventory

### Components, their state and their operations

| Part | Source | State | Operations | What makes it correct |
|---|---|---|---|---|
| Accepting handlers | `handlers.go` (`postSubmitHandler`, `TwilioCallbackHandler`, `APIHandler`) | none of their own | check the input, answer, start a goroutine | only valid work is started; what the answer promises happens |
| Jobs | `models.go` (`CreateRequest`, `CreatePost`, ...), the function literal in `APIHandler` | local variables of the goroutine | look the address up; text, extract, speech, name, upload, insert post; insert request; send message; call back | no address of nothing is handed out; a request has its post; an article is not paid for twice; a message is backed by what is stored |
| Text to speech | `services/tts.go` | the pages and the playlist | split, speak page by page | no index out of range; nothing lost or reordered |
| Upload, message, extraction | `services/uploader.go`, `sms.go`, `extract.go` | the bucket (S3), messages (Twilio) | one call each | object names are not shared; errors |
| Stored library | the collections `posts` and `requests` | the documents | insert | only grows; references hold |
| Reading pages | `ViewHandler`, `FeedHandler`, `GetRequestById`, `FindRequestsByPhone` | none | several queries each | links stay good; feeds are complete and list an article once |
| mgo: socket | `mgo.v2/socket.go` | waiting reply functions, request ids, deadline, whether it is dead | Query, readLoop, kill, deadlines | each call is told exactly one end, and only its own documents |
| mgo: server | `mgo.v2/server.go` | unused and live sockets, references | AcquireSocket, Connect, RecycleSocket, AbendSocket, Close, the pinger | one owner for a socket, none lost or left open |
| mgo: cluster | `mgo.v2/cluster.go` | known servers and masters, seeds, sync | syncServersLoop, AcquireSocket, Acquire, Release | the lists agree; the members are found; no server left open |
| mgo: session | `mgo.v2/session.go` | reserved sockets, mode, credentials | New, Copy, Clone, Close, Refresh, SetMode, Login, Logout, acquireSocket | counts of sockets; the mode's promise; logins follow |
| mgo: logins | `mgo.v2/auth.go` | credentials, pending logouts, the nonce | Login, Logout, LogoutAll, flushLogout | what the socket believes is how the server has it |
| mgo: iterators | `mgo.v2/session.go` (`Iter`, `Tail`, `Next`, `replyFunc`), `queue.go` | documents received and awaited, limit, the cursor | Next, Close, getMore | documents in order, each once, to the end or the limit |
| mgo: writes | `mgo.v2/session.go` (`writeQuery`), `bulk.go` | what getLastError speaks of | Insert, Update, Remove, Bulk, Apply | the result of a call is its own |
| mgo: GridFS | `mgo.v2/gridfs.go` | buffers, chunks pending or read ahead | Write, Close, Abort, Read, Seek | a file is there wholly or not at all, and read as written |
| mgo: transactions | `mgo.v2/txn` | documents with their queues, the stash, the states of transactions | Run, Resume, ResumeAll, the flusher, tarjanSort, the order of keys | all or nothing, once, as if one after the other |
| BSON | `mgo.v2/bson` | counter of ids; variables that are read into | writing and reading values, structs, maps; NewObjectId | what is written comes back; what does not fit leaves no trace; ids are unique |
| goamz: S3 | `goamz/s3` | uploads and their parts, buckets, objects | multipart uploads, requests tried again, listings | an object is the file that was given; nothing takes effect twice; listings leave nothing out |
| gorilla mux and context | `gorilla/mux`, `gorilla/context` | routes, matches, what is kept for a request | registering, matching, Set, Get, Clear, Purge | first match serves; variables complete; nothing kept |
| Process | `main.go`, `Procfile` | up or down | dial, listen, die, restart | |
| Templates, other service clients, feeds, `godotenv`, string helpers | `templates/`, `Godeps/`, `utils.go` | none shared | | |

### How they interact

A handler starts a job with arguments it checked. Jobs share four things: the
*process* (a panic of one ends all), the *mgo session* (one reserved socket for
every operation of every job and reader), the *collections*, and the *bucket*.
The readers share the session and the collections with the jobs. There is no
lock in the application; the database's single-document operations are the only
atomic steps.

Below it, a session takes a socket from a server of the cluster (`MgoSession`,
`MgoCluster`, `MgoServer`), logs it in (`MgoAuth`) and sends operations over it
(`MgoSocket`); the reply functions feed iterators (`MgoIter`, `MgoQueue`) and the
results of writes (`MgoWrite`), and on those stand GridFS and the transactions.
Each lock of the driver bounds the steps of one module. Between the modules the
contract is small, and is what the neighbour takes for granted: a call over a
socket ends exactly once (`Calls`, promised by `MgoSocket`, used by `MgoIter`,
`MgoWrite` and as the three steps of an insert in `Rttm`), a socket has one
owner in its pool (`MgoServer`, used by `MgoSession`), and a session keeps a dead
socket (`MgoSession`'s `acquireSocket`, used by `Rttm`).

### Hard behaviours

* Interleaving: the lookup of an address and the insert of its post are far
  apart; two uploads of one second take the same name; readers make several
  queries while jobs insert; a server is closed while a connection to it is
  being made; a socket is killed while replies are handed out; several runners
  apply one transaction; chunks land in any order.
* Failure: an error of the extraction, of the upload or of the callback panics
  (`models.go:209`, `uploader.go:27`, `handlers.go:108`) and takes every job along;
  other errors end one job silently. A runner of transactions stops between any
  two requests; insertions of chunks fail in background.
* Ordering: upload before post, post before request, request before message; the
  success page before all of them; the queues of a transaction's documents;
  routes before their subrouters.
* Lost requests and replies: an insert can be carried out although its sender was
  told it failed, or is gone; S3 requests are tried again.
* A dead socket stays the session's reserved socket until the process restarts.
* Waiting: calls wait for replies, logins for a nonce, writers for pending chunks,
  operations for a master.
* Limits and boundaries: pages are counted in bytes and filled with runes; seconds
  are cut to 32 bits; request ids and the counters of ObjectIds wrap; a pool at
  its limit; batches, limits and prefetches have to add up; buffers grow while
  wrapped around; widths of integers differ.

The list with lines is in `PROJECT.json` under `hazards`.

## 2. Modules

| Module | Models | Uses |
|---|---|---|
| `Library` | what the two collections promise to readers (abstract) | |
| `Rttm` | the web process: handlers, jobs, session, database, bucket, messages | instance of `Library` for refinement |
| `RttmProofs` | theorems about `Rttm` | `Rttm`, `TLAPS` |
| `TextToSpeech` | the function of that name | |
| `Feed` | a reader (view or feed) over a growing library | instance of `Library` |
| `TextsProofs` | theorems about both | `TextToSpeech`, `Feed`, `TLAPS` |
| `Calls` | what every call over a socket is promised (abstract) | |
| `MgoSocket` | one socket: Query, readLoop, kill | instance of `Calls` for refinement |
| `MgoSocketProofs` | theorems about it, and about logging in over it | `MgoSocket`, `MgoAuth`, `TLAPS` |
| `MgoServer` | one server's pool and its pinger | |
| `MgoServerProofs` | theorems about it | `MgoServer`, `TLAPS` |
| `MgoCluster` | the synchronization of known servers, and the sessions that look for one | |
| `MgoClusterProofs` | theorems about it | `MgoCluster`, `TLAPS` |
| `MgoSession` | sessions, their copies and the sockets they reserve | |
| `MgoSessionProofs` | theorems about it | `MgoSession`, `TLAPS` |
| `MgoAuth` | logging in and out over a socket that is shared | |
| `MgoIter` | a query or tail, its replies and its iterator | |
| `Fifo` | a queue (abstract) | |
| `MgoQueue` | the ring buffer of an iterator | instance of `Fifo` for refinement |
| `MgoWrite` | writes and their getLastError | |
| `MgoGridWrite`, `MgoGridRead` | files of GridFS, written and read in chunks | |
| `DataProofs` | theorems about the buffer, files and writes | `MgoQueue`, `MgoGridWrite`, `MgoGridRead`, `MgoWrite`, `TLAPS` |
| `Components` | strongly connected components by their definition (reference) | |
| `Tarjan` | `tarjanSort` step by step | `Components` |
| `DocKeys` | the order of documents' keys | |
| `Txn` | the flusher and its runners | `Components`, for the order `Tarjan` is checked to give |
| `S3Multi`, `S3Store`, `S3List` | uploads in parts; operations tried again; listings by page | |
| `Mux`, `Context` | the router; what is kept for a request | |
| `ObjectId` | the making of ids | |
| `WebProofs` | theorems about ids, what is kept of requests, and the store | `ObjectId`, `Context`, `S3Store`, `TLAPS` |
| `BsonValue`, `BsonStruct` | elements and their conversions; structs as documents | |
| `MC...` | small instances for TLC | |

Definitions whose name ends in an underscore and a word (`Valid_AnyPhone`) are
variants of the definition that follows them, each with the bug its comment
names. No specification uses them; put in place of the definition they show
that the properties notice.

An MC module holds several small instances, each an `INSTANCE ... WITH` its own
constants. Its variable `instance` says which one a behaviour is of; the others'
variables stay as they were (`None`, or an initial state), so that the states of
the instances add up and never multiply. A property of an MC module names the
instances it is about. Where a run checks a property that a theorem states, the MC
module EXTENDS the component, and the constants of the configuration are one of the
instances; components that meet in one MC module, or in one module of proofs, have
disjoint names for that reason (`PoolNext`, `AuthNext`, `GridNext`).

### `Rttm`

A member of `Jobs` is one HTTP request together with the goroutine it starts, and
serves as the id of the documents that goroutine stores. `pc[j]` is where it is:

    lookup -> text -> extract -> speech -> name -> put -> post -> postSent
       \________________________________________________________/   |
        (address found)                              request <------'
                                                     -> requestSent -> sms -> done
    API:  speech -> name -> put -> callback -> done

with `rejected` (input turned away), `failed` (an error was logged and the job
returned) and `lost` (the process died) as the other ends. Each action is one
call of the job with all its outcomes. `url`, `phone`, `pageURL`, `audioURL`,
`postId` are the goroutine's variables. `second` keeps the clock reading the
object's name was made from, which the properties refer to.

* *Addresses.* `ValidUrls` are those `IsValidURL` accepts. `Canonical[u]` are the
  addresses Embedly may answer with for `u`, among them another one or, for pages
  it cannot read, the empty string: `CreatePost` stores that one (`models.go:238`)
  while `GetPostByURL` looks for the one that was asked for.
* *Names.* `AudioName(t)` is `t % Span`: the conversion to `int32` repeats after
  2^32 seconds, here after `Span`.
* *Database.* Reads are one step. An insert is three: the job writes it to the
  socket (`sentPosts`, `sentRequests`), the server carries it out or refuses it,
  the job learns the outcome. When the socket or the process dies in between, the
  server may still carry the write out or may never see it. The server may carry
  out writes of different jobs in any order; one connection would keep the order
  of sending, so this allows more than can happen and the safety results include
  what can.
* *Session.* `socket` is the reserved socket: `"none"` until the first operation,
  then `"live"`, `"dead"` once its reader fails, and `"dead"` it stays
  (`acquireSocket` returns it whatever its state). A failing first acquisition
  reserves nothing and is tried again by the next operation.
* *Faults.* Which calls may fail is the constant `Faults`; every run names its
  set. `"kill"` is a death of the process from outside. An error of the API's
  callback covers an address that does not parse.

Left out: the errors of `json.Marshal` and `json.Unmarshal` in `CreatePost`
(both structures have the same fields and types, so that neither can fail), and
what `renderError` does to the response of a handler that has already returned.

### `Library` and `Feed`

`Library` has two actions, `PublishPost` and `FileRequest`. `Rttm` implements it
(checked and proved), and `Feed` uses it as the environment of one reader, since
readers share nothing but the library. `GetRequestById` is two queries and
`FindRequestsByPhone` is one for the requests and one for each distinct post; the
library may grow between any two. The answer of a cursor contains what was there
when it was opened and may contain what was added while it was read.

### `TextToSpeech`

The text is its number of runes and of bytes (every total that one to four bytes
a rune can give); runes are numbered, so that a page is a sequence of numbers
and losing, repeating or moving a rune is visible. An index out of range leads
to `"panic"`.

### The mgo driver

* `MgoSocket`. Each action is what one goroutine does under the socket's lock. A
  call is one `Query` with an operation that has a reply function; `replyFuncs`
  maps request ids to calls, and ids wrap after `IdSpan`. Requests without a reply
  function share id 0. `Calls` is the promise: documents, then exactly one end.
  `KeepsPromise` says that the socket implements it.
* `MgoServer`. A step is what a goroutine does between taking and leaving the
  server's or a socket's lock; `pc` says between which two it stands. The pinger
  of `newServer` is an actor without a limit.
* `MgoCluster`. `spawned`, `work`, `notYetAdded`, `addIfFound`, `seen` and
  `syncKind` are the variables of `syncServersIteration` that its goroutines share.
  `role` is the topology, which changes at most `MaxChanges` times. A server is
  an address with an incarnation, since a removed server may be added again while
  somebody holds the old one. The three tries of `syncServer` are one answer.
* `MgoSession`. A session's method is one step, since it runs under the session's
  lock; only an operation is two, `Begin` and `End`, between which its socket is in
  use. `family` names the sessions that share sockets (clones). The counts of a
  socket's references are in `socket[k].refs`; `Acquired` and `Released` count a set
  of sockets once each, since the two a session reserves are never the same
  (proved). `DialCred` is the credential of the address that was dialled, which
  `DialWithInfo` gives to the first session. A socket remembers what its server was
  when it was taken (`serverInfo`); one that comes back from the pool is told anew,
  and the server may be of the other role by then. It is read after the cluster's
  lock is released, so that a server chosen as the master may have ceased to be one:
  its socket is `"former"`, and is reserved as a slave's, or `setSocket` panics
  (`panicked`). A panic ends the behaviour. A write to the database `local`
  (`"local"`) may go to a slave, as `writeQuery` has it.
* `MgoAuth`. The server does what is written in order; `replies` are its answers
  not yet read. `cachedNonce` is 0, a nonce, or what a mongos answers.
* `MgoIter`. The documents of a result are numbered; `docs` is `docsToReceive` with
  the received ones, `server` holds the cursor. All methods of a query that matter
  for counting (`Limit`, `Batch`, `Prefetch`, `Tail`) are applied in the order they
  were called in. `MgoQueue` is the buffer below it. `killCursor` may fail at the
  limit, and the last document is then lost. With the fault `"dying"` the socket dies
  between being acquired by `getMore` and `Query`, which calls the reply function in
  the same goroutine: it waits for the lock that `Next` holds (`"stuck"`).
* `MgoWrite`. `wire` is what is sent over a socket; `last` is, per connection, what
  `getLastError` speaks of; `did` is what a call's operation really did, against
  which its result is compared.
* `MgoGridWrite` and `MgoGridRead`. The byte at the offset i of a file is the number
  i + 1, so that a chunk in the wrong place or a byte read twice is visible.
  `flying` are the insertions in background, `rcache` is the chunk that is read
  ahead. The steps of `completeWrite` are apart: waiting, removing the chunks after an
  error or inserting the document, and the change of mode. `Abort` takes no lock and
  may come between any two. The removal may fail, of some chunks or all, and its error
  is ignored (`swept`); an abort after the decision to insert is too late (`"late"`); a
  file whose chunks are stored but whose document could not be inserted (`"unfiled"`)
  keeps its chunks (`gridfs.go:533`). An insertion that is reported as failed has been
  carried out by then or never is. Errors of `SetMeta` are left out.
* `Txn`. Every request to the database is a step, with all that the runner
  computes until the next one. `hist` keeps, per document, which operations took
  effect in which order; it is what the properties speak of. `kills` counts
  interruptions (`chaos.go`); a killed runner's transactions are resumed by any
  other. `Tarjan` and `DocKeys` are the pure parts.

### goamz, gorilla and BSON

* `S3Multi`: `server` is S3 with its unfinished uploads; a client's call is the
  sequence of its requests, each with a loss of request or answer and its
  repetition. An error is of those that are tried again (`"read"`) or not (`"other"`,
  which is also the answer to a part without an ETag), and the request was carried out or
  not. `S3Store` has the client and the test server that handles one request at a time;
  `took` counts what a call changed, `resent` whether it was sent again after its answer
  was lost; an `InternalError` means that nothing was done. `S3List` is the loop of the
  test server over a page. The body of an answer that is cut off is not modelled: its
  decoding error is dropped (`s3.go:404`), and the call goes on with what was decoded.
* `Mux`: routes are registered first, one call a step, then requests are matched.
  `arrays` are the arrays behind Go slices of queries, which routes can share.
  `Context` has the package's two maps.
* `ObjectId`: a goroutine takes the time in one step and the counter in the next.
* `BsonValue` and `BsonStruct`: a value is chosen, written, and read into a
  variable that is chosen: one action for each function that does it. Widths of
  integers and of the mantissa of a float64 are constants (`Bits`), small ones in the
  runs; an integer that a float64 cannot hold becomes the nearest that it can. An array
  of bytes is written only if it is addressable, which depends on how the document was
  passed (`addressable`). A value that fits no field (`Unfit`) fits an interface: the
  element type of a map (`elem`) tells which it is.

## 3. What is checked

Every bound is a constant of the configuration or of the `INSTANCE` in the MC
module. Deadlock is checked for `Rttm`: its action `Listen` is the idle process,
enabled only when every job has ended, so that a job that is stuck while nothing
else can happen would be reported. The other modules are calls that return, and
runs that reach their bounds; they may stop.

| Run | Instances and their bounds | Shows |
|---|---|---|
| `faults` | `faulty`: 2 jobs, 2 pages (one an alias of the other, one that Embedly may not name), 2 phones, all faults. `wraps`: 2 jobs, a clock to 2 and names that repeat after 2, uploads, inserts, sockets and the process fail. `crowd`: 3 jobs, sockets die | `TypeOK`, `Referential`, `HandedOutAudioExists`, `OwnAudioUnlessSameSecond`, `SMSBacked`, `ImplementsLibrary` |
| `ends` | 2 jobs each. `anyFault`: all faults. `noFault`. `answers`: all but those of the database. `dies`: only those | `JobsAreDone` (every job ends, in all instances; and in `noFault` who was told gets the message), `PaidOnceWhileUp`, `OutageServesNobody` |
| `told` | 2 jobs, text and speech may fail | `ToldGetsSMS` is violated |
| `texts` | `text`: pages of 3 runes, texts of 0 to 10 runes of 1 to 4 bytes. `reader`: 3 ids for posts and for requests, 2 phones, failing queries | `InRange`, `PagesAreChunks`, `SpokenInOrder`, `LinksStayGood`, `FeedIsExact` |
| `audio` | pages of 3 runes, texts of 0 to 4 | `OnlyAudio` is violated |
| `sockets` | `socket`: 3 calls, one a cursor with 2 documents, ids that wrap at 6, two killers. `pool`: 2 users, a pinger, 3 sockets, limit 2, sockets die, the server is closed. `unlimited`: 4 sockets. `logins`, `refused`, `alone`: 1 to 3 actors, 4 to 6 calls, two users, classic and SCRAM | `RepliesAreOwn`, `PoolIsSound`, `NoncesAgree`, `LoginsAgree`, `KeepsPromise` |
| `sessions` | `copies`: 3 sessions, copied and cloned, 3 sockets, 1 goroutine, 4 calls. `modes`: 1 session in every mode, 2 goroutines, 4 calls, logged out of its database; servers that cease to be masters in all three. `logins`: 2 sessions, 2 users, 2 sockets that die, 5 calls. `synced`: 3 hosts, one a stranger, in any order, of which another is the primary. `changing`: a pair with a change of roles, pools at their limit. `direct`: direct connections and timeouts, for 1 user with a change of roles, for 2 while there is none | `SocketsCounted`, `LoggedInAsSaid`, `ClusterAgrees`, `SyncFindsAll` (in `synced`), `MasterKept` |
| `txn` | `updates`, `inserts`, `removes`: 2 transactions on 2 documents in opposite orders, 2 runners. `replaces`, `refuses`: the same with one interruption. `sorts`: every graph of 4 transactions. `structs`, `mixed`: keys of every nature, three at a time | `Atomic`, `OneAfterTheOther`, `SameOrder` |
| `data` | `queue`, `quarter`: both ways to grow, more pushes than the capacity. `finds`, `ahead`, `faulty`, `limited`, `tails`: results of 4 to 8 documents, batches of 1 to 3, ten settings of limit and batch, prefetch at a quarter or all. `shared`, `apart`: 2 goroutines, 3 calls of every kind, in safe mode or not, with every fault, over one socket or over one each. `grid`: files of up to 5 chunks, written in any pieces, with failing insertions, marshalling and removals, and aborts at any moment. `read`, `exact`: 3 chunks, with a rest or whole, with seeks and (in `exact`) errors; `Iterated` includes that their bytes are right | `Iterated`, `ResultsTrue`, `FilesAreWhole`, `IsFifo` |
| `s3` | `resumed`: 1 client, 5 files, parts of 2 sizes, 4 calls, losses. `shared`: 2 clients on one key, 2 files with a part in common, 3 calls each. `losing`, `digested`: 2 or 1 clients, 3 calls, one or two losses, with a client that tries a lost read again or not. `still`, `changing`: 7 names with delimiters, every page size to 3, two changes between pages | `Uploaded`, `StoreHolds`, `ListedOnce` |
| `web` | `same`, `plainly`, `deeper`, `wide`: every kind of value at the borders of its width, into every kind of variable. `written`, `read`: every struct of 3 (2) fields of 8 kinds, maps of interfaces and of another type. `ids`: 2 processes with 2 goroutines, a counter of 8. `side`, `nested`, `queried`: every way to register 2 or 3 routes, and 3 to 10 requests. `kept`, `purging`: 2 requests | `ValuesKept`, `StructsKept`, `Unique`, `Routed`, `NoLeak` |
| `answers` | one instance of each module that must return, under fairness | `CallsReturn` |

Why the bounds are enough to meet the interesting cases. Two jobs race for one
address, share a second and lose each other's work to a panic; a third finds
duplicates. With `Span` 2 names repeat both within a second and by wrapping. Ten
runes and pages of three give exact multiples, a short last page, and empty pages
behind the text. Three calls over a socket give the first to set the deadline, one
that comes while replies are handed out, and one after the wrap. Two users and the
pinger meet at a limit of two with a third connection in the making. Two
transactions in opposite orders are a cycle, the only shape that needs sorting
with two documents; longer cycles are in `sorts`. Five chunks are more than may be
pending. A page of one key ends in the middle of a group as well as behind it.

**Reading the results that sound bad.** `OwnAudioUnlessSameSecond`, `PaidOnce`
and `OutageServesNobody` are statements about how far the damage goes: audio of
one person can be replaced by another's, but only by an upload of the same
second (or one 2^32 seconds away); an article can be paid for twice, but only by
jobs that overlap, by an alias or when the database does not answer; an outage
of the socket serves nobody until a restart.

**Fairness.** Assumed only of steps the code takes by itself; neither deaths,
restarts, arrivals, calls of users nor changes of the topology are assumed to
happen.

| Module | Fair | Why |
|---|---|---|
| `Rttm` | `JobStep` of every job, the settling of its insert | The Go scheduler runs goroutines; mgo's socket timeout of one minute (set by `mgo.Dial`) ends what the database owes. For the five services it is an *assumption*: their clients have no timeout, so the model assumes that a peer answers or its connection breaks |
| `MgoSocket` | `readLoop` as a whole, and each killer that has begun to tell | A read ends by a message, by a broken connection or by the deadline; the server is *not* fair |
| `MgoServer` | steps of goroutines, the pinger's next ping, `AbendSocket` of a dead socket, `Close` in its loop | Connecting ends by its timeout; locks are released after each step |
| `MgoCluster` | the loop and each goroutine of a sync, strongly for those that have yet to begin, since they wait for a lock others take again and again (a mutex of Go does not starve its waiters); sessions that look | As above; `syncServer` ends by its timeout |
| `MgoAuth` | the reader, each actor's next write | As for `MgoSocket` |
| `MgoIter` | replies, and the steps inside a call of `Next` | A socket ends every call (`Calls`); without the fault `"dying"`, under which `Next` never returns |
| `Txn` | each runner | Requests to the database end |
| `MgoGridWrite`, `MgoGridRead` | the insertions and fetches in background, the calls' own steps | The same |
| `S3Multi` | the steps of a call | Assumed of the peer, as for `Rttm` |

`answers` asks all of these at once, of instances of which one moves and the
others rest where none of their steps is due, so that no fairness of one can
stand in for that of another. Its liveness properties have the form that
again and again the call is not under way.

**Symmetry** is used where a run checks invariants and formulas `[][A]_v` over
steps: jobs, phones, users, runners, sockets and calls that no constant and no
`CHOOSE` tells apart. No run that checks liveness has any.

**Disagreements found.** Two concern the application and have runs. (1)
`templates/submit.html:35` promises "You should receive an SMS in a few
seconds."; the page is rendered before the work starts and any failure is silent
(`told`). (2) `services/tts.go:9` says the function "returns appended audio bytes";
the slice is made with a length rather than a capacity, so one zero byte for each
page precedes the audio (`audio`).

The others are in vendored code, met while modelling it. The definitions below
behave as the code does; the passing instances leave out the situation by a
constant, which the last column names. Paths are below
`Godeps/_workspace/src/`.

| Line | What the code does, and what its comment says | Left out by |
|---|---|---|
| `mgo.v2/server.go:113` | compares with the limit and connects after unlocking: two callers one below the limit both get a socket ("number of sockets in use", :101) | no property speaks of the limit from above |
| `mgo.v2/server.go:140` | a connection that breaks before it is appended to `liveSockets` stays there, dead ("should be discarded", :224) | no property counts dead sockets |
| `mgo.v2/cluster.go:559` | with servers but none with the tags, sleeps and looks again without regard to the timeout (`session.go:1434`) | only `MasterFound`, of a session that wants a master, is asked |
| `mgo.v2/auth.go:430` | logouts leave the list in one critical section and are written in another, so that a login between is logged out again (:291) | `Does` without logouts where there are two actors |
| `mgo.v2/auth.go:152` | the answer of a mongos wakes one waiter, the others sleep on (:205) | `Mongos` FALSE |
| `mgo.v2/session.go:3678` | what a server is, is read after it was chosen: the socket of one that ceased to be a master is reserved as a slave's, goes on being used by strong sessions, or makes `setSocket` panic (`cluster.go:522`, "the socket will necessarily be to a master server") | nothing; `MasterKept` asks for a server that was a master when chosen, `NoPanic` excepts this panic |
| `mgo.v2/session.go:3740` | a write to the database `local` may go to a slave, in a session that has not written (`session.go:1394`, "Writes will of course be issued to the primary") | nothing; `MasterKept` excepts these writes |
| `mgo.v2/session.go:673` | `Logout` removes the first credential only, `Login` appends one each time (:663) | `Logouts` is `{"all"}` where the logins of sessions are compared |
| `mgo.v2/session.go:689` | `LogoutAll` of a clone logs the shared socket out (:625) | `Copies` without `Clone` where there are logins |
| `mgo.v2/session.go:3710` | the reply to a `getMore` on a lost cursor is taken for the end, `Err` is nil (:2925) | `Faults` without `"lost"`, but for tails |
| `mgo.v2/session.go:3001` | with the last document of a limit its error is forgotten (:2925) | `Calls` without limits in `faulty` |
| `mgo.v2/session.go:2891` | closed before the first reply, the cursor of that reply is never killed (:2864) | `Closes` is `"late"` in `finds` |
| `mgo.v2/session.go:2972` | when killing the cursor at the limit fails, the last document is lost (`:2962`, "Exhaust available data before reporting any errors") | nothing; `Complete` asks about ends without an error |
| `mgo.v2/socket.go:465` | over a socket that has died `Query` calls the reply function itself, which waits for the lock that `Next` holds: `Next` never returns ("seems necessary [...] but it's not yet tested", :462) | `Faults` without `"dying"` where `Next` must return |
| `mgo.v2/session.go:2968` | `Batch` after a smaller `Limit` asks for more than the limit, and `Next` panics (:2309) | no such call in `Calls` |
| `mgo.v2/gridfs.go:525` | the error of `RemoveAll` is ignored: chunks of an aborted file may stay (:538, "ensuring previously written chunks are removed") | nothing; `Nothing` asks for no chunks if they could be removed |
| `mgo.v2/gridfs.go:547` | an abort while `Close` inserts the file's document comes too late, and its error may be forgotten (:537) | nothing; such an error is `"late"` |
| `mgo.v2/gridfs.go:630` | a chunk that cannot be marshalled stays pending for ever, and `Close` waits for it (:494) | `Faults` without `"marshal"` where `Close` must return |
| `mgo.v2/gridfs.go:733` | a chunk counts as read though fetching it failed: the next `Read` returns the chunk after it (:691) | `GivesUp` TRUE |
| `mgo.v2/gridfs.go:676` | a seek to before the start panics or leaves a negative offset (:649) | `Before` 0 |
| `mgo.v2/txn/txn.go:319` | `ResumeAll` does not ask for transactions that are aborting ("all pending", :315) | `ResumedOrAborting` says what holds |
| `mgo.v2/txn/flusher.go:824` | a delayed insert can be repeated after a later removal, as the comment at :817 admits | no instance removes what another transaction has inserted |
| `mgo.v2/txn/txn.go:586` | `structcmp` compares with the wrong count of fields, so that neither of two structs is less (`flusher.go:227`) | exported fields only |
| `mgo.v2/bson/bson.go:191`, `:228` | the counter starts at 0 in every process, and 16 bits of its number are kept (:217) | `Reuse` FALSE, `Pids` below `PidSize` |
| `mgo.v2/bson/bson.go:655` | the map of an inlined struct is neither written nor read (:473) | inlined structs without maps |
| `mgo.v2/bson/decode.go:647` | an integer loses its high bits in a narrow variable (`bson.go:482`) | `wide` has wide variables |
| `mgo.v2/bson/decode.go:686` | an int64 beyond 2^53 is rounded in a float64, and its integer part not kept (`bson.go:482`) | nothing; `IntegerPart` asks it of the numbers a float64 holds |
| `mgo.v2/bson/encode.go:364` | an array of bytes in a document that was passed by value cannot be sliced, which is an error | nothing; `RoundTrip` speaks of what could be written |
| `mgo.v2/bson/decode.go:460`, `:445`, `:463` | a document for a slice, a pointer to a number or a number is not read, ends all, or counts as read (`bson.go:488`, :434) | no documents in `deeper`; nothing asked of the last |
| `mgo.v2/bson/decode.go:633` | a string for an array panics (`bson.go:486`) | no arrays among the variables |
| `mgo.v2/bson/decode.go:546` | a nil pointer is set before `SetBSON` refuses (:435) | a pointer to a setter that is not nil |
| `mgo.v2/bson/decode.go:451`, `:142` | what `SetBSON` returns for a document is dropped or ends all (`bson.go:70`, :72) | no documents in `deeper` |
| `launchpad.net/goamz/s3/multi.go:324` | parts of an earlier and longer file stay in the upload (:278) | `Uploaded` asks about the object, not about `ListParts` |
| `launchpad.net/goamz/s3/s3.go:136` | `DelBucket` is tried again after its answer was lost: it fails although it deleted the bucket, or deletes one that was made since (`:126`, "DelBucket removes an existing S3 bucket") | nothing; `StoreHolds` excepts a `DelBucket` tried again after a loss |
| `launchpad.net/goamz/s3/s3test/server.go:540` | the headers to keep never match, the checksum is not held (:84) | nothing asked of headers |
| `github.com/gorilla/mux/route.go:42` | with a host added after its subrouter, a route leaves its handler for a later one (:375) | `SubLast` TRUE |
| `github.com/gorilla/mux/route.go:146` | the variables of one path are not compared with one another (:287) | `Unique` TRUE |
| `github.com/gorilla/mux/route.go:519` | two routes of a subrouter can share an array of queries (`mux.go:65`) | too few queries for room in the array |
| `github.com/gorilla/mux/regexp.go:55` | a query is looked for anywhere, also within a longer name (`route.go:319`) | `Ends` empty |

## 4. What is proved

All for every value of the constants that satisfies the assumptions, checked by
TLAPS: any number of jobs, calls, users, sockets, sessions and documents. Each
theorem follows from an inductive invariant; for each the bullet says what it adds
to the property, which is what a change to the code would have to keep.

Assumptions, all evaluated by TLC in the runs. `Canonical` gives every valid address
a nonempty set of addresses (`UrlAssumption`); `None` is none of the values it
stands beside (`NoneAssumption`, `CallsAssumption`, `QueueAssumption`); `Blank` is no
phone; `Span`, the page size and the documents of a reply are positive, and bounds
are numbers; `Faults` and modes are known ones; a cursor is a call, the dialled
credential a credential; users, sockets and goroutines of a pool or session are
finitely many. Where a theorem needs more, the bullet says so.

### The application (`RttmProofs`, `TextsProofs`)

* `TypeCorrect`. `TypeOK` alone is not inductive: that a document built from a
  job's variables is well formed depends on which of them have been assigned.
  The conjunct `Assigned` says so by the job's place and kind.
* `RequestsReferToPosts` (`Referential`). A request is sent some steps after its
  post was found or acknowledged, so the invariant adds `PostKnown`: a job about
  to send its request holds the id of a stored post. Posts only grow, whatever
  dies, which carries the invariant over the crash and the late write.
* `HandedOutAudioIsThere` (`HandedOutAudioExists`), with `AudioKnown`: from the
  upload or the lookup on, the object a job's address names is there; objects
  are replaced, never removed.
* `PostsHaveOwnAudio` (`OwnAudioUnlessSameSecond`), with `NamedBySecond`: every
  name that is stored, or in a job's hands, was made from the second its job read,
  and an object in the bucket was put by a job of its name.
* `MessagesAreBacked` (`SMSBacked`), with `Backing`: what a job will send is
  already stored when it waits to, and a document's fields stay those of its job.
* `RefinesLibrary` (`ImplementsLibrary`). The step condition needs that an insert
  never meets its own id: `Fresh`, which rests on `NoWayBack`, that no step takes
  a job back over the place where it sends.
* `OutageLosesTheJob` (`OutageServesNobody`). What stays true of a job taken
  during an outage is `CutOff`: no message is its own, and it has ended or stands
  before its next use of the session while the socket is still dead.
* `StoredPagesAreFree`: with `AnswersAlways` (no query, acquisition or socket fails)
  `PaidOnce` holds outright. Otherwise a lookup that fails is taken for a miss,
  and the page is paid for again.
* `NoTextIsOutOfRange` (`InRange`). The two counters of the loop are one position,
  `i = bucket * Max + count`, and there are at least as many bytes as runes.
* `PagesSpellTheText` (`PagesAreChunks`), from the same position and the lemma
  that one more rune changes exactly the chunk it belongs to.
* `PlaylistSpeaksTheText` (`SpokenInOrder`), from these and what the playlist
  holds while pages are spoken (`Spoken`).
* `LinksAreGood` and `FeedsAreExact` (`LinksStayGood`, `FeedIsExact`), from
  `FeedInv`: while a feed is filled, the requests in front of the range index are
  listed, each article once and at the rank of its first request (`Listing`); what
  was stored before is in the answer (`Answered`); a page is missing only after a
  failed query (`Missing`).

### The mgo driver

* `DataProofs`: `QueueIsFifo` (`IsFifo`, a refinement). `Sound` relates the two
  indices, `pushi = popi + nelems` modulo the capacity, and `contents` is the
  abstract queue. The hard step is `expand`: a buffer that goes round its end is
  copied in two pieces behind a gap, or moved up, and must read the same.
* `DataProofs`, writing: `FilesAreTrue` (`FilesAreWhole`, that is `Whole`, `Nothing` and
  `Pending`). `Parts` says that what has a number, what the current call has still to
  insert and what is kept in the buffer are, one after the other, the bytes written so
  far, cut at multiples of the size of a chunk. `Stored` follows the insertions, which
  end in any order: without an error every number is stored or under way, and holds
  the bytes of its place. The document therefore names a whole file, since Close
  waits for what is pending (`Document`). After an error nothing is left that could
  still arrive when the chunks are removed, so that none remains if their removal
  succeeds (`Gone`, with `Caller`; `swept` records how it went, since the code does
  not look). A call to Abort may come late, when the document is there already.
* `DataProofs`, reading: `ReadingIsRight` (`BytesAreRight`, which `Iterated` checks in two
  instances). Between calls the buffer holds the file from the offset to the end of the
  chunks counted (`Standing`), what is read ahead is the chunk it was asked as or has
  failed (`Cache`), and a call has gathered the bytes up to the offset (`SoFar`). It
  needs `Sane`: the caller gives up at the first error, or there is none, and never
  seeks to before the start. Without either the code goes wrong, see the disagreements at
  `gridfs.go:733` and `:676`.
* `DataProofs`, writes: `WritesTellTheTruth` (`ResultsTrue`, with its four parts). Nothing
  in an answer to getLastError says which operation it is about; that it is the caller's
  own rests on the order of what is sent. `InLine`: who asks waits and has sent nothing
  after it, and what is right before it on the socket is its operation, or that was the
  last one served. `Answered`: who has an answer coming waits for it and has nothing else
  on the way. The rest is what each call makes of the answer (`InsertsTell`,
  `UpdatesTell`, `RemovalsTell`), and `WriteAssumption` is all that it needs: a value is
  not 0, which stands for no document, and an upsert names its document.
* `MgoSocketProofs`: `RepliesGoHome` (`RepliesAreOwn`) and `PromiseIsKept`
  (`KeepsPromise`, the refinement of `Calls`). `Core` says that each call is in one
  place, and that a registered id, a request under way, the answer to it and a reply
  that is being read belong to the same call. `OwnWhileNotLapped` is the general
  form: nothing goes wrong unless the counter of request ids comes round to an id
  that is still in use (`NotLapped`). For the other two, `Window` bounds how far
  behind the counter an id in use can lie, so that `FewCalls` (twice as many ids as
  calls, 2^31 calls with the ids of 32 bits) excludes it. Twice is what
  the code needs, since a query with a reply advances the counter by two: TLC finds
  3 calls of which one gets another's reply with 5 ids, and none with 6.
* `MgoServerProofs`: `ThePoolIsSound` (`PoolIsSound`, that is `OneOwner`, `NoneLost` and
  `Reuses`). A goroutine owns a
  socket from the moment it leaves the pool to the moment it is back (`Has`),
  which is longer than it is in use; two never own the same (`Apart`), nobody owns
  what is pooled (`Placed`), and its references are its owner's (`Counts`). `Few`
  counts: those alive and those being connected are no more than the goroutines.
  It is kept because a goroutine that finds the pool empty owns nothing itself, while
  every connection alive then has an owner of its own (`Kept`). Before Close only;
  after it no connection is begun.
* `MgoClusterProofs`: `TheClusterAgrees` (`ClusterAgrees`). Sync goroutines and
  sessions hold servers outside the cluster's lock, so the invariant says what they
  hold: from the moment the goroutine of a host has a server, that is the one the list
  has for the host, if it has one (`AtWork`), and so it is for the servers that wait
  for a master to vouch for them, whose goroutines are over (`Pending`). It is why
  `removeServer`, which goes by address, may come at any time, and why `addServer`
  never meets a second server. That none is left open follows from `Watched`: an open
  server is listed, waits, or is with the goroutine of its host. `Counted` says whose
  the references are, the sessions' and one of the loop's while it iterates; the
  last reference is therefore given up only when no goroutine is left, and what
  `Release` closes is all there is (`Closing`).
* `MgoSocketProofs`, second part: `NoncesAreSingle` (`NoncesAgree`, that is `NonceOnce`
  and `RightIsAccepted`). `OneNonce` follows the nonce round: at
  hand, with the goroutine that took it and that asks for the next one, in the
  reply. It is the one the server expects until it is used (`Current`), and a reply
  finds the login that waits for it (`Told`), so that a refusal is due to the
  credentials. No assumption on the constants is needed.
* `MgoSessionProofs`: `CountsAreRight` (`SocketsCounted`) and `MasterIsKept`
  (`MasterKept`, an action property). A server's role is read once when a socket is
  chosen and again when it is reserved, with the cluster's lock given up in between: a
  socket is a master's, a slave's, or that of a server that was the master only when
  it was chosen ("former"), which `setSocket` puts in the slave's place or, when that
  is taken, panics about. `Placed`: in the master's place is a socket whose server
  was still the master when it was reserved, in the slave's place any other; `OpsHold`: an operation's
  socket is not in the pool; `Committed`: a session that has written keeps one that was
  chosen as its master's (`Sure`), and a strong one never lowers its guard. Only the
  panic over a former master is left (`NoPanic`), and writes to `local` are excepted. `LoginsAreRight` proves `LoggedIn` under
  `Lone` (one goroutine, no clones, no logout of a single database), the conditions
  under which the code keeps it, see the disagreements above; its invariant adds
  that the operation under way is over the session's own socket (`Own`, `Single`).

### Ids, requests and the store (`WebProofs`)

* `IdsAreUnique` (`Unique`), under `Distinguished`: the pids of the one machine that is
  modelled differ in the 16 bits an id keeps of them, none is used again, and the
  counter does not go round within three seconds' worth of ids, `3 * PerSecond <=
  CounterSize` (three, since a goroutine takes the time before the number).
  `Young` bounds how far the counter of a process can have moved since an id of the
  current second or the one before, with those still to be numbered (`Waiting`).
* `RequestsAreKeptApart` (`NoLeak`). What is found for a request is what was set for it
  last and not taken away (`Own`), whatever happens to the other requests in between.
* `StoreIsRight` (`StoreHolds`). `CallOk`: a call under way has had no effect yet, and
  one that is over has had at most one, exactly one if it was told so, none if it was
  refused. It rests on two lemmas: a request that is not granted changes nothing
  (`RefusedIsUnchanged`), and a call goes on only if its attempt left nothing done
  (`AttemptEnds`), since of the two calls that are tried again `Get` changes nothing.
  The other one is `DelBucket`. Tried again after its answer was lost it keeps neither
  promise, and `Settled` excepts it from then on, and nothing else.

### Only model-checked, and why

* Liveness (`JobsAreDone`, `CallsReturn`): fairness and `ENABLED` are
  beyond the prover's backends.
* What a recursive definition computes for every input (`ValuesKept`, `StructsKept`,
  `Routed`, `SameOrder`, and the components in `Txn`'s sorting): induction over data
  needs a theorem that takes an operator, which the backends cannot instantiate, and
  recursive operators disable the SMT backend. The same keeps folds and `SelectSeq`
  out of what is proved, and with them `AuthAgrees` (in `LoginsAgree`), `ListedOnce` and
  `Uploaded`.
* `LoggedInAsSaid` is `LoggedIn` of one instance; `LoginsAreRight` proves that for all
  constants, under the conditions named above.
* `SyncIsComplete` (in `SyncFindsAll`) compares what was found with what there is, whichever
  order the answers came in: it speaks of a past moment of every host, for which the
  model has no variable but `calm`.
* `Atomic` and `OneAfterTheOther` of `Txn`: what a runner holds is computed by sorting
  (`Components`) and by folds over queues, and their meaning is induction over data.
* `Iterated` of iterators: what a query asks for is a fold over the calls that set it. Of
  `Iterated` the part about files is proved.

## 5. What is not modelled

* Layout: templates, the XML of the feed (`gorilla/feeds`), wording and logging.
* The requests and parsing of Alchemy, Embedly, Ivona and Twilio: each call is its
  outcomes. The signature of S3 requests, the strategy that says how long to wait
  between attempts, and the URLs of buckets.
* In mgo: which of the servers that fit is the best (`BestFit`), statistics, the
  merging of safety settings, indexes and their cache, `MapReduce`, the building of
  queries, the libraries of SASL, hashes and the bytes of the wire protocol. In
  `txn`: the change log and `PurgeMissing`.
* In `bson`: the byte layout and lengths, getters, the choice of the type of
  documents within interfaces, reading into a `bson.D` or a `RawD`. In `mux`: patterns of variables, headers, schemes,
  names of routes and the cleaning of paths.
* `godotenv`, the port, the table of routes: read once, never changed.
* Errors written by the API's goroutine to the response of a finished handler
  (`handlers.go:83`) are decided inside `net/http`, which is not in the repository.
* `SmartTruncate` is called by its test only.

## 6. Plan

Done: the application (`Library`, `Rttm`, `TextToSpeech`, `Feed`) with proofs of all
its safety properties; the mgo driver from its sockets to transactions, with proofs
for the socket, the pool, logins, sessions, the cluster, the queue, files and writes; BSON, with
a proof about ids; S3, with one about the store; the router, with one about what is
kept of requests.

Left, in the order of what it would protect:

1. `Txn`: `Atomic`, with the order of a queue's transactions stated by a relation, so
   that no fold stands between a step and what it means.
2. `MgoIter`: documents come in order and once, for any query that asks for numbers of
   documents the way the fold over its settings does.
3. `S3Multi`: an upload is what was last put, with its object given by a recursive
   function over the parts.
