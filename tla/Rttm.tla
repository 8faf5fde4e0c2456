-------------------------------- MODULE Rttm --------------------------------
(***************************************************************************)
(* The web process of rttm: HTTP handlers that answer at once and leave    *)
(* the work to a goroutine, the goroutines themselves (CreateRequest and   *)
(* the function literal of APIHandler), and what they share: the mgo       *)
(* session, the two collections, the S3 bucket, Twilio.  A panic of any    *)
(* goroutine ends the process and every job in it.                         *)
(*                                                                         *)
(* A member of Jobs is one HTTP request and the goroutine it starts; it is *)
(* also the id of the post and of the request that goroutine stores.       *)
(***************************************************************************)
EXTENDS Integers, FiniteSets

CONSTANTS
    Jobs,
    Urls,        \* page addresses, and strings that are none
    ValidUrls,   \* those IsValidURL accepts
    Canonical,   \* for a valid address, the addresses Embedly may answer with
    Phones,
    Blank,       \* a phone field of white space only
    None,        \* a variable not assigned yet; an absent object
    Span,        \* after so many seconds int32(Unix()) repeats (2^32)
    MaxClock,    \* bound on the seconds that pass
    MaxWords,    \* bound on the words of a text message
    Faults       \* which calls may fail

FaultKinds == {"template", "query", "acquire", "insert", "socket", "text",
               "extract", "speech", "header", "put", "sms", "callback", "kill"}

ASSUME UrlAssumption ==
    /\ ValidUrls \subseteq Urls
    /\ Canonical \in [ValidUrls -> SUBSET Urls]
    /\ \A u \in ValidUrls : Canonical[u] # {}
ASSUME NoneAssumption ==
    /\ None \notin Jobs \cup Urls \cup {"submit", "twilio", "api"}
    /\ None \notin 0..MaxClock
ASSUME BlankAssumption == Blank \notin Phones
ASSUME BoundAssumption == Span \in Nat \ {0} /\ MaxClock \in Nat /\ MaxWords \in Nat
ASSUME FaultAssumption == Faults \subseteq FaultKinds

VARIABLES
    up,            \* the process runs
    socket,        \* the mgo session's masterSocket: "none", "live" or "dead"
    pc,            \* where each job is
    kind,          \* which handler took it: "submit", "twilio" or "api"
    url, phone,    \* the arguments of CreateRequest
    pageURL,       \* extractResponse.URL
    second,        \* time.Now().Unix() when the audio was named
    audioURL,      \* the audio object's path; with a post found, that post's
    postId,        \* post.Id
    posts, requests,           \* the collections as the server holds them
    sentPosts, sentRequests,   \* inserts written to a socket, not yet carried out
    bucket,        \* for each object name, the job that uploaded it last
    sms,           \* messages Twilio took
    callbacks,     \* answers a caller of the API got
    clock

server   == <<up, socket>>
locals   == <<kind, url, phone, pageURL, second, audioURL, postId>>
store    == <<posts, requests, sentPosts, sentRequests>>
outside  == <<bucket, sms, callbacks, clock>>
vars     == <<server, pc, locals, store, outside>>

Waiting  == {"postSent", "requestSent"}
Running  == {"lookup", "text", "extract", "speech", "name", "put", "post",
             "request", "sms", "callback"} \cup Waiting
Ended    == {"rejected", "failed", "lost", "done"}
Labels   == {"idle"} \cup Running \cup Ended

\* int32(time.Now().Unix()) (_Coarse: every two seconds share a name)
AudioName_Coarse(t) == (t - (t % 2)) % Span
AudioName(t) == t % Span
Paths == {AudioName(t) : t \in 0..MaxClock}

Post    == [id : Jobs, url : Urls, audioURL : Paths]
Request == [id : Jobs, postId : Jobs, phone : Phones]
IdsOf(docs) == {d.id : d \in docs}

TypeOK ==
    /\ up \in BOOLEAN /\ socket \in {"none", "live", "dead"}
    /\ pc \in [Jobs -> Labels]
    /\ kind \in [Jobs -> {"submit", "twilio", "api", None}]
    /\ url \in [Jobs -> Urls \cup {None}]
    /\ phone \in [Jobs -> Phones \cup {None}]
    /\ pageURL \in [Jobs -> Urls \cup {None}]
    /\ second \in [Jobs -> 0..MaxClock \cup {None}]
    /\ audioURL \in [Jobs -> Paths \cup {None}]
    /\ postId \in [Jobs -> Jobs \cup {None}]
    /\ posts \subseteq Post /\ sentPosts \subseteq Post
    /\ requests \subseteq Request /\ sentRequests \subseteq Request
    /\ bucket \in [Paths -> Jobs \cup {None}]
    /\ sms \subseteq [job : Jobs, phone : Phones, audioURL : Paths]
    /\ callbacks \subseteq [job : Jobs, audioURL : Paths]
    /\ clock \in 0..MaxClock

Unset == [j \in Jobs |-> None]

Init ==
    /\ up = TRUE /\ socket = "none"
    /\ pc = [j \in Jobs |-> "idle"]
    /\ kind = Unset /\ url = Unset /\ phone = Unset /\ pageURL = Unset
    /\ second = Unset /\ audioURL = Unset /\ postId = Unset
    /\ posts = {} /\ requests = {} /\ sentPosts = {} /\ sentRequests = {}
    /\ bucket = [path \in Paths |-> None]
    /\ sms = {} /\ callbacks = {} /\ clock = 0

Goto(j, label) == pc' = [pc EXCEPT ![j] = label]

(***************************************************************************)
(* Handlers                                                                *)
(***************************************************************************)

\* The checks of submitData.validate. (_AnyPhone: the phone is not looked at)
Valid_AnyPhone(u, ph) == u \in ValidUrls
Valid(u, ph) == u \in ValidUrls /\ ph # Blank

\* go CreateRequest(u, ph), from the handler k
StartRequest(j, k, u, ph) ==
    /\ Goto(j, "lookup")
    /\ kind' = [kind EXCEPT ![j] = k]
    /\ url' = [url EXCEPT ![j] = u]
    /\ phone' = [phone EXCEPT ![j] = ph]
    /\ UNCHANGED <<pageURL, second, audioURL, postId>>

Turned(j) == Goto(j, "rejected") /\ UNCHANGED locals

\* POST /submit.  A template that does not parse makes render panic before the
\* goroutine is started; net/http recovers that panic.
PostSubmit(j, u, ph) ==
    /\ up /\ pc[j] = "idle"
    /\ \/ Valid(u, ph) /\ StartRequest(j, "submit", u, ph)
       \/ ~Valid(u, ph) /\ Turned(j)
       \/ "template" \in Faults /\ Turned(j)
    /\ UNCHANGED <<server, store, outside>>

\* POST /twilio/callback.  genuine: To and AccountSid are the configured ones.
\* The last valid address among the words is the one taken.
TwilioCallback(j, genuine, words, from) ==
    /\ up /\ pc[j] = "idle"
    /\ \/ /\ genuine
          /\ \E i \in DOMAIN words :
                /\ Valid(words[i], from)
                /\ \A k \in DOMAIN words : k > i => words[k] \notin ValidUrls
                /\ StartRequest(j, "twilio", words[i], from)
       \/ /\ ~genuine \/ \A i \in DOMAIN words : ~Valid(words[i], from)
          /\ Turned(j)
    /\ UNCHANGED <<server, store, outside>>

\* POST /api/rttm.  wellFormed: the body can be read and is JSON.
API(j, wellFormed) ==
    /\ up /\ pc[j] = "idle"
    /\ \/ /\ wellFormed
          /\ Goto(j, "speech")
          /\ kind' = [kind EXCEPT ![j] = "api"]
          /\ UNCHANGED <<url, phone, pageURL, second, audioURL, postId>>
       \/ ~wellFormed /\ Turned(j)
    /\ UNCHANGED <<server, store, outside>>

(***************************************************************************)
(* The process                                                             *)
(***************************************************************************)

\* A panic outside a handler, or a kill from outside.
Die ==
    /\ up' = FALSE
    /\ socket' = "none"
    /\ pc' = [j \in Jobs |-> IF pc[j] \in Running THEN "lost" ELSE pc[j]]

Kill == /\ "kill" \in Faults /\ up
        /\ Die
        /\ UNCHANGED <<locals, store, outside>>

\* main: a new process, which dials again; a failing Dial panics, and the
\* process stays down.
Restart == /\ ~up
           /\ up' = TRUE
           /\ UNCHANGED <<socket, pc, locals, store, outside>>

\* The read loop of the socket ends with an error and kills the socket.
SocketDies == /\ "socket" \in Faults /\ up /\ socket = "live"
              /\ socket' = "dead"
              /\ UNCHANGED <<up, pc, locals, store, outside>>

\* Session.acquireSocket: the reserved socket is returned whatever its state;
\* one is asked of the cluster only while none is reserved.
\* (_Refreshed: a dead socket is replaced.)
Usable_Refreshed == socket' = "live"
Usable   == socket # "dead" /\ socket' = "live"
Unusable == /\ socket = "dead" \/ (socket = "none" /\ "acquire" \in Faults)
            /\ UNCHANGED socket

Tick == /\ clock < MaxClock
        /\ clock' = clock + 1
        /\ UNCHANGED <<server, pc, locals, store, bucket, sms, callbacks>>

(***************************************************************************)
(* CreateRequest and CreatePost                                            *)
(***************************************************************************)

\* The query {"url": u} of GetPostByURL.
\* (_Original: posts are looked up by the address they were asked for under.)
Matches_Original(u) == {p \in posts : url[p.id] = u}
Matches(u) == {p \in posts : p.url = u}

\* Any error of the query, not only ErrNotFound, sends the job to CreatePost.
Lookup(j) ==
    /\ pc[j] = "lookup"
    /\ \/ /\ Usable
          /\ \E p \in Matches(url[j]) :
                /\ postId' = [postId EXCEPT ![j] = p.id]
                /\ audioURL' = [audioURL EXCEPT ![j] = p.audioURL]
          /\ Goto(j, "request")
       \/ /\ Matches(url[j]) = {} /\ Usable
          /\ Goto(j, "text")
          /\ UNCHANGED <<postId, audioURL>>
       \/ /\ Unusable \/ ("query" \in Faults /\ Usable)
          /\ Goto(j, "text")
          /\ UNCHANGED <<postId, audioURL>>
    /\ UNCHANGED <<up, kind, url, phone, pageURL, second, store, outside>>

GetText(j) ==
    /\ pc[j] = "text"
    /\ \/ Goto(j, "extract")
       \/ "text" \in Faults /\ Goto(j, "failed")
    /\ UNCHANGED <<server, locals, store, outside>>

\* With an error the response is nil, and logging its ErrorMessage panics.
Extract(j) ==
    /\ pc[j] = "extract"
    /\ \/ /\ \E u \in Canonical[url[j]] : pageURL' = [pageURL EXCEPT ![j] = u]
          /\ Goto(j, "speech")
          /\ UNCHANGED server
       \/ /\ "extract" \in Faults
          /\ Die
          /\ UNCHANGED pageURL
    /\ UNCHANGED <<kind, url, phone, second, audioURL, postId, store, outside>>

\* TextToSpeech, the module of that name.  An answer of status 200 without the
\* headers of Ivona is an index out of range.
CreateTTS(j) ==
    /\ pc[j] = "speech"
    /\ \/ Goto(j, "name") /\ UNCHANGED server
       \/ "speech" \in Faults /\ Goto(j, "failed") /\ UNCHANGED server
       \/ "header" \in Faults /\ Die
    /\ UNCHANGED <<locals, store, outside>>

\* UploadPlaylist names the object after the second it is called in ...
UploadPlaylist(j) ==
    /\ pc[j] = "name"
    /\ second' = [second EXCEPT ![j] = clock]
    /\ audioURL' = [audioURL EXCEPT ![j] = AudioName(clock)]
    /\ Goto(j, "put")
    /\ UNCHANGED <<server, kind, url, phone, pageURL, postId, store, outside>>

\* ... and the upload replaces whatever has that name.  Put has no retry; its
\* error panics, whether or not S3 kept the object.
UploadPublicFile(j) ==
    LET uploaded == [bucket EXCEPT ![audioURL[j]] = j] IN
    /\ pc[j] = "put"
    /\ \/ /\ bucket' = uploaded
          /\ Goto(j, IF kind[j] = "api" THEN "callback" ELSE "post")
          /\ UNCHANGED server
       \/ /\ "put" \in Faults
          /\ bucket' \in {bucket, uploaded}
          /\ Die
    /\ UNCHANGED <<locals, store, sms, callbacks, clock>>

\* The post CreatePost inserts: Unmarshal gives it the address Embedly found.
\* (_Renamed: the object name is taken from the clock a second time.)
NewPost_Renamed(j) == [id |-> j, url |-> pageURL[j], audioURL |-> AudioName(clock)]
NewPost(j) == [id |-> j, url |-> pageURL[j], audioURL |-> audioURL[j]]

\* (_Own: the request always refers to a post of its own job.)
NewRequest_Own(j) == [id |-> j, postId |-> j, phone |-> phone[j]]
NewRequest(j) == [id |-> j, postId |-> postId[j], phone |-> phone[j]]

\* What ends the wait for the reply to getLastError.  A dying socket hands its
\* error to every waiting operation, even one the server carried out.
\* (_Unsafe: without SetSafe nobody waits.  _TimesOut: the wait is given up at
\* any moment.)
Acknowledged_Unsafe(j, stored) == TRUE
Acknowledged(j, stored) == socket = "live" /\ j \in IdsOf(stored)
Refused_TimesOut(j, docs) == TRUE
Refused(j, docs) == socket = "dead" \/ j \notin IdsOf(docs)

\* Insert writes the operation and a getLastError to the socket and waits.
SendPost(j) ==
    /\ pc[j] = "post"
    /\ \/ Usable /\ sentPosts' = sentPosts \cup {NewPost(j)} /\ Goto(j, "postSent")
       \/ Unusable /\ Goto(j, "failed") /\ UNCHANGED sentPosts
    /\ UNCHANGED <<up, locals, posts, requests, sentRequests, outside>>

PostReply(j) ==
    /\ pc[j] = "postSent"
    /\ \/ /\ Acknowledged(j, posts)
          /\ postId' = [postId EXCEPT ![j] = j]
          /\ Goto(j, "request")
       \/ /\ Refused(j, posts \cup sentPosts)
          /\ Goto(j, "failed")
          /\ UNCHANGED postId
    /\ UNCHANGED <<server, kind, url, phone, pageURL, second, audioURL, store, outside>>

SendRequest(j) ==
    /\ pc[j] = "request"
    /\ \/ /\ Usable /\ sentRequests' = sentRequests \cup {NewRequest(j)}
          /\ Goto(j, "requestSent")
       \/ Unusable /\ Goto(j, "failed") /\ UNCHANGED sentRequests
    /\ UNCHANGED <<up, locals, posts, requests, sentPosts, outside>>

RequestReply(j) ==
    /\ pc[j] = "requestSent"
    /\ \/ Acknowledged(j, requests) /\ Goto(j, "sms")
       \/ Refused(j, requests \cup sentRequests) /\ Goto(j, "failed")
    /\ UNCHANGED <<server, locals, store, outside>>

\* Twilio's answer is only printed.
SendSMS(j) ==
    /\ pc[j] = "sms"
    /\ \/ sms' = sms \cup {[job |-> j, phone |-> phone[j], audioURL |-> audioURL[j]]}
       \/ "sms" \in Faults /\ UNCHANGED sms
    /\ Goto(j, "done")
    /\ UNCHANGED <<server, locals, store, bucket, callbacks, clock>>

\* The API's goroutine posts the address to the caller.  An address that does
\* not parse, and a call that fails, end in a nil dereference.
Callback(j) ==
    LET told == callbacks \cup {[job |-> j, audioURL |-> audioURL[j]]} IN
    /\ pc[j] = "callback"
    /\ \/ callbacks' = told /\ Goto(j, "done") /\ UNCHANGED server
       \/ /\ "callback" \in Faults
          /\ callbacks' \in {callbacks, told}
          /\ Die
    /\ UNCHANGED <<locals, store, bucket, sms, clock>>

(***************************************************************************)
(* The database server                                                     *)
(***************************************************************************)

\* An operation that reached the server is carried out, though its sender may
\* be gone.  One is dropped when the server refuses it or, its connection
\* being gone, it never arrived.
\* (_Upsert: a post replaces those of the same address.)
ApplyPost_Upsert(p) ==
    /\ posts' = {q \in posts : q.url # p.url} \cup {p}
    /\ sentPosts' = sentPosts \ {p}
    /\ UNCHANGED <<server, pc, locals, requests, sentRequests, outside>>

ApplyPost(p) ==
    /\ posts' = posts \cup {p}
    /\ sentPosts' = sentPosts \ {p}
    /\ UNCHANGED <<server, pc, locals, requests, sentRequests, outside>>

Orphaned(j, label) == pc[j] # label \/ socket = "dead"

DropPost(p) ==
    /\ "insert" \in Faults \/ Orphaned(p.id, "postSent")
    /\ sentPosts' = sentPosts \ {p}
    /\ UNCHANGED <<server, pc, locals, posts, requests, sentRequests, outside>>

ApplyRequest(r) ==
    /\ requests' = requests \cup {r}
    /\ sentRequests' = sentRequests \ {r}
    /\ UNCHANGED <<server, pc, locals, posts, sentPosts, outside>>

DropRequest(r) ==
    /\ "insert" \in Faults \/ Orphaned(r.id, "requestSent")
    /\ sentRequests' = sentRequests \ {r}
    /\ UNCHANGED <<server, pc, locals, posts, requests, sentPosts, outside>>

(***************************************************************************)
(* The specification                                                       *)
(***************************************************************************)

Receive(j) ==
    \/ \E u \in Urls, ph \in Phones \cup {Blank} : PostSubmit(j, u, ph)
    \/ \E n \in 1..MaxWords, genuine \in BOOLEAN, ph \in Phones \cup {Blank} :
          \E words \in [1..n -> Urls] : TwilioCallback(j, genuine, words, ph)
    \/ \E wellFormed \in BOOLEAN : API(j, wellFormed)

JobStep(j) ==
    \/ Lookup(j) \/ GetText(j) \/ Extract(j) \/ CreateTTS(j)
    \/ UploadPlaylist(j) \/ UploadPublicFile(j)
    \/ SendPost(j) \/ PostReply(j) \/ SendRequest(j) \/ RequestReply(j)
    \/ SendSMS(j) \/ Callback(j)

DatabaseStep ==
    \/ \E p \in sentPosts : ApplyPost(p) \/ DropPost(p)
    \/ \E r \in sentRequests : ApplyRequest(r) \/ DropRequest(r)

\* Nothing left to do: the process listens.
Listen == /\ up /\ \A j \in Jobs : pc[j] \in Ended
          /\ UNCHANGED vars

Next == \/ \E j \in Jobs : Receive(j) \/ JobStep(j)
        \/ DatabaseStep
        \/ Kill \/ Restart \/ SocketDies \/ Tick \/ Listen

Spec == Init /\ [][Next]_vars

\* A goroutine that can run is run, and what it waits for comes: the database
\* and its connection settle every operation (the session's socket timeout of
\* one minute), and a called service answers or its connection breaks.
Settle(j) ==
    \/ \E p \in sentPosts : p.id = j /\ (ApplyPost(p) \/ DropPost(p))
    \/ \E r \in sentRequests : r.id = j /\ (ApplyRequest(r) \/ DropRequest(r))

Fairness == \A j \in Jobs : WF_vars(JobStep(j)) /\ WF_vars(Settle(j))
FairSpec == Spec /\ Fairness

(***************************************************************************)
(* Properties                                                              *)
(***************************************************************************)

Lib == INSTANCE Library WITH Ids <- Jobs

\* The collections, with every step of every job, crash, restart and late
\* write, behave as the library the readers rely on: CreatePost and
\* CreateRequest only ever add, and a request after its post.
ImplementsLibrary == Lib!Spec

\* A request in the collection, or in an insert still on its way, refers to a
\* post in the collection: CreateRequest goes on only after the reply to the
\* post's insert, whatever happens to the process or the socket afterwards.
Referential == \A r \in requests \cup sentRequests : r.postId \in IdsOf(posts)

\* Every audio address that was stored, sent in a message or given to a caller
\* of the API names an object in the bucket: the upload is over before the
\* address leaves the job that made it.
HandedOutAudioExists ==
    \A d \in posts \cup sentPosts \cup sms \cup callbacks : bucket[d.audioURL] # None

\* Two jobs named their audio in the same second, up to the width of int32.
SameSecond(j, k) ==
    /\ second[j] # None /\ second[k] # None
    /\ \E n \in -MaxClock..MaxClock : second[j] = second[k] + n * Span

\* The object a post points to is the audio made for that post, unless another
\* upload was named in the same second: time is all that keeps names apart.
OwnAudioUnlessSameSecond ==
    \A p \in posts : \/ bucket[p.audioURL] = p.id
                     \/ \E k \in Jobs \ {p.id} : SameSecond(p.id, k)

\* Behind every message there is a stored request of that phone, referring to a
\* stored post whose audio the message gives, made for the address the sender
\* asked for or stored under it.
SMSBacked ==
    \A m \in sms : \E r \in requests, p \in posts :
        /\ r.id = m.job /\ r.phone = m.phone /\ r.postId = p.id
        /\ m.audioURL = p.audioURL
        /\ p.id = m.job \/ p.url = url[m.job]

\* Once a post is stored under an address, a request for it that reaches the
\* lookup while the database answers makes no second post (GetPostByURL before
\* CreatePost).  Duplicates come only from jobs that overlap.
PaidOnce ==
    \A j \in Jobs : [](pc[j] = "lookup" /\ (\E p \in posts : p.url = url[j])
                         => [](j \notin IdsOf(posts)))

\* A request taken while the session's socket is dead is never served: nothing
\* replaces that socket before the process restarts, so its work is lost.
OutageServesNobody ==
    \A j \in Jobs : [](pc[j] = "lookup" /\ socket = "dead"
                         => [](\A m \in sms : m.job # j))

\* Every job ends: no fault leaves a goroutine waiting for ever.
JobsEnd == \A j \in Jobs : (pc[j] \in Running) ~> (pc[j] \in Ended)

\* Whoever was shown "You should receive an SMS in a few seconds." gets one.
ToldGetsSMS ==
    \A j \in Jobs : (kind[j] = "submit" /\ pc[j] \in Running)
                       ~> (\E m \in sms : m.job = j)
============================================================================
