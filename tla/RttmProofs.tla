----------------------------- MODULE RttmProofs -----------------------------
(* Proofs about Rttm, for any number of jobs, addresses, phones and seconds. *)
EXTENDS Rttm, TLAPS

USE DEF Labels, Running, Waiting, Ended

(***************************************************************************)
(* Types                                                                   *)
(***************************************************************************)

\* TypeOK is not inductive: that a post or a request built from a job's
\* variables has its type depends on which of them the job has assigned by
\* then.  Assigned says which, by the job's place and by its kind.
ForPhone == {"submit", "twilio"}
Assigned ==
    \A j \in Jobs :
        /\ kind[j] \in ForPhone => url[j] \in ValidUrls /\ phone[j] \in Phones
        /\ pc[j] \in {"lookup", "text", "extract", "post", "postSent", "request",
                       "requestSent", "sms"} => kind[j] \in ForPhone
        /\ pc[j] \in {"speech", "name", "put"} => kind[j] \in ForPhone \cup {"api"}
        /\ pc[j] \in {"speech", "name", "put", "post", "postSent"} /\ kind[j] \in ForPhone
              => pageURL[j] \in Urls
        /\ pc[j] \in {"put", "post", "postSent", "request", "requestSent", "sms", "callback"}
              => audioURL[j] \in Paths
        /\ pc[j] \in {"request", "requestSent", "sms"} => postId[j] \in Jobs

\* The variables hold values of their types in every reachable state.
LEMMA TypeInit == Init => TypeOK
  <1> SUFFICES ASSUME Init PROVE TypeOK OBVIOUS
  <1>1. 0 \in 0..MaxClock BY BoundAssumption
  <1> QED BY <1>1 DEF Init, TypeOK, Unset

LEMMA DieType ==
  ASSUME pc \in [Jobs -> Labels], Die
  PROVE  up' \in BOOLEAN /\ socket' \in {"none", "live", "dead"} /\ pc' \in [Jobs -> Labels]
  <1>1. \A j \in Jobs : (IF pc[j] \in Running THEN "lost" ELSE pc[j]) \in Labels
    OBVIOUS
  <1> QED BY <1>1 DEF Die

LEMMA TypeStep == TypeOK /\ Assigned /\ [Next]_vars => TypeOK'
  <1> SUFFICES ASSUME TypeOK, Assigned, [Next]_vars PROVE TypeOK' OBVIOUS
  <1> USE DEF Goto, server, locals, store, outside
  <1>a. ASSUME NEW j \in Jobs, NEW k \in {"submit", "twilio"}, NEW u \in Urls,
               NEW ph \in Phones \cup {Blank}, Valid(u, ph),
               StartRequest(j, k, u, ph), UNCHANGED <<server, store, outside>>
        PROVE TypeOK'
    BY <1>a DEF TypeOK, StartRequest, Valid
  <1>b. ASSUME NEW j \in Jobs, Turned(j), UNCHANGED <<server, store, outside>>
        PROVE TypeOK'
    BY <1>b DEF TypeOK, Turned
  <1>1. ASSUME NEW j \in Jobs, NEW u \in Urls, NEW ph \in Phones \cup {Blank}, PostSubmit(j, u, ph)
        PROVE TypeOK'
    BY ONLY <1>1, <1>a, <1>b DEF PostSubmit
  <1>2. ASSUME NEW j \in Jobs, NEW n \in 1..MaxWords, NEW genuine \in BOOLEAN,
               NEW ph \in Phones \cup {Blank}, NEW words \in [1..n -> Urls],
               TwilioCallback(j, genuine, words, ph)
        PROVE TypeOK'
    <2>1. UNCHANGED <<server, store, outside>> BY ONLY <1>2 DEF TwilioCallback
    <2>2. CASE Turned(j) BY ONLY <2>1, <2>2, <1>b
    <2>3. ASSUME NEW i \in DOMAIN words, Valid(words[i], ph),
                 StartRequest(j, "twilio", words[i], ph)
          PROVE TypeOK'
      <3>1. words[i] \in Urls BY DOMAIN words = 1..n
      <3> QED BY ONLY <2>1, <2>3, <3>1, <1>a
    <2> QED BY ONLY <1>2, <2>2, <2>3 DEF TwilioCallback
  <1>3. ASSUME NEW j \in Jobs, NEW wellFormed \in BOOLEAN, API(j, wellFormed) PROVE TypeOK'
    BY <1>3 DEF API, TypeOK, Turned
  <1>4. ASSUME NEW j \in Jobs, Lookup(j) PROVE TypeOK'
    BY <1>4 DEF Lookup, TypeOK, Usable, Unusable, Matches, Post
  <1>5. ASSUME NEW j \in Jobs, GetText(j) PROVE TypeOK'
    BY <1>5 DEF GetText, TypeOK
  <1>6. ASSUME NEW j \in Jobs, Extract(j) PROVE TypeOK'
    BY <1>6, UrlAssumption, DieType DEF Extract, TypeOK, Assigned, ForPhone
  <1>7. ASSUME NEW j \in Jobs, CreateTTS(j) PROVE TypeOK'
    BY <1>7, DieType DEF CreateTTS, TypeOK
  <1>8. ASSUME NEW j \in Jobs, UploadPlaylist(j) PROVE TypeOK'
    <2>1. AudioName(clock) \in Paths BY DEF TypeOK, Paths
    <2> QED BY <1>8, <2>1 DEF UploadPlaylist, TypeOK
  <1>9. ASSUME NEW j \in Jobs, UploadPublicFile(j) PROVE TypeOK'
    BY <1>9, DieType DEF UploadPublicFile, TypeOK
  <1>10. ASSUME NEW j \in Jobs, SendPost(j) PROVE TypeOK'
    BY <1>10 DEF SendPost, TypeOK, Usable, Unusable, NewPost, Post, Assigned, ForPhone
  <1>11. ASSUME NEW j \in Jobs, PostReply(j) PROVE TypeOK'
    BY <1>11 DEF PostReply, TypeOK
  <1>12. ASSUME NEW j \in Jobs, SendRequest(j) PROVE TypeOK'
    BY <1>12 DEF SendRequest, TypeOK, Usable, Unusable, NewRequest, Request, Assigned, ForPhone
  <1>13. ASSUME NEW j \in Jobs, RequestReply(j) PROVE TypeOK'
    BY <1>13 DEF RequestReply, TypeOK
  <1>14. ASSUME NEW j \in Jobs, SendSMS(j) PROVE TypeOK'
    BY <1>14 DEF SendSMS, TypeOK, Assigned, ForPhone
  <1>15. ASSUME NEW j \in Jobs, Callback(j) PROVE TypeOK'
    BY <1>15, DieType DEF Callback, TypeOK, Assigned
  <1>16. CASE DatabaseStep
    BY <1>16 DEF DatabaseStep, ApplyPost, DropPost, ApplyRequest, DropRequest, TypeOK
  <1>17. CASE Kill \/ Restart \/ SocketDies
    BY <1>17, DieType DEF Kill, Restart, SocketDies, TypeOK
  <1>19. CASE Tick
    BY <1>19, BoundAssumption DEF Tick, TypeOK
  <1>18. CASE Listen \/ UNCHANGED vars
    BY <1>18 DEF Listen, vars, TypeOK
  <1> QED
    BY <1>1, <1>2, <1>3, <1>4, <1>5, <1>6, <1>7, <1>8, <1>9, <1>10, <1>11, <1>12,
       <1>13, <1>14, <1>15, <1>16, <1>17, <1>18, <1>19
    DEF Next, Receive, JobStep

LEMMA AssignedInit == Init => Assigned
  BY NoneAssumption DEF Init, Assigned, Unset, ForPhone

LEMMA AssignedStep == TypeOK /\ Assigned /\ [Next]_vars => Assigned'
  <1> SUFFICES ASSUME TypeOK, Assigned, [Next]_vars PROVE Assigned' OBVIOUS
  <1> USE DEF Goto, server, locals, store, outside, ForPhone
  <1>a. ASSUME NEW j \in Jobs, NEW k \in ForPhone, NEW u, NEW ph \in Phones \cup {Blank},
               Valid(u, ph), StartRequest(j, k, u, ph)
        PROVE Assigned'
    BY <1>a DEF TypeOK, Assigned, StartRequest, Valid
  <1>b. ASSUME NEW j \in Jobs, Turned(j) PROVE Assigned'
    BY <1>b DEF TypeOK, Assigned, Turned
  <1>d. ASSUME Die, UNCHANGED locals PROVE Assigned'
    BY <1>d DEF TypeOK, Assigned, Die
  <1>1. ASSUME NEW j \in Jobs, NEW u \in Urls, NEW ph \in Phones \cup {Blank}, PostSubmit(j, u, ph)
        PROVE Assigned'
    BY ONLY <1>1, <1>a, <1>b DEF PostSubmit, ForPhone
  <1>2. ASSUME NEW j \in Jobs, NEW n \in 1..MaxWords, NEW genuine \in BOOLEAN,
               NEW ph \in Phones \cup {Blank}, NEW words \in [1..n -> Urls],
               TwilioCallback(j, genuine, words, ph)
        PROVE Assigned'
    BY ONLY <1>2, <1>a, <1>b DEF TwilioCallback, ForPhone
  <1>3. ASSUME NEW j \in Jobs, NEW wellFormed \in BOOLEAN, API(j, wellFormed) PROVE Assigned'
    <2>1. CASE Turned(j) BY ONLY <1>b, <2>1
    <2>2. CASE ~Turned(j) BY <1>3, <2>2 DEF API, TypeOK, Assigned
    <2> QED BY <2>1, <2>2
  <1>4. ASSUME NEW j \in Jobs, Lookup(j) PROVE Assigned'
    BY <1>4 DEF Lookup, TypeOK, Assigned, Matches, Post
  <1>5. ASSUME NEW j \in Jobs, GetText(j) PROVE Assigned'
    BY <1>5 DEF GetText, TypeOK, Assigned
  <1>6. ASSUME NEW j \in Jobs, Extract(j) PROVE Assigned'
    <2>1. CASE Die /\ UNCHANGED pageURL BY <1>6, <2>1, <1>d DEF Extract
    <2>2. CASE ~(Die /\ UNCHANGED pageURL) BY <1>6, <2>2, UrlAssumption DEF Extract, TypeOK, Assigned
    <2> QED BY <2>1, <2>2
  <1>7. ASSUME NEW j \in Jobs, CreateTTS(j) PROVE Assigned'
    <2>1. CASE Die BY <1>7, <2>1, <1>d DEF CreateTTS
    <2>2. CASE ~Die BY <1>7, <2>2 DEF CreateTTS, TypeOK, Assigned
    <2> QED BY <2>1, <2>2
  <1>8. ASSUME NEW j \in Jobs, UploadPlaylist(j) PROVE Assigned'
    <2>1. AudioName(clock) \in Paths BY DEF TypeOK, Paths
    <2>2. Paths' = Paths BY DEF Paths
    <2> QED BY <1>8, <2>1, <2>2 DEF UploadPlaylist, TypeOK, Assigned
  <1>9. ASSUME NEW j \in Jobs, UploadPublicFile(j) PROVE Assigned'
    <2>1. CASE Die BY <1>9, <2>1, <1>d DEF UploadPublicFile
    <2>2. CASE ~Die BY <1>9, <2>2 DEF UploadPublicFile, TypeOK, Assigned
    <2> QED BY <2>1, <2>2
  <1>10. ASSUME NEW j \in Jobs, SendPost(j) PROVE Assigned'
    BY <1>10 DEF SendPost, TypeOK, Assigned
  <1>11. ASSUME NEW j \in Jobs, PostReply(j) PROVE Assigned'
    BY <1>11 DEF PostReply, TypeOK, Assigned
  <1>12. ASSUME NEW j \in Jobs, SendRequest(j) PROVE Assigned'
    BY <1>12 DEF SendRequest, TypeOK, Assigned
  <1>13. ASSUME NEW j \in Jobs, RequestReply(j) PROVE Assigned'
    BY <1>13 DEF RequestReply, TypeOK, Assigned
  <1>14. ASSUME NEW j \in Jobs, SendSMS(j) PROVE Assigned'
    BY <1>14 DEF SendSMS, TypeOK, Assigned
  <1>15. ASSUME NEW j \in Jobs, Callback(j) PROVE Assigned'
    <2>1. CASE Die BY <1>15, <2>1, <1>d DEF Callback
    <2>2. CASE ~Die BY <1>15, <2>2 DEF Callback, TypeOK, Assigned
    <2> QED BY <2>1, <2>2
  <1>16. CASE UNCHANGED <<pc, locals>>
    BY <1>16 DEF Assigned
  <1>17. CASE Kill
    BY <1>17, <1>d DEF Kill
  <1> QED
    BY <1>1, <1>2, <1>3, <1>4, <1>5, <1>6, <1>7, <1>8, <1>9, <1>10, <1>11, <1>12,
       <1>13, <1>14, <1>15, <1>16, <1>17
    DEF Next, Receive, JobStep, DatabaseStep, ApplyPost, DropPost, ApplyRequest,
        DropRequest, Restart, SocketDies, Tick, Listen, vars

\* Every variable keeps its type in every run, with any number of jobs.
THEOREM TypeCorrect == Spec => []TypeOK
  <1>1. Init => TypeOK /\ Assigned BY TypeInit, AssignedInit
  <1>2. TypeOK /\ Assigned /\ [Next]_vars => TypeOK' /\ Assigned'
    BY TypeStep, AssignedStep
  <1> QED BY <1>1, <1>2, PTL DEF Spec

(***************************************************************************)
(* A request follows its post                                              *)
(***************************************************************************)

\* Referential is not inductive: a request is sent long after its post was
\* found or acknowledged.  While the job is about to send it, the post its
\* variable postId names is stored.
PostKnown == \A j \in Jobs : pc[j] = "request" => postId[j] \in IdsOf(posts)

LEMMA ReferentialInit == Init => Referential /\ PostKnown
  BY DEF Init, Referential, PostKnown

LEMMA PostsGrow == [Next]_vars => posts \subseteq posts'
  BY DEF Next, Receive, PostSubmit, TwilioCallback, API, JobStep, Lookup, GetText, Extract,
     CreateTTS, UploadPlaylist, UploadPublicFile, SendPost, PostReply, SendRequest,
     RequestReply, SendSMS, Callback, DatabaseStep, ApplyPost, DropPost, ApplyRequest,
     DropRequest, Kill, Restart, SocketDies, Tick, Listen, vars, store

\* Only a lookup that hits and a reply to an insert bring a job to "request",
\* and both with the id of a stored post.
LEMMA PostKnownStep == TypeOK /\ PostKnown /\ [Next]_vars => PostKnown'
  <1> SUFFICES ASSUME TypeOK, PostKnown, [Next]_vars PROVE PostKnown' OBVIOUS
  <1> USE DEF Goto, server, locals, store
  <1>1. IdsOf(posts) \subseteq IdsOf(posts') BY PostsGrow DEF IdsOf
  <1>2. ASSUME NEW j \in Jobs, NEW label \in Labels \ {"request"}, Goto(j, label), UNCHANGED postId
        PROVE PostKnown'
    BY <1>1, <1>2 DEF TypeOK, PostKnown
  <1>3. ASSUME Die, UNCHANGED postId PROVE PostKnown'
    BY <1>1, <1>3 DEF TypeOK, PostKnown, Die
  <1>4. ASSUME NEW j \in Jobs, Lookup(j) PROVE PostKnown'
    <2>1. CASE Goto(j, "text") /\ UNCHANGED postId BY ONLY <1>2, <2>1
    <2>2. ASSUME NEW p \in posts, postId' = [postId EXCEPT ![j] = p.id], Goto(j, "request")
          PROVE PostKnown'
      BY <1>1, <2>2 DEF TypeOK, PostKnown, IdsOf
    <2> QED BY ONLY <1>4, <2>1, <2>2 DEF Lookup, Matches
  <1>5. ASSUME NEW j \in Jobs, PostReply(j) PROVE PostKnown'
    <2>1. CASE Goto(j, "failed") /\ UNCHANGED postId BY ONLY <1>2, <2>1
    <2>2. CASE Acknowledged(j, posts) /\ postId' = [postId EXCEPT ![j] = j] /\ Goto(j, "request")
      BY <1>1, <2>2 DEF TypeOK, PostKnown, Acknowledged
    <2> QED BY ONLY <1>5, <2>1, <2>2 DEF PostReply
  <1>6. CASE UNCHANGED <<pc, postId>> BY <1>1, <1>6 DEF PostKnown
  <1>7. ASSUME NEW j \in Jobs, Receive(j) PROVE PostKnown'
    <2>1. /\ Goto(j, "lookup") \/ Goto(j, "speech") \/ Goto(j, "rejected")
          /\ UNCHANGED postId
      BY ONLY <1>7 DEF Receive, PostSubmit, TwilioCallback, API, StartRequest, Turned, locals
    <2> QED BY ONLY <1>2, <2>1
  <1>8. ASSUME NEW j \in Jobs, JobStep(j) PROVE PostKnown'
    <2>1. CASE Lookup(j) \/ PostReply(j) BY <1>4, <1>5, <2>1
    <2>2. CASE ~(Lookup(j) \/ PostReply(j))
      <3>1. /\ UNCHANGED postId
            /\ \/ Die
               \/ Goto(j, "extract") \/ Goto(j, "failed") \/ Goto(j, "speech") \/ Goto(j, "name")
               \/ Goto(j, "put") \/ Goto(j, "callback") \/ Goto(j, "post") \/ Goto(j, "postSent")
               \/ Goto(j, "requestSent") \/ Goto(j, "sms") \/ Goto(j, "done")
        BY ONLY <1>8, <2>2
        DEF JobStep, GetText, Extract, CreateTTS, UploadPlaylist, UploadPublicFile, SendPost,
            SendRequest, RequestReply, SendSMS, Callback, locals
      <3> QED BY ONLY <1>2, <1>3, <3>1
    <2> QED BY <2>1, <2>2
  <1>9. CASE Kill BY <1>3, <1>9 DEF Kill
  <1> QED
    BY <1>6, <1>7, <1>8, <1>9
    DEF Next, DatabaseStep, ApplyPost, DropPost, ApplyRequest, DropRequest, Restart,
        SocketDies, Tick, Listen, vars

LEMMA ReferentialStep == TypeOK /\ Referential /\ PostKnown /\ [Next]_vars => Referential'
  <1> SUFFICES ASSUME TypeOK, Referential, PostKnown, [Next]_vars PROVE Referential' OBVIOUS
  <1>1. IdsOf(posts) \subseteq IdsOf(posts') BY PostsGrow DEF IdsOf
  <1>2. CASE requests' \cup sentRequests' \subseteq requests \cup sentRequests
    BY <1>1, <1>2 DEF Referential
  <1>3. ASSUME NEW j \in Jobs, SendRequest(j) PROVE Referential'
    <2>1. NewRequest(j).postId \in IdsOf(posts) BY <1>3 DEF SendRequest, PostKnown, NewRequest
    <2>2. requests' \cup sentRequests' \subseteq requests \cup sentRequests \cup {NewRequest(j)}
      BY <1>3 DEF SendRequest
    <2> QED BY <1>1, <2>1, <2>2 DEF Referential
  <1> QED
    BY <1>2, <1>3
    DEF Next, Receive, PostSubmit, TwilioCallback, API, JobStep, Lookup, GetText, Extract,
     CreateTTS, UploadPlaylist, UploadPublicFile, SendPost, PostReply,
     RequestReply, SendSMS, Callback, DatabaseStep, ApplyPost, DropPost, ApplyRequest,
     DropRequest, Kill, Restart, SocketDies, Tick, Listen, vars, store

\* Whatever crashes, restarts, lost replies and late writes do, no request is
\* stored, or on its way, that refers to a post that is not stored: the pages
\* that follow the reference always find it.
THEOREM RequestsReferToPosts == Spec => []Referential
  <1>1. Init => TypeOK /\ Assigned /\ Referential /\ PostKnown
    BY TypeInit, AssignedInit, ReferentialInit
  <1>2. TypeOK /\ Assigned /\ Referential /\ PostKnown /\ [Next]_vars
          => TypeOK' /\ Assigned' /\ Referential' /\ PostKnown'
    BY TypeStep, AssignedStep, ReferentialStep, PostKnownStep
  <1> QED BY <1>1, <1>2, PTL DEF Spec

(***************************************************************************)
(* An address is handed out after its upload                               *)
(***************************************************************************)

\* HandedOutAudioExists speaks of what left a job.  Before it leaves, from the
\* upload or the lookup on, the object is there.
HasAudio == {"post", "postSent", "request", "requestSent", "sms", "callback"}
AudioKnown == \A j \in Jobs : pc[j] \in HasAudio => bucket[audioURL[j]] # None

LEMMA BucketFills ==
  TypeOK /\ [Next]_vars => \A path \in Paths : bucket[path] # None => bucket'[path] # None
  <1> SUFFICES ASSUME TypeOK, [Next]_vars
               PROVE  \A path \in Paths : bucket[path] # None => bucket'[path] # None
    OBVIOUS
  <1>1. CASE UNCHANGED bucket BY <1>1
  <1>2. ASSUME NEW j \in Jobs, bucket' = [bucket EXCEPT ![audioURL[j]] = j]
        PROVE  \A path \in Paths : bucket[path] # None => bucket'[path] # None
    BY <1>2, NoneAssumption DEF TypeOK
  <1> QED
    BY <1>1, <1>2
    DEF Next, Receive, PostSubmit, TwilioCallback, API, JobStep, Lookup, GetText, Extract,
     CreateTTS, UploadPlaylist, UploadPublicFile, SendPost, PostReply, SendRequest,
     RequestReply, SendSMS, Callback, DatabaseStep, ApplyPost, DropPost, ApplyRequest,
     DropRequest, Kill, Restart, SocketDies, Tick, Listen, vars, outside

LEMMA AudioInit == Init => HandedOutAudioExists /\ AudioKnown
  BY DEF Init, HandedOutAudioExists, AudioKnown, HasAudio

LEMMA AudioKnownStep ==
  TypeOK /\ Assigned /\ HandedOutAudioExists /\ AudioKnown /\ [Next]_vars => AudioKnown'
  <1> SUFFICES ASSUME TypeOK, Assigned, HandedOutAudioExists, AudioKnown, [Next]_vars
               PROVE  AudioKnown'
    OBVIOUS
  <1> USE DEF Goto, server, locals, outside
  <1>1. \A path \in Paths : bucket[path] # None => bucket'[path] # None BY BucketFills
  <1>2. \A j \in Jobs : pc[j] \in HasAudio => audioURL[j] \in Paths /\ bucket'[audioURL[j]] # None
    BY <1>1 DEF Assigned, AudioKnown, HasAudio
  <1>3. ASSUME NEW j \in Jobs, NEW label \in Labels \ HasAudio, Goto(j, label),
               \A k \in Jobs \ {j} : audioURL'[k] = audioURL[k]
        PROVE AudioKnown'
    BY <1>2, <1>3 DEF TypeOK, AudioKnown
  <1>4. ASSUME NEW j \in Jobs, NEW label \in HasAudio, Goto(j, label), pc[j] \in HasAudio,
               UNCHANGED audioURL
        PROVE AudioKnown'
    BY <1>2, <1>4 DEF TypeOK, AudioKnown
  <1>5. ASSUME Die, UNCHANGED audioURL PROVE AudioKnown'
    BY <1>2, <1>5 DEF TypeOK, AudioKnown, Die, HasAudio
  <1>6. CASE UNCHANGED <<pc, audioURL>> BY <1>2, <1>6 DEF AudioKnown
  <1>7. ASSUME NEW j \in Jobs, Receive(j) PROVE AudioKnown'
    <2>1. /\ Goto(j, "lookup") \/ Goto(j, "speech") \/ Goto(j, "rejected")
          /\ UNCHANGED audioURL
      BY ONLY <1>7 DEF Receive, PostSubmit, TwilioCallback, API, StartRequest, Turned, locals
    <2>2. {"lookup", "speech", "rejected"} \subseteq Labels \ HasAudio BY DEF HasAudio
    <2> QED BY ONLY <1>3, <2>1, <2>2
  <1>8. ASSUME NEW j \in Jobs, Lookup(j) PROVE AudioKnown'
    <2>1. CASE Goto(j, "text") /\ UNCHANGED audioURL BY <1>3, <2>1 DEF HasAudio
    <2>2. ASSUME NEW p \in posts, audioURL' = [audioURL EXCEPT ![j] = p.audioURL],
                 Goto(j, "request"), UNCHANGED bucket
          PROVE AudioKnown'
      <3>1. bucket[p.audioURL] # None BY DEF HandedOutAudioExists
      <3> QED BY <1>2, <2>2, <3>1 DEF TypeOK, AudioKnown
    <2> QED BY ONLY <1>8, <2>1, <2>2 DEF Lookup, Matches, outside
  <1>9. ASSUME NEW j \in Jobs, UploadPlaylist(j) PROVE AudioKnown'
    <2>1. \A k \in Jobs \ {j} : audioURL'[k] = audioURL[k] BY <1>9 DEF UploadPlaylist, TypeOK
    <2> QED BY <1>3, <1>9, <2>1 DEF UploadPlaylist, HasAudio
  <1>10. ASSUME NEW j \in Jobs, UploadPublicFile(j) PROVE AudioKnown'
    <2>1. CASE Die BY <1>5, <1>10, <2>1 DEF UploadPublicFile
    <2>2. ASSUME NEW label \in {"callback", "post"}, Goto(j, label), UNCHANGED audioURL,
                 bucket' = [bucket EXCEPT ![audioURL[j]] = j], pc[j] = "put"
          PROVE AudioKnown'
      <3>1. bucket'[audioURL[j]] # None BY <2>2, NoneAssumption DEF TypeOK, Assigned
      <3> QED BY <1>2, <2>2, <3>1 DEF TypeOK, AudioKnown
    <2> QED BY ONLY <1>10, <2>1, <2>2 DEF UploadPublicFile, locals
  <1>11. ASSUME NEW j \in Jobs, JobStep(j) PROVE AudioKnown'
    <2>1. CASE Lookup(j) \/ UploadPlaylist(j) \/ UploadPublicFile(j)
      BY <1>8, <1>9, <1>10, <2>1
    <2>2. CASE ~(Lookup(j) \/ UploadPlaylist(j) \/ UploadPublicFile(j))
      <3>1. /\ UNCHANGED audioURL
            /\ \/ Die
               \/ Goto(j, "extract") \/ Goto(j, "failed") \/ Goto(j, "speech") \/ Goto(j, "name")
               \/ Goto(j, "done")
               \/ pc[j] = "post" /\ Goto(j, "postSent")
               \/ pc[j] = "postSent" /\ Goto(j, "request")
               \/ pc[j] = "request" /\ Goto(j, "requestSent")
               \/ pc[j] = "requestSent" /\ Goto(j, "sms")
        BY ONLY <1>11, <2>2
        DEF JobStep, GetText, Extract, CreateTTS, SendPost, PostReply, SendRequest,
            RequestReply, SendSMS, Callback, locals
      <3>2. {"extract", "failed", "speech", "name", "done"} \subseteq Labels \ HasAudio
        BY DEF HasAudio
      <3>3. HasAudio = {"post", "postSent", "request", "requestSent", "sms", "callback"}
        BY DEF HasAudio
      <3>4. \A k \in Jobs \ {j} : audioURL'[k] = audioURL[k] BY <3>1
      <3> QED BY ONLY <1>3, <1>4, <1>5, <3>1, <3>2, <3>3, <3>4
    <2> QED BY <2>1, <2>2
  <1>12. CASE Kill BY <1>5, <1>12 DEF Kill
  <1> QED
    BY <1>6, <1>7, <1>11, <1>12
    DEF Next, DatabaseStep, ApplyPost, DropPost, ApplyRequest, DropRequest, Restart,
        SocketDies, Tick, Listen, vars

LEMMA AudioStep ==
  TypeOK /\ Assigned /\ HandedOutAudioExists /\ AudioKnown /\ [Next]_vars
    => HandedOutAudioExists'
  <1> SUFFICES ASSUME TypeOK, Assigned, HandedOutAudioExists, AudioKnown, [Next]_vars
               PROVE  HandedOutAudioExists'
    OBVIOUS
  <1> DEFINE Out == posts \cup sentPosts \cup sms \cup callbacks
  <1>1. \A path \in Paths : bucket[path] # None => bucket'[path] # None BY BucketFills
  <1>2. \A d \in Out : d.audioURL \in Paths /\ bucket[d.audioURL] # None
    BY DEF TypeOK, Post, HandedOutAudioExists
  <1>3. \A d \in Out' : d \in Out \/ \E j \in Jobs : pc[j] \in HasAudio /\ d.audioURL = audioURL[j]
    <2>1. CASE Out' \subseteq Out BY <2>1
    <2>2. ASSUME NEW j \in Jobs, SendPost(j)
          PROVE  \A d \in Out' : d \in Out \/ (pc[j] \in HasAudio /\ d.audioURL = audioURL[j])
      BY <2>2 DEF SendPost, NewPost, HasAudio, outside
    <2>3. ASSUME NEW j \in Jobs, SendSMS(j)
          PROVE  \A d \in Out' : d \in Out \/ (pc[j] \in HasAudio /\ d.audioURL = audioURL[j])
      BY <2>3 DEF SendSMS, HasAudio, store
    <2>4. ASSUME NEW j \in Jobs, Callback(j)
          PROVE  \A d \in Out' : d \in Out \/ (pc[j] \in HasAudio /\ d.audioURL = audioURL[j])
      BY <2>4 DEF Callback, HasAudio, store
    <2>5. \/ \E j \in Jobs : SendPost(j) \/ SendSMS(j) \/ Callback(j)
          \/ Out' \subseteq Out
      BY DEF Next, Receive, PostSubmit, TwilioCallback, API, JobStep, Lookup, GetText, Extract,
        CreateTTS, UploadPlaylist, UploadPublicFile, PostReply, SendRequest,
        RequestReply, DatabaseStep, ApplyPost, DropPost, ApplyRequest,
        DropRequest, Kill, Restart, SocketDies, Tick, Listen, vars, store, outside
    <2> QED BY <2>1, <2>2, <2>3, <2>4, <2>5
  <1>4. ASSUME NEW j \in Jobs, pc[j] \in HasAudio
        PROVE  bucket'[audioURL[j]] # None
    BY <1>1, <1>4 DEF AudioKnown, Assigned, HasAudio
  <1> QED BY <1>1, <1>2, <1>3, <1>4 DEF HandedOutAudioExists

\* In every run, an address found in the library, sent in a message or posted
\* to a caller of the API is the address of an object in the bucket.
THEOREM HandedOutAudioIsThere == Spec => []HandedOutAudioExists
  <1>1. Init => TypeOK /\ Assigned /\ HandedOutAudioExists /\ AudioKnown
    BY TypeInit, AssignedInit, AudioInit
  <1>2. TypeOK /\ Assigned /\ HandedOutAudioExists /\ AudioKnown /\ [Next]_vars
          => TypeOK' /\ Assigned' /\ HandedOutAudioExists' /\ AudioKnown'
    BY TypeStep, AssignedStep, AudioStep, AudioKnownStep
  <1> QED BY <1>1, <1>2, PTL DEF Spec

(***************************************************************************)
(* The web process implements the library                                  *)
(***************************************************************************)

\* That an insert never meets a document of its own id: a job sends each of
\* its two documents once, when it passes a place it does not come back to.
BeforePost == {"idle", "lookup", "text", "extract", "speech", "name", "put", "post"}
BeforeRequest == BeforePost \cup {"postSent", "request"}
Fresh ==
    /\ \A p \in posts \cup sentPosts : pc[p.id] \notin BeforePost
    /\ \A p \in sentPosts : p.id \notin IdsOf(posts)
    /\ \A p, q \in sentPosts : p.id = q.id => p = q
    /\ \A r \in requests \cup sentRequests : pc[r.id] \notin BeforeRequest
    /\ \A r \in sentRequests : r.id \notin IdsOf(requests)
    /\ \A r, s \in sentRequests : r.id = s.id => r = s

LEMMA FreshInit == Init => Fresh
  BY DEF Init, Fresh

\* No step takes a job back over either of the two places.
LEMMA NoWayBack ==
  TypeOK /\ [Next]_vars =>
    \A j \in Jobs : /\ pc[j] \notin BeforePost => pc'[j] \notin BeforePost
                    /\ pc[j] \notin BeforeRequest => pc'[j] \notin BeforeRequest
  <1> DEFINE Forward == \A j \in Jobs : /\ pc[j] \notin BeforePost => pc'[j] \notin BeforePost
                                        /\ pc[j] \notin BeforeRequest => pc'[j] \notin BeforeRequest
  <1> SUFFICES ASSUME TypeOK, [Next]_vars PROVE Forward OBVIOUS
  <1> USE DEF BeforePost, BeforeRequest
  <1>1. CASE UNCHANGED pc BY <1>1
  <1>2. CASE Die BY <1>2 DEF Die, TypeOK
  <1>3. ASSUME NEW j \in Jobs, NEW label, Goto(j, label),
               pc[j] \in BeforePost \/ label \notin BeforeRequest \/
                 (pc[j] \in BeforeRequest /\ label \notin BeforePost)
        PROVE Forward
    BY <1>3 DEF Goto, TypeOK
  <1>4. ASSUME NEW j \in Jobs, Receive(j) PROVE Forward
    <2>1. pc[j] = "idle" /\ \E label \in Labels : Goto(j, label)
      BY ONLY <1>4 DEF Receive, PostSubmit, TwilioCallback, API, StartRequest, Turned,
        Labels, Running, Ended
    <2> QED BY <1>3, <2>1
  <1>5. ASSUME NEW j \in Jobs, JobStep(j) PROVE Forward
    <2>1. CASE PostReply(j)
      <3>1. pc[j] = "postSent" /\ (Goto(j, "request") \/ Goto(j, "failed"))
        BY <2>1 DEF PostReply
      <3> QED BY <1>3, <3>1
    <2>2. CASE SendRequest(j) \/ RequestReply(j) \/ SendSMS(j) \/ Callback(j)
      <3>1. Goto(j, "requestSent") \/ Goto(j, "failed") \/ Goto(j, "sms") \/ Goto(j, "done") \/ Die
        BY <2>2 DEF SendRequest, RequestReply, SendSMS, Callback
      <3> QED BY <1>2, <1>3, <3>1
    <2>3. CASE ~(PostReply(j) \/ SendRequest(j) \/ RequestReply(j) \/ SendSMS(j) \/ Callback(j))
      <3>1. pc[j] \in BeforePost /\ (Die \/ \E label \in Labels : Goto(j, label))
        BY <1>5, <2>3
        DEF JobStep, Lookup, GetText, Extract, CreateTTS, UploadPlaylist, UploadPublicFile, SendPost
      <3> QED BY <1>2, <1>3, <3>1
    <2> QED BY <2>1, <2>2, <2>3
  <1> QED
    BY <1>1, <1>2, <1>4, <1>5
    DEF Next, DatabaseStep, ApplyPost, DropPost, ApplyRequest, DropRequest, Kill, Restart,
        SocketDies, Tick, Listen, vars

LEMMA FreshStep == TypeOK /\ Fresh /\ [Next]_vars => Fresh'
  <1> SUFFICES ASSUME TypeOK, Fresh, [Next]_vars PROVE Fresh' OBVIOUS
  <1>1. \A j \in Jobs : /\ pc[j] \notin BeforePost => pc'[j] \notin BeforePost
                        /\ pc[j] \notin BeforeRequest => pc'[j] \notin BeforeRequest
    BY NoWayBack
  <1>2. /\ \A p \in posts \cup sentPosts : p.id \in Jobs
        /\ \A r \in requests \cup sentRequests : r.id \in Jobs
    BY DEF TypeOK, Post, Request
  <1>3. CASE UNCHANGED store BY <1>1, <1>2, <1>3 DEF Fresh, store, IdsOf
  <1>4. ASSUME NEW j \in Jobs, SendPost(j), ~UNCHANGED sentPosts PROVE Fresh'
    <2>1. /\ pc[j] = "post" /\ pc'[j] = "postSent"
          /\ sentPosts' = sentPosts \cup {NewPost(j)} /\ NewPost(j).id = j
          /\ UNCHANGED <<posts, requests, sentRequests>>
      BY <1>4 DEF SendPost, Goto, TypeOK, NewPost
    <2>2. \A p \in posts \cup sentPosts : p.id # j BY <2>1 DEF Fresh, BeforePost
    <2> QED BY <1>1, <1>2, <2>1, <2>2 DEF Fresh, IdsOf, BeforePost
  <1>5. ASSUME NEW j \in Jobs, SendRequest(j), ~UNCHANGED sentRequests PROVE Fresh'
    <2>1. /\ pc[j] = "request" /\ pc'[j] = "requestSent"
          /\ sentRequests' = sentRequests \cup {NewRequest(j)} /\ NewRequest(j).id = j
          /\ UNCHANGED <<posts, requests, sentPosts>>
      BY <1>5 DEF SendRequest, Goto, TypeOK, NewRequest
    <2>2. \A r \in requests \cup sentRequests : r.id # j BY <2>1 DEF Fresh, BeforeRequest
    <2> QED BY <1>1, <1>2, <2>1, <2>2 DEF Fresh, IdsOf, BeforePost, BeforeRequest
  <1>6. ASSUME NEW p \in sentPosts, ApplyPost(p) \/ DropPost(p) PROVE Fresh'
    BY <1>1, <1>2, <1>6 DEF Fresh, ApplyPost, DropPost, IdsOf
  <1>7. ASSUME NEW r \in sentRequests, ApplyRequest(r) \/ DropRequest(r) PROVE Fresh'
    BY <1>1, <1>2, <1>7 DEF Fresh, ApplyRequest, DropRequest, IdsOf
  <1> QED
    BY <1>3, <1>4, <1>5, <1>6, <1>7
    DEF Next, Receive, PostSubmit, TwilioCallback, API, JobStep, Lookup, GetText, Extract,
     CreateTTS, UploadPlaylist, UploadPublicFile, SendPost, PostReply, SendRequest,
     RequestReply, SendSMS, Callback, DatabaseStep, Kill, Restart, SocketDies, Tick,
     Listen, vars, store

\* Every step of the web process or of the database is, for the library, the
\* publication of a post, the filing of a request, or nothing.
LEMMA StepIsLibraryStep ==
  TypeOK /\ Referential /\ Fresh /\ [Next]_vars => [Lib!Next]_(Lib!vars)
  <1> SUFFICES ASSUME TypeOK, Referential, Fresh, [Next]_vars PROVE [Lib!Next]_(Lib!vars)
    OBVIOUS
  <1> USE DEF Lib!vars
  <1>1. CASE UNCHANGED <<posts, requests>> BY <1>1
  <1>2. ASSUME NEW p \in sentPosts, ApplyPost(p) PROVE Lib!Next
    <2>1. p \in Lib!Post BY DEF TypeOK, Post, Lib!Post
    <2>2. p.id \notin Lib!IdsOf(posts) BY DEF Fresh, IdsOf, Lib!IdsOf
    <2>3. Lib!PublishPost(p) BY <1>2, <2>2 DEF ApplyPost, Lib!PublishPost
    <2> QED BY <2>1, <2>3 DEF Lib!Next
  <1>3. ASSUME NEW r \in sentRequests, ApplyRequest(r) PROVE Lib!Next
    <2>1. r \in Lib!Request BY DEF TypeOK, Request, Lib!Request
    <2>2. r.id \notin Lib!IdsOf(requests) BY DEF Fresh, IdsOf, Lib!IdsOf
    <2>3. r.postId \in Lib!IdsOf(posts) BY DEF Referential, IdsOf, Lib!IdsOf
    <2>4. Lib!FileRequest(r) BY <1>3, <2>2, <2>3 DEF ApplyRequest, Lib!FileRequest
    <2> QED BY <2>1, <2>4 DEF Lib!Next
  <1> QED
    BY <1>1, <1>2, <1>3
    DEF Next, Receive, PostSubmit, TwilioCallback, API, JobStep, Lookup, GetText, Extract,
     CreateTTS, UploadPlaylist, UploadPublicFile, SendPost, PostReply, SendRequest,
     RequestReply, SendSMS, Callback, DatabaseStep, DropPost, DropRequest, Kill, Restart,
     SocketDies, Tick, Listen, vars, store

\* The collections behave as Library says, for every number of jobs and with
\* every fault: what Feed shows of its readers holds of the real writers.
THEOREM RefinesLibrary == Spec => ImplementsLibrary
  <1>1. Init => TypeOK /\ Assigned /\ Referential /\ PostKnown /\ Fresh
    BY TypeInit, AssignedInit, ReferentialInit, FreshInit
  <1>2. TypeOK /\ Assigned /\ Referential /\ PostKnown /\ Fresh /\ [Next]_vars
          => TypeOK' /\ Assigned' /\ Referential' /\ PostKnown' /\ Fresh'
    BY TypeStep, AssignedStep, ReferentialStep, PostKnownStep, FreshStep
  <1>3. Init => Lib!Init BY DEF Init, Lib!Init
  <1>4. TypeOK /\ Referential /\ Fresh /\ [Next]_vars => [Lib!Next]_(Lib!vars)
    BY StepIsLibraryStep
  <1> QED BY <1>1, <1>2, <1>3, <1>4, PTL DEF Spec, ImplementsLibrary, Lib!Spec

(***************************************************************************)
(* What one step does to one job                                           *)
(***************************************************************************)

Kept(j) ==
    /\ kind'[j] = kind[j] /\ url'[j] = url[j] /\ phone'[j] = phone[j]
    /\ pageURL'[j] = pageURL[j] /\ second'[j] = second[j]
    /\ audioURL'[j] = audioURL[j] /\ postId'[j] = postId[j]

Changes(v, j) == \A k \in Jobs \ {j} : v'[k] = v[k]

\* For a job, a step is its own, or leaves its variables alone and at most
\* ends it with the process.
LEMMA OneJobMoves ==
  ASSUME TypeOK, [Next]_vars
  PROVE  \A j \in Jobs :
            \/ Receive(j) \/ JobStep(j)
            \/ Kept(j) /\ (pc'[j] = pc[j] \/ (pc[j] \in Running /\ pc'[j] = "lost"))
  <1> DEFINE Still(j) == Kept(j) /\ (pc'[j] = pc[j] \/ (pc[j] \in Running /\ pc'[j] = "lost"))
  <1> USE DEF Goto, locals
  <1>1. CASE UNCHANGED <<pc, locals>> BY <1>1 DEF Kept
  <1>2. ASSUME Die, UNCHANGED locals PROVE \A j \in Jobs : Still(j)
    BY <1>2 DEF Die, Kept
  <1>3. ASSUME NEW j \in Jobs, Receive(j) PROVE \A k \in Jobs \ {j} : Still(k)
    <2> DEFINE Started == \E k \in ForPhone : \E u, ph : StartRequest(j, k, u, ph)
    <2>1. CASE \E u \in Urls, ph \in Phones \cup {Blank} : PostSubmit(j, u, ph)
      <3>1. Started \/ Turned(j) BY ONLY <2>1 DEF PostSubmit, ForPhone
      <3> QED BY <3>1 DEF StartRequest, Turned, Kept, TypeOK
    <2>2. ASSUME NEW words, NEW genuine, NEW ph, TwilioCallback(j, genuine, words, ph)
          PROVE  \A k \in Jobs \ {j} : Still(k)
      <3>1. Turned(j) \/ \E i \in DOMAIN words : StartRequest(j, "twilio", words[i], ph)
        BY ONLY <2>2 DEF TwilioCallback
      <3> QED BY <3>1 DEF StartRequest, Turned, Kept, TypeOK
    <2>3. CASE \E wellFormed \in BOOLEAN : API(j, wellFormed)
      BY <2>3 DEF API, Turned, Kept, TypeOK
    <2> QED BY <1>3, <2>1, <2>2, <2>3 DEF Receive
  <1>4. ASSUME NEW j \in Jobs, JobStep(j) PROVE \A k \in Jobs \ {j} : Still(k)
    <2>1. CASE Die /\ UNCHANGED locals BY <1>2, <2>1
    <2>2. CASE ~(Die /\ UNCHANGED locals)
      <3>1. \E label : Goto(j, label)
        BY ONLY <1>4, <2>2
        DEF JobStep, Lookup, GetText, Extract, CreateTTS, UploadPlaylist, UploadPublicFile,
            SendPost, PostReply, SendRequest, RequestReply, SendSMS, Callback, locals
      <3>2. UNCHANGED <<kind, url, phone>> /\ Changes(pageURL, j)
        BY ONLY <1>4, TypeOK
        DEF JobStep, Lookup, GetText, Extract, CreateTTS, UploadPlaylist, UploadPublicFile,
            SendPost, PostReply, SendRequest, RequestReply, SendSMS, Callback, locals, Changes, TypeOK
      <3>3. Changes(second, j) /\ Changes(audioURL, j) /\ Changes(postId, j)
        BY ONLY <1>4, TypeOK
        DEF JobStep, Lookup, GetText, Extract, CreateTTS, UploadPlaylist, UploadPublicFile,
            SendPost, PostReply, SendRequest, RequestReply, SendSMS, Callback, locals, Changes, TypeOK
      <3> QED BY <3>1, <3>2, <3>3 DEF Kept, Changes, TypeOK
    <2> QED BY <2>1, <2>2
  <1>5. CASE Kill BY <1>2, <1>5 DEF Kill
  <1> QED
    BY <1>1, <1>3, <1>4, <1>5
    DEF Next, DatabaseStep, ApplyPost, DropPost, ApplyRequest, DropRequest, Restart,
        SocketDies, Tick, Listen, vars


(***************************************************************************)
(* Whose audio a name holds                                                *)
(***************************************************************************)

\* Two seconds that give one name differ by a multiple of Span.
LEMMA SameNameSameSecond ==
  ASSUME NEW s \in 0..MaxClock, NEW t \in 0..MaxClock, AudioName(s) = AudioName(t)
  PROVE  \E n \in -MaxClock..MaxClock : s = t + n * Span
  <1> DEFINE q == s \div Span
             r == t \div Span
  <1>1. Span \in Nat /\ Span > 0 /\ MaxClock \in Nat BY BoundAssumption
  <1>2. /\ q \in Int /\ s = Span * q + (s % Span)
        /\ r \in Int /\ t = Span * r + (t % Span)
    BY <1>1
  <1>3. q \in 0..MaxClock /\ r \in 0..MaxClock
    <2>1. ASSUME NEW m \in Int, NEW y \in 0..(Span - 1), Span * m + y \in 0..MaxClock
          PROVE  m \in 0..MaxClock
      <3>1. CASE m < 0
        <4>1. Span * m <= -Span BY <1>1, <3>1
        <4> QED BY <1>1, <2>1, <4>1
      <3>2. CASE m >= 0
        <4>1. Span * m >= m BY <1>1, <3>2
        <4> QED BY <1>1, <2>1, <3>2, <4>1
      <3> QED BY <3>1, <3>2
    <2>2. (s % Span) \in 0..(Span - 1) /\ (t % Span) \in 0..(Span - 1) BY <1>1
    <2> QED BY <1>2, <2>1, <2>2
  <1>4. s = t + (q - r) * Span BY <1>1, <1>2, <1>3 DEF AudioName
  <1>5. q - r \in -MaxClock..MaxClock BY <1>1, <1>3
  <1> QED BY <1>4, <1>5

\* OwnAudioUnlessSameSecond compares an object's last uploader with the post
\* that points to it.  Both names come from the second their job noted, once,
\* on its way from "name" to "put".
BeforeName == {"idle", "lookup", "text", "extract", "speech", "name"}
NamedBySecond ==
    /\ \A j \in Jobs : pc[j] \in BeforeName => second[j] = None
    /\ \A j \in Jobs : pc[j] \in {"put", "post"}
                         => second[j] # None /\ audioURL[j] = AudioName(second[j])
    /\ \A p \in posts \cup sentPosts :
          second[p.id] # None /\ p.audioURL = AudioName(second[p.id])
    /\ \A path \in Paths : bucket[path] # None
          => second[bucket[path]] # None /\ path = AudioName(second[bucket[path]])

LEMMA NamedInit == Init => NamedBySecond
  BY DEF Init, NamedBySecond, Unset

\* A second is noted once, and then the name it gives is the job's.
LEMMA SecondStep ==
  ASSUME TypeOK, NamedBySecond, [Next]_vars, NEW j \in Jobs
  PROVE  \/ /\ second'[j] = second[j]
            /\ pc'[j] \in BeforeName => pc[j] \in BeforeName
            /\ pc'[j] \in {"put", "post"} =>
                 pc[j] \in {"put", "post"} /\ audioURL'[j] = audioURL[j]
         \/ /\ second[j] = None /\ second'[j] = clock
            /\ pc'[j] = "put" /\ audioURL'[j] = AudioName(clock)
  <1> USE DEF Goto, BeforeName, locals
  <1>1. CASE Receive(j)
    <2>1. /\ pc[j] = "idle" /\ UNCHANGED second
          /\ Goto(j, "lookup") \/ Goto(j, "speech") \/ Goto(j, "rejected")
      BY ONLY <1>1 DEF Receive, PostSubmit, TwilioCallback, API, StartRequest, Turned
    <2> QED BY <2>1 DEF TypeOK
  <1>2. CASE UploadPlaylist(j)
    BY <1>2, NoneAssumption DEF UploadPlaylist, TypeOK, NamedBySecond
  <1>3. CASE Lookup(j)
    <2>1. pc[j] = "lookup" /\ UNCHANGED second /\ (Goto(j, "request") \/ Goto(j, "text"))
      BY ONLY <1>3 DEF Lookup
    <2> QED BY <2>1 DEF TypeOK
  <1>4. CASE JobStep(j) /\ ~UploadPlaylist(j) /\ ~Lookup(j)
    <2>1. UNCHANGED <<second, audioURL>>
      BY ONLY <1>4
      DEF JobStep, GetText, Extract, CreateTTS, UploadPublicFile, SendPost, PostReply,
          SendRequest, RequestReply, SendSMS, Callback
    <2>2. \/ Die /\ pc[j] \in Running
          \/ pc[j] = "text" /\ Goto(j, "extract")
          \/ pc[j] = "extract" /\ Goto(j, "speech")
          \/ pc[j] = "speech" /\ Goto(j, "name")
          \/ pc[j] = "put" /\ (Goto(j, "post") \/ Goto(j, "callback"))
          \/ pc[j] = "post" /\ Goto(j, "postSent")
          \/ Goto(j, "request") \/ Goto(j, "requestSent") \/ Goto(j, "sms")
          \/ Goto(j, "done") \/ Goto(j, "failed")
      BY ONLY <1>4
      DEF JobStep, GetText, Extract, CreateTTS, UploadPublicFile, SendPost, PostReply,
          SendRequest, RequestReply, SendSMS, Callback, Running, Waiting
    <2> QED BY <2>1, <2>2 DEF TypeOK, Die
  <1> QED BY <1>1, <1>2, <1>3, <1>4, OneJobMoves DEF Kept

LEMMA NamedStep == TypeOK /\ Assigned /\ NamedBySecond /\ [Next]_vars => NamedBySecond'
  <1> SUFFICES ASSUME TypeOK, Assigned, NamedBySecond, [Next]_vars PROVE NamedBySecond' OBVIOUS
  <1>1. \A j \in Jobs : second[j] # None => second'[j] = second[j] BY SecondStep
  <1>2. \A j \in Jobs :
           /\ pc'[j] \in BeforeName => second'[j] = None
           /\ pc'[j] \in {"put", "post"} => second'[j] # None /\ audioURL'[j] = AudioName(second'[j])
    <2> SUFFICES ASSUME NEW j \in Jobs
                 PROVE  /\ pc'[j] \in BeforeName => second'[j] = None
                        /\ pc'[j] \in {"put", "post"}
                             => second'[j] # None /\ audioURL'[j] = AudioName(second'[j])
      OBVIOUS
    <2>1. clock # None BY NoneAssumption DEF TypeOK
    <2> QED BY <2>1, SecondStep DEF NamedBySecond, BeforeName
  <1>3. \A p \in posts' \cup sentPosts' :
           second'[p.id] # None /\ p.audioURL = AudioName(second'[p.id])
    <2>1. \A p \in posts' \cup sentPosts' :
             p \in posts \cup sentPosts \/ \E j \in Jobs : pc[j] = "post" /\ p = NewPost(j)
      BY DEF Next, Receive, PostSubmit, TwilioCallback, API, JobStep, Lookup, GetText, Extract,
        CreateTTS, UploadPlaylist, UploadPublicFile, SendPost, PostReply, SendRequest,
        RequestReply, SendSMS, Callback, DatabaseStep, ApplyPost, DropPost, ApplyRequest,
        DropRequest, Kill, Restart, SocketDies, Tick, Listen, vars, store
    <2>2. \A p \in posts' \cup sentPosts' :
             p.id \in Jobs /\ second[p.id] # None /\ p.audioURL = AudioName(second[p.id])
      BY <2>1 DEF NamedBySecond, NewPost, TypeOK, Post
    <2> QED BY <1>1, <2>2
  <1>4. \A path \in Paths : bucket'[path] # None
          => second'[bucket'[path]] # None /\ path = AudioName(second'[bucket'[path]])
    <2>1. CASE UNCHANGED bucket
      BY <1>1, <2>1 DEF NamedBySecond, TypeOK
    <2>2. ASSUME NEW j \in Jobs, pc[j] = "put", bucket' = [bucket EXCEPT ![audioURL[j]] = j]
          PROVE  \A path \in Paths : bucket'[path] # None
                    => second'[bucket'[path]] # None /\ path = AudioName(second'[bucket'[path]])
      BY <1>1, <2>2 DEF NamedBySecond, TypeOK
    <2> QED
      BY <2>1, <2>2
      DEF Next, Receive, PostSubmit, TwilioCallback, API, JobStep, Lookup, GetText, Extract,
        CreateTTS, UploadPlaylist, UploadPublicFile, SendPost, PostReply, SendRequest,
        RequestReply, SendSMS, Callback, DatabaseStep, ApplyPost, DropPost, ApplyRequest,
        DropRequest, Kill, Restart, SocketDies, Tick, Listen, vars, outside
  <1>5. Paths' = Paths BY DEF Paths
  <1> QED BY <1>2, <1>3, <1>4, <1>5 DEF NamedBySecond

LEMMA NamesOwnAudio ==
  TypeOK /\ HandedOutAudioExists /\ NamedBySecond => OwnAudioUnlessSameSecond
  <1> SUFFICES ASSUME TypeOK, HandedOutAudioExists, NamedBySecond,
                      NEW p \in posts, bucket[p.audioURL] # p.id
               PROVE  \E k \in Jobs \ {p.id} : SameSecond(p.id, k)
    BY DEF OwnAudioUnlessSameSecond
  <1> DEFINE k == bucket[p.audioURL]
  <1>1. p.id \in Jobs /\ p.audioURL \in Paths /\ k # None
    BY DEF TypeOK, Post, HandedOutAudioExists
  <1>2. k \in Jobs \ {p.id} BY <1>1 DEF TypeOK
  <1>3. /\ second[p.id] # None /\ second[k] # None
        /\ AudioName(second[p.id]) = AudioName(second[k])
    BY <1>1 DEF NamedBySecond
  <1>4. second[p.id] \in 0..MaxClock /\ second[k] \in 0..MaxClock
    BY <1>1, <1>2, <1>3 DEF TypeOK
  <1>5. \E n \in -MaxClock..MaxClock : second[p.id] = second[k] + n * Span
    BY <1>3, <1>4, SameNameSameSecond
  <1> QED BY <1>2, <1>3, <1>5 DEF SameSecond

\* In every run, with any number of jobs and whatever the width of the clock, a
\* post points to the audio made for it unless another job named its audio in
\* the same second: no crash, late write or repeated page mixes them up.
THEOREM PostsHaveOwnAudio == Spec => []OwnAudioUnlessSameSecond
  <1> DEFINE Inv == TypeOK /\ Assigned /\ HandedOutAudioExists /\ AudioKnown /\ NamedBySecond
  <1>1. Init => Inv BY TypeInit, AssignedInit, AudioInit, NamedInit
  <1>2. Inv /\ [Next]_vars => Inv'
    BY TypeStep, AssignedStep, AudioStep, AudioKnownStep, NamedStep
  <1>3. Inv => OwnAudioUnlessSameSecond BY NamesOwnAudio
  <1> QED BY <1>1, <1>2, <1>3, PTL DEF Spec

(***************************************************************************)
(* Behind every message a stored request and a stored post                 *)
(***************************************************************************)

\* SMSBacked looks back from a message over two inserts and a lookup.  What a
\* job has learned and keeps while it goes on: from "request" on, the stored
\* post its variables name; at "sms", its own stored request; and the
\* documents of a job were built from variables it has not changed since.
PostHeld(j) == \E p \in posts : /\ p.id = postId[j] /\ p.audioURL = audioURL[j]
                                /\ p.id = j \/ p.url = url[j]
Backing ==
    /\ \A j \in Jobs : pc[j] \in {"request", "requestSent", "sms"} => PostHeld(j)
    /\ \A j \in Jobs : pc[j] = "sms" => j \in IdsOf(requests)
    /\ \A p \in posts \cup sentPosts : pc[p.id] = "postSent" => p.audioURL = audioURL[p.id]
    /\ \A r \in requests \cup sentRequests : r.phone = phone[r.id] /\ r.postId = postId[r.id]
    /\ \A m \in sms : pc[m.job] = "done"

LEMMA BackingInit == Init => Backing /\ SMSBacked
  BY DEF Init, Backing, SMSBacked

\* What a job's own step does to the variables its documents are built from.
LEMMA DocumentStep ==
  ASSUME TypeOK, [Next]_vars, NEW j \in Jobs
  PROVE  /\ pc[j] # "idle" => url'[j] = url[j] /\ phone'[j] = phone[j]
         /\ pc[j] \notin BeforePost => audioURL'[j] = audioURL[j]
         /\ pc[j] \notin BeforeRequest => postId'[j] = postId[j] /\ audioURL'[j] = audioURL[j]
         /\ pc[j] = "done" => pc'[j] = "done"
         /\ pc'[j] = "postSent" =>
              audioURL'[j] = audioURL[j] /\ (pc[j] = "postSent" \/ pc[j] = "post")
         /\ pc'[j] = "requestSent" =>
              /\ audioURL'[j] = audioURL[j] /\ postId'[j] = postId[j]
              /\ pc[j] = "requestSent" \/ pc[j] = "request"
         /\ pc'[j] = "sms" => 
              /\ audioURL'[j] = audioURL[j] /\ postId'[j] = postId[j]
              /\ \/ pc[j] = "sms"
                 \/ pc[j] = "requestSent" /\ j \in IdsOf(requests)
         /\ pc'[j] = "request" =>
              \/ pc[j] = "request" /\ audioURL'[j] = audioURL[j] /\ postId'[j] = postId[j]
              \/ /\ pc[j] = "postSent" /\ j \in IdsOf(posts)
                 /\ postId'[j] = j /\ audioURL'[j] = audioURL[j]
              \/ /\ pc[j] = "lookup"
                 /\ \E p \in posts : /\ p.url = url[j] /\ p.id = postId'[j]
                                     /\ p.audioURL = audioURL'[j]
  <1> USE DEF Goto, BeforePost, BeforeRequest, locals
  <1>1. CASE Receive(j)
    <2>1. pc[j] = "idle" /\ (Goto(j, "lookup") \/ Goto(j, "speech") \/ Goto(j, "rejected"))
      BY ONLY <1>1 DEF Receive, PostSubmit, TwilioCallback, API, StartRequest, Turned
    <2> QED BY <2>1 DEF TypeOK
  <1>2. CASE Lookup(j)
    <2>1. pc[j] = "lookup" /\ UNCHANGED <<url, phone>> BY <1>2 DEF Lookup
    <2>2. CASE Goto(j, "text") BY <2>1, <2>2 DEF TypeOK
    <2>3. ASSUME NEW p \in Matches(url[j]), Goto(j, "request"),
                 postId' = [postId EXCEPT ![j] = p.id],
                 audioURL' = [audioURL EXCEPT ![j] = p.audioURL]
          PROVE  pc'[j] = "request" /\ p \in posts /\ p.url = url[j] /\ p.id = postId'[j]
                 /\ p.audioURL = audioURL'[j]
      BY <2>3 DEF TypeOK, Matches
    <2> QED BY <1>2, <2>1, <2>2, <2>3 DEF Lookup
  <1>3. CASE PostReply(j)
    <2>1. pc[j] = "postSent" /\ UNCHANGED <<url, phone, audioURL>> BY <1>3 DEF PostReply
    <2>2. CASE Goto(j, "failed") BY <2>1, <2>2 DEF TypeOK
    <2>3. CASE Goto(j, "request") /\ j \in IdsOf(posts) /\ postId' = [postId EXCEPT ![j] = j]
      BY <2>1, <2>3 DEF TypeOK
    <2> QED BY <1>3, <2>2, <2>3 DEF PostReply, Acknowledged
  <1>4. CASE RequestReply(j)
    <2>1. pc[j] = "requestSent" /\ UNCHANGED locals
          /\ (Goto(j, "failed") \/ (Goto(j, "sms") /\ j \in IdsOf(requests)))
      BY <1>4 DEF RequestReply, Acknowledged
    <2> QED BY <2>1 DEF TypeOK
  <1>5. CASE UploadPlaylist(j)
    BY <1>5 DEF UploadPlaylist, TypeOK
  <1>6. CASE /\ JobStep(j) /\ ~Lookup(j) /\ ~PostReply(j) /\ ~RequestReply(j) /\ ~UploadPlaylist(j)
    <2>1. /\ UNCHANGED <<url, phone, audioURL, postId>> /\ pc[j] # "done"
          /\ \/ Die /\ pc[j] \in Running
             \/ Goto(j, "extract") \/ Goto(j, "speech") \/ Goto(j, "name") \/ Goto(j, "post")
             \/ Goto(j, "callback") \/ Goto(j, "failed") \/ Goto(j, "done")
             \/ pc[j] = "post" /\ Goto(j, "postSent")
             \/ pc[j] = "request" /\ Goto(j, "requestSent")
      BY ONLY <1>6
      DEF JobStep, GetText, Extract, CreateTTS, UploadPublicFile, SendPost, SendRequest,
          SendSMS, Callback, Running, Waiting
    <2> QED BY <2>1 DEF TypeOK, Die
  <1>7. CASE Kept(j) /\ pc'[j] = pc[j]
    BY <1>7 DEF Kept
  <1>8. CASE Kept(j) /\ pc[j] \in Running /\ pc'[j] = "lost"
    BY <1>8 DEF Kept
  <1> QED BY <1>1, <1>2, <1>3, <1>4, <1>5, <1>6, <1>7, <1>8, OneJobMoves

\* Where documents and messages come from: nothing is stored, sent to the
\* database or to a phone but what a job built from its variables.
FromJobs ==
    /\ requests \subseteq requests'
    /\ \A p \in posts' \cup sentPosts' :
          \/ p \in posts \cup sentPosts
          \/ \E j \in Jobs : pc[j] = "post" /\ p = NewPost(j) /\ audioURL' = audioURL
    /\ \A r \in requests' \cup sentRequests' :
          \/ r \in requests \cup sentRequests
          \/ \E j \in Jobs : r = NewRequest(j) /\ phone' = phone /\ postId' = postId
    /\ \A m \in sms' :
          \/ m \in sms
          \/ \E j \in Jobs :
                /\ pc[j] = "sms" /\ pc'[j] = "done" /\ url' = url
                /\ m = [job |-> j, phone |-> phone[j], audioURL |-> audioURL[j]]

LEMMA Sources == TypeOK /\ [Next]_vars => FromJobs
  <1> SUFFICES ASSUME TypeOK, [Next]_vars PROVE FromJobs OBVIOUS
  <1> USE DEF FromJobs
  <1>1. CASE UNCHANGED <<store, sms>> BY <1>1 DEF store
  <1>2. ASSUME NEW j \in Jobs, SendPost(j) PROVE FromJobs
    BY <1>2 DEF SendPost, locals, outside
  <1>3. ASSUME NEW j \in Jobs, SendRequest(j) PROVE FromJobs
    BY <1>3 DEF SendRequest, locals, outside
  <1>4. ASSUME NEW j \in Jobs, SendSMS(j) PROVE FromJobs
    BY <1>4 DEF SendSMS, store, locals, Goto, TypeOK
  <1>5. CASE DatabaseStep
    BY <1>5 DEF DatabaseStep, ApplyPost, DropPost, ApplyRequest, DropRequest, outside
  <1> QED
    BY <1>1, <1>2, <1>3, <1>4, <1>5
    DEF Next, Receive, PostSubmit, TwilioCallback, API, JobStep, Lookup, GetText, Extract,
        CreateTTS, UploadPlaylist, UploadPublicFile, PostReply,
        RequestReply, Callback, Kill, Restart, SocketDies, Tick, Listen, vars, store, outside

LEMMA BackingStep == TypeOK /\ Fresh /\ Backing /\ [Next]_vars => Backing'
  <1> SUFFICES ASSUME TypeOK, Fresh, Backing, [Next]_vars PROVE Backing' OBVIOUS
  <1> USE DEF BeforePost, BeforeRequest
  <1>1. ASSUME NEW j \in Jobs, pc'[j] \in {"request", "requestSent", "sms"} PROVE PostHeld(j)'
    <2>1. pc[j] \in {"lookup", "postSent", "request", "requestSent", "sms"} /\ url'[j] = url[j]
      BY <1>1, DocumentStep
    <2>2. \E p \in posts : /\ p.id = postId'[j] /\ p.audioURL = audioURL'[j]
                           /\ p.id = j \/ p.url = url[j]
      <3>1. CASE pc[j] = "postSent"
        <4>1. \E p \in posts : p.id = j BY <1>1, <3>1, DocumentStep DEF IdsOf
        <4> QED BY <1>1, <3>1, <4>1, DocumentStep DEF Backing
      <3>2. CASE pc[j] = "lookup" BY <1>1, <3>2, DocumentStep
      <3>3. CASE pc[j] \in {"request", "requestSent", "sms"}
        <4>1. PostHeld(j) BY <3>3 DEF Backing
        <4>2. audioURL'[j] = audioURL[j] /\ postId'[j] = postId[j] BY <1>1, <3>3, DocumentStep
        <4> QED BY <4>1, <4>2 DEF PostHeld
      <3> QED BY <2>1, <3>1, <3>2, <3>3
    <2> QED BY <2>1, <2>2, PostsGrow DEF PostHeld
  <1>2. ASSUME NEW j \in Jobs, pc'[j] = "sms" PROVE j \in IdsOf(requests')
    <2>1. j \in IdsOf(requests) BY <1>2, DocumentStep DEF Backing
    <2> QED BY <2>1, Sources DEF FromJobs, IdsOf
  <1>3. ASSUME NEW p \in posts' \cup sentPosts', pc'[p.id] = "postSent"
        PROVE  p.audioURL = audioURL'[p.id]
    <2>1. CASE p \in posts \cup sentPosts
      <3>1. p.id \in Jobs /\ pc[p.id] \notin BeforePost BY <2>1 DEF TypeOK, Post, Fresh
      <3> QED BY <1>3, <2>1, <3>1, DocumentStep DEF Backing
    <2>2. CASE p \notin posts \cup sentPosts
      BY <2>2, Sources DEF FromJobs, NewPost
    <2> QED BY <2>1, <2>2
  <1>4. ASSUME NEW r \in requests' \cup sentRequests'
        PROVE  r.phone = phone'[r.id] /\ r.postId = postId'[r.id]
    <2>1. CASE r \in requests \cup sentRequests
      <3>1. r.id \in Jobs /\ pc[r.id] \notin BeforeRequest BY <2>1 DEF TypeOK, Request, Fresh
      <3> QED BY <2>1, <3>1, DocumentStep DEF Backing
    <2>2. CASE r \notin requests \cup sentRequests
      BY <2>2, Sources DEF FromJobs, NewRequest
    <2> QED BY <2>1, <2>2
  <1>5. ASSUME NEW m \in sms' PROVE pc'[m.job] = "done"
    <2>1. CASE m \in sms
      <3>1. m.job \in Jobs /\ pc[m.job] = "done" BY <2>1 DEF TypeOK, Backing
      <3> QED BY <3>1, DocumentStep
    <2>2. CASE m \notin sms BY <2>2, Sources DEF FromJobs
    <2> QED BY <2>1, <2>2
  <1> QED BY <1>1, <1>2, <1>3, <1>4, <1>5 DEF Backing, IdsOf

LEMMA SMSBackedStep == TypeOK /\ Backing /\ SMSBacked /\ [Next]_vars => SMSBacked'
  <1> SUFFICES ASSUME TypeOK, Backing, SMSBacked, [Next]_vars, NEW m \in sms'
               PROVE  \E r \in requests', p \in posts' :
                        /\ r.id = m.job /\ r.phone = m.phone /\ r.postId = p.id
                        /\ m.audioURL = p.audioURL
                        /\ p.id = m.job \/ p.url = url'[m.job]
    BY DEF SMSBacked
  <1>1. CASE m \in sms
    <2>1. m.job \in Jobs /\ pc[m.job] = "done" BY <1>1 DEF TypeOK, Backing
    <2>2. url'[m.job] = url[m.job] BY <2>1, DocumentStep
    <2>3. posts \subseteq posts' /\ requests \subseteq requests' BY PostsGrow, Sources DEF FromJobs
    <2> QED BY <1>1, <2>2, <2>3 DEF SMSBacked
  <1>2. CASE m \notin sms
    <2>1. PICK j \in Jobs : /\ pc[j] = "sms" /\ url' = url
                            /\ m = [job |-> j, phone |-> phone[j], audioURL |-> audioURL[j]]
      BY <1>2, Sources DEF FromJobs
    <2>2. PICK r \in requests : r.id = j BY <2>1 DEF Backing, IdsOf
    <2>3. r.phone = phone[j] /\ r.postId = postId[j] BY <2>2 DEF Backing
    <2>4. PostHeld(j) BY <2>1 DEF Backing
    <2>5. posts \subseteq posts' /\ requests \subseteq requests' BY PostsGrow, Sources DEF FromJobs
    <2> QED BY <2>1, <2>2, <2>3, <2>4, <2>5 DEF PostHeld
  <1> QED BY <1>1, <1>2

\* In every run nobody is sent an audio address without a stored request of
\* their phone that leads to the stored post of that audio, whichever of the
\* two inserts was retried, lost or overtaken by a crash on the way.
THEOREM MessagesAreBacked == Spec => []SMSBacked
  <1> DEFINE Inv == TypeOK /\ Assigned /\ Fresh /\ Backing /\ SMSBacked
  <1>1. Init => Inv BY TypeInit, AssignedInit, FreshInit, BackingInit
  <1>2. Inv /\ [Next]_vars => Inv'
    BY TypeStep, AssignedStep, FreshStep, BackingStep, SMSBackedStep
  <1>3. Inv => SMSBacked OBVIOUS
  <1> QED BY <1>1, <1>2, <1>3, PTL DEF Spec

(***************************************************************************)
(* What holds of a job from some moment on                                 *)
(***************************************************************************)

\* A job that was taken during an outage either has ended without a message,
\* or is still on this side of the insert that the dead socket refuses it.
CutOff(j) ==
    /\ \A m \in sms : m.job # j
    /\ \/ pc[j] \in {"failed", "lost", "done"}
       \/ socket = "dead" /\ pc[j] \in {"lookup", "text", "extract", "speech", "name", "put",
                                        "post", "callback"}

LEMMA CutOffStep ==
  ASSUME TypeOK, [Next]_vars, NEW j \in Jobs, CutOff(j)
  PROVE  CutOff(j)'
  <1> USE DEF Goto
  <1>1. \A m \in sms' : m.job # j
    <2>1. pc[j] # "sms" BY DEF CutOff
    <2> QED BY <2>1, Sources DEF FromJobs, CutOff
  <1>2. CASE pc[j] \in {"failed", "lost", "done"}
    <2>1. ~Receive(j) /\ ~JobStep(j)
      BY ONLY <1>2
      DEF Receive, PostSubmit, TwilioCallback, API, JobStep, Lookup, GetText, Extract,
        CreateTTS, UploadPlaylist, UploadPublicFile, SendPost, PostReply, SendRequest,
        RequestReply, SendSMS, Callback
    <2>2. pc'[j] = pc[j] BY <1>2, <2>1, OneJobMoves
    <2> QED BY <1>1, <1>2, <2>2 DEF CutOff
  <1>3. CASE socket = "dead" /\ pc[j] \in {"lookup", "text", "extract", "speech", "name", "put",
                                           "post", "callback"}
    <2>1. socket' = "dead" \/ Die
      BY <1>3
      DEF Next, Receive, PostSubmit, TwilioCallback, API, JobStep, Lookup, GetText, Extract,
        CreateTTS, UploadPlaylist, UploadPublicFile, SendPost, PostReply, SendRequest,
        RequestReply, SendSMS, Callback, DatabaseStep, ApplyPost, DropPost, ApplyRequest,
        DropRequest, Kill, Restart, SocketDies, Tick, Listen, vars, server, Usable, Unusable
    <2>2. CASE Die BY <1>1, <1>3, <2>2 DEF Die, CutOff
    <2>3. CASE JobStep(j) /\ ~Die
      <3>1. pc'[j] \in {"text", "extract", "speech", "name", "put", "post", "callback",
                        "failed", "done"}
        BY <1>3, <2>3
        DEF JobStep, Lookup, GetText, Extract, CreateTTS, UploadPlaylist, UploadPublicFile,
            SendPost, PostReply, SendRequest, RequestReply, SendSMS, Callback, Usable, TypeOK
      <3> QED BY <1>1, <2>1, <2>3, <3>1 DEF CutOff
    <2>4. ~Receive(j) BY <1>3 DEF Receive, PostSubmit, TwilioCallback, API
    <2>5. CASE pc'[j] = pc[j] \/ pc'[j] = "lost" BY <1>1, <1>3, <2>1, <2>2, <2>5 DEF CutOff
    <2> QED BY <2>2, <2>3, <2>4, <2>5, OneJobMoves
  <1> QED BY <1>2, <1>3 DEF CutOff

\* Whatever else happens, whoever is taken while the session's socket is dead is
\* never sent a message: not later in that process, nor after a restart.
THEOREM OutageLosesTheJob == Spec => OutageServesNobody
  <1> DEFINE Inv == TypeOK /\ Assigned /\ Fresh /\ Backing
             Taken(j) == pc[j] = "lookup" /\ socket = "dead"
             Unserved(j) == \A m \in sms : m.job # j
  <1> SUFFICES ASSUME NEW j \in Jobs PROVE Spec => [](Taken(j) => []Unserved(j))
    BY DEF OutageServesNobody
  <1>1. Init => Inv BY TypeInit, AssignedInit, FreshInit, BackingInit
  <1>2. Inv /\ [Next]_vars => Inv' BY TypeStep, AssignedStep, FreshStep, BackingStep
  <1>3. Inv /\ Taken(j) => CutOff(j) BY DEF Backing, CutOff
  <1>4. Inv /\ CutOff(j) /\ [Next]_vars => CutOff(j)' BY CutOffStep
  <1>5. CutOff(j) => Unserved(j) BY DEF CutOff
  <1> HIDE DEF Inv, Taken, Unserved
  <1> QED BY <1>1, <1>2, <1>3, <1>4, <1>5, PTL DEF Spec

\* While no query fails and no socket dies, whoever looks up an address with a
\* stored post stays on the way to the request, which makes no post.
AnswersAlways == Faults \cap {"query", "acquire", "socket"} = {}
Served(j) ==
    /\ \A p \in posts \cup sentPosts : p.id # j
    /\ \/ pc[j] = "lookup" /\ \E p \in posts : p.url = url[j]
       \/ pc[j] \in {"request", "requestSent", "sms", "done", "failed", "lost"}

LEMMA SocketLives ==
  ASSUME AnswersAlways
  PROVE  /\ Init => socket # "dead"
         /\ socket # "dead" /\ [Next]_vars => socket' # "dead"
  BY DEF AnswersAlways, Init, Next, Receive, PostSubmit, TwilioCallback, API, JobStep, Lookup,
     GetText, Extract, CreateTTS, UploadPlaylist, UploadPublicFile, SendPost, PostReply,
     SendRequest, RequestReply, SendSMS, Callback, DatabaseStep, ApplyPost, DropPost,
     ApplyRequest, DropRequest, Kill, Restart, SocketDies, Tick, Listen, vars, server, Usable,
     Unusable, Die

LEMMA ServedStep ==
  ASSUME AnswersAlways, TypeOK, socket # "dead", [Next]_vars, NEW j \in Jobs, Served(j)
  PROVE  Served(j)'
  <1>1. \A p \in posts' \cup sentPosts' : p.id # j
    BY Sources DEF FromJobs, Served, NewPost
  <1>2. posts \subseteq posts' BY PostsGrow
  <1>3. CASE Receive(j)
    BY <1>3 DEF Served, Receive, PostSubmit, TwilioCallback, API
  <1>4. CASE JobStep(j)
    <2>1. CASE Lookup(j)
      <3>1. pc'[j] = "request"
        BY <2>1 DEF AnswersAlways, Lookup, Usable, Unusable, Matches, Served, Goto, TypeOK
      <3> QED BY <1>1, <3>1 DEF Served
    <2>2. CASE ~Lookup(j)
      <3>1. pc'[j] \in {"request", "requestSent", "sms", "done", "failed", "lost"}
        BY <1>4, <2>2
        DEF Served, JobStep, GetText, Extract, CreateTTS, UploadPlaylist, UploadPublicFile,
            SendPost, PostReply, SendRequest, RequestReply, SendSMS, Callback, Goto, TypeOK, Die
      <3> QED BY <1>1, <3>1 DEF Served
    <2> QED BY <2>1, <2>2
  <1>5. CASE Kept(j) /\ (pc'[j] = pc[j] \/ pc'[j] = "lost")
    BY <1>1, <1>2, <1>5 DEF Served, Kept
  <1> QED BY <1>3, <1>4, <1>5, OneJobMoves

\* While the database answers, a page is paid for once: whoever comes for an
\* address that has a stored post makes no second one, now or later.
THEOREM StoredPagesAreFree == AnswersAlways /\ Spec => PaidOnce
  <1> DEFINE Inv == TypeOK /\ Assigned /\ Fresh /\ socket # "dead"
             Finds(j) == pc[j] = "lookup" /\ \E p \in posts : p.url = url[j]
             Free(j) == j \notin IdsOf(posts)
  <1> SUFFICES ASSUME AnswersAlways, NEW j \in Jobs PROVE Spec => [](Finds(j) => []Free(j))
    BY DEF PaidOnce
  <1>1. Init => Inv BY TypeInit, AssignedInit, FreshInit, SocketLives
  <1>2. Inv /\ [Next]_vars => Inv' BY TypeStep, AssignedStep, FreshStep, SocketLives
  <1>3. Inv /\ Finds(j) => Served(j) BY DEF Fresh, BeforePost, Served
  <1>4. Inv /\ Served(j) /\ [Next]_vars => Served(j)' BY ServedStep
  <1>5. Served(j) => Free(j) BY DEF Served, IdsOf
  <1> HIDE DEF Inv, Finds, Free
  <1> QED BY <1>1, <1>2, <1>3, <1>4, <1>5, PTL DEF Spec

=============================================================================
