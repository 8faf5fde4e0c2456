------------------------------ MODULE Library ------------------------------
(***************************************************************************)
(* What the two MongoDB collections promise to whoever reads them: the     *)
(* view and the feed pages.  A post or a request, once stored, is never    *)
(* changed or removed; ids are never reused; and a request is stored only  *)
(* when the post it refers to is already there.                            *)
(***************************************************************************)
CONSTANTS
    Ids,        \* ids of posts and of requests (bson.NewObjectId)
    Urls,       \* page addresses
    Paths,      \* names of audio objects
    Phones

VARIABLES posts, requests

vars == <<posts, requests>>

Post    == [id : Ids, url : Urls, audioURL : Paths]
Request == [id : Ids, postId : Ids, phone : Phones]

TypeOK == /\ posts \subseteq Post
          /\ requests \subseteq Request

IdsOf(docs) == {d.id : d \in docs}

Init == /\ posts = {}
        /\ requests = {}

\* PostCollection.Insert(post)
PublishPost(p) ==
    /\ p.id \notin IdsOf(posts)
    /\ posts' = posts \cup {p}
    /\ UNCHANGED requests

\* RequestCollection.Insert(request)

FileRequest_Replace(r) ==
    /\ r.id \notin IdsOf(requests)
    /\ r.postId \in IdsOf(posts)
    /\ requests' = {q \in requests : q.phone # r.phone} \cup {r}
    /\ UNCHANGED posts

FileRequest(r) ==
    /\ r.id \notin IdsOf(requests)
    /\ r.postId \in IdsOf(posts)
    /\ requests' = requests \cup {r}
    /\ UNCHANGED posts

Next == \/ \E p \in Post : PublishPost(p)
        \/ \E r \in Request : FileRequest(r)

Spec == Init /\ [][Next]_vars
============================================================================
