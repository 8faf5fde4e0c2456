-------------------------------- MODULE Feed --------------------------------
(***************************************************************************)
(* The pages that read the library while the jobs write to it: ViewHandler *)
(* (GetRequestById) and FeedHandler (FindRequestsByPhone).  Each makes     *)
(* several queries, and the library may grow between them.  Readers share  *)
(* nothing but the library, so one is modelled.                            *)
(***************************************************************************)
EXTENDS Integers, Sequences, FiniteSets

CONSTANTS
    Ids, Urls, Paths, Phones,   \* as in Library
    DbErrors,   \* whether a query may fail
    None

ASSUME NoneAssumption == None \notin Ids

VARIABLES
    posts, requests,    \* the library
    at,         \* "idle", "all", "posts", "view", "viewPost", "served", "notFound"
    phone,      \* the feed's phone
    id,         \* the id of the viewed request
    request,    \* the viewed request
    answer,     \* what All(&requests) returned
    n,          \* range index
    listed,     \* results: the feed's items, or the one viewed
    before,     \* the requests stored when the page was asked for
    dbError     \* a query failed (a post query: on a post that is there)

reader == <<at, phone, id, request, answer, n, listed, before, dbError>>
fvars  == <<posts, requests, reader>>

Lib == INSTANCE Library

Item == [request : Lib!Request, post : Lib!Post]

FeedTypeOK ==
    /\ Lib!TypeOK
    /\ at \in {"idle", "all", "posts", "view", "viewPost", "served", "notFound"}
    /\ phone \in Phones \cup {None} /\ id \in Ids \cup {None}
    /\ request \in Lib!Request \cup {None}
    /\ answer \in Seq(Lib!Request) /\ n \in 1..Len(answer) + 1
    /\ listed \in Seq(Item)
    /\ before \subseteq requests
    /\ dbError \in BOOLEAN

FInit ==
    /\ Lib!Init
    /\ at = "idle" /\ phone = None /\ id = None /\ request = None
    /\ answer = <<>> /\ n = 1 /\ listed = <<>>
    /\ before = {} /\ dbError = FALSE

NotFound == at' = "notFound"
QueryFails == DbErrors /\ NotFound /\ dbError' = TRUE

\* FindId(postId).One: the post ...
GetPostById(postId) == {p \in posts : p.id = postId}

\* ... or an error: there is none (ErrNotFound), or the query failed
NoPostById(postId) ==
    /\ GetPostById(postId) = {} \/ DbErrors
    /\ NotFound /\ dbError' = (GetPostById(postId) # {})

(***************************************************************************)
(* GET /feed/{phone}                                                       *)
(***************************************************************************)

AskFeed(ph) ==
    /\ at = "idle" /\ at' = "all"
    /\ phone' = ph /\ before' = requests
    /\ UNCHANGED <<posts, requests, id, request, answer, n, listed, dbError>>

OfPhone(docs, ph) == {r \in docs : r.phone = ph}

Orders(S) == {s \in [1..Cardinality(S) -> S] : \A r \in S : \E k \in DOMAIN s : s[k] = r}

\* All reads a cursor to its end: what was there at the start is read, what is
\* added meanwhile may be, in the cursor's order. (_Limited: the cursor may end
\* early.)
Read_Limited == {S \in SUBSET requests : S \subseteq OfPhone(requests, phone)}
Read == {S \in SUBSET requests : /\ OfPhone(before, phone) \subseteq S
                                 /\ S \subseteq OfPhone(requests, phone)}

ReadAll ==
    /\ at = "all"
    /\ \/ /\ \E S \in Read : answer' \in Orders(S)
          /\ at' = "posts" /\ UNCHANGED dbError
       \/ QueryFails /\ UNCHANGED answer
    /\ UNCHANGED <<posts, requests, phone, id, request, n, listed, before>>

\* The map of the posts listed so far.
Listed(postId) == \E k \in DOMAIN listed : listed[k].request.postId = postId

\* One turn of the loop over the requests.
NextRequest ==
    LET req == answer[n]
    IN  /\ at = "posts" /\ n <= Len(answer)
        /\ \/ /\ Listed(req.postId)
              /\ n' = n + 1 /\ UNCHANGED <<at, listed, dbError>>
           \/ /\ ~Listed(req.postId)
              /\ \E p \in GetPostById(req.postId) :
                    listed' = Append(listed, [request |-> req, post |-> p])
              /\ n' = n + 1 /\ UNCHANGED <<at, dbError>>
           \/ /\ ~Listed(req.postId)
              /\ NoPostById(req.postId) /\ UNCHANGED <<n, listed>>
        /\ UNCHANGED <<posts, requests, phone, id, request, answer, before>>

WriteFeed ==
    /\ at = "posts" /\ n = Len(answer) + 1
    /\ at' = "served"
    /\ UNCHANGED <<posts, requests, phone, id, request, answer, n, listed, before, dbError>>

(***************************************************************************)
(* GET /{id}                                                               *)
(***************************************************************************)

\* wellFormed: the id is the hex form of an object id
View(x, wellFormed) ==
    /\ at = "idle"
    /\ IF wellFormed THEN at' = "view" ELSE NotFound
    /\ id' = IF wellFormed THEN x ELSE None
    /\ before' = requests
    /\ UNCHANGED <<posts, requests, phone, request, answer, n, listed, dbError>>

FindRequest ==
    /\ at = "view"
    /\ \/ /\ \E r \in requests : r.id = id /\ request' = r
          /\ at' = "viewPost" /\ UNCHANGED dbError
       \/ id \notin Lib!IdsOf(requests) /\ NotFound /\ UNCHANGED <<request, dbError>>
       \/ QueryFails /\ UNCHANGED request
    /\ UNCHANGED <<posts, requests, phone, id, answer, n, listed, before>>

FindItsPost ==
    /\ at = "viewPost"
    /\ \/ /\ \E p \in GetPostById(request.postId) :
                listed' = <<[request |-> request, post |-> p]>>
          /\ at' = "served" /\ UNCHANGED dbError
       \/ NoPostById(request.postId) /\ UNCHANGED listed
    /\ UNCHANGED <<posts, requests, phone, id, request, answer, n, before>>

Reader == \/ \E ph \in Phones : AskFeed(ph)
          \/ ReadAll \/ NextRequest \/ WriteFeed
          \/ \E x \in Ids, wellFormed \in BOOLEAN : View(x, wellFormed)
          \/ FindRequest \/ FindItsPost

FNext == Reader \/ (Lib!Next /\ UNCHANGED reader)

FSpec == FInit /\ [][FNext]_fvars

(***************************************************************************)
(* Properties                                                              *)
(***************************************************************************)

\* A feed is answered "not found" only when a query failed: every request All
\* returned has its post by then, in whatever order the jobs stored them.
FeedFoundUnlessError == at = "notFound" /\ phone # None => dbError

\* A link in use stays good: a request stored before its page is asked for is
\* shown, unless a query failed.
LinkStaysGood ==
    at = "notFound" /\ id \in Lib!IdsOf(before) => dbError

\* A served feed lists every article the phone had requested before it asked.
FeedComplete ==
    at = "served" /\ phone # None =>
        \A r \in OfPhone(before, phone) :
            \E k \in DOMAIN listed : listed[k].post.id = r.postId

\* The feed lists each article once, under the first of its requests in the
\* order of the answer, with the post that request refers to.
FirstOfEach ==
    {k \in DOMAIN answer : \A l \in 1..k - 1 : answer[l].postId # answer[k].postId}
FeedIsDeduplicated ==
    at = "served" /\ phone # None =>
        /\ Len(listed) = Cardinality(FirstOfEach)
        /\ \A k \in FirstOfEach :
              LET item == listed[Cardinality(FirstOfEach \cap 1..k)]
              IN  item.request = answer[k] /\ item.post.id = answer[k].postId

\* A link stays good and a feed is found, unless a query failed.
LinksStayGood == LinkStaysGood /\ FeedFoundUnlessError
\* A feed lists every article the phone had asked for, and each once.
FeedIsExact == FeedTypeOK /\ FeedComplete /\ FeedIsDeduplicated
=============================================================================
