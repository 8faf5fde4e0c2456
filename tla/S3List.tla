------------------------------- MODULE S3List -------------------------------
(***************************************************************************)
(* Listing a bucket by pages, as the S3 server of goamz's tests does it    *)
(* (s3test/server.go), while objects are put and deleted between pages.    *)
(* A name is a sequence of numbers, which stand for its characters.        *)
(***************************************************************************)
EXTENDS Integers, Sequences, FiniteSets, SequencesExt

CONSTANTS
    Names, Begins,
    Delims,         \* delimiters, <<>> for none
    Maxes,          \* numbers of keys to a page, 0 for the default
    Default,        \* the default
    MaxChanges      \* bound on puts and deletes

ListAssumption ==
    /\ \A m \in Maxes : m \in Nat
    /\ Default \in Nat /\ MaxChanges \in Nat

VARIABLES
    objects,    \* names of the objects of the bucket
    req,        \* [prefix, delim, marker, max]
    contents, common,   \* what the pages so far have shown, in order
    page,       \* the last page
    kept,       \* the objects that were there from the first page on
    ever,       \* the objects that were there at some time
    changes
vars == <<objects, req, contents, common, page, kept, ever, changes>>

\* Names in alphabetical order
Less(s, t) == \E k \in 0..Len(s) :
    /\ k < Len(t) /\ SubSeq(s, 1, k) = SubSeq(t, 1, k)
    /\ k = Len(s) \/ s[k + 1] < t[k + 1]

\* The first place of the delimiter past the prefix, 0 if there is none
Index(name) ==
    LET n == Len(req.prefix) d == Len(req.delim)
        at == {i \in (n + 1)..(Len(name) - d + 1) : SubSeq(name, i, i + d - 1) = req.delim}
    IN  IF d = 0 \/ at = {} THEN 0 ELSE CHOOSE i \in at : \A j \in at : i <= j

\* The key or the prefix an object is listed as.  (_Bare: without delimiter)
Shown_Bare(name) == IF Index(name) = 0 THEN name ELSE SubSeq(name, 1, Index(name) - 1)
Shown(name) == IF Index(name) = 0 THEN name ELSE SubSeq(name, 1, Index(name) + Len(req.delim) - 1)

\* Past the marker.
Past(name) == Less(req.marker, Shown(name))

\* A page is full.  (_More: with one more)
Most == IF req.max = 0 THEN Default ELSE req.max
Full(r) == Len(r.contents) + Len(r.common) >= Most

\* One object after the other, until the page is full
Lists(r, name) ==
    IF \/ r.truncated
       \/ Index(name) # 0 /\ r.common # <<>> /\ Last(r.common) = Shown(name)
       \/ ~Past(name)
    THEN r
    ELSE IF Full(r) THEN [r EXCEPT !.truncated = TRUE]
    ELSE IF Index(name) # 0 THEN [r EXCEPT !.common = Append(@, Shown(name))]
    ELSE [r EXCEPT !.contents = Append(@, name)]

NoPage == [contents |-> <<>>, common |-> <<>>, truncated |-> TRUE]
Page ==
    LET objs == SetToSortSeq({o \in objects : IsPrefix(req.prefix, o)}, Less) IN
    FoldLeft(Lists, [NoPage EXCEPT !.truncated = FALSE], objs)

Init ==
    /\ objects \in SUBSET Names /\ kept = objects /\ ever = objects
    /\ req \in [prefix : Begins, delim : Delims, marker : {<<>>}, max : Maxes]
    /\ contents = <<>> /\ common = <<>> /\ page = NoPage /\ changes = 0

\* The next page is asked for from the last key or prefix.
Greatest(s) == CHOOSE x \in s : \A y \in s : y = x \/ Less(y, x)

List ==
    /\ page.truncated
    /\ page' = Page
    /\ contents' = contents \o Page.contents /\ common' = common \o Page.common
    /\ LET got == ToSet(Page.contents \o Page.common) IN
       req' = IF got = {} THEN req ELSE [req EXCEPT !.marker = Greatest(got)]
    /\ UNCHANGED <<objects, kept, ever, changes>>

Put(o) == o \notin objects /\ objects' = objects \cup {o} /\ ever' = ever \cup {o} /\ UNCHANGED kept
Delete(o) == o \in objects /\ objects' = objects \ {o} /\ kept' = kept \ {o} /\ UNCHANGED ever

Next ==
    \/ List
    \/ /\ page.truncated /\ page # NoPage /\ changes < MaxChanges /\ changes' = changes + 1
       /\ \E o \in Names : Put(o) \/ Delete(o)
       /\ UNCHANGED <<req, contents, common, page>>
Spec == Init /\ [][Next]_vars

(***************************************************************************)
(* Properties                                                              *)
(***************************************************************************)

\* What a listing of these objects shows: the keys with the prefix in which no
\* delimiter follows, and for the others what goes up to the first one.
UpTo(o) == {SubSeq(o, 1, i) : i \in {j \in (Len(req.prefix) + Len(req.delim))..Len(o) : IsSuffix(req.delim, SubSeq(o, 1, j))}}
Cuts(o) == IF req.delim = <<>> THEN {} ELSE UpTo(o)
Matching(objs) == {o \in objs : IsPrefix(req.prefix, o)}
Keys(objs) == {o \in Matching(objs) : Cuts(o) = {}}
Groups(objs) == {CHOOSE p \in Cuts(o) : \A q \in Cuts(o) : Len(p) <= Len(q) : o \in Matching(objs) \ Keys(objs)}

\* After the last page, every object that was there all along has been listed,
\* as itself or under its common prefix, and nothing that never was.
Complete ==
    ~page.truncated =>
        /\ Keys(kept) \subseteq ToSet(contents) /\ ToSet(contents) \subseteq Keys(ever)
        /\ Groups(kept) \subseteq ToSet(common) /\ ToSet(common) \subseteq Groups(ever)

\* Nothing is listed twice, on the same page or on another, and all in order.
InOrder ==
    /\ \A i, j \in DOMAIN contents : i < j => Less(contents[i], contents[j])
    /\ \A i, j \in DOMAIN common : i < j => Less(common[i], common[j])

\* A page has no more than was asked for, and one that is not the last is full.
PageSize ==
    page # NoPage =>
        LET n == Len(page.contents) + Len(page.common) IN n <= Most /\ (page.truncated => n = Most)
=============================================================================
