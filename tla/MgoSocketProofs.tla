--------------------------- MODULE MgoSocketProofs ---------------------------
(***************************************************************************)
(* Theorems about MgoSocket and MgoAuth: every call of a socket gets its   *)
(* own reply or the error of the socket, once, for any calls, replies and  *)
(* number of request ids; and of those who log in over a socket each uses  *)
(* a nonce of its own, and the right ones are accepted, for any number of  *)
(* goroutines, credentials and calls.                                      *)
(***************************************************************************)
EXTENDS MgoSocket, MgoAuth, SequenceTheorems, FiniteSetTheorems, TLAPS

(***************************************************************************)
(* What is on its way                                                      *)
(***************************************************************************)

In(s) == {s[i] : i \in DOMAIN s}

LEMMA ElementsOfTail ==
  ASSUME NEW S, NEW s \in Seq(S), s # <<>>
  PROVE  Tail(s) \in Seq(S) /\ Head(s) \in In(s) /\ Head(s) \in S /\ In(Tail(s)) \subseteq In(s)
  <1>1. /\ Tail(s) \in Seq(S) /\ Head(s) \in S /\ Len(Tail(s)) = Len(s) - 1 /\ Head(s) = s[1]
        /\ \A i \in 1..Len(Tail(s)) : Tail(s)[i] = s[i + 1]
    BY HeadTailProperties
  <1>2. Len(s) \in Nat /\ Len(s) > 0 /\ DOMAIN s = 1..Len(s) BY EmptySeq, LenProperties
  <1>3. DOMAIN Tail(s) = 1..Len(Tail(s)) BY <1>1, LenProperties
  <1>4. Head(s) \in In(s) BY <1>1, <1>2 DEF In
  <1>5. ASSUME NEW i \in DOMAIN Tail(s) PROVE Tail(s)[i] \in In(s)
    <2>1. i + 1 \in DOMAIN s /\ Tail(s)[i] = s[i + 1] BY <1>1, <1>2, <1>3
    <2> QED BY <2>1 DEF In
  <1> QED BY <1>1, <1>4, <1>5 DEF In

LEMMA ElementsOfAppend ==
  ASSUME NEW S, NEW s \in Seq(S), NEW e \in S
  PROVE  Append(s, e) \in Seq(S) /\ In(Append(s, e)) \subseteq In(s) \cup {e}
  <1>1. /\ Append(s, e) \in Seq(S) /\ Len(Append(s, e)) = Len(s) + 1
        /\ \A i \in 1..Len(s) : Append(s, e)[i] = s[i]
        /\ Append(s, e)[Len(s) + 1] = e
    BY AppendProperties
  <1>2. Len(s) \in Nat /\ DOMAIN s = 1..Len(s) /\ DOMAIN Append(s, e) = 1..(Len(s) + 1)
    BY <1>1, LenProperties
  <1>3. ASSUME NEW i \in DOMAIN Append(s, e) PROVE Append(s, e)[i] \in In(s) \cup {e}
    BY <1>1, <1>2, i = Len(s) + 1 \/ i \in 1..Len(s) DEF In
  <1> QED BY <1>1, <1>3 DEF In

LEMMA ElementsOfConcat ==
  ASSUME NEW S, NEW s \in Seq(S), NEW t \in Seq(S)
  PROVE  s \o t \in Seq(S) /\ In(s \o t) \subseteq In(s) \cup In(t)
  <1>1. /\ s \o t \in Seq(S) /\ Len(s \o t) = Len(s) + Len(t)
        /\ \A i \in 1..(Len(s) + Len(t)) : (s \o t)[i] = IF i <= Len(s) THEN s[i] ELSE t[i - Len(s)]
    BY ConcatProperties
  <1>2. /\ Len(s) \in Nat /\ DOMAIN s = 1..Len(s) /\ Len(t) \in Nat /\ DOMAIN t = 1..Len(t)
        /\ DOMAIN (s \o t) = 1..(Len(s) + Len(t))
    BY <1>1, LenProperties
  <1>3. ASSUME NEW i \in DOMAIN (s \o t) PROVE (s \o t)[i] \in In(s) \cup In(t)
    <2>1. CASE i <= Len(s) BY <1>1, <1>2, <2>1 DEF In
    <2>2. CASE ~(i <= Len(s))
      <3>1. i - Len(s) \in DOMAIN t BY <1>2, <2>2
      <3>2. (s \o t)[i] = t[i - Len(s)] BY <1>1, <1>2, <2>2
      <3> QED BY <3>1, <3>2 DEF In
    <2> QED BY <2>1, <2>2
  <1> QED BY <1>1, <1>3 DEF In

LEMMA ElementsOfOne == ASSUME NEW S, NEW e \in S PROVE <<e>> \in Seq(S) /\ In(<<e>>) = {e}
  BY DEF In

LEMMA ElementsOfNone == ASSUME NEW S PROVE <<>> \in Seq(S) /\ In(<<>>) = {}
  BY DEF In

(***************************************************************************)
(* Where a call is while it is pending                                     *)
(***************************************************************************)

\* Neither RepliesAreOwn nor the promise is inductive: that a reply function is
\* called once, and with its own reply, is kept by the one place a call has.  A
\* reply function in the table belongs to a pending call of a living socket
\* that has received nothing, ...
Registered ==
    \A id \in Ids : replyFuncs[id] # None =>
        /\ ~dead
        /\ status[replyFuncs[id]] = "pending" /\ received[replyFuncs[id]] = 0

\* ... which it had not before it was made, either; ...
Unasked == \A c \in Calls : status[c] = "none" => received[c] = 0

\* ... so does one that is given documents, as far as they have come, ...
BeingRead ==
    IF reading.at = "docs"
    THEN /\ reading.docs > 0
         /\ reading.call # None =>
               /\ reading.about = reading.call /\ status[reading.call] = "pending"
               /\ received[reading.call] + reading.docs <= MaxDocs
    ELSE reading.at # "update" => reading.call = None

\* ... and one that its killer still has to tell; ...
BeingTold == \A k \in Killers : \A c \in notify[k] : dead /\ status[c] = "pending"

\* ... these places are apart; ...
OnePlace ==
    /\ \A i, k \in Ids : replyFuncs[i] # None /\ replyFuncs[i] = replyFuncs[k] => i = k
    /\ reading.at = "docs" =>
          /\ reading.call # None => \A id \in Ids : replyFuncs[id] # reading.call
          /\ \A k \in Killers : reading.call \notin notify[k]
    /\ \A c \in Calls, k, l \in Killers : c \in notify[k] /\ c \in notify[l] => k = l

\* ... and what travels under the id of a reply function is for its call.
Matching ==
    /\ \A m \in In(outgoing) : replyFuncs[m.id] # None => m.call = replyFuncs[m.id]
    /\ \A m \in In(incoming) : replyFuncs[m.id] # None => m.about = replyFuncs[m.id]

Core == Registered /\ Unasked /\ BeingRead /\ BeingTold /\ OnePlace /\ Matching /\ strays = 0

\* The one thing an id counter that wraps can spoil: the id it gives next is
\* still waited for, or under way.
InUse(id) ==
    \/ replyFuncs[id] # None
    \/ \E m \in In(outgoing) : m.id = id
    \/ \E m \in In(incoming) : m.id = id
NotLapped ==
    ~dead /\ (\E c \in Calls : status[c] = "none") => ~InUse(RequestId(nextRequestId))

LEMMA CoreInit == Init => TypeOK /\ Core
  <1> SUFFICES ASSUME Init PROVE TypeOK /\ Core OBVIOUS
  <1>1. 0 \in Ids BY SpanAssumption DEF Ids
  <1>2. 0 \in 0..MaxDocs BY SpanAssumption
  <1>3. /\ outgoing \in Seq(Message) /\ incoming \in Seq(Reply)
        /\ In(outgoing) = {} /\ In(incoming) = {}
    BY ElementsOfNone DEF Init
  <1>4. TypeOK BY <1>1, <1>2, <1>3 DEF Init, TypeOK, Idle
  <1>5. Core
    BY <1>3 DEF Init, Core, Registered, Unasked, BeingRead, BeingTold, OnePlace, Matching, Idle
  <1> QED BY <1>4, <1>5

\* An id that is given is none of those without a reply.
LEMMA GivenId ==
  ASSUME nextRequestId \in Ids
  PROVE  /\ RequestId(nextRequestId) \in Ids \ {0}
         /\ RequestId(nextRequestId) = IF nextRequestId + 1 = IdSpan THEN 1 ELSE nextRequestId + 1
         /\ ((RequestId(nextRequestId) + 1) % IdSpan)
              = IF RequestId(nextRequestId) + 1 = IdSpan THEN 0 ELSE RequestId(nextRequestId) + 1
  <1>1. IdSpan \in Nat /\ IdSpan > 2 BY SpanAssumption
  <1>2. ASSUME NEW x \in 0..IdSpan PROVE (x % IdSpan) = IF x = IdSpan THEN 0 ELSE x
    <2>1. (x \div IdSpan) \in Int /\ x = IdSpan * (x \div IdSpan) + (x % IdSpan)
          /\ (x % IdSpan) \in 0..(IdSpan - 1)
      BY <1>1
    <2> QED BY <1>1, <2>1
  <1>3. nextRequestId + 1 \in 0..IdSpan BY <1>1 DEF Ids
  <1>4. ((nextRequestId + 1) % IdSpan) = IF nextRequestId + 1 = IdSpan THEN 0 ELSE nextRequestId + 1
    BY <1>2, <1>3
  <1>5. RequestId(nextRequestId) = IF nextRequestId + 1 = IdSpan THEN 1 ELSE nextRequestId + 1
    BY <1>1, <1>4 DEF RequestId, Ids
  <1>6. RequestId(nextRequestId) \in Ids \ {0} BY <1>1, <1>5 DEF Ids
  <1>7. RequestId(nextRequestId) + 1 \in 0..IdSpan BY <1>1, <1>6 DEF Ids
  <1> QED BY <1>2, <1>5, <1>6, <1>7

(***************************************************************************)
(* The steps                                                               *)
(***************************************************************************)

\* A call that is not pending is nowhere: so Query cannot give a second place.
LEMMA NowhereElse ==
  ASSUME TypeOK, Core, NEW c \in Calls, status[c] # "pending"
  PROVE  /\ \A id \in Ids : replyFuncs[id] # c
         /\ reading.at = "docs" => reading.call # c
         /\ \A k \in Killers : c \notin notify[k]
  <1> USE CallsAssumption
  <1>1. \A id \in Ids : replyFuncs[id] # c BY DEF Core, Registered, TypeOK
  <1>2. reading.at = "docs" => reading.call # c BY DEF Core, BeingRead, TypeOK
  <1>3. \A k \in Killers : c \notin notify[k] BY DEF Core, BeingTold, TypeOK
  <1> QED BY <1>1, <1>2, <1>3

LEMMA QueryDead ==
  ASSUME TypeOK, Core, NEW c \in Calls, NEW logsOut \in BOOLEAN, Query(c, logsOut), dead
  PROVE  TypeOK' /\ Core'
  <1>1. /\ status[c] = "none" /\ Fail({c})
        /\ UNCHANGED <<nextRequestId, replyFuncs, conn, deadline, outgoing,
                       dead, incoming, reading, notify, killer, reported>>
    BY DEF Query
  <1>2. status' = [x \in Calls |-> IF x = c THEN "failed" ELSE status[x]]
        /\ UNCHANGED <<received, strays>>
    BY <1>1 DEF Fail
  <1>3. TypeOK' BY <1>1, <1>2 DEF TypeOK
  <1>4. \A id \in Ids : replyFuncs[id] = None BY DEF Core, Registered
  <1>5. Registered' BY <1>1, <1>4 DEF Registered
  <1>6. BeingRead'
    <2>1. reading.at = "docs" /\ reading.call # None =>
            reading.call \in Calls /\ reading.call # c
      BY <1>1, NowhereElse DEF TypeOK
    <2> QED BY <1>1, <1>2, <2>1 DEF Core, BeingRead
  <1>7. BeingTold'
    <2>1. \A k \in Killers : notify[k] \subseteq Calls /\ c \notin notify[k]
      BY <1>1, NowhereElse DEF TypeOK
    <2> QED BY <1>1, <1>2, <2>1 DEF Core, BeingTold
  <1>8. OnePlace' BY <1>1 DEF Core, OnePlace
  <1>9. Matching' BY <1>1 DEF Core, Matching, In
  <1>10. Unasked' BY <1>2 DEF Core, Unasked
  <1> QED BY <1>2, <1>3, <1>5, <1>6, <1>7, <1>8, <1>9, <1>10 DEF Core

LEMMA QueryAlive ==
  ASSUME TypeOK, Core, NotLapped, NEW c \in Calls, NEW logsOut \in BOOLEAN, Query(c, logsOut), ~dead
  PROVE  TypeOK' /\ Core'
  <1> USE CallsAssumption
  <1> DEFINE id == RequestId(nextRequestId)
  <1>0. id \in Ids \ {0} /\ ((id + 1) % IdSpan) \in Ids
    <2>1. nextRequestId \in Ids BY DEF TypeOK
    <2>2. /\ id \in Ids \ {0}
          /\ ((id + 1) % IdSpan) = IF id + 1 = IdSpan THEN 0 ELSE id + 1
      BY <2>1, GivenId
    <2>3. IdSpan \in Nat /\ IdSpan > 2 BY SpanAssumption
    <2> HIDE DEF id
    <2> QED BY <2>2, <2>3 DEF Ids
  <1>1. /\ status[c] = "none" /\ nextRequestId' = (id + 1) % IdSpan
        /\ replyFuncs' = [replyFuncs EXCEPT ![id] = c]
        /\ deadline' = SetDeadline
        /\ status' = [status EXCEPT ![c] = "pending"]
        /\ \/ /\ outgoing' = outgoing \o (IF logsOut THEN <<Silent>> ELSE <<>>)
                                      \o <<[id |-> id, call |-> c]>>
              /\ conn' = conn
           \/ conn' = "broken" /\ outgoing' = outgoing
        /\ UNCHANGED <<received, strays, dead, incoming, reading, notify, killer, reported>>
    BY DEF Query
  <1>2. ~InUse(id) BY <1>1 DEF NotLapped
  <1> HIDE DEF id
  <1>3. [id |-> id, call |-> c] \in Message /\ Silent \in Message
    BY <1>0, SpanAssumption DEF Message, Silent, Ids
  <1>4. outgoing' \in Seq(Message) /\ In(outgoing)' \subseteq In(outgoing) \cup {Silent, [id |-> id, call |-> c]}
    <2>0. outgoing \in Seq(Message) BY DEF TypeOK
    <2> DEFINE first == IF logsOut THEN <<Silent>> ELSE <<>>
               last  == <<[id |-> id, call |-> c]>>
    <2>1. first \in Seq(Message) /\ In(first) \subseteq {Silent}
      BY <1>3, ElementsOfOne, ElementsOfNone
    <2>2. last \in Seq(Message) /\ In(last) = {[id |-> id, call |-> c]}
      BY <1>3, ElementsOfOne
    <2> HIDE DEF first, last
    <2>3. outgoing \o first \in Seq(Message) /\ In(outgoing \o first) \subseteq In(outgoing) \cup In(first)
      BY <2>0, <2>1, ElementsOfConcat
    <2>4. /\ (outgoing \o first) \o last \in Seq(Message)
          /\ In((outgoing \o first) \o last) \subseteq In(outgoing \o first) \cup In(last)
      BY <2>2, <2>3, ElementsOfConcat
    <2>5. outgoing' = (outgoing \o first) \o last \/ outgoing' = outgoing BY <1>1 DEF first, last
    <2>6. In(outgoing)' = In(outgoing') BY DEF In
    <2> QED BY <2>0, <2>1, <2>2, <2>3, <2>4, <2>5, <2>6
  <1>5. /\ \A i \in Ids : replyFuncs'[i] = IF i = id THEN c ELSE replyFuncs[i]
        /\ replyFuncs' \in [Ids -> Calls \cup {None}] /\ replyFuncs'[0] = None
    <2>1. 0 \in Ids BY SpanAssumption DEF Ids
    <2> QED BY <1>0, <1>1, <2>1 DEF TypeOK
  <1>6. /\ \A x \in Calls : status'[x] = IF x = c THEN "pending" ELSE status[x]
        /\ status' \in [Calls -> {"none", "pending", "answered", "failed"}]
    BY <1>1 DEF TypeOK
  <1>7. TypeOK'
    <2>1. SetDeadline \in BOOLEAN BY DEF SetDeadline, TypeOK
    <2> QED BY <1>0, <1>1, <1>4, <1>5, <1>6, <2>1 DEF TypeOK
  <1>8. Registered' BY <1>1, <1>5, <1>6 DEF Core, Registered, Unasked, TypeOK
  <1>9. Unasked' BY <1>1, <1>6 DEF Core, Unasked, TypeOK
  <1>10. /\ \A i \in Ids : replyFuncs[i] # c
         /\ reading.at = "docs" => reading.call # c
         /\ \A k \in Killers : c \notin notify[k]
    BY <1>1, NowhereElse
  <1>11. BeingRead'
    <2>1. reading.at = "docs" /\ reading.call # None =>
            status'[reading.call] = status[reading.call]
      BY <1>6, <1>10 DEF TypeOK
    <2> QED BY <1>1, <2>1 DEF Core, BeingRead
  <1>12. BeingTold'
    <2>1. \A k \in Killers : \A x \in notify[k] : FALSE BY DEF Core, BeingTold
    <2> QED BY <1>1, <2>1 DEF BeingTold
  <1>13. OnePlace'
    <2>1. \A i, k \in Ids : replyFuncs'[i] # None /\ replyFuncs'[i] = replyFuncs'[k] => i = k
      BY <1>5, <1>10 DEF Core, OnePlace
    <2>2. reading.at = "docs" /\ reading.call # None => \A i \in Ids : replyFuncs'[i] # reading.call
      BY <1>5, <1>10 DEF Core, OnePlace
    <2> QED BY <1>1, <2>1, <2>2 DEF Core, OnePlace
  <1>14. Matching'
    <2>1. ASSUME NEW m \in In(outgoing)', replyFuncs'[m.id] # None
          PROVE  m.call = replyFuncs'[m.id]
      <3>1. CASE m \in In(outgoing)
        <4>1. m \in Message
          BY <3>1 DEF In, TypeOK
        <4>2. m.id \in Ids /\ m.id # id BY <1>2, <3>1, <4>1 DEF InUse, Message
        <4> QED BY <1>5, <2>1, <3>1, <4>2 DEF Core, Matching
      <3>2. CASE m = Silent
        BY <1>0, <1>5, <2>1, <3>2, SpanAssumption DEF Silent, TypeOK, Ids
      <3>3. CASE m = [id |-> id, call |-> c] BY <1>0, <1>5, <3>3
      <3> QED BY <1>4, <2>1, <3>1, <3>2, <3>3
    <2>2. ASSUME NEW m \in In(incoming)', replyFuncs'[m.id] # None
          PROVE  m.about = replyFuncs'[m.id]
      <3>1. m \in In(incoming) BY <1>1, <2>2 DEF In
      <3>2. m \in Reply BY <3>1 DEF In, TypeOK
      <3>3. m.id \in Ids /\ m.id # id BY <1>2, <3>1, <3>2 DEF InUse, Reply
      <3> QED BY <1>5, <2>2, <3>1, <3>3 DEF Core, Matching
    <2> QED BY <2>1, <2>2 DEF Matching
  <1> QED BY <1>1, <1>7, <1>8, <1>9, <1>11, <1>12, <1>13, <1>14 DEF Core

LEMMA ReadHeaderStep ==
  ASSUME TypeOK, Core, ReadHeader
  PROVE  TypeOK' /\ Core'
  <1> USE CallsAssumption
  <1> DEFINE reply == Head(incoming)
             call  == replyFuncs[reply.id]
  <1>1. /\ reading.at = "header" /\ incoming # <<>>
        /\ replyFuncs' = [replyFuncs EXCEPT ![reply.id] = None]
        /\ incoming' = Tail(incoming)
        /\ reading' = [at |-> IF reply.docs = 0 THEN "update" ELSE "docs",
                       call |-> call, docs |-> reply.docs, about |-> reply.about]
        /\ IF call # None /\ reply.docs = 0
           THEN /\ status' = [status EXCEPT ![call] = "answered"]
                /\ strays' = IF reply.about = call THEN strays ELSE strays + 1
                /\ UNCHANGED received
           ELSE UNCHANGED <<status, received, strays>>
        /\ UNCHANGED <<dead, nextRequestId, conn, deadline, outgoing, notify, killer, reported>>
    BY DEF ReadHeader, Readable, Unregister, told
  <1>2. /\ reply \in Reply /\ reply \in In(incoming)
        /\ incoming' \in Seq(Reply) /\ In(incoming)' \subseteq In(incoming)
    <2>1. incoming \in Seq(Reply) BY DEF TypeOK
    <2>2. In(incoming)' = In(incoming') BY DEF In
    <2> QED BY <1>1, <2>1, <2>2, ElementsOfTail
  <1>3. /\ reply.id \in Ids /\ reply.docs \in 0..MaxDocs /\ reply.about \in Calls \cup {None}
        /\ call \in Calls \cup {None}
    BY <1>2 DEF Reply, TypeOK
  <1>4. call # None => /\ reply.about = call /\ ~dead /\ call \in Calls
                       /\ status[call] = "pending" /\ received[call] = 0
    BY <1>2, <1>3 DEF Core, Registered, Matching
  <1> HIDE DEF call, reply
  <1>5. call = replyFuncs[reply.id] BY DEF call
  <1>6. /\ \A i \in Ids : replyFuncs'[i] = IF i = reply.id THEN None ELSE replyFuncs[i]
        /\ replyFuncs' \in [Ids -> Calls \cup {None}] /\ replyFuncs'[0] = None
    <2>1. 0 \in Ids BY SpanAssumption DEF Ids
    <2> QED BY <1>1, <1>3, <2>1 DEF TypeOK
  <1>7. call # None => /\ \A i \in Ids : replyFuncs'[i] # call
                       /\ \A k \in Killers : notify[k] = {}
    <2>1. call # None => \A i \in Ids : replyFuncs'[i] # call
      BY <1>3, <1>5, <1>6 DEF Core, OnePlace
    <2>2. call # None => \A k \in Killers : notify[k] = {}
      BY <1>4 DEF Core, BeingTold
    <2> QED BY <2>1, <2>2
  <1>8. /\ \A x \in Calls : status'[x] = IF x = call /\ reply.docs = 0 THEN "answered" ELSE status[x]
        /\ status' \in [Calls -> {"none", "pending", "answered", "failed"}]
        /\ strays' = 0 /\ received' = received
    BY <1>1, <1>4 DEF TypeOK, Core
  <1>9. TypeOK' BY <1>1, <1>2, <1>3, <1>6, <1>8 DEF TypeOK
  <1>10. Registered' BY <1>1, <1>6, <1>7, <1>8 DEF Core, Registered, TypeOK
  <1>11. Unasked' BY <1>8 DEF Core, Unasked, TypeOK
  <1>12. BeingRead'
    BY <1>1, <1>3, <1>4, <1>8, SpanAssumption DEF BeingRead
  <1>13. BeingTold'
    BY <1>1, <1>7, <1>8 DEF Core, BeingTold, TypeOK
  <1>14. OnePlace'
    <2>1. \A i, k \in Ids : replyFuncs'[i] # None /\ replyFuncs'[i] = replyFuncs'[k] => i = k
      BY <1>6 DEF Core, OnePlace
    <2>2. \A k \in Killers : reading'.call \notin notify[k]
      BY <1>1, <1>7 DEF TypeOK
    <2> QED BY <1>1, <1>7, <2>1, <2>2 DEF Core, OnePlace
  <1>15. Matching'
    <2>1. ASSUME NEW m \in In(outgoing)', replyFuncs'[m.id] # None
          PROVE  m.call = replyFuncs'[m.id]
      <3>1. m \in In(outgoing) /\ m \in Message BY <1>1, <2>1 DEF In, TypeOK
      <3>2. m.id \in Ids BY <3>1 DEF Message
      <3> QED BY <1>6, <2>1, <3>1, <3>2 DEF Core, Matching
    <2>2. ASSUME NEW m \in In(incoming)', replyFuncs'[m.id] # None
          PROVE  m.about = replyFuncs'[m.id]
      <3>1. m \in In(incoming) BY <1>2, <2>2
      <3>2. m \in Reply BY <3>1 DEF In, TypeOK
      <3>3. m.id \in Ids BY <3>2 DEF Reply
      <3> QED BY <1>6, <2>2, <3>1, <3>3 DEF Core, Matching
    <2> QED BY <2>1, <2>2 DEF Matching
  <1> QED BY <1>8, <1>9, <1>10, <1>11, <1>12, <1>13, <1>14, <1>15 DEF Core

LEMMA ReadDocStep ==
  ASSUME TypeOK, Core, ReadDoc
  PROVE  TypeOK' /\ Core'
  <1> USE CallsAssumption
  <1> DEFINE call == reading.call
             left == reading.docs - 1
  <1>1. /\ reading.at = "docs"
        /\ reading' = [reading EXCEPT !.docs = left, !.at = IF left = 0 THEN "update" ELSE "docs"]
        /\ IF call # None
           THEN /\ received' = [received EXCEPT ![call] = @ + 1]
                /\ status' = [status EXCEPT ![call] = IF left = 0 THEN "answered" ELSE @]
                /\ strays' = IF reading.about = call THEN strays ELSE strays + 1
           ELSE UNCHANGED <<status, received, strays>>
        /\ UNCHANGED <<dead, nextRequestId, replyFuncs, conn, deadline, outgoing, incoming,
                       notify, killer, reported>>
    BY DEF ReadDoc, told, peer
  <1>2. /\ call \in Calls \cup {None} /\ reading.docs \in 0..MaxDocs /\ reading.docs > 0
        /\ reading.about \in Calls \cup {None}
        /\ call # None => /\ reading.about = call /\ call \in Calls /\ status[call] = "pending"
                          /\ received[call] + reading.docs <= MaxDocs
    BY <1>1 DEF TypeOK, Core, BeingRead
  <1>3. /\ left \in 0..MaxDocs
        /\ reading' = [at |-> IF left = 0 THEN "update" ELSE "docs", call |-> call,
                       docs |-> left, about |-> reading.about]
    <2>1. left \in 0..MaxDocs BY <1>2, SpanAssumption
    <2>2. reading = [at |-> reading.at, call |-> reading.call, docs |-> reading.docs,
                     about |-> reading.about]
      BY DEF TypeOK
    <2> QED BY <1>1, <2>1, <2>2
  <1>4. call # None => /\ \A i \in Ids : replyFuncs[i] # call
                       /\ \A k \in Killers : call \notin notify[k]
    BY <1>1 DEF Core, OnePlace
  <1>5. /\ \A x \in Calls : status'[x] = IF x = call /\ left = 0 THEN "answered" ELSE status[x]
        /\ \A x \in Calls : received'[x] = IF x = call THEN received[x] + 1 ELSE received[x]
        /\ status' \in [Calls -> {"none", "pending", "answered", "failed"}]
        /\ received' \in [Calls -> 0..MaxDocs]
        /\ strays' = 0
    <2>1. CASE call = None BY <1>1, <2>1 DEF TypeOK, Core
    <2>2. CASE call # None
      <3>1. received[call] \in 0..MaxDocs /\ received[call] + 1 \in 0..MaxDocs
        BY <1>2, <2>2, SpanAssumption DEF TypeOK
      <3>2. strays' = 0 BY <1>1, <1>2, <2>2 DEF Core
      <3>3. /\ \A x \in Calls : received'[x] = IF x = call THEN received[x] + 1 ELSE received[x]
            /\ received' \in [Calls -> 0..MaxDocs]
        <4>1. call \in Calls BY <1>2, <2>2
        <4>2. received \in [Calls -> 0..MaxDocs] BY DEF TypeOK
        <4>3. received' = [received EXCEPT ![call] = received[call] + 1] BY <1>1, <2>2
        <4> HIDE DEF call
        <4> QED BY <3>1, <4>1, <4>2, <4>3
      <3>4. /\ \A x \in Calls : status'[x] = IF x = call /\ left = 0 THEN "answered" ELSE status[x]
            /\ status' \in [Calls -> {"none", "pending", "answered", "failed"}]
        BY <1>1, <1>2, <2>2 DEF TypeOK
      <3> QED BY <3>2, <3>3, <3>4
    <2> QED BY <2>1, <2>2
  <1>6. call \in Calls => status[call] = "pending" BY <1>2
  <1> HIDE DEF call, left
  <1>7. TypeOK' BY <1>1, <1>2, <1>3, <1>5 DEF TypeOK
  <1>8. Registered'
    BY <1>1, <1>4, <1>5 DEF Core, Registered, TypeOK
  <1>9. Unasked' BY <1>5, <1>6 DEF Core, Unasked, TypeOK
  <1>10. BeingRead'
    <2>1. left = reading.docs - 1 /\ call = reading.call BY DEF left, call
    <2>2. CASE left = 0 BY <1>3, <2>2 DEF BeingRead
    <2>3. CASE left # 0
      <3>1. reading'.at = "docs" /\ reading'.docs = left /\ left > 0 /\ reading'.call = call
            /\ reading'.about = reading.about
        BY <1>3, <2>3, SpanAssumption
      <3>2. ASSUME call # None
            PROVE  reading.about = call /\ status'[call] = "pending"
                   /\ received'[call] + left <= MaxDocs
        <4>1. /\ received'[call] = received[call] + 1 /\ received[call] \in 0..MaxDocs
              /\ status'[call] = status[call]
          BY <1>2, <1>5, <2>3, <3>2 DEF TypeOK
        <4> QED BY <1>2, <2>1, <3>2, <4>1, SpanAssumption
      <3> QED BY <3>1, <3>2 DEF BeingRead
    <2> QED BY <2>2, <2>3
  <1>11. BeingTold'
    BY <1>1, <1>4, <1>5 DEF Core, BeingTold, TypeOK
  <1>12. OnePlace' BY <1>1, <1>3 DEF Core, OnePlace, call
  <1>13. Matching' BY <1>1 DEF Core, Matching, In
  <1> QED BY <1>5, <1>7, <1>8, <1>9, <1>10, <1>11, <1>12, <1>13 DEF Core

LEMMA ReadFailsStep ==
  ASSUME TypeOK, Core, ReadFails
  PROVE  TypeOK' /\ Core'
  <1> USE CallsAssumption
  <1>1. /\ reading.at \in {"header", "docs"}
        /\ reading' = [at |-> "kill", call |-> None, docs |-> 0, about |-> None]
        /\ UNCHANGED <<dead, nextRequestId, replyFuncs, conn, deadline, outgoing, incoming,
                       notify, killer, reported>>
        /\ IF reading.call # None THEN Fail({reading.call}) ELSE UNCHANGED told
    BY DEF ReadFails, Idle, peer
  <1>2. /\ \A x \in Calls : status'[x] = IF x = reading.call THEN "failed" ELSE status[x]
        /\ status' \in [Calls -> {"none", "pending", "answered", "failed"}]
        /\ received' = received /\ strays' = strays
    BY <1>1 DEF Fail, told, TypeOK
  <1>3. reading.call \in Calls =>
          /\ status[reading.call] = "pending"
          /\ \A i \in Ids : replyFuncs[i] # reading.call
          /\ \A k \in Killers : reading.call \notin notify[k]
    BY <1>1 DEF Core, BeingRead, OnePlace
  <1>4. TypeOK'
    <2>1. 0 \in 0..MaxDocs BY SpanAssumption
    <2> QED BY <1>1, <1>2, <2>1 DEF TypeOK
  <1>5. Registered' BY <1>1, <1>2, <1>3 DEF Core, Registered, TypeOK
  <1>6. Unasked' BY <1>2, <1>3 DEF Core, Unasked, TypeOK
  <1>7. BeingRead' BY <1>1 DEF BeingRead
  <1>8. BeingTold' BY <1>1, <1>2, <1>3 DEF Core, BeingTold, TypeOK
  <1>9. OnePlace' BY <1>1 DEF Core, OnePlace
  <1>10. Matching' BY <1>1 DEF Core, Matching, In
  <1> QED BY <1>2, <1>4, <1>5, <1>6, <1>7, <1>8, <1>9, <1>10 DEF Core

LEMMA KillStep ==
  ASSUME TypeOK, Core, NEW k \in Killers, Kill(k)
  PROVE  TypeOK' /\ Core'
  <1> USE CallsAssumption
  <1>1. /\ k = "reader" => reading.at = "kill"
        /\ reading' = IF k = "reader" THEN [reading EXCEPT !.at = "over"] ELSE reading
        /\ UNCHANGED <<nextRequestId, deadline, outgoing, incoming, reported, status, received, strays>>
    BY DEF Kill, peer, told
  <1>2. reading' = reading \/ (reading'.at = "over" /\ reading'.call = None)
    BY <1>1 DEF Core, BeingRead, TypeOK
  <1>3. reading' \in [at : {"header", "docs", "update", "kill", "over"},
                      call : Calls \cup {None}, docs : 0..MaxDocs, about : Calls \cup {None}]
    BY <1>1 DEF TypeOK
  <1>4. BeingRead' BY <1>1, <1>2 DEF Core, BeingRead
  <1>5. CASE dead /\ killer' = [killer EXCEPT ![k] = "over"]
             /\ UNCHANGED <<dead, conn, replyFuncs, notify>>
    <2>1. TypeOK' BY <1>1, <1>3, <1>5 DEF TypeOK
    <2>2. Registered' /\ Unasked' /\ BeingTold'
      BY <1>1, <1>5 DEF Core, Registered, Unasked, BeingTold
    <2>3. OnePlace' BY <1>1, <1>2, <1>5 DEF Core, OnePlace
    <2>4. Matching' BY <1>1, <1>5 DEF Core, Matching, In
    <2> QED BY <1>1, <1>4, <2>1, <2>2, <2>3, <2>4 DEF Core
  <1>6. CASE /\ ~dead /\ dead' = TRUE /\ conn' = "closed"
             /\ replyFuncs' = [id \in Ids |-> None]
             /\ notify' = [notify EXCEPT ![k] = ToTell]
             /\ killer' = [killer EXCEPT ![k] = "notifying"]
    <2>1. \A id \in Ids : replyFuncs'[id] = None BY <1>6
    <2>2. /\ ToTell \subseteq Calls
          /\ \A l \in Killers : notify'[l] = IF l = k THEN ToTell ELSE {}
      BY <1>6 DEF ToTell, Waiting, Core, BeingTold, TypeOK
    <2>3. TypeOK'
      <3>1. 0 \in Ids BY SpanAssumption DEF Ids
      <3>2. /\ dead' \in BOOLEAN /\ deadline' \in BOOLEAN /\ reported' \in BOOLEAN
            /\ nextRequestId' \in Ids /\ replyFuncs' \in [Ids -> Calls \cup {None}]
            /\ replyFuncs'[0] = None /\ conn' \in {"open", "broken", "closed"}
        BY <1>1, <1>6, <3>1 DEF TypeOK
      <3>3. /\ outgoing' \in Seq(Message) /\ incoming' \in Seq(Reply)
            /\ status' \in [Calls -> {"none", "pending", "answered", "failed"}]
            /\ received' \in [Calls -> 0..MaxDocs] /\ strays' \in Nat
        BY <1>1 DEF TypeOK
      <3>4. /\ notify' \in [Killers -> SUBSET Calls]
            /\ killer' \in [Killers -> {"idle", "notifying", "over"}]
        BY <1>6, <2>2 DEF TypeOK
      <3> QED BY <1>3, <3>2, <3>3, <3>4 DEF TypeOK
    <2>4. Registered' /\ Unasked' BY <1>1, <2>1 DEF Core, Registered, Unasked
    <2>5. BeingTold'
      <3>1. \A c \in ToTell : status[c] = "pending"
        BY DEF ToTell, Waiting, Core, Registered
      <3> QED BY <1>1, <1>6, <2>2, <3>1 DEF BeingTold
    <2>6. OnePlace'
      <3>1. \A c \in Calls, l, j \in Killers : c \in notify'[l] /\ c \in notify'[j] => l = j
        BY <2>2
      <3>2. reading'.at = "docs" => reading'.call \notin ToTell
        BY <1>2 DEF ToTell, Waiting, Core, OnePlace
      <3> QED BY <2>1, <2>2, <3>1, <3>2 DEF OnePlace
    <2>7. Matching'
      <3>1. ASSUME NEW m \in In(outgoing)' PROVE replyFuncs'[m.id] = None
        <4>1. m \in Message BY <1>1 DEF In, TypeOK
        <4> QED BY <2>1, <4>1 DEF Message
      <3>2. ASSUME NEW m \in In(incoming)' PROVE replyFuncs'[m.id] = None
        <4>1. m \in Reply BY <1>1 DEF In, TypeOK
        <4> QED BY <2>1, <4>1 DEF Reply
      <3> QED BY <3>1, <3>2 DEF Matching
    <2> QED BY <1>1, <1>4, <2>3, <2>4, <2>5, <2>6, <2>7 DEF Core
  <1> QED BY <1>5, <1>6 DEF Kill

LEMMA NotifyStep ==
  ASSUME TypeOK, Core, NEW k \in Killers, Notify(k)
  PROVE  TypeOK' /\ Core'
  <1> USE CallsAssumption
  <1>1. UNCHANGED <<dead, nextRequestId, replyFuncs, conn, deadline, outgoing, incoming, reading>>
    BY DEF Notify, peer
  <1>2. CASE notify[k] = {} /\ killer' = [killer EXCEPT ![k] = "over"]
             /\ reported' = (reported \/ k = "reader") /\ UNCHANGED <<notify, told>>
    <2>1. TypeOK' BY <1>1, <1>2 DEF TypeOK, told
    <2>2. Registered' /\ Unasked' /\ BeingRead' /\ BeingTold'
      BY <1>1, <1>2 DEF Core, Registered, Unasked, BeingRead, BeingTold, told
    <2>3. OnePlace' BY <1>1, <1>2 DEF Core, OnePlace
    <2>4. Matching' BY <1>1 DEF Core, Matching, In
    <2> QED BY <1>2, <2>1, <2>2, <2>3, <2>4 DEF Core, told
  <1>3. ASSUME NEW c \in notify[k], Fail({c}), notify' = [notify EXCEPT ![k] = @ \ {c}],
               UNCHANGED <<killer, reported>>
        PROVE  TypeOK' /\ Core'
    <2>1. c \in Calls /\ dead /\ status[c] = "pending"
      BY DEF Core, BeingTold, TypeOK
    <2>2. /\ \A x \in Calls : status'[x] = IF x = c THEN "failed" ELSE status[x]
          /\ status' \in [Calls -> {"none", "pending", "answered", "failed"}]
          /\ received' = received /\ strays' = strays
      BY <1>3 DEF Fail, TypeOK
    <2>3. /\ \A l \in Killers : notify'[l] = IF l = k THEN notify[l] \ {c} ELSE notify[l]
          /\ \A l \in Killers : c \notin notify'[l] /\ notify'[l] \subseteq notify[l]
          /\ notify' \in [Killers -> SUBSET Calls]
      BY <1>3, <2>1 DEF Core, OnePlace, TypeOK
    <2>4. TypeOK' BY <1>1, <1>3, <2>2, <2>3 DEF TypeOK
    <2>5. Registered' BY <1>1, <2>1 DEF Core, Registered
    <2>6. Unasked' BY <2>2 DEF Core, Unasked
    <2>7. BeingRead'
      <3>1. reading.at = "docs" /\ reading.call # None =>
              reading.call \in Calls /\ reading.call # c
        BY DEF Core, OnePlace, TypeOK
      <3> QED BY <1>1, <2>2, <3>1 DEF Core, BeingRead
    <2>8. BeingTold' BY <1>1, <2>2, <2>3 DEF Core, BeingTold, TypeOK
    <2>9. OnePlace' BY <1>1, <2>3 DEF Core, OnePlace
    <2>10. Matching' BY <1>1 DEF Core, Matching, In
    <2> QED BY <2>2, <2>4, <2>5, <2>6, <2>7, <2>8, <2>9, <2>10 DEF Core
  <1> QED BY <1>2, <1>3 DEF Notify

LEMMA ServeStep ==
  ASSUME TypeOK, Core, Serve
  PROVE  TypeOK' /\ Core'
  <1> DEFINE m == Head(outgoing)
  <1>1. /\ outgoing # <<>> /\ outgoing' = Tail(outgoing)
        /\ UNCHANGED <<dead, nextRequestId, replyFuncs, conn, deadline, reading,
                       notify, killer, reported, status, received, strays>>
        /\ \E n \in IF m.call \in Cursors THEN 0..MaxDocs ELSE {1} :
              incoming' = Append(incoming, [id |-> m.id, about |-> m.call, docs |-> n])
    BY DEF Serve, told
  <1>2. PICK n \in 0..MaxDocs : incoming' = Append(incoming, [id |-> m.id, about |-> m.call, docs |-> n])
    <2>1. 1 \in 0..MaxDocs BY SpanAssumption
    <2> QED BY <1>1, <2>1
  <1>3. /\ m \in Message /\ m \in In(outgoing)
        /\ outgoing' \in Seq(Message) /\ In(outgoing)' \subseteq In(outgoing)
    <2>1. outgoing \in Seq(Message) BY DEF TypeOK
    <2>2. In(outgoing)' = In(outgoing') BY DEF In
    <2> QED BY <1>1, <2>1, <2>2, ElementsOfTail
  <1>4. [id |-> m.id, about |-> m.call, docs |-> n] \in Reply BY <1>3 DEF Message, Reply
  <1>5. /\ incoming' \in Seq(Reply)
        /\ In(incoming)' \subseteq In(incoming) \cup {[id |-> m.id, about |-> m.call, docs |-> n]}
    <2>1. incoming \in Seq(Reply) BY DEF TypeOK
    <2>2. In(incoming)' = In(incoming') BY DEF In
    <2> QED BY <1>2, <1>4, <2>1, <2>2, ElementsOfAppend
  <1>6. TypeOK' BY <1>1, <1>3, <1>5 DEF TypeOK
  <1>7. Registered' /\ Unasked' /\ BeingRead' /\ BeingTold'
    BY <1>1 DEF Core, Registered, Unasked, BeingRead, BeingTold
  <1>8. OnePlace' BY <1>1 DEF Core, OnePlace
  <1>9. Matching'
    <2>1. \A x \in In(outgoing)' : replyFuncs'[x.id] # None => x.call = replyFuncs'[x.id]
      BY <1>1, <1>3 DEF Core, Matching
    <2>2. replyFuncs[m.id] # None => m.call = replyFuncs[m.id] BY <1>3 DEF Core, Matching
    <2> HIDE DEF m
    <2>3. \A x \in In(incoming)' : replyFuncs'[x.id] # None => x.about = replyFuncs'[x.id]
      BY <1>1, <1>5, <2>2 DEF Core, Matching
    <2> QED BY <2>1, <2>3 DEF Matching
  <1> QED BY <1>1, <1>6, <1>7, <1>8, <1>9 DEF Core

LEMMA OtherSteps ==
  ASSUME TypeOK, Core, UpdateDeadline \/ Disconnect \/ UNCHANGED vars
  PROVE  TypeOK' /\ Core'
  <1>1. /\ UNCHANGED <<dead, nextRequestId, replyFuncs, outgoing, incoming, notify, killer, reported,
                       status, received, strays>>
        /\ reading' = reading \/ reading' = Idle
        /\ deadline' \in BOOLEAN /\ conn' \in {"open", "broken", "closed"}
    BY TimeoutsAssumption DEF UpdateDeadline, Disconnect, vars, peer, told, TypeOK
  <1>2. TypeOK'
    <2>1. 0 \in 0..MaxDocs BY SpanAssumption
    <2> QED BY <1>1, <2>1 DEF TypeOK, Idle
  <1>3. BeingRead' BY <1>1 DEF Core, BeingRead, Idle
  <1>4. Registered' /\ Unasked' /\ BeingTold' BY <1>1 DEF Core, Registered, Unasked, BeingTold
  <1>5. OnePlace' BY <1>1 DEF Core, OnePlace, Idle
  <1>6. Matching' BY <1>1 DEF Core, Matching, In
  <1> QED BY <1>1, <1>2, <1>3, <1>4, <1>5, <1>6 DEF Core

LEMMA CoreStep == TypeOK /\ Core /\ NotLapped /\ [Next]_vars => TypeOK' /\ Core'
  <1> SUFFICES ASSUME TypeOK, Core, NotLapped, [Next]_vars PROVE TypeOK' /\ Core' OBVIOUS
  <1>1. ASSUME NEW c \in Calls, NEW logsOut \in BOOLEAN, Query(c, logsOut) PROVE TypeOK' /\ Core'
    BY <1>1, QueryDead, QueryAlive
  <1>2. CASE Reader
    BY <1>2, ReadHeaderStep, ReadDocStep, ReadFailsStep, OtherSteps, KillStep DEF Reader, Killers
  <1>3. CASE Kill("closer") BY <1>3, KillStep DEF Killers
  <1>4. ASSUME NEW k \in Killers, Notify(k) PROVE TypeOK' /\ Core' BY <1>4, NotifyStep
  <1>5. CASE Serve BY <1>5, ServeStep
  <1>6. CASE Disconnect \/ UNCHANGED vars BY <1>6, OtherSteps
  <1> QED BY <1>1, <1>2, <1>3, <1>4, <1>5, <1>6 DEF Next

(***************************************************************************)
(* What the socket promises                                                *)
(***************************************************************************)

\* Every step gives the reply functions what the promise allows, or nothing.
LEMMA StepKeepsPromise == TypeOK /\ Core /\ [Next]_vars => [Promise!Next]_(Promise!vars)
  <1> USE CallsAssumption DEF Promise!vars
  <1> SUFFICES ASSUME TypeOK, Core, [Next]_vars PROVE [Promise!Next]_(Promise!vars) OBVIOUS
  <1>0. status \in [Calls -> {"none", "pending", "answered", "failed"}]
        /\ received \in [Calls -> 0..MaxDocs]
    BY DEF TypeOK
  <1>1. ASSUME NEW S \in SUBSET Calls, Fail(S), \A c \in S : status[c] \in {"none", "pending"}
        PROVE  [Promise!Next]_(Promise!vars)
    BY <1>1 DEF Fail, Promise!Next, Promise!Fail
  <1>2. ASSUME NEW c \in Calls, NEW logsOut \in BOOLEAN, Query(c, logsOut)
        PROVE  [Promise!Next]_(Promise!vars)
    <2>1. CASE dead /\ Fail({c})
      BY <1>1, <1>2, <2>1 DEF Query
    <2>2. CASE status' = [status EXCEPT ![c] = "pending"] /\ UNCHANGED received
      BY <1>2, <2>2 DEF Query, Promise!Next, Promise!Begin
    <2> QED BY <1>2, <2>1, <2>2 DEF Query
  <1>3. CASE ReadHeader
    <2> DEFINE reply == Head(incoming)
               call  == replyFuncs[reply.id]
    <2>1. CASE call # None /\ reply.docs = 0
      <3>1. /\ status' = [status EXCEPT ![call] = "answered"] /\ UNCHANGED received
            /\ incoming # <<>>
        BY <1>3, <2>1 DEF ReadHeader, Readable
      <3>2. reply \in Reply
        <4>1. incoming \in Seq(Reply) BY DEF TypeOK
        <4> QED BY <3>1, <4>1, ElementsOfTail
      <3>3. call \in Calls /\ status[call] = "pending" /\ received[call] = 0
        <4>1. reply.id \in Ids BY <3>2 DEF Reply
        <4>2. replyFuncs[reply.id] \in Calls \cup {None} BY <4>1 DEF TypeOK
        <4> QED BY <2>1, <4>1, <4>2 DEF Core, Registered
      <3> HIDE DEF call
      <3> QED BY <3>1, <3>3 DEF Promise!Next, Promise!Answer
    <2>2. CASE ~(call # None /\ reply.docs = 0)
      BY <1>3, <2>2 DEF ReadHeader, told
    <2> QED BY <2>1, <2>2
  <1>4. CASE ReadDoc
    <2> DEFINE call == reading.call
               left == reading.docs - 1
    <2>1. CASE call # None
      <3>1. /\ received' = [received EXCEPT ![call] = @ + 1]
            /\ status' = [status EXCEPT ![call] = IF left = 0 THEN "answered" ELSE @]
            /\ reading.at = "docs"
        BY <1>4, <2>1 DEF ReadDoc
      <3>2. call \in Calls /\ status[call] = "pending"
        BY <2>1, <3>1 DEF Core, BeingRead, TypeOK
      <3>3. received[call] < MaxDocs
        <4>1. /\ reading.docs > 0 /\ received[call] + reading.docs <= MaxDocs
              /\ reading.docs \in 0..MaxDocs
          BY <2>1, <3>1 DEF Core, BeingRead, TypeOK
        <4>2. received[call] \in 0..MaxDocs BY <1>0, <3>2
        <4> QED BY <4>1, <4>2, SpanAssumption
      <3> HIDE DEF call, left
      <3>4. status' \in {status, [status EXCEPT ![call] = "answered"]}
        BY <1>0, <3>1, <3>2
      <3>5. Promise!Deliver(call) BY <3>1, <3>2, <3>3, <3>4 DEF Promise!Deliver
      <3> QED BY <3>2, <3>5 DEF Promise!Next
    <2>2. CASE call = None BY <1>4, <2>2 DEF ReadDoc, told
    <2> QED BY <2>1, <2>2
  <1>5. CASE ReadFails
    <2>1. CASE reading.call # None
      <3>1. Fail({reading.call}) /\ reading.at \in {"header", "docs"}
        BY <1>5, <2>1 DEF ReadFails
      <3>2. reading.call \in Calls /\ status[reading.call] = "pending"
        BY <2>1, <3>1 DEF Core, BeingRead, TypeOK
      <3> QED BY <1>1, <3>1, <3>2
    <2>2. CASE reading.call = None BY <1>5, <2>2 DEF ReadFails, told
    <2> QED BY <2>1, <2>2
  <1>6. ASSUME NEW k \in Killers, Notify(k) PROVE [Promise!Next]_(Promise!vars)
    <2>1. ASSUME NEW c \in notify[k], Fail({c}) PROVE [Promise!Next]_(Promise!vars)
      <3>1. c \in Calls /\ status[c] = "pending" BY DEF Core, BeingTold, TypeOK
      <3> QED BY <1>1, <2>1, <3>1
    <2> QED BY <1>6, <2>1 DEF Notify, told
  <1>7. CASE UpdateDeadline \/ Serve \/ Disconnect \/ UNCHANGED vars
    BY <1>7 DEF UpdateDeadline, Serve, Disconnect, vars, told
  <1>8. ASSUME NEW k \in Killers, Kill(k) PROVE [Promise!Next]_(Promise!vars)
    BY <1>8 DEF Kill, told
  <1> QED BY <1>2, <1>3, <1>4, <1>5, <1>6, <1>7, <1>8 DEF Next, Reader, Killers

\* However many calls are made and whatever they are: as long as no id is given
\* again that is still waited for, no reply function is called for a reply that
\* is not its own, none after its end and none twice.
THEOREM OwnWhileNotLapped == Spec /\ []NotLapped => []RepliesAreOwn /\ KeepsPromise
  <1>1. Init => TypeOK /\ Core BY CoreInit
  <1>2. TypeOK /\ Core /\ NotLapped /\ [Next]_vars => (TypeOK /\ Core)' BY CoreStep
  <1>3. TypeOK /\ Core => RepliesAreOwn BY DEF RepliesAreOwn, Core
  <1>4. Init => Promise!Init BY DEF Init, Promise!Init
  <1>5. TypeOK /\ Core /\ [Next]_vars => [Promise!Next]_(Promise!vars) BY StepKeepsPromise
  <1> QED BY <1>1, <1>2, <1>3, <1>4, <1>5, PTL DEF Spec, KeepsPromise, Promise!Spec

(***************************************************************************)
(* The id counter                                                          *)
(***************************************************************************)

\* A call takes two steps of the counter.  With no more calls than that allows,
\* from a moment at which nobody waits, no id is met again.
FewCalls == IsFiniteSet(Calls) /\ 2 * Cardinality(Calls) <= IdSpan

Made == {c \in Calls : status[c] # "none"}

\* What is in use lies no further behind the counter than the calls made so far
\* have moved it; where it wrapped, the id 0 that is left out counts too.
Window ==
    \A id \in Ids \ {0} : InUse(id) =>
        IF id < nextRequestId
        THEN nextRequestId - id <= 2 * Cardinality(Made) - 1
        ELSE nextRequestId + IdSpan - id <= 2 * Cardinality(Made)

LEMMA WindowInit == Init => Window
  <1> SUFFICES ASSUME Init PROVE Window OBVIOUS
  <1>1. In(outgoing) = {} /\ In(incoming) = {} BY ElementsOfNone DEF Init
  <1> QED BY <1>1 DEF Init, Window, InUse

LEMMA WindowOpen == FewCalls /\ TypeOK /\ Window => NotLapped
  <1> SUFFICES ASSUME FewCalls, TypeOK, Window, NEW c \in Calls, status[c] = "none",
                      InUse(RequestId(nextRequestId))
               PROVE  FALSE
    BY DEF NotLapped
  <1> DEFINE id == RequestId(nextRequestId)
             n  == Cardinality(Made)
  <1>1. n \in Nat /\ n + 1 <= Cardinality(Calls) /\ Cardinality(Calls) \in Nat
    <2>1. Made \subseteq Calls \ {c} /\ c \notin Made BY DEF Made
    <2>2. IsFiniteSet(Calls \ {c}) /\ Cardinality(Calls \ {c}) = Cardinality(Calls) - 1
      BY FS_RemoveElement DEF FewCalls
    <2>3. IsFiniteSet(Made) /\ Cardinality(Made) <= Cardinality(Calls \ {c})
      BY <2>1, <2>2, FS_Subset
    <2>4. Cardinality(Made) \in Nat /\ Cardinality(Calls) \in Nat
      BY <2>3, FS_CardinalityType DEF FewCalls
    <2> QED BY <2>2, <2>3, <2>4
  <1>2. /\ nextRequestId \in Ids /\ id \in Ids \ {0}
        /\ id = IF nextRequestId + 1 = IdSpan THEN 1 ELSE nextRequestId + 1
    <2>1. nextRequestId \in Ids BY DEF TypeOK
    <2> QED BY <2>1, GivenId
  <1>3. IF id < nextRequestId
        THEN nextRequestId - id <= 2 * n - 1
        ELSE nextRequestId + IdSpan - id <= 2 * n
    BY <1>2 DEF Window
  <1> HIDE DEF id, n
  <1> QED BY <1>1, <1>2, <1>3, SpanAssumption DEF FewCalls, Ids

LEMMA WindowStep ==
  ASSUME FewCalls, TypeOK, Core, Window, [Next]_vars
  PROVE  Window'
  <1> DEFINE n == Cardinality(Made)
             m == Cardinality(Made')
  <1>1. Made' \subseteq Calls /\ Made \subseteq Calls BY DEF Made
  <1>2. /\ IsFiniteSet(Made) /\ IsFiniteSet(Made') /\ n \in Nat /\ m \in Nat
    BY <1>1, FS_Subset, FS_CardinalityType DEF FewCalls
  <1>3. nextRequestId \in Ids BY DEF TypeOK
  <1>4. ASSUME NEW c \in Calls, NEW logsOut \in BOOLEAN, Query(c, logsOut), ~dead
        PROVE  Window'
    <2> DEFINE g == RequestId(nextRequestId)
    <2>1. /\ status[c] = "none" /\ nextRequestId' = (g + 1) % IdSpan
          /\ replyFuncs' = [replyFuncs EXCEPT ![g] = c]
          /\ status' = [status EXCEPT ![c] = "pending"]
          /\ \/ outgoing' = outgoing \o (IF logsOut THEN <<Silent>> ELSE <<>>)
                                     \o <<[id |-> g, call |-> c]>>
             \/ outgoing' = outgoing
          /\ incoming' = incoming
      BY <1>4 DEF Query
    <2>2. /\ g \in Ids \ {0}
          /\ g = IF nextRequestId + 1 = IdSpan THEN 1 ELSE nextRequestId + 1
          /\ nextRequestId' = IF g + 1 = IdSpan THEN 0 ELSE g + 1
      BY <1>3, <2>1, GivenId
    <2> HIDE DEF g
    <2>3. m = n + 1
      <3>1. Made' = Made \cup {c} /\ c \notin Made BY <2>1 DEF Made, TypeOK
      <3> QED BY <1>2, <3>1, FS_AddElement
    <2>4. ASSUME NEW id \in Ids \ {0}, InUse(id)', id # g PROVE InUse(id)
      <3>1. CASE replyFuncs'[id] # None BY <2>1, <2>4, <3>1 DEF InUse, TypeOK
      <3>2. CASE \E x \in In(outgoing)' : x.id = id
        <4> DEFINE first == IF logsOut THEN <<Silent>> ELSE <<>>
                   last  == <<[id |-> g, call |-> c]>>
        <4>0. outgoing \in Seq(Message) BY DEF TypeOK
        <4>1. [id |-> g, call |-> c] \in Message /\ Silent \in Message
          BY <2>2, SpanAssumption DEF Message, Silent, Ids
        <4>2. first \in Seq(Message) /\ In(first) \subseteq {Silent}
          BY <4>1, ElementsOfOne, ElementsOfNone
        <4>3. last \in Seq(Message) /\ In(last) = {[id |-> g, call |-> c]}
          BY <4>1, ElementsOfOne
        <4>4. outgoing' = (outgoing \o first) \o last \/ outgoing' = outgoing BY <2>1
        <4> HIDE DEF first, last
        <4>5. outgoing \o first \in Seq(Message) /\ In(outgoing \o first) \subseteq In(outgoing) \cup In(first)
          BY <4>0, <4>2, ElementsOfConcat
        <4>6. In((outgoing \o first) \o last) \subseteq In(outgoing \o first) \cup In(last)
          BY <4>3, <4>5, ElementsOfConcat
        <4>7. In(outgoing)' = In(outgoing') BY DEF In
        <4>8. In(outgoing)' \subseteq In(outgoing) \cup {Silent, [id |-> g, call |-> c]}
          BY <4>2, <4>3, <4>4, <4>5, <4>6, <4>7
        <4>9. PICK x \in In(outgoing)' : x.id = id BY <3>2
        <4>10. x \in In(outgoing) BY <2>4, <4>8, <4>9 DEF Silent
        <4> QED BY <4>9, <4>10 DEF InUse
      <3>3. CASE \E x \in In(incoming)' : x.id = id BY <2>1, <3>3 DEF InUse, In
      <3> QED BY <2>4, <3>1, <3>2, <3>3 DEF InUse
    <2>5. ASSUME NEW id \in Ids \ {0}, InUse(id)'
          PROVE  IF id < nextRequestId'
                 THEN nextRequestId' - id <= 2 * m - 1
                 ELSE nextRequestId' + IdSpan - id <= 2 * m
      <3>1. CASE id = g
        <4> HIDE DEF n, m
        <4> QED BY <1>2, <1>3, <2>2, <2>3, <3>1, SpanAssumption DEF Ids
      <3>2. CASE id # g
        <4>1. IF id < nextRequestId
              THEN nextRequestId - id <= 2 * n - 1
              ELSE nextRequestId + IdSpan - id <= 2 * n
          BY <2>4, <2>5, <3>2 DEF Window
        <4> HIDE DEF n, m
        <4> QED BY <1>2, <1>3, <2>2, <2>3, <4>1, SpanAssumption DEF Ids
      <3> QED BY <3>1, <3>2
    <2>6. m = Cardinality(Made)' BY DEF Made
    <2> HIDE DEF m
    <2> QED BY <2>5, <2>6 DEF Window
  <1>5. ASSUME Made \subseteq Made', nextRequestId' = nextRequestId,
               \A id \in Ids \ {0} : InUse(id)' => InUse(id)
        PROVE  Window'
    <2>1. n <= m BY <1>2, <1>5, FS_Subset
    <2>2. ASSUME NEW id \in Ids \ {0}, InUse(id)'
          PROVE  IF id < nextRequestId'
                 THEN nextRequestId' - id <= 2 * m - 1
                 ELSE nextRequestId' + IdSpan - id <= 2 * m
      <3>1. IF id < nextRequestId
            THEN nextRequestId - id <= 2 * n - 1
            ELSE nextRequestId + IdSpan - id <= 2 * n
        BY <1>5, <2>2 DEF Window
      <3> HIDE DEF n, m
      <3> QED BY <1>2, <1>3, <1>5, <2>1, <3>1, SpanAssumption DEF Ids
    <2>3. m = Cardinality(Made)' BY DEF Made
    <2> HIDE DEF m
    <2> QED BY <2>2, <2>3 DEF Window
  <1>6. ASSUME \A c \in Calls : status[c] # "none" => status'[c] # "none",
               nextRequestId' = nextRequestId,
               \A id \in Ids \ {0} : InUse(id)' => InUse(id)
        PROVE  Window'
    <2>1. Made \subseteq Made' BY <1>6 DEF Made
    <2> QED BY <1>5, <1>6, <2>1
  <1>7. ASSUME UNCHANGED <<replyFuncs, outgoing, incoming>> \/
               (replyFuncs' = [id \in Ids |-> None] /\ UNCHANGED <<outgoing, incoming>>)
        PROVE  \A id \in Ids \ {0} : InUse(id)' => InUse(id)
    BY <1>7 DEF InUse, In
  <1>8. ASSUME NEW c \in Calls, NEW logsOut \in BOOLEAN, Query(c, logsOut), dead PROVE Window'
    BY <1>6, <1>7, <1>8 DEF Query, Fail
  <1>9. CASE ReadHeader
    <2> DEFINE reply == Head(incoming)
               call  == replyFuncs[reply.id]
    <2>1. /\ incoming # <<>> /\ incoming' = Tail(incoming) /\ nextRequestId' = nextRequestId
          /\ replyFuncs' = [replyFuncs EXCEPT ![reply.id] = None] /\ outgoing' = outgoing
          /\ status' = [status EXCEPT ![call] = "answered"] \/ status' = status
      BY <1>9 DEF ReadHeader, Readable, Unregister, told
    <2>2. \A c \in Calls : status[c] # "none" => status'[c] # "none" BY <2>1 DEF TypeOK
    <2>3. In(incoming)' \subseteq In(incoming)
      <3>1. incoming \in Seq(Reply) BY DEF TypeOK
      <3>2. In(incoming)' = In(incoming') BY DEF In
      <3> QED BY <2>1, <3>1, <3>2, ElementsOfTail
    <2>4. \A id \in Ids : replyFuncs'[id] # None => replyFuncs[id] # None BY <2>1 DEF TypeOK
    <2>5. In(outgoing)' = In(outgoing) BY <2>1 DEF In
    <2>6. \A id \in Ids \ {0} : InUse(id)' => InUse(id) BY <2>3, <2>4, <2>5 DEF InUse
    <2> QED BY <1>6, <2>1, <2>2, <2>6
  <1>10. CASE ReadDoc
    <2>1. \A c \in Calls : status[c] # "none" => status'[c] # "none"
      BY <1>10 DEF ReadDoc, told, TypeOK
    <2> QED BY <1>6, <1>7, <1>10, <2>1 DEF ReadDoc, peer
  <1>11. CASE ReadFails
    <2>1. \A c \in Calls : status[c] # "none" => status'[c] # "none"
      BY <1>11 DEF ReadFails, told, Fail
    <2> QED BY <1>6, <1>7, <1>11, <2>1 DEF ReadFails, peer
  <1>12. ASSUME NEW k \in Killers, Kill(k) PROVE Window'
    <2>1. UNCHANGED <<replyFuncs, outgoing, incoming>> \/
          (replyFuncs' = [id \in Ids |-> None] /\ UNCHANGED <<outgoing, incoming>>)
      BY <1>12 DEF Kill, peer
    <2>2. status' = status /\ nextRequestId' = nextRequestId BY <1>12 DEF Kill, told
    <2> QED BY <1>6, <1>7, <2>1, <2>2
  <1>13. ASSUME NEW k \in Killers, Notify(k) PROVE Window'
    <2>1. \A c \in Calls : status[c] # "none" => status'[c] # "none"
      BY <1>13 DEF Notify, told, Fail
    <2> QED BY <1>6, <1>7, <1>13, <2>1 DEF Notify, peer
  <1>14. CASE Serve
    <2> DEFINE x == Head(outgoing)
    <2>1. /\ outgoing # <<>> /\ outgoing' = Tail(outgoing)
          /\ UNCHANGED <<nextRequestId, replyFuncs, status>>
          /\ \E d \in IF x.call \in Cursors THEN 0..MaxDocs ELSE {1} :
                incoming' = Append(incoming, [id |-> x.id, about |-> x.call, docs |-> d])
      BY <1>14 DEF Serve, told
    <2>2. PICK d \in 0..MaxDocs : incoming' = Append(incoming, [id |-> x.id, about |-> x.call, docs |-> d])
      <3>1. 1 \in 0..MaxDocs BY SpanAssumption
      <3> QED BY <2>1, <3>1
    <2>3. outgoing \in Seq(Message) /\ incoming \in Seq(Reply) BY DEF TypeOK
    <2>4. /\ x \in Message /\ x \in In(outgoing) /\ In(outgoing)' \subseteq In(outgoing)
      <3>1. In(outgoing)' = In(outgoing') BY DEF In
      <3> QED BY <2>1, <2>3, <3>1, ElementsOfTail
    <2>5. [id |-> x.id, about |-> x.call, docs |-> d] \in Reply BY <2>4 DEF Message, Reply
    <2>6. In(incoming)' \subseteq In(incoming) \cup {[id |-> x.id, about |-> x.call, docs |-> d]}
      <3>1. In(incoming)' = In(incoming') BY DEF In
      <3> QED BY <2>2, <2>3, <2>5, <3>1, ElementsOfAppend
    <2> HIDE DEF x
    <2>7. \A id \in Ids \ {0} : InUse(id)' => InUse(id)
      BY <2>1, <2>4, <2>6 DEF InUse
    <2> QED BY <1>6, <2>1, <2>7
  <1>15. CASE UpdateDeadline \/ Disconnect \/ UNCHANGED vars
    BY <1>6, <1>7, <1>15 DEF UpdateDeadline, Disconnect, vars, peer, told
  <1> QED BY <1>4, <1>8, <1>9, <1>10, <1>11, <1>12, <1>13, <1>14, <1>15 DEF Next, Reader, Killers

LEMMA NeverLapped == FewCalls => (Spec => []NotLapped)
  <1> SUFFICES ASSUME FewCalls PROVE Spec => []NotLapped OBVIOUS
  <1>1. Init => TypeOK /\ Core /\ Window BY CoreInit, WindowInit
  <1>2. TypeOK /\ Window => NotLapped BY WindowOpen
  <1>3. TypeOK /\ Core /\ Window /\ [Next]_vars => (TypeOK /\ Core /\ Window)'
    BY CoreStep, WindowOpen, WindowStep
  <1> QED BY <1>1, <1>2, <1>3, PTL DEF Spec

\* Replies reach the calls they answer, with ids that wrap and with requests
\* that nobody waits for among them.
THEOREM RepliesGoHome == FewCalls => (Spec => []RepliesAreOwn)
  <1> SUFFICES ASSUME FewCalls PROVE Spec => []RepliesAreOwn OBVIOUS
  <1>1. Spec => []NotLapped BY NeverLapped
  <1> QED BY <1>1, OwnWhileNotLapped, PTL

\* The socket implements the promise: each call is given its documents and then
\* one end, whatever the order of replies, failures and kills.
THEOREM PromiseIsKept == FewCalls => (Spec => KeepsPromise)
  <1> SUFFICES ASSUME FewCalls PROVE Spec => KeepsPromise OBVIOUS
  <1>1. Spec => []NotLapped BY NeverLapped
  <1> QED BY <1>1, OwnWhileNotLapped, PTL

(***************************************************************************)
(* Logging in.  First what it needs of sequences.                          *)
(***************************************************************************)

LEMMA TailOf ==
  ASSUME NEW S, NEW s \in Seq(S), s # <<>>
  PROVE  /\ Tail(s) \in Seq(S) /\ 1 \in DOMAIN s /\ Head(s) = s[1] /\ Head(s) \in S
         /\ \A i \in DOMAIN Tail(s) : /\ i \in Nat /\ i + 1 \in DOMAIN s /\ i + 1 # 1
                                      /\ Tail(s)[i] = s[i + 1]
  <1>1. /\ Tail(s) \in Seq(S) /\ Head(s) \in S /\ Len(Tail(s)) = Len(s) - 1 /\ Head(s) = s[1]
        /\ \A i \in 1..Len(Tail(s)) : Tail(s)[i] = s[i + 1]
    BY HeadTailProperties
  <1>2. Len(s) \in Nat /\ Len(s) > 0 /\ DOMAIN s = 1..Len(s) BY EmptySeq, LenProperties
  <1>3. DOMAIN Tail(s) = 1..Len(Tail(s)) BY <1>1, LenProperties
  <1> QED BY <1>1, <1>2, <1>3

LEMMA AppendOf ==
  ASSUME NEW S, NEW s \in Seq(S), NEW e \in S, NEW t, t = s \o <<e>>
  PROVE  /\ t \in Seq(S)
         /\ \A i \in DOMAIN s : i \in DOMAIN t /\ t[i] = s[i]
         /\ \E m \in DOMAIN t : t[m] = e /\ \A i \in DOMAIN t : i = m \/ i \in DOMAIN s
  <1>1. t = Append(s, e) BY AppendIsConcat
  <1>2. /\ t \in Seq(S) /\ Len(t) = Len(s) + 1
        /\ \A i \in 1..Len(s) : t[i] = s[i]
        /\ t[Len(s) + 1] = e
    BY <1>1, AppendProperties
  <1>3. Len(s) \in Nat /\ DOMAIN s = 1..Len(s) /\ DOMAIN t = 1..(Len(s) + 1)
    BY <1>2, LenProperties
  <1>4. /\ Len(s) + 1 \in DOMAIN t
        /\ \A i \in DOMAIN t : i = Len(s) + 1 \/ i \in DOMAIN s
    BY <1>3
  <1>5. \A i \in DOMAIN s : i \in DOMAIN t BY <1>3
  <1> QED BY ONLY <1>2, <1>3, <1>4, <1>5

LEMMA AtMostOne ==
  ASSUME NEW S, \A x, y \in S : x = y
  PROVE  IsFiniteSet(S) /\ Cardinality(S) = IF S = {} THEN 0 ELSE 1
  <1>1. CASE S = {} BY <1>1, FS_EmptySet
  <1>2. CASE S # {}
    <2>1. PICK e : S = {e} BY <1>2
    <2> QED BY <1>2, <2>1, FS_Singleton
  <1> QED BY <1>1, <1>2

(***************************************************************************)
(* Records                                                                 *)
(***************************************************************************)

Actor(at, cred, op, lops, n, step, done, result) ==
    [at |-> at, cred |-> cred, op |-> op, lops |-> lops, nonce |-> n,
     step |-> step, done |-> done, result |-> result]
IsActor(a) == a = Actor(a.at, a.cred, a.op, a.lops, a.nonce, a.step, a.done, a.result)

Like(b, at, cred, op, n, result) ==
    IsActor(b) /\ b.at = at /\ b.cred = cred /\ b.op = op /\ b.nonce = n /\ b.result = result

\* What an actor is when fields of it change: the ones that the actions change
\* together
LEMMA ChangeAt ==
  ASSUME NEW a, IsActor(a), NEW u, NEW b,
         b = [a EXCEPT !.at = u]
  PROVE  Like(b, u, a.cred, a.op, a.nonce, a.result)
  <1>1. a = Actor(a.at, a.cred, a.op, a.lops, a.nonce, a.step, a.done, a.result) BY DEF IsActor
  <1>2. b = [a EXCEPT !.at = u] OBVIOUS
  <1>3. b = Actor(u, a.cred, a.op, a.lops, a.nonce, a.step, a.done, a.result)
    BY ONLY <1>1, <1>2 DEF Actor
  <1> QED BY ONLY <1>3 DEF Actor, IsActor, Like

LEMMA ChangeAtOp ==
  ASSUME NEW a, IsActor(a), NEW u, NEW v, NEW b,
         b = [a EXCEPT !.at = u, !.op = v]
  PROVE  Like(b, u, a.cred, v, a.nonce, a.result)
  <1>1. a = Actor(a.at, a.cred, a.op, a.lops, a.nonce, a.step, a.done, a.result) BY DEF IsActor
  <1>2. PICK x : x = [a EXCEPT !.at = u] OBVIOUS
  <1>3. x = Actor(u, a.cred, a.op, a.lops, a.nonce, a.step, a.done, a.result)
    BY ONLY <1>1, <1>2 DEF Actor
  <1>4. b = [[a EXCEPT !.at = u] EXCEPT !.op = v] OBVIOUS
  <1>5. b = [x EXCEPT !.op = v] BY ONLY <1>2, <1>4
  <1>6. b = Actor(u, a.cred, v, a.lops, a.nonce, a.step, a.done, a.result)
    BY ONLY <1>3, <1>5 DEF Actor
  <1> QED BY ONLY <1>6 DEF Actor, IsActor, Like

LEMMA ChangeAtCred ==
  ASSUME NEW a, IsActor(a), NEW u, NEW v, NEW b,
         b = [a EXCEPT !.at = u, !.cred = v]
  PROVE  Like(b, u, v, a.op, a.nonce, a.result)
  <1>1. a = Actor(a.at, a.cred, a.op, a.lops, a.nonce, a.step, a.done, a.result) BY DEF IsActor
  <1>2. PICK x : x = [a EXCEPT !.at = u] OBVIOUS
  <1>3. x = Actor(u, a.cred, a.op, a.lops, a.nonce, a.step, a.done, a.result)
    BY ONLY <1>1, <1>2 DEF Actor
  <1>4. b = [[a EXCEPT !.at = u] EXCEPT !.cred = v] OBVIOUS
  <1>5. b = [x EXCEPT !.cred = v] BY ONLY <1>2, <1>4
  <1>6. b = Actor(u, v, a.op, a.lops, a.nonce, a.step, a.done, a.result)
    BY ONLY <1>3, <1>5 DEF Actor
  <1> QED BY ONLY <1>6 DEF Actor, IsActor, Like

LEMMA ChangeCredResult ==
  ASSUME NEW a, IsActor(a), NEW u, NEW v, NEW b,
         b = [a EXCEPT !.cred = u, !.result = v]
  PROVE  Like(b, a.at, u, a.op, a.nonce, v)
  <1>1. a = Actor(a.at, a.cred, a.op, a.lops, a.nonce, a.step, a.done, a.result) BY DEF IsActor
  <1>2. PICK x : x = [a EXCEPT !.cred = u] OBVIOUS
  <1>3. x = Actor(a.at, u, a.op, a.lops, a.nonce, a.step, a.done, a.result)
    BY ONLY <1>1, <1>2 DEF Actor
  <1>4. b = [[a EXCEPT !.cred = u] EXCEPT !.result = v] OBVIOUS
  <1>5. b = [x EXCEPT !.result = v] BY ONLY <1>2, <1>4
  <1>6. b = Actor(a.at, u, a.op, a.lops, a.nonce, a.step, a.done, v)
    BY ONLY <1>3, <1>5 DEF Actor
  <1> QED BY ONLY <1>6 DEF Actor, IsActor, Like

LEMMA ChangeAtOpNonce ==
  ASSUME NEW a, IsActor(a), NEW u, NEW v, NEW w, NEW b,
         b = [a EXCEPT !.at = u, !.op = v, !.nonce = w]
  PROVE  Like(b, u, a.cred, v, w, a.result)
  <1>1. a = Actor(a.at, a.cred, a.op, a.lops, a.nonce, a.step, a.done, a.result) BY DEF IsActor
  <1>2. PICK x : x = [a EXCEPT !.at = u] OBVIOUS
  <1>3. x = Actor(u, a.cred, a.op, a.lops, a.nonce, a.step, a.done, a.result)
    BY ONLY <1>1, <1>2 DEF Actor
  <1>4. PICK y : y = [x EXCEPT !.op = v] OBVIOUS
  <1>5. y = Actor(u, a.cred, v, a.lops, a.nonce, a.step, a.done, a.result)
    BY ONLY <1>3, <1>4 DEF Actor
  <1>6. b = [[[a EXCEPT !.at = u] EXCEPT !.op = v] EXCEPT !.nonce = w] OBVIOUS
  <1>7. b = [y EXCEPT !.nonce = w] BY ONLY <1>2, <1>4, <1>6
  <1>8. b = Actor(u, a.cred, v, a.lops, w, a.step, a.done, a.result)
    BY ONLY <1>5, <1>7 DEF Actor
  <1> QED BY ONLY <1>8 DEF Actor, IsActor, Like

LEMMA ChangeAtLops ==
  ASSUME NEW a, IsActor(a), NEW u, NEW v, NEW b,
         b = [a EXCEPT !.at = u, !.lops = v]
  PROVE  Like(b, u, a.cred, a.op, a.nonce, a.result)
  <1>1. a = Actor(a.at, a.cred, a.op, a.lops, a.nonce, a.step, a.done, a.result) BY DEF IsActor
  <1>2. PICK x : x = [a EXCEPT !.at = u] OBVIOUS
  <1>3. x = Actor(u, a.cred, a.op, a.lops, a.nonce, a.step, a.done, a.result)
    BY ONLY <1>1, <1>2 DEF Actor
  <1>4. b = [[a EXCEPT !.at = u] EXCEPT !.lops = v] OBVIOUS
  <1>5. b = [x EXCEPT !.lops = v] BY ONLY <1>2, <1>4
  <1>6. b = Actor(u, a.cred, a.op, v, a.nonce, a.step, a.done, a.result)
    BY ONLY <1>3, <1>5 DEF Actor
  <1> QED BY ONLY <1>6 DEF Actor, IsActor, Like

LEMMA ChangeAtOpResult ==
  ASSUME NEW a, IsActor(a), NEW u, NEW v, NEW w, NEW b,
         b = [a EXCEPT !.at = u, !.op = v, !.result = w]
  PROVE  Like(b, u, a.cred, v, a.nonce, w)
  <1>1. a = Actor(a.at, a.cred, a.op, a.lops, a.nonce, a.step, a.done, a.result) BY DEF IsActor
  <1>2. PICK x : x = [a EXCEPT !.at = u] OBVIOUS
  <1>3. x = Actor(u, a.cred, a.op, a.lops, a.nonce, a.step, a.done, a.result)
    BY ONLY <1>1, <1>2 DEF Actor
  <1>4. PICK y : y = [x EXCEPT !.op = v] OBVIOUS
  <1>5. y = Actor(u, a.cred, v, a.lops, a.nonce, a.step, a.done, a.result)
    BY ONLY <1>3, <1>4 DEF Actor
  <1>6. b = [[[a EXCEPT !.at = u] EXCEPT !.op = v] EXCEPT !.result = w] OBVIOUS
  <1>7. b = [y EXCEPT !.result = w] BY ONLY <1>2, <1>4, <1>6
  <1>8. b = Actor(u, a.cred, v, a.lops, a.nonce, a.step, a.done, w)
    BY ONLY <1>5, <1>7 DEF Actor
  <1> QED BY ONLY <1>8 DEF Actor, IsActor, Like

LEMMA ChangeAtStepDone ==
  ASSUME NEW a, IsActor(a), NEW u, NEW v, NEW w, NEW b,
         b = [a EXCEPT !.at = u, !.step = v, !.done = w]
  PROVE  Like(b, u, a.cred, a.op, a.nonce, a.result)
  <1>1. a = Actor(a.at, a.cred, a.op, a.lops, a.nonce, a.step, a.done, a.result) BY DEF IsActor
  <1>2. PICK x : x = [a EXCEPT !.at = u] OBVIOUS
  <1>3. x = Actor(u, a.cred, a.op, a.lops, a.nonce, a.step, a.done, a.result)
    BY ONLY <1>1, <1>2 DEF Actor
  <1>4. PICK y : y = [x EXCEPT !.step = v] OBVIOUS
  <1>5. y = Actor(u, a.cred, a.op, a.lops, a.nonce, v, a.done, a.result)
    BY ONLY <1>3, <1>4 DEF Actor
  <1>6. b = [[[a EXCEPT !.at = u] EXCEPT !.step = v] EXCEPT !.done = w] OBVIOUS
  <1>7. b = [y EXCEPT !.done = w] BY ONLY <1>2, <1>4, <1>6
  <1>8. b = Actor(u, a.cred, a.op, a.lops, a.nonce, v, w, a.result)
    BY ONLY <1>5, <1>7 DEF Actor
  <1> QED BY ONLY <1>8 DEF Actor, IsActor, Like

\* ... when a login in steps begins
LEMMA Begins ==
  ASSUME NEW c
  PROVE  Like([IdleActor EXCEPT !.at = "flush", !.cred = c, !.op = "scram", !.step = 1, !.done = TRUE],
              "flush", c, "scram", 0, "none")
  <1>1. IdleActor = Actor("idle", Nobody, "", <<>>, 0, 0, FALSE, "none") BY DEF IdleActor, Actor
  <1>2. PICK x : x = [IdleActor EXCEPT !.at = "flush"] OBVIOUS
  <1>3. x = Actor("flush", Nobody, "", <<>>, 0, 0, FALSE, "none") BY ONLY <1>1, <1>2 DEF Actor
  <1>4. PICK y : y = [x EXCEPT !.cred = c] OBVIOUS
  <1>5. y = Actor("flush", c, "", <<>>, 0, 0, FALSE, "none") BY ONLY <1>3, <1>4 DEF Actor
  <1>6. PICK z : z = [y EXCEPT !.op = "scram"] OBVIOUS
  <1>7. z = Actor("flush", c, "scram", <<>>, 0, 0, FALSE, "none") BY ONLY <1>5, <1>6 DEF Actor
  <1>8. PICK v : v = [z EXCEPT !.step = 1] OBVIOUS
  <1>9. v = Actor("flush", c, "scram", <<>>, 0, 1, FALSE, "none") BY ONLY <1>7, <1>8 DEF Actor
  <1>10. PICK w : w = [v EXCEPT !.done = TRUE] OBVIOUS
  <1>11. w = Actor("flush", c, "scram", <<>>, 0, 1, TRUE, "none") BY ONLY <1>9, <1>10 DEF Actor
  <1>12. [IdleActor EXCEPT !.at = "flush", !.cred = c, !.op = "scram", !.step = 1, !.done = TRUE]
           = [[[[[IdleActor EXCEPT !.at = "flush"] EXCEPT !.cred = c] EXCEPT !.op = "scram"] EXCEPT !.step = 1]
                EXCEPT !.done = TRUE]
    OBVIOUS
  <1>13. w = [IdleActor EXCEPT !.at = "flush", !.cred = c, !.op = "scram", !.step = 1, !.done = TRUE]
    BY ONLY <1>2, <1>4, <1>6, <1>8, <1>10, <1>12
  <1>14. Like(w, "flush", c, "scram", 0, "none") BY ONLY <1>11 DEF Actor, IsActor, Like
  <1> QED BY ONLY <1>13, <1>14

LEMMA IdleIs == Like(IdleActor, "idle", Nobody, "", 0, "none")
  BY DEF IdleActor, IsActor, Actor, Like

LEMMA ResultIs ==
  ASSUME NEW a, NEW res, NEW b, b = Result(a, res)
  PROVE  Like(b, "idle", a.cred, "", 0, res)
  <1>1. b = [IdleActor EXCEPT !.cred = a.cred, !.result = res] BY DEF Result
  <1>2. PICK i : i = IdleActor OBVIOUS
  <1>3. b = [i EXCEPT !.cred = a.cred, !.result = res] BY ONLY <1>1, <1>2
  <1>4. Like(i, "idle", Nobody, "", 0, "none") BY ONLY <1>2, IdleIs
  <1>5. IsActor(i) /\ i.at = "idle" /\ i.op = "" /\ i.nonce = 0 BY ONLY <1>4 DEF Like
  <1>6. Like(b, i.at, a.cred, i.op, i.nonce, res) BY ONLY <1>3, <1>5, ChangeCredResult
  <1> QED BY ONLY <1>5, <1>6

LEMMA FromIdle ==
  ASSUME NEW c, NEW res, NEW b
  PROVE  /\ b = [IdleActor EXCEPT !.cred = c, !.result = res] => Like(b, "idle", c, "", 0, res)
         /\ b = [IdleActor EXCEPT !.at = "nonce", !.cred = c] => Like(b, "nonce", c, "", 0, "none")
         /\ b = [IdleActor EXCEPT !.at = "flush", !.op = "query"] => Like(b, "flush", Nobody, "query", 0, "none")
  <1>1. PICK i : i = IdleActor OBVIOUS
  <1>2. IsActor(i) /\ i.at = "idle" /\ i.cred = Nobody /\ i.op = "" /\ i.nonce = 0 /\ i.result = "none"
    BY ONLY <1>1, IdleIs DEF Like
  <1>3. ASSUME b = [i EXCEPT !.cred = c, !.result = res] PROVE Like(b, "idle", c, "", 0, res)
    <2>1. Like(b, i.at, c, i.op, i.nonce, res) BY ONLY <1>2, <1>3, ChangeCredResult
    <2> QED BY ONLY <2>1, <1>2
  <1>4. ASSUME b = [i EXCEPT !.at = "nonce", !.cred = c] PROVE Like(b, "nonce", c, "", 0, "none")
    <2>1. Like(b, "nonce", c, i.op, i.nonce, i.result) BY ONLY <1>2, <1>4, ChangeAtCred
    <2> QED BY ONLY <2>1, <1>2
  <1>5. ASSUME b = [i EXCEPT !.at = "flush", !.op = "query"] PROVE Like(b, "flush", Nobody, "query", 0, "none")
    <2>1. Like(b, "flush", i.cred, "query", i.nonce, i.result) BY ONLY <1>2, <1>5, ChangeAtOp
    <2> QED BY ONLY <2>1, <1>2
  <1> QED BY ONLY <1>1, <1>3, <1>4, <1>5

(***************************************************************************)
(* The invariant                                                           *)
(***************************************************************************)

\* An operation has its steps, a login waits before it has one.
Shape(a) ==
    /\ IsActor(a)
    /\ a.at \in {"idle", "nonce", "asleep", "flush", "write", "reply"}
    /\ a.op \in {"", "query", "getnonce", "auth", "scram"}
    /\ (a.at \in {"idle", "nonce", "asleep"}) <=> (a.op = "")
    /\ a.at = "reply" => a.op \in {"auth", "scram"}

Shapes == DOMAIN actor = Actors /\ \A x \in Actors : Shape(actor[x])

\* A reply to a login finds the one that waits for it.
Replies == [kind : {"nonce", "auth", "scram"}, actor : Actors \cup {Nobody}, ok : Nat, done : BOOLEAN]
Finds(r) ==
    r.kind # "nonce" => /\ r.actor \in Actors /\ actor[r.actor].at = "reply" /\ actor[r.actor].op = r.kind
                        /\ r.ok \in {0, 1} /\ (r.ok = 0 => ~actor[r.actor].cred.good)
Told ==
    /\ replies \in Seq(Replies)
    /\ \A i \in DOMAIN replies : Finds(replies[i])
    /\ \A i, j \in DOMAIN replies :
          replies[i].kind # "nonce" /\ replies[j].kind # "nonce" /\ replies[i].actor = replies[j].actor => i = j

\* The nonce is at one place : at hand, in a reply, or with the one who logs in
\* with it and who will ask for the next.
Holds(a) == a.op \in {"auth", "getnonce"}
Carries(i) == i \in DOMAIN replies /\ replies[i].kind = "nonce"
OneNonce ==
    /\ cachedNonce # 0 => (\A i \in DOMAIN replies : ~Carries(i)) /\ (\A x \in Actors : ~Holds(actor[x]))
    /\ \A i, j \in DOMAIN replies : Carries(i) /\ Carries(j) => i = j
    /\ \A i \in DOMAIN replies, x \in Actors : Carries(i) => ~Holds(actor[x])
    /\ \A x, y \in Actors : Holds(actor[x]) /\ Holds(actor[y]) => x = y

\* It is the one that the server expects.
Sure(a, n) == a.op = "auth" /\ a.at \in {"flush", "write"} => a.nonce = n
Current ==
    /\ nonce \in Nat \ {0} /\ cachedNonce \in {0, -1, nonce}
    /\ \A i \in DOMAIN replies : Carries(i) => replies[i].ok = nonce
    /\ \A x \in Actors : Sure(actor[x], nonce)

Right(a) == a.result = "refused" => ~a.cred.good
Rights == \A x \in Actors : Right(actor[x])

Inv == Shapes /\ Told /\ OneNonce /\ Current /\ Rights /\ ~panicked

(***************************************************************************)
(* Steps of one actor                                                      *)
(***************************************************************************)

LEMMA OnlyOne ==
  ASSUME DOMAIN actor = Actors, NEW x \in Actors, NEW b, Become(x, b)
  PROVE  /\ DOMAIN actor' = Actors /\ actor'[x] = b
         /\ \A y \in Actors : y # x => actor'[y] = actor[y]
  BY DEF Become

\* One that is not told anything may give the nonce away, not get it.
LEMMA StepKeeps ==
  ASSUME Inv, NEW x \in Actors, NEW b, Become(x, b), Shape(b), Sure(b, nonce), Right(b),
         actor[x].at # "reply", b.at # "reply", Holds(b) => Holds(actor[x]),
         cachedNonce' \in {0, cachedNonce}, UNCHANGED <<replies, nonce, panicked>>
  PROVE  Inv'
  <1>1. /\ DOMAIN actor' = Actors /\ actor'[x] = b
        /\ \A y \in Actors : y # x => actor'[y] = actor[y]
    BY OnlyOne DEF Inv, Shapes
  <1>2. Shapes' BY <1>1 DEF Inv, Shapes
  <1>3. Told'
    <2>1. \A i \in DOMAIN replies : replies[i].kind # "nonce" => replies[i].actor # x
      BY DEF Inv, Told, Finds
    <2>2. \A i \in DOMAIN replies : Finds(replies[i])'
      BY <1>1, <2>1 DEF Inv, Told, Finds
    <2> QED BY <2>2 DEF Inv, Told
  <1>4. OneNonce'
    <2>1. \A y \in Actors : Holds(actor'[y]) => Holds(actor[y]) BY <1>1
    <2>2. \A i : Carries(i)' <=> Carries(i) BY DEF Carries
    <2> QED BY <2>1, <2>2 DEF Inv, OneNonce
  <1>5. Current'
    <2>1. \A i : Carries(i)' <=> Carries(i) BY DEF Carries
    <2>2. \A y \in Actors : Sure(actor'[y], nonce) BY <1>1 DEF Inv, Current
    <2> QED BY <2>1, <2>2 DEF Inv, Current
  <1>6. Rights' BY <1>1 DEF Inv, Rights
  <1> QED BY <1>2, <1>3, <1>4, <1>5, <1>6 DEF Inv

\* The nonce at hand is taken.
LEMMA TakeKeeps ==
  ASSUME Inv, NEW x \in Actors, NEW b, Become(x, b), Shape(b), Sure(b, nonce), Right(b),
         actor[x].at # "reply", b.at # "reply", cachedNonce # 0,
         cachedNonce' = 0, UNCHANGED <<replies, nonce, panicked>>
  PROVE  Inv'
  <1>1. /\ DOMAIN actor' = Actors /\ actor'[x] = b
        /\ \A y \in Actors : y # x => actor'[y] = actor[y]
    BY OnlyOne DEF Inv, Shapes
  <1>2. Shapes' BY <1>1 DEF Inv, Shapes
  <1>3. Told'
    <2>1. \A i \in DOMAIN replies : replies[i].kind # "nonce" => replies[i].actor # x
      BY DEF Inv, Told, Finds
    <2>2. \A i \in DOMAIN replies : Finds(replies[i])'
      BY <1>1, <2>1 DEF Inv, Told, Finds
    <2> QED BY <2>2 DEF Inv, Told
  <1>4. OneNonce'
    <2>1. \A y \in Actors : Holds(actor'[y]) => y = x BY <1>1 DEF Inv, OneNonce
    <2>2. \A i \in DOMAIN replies : ~Carries(i) BY DEF Inv, OneNonce
    <2>3. \A i \in DOMAIN replies' : ~Carries(i)' BY <2>2 DEF Carries
    <2> QED BY <2>1, <2>3 DEF OneNonce
  <1>5. Current'
    <2>1. \A i : Carries(i)' <=> Carries(i) BY DEF Carries
    <2>2. \A y \in Actors : Sure(actor'[y], nonce) BY <1>1 DEF Inv, Current
    <2> QED BY <2>1, <2>2 DEF Inv, Current
  <1>6. Rights' BY <1>1 DEF Inv, Rights
  <1> QED BY <1>2, <1>3, <1>4, <1>5, <1>6 DEF Inv

\* An operation of a login is written : its reply comes for the one who waits.
LEMMA SayKeeps ==
  ASSUME Inv, NEW x \in Actors, NEW b, Become(x, b), Shape(b), Right(b),
         actor[x].at # "reply", b.at = "reply", Holds(b) => Holds(actor[x]),
         NEW r \in Replies, r.kind = b.op, r.actor = x, r.ok \in {0, 1}, r.ok = 0 => ~b.cred.good,
         replies' = replies \o <<r>>, UNCHANGED <<cachedNonce, nonce, panicked>>
  PROVE  Inv'
  <1>1. /\ DOMAIN actor' = Actors /\ actor'[x] = b
        /\ \A y \in Actors : y # x => actor'[y] = actor[y]
    BY OnlyOne DEF Inv, Shapes
  <1>2. Shapes' BY <1>1 DEF Inv, Shapes
  <1>3. PICK m \in DOMAIN replies' :
          /\ replies'[m] = r /\ replies' \in Seq(Replies)
          /\ \A i \in DOMAIN replies : i \in DOMAIN replies' /\ replies'[i] = replies[i]
          /\ \A i \in DOMAIN replies' : i = m \/ i \in DOMAIN replies
    <2>1. replies \in Seq(Replies) /\ replies' = replies \o <<r>> BY DEF Inv, Told
    <2> QED BY ONLY <2>1, r \in Replies, AppendOf
  <1>4. r.kind # "nonce" BY DEF Shape
  <1>5. Told'
    <2>1. \A i \in DOMAIN replies : replies[i].kind # "nonce" => replies[i].actor # x
      BY DEF Inv, Told, Finds
    <2>2. ASSUME NEW i \in DOMAIN replies' PROVE Finds(replies[i])'
      <3>1. CASE i = m BY <1>1, <1>3, <3>1 DEF Finds
      <3>2. CASE i # m
        <4>1. i \in DOMAIN replies /\ replies'[i] = replies[i] BY <1>3, <3>2
        <4>2. Finds(replies[i]) /\ (replies[i].kind # "nonce" => replies[i].actor # x) BY <4>1, <2>1 DEF Inv, Told
        <4> QED BY <1>1, <4>1, <4>2 DEF Finds
      <3> QED BY <3>1, <3>2
    <2>3. \A i, j \in DOMAIN replies' :
            replies'[i].kind # "nonce" /\ replies'[j].kind # "nonce" /\ replies'[i].actor = replies'[j].actor => i = j
      <3>1. \A i \in DOMAIN replies' : i # m /\ replies'[i].kind # "nonce" =>
              i \in DOMAIN replies /\ replies'[i] = replies[i] /\ replies'[i].actor # x
        BY <1>3, <2>1
      <3> QED BY <1>3, <3>1 DEF Inv, Told
    <2> QED BY <1>3, <2>2, <2>3 DEF Told
  <1>6. \A i : Carries(i)' <=> Carries(i) BY <1>3, <1>4 DEF Carries
  <1>7. OneNonce'
    <2>1. \A y \in Actors : Holds(actor'[y]) => Holds(actor[y]) BY <1>1
    <2>2. \A i \in DOMAIN replies' : Carries(i) => i \in DOMAIN replies BY DEF Carries
    <2> QED BY <1>6, <2>1, <2>2 DEF Inv, OneNonce, Carries
  <1>8. Current'
    <2>1. \A y \in Actors : Sure(actor'[y], nonce) BY <1>1 DEF Inv, Current, Sure
    <2>2. \A i \in DOMAIN replies' : Carries(i)' => replies'[i].ok = nonce
      BY <1>3, <1>6 DEF Inv, Current, Carries
    <2> QED BY <2>1, <2>2 DEF Inv, Current
  <1>9. Rights' BY <1>1 DEF Inv, Rights
  <1> QED BY <1>2, <1>5, <1>7, <1>8, <1>9 DEF Inv

\* The next nonce is asked for : the one that held the last gives it away.
LEMMA RenewKeeps ==
  ASSUME Inv, NEW x \in Actors, NEW b, Become(x, b), Shape(b), Right(b), b.op = "",
         actor[x].at # "reply", Holds(actor[x]), nonce' = nonce + 1,
         replies' = replies \o <<NonceReply(nonce + 1)>>, UNCHANGED <<cachedNonce, panicked>>
  PROVE  Inv'
  <1>1. /\ DOMAIN actor' = Actors /\ actor'[x] = b
        /\ \A y \in Actors : y # x => actor'[y] = actor[y]
    BY OnlyOne DEF Inv, Shapes
  <1>2. Shapes' BY <1>1 DEF Inv, Shapes
  <1>a. PICK r : r = NonceReply(nonce + 1) OBVIOUS
  <1>b. r \in Replies /\ r.kind = "nonce" /\ r.ok = nonce + 1
    <2>1. nonce \in Nat BY DEF Inv, Current
    <2> QED BY ONLY <2>1, <1>a DEF NonceReply, Replies
  <1>c. replies' = replies \o <<r>> BY <1>a
  <1>3. PICK m \in DOMAIN replies' :
          /\ replies'[m] = r /\ replies' \in Seq(Replies)
          /\ \A i \in DOMAIN replies : i \in DOMAIN replies' /\ replies'[i] = replies[i]
          /\ \A i \in DOMAIN replies' : i = m \/ i \in DOMAIN replies
    <2>1. replies \in Seq(Replies) /\ replies' = replies \o <<r>> BY <1>c DEF Inv, Told
    <2> QED BY ONLY <2>1, <1>b, AppendOf
  <1>4. \A i \in DOMAIN replies : ~Carries(i) BY DEF Inv, OneNonce
  <1>5. \A i \in DOMAIN replies' : Carries(i)' <=> i = m BY <1>3, <1>4, <1>b DEF Carries
  <1>6. \A y \in Actors : ~Holds(actor'[y]) BY <1>1 DEF Inv, OneNonce, Holds
  <1>7. Told'
    <2>1. \A i \in DOMAIN replies : replies[i].kind # "nonce" => replies[i].actor # x
      BY DEF Inv, Told, Finds
    <2>2. ASSUME NEW i \in DOMAIN replies' PROVE Finds(replies[i])'
      <3>1. CASE i = m BY <1>b, <1>3, <3>1 DEF Finds
      <3>2. CASE i # m
        <4>1. i \in DOMAIN replies /\ replies'[i] = replies[i] BY <1>3, <3>2
        <4>2. Finds(replies[i]) /\ (replies[i].kind # "nonce" => replies[i].actor # x) BY <4>1, <2>1 DEF Inv, Told
        <4> QED BY <1>1, <4>1, <4>2 DEF Finds
      <3> QED BY <3>1, <3>2
    <2>3. \A i, j \in DOMAIN replies' :
            replies'[i].kind # "nonce" /\ replies'[j].kind # "nonce" /\ replies'[i].actor = replies'[j].actor => i = j
      <3>1. \A i \in DOMAIN replies' : replies'[i].kind # "nonce" =>
              i \in DOMAIN replies /\ replies'[i] = replies[i]
        BY <1>3, <1>b
      <3>2. Told BY DEF Inv
      <3> QED BY ONLY <3>1, <3>2 DEF Told
    <2> QED BY <1>3, <2>2, <2>3 DEF Told
  <1>8. OneNonce'
    <2>1. cachedNonce = 0 BY DEF Inv, OneNonce
    <2> QED BY <1>5, <1>6, <2>1 DEF OneNonce
  <1>9. Current'
    <2>1. \A y \in Actors : Sure(actor'[y], nonce') BY <1>6 DEF Holds, Sure
    <2>2. cachedNonce = 0 BY DEF Inv, OneNonce
    <2>3. \A i \in DOMAIN replies' : Carries(i)' => replies'[i].ok = nonce' BY <1>3, <1>5, <1>b
    <2>4. nonce \in Nat /\ nonce' = nonce + 1 BY DEF Inv, Current
    <2>5. nonce' \in Nat \ {0} BY ONLY <2>4
    <2> QED BY <2>1, <2>2, <2>3, <2>5 DEF Current
  <1>10. Rights' BY <1>1 DEF Inv, Rights
  <1> QED BY <1>2, <1>7, <1>8, <1>9, <1>10 DEF Inv

(***************************************************************************)
(* Steps of readLoop                                                       *)
(***************************************************************************)

\* What is left of the replies is as good as they were.
LEMMA RestOfReplies ==
  ASSUME Inv, replies # <<>>, replies' = Tail(replies)
  PROVE  /\ replies' \in Seq(Replies) /\ 1 \in DOMAIN replies /\ Head(replies) = replies[1]
         /\ \A i \in DOMAIN replies' : /\ i \in Nat /\ i + 1 \in DOMAIN replies /\ i + 1 # 1
                                       /\ replies'[i] = replies[i + 1]
         /\ \A i \in DOMAIN replies' : Carries(i)' <=> Carries(i + 1)
  <1>1. /\ replies' \in Seq(Replies) /\ 1 \in DOMAIN replies /\ Head(replies) = replies[1]
        /\ \A i \in DOMAIN replies' : /\ i \in Nat /\ i + 1 \in DOMAIN replies /\ i + 1 # 1
                                      /\ replies'[i] = replies[i + 1]
    BY TailOf DEF Inv, Told
  <1>2. \A i \in DOMAIN replies' : Carries(i)' <=> Carries(i + 1) BY <1>1 DEF Carries
  <1> QED BY <1>1, <1>2

\* The one who waits is told.
LEMMA TellKeeps ==
  ASSUME Inv, replies # <<>>, Head(replies).kind # "nonce", NEW x, x = Head(replies).actor,
         NEW b, Become(x, b), Shape(b), Right(b), b.at # "reply", b.op # "auth",
         Holds(b) => Holds(actor[x]),
         replies' = Tail(replies), UNCHANGED <<cachedNonce, nonce, panicked>>
  PROVE  Inv'
  <1>a. x \in Actors BY RestOfReplies DEF Inv, Told, Finds
  <1>1. /\ DOMAIN actor' = Actors /\ actor'[x] = b
        /\ \A y \in Actors : y # x => actor'[y] = actor[y]
    BY <1>a, OnlyOne DEF Inv, Shapes
  <1>2. Shapes' BY <1>1 DEF Inv, Shapes
  <1>3. \A i \in DOMAIN replies' : replies'[i].kind # "nonce" => replies'[i].actor # x
    BY RestOfReplies DEF Inv, Told
  <1>4. Told'
    <2>1. ASSUME NEW i \in DOMAIN replies' PROVE Finds(replies[i])'
      <3>1. Finds(replies'[i]) BY RestOfReplies DEF Inv, Told
      <3> QED BY <1>1, <1>3, <3>1 DEF Finds
    <2>2. \A i, j \in DOMAIN replies' :
            replies'[i].kind # "nonce" /\ replies'[j].kind # "nonce" /\ replies'[i].actor = replies'[j].actor => i = j
      <3> SUFFICES ASSUME NEW i \in DOMAIN replies', NEW j \in DOMAIN replies',
                          replies'[i].kind # "nonce", replies'[j].kind # "nonce", replies'[i].actor = replies'[j].actor
                   PROVE  i = j
        OBVIOUS
      <3>1. i \in Nat /\ j \in Nat BY RestOfReplies
      <3>2. i + 1 = j + 1 BY RestOfReplies DEF Inv, Told
      <3> QED BY <3>1, <3>2
    <2> QED BY <2>1, <2>2, RestOfReplies DEF Told
  <1>5. OneNonce'
    <2>1. \A y \in Actors : Holds(actor'[y]) => Holds(actor[y]) BY <1>1
    <2>2. \A i, j \in DOMAIN replies' : Carries(i)' /\ Carries(j)' => i = j
      <3> SUFFICES ASSUME NEW i \in DOMAIN replies', NEW j \in DOMAIN replies', Carries(i)', Carries(j)' PROVE i = j
        OBVIOUS
      <3>1. i \in Nat /\ j \in Nat BY RestOfReplies
      <3>2. i + 1 = j + 1 BY RestOfReplies DEF Inv, OneNonce
      <3> QED BY <3>1, <3>2
    <2>3. \A i \in DOMAIN replies' : Carries(i)' => Carries(i + 1) /\ i + 1 \in DOMAIN replies BY RestOfReplies
    <2> QED BY <2>1, <2>2, <2>3 DEF Inv, OneNonce
  <1>6. Current'
    <2>1. \A y \in Actors : Sure(actor'[y], nonce) BY <1>1 DEF Inv, Current, Sure
    <2>2. \A i \in DOMAIN replies' : Carries(i)' => replies'[i].ok = nonce BY RestOfReplies DEF Inv, Current
    <2> QED BY <2>1, <2>2 DEF Inv, Current
  <1>7. Rights' BY <1>1 DEF Inv, Rights
  <1> QED BY <1>2, <1>4, <1>5, <1>6, <1>7 DEF Inv

\* The nonce that was on its way is at hand, and one who sleeps is woken.
LEMMA ReadNonceKeeps == Inv /\ ReadNonce => Inv'
  <1> SUFFICES ASSUME Inv, ReadNonce PROVE Inv' OBVIOUS
  <1>1. replies # <<>> /\ Head(replies).kind = "nonce" /\ replies' = Tail(replies) /\ UNCHANGED nonce
    BY DEF ReadNonce, authServer
  <1>2. 1 \in DOMAIN replies /\ Carries(1) BY <1>1, RestOfReplies DEF Carries
  <1>3. replies[1].ok = nonce BY <1>2 DEF Inv, Current
  <1>4. cachedNonce = 0 /\ \A x \in Actors : ~Holds(actor[x]) BY <1>2 DEF Inv, OneNonce
  <1>5. cachedNonce' \in {-1, nonce} /\ ~panicked'
    BY <1>1, <1>3, <1>4, RestOfReplies DEF ReadNonce, Inv
  <1>6. \/ actor' = actor
        \/ \E x \in Actors : actor[x].at = "asleep" /\ actor' = Woken(x)
    BY <1>4 DEF ReadNonce, Asleep
  <1>7. /\ DOMAIN actor' = Actors
        /\ \A y \in Actors : \/ actor'[y] = actor[y]
                             \/ actor[y].at = "asleep" /\ actor'[y] = [actor[y] EXCEPT !.at = "nonce"]
    <2>1. DOMAIN actor = Actors BY DEF Inv, Shapes
    <2>2. CASE actor' = actor
      <3>1. DOMAIN actor' = Actors BY ONLY <2>1, <2>2
      <3>2. \A y \in Actors : actor'[y] = actor[y] BY ONLY <2>2
      <3> QED BY ONLY <3>1, <3>2
    <2>3. ASSUME NEW x \in Actors, actor[x].at = "asleep", actor' = Woken(x)
          PROVE  /\ DOMAIN actor' = Actors
                 /\ actor'[x] = [actor[x] EXCEPT !.at = "nonce"]
                 /\ \A y \in Actors : y # x => actor'[y] = actor[y]
      BY ONLY <2>1, <2>3 DEF Woken
    <2>4. ASSUME NEW x \in Actors, actor[x].at = "asleep", actor' = Woken(x) PROVE <1>7
      BY ONLY <2>3, <2>4
    <2> QED BY ONLY <1>6, <2>2, <2>4
  <1>8. \A y \in Actors :
          \/ actor'[y] = actor[y]
          \/ /\ actor[y].at = "asleep"
             /\ Like(actor'[y], "nonce", actor[y].cred, actor[y].op, actor[y].nonce, actor[y].result)
    <2> TAKE y \in Actors
    <2>1. IsActor(actor[y]) BY DEF Inv, Shapes, Shape
    <2>2. PICK b : b = actor'[y] OBVIOUS
    <2>3. CASE b = actor[y] BY <2>2, <2>3
    <2>4. CASE actor[y].at = "asleep" /\ b = [actor[y] EXCEPT !.at = "nonce"]
      <3>1. Like(b, "nonce", actor[y].cred, actor[y].op, actor[y].nonce, actor[y].result)
        BY ONLY <2>1, <2>4, ChangeAt
      <3> QED BY ONLY <2>2, <2>4, <3>1
    <2> QED BY <1>7, <2>2, <2>3, <2>4
  <1>9. Shapes'
    <2>1. ASSUME NEW y \in Actors PROVE Shape(actor'[y])
      <3>1. Shape(actor[y]) BY DEF Inv, Shapes
      <3> QED BY ONLY <3>1, <1>8, y \in Actors DEF Shape, Like
    <2> QED BY <1>7, <2>1 DEF Shapes
  <1>10. \A y \in Actors : actor'[y].op = actor[y].op /\ (actor[y].at = "reply" => actor'[y] = actor[y])
    BY <1>8 DEF Like
  <1>11. \A i \in DOMAIN replies' : ~Carries(i)'
    <2> SUFFICES ASSUME NEW i \in DOMAIN replies', Carries(i)' PROVE FALSE OBVIOUS
    <2>1. Carries(i + 1) /\ i + 1 \in DOMAIN replies /\ i + 1 # 1 BY <1>1, RestOfReplies
    <2> QED BY <1>2, <2>1 DEF Inv, OneNonce
  <1>12. Told'
    <2>1. ASSUME NEW i \in DOMAIN replies' PROVE Finds(replies[i])'
      <3>1. Finds(replies'[i]) BY <1>1, RestOfReplies DEF Inv, Told
      <3> QED BY <1>10, <3>1 DEF Finds
    <2>2. \A i, j \in DOMAIN replies' :
            replies'[i].kind # "nonce" /\ replies'[j].kind # "nonce" /\ replies'[i].actor = replies'[j].actor => i = j
      <3> SUFFICES ASSUME NEW i \in DOMAIN replies', NEW j \in DOMAIN replies',
                          replies'[i].kind # "nonce", replies'[j].kind # "nonce", replies'[i].actor = replies'[j].actor
                   PROVE  i = j
        OBVIOUS
      <3>1. i \in Nat /\ j \in Nat BY <1>1, RestOfReplies
      <3>2. i + 1 = j + 1 BY <1>1, RestOfReplies DEF Inv, Told
      <3> QED BY <3>1, <3>2
    <2> QED BY <1>1, <2>1, <2>2, RestOfReplies DEF Told
  <1>13. OneNonce'
    <2>1. \A y \in Actors : ~Holds(actor'[y]) BY <1>4, <1>10 DEF Holds
    <2> QED BY <1>11, <2>1 DEF OneNonce
  <1>14. Current'
    <2>1. nonce \in Nat \ {0} BY DEF Inv, Current
    <2>2. \A y \in Actors : Sure(actor'[y], nonce) BY <1>4, <1>10 DEF Holds, Sure
    <2> QED BY <1>1, <1>5, <1>11, <2>1, <2>2 DEF Current
  <1>15. Rights' BY <1>8 DEF Inv, Rights, Right, Like
  <1> QED BY <1>5, <1>9, <1>12, <1>13, <1>14, <1>15 DEF Inv

\* All are told that the socket died, and no reply comes.
LEMMA KillKeeps == Inv /\ AuthKill => Inv'
  <1> SUFFICES ASSUME Inv, AuthKill PROVE Inv' OBVIOUS
  <1>1. replies' = <<>> /\ UNCHANGED <<cachedNonce, nonce, panicked>> BY DEF AuthKill, authServer
  <1>2. /\ DOMAIN actor' = Actors
        /\ \A y \in Actors : \/ actor'[y] = actor[y] /\ actor[y].at # "reply"
                             \/ actor[y].at = "asleep" /\ actor'[y] = [actor[y] EXCEPT !.at = "nonce"]
                             \/ actor[y].at = "reply" /\ actor'[y] = Result(actor[y], "failed")
    <2>1. actor' = [y \in Actors |->
                      CASE actor[y].at = "asleep" -> [actor[y] EXCEPT !.at = "nonce"]
                        [] actor[y].at = "reply" -> Result(actor[y], "failed")
                        [] OTHER -> actor[y]]
      BY DEF AuthKill
    <2>2. ASSUME NEW y \in Actors
          PROVE  \/ actor'[y] = actor[y] /\ actor[y].at # "reply"
                 \/ actor[y].at = "asleep" /\ actor'[y] = [actor[y] EXCEPT !.at = "nonce"]
                 \/ actor[y].at = "reply" /\ actor'[y] = Result(actor[y], "failed")
      <3>1. CASE actor[y].at = "asleep" BY ONLY <2>1, <3>1, y \in Actors
      <3>2. CASE actor[y].at = "reply" BY ONLY <2>1, <3>2, y \in Actors
      <3>3. CASE actor[y].at # "asleep" /\ actor[y].at # "reply" BY ONLY <2>1, <3>3, y \in Actors
      <3> QED BY <3>1, <3>2, <3>3
    <2>3. DOMAIN actor' = Actors BY ONLY <2>1
    <2> QED BY ONLY <2>2, <2>3
  <1>3. \A y \in Actors :
          \/ actor'[y] = actor[y] /\ actor[y].at # "reply"
          \/ /\ actor[y].at = "asleep"
             /\ Like(actor'[y], "nonce", actor[y].cred, actor[y].op, actor[y].nonce, actor[y].result)
          \/ Like(actor'[y], "idle", actor[y].cred, "", 0, "failed")
    <2> TAKE y \in Actors
    <2>1. IsActor(actor[y]) BY DEF Inv, Shapes, Shape
    <2>2. PICK b : b = actor'[y] OBVIOUS
    <2>3. CASE b = actor[y] /\ actor[y].at # "reply" BY <2>2, <2>3
    <2>4. CASE actor[y].at = "asleep" /\ b = [actor[y] EXCEPT !.at = "nonce"]
      <3>1. Like(b, "nonce", actor[y].cred, actor[y].op, actor[y].nonce, actor[y].result)
        BY ONLY <2>1, <2>4, ChangeAt
      <3> QED BY ONLY <2>2, <2>4, <3>1
    <2>5. CASE b = Result(actor[y], "failed")
      <3>1. Like(b, "idle", actor[y].cred, "", 0, "failed") BY ONLY <2>5, ResultIs
      <3> QED BY ONLY <2>2, <3>1
    <2> QED BY <1>2, <2>2, <2>3, <2>4, <2>5
  <1>4. Shapes'
    <2>1. ASSUME NEW y \in Actors PROVE Shape(actor'[y])
      <3>1. Shape(actor[y]) BY DEF Inv, Shapes
      <3> QED BY ONLY <3>1, <1>3, y \in Actors DEF Shape, Like
    <2> QED BY <1>2, <2>1 DEF Shapes
  <1>5. Told' BY <1>1 DEF Told
  <1>6. \A y \in Actors : Holds(actor'[y]) => Holds(actor[y]) BY <1>3 DEF Holds, Like
  <1>7. \A i : ~Carries(i)' BY <1>1 DEF Carries
  <1>8. OneNonce' BY <1>1, <1>6, <1>7 DEF Inv, OneNonce
  <1>9. Current'
    <2>1. ASSUME NEW y \in Actors PROVE Sure(actor'[y], nonce)
      <3>1. Shape(actor[y]) /\ Sure(actor[y], nonce) BY DEF Inv, Shapes, Current
      <3> QED BY ONLY <3>1, <1>3, y \in Actors DEF Shape, Sure, Like
    <2> QED BY <1>1, <1>7, <2>1 DEF Inv, Current
  <1>10. Rights' BY <1>3 DEF Inv, Rights, Right, Like
  <1> QED BY <1>1, <1>4, <1>5, <1>8, <1>9, <1>10 DEF Inv

(***************************************************************************)
(* The actions of the actors                                               *)
(***************************************************************************)

\* At the start of a call nothing holds the actor back.
LEMMA LoginKeeps == ASSUME Inv, NEW x \in Actors, Login(x) PROVE Inv'
  <1>1. PICK c \in Creds :
          \/ Become(x, [IdleActor EXCEPT !.cred = c, !.result = "ok"])
          \/ Become(x, IF c.mech = "classic" THEN [IdleActor EXCEPT !.at = "nonce", !.cred = c]
                       ELSE [IdleActor EXCEPT !.at = "flush", !.cred = c, !.op = "scram", !.step = 1, !.done = TRUE])
    BY DEF Login
  <1>2. PICK b : /\ Become(x, b)
                 /\ \/ b = [IdleActor EXCEPT !.cred = c, !.result = "ok"]
                    \/ b = [IdleActor EXCEPT !.at = "nonce", !.cred = c]
                    \/ b = [IdleActor EXCEPT !.at = "flush", !.cred = c, !.op = "scram", !.step = 1, !.done = TRUE]
    BY ONLY <1>1
  <1>3. \/ Like(b, "idle", c, "", 0, "ok") \/ Like(b, "nonce", c, "", 0, "none")
        \/ Like(b, "flush", c, "scram", 0, "none")
    BY ONLY <1>2, FromIdle, Begins
  <1>4. Shape(b) /\ Sure(b, nonce) /\ Right(b) /\ b.at # "reply" /\ ~Holds(b)
    BY ONLY <1>3 DEF Like, Shape, Sure, Right, Holds
  <1>5. actor[x].at # "reply" /\ UNCHANGED <<cachedNonce, replies, nonce, panicked>> BY DEF Login, authServer
  <1> QED BY <1>2, <1>4, <1>5, StepKeeps

LEMMA QueryKeeps == ASSUME Inv, NEW x \in Actors, AuthQuery(x) PROVE Inv'
  <1>1. PICK b : b = [IdleActor EXCEPT !.at = "flush", !.op = "query"] OBVIOUS
  <1>2. Become(x, b) BY <1>1 DEF AuthQuery
  <1>3. Like(b, "flush", Nobody, "query", 0, "none") BY ONLY <1>1, FromIdle
  <1>4. Shape(b) /\ Sure(b, nonce) /\ Right(b) /\ b.at # "reply" /\ ~Holds(b)
    BY ONLY <1>3 DEF Like, Shape, Sure, Right, Holds
  <1>5. actor[x].at # "reply" /\ UNCHANGED <<cachedNonce, replies, nonce, panicked>> BY DEF AuthQuery, authServer
  <1> QED BY <1>2, <1>4, <1>5, StepKeeps

LEMMA GetNonceKeeps == ASSUME Inv, NEW x \in Actors, GetNonce(x) PROVE Inv'
  <1> DEFINE a == actor[x]
  <1>1. a.at = "nonce" /\ UNCHANGED <<replies, nonce, panicked>> BY DEF GetNonce, authServer
  <1>2. Shape(a) /\ Right(a) /\ IsActor(a) BY DEF Inv, Shapes, Rights, Shape
  <1>3. nonce # 0 /\ cachedNonce \in {0, -1, nonce} BY DEF Inv, Current
  <1>4. PICK b : /\ Become(x, b)
                 /\ \/ b = [a EXCEPT !.at = "asleep"] /\ cachedNonce' = cachedNonce
                    \/ b = Result(a, "failed") /\ cachedNonce' \in {0, cachedNonce}
                    \/ /\ b = [a EXCEPT !.at = "flush", !.op = "auth", !.nonce = cachedNonce]
                       /\ cachedNonce \notin {0, -1} /\ cachedNonce' = 0
    BY <1>3 DEF GetNonce, Taken
  <1> HIDE DEF a
  <1>5. CASE b = [a EXCEPT !.at = "asleep"] /\ cachedNonce' = cachedNonce
    <2>1. Like(b, "asleep", a.cred, a.op, a.nonce, a.result) BY ONLY <1>2, <1>5, ChangeAt
    <2>2. Shape(b) /\ Sure(b, nonce) /\ Right(b) /\ b.at # "reply" /\ ~Holds(b)
      BY ONLY <1>1, <1>2, <2>1 DEF Like, Shape, Sure, Right, Holds
    <2> QED BY <1>1, <1>4, <1>5, <2>2, StepKeeps DEF a
  <1>6. CASE b = Result(a, "failed") /\ cachedNonce' \in {0, cachedNonce}
    <2>1. Like(b, "idle", a.cred, "", 0, "failed") BY ONLY <1>6, ResultIs
    <2>2. Shape(b) /\ Sure(b, nonce) /\ Right(b) /\ b.at # "reply" /\ ~Holds(b)
      BY ONLY <2>1 DEF Like, Shape, Sure, Right, Holds
    <2> QED BY <1>1, <1>4, <1>6, <2>2, StepKeeps DEF a
  <1>7. CASE /\ b = [a EXCEPT !.at = "flush", !.op = "auth", !.nonce = cachedNonce]
             /\ cachedNonce \notin {0, -1} /\ cachedNonce' = 0
    <2>1. Like(b, "flush", a.cred, "auth", cachedNonce, a.result) BY ONLY <1>2, <1>7, ChangeAtOpNonce
    <2>2. cachedNonce = nonce BY <1>3, <1>7
    <2>3. Shape(b) /\ Sure(b, nonce) /\ Right(b) /\ b.at # "reply"
      BY ONLY <1>2, <2>1, <2>2 DEF Like, Shape, Sure, Right
    <2>4. cachedNonce # 0 BY <1>7
    <2> QED BY <1>1, <1>4, <1>7, <2>3, <2>4, TakeKeeps DEF a
  <1> QED BY <1>4, <1>5, <1>6, <1>7

LEMMA FlushKeeps == ASSUME Inv, NEW x \in Actors, Flush(x) PROVE Inv'
  <1> DEFINE a == actor[x]  lops == [i \in DOMAIN logout |-> logout[i].source]
  <1>1. a.at = "flush" /\ UNCHANGED <<cachedNonce, replies, nonce, panicked>> BY DEF Flush, authServer
  <1>2. Shape(a) /\ Right(a) /\ IsActor(a) /\ Sure(a, nonce) BY DEF Inv, Shapes, Rights, Shape, Current
  <1>3. PICK b : b = [a EXCEPT !.at = "write", !.lops = lops] OBVIOUS
  <1>4. Become(x, b) BY <1>3 DEF Flush
  <1> HIDE DEF a, lops
  <1>5. Like(b, "write", a.cred, a.op, a.nonce, a.result) BY ONLY <1>2, <1>3, ChangeAtLops
  <1>6. Shape(b) /\ Sure(b, nonce) /\ Right(b) /\ b.at # "reply" /\ (Holds(b) => Holds(a))
    BY ONLY <1>1, <1>2, <1>5 DEF Like, Shape, Sure, Right, Holds
  <1> QED BY <1>1, <1>4, <1>6, StepKeeps DEF a

LEMMA WriteKeeps == ASSUME Inv, NEW x \in Actors, Write(x) PROVE Inv'
  <1> DEFINE a == actor[x]
  <1>1. a.at = "write" /\ UNCHANGED <<cachedNonce, panicked>> BY DEF Write
  <1>2. Shape(a) /\ Right(a) /\ IsActor(a) /\ Sure(a, nonce) BY DEF Inv, Shapes, Rights, Shape, Current
  <1>3. a.op \in {"query", "getnonce", "auth", "scram"} BY <1>1, <1>2 DEF Shape
  <1>4. PICK b : /\ Become(x, b)
                 /\ \/ /\ b = Result(a, IF a.result # "none" THEN a.result ELSE "failed")
                       /\ UNCHANGED <<replies, nonce>>
                    \/ /\ a.op \in {"query", "getnonce"} /\ b = Result(a, a.result)
                       /\ replies' = replies \o ReplyTo(x, a)
                       /\ nonce' = IF a.op = "getnonce" THEN nonce + 1 ELSE nonce
                    \/ /\ a.op \in {"auth", "scram"} /\ b = [a EXCEPT !.at = "reply", !.lops = <<>>]
                       /\ replies' = replies \o ReplyTo(x, a) /\ nonce' = nonce
    BY <1>3 DEF Write, authServer
  <1> HIDE DEF a
  <1>5. CASE /\ b = Result(a, IF a.result # "none" THEN a.result ELSE "failed")
             /\ UNCHANGED <<replies, nonce>>
    <2>1. Like(b, "idle", a.cred, "", 0, IF a.result # "none" THEN a.result ELSE "failed") BY ONLY <1>5, ResultIs
    <2>2. Shape(b) /\ Sure(b, nonce) /\ Right(b) /\ b.at # "reply" /\ ~Holds(b)
      BY ONLY <1>2, <2>1 DEF Like, Shape, Sure, Right, Holds
    <2> QED BY <1>1, <1>4, <1>5, <2>2, StepKeeps DEF a
  <1>6. CASE /\ a.op \in {"query", "getnonce"} /\ b = Result(a, a.result)
             /\ replies' = replies \o ReplyTo(x, a)
             /\ nonce' = IF a.op = "getnonce" THEN nonce + 1 ELSE nonce
    <2>1. Like(b, "idle", a.cred, "", 0, a.result) BY ONLY <1>6, ResultIs
    <2>2. Shape(b) /\ Sure(b, nonce) /\ Right(b) /\ b.at # "reply" /\ ~Holds(b) /\ b.op = ""
      BY ONLY <1>2, <2>1 DEF Like, Shape, Sure, Right, Holds
    <2>3. CASE a.op = "query"
      <3>1. replies' = replies \o <<>> /\ nonce' = nonce BY <1>6, <2>3 DEF ReplyTo
      <3>2. replies \in Seq(Replies) BY DEF Inv, Told
      <3>3. replies' = replies BY ONLY <3>1, <3>2, ConcatEmptySeq
      <3> QED BY <1>1, <1>4, <2>2, <3>1, <3>3, StepKeeps DEF a
    <2>4. CASE a.op = "getnonce"
      <3>1. replies' = replies \o <<NonceReply(nonce + 1)>> /\ nonce' = nonce + 1 BY <1>6, <2>4 DEF ReplyTo
      <3>2. Holds(a) BY <2>4 DEF Holds
      <3> QED BY <1>1, <1>4, <2>2, <3>1, <3>2, RenewKeeps DEF a
    <2> QED BY <1>6, <2>3, <2>4
  <1>7. CASE /\ a.op \in {"auth", "scram"} /\ b = [a EXCEPT !.at = "reply", !.lops = <<>>]
             /\ replies' = replies \o ReplyTo(x, a) /\ nonce' = nonce
    <2>1. Like(b, "reply", a.cred, a.op, a.nonce, a.result) BY ONLY <1>2, <1>7, ChangeAtLops
    <2>2. Shape(b) /\ Right(b) /\ b.at = "reply" /\ (Holds(b) => Holds(a)) /\ b.op = a.op /\ b.cred = a.cred
      BY ONLY <1>2, <1>7, <2>1 DEF Like, Shape, Sure, Right, Holds
    <2>3. \E r \in Replies : /\ r.kind = b.op /\ r.actor = x /\ r.ok \in {0, 1} /\ (r.ok = 0 => ~b.cred.good)
                             /\ replies' = replies \o <<r>>
      <3>1. CASE a.op = "auth"
        <4> DEFINE r == [kind |-> "auth", actor |-> x, done |-> TRUE, ok |-> IF Authenticates(a) THEN 1 ELSE 0]
        <4>1. replies' = replies \o <<r>> BY <1>7, <3>1 DEF ReplyTo
        <4>2. ~Authenticates(a) => ~a.cred.good BY <1>1, <1>2, <3>1 DEF Authenticates, Sure
        <4>3. r \in Replies /\ r.kind = "auth" /\ r.actor = x /\ r.ok \in {0, 1} /\ (r.ok = 0 => ~Authenticates(a))
          BY DEF Replies
        <4> QED BY <2>2, <3>1, <4>1, <4>2, <4>3
      <3>2. CASE a.op = "scram"
        <4> DEFINE no == a.step = 2 /\ ~a.cred.good
                   r == [kind |-> "scram", actor |-> x, done |-> a.step = 3, ok |-> IF no THEN 0 ELSE 1]
        <4>1. replies' = replies \o <<r>> BY <1>7, <3>2 DEF ReplyTo
        <4>2. no => ~a.cred.good OBVIOUS
        <4> HIDE DEF no
        <4>3. r \in Replies /\ r.kind = "scram" /\ r.actor = x /\ r.ok \in {0, 1} /\ (r.ok = 0 => no)
          BY DEF Replies
        <4> QED BY <2>2, <3>2, <4>1, <4>2, <4>3
      <3> QED BY <1>7, <3>1, <3>2
    <2>4. PICK r \in Replies : /\ r.kind = b.op /\ r.actor = x /\ r.ok \in {0, 1} /\ (r.ok = 0 => ~b.cred.good)
                               /\ replies' = replies \o <<r>>
      BY <2>3
    <2> QED BY <1>1, <1>4, <1>7, <2>2, <2>4, SayKeeps DEF a
  <1> QED BY <1>4, <1>5, <1>6, <1>7

LEMMA ReadAuthKeeps == Inv /\ ReadAuth => Inv'
  <1> SUFFICES ASSUME Inv, ReadAuth PROVE Inv' OBVIOUS
  <1> DEFINE r == Head(replies)  x == r.actor  a == actor[x]  res == IF r.ok = 1 THEN "ok" ELSE "refused"
  <1>1. /\ replies # <<>> /\ r.kind = "auth" /\ replies' = Tail(replies)
        /\ UNCHANGED <<cachedNonce, nonce, panicked>>
    BY DEF ReadAuth, authServer
  <1>2. PICK b : b = [a EXCEPT !.at = "flush", !.op = "getnonce", !.result = res] OBVIOUS
  <1>3. Become(x, b) BY <1>2 DEF ReadAuth, Renews
  <1>4. replies \in Seq(Replies) /\ \A i \in DOMAIN replies : Finds(replies[i]) BY DEF Inv, Told
  <1>5. 1 \in DOMAIN replies /\ r = replies[1] BY ONLY <1>1, <1>4, TailOf
  <1>6. x \in Actors /\ a.at = "reply" /\ a.op = "auth" /\ r.ok \in {0, 1} /\ (r.ok = 0 => ~a.cred.good)
    BY <1>1, <1>4, <1>5 DEF Finds
  <1>7. Shape(a) /\ IsActor(a) BY <1>6 DEF Inv, Shapes, Shape
  <1>8. res = "refused" => ~a.cred.good BY <1>6
  <1> HIDE DEF a, res
  <1>9. Like(b, "flush", a.cred, "getnonce", a.nonce, res) BY ONLY <1>2, <1>7, ChangeAtOpResult
  <1>10. Shape(b) /\ Right(b) /\ b.at # "reply" /\ b.op # "auth" /\ Holds(a)
    BY ONLY <1>6, <1>8, <1>9 DEF Like, Shape, Right, Holds
  <1> QED BY <1>1, <1>3, <1>10, TellKeeps DEF a

LEMMA ReadScramKeeps == Inv /\ ReadScram => Inv'
  <1> SUFFICES ASSUME Inv, ReadScram PROVE Inv' OBVIOUS
  <1> DEFINE r == Head(replies)  x == r.actor  a == actor[x]
             step == IF a.step < 4 THEN a.step + 1 ELSE 4
  <1>1. /\ replies # <<>> /\ r.kind = "scram" /\ replies' = Tail(replies)
        /\ UNCHANGED <<cachedNonce, nonce, panicked>>
    BY DEF ReadScram, authServer
  <1>2. PICK b : /\ Become(x, b)
                 /\ \/ b = Result(a, "refused") /\ r.ok = 0
                    \/ b = Result(a, "ok")
                    \/ b = [a EXCEPT !.at = "flush", !.step = step, !.done = StepDone(step)]
    BY DEF ReadScram
  <1>4. replies \in Seq(Replies) /\ \A i \in DOMAIN replies : Finds(replies[i]) BY DEF Inv, Told
  <1>5. 1 \in DOMAIN replies /\ r = replies[1] BY ONLY <1>1, <1>4, TailOf
  <1>6. x \in Actors /\ a.at = "reply" /\ a.op = "scram" /\ (r.ok = 0 => ~a.cred.good)
    BY <1>1, <1>4, <1>5 DEF Finds
  <1>7. Shape(a) /\ IsActor(a) /\ Right(a) BY <1>6 DEF Inv, Shapes, Shape, Rights
  <1> HIDE DEF a, step
  <1>8. \/ Like(b, "idle", a.cred, "", 0, "refused") /\ r.ok = 0
        \/ Like(b, "idle", a.cred, "", 0, "ok")
        \/ Like(b, "flush", a.cred, a.op, a.nonce, a.result)
    BY ONLY <1>2, <1>7, ResultIs, ChangeAtStepDone
  <1>9. Shape(b) /\ Right(b) /\ b.at # "reply" /\ b.op # "auth" /\ ~Holds(b)
    BY ONLY <1>6, <1>7, <1>8 DEF Like, Shape, Right, Holds
  <1> QED BY <1>1, <1>2, <1>9, TellKeeps DEF a

(***************************************************************************)
(* The theorems                                                            *)
(***************************************************************************)

LEMMA Initially == AuthInit => Inv
  <1> SUFFICES ASSUME AuthInit PROVE Inv OBVIOUS
  <1> DEFINE r == NonceReply(1)
  <1>1. r \in Replies /\ r.kind = "nonce" /\ r.ok = 1 BY DEF NonceReply, Replies
  <1>2. replies = <<r>> /\ cachedNonce = 0 /\ nonce = 1 /\ ~panicked /\ actor = [x \in Actors |-> IdleActor]
    BY DEF AuthInit
  <1> HIDE DEF r
  <1>3. replies \in Seq(Replies) /\ DOMAIN replies = {1} /\ replies[1] = r BY <1>1, <1>2
  <1>4. DOMAIN actor = Actors /\ \A x \in Actors : Like(actor[x], "idle", Nobody, "", 0, "none")
    BY <1>2, IdleIs
  <1>5. Shapes BY <1>4 DEF Shapes, Shape, Like
  <1>6. Told BY <1>1, <1>3 DEF Told, Finds
  <1>7. \A x \in Actors : ~Holds(actor[x]) BY <1>4 DEF Holds, Like
  <1>8. OneNonce BY <1>2, <1>3, <1>7 DEF OneNonce
  <1>9. Current
    <2>1. \A x \in Actors : Sure(actor[x], nonce) BY <1>7 DEF Holds, Sure
    <2>2. \A i \in DOMAIN replies : replies[i].ok = nonce BY <1>1, <1>2, <1>3
    <2> QED BY <1>2, <2>1, <2>2 DEF Current
  <1>10. Rights BY <1>4 DEF Rights, Right, Like
  <1> QED BY <1>2, <1>5, <1>6, <1>8, <1>9, <1>10 DEF Inv

LEMMA NothingKeeps == Inv /\ UNCHANGED <<cachedNonce, actor, replies, nonce, panicked>> => Inv'
  <1> SUFFICES ASSUME Inv, UNCHANGED <<cachedNonce, actor, replies, nonce, panicked>> PROVE Inv' OBVIOUS
  <1>1. Shapes' /\ Told' /\ Rights' BY DEF Inv, Shapes, Told, Finds, Rights
  <1>2. OneNonce' /\ Current' BY DEF Inv, OneNonce, Current, Carries
  <1> QED BY <1>1, <1>2 DEF Inv

LEMMA EveryStep == Inv /\ [AuthNext]_authVars => Inv'
  <1> SUFFICES ASSUME Inv, [AuthNext]_authVars PROVE Inv' OBVIOUS
  <1>1. ASSUME NEW x \in Actors, Login(x) PROVE Inv' BY <1>1, LoginKeeps
  <1>2. ASSUME NEW x \in Actors, Logout(x) PROVE Inv' BY <1>2, NothingKeeps DEF Logout, authServer
  <1>3. ASSUME NEW x \in Actors, LogoutAll(x) PROVE Inv' BY <1>3, NothingKeeps DEF LogoutAll, authServer
  <1>4. ASSUME NEW x \in Actors, AuthQuery(x) PROVE Inv' BY <1>4, QueryKeeps
  <1>5. ASSUME NEW x \in Actors, GetNonce(x) PROVE Inv' BY <1>5, GetNonceKeeps
  <1>6. ASSUME NEW x \in Actors, Flush(x) PROVE Inv' BY <1>6, FlushKeeps
  <1>7. ASSUME NEW x \in Actors, Write(x) PROVE Inv' BY <1>7, WriteKeeps
  <1>8. CASE Read BY <1>8, ReadNonceKeeps, ReadAuthKeeps, ReadScramKeeps DEF Read
  <1>9. CASE AuthKill BY <1>9, KillKeeps
  <1>10. CASE UNCHANGED authVars BY <1>10, NothingKeeps DEF authVars, authServer
  <1> QED BY <1>1, <1>2, <1>3, <1>4, <1>5, <1>6, <1>7, <1>8, <1>9, <1>10 DEF AuthNext, Work

LEMMA Always == AuthSpec => []Inv
  BY Initially, EveryStep, PTL DEF AuthSpec

\* One place at most holds a nonce : that is what NonceOnce counts.
LEMMA NonceOnceFollows == Inv => NonceOnce
  <1> SUFFICES ASSUME Inv PROVE NonceOnce OBVIOUS
  <1> DEFINE N == {i \in DOMAIN replies : replies[i].kind = "nonce"}
             G == {x \in Actors : actor[x].op = "getnonce" /\ actor[x].at \in {"flush", "write"}}
             A == {x \in Actors : actor[x].op = "auth"}
  <1>1. \A i \in N : i \in DOMAIN replies /\ Carries(i) BY DEF Carries
  <1>2. \A x \in G \cup A : x \in Actors /\ Holds(actor[x]) BY DEF Holds
  <1>3. G \cap A = {} OBVIOUS
  <1> HIDE DEF N, G, A
  <1>4. \A i, j \in N : i = j BY <1>1 DEF Inv, OneNonce
  <1>5. \A x, y \in G \cup A : x = y BY <1>2 DEF Inv, OneNonce
  <1>6. /\ cachedNonce # 0 => N = {} /\ G = {} /\ A = {}
        /\ N # {} => G = {} /\ A = {}
        /\ G = {} \/ A = {}
    BY <1>1, <1>2, <1>3, <1>5 DEF Inv, OneNonce
  <1>7. /\ Cardinality(N) = IF N = {} THEN 0 ELSE 1
        /\ Cardinality(G) = IF G = {} THEN 0 ELSE 1
        /\ Cardinality(A) = IF A = {} THEN 0 ELSE 1
    BY <1>4, <1>5, AtMostOne
  <1>8. Cardinality(N) + Cardinality(G) + Cardinality(A) + (IF cachedNonce # 0 THEN 1 ELSE 0) <= 1
    BY ONLY <1>6, <1>7
  <1> QED BY <1>8 DEF Inv, NonceOnce, N, G, A

\* There is never more than one nonce of a socket (cachedNonce, socket.go), at
\* hand or on its way, whatever the goroutines that log in over it do, and the
\* callback of resetNonce never finds one at hand already.  Who logs in with the
\* right credentials is not refused (loginClassic, loginSASL), however many log in
\* over the socket and whenever it dies: the nonce in the key is the one that the
\* server expects.
THEOREM NoncesAreSingle == AuthSpec => []NoncesAgree
  <1>1. Inv => NoncesAgree
    BY NonceOnceFollows DEF Inv, Rights, Right, RightIsAccepted, NoncesAgree
  <1> QED BY <1>1, Always, PTL
=============================================================================
