------------------------------- MODULE MgoAuth -------------------------------
(***************************************************************************)
(* Logging in and out over a socket of the mgo driver that sessions share. *)
(* The socket remembers the credentials it is logged in with (creds) and   *)
(* those to log out of before the next operation (logout), and keeps one   *)
(* nonce at hand for the classic login; SCRAM holds its conversation in    *)
(* steps.  What is written the server does in that order; replies are what *)
(* it has answered and readLoop has not seen yet.                          *)
(***************************************************************************)
EXTENDS Integers, Sequences, FiniteSets, SequencesExt

CONSTANTS
    Actors,     \* goroutines of sessions that use the socket
    Creds,      \* credentials [source, user, mech : classic or scram, good]
    Mongos,     \* the server is a mongos that knows no getnonce
    Does,       \* what actors do: login, logout, logoutAll, query
    MaxCalls,   \* bound on the calls of the actors
    Kills,      \* whether the socket may die
    Nobody

Sources == {c.source : c \in Creds}
CredsAssumption == \A c \in Creds : c.mech \in {"classic", "scram"} /\ c.good \in BOOLEAN
BoundAssumption == MaxCalls \in Nat /\ Kills \in BOOLEAN /\ Mongos \in BOOLEAN

VARIABLES
    creds, logout,  \* sequences of credentials
    cachedNonce,    \* 0: none, -1: "mongos", or the number of the nonce
    killed,
    actor,          \* [at, cred, op, lops, nonce, step, done, result]
    replies,        \* [kind, actor, ok, done]
    user, nonce,    \* the server: who is logged in per source, the nonce it expects
    panicked, calls

authServer == <<user, nonce>>
authVars == <<creds, logout, cachedNonce, killed, actor, replies, authServer, panicked, calls>>

IdleActor == [at |-> "idle", cred |-> Nobody, op |-> "", lops |-> <<>>, nonce |-> 0,
         step |-> 0, done |-> FALSE, result |-> "none"]
NonceReply(n) == [kind |-> "nonce", actor |-> Nobody, ok |-> n, done |-> FALSE]

\* newSocket asks for a nonce at once.
AuthInit ==
    /\ creds = <<>> /\ logout = <<>> /\ cachedNonce = 0 /\ killed = FALSE
    /\ actor = [x \in Actors |-> IdleActor]
    /\ replies = <<NonceReply(1)>>
    /\ user = [s \in Sources |-> Nobody] /\ nonce = 1
    /\ panicked = FALSE /\ calls = 0

Become(x, a) == actor' = [actor EXCEPT ![x] = a]
Result(a, res) == [IdleActor EXCEPT !.cred = a.cred, !.result = res]

\* Without the one credential of source, or the given one
dropAuth(cs, source) ==
    LET I == {i \in DOMAIN cs : cs[i].source = source} IN
    IF I = {} THEN cs ELSE RemoveAt(cs, CHOOSE i \in I : \A j \in I : i <= j)
Named(cs, source) == SelectSeq(cs, LAMBDA c : c.source = source)

\* The socket is logged in with c now. (_Kept: the one before stays)
LoggedIn_Kept(c) == Append(creds, c)
LoggedIn(c) == Append(dropAuth(creds, c.source), c)

(***************************************************************************)
(* What sessions call                                                      *)
(***************************************************************************)

Login(x) ==
    /\ "login" \in Does /\ actor[x].at = "idle" /\ calls < MaxCalls
    /\ \E c \in Creds :
          \/ /\ c \in ToSet(creds)
             /\ Become(x, [IdleActor EXCEPT !.cred = c, !.result = "ok"])
             /\ UNCHANGED <<creds, logout>>
          \/ /\ c \notin ToSet(creds) /\ c \in ToSet(logout)
             /\ logout' = RemoveAt(logout, CHOOSE i \in DOMAIN logout : logout[i] = c)
             /\ creds' = Append(creds, c)
             /\ Become(x, [IdleActor EXCEPT !.cred = c, !.result = "ok"])
          \/ /\ c \notin ToSet(creds) \cup ToSet(logout)
             /\ Become(x, IF c.mech = "classic" THEN [IdleActor EXCEPT !.at = "nonce", !.cred = c]
                          ELSE [IdleActor EXCEPT !.at = "flush", !.cred = c, !.op = "scram",
                                            !.step = 1, !.done = TRUE])
             /\ UNCHANGED <<creds, logout>>
    /\ calls' = calls + 1
    /\ UNCHANGED <<cachedNonce, killed, replies, authServer, panicked>>

Logout(x) ==
    /\ "logout" \in Does /\ actor[x].at = "idle" /\ calls < MaxCalls
    /\ \E s \in Sources :
          /\ creds' = dropAuth(creds, s)
          /\ logout' = IF Named(creds, s) = <<>> THEN logout ELSE Append(logout, Head(Named(creds, s)))
    /\ calls' = calls + 1
    /\ UNCHANGED <<cachedNonce, killed, actor, replies, authServer, panicked>>

\* When the last reference to the socket is released
LogoutAll(x) ==
    /\ "logoutAll" \in Does /\ actor[x].at = "idle" /\ calls < MaxCalls /\ creds # <<>>
    /\ \A y \in Actors : actor[y].at = "idle"
    /\ logout' = logout \o creds /\ creds' = <<>>
    /\ calls' = calls + 1
    /\ UNCHANGED <<cachedNonce, killed, actor, replies, authServer, panicked>>

AuthQuery(x) ==
    /\ "query" \in Does /\ actor[x].at = "idle" /\ calls < MaxCalls
    /\ Become(x, [IdleActor EXCEPT !.at = "flush", !.op = "query"])
    /\ calls' = calls + 1
    /\ UNCHANGED <<creds, logout, cachedNonce, killed, replies, authServer, panicked>>

(***************************************************************************)
(* The nonce                                                               *)
(***************************************************************************)

\* The nonce is used up by whoever gets it. (_Kept: it is left for others)
Taken_Kept == cachedNonce
Taken == 0

\* getNonce: the sleeper looks again when it is woken.
GetNonce(x) ==
    /\ actor[x].at = "nonce"
    /\ \/ /\ cachedNonce = 0 /\ ~killed
          /\ Become(x, [actor[x] EXCEPT !.at = "asleep"])
          /\ UNCHANGED cachedNonce
       \/ /\ cachedNonce = -1
          /\ Become(x, Result(actor[x], "failed"))
          /\ UNCHANGED cachedNonce
       \/ /\ cachedNonce # -1 /\ (cachedNonce > 0 \/ killed)
          /\ Become(x, IF killed THEN Result(actor[x], "failed")
                       ELSE [actor[x] EXCEPT !.at = "flush", !.op = "auth", !.nonce = cachedNonce])
          /\ cachedNonce' = Taken
    /\ UNCHANGED <<creds, logout, killed, replies, authServer, panicked, calls>>

Asleep == {x \in Actors : actor[x].at = "asleep"}
\* Signal wakes one.
Woken(x) == [actor EXCEPT ![x].at = "nonce"]

ReadNonce ==
    /\ ~killed /\ replies # <<>> /\ Head(replies).kind = "nonce"
    /\ IF cachedNonce # 0 THEN panicked' = TRUE /\ UNCHANGED <<cachedNonce, actor>>
       ELSE /\ cachedNonce' = IF Mongos THEN -1 ELSE Head(replies).ok
            /\ IF Asleep = {} THEN UNCHANGED actor ELSE \E x \in Asleep : actor' = Woken(x)
            /\ UNCHANGED panicked
    /\ replies' = Tail(replies)
    /\ UNCHANGED <<creds, logout, killed, authServer, calls>>

(***************************************************************************)
(* Query of the socket: the logouts are taken, and then written in front   *)
(* of the operation, with the lock released in between.                    *)
(***************************************************************************)

Flush(x) ==
    /\ actor[x].at = "flush"
    /\ Become(x, [actor[x] EXCEPT !.at = "write", !.lops = [i \in DOMAIN logout |-> logout[i].source]])
    /\ logout' = <<>>
    /\ UNCHANGED <<creds, cachedNonce, killed, replies, authServer, panicked, calls>>

\* The server's side of an operation: what it changes, and its reply
Afterwards(a) == [s \in Sources |-> IF s \in ToSet(a.lops) THEN Nobody ELSE user[s]]
Authenticates(a) == a.cred.good /\ (a.op = "auth" => a.nonce = nonce)
ReplyTo(x, a) ==
    CASE a.op = "query"    -> <<>>
      [] a.op = "getnonce" -> <<NonceReply(nonce + 1)>>
      [] a.op = "auth"  -> <<[kind |-> "auth", actor |-> x, done |-> TRUE,
                              ok |-> IF Authenticates(a) THEN 1 ELSE 0]>>
      [] a.op = "scram" -> <<[kind |-> "scram", actor |-> x, done |-> a.step = 3,
                              ok |-> IF a.step = 2 /\ ~a.cred.good THEN 0 ELSE 1]>>

\* Nobody waits for the reply of a query or a new nonce.
Write(x) ==
    LET a == actor[x]
        in == a.op \in {"auth", "scram"} /\ Authenticates(a) /\ (a.op = "scram" => a.step = 3)
    IN  /\ a.at = "write"
        /\ \/ /\ killed
              /\ Become(x, Result(a, IF a.result # "none" THEN a.result ELSE "failed"))
              /\ UNCHANGED <<replies, authServer>>
           \/ /\ ~killed
              /\ user' = IF in THEN [Afterwards(a) EXCEPT ![a.cred.source] = a.cred.user] ELSE Afterwards(a)
              /\ nonce' = IF a.op = "getnonce" THEN nonce + 1 ELSE nonce
              /\ replies' = replies \o ReplyTo(x, a)
              /\ Become(x, IF a.op \in {"query", "getnonce"} THEN Result(a, a.result)
                           ELSE [a EXCEPT !.at = "reply", !.lops = <<>>])
        /\ UNCHANGED <<creds, logout, cachedNonce, killed, panicked, calls>>

(***************************************************************************)
(* Replies to a login                                                      *)
(***************************************************************************)

\* loginClassic asks for a new nonce when it returns, however that is.
Renews(r) == TRUE

ReadAuth ==
    /\ ~killed /\ replies # <<>> /\ Head(replies).kind = "auth"
    /\ LET r == Head(replies)  a == actor[r.actor]  res == IF r.ok = 1 THEN "ok" ELSE "refused" IN
       /\ creds' = IF r.ok = 1 THEN LoggedIn(a.cred) ELSE creds
       /\ Become(r.actor, IF Renews(r) THEN [a EXCEPT !.at = "flush", !.op = "getnonce", !.result = res]
                          ELSE Result(a, res))
    /\ replies' = Tail(replies)
    /\ UNCHANGED <<logout, cachedNonce, killed, authServer, panicked, calls>>

\* Client.Step of the SCRAM client returns false while more is expected, true
\* from its third step on, and false when it is called after that; what it
\* returns negated is "done" to loginSASL.
StepDone(step) == ~(step = 3)

\* The socket stays locked from the reply until the next payload is sent or
\* the credentials are noted.
ReadScram ==
    /\ ~killed /\ replies # <<>> /\ Head(replies).kind = "scram"
    /\ LET r == Head(replies)  a == actor[r.actor]  step == IF a.step < 4 THEN a.step + 1 ELSE 4 IN
       IF r.ok = 0
       THEN Become(r.actor, Result(a, "refused")) /\ UNCHANGED creds
       ELSE IF r.done /\ (a.done \/ StepDone(step))
       THEN Become(r.actor, Result(a, "ok")) /\ creds' = LoggedIn(a.cred)
       ELSE /\ Become(r.actor, [a EXCEPT !.at = "flush", !.step = step, !.done = StepDone(step)])
            /\ UNCHANGED creds
    /\ replies' = Tail(replies)
    /\ UNCHANGED <<logout, cachedNonce, killed, authServer, panicked, calls>>

\* The socket is killed: whoever waits is told.
AuthKill ==
    /\ Kills /\ ~killed
    /\ killed' = TRUE /\ replies' = <<>>
    /\ actor' = [x \in Actors |->
                    CASE actor[x].at = "asleep" -> [actor[x] EXCEPT !.at = "nonce"]
                      [] actor[x].at = "reply" -> Result(actor[x], "failed")
                      [] OTHER -> actor[x]]
    /\ UNCHANGED <<creds, logout, cachedNonce, authServer, panicked, calls>>

Work(x) == GetNonce(x) \/ Flush(x) \/ Write(x)
Read == ReadNonce \/ ReadAuth \/ ReadScram
AuthNext ==
    \/ \E x \in Actors : Login(x) \/ Logout(x) \/ LogoutAll(x) \/ AuthQuery(x) \/ Work(x)
    \/ Read \/ AuthKill

AuthSpec == AuthInit /\ [][AuthNext]_authVars

\* Goroutines go on, and readLoop reads what the server answers.
AuthFair == WF_authVars(Read) /\ \A x \in Actors : WF_authVars(Work(x))

(***************************************************************************)
(* Properties                                                              *)
(***************************************************************************)

Quiet == ~killed /\ replies = <<>> /\ \A x \in Actors : actor[x].at \in {"idle", "nonce", "asleep"}

\* What the socket believes is how the server has it: when nothing is under way,
\* each source is logged in as the credentials at hand say, or else as those do
\* that are yet to be logged out of.
AuthAgrees ==
    Quiet => \A s \in Sources :
        LET in == Named(creds, s)  out == Named(logout, s) IN
        /\ \A c \in ToSet(in) : user[s] = c.user
        /\ in = <<>> /\ out = <<>> => user[s] = Nobody
        /\ in = <<>> /\ out # <<>> => user[s] \in {c.user : c \in ToSet(out)}

\* There is never more than one nonce, at hand or asked for ...
NonceOnce ==
    /\ ~panicked
    /\ Cardinality({i \in DOMAIN replies : replies[i].kind = "nonce"})
         + Cardinality({x \in Actors : actor[x].op = "getnonce" /\ actor[x].at \in {"flush", "write"}})
         + Cardinality({x \in Actors : actor[x].op = "auth"})
         + (IF cachedNonce # 0 THEN 1 ELSE 0) <= 1

\* ... so that the right credentials are accepted, whoever else logs in meanwhile.
RightIsAccepted == \A x \in Actors : actor[x].result = "refused" => ~actor[x].cred.good

\* There is never more than one nonce, and the right credentials are accepted.
NoncesAgree == NonceOnce /\ RightIsAccepted

\* A login comes to its end, with a nonce or without one, the socket alive or not.
LoginEnds == \A x \in Actors : []<>(actor[x].at = "idle")
=============================================================================
