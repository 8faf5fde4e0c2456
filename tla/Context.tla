------------------------------ MODULE Context ------------------------------
(***************************************************************************)
(* What gorilla/context keeps of the requests that are being served, and   *)
(* how the router of gorilla/mux uses it (ServeHTTP).  Every function runs *)
(* under the package's lock, so it is one step.                            *)
(***************************************************************************)
EXTENDS Integers, FiniteSets

CONSTANTS
    Requests, Keys, Values,
    Ages,           \* what Purge is called with
    MaxTime,        \* bound on the clock
    Vars, Route,    \* the router's keys, two of Keys
    Nil

ContextAssumption ==
    /\ {Vars, Route} \subseteq Keys /\ Vars # Route
    /\ Ages \subseteq Nat /\ MaxTime \in Nat

VARIABLES
    keepContext,    \* the router's setting
    data, datat,    \* request -> key -> value; request -> since when
    at,             \* where each request is: "new", "matched", "handled", "gone"
    own,            \* what was set for a request and not taken away: request -> key -> value
    now,
    count,          \* the result of the last Purge: [removed, old], what it removed and how many were old
    got             \* the result of the last Get: [req, key, value, should]
contextVars == <<keepContext, data, datat, at, own, now, count, got>>

Empty == [k \in {} |-> Nil]
NoKeys == [k \in Keys |-> Nil]
Init ==
    /\ keepContext \in BOOLEAN /\ data = Empty /\ datat = Empty /\ now = 0 /\ got = Nil
    /\ at = [r \in Requests |-> "new"] /\ own = [r \in Requests |-> NoKeys]
    /\ count = [removed |-> 0, old |-> 0]

Put(f, x, y) == [z \in DOMAIN f \cup {x} |-> IF z = x THEN y ELSE f[z]]
Without(f, s) == [z \in DOMAIN f \ s |-> f[z]]
Held(r) == IF r \in DOMAIN data THEN data[r] ELSE Empty

Set(r, k, v) ==
    /\ data' = Put(data, r, Put(Held(r), k, v))
    /\ datat' = IF r \in DOMAIN data THEN datat ELSE Put(datat, r, now)
    /\ own' = [own EXCEPT ![r][k] = v]
    /\ UNCHANGED <<now, count, got>>

Get(r, k) ==
    /\ got' = [req |-> r, key |-> k, value |-> IF k \in DOMAIN Held(r) THEN Held(r)[k] ELSE Nil, should |-> own[r][k]]
    /\ UNCHANGED <<data, datat, own, now, count>>

Delete(r, k) ==
    /\ data' = IF r \in DOMAIN data THEN Put(data, r, Without(data[r], {k})) ELSE data
    /\ own' = [own EXCEPT ![r][k] = Nil]
    /\ UNCHANGED <<datat, now, count, got>>

\* The values and the time.
Cleared(rs) == data' = Without(data, rs) /\ datat' = Without(datat, rs)
Clear(r) ==
    /\ Cleared({r}) /\ own' = [own EXCEPT ![r] = NoKeys]
    /\ UNCHANGED <<now, count, got>>

Old(age) == IF age = 0 THEN DOMAIN data ELSE {r \in DOMAIN data : datat[r] < now - age}
Purge(age) ==
    /\ Cleared(Old(age)) /\ count' = [removed |-> Cardinality(Old(age)), old |-> Cardinality({r \in DOMAIN data : age = 0 \/ now - datat[r] > age})]
    /\ own' = [r \in Requests |-> IF r \in Old(age) THEN NoKeys ELSE own[r]]
    /\ UNCHANGED <<at, now, got>>

(***************************************************************************)
(* The router                                                              *)
(***************************************************************************)

\* A request that matches a route gets its variables, then the route.
SetVars(r, v) == at[r] = "new" /\ Set(r, Vars, v) /\ at' = [at EXCEPT ![r] = "matched"]
SetRoute(r, v) == at[r] = "matched" /\ Set(r, Route, v) /\ at' = [at EXCEPT ![r] = "handled"]
NotFound(r) == at[r] = "new" /\ at' = [at EXCEPT ![r] = "handled"] /\ UNCHANGED <<data, datat, own, now, count, got>>

\* The handler may use the context, and clear it.  Whichever way it ends, the router
\* clears it too.  (_Matched: the router, of what it has set)
Leaves_Matched(r) == Delete(r, Vars)
Leaves(r) == Clear(r)

Handler(r) ==
    /\ at[r] = "handled" /\ at' = at
    /\ \/ \E k \in Keys : Get(r, k) \/ Delete(r, k)
       \/ \E k \in Keys \ {Vars, Route}, v \in Values : Set(r, k, v)
       \/ Clear(r)
Return(r) ==
    /\ at[r] = "handled" /\ at' = [at EXCEPT ![r] = "gone"]
    /\ IF keepContext THEN UNCHANGED <<data, datat, own, now, count, got>> ELSE Leaves(r)

Tick == now < MaxTime /\ now' = now + 1 /\ UNCHANGED <<data, datat, at, own, count, got>>

Next ==
    /\ keepContext' = keepContext
    /\ \/ \E r \in Requests : NotFound(r) \/ Handler(r) \/ Return(r)
       \/ \E r \in Requests, v \in Values : SetVars(r, v) \/ SetRoute(r, v)
       \/ \E age \in Ages : Purge(age)
       \/ Tick
Spec == Init /\ [][Next]_contextVars

(***************************************************************************)
(* Properties                                                              *)
(***************************************************************************)

\* A request finds what was set for it and not taken away, and nothing of another.
Holds == got # Nil => got.value = got.should

\* Nothing is kept of a request that was served, not the time either.
Clean ==
    /\ DOMAIN data = DOMAIN datat
    /\ ~keepContext => \A r \in DOMAIN datat : at[r] \in {"matched", "handled"}

\* Purge removes the requests that were stored for longer than the age, of which
\* it tells the number.
Purged == count.removed = count.old

\* A request finds what was set for it, and nothing is kept of it when it was served
\* or purged.
NoLeak == Holds /\ Clean /\ Purged
=============================================================================
