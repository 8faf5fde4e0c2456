------------------------------- MODULE MCWeb -------------------------------
(***************************************************************************)
(* What requests and documents go through: Go values and structs written   *)
(* as BSON and read, ids of documents, the routes of a router, and what is *)
(* kept for a request.  instance says which of the small instances below a *)
(* behaviour is of; the variables of the others stay as they are.          *)
(***************************************************************************)
EXTENDS Sequences, ObjectId, Context, TLC

CONSTANTS r1, r2, v1, v2, k1, varsKey, routeKey, p1, p2, g1, g2

VARIABLES
    instance,
    value, minSize, element, variable, result,
    type, did, struct, doc, given, old, new, bag,
    routers, routes, arrays, calls, served

(***************************************************************************)
(* BSON values, with numbers of three to five bits                         *)
(***************************************************************************)

Widths == [int8 |-> 3, int |-> 5, int64 |-> 5, uint8 |-> 3, uint |-> 5, uint64 |-> 5, int32 |-> 4, float64 |-> 3]
Go == INSTANCE BsonValue WITH Values <- {}, Variables <- {}, Bits <- Widths, IdLen <- 2, ArrayLen <- 2
Of(t, vs) == {[t |-> t, v |-> v] : v \in vs}
One(ns) == {<<n>> : n \in ns}
Zeros(ts) == {Go!Zero(t) : t \in ts}

Small8 == Of(<<"int8">>, One({-4, 0, 3}))
Numbers ==
    Small8 \cup Of(<<"int">>, One({-16, -8, 7, 15})) \cup Of(<<"int64">>, One({-16, -9, -1, 8, 15}))
    \cup Of(<<"uint8">>, One({0, 7})) \cup Of(<<"uint">>, One({7, 8, 31})) \cup Of(<<"uint64">>, One({7, 15, 16}))
    \cup Of(<<"float64">>, One({-40, -3, 0, 1, 2, 7, 40})) \cup Of(<<"bool">>, One({0, 1}))
    \cup Of(<<"jsonnumber">>, One({-3, 4})) \cup Of(<<"timestamp">>, One({9}))
Text == {<<>>, <<1>>, <<1, 2>>}
Texts ==
    Of(<<"string">>, Text) \cup Of(<<"symbol">>, {<<1>>}) \cup Of(<<"objectid">>, {<<1, 2>>, <<1>>})
    \cup Of(Go!BytesType, {Go!ToBytes(s) : s \in Text}) \cup Of(<<"arr", "uint8">>, {Go!ToBytes(<<1, 2>>)})
    \cup Of(<<"Binary">>, {<<5, 1>>, <<5>>})
Slices(t, vs) == Of(t, {<<>>, <<CHOOSE x \in vs : TRUE>>} \cup {<<x, y>> : x, y \in vs})
Others ==
    Of(<<"time">>, One({-3, -2, 0, 1, 4})) \cup Of(<<"other">>, {<<1>>}) \cup Of(<<"map">>, {<<>>, <<1>>})
    \cup Slices(<<"slice", "int8">>, Small8) \cup Of(<<"arr", "int8">>, {<<x, y>> : x, y \in Small8})
    \cup Slices(<<"slice", "string">>, Of(<<"string">>, Text))
Pointers ==
    Of(<<"ptr", "int8">>, {<<>>} \cup {<<x>> : x \in Small8})
    \cup Of(<<"ptr", "ptr", "int8">>, {<<x>> : x \in Of(<<"ptr", "int8">>, {<<y>> : y \in Small8})})
    \cup Of(<<"iface">>, {<<>>} \cup {<<x>> : x \in Of(<<"string">>, Text) \cup Of(<<"int64">>, One({7, 8})) \cup Of(<<"bool">>, One({1}))})
OfAnything ==
    LET any == Of(<<"iface">>, {<<>>} \cup {<<z>> : z \in Of(<<"string">>, {<<1>>}) \cup Of(<<"int64">>, One({8})) \cup Of(<<"map">>, {<<1>>})}) IN
    Of(<<"slice", "iface">>, {<<x, y>> : x, y \in any})
Odd == Of(<<"Binary">>, {<<0, 1>>, <<2, 1>>, <<2>>})
\* Values as they are written and read back, and those that come from elsewhere
Written == Numbers \cup Texts \cup Others \cup Pointers
Foreign == Written \cup Odd \cup OfAnything

Scalars == {<<s>> : s \in Go!Signed \cup Go!Unsigned \cup Go!Strings \cup {"float64", "bool", "time", "Binary", "map", "iface", "raw", "other", "setter"}}
Variable ==
    Zeros(Scalars \cup {<<"ptr", "iface">>, <<"ptr", "map">>}) \cup {[t |-> <<"ptr", "setter">>, v |-> <<Go!Zero(<<"setter">>)>>]}
    \cup Small8 \cup Of(<<"string">>, {<<3>>})
Deep ==
    Variable \cup Zeros({Go!BytesType, <<"slice", "int8">>, <<"slice", "string">>, <<"slice", "iface">>, <<"ptr", "int8">>, <<"ptr", "ptr", "int8">>, <<"ptr", "string">>})
    \cup Of(<<"ptr", "int8">>, {<<x>> : x \in Small8})
    \cup Of(<<"ptr", "ptr", "int8">>, {<<x>> : x \in Of(<<"ptr", "int8">>, {<<>>} \cup {<<y>> : y \in Small8})})

\* Values into a variable of their own type, ...
Same == INSTANCE BsonValue WITH
    Values <- Written, Variables <- {}, Bits <- Widths, IdLen <- 2, ArrayLen <- 2
\* ... into any variable; but no documents where the variable is deep
Plainly == INSTANCE BsonValue WITH
    Values <- Foreign, Variables <- Variable, Bits <- Widths, IdLen <- 2, ArrayLen <- 2
Deeper == INSTANCE BsonValue WITH
    Values <- (Written \cup Odd) \ Of(<<"map">>, {<<>>, <<1>>}), Variables <- Deep,
    Bits <- Widths, IdLen <- 2, ArrayLen <- 2
\* Numbers that fit, into wide numbers
Wide == INSTANCE BsonValue WITH
    Values <- {x \in Numbers : Go!IsNumber(x) /\ x.v[1] \in -16..15},
    Variables <- Zeros({<<"int">>, <<"int64">>, <<"float64">>}), Bits <- Widths, IdLen <- 2, ArrayLen <- 2

(***************************************************************************)
(* Structs of up to three fields, some of them inlined                     *)
(***************************************************************************)

Field(kind, key, of) == [kind |-> kind, key |-> key, of |-> of]
Key(k) == Field("field", k, <<>>)
Simple == {Key("a"), Key("b"), Field("omitempty", "a", <<>>), Field("private", "", <<>>), Field("map", "", <<>>)}
Inner == {Field("struct", "", <<Key("a")>>), Field("struct", "", <<Field("omitempty", "b", <<>>), Key("c")>>),
          Field("struct", "", <<Field("struct", "", <<Key("b")>>)>>)}
UpTo(fs, n) == UNION {[1..m -> fs] : m \in 1..n}
StructsWritten == INSTANCE BsonStruct WITH
    Types <- UpTo(Simple \cup Inner, 3), Keys <- {"a", "c"}, Vals <- {0, 1}, Unfit <- 9, MaxDoc <- 0, value <- struct
StructsRead == INSTANCE BsonStruct WITH
    Types <- UpTo(Simple \cup Inner, 2), Keys <- {"a", "c"}, Vals <- {0, 1}, Unfit <- 9, MaxDoc <- 2, value <- struct

(***************************************************************************)
(* Routers                                                                 *)
(***************************************************************************)

Template(s, slash) == [segs |-> s, slash |-> slash]
Asks(h, s, slash, q) == [host |-> h, segs |-> s, slash |-> slash, query |-> q, method |-> "GET"]
Lit == <<"lit", "a">>
Var(n) == <<"var", n>>
Kv(k, v) == [key |-> k, val |-> v]
\* Routes side by side with slashes and methods, ...
Side == INSTANCE Mux WITH
    Paths <- {Template(<<Lit>>, FALSE), Template(<<Var("x")>>, TRUE), Template(<<Var("x"), Lit>>, FALSE)},
    Hosts <- {}, Queries <- {}, Methods <- {"GET", "POST"}, Strict <- TRUE,
    Requests <- {Asks(h, s, slash, <<>>) : h \in {"h"}, slash \in BOOLEAN,
                     s \in {<<"a">>, <<"b">>, <<"ab">>, <<"b", "a">>, <<"a", "b">>}},
    Extends <- {<<"a", "ab">>}, Ends <- {}, SubLast <- TRUE, Unique <- TRUE, None <- Nil,
    MaxRoutes <- 2, MaxCalls <- 6
\* ... in subrouters under hosts and prefixes, ...
Nested == INSTANCE Mux WITH
    Paths <- {Template(<<Lit>>, FALSE), Template(<<Var("y")>>, FALSE)},
    Hosts <- {<<"lit", "h">>}, Queries <- {}, Methods <- {}, Strict <- FALSE,
    Requests <- {Asks(h, s, FALSE, <<>>) : h \in {"h", "g"}, s \in {<<"a">>, <<"ab">>, <<"a", "b">>}},
    Extends <- {<<"a", "ab">>}, Ends <- {}, SubLast <- TRUE, Unique <- TRUE, None <- Nil,
    MaxRoutes <- 3, MaxCalls <- 6
\* ... and with queries.
Queried == INSTANCE Mux WITH
    Paths <- {Template(<<Lit>>, FALSE), Template(<<Var("x")>>, FALSE)},
    Hosts <- {}, Queries <- {<<Kv("u", Var("u"))>>, <<Kv("v", Lit)>>}, Methods <- {}, Strict <- FALSE,
    Requests <- {Asks("h", <<"a">>, FALSE, q) : q \in {<<Kv("u", "1"), Kv("v", "a")>>, <<Kv("v", "ab")>>, <<Kv("u", "1")>>}},
    Extends <- {<<"a", "ab">>}, Ends <- {}, SubLast <- TRUE, Unique <- TRUE, None <- Nil,
    MaxRoutes <- 3, MaxCalls <- 6

(***************************************************************************)
(* What is kept for two requests, cleared when they are served or, with    *)
(* fewer values, purged                                                    *)
(***************************************************************************)

Purging == INSTANCE Context WITH Keys <- {varsKey, routeKey}, Values <- {v1}, Ages <- {0, 1, 2}, MaxTime <- 3

ASSUME InstancesAssumption ==
    /\ StructsWritten!BsonStructAssumption /\ StructsRead!BsonStructAssumption
    /\ Go!BsonValueAssumption /\ Side!MuxAssumption /\ Nested!MuxAssumption /\ Queried!MuxAssumption
    /\ ObjectIdAssumption /\ ContextAssumption /\ Purging!ContextAssumption

valueVars == <<value, minSize, element, variable, result>>
structVars == <<type, did, struct, doc, given, old, new, bag>>
muxVars == <<routers, routes, arrays, calls, served>>
NoValue == value = Nil /\ minSize = Nil /\ element = Nil /\ variable = Nil /\ result = Nil
NoStruct ==
    /\ type = Nil /\ did = Nil /\ struct = Nil /\ doc = Nil /\ given = Nil /\ old = Nil
    /\ new = Nil /\ bag = Nil
NoId == IdInit /\ pid[p1] = 1
NoMux == routers = Nil /\ routes = Nil /\ arrays = Nil /\ calls = Nil /\ served = Nil
NoContext == Init /\ ~keepContext

AnyInit ==
    \/ /\ \/ instance = "same" /\ Same!Init
          \/ instance = "plainly" /\ Plainly!Init
          \/ instance = "deeper" /\ Deeper!Init
          \/ instance = "wide" /\ Wide!Init
       /\ NoStruct /\ NoId /\ NoMux /\ NoContext
    \/ /\ \/ instance = "written" /\ StructsWritten!Init
          \/ instance = "read" /\ StructsRead!Init
       /\ NoValue /\ NoId /\ NoMux /\ NoContext
    \/ instance = "ids" /\ IdInit /\ NoValue /\ NoStruct /\ NoMux /\ NoContext
    \/ /\ \/ instance = "side" /\ Side!Init
          \/ instance = "nested" /\ Nested!Init
          \/ instance = "queried" /\ Queried!Init
       /\ NoValue /\ NoStruct /\ NoId /\ NoContext
    \/ /\ \/ instance = "kept" /\ Init /\ ~keepContext
          \/ instance = "purging" /\ Purging!Init /\ keepContext
       /\ NoValue /\ NoStruct /\ NoId /\ NoMux

AnyNext ==
    \/ instance = "same" /\ Same!Next /\ UNCHANGED <<instance, structVars, idVars, muxVars, contextVars>>
    \/ instance = "plainly" /\ Plainly!Next /\ UNCHANGED <<instance, structVars, idVars, muxVars, contextVars>>
    \/ instance = "deeper" /\ Deeper!Next /\ UNCHANGED <<instance, structVars, idVars, muxVars, contextVars>>
    \/ instance = "wide" /\ Wide!Next /\ UNCHANGED <<instance, structVars, idVars, muxVars, contextVars>>
    \/ instance = "written" /\ StructsWritten!Next /\ UNCHANGED <<instance, valueVars, idVars, muxVars, contextVars>>
    \/ instance = "read" /\ StructsRead!Next /\ UNCHANGED <<instance, valueVars, idVars, muxVars, contextVars>>
    \/ instance = "ids" /\ IdNext /\ UNCHANGED <<instance, valueVars, structVars, muxVars, contextVars>>
    \/ instance = "side" /\ Side!Next /\ UNCHANGED <<instance, valueVars, structVars, idVars, contextVars>>
    \/ instance = "nested" /\ Nested!Next /\ UNCHANGED <<instance, valueVars, structVars, idVars, contextVars>>
    \/ instance = "queried" /\ Queried!Next /\ UNCHANGED <<instance, valueVars, structVars, idVars, contextVars>>
    \/ instance = "kept" /\ Next /\ UNCHANGED <<instance, valueVars, structVars, idVars, muxVars>>
    \/ instance = "purging" /\ Purging!Next /\ UNCHANGED <<instance, valueVars, structVars, idVars, muxVars>>

AnySpec == AnyInit /\ [][AnyNext]_<<instance, valueVars, structVars, idVars, muxVars, contextVars>>

\* A value comes back as it was written; one that does not fit leaves the variable as
\* it was and the decoder behind the element; a number keeps its integer part
\* in a type that holds it.
ValuesKept ==
    /\ instance = "same" => Same!RoundTrip
    /\ instance = "plainly" => Plainly!Unchanged /\ Plainly!Passed
    /\ instance = "deeper" => Deeper!Unchanged /\ Deeper!NeverFails /\ Deeper!Omitted /\ Deeper!ZeroSet
    /\ instance = "wide" => Wide!IntegerPart

\* A struct comes back as it was written, each key once and inlined structs as part of
\* the outer one; a struct or a map that was read into holds what the document says last
\* under each key, and nothing of what it held before.
StructsKept ==
    /\ instance = "written" => StructsWritten!RoundTrip /\ StructsWritten!OnceEach /\ StructsWritten!AsIfPart
    /\ instance = "read" => StructsRead!LastWins /\ StructsRead!AsIfPart

\* The first route that matches serves a request, by the innermost handler, and a
\* redirection for a slash leads to a path that is served; the handler gets all
\* variables of the routes that serve the request, and no other request's; the path
\* can be built from them again.
Routed ==
    /\ instance = "side" => Side!FirstWins /\ Side!RedirectEnds /\ Side!AllVars /\ Side!RoundTrip
    /\ instance = "nested" => Nested!FirstWins /\ Nested!AllVars /\ Nested!RoundTrip
    /\ instance = "queried" => Queried!FirstWins /\ Queried!AllVars

Symmetry == Permutations({g1, g2}) \cup Permutations({r1, r2}) \cup Permutations({v1, v2})
=============================================================================
