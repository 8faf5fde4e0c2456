----------------------------- MODULE BsonValue ------------------------------
(***************************************************************************)
(* How package bson writes a Go value as an element and reads an element   *)
(* into a variable of the same or another type.                            *)
(*                                                                         *)
(* A Go value is [t, v].  A type is a sequence, as <<"ptr", "int8">>; v is *)
(* a sequence: of one number, of the bytes of a string, of the values of a *)
(* slice or array, of the value behind a pointer or an interface, empty    *)
(* for nil.  Numbers of type float64 and json.Number are counted in        *)
(* halves, times in half milliseconds.  An element is [k, v].              *)
(***************************************************************************)
EXTENDS Integers, Sequences, FiniteSets, SequencesExt

CONSTANTS
    Values,         \* the Go values that are written
    Variables,      \* the Go variables that are read into, with what they hold
    Bits,           \* the widths of types of numbers; "int32" is that of the element,
                    \* "float64" that of a mantissa
    IdLen, ArrayLen \* the lengths of an ObjectId and of arrays

BsonValueAssumption ==
    /\ IdLen \in Nat /\ ArrayLen \in Nat /\ DOMAIN Bits = {"int8", "int", "int64", "uint8", "uint", "uint64", "int32", "float64"}
    /\ Bits["int"] = Bits["int64"] /\ Bits["int32"] <= Bits["float64"] + 1 /\ Bits["float64"] < Bits["int64"] - 1

VARIABLES value, minSize, element, variable, result
vars == <<value, minSize, element, variable, result>>

None == [t |-> <<>>, v |-> <<>>]
Nothing == [k |-> "nothing", v |-> <<>>]
Failed == [k |-> "failed", v |-> <<>>]

Signed == {"int8", "int", "int64"}
Unsigned == {"uint8", "uint", "uint64"}
Strings == {"string", "symbol", "objectid", "jsonnumber"}
Kind(t) ==
    CASE t[1] \in Signed \cup {"timestamp"} -> "int"
      [] t[1] \in Unsigned -> "uint"
      [] t[1] \in Strings -> "string"
      [] t[1] \notin Signed \cup Unsigned \cup Strings \cup {"timestamp"} -> t[1]
BytesType == <<"slice", "uint8">>
ToBytes(s) == [i \in DOMAIN s |-> [t |-> <<"uint8">>, v |-> <<s[i]>>]]
FromBytes(s) == [i \in DOMAIN s |-> s[i].v[1]]

\* The zero value of a type
RECURSIVE Zero(_)
Zero(t) ==
    [t |-> t, v |-> CASE t[1] \in Signed \cup Unsigned \cup {"timestamp", "float64", "bool", "time"} -> <<0>>
                      [] t[1] = "arr" -> [i \in 1..ArrayLen |-> Zero(Tail(t))]
                      [] t[1] = "Binary" -> <<0>>
                      [] t[1] \notin Signed \cup Unsigned \cup {"timestamp", "float64", "bool", "time", "arr", "Binary"} -> <<>>]

(***************************************************************************)
(* Writing                                                                 *)
(***************************************************************************)

Most(b) == 2 ^ (b - 1) - 1
Fits32(n) == n \in (-Most(Bits["int32"]) - 1)..Most(Bits["int32"])
Number(n, small) == [k |-> IF small /\ Fits32(n) THEN "int32" ELSE "int64", v |-> <<n>>]

\* The obsolete subtype has its length twice.
BinaryOf(sub, s) == [k |-> "binary", v |-> <<sub>> \o (IF sub = 2 THEN <<Len(s)>> ELSE <<>>) \o s]

\* (_Any: numbers of 64 bits are made small too)
Small_Any(t, min) == TRUE
Small(t, min) == min \/ t[1] \notin {"int64", "uint64"}

\* A pointer and a slice lead to values that are addressable, an interface to one that is
\* not; only of an addressable array of bytes a slice can be taken.
RECURSIVE addElem(_, _, _)
addElem(x, min, addressable) ==
    LET t == x.t[1] n == x.v[1] IN
    CASE t \in {"iface", "ptr"} -> IF x.v = <<>> THEN [k |-> "null", v |-> <<>>] ELSE addElem(n, min, t = "ptr")
      [] t = "objectid" -> IF Len(x.v) = IdLen THEN [k |-> t, v |-> x.v] ELSE Failed
      [] t = "jsonnumber" -> IF n % 2 = 0 THEN [k |-> "int64", v |-> <<n \div 2>>] ELSE [k |-> "double", v |-> x.v]
      [] t = "float64" -> [k |-> "double", v |-> x.v]
      [] t \in Unsigned -> IF n > Most(Bits["int64"]) THEN Failed ELSE Number(n, Small(x.t, min))
      [] t \in Signed -> Number(n, Small(x.t, min))
      [] t \in {"slice", "arr"} ->
            IF x.t[2] = "uint8" THEN (IF t = "slice" \/ addressable THEN BinaryOf(0, FromBytes(x.v)) ELSE Failed)
            ELSE LET es == [i \in DOMAIN x.v |-> addElem(x.v[i], FALSE, t = "slice" \/ addressable)] IN
                 IF Failed \in ToSet(es) THEN Failed ELSE [k |-> "array", v |-> es]
      [] t = "Binary" -> BinaryOf(n, Tail(x.v))
      [] t = "time" -> [k |-> t, v |-> <<n \div 2>>]
      [] t = "map" -> [k |-> "doc", v |-> x.v]
      [] t \in {"string", "symbol", "bool", "timestamp", "other"} -> [k |-> t, v |-> x.v]

(***************************************************************************)
(* Reading.  An outcome is [res, out, read, told]: "ok", "no" when the     *)
(* types are not compatible, or "failed"; what the variable holds then;    *)
(* whether the decoder has passed the element; what SetBSON has answered.  *)
(***************************************************************************)

Ok(t, v) == [res |-> "ok", out |-> [t |-> t, v |-> v], read |-> TRUE, told |-> "not asked"]
No(old) == [res |-> "no", out |-> old, read |-> TRUE, told |-> "not asked"]
Fail(old) == [res |-> "failed", out |-> old, read |-> TRUE, told |-> "not asked"]

\* Go's conversions of integers keep the low bits.
Wrapped(n, t) ==
    LET size == 2 ^ Bits[t[1]] IN IF t[1] \in Signed THEN ((n + size \div 2) % size) - size \div 2 ELSE n % size
\* Of a number in halves, the integer part; when it does not fit, any number.
Truncated(h) == IF h >= 0 THEN h \div 2 ELSE -((-h) \div 2)
Ints(h) ==
    LET most == Most(Bits["int64"]) IN
    IF Truncated(h) \in (-most - 1)..most THEN {Truncated(h)} ELSE (-most - 1)..most
UInts(h) ==
    LET most == 2 ^ Bits["uint64"] - 1 IN IF Truncated(h) \in 0..most THEN {Truncated(h)} ELSE 0..most


\* The numbers a float64 holds, in halves; an integer becomes the nearest of them, of two
\* the one with the even mantissa.
Exact(h) == \E k \in 0..Bits["int64"] + 1 : h % 2 ^ k = 0 /\ (h \div 2 ^ k) \in -(2 ^ Bits["float64"])..2 ^ Bits["float64"]
Distance(a, b) == IF a < b THEN b - a ELSE a - b
Rounded(h) ==
    LET floats == {f \in -(2 ^ Bits["int64"])..2 ^ Bits["int64"] : Exact(f)}
        nearest == {f \in floats : \A g \in floats : Distance(f, h) <= Distance(g, h)} IN
    CHOOSE f \in nearest : \A g \in nearest, k \in 0..Bits["int64"] : g % 2 ^ k = 0 => f % 2 ^ k = 0

\* readElemTo, from "inv": the value that was read, for a variable that is no pointer
Converted(x, old) ==
    LET t == old.t n == x.v[1] from == Kind(x.t) IN
    IF x.t = t THEN {Ok(t, x.v)}
    ELSE CASE Kind(t) = "iface" -> {Ok(t, <<x>>)}
      [] Kind(t) = "string" ->
            IF from = "string" THEN {Ok(t, x.v)}
            ELSE IF x.t = BytesType THEN {Ok(t, FromBytes(x.v))}
            ELSE IF t[1] = "jsonnumber" /\ from = "int" THEN {Ok(t, <<2 * n>>)}
            ELSE IF t[1] = "jsonnumber" /\ from = "float64" THEN {Ok(t, x.v)} ELSE {No(old)}
      [] Kind(t) \in {"slice", "arr"} /\ t[2] = "uint8" ->
            IF from = "string" THEN (IF Kind(t) = "arr" THEN {Fail(old)} ELSE {Ok(t, ToBytes(x.v))})
            ELSE IF from # "slice" THEN {No(old)}
            ELSE {Ok(t, [i \in DOMAIN old.v |-> IF i \in DOMAIN x.v THEN x.v[i] ELSE old.v[i]])}
      [] Kind(t) \in {"int", "uint"} ->
           (CASE from = "int" -> {Ok(t, <<Wrapped(n, t)>>)}
              [] from = "float64" -> {Ok(t, <<Wrapped(i, t)>>) : i \in IF Kind(t) = "int" THEN Ints(n) ELSE UInts(n)}
              [] from = "bool" -> {Ok(t, <<n>>)}
              [] from \notin {"int", "float64", "bool"} -> {No(old)})
      [] Kind(t) = "float64" -> IF from \in {"int", "bool"} THEN {Ok(t, <<Rounded(2 * n)>>)} ELSE {No(old)}
      [] Kind(t) = "bool" -> IF from \in {"int", "float64"} THEN {Ok(t, <<IF n = 0 THEN 0 ELSE 1>>)} ELSE {No(old)}
      [] OTHER -> {No(old)}

\* A variable behind pointers: those that are nil are set when the value is compatible.
Behind(old, o) == [o EXCEPT !.out = IF o.res = "ok" \/ old.v # <<>> THEN [old EXCEPT !.v = <<o.out>>] ELSE old]
Pointed(old) == IF old.v = <<>> THEN Zero(Tail(old.t)) ELSE old.v[1]
RECURSIVE ReadInto(_, _)
ReadInto(x, old) ==
    IF old.t[1] = "ptr" THEN {Behind(old, o) : o \in ReadInto(x, Pointed(old))} ELSE Converted(x, old)

\* A variable that reads itself is given the raw element; a pointer to it is set first.
IsSetter(t) == t[1] = "setter" \/ (t[1] = "ptr" /\ t[2] = "setter")
Told(old, answer) ==
    LET o == IF old.t[1] = "ptr" THEN [old EXCEPT !.v = <<Pointed(old)>>] ELSE old
        set == IF old.t[1] = "ptr" THEN [o EXCEPT !.v[1].v = <<1>>] ELSE [o EXCEPT !.v = <<1>>] IN
    [CASE answer = "nil" -> Ok(o.t, set.v)
       [] answer = "SetZero" -> Ok(o.t, Zero(o.t).v)
       [] answer = "TypeError" -> No(o)
       [] answer = "error" -> Fail(o)
     EXCEPT !.told = answer]
Answers == {"nil", "SetZero", "TypeError", "error"}
SetBSON(old) == {Told(old, a) : a \in Answers}

\* In readDocTo a setter's TypeError is dropped and every other error is passed on.
SetDoc(old) == {CASE o.told = "TypeError" -> [o EXCEPT !.res = "ok"]
                  [] o.told = "SetZero" -> [Fail(old) EXCEPT !.told = o.told]
                  [] o.told \in {"nil", "error"} -> o : o \in SetBSON(old)}

\* A document for a variable of another type is read and dropped, unless that is a slice.
Dropped(old) == [Ok(old.t, old.v) EXCEPT !.read = old.t[1] # "slice"]
RECURSIVE ReadDoc(_, _)
ReadDoc(e, old) ==
    CASE IsSetter(old.t) -> SetDoc(old)
      [] old.t[1] = "iface" -> {Ok(old.t, <<[t |-> <<"map">>, v |-> e.v]>>)}
      [] old.t[1] = "map" -> {Ok(old.t, e.v)}
      [] old.t[1] = "raw" -> {Ok(old.t, <<e>>)}
      [] old.t[1] \in {"time", "Binary", "other"} -> {Ok(old.t, Zero(old.t).v)}
      [] old.t[1] = "ptr" /\ ~IsSetter(old.t) ->
            IF Kind(Tail(old.t)) \in {"ptr", "iface", "map", "raw", "time", "Binary", "other"}
            THEN {Behind(old, o) : o \in ReadDoc(e, Pointed(old))}
            ELSE {Fail([old EXCEPT !.v = <<Pointed(old)>>])}
      [] OTHER -> {Dropped(old)}

\* What an element other than an array or a document is read as
Plain(e) ==
    CASE e.k = "int32" -> [t |-> <<"int">>, v |-> e.v]
      [] e.k = "double" -> [t |-> <<"float64">>, v |-> e.v]
      [] e.k = "time" -> [t |-> <<"time">>, v |-> <<2 * e.v[1]>>]
      [] e.k = "binary" ->
           (CASE e.v[1] = 0 -> [t |-> BytesType, v |-> ToBytes(Tail(e.v))]
              [] e.v[1] = 2 -> [t |-> BytesType, v |-> ToBytes(Tail(Tail(e.v)))]
              [] e.v[1] \notin {0, 2} -> [t |-> <<"Binary">>, v |-> e.v])
      [] e.k \notin {"int32", "double", "time", "binary"} -> [t |-> <<e.k>>, v |-> e.v]

\* Element by element, each combined with every outcome of those before it
RECURSIVE Pointee(_), readElemTo(_, _)
Pointee(t) == IF t[1] = "ptr" THEN Pointee(Tail(t)) ELSE t
readSliceDoc(e, t) ==
    FoldLeft(LAMBDA accs, x : {[v |-> IF o.res = "ok" THEN Append(a.v, o.out) ELSE a.v, read |-> a.read /\ o.read,
                                failed |-> a.failed \/ o.res = "failed"] : a \in accs, o \in readElemTo(x, Zero(Tail(t)))},
             {[v |-> <<>>, read |-> TRUE, failed |-> FALSE]}, e.v)
readArrayDocTo(e, old) ==
    IF Len(e.v) # Len(old.v) THEN {Fail(old)}
    ELSE {[IF \E i \in DOMAIN f : f[i].res = "failed" THEN Fail(old) ELSE Ok(old.t, [i \in DOMAIN f |-> f[i].out])
           EXCEPT !.read = \A i \in DOMAIN f : f[i].read]
          : f \in {s \in [DOMAIN e.v -> UNION {readElemTo(e.v[i], old.v[i]) : i \in DOMAIN e.v}] :
                    \A i \in DOMAIN s : s[i] \in readElemTo(e.v[i], old.v[i])}}

Outcomes(x, old) ==
    IF IsSetter(old.t) THEN SetBSON(old) ELSE ReadInto(x, old)
readElemTo(e, old) ==
    LET t == Pointee(old.t) IN
    CASE e.k = "doc" -> ReadDoc(e, old)
      [] e.k = "array" /\ t[1] = "arr" -> IF old.t[1] = "ptr" THEN {Fail(old)} ELSE readArrayDocTo(e, old)
      [] e.k = "array" /\ t[1] # "arr" ->
            LET st == IF t[1] = "slice" THEN t ELSE <<"slice", "iface">> IN
            UNION {IF a.failed THEN {Fail(old)}
                   ELSE {[o EXCEPT !.read = a.read] : o \in IF old.t[1] = "raw" THEN {Ok(old.t, <<e>>)} ELSE Outcomes([t |-> st, v |-> a.v], old)}
                   : a \in readSliceDoc(e, st)}
      [] e.k = "null" -> IF IsSetter(old.t) THEN SetBSON(old) ELSE IF old.t[1] = "raw" THEN {Ok(old.t, <<e>>)} ELSE {Ok(old.t, Zero(old.t).v)}
      [] e.k \notin {"doc", "array", "null"} -> IF old.t[1] = "raw" THEN {Ok(old.t, <<e>>)} ELSE Outcomes(Plain(e), old)

(***************************************************************************)
(* A value is written, then read into a variable.                          *)
(***************************************************************************)

Init == value \in Values /\ minSize \in BOOLEAN /\ element = Nothing /\ variable = None /\ result = Nothing
Marshal ==
    /\ element = Nothing /\ \E addressable \in BOOLEAN : element' = addElem(value, minSize, addressable)
    /\ UNCHANGED <<value, minSize, variable, result>>
Unmarshal ==
    /\ element \notin {Nothing, Failed} /\ variable = None
    /\ \E old \in Variables \cup {Zero(value.t)} : variable' = old /\ result' \in readElemTo(element, old)
    /\ UNCHANGED <<value, minSize, element>>
Next == Marshal \/ Unmarshal
Spec == Init /\ [][Next]_vars

(***************************************************************************)
(* Properties                                                              *)
(***************************************************************************)

Read == variable # None

\* A value that was written is read back into a variable of its type, but for the
\* part of a millisecond, and the size of an integer in an interface that was to be small.
RoundTrip ==
    (Read /\ variable = Zero(value.t) /\ ~(minSize /\ value.t = <<"iface">>)) =>
        /\ result.res = "ok"
        /\ IF value.t = <<"time">> THEN value.v[1] - result.out.v[1] \in {0, 1} ELSE result.out = value

\* A value that is not compatible leaves the variable as it was.
Unchanged == (Read /\ result.res = "no") => result.out = variable

\* Whatever the types, the decoder goes on behind the element.
Passed == (Read /\ result.res # "failed") => result.read

\* What cannot be converted is skipped: only a setter may fail.
NeverFails == (Read /\ result.res = "failed") => result.told = "error"

\* A number keeps at least its integer part when it is read into another type of number;
\* in a float64, when that holds it.
Halves(x) == IF x.t[1] = "float64" THEN x.v[1] ELSE 2 * x.v[1]
IsNumber(x) == x.t[1] \in Signed \cup Unsigned \cup {"float64"}
IntegerPart ==
    (Read /\ result.res = "ok" /\ IsNumber(value) /\ IsNumber(variable)
        /\ (variable.t = <<"float64">> => Exact(Halves(value)))) =>
        LET h == Halves(value) IN Halves(result.out) \in IF h >= 0 THEN {h - 1, h} ELSE {h, h + 1}

\* A setter that answers TypeError is left out, one that answers SetZero is set to zero.
Omitted == (Read /\ result.told = "TypeError") => result.res = "no"
ZeroSet == (Read /\ result.told = "SetZero") => result.res = "ok" /\ result.out = Zero(variable.t)
=============================================================================
