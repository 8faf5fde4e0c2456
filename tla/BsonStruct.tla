----------------------------- MODULE BsonStruct -----------------------------
(***************************************************************************)
(* How package bson writes structs as documents and reads documents into   *)
(* structs and maps.                                                       *)
(*                                                                         *)
(* A struct type is a sequence of fields [kind, key, of]: "field", one     *)
(* with "omitempty", one that is "private", an inlined "map", or an        *)
(* inlined "struct", of a type.  Its value is the sequence of its fields'  *)
(* values; a value 0 is the zero value.  A document is a sequence of       *)
(* [key, val]; val Unfit is compatible with no type but an interface: no   *)
(* field and no inlined map, but the elements of a map of interfaces.      *)
(***************************************************************************)
EXTENDS Integers, Sequences, FiniteSets, SequencesExt, FiniteSetsExt

CONSTANTS
    Types,          \* struct types
    Keys, Vals,     \* of documents, fields and maps; 0 is a value
    Unfit,
    MaxDoc          \* bound: the elements of a document

BsonStructAssumption == 0 \in Vals /\ Unfit \notin Vals /\ MaxDoc \in Nat

VARIABLES
    type, did,      \* the struct type; what was done with it
    value, doc,     \* a value and the document it is written as
    given,          \* a document that is read
    old, new,       \* the struct it is read into, before and after
    bag             \* a map it is read into: [elem, before, after]
vars == <<type, did, value, doc, given, old, new, bag>>

None == <<>>
NoMap == [k \in {} |-> 0]
Failed == <<[key |-> "failed", val |-> 0]>>

(***************************************************************************)
(* getStructInfo                                                           *)
(***************************************************************************)

KeysOf(info) == {info.list[i].key : i \in DOMAIN info.list}
Refuse(info) == [info EXCEPT !.err = TRUE]
Named(info, f) == IF f.key \in KeysOf(info) THEN Refuse(info) ELSE [info EXCEPT !.list = Append(@, f)]

RECURSIVE getStructInfo(_)
getStructInfo(st) ==
    LET Inlined(info, i) ==
            LET sub == getStructInfo(st[i].of) IN
            IF sub.err THEN Refuse(info)
            ELSE FoldLeft(LAMBDA acc, f : IF acc.err THEN acc ELSE Named(acc, [f EXCEPT !.path = <<i>> \o @]), info, sub.list)
        Field(info, i) ==
            CASE info.err \/ st[i].kind = "private" -> info
              [] ~info.err /\ st[i].kind = "map" -> IF info.map # 0 THEN Refuse(info) ELSE [info EXCEPT !.map = i]
              [] ~info.err /\ st[i].kind = "struct" -> Inlined(info, i)
              [] ~info.err /\ st[i].kind \in {"field", "omitempty"} ->
                    Named(info, [key |-> st[i].key, path |-> <<i>>, omit |-> st[i].kind = "omitempty"])
    IN  FoldLeft(Field, [err |-> FALSE, list |-> <<>>, map |-> 0], [i \in DOMAIN st |-> i])

RECURSIVE Zero(_), At(_, _), Put(_, _, _), Structs(_)
Zero(st) == [i \in DOMAIN st |-> CASE st[i].kind = "map" -> NoMap
                                   [] st[i].kind = "struct" -> Zero(st[i].of)
                                   [] st[i].kind \notin {"map", "struct"} -> 0]
\* The field at a path, and the struct with another value there
At(v, path) == IF Len(path) = 1 THEN v[path[1]] ELSE At(v[path[1]], Tail(path))
Put(v, path, x) == [v EXCEPT ![path[1]] = IF Len(path) = 1 THEN x ELSE Put(@, Tail(path), x)]
With(f, k, x) == [j \in DOMAIN f \cup {k} |-> IF j = k THEN x ELSE f[j]]

(***************************************************************************)
(* Writing, with the keys of the map in any order                          *)
(***************************************************************************)

Conflict(info, m) == KeysOf(info) \cap DOMAIN m # {}
addStruct(st, v) ==
    LET info == getStructInfo(st)
        m == IF info.map = 0 THEN NoMap ELSE v[info.map]
        fields == SelectSeq(info.list, LAMBDA f : ~(f.omit /\ At(v, f.path) = 0)) IN
    IF info.err \/ Conflict(info, m) THEN {Failed}
    ELSE {[i \in DOMAIN ks |-> [key |-> ks[i], val |-> m[ks[i]]]]
            \o [i \in DOMAIN fields |-> [key |-> fields[i].key, val |-> At(v, fields[i].path)]]
          : ks \in SetToSeqs(DOMAIN m)}

(***************************************************************************)
(* Reading                                                                 *)
(***************************************************************************)

\* Before it is read into, a struct is set to zero and a map is emptied.
\* (_Kept: not so)
Cleared_Kept(st, v) == v
Cleared(st, v) == Zero(st)
Emptied(m) == NoMap

\* An element goes to its field or else to the inlined map.
Into(st, info, v, e) ==
    LET fs == SelectSeq(info.list, LAMBDA f : f.key = e.key) IN
    IF e.val = Unfit THEN v
    ELSE IF fs # <<>> THEN Put(v, fs[1].path, e.val)
    ELSE IF info.map # 0 THEN Put(v, <<info.map>>, With(v[info.map], e.key, e.val)) ELSE v
readDocTo(st, v, d) ==
    LET info == getStructInfo(st) IN FoldLeft(LAMBDA acc, e : Into(st, info, acc, e), Cleared(st, v), d)
Fits(e, elem) == elem = "iface" \/ e.val # Unfit
readDocToMap(m, elem, d) == FoldLeft(LAMBDA acc, e : IF Fits(e, elem) THEN With(acc, e.key, e.val) ELSE acc, Emptied(m), d)

(***************************************************************************)
(* A value is written; a document is read into a used struct and map.      *)
(***************************************************************************)

Maps == UNION {[ks -> Vals] : ks \in SUBSET Keys}
Structs(st) ==
    LET Of(f) == CASE f.kind = "map" -> Maps
                   [] f.kind = "struct" -> Structs(f.of)
                   [] f.kind = "private" -> {0}
                   [] f.kind \in {"field", "omitempty"} -> Vals IN
    FoldLeft(LAMBDA acc, f : {Append(v, x) : v \in acc, x \in Of(f)}, {<<>>}, st)
Documents == UNION {[1..n -> [key : Keys, val : Vals \cup {Unfit}]] : n \in 0..MaxDoc}

Init ==
    /\ type \in Types /\ did = "nothing" /\ value = None /\ doc = None /\ given = None /\ old = None /\ new = None
    /\ bag = [elem |-> "int", before |-> NoMap, after |-> NoMap]
Marshal ==
    /\ did = "nothing" /\ did' = "written"
    /\ \E v \in Structs(type) : value' = v /\ doc' \in addStruct(type, v)
    /\ UNCHANGED <<type, given, old, new, bag>>
Unmarshal ==
    /\ did = "nothing" /\ did' = "read" /\ ~getStructInfo(type).err
    /\ \E v \in Structs(type), d \in Documents : given' = d /\ old' = v /\ new' = readDocTo(type, v, d)
    /\ UNCHANGED <<type, value, doc, bag>>
UnmarshalMap ==
    /\ did = "nothing" /\ did' = "map read"
    /\ \E m \in Maps, d \in Documents, elem \in {"int", "iface"} :
        given' = d /\ bag' = [elem |-> elem, before |-> m, after |-> readDocToMap(m, elem, d)]
    /\ UNCHANGED <<type, value, doc, old, new>>
Next == Marshal \/ Unmarshal \/ UnmarshalMap
Spec == Init /\ [][Next]_vars

(***************************************************************************)
(* Properties                                                              *)
(***************************************************************************)

Written == did = "written" /\ doc # Failed

\* A struct that was written is read back as it was, but for what is private.
RoundTrip == Written => readDocTo(type, Zero(type), doc) = value

\* No key is written twice.
OnceEach == Written => \A i, j \in DOMAIN doc : doc[i].key = doc[j].key => i = j

\* Whatever a struct or a map held before, it holds what the document says last under each
\* key: of the elements that fit, those for no field in the inlined map, all in a map, and
\* a field no element is for is zero.
Fitting(k, elem) == {i \in DOMAIN given : given[i].key = k /\ Fits(given[i], elem)}
LastOf(k, elem) == given[Max(Fitting(k, elem))].val
HoldsLast(m, ks, elem) ==
    /\ DOMAIN m = {k \in ks : Fitting(k, elem) # {}}
    /\ \A k \in DOMAIN m : m[k] = LastOf(k, elem)
LastWins ==
    /\ did = "read" =>
        LET info == getStructInfo(type) IN
        /\ \A f \in ToSet(info.list) : At(new, f.path) = IF Fitting(f.key, "int") = {} THEN 0 ELSE LastOf(f.key, "int")
        /\ info.map # 0 => HoldsLast(new[info.map], Keys \ KeysOf(info), "int")
    /\ did = "map read" => HoldsLast(bag.after, Keys, bag.elem)

\* Fields of an inlined struct are handled as if they were part of the outer one.
RECURSIVE Flat(_), FlatValue(_, _)
Flat(st) == FoldLeft(LAMBDA s, f : s \o IF f.kind = "struct" THEN Flat(f.of) ELSE <<f>>, <<>>, st)
FlatValue(st, v) == FoldLeft(LAMBDA s, i : s \o IF st[i].kind = "struct" THEN FlatValue(st[i].of, v[i]) ELSE <<v[i]>>, <<>>, [i \in DOMAIN st |-> i])
AsIfPart ==
    /\ did = "written" => doc \in addStruct(Flat(type), FlatValue(type, value))
    /\ did = "read" => FlatValue(type, new) = readDocTo(Flat(type), Zero(Flat(type)), given)
=============================================================================
