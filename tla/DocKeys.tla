------------------------------ MODULE DocKeys ------------------------------
(***************************************************************************)
(* The order of document keys in package txn, which every runner has to    *)
(* agree on.  An id is a value with its nature: [nature, v], where v is an *)
(* integer (strings, floats and booleans are compared as these are) or,    *)
(* for a struct, the sequence of its fields [name, exported, value].       *)
(***************************************************************************)
EXTENDS Integers, Sequences, FiniteSets

CONSTANTS Collections, \* integers, in the order of their names
          Ids          \* the ids that occur

natureString == 1
natureInt == 2
natureFloat == 3
natureBool == 4
natureStruct == 5

VARIABLES a, b, c   \* three keys [C, Id]
vars == <<a, b, c>>
Keys == [C : Collections, Id : Ids]

Init == a \in Keys /\ b = a /\ c = a
Next == \/ b = a /\ c = a /\ b' \in Keys /\ UNCHANGED <<a, c>>
        \/ c = a /\ c' \in Keys /\ UNCHANGED <<a, b>>
Spec == Init /\ [][Next]_vars

simplecmp(x, y) == IF x = y THEN 0 ELSE IF x < y THEN -1 ELSE 1

\* The first exported field from i on, or the one found before when there is
\* none; and how many fields have been passed then.
Exported(fs, i) == {j \in i..Len(fs) : fs[j].exported}
Field(fs, i, was) == IF Exported(fs, i) = {} THEN was
                     ELSE CHOOSE j \in Exported(fs, i) : \A m \in Exported(fs, i) : j <= m
Passed(fs, i) == IF Exported(fs, i) = {} THEN Len(fs) ELSE Field(fs, i, 0)

\* Which struct is the lesser when one ends first (_First: always the first)
EndsFirst_First(ai, bi, an, bn) == -1
EndsFirst(ai, bi, an, bn) == IF ai = bn THEN -1 ELSE 1

\* The loop of structcmp: ai and bi fields have been passed, af and bf are the
\* last ones found.
structcmp(p, q) ==
    LET an == Len(p)  bn == Len(q)
        loop[n \in 0..an + bn, ai \in 0..an, bi \in 0..bn, af \in 0..an, bf \in 0..bn] ==
            LET f == Field(p, ai + 1, af)  ai1 == Passed(p, ai + 1)
                g == Field(q, bi + 1, bf)  bi1 == Passed(q, bi + 1)
                byValue == simplecmp(p[f].value, q[g].value)
                byName  == simplecmp(p[f].name, q[g].name)
            IN  CASE byValue # 0 -> byValue
                  [] byValue = 0 /\ byName # 0 -> byName
                  [] OTHER -> IF ai1 = an /\ bi1 = bn THEN 0
                              ELSE IF ai1 = an \/ bi1 = bn THEN EndsFirst(ai1, bi1, an, bn)
                              ELSE loop[n + 1, ai1, bi1, f, g]
    IN  loop[0, 0, 0, 0, 0]

valuecmp(x, y) ==
    CASE x.nature # y.nature -> simplecmp(x.nature, y.nature)
      [] x.nature = y.nature /\ x = y -> 0
      [] OTHER -> IF x.nature # natureStruct THEN simplecmp(x.v, y.v)
                  ELSE IF structcmp(x.v, y.v) = -1 THEN -1 ELSE 1

\* docKeys.Less
Less(k, l) == IF k.C # l.C THEN k.C < l.C ELSE valuecmp(k.Id, l.Id) = -1

(***************************************************************************)
(* Properties                                                              *)
(***************************************************************************)

\* Of two different keys exactly one is less: whoever sorts the keys of a
\* transaction gets the same order.
SameOrderForAll == a # b => (Less(a, b) <=> ~Less(b, a))

\* The order is one: what comes before b comes before what follows b.
OneOrder == Less(a, b) /\ Less(b, c) => Less(a, c)
=============================================================================
