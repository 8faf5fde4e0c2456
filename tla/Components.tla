----------------------------- MODULE Components -----------------------------
(***************************************************************************)
(* The strongly connected components of a graph given by its edges E, and  *)
(* the orders in which the transactions of package txn may be taken: what  *)
(* tarjanSort computes (module Tarjan) and a flush relies on (module Txn). *)
(***************************************************************************)
EXTENDS Integers, FiniteSets

Reach(E) ==
    LET V == {e[1] : e \in E} \cup {e[2] : e \in E}
        Further(R) == {p \in V \X V : p \in R \/ \E m \in V : <<p[1], m>> \in R /\ <<m, p[2]>> \in R}
        R[n \in 0..Cardinality(V)] == IF n = 0 THEN E ELSE Further(R[n - 1])
    IN  R[(Cardinality(V) + 1) \div 2]

Component(E, t) == {t} \cup {e[2] : e \in {x \in Reach(E) : x[1] = t /\ <<x[2], t>> \in Reach(E)}}

\* The orders of the components of the nodes V with predecessors first
Orders(E, V) ==
    LET cs == {Component(E, t) : t \in V}  R == Reach(E) IN
    {o \in [1..Cardinality(cs) -> cs] :
        /\ \A i, j \in DOMAIN o : o[i] = o[j] => i = j
        /\ \A i, j \in DOMAIN o : i < j => ~ \E a \in o[i], b \in o[j] : <<b, a>> \in R}
=============================================================================
