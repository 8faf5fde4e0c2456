------------------------------- MODULE Tarjan -------------------------------
(***************************************************************************)
(* tarjanSort of package txn: the transactions that flush has to handle,   *)
(* their strongly connected components in one pass.  The recursion of      *)
(* strongConnect is a stack of calls, [id, next : the successor to look at *)
(* next]; a step is one successor, or the end of a call.                   *)
(***************************************************************************)
EXTENDS Integers, Sequences, FiniteSets, SequencesExt, Components

CONSTANTS Ids,    \* transactions
          IdSeq   \* in their order, a sequence
IdSeqAssumption == ToSet(IdSeq) = Ids /\ Len(IdSeq) = Cardinality(Ids)

VARIABLES successors, \* of each transaction the sequence of its successors
          index,      \* of each one visited, its place in nodes
          nodes,      \* sequence of [lowlink, stacked]
          stack, output, calls

vars == <<successors, index, nodes, stack, output, calls>>

\* run puts each pair of neighbours in a queue into successors once.
Init ==
    /\ \E E \in SUBSET {e \in Ids \X Ids : e[1] # e[2]} :
          successors = [t \in Ids |-> SelectSeq(IdSeq, LAMBDA u : <<t, u>> \in E)]
    /\ index = <<>> /\ nodes = <<>> /\ stack = <<>> /\ output = <<>> /\ calls = <<>>

Seen(id) == id \in DOMAIN index

\* strongConnect(id) begins.
Enter(id) ==
    /\ index' = [x \in DOMAIN index \cup {id} |-> IF x = id THEN Len(nodes) + 1 ELSE index[x]]
    /\ nodes' = Append(nodes, [lowlink |-> Len(nodes) + 1, stacked |-> TRUE])
    /\ stack' = Append(stack, id)

\* tarjanSort ranges over a map, in any order.
Root ==
    /\ calls = <<>>
    /\ \E id \in Ids \ DOMAIN index : Enter(id) /\ calls' = <<[id |-> id, next |-> 1]>>
    /\ UNCHANGED <<successors, output>>

Top == Last(calls)
Here == index[Top.id]
Lower(n, at) == [nodes EXCEPT ![at].lowlink = IF n < @ THEN n ELSE @]

\* Only what is still on the stack belongs to the present component.
InComponent(n) == nodes[n].stacked

Look ==
    /\ calls # <<>> /\ Top.next <= Len(successors[Top.id])
    /\ LET succ == successors[Top.id][Top.next]
           on   == [calls EXCEPT ![Len(calls)].next = @ + 1]
       IN  \/ /\ ~Seen(succ)
              /\ Enter(succ)
              /\ calls' = Append(on, [id |-> succ, next |-> 1])
           \/ /\ Seen(succ)
              /\ nodes' = IF InComponent(index[succ]) THEN Lower(index[succ], Here) ELSE nodes
              /\ calls' = on
              /\ UNCHANGED <<index, stack>>
    /\ UNCHANGED <<successors, output>>

\* What the caller learns from the call that ends.
Return(ns) ==
    IF Len(calls) = 1 THEN ns
    ELSE LET caller == index[calls[Len(calls) - 1].id]  low == ns[Here].lowlink IN
         [ns EXCEPT ![caller].lowlink = IF low < @ THEN low ELSE @]

IsRoot(ns) == ns[Here].lowlink = Here

\* A root takes its component off the stack, sorted in the end.
Leave ==
    /\ calls # <<>> /\ Top.next > Len(successors[Top.id])
    /\ LET from == CHOOSE i \in DOMAIN stack : stack[i] = Top.id
           scc  == SubSeq(stack, from, Len(stack))
           root == IsRoot(nodes)
       IN  /\ stack' = IF root THEN SubSeq(stack, 1, from - 1) ELSE stack
           /\ output' = IF root THEN Append(output, SelectSeq(IdSeq, LAMBDA t : t \in ToSet(scc))) ELSE output
           /\ nodes' = Return([n \in DOMAIN nodes |->
                  IF root /\ n \in {index[t] : t \in ToSet(scc)}
                  THEN [nodes[n] EXCEPT !.stacked = FALSE] ELSE nodes[n]])
    /\ calls' = Front(calls)
    /\ UNCHANGED <<successors, index>>

Next == Root \/ Look \/ Leave
Spec == Init /\ [][Next]_vars /\ WF_vars(Next)

(***************************************************************************)
(* Properties                                                              *)
(***************************************************************************)

Edges == {e \in Ids \X Ids : e[2] \in ToSet(successors[e[1]])}

\* What has been put out is, from its end, one of the orders that a flush may
\* follow: every component whole, and before it only what need not wait for it.
SortsComponents ==
    calls = <<>> =>
        LET V == UNION {ToSet(output[i]) : i \in DOMAIN output} IN
        /\ V = DOMAIN index
        /\ [i \in DOMAIN output |-> ToSet(Reverse(output)[i])] \in Orders(Edges, V)

=============================================================================
