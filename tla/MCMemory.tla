------------------------------ MODULE MCMemory ------------------------------
(***************************************************************************)
(* The sequential components that keep memory, for TLC: the ring of        *)
(* samples, the tensor allocator under any sequence of calls, and the      *)
(* graph allocator that uses it.  They share nothing; subject says which   *)
(* one moves, and never changes.                                           *)
(***************************************************************************)
EXTENDS SampleRing, Gallocr

VARIABLE subject

allVars == <<subject, vars, gallocVars>>

\* Bound: the tensors of "tensors".
FewTensors == 1..4

\* The sources of a node: one earlier tensor, or two.
Singles(t) == {<<a>> : a \in 1..(t - 1)}
Pairs(t) == {s \in (1..(t - 1)) \X (1..(t - 1)) : s[1] <= s[2]}

\* A node is an operation, maybe one that works in place, or a view.
Shapes(t) == ({"op", "inplace"} \X (Singles(t) \cup Pairs(t))) \cup ({"view"} \X Singles(t))

\* Tensor 1 is an input or a weight; 2 to 5 are computed one after the other.
GraphOf(shapes, widths, outputs, weights) ==
    LET kind(t) == shapes[t - 1][1]
        looksAt[t \in 1..5] ==
            IF t = 1 \/ kind(t) # "view" THEN 0
            ELSE LET s == shapes[t - 1][2][1]
                 IN  IF looksAt[s] = 0 THEN s ELSE looksAt[s]
    IN  [leafs |-> <<1>>, nodes |-> <<2, 3, 4, 5>>,
         width |-> widths,
         src |-> [t \in 1..5 |-> IF t = 1 THEN <<>> ELSE shapes[t - 1][2]],
         view_src |-> looksAt,
         inplace |-> {t \in 2..5 : kind(t) = "inplace"},
         output |-> outputs,
         external |-> weights]

Same == <<1, 1, 1, 1, 1>>
Mixed == <<1, 2, 1, 2, 1>>

\* Widths, outputs, weights, and whether node 2 may take over tensor 1 (a
\* weight is never taken over).
Settings ==
    ({<<Same, {5}, {}>>, <<Mixed, {3, 5}, {}>>} \X {"op", "inplace"})
        \cup {<<<<Same, {5}, {1}>>, "op">>}

SmallGraphs ==
    {GraphOf(<<<<c[2], <<1>>>>, s3, s4, <<"op", p>>>>, c[1][1], c[1][2], c[1][3]) :
        c \in Settings, s3 \in Shapes(3), s4 \in Shapes(4),
        p \in {s \in Pairs(5) : s[1] < s[2]}}

\* Tensor 1 is a view of a result of another graph, tensor 5.
OfAnother(g) ==
    [g EXCEPT !.nodes = <<2, 3, 4>>, !.output = {4}, !.external = {5},
              !.view_src = [t \in 1..5 |-> IF t = 1 \/ g.view_src[t] = 1 THEN 5 ELSE g.view_src[t]]]

CrossGraphs ==
    {OfAnother(GraphOf(<<<<"op", <<1>>>>, s3, s4, <<"op", <<1>>>>>>, Same, {5}, {})) :
        s3 \in Shapes(3), s4 \in Shapes(4)}

MemoryGraphs == SmallGraphs \cup CrossGraphs

SomeGraph ==
    GraphOf([i \in 1..4 |-> <<"op", IF i = 4 THEN <<3, 4>> ELSE <<i>>>>], Same, {5}, {})

MemoryInit ==
    /\ subject \in {"ring", "tensors", "graph"}
    /\ Init /\ GallocInit
    /\ tokens = 1
    /\ subject # "ring" => platform = "ios"
    /\ subject # "graph" => graph = SomeGraph

MemoryNext ==
    /\ \/ subject = "ring" /\ Next /\ UNCHANGED gallocVars
       \/ subject = "tensors" /\ TallocNext /\ DOMAIN live' \subseteq FewTensors
          /\ UNCHANGED <<vars, graph, tokens, pc, n, j, hash, talloc, buffer, mem>>
       \/ subject = "graph" /\ GallocNext /\ UNCHANGED vars
    /\ UNCHANGED subject

\* Types: the ring, the allocator's blocks, and the counters of what it places,
\* none of which falls below 0 although views and reused parents give them back
\* early.
MemoryTypeOK == TypeOK /\ GallocTypeOK

MemorySpec == MemoryInit /\ [][MemoryNext]_allVars
=============================================================================
