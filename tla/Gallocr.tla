------------------------------ MODULE Gallocr ------------------------------
(***************************************************************************)
(* The graph allocator of ggml-alloc.c (ggml_gallocr) with one buffer.     *)
(* ggml_gallocr_alloc_graph gives every tensor of a graph its place in the *)
(* buffer.  When the places of the graph before do not do, it plans new    *)
(* ones: it walks through the nodes in the order of their computation,     *)
(* gets a block from DynTallocr for each, lets an operation that may work  *)
(* in place take over the block of its source, and frees a block after the *)
(* last node that reads it, directly or through a view.                    *)
(*                                                                         *)
(* Then the graph is computed.  mem says which tensor wrote each cell last *)
(* and is what the plan is judged by.                                      *)
(*                                                                         *)
(* A graph is a record:                                                    *)
(*   leafs, nodes  sequences of tensors                                    *)
(*   width         the size of each tensor, for one token                  *)
(*   src           the sources of each tensor, a sequence                  *)
(*   view_src      the tensor that a view looks at, or NoSrc               *)
(*   inplace       the nodes whose operation can work in place             *)
(*   output        the tensors flagged as outputs                          *)
(*   external      the tensors, other than views, that have data already:  *)
(*                 weights, caches, results of other graphs                *)
(***************************************************************************)
EXTENDS DynTallocr, FiniteSets

CONSTANTS
    Graphs,       \* see above
    TokenCounts,  \* how many tokens a graph may be built for
    NoSrc         \* no tensor

GGML_MAX_SRC == 10

\* The leafs of a graph, and its nodes before the k-th one.
LeafsOf(g) == {g.leafs[i] : i \in DOMAIN g.leafs}
Before(g, k) == LeafsOf(g) \cup {g.nodes[i] : i \in DOMAIN g.nodes \cap 1..(k - 1)}

\* What a read of tensor t reads.
RootOf(g, t) == IF g.view_src[t] = NoSrc THEN t ELSE g.view_src[t]

GraphTypeOK(g) ==
    /\ g.leafs \in Seq(Tensors) /\ g.nodes \in Seq(Tensors) /\ g.nodes # <<>>
    /\ g.width \in [Tensors -> Nat \ {0}]
    /\ g.src \in [Tensors -> Seq(Tensors)]
    /\ \A t \in Tensors : Len(g.src[t]) <= GGML_MAX_SRC
    /\ g.view_src \in [Tensors -> Tensors \cup {NoSrc}]
    /\ g.inplace \subseteq Tensors
    /\ g.output \subseteq Tensors /\ g.external \subseteq Tensors

\* ggml_visit_parents puts each tensor into the graph once, and after its
\* sources; ggml_new_tensor_impl replaces a view of a view by a view of what
\* that looks at.  A leaf may be one that no node reads, and it may be a view of
\* a result of another graph (embd_conv, embd_enc).  Some node computes.
GraphOK(g) ==
    /\ GraphTypeOK(g)
    /\ \A k \in DOMAIN g.nodes : g.nodes[k] \notin Before(g, k)
    /\ \A t \in LeafsOf(g) : g.view_src[t] \in g.external \cup {NoSrc}
    /\ \A t \in Tensors : g.view_src[RootOf(g, t)] = NoSrc
    /\ \A t \in g.external : g.view_src[t] = NoSrc
    /\ \A k \in DOMAIN g.nodes : \A i \in DOMAIN g.src[g.nodes[k]] :
          LET s == g.src[g.nodes[k]][i]
          IN  s \in Before(g, k) /\ RootOf(g, s) \in Before(g, k) \cup g.external
    /\ \E k \in DOMAIN g.nodes : g.view_src[g.nodes[k]] = NoSrc /\ g.nodes[k] \notin g.external
    /\ g.output \subseteq Before(g, Len(g.nodes) + 1)

ASSUME GraphsAssumption == NoSrc \notin Tensors /\ \A g \in Graphs : GraphOK(g)
ASSUME TokensAssumption == TokenCounts \subseteq Nat \ {0}

VARIABLES
    graph,                \* the graph that is computed again and again
    tokens,               \* for how many tokens, this time
    pc, n, j,             \* n: the leaf or node, j: its source that is looked at
    n_children, n_views,  \* hash_node
    offset,               \* hash_node: the place in the plan that is being made
    talloc,               \* node_allocs and leaf_allocs: [offset, size_max]
    buffer,               \* the size of the buffer
    mem                   \* the tensor that wrote each cell last

hash == <<n_children, n_views, offset>>
gallocVars == <<tallocVars, graph, tokens, pc, n, j, hash, talloc, buffer, mem>>

NBytes(t) == graph.width[t] * tokens

IsView(t) == graph.view_src[t] # NoSrc
Src(t) == graph.src[t]
Nodes == {graph.nodes[i] : i \in DOMAIN graph.nodes}

Root(t) == RootOf(graph, t)

\* The tensors that the allocator finds a place for.
Planned(t) == ~IsView(t) /\ t \notin graph.external

NoTalloc == [t \in Tensors |-> [offset |-> 0, size_max |-> 0]]

-----------------------------------------------------------------------------
GallocInit ==
    /\ TallocInit
    /\ graph \in Graphs /\ tokens \in TokenCounts
    /\ pc = "idle" /\ n = 1 /\ j = 1
    /\ n_children = [t \in Tensors |-> 0]
    /\ n_views = [t \in Tensors |-> 0]
    /\ offset = [t \in Tensors |-> 0]
    /\ talloc = NoTalloc
    /\ buffer = 0 /\ mem = [c \in {} |-> NoSrc]

\* The sources of the nodes: a node and an index each.
Sources == UNION {{m} \X DOMAIN Src(m) : m \in Nodes}

\* ggml_gallocr_needs_realloc: a node or a source of one has outgrown its
\* place, or has none.
NeedsRealloc(count) ==
    \E t \in Nodes \cup {Src(r[1])[r[2]] : r \in Sources} :
        Planned(t) /\ talloc[t].size_max < graph.width[t] * count

\* ggml_gallocr_alloc_graph.  The graph before has been computed and read.
\* The old assignment is not looked at any more once it is to be replaced.
AllocGraph(count) ==
    /\ pc = "idle"
    /\ tokens' = count /\ n' = 1 /\ j' = 1
    /\ mem' = [c \in DOMAIN mem |-> NoSrc]
    /\ IF NeedsRealloc(count)
       THEN /\ Reset
            /\ n_children' = [t \in Tensors |-> 0]
            /\ n_views' = [t \in Tensors |-> 0]
            /\ offset' = [t \in Tensors |-> 0]
            /\ talloc' = NoTalloc
            /\ pc' = "leafs"
       ELSE pc' = "ready" /\ UNCHANGED <<tallocVars, hash, talloc>>
    /\ UNCHANGED <<graph, buffer>>

-----------------------------------------------------------------------------
(* ggml_gallocr_allocate_node.                                             *)

\* Fault: a source that a view still looks at is taken over.
CanReuse_Viewed(t, p) ==
    /\ t \in graph.inplace /\ p \in DOMAIN live
    /\ p \notin graph.output
    /\ NBytes(p) = NBytes(t)
    /\ n_children[p] = 1

\* Fault: a source of another layout is taken over.
CanReuse_AnyLayout(t, p) ==
    /\ t \in graph.inplace /\ p \in DOMAIN live
    /\ p \notin graph.output
    /\ n_children[p] = 1 /\ n_views[p] = 0

\* Node t works in place on its source p: p is the allocator's own, no output,
\* of the same layout, and nobody else will read it.  A view is never the
\* allocator's own.  (Layouts are compared when the plan is made, not when it
\* is used again: a graph must keep them, whatever the number of tokens.)
CanReuse(t, p) ==
    /\ t \in graph.inplace /\ p \in DOMAIN live
    /\ p \notin graph.output
    /\ NBytes(p) = NBytes(t)
    /\ n_children[p] = 1 /\ n_views[p] = 0

Reusable(t) == {i \in DOMAIN Src(t) : CanReuse(t, Src(t)[i])}

AllocateNode(t) ==
    IF t \in DOMAIN live \/ ~Planned(t)
    THEN UNCHANGED <<tallocVars, offset>>
    ELSE /\ \/ \E i \in Reusable(t) :
                 /\ \A k \in Reusable(t) : i <= k
                 /\ HandOver(Src(t)[i], t)
            \/ Reusable(t) = {} /\ Alloc(t, NBytes(t))
         /\ offset' = [offset EXCEPT ![t] = live'[t].offset]

\* The leafs come first, so that nothing overwrites an input before it is read.
AllocateLeaf ==
    /\ pc = "leafs" /\ n <= Len(graph.leafs)
    /\ AllocateNode(graph.leafs[n])
    /\ n' = n + 1
    /\ UNCHANGED <<graph, tokens, pc, j, n_children, n_views, talloc, buffer, mem>>

\* Reads of t, counted source by source.
Reads(t) == {r \in Sources : Src(r[1])[r[2]] = t}
Views(t) == {v \in Nodes : graph.view_src[v] = t}

\* Fault: a node that reads a tensor twice is one child.
Count_OncePerNode ==
    /\ pc = "leafs" /\ n > Len(graph.leafs)
    /\ n_children' = [t \in Tensors |-> Cardinality({r[1] : r \in Reads(t)})]
    /\ n_views' = [t \in Tensors |-> Cardinality(Views(t))]
    /\ n' = 1 /\ pc' = "allocate"
    /\ UNCHANGED <<tallocVars, graph, tokens, j, offset, talloc, buffer, mem>>

\* The children and views of every tensor are counted.  (The tensors flagged
\* as inputs are leafs, and have their block already.)
Count ==
    /\ pc = "leafs" /\ n > Len(graph.leafs)
    /\ n_children' = [t \in Tensors |-> Cardinality(Reads(t))]
    /\ n_views' = [t \in Tensors |-> Cardinality(Views(t))]
    /\ n' = 1 /\ pc' = "allocate"
    /\ UNCHANGED <<tallocVars, graph, tokens, j, offset, talloc, buffer, mem>>

Node == graph.nodes[n]

AllocateParent ==
    /\ pc = "allocate" /\ j <= Len(Src(Node))
    /\ AllocateNode(Src(Node)[j])
    /\ j' = j + 1
    /\ UNCHANGED <<graph, tokens, pc, n, n_children, n_views, talloc, buffer, mem>>

AllocateDst ==
    /\ pc = "allocate" /\ j > Len(Src(Node))
    /\ AllocateNode(Node)
    /\ j' = 1 /\ pc' = "update"
    /\ UNCHANGED <<graph, tokens, n, n_children, n_views, talloc, buffer, mem>>

\* Fault: outputs are freed like anything else.
FreeNode_Outputs(t) == FreeTensor(t)

\* ggml_gallocr_free_node: graph outputs are never freed.
FreeNode(t) ==
    IF t \in graph.output THEN UNCHANGED tallocVars ELSE FreeTensor(t)

\* Fault: the last view that goes away does not free what it looked at.
UpdateParent_KeepsViewed ==
    /\ pc = "update" /\ j <= Len(Src(Node))
    /\ LET p == Src(Node)[j]
       IN  /\ n_children' = [n_children EXCEPT ![p] = @ - 1]
           /\ n_views' = IF n_children'[p] = 0 /\ n_views[p] = 0 /\ IsView(p)
                         THEN [n_views EXCEPT ![Root(p)] = @ - 1] ELSE n_views
           /\ IF /\ n_children'[p] = 0 /\ n_views[p] = 0 /\ p \in DOMAIN live
              THEN FreeNode(p)
              ELSE UNCHANGED tallocVars
    /\ j' = j + 1
    /\ UNCHANGED <<graph, tokens, pc, n, offset, talloc, buffer, mem>>

\* A source has been read once more.  After its last read its block is freed,
\* or, if it is a view, the block of what it looks at when that has no other
\* view and no reader left.  (A leaf that is a view was not counted as one:
\* n_views of what it looks at, which is of another graph, falls below 0.)
UpdateParent ==
    /\ pc = "update" /\ j <= Len(Src(Node))
    /\ LET p == Src(Node)[j]
           last == n_children[p] = 1 /\ n_views[p] = 0
       IN  /\ n_children' = [n_children EXCEPT ![p] = @ - 1]
           /\ n_views' = IF last /\ IsView(p)
                         THEN [n_views EXCEPT ![Root(p)] = @ - 1] ELSE n_views
           /\ IF /\ last /\ Root(p) \in DOMAIN live
                 /\ n_children'[Root(p)] = 0 /\ n_views'[Root(p)] = 0
              THEN FreeNode(Root(p))
              ELSE UNCHANGED tallocVars
    /\ j' = j + 1
    /\ UNCHANGED <<graph, tokens, pc, n, offset, talloc, buffer, mem>>

NextNode ==
    /\ pc = "update" /\ j > Len(Src(Node))
    /\ j' = 1 /\ n' = n + 1
    /\ pc' = IF n < Len(graph.nodes) THEN "allocate" ELSE "assign"
    /\ UNCHANGED <<tallocVars, graph, tokens, hash, talloc, buffer, mem>>

\* The offsets of the plan are kept, and the buffer is allocated anew when it
\* is too small.
Assign ==
    /\ pc = "assign"
    /\ talloc' = [t \in Tensors |->
                     IF Planned(t) THEN [offset |-> offset[t], size_max |-> NBytes(t)]
                                   ELSE [offset |-> 0, size_max |-> 0]]
    /\ IF max_size > buffer
       THEN buffer' = max_size /\ mem' = [c \in 0..(max_size - 1) |-> NoSrc]
       ELSE UNCHANGED <<buffer, mem>>
    /\ pc' = "ready" /\ n' = 1
    /\ UNCHANGED <<tallocVars, graph, tokens, j, hash>>

-----------------------------------------------------------------------------
(* The computation: tensor->data is the base of the buffer plus the offset. *)

Place(t) == talloc[t].offset .. (talloc[t].offset + NBytes(t) - 1)
Written(ts) ==
    [c \in DOMAIN mem |->
        IF \E t \in ts : c \in Place(t) THEN CHOOSE t \in ts : c \in Place(t) ELSE mem[c]]

\* The caller sets the inputs, that is the leafs.
SetInputs ==
    /\ pc = "ready"
    /\ mem' = Written({t \in LeafsOf(graph) : Planned(t)})
    /\ pc' = "compute"
    /\ UNCHANGED <<tallocVars, graph, tokens, n, j, hash, talloc, buffer>>

\* A view computes nothing.
ComputeNode ==
    /\ pc = "compute" /\ n <= Len(graph.nodes)
    /\ mem' = IF Planned(Node) THEN Written({Node}) ELSE mem
    /\ n' = n + 1
    /\ UNCHANGED <<tallocVars, graph, tokens, pc, j, hash, talloc, buffer>>

Computed ==
    /\ pc = "compute" /\ n > Len(graph.nodes)
    /\ pc' = "idle" /\ n' = 1
    /\ UNCHANGED <<tallocVars, graph, tokens, j, hash, talloc, buffer, mem>>

GallocNext ==
    \/ \E count \in TokenCounts : AllocGraph(count)
    \/ AllocateLeaf \/ Count \/ AllocateParent \/ AllocateDst \/ UpdateParent \/ NextNode
    \/ Assign \/ SetInputs \/ ComputeNode \/ Computed

GallocSpec == GallocInit /\ [][GallocNext]_gallocVars

-----------------------------------------------------------------------------
GallocTypeOK ==
    /\ TallocTypeOK
    /\ tokens \in TokenCounts
    /\ pc \in {"idle", "leafs", "allocate", "update", "assign", "ready", "compute"}
    /\ n \in Nat /\ j \in Nat
    /\ n_children \in [Tensors -> Nat] /\ n_views \in [Tensors -> Int]
    /\ \A t \in Tensors \ graph.external : n_views[t] \in Nat
    /\ offset \in [Tensors -> Nat]
    /\ talloc \in [Tensors -> [offset : Nat, size_max : Nat]]
    /\ buffer \in Nat
    /\ mem \in [0..(buffer - 1) -> Tensors \cup {NoSrc}]

Holds(t) == t \in graph.external \/ \A c \in Place(t) : c \in DOMAIN mem /\ mem[c] = t

\* A node finds in its sources' places what they have computed: no block was
\* given away before its last reader, seen through views, has been computed.
ReadsAreFresh ==
    pc = "compute" /\ n <= Len(graph.nodes) =>
        \A i \in DOMAIN Src(Node) : Holds(Root(Src(Node)[i]))

\* An operation writes over one of its sources only where it can work in
\* place, and then over exactly that source.
NoOpEatsItsSource ==
    pc = "compute" /\ n <= Len(graph.nodes) /\ Planned(Node) =>
        \A i \in DOMAIN Src(Node) :
            LET p == Root(Src(Node)[i])
            IN  \/ ~Planned(p) \/ Place(p) \cap Place(Node) = {}
                \/ Node \in graph.inplace /\ Place(p) = Place(Node)

\* The outputs of the graph are there when it has been computed.  (Flagging a
\* view does not protect what it looks at.)
OutputsSurvive ==
    pc = "compute" /\ n > Len(graph.nodes) =>
        \A t \in graph.output : IsView(t) \/ Holds(t)

\* The plan frees whatever has been read for the last time: what is left at
\* its end are the outputs and what nobody has read.
Unread(t) == \A m \in Nodes : \A i \in DOMAIN Src(m) : Src(m)[i] # t
NothingHeldBack ==
    pc = "assign" =>
        \A t \in DOMAIN live :
            t \in graph.output \/ Unread(t) \/ \E v \in Views(t) : Unread(v)
=============================================================================
