------------------------------ MODULE CellHeap ------------------------------
(***************************************************************************)
(* What an allocator promises, cell by cell: a tensor gets a run of cells  *)
(* that nobody has, and gives back exactly the cells it has got.           *)
(***************************************************************************)
EXTENDS Integers

CONSTANTS Tensors, Limit

VARIABLES
    free,   \* the cells that nobody has
    live    \* the block of each tensor that has one

heapVars == <<free, live>>

Cells == 0..(Limit - 1)
CellsOf(b) == b.offset .. (b.offset + b.size - 1)

HeapInit == free = Cells /\ live = [t \in {} |-> 0]

With(t, b) == [u \in DOMAIN live \cup {t} |-> IF u = t THEN b ELSE live[u]]
Without(t) == [u \in DOMAIN live \ {t} |-> live[u]]

HeapAlloc(t) ==
    /\ t \notin DOMAIN live /\ DOMAIN live' = DOMAIN live \cup {t}
    /\ LET b == live'[t]
       IN  /\ b \in [offset : 0..Limit, size : 1..Limit]
           /\ live' = With(t, b)
           /\ CellsOf(b) \subseteq free
           /\ free' = free \ CellsOf(b)

HeapFree(t) ==
    /\ t \in DOMAIN live /\ live' = Without(t)
    /\ free' = free \cup CellsOf(live[t])

\* One tensor takes the place of another.
HeapHandOver(t, u) ==
    /\ t \in DOMAIN live /\ u \in Tensors \ DOMAIN live
    /\ live' = [v \in (DOMAIN live \ {t}) \cup {u} |-> IF v = u THEN live[t] ELSE live[v]]
    /\ UNCHANGED free

HeapReset == live' = [t \in {} |-> 0] /\ free' = Cells

HeapNext ==
    \/ \E t \in Tensors : HeapAlloc(t) \/ HeapFree(t)
    \/ \E t, u \in Tensors : HeapHandOver(t, u)
    \/ HeapReset

HeapSpec == HeapInit /\ [][HeapNext]_heapVars
=============================================================================
