----------------------------- MODULE DynTallocr -----------------------------
(***************************************************************************)
(* The dynamic tensor allocator of ggml-alloc.c (ggml_dyn_tallocr): a      *)
(* sorted array of free blocks, best fit, blocks merged when a tensor is   *)
(* freed.  It hands out offsets only; the memory is allocated later, as    *)
(* large as the highest offset that was needed.                            *)
(*                                                                         *)
(* The caller (Gallocr) frees what it was given, with the size it asked    *)
(* for: live is what it holds, the allocated_tensors of the code's         *)
(* GGML_ALLOCATOR_DEBUG.                                                   *)
(***************************************************************************)
EXTENDS Integers, Sequences

CONSTANTS
    Tensors,
    Sizes,          \* the sizes of tensors; an empty tensor is not allocated
    Alignment,
    Limit,          \* SIZE_MAX/2
    MaxFreeBlocks

ASSUME SizesAssumption == Sizes \subseteq Nat \ {0}
ASSUME AlignmentAssumption == Alignment \in Nat \ {0}
ASSUME LimitAssumption == Limit \in Nat \ {0} /\ MaxFreeBlocks \in Nat \ {0}

VARIABLES
    free_blocks,  \* free_blocks[1..n_free_blocks]
    max_size,
    live          \* the block of each tensor that holds one

tallocVars == <<free_blocks, max_size, live>>

Seqs == INSTANCE SequencesExt

Block == [offset : Nat, size : Nat]
End(b) == b.offset + b.size
NFree == Len(free_blocks)

\* aligned_offset(NULL, size, alignment)
Aligned(size) == size + ((Alignment - (size % Alignment)) % Alignment)

NoTensor == [t \in {} |-> 0]
WithLive(t, b) == [u \in DOMAIN live \cup {t} |-> IF u = t THEN b ELSE live[u]]
WithoutLive(t) == [u \in DOMAIN live \ {t} |-> live[u]]

-----------------------------------------------------------------------------
TallocInit ==
    /\ free_blocks = <<[offset |-> 0, size |-> Limit]>>
    /\ max_size = 0
    /\ live = NoTensor

Reset ==
    /\ free_blocks' = <<[offset |-> 0, size |-> Limit]>>
    /\ max_size' = 0
    /\ live' = NoTensor

\* All blocks but the last one, which is the rest of the address space.
Fits(i, size) == i \in 1..(NFree - 1) /\ free_blocks[i].size >= size

\* The smallest block that fits, the last one of several; the last block is
\* the last resort.
BestFit(i, size) ==
    \/ /\ Fits(i, size)
       /\ \A j \in 1..(NFree - 1) : Fits(j, size) =>
              \/ free_blocks[i].size < free_blocks[j].size
              \/ free_blocks[i].size = free_blocks[j].size /\ j <= i
    \/ /\ i = NFree /\ free_blocks[i].size >= size
       /\ \A j \in 1..(NFree - 1) : ~Fits(j, size)

\* Fault: the rest of the block starts where the block did.
TakeFrom_KeepOffset(i, size) ==
    IF free_blocks[i].size = size
    THEN Seqs!RemoveAt(free_blocks, i)
    ELSE [free_blocks EXCEPT ![i].size = @ - size]

TakeFrom(i, size) ==
    IF free_blocks[i].size = size
    THEN Seqs!RemoveAt(free_blocks, i)
    ELSE [free_blocks EXCEPT ![i] = [offset |-> @.offset + size, size |-> @.size - size]]

\* Fault: the buffer is as large as the last allocation needs.
Alloc_LastEnd(t, size) ==
    \E i \in 1..NFree :
        LET b == [offset |-> free_blocks[i].offset, size |-> Aligned(size)]
        IN  /\ BestFit(i, Aligned(size))
            /\ free_blocks' = TakeFrom(i, Aligned(size))
            /\ max_size' = End(b)
            /\ live' = WithLive(t, b)

\* ggml_dyn_tallocr_alloc; without a block that fits the program aborts.
Alloc(t, size) ==
    \E i \in 1..NFree :
        LET b == [offset |-> free_blocks[i].offset, size |-> Aligned(size)]
        IN  /\ BestFit(i, Aligned(size))
            /\ free_blocks' = TakeFrom(i, Aligned(size))
            /\ max_size' = IF End(b) > max_size THEN End(b) ELSE max_size
            /\ live' = WithLive(t, b)

-----------------------------------------------------------------------------
(* Freeing.  The first block that touches the freed one is enlarged.       *)

EndsAt(i, b) == End(free_blocks[i]) = b.offset
StartsAt(i, b) == End(b) = free_blocks[i].offset
FirstTouching(i, b) ==
    /\ EndsAt(i, b) \/ StartsAt(i, b)
    /\ \A j \in 1..(i - 1) : ~EndsAt(j, b) /\ ~StartsAt(j, b)

Grown(i, size) == [free_blocks EXCEPT ![i].size = @ + size]

\* Fault: the block after the freed one is not merged.
AppendTo_NoMerge(i, b) == Grown(i, b.size)

\* The freed block b continues block i, and may close the gap to the next.
AppendTo(i, b) ==
    IF i < NFree /\ End(b) = free_blocks[i + 1].offset
    THEN Seqs!RemoveAt(Grown(i, b.size + free_blocks[i + 1].size), i + 1)
    ELSE Grown(i, b.size)

\* The freed block is continued by block i, and may close the gap to the
\* previous one.
PrependTo(i, b) ==
    IF i > 1 /\ EndsAt(i - 1, b)
    THEN Seqs!RemoveAt(Grown(i - 1, b.size + free_blocks[i].size), i)
    ELSE [free_blocks EXCEPT ![i] = [offset |-> b.offset, size |-> @.size + b.size]]

\* The place of a new block in the sorted array.
InsertPos(i, b) ==
    /\ i \in 1..(NFree + 1)
    /\ \A j \in 1..(i - 1) : free_blocks[j].offset < b.offset
    /\ i <= NFree => free_blocks[i].offset >= b.offset

\* "out of free blocks": the program aborts when the array is full.
Insert(b) ==
    /\ NFree < MaxFreeBlocks
    /\ \E i \in 1..(NFree + 1) :
        InsertPos(i, b) /\ free_blocks' = Seqs!InsertAt(free_blocks, i, b)

\* Blocks given back.
Release(b) ==
    \/ \E i \in 1..NFree :
        /\ FirstTouching(i, b)
        /\ free_blocks' = IF EndsAt(i, b) THEN AppendTo(i, b) ELSE PrependTo(i, b)
    \/ (\A i \in 1..NFree : ~EndsAt(i, b) /\ ~StartsAt(i, b)) /\ Insert(b)

\* ggml_dyn_tallocr_free_tensor
FreeTensor(t) ==
    /\ t \in DOMAIN live
    /\ Release(live[t])
    /\ live' = WithoutLive(t)
    /\ UNCHANGED max_size

\* The caller lets tensor u have the block of t.
HandOver(t, u) ==
    /\ t \in DOMAIN live
    /\ live' = [v \in (DOMAIN live \ {t}) \cup {u} |-> IF v = u THEN live[t] ELSE live[v]]
    /\ UNCHANGED <<free_blocks, max_size>>

TallocNext ==
    \/ \E t \in Tensors : t \notin DOMAIN live /\ \E size \in Sizes : Alloc(t, size)
    \/ \E t \in Tensors : FreeTensor(t)
    \/ \E t, u \in Tensors : u \notin DOMAIN live /\ HandOver(t, u)
    \/ Reset

TallocSpec == TallocInit /\ [][TallocNext]_tallocVars

-----------------------------------------------------------------------------
TallocTypeOK ==
    /\ free_blocks \in Seq(Block)
    /\ max_size \in Nat
    /\ DOMAIN live \subseteq Tensors
    /\ live \in [DOMAIN live -> Block]

\* The array is sorted, no block is empty, and no two of them touch: every
\* gap between two free blocks is held by tensors, so no request fails for
\* memory that is free but in pieces.
SortedAndMerged ==
    /\ \A i \in 1..NFree : free_blocks[i].size > 0
    /\ \A i, j \in 1..NFree : i < j => End(free_blocks[i]) < free_blocks[j].offset

FreeCells ==
    {c \in 0..(Limit - 1) :
        \E i \in 1..NFree : free_blocks[i].offset <= c /\ c < End(free_blocks[i])}

\* What is handed out was free, what is freed was held: no two tensors get
\* the same memory, and none of it is lost.
Heap == INSTANCE CellHeap WITH free <- FreeCells
ImplementsHeap == Heap!HeapSpec

\* Every tensor lies inside the buffer of max_size that is allocated later.
InsideBuffer == \A t \in DOMAIN live : End(live[t]) <= max_size
=============================================================================
