---------------------------- MODULE Memory_proofs ----------------------------
(***************************************************************************)
(* The sequential components that keep memory.                             *)
(*                                                                         *)
(* The tensor allocator, under any sequence of calls and for any number of *)
(* tensors of any size, keeps its array of free blocks sorted and merged,  *)
(* hands out memory that is free and inside the buffer, and loses none.    *)
(*                                                                         *)
(* The graph allocator, for any graphs and any numbers of tokens, never    *)
(* gives the memory of a tensor to another one before its last reader,     *)
(* seen through views, has been computed.                                  *)
(*                                                                         *)
(* The ring implements the sliding window for every size and window, with  *)
(* and without the counter.                                                *)
(***************************************************************************)
EXTENDS MCMemory, FiniteSetTheorems, SequenceTheorems, TLAPS

-----------------------------------------------------------------------------
(* The tensor allocator.                                                   *)

USE SizesAssumption, AlignmentAssumption, LimitAssumption

-----------------------------------------------------------------------------
\* Arrays with an element taken out or put in.
LEMMA Removed ==
    ASSUME NEW S, NEW s \in Seq(S), NEW i \in 1..Len(s)
    PROVE  LET r == Seqs!RemoveAt(s, i)
           IN  /\ r \in Seq(S) /\ Len(r) = Len(s) - 1
               /\ \A k \in 1..(i - 1) : r[k] = s[k]
               /\ \A k \in i..(Len(s) - 1) : r[k] = s[k + 1]
<1> DEFINE a == SubSeq(s, 1, i - 1)
           b == SubSeq(s, i + 1, Len(s))
<1>1. a \in Seq(S) /\ Len(a) = i - 1 /\ \A k \in 1..(i - 1) : a[k] = s[k]
  OBVIOUS
<1>2. b \in Seq(S) /\ Len(b) = Len(s) - i /\ \A k \in 1..(Len(s) - i) : b[k] = s[k + i]
  OBVIOUS
<1>3. Seqs!RemoveAt(s, i) = a \o b BY DEF Seqs!RemoveAt
<1> HIDE DEF a, b
<1>4. a \o b \in Seq(S) /\ Len(a \o b) = Len(s) - 1
  <2>1. a \in Seq(S) /\ b \in Seq(S) BY <1>1, <1>2
  <2>2. a \o b \in Seq(S) /\ Len(a \o b) = Len(a) + Len(b) BY <2>1
  <2>3. Len(a) = i - 1 /\ Len(b) = Len(s) - i BY <1>1, <1>2
  <2> QED BY <2>2, <2>3
<1>5. ASSUME NEW k \in 1..(i - 1) PROVE (a \o b)[k] = s[k] BY <1>1, <1>2, <1>5
<1>6. ASSUME NEW k \in i..(Len(s) - 1) PROVE (a \o b)[k] = s[k + 1]
  <2>1. (a \o b)[k] = b[k - Len(a)] BY <1>1, <1>2, <1>6
  <2>2. k - Len(a) \in 1..(Len(s) - i) BY <1>1, <1>6
  <2>3. b[k - Len(a)] = s[k - Len(a) + i] BY <1>2, <2>2
  <2>4. k - Len(a) + i = k + 1 BY <1>1, <1>6
  <2> QED BY <2>1, <2>3, <2>4
<1> QED BY <1>3, <1>4, <1>5, <1>6

LEMMA Inserted ==
    ASSUME NEW S, NEW s \in Seq(S), NEW e \in S, NEW i \in 1..(Len(s) + 1)
    PROVE  LET r == Seqs!InsertAt(s, i, e)
           IN  /\ r \in Seq(S) /\ Len(r) = Len(s) + 1
               /\ \A k \in 1..(i - 1) : r[k] = s[k]
               /\ r[i] = e
               /\ \A k \in i..Len(s) : r[k + 1] = s[k]
<1> DEFINE a == SubSeq(s, 1, i - 1)
           b == SubSeq(s, i, Len(s))
           c == a \o <<e>>
<1>1. a \in Seq(S) /\ Len(a) = i - 1 /\ \A k \in 1..(i - 1) : a[k] = s[k]
  OBVIOUS
<1>2. /\ b \in Seq(S) /\ Len(b) = Len(s) - i + 1
      /\ \A k \in 1..(Len(s) - i + 1) : b[k] = s[k + i - 1]
  OBVIOUS
<1>3. Seqs!InsertAt(s, i, e) = c \o b BY DEF Seqs!InsertAt
<1> HIDE DEF a, b
<1>4. c \in Seq(S) /\ Len(c) = i /\ c[i] = e /\ \A k \in 1..(i - 1) : c[k] = s[k]
  BY <1>1
<1> HIDE DEF c
<1>5. c \o b \in Seq(S) /\ Len(c \o b) = Len(s) + 1
  <2>1. c \in Seq(S) /\ b \in Seq(S) BY <1>2, <1>4
  <2>2. c \o b \in Seq(S) /\ Len(c \o b) = Len(c) + Len(b) BY <2>1
  <2> QED BY <1>2, <1>4, <2>2
<1>6. ASSUME NEW k \in 1..i PROVE (c \o b)[k] = c[k] BY <1>2, <1>4, <1>6
<1>7. ASSUME NEW k \in i..Len(s) PROVE (c \o b)[k + 1] = s[k]
  <2>0. Len(c) \in Nat /\ Len(b) \in Nat /\ k + 1 \in (Len(c) + 1)..(Len(c) + Len(b))
    BY <1>2, <1>4, <1>7
  <2>1. (c \o b)[k + 1] = b[k + 1 - Len(c)]
    <3>1. \A x \in 1..(Len(c) + Len(b)) :
             (c \o b)[x] = IF x <= Len(c) THEN c[x] ELSE b[x - Len(c)]
      BY <1>2, <1>4, ConcatProperties, Zenon
    <3>2. k + 1 \in 1..(Len(c) + Len(b)) /\ ~(k + 1 <= Len(c)) BY <2>0
    <3> QED BY <3>1, <3>2
  <2>2. k + 1 - i \in 1..(Len(s) - i + 1) BY <1>7
  <2>3. b[k + 1 - i] = s[k + 1 - i + i - 1] BY <1>2, <2>2
  <2>4. k + 1 - i + i - 1 = k BY <1>7
  <2> QED BY <1>4, <2>1, <2>3, <2>4
<1> QED BY <1>3, <1>4, <1>5, <1>6, <1>7

\* An aligned size is at least the size.
LEMMA AlignedSize ==
    ASSUME NEW size \in Nat \ {0} PROVE Aligned(size) \in Nat \ {0} /\ size <= Aligned(size)
<1>1. \A a \in Int : a % Alignment \in 0..(Alignment - 1) BY SMT
<1>2. size \in Nat \ {0} OBVIOUS
<1>3. (Alignment - (size % Alignment)) % Alignment \in Nat BY <1>1, <1>2
<1> QED BY <1>2, <1>3 DEF Aligned
-----------------------------------------------------------------------------
In(c, b) == b.offset <= c /\ c < End(b)
Covers(s, c) == \E i \in 1..Len(s) : In(c, s[i])

\* An array of free blocks as it should be.
Tidy(s) ==
    /\ s \in Seq(Block)
    /\ \A i \in 1..Len(s) : s[i].size > 0 /\ End(s[i]) <= Limit
    /\ \A i, k \in 1..Len(s) : i < k => End(s[i]) < s[k].offset

\* The blocks of tensors lie inside the buffer and the address space, no two
\* of them overlap, and none overlaps a free block.
HeldOK ==
    \A t \in DOMAIN live :
        live[t].size > 0 /\ End(live[t]) <= max_size /\ End(live[t]) <= Limit
ApartOK ==
    /\ \A t \in DOMAIN live, c \in Nat : In(c, live[t]) => ~Covers(free_blocks, c)
    /\ \A t, u \in DOMAIN live, c \in Nat : In(c, live[t]) /\ In(c, live[u]) => t = u

TallocInv == TallocTypeOK /\ Tidy(free_blocks) /\ HeldOK /\ ApartOK

\* Two blocks that share no cell lie one after the other.
LEMMA Beside ==
    ASSUME NEW a \in Block, NEW b \in Block, a.size > 0, b.size > 0,
           \A c \in Nat : ~(In(c, a) /\ In(c, b))
    PROVE  End(a) <= b.offset \/ End(b) <= a.offset
<1>1. ~(In(a.offset, a) /\ In(a.offset, b)) /\ ~(In(b.offset, a) /\ In(b.offset, b))
  BY DEF Block
<1> QED BY <1>1 DEF In, End, Block

LEMMA Ordered ==
    ASSUME NEW a \in Block, NEW b \in Block, NEW c \in Nat, In(c, a),
           End(a) <= b.offset \/ End(b) <= a.offset
    PROVE  ~In(c, b)
BY DEF In, End, Block

LEMMA BlockNats ==
    ASSUME NEW b \in Block PROVE b.offset \in Nat /\ b.size \in Nat /\ End(b) \in Nat
BY DEF Block, End

\* Taking the front of a block leaves a tidy array without those cells.
LEMMA Taken ==
    ASSUME Tidy(free_blocks), NEW i \in 1..NFree, NEW size \in Nat \ {0},
           size <= free_blocks[i].size
    PROVE  LET b == [offset |-> free_blocks[i].offset, size |-> size]
               r == TakeFrom(i, size)
           IN  /\ Tidy(r)
               /\ \A c \in Nat : Covers(r, c) <=> Covers(free_blocks, c) /\ ~In(c, b)
<1> DEFINE s == free_blocks
           b == [offset |-> s[i].offset, size |-> size]
           r == TakeFrom(i, size)
<1>0. /\ s \in Seq(Block) /\ Len(s) \in Nat /\ i \in 1..Len(s)
      /\ \A k \in 1..Len(s) : s[k] \in Block /\ s[k].size > 0 /\ End(s[k]) <= Limit
      /\ \A k, l \in 1..Len(s) : k < l => End(s[k]) < s[l].offset
  BY DEF Tidy, NFree
<1>1. CASE s[i].size = size
  <2>1. r = Seqs!RemoveAt(s, i) BY <1>1 DEF TakeFrom
  <2>2. /\ r \in Seq(Block) /\ Len(r) = Len(s) - 1
        /\ \A k \in 1..(i - 1) : r[k] = s[k]
        /\ \A k \in i..(Len(s) - 1) : r[k] = s[k + 1]
    BY <1>0, <2>1, Removed
  <2> HIDE DEF r
  <2>3. Tidy(r)
    <3> DEFINE at(k) == IF k < i THEN k ELSE k + 1
    <3>1. ASSUME NEW k \in 1..Len(r) PROVE at(k) \in 1..Len(s) /\ r[k] = s[at(k)]
      <4>1. CASE k < i BY <1>0, <2>2, <4>1
      <4>2. CASE k >= i BY <1>0, <2>2, <4>2
      <4> QED BY <1>0, <2>2, <4>1, <4>2
    <3>2. \A k, l \in 1..Len(r) : k < l => at(k) < at(l) BY <1>0, <2>2
    <3> HIDE DEF at
    <3> QED BY <1>0, <2>2, <3>1, <3>2 DEF Tidy
  <2>4. ASSUME NEW c \in Nat PROVE Covers(r, c) <=> Covers(s, c) /\ ~In(c, b)
    <3>1. In(c, b) <=> In(c, s[i]) BY <1>0, <1>1 DEF In, End
    <3>2. ASSUME NEW k \in 1..Len(s), k # i, In(c, s[k]) PROVE ~In(c, s[i])
      <4>1. End(s[k]) < s[i].offset \/ End(s[i]) < s[k].offset BY <1>0, <3>2
      <4>2. End(s[k]) <= s[i].offset \/ End(s[i]) <= s[k].offset
        BY <1>0, <4>1, BlockNats
      <4> QED BY <1>0, <3>2, <4>2, Ordered
    <3>3. ASSUME NEW k \in 1..Len(r), In(c, r[k])
          PROVE  \E l \in 1..Len(s) : l # i /\ In(c, s[l])
      <4>1. CASE k < i BY <1>0, <2>2, <3>3, <4>1
      <4>2. CASE k >= i
        <5>1. k + 1 \in 1..Len(s) /\ k + 1 # i /\ r[k] = s[k + 1] BY <1>0, <2>2, <4>2
        <5> QED BY <3>3, <5>1
      <4> QED BY <1>0, <2>2, <4>1, <4>2
    <3>4. ASSUME NEW k \in 1..Len(s), k # i, In(c, s[k]) PROVE Covers(r, c)
      <4>1. CASE k < i
        <5>1. k \in 1..Len(r) /\ r[k] = s[k] BY <1>0, <2>2, <4>1
        <5> QED BY <3>4, <5>1 DEF Covers
      <4>2. CASE k > i
        <5>1. k - 1 \in 1..Len(r) /\ r[k - 1] = s[k - 1 + 1] BY <1>0, <2>2, <4>2
        <5>2. k - 1 + 1 = k OBVIOUS
        <5> QED BY <3>4, <5>1, <5>2 DEF Covers
      <4> QED BY <1>0, <3>4, <4>1, <4>2
    <3> QED BY <3>1, <3>2, <3>3, <3>4 DEF Covers
  <2> QED BY <2>3, <2>4 DEF r
<1>2. CASE s[i].size # size
  <2>1. r = [s EXCEPT ![i] = [offset |-> s[i].offset + size, size |-> s[i].size - size]]
    BY <1>2 DEF TakeFrom
  <2>2. /\ s[i].offset \in Nat /\ s[i].size \in Nat /\ s[i].size > size BY <1>0, <1>2 DEF Block
  <2> DEFINE rest == [offset |-> s[i].offset + size, size |-> s[i].size - size]
  <2>3. /\ rest \in Block /\ rest.size > 0 /\ End(rest) = End(s[i])
        /\ rest.offset > s[i].offset
    BY <2>2 DEF Block, End
  <2>4. /\ r \in Seq(Block) /\ Len(r) = Len(s) /\ r[i] = rest
        /\ \A k \in 1..Len(s) : k # i => r[k] = s[k]
    BY <1>0, <2>1, <2>3
  <2>5. \A c \in Nat : In(c, rest) <=> In(c, s[i]) /\ ~In(c, b)
    BY <2>2 DEF In, End
  <2> HIDE DEF r, rest
  <2>6. Tidy(r)
    <3>1. ASSUME NEW k \in 1..Len(s)
          PROVE  End(r[k]) = End(s[k]) /\ r[k].offset >= s[k].offset /\ r[k].size > 0
      <4>1. CASE k = i BY <2>2, <2>3, <2>4, <4>1, BlockNats
      <4>2. CASE k # i BY <1>0, <2>4, <4>2, BlockNats
      <4> QED BY <4>1, <4>2
    <3>2. \A k \in 1..Len(s) : r[k].offset \in Nat /\ s[k].offset \in Nat /\ End(s[k]) \in Nat
      <4>1. \A k \in 1..Len(s) : r[k] \in Block /\ s[k] \in Block BY <1>0, <2>4
      <4> QED BY <4>1, BlockNats
    <3>3. ASSUME NEW k \in 1..Len(s), NEW l \in 1..Len(s), k < l PROVE End(r[k]) < r[l].offset
      <4>1. End(s[k]) < s[l].offset BY <1>0, <3>3
      <4> QED BY <3>1, <3>2, <4>1
    <3> QED BY <1>0, <2>4, <3>1, <3>3 DEF Tidy
  <2>7. ASSUME NEW c \in Nat PROVE Covers(r, c) <=> Covers(s, c) /\ ~In(c, b)
    <3>1. ASSUME NEW k \in 1..Len(s), k # i, In(c, s[k]) PROVE ~In(c, b)
      <4>1. End(s[k]) < s[i].offset \/ End(s[i]) < s[k].offset BY <1>0, <3>1
      <4>0. b.offset = s[i].offset /\ End(b) <= End(s[i]) /\ End(b) \in Nat
        BY <2>2 DEF End
      <4> HIDE DEF b
      <4>2. End(s[k]) <= b.offset \/ End(b) <= s[k].offset
        BY <1>0, <4>0, <4>1, BlockNats
      <4>3. b \in Block BY <2>2 DEF Block, b
      <4> QED BY <1>0, <3>1, <4>2, <4>3, Ordered
    <3> QED BY <1>0, <2>4, <2>5, <3>1 DEF Covers
  <2> QED BY <2>6, <2>7 DEF r
<1> QED BY <1>1, <1>2
-----------------------------------------------------------------------------
\* A block that grows at its end.
LEMMA GrownBlock ==
    ASSUME NEW b \in Block, NEW size \in Nat
    PROVE  [b EXCEPT !.size = @ + size] = [offset |-> b.offset, size |-> b.size + size]
BY DEF Block

LEMMA Grows ==
    ASSUME free_blocks \in Seq(Block), NEW i \in 1..NFree, NEW size \in Nat
    PROVE  LET r == Grown(i, size)
           IN  /\ r \in Seq(Block) /\ Len(r) = NFree
               /\ r[i] = [offset |-> free_blocks[i].offset, size |-> free_blocks[i].size + size]
               /\ \A k \in 1..NFree : k # i => r[k] = free_blocks[k]
<1> DEFINE grown == [free_blocks[i] EXCEPT !.size = @ + size]
<1>1. free_blocks[i] \in Block /\ NFree = Len(free_blocks) BY DEF NFree
<1>2. grown = [offset |-> free_blocks[i].offset, size |-> free_blocks[i].size + size]
  BY <1>1, GrownBlock
<1>3. grown \in Block BY <1>1, <1>2, BlockNats DEF Block
<1>4. Grown(i, size) = [free_blocks EXCEPT ![i] = grown] BY DEF Grown
<1> HIDE DEF grown
<1> QED BY <1>1, <1>2, <1>3, <1>4

\* The freed block b is added to block i.
LEMMA Widened ==
    ASSUME NEW s, Tidy(s), NEW i \in 1..Len(s), NEW b \in Block,
           NEW r \in Seq(Block), Len(r) = Len(s),
           \A k \in 1..Len(s) : k # i => r[k] = s[k],
           r[i].size > 0, End(r[i]) <= Limit,
           \A k \in 1..(i - 1) : End(s[k]) < r[i].offset,
           \A k \in (i + 1)..Len(s) : End(r[i]) < s[k].offset,
           \A c \in Nat : In(c, r[i]) <=> In(c, s[i]) \/ In(c, b)
    PROVE  /\ Tidy(r)
           /\ \A c \in Nat : Covers(r, c) <=> Covers(s, c) \/ In(c, b)
<1>1. /\ s \in Seq(Block) /\ Len(s) \in Nat
      /\ \A k \in 1..Len(s) : s[k].size > 0 /\ End(s[k]) <= Limit
      /\ \A k, l \in 1..Len(s) : k < l => End(s[k]) < s[l].offset
  BY DEF Tidy
<1>2. ASSUME NEW k \in 1..Len(s), NEW l \in 1..Len(s), k < l PROVE End(r[k]) < r[l].offset
  <2>1. CASE k = i BY <1>1, <1>2, <2>1
  <2>2. CASE l = i BY <1>1, <1>2, <2>2
  <2>3. CASE k # i /\ l # i BY <1>1, <1>2, <2>3
  <2> QED BY <2>1, <2>2, <2>3
<1>3. \A k \in 1..Len(s) : r[k].size > 0 /\ End(r[k]) <= Limit BY <1>1
<1>4. Tidy(r) BY <1>2, <1>3 DEF Tidy
<1>5. \A c \in Nat : Covers(r, c) <=> Covers(s, c) \/ In(c, b) BY <1>1 DEF Covers
<1> QED BY <1>4, <1>5

\* Blocks i and i + 1 become one, with the freed block b between them.
LEMMA Joined ==
    ASSUME NEW s, Tidy(s), NEW i \in 1..(Len(s) - 1), NEW b \in Block,
           NEW r \in Seq(Block), Len(r) = Len(s) - 1,
           \A k \in 1..(i - 1) : r[k] = s[k],
           \A k \in (i + 1)..(Len(s) - 1) : r[k] = s[k + 1],
           r[i].size > 0, r[i].offset = s[i].offset, End(r[i]) = End(s[i + 1]),
           \A c \in Nat : In(c, r[i]) <=> In(c, s[i]) \/ In(c, b) \/ In(c, s[i + 1])
    PROVE  /\ Tidy(r)
           /\ \A c \in Nat : Covers(r, c) <=> Covers(s, c) \/ In(c, b)
<1>1. /\ s \in Seq(Block) /\ Len(s) \in Nat /\ i \in Nat
      /\ \A k \in 1..Len(s) : s[k].size > 0 /\ End(s[k]) <= Limit
      /\ \A k, l \in 1..Len(s) : k < l => End(s[k]) < s[l].offset
  BY DEF Tidy
<1> DEFINE first(k) == IF k <= i THEN k ELSE k + 1
           last(k) == IF k < i THEN k ELSE k + 1
<1>2. ASSUME NEW k \in 1..Len(r)
      PROVE  /\ first(k) \in 1..Len(s) /\ r[k].offset = s[first(k)].offset
             /\ last(k) \in 1..Len(s) /\ End(r[k]) = End(s[last(k)])
             /\ r[k].size > 0
  <2>1. CASE k < i BY <1>1, <2>1
  <2>2. CASE k = i BY <1>1, <2>2
  <2>3. CASE k > i
    <3>1. k + 1 \in 1..Len(s) /\ r[k] = s[k + 1] /\ first(k) = k + 1 /\ last(k) = k + 1
      BY <1>1, <2>3
    <3> QED BY <1>1, <3>1
  <2> QED BY <1>1, <2>1, <2>2, <2>3
<1>3. \A k, l \in 1..Len(r) : k < l => last(k) < first(l) BY <1>1
<1>4. Tidy(r)
  <2> HIDE DEF first, last
  <2> QED BY <1>1, <1>2, <1>3 DEF Tidy
<1>5. ASSUME NEW c \in Nat, Covers(r, c) PROVE Covers(s, c) \/ In(c, b)
  <2>1. PICK k \in 1..Len(r) : In(c, r[k]) BY <1>5 DEF Covers
  <2>2. CASE k = i
    <3>1. i \in 1..Len(s) /\ i + 1 \in 1..Len(s) BY <1>1
    <3> QED BY <2>1, <2>2, <3>1 DEF Covers
  <2>3. CASE k < i
    <3>1. k \in 1..Len(s) /\ r[k] = s[k] BY <1>1, <2>3
    <3> QED BY <2>1, <3>1 DEF Covers
  <2>4. CASE k > i
    <3>1. k + 1 \in 1..Len(s) /\ r[k] = s[k + 1] BY <1>1, <2>4
    <3> QED BY <2>1, <3>1 DEF Covers
  <2> QED BY <1>1, <2>2, <2>3, <2>4
<1>6. ASSUME NEW c \in Nat, Covers(s, c) \/ In(c, b) PROVE Covers(r, c)
  <2>0. i \in 1..Len(r) BY <1>1
  <2>1. CASE In(c, b) BY <2>0, <2>1 DEF Covers
  <2>2. CASE Covers(s, c)
    <3>1. PICK k \in 1..Len(s) : In(c, s[k]) BY <2>2 DEF Covers
    <3>2. CASE k = i \/ k = i + 1 BY <2>0, <3>1, <3>2 DEF Covers
    <3>3. CASE k < i
      <4>1. k \in 1..Len(r) /\ r[k] = s[k] BY <1>1, <3>3
      <4> QED BY <3>1, <4>1 DEF Covers
    <3>4. CASE k > i + 1
      <4>1. k - 1 \in (i + 1)..(Len(s) - 1) /\ k - 1 \in 1..Len(r) /\ k - 1 + 1 = k
        BY <1>1, <3>4
      <4>2. r[k - 1] = s[k - 1 + 1] BY <4>1
      <4> QED BY <3>1, <4>1, <4>2 DEF Covers
    <3> QED BY <1>1, <3>2, <3>3, <3>4
  <2> QED BY <1>6, <2>1, <2>2
<1> QED BY <1>4, <1>5, <1>6

\* The freed block b becomes block p.
LEMMA PutIn ==
    ASSUME NEW s, Tidy(s), NEW b \in Block, b.size > 0, End(b) <= Limit,
           NEW p \in 1..(Len(s) + 1),
           NEW r \in Seq(Block), Len(r) = Len(s) + 1,
           \A k \in 1..(p - 1) : r[k] = s[k],
           r[p] = b,
           \A k \in p..Len(s) : r[k + 1] = s[k],
           \A k \in 1..(p - 1) : End(s[k]) < b.offset,
           \A k \in p..Len(s) : End(b) < s[k].offset
    PROVE  /\ Tidy(r)
           /\ \A c \in Nat : Covers(r, c) <=> Covers(s, c) \/ In(c, b)
<1>1. /\ s \in Seq(Block) /\ Len(s) \in Nat /\ p \in Nat
      /\ \A k \in 1..Len(s) : s[k].size > 0 /\ End(s[k]) <= Limit
      /\ \A k, l \in 1..Len(s) : k < l => End(s[k]) < s[l].offset
  BY DEF Tidy
<1>2. ASSUME NEW k \in 1..Len(r), k # p
      PROVE  LET o == IF k < p THEN k ELSE k - 1
             IN  o \in 1..Len(s) /\ r[k] = s[o]
  <2>1. CASE k < p BY <1>1, <2>1
  <2>2. CASE k > p
    <3>1. k - 1 \in p..Len(s) /\ k - 1 + 1 = k BY <1>1, <2>2
    <3>2. r[k - 1 + 1] = s[k - 1] BY <3>1
    <3> QED BY <1>1, <2>2, <3>1, <3>2
  <2> QED BY <1>1, <1>2, <2>1, <2>2
<1>3. Tidy(r)
  <2>1. ASSUME NEW k \in 1..Len(r) PROVE r[k].size > 0 /\ End(r[k]) <= Limit
    BY <1>1, <1>2
  <2>2. ASSUME NEW k \in 1..Len(r), NEW l \in 1..Len(r), k < l PROVE End(r[k]) < r[l].offset
    <3>1. CASE k = p
      <4>1. l - 1 \in p..Len(s) /\ r[l] = s[l - 1] BY <1>1, <1>2, <2>2, <3>1
      <4> QED BY <3>1, <4>1
    <3>2. CASE l = p
      <4>1. k \in 1..(p - 1) /\ r[k] = s[k] BY <1>1, <2>2, <3>2
      <4> QED BY <3>2, <4>1
    <3>3. CASE k # p /\ l # p
      <4> DEFINE o(x) == IF x < p THEN x ELSE x - 1
      <4>1. o(k) \in 1..Len(s) /\ r[k] = s[o(k)] BY <1>2, <3>3
      <4>2. o(l) \in 1..Len(s) /\ r[l] = s[o(l)] BY <1>2, <3>3
      <4>3. o(k) < o(l) BY <1>1, <2>2, <3>3
      <4> HIDE DEF o
      <4> QED BY <1>1, <4>1, <4>2, <4>3
    <3> QED BY <3>1, <3>2, <3>3
  <2> QED BY <2>1, <2>2 DEF Tidy
<1>4. ASSUME NEW c \in Nat, Covers(r, c) PROVE Covers(s, c) \/ In(c, b)
  <2>1. PICK k \in 1..Len(r) : In(c, r[k]) BY <1>4 DEF Covers
  <2>2. CASE k = p BY <2>1, <2>2
  <2>3. CASE k # p BY <1>2, <2>1, <2>3 DEF Covers
  <2> QED BY <2>2, <2>3
<1>5. ASSUME NEW c \in Nat, Covers(s, c) \/ In(c, b) PROVE Covers(r, c)
  <2>0. p \in 1..Len(r) BY <1>1
  <2>1. CASE In(c, b) BY <2>0, <2>1 DEF Covers
  <2>2. CASE Covers(s, c)
    <3>1. PICK k \in 1..Len(s) : In(c, s[k]) BY <2>2 DEF Covers
    <3>2. CASE k < p
      <4>1. k \in 1..Len(r) /\ r[k] = s[k] BY <1>1, <3>2
      <4> QED BY <3>1, <4>1 DEF Covers
    <3>3. CASE k >= p
      <4>1. k \in p..Len(s) /\ k + 1 \in 1..Len(r) BY <1>1, <3>3
      <4>2. r[k + 1] = s[k] BY <4>1
      <4> QED BY <3>1, <4>1, <4>2 DEF Covers
    <3> QED BY <1>1, <3>2, <3>3
  <2> QED BY <1>5, <2>1, <2>2
<1> QED BY <1>3, <1>4, <1>5
-----------------------------------------------------------------------------
\* Giving back a block that shares no cell with a free one leaves a tidy array
\* with exactly those cells more.
LEMMA Released ==
    ASSUME Tidy(free_blocks), NEW b \in Block, b.size > 0, End(b) <= Limit,
           \A c \in Nat : In(c, b) => ~Covers(free_blocks, c),
           Release(b)
    PROVE  /\ Tidy(free_blocks')
           /\ \A c \in Nat : Covers(free_blocks', c) <=> Covers(free_blocks, c) \/ In(c, b)
<1> DEFINE s == free_blocks
<1>1. /\ s \in Seq(Block) /\ Len(s) \in Nat /\ NFree = Len(s)
      /\ \A k \in 1..Len(s) : s[k] \in Block /\ s[k].size > 0 /\ End(s[k]) <= Limit
      /\ \A k, l \in 1..Len(s) : k < l => End(s[k]) < s[l].offset
  BY DEF Tidy, NFree
<1>2. \A k \in 1..Len(s) :
          /\ s[k].offset \in Nat /\ s[k].size \in Nat /\ End(s[k]) \in Nat
          /\ s[k].offset < End(s[k])
  <2>1. \A k \in 1..Len(s) : s[k].offset \in Nat /\ s[k].size \in Nat /\ End(s[k]) \in Nat
    BY <1>1, BlockNats
  <2> QED BY <1>1, <2>1 DEF End
<1>3. b.offset \in Nat /\ b.size \in Nat /\ End(b) \in Nat /\ b.offset < End(b)
  <2>1. b.offset \in Nat /\ b.size \in Nat /\ End(b) \in Nat BY BlockNats
  <2> QED BY <2>1 DEF End
<1>4. ASSUME NEW k \in 1..Len(s) PROVE End(s[k]) <= b.offset \/ End(b) <= s[k].offset
  <2>1. \A c \in Nat : ~(In(c, s[k]) /\ In(c, b)) BY DEF Covers
  <2> QED BY <1>1, <2>1, Beside
<1>5. ASSUME NEW i \in 1..NFree, FirstTouching(i, b), EndsAt(i, b)
      PROVE  LET r == AppendTo(i, b)
             IN  Tidy(r) /\ \A c \in Nat : Covers(r, c) <=> Covers(s, c) \/ In(c, b)
  <2>0. End(s[i]) = b.offset /\ i \in 1..Len(s) BY <1>1, <1>5 DEF EndsAt
  <2>1. CASE i < NFree /\ End(b) = s[i + 1].offset
    <3> DEFINE g == Grown(i, b.size + s[i + 1].size)
               r == Seqs!RemoveAt(g, i + 1)
               size == b.size + s[i + 1].size
    <3>1. i + 1 \in 1..Len(s) BY <1>1, <2>0, <2>1
    <3>2. size \in Nat BY <1>2, <1>3, <3>1
    <3>3. /\ g \in Seq(Block) /\ Len(g) = Len(s)
          /\ g[i] = [offset |-> s[i].offset, size |-> s[i].size + size]
          /\ \A k \in 1..Len(s) : k # i => g[k] = s[k]
      BY <1>1, <2>0, <3>2, Grows
    <3> HIDE DEF g
    <3>4. /\ r \in Seq(Block) /\ Len(r) = Len(s) - 1
          /\ \A k \in 1..(i + 1 - 1) : r[k] = g[k]
          /\ \A k \in (i + 1)..(Len(s) - 1) : r[k] = g[k + 1]
      <4>1. g \in Seq(Block) /\ i + 1 \in 1..Len(g) BY <3>1, <3>3
      <4>2. /\ r \in Seq(Block) /\ Len(r) = Len(g) - 1
            /\ \A k \in 1..(i + 1 - 1) : r[k] = g[k]
            /\ \A k \in (i + 1)..(Len(g) - 1) : r[k] = g[k + 1]
        BY <4>1, Removed
      <4>3. Len(g) = Len(s) BY <3>3
      <4> HIDE DEF r
      <4> QED BY <4>2, <4>3
    <3> HIDE DEF r
    <3>5. r[i] = [offset |-> s[i].offset, size |-> s[i].size + size] BY <2>0, <3>3, <3>4
    <3>6. ASSUME NEW k \in 1..(i - 1) PROVE r[k] = s[k]
      <4>1. k \in 1..(i + 1 - 1) /\ k \in 1..Len(s) /\ k # i BY <2>0
      <4>2. r[k] = g[k] BY <3>4, <4>1
      <4>3. g[k] = s[k] BY <3>3, <4>1
      <4> QED BY <4>2, <4>3
    <3>7. \A k \in (i + 1)..(Len(s) - 1) : r[k] = s[k + 1] BY <2>0, <3>3, <3>4
    <3>8. /\ r[i].size > 0 /\ r[i].offset = s[i].offset /\ End(r[i]) = End(s[i + 1])
      <4>1. r[i].size > 0 /\ r[i].offset = s[i].offset BY <1>1, <1>2, <2>0, <3>2, <3>5
      <4>2. End(r[i]) = End(s[i]) + size BY <1>2, <2>0, <3>2, <3>5 DEF End
      <4>3. End(s[i + 1]) = s[i + 1].offset + s[i + 1].size /\ End(b) = b.offset + b.size
        BY DEF End
      <4>4. s[i + 1].size \in Nat BY <1>2, <3>1
      <4> QED BY <1>3, <2>0, <2>1, <4>1, <4>2, <4>3, <4>4
    <3>9. \A c \in Nat : In(c, r[i]) <=> In(c, s[i]) \/ In(c, b) \/ In(c, s[i + 1])
      <4>1. s[i].offset < End(s[i]) /\ End(s[i]) = b.offset /\ b.offset < End(b)
            /\ End(b) = s[i + 1].offset /\ s[i + 1].offset < End(s[i + 1])
        BY <1>2, <1>3, <2>0, <2>1, <3>1
      <4>2. /\ s[i].offset \in Nat /\ End(s[i]) \in Nat
            /\ s[i + 1].offset \in Nat /\ End(s[i + 1]) \in Nat
        BY <1>2, <2>0, <3>1
      <4> QED BY <1>3, <3>8, <4>1, <4>2 DEF In
    <3>10. i \in 1..(Len(s) - 1) BY <2>0, <3>1
    <3>11. Tidy(r) /\ \A c \in Nat : Covers(r, c) <=> Covers(s, c) \/ In(c, b)
      BY <3>4, <3>6, <3>7, <3>8, <3>9, <3>10, Joined
    <3>12. AppendTo(i, b) = r BY <2>1 DEF AppendTo, r, g
    <3> QED BY <3>11, <3>12
  <2>2. CASE ~(i < NFree /\ End(b) = s[i + 1].offset)
    <3> DEFINE r == Grown(i, b.size)
    <3>1. /\ r \in Seq(Block) /\ Len(r) = Len(s)
          /\ r[i] = [offset |-> s[i].offset, size |-> s[i].size + b.size]
          /\ \A k \in 1..Len(s) : k # i => r[k] = s[k]
      BY <1>1, <1>3, <2>0, Grows
    <3> HIDE DEF r
    <3>2. /\ r[i].size > 0 /\ r[i].offset = s[i].offset /\ End(r[i]) = End(b)
      <4>1. r[i].size > 0 /\ r[i].offset = s[i].offset BY <1>1, <1>2, <1>3, <2>0, <3>1
      <4>2. End(r[i]) = End(s[i]) + b.size BY <1>2, <1>3, <2>0, <3>1 DEF End
      <4>3. End(b) = b.offset + b.size BY DEF End
      <4> QED BY <2>0, <4>1, <4>2, <4>3
    <3>3. \A k \in 1..(i - 1) : End(s[k]) < r[i].offset BY <1>1, <2>0, <3>2
    <3>4. ASSUME NEW k \in (i + 1)..Len(s) PROVE End(r[i]) < s[k].offset
      <4>1. k \in 1..Len(s) /\ i + 1 \in 1..Len(s) /\ i < NFree BY <1>1, <2>0
      <4>2. End(b) <= s[i + 1].offset
        <5>1. End(s[i]) < s[i + 1].offset BY <1>1, <2>0, <4>1
        <5>2. End(s[i + 1]) <= b.offset \/ End(b) <= s[i + 1].offset BY <1>4, <4>1
        <5>3. s[i + 1].offset < End(s[i + 1]) BY <1>2, <4>1
        <5>4. s[i + 1].offset \in Nat /\ End(s[i + 1]) \in Nat BY <1>2, <4>1
        <5> QED BY <1>3, <2>0, <5>1, <5>2, <5>3, <5>4
      <4>3. End(b) < s[i + 1].offset BY <1>2, <1>3, <2>2, <4>1, <4>2
      <4>4. CASE k = i + 1 BY <3>2, <4>3, <4>4
      <4>5. CASE k > i + 1
        <5>1. End(s[i + 1]) < s[k].offset BY <1>1, <4>1, <4>5
        <5>2. s[i + 1].offset < End(s[i + 1]) BY <1>2, <4>1
        <5>3. s[i + 1].offset \in Nat /\ End(s[i + 1]) \in Nat /\ s[k].offset \in Nat
          BY <1>2, <4>1
        <5> QED BY <1>3, <3>2, <4>3, <5>1, <5>2, <5>3
      <4> QED BY <2>0, <4>1, <4>4, <4>5
    <3>5. \A c \in Nat : In(c, r[i]) <=> In(c, s[i]) \/ In(c, b)
      <4>1. s[i].offset \in Nat /\ s[i].offset < End(s[i]) BY <1>2, <2>0
      <4> QED BY <1>3, <2>0, <3>2, <4>1 DEF In
    <3>6. Tidy(r) /\ \A c \in Nat : Covers(r, c) <=> Covers(s, c) \/ In(c, b)
      BY <2>0, <3>1, <3>2, <3>3, <3>4, <3>5, Widened
    <3>7. AppendTo(i, b) = r BY <2>2 DEF AppendTo, r
    <3> QED BY <3>6, <3>7
  <2> QED BY <2>1, <2>2
<1>6. ASSUME NEW i \in 1..NFree, FirstTouching(i, b), ~EndsAt(i, b)
      PROVE  LET r == PrependTo(i, b)
             IN  Tidy(r) /\ \A c \in Nat : Covers(r, c) <=> Covers(s, c) \/ In(c, b)
  <2> DEFINE wide == [offset |-> b.offset, size |-> s[i].size + b.size]
             r == [s EXCEPT ![i] = wide]
  <2>0. End(b) = s[i].offset /\ i \in 1..Len(s)
    BY <1>1, <1>6 DEF FirstTouching, StartsAt
  <2>1. PrependTo(i, b) = r
    <3>1. ~(i > 1 /\ EndsAt(i - 1, b))
      <4>1. i > 1 => i - 1 \in 1..(i - 1) BY <2>0
      <4> QED BY <1>6, <4>1 DEF FirstTouching
    <3> QED BY <3>1 DEF PrependTo
  <2>2. wide \in Block /\ wide.offset = b.offset /\ wide.size > 0 /\ End(wide) = End(s[i])
    <3>1. s[i].size \in Nat /\ s[i].offset \in Nat BY <1>2, <2>0
    <3>2. wide \in Block /\ wide.offset = b.offset /\ wide.size = s[i].size + b.size
      BY <1>3, <3>1 DEF Block
    <3>3. End(s[i]) = s[i].offset + s[i].size /\ End(b) = b.offset + b.size BY DEF End
    <3>4. End(wide) = b.offset + (s[i].size + b.size) BY <3>2 DEF End
    <3> HIDE DEF wide
    <3> QED BY <1>3, <2>0, <3>1, <3>2, <3>3, <3>4
  <2> HIDE DEF wide
  <2>3. /\ r \in Seq(Block) /\ Len(r) = Len(s) /\ r[i] = wide
        /\ \A k \in 1..Len(s) : k # i => r[k] = s[k]
    BY <1>1, <2>0, <2>2
  <2> HIDE DEF r
  <2>4. ASSUME NEW k \in 1..(i - 1) PROVE End(s[k]) < b.offset
    <3>1. k \in 1..Len(s) /\ k < i BY <1>1, <2>0
    <3>2. End(s[k]) # b.offset BY <1>6, <2>4 DEF FirstTouching, EndsAt
    <3>3. End(s[k]) <= b.offset \/ End(b) <= s[k].offset BY <1>4, <3>1
    <3>4. End(s[k]) < s[i].offset /\ s[k].offset < End(s[k]) BY <1>1, <1>2, <2>0, <3>1
    <3>5. s[k].offset \in Nat /\ End(s[k]) \in Nat BY <1>2, <3>1
    <3> QED BY <1>3, <2>0, <3>2, <3>3, <3>4, <3>5
  <2>5. \A k \in (i + 1)..Len(s) : End(r[i]) < s[k].offset BY <1>1, <2>0, <2>2, <2>3
  <2>6. \A c \in Nat : In(c, r[i]) <=> In(c, s[i]) \/ In(c, b)
    <3>1. End(s[i]) \in Nat /\ s[i].offset < End(s[i]) BY <1>2, <2>0
    <3> QED BY <1>3, <2>0, <2>2, <2>3, <3>1 DEF In
  <2>7. r[i].size > 0 /\ End(r[i]) <= Limit /\ \A k \in 1..(i - 1) : End(s[k]) < r[i].offset
    BY <1>1, <2>0, <2>2, <2>3, <2>4
  <2>8. Tidy(r) /\ \A c \in Nat : Covers(r, c) <=> Covers(s, c) \/ In(c, b)
    BY <2>0, <2>3, <2>5, <2>6, <2>7, Widened
  <2> QED BY <2>1, <2>8
<1>7. ASSUME \A i \in 1..NFree : ~EndsAt(i, b) /\ ~StartsAt(i, b),
             NEW p \in 1..(NFree + 1), InsertPos(p, b)
      PROVE  LET r == Seqs!InsertAt(s, p, b)
             IN  Tidy(r) /\ \A c \in Nat : Covers(r, c) <=> Covers(s, c) \/ In(c, b)
  <2> DEFINE r == Seqs!InsertAt(s, p, b)
  <2>1. /\ r \in Seq(Block) /\ Len(r) = Len(s) + 1
        /\ \A k \in 1..(p - 1) : r[k] = s[k]
        /\ r[p] = b
        /\ \A k \in p..Len(s) : r[k + 1] = s[k]
    <3>1. p \in 1..(Len(s) + 1) BY <1>1
    <3>2. s \in Seq(Block) BY <1>1
    <3> QED BY <3>1, <3>2, Inserted
  <2> HIDE DEF r
  <2>2. ASSUME NEW k \in 1..(p - 1) PROVE End(s[k]) < b.offset
    <3>1. k \in 1..Len(s) BY <1>1
    <3>2. s[k].offset < b.offset /\ End(s[k]) # b.offset
      BY <1>1, <1>7, <3>1 DEF InsertPos, EndsAt
    <3>3. End(s[k]) <= b.offset \/ End(b) <= s[k].offset BY <1>4, <3>1
    <3>4. s[k].offset \in Nat /\ End(s[k]) \in Nat BY <1>2, <3>1
    <3> QED BY <1>3, <3>2, <3>3, <3>4
  <2>3. ASSUME NEW k \in p..Len(s) PROVE End(b) < s[k].offset
    <3>1. k \in 1..Len(s) /\ p \in 1..Len(s) BY <1>1
    <3>2. s[p].offset >= b.offset BY <1>1, <1>7, <3>1 DEF InsertPos
    <3>3. s[k].offset >= s[p].offset
      <4>1. CASE k = p BY <1>2, <3>1, <4>1
      <4>2. CASE k > p
        <5>1. End(s[p]) < s[k].offset /\ s[p].offset < End(s[p]) BY <1>1, <1>2, <3>1, <4>2
        <5>2. s[p].offset \in Nat /\ End(s[p]) \in Nat /\ s[k].offset \in Nat BY <1>2, <3>1
        <5> QED BY <5>1, <5>2
      <4> QED BY <1>1, <3>1, <4>1, <4>2
    <3>4. End(s[k]) <= b.offset \/ End(b) <= s[k].offset BY <1>4, <3>1
    <3>5. End(b) # s[k].offset BY <1>1, <1>7, <3>1 DEF StartsAt
    <3>6. /\ s[k].offset \in Nat /\ End(s[k]) \in Nat /\ s[k].offset < End(s[k])
          /\ s[p].offset \in Nat
      BY <1>2, <3>1
    <3> QED BY <1>3, <3>2, <3>3, <3>4, <3>5, <3>6
  <2>4. p \in 1..(Len(s) + 1) BY <1>1
  <2>5. Tidy(r) /\ \A c \in Nat : Covers(r, c) <=> Covers(s, c) \/ In(c, b)
    BY <2>1, <2>2, <2>3, <2>4, PutIn
  <2> QED BY <2>5 DEF r
<1>8. CASE \E i \in 1..NFree :
             /\ FirstTouching(i, b)
             /\ free_blocks' = IF EndsAt(i, b) THEN AppendTo(i, b) ELSE PrependTo(i, b)
  BY <1>5, <1>6, <1>8
<1>9. CASE (\A i \in 1..NFree : ~EndsAt(i, b) /\ ~StartsAt(i, b)) /\ Insert(b)
  <2>1. PICK p \in 1..(NFree + 1) :
            InsertPos(p, b) /\ free_blocks' = Seqs!InsertAt(free_blocks, p, b)
    BY <1>9 DEF Insert
  <2> QED BY <1>7, <1>9, <2>1
<1> QED BY <1>8, <1>9 DEF Release
-----------------------------------------------------------------------------
(* The steps.                                                              *)

\* A block is handed out: its cells were free, and are not any more.
Got(t, b) ==
    /\ b.size > 0 /\ End(b) <= Limit
    /\ max_size' \in Nat /\ max_size <= max_size' /\ End(b) <= max_size'
    /\ Tidy(free_blocks')
    /\ \A c \in Nat : In(c, b) => Covers(free_blocks, c)
    /\ \A c \in Nat : Covers(free_blocks', c) <=> Covers(free_blocks, c) /\ ~In(c, b)
    /\ live' = WithLive(t, b)

LEMMA AllocGets ==
    ASSUME TallocInv, NEW t \in Tensors, NEW size \in Nat \ {0}, Alloc(t, size)
    PROVE  \E b \in Block : Got(t, b)
<1> DEFINE need == Aligned(size)
<1>1. need \in Nat \ {0} BY AlignedSize
<1> HIDE DEF need
<1>2. PICK i \in 1..NFree :
         LET b == [offset |-> free_blocks[i].offset, size |-> need]
         IN  /\ BestFit(i, need)
             /\ free_blocks' = TakeFrom(i, need)
             /\ max_size' = IF End(b) > max_size THEN End(b) ELSE max_size
             /\ live' = WithLive(t, b)
  BY DEF Alloc, need
<1> DEFINE b == [offset |-> free_blocks[i].offset, size |-> need]
<1>3. Tidy(free_blocks) /\ free_blocks[i] \in Block /\ End(free_blocks[i]) <= Limit
  BY DEF TallocInv, Tidy, NFree
<1>4. need <= free_blocks[i].size
  <2>1. free_blocks[i].size \in Nat BY <1>3, BlockNats
  <2>2. free_blocks[i].size >= need BY <1>2 DEF BestFit, Fits
  <2> QED BY <1>1, <2>1, <2>2
<1>5. /\ Tidy(free_blocks')
      /\ \A c \in Nat : Covers(free_blocks', c) <=> Covers(free_blocks, c) /\ ~In(c, b)
  BY <1>1, <1>2, <1>3, <1>4, Taken
<1>6. /\ b \in Block /\ b.size > 0 /\ End(b) <= End(free_blocks[i])
      /\ b.offset = free_blocks[i].offset
  BY <1>1, <1>3, <1>4, BlockNats DEF Block, End
<1>7. max_size' = (IF End(b) > max_size THEN End(b) ELSE max_size) /\ live' = WithLive(t, b)
  BY <1>2
<1> HIDE DEF b
<1>8. End(b) \in Nat /\ End(free_blocks[i]) \in Nat /\ max_size \in Nat
  BY <1>3, <1>6, BlockNats DEF TallocInv, TallocTypeOK
<1>9. End(b) <= Limit /\ max_size' \in Nat /\ max_size <= max_size' /\ End(b) <= max_size'
  BY <1>3, <1>6, <1>7, <1>8
<1>10. \A c \in Nat : In(c, b) => Covers(free_blocks, c)
  <2>1. \A c \in Nat : In(c, b) => In(c, free_blocks[i]) BY <1>6, <1>8 DEF In
  <2> QED BY <2>1 DEF Covers, NFree
<1> QED BY <1>5, <1>6, <1>7, <1>9, <1>10 DEF Got

LEMMA GotKeeps ==
    ASSUME TallocInv, NEW t \in Tensors \ DOMAIN live, NEW b \in Block, Got(t, b)
    PROVE  TallocInv'
<1>1. /\ DOMAIN live' = DOMAIN live \cup {t} /\ live'[t] = b
      /\ \A u \in DOMAIN live : live'[u] = live[u]
      /\ live' \in [DOMAIN live' -> Block]
  BY DEF Got, WithLive, TallocInv, TallocTypeOK
<1>2. TallocTypeOK'
  BY <1>1 DEF Got, TallocInv, TallocTypeOK, Tidy
<1>3. HeldOK'
  <2> SUFFICES ASSUME NEW u \in DOMAIN live'
               PROVE  live'[u].size > 0 /\ End(live'[u]) <= max_size' /\ End(live'[u]) <= Limit
    BY DEF HeldOK
  <2>1. CASE u = t BY <1>1, <2>1 DEF Got
  <2>2. CASE u # t
    <3>1. u \in DOMAIN live /\ live'[u] = live[u] /\ live[u] \in Block
      BY <1>1, <2>2 DEF TallocInv, TallocTypeOK
    <3>2. live[u].size > 0 /\ End(live[u]) <= max_size /\ End(live[u]) <= Limit
      BY <3>1 DEF TallocInv, HeldOK
    <3>3. End(live[u]) \in Nat /\ max_size \in Nat BY <3>1, BlockNats DEF TallocInv, TallocTypeOK
    <3> QED BY <3>1, <3>2, <3>3 DEF Got
  <2> QED BY <2>1, <2>2
<1>4. ApartOK'
  <2>1. ASSUME NEW u \in DOMAIN live', NEW c \in Nat, In(c, live'[u])
        PROVE  ~Covers(free_blocks', c)
    BY <1>1, <2>1 DEF Got, TallocInv, ApartOK
  <2>2. ASSUME NEW u \in DOMAIN live', NEW v \in DOMAIN live', NEW c \in Nat,
               In(c, live'[u]), In(c, live'[v])
        PROVE  u = v
    BY <1>1, <2>2 DEF Got, TallocInv, ApartOK
  <2> QED BY <2>1, <2>2 DEF ApartOK
<1> QED BY <1>2, <1>3, <1>4 DEF Got, TallocInv

\* A block is given back.
Gave(t) ==
    /\ Tidy(free_blocks')
    /\ \A c \in Nat : Covers(free_blocks', c) <=> Covers(free_blocks, c) \/ In(c, live[t])

LEMMA FreeGives ==
    ASSUME TallocInv, NEW t \in DOMAIN live, FreeTensor(t) PROVE Gave(t)
<1>1. /\ live[t] \in Block /\ live[t].size > 0 /\ End(live[t]) <= Limit
      /\ \A c \in Nat : In(c, live[t]) => ~Covers(free_blocks, c)
  BY DEF TallocInv, TallocTypeOK, HeldOK, ApartOK
<1>2. Release(live[t]) BY DEF FreeTensor
<1>3. Tidy(free_blocks) BY DEF TallocInv
<1> QED BY <1>1, <1>2, <1>3, Released DEF Gave

LEMMA FreeKeeps ==
    ASSUME TallocInv, NEW t \in DOMAIN live, FreeTensor(t) PROVE TallocInv'
<1>0. Gave(t) BY FreeGives
<1>1. /\ DOMAIN live' = DOMAIN live \ {t} /\ max_size' = max_size
      /\ \A u \in DOMAIN live' : live'[u] = live[u]
      /\ live' \in [DOMAIN live' -> Block]
  BY DEF FreeTensor, WithoutLive, TallocInv, TallocTypeOK
<1>2. TallocTypeOK' BY <1>0, <1>1 DEF Gave, Tidy, TallocInv, TallocTypeOK
<1>3. HeldOK' BY <1>1 DEF TallocInv, HeldOK
<1>4. ApartOK' BY <1>0, <1>1 DEF Gave, TallocInv, ApartOK
<1> QED BY <1>0, <1>2, <1>3, <1>4 DEF Gave, TallocInv

LEMMA HandOverKeeps ==
    ASSUME TallocInv, NEW t \in Tensors, NEW u \in Tensors \ DOMAIN live, HandOver(t, u)
    PROVE  TallocInv'
<1>1. /\ t \in DOMAIN live /\ DOMAIN live' = (DOMAIN live \ {t}) \cup {u}
      /\ live'[u] = live[t] /\ \A v \in DOMAIN live \ {t} : live'[v] = live[v]
      /\ live' \in [DOMAIN live' -> Block]
      /\ UNCHANGED <<free_blocks, max_size>>
  BY DEF HandOver, TallocInv, TallocTypeOK
<1>2. TallocTypeOK' BY <1>1 DEF TallocInv, TallocTypeOK
<1>3. HeldOK' BY <1>1 DEF TallocInv, HeldOK
<1>4. ApartOK' BY <1>1 DEF TallocInv, ApartOK
<1> QED BY <1>1, <1>2, <1>3, <1>4 DEF TallocInv, Tidy

\* The whole address space is one block, and nobody holds any of it.
Empty ==
    /\ free_blocks = <<[offset |-> 0, size |-> Limit]>>
    /\ max_size = 0
    /\ live = NoTensor

LEMMA EmptyHolds == Empty => TallocInv
<1> SUFFICES ASSUME Empty PROVE TallocInv OBVIOUS
<1>1. [offset |-> 0, size |-> Limit] \in Block BY DEF Block
<1>2. /\ free_blocks \in Seq(Block) /\ Len(free_blocks) = 1
      /\ free_blocks[1].size > 0 /\ End(free_blocks[1]) <= Limit
  BY <1>1 DEF Empty, End
<1>3. Tidy(free_blocks) BY <1>2 DEF Tidy
<1>4. DOMAIN live = {} /\ live \in [DOMAIN live -> Block] BY DEF Empty, NoTensor
<1> QED BY <1>2, <1>3, <1>4 DEF Empty, TallocInv, TallocTypeOK, HeldOK, ApartOK

LEMMA TallocStep == ASSUME TallocInv, [TallocNext]_tallocVars PROVE TallocInv'
<1>1. ASSUME NEW t \in Tensors, t \notin DOMAIN live, NEW size \in Sizes, Alloc(t, size)
      PROVE  TallocInv'
  BY <1>1, AllocGets, GotKeeps
<1>2. ASSUME NEW t \in Tensors, FreeTensor(t) PROVE TallocInv'
  <2>1. t \in DOMAIN live BY <1>2 DEF FreeTensor
  <2> QED BY <1>2, <2>1, FreeKeeps
<1>3. ASSUME NEW t \in Tensors, NEW u \in Tensors, u \notin DOMAIN live, HandOver(t, u)
      PROVE  TallocInv'
  BY <1>3, HandOverKeeps
<1>4. ASSUME Reset PROVE TallocInv'
  <2>1. Empty' BY <1>4 DEF Reset, Empty, NoTensor
  <2>2. Empty' => TallocInv' BY EmptyHolds, PTL
  <2> QED BY <2>1, <2>2
<1>5. ASSUME UNCHANGED tallocVars PROVE TallocInv'
  BY <1>5 DEF tallocVars, TallocInv, TallocTypeOK, Tidy, HeldOK, ApartOK, Covers
<1> QED BY <1>1, <1>2, <1>3, <1>4, <1>5 DEF TallocNext

THEOREM DTInvariant == TallocSpec => []TallocInv
<1>1. TallocInit => TallocInv BY EmptyHolds DEF TallocInit, Empty
<1>2. TallocInv /\ [TallocNext]_tallocVars => TallocInv' BY TallocStep
<1> QED BY <1>1, <1>2, PTL DEF TallocSpec

\* The variables of the allocator have their types.
THEOREM DTTypeCorrect == TallocSpec => []TallocTypeOK
<1>1. TallocInv => TallocTypeOK BY DEF TallocInv
<1> QED BY <1>1, DTInvariant, PTL

\* The free blocks are sorted, none is empty, and no two of them touch,
\* whatever was allocated and freed.
THEOREM DTSortedAndMerged == TallocSpec => []SortedAndMerged
<1>1. TallocInv => SortedAndMerged BY DEF TallocInv, Tidy, SortedAndMerged, NFree
<1> QED BY <1>1, DTInvariant, PTL

\* Every tensor lies inside the buffer that is allocated later.
THEOREM DTInsideBuffer == TallocSpec => []InsideBuffer
<1>1. TallocInv => InsideBuffer BY DEF TallocInv, HeldOK, InsideBuffer
<1> QED BY <1>1, DTInvariant, PTL

-----------------------------------------------------------------------------
(* The refinement.                                                         *)

LEMMA FreeCellsAre == \A c : c \in FreeCells <=> c \in 0..(Limit - 1) /\ Covers(free_blocks, c)
BY DEF FreeCells, Covers, In, NFree

LEMMA FreeCellsNext ==
    \A c : c \in FreeCells' <=> c \in 0..(Limit - 1) /\ Covers(free_blocks', c)
BY DEF FreeCells, Covers, In, NFree

LEMMA CellsAre ==
    ASSUME NEW b \in Block
    PROVE  \A c : c \in Heap!CellsOf(b) <=> c \in Nat /\ In(c, b)
BY DEF Heap!CellsOf, In, End, Block

LEMMA EmptyHeap == Empty => FreeCells = Heap!Cells
<1> SUFFICES ASSUME Empty PROVE FreeCells = Heap!Cells OBVIOUS
<1>1. \A c \in 0..(Limit - 1) : Covers(free_blocks, c) BY DEF Empty, Covers, In, End
<1> QED BY <1>1, FreeCellsAre DEF Heap!Cells

LEMMA AllocRefines ==
    ASSUME TallocInv, NEW t \in Tensors \ DOMAIN live, NEW b \in Block, Got(t, b)
    PROVE  Heap!HeapAlloc(t)
<1>1. b \in [offset : 0..Limit, size : 1..Limit]
  <2>1. b.offset \in Nat /\ b.size \in Nat /\ b.offset + b.size <= Limit /\ b.size > 0
    BY BlockNats DEF Got, End
  <2>2. b.offset \in 0..Limit /\ b.size \in 1..Limit BY <2>1
  <2> QED BY <2>2 DEF Block
<1>2. live' = Heap!With(t, b) /\ DOMAIN live' = DOMAIN live \cup {t}
  BY DEF Got, WithLive, Heap!With
<1>3. \A c \in Nat : In(c, b) => c \in 0..(Limit - 1)
  BY BlockNats DEF Got, In
<1>4. Heap!CellsOf(b) \subseteq FreeCells
  BY <1>3, CellsAre, FreeCellsAre DEF Got
<1>5. FreeCells' = FreeCells \ Heap!CellsOf(b)
  BY CellsAre, FreeCellsAre, FreeCellsNext DEF Got
<1>6. live'[t] = b BY <1>2 DEF Heap!With
<1> QED BY <1>1, <1>2, <1>4, <1>5, <1>6 DEF Heap!HeapAlloc

LEMMA FreeRefines ==
    ASSUME TallocInv, NEW t \in DOMAIN live, FreeTensor(t) PROVE Heap!HeapFree(t)
<1>1. Gave(t) BY FreeGives
<1>2. live[t] \in Block /\ End(live[t]) <= Limit BY DEF TallocInv, TallocTypeOK, HeldOK
<1>3. \A c \in Nat : In(c, live[t]) => c \in 0..(Limit - 1) BY <1>2, BlockNats DEF In
<1>4. FreeCells' = FreeCells \cup Heap!CellsOf(live[t])
  BY <1>1, <1>2, <1>3, CellsAre, FreeCellsAre, FreeCellsNext DEF Gave
<1> QED BY <1>4 DEF FreeTensor, WithoutLive, Heap!HeapFree, Heap!Without

\* What is handed out was free and what is freed was held, cell by cell: no
\* two tensors get the same memory and none of it is lost.
THEOREM DTImplementsHeap == TallocSpec => ImplementsHeap
<1>1. TallocInit => Heap!HeapInit
  BY EmptyHeap DEF TallocInit, Empty, NoTensor, Heap!HeapInit
<1>2. TallocInv /\ [TallocNext]_tallocVars => [Heap!HeapNext]_<<FreeCells, live>>
  <2> SUFFICES ASSUME TallocInv, [TallocNext]_tallocVars
               PROVE  Heap!HeapNext \/ UNCHANGED <<FreeCells, live>>
    OBVIOUS
  <2>1. ASSUME NEW t \in Tensors, t \notin DOMAIN live, NEW size \in Sizes, Alloc(t, size)
        PROVE  Heap!HeapNext
    BY <2>1, AllocGets, AllocRefines DEF Heap!HeapNext
  <2>2. ASSUME NEW t \in Tensors, FreeTensor(t) PROVE Heap!HeapNext
    <3>1. t \in DOMAIN live BY <2>2 DEF FreeTensor
    <3> QED BY <2>2, <3>1, FreeRefines DEF Heap!HeapNext
  <2>3. ASSUME NEW t \in Tensors, NEW u \in Tensors, u \notin DOMAIN live, HandOver(t, u)
        PROVE  Heap!HeapNext
    <3>1. UNCHANGED FreeCells BY <2>3, FreeCellsAre, FreeCellsNext DEF HandOver
    <3> QED BY <2>3, <3>1 DEF HandOver, Heap!HeapNext, Heap!HeapHandOver
  <2>4. ASSUME Reset PROVE Heap!HeapNext
    <3>1. Empty' BY <2>4 DEF Reset, Empty, NoTensor
    <3>2. Empty' => (FreeCells = Heap!Cells)' BY EmptyHeap, PTL
    <3>3. FreeCells' = Heap!Cells BY <3>1, <3>2 DEF Heap!Cells
    <3> QED BY <2>4, <3>3 DEF Reset, NoTensor, Heap!HeapNext, Heap!HeapReset
  <2>5. ASSUME UNCHANGED tallocVars PROVE UNCHANGED <<FreeCells, live>>
    BY <2>5 DEF tallocVars, FreeCells, NFree
  <2> QED BY <2>1, <2>2, <2>3, <2>4, <2>5 DEF TallocNext
<1> QED BY <1>1, <1>2, DTInvariant, PTL
    DEF TallocSpec, ImplementsHeap, Heap!HeapSpec, Heap!heapVars
-----------------------------------------------------------------------------
(* The graph allocator.                                                    *)

N == Len(graph.nodes)
Planning == pc \in {"leafs", "allocate", "update", "assign"}

\* The nodes that the plan has come to, and the tensors it has been at.
Reached == IF pc = "update" THEN n ELSE n - 1
Born ==
    IF pc = "leafs" THEN {graph.leafs[i] : i \in DOMAIN graph.leafs \cap 1..(n - 1)}
                    ELSE Before(graph, Reached + 1)

\* What is read at a node, directly or through a view, and what is needed
\* after it.
ReadAt(t, k) == \E i \in DOMAIN Src(graph.nodes[k]) : Root(Src(graph.nodes[k])[i]) = t
UsedAfter(t, k) == t \in graph.output \/ \E m \in DOMAIN graph.nodes : m > k /\ ReadAt(t, m)

\* The reads that the plan has still to come to, and the views that have some
\* or never had any.
Left(r) ==
    \E k \in DOMAIN graph.nodes :
        /\ r[1] = graph.nodes[k]
        /\ k > n \/ (k = n /\ (pc # "update" \/ j <= r[2]))
ReadsLeft(t) == {r \in Reads(t) : Left(r)}
ViewsLeft(t) == {v \in Views(t) : ReadsLeft(v) # {} \/ Reads(v) = {}}

\* The views of external tensors are not all counted: some of them are leafs.
Own == Tensors \ graph.external
CountsOK ==
    /\ \A t \in Tensors : n_children[t] = Cardinality(ReadsLeft(t))
    /\ \A t \in Own : n_views[t] = Cardinality(ViewsLeft(t))

\* Who holds a block has one as large as it needs, at the place that the plan
\* says; who is still needed has one; and nobody has one for nothing.
HoldersOK ==
    \A t \in DOMAIN live :
        /\ t \in Born /\ Planned(t)
        /\ live[t] = [offset |-> offset[t], size |-> Aligned(NBytes(t))]
NeededLive ==
    \A t \in Born : Planned(t) /\ (pc = "leafs" \/ UsedAfter(t, Reached)) => t \in DOMAIN live
NoneIdle ==
    \A t \in DOMAIN live :
        t \in graph.output \/ ReadsLeft(t) # {} \/ Reads(t) = {} \/ ViewsLeft(t) # {}

\* Two places that share no cell, and what makes a plan right: a node's place
\* is apart from those of all that is needed after it, and from those of what
\* it reads, unless it works in place.
Apart(p, q) == p.offset + p.size_max <= q.offset \/ q.offset + q.size_max <= p.offset
LeafsApart(plan, S) ==
    \A a, b \in S : a # b /\ Planned(a) /\ Planned(b) => Apart(plan[a], plan[b])
InPlace(plan, a, b) ==
    /\ b \in graph.inplace
    /\ plan[a].offset = plan[b].offset /\ graph.width[a] = graph.width[b]
NodeFits(plan, k) ==
    LET b == graph.nodes[k]
    IN  \A a \in Before(graph, k) : Planned(a) /\ Planned(b) =>
            /\ UsedAfter(a, k) => Apart(plan[a], plan[b])
            /\ ReadAt(a, k) => Apart(plan[a], plan[b]) \/ InPlace(plan, a, b)
Inside(plan, S, size) ==
    \A t \in S : Planned(t) => plan[t].offset + plan[t].size_max <= size

\* The plan that is being made.
Plan == [t \in Tensors |->
            IF Planned(t) THEN [offset |-> offset[t], size_max |-> NBytes(t)]
                          ELSE [offset |-> 0, size_max |-> 0]]
PlanOK ==
    /\ LeafsApart(Plan, Born \cap LeafsOf(graph))
    /\ pc # "leafs" => \A k \in 1..Reached : NodeFits(Plan, k)
    /\ Inside(Plan, Born, max_size)

\* The plan that was made, for some number of tokens.
PlacedOK ==
    /\ LeafsApart(talloc, LeafsOf(graph))
    /\ \A k \in 1..N : NodeFits(talloc, k)
    /\ Inside(talloc, Before(graph, N + 1), buffer)
    /\ \E count \in Nat : \A t \in Before(graph, N + 1) :
          Planned(t) => talloc[t].size_max = graph.width[t] * count
LargeEnough ==
    \A t \in Before(graph, N + 1) : Planned(t) => NBytes(t) <= talloc[t].size_max

\* What has been computed and is still needed is there.
MemOK ==
    \A t \in Before(graph, n) : Planned(t) /\ UsedAfter(t, n - 1) => Holds(t)

ControlOK ==
    /\ pc = "leafs" => n \in 1..(Len(graph.leafs) + 1)
    /\ pc \in {"allocate", "update"} => n \in 1..N /\ j \in 1..(Len(Src(Node)) + 1)
    /\ pc \in {"leafs", "assign", "ready", "compute", "idle"} => j = 1
    /\ pc = "assign" => n = N + 1
    /\ pc \in {"idle", "ready"} => n = 1
    /\ pc = "compute" => n \in 1..(N + 1)

GallocInv ==
    /\ GallocTypeOK /\ graph \in Graphs /\ ControlOK /\ TallocInv
    /\ pc = "leafs" => \A t \in Tensors : n_children[t] = 0
    /\ pc \in {"allocate", "update", "assign"} => CountsOK /\ NoneIdle
    /\ Planning => HoldersOK /\ NeededLive /\ PlanOK
    /\ ~Planning => PlacedOK
    /\ pc \in {"ready", "compute"} => LargeEnough
    /\ pc = "compute" => MemOK

-----------------------------------------------------------------------------
\* What the graphs are assumed to be.
LEMMA GraphFacts ==
    ASSUME graph \in Graphs
    PROVE  /\ GraphOK(graph) /\ GraphTypeOK(graph) /\ NoSrc \notin Tensors
           /\ N \in Nat \ {0} /\ DOMAIN graph.nodes = 1..N
           /\ \A k \in 1..N : graph.nodes[k] \in Tensors
           /\ Len(graph.leafs) \in Nat /\ DOMAIN graph.leafs = 1..Len(graph.leafs)
           /\ \A i \in DOMAIN graph.leafs : graph.leafs[i] \in Tensors
<1>1. GraphOK(graph) /\ NoSrc \notin Tensors BY GraphsAssumption
<1>2. GraphTypeOK(graph) BY <1>1 DEF GraphOK
<1>3. /\ graph.nodes \in Seq(Tensors) /\ graph.nodes # <<>> /\ graph.leafs \in Seq(Tensors)
  BY <1>2 DEF GraphTypeOK
<1>4. N \in Nat \ {0} /\ DOMAIN graph.nodes = 1..N
  BY <1>3 DEF N
<1>5. \A k \in 1..N : graph.nodes[k] \in Tensors BY <1>3, <1>4
<1>6. Len(graph.leafs) \in Nat /\ DOMAIN graph.leafs = 1..Len(graph.leafs) BY <1>3
<1>7. \A i \in DOMAIN graph.leafs : graph.leafs[i] \in Tensors BY <1>3, <1>6
<1> QED BY <1>1, <1>2, <1>4, <1>5, <1>6, <1>7

\* The tensors that come before a node.
LEMMA BeforeFacts ==
    ASSUME graph \in Graphs
    PROVE  /\ LeafsOf(graph) \subseteq Tensors
           /\ \A k \in Int : LeafsOf(graph) \subseteq Before(graph, k)
           /\ \A k \in Int : Before(graph, k) \subseteq Tensors
           /\ Before(graph, 1) = LeafsOf(graph)
           /\ \A k \in 1..N : Before(graph, k + 1) = Before(graph, k) \cup {graph.nodes[k]}
           /\ \A k \in 1..N : graph.nodes[k] \notin Before(graph, k)
           /\ \A k, m \in Int : k <= m => Before(graph, k) \subseteq Before(graph, m)
<1>0. /\ N \in Nat \ {0} /\ DOMAIN graph.nodes = 1..N
      /\ \A k \in 1..N : graph.nodes[k] \in Tensors
      /\ \A i \in DOMAIN graph.leafs : graph.leafs[i] \in Tensors
      /\ GraphOK(graph)
  BY GraphFacts
<1>1. LeafsOf(graph) \subseteq Tensors BY <1>0 DEF LeafsOf
<1>2. \A k \in Int : LeafsOf(graph) \subseteq Before(graph, k) BY DEF Before
<1>3. \A k \in Int : Before(graph, k) \subseteq Tensors BY <1>0, <1>1 DEF Before
<1>4. Before(graph, 1) = LeafsOf(graph)
  <2>1. 1..N \cap 1..(1 - 1) = {} BY <1>0
  <2> QED BY <1>0, <2>1 DEF Before
<1>5. ASSUME NEW k \in 1..N
      PROVE  Before(graph, k + 1) = Before(graph, k) \cup {graph.nodes[k]}
  <2>1. 1..N \cap 1..(k + 1 - 1) = (1..N \cap 1..(k - 1)) \cup {k} BY <1>0
  <2> QED BY <1>0, <2>1 DEF Before
<1>6. \A k \in 1..N : graph.nodes[k] \notin Before(graph, k) BY <1>0 DEF GraphOK
<1>7. ASSUME NEW k \in Int, NEW m \in Int, k <= m
      PROVE  Before(graph, k) \subseteq Before(graph, m)
  <2>1. 1..N \cap 1..(k - 1) \subseteq 1..N \cap 1..(m - 1) BY <1>0, <1>7
  <2> QED BY <1>0, <2>1 DEF Before
<1> QED BY <1>1, <1>2, <1>3, <1>4, <1>5, <1>6, <1>7

\* Each node is in the graph once.
LEMMA NodesDistinct ==
    ASSUME graph \in Graphs, NEW k \in 1..N, NEW m \in 1..N, graph.nodes[k] = graph.nodes[m]
    PROVE  k = m
<1>0. N \in Nat BY GraphFacts
<1>1. ASSUME NEW a \in 1..N, NEW b \in 1..N, a < b PROVE graph.nodes[a] # graph.nodes[b]
  <2>1. graph.nodes[a] \in Before(graph, a + 1) BY BeforeFacts
  <2>2. Before(graph, a + 1) \subseteq Before(graph, b)
    <3>1. a + 1 \in Int /\ b \in Int /\ a + 1 <= b BY <1>0, <1>1
    <3> QED BY <3>1, BeforeFacts
  <2>3. graph.nodes[b] \notin Before(graph, b) BY BeforeFacts
  <2> QED BY <2>1, <2>2, <2>3
<1> QED BY <1>0, <1>1

\* Every tensor of the graph is a leaf or a node.
LEMMA LeafOrNode ==
    ASSUME graph \in Graphs, NEW m \in Int, NEW t \in Before(graph, m)
    PROVE  t \in LeafsOf(graph) \/ \E k \in 1..N : k < m /\ t = graph.nodes[k]
<1>1. N \in Nat \ {0} /\ DOMAIN graph.nodes = 1..N BY GraphFacts
<1>2. CASE t \in LeafsOf(graph) BY <1>2
<1>3. CASE \E k \in 1..N \cap 1..(m - 1) : t = graph.nodes[k] BY <1>1, <1>3
<1> QED BY <1>1, <1>2, <1>3 DEF Before

\* Tensors, what they look at and what is read of them.
LEMMA TensorFacts ==
    ASSUME graph \in Graphs, NEW t \in Tensors
    PROVE  /\ Root(t) \in Tensors /\ ~IsView(Root(t)) /\ Root(Root(t)) = Root(t)
           /\ ~IsView(t) => Root(t) = t
           /\ IsView(t) => Root(t) = graph.view_src[t]
           /\ graph.view_src[t] \in Tensors \cup {NoSrc}
           /\ graph.width[t] \in Nat \ {0}
           /\ Src(t) \in Seq(Tensors) /\ Len(Src(t)) \in Nat /\ DOMAIN Src(t) = 1..Len(Src(t))
           /\ Len(Src(t)) <= GGML_MAX_SRC
           /\ \A i \in DOMAIN Src(t) : Src(t)[i] \in Tensors
<1>1. GraphOK(graph) /\ GraphTypeOK(graph) BY GraphFacts
<1>2. graph.view_src[t] \in Tensors \cup {NoSrc} BY <1>1 DEF GraphTypeOK
<1>3. Root(t) \in Tensors BY <1>2 DEF Root, RootOf
<1>4. ~IsView(Root(t)) BY <1>1 DEF GraphOK, IsView, Root
<1>5. /\ ~IsView(t) => Root(t) = t
      /\ IsView(t) => Root(t) = graph.view_src[t]
  BY DEF Root, RootOf, IsView
<1>6. Root(Root(t)) = Root(t) BY <1>4 DEF Root, RootOf, IsView
<1>7. graph.width[t] \in Nat \ {0} BY <1>1 DEF GraphTypeOK
<1>8. Src(t) \in Seq(Tensors) /\ Len(Src(t)) <= GGML_MAX_SRC BY <1>1 DEF GraphTypeOK, Src
<1>9. Len(Src(t)) \in Nat /\ DOMAIN Src(t) = 1..Len(Src(t)) BY <1>8
<1>10. \A i \in DOMAIN Src(t) : Src(t)[i] \in Tensors BY <1>8, <1>9
<1> QED BY <1>2, <1>3, <1>4, <1>5, <1>6, <1>7, <1>8, <1>9, <1>10

\* A node reads what comes before it.
LEMMA SourcesBefore ==
    ASSUME graph \in Graphs, NEW k \in 1..N, NEW i \in DOMAIN Src(graph.nodes[k])
    PROVE  LET s == Src(graph.nodes[k])[i]
           IN  /\ s \in Before(graph, k) /\ s \in Tensors
               /\ Root(s) \in Before(graph, k) \cup graph.external
<1>1. GraphOK(graph) /\ DOMAIN graph.nodes = 1..N /\ N \in Nat BY GraphFacts
<1>2. /\ Src(graph.nodes[k])[i] \in Before(graph, k)
      /\ Root(Src(graph.nodes[k])[i]) \in Before(graph, k) \cup graph.external
  BY <1>1 DEF GraphOK, Src, Root
<1>3. k \in Int BY <1>1
<1> QED BY <1>2, <1>3, BeforeFacts

\* A view is a node, but one of an external tensor, and nobody looks at it but
\* through what it looks at.
LEMMA ViewFacts ==
    ASSUME graph \in Graphs
    PROVE  /\ \A k \in Int : \A t \in Before(graph, k) :
                 IsView(t) => t \in Nodes \/ Root(t) \in graph.external
           /\ \A t \in Tensors : IsView(t) => t \in Own
           /\ \A t \in Tensors : IsView(t) => Views(t) = {}
           /\ \A t \in Tensors : \A v \in Views(t) : v \in Tensors /\ IsView(v) /\ Root(v) = t
           /\ \A t \in Tensors : t \in Nodes /\ IsView(t) => t \in Views(Root(t))
<1>0. /\ GraphOK(graph) /\ DOMAIN graph.nodes = 1..N /\ NoSrc \notin Tensors
      /\ \A k \in 1..N : graph.nodes[k] \in Tensors
  BY GraphFacts
<1>1. ASSUME NEW k \in Int, NEW t \in Before(graph, k), IsView(t)
      PROVE  t \in Nodes \/ Root(t) \in graph.external
  <2>1. CASE t \in LeafsOf(graph) BY <1>0, <1>1, <2>1 DEF GraphOK, IsView, Root, RootOf
  <2>2. CASE t \notin LeafsOf(graph) BY <1>0, <2>2, LeafOrNode DEF Nodes
  <2> QED BY <2>1, <2>2
<1>2. ASSUME NEW t \in Tensors, NEW v \in Views(t)
      PROVE  v \in Tensors /\ IsView(v) /\ Root(v) = t
  BY <1>0, <1>2 DEF Views, Nodes, IsView, Root, RootOf
<1>3. ASSUME NEW t \in Tensors, IsView(t) PROVE Views(t) = {}
  <2>1. ASSUME NEW v \in Views(t) PROVE FALSE
    <3>1. v \in Tensors /\ Root(v) = t BY <1>2
    <3>2. ~IsView(Root(v)) BY <3>1, TensorFacts
    <3> QED BY <1>3, <3>1, <3>2
  <2> QED BY <2>1
<1>4. ASSUME NEW t \in Tensors, t \in Nodes, IsView(t) PROVE t \in Views(Root(t))
  BY <1>4, TensorFacts DEF Views
<1>5. \A t \in Tensors : IsView(t) => t \in Own BY <1>0 DEF GraphOK, IsView, Own
<1> QED BY <1>1, <1>2, <1>3, <1>4, <1>5

\* The tensors that get a place are what they are, and some node is one.
LEMMA PlannedFacts ==
    ASSUME graph \in Graphs
    PROVE  /\ \A t \in Tensors : Planned(t) => Root(t) = t
           /\ \E k \in 1..N : Planned(graph.nodes[k])
<1>1. GraphOK(graph) /\ DOMAIN graph.nodes = 1..N BY GraphFacts
<1>2. \A t \in Tensors : Planned(t) => Root(t) = t BY TensorFacts DEF Planned
<1>3. \E k \in 1..N : Planned(graph.nodes[k]) BY <1>1 DEF GraphOK, Planned, IsView
<1> QED BY <1>2, <1>3

-----------------------------------------------------------------------------
\* The sources: a node and one of at most GGML_MAX_SRC indices.
LEMMA SourcesAre ==
    ASSUME graph \in Graphs
    PROVE  /\ \A k \in 1..N : \A i \in DOMAIN Src(graph.nodes[k]) : <<graph.nodes[k], i>> \in Sources
           /\ \A r \in Sources : \E k \in 1..N : \E i \in DOMAIN Src(graph.nodes[k]) :
                 r = <<graph.nodes[k], i>>
<1>0. DOMAIN graph.nodes = 1..N BY GraphFacts
<1>1. ASSUME NEW k \in 1..N, NEW i \in DOMAIN Src(graph.nodes[k])
      PROVE  <<graph.nodes[k], i>> \in Sources
  <2>1. graph.nodes[k] \in Nodes BY <1>0 DEF Nodes
  <2>2. <<graph.nodes[k], i>> \in {graph.nodes[k]} \X DOMAIN Src(graph.nodes[k]) BY <1>1
  <2> QED BY <2>1, <2>2 DEF Sources
<1>2. ASSUME NEW r \in Sources
      PROVE  \E k \in 1..N : \E i \in DOMAIN Src(graph.nodes[k]) : r = <<graph.nodes[k], i>>
  <2>1. PICK m \in Nodes : r \in {m} \X DOMAIN Src(m) BY <1>2 DEF Sources
  <2>2. PICK k \in 1..N : m = graph.nodes[k] BY <1>0 DEF Nodes
  <2>3. PICK i \in DOMAIN Src(m) : r = <<m, i>> BY <2>1
  <2> QED BY <2>2, <2>3
<1> QED BY <1>1, <1>2

LEMMA SourcesFinite == ASSUME graph \in Graphs PROVE IsFiniteSet(Sources) /\ IsFiniteSet(Nodes)
<1>0. /\ DOMAIN graph.nodes = 1..N /\ N \in Nat /\ \A k \in 1..N : graph.nodes[k] \in Tensors
  BY GraphFacts
<1>1. IsFiniteSet(1..N) BY <1>0, FS_Interval
<1>2. IsFiniteSet(Nodes)
  <2> DEFINE f == [k \in 1..N |-> graph.nodes[k]]
  <2>1. f \in Surjection(1..N, Nodes)
    BY <1>0 DEF Surjection, Nodes
  <2> QED BY <1>1, <2>1, FS_Surjection
<1>3. IsFiniteSet(1..GGML_MAX_SRC)
  <2>1. 1 \in Int /\ GGML_MAX_SRC \in Int BY DEF GGML_MAX_SRC
  <2> QED BY <2>1, FS_Interval
<1>4. IsFiniteSet(Nodes \X (1..GGML_MAX_SRC)) BY <1>2, <1>3, FS_Product
<1>5. ASSUME NEW r \in Sources PROVE r \in Nodes \X (1..GGML_MAX_SRC)
  <2>1. PICK k \in 1..N : \E i \in DOMAIN Src(graph.nodes[k]) : r = <<graph.nodes[k], i>>
    BY SourcesAre
  <2>2. PICK i \in DOMAIN Src(graph.nodes[k]) : r = <<graph.nodes[k], i>> BY <2>1
  <2>3. graph.nodes[k] \in Tensors /\ graph.nodes[k] \in Nodes BY <1>0 DEF Nodes
  <2>4. DOMAIN Src(graph.nodes[k]) = 1..Len(Src(graph.nodes[k]))
        /\ Len(Src(graph.nodes[k])) \in Nat /\ Len(Src(graph.nodes[k])) <= GGML_MAX_SRC
    BY <2>3, TensorFacts
  <2>5. i \in 1..GGML_MAX_SRC BY <2>4 DEF GGML_MAX_SRC
  <2> QED BY <2>2, <2>3, <2>5
<1> QED BY <1>2, <1>4, <1>5, FS_Subset

\* What is counted is finite.
LEMMA CountsFinite ==
    ASSUME graph \in Graphs, NEW t \in Tensors
    PROVE  /\ IsFiniteSet(Reads(t)) /\ IsFiniteSet(ReadsLeft(t))
           /\ IsFiniteSet(Views(t)) /\ IsFiniteSet(ViewsLeft(t))
           /\ Cardinality(Reads(t)) \in Nat /\ Cardinality(ReadsLeft(t)) \in Nat
           /\ Cardinality(Views(t)) \in Nat /\ Cardinality(ViewsLeft(t)) \in Nat
           /\ Cardinality(ReadsLeft(t)) = 0 <=> ReadsLeft(t) = {}
           /\ Cardinality(ViewsLeft(t)) = 0 <=> ViewsLeft(t) = {}
<1>1. IsFiniteSet(Sources) /\ IsFiniteSet(Nodes) BY SourcesFinite
<1>2. Reads(t) \subseteq Sources /\ ReadsLeft(t) \subseteq Sources BY DEF Reads, ReadsLeft
<1>3. Views(t) \subseteq Nodes /\ ViewsLeft(t) \subseteq Nodes BY DEF Views, ViewsLeft
<1>4. /\ IsFiniteSet(Reads(t)) /\ IsFiniteSet(ReadsLeft(t))
      /\ IsFiniteSet(Views(t)) /\ IsFiniteSet(ViewsLeft(t))
  BY <1>1, <1>2, <1>3, FS_Subset
<1> QED BY <1>4, FS_CardinalityType, FS_EmptySet

\* Which reads of the node at hand, and of the others, are left.
LEMMA LeftAt ==
    ASSUME graph \in Graphs, NEW k \in 1..N, NEW i \in DOMAIN Src(graph.nodes[k])
    PROVE  Left(<<graph.nodes[k], i>>) <=> k > n \/ (k = n /\ (pc # "update" \/ j <= i))
<1>0. DOMAIN graph.nodes = 1..N BY GraphFacts
<1>1. \A m \in 1..N : graph.nodes[k] = graph.nodes[m] => k = m BY NodesDistinct
<1> QED BY <1>0, <1>1 DEF Left

\* A tensor that has no read left, nor a view that has some, is not read any
\* more, not even through a view.
LEMMA NotReadAnyMore ==
    ASSUME graph \in Graphs, NEW t \in Own, ViewsLeft(t) = {},
           NEW k \in 1..N, NEW i \in DOMAIN Src(graph.nodes[k]),
           Root(Src(graph.nodes[k])[i]) = t, Left(<<graph.nodes[k], i>>)
    PROVE  <<graph.nodes[k], i>> \in ReadsLeft(t)
<1> DEFINE s == Src(graph.nodes[k])[i]
           r == <<graph.nodes[k], i>>
<1>1. s \in Before(graph, k) /\ s \in Tensors /\ k \in Int /\ N \in Nat
  BY SourcesBefore, GraphFacts
<1>2. r \in Sources /\ r[1] = graph.nodes[k] /\ r[2] = i BY SourcesAre
<1>3. r \in ReadsLeft(s) BY <1>2 DEF Reads, ReadsLeft
<1>4. CASE IsView(s)
  <2>1. s \in Nodes BY <1>1, <1>4, ViewFacts DEF Own
  <2>2. s \in Views(t) BY <1>1, <1>4, <2>1, ViewFacts
  <2>3. s \in ViewsLeft(t) BY <1>3, <2>2 DEF ViewsLeft
  <2> QED BY <2>3
<1>5. CASE ~IsView(s)
  <2>1. s = t BY <1>1, <1>5, TensorFacts
  <2> QED BY <1>3, <2>1
<1> QED BY <1>4, <1>5

-----------------------------------------------------------------------------
(* What changes and what does not.                                         *)

LEMMA SameGraph ==
    ASSUME UNCHANGED graph
    PROVE  /\ N' = N /\ Nodes' = Nodes /\ Sources' = Sources
           /\ \A t : /\ Planned(t)' <=> Planned(t)
                     /\ Reads(t)' = Reads(t) /\ Views(t)' = Views(t)
                     /\ Root(t)' = Root(t) /\ Src(t)' = Src(t) /\ IsView(t)' <=> IsView(t)
           /\ \A t, k : /\ ReadAt(t, k)' <=> ReadAt(t, k)
                        /\ UsedAfter(t, k)' <=> UsedAfter(t, k)
BY DEF N, Nodes, Sources, Planned, IsView, Reads, Views, Root, Src, ReadAt, UsedAfter

LEMMA SameSizes ==
    ASSUME UNCHANGED <<graph, tokens>> PROVE \A t : NBytes(t)' = NBytes(t)
BY DEF NBytes

\* As long as the same reads are left, the counts stay right.
LEMMA SameLeft ==
    ASSUME UNCHANGED graph, \A r \in Sources : Left(r)' <=> Left(r)
    PROVE  \A t : ReadsLeft(t)' = ReadsLeft(t) /\ ViewsLeft(t)' = ViewsLeft(t)
<1>1. \A t : Reads(t)' = Reads(t) /\ Views(t)' = Views(t) BY SameGraph
<1>2. ASSUME NEW t PROVE ReadsLeft(t)' = ReadsLeft(t)
  <2>1. Reads(t) \subseteq Sources BY DEF Reads
  <2> QED BY <1>1, <2>1 DEF ReadsLeft
<1>3. \A t : ViewsLeft(t)' = ViewsLeft(t) BY <1>1, <1>2 DEF ViewsLeft
<1> QED BY <1>2, <1>3

-----------------------------------------------------------------------------
(* The blocks.                                                             *)

LEMMA SizesOfTensors ==
    ASSUME graph \in Graphs, tokens \in TokenCounts, NEW t \in Tensors
    PROVE  /\ tokens \in Nat \ {0} /\ NBytes(t) \in Nat \ {0}
           /\ Aligned(NBytes(t)) \in Nat \ {0} /\ NBytes(t) <= Aligned(NBytes(t))
<1>1. tokens \in Nat \ {0} BY TokensAssumption
<1>2. graph.width[t] \in Nat \ {0} BY TensorFacts
<1>3. \A a, b \in Nat \ {0} : a * b \in Nat \ {0} BY SMT
<1>4. NBytes(t) \in Nat \ {0} BY <1>1, <1>2, <1>3 DEF NBytes
<1> QED BY <1>1, <1>4, AlignedSize

LEMMA PlanOf ==
    ASSUME NEW t \in Tensors, Planned(t)
    PROVE  Plan[t].offset = offset[t] /\ Plan[t].size_max = NBytes(t)
BY DEF Plan

\* The tensors that hold blocks do not share a cell in the plan, and are
\* inside the buffer.
HoldersApart == \A a, b \in DOMAIN live : a # b => Apart(Plan[a], Plan[b])

LEMMA HoldersPlaced ==
    TallocInv /\ HoldersOK /\ graph \in Graphs /\ tokens \in TokenCounts
        => HoldersApart /\ Inside(Plan, DOMAIN live, max_size)
<1> SUFFICES ASSUME TallocInv, HoldersOK, graph \in Graphs, tokens \in TokenCounts
             PROVE  HoldersApart /\ Inside(Plan, DOMAIN live, max_size)
  OBVIOUS
<1>1. ASSUME NEW t \in DOMAIN live
      PROVE  /\ t \in Tensors /\ Planned(t) /\ live[t] \in Block
             /\ live[t].offset = Plan[t].offset /\ Plan[t].offset \in Nat
             /\ live[t].size = Aligned(NBytes(t)) /\ live[t].size \in Nat \ {0}
             /\ Plan[t].size_max \in Nat \ {0} /\ Plan[t].size_max <= live[t].size
             /\ live[t].offset + live[t].size <= max_size
  <2>1. t \in Tensors /\ live[t] \in Block BY DEF TallocInv, TallocTypeOK
  <2>2. Planned(t) /\ live[t] = [offset |-> offset[t], size |-> Aligned(NBytes(t))]
    BY DEF HoldersOK
  <2>3. Plan[t].offset = offset[t] /\ Plan[t].size_max = NBytes(t) BY <2>1, <2>2, PlanOf
  <2>4. live[t].offset = offset[t] /\ live[t].size = Aligned(NBytes(t)) BY <2>2
  <2>5. live[t].offset \in Nat BY <2>1 DEF Block
  <2>6. live[t].offset + live[t].size <= max_size BY DEF TallocInv, HeldOK, End
  <2>7. /\ NBytes(t) \in Nat \ {0}
        /\ Aligned(NBytes(t)) \in Nat \ {0} /\ NBytes(t) <= Aligned(NBytes(t))
    BY <2>1, SizesOfTensors
  <2> QED BY <2>1, <2>2, <2>3, <2>4, <2>5, <2>6, <2>7
<1>2. ASSUME NEW a \in DOMAIN live, NEW b \in DOMAIN live, a # b PROVE Apart(Plan[a], Plan[b])
  <2>1. \A c \in Nat : ~(In(c, live[a]) /\ In(c, live[b])) BY <1>2 DEF TallocInv, ApartOK
  <2> DEFINE oa == Plan[a].offset
             ob == Plan[b].offset
  <2>2. oa \in Nat /\ ob \in Nat BY <1>1
  <2>3. /\ ~(In(oa, live[a]) /\ In(oa, live[b]))
        /\ ~(In(ob, live[a]) /\ In(ob, live[b]))
    BY <2>1, <2>2
  <2>4. /\ In(oa, live[a]) <=> oa <= oa /\ oa < oa + live[a].size
        /\ In(oa, live[b]) <=> ob <= oa /\ oa < ob + live[b].size
        /\ In(ob, live[a]) <=> oa <= ob /\ ob < oa + live[a].size
        /\ In(ob, live[b]) <=> ob <= ob /\ ob < ob + live[b].size
    BY <1>1 DEF In, End
  <2>5. /\ live[a].size \in Nat \ {0} /\ live[b].size \in Nat \ {0}
        /\ Plan[a].size_max \in Nat /\ Plan[b].size_max \in Nat
        /\ Plan[a].size_max <= live[a].size /\ Plan[b].size_max <= live[b].size
    BY <1>1
  <2>6. oa + Plan[a].size_max <= ob \/ ob + Plan[b].size_max <= oa
    BY <2>2, <2>3, <2>4, <2>5
  <2> QED BY <2>6 DEF Apart
<1>3. ASSUME NEW t \in DOMAIN live PROVE Plan[t].offset + Plan[t].size_max <= max_size
  <2>1. max_size \in Nat BY DEF TallocInv, TallocTypeOK
  <2> QED BY <1>1, <2>1
<1> QED BY <1>2, <1>3 DEF HoldersApart, Inside

\* A tensor gets a block of its own, or that of a source nobody else reads.
OwnBlock(t) ==
    /\ DOMAIN live' = DOMAIN live \cup {t}
    /\ \A u \in DOMAIN live : live'[u] = live[u]
TakenOver(t, s) ==
    /\ s \in DOMAIN live /\ CanReuse(t, s) /\ live'[t] = live[s]
    /\ DOMAIN live' = (DOMAIN live \ {s}) \cup {t}
    /\ \A u \in DOMAIN live \ {s} : live'[u] = live[u]

LEMMA Allocates ==
    ASSUME graph \in Graphs, tokens \in TokenCounts, TallocInv, HoldersOK,
           offset \in [Tensors -> Nat],
           NEW t \in Tensors \ DOMAIN live, Planned(t), AllocateNode(t)
    PROVE  /\ TallocInv' /\ max_size <= max_size' /\ t \in DOMAIN live'
           /\ offset' \in [Tensors -> Nat] /\ offset' = [offset EXCEPT ![t] = live'[t].offset]
           /\ \A u \in DOMAIN live' :
                 live'[u] = [offset |-> offset'[u], size |-> Aligned(NBytes(u))]
           /\ OwnBlock(t) \/ \E i \in Reusable(t) : TakenOver(t, Src(t)[i])
<1> DEFINE size == NBytes(t)
<1>1. size \in Nat \ {0} BY SizesOfTensors
<1>2. max_size \in Nat /\ live \in [DOMAIN live -> Block] BY DEF TallocInv, TallocTypeOK
<1>3. offset' = [offset EXCEPT ![t] = live'[t].offset] BY DEF AllocateNode
<1>4. \A u \in DOMAIN live :
         u \in Tensors /\ live[u] = [offset |-> offset[u], size |-> Aligned(NBytes(u))]
  BY DEF HoldersOK, TallocInv, TallocTypeOK
<1>5. ASSUME NEW i \in Reusable(t), HandOver(Src(t)[i], t)
      PROVE  /\ TallocInv' /\ max_size <= max_size' /\ t \in DOMAIN live'
             /\ live'[t] \in Block /\ live'[t].size = Aligned(NBytes(t))
             /\ \A u \in DOMAIN live' \ {t} : u \in DOMAIN live /\ live'[u] = live[u]
             /\ TakenOver(t, Src(t)[i])
  <2> DEFINE s == Src(t)[i]
  <2>1. CanReuse(t, s) BY DEF Reusable
  <2>2. s \in DOMAIN live /\ s \in Tensors /\ NBytes(s) = NBytes(t)
    BY <2>1, <1>4 DEF CanReuse
  <2>3. TallocInv' BY <1>5, <2>2, HandOverKeeps
  <2>4. /\ max_size' = max_size /\ DOMAIN live' = (DOMAIN live \ {s}) \cup {t}
        /\ live'[t] = live[s] /\ \A u \in DOMAIN live \ {s} : live'[u] = live[u]
    BY <1>5 DEF HandOver
  <2>5. live'[t] \in Block /\ live'[t].size = Aligned(NBytes(t))
    <3>1. live[s].size = Aligned(NBytes(s)) BY <1>4, <2>2
    <3> QED BY <1>2, <2>2, <2>4, <3>1
  <2>6. TakenOver(t, s) BY <2>1, <2>2, <2>4 DEF TakenOver
  <2> HIDE DEF s
  <2> QED BY <1>2, <2>3, <2>4, <2>5, <2>6 DEF s
<1>6. ASSUME Alloc(t, size)
      PROVE  /\ TallocInv' /\ max_size <= max_size' /\ t \in DOMAIN live'
             /\ live'[t] \in Block /\ live'[t].size = Aligned(NBytes(t))
             /\ \A u \in DOMAIN live' \ {t} : u \in DOMAIN live /\ live'[u] = live[u]
             /\ OwnBlock(t)
  <2>1. PICK b \in Block : Got(t, b) BY <1>1, <1>6, AllocGets
  <2>2. TallocInv' BY <2>1, GotKeeps
  <2>3. max_size <= max_size' /\ live' = WithLive(t, b) BY <2>1 DEF Got
  <2>4. /\ DOMAIN live' = DOMAIN live \cup {t} /\ live'[t] = b
        /\ \A u \in DOMAIN live : live'[u] = live[u]
    BY <2>3 DEF WithLive
  <2>5. live'[t].size = Aligned(NBytes(t)) BY <1>6 DEF Alloc, WithLive
  <2>6. OwnBlock(t) BY <2>4 DEF OwnBlock
  <2> QED BY <2>1, <2>2, <2>3, <2>4, <2>5, <2>6
<1>7. \/ \E i \in Reusable(t) : HandOver(Src(t)[i], t)
      \/ Alloc(t, size)
  BY DEF AllocateNode
<1>8. /\ TallocInv' /\ max_size <= max_size' /\ t \in DOMAIN live'
      /\ live'[t] \in Block /\ live'[t].size = Aligned(NBytes(t))
      /\ \A u \in DOMAIN live' \ {t} : u \in DOMAIN live /\ live'[u] = live[u]
      /\ OwnBlock(t) \/ \E i \in Reusable(t) : TakenOver(t, Src(t)[i])
  BY <1>5, <1>6, <1>7
<1>9. live'[t].offset \in Nat /\ live'[t] = [offset |-> live'[t].offset, size |-> live'[t].size]
  BY <1>8 DEF Block
<1>10. offset' \in [Tensors -> Nat] /\ offset'[t] = live'[t].offset
       /\ \A u \in Tensors \ {t} : offset'[u] = offset[u]
  BY <1>3, <1>9
<1>11. ASSUME NEW u \in DOMAIN live'
       PROVE  live'[u] = [offset |-> offset'[u], size |-> Aligned(NBytes(u))]
  <2>1. CASE u = t BY <1>8, <1>9, <1>10, <2>1
  <2>2. CASE u # t
    <3>1. u \in DOMAIN live /\ live'[u] = live[u] BY <1>8, <2>2
    <3>2. u \in Tensors /\ live[u] = [offset |-> offset[u], size |-> Aligned(NBytes(u))]
      BY <1>4, <3>1
    <3>3. offset'[u] = offset[u] BY <1>10, <2>2, <3>2
    <3> QED BY <3>1, <3>2, <3>3
  <2> QED BY <2>1, <2>2
<1> QED BY <1>3, <1>8, <1>10, <1>11

-----------------------------------------------------------------------------
(* The plan stays as good as it is where it is not changed.                *)

LEMMA PlanKept ==
    ASSUME UNCHANGED <<graph, tokens>>, NEW t,
           \A u \in Tensors \ {t} : offset'[u] = offset[u]
    PROVE  \A u \in Tensors \ {t} : Plan'[u] = Plan[u]
BY SameGraph, SameSizes DEF Plan

LEMMA FitsStill ==
    ASSUME NEW k \in Int, NEW p, NEW q, NodeFits(p, k),
           \A u \in Before(graph, k) \cup {graph.nodes[k]} : q[u] = p[u]
    PROVE  NodeFits(q, k)
BY DEF NodeFits, InPlace

LEMMA FitsNext ==
    ASSUME UNCHANGED graph, NEW k
    PROVE  /\ NodeFits(Plan', k) => NodeFits(Plan, k)'
           /\ NodeFits(talloc', k) => NodeFits(talloc, k)'
<1>1. \A t : Planned(t)' <=> Planned(t) BY SameGraph
<1>2. \A t, m : (ReadAt(t, m)' <=> ReadAt(t, m)) /\ (UsedAfter(t, m)' <=> UsedAfter(t, m))
  BY SameGraph
<1>3. NodeFits(Plan', k) => NodeFits(Plan, k)' BY <1>1, <1>2 DEF NodeFits, InPlace
<1>4. NodeFits(talloc', k) => NodeFits(talloc, k)' BY <1>1, <1>2 DEF NodeFits, InPlace
<1> QED BY <1>3, <1>4

-----------------------------------------------------------------------------
(* The steps of the plan.                                                  *)

LEMMA InvFacts ==
    ASSUME GallocInv
    PROVE  /\ graph \in Graphs /\ tokens \in TokenCounts /\ GallocTypeOK /\ ControlOK
           /\ TallocInv /\ DOMAIN live \subseteq Tensors
           /\ n \in Nat /\ j \in Nat /\ N \in Nat
           /\ offset \in [Tensors -> Nat]
BY GraphFacts DEF GallocInv, GallocTypeOK, TallocTypeOK

\* Among the leafs, who has been reached holds a block.
LEMMA LeafsPlan ==
    /\ pc = "leafs" /\ TallocInv /\ HoldersOK /\ NeededLive
    /\ graph \in Graphs /\ tokens \in TokenCounts
    => PlanOK
<1> SUFFICES ASSUME pc = "leafs", TallocInv, HoldersOK, NeededLive,
                    graph \in Graphs, tokens \in TokenCounts
             PROVE  PlanOK
  OBVIOUS
<1>1. HoldersApart /\ Inside(Plan, DOMAIN live, max_size) BY HoldersPlaced
<1>2. \A t \in Born : Planned(t) => t \in DOMAIN live BY DEF NeededLive
<1>3. LeafsApart(Plan, Born \cap LeafsOf(graph)) BY <1>1, <1>2 DEF LeafsApart, HoldersApart
<1>4. Inside(Plan, Born, max_size) BY <1>1, <1>2 DEF Inside
<1> QED BY <1>3, <1>4 DEF PlanOK

LEMMA LeafStep == ASSUME GallocInv, AllocateLeaf PROVE GallocInv'
<1> DEFINE t == graph.leafs[n]
<1>0. /\ graph \in Graphs /\ tokens \in TokenCounts /\ GallocTypeOK /\ ControlOK /\ TallocInv
      /\ n \in Nat /\ j \in Nat /\ DOMAIN live \subseteq Tensors /\ offset \in [Tensors -> Nat]
  BY InvFacts
<1>1. /\ pc = "leafs" /\ pc' = "leafs" /\ n <= Len(graph.leafs) /\ n' = n + 1
      /\ AllocateNode(t)
      /\ UNCHANGED <<graph, tokens, j, n_children, n_views, talloc, buffer, mem>>
  BY DEF AllocateLeaf
<1>2. /\ HoldersOK /\ NeededLive /\ \A u \in Tensors : n_children[u] = 0
  BY <1>1 DEF GallocInv, Planning
<1>3. n \in 1..Len(graph.leafs) /\ t \in Tensors /\ n' \in 1..(Len(graph.leafs) + 1)
  BY <1>0, <1>1, GraphFacts DEF ControlOK
<1>4. Born' = Born \cup {t}
  <2>1. DOMAIN graph.leafs = 1..Len(graph.leafs) /\ Len(graph.leafs) \in Nat
    BY <1>0, GraphFacts
  <2>2. 1..Len(graph.leafs) \cap 1..(n' - 1) = (1..Len(graph.leafs) \cap 1..(n - 1)) \cup {n}
    BY <1>1, <1>3, <2>1
  <2>3. Born = {graph.leafs[i] : i \in 1..Len(graph.leafs) \cap 1..(n - 1)}
    BY <1>1, <2>1 DEF Born
  <2>4. Born' = {graph.leafs[i] : i \in 1..Len(graph.leafs) \cap 1..(n' - 1)}
    BY <1>1, <2>1 DEF Born
  <2> QED BY <2>2, <2>3, <2>4
<1>5. (\A u : Planned(u)' <=> Planned(u)) /\ (\A u : NBytes(u)' = NBytes(u))
  BY <1>1, SameGraph, SameSizes
<1>6. /\ TallocInv' /\ offset' \in [Tensors -> Nat]
      /\ \A u \in DOMAIN live' :
            /\ u \in Born' /\ Planned(u)
            /\ live'[u] = [offset |-> offset'[u], size |-> Aligned(NBytes(u))]
      /\ \A u \in Born' : Planned(u) => u \in DOMAIN live'
  <2>1. /\ \A u \in DOMAIN live :
              /\ u \in Born /\ Planned(u)
              /\ live[u] = [offset |-> offset[u], size |-> Aligned(NBytes(u))]
        /\ \A u \in Born : Planned(u) => u \in DOMAIN live
    BY <1>1, <1>2 DEF HoldersOK, NeededLive
  <2>2. CASE t \in DOMAIN live \/ ~Planned(t)
    <3>1. UNCHANGED <<tallocVars, offset>> BY <1>1, <2>2 DEF AllocateNode
    <3>2. TallocInv'
      BY <1>0, <3>1, TallocStep
    <3>3. live' = live /\ offset' = offset BY <3>1 DEF tallocVars
    <3> QED BY <1>0, <1>4, <2>1, <2>2, <3>2, <3>3
  <2>3. CASE ~(t \in DOMAIN live \/ ~Planned(t))
    <3>1. Reusable(t) = {}
      <4>1. \A p \in DOMAIN live : n_children[p] # 1 BY <1>0, <1>2
      <4> QED BY <4>1 DEF Reusable, CanReuse
    <3>2. /\ TallocInv' /\ offset' \in [Tensors -> Nat] /\ OwnBlock(t)
          /\ \A u \in DOMAIN live' :
                live'[u] = [offset |-> offset'[u], size |-> Aligned(NBytes(u))]
      BY <1>0, <1>1, <1>2, <1>3, <2>3, <3>1, Allocates
    <3>3. DOMAIN live' = DOMAIN live \cup {t} BY <3>2 DEF OwnBlock
    <3> QED BY <1>4, <2>1, <2>3, <3>2, <3>3
  <2> QED BY <2>2, <2>3
<1> HIDE DEF t
<1>7. HoldersOK' BY <1>5, <1>6 DEF HoldersOK, Aligned
<1>8. NeededLive' BY <1>1, <1>5, <1>6 DEF NeededLive
<1>9. PlanOK'
  <2>1. graph' \in Graphs /\ tokens' \in TokenCounts BY <1>0, <1>1
  <2>2. (/\ pc = "leafs" /\ TallocInv /\ HoldersOK /\ NeededLive
         /\ graph \in Graphs /\ tokens \in TokenCounts)' => PlanOK'
    BY LeafsPlan, PTL
  <2> QED BY <1>1, <1>6, <1>7, <1>8, <2>1, <2>2
<1>10. GallocTypeOK' /\ graph' \in Graphs
  <2>1. TallocTypeOK' BY <1>6 DEF TallocInv
  <2>2. n' \in Nat BY <1>0, <1>1
  <2> QED BY <1>0, <1>1, <1>6, <2>1, <2>2 DEF GallocTypeOK
<1>11. ControlOK' BY <1>0, <1>1, <1>3 DEF ControlOK
<1>12. \A u \in Tensors : n_children'[u] = 0 BY <1>1, <1>2
<1> QED BY <1>1, <1>6, <1>7, <1>8, <1>9, <1>10, <1>11, <1>12 DEF GallocInv, Planning

\* All reads and views are counted, and none has been come to.
LEMMA CountStep == ASSUME GallocInv, Count PROVE GallocInv'
<1>0. /\ graph \in Graphs /\ tokens \in TokenCounts /\ GallocTypeOK /\ ControlOK /\ TallocInv
      /\ n \in Nat /\ j \in Nat /\ DOMAIN live \subseteq Tensors /\ offset \in [Tensors -> Nat]
  BY InvFacts
<1>1. /\ pc = "leafs" /\ pc' = "allocate" /\ n > Len(graph.leafs) /\ n' = 1
      /\ n_children' = [t \in Tensors |-> Cardinality(Reads(t))]
      /\ n_views' = [t \in Tensors |-> Cardinality(Views(t))]
      /\ UNCHANGED <<free_blocks, max_size, live>>
      /\ UNCHANGED <<graph, tokens, j, offset, talloc, buffer, mem>>
  BY DEF Count, tallocVars
<1>2. HoldersOK /\ NeededLive /\ PlanOK BY <1>1 DEF GallocInv, Planning
<1>3. /\ \A u : (Planned(u)' <=> Planned(u)) /\ Reads(u)' = Reads(u) /\ Views(u)' = Views(u)
      /\ \A u : NBytes(u)' = NBytes(u)
      /\ N' = N /\ Sources' = Sources
  BY <1>1, SameGraph, SameSizes
<1>4. Born = LeafsOf(graph) /\ Born' = LeafsOf(graph)
  <2>1. /\ DOMAIN graph.leafs = 1..Len(graph.leafs) /\ Len(graph.leafs) \in Nat
        /\ n = Len(graph.leafs) + 1
    BY <1>0, <1>1, GraphFacts DEF ControlOK
  <2>2. 1..Len(graph.leafs) \cap 1..(n - 1) = 1..Len(graph.leafs) BY <2>1
  <2>3. Born = LeafsOf(graph) BY <1>1, <2>1, <2>2 DEF Born, LeafsOf
  <2>4. Reached' + 1 = 1 BY <1>1 DEF Reached
  <2>5. Born' = Before(graph, 1) BY <1>1, <2>4 DEF Born
  <2> QED BY <1>0, <2>3, <2>5, BeforeFacts
<1>5. \A r \in Sources : Left(r)'
  <2> SUFFICES ASSUME NEW r \in Sources PROVE Left(r)' OBVIOUS
  <2>1. PICK k \in 1..N : \E i \in DOMAIN Src(graph.nodes[k]) : r = <<graph.nodes[k], i>>
    BY <1>0, SourcesAre
  <2>2. DOMAIN graph.nodes = 1..N /\ N \in Nat BY <1>0, GraphFacts
  <2>3. r[1] = graph.nodes[k] /\ (k > 1 \/ k = 1) BY <2>1, <2>2
  <2> QED BY <1>1, <2>2, <2>3 DEF Left
<1>6. \A t : ReadsLeft(t)' = Reads(t)
  <2>1. \A t : Reads(t) \subseteq Sources BY DEF Reads
  <2> QED BY <1>3, <1>5, <2>1 DEF ReadsLeft
<1>7. \A t : ViewsLeft(t)' = Views(t) BY <1>3, <1>6 DEF ViewsLeft
<1>8. CountsOK' BY <1>1, <1>6, <1>7 DEF CountsOK, Own
<1>9. NoneIdle' BY <1>3, <1>6 DEF NoneIdle
<1>10. HoldersOK' BY <1>1, <1>2, <1>3, <1>4 DEF HoldersOK, Aligned
<1>11. NeededLive'
  <2>1. \A u \in Born : Planned(u) => u \in DOMAIN live BY <1>1, <1>2 DEF NeededLive
  <2> QED BY <1>1, <1>3, <1>4, <2>1 DEF NeededLive
<1>12. PlanOK'
  <2>1. Plan' = Plan BY <1>1, <1>3 DEF Plan
  <2>2. LeafsApart(Plan, Born \cap LeafsOf(graph)) /\ Inside(Plan, Born, max_size)
    BY <1>2 DEF PlanOK
  <2>3. LeafsApart(Plan, Born \cap LeafsOf(graph))'
    BY <1>1, <1>3, <1>4, <2>1, <2>2 DEF LeafsApart
  <2>4. Inside(Plan, Born, max_size)' BY <1>1, <1>3, <1>4, <2>1, <2>2 DEF Inside
  <2>5. 1..Reached' = {} BY <1>1 DEF Reached
  <2> QED BY <2>3, <2>4, <2>5 DEF PlanOK
<1>13. /\ n_children' \in [Tensors -> Nat] /\ n_views' \in [Tensors -> Int]
       /\ \A t \in Tensors : n_views'[t] \in Nat
  BY <1>0, <1>1, CountsFinite
<1>14. TallocInv' BY <1>0, <1>1, TallocStep DEF tallocVars
<1>15. GallocTypeOK' /\ graph' \in Graphs
  <2>1. TallocTypeOK' BY <1>14 DEF TallocInv
  <2> QED BY <1>0, <1>1, <1>13, <2>1 DEF GallocTypeOK
<1>16. ControlOK'
  <2>1. j = 1 BY <1>0, <1>1 DEF ControlOK
  <2>2. N \in Nat \ {0} /\ Node' \in Tensors
    BY <1>0, <1>1, GraphFacts DEF Node
  <2>3. Len(Src(Node')) \in Nat BY <1>0, <2>2, TensorFacts
  <2>4. Src(Node)' = Src(Node') BY <1>1 DEF Src, Node
  <2> QED BY <1>1, <1>3, <2>1, <2>2, <2>3, <2>4 DEF ControlOK
<1> QED
  BY <1>1, <1>8, <1>9, <1>10, <1>11, <1>12, <1>14, <1>15, <1>16 DEF GallocInv, Planning

LEMMA AtNode ==
    ASSUME GallocInv, pc \in {"allocate", "update"}
    PROVE  /\ n \in 1..N /\ Node \in Tensors /\ N \in Nat /\ n \in Int
           /\ Len(Src(Node)) \in Nat /\ DOMAIN Src(Node) = 1..Len(Src(Node))
           /\ j \in 1..(Len(Src(Node)) + 1)
           /\ pc = "allocate" => Born = Before(graph, n)
           /\ pc = "update" => Born = Before(graph, n + 1)
           /\ Born \subseteq Tensors
           /\ HoldersOK /\ NeededLive /\ PlanOK /\ CountsOK /\ NoneIdle
<1>0. graph \in Graphs /\ ControlOK /\ N \in Nat BY InvFacts
<1>1. n \in 1..N /\ j \in 1..(Len(Src(Node)) + 1) BY <1>0 DEF ControlOK
<1>2. Node \in Tensors BY <1>0, <1>1, GraphFacts DEF Node
<1>3. Len(Src(Node)) \in Nat /\ DOMAIN Src(Node) = 1..Len(Src(Node)) BY <1>0, <1>2, TensorFacts
<1>4. HoldersOK /\ NeededLive /\ PlanOK /\ CountsOK /\ NoneIdle BY DEF GallocInv, Planning
<1>5. pc = "allocate" => Born = Before(graph, n)
  <2>1. n - 1 + 1 = n BY <1>0, <1>1
  <2> QED BY <2>1 DEF Born, Reached
<1>6. pc = "update" => Born = Before(graph, n + 1) BY DEF Born, Reached
<1>7. Before(graph, n) \subseteq Tensors /\ Before(graph, n + 1) \subseteq Tensors
  BY <1>0, <1>1, BeforeFacts
<1> QED BY <1>0, <1>1, <1>2, <1>3, <1>4, <1>5, <1>6, <1>7

\* Nothing but the place in the graph changes.
LEMMA Stays ==
    ASSUME GallocInv, pc \in {"allocate", "update"}, pc' \in {"allocate", "update", "assign"},
           UNCHANGED <<tallocVars, graph, tokens, hash, talloc, buffer, mem>>,
           n' \in Nat, j' \in Nat, ControlOK', Reached' = Reached,
           \A r \in Sources : Left(r)' <=> Left(r)
    PROVE  GallocInv'
<1>0. /\ graph \in Graphs /\ tokens \in TokenCounts /\ GallocTypeOK /\ TallocInv
  BY InvFacts
<1>1. HoldersOK /\ NeededLive /\ PlanOK /\ CountsOK /\ NoneIdle BY AtNode
<1>2. /\ UNCHANGED <<free_blocks, max_size, live, graph, tokens, n_children, n_views, offset>>
      /\ UNCHANGED <<talloc, buffer, mem>>
  BY DEF tallocVars, hash
<1>3. /\ \A u : (Planned(u)' <=> Planned(u)) /\ Reads(u)' = Reads(u)
      /\ \A u : NBytes(u)' = NBytes(u)
      /\ \A t, k : UsedAfter(t, k)' <=> UsedAfter(t, k)
  BY <1>2, SameGraph, SameSizes
<1>4. \A t : ReadsLeft(t)' = ReadsLeft(t) /\ ViewsLeft(t)' = ViewsLeft(t)
  BY <1>2, SameLeft
<1>5. CountsOK' BY <1>1, <1>2, <1>4 DEF CountsOK, Own
<1>6. NoneIdle' BY <1>1, <1>2, <1>3, <1>4 DEF NoneIdle
<1>7. Born' = Born BY <1>2 DEF Born
<1>8. HoldersOK' BY <1>1, <1>2, <1>3, <1>7 DEF HoldersOK, Aligned
<1>9. NeededLive' BY <1>1, <1>2, <1>3, <1>7 DEF NeededLive
<1>10. PlanOK'
  <2>1. Plan' = Plan BY <1>2, <1>3 DEF Plan
  <2>2. /\ LeafsApart(Plan, Born \cap LeafsOf(graph)) /\ Inside(Plan, Born, max_size)
        /\ \A k \in 1..Reached : NodeFits(Plan, k)
    BY <1>1 DEF PlanOK
  <2>3. LeafsApart(Plan, Born \cap LeafsOf(graph))'
    BY <1>2, <1>3, <1>7, <2>1, <2>2 DEF LeafsApart
  <2>4. Inside(Plan, Born, max_size)' BY <1>2, <1>3, <1>7, <2>1, <2>2 DEF Inside
  <2>5. \A k \in 1..Reached : NodeFits(Plan, k)' BY <1>2, <2>1, <2>2, FitsNext
  <2> QED BY <2>3, <2>4, <2>5 DEF PlanOK
<1>11. TallocInv' BY <1>0, TallocStep
<1>12. GallocTypeOK' /\ graph' \in Graphs
  <2>1. TallocTypeOK' BY <1>11 DEF TallocInv
  <2>2. pc' \in {"idle", "leafs", "allocate", "update", "assign", "ready", "compute"} OBVIOUS
  <2> QED BY <1>0, <1>2, <2>1, <2>2 DEF GallocTypeOK
<1> QED
  BY <1>5, <1>6, <1>8, <1>9, <1>10, <1>11, <1>12 DEF GallocInv, Planning

\* A source that gets a block has it already.
LEMMA ParentStep == ASSUME GallocInv, AllocateParent PROVE GallocInv'
<1> DEFINE p == Src(Node)[j]
<1>0. /\ graph \in Graphs /\ n \in Nat /\ j \in Nat /\ N \in Nat
  BY InvFacts
<1>1. /\ pc = "allocate" /\ pc' = "allocate" /\ j <= Len(Src(Node)) /\ AllocateNode(p)
      /\ j' = j + 1
      /\ UNCHANGED <<graph, tokens, n, n_children, n_views, talloc, buffer, mem>>
  BY DEF AllocateParent
<1>2. /\ n \in 1..N /\ Node \in Tensors /\ j \in DOMAIN Src(Node) /\ Node = graph.nodes[n]
      /\ Len(Src(Node)) \in Nat /\ j' \in 1..(Len(Src(Node)) + 1)
      /\ Born = Before(graph, n) /\ NeededLive
  BY <1>0, <1>1, AtNode DEF Node
<1>3. p \in DOMAIN live \/ ~Planned(p)
  <2> SUFFICES ASSUME Planned(p) PROVE p \in DOMAIN live OBVIOUS
  <2>1. p \in Before(graph, n) /\ p \in Tensors BY <1>0, <1>2, SourcesBefore
  <2>2. Root(p) = p BY <1>0, <2>1, PlannedFacts
  <2>3. ReadAt(p, n) BY <1>2, <2>2 DEF ReadAt
  <2>4. n \in DOMAIN graph.nodes /\ n > Reached
    BY <1>0, <1>1, <1>2, GraphFacts DEF Reached
  <2>5. UsedAfter(p, Reached) BY <2>3, <2>4 DEF UsedAfter
  <2> QED BY <1>2, <2>1, <2>5 DEF NeededLive
<1>4. UNCHANGED <<tallocVars, offset>> BY <1>1, <1>3 DEF AllocateNode
<1>5. ControlOK'
  <2>1. N' = N /\ Src(Node)' = Src(Node) BY <1>1 DEF N, Src, Node
  <2> QED BY <1>1, <1>2, <2>1 DEF ControlOK
<1>6. Reached' = Reached BY <1>1 DEF Reached
<1>7. \A r : Left(r)' <=> Left(r) BY <1>1 DEF Left
<1>8. UNCHANGED <<tallocVars, graph, tokens, hash, talloc, buffer, mem>>
  BY <1>1, <1>4 DEF hash
<1>9. n' \in Nat /\ j' \in Nat BY <1>0, <1>1
<1> QED BY <1>1, <1>5, <1>6, <1>7, <1>8, <1>9, Stays

LEMMA NextNodeStep == ASSUME GallocInv, NextNode PROVE GallocInv'
<1>0. graph \in Graphs /\ n \in Nat /\ j \in Nat /\ N \in Nat BY InvFacts
<1>1. /\ pc = "update" /\ j > Len(Src(Node)) /\ j' = 1 /\ n' = n + 1
      /\ pc' = IF n < N THEN "allocate" ELSE "assign"
      /\ UNCHANGED <<tallocVars, graph, tokens, hash, talloc, buffer, mem>>
  BY DEF NextNode, N
<1>2. n \in 1..N /\ Node = graph.nodes[n] /\ Len(Src(Node)) \in Nat
      /\ DOMAIN Src(Node) = 1..Len(Src(Node))
  BY <1>1, AtNode DEF Node
<1>3. N' = N /\ DOMAIN graph.nodes = 1..N BY <1>0, <1>1, GraphFacts DEF N
<1>4. ControlOK'
  <2>1. CASE n < N
    <3>1. n' \in 1..N BY <1>0, <1>1, <2>1
    <3>2. Node' \in Tensors /\ Src(Node)' = Src(Node')
      BY <1>0, <1>1, <3>1, GraphFacts DEF Node, Src
    <3>3. Len(Src(Node')) \in Nat BY <1>0, <3>2, TensorFacts
    <3>4. 1 \in 1..(Len(Src(Node')) + 1) BY <3>3
    <3> QED BY <1>1, <1>3, <2>1, <3>1, <3>2, <3>4 DEF ControlOK
  <2>2. CASE ~(n < N)
    <3>1. n' = N + 1 /\ pc' = "assign" BY <1>0, <1>1, <1>2, <2>2
    <3> QED BY <1>1, <1>3, <3>1 DEF ControlOK
  <2> QED BY <2>1, <2>2
<1>5. Reached' = Reached
  <2>1. pc' # "update" BY <1>1
  <2>2. Reached' = n' - 1 BY <2>1 DEF Reached
  <2>3. Reached = n BY <1>1 DEF Reached
  <2> QED BY <1>0, <1>1, <2>2, <2>3
<1>6. ASSUME NEW r \in Sources PROVE Left(r)' <=> Left(r)
  <2>1. PICK k \in 1..N : \E i \in DOMAIN Src(graph.nodes[k]) : r = <<graph.nodes[k], i>>
    BY <1>0, SourcesAre
  <2>2. PICK i \in DOMAIN Src(graph.nodes[k]) : r = <<graph.nodes[k], i>> BY <2>1
  <2>3. Left(r) <=> k > n
    <3>1. k = n => ~(j <= i) BY <1>0, <1>1, <1>2
    <3> QED BY <1>0, <1>1, <2>2, <3>1, LeftAt
  <2>4. \A m \in 1..N : graph.nodes[k] = graph.nodes[m] => k = m BY <1>0, NodesDistinct
  <2>5. r[1] = graph.nodes[k] BY <2>2
  <2>6. Left(r)' <=> k > n + 1 \/ (k = n + 1 /\ pc' # "update")
    BY <1>1, <1>3, <2>4, <2>5 DEF Left
  <2> QED BY <1>0, <1>1, <2>3, <2>6
<1>7. n' \in Nat /\ j' \in Nat BY <1>0, <1>1
<1> QED BY <1>1, <1>4, <1>5, <1>6, <1>7, Stays

\* Who is a source for the last time, and no view looks at it, is not needed
\* after the node.
LEMMA LastReader ==
    ASSUME graph \in Graphs, CountsOK, pc = "allocate", n \in 1..N, NEW i \in DOMAIN Src(Node),
           Src(Node)[i] \in Own, n_children[Src(Node)[i]] = 1, n_views[Src(Node)[i]] = 0,
           Src(Node)[i] \notin graph.output
    PROVE  ~UsedAfter(Src(Node)[i], n)
<1> DEFINE s == Src(Node)[i]
<1>0. Node = graph.nodes[n] /\ N \in Nat /\ DOMAIN graph.nodes = 1..N /\ s \in Tensors
  BY GraphFacts, SourcesBefore DEF Node
<1>1. SUFFICES ASSUME NEW m \in 1..N, m > n, ReadAt(s, m) PROVE FALSE
  BY <1>0 DEF UsedAfter
<1>2. PICK l \in DOMAIN Src(graph.nodes[m]) : Root(Src(graph.nodes[m])[l]) = s
  BY <1>1 DEF ReadAt
<1>3. Cardinality(ReadsLeft(s)) = 1 /\ ViewsLeft(s) = {} /\ IsFiniteSet(ReadsLeft(s))
  BY <1>0, CountsFinite DEF CountsOK
<1>4. <<graph.nodes[m], l>> \in ReadsLeft(s)
  <2>1. Left(<<graph.nodes[m], l>>) BY <1>0, <1>1, <1>2, LeftAt
  <2> QED BY <1>0, <1>2, <1>3, <2>1, NotReadAnyMore
<1>5. <<graph.nodes[n], i>> \in ReadsLeft(s)
  <2>1. Left(<<graph.nodes[n], i>>) BY <1>0, LeftAt
  <2>2. <<graph.nodes[n], i>> \in Sources BY <1>0, SourcesAre
  <2> QED BY <1>0, <2>1, <2>2 DEF ReadsLeft, Reads
<1>6. PICK x : ReadsLeft(s) = {x} BY <1>3, FS_Singleton
<1>7. graph.nodes[m] = graph.nodes[n] BY <1>4, <1>5, <1>6
<1> QED BY <1>0, <1>1, <1>7, NodesDistinct

LEMMA DstStep == ASSUME GallocInv, AllocateDst PROVE GallocInv'
<1> DEFINE b == Node
<1>0. /\ graph \in Graphs /\ tokens \in TokenCounts /\ GallocTypeOK /\ TallocInv
      /\ n \in Nat /\ j \in Nat /\ N \in Nat /\ DOMAIN live \subseteq Tensors
      /\ offset \in [Tensors -> Nat]
  BY InvFacts
<1>1. /\ pc = "allocate" /\ pc' = "update" /\ j' = 1 /\ AllocateNode(b)
      /\ UNCHANGED <<graph, tokens, n, n_children, n_views, talloc, buffer, mem>>
  BY DEF AllocateDst
<1>2. /\ n \in 1..N /\ b \in Tensors /\ b = graph.nodes[n]
      /\ DOMAIN graph.nodes = 1..N
      /\ Len(Src(b)) \in Nat /\ DOMAIN Src(b) = 1..Len(Src(b))
      /\ Born = Before(graph, n) /\ Born \subseteq Tensors
      /\ HoldersOK /\ NeededLive /\ PlanOK /\ CountsOK /\ NoneIdle
  BY <1>0, <1>1, AtNode, GraphFacts DEF Node
<1> HIDE DEF b
<1>3. Born' = Born \cup {b} /\ b \notin Born /\ Reached = n - 1 /\ Reached' = n
      /\ LeafsOf(graph) \subseteq Born
  <2>1. Reached = n - 1 /\ Reached' = n BY <1>1 DEF Reached
  <2>2. Born' = Before(graph, n + 1) BY <1>1, <2>1 DEF Born
  <2>3. /\ Before(graph, n + 1) = Before(graph, n) \cup {graph.nodes[n]}
        /\ graph.nodes[n] \notin Before(graph, n)
        /\ LeafsOf(graph) \subseteq Before(graph, n)
    BY <1>0, <1>2, BeforeFacts
  <2> QED BY <1>2, <2>1, <2>2, <2>3
<1>4. /\ N' = N /\ Sources' = Sources
      /\ \A u : (Planned(u)' <=> Planned(u)) /\ Reads(u)' = Reads(u) /\ Src(u)' = Src(u)
      /\ \A u : NBytes(u)' = NBytes(u)
      /\ \A t, k : (UsedAfter(t, k)' <=> UsedAfter(t, k)) /\ (ReadAt(t, k)' <=> ReadAt(t, k))
  <2>1. UNCHANGED graph /\ UNCHANGED <<graph, tokens>> BY <1>1
  <2>2. \A u : NBytes(u)' = NBytes(u) BY <2>1, SameSizes
  <2>3. N' = N /\ Sources' = Sources BY <2>1, SameGraph
  <2>4. \A u : Planned(u)' <=> Planned(u) BY <2>1, SameGraph
  <2>5. \A u : Reads(u)' = Reads(u) BY <2>1, SameGraph
  <2>6. \A u : Src(u)' = Src(u) BY <2>1 DEF Src
  <2>7. \A t, k : UsedAfter(t, k)' <=> UsedAfter(t, k) BY <2>1, SameGraph
  <2>8. \A t, k : ReadAt(t, k)' <=> ReadAt(t, k) BY <2>1, SameGraph
  <2> QED BY <2>2, <2>3, <2>4, <2>5, <2>6, <2>7, <2>8
<1>5. ASSUME NEW r \in Sources PROVE Left(r)' <=> Left(r)
  <2>1. PICK k \in 1..N : \E i \in DOMAIN Src(graph.nodes[k]) : r = <<graph.nodes[k], i>>
    BY <1>0, SourcesAre
  <2>2. PICK i \in DOMAIN Src(graph.nodes[k]) : r = <<graph.nodes[k], i>> BY <2>1
  <2>3. k = n => 1 <= i BY <1>2, <2>2
  <2>4. Left(r) <=> k > n \/ k = n BY <1>0, <1>1, <2>2, LeftAt
  <2>5. \A m \in 1..N : graph.nodes[k] = graph.nodes[m] => k = m BY <1>0, NodesDistinct
  <2>6. r[1] = graph.nodes[k] /\ r[2] = i BY <2>2
  <2>7. Left(r)' <=> k > n \/ (k = n /\ 1 <= i)
    BY <1>1, <1>2, <2>5, <2>6 DEF Left
  <2> QED BY <2>3, <2>4, <2>7
<1>6. \A t : ReadsLeft(t)' = ReadsLeft(t) /\ ViewsLeft(t)' = ViewsLeft(t)
  BY <1>1, <1>5, SameLeft
<1>7. \A t : ReadAt(t, n) \/ UsedAfter(t, n) => UsedAfter(t, Reached)
  BY <1>0, <1>2, <1>3 DEF UsedAfter
<1>8. /\ \A u \in DOMAIN live :
            /\ u \in Born /\ Planned(u)
            /\ live[u] = [offset |-> offset[u], size |-> Aligned(NBytes(u))]
      /\ \A u \in Born : Planned(u) /\ UsedAfter(u, Reached) => u \in DOMAIN live
  BY <1>1, <1>2 DEF HoldersOK, NeededLive
<1>9. /\ TallocInv' /\ max_size <= max_size' /\ offset' \in [Tensors -> Nat]
      /\ \A u \in Tensors \ {b} : offset'[u] = offset[u]
      /\ Planned(b) => b \in DOMAIN live'
      /\ \A u \in DOMAIN live' :
            /\ u \in DOMAIN live \cup {b} /\ Planned(u)
            /\ live'[u] = [offset |-> offset'[u], size |-> Aligned(NBytes(u))]
      /\ \A u \in Born : Planned(u) /\ UsedAfter(u, n) => u \in DOMAIN live'
      /\ \A u \in Born : Planned(b) /\ Planned(u) /\ ReadAt(u, n) =>
            \/ u \in DOMAIN live'
            \/ b \in graph.inplace /\ NBytes(u) = NBytes(b) /\ offset'[b] = offset'[u]
  <2>0. max_size \in Nat BY <1>0 DEF TallocInv, TallocTypeOK
  <2>1. CASE ~Planned(b)
    <3>1. UNCHANGED <<tallocVars, offset>> BY <1>1, <2>1 DEF AllocateNode
    <3>2. TallocInv' BY <1>0, <3>1, TallocStep
    <3>3. live' = live /\ offset' = offset /\ max_size' = max_size BY <3>1 DEF tallocVars
    <3> QED BY <1>0, <1>7, <1>8, <2>0, <2>1, <3>2, <3>3
  <2>2. CASE Planned(b)
    <3>1. b \notin DOMAIN live BY <1>3, <1>8
    <3>2. /\ TallocInv' /\ max_size <= max_size' /\ b \in DOMAIN live'
          /\ offset' \in [Tensors -> Nat] /\ offset' = [offset EXCEPT ![b] = live'[b].offset]
          /\ \A u \in DOMAIN live' :
                live'[u] = [offset |-> offset'[u], size |-> Aligned(NBytes(u))]
          /\ OwnBlock(b) \/ \E i \in Reusable(b) : TakenOver(b, Src(b)[i])
      BY <1>0, <1>1, <1>2, <2>2, <3>1, Allocates
    <3>3. \A u \in Tensors \ {b} : offset'[u] = offset[u] BY <1>0, <3>2
    <3>4. CASE OwnBlock(b)
      <4>1. DOMAIN live' = DOMAIN live \cup {b} BY <3>4 DEF OwnBlock
      <4> QED BY <1>7, <1>8, <2>2, <3>2, <3>3, <4>1
    <3>5. ASSUME NEW i \in Reusable(b), TakenOver(b, Src(b)[i])
          PROVE  /\ \A u \in DOMAIN live' : u \in DOMAIN live \cup {b} /\ Planned(u)
                 /\ \A u \in Born : Planned(u) /\ UsedAfter(u, n) => u \in DOMAIN live'
                 /\ \A u \in Born : Planned(b) /\ Planned(u) /\ ReadAt(u, n) =>
                       \/ u \in DOMAIN live'
                       \/ b \in graph.inplace /\ NBytes(u) = NBytes(b) /\ offset'[b] = offset'[u]
      <4> DEFINE s == Src(b)[i]
      <4>1. /\ s \in DOMAIN live /\ CanReuse(b, s) /\ live'[b] = live[s]
            /\ DOMAIN live' = (DOMAIN live \ {s}) \cup {b}
        BY <3>5 DEF TakenOver
      <4>2. /\ b \in graph.inplace /\ s \notin graph.output /\ NBytes(s) = NBytes(b)
            /\ n_children[s] = 1 /\ n_views[s] = 0
        BY <4>1 DEF CanReuse
      <4>3. ~UsedAfter(s, n)
        <5>1. i \in DOMAIN Src(b) BY DEF Reusable
        <5>2. s \in Own BY <1>0, <1>8, <4>1 DEF Own, Planned
        <5> QED BY <1>0, <1>1, <1>2, <4>2, <5>1, <5>2, LastReader DEF b
      <4>4. offset'[b] = offset'[s]
        <5>1. live[s].offset = offset[s] BY <1>8, <4>1
        <5>2. live'[b].offset = offset'[b] BY <3>2
        <5>3. offset'[s] = offset[s] BY <1>0, <3>1, <3>3, <4>1
        <5> QED BY <4>1, <5>1, <5>2, <5>3
      <4> HIDE DEF s
      <4>5. \A u \in DOMAIN live' : u \in DOMAIN live \cup {b} /\ Planned(u)
        BY <1>8, <2>2, <4>1
      <4>6. \A u \in Born : Planned(u) /\ UsedAfter(u, n) => u \in DOMAIN live'
        BY <1>7, <1>8, <4>1, <4>3
      <4>7. \A u \in Born : Planned(b) /\ Planned(u) /\ ReadAt(u, n) =>
               \/ u \in DOMAIN live'
               \/ b \in graph.inplace /\ NBytes(u) = NBytes(b) /\ offset'[b] = offset'[u]
        BY <1>7, <1>8, <4>1, <4>2, <4>4
      <4> QED BY <4>5, <4>6, <4>7
    <3> QED BY <3>2, <3>3, <3>4, <3>5
  <2> QED BY <2>1, <2>2
<1>10. HoldersOK' BY <1>3, <1>4, <1>8, <1>9 DEF HoldersOK, Aligned
<1>11. NeededLive' BY <1>1, <1>3, <1>4, <1>9 DEF NeededLive
<1>12. HoldersApart' /\ Inside(Plan, DOMAIN live, max_size)'
  <2>1. graph' \in Graphs /\ tokens' \in TokenCounts BY <1>0, <1>1
  <2>2. (TallocInv /\ HoldersOK /\ graph \in Graphs /\ tokens \in TokenCounts)'
           => (HoldersApart /\ Inside(Plan, DOMAIN live, max_size))'
    BY HoldersPlaced, PTL
  <2> QED BY <1>9, <1>10, <2>1, <2>2
<1>13. \A u \in Tensors \ {b} : Plan'[u] = Plan[u] BY <1>1, <1>9, PlanKept
<1>14. \A u \in Tensors : Planned(u) => Plan'[u].offset = offset'[u]
  BY <1>4 DEF Plan
<1>15. /\ LeafsApart(Plan, Born \cap LeafsOf(graph)) /\ Inside(Plan, Born, max_size)
       /\ \A k \in 1..(n - 1) : NodeFits(Plan, k)
  BY <1>1, <1>2, <1>3 DEF PlanOK
<1>16. LeafsApart(Plan, Born \cap LeafsOf(graph))'
  <2>1. Born' \cap LeafsOf(graph') = Born \cap LeafsOf(graph) BY <1>1, <1>3
  <2>2. \A u \in Born : Plan'[u] = Plan[u] BY <1>2, <1>3, <1>13
  <2> QED BY <1>4, <1>15, <2>1, <2>2 DEF LeafsApart
<1>17. Inside(Plan, Born, max_size)'
  <2>1. max_size \in Nat /\ max_size' \in Nat BY <1>0, <1>9 DEF TallocInv, TallocTypeOK
  <2>2. ASSUME NEW u \in Born, Planned(u)
        PROVE  Plan'[u].offset + Plan'[u].size_max <= max_size'
    <3>1. Plan'[u] = Plan[u] /\ u \in Tensors BY <1>2, <1>3, <1>13
    <3>2. Plan[u].offset + Plan[u].size_max <= max_size BY <1>15, <2>2 DEF Inside
    <3>3. Plan[u].offset \in Nat /\ Plan[u].size_max \in Nat
      BY <1>0, <2>2, <3>1, PlanOf, SizesOfTensors
    <3> QED BY <1>9, <2>1, <3>1, <3>2, <3>3
  <2>3. Planned(b) => Plan'[b].offset + Plan'[b].size_max <= max_size'
    BY <1>4, <1>9, <1>12 DEF Inside
  <2> QED BY <1>3, <1>4, <2>2, <2>3 DEF Inside
<1>18. ASSUME NEW k \in 1..(n - 1) PROVE NodeFits(Plan', k)
  <2>1. k \in 1..N /\ k \in Int /\ k + 1 \in Int /\ n \in Int /\ k + 1 <= n BY <1>0, <1>2
  <2>2. Before(graph, k) \cup {graph.nodes[k]} \subseteq Born
    <3>1. Before(graph, k + 1) = Before(graph, k) \cup {graph.nodes[k]} BY <1>0, <2>1, BeforeFacts
    <3>2. Before(graph, k + 1) \subseteq Before(graph, n) BY <1>0, <2>1, BeforeFacts
    <3> QED BY <1>2, <3>1, <3>2
  <2>3. \A u \in Born : Plan'[u] = Plan[u] BY <1>2, <1>3, <1>13
  <2> QED BY <1>15, <2>1, <2>2, <2>3, FitsStill
<1>19. NodeFits(Plan', n)
  <2> SUFFICES ASSUME NEW a \in Born, Planned(a), Planned(b)
               PROVE  /\ UsedAfter(a, n) => Apart(Plan'[a], Plan'[b])
                      /\ ReadAt(a, n) => Apart(Plan'[a], Plan'[b]) \/ InPlace(Plan', a, b)
    BY <1>2 DEF NodeFits
  <2>1. a # b /\ a \in Tensors BY <1>2, <1>3
  <2>2. a \in DOMAIN live' => Apart(Plan'[a], Plan'[b])
    BY <1>9, <1>12, <2>1 DEF HoldersApart
  <2>3. ASSUME b \in graph.inplace, NBytes(a) = NBytes(b), offset'[b] = offset'[a]
        PROVE  InPlace(Plan', a, b)
    <3>1. \A x, y, z \in Nat \ {0} : x * z = y * z => x = y BY SMT
    <3>2. graph.width[a] \in Nat \ {0} /\ graph.width[b] \in Nat \ {0}
      BY <1>0, <1>2, <2>1, TensorFacts
    <3>3. tokens \in Nat \ {0} BY <1>0, <2>1, SizesOfTensors
    <3>4. graph.width[a] = graph.width[b] BY <2>3, <3>1, <3>2, <3>3 DEF NBytes
    <3>5. Plan'[a].offset = Plan'[b].offset BY <1>2, <1>14, <2>1, <2>3
    <3> QED BY <2>3, <3>4, <3>5 DEF InPlace
  <2> QED BY <1>9, <2>2, <2>3
<1>20. PlanOK'
  <2>1. \A k \in 1..n : NodeFits(Plan', k) BY <1>0, <1>18, <1>19
  <2>2. \A k \in 1..n : NodeFits(Plan, k)' BY <1>1, <2>1, FitsNext
  <2> QED BY <1>3, <1>16, <1>17, <2>2 DEF PlanOK
<1>21. CountsOK' BY <1>1, <1>2, <1>6 DEF CountsOK, Own
<1>22. NoneIdle'
  <2>1. ASSUME NEW u \in DOMAIN live
        PROVE  u \in graph.output \/ ReadsLeft(u) # {} \/ Reads(u) = {} \/ ViewsLeft(u) # {}
    BY <1>2 DEF NoneIdle
  <2>2. ReadsLeft(b) # {} \/ Reads(b) = {}
    <3> SUFFICES ASSUME NEW r \in Reads(b) PROVE r \in ReadsLeft(b) OBVIOUS
    <3>1. r \in Sources /\ Src(r[1])[r[2]] = b BY DEF Reads
    <3>2. PICK k \in 1..N : \E i \in DOMAIN Src(graph.nodes[k]) : r = <<graph.nodes[k], i>>
      BY <1>0, <3>1, SourcesAre
    <3>3. PICK i \in DOMAIN Src(graph.nodes[k]) : r = <<graph.nodes[k], i>> BY <3>2
    <3>4. b \in Before(graph, k) BY <1>0, <3>1, <3>3, SourcesBefore
    <3>5. k > n
      <4>1. ~(k <= n)
        <5>1. k <= n => Before(graph, k) \subseteq Before(graph, n) BY <1>0, <1>2, BeforeFacts
        <5> QED BY <1>2, <1>3, <3>4, <5>1
      <4> QED BY <1>0, <4>1
    <3>6. Left(r) BY <1>0, <3>3, <3>5, LeftAt
    <3> QED BY <3>6 DEF ReadsLeft
  <2> QED BY <1>1, <1>4, <1>6, <1>9, <2>1, <2>2 DEF NoneIdle
<1>23. GallocTypeOK' /\ graph' \in Graphs
  <2>1. TallocTypeOK' BY <1>9 DEF TallocInv
  <2> QED BY <1>0, <1>1, <1>9, <2>1 DEF GallocTypeOK
<1>24. ControlOK'
  <2>1. Src(Node)' = Src(Node) /\ Node' = Node BY <1>1 DEF Src, Node
  <2>2. 1 \in 1..(Len(Src(Node)) + 1) BY <1>2 DEF b
  <2> QED BY <1>1, <1>2, <1>4, <2>1, <2>2 DEF ControlOK
<1> QED
  BY <1>1, <1>9, <1>10, <1>11, <1>20, <1>21, <1>22, <1>23, <1>24 DEF GallocInv, Planning

\* The read at hand is done with; a view that has no other is done with, too.
LEMMA OneLess ==
    ASSUME GallocInv, UpdateParent
    PROVE  LET p == Src(Node)[j]
               x == <<Node, j>>
           IN  /\ p \in Tensors /\ x \in ReadsLeft(p)
               /\ \A t : t # p => x \notin ReadsLeft(t)
               /\ \A r \in Sources : Left(r)' <=> Left(r) /\ r # x
               /\ \A t : ReadsLeft(t)' = ReadsLeft(t) \ {x}
               /\ \A t : ViewsLeft(t)' = IF ReadsLeft(p) = {x} THEN ViewsLeft(t) \ {p}
                                                               ELSE ViewsLeft(t)
               /\ \A t \in Own : p \in ViewsLeft(t) <=> IsView(p) /\ t = Root(p)
<1> DEFINE p == Src(Node)[j]
           x == <<Node, j>>
<1>0. graph \in Graphs /\ n \in Nat /\ j \in Nat /\ N \in Nat BY InvFacts
<1>1. /\ pc = "update" /\ j <= Len(Src(Node)) /\ j' = j + 1
      /\ UNCHANGED graph /\ UNCHANGED pc /\ UNCHANGED n
  BY DEF UpdateParent
<1>2. /\ n \in 1..N /\ Node = graph.nodes[n] /\ j \in DOMAIN Src(Node)
      /\ DOMAIN graph.nodes = 1..N
  BY <1>0, <1>1, AtNode, GraphFacts DEF Node
<1>3. p \in Tensors /\ p \in Before(graph, n) /\ n \in Int BY <1>0, <1>2, SourcesBefore
<1>4. x \in Sources /\ x[1] = Node /\ x[2] = j BY <1>0, <1>2, SourcesAre
<1>5. x \in Reads(p) BY <1>4 DEF Reads
<1>6. Left(x) BY <1>0, <1>1, <1>2, LeftAt
<1>7. \A t : t # p => x \notin ReadsLeft(t) BY <1>4 DEF ReadsLeft, Reads
<1>8. ASSUME NEW r \in Sources PROVE Left(r)' <=> Left(r) /\ r # x
  <2>1. PICK k \in 1..N : \E i \in DOMAIN Src(graph.nodes[k]) : r = <<graph.nodes[k], i>>
    BY <1>0, SourcesAre
  <2>2. PICK i \in DOMAIN Src(graph.nodes[k]) : r = <<graph.nodes[k], i>> BY <2>1
  <2>3. graph.nodes[k] \in Tensors BY <1>0, GraphFacts
  <2>4. i \in Nat BY <1>0, <2>2, <2>3, TensorFacts
  <2>5. Left(r) <=> k > n \/ (k = n /\ j <= i) BY <1>0, <1>1, <2>2, LeftAt
  <2>6. \A m \in 1..N : graph.nodes[k] = graph.nodes[m] => k = m BY <1>0, NodesDistinct
  <2>7. r[1] = graph.nodes[k] /\ r[2] = i BY <2>2
  <2>8. Left(r)' <=> k > n \/ (k = n /\ j + 1 <= i)
    BY <1>1, <1>2, <2>6, <2>7 DEF Left
  <2>9. r = x <=> k = n /\ i = j BY <1>2, <2>2, <2>6
  <2> QED BY <1>0, <2>4, <2>5, <2>8, <2>9
<1>9. \A t : Reads(t)' = Reads(t) BY <1>1, SameGraph
<1>10. \A t : Views(t)' = Views(t) BY <1>1, SameGraph
<1> HIDE DEF x
<1>11. ASSUME NEW t PROVE ReadsLeft(t)' = ReadsLeft(t) \ {x}
  <2>1. Reads(t) \subseteq Sources BY DEF Reads
  <2> QED BY <1>8, <1>9, <2>1 DEF ReadsLeft
<1>12. x \in ReadsLeft(p) BY <1>5, <1>6 DEF ReadsLeft
<1> HIDE DEF p
<1>13. ASSUME NEW t
       PROVE  ViewsLeft(t)' = IF ReadsLeft(p) = {x} THEN ViewsLeft(t) \ {p} ELSE ViewsLeft(t)
  <2>1. \A v : v # p => ReadsLeft(v)' = ReadsLeft(v) BY <1>7, <1>11
  <2>2. \A v : v = p => (ReadsLeft(v)' = {} <=> ReadsLeft(p) = {x}) BY <1>11, <1>12
  <2>3. Reads(p) # {} BY <1>5
  <2>4. ReadsLeft(p) # {} BY <1>12
  <2>5. ViewsLeft(t)' = {v \in Views(t) : ReadsLeft(v)' # {} \/ Reads(v) = {}}
    BY <1>9, <1>10 DEF ViewsLeft
  <2> QED BY <2>1, <2>2, <2>3, <2>4, <2>5 DEF ViewsLeft
<1>14. ASSUME NEW t \in Own PROVE p \in ViewsLeft(t) <=> IsView(p) /\ t = Root(p)
  <2>1. p \in ViewsLeft(t) <=> p \in Views(t) BY <1>12 DEF ViewsLeft
  <2>2. p \in Views(t) => IsView(p) /\ t = Root(p) BY <1>0, ViewFacts DEF Own
  <2>3. IsView(p) /\ t = Root(p) => p \in Views(t) BY <1>0, <1>3, ViewFacts DEF Own
  <2> QED BY <2>1, <2>2, <2>3
<1> QED BY <1>3, <1>7, <1>8, <1>11, <1>12, <1>13, <1>14 DEF p, x

\* The counts that the step leaves are right, and what it frees, or not, is
\* what the counts say.
LEMMA CountsDown ==
    ASSUME GallocInv, UpdateParent
    PROVE  LET p == Src(Node)[j]
               x == <<Node, j>>
           IN  /\ CountsOK'
               /\ n_children' \in [Tensors -> Nat] /\ n_views' \in [Tensors -> Int]
               /\ \A t \in Own : n_views'[t] \in Nat
               /\ p \in Own => (n_children[p] = 1 /\ n_views[p] = 0 <=>
                                   ReadsLeft(p) = {x} /\ ViewsLeft(p) = {})
               /\ \A t \in Own :
                     /\ n_children'[t] = 0 <=> ReadsLeft(t)' = {}
                     /\ n_views'[t] = 0 <=> ViewsLeft(t)' = {}
<1> DEFINE p == Src(Node)[j]
           x == <<Node, j>>
           q == Root(p)
           last == n_children[p] = 1 /\ n_views[p] = 0
<1>0. /\ graph \in Graphs /\ GallocTypeOK /\ n \in Nat /\ j \in Nat /\ N \in Nat
  BY InvFacts
<1>1. /\ n_children' = [n_children EXCEPT ![p] = @ - 1]
      /\ n_views' = IF last /\ IsView(p) THEN [n_views EXCEPT ![q] = @ - 1] ELSE n_views
      /\ pc = "update"
  BY DEF UpdateParent
<1>2. /\ p \in Tensors /\ x \in ReadsLeft(p)
      /\ \A t : t # p => x \notin ReadsLeft(t)
      /\ \A t : ReadsLeft(t)' = ReadsLeft(t) \ {x}
      /\ \A t : ViewsLeft(t)' = IF ReadsLeft(p) = {x} THEN ViewsLeft(t) \ {p} ELSE ViewsLeft(t)
      /\ \A t \in Own : p \in ViewsLeft(t) <=> IsView(p) /\ t = q
  BY OneLess
<1>3. q \in Tensors /\ (IsView(p) => Views(p) = {} /\ p \in Own)
  BY <1>0, <1>2, TensorFacts, ViewFacts
<1> HIDE DEF p, x, q
<1>4. /\ \A t \in Tensors : n_children[t] = Cardinality(ReadsLeft(t))
      /\ \A t \in Own : t \in Tensors /\ n_views[t] = Cardinality(ViewsLeft(t))
      /\ n_children \in [Tensors -> Nat] /\ n_views \in [Tensors -> Int]
      /\ Own' = Own
  BY <1>0, <1>1, AtNode DEF CountsOK, GallocTypeOK, Own, UpdateParent
<1>5. \A t \in Tensors : IsFiniteSet(ReadsLeft(t)) /\ IsFiniteSet(ViewsLeft(t))
  BY <1>0, CountsFinite
<1>6. ASSUME NEW t \in Tensors
      PROVE  n_children'[t] = Cardinality(ReadsLeft(t) \ {x}) /\ n_children'[t] \in Nat
  <2>1. CASE t = p
    <3>1. /\ Cardinality(ReadsLeft(p) \ {x}) = Cardinality(ReadsLeft(p)) - 1
          /\ IsFiniteSet(ReadsLeft(p) \ {x})
      BY <1>2, <1>5, FS_RemoveElement
    <3>2. Cardinality(ReadsLeft(p) \ {x}) \in Nat BY <3>1, FS_CardinalityType
    <3>3. n_children'[p] = n_children[p] - 1 BY <1>1, <1>2, <1>4
    <3> QED BY <1>2, <1>4, <2>1, <3>1, <3>2, <3>3
  <2>2. CASE t # p
    <3>1. ReadsLeft(t) \ {x} = ReadsLeft(t) BY <1>2, <2>2
    <3>2. n_children'[t] = n_children[t] BY <1>1, <1>4, <2>2
    <3> QED BY <1>4, <3>1, <3>2
  <2> QED BY <2>1, <2>2
<1>7. ReadsLeft(p) = {x} <=> n_children[p] = 1
  <2>1. ReadsLeft(p) = {x} => Cardinality(ReadsLeft(p)) = 1 BY FS_Singleton
  <2>2. ASSUME Cardinality(ReadsLeft(p)) = 1 PROVE ReadsLeft(p) = {x}
    <3>1. PICK y : ReadsLeft(p) = {y} BY <1>2, <1>5, <2>2, FS_Singleton
    <3> QED BY <1>2, <3>1
  <2> QED BY <1>2, <1>4, <2>1, <2>2
<1>8. IsView(p) => n_views[p] = 0
  <2> SUFFICES ASSUME IsView(p) PROVE n_views[p] = 0 OBVIOUS
  <2>1. ViewsLeft(p) = {} /\ p \in Own BY <1>3 DEF ViewsLeft
  <2> QED BY <1>2, <1>4, <2>1, FS_EmptySet
<1>9. ASSUME NEW t \in Own
      PROVE  n_views'[t] = Cardinality(ViewsLeft(t)') /\ n_views'[t] \in Nat
  <2>1. CASE last /\ IsView(p)
    <3>1. ReadsLeft(p) = {x} /\ n_views' = [n_views EXCEPT ![q] = @ - 1] BY <1>1, <1>7, <2>1
    <3>2. ViewsLeft(t)' = ViewsLeft(t) \ {p} BY <1>2, <3>1
    <3>3. CASE t = q
      <4>1. p \in ViewsLeft(t) BY <1>2, <1>3, <2>1, <3>3
      <4>2. /\ Cardinality(ViewsLeft(t) \ {p}) = Cardinality(ViewsLeft(t)) - 1
            /\ IsFiniteSet(ViewsLeft(t) \ {p})
        BY <1>4, <1>5, <4>1, FS_RemoveElement
      <4>3. Cardinality(ViewsLeft(t) \ {p}) \in Nat BY <4>2, FS_CardinalityType
      <4>4. n_views'[t] = n_views[t] - 1 BY <1>3, <1>4, <3>1, <3>3
      <4> QED BY <1>4, <3>2, <4>2, <4>3, <4>4
    <3>4. CASE t # q
      <4>1. ViewsLeft(t) \ {p} = ViewsLeft(t) BY <1>2, <3>4
      <4>2. n_views'[t] = n_views[t] BY <1>4, <3>1, <3>4
      <4>3. Cardinality(ViewsLeft(t)) \in Nat BY <1>4, <1>5, FS_CardinalityType
      <4> QED BY <1>4, <3>2, <4>1, <4>2, <4>3
    <3> QED BY <3>3, <3>4
  <2>2. CASE ~(last /\ IsView(p))
    <3>1. n_views' = n_views BY <1>1, <2>2
    <3>2. ViewsLeft(t)' = ViewsLeft(t)
      <4>1. CASE IsView(p)
        <5>1. ReadsLeft(p) # {x} BY <1>7, <1>8, <2>2, <4>1
        <5> QED BY <1>2, <5>1
      <4>2. CASE ~IsView(p)
        <5>1. ViewsLeft(t) \ {p} = ViewsLeft(t) BY <1>2, <4>2
        <5> QED BY <1>2, <5>1
      <4> QED BY <4>1, <4>2
    <3>3. Cardinality(ViewsLeft(t)) \in Nat BY <1>4, <1>5, FS_CardinalityType
    <3> QED BY <1>4, <3>1, <3>2, <3>3
  <2> QED BY <2>1, <2>2
<1>10. CountsOK' BY <1>2, <1>4, <1>6, <1>9 DEF CountsOK
<1>11. /\ n_children' \in [Tensors -> Nat] /\ n_views' \in [Tensors -> Int]
       /\ \A t \in Own : n_views'[t] \in Nat
  <2>1. n_children' \in [Tensors -> Nat] BY <1>1, <1>4, <1>6
  <2>2. n_views' \in [Tensors -> Int] BY <1>1, <1>3, <1>4
  <2> QED BY <1>9, <2>1, <2>2
<1>12. ASSUME NEW t \in Own
       PROVE  /\ n_children'[t] = 0 <=> ReadsLeft(t)' = {}
              /\ n_views'[t] = 0 <=> ViewsLeft(t)' = {}
  <2>1. IsFiniteSet(ReadsLeft(t)') /\ IsFiniteSet(ViewsLeft(t)')
    <3>1. ReadsLeft(t)' \subseteq ReadsLeft(t) /\ ViewsLeft(t)' \subseteq ViewsLeft(t) BY <1>2
    <3> QED BY <1>4, <1>5, <3>1, FS_Subset
  <2>2. n_children'[t] = Cardinality(ReadsLeft(t)') BY <1>2, <1>4, <1>6
  <2> QED BY <1>9, <2>1, <2>2, FS_EmptySet
<1>13. p \in Own => (last <=> ReadsLeft(p) = {x} /\ ViewsLeft(p) = {})
  <2> SUFFICES ASSUME p \in Own PROVE last <=> ReadsLeft(p) = {x} /\ ViewsLeft(p) = {} OBVIOUS
  <2>1. ViewsLeft(p) = {} <=> n_views[p] = 0 BY <1>2, <1>4, <1>5, FS_EmptySet
  <2> QED BY <1>7, <2>1
<1> QED BY <1>10, <1>11, <1>12, <1>13 DEF p, x

LEMMA UpdateStep == ASSUME GallocInv, UpdateParent PROVE GallocInv'
<1> DEFINE p == Src(Node)[j]
           x == <<Node, j>>
           q == Root(p)
           last == n_children[p] = 1 /\ n_views[p] = 0
           given == last /\ q \in DOMAIN live /\ n_children'[q] = 0 /\ n_views'[q] = 0
<1>0. /\ graph \in Graphs /\ tokens \in TokenCounts /\ GallocTypeOK /\ TallocInv
      /\ n \in Nat /\ j \in Nat /\ N \in Nat /\ DOMAIN live \subseteq Tensors
  BY InvFacts
<1>1. /\ pc = "update" /\ pc' = "update" /\ j <= Len(Src(Node)) /\ j' = j + 1 /\ n' = n
      /\ UNCHANGED <<graph, tokens, pc, n, offset, talloc, buffer, mem>>
      /\ given /\ q \notin graph.output => FreeTensor(q)
      /\ ~(given /\ q \notin graph.output) => UNCHANGED tallocVars
  <2>1. IF given THEN FreeNode(q) ELSE UNCHANGED tallocVars BY DEF UpdateParent
  <2> QED BY <2>1 DEF UpdateParent, FreeNode
<1>2. /\ p \in Tensors /\ x \in ReadsLeft(p)
      /\ \A t : t # p => x \notin ReadsLeft(t)
      /\ \A r \in Sources : Left(r)' <=> Left(r) /\ r # x
      /\ \A t : ReadsLeft(t)' = ReadsLeft(t) \ {x}
      /\ \A t : ViewsLeft(t)' = IF ReadsLeft(p) = {x} THEN ViewsLeft(t) \ {p} ELSE ViewsLeft(t)
      /\ \A t \in Own : p \in ViewsLeft(t) <=> IsView(p) /\ t = q
  BY OneLess
<1>3. /\ CountsOK'
      /\ n_children' \in [Tensors -> Nat] /\ n_views' \in [Tensors -> Int]
      /\ \A t \in Own : n_views'[t] \in Nat
      /\ p \in Own => (last <=> ReadsLeft(p) = {x} /\ ViewsLeft(p) = {})
      /\ \A t \in Own :
            /\ n_children'[t] = 0 <=> ReadsLeft(t)' = {}
            /\ n_views'[t] = 0 <=> ViewsLeft(t)' = {}
  BY CountsDown
<1>4. /\ q \in Tensors /\ (~IsView(p) => q = p)
      /\ IsView(p) => Views(p) = {} /\ p \in Own
  BY <1>0, <1>2, TensorFacts, ViewFacts
<1>5. /\ n \in 1..N /\ Node \in Tensors /\ DOMAIN graph.nodes = 1..N /\ Node = graph.nodes[n]
      /\ Len(Src(Node)) \in Nat /\ Born = Before(graph, n + 1) /\ Born \subseteq Tensors
      /\ HoldersOK /\ NeededLive /\ PlanOK /\ CountsOK /\ NoneIdle
  BY <1>0, <1>1, AtNode, GraphFacts DEF Node
<1> HIDE DEF p, x, q, last, given
<1>6. /\ TallocInv' /\ max_size' = max_size
      /\ DOMAIN live' = IF given /\ q \notin graph.output THEN DOMAIN live \ {q} ELSE DOMAIN live
      /\ \A t \in DOMAIN live' : live'[t] = live[t]
  <2>1. CASE given /\ q \notin graph.output
    <3>1. q \in DOMAIN live /\ FreeTensor(q) BY <1>1, <2>1 DEF given
    <3>2. TallocInv' BY <1>0, <3>1, FreeKeeps
    <3>3. DOMAIN live' = DOMAIN live \ {q} /\ max_size' = max_size
          /\ \A t \in DOMAIN live' : live'[t] = live[t]
      BY <3>1 DEF FreeTensor, WithoutLive
    <3> QED BY <2>1, <3>2, <3>3
  <2>2. CASE ~(given /\ q \notin graph.output)
    <3>1. UNCHANGED tallocVars BY <1>1, <2>2
    <3>2. TallocInv' BY <1>0, <3>1, TallocStep
    <3> QED BY <2>2, <3>1, <3>2 DEF tallocVars
  <2> QED BY <2>1, <2>2
<1>7. Reached = n /\ Reached' = n /\ Born' = Born BY <1>1 DEF Reached, Born
<1>8. UNCHANGED <<graph, tokens>> /\ UNCHANGED graph BY <1>1
<1>9. \A u : Planned(u)' <=> Planned(u) BY <1>8, SameGraph
<1>10. \A u : NBytes(u)' = NBytes(u) BY <1>8, SameSizes
<1>11. \A t, k : UsedAfter(t, k)' <=> UsedAfter(t, k) BY <1>8, SameGraph
<1>12. \A u : Reads(u)' = Reads(u) BY <1>8, SameGraph
<1>13. HoldersOK'
  <2>1. ASSUME NEW u \in DOMAIN live'
        PROVE  /\ u \in Born /\ Planned(u)
               /\ live'[u] = [offset |-> offset[u], size |-> Aligned(NBytes(u))]
    <3>1. u \in DOMAIN live /\ live'[u] = live[u] BY <1>6
    <3> QED BY <1>5, <3>1 DEF HoldersOK
  <2> QED BY <1>1, <1>7, <1>9, <1>10, <2>1 DEF HoldersOK, Aligned
<1>14. ASSUME NEW t \in Own, UsedAfter(t, n), t \notin graph.output
       PROVE  ReadsLeft(t)' # {} \/ ViewsLeft(t)' # {}
  <2>1. PICK m \in 1..N : m > n /\ ReadAt(t, m) BY <1>5, <1>14 DEF UsedAfter
  <2>2. PICK i \in DOMAIN Src(graph.nodes[m]) : Root(Src(graph.nodes[m])[i]) = t
    BY <2>1 DEF ReadAt
  <2> DEFINE s == Src(graph.nodes[m])[i]
             r == <<graph.nodes[m], i>>
  <2>3. r \in Sources /\ Src(r[1])[r[2]] = s BY <1>0, SourcesAre
  <2>4. r \in ReadsLeft(s) /\ r # x
    <3>1. Left(r) BY <1>0, <2>1, LeftAt
    <3>2. graph.nodes[m] # graph.nodes[n] BY <1>0, <1>5, <2>1, NodesDistinct
    <3> QED BY <1>5, <2>3, <3>1, <3>2 DEF ReadsLeft, Reads, x
  <2>5. s \in Before(graph, m) /\ s \in Tensors /\ m \in Int BY <1>0, SourcesBefore
  <2> HIDE DEF s, r
  <2>6. CASE IsView(s)
    <3>1. s \in Views(t)
      <4>1. Root(s) = t BY <2>2 DEF s
      <4>2. s \in Nodes BY <1>0, <2>5, <2>6, <4>1, ViewFacts DEF Own
      <4> QED BY <1>0, <2>5, <2>6, <4>1, <4>2, ViewFacts
    <3>2. s \in ViewsLeft(t) BY <2>4, <3>1 DEF ViewsLeft
    <3>3. ReadsLeft(p) = {x} => s # p BY <2>4
    <3>4. s \in ViewsLeft(t)' BY <1>2, <3>2, <3>3
    <3> QED BY <3>4
  <2>7. CASE ~IsView(s)
    <3>1. s = t BY <1>0, <2>2, <2>5, <2>7, TensorFacts DEF s
    <3> QED BY <1>2, <2>4, <3>1
  <2> QED BY <2>6, <2>7
<1>15. NeededLive'
  <2>1. ASSUME NEW u \in Born, Planned(u), UsedAfter(u, n) PROVE u \in DOMAIN live'
    <3>1. u \in DOMAIN live BY <1>1, <1>5, <1>7, <2>1 DEF NeededLive
    <3>2. ASSUME given, q \notin graph.output PROVE u # q
      <4>1. \A t \in Own : t = q => ReadsLeft(t)' = {} /\ ViewsLeft(t)' = {}
        BY <1>3, <3>2 DEF given
      <4>2. u \in Own BY <1>5, <2>1 DEF Own, Planned
      <4> QED BY <1>14, <2>1, <3>2, <4>1, <4>2
    <3> QED BY <1>6, <3>1, <3>2
  <2> QED BY <1>1, <1>7, <1>9, <1>11, <2>1 DEF NeededLive
<1>16. NoneIdle'
  <2> SUFFICES ASSUME NEW u \in DOMAIN live', u \notin graph.output, Reads(u) # {}
               PROVE  ReadsLeft(u)' # {} \/ ViewsLeft(u)' # {}
    BY <1>1, <1>12 DEF NoneIdle
  <2>1. u \in DOMAIN live /\ u \in Tensors BY <1>0, <1>6
  <2>2. ReadsLeft(u) # {} \/ ViewsLeft(u) # {} BY <1>5, <2>1 DEF NoneIdle
  <2>3. ~IsView(u) /\ u \in Own BY <1>5, <2>1 DEF HoldersOK, Planned, Own
  <2>4. CASE u # q
    <3>1. u # p BY <1>4, <2>3, <2>4
    <3>2. ReadsLeft(u)' = ReadsLeft(u) BY <1>2, <3>1
    <3>3. ViewsLeft(u)' = ViewsLeft(u)
      <4>1. p \notin ViewsLeft(u) BY <1>2, <2>3, <2>4
      <4> QED BY <1>2, <4>1
    <3> QED BY <2>2, <3>2, <3>3
  <2>5. CASE u = q /\ last
    <3>1. ~(n_children'[u] = 0 /\ n_views'[u] = 0)
      <4>1. ~given BY <1>6, <2>5
      <4> QED BY <2>1, <2>5, <4>1 DEF given
    <3> QED BY <1>3, <2>3, <3>1
  <2>6. CASE u = q /\ ~last
    <3>1. CASE IsView(p)
      <4>1. ViewsLeft(p) = {} BY <1>4, <3>1 DEF ViewsLeft
      <4>2. ReadsLeft(p) # {x} BY <1>3, <1>4, <2>6, <3>1, <4>1
      <4>3. u # p BY <2>3, <3>1
      <4>4. ViewsLeft(u)' = ViewsLeft(u) /\ ReadsLeft(u)' = ReadsLeft(u) BY <1>2, <4>2, <4>3
      <4> QED BY <2>2, <4>4
    <3>2. CASE ~IsView(p)
      <4>1. u = p BY <1>4, <2>6, <3>2
      <4>2. ViewsLeft(u)' = ViewsLeft(u)
        <5>1. p \notin ViewsLeft(u) BY <1>2, <2>3, <3>2
        <5> QED BY <1>2, <5>1
      <4>3. ReadsLeft(p) # {x} \/ ViewsLeft(p) # {} BY <1>3, <2>3, <2>6, <4>1
      <4>4. ReadsLeft(u)' = ReadsLeft(u) \ {x} /\ x \in ReadsLeft(u) BY <1>2, <4>1
      <4> QED BY <4>1, <4>2, <4>3, <4>4
    <3> QED BY <3>1, <3>2
  <2> QED BY <2>4, <2>5, <2>6
<1>17. PlanOK'
  <2>1. Plan' = Plan BY <1>1, <1>9, <1>10 DEF Plan
  <2>2. /\ LeafsApart(Plan, Born \cap LeafsOf(graph)) /\ Inside(Plan, Born, max_size)
        /\ \A k \in 1..Reached : NodeFits(Plan, k)
    BY <1>1, <1>5 DEF PlanOK
  <2>3. LeafsApart(Plan, Born \cap LeafsOf(graph))'
    BY <1>8, <1>9, <1>7, <2>1, <2>2 DEF LeafsApart
  <2>4. Inside(Plan, Born, max_size)' BY <1>6, <1>9, <1>7, <2>1, <2>2 DEF Inside
  <2>5. \A k \in 1..Reached : NodeFits(Plan, k)' BY <1>8, <2>1, <2>2, FitsNext
  <2> QED BY <1>7, <2>3, <2>4, <2>5 DEF PlanOK
<1>18. GallocTypeOK' /\ graph' \in Graphs
  <2>1. TallocTypeOK' BY <1>6 DEF TallocInv
  <2>2. j' \in Nat BY <1>0, <1>1
  <2> QED BY <1>0, <1>1, <1>3, <2>1, <2>2 DEF GallocTypeOK, Own
<1>19. ControlOK'
  <2>1. Src(Node)' = Src(Node) /\ N' = N BY <1>1 DEF Src, Node, N
  <2>2. j' \in 1..(Len(Src(Node)) + 1) BY <1>0, <1>1, <1>5
  <2> QED BY <1>1, <1>5, <2>1, <2>2 DEF ControlOK
<1> QED
  BY <1>1, <1>3, <1>6, <1>13, <1>15, <1>16, <1>17, <1>18, <1>19 DEF GallocInv, Planning

-----------------------------------------------------------------------------
(* The plan is taken, used, and used again.                                *)

LEMMA AssignStep == ASSUME GallocInv, Assign PROVE GallocInv'
<1>0. /\ graph \in Graphs /\ tokens \in TokenCounts /\ GallocTypeOK /\ ControlOK /\ TallocInv
      /\ N \in Nat /\ offset \in [Tensors -> Nat] /\ n \in Nat
  BY InvFacts
<1>1. /\ pc = "assign" /\ pc' = "ready" /\ n' = 1
      /\ talloc' = Plan
      /\ IF max_size > buffer
         THEN buffer' = max_size /\ mem' = [c \in 0..(max_size - 1) |-> NoSrc]
         ELSE UNCHANGED <<buffer, mem>>
      /\ UNCHANGED <<tallocVars, graph, tokens, j, n_children, n_views, offset>>
  BY DEF Assign, Plan, hash
<1>2. n = N + 1 /\ Reached = N /\ Born = Before(graph, N + 1) /\ j = 1
  <2>1. n = N + 1 /\ j = 1 BY <1>0, <1>1 DEF ControlOK
  <2>2. Reached = N BY <1>0, <1>1, <2>1 DEF Reached
  <2> QED BY <1>1, <2>1, <2>2 DEF Born
<1>3. /\ LeafsApart(Plan, Born \cap LeafsOf(graph)) /\ Inside(Plan, Born, max_size)
      /\ \A k \in 1..N : NodeFits(Plan, k)
  BY <1>1, <1>2 DEF GallocInv, Planning, PlanOK
<1>4. /\ \A u : Planned(u)' <=> Planned(u)
      /\ \A u : NBytes(u)' = NBytes(u)
      /\ N' = N
  <2>1. UNCHANGED graph /\ UNCHANGED <<graph, tokens>> BY <1>1
  <2>2. \A u : Planned(u)' <=> Planned(u) BY <2>1, SameGraph
  <2>3. \A u : NBytes(u)' = NBytes(u) BY <2>1, SameSizes
  <2> QED BY <2>1, <2>2, <2>3 DEF N
<1>5. max_size \in Nat /\ buffer \in Nat BY <1>0 DEF GallocTypeOK, TallocTypeOK
<1>6. \A k \in Int : Before(graph, k) \subseteq Tensors /\ LeafsOf(graph) \subseteq Before(graph, k)
  BY <1>0, BeforeFacts
<1>7. \A t \in Tensors : /\ Plan[t].offset \in Nat /\ Plan[t].size_max \in Nat
                         /\ Planned(t) => Plan[t].size_max = NBytes(t)
                         /\ Plan[t] \in [offset : Nat, size_max : Nat]
  BY <1>0, SizesOfTensors DEF Plan
<1>8. PlacedOK'
  <2>1. LeafsApart(talloc, LeafsOf(graph))'
    <3>1. LeafsApart(Plan, LeafsOf(graph))
      <4>1. Born \cap LeafsOf(graph) = LeafsOf(graph) BY <1>0, <1>2, <1>6
      <4> QED BY <1>3, <4>1
    <3> QED BY <1>1, <1>4, <3>1 DEF LeafsApart
  <2>2. \A k \in 1..N : NodeFits(talloc, k)' BY <1>1, <1>3, FitsNext
  <2>3. Inside(talloc, Before(graph, N + 1), buffer)'
    <3>1. buffer' \in Nat /\ max_size <= buffer' BY <1>1, <1>5
    <3>2. ASSUME NEW t \in Before(graph, N + 1), Planned(t)
          PROVE  Plan[t].offset + Plan[t].size_max <= buffer'
      <4>1. Plan[t].offset + Plan[t].size_max <= max_size BY <1>2, <1>3, <3>2 DEF Inside
      <4>2. t \in Tensors BY <1>0, <1>6
      <4> QED BY <1>5, <1>7, <3>1, <4>1, <4>2
    <3> QED BY <1>1, <1>4, <3>2 DEF Inside
  <2>4. \A t \in Before(graph, N + 1) : Planned(t) => Plan[t].size_max = graph.width[t] * tokens
    <3>1. N + 1 \in Int BY <1>0
    <3> QED BY <1>6, <1>7, <3>1 DEF NBytes
  <2>5. tokens \in Nat BY <1>0, TokensAssumption
  <2>6. (\E count \in Nat : \A t \in Before(graph, N + 1) :
            Planned(t) => talloc[t].size_max = graph.width[t] * count)'
    BY <1>1, <1>4, <2>4, <2>5
  <2> QED BY <1>4, <2>1, <2>2, <2>3, <2>6 DEF PlacedOK
<1>9. LargeEnough'
  <2>1. \A t \in Before(graph, N + 1) : Planned(t) => NBytes(t) <= Plan[t].size_max
    BY <1>0, <1>6, <1>7
  <2> QED BY <1>1, <1>4, <2>1 DEF LargeEnough
<1>10. TallocInv' BY <1>0, <1>1, TallocStep
<1>11. GallocTypeOK' /\ graph' \in Graphs
  <2>1. TallocTypeOK' BY <1>10 DEF TallocInv
  <2>2. talloc' \in [Tensors -> [offset : Nat, size_max : Nat]]
    <3>1. Plan \in [Tensors -> [offset : Nat, size_max : Nat]]
      <4>1. DOMAIN Plan = Tensors /\ Plan = [t \in Tensors |-> Plan[t]] BY DEF Plan
      <4> QED BY <1>7, <4>1
    <3> QED BY <1>1, <3>1
  <2>3. buffer' \in Nat /\ mem' \in [0..(buffer' - 1) -> Tensors \cup {NoSrc}]
    <3>1. mem \in [0..(buffer - 1) -> Tensors \cup {NoSrc}] BY <1>0 DEF GallocTypeOK
    <3> QED BY <1>1, <1>5, <3>1
  <2>4. n' \in Nat BY <1>1
  <2> QED BY <1>0, <1>1, <2>1, <2>2, <2>3, <2>4 DEF GallocTypeOK
<1>12. ControlOK' BY <1>1, <1>2 DEF ControlOK
<1> QED BY <1>1, <1>8, <1>9, <1>10, <1>11, <1>12 DEF GallocInv, Planning

\* An assignment for some number of tokens does for any number that does not
\* outgrow a node.
LEMMA StillLargeEnough ==
    ASSUME graph \in Graphs, PlacedOK, NEW count \in Nat, ~NeedsRealloc(count)
    PROVE  \A t \in Before(graph, N + 1) :
              Planned(t) => graph.width[t] * count <= talloc[t].size_max
<1>0. N \in Nat /\ DOMAIN graph.nodes = 1..N /\ \A k \in 1..N : graph.nodes[k] \in Tensors
  BY GraphFacts
<1>1. PICK before \in Nat : \A t \in Before(graph, N + 1) :
         Planned(t) => talloc[t].size_max = graph.width[t] * before
  BY DEF PlacedOK
<1>2. PICK k \in 1..N : Planned(graph.nodes[k]) BY PlannedFacts
<1> DEFINE b == graph.nodes[k]
<1>3. b \in Before(graph, N + 1) /\ b \in Tensors
  <2>1. b \in Before(graph, k + 1) BY BeforeFacts
  <2>2. k + 1 \in Int /\ N + 1 \in Int /\ k + 1 <= N + 1 BY <1>0
  <2> QED BY <1>0, <2>1, <2>2, BeforeFacts
<1>4. ~(talloc[b].size_max < graph.width[b] * count) BY <1>0, <1>2 DEF NeedsRealloc, Nodes
<1>5. talloc[b].size_max = graph.width[b] * before BY <1>1, <1>2, <1>3
<1>6. graph.width[b] \in Nat \ {0} BY <1>3, TensorFacts
<1> HIDE DEF b
<1>7. count <= before
  <2>1. \A w1 \in Nat \ {0} : \A x, y \in Nat : ~(w1 * y < w1 * x) => x <= y BY SMT
  <2>2. ~(graph.width[b] * before < graph.width[b] * count) BY <1>4, <1>5
  <2> QED BY <1>6, <2>1, <2>2
<1>8. ASSUME NEW t \in Before(graph, N + 1), Planned(t)
      PROVE  graph.width[t] * count <= talloc[t].size_max
  <2>1. \A w1 \in Nat \ {0} : \A x, y \in Nat : x <= y => w1 * x <= w1 * y BY SMT
  <2>2. N + 1 \in Int BY <1>0
  <2>3. t \in Tensors BY <2>2, BeforeFacts
  <2>4. graph.width[t] \in Nat \ {0} BY <2>3, TensorFacts
  <2>5. graph.width[t] * count <= graph.width[t] * before BY <1>7, <2>1, <2>4
  <2>6. talloc[t].size_max = graph.width[t] * before BY <1>1, <1>8
  <2> QED BY <2>5, <2>6
<1> QED BY <1>8

\* Nothing that a plan or an assignment is judged by changes.
LEMMA PlacedStill ==
    ASSUME PlacedOK, UNCHANGED <<graph, talloc, buffer>> PROVE PlacedOK'
<1>1. UNCHANGED graph /\ talloc' = talloc /\ buffer' = buffer OBVIOUS
<1>2. \A u : Planned(u)' <=> Planned(u) BY <1>1, SameGraph
<1>3. N' = N BY <1>1 DEF N
<1>4. LeafsApart(talloc, LeafsOf(graph))' BY <1>1, <1>2 DEF PlacedOK, LeafsApart
<1>5. \A k \in 1..N : NodeFits(talloc, k)' BY <1>1, FitsNext DEF PlacedOK
<1>6. Inside(talloc, Before(graph, N + 1), buffer)'
  BY <1>1, <1>2, <1>3 DEF PlacedOK, Inside
<1>7. (\E count \in Nat : \A t \in Before(graph, N + 1) :
            Planned(t) => talloc[t].size_max = graph.width[t] * count)'
  <2>1. \E count \in Nat : \A t \in Before(graph, N + 1) :
            Planned(t) => talloc[t].size_max = graph.width[t] * count
    BY DEF PlacedOK
  <2> QED BY <1>1, <1>2, <1>3, <2>1
<1> QED BY <1>3, <1>4, <1>5, <1>6, <1>7 DEF PlacedOK

LEMMA GraphStep ==
    ASSUME GallocInv, NEW count \in TokenCounts, AllocGraph(count) PROVE GallocInv'
<1>0. /\ graph \in Graphs /\ tokens \in TokenCounts /\ GallocTypeOK /\ ControlOK /\ TallocInv
      /\ N \in Nat
  BY InvFacts
<1>1. /\ pc = "idle" /\ tokens' = count /\ n' = 1 /\ j' = 1
      /\ mem' = [c \in DOMAIN mem |-> NoSrc]
      /\ UNCHANGED <<graph, buffer>>
  BY DEF AllocGraph
<1>2. mem' \in [0..(buffer' - 1) -> Tensors \cup {NoSrc}] BY <1>0, <1>1 DEF GallocTypeOK
<1>3. CASE NeedsRealloc(count)
  <2>1. /\ Reset /\ pc' = "leafs" /\ talloc' = NoTalloc
        /\ n_children' = [t \in Tensors |-> 0]
        /\ n_views' = [t \in Tensors |-> 0]
        /\ offset' = [t \in Tensors |-> 0]
    BY <1>3 DEF AllocGraph
  <2>2. TallocInv'
    <3>1. Empty' BY <2>1 DEF Reset, Empty, NoTensor
    <3>2. Empty' => TallocInv' BY EmptyHolds, PTL
    <3> QED BY <3>1, <3>2
  <2>3. DOMAIN live' = {} BY <2>1 DEF Reset, NoTensor
  <2>4. Born' = {}
    <3>1. Len(graph.leafs) \in Nat /\ DOMAIN graph.leafs = 1..Len(graph.leafs)
      BY <1>0, GraphFacts
    <3>2. DOMAIN graph.leafs \cap 1..(n' - 1) = {} BY <1>1, <3>1
    <3> QED BY <1>1, <2>1, <3>2 DEF Born
  <2>5. HoldersOK' /\ NeededLive' BY <2>3, <2>4 DEF HoldersOK, NeededLive
  <2>6. PlanOK' BY <2>1, <2>4 DEF PlanOK, LeafsApart, Inside
  <2>7. GallocTypeOK' /\ graph' \in Graphs
    <3>1. TallocTypeOK' BY <2>2 DEF TallocInv
    <3>2. talloc' \in [Tensors -> [offset : Nat, size_max : Nat]] BY <2>1 DEF NoTalloc
    <3>3. /\ n_children' \in [Tensors -> Nat] /\ n_views' \in [Tensors -> Nat]
          /\ offset' \in [Tensors -> Nat]
      BY <2>1
    <3>4. buffer' \in Nat /\ graph' \in Graphs BY <1>0, <1>1 DEF GallocTypeOK
    <3> QED BY <1>1, <1>2, <2>1, <3>1, <3>2, <3>3, <3>4 DEF GallocTypeOK
  <2>8. ControlOK'
    <3>1. Len(graph.leafs) \in Nat BY <1>0, GraphFacts
    <3>2. 1 \in 1..(Len(graph.leafs) + 1) BY <3>1
    <3> QED BY <1>1, <2>1, <3>2 DEF ControlOK
  <2>9. \A t \in Tensors : n_children'[t] = 0 BY <2>1
  <2> QED BY <2>1, <2>2, <2>5, <2>6, <2>7, <2>8, <2>9 DEF GallocInv, Planning
<1>4. CASE ~NeedsRealloc(count)
  <2>1. pc' = "ready" /\ UNCHANGED <<tallocVars, hash, talloc>> BY <1>4 DEF AllocGraph
  <2>2. UNCHANGED <<n_children, n_views, offset>> BY <2>1 DEF hash
  <2>3. TallocInv' BY <1>0, <2>1, TallocStep
  <2>4. PlacedOK BY <1>1 DEF GallocInv, Planning
  <2>5. PlacedOK' BY <1>1, <2>1, <2>4, PlacedStill
  <2>6. LargeEnough'
    <3>1. count \in Nat BY TokensAssumption
    <3>2. \A t \in Before(graph, N + 1) :
              Planned(t) => graph.width[t] * count <= talloc[t].size_max
      BY <1>0, <1>4, <2>4, <3>1, StillLargeEnough
    <3>3. \A u : Planned(u)' <=> Planned(u) BY <1>1, SameGraph
    <3>4. N' = N BY <1>1 DEF N
    <3> QED BY <1>1, <2>1, <3>2, <3>3, <3>4 DEF LargeEnough, NBytes
  <2>7. GallocTypeOK' /\ graph' \in Graphs
    <3>1. TallocTypeOK' BY <2>3 DEF TallocInv
    <3> QED BY <1>0, <1>1, <1>2, <2>1, <2>2, <3>1 DEF GallocTypeOK
  <2>8. ControlOK' BY <1>1, <2>1 DEF ControlOK
  <2> QED BY <2>1, <2>3, <2>5, <2>6, <2>7, <2>8 DEF GallocInv, Planning
<1> QED BY <1>3, <1>4

-----------------------------------------------------------------------------
(* The computation.                                                        *)

\* Places are as far apart as their assignments, and inside the buffer.
LEMMA Places ==
    ASSUME GallocInv, pc \in {"ready", "compute"}
    PROVE  /\ PlacedOK /\ Before(graph, N + 1) \subseteq Tensors
           /\ \A a, b \in Before(graph, N + 1) :
                 Planned(a) /\ Planned(b) /\ Apart(talloc[a], talloc[b])
                    => Place(a) \cap Place(b) = {}
           /\ \A t \in Before(graph, N + 1) : Planned(t) => Place(t) \subseteq DOMAIN mem
<1>0. /\ graph \in Graphs /\ tokens \in TokenCounts /\ GallocTypeOK /\ N + 1 \in Int
      /\ PlacedOK /\ LargeEnough
  BY InvFacts DEF GallocInv, Planning
<1>1. Before(graph, N + 1) \subseteq Tensors BY <1>0, BeforeFacts
<1>2. \A t \in Tensors : talloc[t].offset \in Nat /\ talloc[t].size_max \in Nat
  BY <1>0 DEF GallocTypeOK
<1>3. \A t \in Before(graph, N + 1) : NBytes(t) \in Nat BY <1>0, <1>1, SizesOfTensors
<1>4. \A t \in Before(graph, N + 1) : Planned(t) => NBytes(t) <= talloc[t].size_max
  BY <1>0 DEF LargeEnough
<1>5. ASSUME NEW a \in Before(graph, N + 1), NEW b \in Before(graph, N + 1),
             Planned(a), Planned(b), Apart(talloc[a], talloc[b])
      PROVE  Place(a) \cap Place(b) = {}
  <2>1. /\ talloc[a].offset \in Nat /\ talloc[b].offset \in Nat
        /\ talloc[a].size_max \in Nat /\ talloc[b].size_max \in Nat
        /\ NBytes(a) \in Nat /\ NBytes(b) \in Nat
        /\ NBytes(a) <= talloc[a].size_max /\ NBytes(b) <= talloc[b].size_max
    BY <1>1, <1>2, <1>3, <1>4, <1>5
  <2>2. \/ talloc[a].offset + talloc[a].size_max <= talloc[b].offset
        \/ talloc[b].offset + talloc[b].size_max <= talloc[a].offset
    BY <1>5 DEF Apart
  <2> QED BY <2>1, <2>2 DEF Place
<1>6. ASSUME NEW t \in Before(graph, N + 1), Planned(t)
      PROVE  Place(t) \subseteq DOMAIN mem
  <2>1. /\ talloc[t].offset \in Nat /\ talloc[t].size_max \in Nat
        /\ NBytes(t) \in Nat /\ NBytes(t) <= talloc[t].size_max
    BY <1>1, <1>2, <1>3, <1>4, <1>6
  <2>2. talloc[t].offset + talloc[t].size_max <= buffer BY <1>0, <1>6 DEF PlacedOK, Inside
  <2>3. DOMAIN mem = 0..(buffer - 1) /\ buffer \in Nat BY <1>0 DEF GallocTypeOK
  <2> QED BY <2>1, <2>2, <2>3 DEF Place
<1> QED BY <1>0, <1>1, <1>5, <1>6

\* What is written where nobody else writes is there, and what is elsewhere
\* stays.
LEMMA Writes ==
    ASSUME NEW ts, mem' = Written(ts), NEW t
    PROVE  /\ DOMAIN mem' = DOMAIN mem
           /\ t \in ts /\ (\A u \in ts : u # t => Place(u) \cap Place(t) = {})
                 => \A c \in Place(t) : c \in DOMAIN mem => mem'[c] = t
           /\ (\A u \in ts : Place(u) \cap Place(t) = {})
                 => \A c \in Place(t) : c \in DOMAIN mem => mem'[c] = mem[c]
<1>1. DOMAIN mem' = DOMAIN mem BY DEF Written
<1>2. \A c \in DOMAIN mem :
         mem'[c] = IF \E u \in ts : c \in Place(u) THEN CHOOSE u \in ts : c \in Place(u)
                                                   ELSE mem[c]
  BY DEF Written
<1>3. ASSUME t \in ts, \A u \in ts : u # t => Place(u) \cap Place(t) = {},
             NEW c \in Place(t), c \in DOMAIN mem
      PROVE  mem'[c] = t
  <2>1. \A u \in ts : c \in Place(u) <=> u = t BY <1>3
  <2>2. (CHOOSE u \in ts : c \in Place(u)) = t BY <1>3, <2>1
  <2> QED BY <1>2, <1>3, <2>2
<1>4. ASSUME \A u \in ts : Place(u) \cap Place(t) = {}, NEW c \in Place(t), c \in DOMAIN mem
      PROVE  mem'[c] = mem[c]
  <2>1. ~\E u \in ts : c \in Place(u) BY <1>4
  <2> QED BY <1>2, <1>4, <2>1
<1> QED BY <1>1, <1>3, <1>4

\* The assignment does not change while it is used.
LEMMA Used ==
    ASSUME GallocInv, pc \in {"ready", "compute"}, pc' \in {"idle", "ready", "compute"},
           UNCHANGED <<tallocVars, graph, tokens, j, hash, talloc, buffer>>,
           n' \in Nat, DOMAIN mem' = DOMAIN mem,
           \A c \in DOMAIN mem : mem'[c] \in Tensors \cup {NoSrc},
           mem' = [c \in DOMAIN mem' |-> mem'[c]],
           ControlOK', pc' = "compute" => MemOK'
    PROVE  GallocInv'
<1>0. graph \in Graphs /\ GallocTypeOK /\ TallocInv BY InvFacts
<1>1. UNCHANGED <<graph, tokens, j, n_children, n_views, offset, talloc, buffer>> BY DEF hash
<1>2. PlacedOK /\ LargeEnough BY DEF GallocInv, Planning
<1>3. PlacedOK' BY <1>2, PlacedStill
<1>4. LargeEnough'
  <2>1. \A u : Planned(u)' <=> Planned(u) BY <1>1, SameGraph
  <2>2. \A u : NBytes(u)' = NBytes(u) BY <1>1, SameSizes
  <2>3. N' = N BY <1>1 DEF N
  <2> QED BY <1>1, <1>2, <2>1, <2>2, <2>3 DEF LargeEnough
<1>5. TallocInv' BY <1>0, TallocStep
<1>6. GallocTypeOK' /\ graph' \in Graphs
  <2>1. TallocTypeOK' BY <1>5 DEF TallocInv
  <2>2. DOMAIN mem = 0..(buffer - 1) BY <1>0 DEF GallocTypeOK
  <2>3. mem' \in [0..(buffer' - 1) -> Tensors \cup {NoSrc}] BY <1>1, <2>2
  <2>4. pc' \in {"idle", "leafs", "allocate", "update", "assign", "ready", "compute"} OBVIOUS
  <2> QED BY <1>0, <1>1, <2>1, <2>3, <2>4 DEF GallocTypeOK
<1> QED BY <1>3, <1>4, <1>5, <1>6 DEF GallocInv, Planning

LEMMA InputsStep == ASSUME GallocInv, SetInputs PROVE GallocInv'
<1> DEFINE ts == {t \in LeafsOf(graph) : Planned(t)}
<1>0. /\ graph \in Graphs /\ N \in Nat \ {0} /\ GallocTypeOK /\ ControlOK
  BY InvFacts, GraphFacts
<1>1. /\ pc = "ready" /\ pc' = "compute" /\ mem' = Written(ts)
      /\ UNCHANGED <<tallocVars, graph, tokens, n, j, hash, talloc, buffer>>
  BY DEF SetInputs
<1>2. n = 1 /\ n' = 1 /\ N' = N BY <1>0, <1>1 DEF ControlOK, N
<1>3. /\ PlacedOK /\ Before(graph, N + 1) \subseteq Tensors
      /\ \A a, b \in Before(graph, N + 1) :
            Planned(a) /\ Planned(b) /\ Apart(talloc[a], talloc[b])
               => Place(a) \cap Place(b) = {}
      /\ \A t \in Before(graph, N + 1) : Planned(t) => Place(t) \subseteq DOMAIN mem
  BY <1>1, Places
<1>4. LeafsOf(graph) \subseteq Before(graph, N + 1) /\ Before(graph, 1) = LeafsOf(graph)
  BY <1>0, BeforeFacts
<1>5. \A a, b \in ts : a # b => Place(a) \cap Place(b) = {}
  BY <1>3, <1>4 DEF PlacedOK, LeafsApart
<1>6. ASSUME NEW t \in LeafsOf(graph), Planned(t), NEW c \in Place(t)
      PROVE  c \in DOMAIN mem' /\ mem'[c] = t
  <2>1. t \in ts /\ c \in DOMAIN mem BY <1>3, <1>4, <1>6
  <2>2. \A u \in ts : u # t => Place(u) \cap Place(t) = {} BY <1>5, <2>1
  <2> HIDE DEF ts
  <2> QED BY <1>1, <1>6, <2>1, <2>2, Writes
<1>7. MemOK'
  <2>1. \A t : Planned(t)' <=> Planned(t) BY <1>1, SameGraph
  <2>2. \A t : Place(t)' = Place(t) BY <1>1 DEF Place, NBytes
  <2>3. Before(graph', n') = LeafsOf(graph) BY <1>1, <1>2, <1>4
  <2> QED BY <1>6, <2>1, <2>2, <2>3 DEF MemOK, Holds
<1>8. ControlOK'
  <2>1. 1 \in 1..(N + 1) BY <1>0
  <2> QED BY <1>0, <1>1, <1>2, <2>1 DEF ControlOK
<1>9. ASSUME NEW c \in DOMAIN mem PROVE mem'[c] \in Tensors \cup {NoSrc}
  <2>1. mem[c] \in Tensors \cup {NoSrc} BY <1>0 DEF GallocTypeOK
  <2>2. \A u \in ts : u \in Tensors BY <1>3, <1>4
  <2>3. mem'[c] = IF \E u \in ts : c \in Place(u) THEN CHOOSE u \in ts : c \in Place(u)
                                                  ELSE mem[c]
    BY <1>1 DEF Written
  <2> HIDE DEF ts
  <2>4. (\E u \in ts : c \in Place(u)) => (CHOOSE u \in ts : c \in Place(u)) \in ts OBVIOUS
  <2> QED BY <2>1, <2>2, <2>3, <2>4
<1>10. mem' = [c \in DOMAIN mem' |-> mem'[c]] /\ DOMAIN mem' = DOMAIN mem BY <1>1 DEF Written
<1>11. n' \in Nat BY <1>2
<1> QED BY <1>1, <1>7, <1>8, <1>9, <1>10, <1>11, Used

LEMMA ComputeStep == ASSUME GallocInv, ComputeNode PROVE GallocInv'
<1> DEFINE b == Node
<1>0. /\ graph \in Graphs /\ N \in Nat \ {0} /\ n \in Nat /\ GallocTypeOK /\ ControlOK
  BY InvFacts, GraphFacts
<1>1. /\ pc = "compute" /\ pc' = "compute" /\ n <= N /\ n' = n + 1
      /\ mem' = IF Planned(b) THEN Written({b}) ELSE mem
      /\ UNCHANGED <<tallocVars, graph, tokens, j, hash, talloc, buffer>>
  BY DEF ComputeNode, N
<1>2. /\ n \in 1..N /\ n' \in 1..(N + 1) /\ N' = N /\ b = graph.nodes[n]
      /\ DOMAIN graph.nodes = 1..N /\ n \in Int /\ N + 1 \in Int
  BY <1>0, <1>1, GraphFacts DEF ControlOK, N, Node
<1>3. /\ PlacedOK /\ Before(graph, N + 1) \subseteq Tensors
      /\ \A u, v \in Before(graph, N + 1) :
            Planned(u) /\ Planned(v) /\ Apart(talloc[u], talloc[v])
               => Place(u) \cap Place(v) = {}
      /\ \A t \in Before(graph, N + 1) : Planned(t) => Place(t) \subseteq DOMAIN mem
  BY <1>1, Places
<1> HIDE DEF b
<1>4. /\ Before(graph, n + 1) = Before(graph, n) \cup {b} /\ b \notin Before(graph, n)
      /\ Before(graph, n + 1) \subseteq Before(graph, N + 1)
      /\ Before(graph, n) \subseteq Before(graph, N + 1) /\ b \in Before(graph, N + 1)
  <2>1. Before(graph, n + 1) = Before(graph, n) \cup {b} /\ b \notin Before(graph, n)
    BY <1>0, <1>2, BeforeFacts
  <2>2. n + 1 \in Int /\ n + 1 <= N + 1 BY <1>0, <1>2
  <2>3. Before(graph, n + 1) \subseteq Before(graph, N + 1) BY <1>0, <1>2, <2>2, BeforeFacts
  <2> QED BY <2>1, <2>3
<1>5. ASSUME NEW t \in Before(graph, n), Planned(t), UsedAfter(t, n), NEW c \in Place(t)
      PROVE  c \in DOMAIN mem' /\ mem'[c] = t
  <2>1. UsedAfter(t, n - 1)
    BY <1>2, <1>5 DEF UsedAfter
  <2>2. t \notin graph.external BY <1>5 DEF Planned
  <2>3. c \in DOMAIN mem /\ mem[c] = t
    BY <1>1, <1>5, <2>1, <2>2 DEF GallocInv, MemOK, Holds
  <2>4. CASE ~Planned(b) BY <1>1, <2>3, <2>4
  <2>5. CASE Planned(b)
    <3>1. Apart(talloc[t], talloc[b])
      BY <1>2, <1>3, <1>5, <2>5 DEF PlacedOK, NodeFits
    <3>2. Place(t) \cap Place(b) = {} BY <1>3, <1>4, <1>5, <2>5, <3>1
    <3>3. \A u \in {b} : Place(u) \cap Place(t) = {} BY <3>2
    <3>4. mem' = Written({b}) BY <1>1, <2>5
    <3> QED BY <1>5, <2>3, <3>3, <3>4, Writes
  <2> QED BY <2>4, <2>5
<1>6. ASSUME Planned(b), NEW c \in Place(b) PROVE c \in DOMAIN mem' /\ mem'[c] = b
  <2>1. c \in DOMAIN mem BY <1>3, <1>4, <1>6
  <2>2. mem' = Written({b}) BY <1>1, <1>6
  <2> QED BY <1>6, <2>1, <2>2, Writes
<1>7. MemOK'
  <2>1. \A t : Planned(t)' <=> Planned(t) BY <1>1, SameGraph
  <2>2. \A t : Place(t)' = Place(t) BY <1>1 DEF Place, NBytes
  <2>3. \A t, k : UsedAfter(t, k)' <=> UsedAfter(t, k) BY <1>1, SameGraph
  <2>4. n' - 1 = n /\ Before(graph', n') = Before(graph, n + 1) BY <1>0, <1>1
  <2> QED BY <1>4, <1>5, <1>6, <2>1, <2>2, <2>3, <2>4 DEF MemOK, Holds
<1>8. ControlOK' BY <1>0, <1>1, <1>2 DEF ControlOK
<1>9. b \in Tensors BY <1>3, <1>4
<1>10. ASSUME NEW c \in DOMAIN mem PROVE mem'[c] \in Tensors \cup {NoSrc}
  <2>1. mem[c] \in Tensors \cup {NoSrc} BY <1>0 DEF GallocTypeOK
  <2>2. mem' = Written({b}) => mem'[c] \in {b, mem[c]} BY DEF Written
  <2> QED BY <1>1, <1>9, <2>1, <2>2
<1>11. mem' = [c \in DOMAIN mem' |-> mem'[c]] /\ DOMAIN mem' = DOMAIN mem
  <2>1. mem = [c \in DOMAIN mem |-> mem[c]] BY <1>0 DEF GallocTypeOK
  <2>2. mem' = Written({b}) => mem' = [c \in DOMAIN mem' |-> mem'[c]] /\ DOMAIN mem' = DOMAIN mem
    BY DEF Written
  <2> QED BY <1>1, <2>1, <2>2
<1>12. n' \in Nat BY <1>0, <1>1
<1> QED BY <1>1, <1>7, <1>8, <1>10, <1>11, <1>12, Used

LEMMA ComputedStep == ASSUME GallocInv, Computed PROVE GallocInv'
<1>0. GallocTypeOK /\ ControlOK BY InvFacts
<1>1. /\ pc = "compute" /\ pc' = "idle" /\ n' = 1
      /\ UNCHANGED <<tallocVars, graph, tokens, j, hash, talloc, buffer>> /\ mem' = mem
  BY DEF Computed
<1>2. ControlOK' BY <1>0, <1>1 DEF ControlOK
<1>3. mem = [c \in DOMAIN mem |-> mem[c]] /\ \A c \in DOMAIN mem : mem[c] \in Tensors \cup {NoSrc}
  BY <1>0 DEF GallocTypeOK
<1>4. pc' # "compute" /\ n' \in Nat BY <1>1
<1> QED BY <1>1, <1>2, <1>3, <1>4, Used

-----------------------------------------------------------------------------
(* The theorems.                                                           *)

\* No tensor has a place, which is as good an assignment as any, for 0 tokens.
LEMMA GallocStart == ASSUME GallocInit PROVE GallocInv
<1>0. /\ TallocInit /\ graph \in Graphs /\ tokens \in TokenCounts
      /\ pc = "idle" /\ n = 1 /\ j = 1
      /\ n_children = [t \in Tensors |-> 0]
      /\ n_views = [t \in Tensors |-> 0]
      /\ offset = [t \in Tensors |-> 0]
      /\ talloc = [t \in Tensors |-> [offset |-> 0, size_max |-> 0]]
      /\ buffer = 0 /\ mem = [c \in {} |-> NoSrc]
  BY DEF GallocInit, NoTalloc
<1>1. TallocInv BY <1>0, EmptyHolds DEF TallocInit, Empty
<1>2. /\ N \in Nat
      /\ \A k \in Int : Before(graph, k) \subseteq Tensors
      /\ \A k \in 1..N : graph.nodes[k] \in Tensors
      /\ LeafsOf(graph) \subseteq Tensors
  BY <1>0, GraphFacts, BeforeFacts
<1>3. \A t \in Tensors : talloc[t].offset = 0 /\ talloc[t].size_max = 0 BY <1>0
<1>4. \A a, b \in Tensors : Apart(talloc[a], talloc[b]) BY <1>3 DEF Apart
<1>5. LeafsApart(talloc, LeafsOf(graph))
  <2>1. LeafsOf(graph) \subseteq Tensors BY <1>2
  <2> QED BY <1>4, <2>1 DEF LeafsApart
<1>6. \A k \in 1..N : NodeFits(talloc, k)
  <2>1. \A k \in 1..N : Before(graph, k) \subseteq Tensors BY <1>2
  <2> QED BY <1>2, <1>4, <2>1 DEF NodeFits
<1>7. Before(graph, N + 1) \subseteq Tensors
  <2>1. N + 1 \in Int BY <1>2
  <2> QED BY <1>2, <2>1
<1>8. Inside(talloc, Before(graph, N + 1), buffer) BY <1>0, <1>3, <1>7 DEF Inside
<1>9. \A t \in Before(graph, N + 1) : Planned(t) => talloc[t].size_max = graph.width[t] * 0
  <2>1. \A x \in Nat : x * 0 = 0 BY SMT
  <2>2. \A t \in Tensors : graph.width[t] \in Nat BY <1>0, TensorFacts
  <2> QED BY <1>3, <1>7, <2>1, <2>2
<1>10. PlacedOK BY <1>5, <1>6, <1>8, <1>9 DEF PlacedOK
<1>11. GallocTypeOK
  <2>1. TallocTypeOK BY <1>1 DEF TallocInv
  <2>2. mem \in [0..(buffer - 1) -> Tensors \cup {NoSrc}]
    <3>1. 0..(buffer - 1) = {} BY <1>0
    <3> QED BY <1>0, <3>1
  <2> QED BY <1>0, <2>1, <2>2 DEF GallocTypeOK
<1>12. ControlOK BY <1>0 DEF ControlOK
<1> QED BY <1>0, <1>1, <1>10, <1>11, <1>12 DEF GallocInv, Planning

LEMMA GallocUnchanged == ASSUME GallocInv, UNCHANGED gallocVars PROVE GallocInv'
<1>0. graph \in Graphs /\ TallocInv /\ GallocTypeOK /\ ControlOK BY InvFacts
<1>1. /\ UNCHANGED <<graph, tokens, pc, n, j, n_children, n_views, offset, talloc, buffer, mem>>
      /\ UNCHANGED tallocVars /\ UNCHANGED live /\ UNCHANGED max_size
  BY DEF gallocVars, hash, tallocVars
<1>2. TallocInv' BY <1>0, <1>1, TallocStep
<1>3. GallocTypeOK'
  <2>1. TallocTypeOK' BY <1>2 DEF TallocInv
  <2> QED BY <1>0, <1>1, <2>1 DEF GallocTypeOK
<1>4. ControlOK' BY <1>0, <1>1 DEF ControlOK, Node, N, Src
<1>5. \A u : Planned(u)' <=> Planned(u) BY <1>1, SameGraph
<1>6. \A u : NBytes(u)' = NBytes(u) BY <1>1, SameSizes
<1>7. \A t, k : UsedAfter(t, k)' <=> UsedAfter(t, k) BY <1>1, SameGraph
<1>8. Born' = Born /\ Reached' = Reached BY <1>1 DEF Born, Reached
<1>9. ASSUME pc \in {"allocate", "update", "assign"} PROVE CountsOK' /\ NoneIdle'
  <2>1. CountsOK /\ NoneIdle BY <1>9 DEF GallocInv
  <2>2. \A r : Left(r)' <=> Left(r) BY <1>1 DEF Left
  <2>3. \A t : ReadsLeft(t)' = ReadsLeft(t) /\ ViewsLeft(t)' = ViewsLeft(t)
    BY <1>1, <2>2, SameLeft
  <2>4. \A u : Reads(u)' = Reads(u) BY <1>1, SameGraph
  <2> QED BY <1>1, <2>1, <2>3, <2>4 DEF CountsOK, NoneIdle, Own
<1>10. ASSUME Planning PROVE HoldersOK' /\ NeededLive' /\ PlanOK'
  <2>1. HoldersOK /\ NeededLive /\ PlanOK BY <1>10 DEF GallocInv
  <2>2. HoldersOK' BY <1>1, <1>5, <1>6, <1>8, <2>1 DEF HoldersOK, Aligned
  <2>3. NeededLive' BY <1>1, <1>5, <1>7, <1>8, <2>1 DEF NeededLive
  <2>4. Plan' = Plan BY <1>1, <1>5, <1>6 DEF Plan
  <2>5. LeafsApart(Plan, Born \cap LeafsOf(graph))'
    BY <1>1, <1>5, <1>8, <2>1, <2>4 DEF PlanOK, LeafsApart
  <2>6. Inside(Plan, Born, max_size)' BY <1>1, <1>5, <1>8, <2>1, <2>4 DEF PlanOK, Inside
  <2>7. pc # "leafs" => \A k \in 1..Reached : NodeFits(Plan, k)'
    BY <1>1, <2>1, <2>4, FitsNext DEF PlanOK
  <2> QED BY <1>1, <1>8, <2>2, <2>3, <2>5, <2>6, <2>7 DEF PlanOK
<1>11. ASSUME ~Planning PROVE PlacedOK'
  BY <1>1, <1>11, PlacedStill DEF GallocInv
<1>12. ASSUME pc \in {"ready", "compute"} PROVE LargeEnough'
  <2>1. LargeEnough /\ N' = N BY <1>1, <1>12 DEF GallocInv, N
  <2> QED BY <1>1, <1>5, <1>6, <2>1 DEF LargeEnough
<1>13. ASSUME pc = "compute" PROVE MemOK'
  <2>1. MemOK BY <1>13 DEF GallocInv
  <2>2. \A t : Place(t)' = Place(t) BY <1>1 DEF Place, NBytes
  <2> QED BY <1>1, <1>5, <1>7, <2>1, <2>2 DEF MemOK, Holds
<1>14. pc' = "leafs" => \A t \in Tensors : n_children'[t] = 0 BY <1>1 DEF GallocInv
<1>15. Planning' <=> Planning BY <1>1 DEF Planning
<1> QED
  BY <1>0, <1>1, <1>2, <1>3, <1>4, <1>9, <1>10, <1>11, <1>12, <1>13, <1>14, <1>15 DEF GallocInv

LEMMA GallocStep == GallocInv /\ [GallocNext]_gallocVars => GallocInv'
<1> SUFFICES ASSUME GallocInv, [GallocNext]_gallocVars PROVE GallocInv' OBVIOUS
<1>1. ASSUME NEW count \in TokenCounts, AllocGraph(count) PROVE GallocInv' BY <1>1, GraphStep
<1>2. CASE AllocateLeaf BY <1>2, LeafStep
<1>3. CASE Count BY <1>3, CountStep
<1>4. CASE AllocateParent BY <1>4, ParentStep
<1>5. CASE AllocateDst BY <1>5, DstStep
<1>6. CASE UpdateParent BY <1>6, UpdateStep
<1>7. CASE NextNode BY <1>7, NextNodeStep
<1>8. CASE Assign BY <1>8, AssignStep
<1>9. CASE SetInputs BY <1>9, InputsStep
<1>10. CASE ComputeNode BY <1>10, ComputeStep
<1>11. CASE Computed BY <1>11, ComputedStep
<1>12. CASE UNCHANGED gallocVars BY <1>12, GallocUnchanged
<1> QED
  BY <1>1, <1>2, <1>3, <1>4, <1>5, <1>6, <1>7, <1>8, <1>9, <1>10, <1>11, <1>12 DEF GallocNext

\* The invariant holds of every behaviour.
THEOREM GAInvariant == GallocSpec => []GallocInv
<1>1. GallocInit => GallocInv BY GallocStart
<1> QED BY <1>1, GallocStep, PTL DEF GallocSpec

\* The variables of the graph allocator have their types: no count of what it
\* places falls below 0, although views and sources taken over give it back early.
THEOREM GATypeCorrect == GallocSpec => []GallocTypeOK
<1>1. GallocInv => GallocTypeOK BY DEF GallocInv
<1> QED BY <1>1, GAInvariant, PTL

\* What a node reads, directly or through a view.
LEMMA SourceAtNode ==
    ASSUME GallocInv, pc = "compute", n <= N, NEW i \in DOMAIN Src(Node)
    PROVE  LET p == Root(Src(Node)[i])
           IN  /\ p \in Own => p \in Before(graph, n) /\ p \in Before(graph, N + 1)
               /\ p \in Tensors /\ ReadAt(p, n)
               /\ n \in 1..N /\ Node = graph.nodes[n] /\ Node \in Before(graph, N + 1)
               /\ UsedAfter(p, n - 1) /\ ~IsView(p)
<1>0. graph \in Graphs /\ ControlOK /\ N \in Nat /\ n \in Nat BY InvFacts
<1>1. n \in 1..N /\ Node = graph.nodes[n] /\ DOMAIN graph.nodes = 1..N
  BY <1>0, GraphFacts DEF ControlOK, Node
<1>2. /\ Root(Src(Node)[i]) \in Own => Root(Src(Node)[i]) \in Before(graph, n)
      /\ Src(Node)[i] \in Tensors
  BY <1>0, <1>1, SourcesBefore DEF Own
<1>3. ReadAt(Root(Src(Node)[i]), n) BY <1>1 DEF ReadAt
<1>4. UsedAfter(Root(Src(Node)[i]), n - 1) BY <1>0, <1>1, <1>3 DEF UsedAfter
<1>5. Node \in Before(graph, n + 1) BY <1>0, <1>1, BeforeFacts
<1>6. /\ Before(graph, n) \subseteq Before(graph, N + 1)
      /\ Before(graph, n + 1) \subseteq Before(graph, N + 1)
  <2>1. n \in Int /\ n + 1 \in Int /\ N + 1 \in Int /\ n <= N + 1 /\ n + 1 <= N + 1
    BY <1>0, <1>1
  <2> QED BY <1>0, <2>1, BeforeFacts
<1>7. ~IsView(Root(Src(Node)[i])) /\ Root(Src(Node)[i]) \in Tensors BY <1>0, <1>2, TensorFacts
<1> QED BY <1>1, <1>2, <1>3, <1>4, <1>5, <1>6, <1>7

\* A node finds in the places of its sources, seen through views, what they
\* have computed.
THEOREM GAReadsAreFresh == GallocSpec => []ReadsAreFresh
<1>1. GallocInv => ReadsAreFresh
  <2> SUFFICES ASSUME GallocInv, pc = "compute", n <= N, NEW i \in DOMAIN Src(Node)
               PROVE  Holds(Root(Src(Node)[i]))
    BY DEF ReadsAreFresh, N
  <2> DEFINE p == Root(Src(Node)[i])
  <2>1. (p \in Own => p \in Before(graph, n)) /\ UsedAfter(p, n - 1) /\ ~IsView(p)
        /\ p \in Tensors
    BY SourceAtNode
  <2> HIDE DEF p
  <2>2. Planned(p) => Holds(p) BY <2>1 DEF GallocInv, MemOK, Planned, Own
  <2>3. ~Planned(p) => Holds(p) BY <2>1 DEF Planned, Holds
  <2> QED BY <2>2, <2>3 DEF p
<1> QED BY <1>1, GAInvariant, PTL

\* An operation writes over one of its sources only where it works in place,
\* and then over exactly that source.
THEOREM GANoOpEatsItsSource == GallocSpec => []NoOpEatsItsSource
<1>1. GallocInv => NoOpEatsItsSource
  <2> SUFFICES ASSUME GallocInv, pc = "compute", n <= N, Planned(Node), NEW i \in DOMAIN Src(Node)
               PROVE  LET p == Root(Src(Node)[i])
                      IN  \/ ~Planned(p) \/ Place(p) \cap Place(Node) = {}
                          \/ Node \in graph.inplace /\ Place(p) = Place(Node)
    BY DEF NoOpEatsItsSource, N
  <2> DEFINE p == Root(Src(Node)[i])
             b == Node
  <2>1. /\ p \in Own => p \in Before(graph, n) /\ p \in Before(graph, N + 1)
        /\ p \in Tensors /\ ReadAt(p, n)
        /\ n \in 1..N /\ b = graph.nodes[n] /\ b \in Before(graph, N + 1)
    BY SourceAtNode
  <2>2. /\ PlacedOK
        /\ \A u, v \in Before(graph, N + 1) :
              Planned(u) /\ Planned(v) /\ Apart(talloc[u], talloc[v])
                 => Place(u) \cap Place(v) = {}
    BY Places
  <2> HIDE DEF p, b
  <2>3. Planned(b) BY DEF b
  <2>4. SUFFICES ASSUME Planned(p)
                 PROVE  Place(p) \cap Place(b) = {} \/ (b \in graph.inplace /\ Place(p) = Place(b))
    BY DEF p, b
  <2>5. p \in Own BY <2>1, <2>4 DEF Planned, Own
  <2>6. Apart(talloc[p], talloc[b]) \/ InPlace(talloc, p, b)
    BY <2>1, <2>2, <2>3, <2>4, <2>5 DEF PlacedOK, NodeFits
  <2>7. CASE Apart(talloc[p], talloc[b]) BY <2>1, <2>2, <2>3, <2>4, <2>5, <2>7
  <2>8. CASE InPlace(talloc, p, b) BY <2>8 DEF InPlace, Place, NBytes
  <2> QED BY <2>6, <2>7, <2>8
<1> QED BY <1>1, GAInvariant, PTL

\* The outputs of the graph are there when it has been computed.
THEOREM GAOutputsSurvive == GallocSpec => []OutputsSurvive
<1>1. GallocInv => OutputsSurvive
  <2> SUFFICES ASSUME GallocInv, pc = "compute", n > N, NEW t \in graph.output, ~IsView(t)
               PROVE  Holds(t)
    BY DEF OutputsSurvive, N
  <2>1. graph \in Graphs /\ ControlOK /\ N \in Nat /\ n \in Nat BY InvFacts
  <2>2. n = N + 1 BY <2>1 DEF ControlOK
  <2>3. t \in Before(graph, N + 1) BY <2>1, GraphFacts DEF GraphOK, N
  <2>4. UsedAfter(t, n - 1) BY DEF UsedAfter
  <2>5. CASE Planned(t) BY <2>2, <2>3, <2>4, <2>5 DEF GallocInv, MemOK
  <2>6. CASE ~Planned(t) BY <2>6 DEF Planned, Holds
  <2> QED BY <2>5, <2>6
<1> QED BY <1>1, GAInvariant, PTL

\* The plan frees whatever has been read for the last time.
THEOREM GANothingHeldBack == GallocSpec => []NothingHeldBack
<1>1. GallocInv => NothingHeldBack
  <2> SUFFICES ASSUME GallocInv, pc = "assign", NEW t \in DOMAIN live, t \notin graph.output
               PROVE  Unread(t) \/ \E v \in Views(t) : Unread(v)
    BY DEF NothingHeldBack
  <2>1. graph \in Graphs /\ ControlOK /\ N \in Nat BY InvFacts
  <2>2. n = N + 1 /\ DOMAIN graph.nodes = 1..N BY <2>1, GraphFacts DEF ControlOK
  <2>3. \A u : ReadsLeft(u) = {}
    <3>1. \A r : ~Left(r) BY <2>1, <2>2 DEF Left
    <3> QED BY <3>1 DEF ReadsLeft
  <2>4. Reads(t) = {} \/ ViewsLeft(t) # {} BY <2>3 DEF GallocInv, NoneIdle
  <2>5. \A u : Reads(u) = {} => Unread(u)
    <3> SUFFICES ASSUME NEW u, Reads(u) = {}, NEW m \in Nodes, NEW i \in DOMAIN Src(m)
                 PROVE  Src(m)[i] # u
      BY DEF Unread
    <3>1. <<m, i>> \in {m} \X DOMAIN Src(m) OBVIOUS
    <3>2. <<m, i>> \in Sources BY <3>1 DEF Sources
    <3> QED BY <3>2 DEF Reads
  <2>6. ViewsLeft(t) # {} => \E v \in Views(t) : Reads(v) = {} BY <2>3 DEF ViewsLeft
  <2> QED BY <2>4, <2>5, <2>6
<1> QED BY <1>1, GAInvariant, PTL
-----------------------------------------------------------------------------
(* The ring of samples.                                                    *)

USE SizeAssumption, MaxPushedAssumption

\* How many pushes ago position i was written, if it was written at all.
Age(i) == IF i < w THEN w - 1 - i ELSE w - 1 - i + Size

\* Position i holds the sample pushed Age(i) pushes before the latest, or the
\* initial silence.
RingOK == \A i \in 0..(Size - 1) : ring[i] = Abstract!Sample(pushed - Age(i))

\* The counter is the number of samples pushed, up to the size of the ring.
TotalOK == total = IF Counts THEN Least(pushed, Size) ELSE 0

RingInv == TypeOK /\ RingOK /\ TotalOK

-----------------------------------------------------------------------------
\* Remainders of the two laps that the indices of the ring stay in.
LEMMA SameLap == ASSUME NEW a \in 0..(Size - 1) PROVE a % Size = a
BY SMT

LEMMA NextLap == ASSUME NEW a \in Size..(2 * Size - 1) PROVE a % Size = a - Size
BY SMT

\* The number of samples copied is the length of the abstract window, and at
\* most the size of the ring.
LEMMA TakeLength ==
    ASSUME TypeOK, TotalOK
    PROVE  Take = WindowLength(platform, pushed) /\ Take \in 0..Size
BY DEF TypeOK, TotalOK, Take, WindowLength, Counts, Least

\* The i-th index of the copy stays in the ring, and its age counts down to
\* the sample pushed last.
LEMMA CopyIndex ==
    ASSUME TypeOK, NEW take \in 0..Size, NEW i \in 1..take
    PROVE  LET idx == (First(take) + i - 1) % Size
           IN  idx \in 0..(Size - 1) /\ Age(idx) = take - i
<1> DEFINE a == w - take + Size
           f == First(take)
           b == f + i - 1
<1>0. w \in 0..(Size - 1) /\ Size \in Nat \ {0} BY DEF TypeOK
<1>1. a \in 0..(2 * Size - 1) BY <1>0
<1>2. f = IF a < Size THEN a ELSE a - Size
  <2>1. CASE a < Size BY <1>1, <2>1, SameLap DEF First
  <2>2. CASE ~(a < Size)
    <3>1. a \in Size..(2 * Size - 1) BY <1>0, <1>1, <2>2
    <3> QED BY <2>2, <3>1, NextLap DEF First
  <2> QED BY <2>1, <2>2
<1>3. f \in 0..(Size - 1) BY <1>0, <1>1, <1>2
<1> HIDE DEF f
<1>4. b \in 0..(2 * Size - 1) BY <1>0, <1>3
<1>5. b % Size = IF b < Size THEN b ELSE b - Size
  <2>1. CASE b < Size
    <3>1. b \in 0..(Size - 1) BY <1>0, <1>4, <2>1
    <3> QED BY <2>1, <3>1, SameLap
  <2>2. CASE ~(b < Size)
    <3>1. b \in Size..(2 * Size - 1) BY <1>0, <1>4, <2>2
    <3> QED BY <2>2, <3>1, NextLap
  <2> QED BY <2>1, <2>2
<1>6. b % Size \in 0..(Size - 1) BY <1>0, <1>4, <1>5
<1>7. Age(b % Size) = take - i
  <2> DEFINE r == b % Size
  <2>1. r = IF b < Size THEN b ELSE b - Size BY <1>5
  <2> HIDE DEF r
  <2>2. r < w => r = w - take + i - 1 BY <1>0, <1>2, <2>1
  <2>3. ~(r < w) => r = w - take + i - 1 + Size BY <1>0, <1>2, <2>1
  <2>4. Age(r) = take - i BY <1>0, <2>1, <2>2, <2>3, <1>3 DEF Age
  <2> QED BY <2>4 DEF r
<1> QED BY <1>6, <1>7 DEF f

\* The copied window is the abstract one.
LEMMA WindowIsLatest ==
    ASSUME RingInv
    PROVE  [i \in 1..Take |-> ring[(First(Take) + i - 1) % Size]]
           = Abstract!Latest(WindowLength(platform, pushed))
<1>1. TypeOK /\ RingOK /\ TotalOK BY DEF RingInv
<1>2. Take = WindowLength(platform, pushed) /\ Take \in 0..Size BY <1>1, TakeLength
<1>3. ASSUME NEW i \in 1..Take
      PROVE  ring[(First(Take) + i - 1) % Size] = Abstract!Sample(pushed - Take + i)
  <2> DEFINE idx == (First(Take) + i - 1) % Size
  <2>1. idx \in 0..(Size - 1) /\ Age(idx) = Take - i BY <1>1, <1>2, CopyIndex
  <2>2. ring[idx] = Abstract!Sample(pushed - Age(idx)) BY <1>1, <2>1 DEF RingOK
  <2> HIDE DEF idx
  <2>3. pushed - (Take - i) = pushed - Take + i BY <1>1, <1>2 DEF TypeOK
  <2>4. ring[idx] = Abstract!Sample(pushed - Take + i) BY <2>1, <2>2, <2>3
  <2> QED BY <2>4 DEF idx
<1> QED BY <1>2, <1>3 DEF Abstract!Latest

-----------------------------------------------------------------------------
\* A push ages every position by one and writes the newest sample at w.
LEMMA PushRing == ASSUME RingInv, Push PROVE RingOK'
<1>1. /\ w \in 0..(Size - 1) /\ pushed \in Nat /\ Size \in Nat \ {0}
      /\ ring \in [0..(Size - 1) -> 0..MaxPushed]
  BY DEF RingInv, TypeOK
<1>2. w' = IF w + 1 < Size THEN w + 1 ELSE 0
  <2>1. CASE w + 1 < Size
    <3>1. w + 1 \in 0..(Size - 1) BY <1>1, <2>1
    <3> QED BY <2>1, <3>1, SameLap DEF Push
  <2>2. CASE ~(w + 1 < Size)
    <3>1. w + 1 = Size /\ Size \in Size..(2 * Size - 1) BY <1>1, <2>2
    <3>2. Size % Size = 0 BY <1>1, <3>1, NextLap
    <3> QED BY <2>2, <3>1, <3>2 DEF Push
  <2> QED BY <2>1, <2>2
<1>3. pushed' = pushed + 1 BY DEF Push
<1>4. ASSUME NEW i \in 0..(Size - 1) PROVE ring'[i] = Abstract!Sample(pushed' - Age(i)')
  <2>1. CASE i = w
    <3>1. ring'[i] = pushed + 1 BY <1>1, <2>1 DEF Push
    <3>2. Age(i)' = 0 BY <1>1, <1>2, <2>1 DEF Age
    <3> QED BY <1>1, <1>3, <3>1, <3>2 DEF Abstract!Sample
  <2>2. CASE i # w
    <3>1. ring'[i] = ring[i] BY <1>1, <2>2 DEF Push
    <3>2. Age(i)' = Age(i) + 1 /\ Age(i) \in Int BY <1>1, <1>2, <2>2 DEF Age
    <3>3. pushed' - Age(i)' = pushed - Age(i) BY <1>1, <1>3, <3>2
    <3>4. ring[i] = Abstract!Sample(pushed - Age(i)) BY DEF RingInv, RingOK
    <3> QED BY <3>1, <3>3, <3>4
  <2> QED BY <2>1, <2>2
<1> QED BY <1>4 DEF RingOK, Abstract!Sample

\* A push keeps the types: the index wraps around.
LEMMA PushType == ASSUME RingInv, Push PROVE TypeOK'
<1>1. TypeOK BY DEF RingInv
<1>2. w + 1 \in 0..Size /\ Size \in Nat \ {0} BY <1>1 DEF TypeOK
<1>3. (w + 1) % Size \in 0..(Size - 1) BY <1>2
<1> QED BY <1>1, <1>3 DEF Push, TypeOK

LEMMA RingStart == Init => RingInv
<1> SUFFICES ASSUME Init PROVE RingInv OBVIOUS
<1>1. TypeOK BY DEF Init, TypeOK
<1>2. TotalOK BY DEF Init, TotalOK, Least
<1>3. RingOK BY DEF Init, RingOK, Age, Abstract!Sample
<1> QED BY <1>1, <1>2, <1>3 DEF RingInv

LEMMA RingStep == RingInv /\ [Next]_vars => RingInv'
<1> SUFFICES ASSUME RingInv, [Next]_vars PROVE RingInv' OBVIOUS
<1>1. CASE Push
  <2>1. TotalOK' BY <1>1 DEF RingInv, TypeOK, TotalOK, Push, Counts, Least
  <2> QED BY <1>1, <2>1, PushType, PushRing DEF RingInv
<1>2. CASE Snapshot
  <2>1. UNCHANGED <<platform, ring, w, total, pushed>> BY <1>2 DEF Snapshot
  <2>2. Take \in 0..Size /\ w \in 0..(Size - 1)
    BY TakeLength DEF RingInv, TypeOK
  <2>3. \A i \in 1..Take : ring[(First(Take) + i - 1) % Size] \in 0..MaxPushed
    BY <2>2, CopyIndex DEF RingInv, TypeOK
  <2>4. window' \in Seq(0..MaxPushed)
    <3>1. window' = [i \in 1..Take |-> ring[(First(Take) + i - 1) % Size]]
      BY <1>2 DEF Snapshot
    <3> QED BY <2>2, <2>3, <3>1
  <2>5. TypeOK' BY <2>1, <2>4 DEF RingInv, TypeOK
  <2>6. RingOK' /\ TotalOK'
    BY <2>1 DEF RingInv, RingOK, TotalOK, Counts, Age, Abstract!Sample
  <2> QED BY <2>5, <2>6 DEF RingInv
<1>3. CASE UNCHANGED vars
  BY <1>3 DEF vars, RingInv, TypeOK, RingOK, TotalOK, Counts, Age, Abstract!Sample
<1> QED BY <1>1, <1>2, <1>3 DEF Next

\* The invariant holds of every behaviour.
THEOREM SRInvariant == Spec => []RingInv
BY RingStart, RingStep, PTL DEF Spec

\* Each window is the latest samples in the order they were pushed, for every
\* size of the ring and of the window.
THEOREM SRImplementsWindow == Spec => ImplementsWindow
<1>1. Init => Abstract!SWInit BY DEF Init, Abstract!SWInit
<1>2. RingInv /\ [Next]_vars => [Abstract!SWNext]_<<platform, pushed, window>>
  <2> SUFFICES ASSUME RingInv, [Next]_vars
               PROVE  Abstract!SWNext \/ UNCHANGED <<platform, pushed, window>>
    OBVIOUS
  <2>1. CASE Push BY <2>1 DEF Push, Abstract!SWNext, Abstract!Hear
  <2>2. CASE Snapshot
    BY <2>2, WindowIsLatest DEF Snapshot, Abstract!SWNext, Abstract!Show
  <2>3. CASE UNCHANGED vars BY <2>3 DEF vars
  <2> QED BY <2>1, <2>2, <2>3 DEF Next
<1> QED BY <1>1, <1>2, SRInvariant, PTL DEF Spec, ImplementsWindow, Abstract!SWSpec

\* The platform is fixed.
LEMMA PlatformStays == ASSUME [Next]_vars PROVE Counts' <=> Counts
BY DEF Next, Push, Snapshot, vars, Counts

\* With the counter no window holds a sample that was never pushed.
THEOREM SRNoMadeUpSilence == Spec => []NoMadeUpSilence
<1>1. Init => NoMadeUpSilence BY DEF Init, NoMadeUpSilence
<1>2. RingInv /\ NoMadeUpSilence /\ [Next]_vars => NoMadeUpSilence'
  <2> SUFFICES ASSUME RingInv, NoMadeUpSilence, [Next]_vars, Counts
               PROVE  \A i \in DOMAIN window' : window'[i] # 0
    BY PlatformStays DEF NoMadeUpSilence
  <2>1. CASE Push BY <2>1 DEF Push, NoMadeUpSilence
  <2>2. CASE Snapshot
    <3>1. window' = Abstract!Latest(WindowLength(platform, pushed))
      BY <2>2, WindowIsLatest DEF Snapshot
    <3>2. WindowLength(platform, pushed) \in 0..pushed /\ pushed \in Nat
      BY DEF RingInv, TypeOK, WindowLength, Counts, Least
    <3> QED BY <3>1, <3>2 DEF Abstract!Latest, Abstract!Sample
  <2>3. CASE UNCHANGED vars BY <2>3 DEF vars, NoMadeUpSilence
  <2> QED BY <2>1, <2>2, <2>3 DEF Next
<1> QED BY <1>1, <1>2, SRInvariant, PTL DEF Spec

-----------------------------------------------------------------------------
(* All of them, one at a time.                                             *)

\* Of the graph allocator's variables only the allocator's own move when it is
\* not the subject.
MemoryInv ==
    /\ RingInv
    /\ subject = "graph" => GallocInv
    /\ subject # "graph" => TallocInv /\ GallocTypeOK

\* The variables of the three components have their types.
THEOREM MSTypeCorrect == MemorySpec => []MemoryTypeOK
<1>1. MemoryInit => MemoryInv
  <2> SUFFICES ASSUME MemoryInit PROVE MemoryInv OBVIOUS
  <2>1. RingInv BY RingStart DEF MemoryInit
  <2>2. GallocInv BY GallocStart DEF MemoryInit
  <2> QED BY <2>1, <2>2 DEF MemoryInv, GallocInv
<1>2. MemoryInv /\ [MemoryNext]_allVars => MemoryInv'
  <2> SUFFICES ASSUME MemoryInv, [MemoryNext]_allVars PROVE MemoryInv' OBVIOUS
  <2>1. CASE subject = "ring" /\ Next /\ UNCHANGED <<gallocVars, subject>>
    <3>1. RingInv' BY <2>1, RingStep DEF MemoryInv
    <3>2. TallocInv'
      BY <2>1, TallocStep DEF MemoryInv, gallocVars
    <3>3. GallocTypeOK'
      <4>1. TallocTypeOK' BY <3>2 DEF TallocInv
      <4> QED BY <2>1, <4>1 DEF MemoryInv, GallocTypeOK, gallocVars, hash
    <3> QED BY <2>1, <3>1, <3>2, <3>3 DEF MemoryInv
  <2>2. CASE /\ subject = "tensors" /\ TallocNext /\ UNCHANGED subject
             /\ UNCHANGED <<vars, graph, tokens, pc, n, j, hash, talloc, buffer, mem>>
    <3>1. RingInv' BY <2>2, RingStep DEF MemoryInv
    <3>2. TallocInv' BY <2>2, TallocStep DEF MemoryInv
    <3>3. GallocTypeOK'
      <4>1. TallocTypeOK' BY <3>2 DEF TallocInv
      <4> QED BY <2>2, <4>1 DEF MemoryInv, GallocTypeOK, hash
    <3> QED BY <2>2, <3>1, <3>2, <3>3 DEF MemoryInv
  <2>3. CASE subject = "graph" /\ GallocNext /\ UNCHANGED <<vars, subject>>
    <3>1. RingInv' BY <2>3, RingStep DEF MemoryInv
    <3>2. GallocInv' BY <2>3, GallocStep DEF MemoryInv
    <3> QED BY <2>3, <3>1, <3>2 DEF MemoryInv
  <2>4. CASE UNCHANGED allVars
    <3>1. UNCHANGED vars /\ UNCHANGED gallocVars /\ subject' = subject BY <2>4 DEF allVars
    <3>2. RingInv' BY <3>1, RingStep DEF MemoryInv
    <3>3. CASE subject = "graph"
      <4>1. GallocInv' BY <3>1, <3>3, GallocStep DEF MemoryInv
      <4> QED BY <3>1, <3>2, <3>3, <4>1 DEF MemoryInv
    <3>4. CASE subject # "graph"
      <4>1. TallocInv' BY <3>1, <3>4, TallocStep DEF MemoryInv, gallocVars
      <4>2. TallocTypeOK' BY <4>1 DEF TallocInv
      <4>3. GallocTypeOK' BY <3>1, <3>4, <4>2 DEF MemoryInv, GallocTypeOK, gallocVars, hash
      <4> QED BY <3>1, <3>2, <3>4, <4>1, <4>3 DEF MemoryInv
    <3> QED BY <3>3, <3>4
  <2> QED BY <2>1, <2>2, <2>3, <2>4 DEF MemoryNext
<1>3. MemoryInv => MemoryTypeOK BY DEF MemoryInv, RingInv, GallocInv, MemoryTypeOK
<1> QED BY <1>1, <1>2, <1>3, PTL DEF MemorySpec
=============================================================================
