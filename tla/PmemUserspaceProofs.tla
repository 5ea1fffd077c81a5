------------------------ MODULE PmemUserspaceProofs -------------------------
(***************************************************************************)
(* The heap of PmemUserspace stays a partition into owned and free chunks  *)
(* for any number of buffers, any sizes and any heap, and the buffers are  *)
(* an implementation of RegionPool.                                        *)
(*                                                                         *)
(* First, what the list operations of BestFitHeap preserve, for every page *)
(* size, heap size and list: splitting a chunk and merging freed ones turn *)
(* a heap into a heap, without two free chunks in a row, and touch no      *)
(* chunk of anybody else.                                                  *)
(***************************************************************************)
EXTENDS PmemUserspace, TLAPS

IsHeap(list) == /\ list \in Seq(Chunk)
                /\ Tiles(list)
                /\ Ascending(list)
                /\ NoEmptyChunk(list)

\* The chunks of mid fill the place of the chunks first..last of list.
Fills(list, first, last, mid) ==
    /\ mid \in Seq(Chunk)
    /\ mid # <<>>
    /\ mid[1].start = list[first].start
    /\ End(mid[Len(mid)]) = End(list[last])
    /\ \A i \in 1..(Len(mid) - 1) : End(mid[i]) = mid[i + 1].start
    /\ Ascending(mid)
    /\ NoEmptyChunk(mid)

\* new is list with mid in the place of its chunks first..last.
IsSplice(new, list, first, last, mid) ==
    /\ new \in Seq(Chunk)
    /\ Len(new) = Len(list) - (last - first + 1) + Len(mid)
    /\ \A i \in 1..Len(new) :
          new[i] = IF i < first THEN list[i]
                   ELSE IF i < first + Len(mid) THEN mid[i - first + 1]
                   ELSE list[i - Len(mid) + (last - first + 1)]

\* mid is the pieces of c for n busy blocks: what alignment skips, the busy
\* blocks, the tail.
IsCut(mid, c, n) ==
    LET x == Extra(c)
        t == c.size - (n + x)
        p == IF x > 0 THEN 1 ELSE 0
        r == IF t > 0 THEN 1 ELSE 0
    IN  /\ x \in Nat /\ t \in Nat /\ c.start \in Nat /\ c.size = x + n + t
        /\ mid \in Seq(Chunk)
        /\ Len(mid) = p + 1 + r
        /\ mid[p + 1] = BusyChunk(c.start + x, n)
        /\ p = 1 => mid[1] = FreeChunk(c.start, x)
        /\ r = 1 => mid[p + 2] = FreeChunk(c.start + x + n, t)

\* Transitivity, for terms the provers need not look into.
LEMMA Between ==
    ASSUME NEW a \in Nat, NEW b \in Nat, NEW c \in Nat, a <= b, b <= c
    PROVE  a <= c
  OBVIOUS

\* A page is a positive number of blocks.
LEMMA PageBlocksPositive == PageBlocks \in Nat \ {0}
  BY PageAssumption DEF PageBlocks, kMemoryAlign

\* The heap is a positive number of blocks.
LEMMA HeapBlocksPositive == HeapBlocks \in Nat \ {0}
  <1> DEFINE q == (HeapBytes + PageSize - 1) \div PageSize
  <1>1. PageSize \in Nat /\ PageSize >= 32
    BY PageAssumption DEF kMemoryAlign
  <1>2. q \in Nat /\ q >= 1
    BY <1>1, HeapAssumption
  <1>3. q * PageSize \in Nat /\ q * PageSize >= PageSize
    BY <1>1, <1>2
  <1>4. HeapBlocks = (q * PageSize) \div 32
    BY DEF HeapBlocks, RoundUpToPage, kMemoryAlign
  <1> HIDE DEF q
  <1>5. QED BY <1>1, <1>3, <1>4

\* Alignment skips fewer blocks than a page has.
LEMMA ExtraType ==
    ASSUME NEW c \in Chunk PROVE Extra(c) \in 0..(PageBlocks - 1)
  <1>1. c.start \in Nat BY DEF Chunk
  <1>2. c.start % PageBlocks \in 0..(PageBlocks - 1)
    BY <1>1, PageBlocksPositive
  <1>3. QED BY <1>2, PageBlocksPositive DEF Extra

\* A positive number of bytes takes a positive number of blocks.
LEMMA BlocksOfPositive ==
    ASSUME NEW n \in Nat \ {0} PROVE BlocksOf(n) \in Nat \ {0}
  BY DEF BlocksOf, kMemoryAlign

\* The elements of two lists in a row.
LEMMA ConcatElements ==
    ASSUME NEW s \in Seq(Chunk), NEW t \in Seq(Chunk)
    PROVE  /\ s \o t \in Seq(Chunk)
           /\ Len(s \o t) = Len(s) + Len(t)
           /\ \A i \in 1..Len(s \o t) :
                 (s \o t)[i] = IF i <= Len(s) THEN s[i] ELSE t[i - Len(s)]
  OBVIOUS

\* The elements of a part of a list.
LEMMA SubSeqElements ==
    ASSUME NEW s \in Seq(Chunk), NEW m \in 1..(Len(s) + 1),
           NEW n \in (m - 1)..Len(s)
    PROVE  /\ SubSeq(s, m, n) \in Seq(Chunk)
           /\ Len(SubSeq(s, m, n)) = n - m + 1
           /\ \A i \in 1..(n - m + 1) : SubSeq(s, m, n)[i] = s[m + i - 1]
  OBVIOUS

\* The elements of a spliced list, by position.
LEMMA SpliceElements ==
    ASSUME NEW list \in Seq(Chunk), NEW mid \in Seq(Chunk),
           NEW first \in 1..Len(list), NEW last \in first..Len(list)
    PROVE  IsSplice(Splice(list, first, last, mid), list, first, last, mid)
  <1> DEFINE head == SubSeq(list, 1, first - 1)
             tail == SubSeq(list, last + 1, Len(list))
             front == head \o mid
             new == Splice(list, first, last, mid)
  <1>0. Len(list) \in Nat /\ Len(mid) \in Nat
    OBVIOUS
  <1>1. /\ head \in Seq(Chunk) /\ Len(head) = first - 1
        /\ \A i \in 1..(first - 1) : head[i] = list[i]
    BY <1>0, SubSeqElements
  <1>2. /\ tail \in Seq(Chunk) /\ Len(tail) = Len(list) - last
        /\ \A i \in 1..(Len(list) - last) : tail[i] = list[last + i]
    BY <1>0, SubSeqElements
  <1>3. new = front \o tail
    BY DEF Splice
  <1> HIDE DEF head, tail, new
  <1>4. /\ front \in Seq(Chunk)
        /\ Len(front) = first - 1 + Len(mid)
        /\ \A i \in 1..Len(front) :
              front[i] = IF i < first THEN list[i] ELSE mid[i - first + 1]
    <2>1. /\ front \in Seq(Chunk) /\ Len(front) = Len(head) + Len(mid)
          /\ \A i \in 1..Len(front) :
                front[i] = IF i <= Len(head) THEN head[i] ELSE mid[i - Len(head)]
      BY <1>1, ConcatElements
    <2> HIDE DEF front
    <2>2. QED BY <1>0, <1>1, <2>1
  <1> HIDE DEF front
  <1>5. /\ new \in Seq(Chunk)
        /\ Len(new) = Len(front) + Len(tail)
        /\ \A i \in 1..Len(new) :
              new[i] = IF i <= Len(front) THEN front[i] ELSE tail[i - Len(front)]
    <2>1. /\ front \o tail \in Seq(Chunk)
          /\ Len(front \o tail) = Len(front) + Len(tail)
          /\ \A i \in 1..Len(front \o tail) :
                (front \o tail)[i] = IF i <= Len(front) THEN front[i]
                                     ELSE tail[i - Len(front)]
      BY <1>2, <1>4, ConcatElements
    <2>2. QED BY <1>3, <2>1
  <1>6. Len(new) = Len(list) - (last - first + 1) + Len(mid)
    BY <1>0, <1>2, <1>4, <1>5
  <1>7. ASSUME NEW i \in 1..Len(new), i <= Len(front)
        PROVE  new[i] = IF i < first THEN list[i] ELSE mid[i - first + 1]
    BY <1>0, <1>4, <1>5, <1>7
  <1>8. ASSUME NEW i \in 1..Len(new), ~(i <= Len(front))
        PROVE  new[i] = list[i - Len(mid) + (last - first + 1)]
    <2>1. new[i] = tail[i - Len(front)]
      BY <1>5, <1>8
    <2>2. i - Len(front) \in 1..(Len(list) - last)
      BY <1>0, <1>2, <1>4, <1>6, <1>8
    <2>3. last + (i - Len(front)) = i - Len(mid) + (last - first + 1)
      BY <1>0, <1>4
    <2>4. QED BY <1>2, <2>1, <2>2, <2>3
  <1>9. ASSUME NEW i \in 1..Len(new)
        PROVE  new[i] = IF i < first THEN list[i]
                        ELSE IF i < first + Len(mid) THEN mid[i - first + 1]
                        ELSE list[i - Len(mid) + (last - first + 1)]
    <2>1. i <= Len(front) <=> i < first + Len(mid)
      BY <1>0, <1>4, <1>5
    <2>2. i < first => i < first + Len(mid)
      BY <1>0, <1>5
    <2>3. QED BY <1>7, <1>8, <2>1, <2>2
  <1>10. IsSplice(new, list, first, last, mid)
    BY <1>5, <1>6, <1>9 DEF IsSplice
  <1>11. QED BY <1>10 DEF new

\* The chunks of a spliced list, whatever their positions.
LEMMA SpliceChunks ==
    ASSUME NEW list \in Seq(Chunk), NEW mid \in Seq(Chunk),
           NEW first \in 1..Len(list), NEW last \in first..Len(list),
           NEW new, IsSplice(new, list, first, last, mid)
    PROVE  /\ \A i \in DOMAIN new :
                 \/ \E j \in DOMAIN list \ (first..last) : new[i] = list[j]
                 \/ \E j \in DOMAIN mid : new[i] = mid[j]
           /\ \A j \in DOMAIN list \ (first..last) :
                 \E i \in DOMAIN new : new[i] = list[j]
           /\ \A j \in DOMAIN mid : \E i \in DOMAIN new : new[i] = mid[j]
  <1> DEFINE gap == last - first + 1
  <1>0. Len(list) \in Nat /\ Len(mid) \in Nat /\ gap \in Nat
    OBVIOUS
  <1>1. /\ DOMAIN list = 1..Len(list)
        /\ DOMAIN mid = 1..Len(mid)
    OBVIOUS
  <1>2. /\ new \in Seq(Chunk)
        /\ Len(new) = Len(list) - gap + Len(mid)
        /\ \A i \in 1..Len(new) :
              new[i] = IF i < first THEN list[i]
                       ELSE IF i < first + Len(mid) THEN mid[i - first + 1]
                       ELSE list[i - Len(mid) + gap]
    BY DEF IsSplice
  <1>3. DOMAIN new = 1..Len(new)
    BY <1>2
  <1>4. ASSUME NEW i \in DOMAIN new
        PROVE  \/ \E j \in DOMAIN list \ (first..last) : new[i] = list[j]
               \/ \E j \in DOMAIN mid : new[i] = mid[j]
    <2>1. CASE i < first
      <3>1. i \in DOMAIN list \ (first..last) /\ new[i] = list[i]
        BY <1>0, <1>1, <1>2, <1>3, <2>1
      <3>2. QED BY <3>1
    <2>2. CASE first <= i /\ i < first + Len(mid)
      <3>1. i - first + 1 \in DOMAIN mid
        BY <1>0, <1>1, <1>3, <2>2
      <3>2. i \in 1..Len(new) /\ ~(i < first) /\ i < first + Len(mid)
        BY <1>0, <1>3, <2>2
      <3>3. new[i] = mid[i - first + 1]
        BY <1>2, <3>2
      <3>4. QED BY <3>1, <3>3
    <2>3. CASE first + Len(mid) <= i
      <3>1. i - Len(mid) + gap \in DOMAIN list \ (first..last)
        <4>1. Len(new) = Len(list) - gap + Len(mid) /\ i \in 1..Len(new)
          BY <1>2, <1>3
        <4>2. i - Len(mid) + gap \in (last + 1)..Len(list)
          BY <1>0, <2>3, <4>1
        <4>3. QED BY <1>0, <1>1, <4>2
      <3>2. ~(i < first) /\ ~(i < first + Len(mid))
        BY <1>0, <1>3, <2>3
      <3>3. new[i] = list[i - Len(mid) + gap]
        BY <1>2, <1>3, <3>2
      <3>4. QED BY <3>1, <3>3
    <2>4. QED BY <1>0, <1>3, <2>1, <2>2, <2>3
  <1>5. ASSUME NEW j \in DOMAIN list \ (first..last)
        PROVE  \E i \in DOMAIN new : new[i] = list[j]
    <2>1. CASE j < first
      <3>1. j \in DOMAIN new /\ new[j] = list[j]
        BY <1>0, <1>1, <1>2, <1>3, <2>1
      <3>2. QED BY <3>1
    <2>2. CASE last < j
      <3>1. /\ j - gap + Len(mid) \in DOMAIN new
            /\ ~(j - gap + Len(mid) < first)
            /\ ~(j - gap + Len(mid) < first + Len(mid))
            /\ (j - gap + Len(mid)) - Len(mid) + gap = j
        BY <1>0, <1>1, <1>2, <1>3, <2>2
      <3>2. new[j - gap + Len(mid)] = list[j]
        BY <1>2, <1>3, <3>1
      <3>3. QED BY <3>1, <3>2
    <2>3. QED BY <1>0, <1>1, <2>1, <2>2
  <1>6. ASSUME NEW j \in DOMAIN mid
        PROVE  \E i \in DOMAIN new : new[i] = mid[j]
    <2>0. j \in 1..Len(mid) /\ Len(new) = Len(list) - gap + Len(mid)
      BY <1>1, <1>2
    <2>1. /\ j + first - 1 \in DOMAIN new
          /\ ~(j + first - 1 < first)
          /\ j + first - 1 < first + Len(mid)
          /\ (j + first - 1) - first + 1 = j
      BY <1>0, <1>3, <2>0
    <2>2. new[j + first - 1] = mid[j]
      BY <1>2, <1>3, <2>1
    <2>3. QED BY <2>1, <2>2
  <1>7. QED BY <1>4, <1>5, <1>6

\* Replacing chunks by others that fill the same place keeps a heap a heap.
LEMMA SpliceKeepsHeap ==
    ASSUME NEW list, IsHeap(list), NEW mid,
           NEW first \in 1..Len(list), NEW last \in first..Len(list),
           Fills(list, first, last, mid),
           NEW new, IsSplice(new, list, first, last, mid)
    PROVE  IsHeap(new)
  <1> DEFINE gap == last - first + 1
             shift == gap - Len(mid)
  <1>0. /\ list \in Seq(Chunk) /\ Len(list) \in Nat
        /\ mid \in Seq(Chunk) /\ Len(mid) \in Nat \ {0}
        /\ DOMAIN list = 1..Len(list) /\ DOMAIN mid = 1..Len(mid)
    BY DEF IsHeap, Fills
  <1>1. /\ \A i \in 1..Len(list) : list[i].start \in Nat /\ list[i].size \in Nat
        /\ \A i \in 1..Len(mid) : mid[i].start \in Nat /\ mid[i].size \in Nat
    <2>1. /\ \A i \in 1..Len(list) : list[i] \in Chunk
          /\ \A i \in 1..Len(mid) : mid[i] \in Chunk
      BY <1>0
    <2>2. QED BY <2>1 DEF Chunk
  <1>2. /\ new \in Seq(Chunk)
        /\ Len(new) = Len(list) - gap + Len(mid)
        /\ \A i \in 1..Len(new) :
              new[i] = IF i < first THEN list[i]
                       ELSE IF i < first + Len(mid) THEN mid[i - first + 1]
                       ELSE list[i - Len(mid) + gap]
    BY DEF IsSplice
  <1>3. /\ Len(new) \in Nat \ {0} /\ DOMAIN new = 1..Len(new) /\ new # <<>>
    BY <1>0, <1>2
  <1>e. first \in Nat /\ last \in Nat /\ Len(mid) \in Nat /\ Len(list) \in Nat
    BY <1>0
  <1>f. /\ \A i \in 1..Len(list) : list[i].start \in Nat /\ End(list[i]) \in Nat
        /\ \A i \in 1..Len(mid) : mid[i].start \in Nat /\ End(mid[i]) \in Nat
        /\ first \in 1..Len(list) /\ last \in 1..Len(list)
    BY <1>0, <1>1 DEF End
  \* The three kinds of positions.
  <1>a. \A i \in 1..Len(new) : i < first => i \in 1..Len(list) /\ new[i] = list[i]
    BY <1>0, <1>2
  <1>b. \A i \in 1..Len(new) : first <= i /\ i < first + Len(mid) =>
           i - first + 1 \in 1..Len(mid) /\ new[i] = mid[i - first + 1]
    BY <1>0, <1>2
  <1>c. \A i \in 1..Len(new) : first + Len(mid) <= i =>
           /\ i + shift \in (last + 1)..Len(list)
           /\ new[i] = list[i + shift]
    BY <1>0, <1>2
  \* Chunks of mid lie within the place they fill.
  <1>d. \A k \in 1..Len(mid) : /\ list[first].start <= mid[k].start
                               /\ End(mid[k]) <= End(list[last])
    <2>1. \A i, j \in 1..Len(mid) : i < j => End(mid[i]) <= mid[j].start
      BY <1>0 DEF Fills, Ascending
    <2>2. mid[1].start = list[first].start /\ End(mid[Len(mid)]) = End(list[last])
      BY DEF Fills
    <2>3. TAKE k \in 1..Len(mid)
    <2>4. mid[1].start <= mid[k].start
      <3>1. 1 \in 1..Len(mid)
        BY <1>0
      <3>2. CASE k = 1
        BY <1>1, <3>1, <3>2
      <3>3. CASE 1 < k
        <4>1. End(mid[1]) <= mid[k].start
          BY <2>1, <3>1, <3>3
        <4>2. QED BY <1>1, <3>1, <4>1 DEF End
      <3>4. QED BY <3>2, <3>3
    <2>5. End(mid[k]) <= End(mid[Len(mid)])
      <3>1. Len(mid) \in 1..Len(mid)
        BY <1>0
      <3>2. CASE k = Len(mid)
        BY <1>1, <3>1, <3>2 DEF End
      <3>3. CASE k < Len(mid)
        <4>1. End(mid[k]) <= mid[Len(mid)].start
          BY <2>1, <3>1, <3>3
        <4>2. /\ End(mid[k]) \in Nat
              /\ mid[Len(mid)].start \in Nat /\ mid[Len(mid)].size \in Nat
          BY <1>1, <3>1 DEF End
        <4>3. mid[Len(mid)].start <= End(mid[Len(mid)])
          BY <4>2 DEF End
        <4>4. QED BY <4>1, <4>2, <4>3 DEF End
      <3>4. k = Len(mid) \/ k < Len(mid)
        BY <1>e
      <3>5. QED BY <3>2, <3>3, <3>4
    <2>6. QED BY <2>2, <2>4, <2>5
  <1>4. NoEmptyChunk(new)
    <2>1. /\ \A i \in 1..Len(list) : list[i].size > 0
          /\ \A i \in 1..Len(mid) : mid[i].size > 0
      BY <1>0 DEF IsHeap, Fills, NoEmptyChunk
    <2>2. ASSUME NEW i \in 1..Len(new) PROVE new[i].size > 0
      <3>1. CASE i < first
        BY <1>a, <2>1, <3>1
      <3>2. CASE first <= i /\ i < first + Len(mid)
        BY <1>b, <2>1, <3>2
      <3>3. CASE first + Len(mid) <= i
        <4>1. i + shift \in 1..Len(list) /\ new[i] = list[i + shift]
          BY <1>c, <1>e, <3>3
        <4>2. QED BY <2>1, <4>1
      <3>4. QED BY <1>e, <3>1, <3>2, <3>3
    <2>3. QED BY <1>3, <2>2 DEF NoEmptyChunk
  <1>5. Ascending(new)
    <2>1. /\ \A i, j \in 1..Len(list) : i < j => End(list[i]) <= list[j].start
          /\ \A i, j \in 1..Len(mid) : i < j => End(mid[i]) <= mid[j].start
      BY <1>0 DEF IsHeap, Fills, Ascending
    <2>2. SUFFICES ASSUME NEW i \in 1..Len(new), NEW j \in 1..Len(new), i < j
                   PROVE  End(new[i]) <= new[j].start
      BY <1>3 DEF Ascending
    <2>3. CASE j < first
      BY <1>0, <1>a, <2>1, <2>2, <2>3
    <2>4. CASE first <= j /\ j < first + Len(mid)
      <3>1. CASE i < first
        <4>1. End(list[i]) <= list[first].start
          BY <1>0, <1>a, <2>1, <3>1
        <4>2. new[j] = mid[j - first + 1] /\ j - first + 1 \in 1..Len(mid)
          BY <1>b, <2>4
        <4>3. list[first].start <= mid[j - first + 1].start
          BY <1>d, <4>2
        <4>4. new[i] = list[i] /\ i \in 1..Len(list)
          BY <1>a, <3>1
        <4>5. /\ End(list[i]) \in Nat /\ list[first].start \in Nat
              /\ mid[j - first + 1].start \in Nat
          BY <1>f, <4>2, <4>4
        <4>6. End(list[i]) <= mid[j - first + 1].start
          BY <4>1, <4>3, <4>5, SMTT(30)
        <4>7. QED BY <4>2, <4>4, <4>6, SMTT(30)
      <3>2. CASE first <= i
        <4>1. first <= i /\ i < first + Len(mid)
          BY <1>0, <2>2, <2>4, <3>2
        <4>2. new[i] = mid[i - first + 1] /\ i - first + 1 \in 1..Len(mid)
          BY <1>b, <4>1
        <4>3. new[j] = mid[j - first + 1] /\ j - first + 1 \in 1..Len(mid)
          BY <1>b, <2>4
        <4>4. i - first + 1 < j - first + 1
          BY <2>2
        <4>5. QED BY <2>1, <4>2, <4>3, <4>4
      <3>3. i < first \/ first <= i
        BY <1>e
      <3>4. QED BY <3>1, <3>2, <3>3
    <2>5. CASE first + Len(mid) <= j
      <3>1. j + shift \in (last + 1)..Len(list) /\ new[j] = list[j + shift]
        BY <1>c, <2>5
      <3>2. CASE i < first
        <4>1. i \in 1..Len(list) /\ i < j + shift /\ j + shift \in 1..Len(list)
          BY <1>0, <1>a, <3>1, <3>2
        <4>2. QED BY <1>a, <2>1, <3>1, <3>2, <4>1
      <3>3. CASE first <= i /\ i < first + Len(mid)
        <4>1. End(list[last]) <= list[j + shift].start
          BY <1>0, <2>1, <3>1
        <4>2. End(mid[i - first + 1]) <= End(list[last])
          BY <1>b, <1>d, <3>3
        <4>3. new[i] = mid[i - first + 1] /\ i - first + 1 \in 1..Len(mid)
          BY <1>b, <3>3
        <4>4. j + shift \in 1..Len(list)
          BY <1>0, <3>1
        <4>5. /\ End(mid[i - first + 1]) \in Nat /\ End(list[last]) \in Nat
              /\ list[j + shift].start \in Nat
          BY <1>f, <4>3, <4>4
        <4>6. End(mid[i - first + 1]) <= list[j + shift].start
          BY <4>1, <4>2, <4>5, Between
        <4>7. QED BY <3>1, <4>3, <4>6
      <3>4. CASE first + Len(mid) <= i
        <4>1. /\ i + shift \in 1..Len(list) /\ new[i] = list[i + shift]
              /\ i + shift < j + shift /\ j + shift \in 1..Len(list)
          BY <1>0, <1>c, <2>2, <3>1, <3>4
        <4>2. QED BY <2>1, <3>1, <4>1
      <3>5. i < first \/ (first <= i /\ i < first + Len(mid))
              \/ first + Len(mid) <= i
        BY <1>e
      <3>6. QED BY <3>2, <3>3, <3>4, <3>5
    <2>6. j < first \/ (first <= j /\ j < first + Len(mid))
            \/ first + Len(mid) <= j
      BY <1>e
    <2>7. QED BY <2>3, <2>4, <2>5, <2>6
  <1>6. Tiles(new)
    <2>1. /\ list[1].start = 0
          /\ End(list[Len(list)]) = HeapBlocks
          /\ \A i \in 1..(Len(list) - 1) : End(list[i]) = list[i + 1].start
      BY DEF IsHeap, Tiles
    <2>2. /\ mid[1].start = list[first].start
          /\ End(mid[Len(mid)]) = End(list[last])
          /\ \A i \in 1..(Len(mid) - 1) : End(mid[i]) = mid[i + 1].start
      BY DEF Fills
    <2>3. new[1].start = 0
      BY <1>0, <1>3, <1>a, <1>b, <2>1, <2>2
    <2>4. End(new[Len(new)]) = HeapBlocks
      <3>1. CASE last = Len(list)
        <4>1. Len(new) \in 1..Len(new) /\ Len(new) - first + 1 = Len(mid)
          BY <1>0, <1>2, <1>3, <3>1
        <4>2. new[Len(new)] = mid[Len(mid)]
          BY <1>0, <1>3, <1>b, <4>1
        <4>3. QED BY <2>1, <2>2, <3>1, <4>2
      <3>2. CASE last < Len(list)
        <4>1. /\ Len(new) \in 1..Len(new) /\ first + Len(mid) <= Len(new)
              /\ Len(new) + shift = Len(list)
          BY <1>0, <1>2, <1>3, <3>2
        <4>2. new[Len(new)] = list[Len(list)]
          BY <1>c, <4>1
        <4>3. QED BY <2>1, <4>2
      <3>3. last = Len(list) \/ last < Len(list)
        BY <1>e
      <3>4. QED BY <3>1, <3>2, <3>3
    <2>5. ASSUME NEW i \in 1..(Len(new) - 1)
          PROVE  End(new[i]) = new[i + 1].start
      <3>0. i \in 1..Len(new) /\ i + 1 \in 1..Len(new)
        BY <1>3
      <3>1. CASE i + 1 < first
        <4>1. i < first /\ i \in 1..(Len(list) - 1)
          BY <1>f, <1>e, <3>0, <3>1
        <4>2. new[i] = list[i] /\ new[i + 1] = list[i + 1]
          BY <1>a, <3>0, <3>1, <4>1
        <4>3. QED BY <2>1, <4>1, <4>2
      <3>2. CASE i + 1 = first
        <4>1. new[i] = list[i] /\ End(list[i]) = list[first].start
          BY <1>0, <1>a, <2>1, <3>0, <3>2
        <4>2. new[i + 1] = mid[1]
          BY <1>0, <1>b, <3>0, <3>2
        <4>3. QED BY <2>2, <4>1, <4>2
      <3>3. CASE first <= i /\ i + 1 < first + Len(mid)
        <4>1. new[i] = mid[i - first + 1] /\ new[i + 1] = mid[(i - first + 1) + 1]
          BY <1>0, <1>b, <3>0, <3>3
        <4>2. i - first + 1 \in 1..(Len(mid) - 1)
          BY <1>0, <3>3
        <4>3. QED BY <2>2, <4>1, <4>2
      <3>4. CASE first <= i /\ i + 1 = first + Len(mid)
        <4>1. new[i] = mid[Len(mid)]
          BY <1>0, <1>b, <3>0, <3>4
        <4>2. new[i + 1] = list[last + 1] /\ last \in 1..(Len(list) - 1)
          BY <1>0, <1>c, <3>0, <3>4
        <4>3. QED BY <2>1, <2>2, <4>1, <4>2
      <3>5. CASE first + Len(mid) <= i
        <4>1. new[i] = list[i + shift] /\ new[i + 1] = list[(i + shift) + 1]
          BY <1>0, <1>c, <3>0, <3>5
        <4>2. i + shift \in 1..(Len(list) - 1)
          BY <1>0, <1>c, <3>0, <3>5
        <4>3. QED BY <2>1, <4>1, <4>2
      <3>6. QED BY <3>1, <3>2, <3>3, <3>4, <3>5, <1>0
    <2>6. QED BY <1>3, <2>3, <2>4, <2>5 DEF Tiles
  <1>7. QED BY <1>2, <1>4, <1>5, <1>6 DEF IsHeap

-----------------------------------------------------------------------------
(* alloc() *)

\* What is left over is no chunk or one.
LEMMA FreePieceElements ==
    ASSUME NEW s \in Nat, NEW n \in Nat
    PROVE  /\ FreePiece(s, n) \in Seq(Chunk)
           /\ Len(FreePiece(s, n)) = IF n > 0 THEN 1 ELSE 0
           /\ n > 0 => FreePiece(s, n)[1] = FreeChunk(s, n)
  <1>1. CASE n > 0
    <2>1. FreeChunk(s, n) \in Chunk
      BY DEF FreeChunk, Chunk
    <2>2. QED BY <1>1, <2>1 DEF FreePiece
  <1>2. CASE ~(n > 0)
    BY <1>2 DEF FreePiece
  <1>3. QED BY <1>1, <1>2

\* The pieces a chunk is cut into: first of them the skipped blocks, if any,
\* then the busy ones, then the tail, if any.
LEMMA CutPieces ==
    ASSUME NEW c \in Chunk, NEW n \in Nat \ {0}, c.size >= n + Extra(c)
    PROVE  IsCut(Cut(c, n), c, n)
  <1> DEFINE x == Extra(c)
             t == c.size - (n + x)
             p == IF x > 0 THEN 1 ELSE 0
             r == IF t > 0 THEN 1 ELSE 0
             mid == Cut(c, n)
             head == FreePiece(c.start, x)
             busy == <<BusyChunk(c.start + x, n)>>
             tail == FreePiece(c.start + x + n, t)
             front == head \o busy
  <1>1. x \in Nat /\ c.start \in Nat /\ c.size \in Nat
    BY ExtraType, PageBlocksPositive DEF Chunk
  <1>2. t \in Nat /\ c.size = x + n + t
    BY <1>1
  <1>3. /\ head \in Seq(Chunk) /\ Len(head) = p
        /\ p = 1 => head[1] = FreeChunk(c.start, x)
    <2>1. /\ head \in Seq(Chunk)
          /\ Len(head) = IF x > 0 THEN 1 ELSE 0
          /\ x > 0 => head[1] = FreeChunk(c.start, x)
      BY <1>1, FreePieceElements
    <2>2. QED BY <2>1
  <1>4. /\ tail \in Seq(Chunk) /\ Len(tail) = r
        /\ r = 1 => tail[1] = FreeChunk(c.start + x + n, t)
    <2>1. c.start + x + n \in Nat
      BY <1>1
    <2>2. /\ tail \in Seq(Chunk)
          /\ Len(tail) = IF t > 0 THEN 1 ELSE 0
          /\ t > 0 => tail[1] = FreeChunk(c.start + x + n, t)
      <3> HIDE DEF x, t
      <3>1. QED BY <1>2, <2>1, FreePieceElements DEF tail
    <2>3. QED BY <2>2
  <1>5. /\ busy \in Seq(Chunk) /\ Len(busy) = 1
        /\ busy[1] = BusyChunk(c.start + x, n)
    <2>1. BusyChunk(c.start + x, n) \in Chunk
      BY <1>1 DEF BusyChunk, Chunk
    <2>2. QED BY <2>1
  <1>6. mid = front \o tail
    <2>1. mid = head \o busy \o tail
      BY DEF Cut
    <2>2. QED BY <2>1
  <1>7. p \in {0, 1} /\ r \in {0, 1}
    OBVIOUS
  <1> HIDE DEF x, t, p, r, mid, head, busy, tail
  <1>8. /\ front \in Seq(Chunk) /\ Len(front) = p + 1
        /\ front[p + 1] = BusyChunk(c.start + x, n)
        /\ p = 1 => front[1] = FreeChunk(c.start, x)
    <2>1. /\ front \in Seq(Chunk) /\ Len(front) = Len(head) + Len(busy)
          /\ \A i \in 1..Len(front) :
                front[i] = IF i <= Len(head) THEN head[i] ELSE busy[i - Len(head)]
      BY <1>3, <1>5, ConcatElements
    <2> HIDE DEF front
    <2>2. front[p + 1] = busy[1]
      BY <1>3, <1>5, <1>7, <2>1
    <2>3. p = 1 => front[1] = head[1]
      BY <1>3, <1>5, <1>7, <2>1
    <2>4. QED BY <1>3, <1>5, <2>1, <2>2, <2>3
  <1> HIDE DEF front
  <1>9. /\ front \o tail \in Seq(Chunk)
        /\ Len(front \o tail) = Len(front) + Len(tail)
        /\ \A i \in 1..Len(front \o tail) :
              (front \o tail)[i] = IF i <= Len(front) THEN front[i]
                                   ELSE tail[i - Len(front)]
    BY <1>4, <1>8, ConcatElements
  <1>10. /\ mid \in Seq(Chunk) /\ Len(mid) = p + 1 + r
         /\ \A i \in 1..Len(mid) :
               mid[i] = IF i <= p + 1 THEN front[i] ELSE tail[i - (p + 1)]
    BY <1>4, <1>6, <1>8, <1>9
  <1>11. mid[p + 1] = front[p + 1] /\ mid[1] = front[1]
    BY <1>7, <1>10
  <1>12. r = 1 => mid[p + 2] = tail[1]
    BY <1>7, <1>10
  <1>13. /\ p = 1 => mid[1] = FreeChunk(c.start, x)
         /\ r = 1 => mid[p + 2] = FreeChunk(c.start + x + n, t)
         /\ mid[p + 1] = BusyChunk(c.start + x, n)
    BY <1>4, <1>8, <1>11, <1>12
  <1>14. QED BY <1>1, <1>2, <1>10, <1>13 DEF IsCut, x, t, p, r, mid

\* The pieces fill the place of the chunk they are cut from.
LEMMA CutFills ==
    ASSUME NEW list, IsHeap(list), NEW n \in Nat \ {0},
           NEW i \in Candidates(list, n)
    PROVE  Fills(list, i, i, Cut(list[i], n))
  <1> DEFINE c == list[i]
             x == Extra(c)
             t == c.size - (n + x)
             p == IF x > 0 THEN 1 ELSE 0
             r == IF t > 0 THEN 1 ELSE 0
             mid == Cut(c, n)
  <1>1. c \in Chunk /\ c.size >= n + x
    BY DEF IsHeap, Candidates
  <1>2. /\ x \in Nat /\ t \in Nat /\ c.start \in Nat /\ c.size = x + n + t
        /\ mid \in Seq(Chunk)
        /\ Len(mid) = p + 1 + r
        /\ mid[p + 1] = BusyChunk(c.start + x, n)
        /\ p = 1 => mid[1] = FreeChunk(c.start, x)
        /\ r = 1 => mid[p + 2] = FreeChunk(c.start + x + n, t)
    <2>1. IsCut(mid, c, n)
      BY <1>1, CutPieces
    <2>2. QED BY <2>1 DEF IsCut
  <1>3. /\ p = 1 <=> x > 0
        /\ r = 1 <=> t > 0
        /\ p \in {0, 1} /\ r \in {0, 1}
    OBVIOUS
  <1> HIDE DEF c, x, t, p, r, mid
  <1>4. /\ mid[p + 1].start = c.start + x /\ mid[p + 1].size = n
        /\ p = 1 => mid[1].start = c.start /\ mid[1].size = x
        /\ r = 1 => mid[p + 2].start = c.start + x + n /\ mid[p + 2].size = t
    BY <1>2 DEF BusyChunk, FreeChunk
  <1>5. p = 0 => x = 0
    BY <1>2, <1>3
  <1>6. r = 0 => t = 0
    BY <1>2, <1>3
  <1>7. mid # <<>> /\ DOMAIN mid = 1..Len(mid) /\ Len(mid) \in 1..3
    BY <1>2, <1>3
  <1>8. mid[1].start = c.start
    BY <1>2, <1>3, <1>4, <1>5
  <1>9. End(mid[Len(mid)]) = End(c)
    <2>1. CASE r = 1
      <3>1. Len(mid) = p + 2
        BY <1>2, <1>3, <2>1
      <3>2. QED BY <1>2, <1>4, <2>1, <3>1 DEF End
    <2>2. CASE r = 0
      <3>1. Len(mid) = p + 1
        BY <1>2, <1>3, <2>2
      <3>2. QED BY <1>2, <1>4, <1>6, <2>2, <3>1 DEF End
    <2>3. QED BY <1>3, <2>1, <2>2
  <1>10. \A k \in 1..(Len(mid) - 1) : End(mid[k]) = mid[k + 1].start
    <2>1. ASSUME NEW k \in 1..(Len(mid) - 1)
          PROVE  (k = 1 /\ p = 1) \/ (k = p + 1 /\ r = 1)
      <3>1. k \in Nat /\ k >= 1 /\ k <= p + r
        BY <1>2, <1>3
      <3>2. CASE p = 0
        BY <1>3, <3>1, <3>2
      <3>3. CASE p = 1
        BY <1>3, <3>1, <3>3
      <3>4. QED BY <1>3, <3>2, <3>3
    <2>2. p = 1 => End(mid[1]) = mid[2].start
      BY <1>2, <1>4 DEF End
    <2>3. r = 1 => End(mid[p + 1]) = mid[p + 2].start
      BY <1>2, <1>3, <1>4 DEF End
    <2>4. QED BY <1>3, <2>1, <2>2, <2>3
  <1>11. NoEmptyChunk(mid)
    BY <1>2, <1>3, <1>4, <1>7, SMTT(30) DEF NoEmptyChunk
  <1>12. Ascending(mid)
    BY <1>2, <1>3, <1>4, <1>7, SMTT(30) DEF Ascending, End
  <1>13. Fills(list, i, i, mid)
    BY <1>2, <1>7, <1>8, <1>9, <1>10, <1>11, <1>12 DEF Fills, c
  <1>14. QED BY <1>13 DEF mid, c

\* alloc() turns a heap into a heap.
LEMMA AllocKeepsHeap ==
    ASSUME NEW list, IsHeap(list), NEW n \in Nat \ {0},
           NEW i \in Candidates(list, n)
    PROVE  IsHeap(AfterAlloc(list, i, n))
  <1> DEFINE mid == Cut(list[i], n)
             new == Splice(list, i, i, mid)
  <1>1. i \in 1..Len(list) /\ i \in i..Len(list) /\ list \in Seq(Chunk)
    BY DEF Candidates, IsHeap
  <1>2. Fills(list, i, i, mid) /\ mid \in Seq(Chunk)
    BY CutFills DEF Fills
  <1>3. IsSplice(new, list, i, i, mid)
    BY <1>1, <1>2, SpliceElements
  <1> HIDE DEF mid, new
  <1>4. IsHeap(new)
    BY <1>1, <1>2, <1>3, SpliceKeepsHeap
  <1>5. QED BY <1>4 DEF AfterAlloc, new, mid

Has(list, c) == \E j \in DOMAIN list : list[j] = c

\* alloc() makes one busy chunk, at the offset it returns, and leaves all
\* other busy chunks as they are.
LEMMA AllocBusyChunks ==
    ASSUME NEW list, IsHeap(list), NEW n \in Nat \ {0},
           NEW i \in Candidates(list, n),
           NEW c \in Chunk, ~c.free
    PROVE  Has(AfterAlloc(list, i, n), c) <=>
              Has(list, c) \/ c = BusyChunk(list[i].start + Extra(list[i]), n)
  <1> DEFINE b == BusyChunk(list[i].start + Extra(list[i]), n)
             mid == Cut(list[i], n)
             new == AfterAlloc(list, i, n)
  <1>1. /\ i \in 1..Len(list) /\ i \in i..Len(list) /\ list \in Seq(Chunk)
        /\ list[i] \in Chunk /\ list[i].size >= n + Extra(list[i])
        /\ list[i].free /\ DOMAIN list = 1..Len(list)
    BY DEF Candidates, IsHeap
  <1>2. IsCut(mid, list[i], n)
    BY <1>1, CutPieces
  <1>3. /\ mid \in Seq(Chunk)
        /\ \E k \in DOMAIN mid : mid[k] = b
        /\ \A k \in DOMAIN mid : mid[k] = b \/ mid[k].free
    <2> DEFINE x == Extra(list[i])
               t == list[i].size - (n + x)
               p == IF x > 0 THEN 1 ELSE 0
               r == IF t > 0 THEN 1 ELSE 0
    <2>1. /\ mid \in Seq(Chunk) /\ Len(mid) = p + 1 + r /\ mid[p + 1] = b
          /\ p = 1 => mid[1] = FreeChunk(list[i].start, x)
          /\ r = 1 => mid[p + 2] = FreeChunk(list[i].start + x + n, t)
      BY <1>2 DEF IsCut
    <2>2. p \in {0, 1} /\ r \in {0, 1} /\ DOMAIN mid = 1..Len(mid)
      BY <2>1
    <2>3. (p = 1 => mid[1].free) /\ (r = 1 => mid[p + 2].free)
      BY <2>1 DEF FreeChunk
    <2> HIDE DEF x, t, p, r, mid, b
    <2>4. p + 1 \in DOMAIN mid
      BY <2>1, <2>2
    <2>5. ASSUME NEW k \in DOMAIN mid PROVE mid[k] = b \/ mid[k].free
      <3>1. \/ k = p + 1
            \/ k = 1 /\ p = 1
            \/ k = p + 2 /\ r = 1
        BY <2>1, <2>2
      <3>2. QED BY <2>1, <2>3, <3>1
    <2>6. QED BY <2>1, <2>4, <2>5
  <1>4. IsSplice(new, list, i, i, mid)
    BY <1>1, <1>3, SpliceElements DEF AfterAlloc
  <1> HIDE DEF mid, new, b
  <1>5. /\ \A k \in DOMAIN new :
              \/ \E j \in DOMAIN list \ (i..i) : new[k] = list[j]
              \/ \E j \in DOMAIN mid : new[k] = mid[j]
        /\ \A j \in DOMAIN list \ (i..i) : \E k \in DOMAIN new : new[k] = list[j]
        /\ \A j \in DOMAIN mid : \E k \in DOMAIN new : new[k] = mid[j]
    <2>1. list \in Seq(Chunk) /\ mid \in Seq(Chunk)
          /\ i \in 1..Len(list) /\ i \in i..Len(list)
      BY <1>1, <1>3
    <2> HIDE DEF Chunk
    <2>2. QED BY <1>4, <2>1, SpliceChunks
  <1>6. ASSUME Has(new, c) PROVE Has(list, c) \/ c = b
    BY <1>3, <1>5, <1>6 DEF Has
  <1>7. ASSUME Has(list, c) PROVE Has(new, c)
    <2>1. PICK j \in DOMAIN list : list[j] = c
      BY <1>7 DEF Has
    <2>2. j # i
      BY <1>1, <2>1
    <2>3. j \in DOMAIN list \ (i..i)
      BY <1>1, <2>2
    <2>4. QED BY <1>5, <2>1, <2>3 DEF Has
  <1>8. ASSUME c = b PROVE Has(new, c)
    BY <1>3, <1>5, <1>8 DEF Has
  <1>9. QED BY <1>6, <1>7, <1>8 DEF new, b

\* alloc() leaves no two free chunks in a row.
LEMMA AllocKeepsCoalesced ==
    ASSUME NEW list, IsHeap(list), Coalesced(list), NEW n \in Nat \ {0},
           NEW i \in Candidates(list, n)
    PROVE  Coalesced(AfterAlloc(list, i, n))
  <1> DEFINE x == Extra(list[i])
             t == list[i].size - (n + x)
             p == IF x > 0 THEN 1 ELSE 0
             r == IF t > 0 THEN 1 ELSE 0
             mid == Cut(list[i], n)
             new == AfterAlloc(list, i, n)
  <1>1. /\ i \in 1..Len(list) /\ i \in i..Len(list) /\ list \in Seq(Chunk)
        /\ list[i] \in Chunk /\ list[i].size >= n + x /\ list[i].free
        /\ Len(list) \in Nat
    BY DEF Candidates, IsHeap
  <1>2. IsCut(mid, list[i], n)
    BY <1>1, CutPieces
  <1>3. /\ mid \in Seq(Chunk) /\ Len(mid) = p + 1 + r
        /\ mid[p + 1] = BusyChunk(list[i].start + x, n)
        /\ p \in {0, 1} /\ r \in {0, 1}
    BY <1>2 DEF IsCut
  <1>4. IsSplice(new, list, i, i, mid)
    BY <1>1, <1>3, SpliceElements DEF AfterAlloc
  <1>5. ~mid[p + 1].free
    BY <1>3 DEF BusyChunk
  <1> HIDE DEF x, t, p, r, mid, new
  <1>6. /\ Len(new) = Len(list) - 1 + Len(mid)
        /\ \A k \in 1..Len(new) :
              new[k] = IF k < i THEN list[k]
                       ELSE IF k < i + Len(mid) THEN mid[k - i + 1]
                       ELSE list[k - Len(mid) + 1]
    BY <1>1, <1>4 DEF IsSplice
  <1>7. Len(mid) \in 1..3 /\ Len(new) \in Nat
    BY <1>1, <1>3, <1>6
  <1>8. \A k \in 1..(Len(list) - 1) : ~(list[k].free /\ list[k + 1].free)
    BY DEF Coalesced
  <1>9. SUFFICES ASSUME NEW k \in 1..(Len(new) - 1)
                 PROVE  ~(new[k].free /\ new[k + 1].free)
    BY DEF Coalesced, new
  <1>10. k \in 1..Len(new) /\ k + 1 \in 1..Len(new)
    BY <1>7
  <1>11. CASE k + 1 < i
    <2>1. new[k] = list[k] /\ new[k + 1] = list[k + 1] /\ k \in 1..(Len(list) - 1)
      BY <1>1, <1>6, <1>10, <1>11
    <2>2. QED BY <1>8, <2>1
  <1>12. CASE k + 1 = i
    <2>1. new[k] = list[k] /\ k \in 1..(Len(list) - 1)
      BY <1>1, <1>6, <1>10, <1>12
    <2>2. ~list[k].free
      BY <1>1, <1>8, <1>12, <2>1
    <2>3. QED BY <2>1, <2>2
  <1>13. CASE i <= k /\ k + 1 < i + Len(mid)
    <2>0. /\ ~(k < i) /\ k < i + Len(mid)
          /\ ~(k + 1 < i) /\ (k + 1) - i + 1 = k - i + 2
      BY <1>1, <1>7, <1>13
    <2>a. new[k] = mid[k - i + 1]
      BY <1>6, <1>10, <2>0
    <2>b. new[k + 1] = mid[(k + 1) - i + 1]
      BY <1>6, <1>10, <1>13, <2>0
    <2>1. new[k] = mid[k - i + 1] /\ new[k + 1] = mid[k - i + 2]
      BY <2>0, <2>a, <2>b
    <2>2. k - i + 1 = p + 1 \/ k - i + 2 = p + 1
      BY <1>1, <1>3, <1>10, <1>13
    <2>3. QED BY <1>5, <2>1, <2>2
  <1>14. CASE i <= k /\ k + 1 = i + Len(mid)
    <2>c. Len(new) = Len(list) - 1 + Len(mid)
      BY <1>6
    <2>d. i \in 1..(Len(list) - 1)
      BY <1>1, <1>7, <1>14, <2>c
    <2>0. /\ ~(k + 1 < i) /\ ~(k + 1 < i + Len(mid))
          /\ (k + 1) - Len(mid) + 1 = i + 1
          /\ i \in 1..(Len(list) - 1)
      BY <1>1, <1>7, <1>14, <2>d
    <2>1. new[k + 1] = list[i + 1]
      BY <1>6, <1>10, <2>0
    <2>2. ~list[i + 1].free
      BY <1>1, <1>8, <2>0
    <2>3. QED BY <2>1, <2>2
  <1>15. CASE i + Len(mid) <= k
    <2>c. Len(new) = Len(list) - 1 + Len(mid)
      BY <1>6
    <2>d. k - Len(mid) + 1 \in 1..(Len(list) - 1)
      BY <1>1, <1>7, <1>15, <2>c
    <2>0. /\ ~(k < i) /\ ~(k < i + Len(mid))
          /\ ~(k + 1 < i) /\ ~(k + 1 < i + Len(mid))
          /\ (k + 1) - Len(mid) + 1 = (k - Len(mid) + 1) + 1
      BY <1>1, <1>7, <1>15
    <2>a. new[k] = list[k - Len(mid) + 1]
      BY <1>6, <1>10, <2>0
    <2>b. new[k + 1] = list[(k - Len(mid) + 1) + 1]
      BY <1>6, <1>10, <2>0
    <2>2. QED BY <1>8, <2>a, <2>b, <2>d
  <1>16. QED BY <1>1, <1>7, <1>11, <1>12, <1>13, <1>14, <1>15

-----------------------------------------------------------------------------
(* dealloc() *)

\* Chunks of a heap are told apart by their starts.
LEMMA StartsDiffer ==
    ASSUME NEW list, IsHeap(list), NEW i \in DOMAIN list, NEW j \in DOMAIN list,
           i # j
    PROVE  list[i].start # list[j].start
  <1>1. /\ i \in Nat /\ j \in Nat
        /\ list[i] \in Chunk /\ list[j] \in Chunk
        /\ list[i].size > 0 /\ list[j].size > 0
    BY DEF IsHeap, NoEmptyChunk
  <1>2. /\ i < j => End(list[i]) <= list[j].start
        /\ j < i => End(list[j]) <= list[i].start
    BY DEF IsHeap, Ascending
  <1>3. i < j \/ j < i
    BY <1>1
  <1>4. QED BY <1>1, <1>2, <1>3 DEF End, Chunk

\* A single chunk fills the place of those it replaces.
LEMMA OneChunkFills ==
    ASSUME NEW list, NEW first, NEW last, NEW c \in Chunk,
           c.start = list[first].start, End(c) = End(list[last]), c.size > 0
    PROVE  Fills(list, first, last, <<c>>)
  BY DEF Fills, Ascending, NoEmptyChunk

SetFree(list, k) == Splice(list, k, k, <<[list[k] EXCEPT !.free = TRUE]>>)

\* Setting a chunk free changes that chunk only.
LEMMA SetFreeElements ==
    ASSUME NEW list, IsHeap(list), NEW k \in DOMAIN list
    PROVE  /\ IsHeap(SetFree(list, k))
           /\ Len(SetFree(list, k)) = Len(list)
           /\ \A i \in 1..Len(list) :
                 SetFree(list, k)[i] = IF i = k
                                       THEN [list[k] EXCEPT !.free = TRUE]
                                       ELSE list[i]
  <1> DEFINE f == [list[k] EXCEPT !.free = TRUE]
             new == SetFree(list, k)
  <1>1. /\ list \in Seq(Chunk) /\ Len(list) \in Nat /\ k \in 1..Len(list)
        /\ k \in k..Len(list) /\ list[k] \in Chunk /\ list[k].size > 0
    BY DEF IsHeap, NoEmptyChunk
  <1>2. /\ f \in Chunk /\ f.start = list[k].start /\ f.size = list[k].size
        /\ f.free
    BY <1>1 DEF Chunk
  <1> HIDE DEF f
  <1>3. <<f>> \in Seq(Chunk) /\ Len(<<f>>) = 1 /\ <<f>>[1] = f
    BY <1>2
  <1>4. Fills(list, k, k, <<f>>)
    BY <1>1, <1>2, OneChunkFills DEF End
  <1>5. IsSplice(new, list, k, k, <<f>>)
    BY <1>1, <1>3, SpliceElements DEF SetFree, f
  <1> HIDE DEF new
  <1>6. IsHeap(new)
    BY <1>1, <1>4, <1>5, SpliceKeepsHeap
  <1>7. /\ Len(new) = Len(list)
        /\ \A i \in 1..Len(new) :
              new[i] = IF i < k THEN list[i]
                       ELSE IF i < k + 1 THEN <<f>>[i - k + 1]
                       ELSE list[i - 1 + 1]
    <2>1. (k - k) + 1 = 1
      BY <1>1
    <2>2. /\ Len(new) = Len(list) - ((k - k) + 1) + Len(<<f>>)
          /\ \A i \in 1..Len(new) :
                new[i] = IF i < k THEN list[i]
                         ELSE IF i < k + Len(<<f>>) THEN <<f>>[i - k + 1]
                         ELSE list[i - Len(<<f>>) + ((k - k) + 1)]
      BY <1>5 DEF IsSplice
    <2>3. Len(new) = Len(list)
      BY <1>1, <1>3, <2>1, <2>2
    <2>4. QED BY <1>3, <2>1, <2>2, <2>3
  <1>8. ASSUME NEW i \in 1..Len(list)
        PROVE  new[i] = IF i = k THEN f ELSE list[i]
    <2>1. CASE i < k
      BY <1>1, <1>7, <2>1
    <2>2. CASE i = k
      <3>1. i - k + 1 = 1 /\ ~(i < k) /\ i < k + 1
        BY <1>1, <2>2
      <3>2. QED BY <1>3, <1>7, <2>2, <3>1
    <2>3. CASE i > k
      <3>1. i - 1 + 1 = i /\ ~(i < k) /\ ~(i < k + 1)
        BY <1>1, <2>3
      <3>2. QED BY <1>1, <1>7, <2>3, <3>1
    <2>4. QED BY <1>1, <2>1, <2>2, <2>3
  <1>9. QED BY <1>6, <1>7, <1>8 DEF new, f

\* Absorbing the next chunk keeps a heap a heap and all chunks but those two.
LEMMA AbsorbElements ==
    ASSUME NEW list, IsHeap(list), NEW k \in 1..(Len(list) - 1)
    PROVE  /\ IsHeap(Absorb(list, k))
           /\ Len(Absorb(list, k)) = Len(list) - 1
           /\ Absorb(list, k)[k].free = list[k].free
           /\ \A i \in 1..(k - 1) : Absorb(list, k)[i] = list[i]
           /\ \A i \in (k + 1)..(Len(list) - 1) :
                 Absorb(list, k)[i] = list[i + 1]
  <1> DEFINE m == [list[k] EXCEPT !.size = @ + list[k + 1].size]
             new == Absorb(list, k)
  <1>1. /\ list \in Seq(Chunk) /\ Len(list) \in Nat /\ k \in 1..Len(list)
        /\ k + 1 \in k..Len(list) /\ k + 1 \in DOMAIN list
        /\ list[k] \in Chunk /\ list[k].size > 0
        /\ list[k + 1] \in Chunk
    BY DEF IsHeap, NoEmptyChunk
  <1>2. End(list[k]) = list[k + 1].start
    BY DEF IsHeap, Tiles
  <1>3. /\ m \in Chunk /\ m.start = list[k].start /\ m.free = list[k].free
        /\ m.size = list[k].size + list[k + 1].size
        /\ m.size > 0
    <2>1. /\ list[k].start \in Nat /\ list[k].size \in Nat
          /\ list[k].free \in BOOLEAN /\ list[k + 1].size \in Nat
      BY <1>1 DEF Chunk
    <2>2. list[k].size + list[k + 1].size \in Nat
      BY <2>1
    <2>3. /\ m.start = list[k].start /\ m.free = list[k].free
          /\ m.size = list[k].size + list[k + 1].size
      BY <1>1, SMTT(30) DEF Chunk
    <2>4. m \in Chunk
      BY <1>1, <2>2 DEF Chunk
    <2> HIDE DEF m
    <2>5. QED BY <1>1, <2>1, <2>3, <2>4
  <1>4. End(m) = End(list[k + 1])
    <2>1. /\ list[k].start \in Nat /\ list[k].size \in Nat
          /\ list[k + 1].start \in Nat /\ list[k + 1].size \in Nat
      BY <1>1 DEF Chunk
    <2> HIDE DEF m
    <2>2. QED BY <1>2, <1>3, <2>1 DEF End
  <1> HIDE DEF m
  <1>5. <<m>> \in Seq(Chunk) /\ Len(<<m>>) = 1 /\ <<m>>[1] = m
    BY <1>3
  <1>6. Fills(list, k, k + 1, <<m>>)
    BY <1>3, <1>4, OneChunkFills
  <1>7. IsSplice(new, list, k, k + 1, <<m>>)
    BY <1>1, <1>5, SpliceElements DEF Absorb, m
  <1> HIDE DEF new
  <1>8. IsHeap(new)
    BY <1>1, <1>6, <1>7, SpliceKeepsHeap
  <1>9. /\ Len(new) = Len(list) - 1
        /\ \A i \in 1..Len(new) :
              new[i] = IF i < k THEN list[i]
                       ELSE IF i < k + 1 THEN <<m>>[i - k + 1]
                       ELSE list[i - 1 + 2]
    <2>1. ((k + 1) - k) + 1 = 2
      BY <1>1
    <2>2. QED BY <1>1, <1>5, <1>7, <2>1 DEF IsSplice
  <1>10. new[k] = m
    <2>1. k \in 1..Len(new) /\ ~(k < k) /\ k < k + 1 /\ k - k + 1 = 1
      BY <1>1, <1>9
    <2>2. QED BY <1>5, <1>9, <2>1
  <1>11. ASSUME NEW i \in 1..(k - 1) PROVE new[i] = list[i]
    <2>1. i \in 1..Len(new) /\ i < k
      BY <1>1, <1>9
    <2>2. QED BY <1>9, <2>1
  <1>12. ASSUME NEW i \in (k + 1)..(Len(list) - 1) PROVE new[i] = list[i + 1]
    <2>1. i \in 1..Len(new) /\ ~(i < k) /\ ~(i < k + 1) /\ i - 1 + 2 = i + 1
      BY <1>1, <1>9
    <2>2. QED BY <1>9, <2>1
  <1>13. QED BY <1>3, <1>8, <1>9, <1>10, <1>11, <1>12 DEF new

\* No two free chunks in a row, but perhaps after those of E.
CoalescedBut(list, E) ==
    \A i \in 1..(Len(list) - 1) : i \notin E => ~(list[i].free /\ list[i + 1].free)

\* Absorbing a free chunk into a free one loses no busy chunk and makes none.
LEMMA AbsorbBusyChunks ==
    ASSUME NEW list, IsHeap(list), NEW k \in 1..(Len(list) - 1),
           list[k].free, list[k + 1].free, NEW c, ~c.free
    PROVE  Has(Absorb(list, k), c) <=> Has(list, c)
  <1> DEFINE new == Absorb(list, k)
  <1>1. /\ IsHeap(new) /\ Len(new) = Len(list) - 1 /\ new[k].free = list[k].free
        /\ \A i \in 1..(k - 1) : new[i] = list[i]
        /\ \A i \in (k + 1)..(Len(list) - 1) : new[i] = list[i + 1]
    BY AbsorbElements
  <1> HIDE DEF new
  <1>2. /\ DOMAIN list = 1..Len(list) /\ DOMAIN new = 1..Len(new)
        /\ Len(list) \in Nat
    BY <1>1 DEF IsHeap
  <1>3. ASSUME NEW i \in DOMAIN new, new[i] = c
        PROVE  \E j \in DOMAIN list : list[j] = c
    <2>1. i # k
      BY <1>1, <1>3
    <2>2. CASE i \in 1..(k - 1)
      <3>1. i \in DOMAIN list /\ list[i] = c
        BY <1>1, <1>2, <1>3, <2>2
      <3>2. QED BY <3>1
    <2>3. CASE i \in (k + 1)..(Len(list) - 1)
      <3>1. i + 1 \in DOMAIN list /\ list[i + 1] = c
        BY <1>1, <1>2, <1>3, <2>3
      <3>2. QED BY <3>1
    <2>4. QED BY <1>1, <1>2, <1>3, <2>1, <2>2, <2>3
  <1>4. ASSUME NEW j \in DOMAIN list, list[j] = c
        PROVE  \E i \in DOMAIN new : new[i] = c
    <2>1. j # k /\ j # k + 1
      BY <1>4
    <2>2. CASE j \in 1..(k - 1)
      <3>1. j \in DOMAIN new /\ new[j] = c
        BY <1>1, <1>2, <1>4, <2>2
      <3>2. QED BY <3>1
    <2>3. CASE j \in (k + 2)..Len(list)
      <3>1. j - 1 \in (k + 1)..(Len(list) - 1) /\ (j - 1) + 1 = j
        BY <1>2, <2>3
      <3>2. j - 1 \in DOMAIN new /\ new[j - 1] = c
        BY <1>1, <1>2, <1>4, <3>1
      <3>3. QED BY <3>2
    <2>4. j \in 1..(k - 1) \/ j \in (k + 2)..Len(list)
      BY <1>2, <2>1
    <2>5. QED BY <2>2, <2>3, <2>4
  <1>5. QED BY <1>3, <1>4 DEF Has, new

\* Absorbing chunk k + 1 leaves doubtful what was so before k and at k.
LEMMA AbsorbCoalesces ==
    ASSUME NEW list, IsHeap(list), NEW k \in 1..(Len(list) - 1),
           NEW E, CoalescedBut(list, E \cup {k}),
           \A i \in (k + 2)..Len(list) : i \notin E,
           NEW F, \A i \in 1..(k - 1) : i \in E => i \in F,
           k + 1 \in E => k \in F,
           list[k + 1].free, list[k].free
    PROVE  CoalescedBut(Absorb(list, k), F)
  <1> DEFINE new == Absorb(list, k)
  <1>1. /\ IsHeap(new) /\ Len(new) = Len(list) - 1 /\ new[k].free = list[k].free
        /\ \A i \in 1..(k - 1) : new[i] = list[i]
        /\ \A i \in (k + 1)..(Len(list) - 1) : new[i] = list[i + 1]
    BY AbsorbElements
  <1> HIDE DEF new
  <1>2. Len(list) \in Nat /\ k \in Nat
    BY DEF IsHeap
  <1>3. \A i \in 1..(Len(list) - 1) :
           i \notin E /\ i # k => ~(list[i].free /\ list[i + 1].free)
    BY DEF CoalescedBut
  <1>4. SUFFICES ASSUME NEW i \in 1..(Len(new) - 1),
                        i \notin F
                 PROVE  ~(new[i].free /\ new[i + 1].free)
    BY DEF CoalescedBut, new
  <1>5. CASE i + 1 < k
    <2>1. new[i] = list[i] /\ new[i + 1] = list[i + 1] /\ i \in 1..(Len(list) - 1)
      BY <1>1, <1>2, <1>5
    <2>2. i \notin E /\ i # k
      BY <1>2, <1>4, <1>5
    <2>3. QED BY <1>3, <2>1, <2>2
  <1>6. CASE i + 1 = k
    <2>1. new[i] = list[i] /\ i \in 1..(Len(list) - 1) /\ i # k /\ i < k
      BY <1>1, <1>2, <1>6
    <2>2. ~list[i].free
      BY <1>3, <1>4, <1>6, <2>1
    <2>3. QED BY <2>1, <2>2
  <1>7. CASE i = k
    <2>1. /\ new[k + 1] = list[(k + 1) + 1] /\ k + 1 \in 1..(Len(list) - 1)
          /\ k + 1 # k
      BY <1>1, <1>2, <1>7
    <2>2. ~list[(k + 1) + 1].free
      BY <1>3, <1>4, <1>7, <2>1
    <2>3. QED BY <1>7, <2>1, <2>2
  <1>8. CASE i > k
    <2>1. /\ new[i] = list[i + 1] /\ new[i + 1] = list[(i + 1) + 1]
          /\ i + 1 \in 1..(Len(list) - 1)
      BY <1>1, <1>2, <1>8
    <2>2. i + 1 # k /\ i + 1 \notin E
      BY <1>1, <1>2, <1>8
    <2>3. QED BY <1>3, <2>1, <2>2
  <1>9. QED BY <1>2, <1>5, <1>6, <1>7, <1>8

\* Merging a free chunk with a free successor.
LEMMA AbsorbNextMerges ==
    ASSUME NEW list, IsHeap(list), NEW k \in DOMAIN list, list[k].free,
           CoalescedBut(list, {k})
    PROVE  /\ IsHeap(AbsorbNext(list, k))
           /\ Coalesced(AbsorbNext(list, k))
           /\ \A c : ~c.free => (Has(AbsorbNext(list, k), c) <=> Has(list, c))
  <1>1. k \in 1..Len(list) /\ Len(list) \in Nat
    BY DEF IsHeap
  <1>2. CASE k < Len(list) /\ list[k + 1].free
    <2>1. k \in 1..(Len(list) - 1)
      BY <1>1, <1>2
    <2>2. AbsorbNext(list, k) = Absorb(list, k)
      BY <1>2 DEF AbsorbNext
    <2>3. IsHeap(Absorb(list, k))
      BY <2>1, AbsorbElements
    <2>4. \A c : ~c.free => (Has(Absorb(list, k), c) <=> Has(list, c))
      BY <1>2, <2>1, AbsorbBusyChunks
    <2>5. CoalescedBut(Absorb(list, k), {})
      <3> DEFINE none == {}
      <3>1. CoalescedBut(list, none \cup {k})
        BY DEF CoalescedBut
      <3>2. \A i : i \notin none
        OBVIOUS
      <3> HIDE DEF none
      <3>3. CoalescedBut(Absorb(list, k), none)
        BY <1>2, <2>1, <3>1, <3>2, AbsorbCoalesces
      <3>4. QED BY <3>3 DEF none
    <2>6. QED BY <2>2, <2>3, <2>4, <2>5 DEF Coalesced, CoalescedBut
  <1>3. CASE ~(k < Len(list) /\ list[k + 1].free)
    <2>1. AbsorbNext(list, k) = list
      BY <1>3 DEF AbsorbNext
    <2>2. Coalesced(list)
      BY <1>1, <1>3 DEF Coalesced, CoalescedBut
    <2>3. QED BY <2>1, <2>2
  <1>4. QED BY <1>2, <1>3

\* dealloc() turns a heap into a heap with no two free chunks in a row, and
\* takes away the freed busy chunk and no other.
LEMMA DeallocKeepsHeap ==
    ASSUME NEW list, IsHeap(list), Coalesced(list),
           NEW k \in DOMAIN list, ~list[k].free
    PROVE  /\ IsHeap(AfterDealloc(list, k))
           /\ Coalesced(AfterDealloc(list, k))
           /\ \A c : ~c.free =>
                 (Has(AfterDealloc(list, k), c) <=> Has(list, c) /\ c # list[k])
  <1> DEFINE freed == SetFree(list, k)
             f == [list[k] EXCEPT !.free = TRUE]
  <1>1. /\ k \in 1..Len(list) /\ Len(list) \in Nat /\ list[k] \in Chunk
        /\ DOMAIN list = 1..Len(list)
    BY DEF IsHeap
  <1>2. /\ IsHeap(freed) /\ Len(freed) = Len(list)
        /\ \A i \in 1..Len(list) : freed[i] = IF i = k THEN f ELSE list[i]
    BY SetFreeElements
  <1>3. f.free
    BY <1>1 DEF Chunk
  <1>4. DOMAIN freed = 1..Len(list)
    BY <1>2 DEF IsHeap
  <1>5. AfterDealloc(list, k) = IF k > 1 /\ list[k - 1].free
                                THEN AbsorbNext(Absorb(freed, k - 1), k - 1)
                                ELSE AbsorbNext(freed, k)
    BY DEF AfterDealloc, SetFree
  <1>6. \A i, j \in DOMAIN list : i # j => list[i] # list[j]
    BY StartsDiffer
  <1> HIDE DEF freed, f
  <1>7. ASSUME NEW c, ~c.free
        PROVE  Has(freed, c) <=> Has(list, c) /\ c # list[k]
    <2>1. ASSUME Has(freed, c) PROVE Has(list, c) /\ c # list[k]
      <3>1. PICK i \in 1..Len(list) : freed[i] = c
        BY <1>4, <2>1 DEF Has
      <3>2. i # k
        BY <1>2, <1>3, <1>7, <3>1
      <3>3. list[i] = c
        BY <1>2, <3>1, <3>2
      <3>4. QED BY <1>1, <1>6, <3>2, <3>3 DEF Has
    <2>2. ASSUME Has(list, c), c # list[k] PROVE Has(freed, c)
      <3>1. PICK i \in 1..Len(list) : list[i] = c
        BY <1>1, <2>2 DEF Has
      <3>2. freed[i] = c
        BY <1>2, <2>2, <3>1
      <3>3. QED BY <1>4, <3>2 DEF Has
    <2>3. QED BY <2>1, <2>2
  <1>8. \A i \in 1..(Len(list) - 1) : ~(list[i].free /\ list[i + 1].free)
    BY DEF Coalesced
  <1>9. CASE k > 1 /\ list[k - 1].free
    <2> DEFINE g == k - 1
               merged == Absorb(freed, g)
    <2>1. /\ g \in 1..(Len(freed) - 1) /\ g + 1 = k /\ g # k /\ g < k /\ g \in Nat
          /\ g \in 1..Len(list)
      BY <1>1, <1>2, <1>9
    <2>2. freed[g] = list[g] /\ list[g].free /\ freed[g + 1].free
      BY <1>1, <1>2, <1>3, <1>9, <2>1
    <2> HIDE DEF g
    <2>3. CoalescedBut(freed, {k} \cup {g})
      <3>1. SUFFICES ASSUME NEW i \in 1..(Len(freed) - 1), i # k, i # g
                     PROVE  ~(freed[i].free /\ freed[i + 1].free)
        BY DEF CoalescedBut
      <3>2. /\ i \in 1..Len(list) /\ i + 1 \in 1..Len(list) /\ i + 1 # k
            /\ i \in 1..(Len(list) - 1)
        BY <1>1, <1>2, <2>1, <3>1
      <3>3. QED BY <1>2, <1>8, <3>1, <3>2
    <2>4. /\ IsHeap(merged) /\ Len(merged) = Len(freed) - 1
          /\ merged[g].free = freed[g].free
      BY <1>2, <2>1, AbsorbElements
    <2>5. g \in DOMAIN merged /\ merged[g].free
      BY <1>1, <1>2, <2>1, <2>2, <2>4 DEF IsHeap
    <2>6. CoalescedBut(merged, {g})
      <3>1. /\ \A i \in (g + 2)..Len(freed) : i \notin {k}
            /\ \A i \in 1..(g - 1) : i \in {k} => i \in {g}
            /\ g + 1 \in {k} => g \in {g}
        BY <1>1, <2>1
      <3>2. QED BY <1>2, <2>1, <2>2, <2>3, <3>1, AbsorbCoalesces
    <2>7. \A c : ~c.free => (Has(merged, c) <=> Has(freed, c))
      BY <1>2, <2>1, <2>2, AbsorbBusyChunks
    <2> HIDE DEF merged
    <2>8. /\ IsHeap(AbsorbNext(merged, g))
          /\ Coalesced(AbsorbNext(merged, g))
          /\ \A c : ~c.free => (Has(AbsorbNext(merged, g), c) <=> Has(merged, c))
      BY <2>4, <2>5, <2>6, AbsorbNextMerges
    <2>9. AfterDealloc(list, k) = AbsorbNext(merged, g)
      BY <1>5, <1>9 DEF merged, g
    <2>10. QED BY <1>7, <2>7, <2>8, <2>9
  <1>10. CASE ~(k > 1 /\ list[k - 1].free)
    <2>1. CoalescedBut(freed, {k})
      <3>1. SUFFICES ASSUME NEW i \in 1..(Len(freed) - 1), i # k
                     PROVE  ~(freed[i].free /\ freed[i + 1].free)
        BY DEF CoalescedBut
      <3>2. /\ i \in 1..Len(list) /\ i + 1 \in 1..Len(list)
            /\ i \in 1..(Len(list) - 1) /\ (i + 1 = k => k > 1 /\ i = k - 1)
        BY <1>1, <1>2, <3>1
      <3>3. QED BY <1>2, <1>8, <1>10, <3>1, <3>2
    <2>2. k \in DOMAIN freed /\ freed[k].free
      BY <1>1, <1>2, <1>3, <1>4
    <2>3. /\ IsHeap(AbsorbNext(freed, k))
          /\ Coalesced(AbsorbNext(freed, k))
          /\ \A c : ~c.free => (Has(AbsorbNext(freed, k), c) <=> Has(freed, c))
      BY <1>2, <2>1, <2>2, AbsorbNextMerges
    <2>4. AfterDealloc(list, k) = AbsorbNext(freed, k)
      BY <1>5, <1>10
    <2>5. QED BY <1>7, <2>3, <2>4
  <1>11. QED BY <1>9, <1>10

-----------------------------------------------------------------------------
(***************************************************************************)
(* The calls of the allocator.                                             *)
(***************************************************************************)

\* Who owns what is stable under the steps of the calls.
Ownership ==
    /\ \A b \in Buffers : stage[b] \in Carved => Has(mList, Blocks(b))
    /\ \A c : ~c.free /\ Has(mList, c) =>
          \E b \in Buffers : stage[b] \in Carved /\ c = Blocks(b)
    /\ \A a, b \in Buffers :
          a # b /\ stage[a] \in Carved /\ stage[b] \in Carved =>
             offset[a] # offset[b]

CallsUnderway ==
    /\ master_fd = "init" => mList = <<>>
    /\ \A b \in Buffers : stage[b] # "none" =>
          master_fd = "open" /\ size[b] \in Sizes
    /\ \A b \in Buffers : stage[b] \in Carved => offset[b] % kMemoryAlign = 0

HeapInv == mList # <<>> => IsHeap(mList) /\ Coalesced(mList)

IInv == /\ TypeOK
        /\ master_fd = "open" => mList # <<>>
        /\ HeapInv
        /\ CallsUnderway
        /\ Ownership

-----------------------------------------------------------------------------

\* The list setSize() makes is a heap.
LEMMA FreshHeap == /\ FreshList \in Seq(Chunk)
                   /\ FreshList # <<>>
                   /\ IsHeap(FreshList)
                   /\ Coalesced(FreshList)
                   /\ \A c : ~c.free => ~Has(FreshList, c)
  <1>1. /\ FreshList = <<FreeChunk(0, HeapBlocks)>>
        /\ FreeChunk(0, HeapBlocks) \in Chunk
        /\ FreeChunk(0, HeapBlocks).start = 0
        /\ FreeChunk(0, HeapBlocks).size = HeapBlocks
        /\ FreeChunk(0, HeapBlocks).free
    BY HeapBlocksPositive DEF FreshList, FreeChunk, Chunk
  <1>2. /\ FreshList \in Seq(Chunk) /\ Len(FreshList) = 1
        /\ FreshList[1] = FreeChunk(0, HeapBlocks)
        /\ FreshList # <<>> /\ DOMAIN FreshList = 1..1
    BY <1>1
  <1>3. IsHeap(FreshList)
    BY <1>1, <1>2, HeapBlocksPositive
       DEF IsHeap, Tiles, Ascending, NoEmptyChunk, End
  <1>4. Coalesced(FreshList)
    BY <1>2 DEF Coalesced
  <1>5. \A c : ~c.free => ~Has(FreshList, c)
    BY <1>1, <1>2 DEF Has
  <1>6. QED BY <1>2, <1>3, <1>4, <1>5

\* The invariant holds at the start.
LEMMA InitIInv == Init => IInv
  <1>1. SUFFICES ASSUME Init PROVE IInv
    OBVIOUS
  <1>2. TypeOK
    BY <1>1 DEF Init, TypeOK, Stages
  <1>3. \A b \in Buffers : stage[b] \notin Carved /\ stage[b] = "none"
    BY <1>1 DEF Init, Carved
  <1>4. \A c : ~Has(mList, c)
    BY <1>1 DEF Init, Has
  <1>5. QED BY <1>1, <1>2, <1>3, <1>4
               DEF Init, IInv, HeapInv, CallsUnderway, Ownership

\* A step that neither touches the list nor begins or ends the ownership of
\* any memory keeps the owners.
LEMMA OwnershipUnaffected ==
    ASSUME Ownership, mList' = mList,
           \A b \in Buffers : stage'[b] \in Carved <=> stage[b] \in Carved,
           \A b \in Buffers : stage[b] \in Carved =>
              size'[b] = size[b] /\ offset'[b] = offset[b]
    PROVE  Ownership'
  <1>1. \A b \in Buffers : stage[b] \in Carved => Blocks(b)' = Blocks(b)
    BY DEF Blocks
  <1>2. Carved' = Carved
    BY DEF Carved
  <1>3. \A b \in Buffers : stage'[b] \in Carved => Has(mList, Blocks(b)')
    BY <1>1 DEF Ownership
  <1>4. \A c : ~c.free /\ Has(mList, c) =>
           \E b \in Buffers : stage'[b] \in Carved /\ c = Blocks(b)'
    BY <1>1 DEF Ownership
  <1>5. \A a, b \in Buffers :
           a # b /\ stage'[a] \in Carved /\ stage'[b] \in Carved =>
              offset'[a] # offset'[b]
    BY DEF Ownership
  <1>6. \A c : Has(mList, c)' <=> Has(mList, c)
    BY DEF Has
  <1>7. QED BY <1>2, <1>3, <1>4, <1>5, <1>6 DEF Ownership

\* init_pmem_area keeps the invariant.
LEMMA InitPmemAreaStep ==
    ASSUME IInv, NEW b \in Buffers, InitPmemArea(b) PROVE IInv'
  <1>1. PICK n \in Sizes : size' = [size EXCEPT ![b] = n]
    BY DEF InitPmemArea
  <1>2. /\ stage[b] = "none" /\ offset' = offset
        /\ stage' \in {stage, [stage EXCEPT ![b] = "inited"]}
        /\ stage \in [Buffers -> Stages] /\ size \in [Buffers -> Sizes \cup {0}]
    BY DEF InitPmemArea, FirstInit, LaterInit, IInv, TypeOK
  <1>3. /\ stage'[b] \in {"none", "inited"}
        /\ \A c \in Buffers : c # b => stage'[c] = stage[c] /\ size'[c] = size[c]
        /\ size'[b] \in Sizes
        /\ stage' \in [Buffers -> Stages] /\ size' \in [Buffers -> Sizes \cup {0}]
    BY <1>1, <1>2 DEF Stages
  <1>4. \A c \in Buffers : /\ stage'[c] \in Carved <=> stage[c] \in Carved
                           /\ stage[c] \in Carved => size'[c] = size[c]
    BY <1>2, <1>3 DEF Carved
  <1>5. CASE FirstInit(b)
    <2>1. master_fd = "init" /\ mList = <<>> /\ master_fd' \in {"open", "error"}
      BY <1>5 DEF FirstInit, IInv, CallsUnderway
    <2>2. \A c \in Buffers : stage[c] = "none"
      BY <2>1 DEF IInv, CallsUnderway
    <2>3. \A c \in Buffers : stage'[c] \notin Carved
      BY <1>4, <2>2 DEF Carved
    <2>4. \/ mList' = FreshList
          \/ mList' = <<>> /\ master_fd' = "error"
      BY <1>5, <2>1 DEF FirstInit
    <2>5. /\ mList' \in Seq(Chunk)
          /\ mList' # <<>> => IsHeap(mList') /\ Coalesced(mList')
          /\ \A c : ~c.free => ~Has(mList', c)
          /\ master_fd' = "open" => mList' # <<>>
      <3>1. CASE mList' = FreshList
        BY <3>1, FreshHeap
      <3>2. CASE mList' = <<>> /\ master_fd' = "error"
        BY <3>2 DEF Has
      <3>3. QED BY <2>4, <3>1, <3>2
    <2>6. \A c \in Buffers : stage'[c] # "none" => c = b /\ master_fd' = "open"
      BY <1>3, <1>5, <2>2 DEF FirstInit
    <2>7. TypeOK'
      BY <1>2, <1>3, <2>1, <2>5 DEF IInv, TypeOK
    <2>8. CallsUnderway'
      BY <1>3, <2>1, <2>3, <2>6 DEF CallsUnderway, Carved
    <2>9. Ownership'
      BY <2>3, <2>5 DEF Ownership, Has, Carved
    <2>10. HeapInv'
      BY <2>5 DEF HeapInv, IsHeap, Coalesced, Tiles, Ascending, NoEmptyChunk
    <2>11. QED BY <2>5, <2>7, <2>8, <2>9, <2>10 DEF IInv
  <1>6. CASE LaterInit(b)
    <2>1. /\ master_fd # "init" /\ master_fd' = master_fd /\ mList' = mList
          /\ stage'[b] # "none" => master_fd = "open"
      BY <1>2, <1>6 DEF LaterInit
    <2>2. TypeOK'
      BY <1>2, <1>3, <2>1 DEF IInv, TypeOK
    <2>3. CallsUnderway'
      BY <1>2, <1>3, <1>4, <2>1 DEF IInv, CallsUnderway, Carved
    <2>4. Ownership'
      BY <1>2, <1>4, <2>1, OwnershipUnaffected DEF IInv
    <2>5. HeapInv'
      BY <2>1 DEF IInv, HeapInv, IsHeap, Coalesced, Tiles, Ascending,
                  NoEmptyChunk
    <2>6. QED BY <2>1, <2>2, <2>3, <2>4, <2>5 DEF IInv
  <1>7. QED BY <1>5, <1>6 DEF InitPmemArea

\* A step of one call that moves on without touching the list keeps the
\* invariant.
LEMMA StageStep ==
    ASSUME IInv, NEW b \in Buffers, NEW s \in Stages,
           stage[b] # "none", stage[b] \in Carved <=> s \in Carved,
           stage' = [stage EXCEPT ![b] = s],
           UNCHANGED <<master_fd, mList, size, offset>>
    PROVE  IInv'
  <1>1. \A c \in Buffers : stage'[c] = IF c = b THEN s ELSE stage[c]
    BY DEF IInv, TypeOK
  <1>2. TypeOK'
    BY DEF IInv, TypeOK
  <1>3. \A c \in Buffers : stage'[c] \in Carved <=> stage[c] \in Carved
    BY <1>1
  <1>4. CallsUnderway'
    BY <1>1, <1>3 DEF IInv, CallsUnderway, Carved
  <1>5. Ownership'
    BY <1>3, OwnershipUnaffected DEF IInv
  <1>6. HeapInv'
    BY DEF IInv, HeapInv, IsHeap, Coalesced, Tiles, Ascending, NoEmptyChunk
  <1>7. QED BY <1>2, <1>4, <1>5, <1>6 DEF IInv

\* A successful allocate() keeps the invariant.
LEMMA AllocateStep ==
    ASSUME IInv, NEW b \in Buffers, Allocate(b) PROVE IInv'
  <1> DEFINE n == BlocksOf(size[b])
  <1>1. /\ stage[b] = "inited" /\ size[b] \in Nat \ {0}
        /\ master_fd = "open" /\ mList # <<>>
        /\ IsHeap(mList) /\ Coalesced(mList)
    BY SizesAssumption DEF Allocate, IInv, CallsUnderway, HeapInv
  <1>2. PICK i \in DOMAIN mList :
           /\ IsBestFit(mList, n, i)
           /\ offset' = [offset EXCEPT ![b] = OffsetOf(mList, i)]
           /\ mList' = AfterAlloc(mList, i, n)
    BY DEF Allocate
  <1>3. n \in Nat \ {0} /\ i \in Candidates(mList, n)
    BY <1>1, <1>2, BlocksOfPositive DEF IsBestFit
  <1>4. UNCHANGED <<master_fd, size>> /\ stage' = [stage EXCEPT ![b] = "carved"]
    BY DEF Allocate
  <1> HIDE DEF n
  <1> DEFINE first == mList[i].start + Extra(mList[i])
  <1>5. /\ mList[i] \in Chunk /\ mList[i].start \in Nat
        /\ Extra(mList[i]) \in Nat
    <2>1. mList[i] \in Chunk
      BY <1>1 DEF IsHeap
    <2>2. Extra(mList[i]) \in 0..(PageBlocks - 1)
      BY <2>1, ExtraType
    <2>3. QED BY <2>1, <2>2, PageBlocksPositive DEF Chunk
  <1>6. first \in Nat
    BY <1>5
  <1>7. OffsetOf(mList, i) = first * kMemoryAlign
    BY DEF OffsetOf
  <1> HIDE DEF first
  <1>8. /\ offset'[b] = first * kMemoryAlign
        /\ offset'[b] \in Nat /\ offset'[b] % kMemoryAlign = 0
        /\ offset'[b] \div kMemoryAlign = first
        /\ offset' \in [Buffers -> Nat]
        /\ \A c \in Buffers : c # b => offset'[c] = offset[c]
    BY <1>2, <1>6, <1>7 DEF IInv, TypeOK, kMemoryAlign
  <1>9. /\ stage'[b] = "carved" /\ stage' \in [Buffers -> Stages]
        /\ \A c \in Buffers : c # b => stage'[c] = stage[c]
    BY <1>4 DEF IInv, TypeOK, Stages
  <1>10. /\ IsHeap(mList') /\ Coalesced(mList')
         /\ mList' \in Seq(Chunk) /\ mList' # <<>>
    <2>1. IsHeap(mList')
      BY <1>1, <1>2, <1>3, AllocKeepsHeap
    <2>2. Coalesced(mList')
      BY <1>1, <1>2, <1>3, AllocKeepsCoalesced
    <2>3. QED BY <2>1, <2>2 DEF IsHeap, Tiles
  <1>11. Blocks(b)' = BusyChunk(first, n)
    BY <1>4, <1>8 DEF Blocks, BusyChunk, n
  <1>12. \A c \in Buffers : c # b => Blocks(c)' = Blocks(c)
    BY <1>4, <1>8 DEF Blocks
  <1>13. \A c \in Chunk : ~c.free =>
            (Has(mList', c) <=> Has(mList, c) \/ c = BusyChunk(first, n))
    BY <1>1, <1>2, <1>3, AllocBusyChunks DEF first
  <1>14. BusyChunk(first, n) \in Chunk /\ ~BusyChunk(first, n).free
    BY <1>3, <1>6 DEF BusyChunk, Chunk
  <1>15. /\ \A c : Has(mList', c) => c \in Chunk
         /\ \A c : Has(mList, c) => c \in Chunk
    BY <1>1, <1>10 DEF Has, IsHeap
  \* The new busy chunk is nobody else's: it was free.
  <1>16. \A c \in Buffers : stage[c] \in Carved /\ c # b =>
            offset[c] # offset'[b]
    <2>1. SUFFICES ASSUME NEW c \in Buffers, stage[c] \in Carved, c # b,
                          offset[c] = offset'[b]
                   PROVE  FALSE
      OBVIOUS
    <2>2. Blocks(c).start = first /\ ~Blocks(c).free /\ Has(mList, Blocks(c))
      BY <1>8, <2>1 DEF Blocks, IInv, Ownership
    <2>3. PICK j \in DOMAIN mList : mList[j] = Blocks(c)
      BY <2>2 DEF Has
    <2>4. j # i
      BY <1>3, <2>2, <2>3 DEF Candidates
    <2>5. /\ j \in Nat /\ i \in Nat /\ mList[j] \in Chunk
          /\ mList[i].size > 0 /\ mList[j].size > 0
          /\ mList[i].size >= n + Extra(mList[i])
      BY <1>1, <1>3, <2>3 DEF IsHeap, NoEmptyChunk, Candidates
    <2>6. /\ j < i => End(mList[j]) <= mList[i].start
          /\ i < j => End(mList[i]) <= mList[j].start
      BY <1>1, <2>3 DEF IsHeap, Ascending
    <2>7. mList[j].start = mList[i].start + Extra(mList[i])
      BY <2>2, <2>3 DEF first
    <2>8. QED BY <1>3, <1>5, <2>4, <2>5, <2>6, <2>7 DEF End, Chunk
  <1>17. TypeOK'
    BY <1>4, <1>8, <1>9, <1>10 DEF IInv, TypeOK
  <1>18. CallsUnderway'
    BY <1>1, <1>4, <1>8, <1>9 DEF IInv, CallsUnderway, Carved
  <1>19. Ownership'
    <2>1. \A c \in Buffers : stage'[c] \in Carved <=> c = b \/ stage[c] \in Carved
      BY <1>9 DEF Carved
    <2>2. \A c \in Buffers : stage'[c] \in Carved => Has(mList', Blocks(c)')
      <3>1. Has(mList', Blocks(b)')
        BY <1>11, <1>13, <1>14
      <3>2. ASSUME NEW c \in Buffers, c # b, stage'[c] \in Carved
            PROVE  Has(mList', Blocks(c)')
        <4>1. Has(mList, Blocks(c)) /\ ~Blocks(c).free
          BY <2>1, <3>2 DEF IInv, Ownership, Blocks
        <4>2. QED BY <1>12, <1>13, <1>15, <3>2, <4>1
      <3>3. QED BY <3>1, <3>2
    <2>3. ASSUME NEW c, ~c.free, Has(mList', c)
          PROVE  \E d \in Buffers : stage'[d] \in Carved /\ c = Blocks(d)'
      <3>1. CASE c = BusyChunk(first, n)
        BY <1>11, <2>1, <3>1
      <3>2. CASE c # BusyChunk(first, n)
        <4>1. Has(mList, c)
          BY <1>13, <1>15, <2>3, <3>2
        <4>2. PICK d \in Buffers : stage[d] \in Carved /\ c = Blocks(d)
          BY <2>3, <4>1 DEF IInv, Ownership
        <4>3. d # b
          BY <1>1, <4>2 DEF Carved
        <4>4. QED BY <1>12, <2>1, <4>2, <4>3
      <3>3. QED BY <3>1, <3>2
    <2>4. \A c, d \in Buffers :
             c # d /\ stage'[c] \in Carved /\ stage'[d] \in Carved =>
                offset'[c] # offset'[d]
      BY <1>8, <1>16, <2>1 DEF IInv, Ownership
    <2>5. QED BY <2>2, <2>3, <2>4 DEF Ownership, Carved, Has
  <1>20. HeapInv'
    BY <1>10 DEF HeapInv, IsHeap, Coalesced, Tiles, Ascending, NoEmptyChunk
  <1>21. QED BY <1>10, <1>17, <1>18, <1>19, <1>20 DEF IInv

\* Giving memory back keeps the invariant.
LEMMA DeallocateStep ==
    ASSUME IInv, NEW b \in Buffers, stage[b] \in Carved, Deallocate(b)
    PROVE  IInv'
  <1>1. /\ master_fd = "open" /\ mList # <<>>
        /\ IsHeap(mList) /\ Coalesced(mList)
        /\ offset \in [Buffers -> Nat]
    BY DEF IInv, CallsUnderway, HeapInv, Carved, TypeOK
  <1>2. PICK k \in DOMAIN mList : /\ IsFirstAt(mList, offset[b], k)
                                  /\ mList' = AfterDealloc(mList, k)
    BY DEF Deallocate
  <1>3. /\ UNCHANGED <<master_fd, size, offset>>
        /\ stage' = [stage EXCEPT ![b] = "none"]
    BY DEF Deallocate
  <1>4. mList[k] = Blocks(b)
    <2>1. PICK j \in DOMAIN mList : mList[j] = Blocks(b)
      BY DEF IInv, Ownership, Has
    <2>2. mList[j].start = mList[k].start
      BY <1>2, <2>1 DEF IsFirstAt, Blocks
    <2>3. j = k
      BY <1>1, <2>2, StartsDiffer
    <2>4. QED BY <2>1, <2>3
  <1>5. ~mList[k].free
    BY <1>4 DEF Blocks
  <1>6. /\ IsHeap(mList') /\ Coalesced(mList')
        /\ \A c : ~c.free => (Has(mList', c) <=> Has(mList, c) /\ c # Blocks(b))
    BY <1>1, <1>2, <1>4, <1>5, DeallocKeepsHeap
  <1>7. mList' \in Seq(Chunk) /\ mList' # <<>>
    BY <1>6 DEF IsHeap, Tiles
  <1>8. /\ stage'[b] = "none" /\ stage' \in [Buffers -> Stages]
        /\ \A c \in Buffers : c # b => stage'[c] = stage[c]
    BY <1>3 DEF IInv, TypeOK, Stages
  <1>9. \A c \in Buffers : stage'[c] \in Carved <=> c # b /\ stage[c] \in Carved
    BY <1>8 DEF Carved
  <1>10. \A c \in Buffers : Blocks(c)' = Blocks(c)
    BY <1>3 DEF Blocks
  <1>11. \A c \in Buffers : c # b /\ stage[c] \in Carved =>
            Blocks(c) # Blocks(b)
    <2>1. SUFFICES ASSUME NEW c \in Buffers, c # b, stage[c] \in Carved
                   PROVE  Blocks(c).start # Blocks(b).start
      OBVIOUS
    <2>2. /\ offset[c] # offset[b] /\ offset[c] \in Nat /\ offset[b] \in Nat
          /\ offset[c] % kMemoryAlign = 0 /\ offset[b] % kMemoryAlign = 0
      BY <1>1, <2>1 DEF IInv, Ownership, CallsUnderway
    <2>3. QED BY <2>2 DEF Blocks, kMemoryAlign
  <1>12. TypeOK'
    BY <1>3, <1>7, <1>8 DEF IInv, TypeOK
  <1>13. CallsUnderway'
    BY <1>1, <1>3, <1>8, <1>9 DEF IInv, CallsUnderway, Carved
  <1>14. Ownership'
    <2>1. ASSUME NEW c \in Buffers, stage'[c] \in Carved
          PROVE  Has(mList', Blocks(c)')
      <3>1. c # b /\ stage[c] \in Carved
        BY <1>9, <2>1
      <3>2. Has(mList, Blocks(c)) /\ ~Blocks(c).free
        BY <3>1 DEF IInv, Ownership, Blocks
      <3>3. QED BY <1>6, <1>10, <1>11, <3>1, <3>2
    <2>2. ASSUME NEW c, ~c.free, Has(mList', c)
          PROVE  \E d \in Buffers : stage'[d] \in Carved /\ c = Blocks(d)'
      <3>1. Has(mList, c) /\ c # Blocks(b)
        BY <1>6, <2>2
      <3>2. PICK d \in Buffers : stage[d] \in Carved /\ c = Blocks(d)
        BY <2>2, <3>1 DEF IInv, Ownership
      <3>3. d # b
        BY <3>1, <3>2
      <3>4. QED BY <1>9, <1>10, <3>2, <3>3
    <2>3. \A c, d \in Buffers :
             c # d /\ stage'[c] \in Carved /\ stage'[d] \in Carved =>
                offset'[c] # offset'[d]
      BY <1>3, <1>9 DEF IInv, Ownership
    <2>4. QED BY <2>1, <2>2, <2>3 DEF Ownership, Carved, Has
  <1>15. HeapInv'
    BY <1>6 DEF HeapInv, IsHeap, Coalesced, Tiles, Ascending, NoEmptyChunk
  <1>16. QED BY <1>7, <1>12, <1>13, <1>14, <1>15 DEF IInv

\* Every step keeps the invariant.
LEMMA NextIInv == IInv /\ [Next]_vars => IInv'
  <1>1. SUFFICES ASSUME IInv, [Next]_vars PROVE IInv'
    OBVIOUS
  <1>2. ASSUME NEW b \in Buffers, InitPmemArea(b) PROVE IInv'
    BY <1>1, <1>2, InitPmemAreaStep
  <1>3. ASSUME NEW b \in Buffers, Allocate(b) PROVE IInv'
    BY <1>1, <1>3, AllocateStep
  <1>4. ASSUME NEW b \in Buffers, NoMorePmem(b) PROVE IInv'
    <2>1. /\ stage[b] = "inited" /\ stage' = [stage EXCEPT ![b] = "none"]
          /\ UNCHANGED <<master_fd, mList, size, offset>> /\ "none" \in Stages
          /\ stage[b] # "none" /\ (stage[b] \in Carved <=> "none" \in Carved)
      BY <1>4 DEF NoMorePmem, Carved, Stages
    <2>2. QED BY <1>1, <2>1, StageStep
  <1>5. ASSUME NEW b \in Buffers, MakeSubHeap(b) PROVE IInv'
    <2>1. PICK s \in {"live", "undo"} : stage' = [stage EXCEPT ![b] = s]
      BY <1>5 DEF MakeSubHeap
    <2>2. /\ s \in Stages /\ s \in Carved /\ stage[b] \in Carved
          /\ stage[b] # "none" /\ UNCHANGED <<master_fd, mList, size, offset>>
      BY <1>5 DEF MakeSubHeap, Stages, Carved
    <2>3. QED BY <1>1, <2>1, <2>2, StageStep
  <1>6. ASSUME NEW b \in Buffers, UndoAllocate(b) PROVE IInv'
    BY <1>1, <1>6, DeallocateStep DEF UndoAllocate, Carved
  <1>7. ASSUME NEW b \in Buffers, UnmapSubHeap(b) PROVE IInv'
    <2>1. PICK s \in {"unmapped", "leaked"} : stage' = [stage EXCEPT ![b] = s]
      BY <1>7 DEF UnmapSubHeap
    <2>2. /\ s \in Stages /\ s \in Carved /\ stage[b] \in Carved
          /\ stage[b] # "none" /\ UNCHANGED <<master_fd, mList, size, offset>>
      BY <1>7 DEF UnmapSubHeap, Stages, Carved
    <2>3. QED BY <1>1, <2>1, <2>2, StageStep
  <1>8. ASSUME NEW b \in Buffers, FreeOffset(b) PROVE IInv'
    BY <1>1, <1>8, DeallocateStep DEF FreeOffset, Carved
  <1>9. CASE UNCHANGED vars
    BY <1>1, <1>9 DEF vars, IInv, TypeOK, HeapInv, CallsUnderway, Ownership,
       IsHeap, Coalesced, Tiles, Ascending, NoEmptyChunk, Carved, Has, Blocks
  <1>10. QED BY <1>1, <1>2, <1>3, <1>4, <1>5, <1>6, <1>7, <1>8, <1>9 DEF Next

\* The invariant holds in every behaviour.
THEOREM Invariance == Spec => []IInv
  BY InitIInv, NextIInv, PTL DEF Spec

-----------------------------------------------------------------------------
(* The properties the runs check *)

\* The variables keep their types.
THEOREM TypeCorrect == Spec => []TypeOK
  <1>1. IInv => TypeOK BY DEF IInv
  <1>2. QED BY <1>1, Invariance, PTL

\* The chunks always partition the heap, whatever the requests.
THEOREM HeapAlwaysTiled == Spec => []HeapIsTiled
  <1>1. IInv => HeapIsTiled BY DEF IInv, HeapInv, IsHeap, HeapIsTiled
  <1>2. QED BY <1>1, Invariance, PTL

\* Freed memory is always merged with its free neighbours.
THEOREM NeverFragmented == Spec => []NoFragments
  <1>1. IInv => NoFragments
    BY DEF IInv, HeapInv, NoFragments, Coalesced
  <1>2. QED BY <1>1, Invariance, PTL

\* The chunk list is always a fully merged partition of the heap.
THEOREM HeapAlwaysSound == Spec => []HeapIsSound
  BY HeapAlwaysTiled, NeverFragmented, PTL DEF HeapIsSound

\* Exactly the buffers with memory have a busy chunk, each its own.
THEOREM BusyChunksAlwaysOwned == Spec => []BusyChunksOwned
  <1>1. IInv => BusyChunksOwned
    BY DEF IInv, Ownership, BusyChunksOwned, Has
  <1>2. QED BY <1>1, Invariance, PTL

\* Two buffers with memory have theirs apart.
LEMMA CarvedApart ==
    ASSUME IInv, NEW a \in Buffers, NEW b \in Buffers, a # b,
           stage[a] \in Carved, stage[b] \in Carved
    PROVE  \/ End(Blocks(a)) <= Blocks(b).start
           \/ End(Blocks(b)) <= Blocks(a).start
  <1>1. PICK i \in DOMAIN mList : mList[i] = Blocks(a)
    BY DEF IInv, Ownership, Has
  <1>2. PICK j \in DOMAIN mList : mList[j] = Blocks(b)
    BY DEF IInv, Ownership, Has
  <1>3. mList # <<>> /\ IsHeap(mList)
    BY DEF IInv, CallsUnderway, HeapInv, Carved
  <1>4. Blocks(a).start # Blocks(b).start
    <2>1. /\ offset[a] # offset[b] /\ offset[a] \in Nat /\ offset[b] \in Nat
          /\ offset[a] % kMemoryAlign = 0 /\ offset[b] % kMemoryAlign = 0
      BY DEF IInv, Ownership, CallsUnderway, TypeOK
    <2>2. QED BY <2>1 DEF Blocks, kMemoryAlign
  <1>5. i # j /\ i \in Nat /\ j \in Nat
    BY <1>1, <1>2, <1>3, <1>4 DEF IsHeap
  <1>6. QED BY <1>1, <1>2, <1>3, <1>5 DEF IsHeap, Ascending

\* A client's mapping never reaches another buffer's memory.
THEOREM NeverForeignSurface == Spec => []NoForeignSurface
  <1>1. IInv => NoForeignSurface
    BY CarvedApart DEF NoForeignSurface, Mapped, Carved
  <1>2. QED BY <1>1, Invariance, PTL

-----------------------------------------------------------------------------

\* Quotient and remainder.
LEMMA Division ==
    ASSUME NEW x \in Nat, NEW p \in Nat \ {0}
    PROVE  /\ x \div p \in Int /\ x % p \in Nat /\ x % p < p
           /\ x = p * (x \div p) + (x % p)
  OBVIOUS

\* A multiple of p beyond a multiple of p is at least p beyond it.
LEMMA NextMultiple ==
    ASSUME NEW p \in Nat \ {0}, NEW i \in Int, NEW j \in Int, p * i < p * j
    PROVE  p * i + p <= p * j
  OBVIOUS

LEMMA MultipleIsMultiple ==
    ASSUME NEW p \in Nat \ {0}, NEW i \in Int, p * i \in Nat
    PROVE  (p * i) % p = 0
  OBVIOUS

\* What alignment skips leads to the first page boundary of the chunk.
LEMMA FirstBoundary ==
    ASSUME NEW c \in Chunk
    PROVE  /\ (c.start + Extra(c)) % PageBlocks = 0
           /\ \A s \in Nat : c.start <= s /\ s % PageBlocks = 0
                                => c.start + Extra(c) <= s
  <1> DEFINE q == c.start \div PageBlocks
             r == c.start % PageBlocks
  <1>1. PageBlocks \in Nat \ {0} /\ c.start \in Nat
    BY PageBlocksPositive DEF Chunk
  <1>2. /\ q \in Int /\ r \in Nat /\ r < PageBlocks
        /\ c.start = PageBlocks * q + r
    BY <1>1, Division
  <1>3. Extra(c) = IF r = 0 THEN 0 ELSE PageBlocks - r
    <2>1. Extra(c) = (PageBlocks - r) % PageBlocks
      BY DEF Extra
    <2> HIDE DEF r
    <2>2. r = 0 => (PageBlocks - r) % PageBlocks = 0
      BY <1>1
    <2>3. r # 0 => (PageBlocks - r) % PageBlocks = PageBlocks - r
      BY <1>1, <1>2
    <2>4. QED BY <2>1, <2>2, <2>3
  <1> HIDE DEF q, r
  <1>4. PageBlocks * (q + 1) = PageBlocks * q + PageBlocks
    BY <1>1, <1>2
  <1>5. (c.start + Extra(c)) % PageBlocks = 0
    <2>1. CASE r = 0
      BY <1>1, <1>2, <1>3, <2>1, MultipleIsMultiple
    <2>2. CASE r # 0
      <3>1. c.start + Extra(c) = PageBlocks * (q + 1)
        BY <1>1, <1>2, <1>3, <1>4, <2>2
      <3>2. PageBlocks * (q + 1) \in Nat /\ q + 1 \in Int
        BY <1>1, <1>2, <1>4
      <3>3. QED BY <1>1, <3>1, <3>2, MultipleIsMultiple
    <2>3. QED BY <2>1, <2>2
  <1>6. ASSUME NEW s \in Nat, c.start <= s, s % PageBlocks = 0
        PROVE  c.start + Extra(c) <= s
    <2> DEFINE t == s \div PageBlocks
    <2>1. t \in Int /\ s = PageBlocks * t
      BY <1>1, <1>6, Division
    <2> HIDE DEF t
    <2>2. CASE r = 0
      BY <1>1, <1>3, <1>6, <2>2
    <2>3. CASE r # 0
      <3>1. PageBlocks * q < PageBlocks * t
        BY <1>1, <1>2, <1>6, <2>1, <2>3
      <3>2. PageBlocks * q + PageBlocks <= PageBlocks * t
        BY <1>1, <1>2, <2>1, <3>1, NextMultiple
      <3>3. QED BY <1>1, <1>2, <1>3, <2>1, <2>3, <3>2
    <2>4. QED BY <2>2, <2>3
  <1>7. QED BY <1>5, <1>6

\* The candidates are the chunks that can hold the request.
LEMMA CandidatesHaveRoom ==
    ASSUME NEW list \in Seq(Chunk), NEW n \in Nat
    PROVE  Candidates(list, n) = RoomFor(list, n)
  <1> SUFFICES ASSUME NEW i \in DOMAIN list
               PROVE  (\E s \in list[i].start..End(list[i]) :
                          s % PageBlocks = 0 /\ s + n <= End(list[i]))
                        <=> list[i].size >= n + Extra(list[i])
    BY DEF Candidates, RoomFor
  <1> DEFINE c == list[i]
             first == c.start + Extra(c)
  <1>1. c \in Chunk
    OBVIOUS
  <1>2. c.start \in Nat /\ c.size \in Nat /\ End(c) = c.start + c.size
    BY <1>1 DEF Chunk, End
  <1>3. Extra(c) \in Nat
    BY <1>1, ExtraType, PageBlocksPositive
  <1>4. /\ first % PageBlocks = 0
        /\ \A s \in Nat : c.start <= s /\ s % PageBlocks = 0 => first <= s
    BY <1>1, FirstBoundary
  <1> HIDE DEF c
  <1>5. ASSUME NEW s \in c.start..End(c), s % PageBlocks = 0, s + n <= End(c)
        PROVE  c.size >= n + Extra(c)
    <2>1. s \in Nat /\ c.start <= s
      BY <1>2, <1>5
    <2>2. first <= s
      BY <1>4, <1>5, <2>1
    <2>3. QED BY <1>2, <1>3, <1>5, <2>1, <2>2
  <1>6. ASSUME c.size >= n + Extra(c)
        PROVE  \E s \in c.start..End(c) :
                  s % PageBlocks = 0 /\ s + n <= End(c)
    <2>1. first \in c.start..End(c) /\ first + n <= End(c)
      BY <1>2, <1>3, <1>6
    <2>2. QED BY <1>4, <2>1
  <1>7. QED BY <1>5, <1>6 DEF c

\* What Allocate returns is at a page boundary, in a smallest chunk that can
\* hold the request.
LEMMA AllocateFits ==
    ASSUME IInv, NEW b \in Buffers, Allocate(b) PROVE AnsweredWell(b)
  <1> DEFINE n == BlocksOf(size[b])
             room == RoomFor(mList, n)
  <1>1. size[b] \in Nat \ {0} /\ IsHeap(mList)
    BY SizesAssumption DEF Allocate, IInv, CallsUnderway, HeapInv
  <1>2. PICK i \in DOMAIN mList :
           /\ IsBestFit(mList, n, i)
           /\ offset' = [offset EXCEPT ![b] = OffsetOf(mList, i)]
    BY DEF Allocate
  <1>3. n \in Nat
    BY <1>1, BlocksOfPositive
  <1>4. size'[b] = size[b]
    BY DEF Allocate
  <1>5. mList \in Seq(Chunk) /\ \A j \in DOMAIN mList : mList[j].size \in Nat
    <2>1. mList \in Seq(Chunk) BY <1>1 DEF IsHeap
    <2>2. \A j \in DOMAIN mList : mList[j] \in Chunk BY <2>1
    <2>3. QED BY <2>1, <2>2 DEF Chunk
  <1> DEFINE first == mList[i].start + Extra(mList[i])
  <1>6. /\ mList[i] \in Chunk /\ mList[i].start \in Nat
        /\ mList[i].size \in Nat
    <2>1. mList[i] \in Chunk
      BY <1>5
    <2>2. QED BY <2>1 DEF Chunk
  <1>7. Extra(mList[i]) \in Nat
    BY <1>6, ExtraType, PageBlocksPositive
  <1>8. offset'[b] = first * 32
    BY <1>2 DEF IInv, TypeOK, OffsetOf, kMemoryAlign
  <1>9. Blocks(b)' = [start |-> first, size |-> n, free |-> FALSE]
    <2>1. (first * 32) \div 32 = first
      BY <1>6, <1>7
    <2>2. QED BY <1>4, <1>8, <2>1 DEF Blocks, kMemoryAlign
  <1>10. Candidates(mList, n) = room
    <2> HIDE DEF n
    <2>1. QED BY <1>3, <1>5, CandidatesHaveRoom
  <1>11. /\ i \in Candidates(mList, n)
         /\ mList[i].size >= n + Extra(mList[i])
         /\ \A j \in Candidates(mList, n) : mList[i].size <= mList[j].size
    <2>1. /\ i \in Candidates(mList, n)
          /\ \A j \in Candidates(mList, n) :
                mList[i].size < mList[j].size \/ mList[i].size = mList[j].size
      BY <1>2 DEF IsBestFit
    <2> HIDE DEF n
    <2>2. \A j \in Candidates(mList, n) : j \in DOMAIN mList
      BY DEF Candidates
    <2>3. \A j \in Candidates(mList, n) : mList[i].size <= mList[j].size
      BY <1>5, <1>6, <2>1, <2>2
    <2>4. mList[i].size >= n + Extra(mList[i])
      BY <2>1 DEF Candidates
    <2>5. QED BY <2>1, <2>3, <2>4
  <1>12. offset'[b] % PageSize = 0
    <2>1. first % PageBlocks = 0
      BY <1>6, FirstBoundary
    <2>a. first \in Nat
      BY <1>6, <1>7
    <2> HIDE DEF first
    <2> DEFINE q == first \div PageBlocks
    <2>2. q \in Int /\ first = PageBlocks * q
      BY <2>1, <2>a, PageBlocksPositive, Division
    <2> HIDE DEF q
    <2>3. PageSize = PageBlocks * 32 /\ PageSize \in Nat \ {0}
      BY PageAssumption DEF PageBlocks, kMemoryAlign
    <2>4. first * 32 = PageSize * q /\ first * 32 \in Nat
      BY <2>2, <2>a, <2>3, PageBlocksPositive
    <2>5. (PageSize * q) % PageSize = 0
      BY <2>2, <2>3, <2>4, MultipleIsMultiple
    <2>6. QED BY <1>8, <2>4, <2>5
  <1>13. /\ mList[i].start <= Blocks(b)'.start
         /\ End(Blocks(b)') <= End(mList[i])
    <2> HIDE DEF n
    <2>1. End(Blocks(b)') = first + n /\ Blocks(b)'.start = first
      BY <1>9 DEF End
    <2>2. End(mList[i]) = mList[i].start + mList[i].size
      BY DEF End
    <2>3. QED BY <1>3, <1>6, <1>7, <1>11, <2>1, <2>2
  <1>14. stage'[b] # "none"
    BY DEF Allocate, IInv, TypeOK
  <1>15. \E k \in room :
            /\ mList[k].start <= Blocks(b)'.start
            /\ End(Blocks(b)') <= End(mList[k])
            /\ \A j \in room : mList[k].size <= mList[j].size
    BY <1>10, <1>11, <1>13
  <1>16. QED BY <1>12, <1>14, <1>15 DEF AnsweredWell

\* A request is refused only when no chunk can hold it at a page boundary,
\* and is otherwise served at one, from a smallest chunk that can.
THEOREM AlwaysBestFit == Spec => BestFitOrRefusal
  <1> DEFINE Well == \A b \in Buffers :
                       stage[b] = "inited" /\ stage'[b] # "inited"
                         => AnsweredWell(b)
  <1>1. IInv /\ [Next]_vars => [Well]_vars
    <2> SUFFICES ASSUME IInv, Next, NEW b \in Buffers,
                        stage[b] = "inited", stage'[b] # "inited"
                 PROVE  AnsweredWell(b)
      OBVIOUS
    <2>1. NoMorePmem(b) \/ Allocate(b)
      <3>1. PICK c \in Buffers :
               \/ InitPmemArea(c) \/ Allocate(c) \/ NoMorePmem(c)
               \/ MakeSubHeap(c) \/ UndoAllocate(c)
               \/ UnmapSubHeap(c) \/ FreeOffset(c)
        BY DEF Next
      <3>2. \E s \in Stages : stage' = stage \/ stage' = [stage EXCEPT ![c] = s]
        BY <3>1
           DEF InitPmemArea, FirstInit, LaterInit, Allocate, NoMorePmem,
               MakeSubHeap, UndoAllocate, UnmapSubHeap, FreeOffset, Deallocate,
               Stages
      <3>3. c = b
        BY <3>2 DEF IInv, TypeOK
      <3>4. QED
        BY <3>1, <3>3
           DEF InitPmemArea, FirstInit, LaterInit, MakeSubHeap, UndoAllocate,
               UnmapSubHeap, FreeOffset
    <2>2. CASE NoMorePmem(b)
      <3>1. Candidates(mList, BlocksOf(size[b])) = {} /\ stage'[b] = "none"
        BY <2>2 DEF NoMorePmem, IInv, TypeOK
      <3>2. BlocksOf(size[b]) \in Nat /\ mList \in Seq(Chunk)
        BY BlocksOfPositive, SizesAssumption DEF IInv, TypeOK, CallsUnderway
      <3>3. RoomFor(mList, BlocksOf(size[b])) = {}
        BY <3>1, <3>2, CandidatesHaveRoom
      <3>4. QED BY <3>1, <3>3 DEF AnsweredWell
    <2>3. QED BY <2>1, <2>2, AllocateFits
  <1>2. Spec => [][Well]_vars
    BY <1>1, Invariance, PTL DEF Spec
  <1>3. QED BY <1>2 DEF BestFitOrRefusal

-----------------------------------------------------------------------------
(* Buffers implement the abstract pool of regions *)

RegionOf(b) == [from |-> offset[b],
                to   |-> offset[b] + BlocksOf(size[b]) * kMemoryAlign]

RegionsInHeap ==
    \A b \in Buffers : stage[b] \in Carved =>
       /\ RegionOf(b) \in [from : 0..(HeapBlocks * kMemoryAlign),
                           to : 0..(HeapBlocks * kMemoryAlign)]
       /\ RegionOf(b).from < RegionOf(b).to

RegionsApart ==
    \A a, b \in Buffers :
       a # b /\ stage[a] \in Carved /\ stage[b] \in Carved =>
          \/ RegionOf(a).to <= RegionOf(b).from
          \/ RegionOf(b).to <= RegionOf(a).from

\* What is granted to a buffer with memory, and to one without.
LEMMA GrantedValue ==
    /\ \A b \in Buffers : granted[b] = IF stage[b] \in Carved THEN RegionOf(b)
                                       ELSE [from |-> 0, to |-> 0]
    /\ \E S : granted \in [Buffers -> S]
  <1>1. granted = [b \in Buffers |-> IF stage[b] \in Carved THEN RegionOf(b)
                                     ELSE [from |-> 0, to |-> 0]]
    BY DEF granted, RegionOf
  <1>2. \A b \in Buffers : granted[b] = IF stage[b] \in Carved THEN RegionOf(b)
                                        ELSE [from |-> 0, to |-> 0]
    BY <1>1
  <1>3. granted \in [Buffers -> {granted[b] : b \in Buffers}]
    BY <1>1
  <1>4. QED BY <1>2, <1>3

\* The region of a buffer with memory is a part of the heap, not empty.
LEMMA RegionInHeap ==
    ASSUME IInv, NEW b \in Buffers, stage[b] \in Carved
    PROVE  /\ RegionOf(b) \in [from : 0..(HeapBlocks * kMemoryAlign),
                               to : 0..(HeapBlocks * kMemoryAlign)]
           /\ RegionOf(b).from < RegionOf(b).to
           /\ RegionOf(b).from = Blocks(b).start * kMemoryAlign
           /\ RegionOf(b).to = End(Blocks(b)) * kMemoryAlign
           /\ Blocks(b).start \in Nat /\ End(Blocks(b)) \in Nat
  <1>1. /\ offset[b] \in Nat /\ offset[b] % kMemoryAlign = 0
        /\ size[b] \in Nat \ {0} /\ mList # <<>> /\ IsHeap(mList)
    BY SizesAssumption DEF IInv, CallsUnderway, HeapInv, TypeOK, Carved
  <1>2. BlocksOf(size[b]) \in Nat \ {0}
    BY <1>1, BlocksOfPositive
  <1>3. PICK i \in DOMAIN mList : mList[i] = Blocks(b)
    BY DEF IInv, Ownership, Has
  <1>4. End(Blocks(b)) <= HeapBlocks
    <2>1. /\ Len(mList) \in Nat /\ i \in 1..Len(mList) /\ Len(mList) \in DOMAIN mList
          /\ \A j \in DOMAIN mList : mList[j] \in Chunk
          /\ End(mList[Len(mList)]) = HeapBlocks
      BY <1>1 DEF IsHeap, Tiles
    <2>2. CASE i = Len(mList)
      <3>1. End(mList[i]) = HeapBlocks
        BY <2>1, <2>2
      <3>2. QED BY <1>3, <3>1, HeapBlocksPositive
    <2>3. CASE i < Len(mList)
      <3>1. End(mList[i]) <= mList[Len(mList)].start
        BY <1>1, <2>1, <2>3 DEF IsHeap, Ascending
      <3>2. /\ mList[Len(mList)].start \in Nat /\ mList[Len(mList)].size \in Nat
            /\ mList[i].start \in Nat /\ mList[i].size \in Nat
        BY <2>1 DEF Chunk
      <3>3. mList[Len(mList)].start <= HeapBlocks
        BY <2>1, <3>2 DEF End
      <3>4. End(mList[i]) <= HeapBlocks
        BY <3>1, <3>2, <3>3, HeapBlocksPositive DEF End
      <3>5. QED BY <1>3, <3>4
    <2>4. QED BY <2>1, <2>2, <2>3
  <1>5. Blocks(b).start = offset[b] \div 32 /\ Blocks(b).size = BlocksOf(size[b])
    BY DEF Blocks, kMemoryAlign
  <1>6. /\ Blocks(b).start \in Nat
        /\ offset[b] = Blocks(b).start * 32
    BY <1>1, <1>5 DEF kMemoryAlign
  <1>7. /\ End(Blocks(b)) = Blocks(b).start + BlocksOf(size[b])
        /\ RegionOf(b).from = offset[b]
        /\ RegionOf(b).to = offset[b] + BlocksOf(size[b]) * 32
    BY <1>5 DEF End, RegionOf, kMemoryAlign
  <1>8. /\ RegionOf(b).to = End(Blocks(b)) * 32
        /\ RegionOf(b).from < RegionOf(b).to
        /\ RegionOf(b).from \in 0..(HeapBlocks * 32)
        /\ RegionOf(b).to \in 0..(HeapBlocks * 32)
        /\ End(Blocks(b)) \in Nat
    BY <1>2, <1>4, <1>6, <1>7, HeapBlocksPositive
  <1>9. QED BY <1>6, <1>7, <1>8 DEF RegionOf, kMemoryAlign

\* A step that begins or ends no ownership changes no grant.
LEMMA GrantsUnaffected ==
    ASSUME \A b \in Buffers : stage'[b] \in Carved <=> stage[b] \in Carved,
           \A b \in Buffers : stage[b] \in Carved =>
              size'[b] = size[b] /\ offset'[b] = offset[b]
    PROVE  granted' = granted
  <1>1. \A b \in Buffers :
           (IF stage'[b] \in Carved
            THEN [from |-> offset'[b],
                  to   |-> offset'[b] + BlocksOf(size'[b]) * kMemoryAlign]
            ELSE [from |-> 0, to |-> 0])
           = (IF stage[b] \in Carved
              THEN [from |-> offset[b],
                    to   |-> offset[b] + BlocksOf(size[b]) * kMemoryAlign]
              ELSE [from |-> 0, to |-> 0])
    OBVIOUS
  <1>2. QED BY <1>1 DEF granted, Carved

\* The invariant keeps the regions within the heap and apart.
LEMMA RegionsOK == IInv => RegionsInHeap /\ RegionsApart
  <1>1. IInv => RegionsInHeap
    BY RegionInHeap DEF RegionsInHeap
  <1>2. ASSUME IInv, NEW a \in Buffers, NEW b \in Buffers, a # b,
               stage[a] \in Carved, stage[b] \in Carved
        PROVE  \/ RegionOf(a).to <= RegionOf(b).from
               \/ RegionOf(b).to <= RegionOf(a).from
    <2>1. \/ End(Blocks(a)) <= Blocks(b).start
          \/ End(Blocks(b)) <= Blocks(a).start
      BY <1>2, CarvedApart
    <2>2. /\ RegionOf(a).from = Blocks(a).start * 32
          /\ RegionOf(a).to = End(Blocks(a)) * 32
          /\ Blocks(a).start \in Nat /\ End(Blocks(a)) \in Nat
      BY <1>2, RegionInHeap DEF kMemoryAlign
    <2>3. /\ RegionOf(b).from = Blocks(b).start * 32
          /\ RegionOf(b).to = End(Blocks(b)) * 32
          /\ Blocks(b).start \in Nat /\ End(Blocks(b)) \in Nat
      BY <1>2, RegionInHeap DEF kMemoryAlign
    <2>4. QED BY <2>1, <2>2, <2>3
  <1>3. QED BY <1>1, <1>2 DEF RegionsApart

\* A successful allocate() is a Grant.
LEMMA AllocateGrants ==
    ASSUME IInv, RegionsInHeap', RegionsApart', NEW b \in Buffers, Allocate(b)
    PROVE  Pool!Grant(b)
  <1>1. /\ stage[b] = "inited" /\ size' = size
        /\ stage' = [stage EXCEPT ![b] = "carved"]
        /\ \E o : offset' = [offset EXCEPT ![b] = o]
    BY DEF Allocate
  <1>2. /\ stage'[b] \in Carved /\ stage[b] \notin Carved
        /\ \A c \in Buffers : c # b => stage'[c] = stage[c] /\ offset'[c] = offset[c]
    BY <1>1 DEF IInv, TypeOK, Carved
  <1> DEFINE r == [from |-> offset'[b],
                   to   |-> offset'[b] + BlocksOf(size'[b]) * kMemoryAlign]
             Nothing == [from |-> 0, to |-> 0]
  <1>3. granted[b] = Nothing
    BY <1>2 DEF granted
  <1>4. granted'[b] = r
    BY <1>2 DEF granted, Carved
  <1>5. granted' = [granted EXCEPT ![b] = r]
    <2>1. \A c \in Buffers : c # b => granted'[c] = granted[c]
      BY <1>1, <1>2 DEF granted, Carved
    <2>2. QED BY <1>4, <2>1 DEF granted, Carved
  <1>6. /\ r \in [from : 0..(HeapBlocks * kMemoryAlign),
                  to : 0..(HeapBlocks * kMemoryAlign)]
        /\ r.from < r.to
    BY <1>2 DEF RegionsInHeap, RegionOf, Carved
  <1>7. r.from >= 0 /\ r.from \in Int /\ r.to \in Int
    BY <1>6, HeapBlocksPositive DEF kMemoryAlign
  <1>8. ASSUME NEW c \in Buffers \ {b}
        PROVE  granted[c].to <= r.from \/ r.to <= granted[c].from
    <2>1. CASE stage[c] \in Carved
      <3>1. stage'[c] \in Carved /\ granted[c] = RegionOf(c) /\ c # b
        BY <1>2, <2>1 DEF granted, RegionOf
      <3>2. RegionOf(c)' = RegionOf(c)
        BY <1>1, <1>2, <1>8 DEF RegionOf
      <3>3. RegionOf(b)' = r
        BY DEF RegionOf
      <3>4. \/ RegionOf(b)'.to <= RegionOf(c)'.from
            \/ RegionOf(c)'.to <= RegionOf(b)'.from
        <4>1. (stage[b] \in Carved)' /\ (stage[c] \in Carved)' /\ b # c
          BY <1>2, <3>1 DEF Carved
        <4>2. QED BY <4>1 DEF RegionsApart
      <3>5. QED BY <3>1, <3>2, <3>3, <3>4
    <2>2. CASE stage[c] \notin Carved
      <3>1. granted[c] = Nothing
        BY <2>2 DEF granted
      <3>2. QED BY <1>7, <3>1
    <2>3. QED BY <2>1, <2>2
  <1>9. granted'[b].from < granted'[b].to
        /\ granted'[b] \in Pool!Region /\ granted[b] = Pool!NoRegion
    BY <1>3, <1>4, <1>6 DEF Pool!Region, Pool!NoRegion
  <1>10. \A c \in Buffers \ {b} : Pool!Apart(granted[c], granted'[b])
    BY <1>4, <1>8 DEF Pool!Apart
  <1>11. granted' = [granted EXCEPT ![b] = granted'[b]]
    BY <1>4, <1>5
  <1>12. QED BY <1>9, <1>10, <1>11 DEF Pool!Grant

\* Giving memory back is a Return.
LEMMA DeallocateReturns ==
    ASSUME IInv, RegionsInHeap, NEW b \in Buffers, stage[b] \in Carved,
           Deallocate(b)
    PROVE  Pool!Return(b)
  <1>1. /\ stage' = [stage EXCEPT ![b] = "none"]
        /\ UNCHANGED <<size, offset>>
    BY DEF Deallocate
  <1>2. /\ stage'[b] \notin Carved
        /\ \A c \in Buffers : c # b => stage'[c] = stage[c]
    BY <1>1 DEF IInv, TypeOK, Carved
  <1>3. granted[b] # [from |-> 0, to |-> 0]
    <2>1. granted[b] = RegionOf(b) /\ RegionOf(b).from < RegionOf(b).to
      BY DEF granted, RegionOf, RegionsInHeap
    <2>2. QED BY <2>1
  <1>4. granted' = [granted EXCEPT ![b] = [from |-> 0, to |-> 0]]
    BY <1>1, <1>2 DEF granted, Carved
  <1>5. QED BY <1>3, <1>4 DEF Pool!Return, Pool!NoRegion

\* Every step of the allocator is a step of the pool, or none.
LEMMA StepRefinesPool ==
    IInv /\ RegionsInHeap /\ RegionsInHeap' /\ RegionsApart' /\ [Next]_vars
       => [Pool!Next]_granted
  <1>1. SUFFICES ASSUME IInv, RegionsInHeap, RegionsInHeap', RegionsApart',
                        [Next]_vars
                 PROVE  Pool!Next \/ granted' = granted
    OBVIOUS
  <1>2. ASSUME NEW b \in Buffers, InitPmemArea(b) PROVE granted' = granted
    <2>1. /\ stage[b] = "none" /\ offset' = offset
          /\ stage' \in {stage, [stage EXCEPT ![b] = "inited"]}
          /\ \E n \in Sizes : size' = [size EXCEPT ![b] = n]
      BY <1>2 DEF InitPmemArea, FirstInit, LaterInit
    <2>2. \A c \in Buffers : /\ stage'[c] \in Carved <=> stage[c] \in Carved
                             /\ stage[c] \in Carved => size'[c] = size[c]
      BY <1>1, <2>1 DEF Carved, IInv, TypeOK
    <2>3. QED BY <2>1, <2>2, GrantsUnaffected
  <1>3. ASSUME NEW b \in Buffers, Allocate(b) PROVE Pool!Grant(b)
    BY <1>1, <1>3, AllocateGrants
  <1>4. ASSUME NEW b \in Buffers, UndoAllocate(b) \/ FreeOffset(b)
        PROVE  Pool!Return(b)
    BY <1>1, <1>4, DeallocateReturns DEF UndoAllocate, FreeOffset, Carved
  <1>5. ASSUME NEW b \in Buffers,
               NoMorePmem(b) \/ MakeSubHeap(b) \/ UnmapSubHeap(b)
        PROVE  granted' = granted
    <2>1. UNCHANGED <<size, offset>>
      BY <1>5 DEF NoMorePmem, MakeSubHeap, UnmapSubHeap
    <2>2. \A c \in Buffers : stage'[c] \in Carved <=> stage[c] \in Carved
      BY <1>1, <1>5 DEF NoMorePmem, MakeSubHeap, UnmapSubHeap, Carved,
                        IInv, TypeOK
    <2>3. QED BY <2>1, <2>2, GrantsUnaffected
  <1>6. CASE UNCHANGED vars
    BY <1>6, GrantsUnaffected DEF vars
  <1>7. QED BY <1>1, <1>2, <1>3, <1>4, <1>5, <1>6 DEF Next, Pool!Next

\* The allocator implements the pool: what it hands out, keeps after a failed
\* unmap and takes back is always a set of disjoint regions of the heap.
THEOREM ImplementsPool == Spec => PoolSpec
  <1>1. Init => Pool!Init
    <2>1. SUFFICES ASSUME Init PROVE Pool!Init
      OBVIOUS
    <2>2. \A b \in Buffers : stage[b] \notin Carved
      BY <2>1 DEF Init, Carved
    <2>3. QED BY <2>2 DEF granted, Pool!Init, Pool!NoRegion
  <1>2. QED BY <1>1, Invariance, RegionsOK, StepRefinesPool, PTL
            DEF Spec, PoolSpec, Pool!Spec
=============================================================================
