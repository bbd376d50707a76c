---------------------------- MODULE ArenaProofs ----------------------------
(***************************************************************************)
(* For every limit, block size, alignment, set of request sizes and number *)
(* of marks, the arena never takes back or hands out twice memory that is  *)
(* still in use, and its total is what is in use. ArenaInv and TotalInv    *)
(* (Arena.tla) are the inductive invariants.                               *)
(***************************************************************************)
EXTENDS Arena, SequenceTheorems, FiniteSetTheorems, WellFoundedInduction, TLAPS

\* align_size returns at least one byte and never less than it was asked for.
LEMMA AlignSizeBounds ==
  ASSUME NEW size \in Nat
  PROVE  AlignSize(size) \in Nat /\ AlignSize(size) > 0 /\ AlignSize(size) >= size
<1> DEFINE n == (IF size = 0 THEN 1 ELSE size) + Align - 1
<1>1. Align \in Nat /\ Align > 0
  BY ArenaAssumption
<1>2. n \in Nat /\ n >= Align /\ n >= size + Align - 1
  BY <1>1
<1>3. n % Align \in 0..(Align - 1)
  BY <1>1, <1>2
<1> HIDE DEF n
<1>4. n - (n % Align) \in Nat /\ n - (n % Align) > 0 /\ n - (n % Align) >= size
  BY <1>1, <1>2, <1>3
<1> QED
  BY <1>4 DEF n, AlignSize

\* The block arena_alloc takes from malloc holds the request it is taken for.
LEMMA NewCapacityBounds ==
  ASSUME NEW size \in Nat, Limit \in Nat, total \in Nat, total + size <= Limit
  PROVE  NewCapacity(size) \in Nat /\ NewCapacity(size) >= size
BY ArenaAssumption DEF NewCapacity

\* The blocks on the list are blocks malloc returned and none of them is NULL.
LEMMA ChainBlocks ==
  ASSUME TypeOK
  PROVE  /\ chain \subseteq heap
         /\ \A b \in heap : b \in Blocks /\ b \in Nat /\ b # Null /\ used[b] \in Nat
         /\ head # Null => head \in chain /\ head \in heap
<1>1. issued \in 0..MaxBlocks /\ heap \subseteq 1..issued /\ chain \subseteq heap
  BY DEF TypeOK
<1>2. head # Null => head \in chain
  BY DEF TypeOK
<1>3. \A b \in heap : b \in Blocks /\ b \in Nat /\ b # Null
  BY <1>1, ArenaAssumption DEF Blocks, Null
<1>4. used \in [Blocks -> Nat]
  BY DEF TypeOK
<1> QED
  BY <1>1, <1>2, <1>3, <1>4

LEMMA InitInv == Init => ArenaInv
<1> SUFFICES ASSUME Init PROVE ArenaInv
  OBVIOUS
<1> USE ArenaAssumption
<1>1. TypeOK
  BY DEF Init, TypeOK, Null, Blocks
<1>2. Len(marks) = 0 /\ live = {}
  BY DEF Init
<1> QED
  BY <1>1, <1>2 DEF ArenaInv, LiveIntact, MarksNeverDangle

\* arena_alloc from the head block: the new allocation starts where every
\* other allocation of that block ends.
LEMMA BumpInv ==
  ASSUME ArenaInv, NEW request \in Requests, Bump(request)
  PROVE  ArenaInv'
<1> DEFINE size == AlignSize(request)
           new == Allocation(head, size)
<1> USE ArenaAssumption
<1>1. size \in Nat /\ size > 0
  BY AlignSizeBounds
<1> HIDE DEF size
<1>2. /\ head # Null /\ capacity[head] - used[head] >= size
      /\ total + size <= Limit
      /\ live' = live \cup {new}
      /\ used' = [used EXCEPT ![head] = @ + size]
      /\ total' = total + size
      /\ UNCHANGED <<alive, issued, heap, capacity, chain, head, marks>>
  BY DEF Bump, Fits, size
<1>3. TypeOK
  BY DEF ArenaInv
<1>4. head \in chain /\ head \in heap /\ head \in Blocks /\ used[head] \in Nat
  BY <1>2, <1>3, ChainBlocks
<1>5. new = [block |-> head, off |-> used[head], size |-> size]
  BY DEF Allocation
<1>6. new \in Allocations
  BY <1>1, <1>4, <1>5 DEF Allocations
<1>7. TypeOK'
  <2>1. /\ used' \in [Blocks -> Nat] /\ capacity' \in [Blocks -> Nat]
        /\ \A b \in Blocks : used'[b] <= capacity'[b]
    BY <1>1, <1>2, <1>3, <1>4 DEF TypeOK
  <2>2. total' \in 0..Limit /\ live' \subseteq Allocations
    BY <1>1, <1>2, <1>3, <1>6 DEF TypeOK
  <2> QED
    BY <1>2, <1>3, <2>1, <2>2 DEF TypeOK
<1>8. \A b \in Blocks : used[b] \in Nat /\ used'[b] \in Nat /\ used[b] <= used'[b]
  BY <1>1, <1>2, <1>3, <1>4 DEF TypeOK
<1>9. LiveIntact'
  <2>1. \A a \in live : a \in Allocations /\ a.block \in heap
                        /\ a.off + a.size <= used[a.block]
    BY <1>3 DEF ArenaInv, LiveIntact, TypeOK
  <2>2. \A a \in live' : a.block \in heap' /\ a.off + a.size <= used'[a.block]
    <3>1. \A a \in live : a.block \in heap' /\ a.off + a.size <= used'[a.block]
      BY <1>2, <1>8, <2>1 DEF Allocations
    <3>2. new.block \in heap' /\ new.off + new.size <= used'[new.block]
      BY <1>1, <1>2, <1>3, <1>4, <1>5 DEF TypeOK
    <3> QED
      BY <1>2, <3>1, <3>2
  <2>3. \A a \in live : ~Overlap(a, new) /\ ~Overlap(new, a)
    BY <1>1, <1>4, <1>5, <2>1 DEF Overlap, Allocations
  <2>4. \A a, b \in live' : a # b => ~Overlap(a, b)
    BY <1>2, <2>3 DEF ArenaInv, LiveIntact
  <2> QED
    BY <2>2, <2>4 DEF LiveIntact
<1>10. MarksNeverDangle'
  BY <1>2 DEF ArenaInv, MarksNeverDangle
<1>11. \A i \in 1..Len(marks') : MarkKeeps(marks[i])'
  <2> SUFFICES ASSUME NEW i \in 1..Len(marks) PROVE MarkKeeps(marks[i])'
    BY <1>2
  <2> DEFINE m == marks[i]
  <2>1. m \in MarkType /\ MarkKeeps(m)
    BY <1>3 DEF ArenaInv, TypeOK
  <2>2. m.block # Null => m.used <= used'[m.block]
    BY <1>8, <2>1 DEF MarkKeeps, MarkType
  <2> QED
    BY <1>2, <2>1, <2>2 DEF MarkKeeps
<1>12. \A i, j \in 1..Len(marks') : i < j => MarksNested(marks[i], marks[j])'
  BY <1>2 DEF ArenaInv, MarksNested
<1> QED
  BY <1>7, <1>9, <1>10, <1>11, <1>12 DEF ArenaInv

\* arena_alloc from a block malloc has just returned: nothing refers to it yet.
LEMMA GrowInv ==
  ASSUME ArenaInv, NEW request \in Requests, Grow(request)
  PROVE  ArenaInv'
<1> DEFINE size == AlignSize(request)
           block == issued + 1
           new == [block |-> block, off |-> 0, size |-> size]
<1> USE ArenaAssumption
<1>1. size \in Nat /\ size > 0
  BY AlignSizeBounds
<1>2. TypeOK
  BY DEF ArenaInv
<1>3. NewCapacity(size) \in Nat /\ NewCapacity(size) >= size
  BY <1>1, <1>2, NewCapacityBounds DEF Grow, TypeOK
<1> HIDE DEF size
<1>4. /\ total + size <= Limit
      /\ issued < MaxBlocks
      /\ issued' = block
      /\ heap' = heap \cup {block}
      /\ chain' = chain \cup {block}
      /\ head' = block
      /\ capacity' = [capacity EXCEPT ![block] = NewCapacity(size)]
      /\ used' = [used EXCEPT ![block] = size]
      /\ live' = live \cup {new}
      /\ total' = total + size
      /\ UNCHANGED <<alive, marks>>
  BY DEF Grow, size
<1>5. block \in Blocks /\ block # Null /\ block \notin heap /\ \A b \in heap : b < block
  BY <1>2, <1>4 DEF TypeOK, Blocks, Null
<1>6. new \in Allocations
  BY <1>1, <1>5 DEF Allocations
<1>7. TypeOK'
  <2>1. issued' \in 0..MaxBlocks /\ heap' \subseteq 1..issued' /\ chain' \subseteq heap'
    BY <1>2, <1>4 DEF TypeOK
  <2>2. /\ used' \in [Blocks -> Nat] /\ capacity' \in [Blocks -> Nat]
        /\ \A b \in Blocks : used'[b] <= capacity'[b]
    BY <1>1, <1>2, <1>3, <1>4, <1>5 DEF TypeOK
  <2>3. head' # Null /\ head' \in chain' /\ \A b \in chain' : b <= head'
    BY <1>2, <1>4, <1>5 DEF TypeOK
  <2>4. total' \in 0..Limit
    BY <1>1, <1>2, <1>4 DEF TypeOK
  <2> QED
    BY <1>2, <1>4, <1>6, <2>1, <2>2, <2>3, <2>4 DEF TypeOK
<1>8. \A b \in Blocks : b # block => used'[b] = used[b]
  BY <1>2, <1>4 DEF TypeOK
<1>9. LiveIntact'
  <2>1. \A a \in live : a \in Allocations /\ a.block \in heap /\ a.block # block
                        /\ a.off + a.size <= used[a.block]
    BY <1>2, <1>5 DEF ArenaInv, LiveIntact, TypeOK
  <2>2. \A a \in live : a.block \in heap' /\ a.off + a.size <= used'[a.block]
    BY <1>4, <1>8, <2>1 DEF Allocations
  <2>3. new.block \in heap' /\ new.off + new.size <= used'[new.block]
    BY <1>1, <1>2, <1>4, <1>5 DEF TypeOK
  <2>4. \A a \in live : ~Overlap(a, new) /\ ~Overlap(new, a)
    BY <2>1 DEF Overlap
  <2>5. \A a, b \in live' : a # b => ~Overlap(a, b)
    BY <1>4, <2>4 DEF ArenaInv, LiveIntact
  <2>6. \A a \in live' : a.block \in heap' /\ a.off + a.size <= used'[a.block]
    BY <1>4, <2>2, <2>3
  <2> QED
    BY <2>5, <2>6 DEF LiveIntact
<1>10. MarksNeverDangle'
  BY <1>4 DEF ArenaInv, MarksNeverDangle
<1>11. \A i \in 1..Len(marks) : marks[i] \in MarkType /\ marks[i].block # block
  BY <1>2, <1>5 DEF ArenaInv, TypeOK, MarksNeverDangle
<1>12. \A i \in 1..Len(marks') : MarkKeeps(marks[i])'
  <2> SUFFICES ASSUME NEW i \in 1..Len(marks) PROVE MarkKeeps(marks[i])'
    BY <1>4
  <2> DEFINE m == marks[i]
  <2>1. m \in MarkType /\ m.block # block /\ MarkKeeps(m)
    BY <1>11 DEF ArenaInv
  <2>2. m.block # Null => m.used <= used'[m.block]
    BY <1>8, <2>1 DEF MarkKeeps, MarkType
  <2>3. \A a \in m.live : a.block # block
    BY <1>5, <2>1 DEF MarkKeeps, ArenaInv, LiveIntact
  <2> QED
    BY <1>4, <2>1, <2>2, <2>3 DEF MarkKeeps
<1>13. \A i, j \in 1..Len(marks') : i < j => MarksNested(marks[i], marks[j])'
  BY <1>4, <1>11 DEF ArenaInv, MarksNested
<1> QED
  BY <1>7, <1>9, <1>10, <1>12, <1>13 DEF ArenaInv

\* A new mark names the head of the list, which no other mark's block is newer
\* than, and keeps everything that is in use.
LEMMA MarkInv ==
  ASSUME ArenaInv, Mark
  PROVE  ArenaInv'
<1> USE ArenaAssumption
<1> DEFINE new == [block |-> head,
                   used |-> IF head = Null THEN 0 ELSE used[head],
                   total |-> total,
                   live |-> live]
<1>1. TypeOK
  BY DEF ArenaInv
<1>2. /\ marks' = Append(marks, new)
      /\ UNCHANGED <<alive, issued, heap, used, capacity, chain, head, total, live>>
  BY DEF Mark
<1>3. new \in MarkType
  <2>1. head # Null => head \in Blocks /\ used[head] \in Nat
    BY <1>1, ChainBlocks
  <2>2. new.used \in Nat
    BY <2>1
  <2> QED
    BY <1>1, <2>1, <2>2 DEF TypeOK, MarkType
<1>4. marks \in Seq(MarkType)
  BY <1>1 DEF TypeOK
<1>5. /\ Len(marks') = Len(marks) + 1
      /\ \A i \in 1..Len(marks) : marks'[i] = marks[i]
      /\ marks'[Len(marks) + 1] = new
      /\ marks' \in Seq(MarkType)
  BY <1>2, <1>3, <1>4
<1>6. new.block = head /\ new.live = live /\ new.used = (IF head = Null THEN 0 ELSE used[head])
  OBVIOUS
<1> HIDE DEF new
<1>7. TypeOK'
  BY <1>1, <1>2, <1>5 DEF TypeOK
<1>8. LiveIntact'
  BY <1>2 DEF ArenaInv, LiveIntact, Overlap
<1>9. new.block # Null => new.block \in heap
  BY <1>1, <1>6 DEF TypeOK
<1>10. MarksNeverDangle'
  BY <1>2, <1>4, <1>5, <1>9 DEF ArenaInv, MarksNeverDangle
<1>11. MarkKeeps(new)
  <2>1. \A a \in live : a.block \in heap /\ a.block # Null
                        /\ a.off + a.size <= used[a.block]
    BY <1>1 DEF ArenaInv, LiveIntact, TypeOK, Null
  <2>2. \A a \in live : a.block \in chain => head \in chain /\ a.block <= head
    BY <1>1 DEF TypeOK
  <2>3. head # Null => used[head] \in Nat
    BY <1>1, ChainBlocks
  <2> QED
    BY <1>6, <2>1, <2>2, <2>3 DEF MarkKeeps
<1>12. \A m : MarkKeeps(m) => MarkKeeps(m)'
  BY <1>2 DEF MarkKeeps
<1>13. \A i \in 1..Len(marks') : MarkKeeps(marks'[i])
  BY <1>4, <1>5, <1>11 DEF ArenaInv
<1>14. \A i \in 1..Len(marks) : MarksNested(marks[i], new)
  <2> SUFFICES ASSUME NEW i \in 1..Len(marks) PROVE MarksNested(marks[i], new)
    OBVIOUS
  <2>1. marks[i] \in MarkType /\ MarkKeeps(marks[i])
    BY <1>4 DEF ArenaInv
  <2>2. marks[i].block \in chain => head \in chain /\ marks[i].block <= head
    BY <1>1 DEF TypeOK
  <2>3. head # Null /\ marks[i].block = head => marks[i].used <= new.used
    BY <2>1, <1>6 DEF MarkKeeps
  <2> QED
    BY <1>6, <2>1, <2>2, <2>3 DEF MarksNested, MarkKeeps
<1>15. \A i \in 1..Len(marks') : MarkKeeps(marks[i])'
  BY <1>2, <1>13 DEF MarkKeeps
<1>16. \A i, j \in 1..Len(marks') : i < j => MarksNested(marks'[i], marks'[j])
  BY <1>4, <1>5, <1>14 DEF ArenaInv
<1>17. \A i, j \in 1..Len(marks') : i < j => MarksNested(marks[i], marks[j])'
  BY <1>2, <1>16 DEF MarksNested
<1> QED
  BY <1>7, <1>8, <1>10, <1>15, <1>17 DEF ArenaInv

\* arena_release frees no block that a mark still held protects: either the
\* walk stops at this mark's block, and the protected ones are not newer, or
\* it runs to the end of the list, and none of them is on it.
LEMMA ReleaseInv ==
  ASSUME ArenaInv, Release
  PROVE  ArenaInv'
<1> USE ArenaAssumption
<1> DEFINE n == Len(marks)
           m == marks[n]
           found == m.block \in chain
<1>1. TypeOK
  BY DEF ArenaInv
<1>2. /\ heap' = heap \ Freed(m)
      /\ chain' = IF found THEN {m.block} ELSE {}
      /\ head' = IF found THEN m.block ELSE Null
      /\ used' = IF found THEN [used EXCEPT ![m.block] = m.used] ELSE used
      /\ total' = m.total
      /\ marks' = SubSeq(marks, 1, n - 1)
      /\ live' = live \cap m.live
      /\ UNCHANGED <<alive, issued, capacity>>
  BY DEF Release, TotalAfter
<1>3. marks \in Seq(MarkType) /\ n \in Nat /\ n > 0 /\ n \in 1..n /\ marks # <<>>
  BY <1>1 DEF TypeOK, Release
<1>4. m \in MarkType /\ MarkKeeps(m)
  BY <1>3 DEF ArenaInv
<1>5. /\ marks' \in Seq(MarkType) /\ Len(marks') = n - 1
      /\ \A i \in 1..(n - 1) : marks'[i] = marks[i] /\ i \in 1..n /\ i < n
  <2>1. \A i \in 1..(n - 1) : marks[i] \in MarkType /\ i \in 1..n /\ i < n
    BY <1>3
  <2>2. /\ SubSeq(marks, 1, n - 1) \in Seq(MarkType)
        /\ Len(SubSeq(marks, 1, n - 1)) = IF 1 <= n - 1 THEN n - 1 - 1 + 1 ELSE 0
        /\ \A i \in 1..(n - 1 - 1 + 1) : SubSeq(marks, 1, n - 1)[i] = marks[1 + i - 1]
    <3>1. 1 \in Int /\ n - 1 \in Int
      BY <1>3
    <3> QED
      BY <3>1, <2>1, SubSeqProperties
  <2>3. Len(marks') = n - 1
    <3> HIDE DEF n
    <3>1. (IF 1 <= n - 1 THEN n - 1 - 1 + 1 ELSE 0) = n - 1
      BY <1>3
    <3> QED
      BY <1>2, <2>2, <3>1
  <2>4. \A i \in 1..(n - 1) : marks'[i] = marks[i]
    BY <1>2, <1>3, <2>2
  <2> QED
    BY <1>2, <2>1, <2>2, <2>3, <2>4
<1>6. \A i \in 1..(n - 1) : /\ marks[i] \in MarkType
                            /\ MarkKeeps(marks[i])
                            /\ MarksNested(marks[i], m)
                            /\ marks[i].block # Null => marks[i].block \in heap
  BY <1>3, <1>5 DEF ArenaInv, MarksNeverDangle
<1> HIDE DEF n, m
<1>7. found => m.block \in Blocks /\ m.block \in heap /\ m.block # Null
  BY <1>1, ChainBlocks
<1>8. found => m.used \in Nat /\ m.used <= used[m.block]
  BY <1>4, <1>7 DEF MarkKeeps, MarkType
<1>9. /\ used' \in [Blocks -> Nat]
      /\ \A b \in Blocks : used'[b] <= used[b] /\ (b # m.block => used'[b] = used[b])
  BY <1>1, <1>2, <1>7, <1>8 DEF TypeOK
<1>10. found => used'[m.block] = m.used /\ m.block \in heap'
  <2>1. found => m.block \notin Freed(m)
    BY <1>1, <1>7 DEF Freed, Blocks
  <2> QED
    BY <1>1, <1>2, <1>7, <2>1 DEF TypeOK
<1>11. TypeOK'
  <2>1. heap' \subseteq 1..issued' /\ issued' \in 0..MaxBlocks
    BY <1>1, <1>2 DEF TypeOK
  <2>2. capacity' \in [Blocks -> Nat] /\ \A b \in Blocks : used'[b] <= capacity'[b]
    BY <1>1, <1>2, <1>9 DEF TypeOK
  <2>3. chain' \subseteq heap'
    BY <1>2, <1>10
  <2>4. IF head' = Null THEN chain' = {} ELSE head' \in chain' /\ \A b \in chain' : b <= head'
    BY <1>2, <1>7 DEF Blocks
  <2>5. total' \in 0..Limit
    BY <1>2, <1>4 DEF MarkType
  <2> QED
    BY <1>1, <1>2, <1>5, <1>9, <2>1, <2>2, <2>3, <2>4, <2>5 DEF TypeOK
<1>12. \A a \in m.live : /\ a \in live /\ a \in Allocations
                         /\ a.block \in heap
                         /\ a.off + a.size <= used[a.block]
  BY <1>1, <1>4 DEF ArenaInv, LiveIntact, MarkKeeps, TypeOK
<1>13. \A a \in m.live : a.block \in heap' /\ a.off + a.size <= used'[a.block]
  <2> SUFFICES ASSUME NEW a \in m.live
               PROVE  a.block \in heap' /\ a.off + a.size <= used'[a.block]
    OBVIOUS
  <2>1. a.block \notin Freed(m)
    BY <1>4, <1>7, <1>12 DEF Freed, MarkKeeps, Blocks, Allocations
  <2>2. a.off + a.size <= used'[a.block]
    <3>1. CASE found /\ a.block = m.block
      BY <1>4, <1>10, <3>1 DEF MarkKeeps
    <3>2. CASE ~(found /\ a.block = m.block)
      BY <1>2, <1>9, <1>12, <3>2 DEF Allocations
    <3> QED
      BY <3>1, <3>2
  <2> QED
    BY <1>2, <1>12, <2>1, <2>2
<1>14. LiveIntact'
  BY <1>2, <1>13 DEF ArenaInv, LiveIntact, Overlap
<1>15. \A i \in 1..(n - 1) : marks[i].block # Null => marks[i].block \in heap'
  <2> SUFFICES ASSUME NEW i \in 1..(n - 1), marks[i].block # Null
               PROVE  marks[i].block \notin Freed(m)
    BY <1>2, <1>6
  <2> QED
    BY <1>6, <1>7 DEF Freed, MarksNested, MarkType, Blocks
<1>16. MarksNeverDangle'
  BY <1>5, <1>15 DEF MarksNeverDangle
<1>17. \A i \in 1..Len(marks') : MarkKeeps(marks[i])'
  <2> SUFFICES ASSUME NEW i \in 1..(n - 1) PROVE MarkKeeps(marks[i])'
    BY <1>5
  <2> DEFINE o == marks[i]
  <2>1. /\ marks'[i] = o /\ o \in MarkType /\ MarkKeeps(o)
        /\ MarksNested(o, m) /\ (o.block # Null => o.block \in heap)
    BY <1>5, <1>6
  <2> HIDE DEF o
  <2>2. o.block # Null => o.block \in Blocks
    BY <2>1 DEF MarkType
  <2>3. o.block # Null => o.used <= used'[o.block]
    <3>1. CASE found /\ o.block = m.block
      BY <1>7, <1>10, <2>1, <3>1 DEF MarksNested
    <3>2. CASE ~(found /\ o.block = m.block)
      BY <1>2, <1>9, <2>1, <2>2, <3>2 DEF MarkKeeps
    <3> QED
      BY <3>1, <3>2
  <2>4. o.live \subseteq live'
    BY <1>2, <2>1 DEF MarkKeeps, MarksNested
  <2>5. \A a \in o.live : a.block \in chain' => o.block \in chain' /\ a.block <= o.block
    <3> SUFFICES ASSUME NEW a \in o.live, a.block \in chain'
                 PROVE  o.block \in chain' /\ a.block <= o.block
      OBVIOUS
    <3>1. found /\ a.block = m.block
      BY <1>2
    <3>2. o.block \in chain /\ a.block <= o.block /\ o.block <= m.block
      BY <2>1, <3>1 DEF MarkKeeps, MarksNested
    <3>3. o.block \in Nat /\ m.block \in Nat
      BY <1>1, <3>1, <3>2, ChainBlocks
    <3> QED
      BY <1>2, <3>1, <3>2, <3>3
  <2> QED
    BY <2>1, <2>3, <2>4, <2>5 DEF MarkKeeps
<1>18. \A i, j \in 1..(n - 1) : i < j => MarksNested(marks[i], marks[j])'
  <2> SUFFICES ASSUME NEW i \in 1..(n - 1), NEW j \in 1..(n - 1), i < j
               PROVE  MarksNested(marks[i], marks[j])'
    OBVIOUS
  <2> DEFINE o == marks[i]
             p == marks[j]
  <2>1. /\ marks'[i] = o /\ marks'[j] = p
        /\ MarksNested(o, p) /\ MarksNested(o, m) /\ MarksNested(p, m)
    BY <1>5, <1>6 DEF ArenaInv, n
  <2> HIDE DEF o, p
  <2>2. o.block \in chain' => p.block \in chain' /\ o.block <= p.block
    <3> SUFFICES ASSUME o.block \in chain'
                 PROVE  p.block \in chain' /\ o.block <= p.block
      OBVIOUS
    <3>1. found /\ o.block = m.block
      BY <1>2
    <3>2. p.block \in chain /\ o.block <= p.block /\ p.block <= m.block
      BY <2>1, <3>1 DEF MarksNested
    <3>3. p.block \in Nat /\ m.block \in Nat
      BY <1>1, <3>1, <3>2, ChainBlocks
    <3> QED
      BY <1>2, <3>1, <3>2, <3>3
  <2> QED
    BY <2>1, <2>2 DEF MarksNested
<1> QED
  BY <1>5, <1>11, <1>14, <1>16, <1>17, <1>18 DEF ArenaInv

LEMMA DestroyInv ==
  ASSUME ArenaInv, Destroy
  PROVE  ArenaInv'
<1> USE ArenaAssumption
<1>1. TypeOK
  BY DEF ArenaInv
<1>2. /\ heap' = heap \ chain /\ chain' = {} /\ head' = Null /\ total' = 0
      /\ marks' = <<>> /\ live' = {} /\ alive' = FALSE
      /\ UNCHANGED <<issued, used, capacity>>
  BY DEF Destroy
<1>3. Len(marks') = 0 /\ marks' \in Seq(MarkType)
  BY <1>2
<1>4. TypeOK'
  <2>1. heap' \subseteq 1..issued' /\ issued' \in 0..MaxBlocks /\ chain' \subseteq heap'
    BY <1>1, <1>2 DEF TypeOK
  <2>2. total' \in 0..Limit /\ live' \subseteq Allocations /\ alive' \in BOOLEAN
    <3>1. total' \in 0..Limit
      BY <1>2
    <3>2. live' \subseteq Allocations
      BY <1>2
    <3>3. alive' \in BOOLEAN
      BY <1>2
    <3> QED
      BY <3>1, <3>2, <3>3
  <2>3. /\ used' \in [Blocks -> Nat] /\ capacity' \in [Blocks -> Nat]
        /\ \A b \in Blocks : used'[b] <= capacity'[b]
    BY <1>1, <1>2 DEF TypeOK
  <2>4. head' = Null /\ chain' = {}
    BY <1>2
  <2> QED
    BY <1>3, <2>1, <2>2, <2>3, <2>4 DEF TypeOK
<1> QED
  BY <1>2, <1>3, <1>4 DEF ArenaInv, LiveIntact, MarksNeverDangle

\* A step that leaves every variable but alive as it was.
LEMMA UnchangedInv ==
  ASSUME ArenaInv, alive' \in BOOLEAN,
         UNCHANGED <<issued, heap, used, capacity, chain, head, total, marks, live>>
  PROVE  ArenaInv'
BY DEF ArenaInv, TypeOK, LiveIntact, MarksNeverDangle, MarkKeeps, MarksNested, Overlap

\* ArenaInv holds in every reachable state: it is what makes the properties
\* below, which are not inductive by themselves, hold.
THEOREM Inductive == Spec => []ArenaInv
<1>1. ArenaInv /\ [Next]_vars => ArenaInv'
  <2> SUFFICES ASSUME ArenaInv, [Next]_vars PROVE ArenaInv'
    OBVIOUS
  <2>1. CASE \E request \in Requests : Bump(request)
    BY <2>1, BumpInv
  <2>2. CASE \E request \in Requests : Grow(request)
    BY <2>2, GrowInv
  <2>3. CASE Mark
    BY <2>3, MarkInv
  <2>4. CASE Release
    BY <2>4, ReleaseInv
  <2>5. CASE Destroy
    BY <2>5, DestroyInv
  <2>6. CASE Create
    BY <2>6, UnchangedInv DEF Create
  <2>7. CASE UNCHANGED vars
    BY <2>7, UnchangedInv DEF vars, ArenaInv, TypeOK
  <2> QED
    BY <2>1, <2>2, <2>3, <2>4, <2>5, <2>6, <2>7 DEF Next
<1> QED
  BY InitInv, <1>1, PTL DEF Spec

\* The arena's fields keep their types and bounds: no block is filled past its
\* capacity, and the bytes handed out stay under arena_create's limit.
THEOREM TypeCorrect == Spec => []TypeOK
<1>1. ArenaInv => TypeOK
  BY DEF ArenaInv
<1> QED
  BY <1>1, Inductive, PTL

\* No arena_release or arena_destroy takes back memory the client may still use,
\* and no arena_alloc hands out a byte of it again.
THEOREM AllocationsIntact == Spec => []LiveIntact
<1>1. ArenaInv => LiveIntact
  BY DEF ArenaInv
<1> QED
  BY <1>1, Inductive, PTL

\* arena_release compares the list only with blocks malloc has not taken back.
THEOREM MarksValid == Spec => []MarksNeverDangle
<1>1. ArenaInv => MarksNeverDangle
  BY DEF ArenaInv
<1> QED
  BY <1>1, Inductive, PTL

-----------------------------------------------------------------------------
(* The bytes in use *)

\* Induction for a set of numbers: the least one left out would have to be in it.
LEMMA NaturalInduction ==
  ASSUME NEW S, \A n \in Nat : (\A m \in Nat : m < n => m \in S) => n \in S
  PROVE  \A n \in Nat : n \in S
<1> DEFINE R == OpToRel(<, Nat)
           T == {n \in Nat : n \notin S}
<1>1. SUFFICES ASSUME T # {} PROVE FALSE
  OBVIOUS
<1>2. IsWellFoundedOn(R, Nat)
  BY NatLessThanWellFounded
<1>3. \A x, y \in Nat : <<x, y>> \in R <=> x < y
  BY DEF OpToRel
<1>4. T \subseteq Nat
  OBVIOUS
<1> HIDE DEF R, T
<1>5. PICK x \in T : \A y \in T : ~(<<y, x>> \in R)
  BY <1>1, <1>2, <1>4, WFMin
<1> USE DEF T
<1> QED
  BY <1>3, <1>4, <1>5

\* Induction over the subsets of a finite set, along their size.
LEMMA SubsetInduction ==
  ASSUME NEW S, IsFiniteSet(S), NEW G,
         \A s \in SUBSET S : (\A t \in SUBSET s : t # s => t \in G) => s \in G
  PROVE  \A s \in SUBSET S : s \in G
<1> DEFINE N == {n \in Nat : \A s \in SUBSET S : Cardinality(s) = n => s \in G}
<1>1. ASSUME NEW n \in Nat, \A m \in Nat : m < n => m \in N
      PROVE  n \in N
  <2>1. SUFFICES ASSUME NEW s \in SUBSET S, Cardinality(s) = n PROVE s \in G
    OBVIOUS
  <2>2. IsFiniteSet(s)
    BY FS_Subset
  <2>3. ASSUME NEW t \in SUBSET s, t # s PROVE t \in G
    <3>1. Cardinality(t) <= Cardinality(s) /\ Cardinality(t) # Cardinality(s)
      BY <2>2, <2>3, FS_Subset
    <3>2. Cardinality(t) \in Nat
      BY <2>2, FS_Subset, FS_CardinalityType
    <3>3. Cardinality(t) \in N
      BY <1>1, <2>1, <3>1, <3>2
    <3> QED
      BY <3>3
  <2> QED
    BY <2>3
<1> HIDE DEF N
<1>2. \A n \in Nat : n \in N
  BY <1>1, NaturalInduction
<1>3. \A s \in SUBSET S : Cardinality(s) \in Nat
  BY FS_Subset, FS_CardinalityType
<1> QED
  BY <1>2, <1>3 DEF N

\* MapThenSumSet takes an element, and sums the others.
Pick(s) == CHOOSE x \in s : TRUE
Rule(f, s) == IF s = {} THEN 0 ELSE Pick(s).size + f[s \ {Pick(s)}]
Iter(S) == CHOOSE f : f = [s \in SUBSET S |-> Rule(f, s)]

LEMMA BytesIter == ASSUME NEW S PROVE Bytes(S) = Iter(S)[S]
BY DEF Bytes, MapThenSumSet, MapThenFoldSet, Iter, Rule, Pick

LEMMA Picked == ASSUME NEW s, s # {} PROVE Pick(s) \in s
BY DEF Pick

\* Finitely many things that have a size.
Sized(S) == IsFiniteSet(S) /\ \A x \in S : x.size \in Nat

\* The recursive function of MapThenFoldSet exists: it has a value for the sets of
\* n elements once it has one for those of fewer.
LEMMA IterRule ==
  ASSUME NEW S, Sized(S)
  PROVE  Iter(S) = [s \in SUBSET S |-> Rule(Iter(S), s)]
<1> DEFINE Small(n) == {s \in SUBSET S : Cardinality(s) <= n}
           N == {n \in Nat : \E f : \A s \in Small(n) : f[s] = Rule(f, s)}
<1>1. \A s \in SUBSET S : Cardinality(s) \in Nat /\ IsFiniteSet(s)
  BY FS_Subset, FS_CardinalityType DEF Sized
<1>2. ASSUME NEW s \in SUBSET S, s # {}
      PROVE  /\ s \ {Pick(s)} \in SUBSET S
             /\ Cardinality(s \ {Pick(s)}) = Cardinality(s) - 1
  BY <1>1, <1>2, Picked, FS_RemoveElement
<1>3. ASSUME NEW n \in Nat, \A m \in Nat : m < n => m \in N
      PROVE  n \in N
  <2>1. PICK f : \A s \in Small(n - 1) : f[s] = Rule(f, s)
    <3>1. CASE n = 0
      <4>1. Small(n - 1) = {}
        BY <1>1, <3>1
      <4> QED
        BY <4>1
    <3>2. CASE n > 0
      <4>1. n - 1 \in N
        BY <1>3, <3>2
      <4> QED
        BY <4>1
    <3> QED
      BY <3>1, <3>2
  <2> DEFINE g == [s \in SUBSET S |-> IF s \in Small(n - 1) THEN f[s] ELSE Rule(f, s)]
  <2>2. ASSUME NEW s \in Small(n) PROVE g[s] = Rule(g, s)
    <3>1. g[s] = Rule(f, s)
      BY <2>1
    <3>2. CASE s = {}
      BY <3>1, <3>2 DEF Rule
    <3>3. CASE s # {}
      <4>1. s \ {Pick(s)} \in Small(n - 1)
        BY <1>1, <1>2, <3>3
      <4>2. g[s \ {Pick(s)}] = f[s \ {Pick(s)}]
        BY <4>1
      <4> HIDE DEF g
      <4> QED
        BY <3>1, <4>2 DEF Rule
    <3> QED
      BY <3>2, <3>3
  <2> HIDE DEF g
  <2> QED
    BY <2>2
<1> HIDE DEF N
<1>4. Cardinality(S) \in N
  BY <1>1, <1>3, NaturalInduction
<1>5. PICK f : \A s \in Small(Cardinality(S)) : f[s] = Rule(f, s)
  BY <1>4 DEF N
<1>6. Small(Cardinality(S)) = SUBSET S
  BY FS_Subset DEF Sized
<1> DEFINE h == [s \in SUBSET S |-> f[s]]
<1>7. ASSUME NEW s \in SUBSET S PROVE h[s] = Rule(h, s)
  <2>1. h[s] = Rule(f, s)
    BY <1>5, <1>6
  <2>2. s # {} => h[s \ {Pick(s)}] = f[s \ {Pick(s)}]
    BY <1>2
  <2> HIDE DEF h
  <2> QED
    BY <2>1, <2>2 DEF Rule
<1>8. h = [s \in SUBSET S |-> Rule(h, s)]
  <2>1. h = [s \in SUBSET S |-> h[s]]
    OBVIOUS
  <2> HIDE DEF h
  <2>2. [s \in SUBSET S |-> h[s]] = [s \in SUBSET S |-> Rule(h, s)]
    BY <1>7
  <2> QED
    BY <2>1, <2>2
<1> HIDE DEF h
<1>9. \E g : g = [s \in SUBSET S |-> Rule(g, s)]
  BY <1>8
<1> QED
  BY <1>9 DEF Iter

\* It gives a set the same sum as a part of a larger one and alone.
LEMMA IterSame ==
  ASSUME NEW S, Sized(S), NEW T \in SUBSET S
  PROVE  \A s \in SUBSET T : Iter(S)[s] = Iter(T)[s]
<1> DEFINE G == {s \in SUBSET T : Iter(S)[s] = Iter(T)[s]}
<1>1. Sized(T)
  BY FS_Subset DEF Sized
<1>2. ASSUME NEW s \in SUBSET T, \A t \in SUBSET s : t # s => t \in G
      PROVE  s \in G
  <2>1. Iter(S)[s] = Rule(Iter(S), s) /\ Iter(T)[s] = Rule(Iter(T), s)
    BY <1>1, IterRule
  <2>2. CASE s = {}
    BY <2>1, <2>2 DEF Rule
  <2>3. CASE s # {}
    <3>1. s \ {Pick(s)} \in SUBSET s /\ s \ {Pick(s)} # s
      BY <2>3, Picked
    <3>2. s \ {Pick(s)} \in G
      BY <1>2, <3>1
    <3> QED
      BY <2>1, <3>2 DEF Rule
  <2> QED
    BY <2>2, <2>3
<1> HIDE DEF G
<1>3. \A s \in SUBSET T : s \in G
  BY <1>1, <1>2, SubsetInduction DEF Sized
<1> QED
  BY <1>3 DEF G

LEMMA BytesRule ==
  ASSUME NEW S, Sized(S)
  PROVE  /\ S = {} => Bytes(S) = 0
         /\ S # {} => Bytes(S) = Pick(S).size + Bytes(S \ {Pick(S)})
<1>1. Bytes(S) = Rule(Iter(S), S)
  BY IterRule, BytesIter
<1>2. CASE S = {}
  BY <1>1, <1>2 DEF Rule
<1>3. CASE S # {}
  <2>1. Iter(S)[S \ {Pick(S)}] = Iter(S \ {Pick(S)})[S \ {Pick(S)}]
    BY IterSame
  <2> QED
    BY <1>1, <1>3, <2>1, BytesIter DEF Rule
<1> QED
  BY <1>2, <1>3

LEMMA BytesNat ==
  ASSUME NEW S, Sized(S)
  PROVE  \A s \in SUBSET S : Sized(s) /\ Bytes(s) \in Nat
<1> DEFINE G == {s \in SUBSET S : Bytes(s) \in Nat}
<1>1. \A s \in SUBSET S : Sized(s)
  BY FS_Subset DEF Sized
<1>2. ASSUME NEW s \in SUBSET S, \A t \in SUBSET s : t # s => t \in G
      PROVE  s \in G
  <2>1. CASE s = {}
    BY <1>1, <2>1, BytesRule
  <2>2. CASE s # {}
    <3>1. Pick(s) \in s
      BY <2>2, Picked
    <3>2. s \ {Pick(s)} \in G
      BY <1>2, <3>1
    <3>3. Pick(s).size \in Nat
      BY <1>1, <3>1 DEF Sized
    <3>4. Bytes(s) = Pick(s).size + Bytes(s \ {Pick(s)})
      BY <1>1, <2>2, BytesRule
    <3> QED
      BY <3>2, <3>3, <3>4
  <2> QED
    BY <2>1, <2>2
<1> HIDE DEF G
<1>3. \A s \in SUBSET S : s \in G
  BY <1>2, SubsetInduction DEF Sized
<1> QED
  BY <1>1, <1>3 DEF G

\* A sum does not depend on the element that is taken first.
LEMMA BytesWithout ==
  ASSUME NEW S, Sized(S), NEW x \in S
  PROVE  Bytes(S) = x.size + Bytes(S \ {x})
<1> DEFINE G == {s \in SUBSET S : \A y \in s : Bytes(s) = y.size + Bytes(s \ {y})}
<1>1. \A s \in SUBSET S : Sized(s) /\ Bytes(s) \in Nat
  BY BytesNat
<1>2. ASSUME NEW s \in SUBSET S, \A t \in SUBSET s : t # s => t \in G
      PROVE  s \in G
  <2>1. SUFFICES ASSUME NEW y \in s PROVE Bytes(s) = y.size + Bytes(s \ {y})
    OBVIOUS
  <2> DEFINE z == Pick(s)
  <2>2. z \in s
    BY Picked
  <2>3. Bytes(s) = z.size + Bytes(s \ {z})
    BY <1>1, BytesRule
  <2> HIDE DEF z
  <2>4. y.size \in Nat /\ z.size \in Nat
    BY <1>1, <2>2 DEF Sized
  <2>5. CASE y = z
    BY <2>3, <2>5
  <2>6. CASE y # z
    <3>1. s \ {z} \in G /\ s \ {y} \in G
      BY <1>2, <2>2
    <3>2. y \in s \ {z} /\ z \in s \ {y}
      BY <2>2, <2>6
    <3>3. (s \ {z}) \ {y} = (s \ {y}) \ {z}
      OBVIOUS
    <3>4. Bytes(s \ {z}) = y.size + Bytes((s \ {z}) \ {y})
      BY <3>1, <3>2
    <3>5. Bytes(s \ {y}) = z.size + Bytes((s \ {z}) \ {y})
      BY <3>1, <3>2, <3>3
    <3>6. Bytes((s \ {z}) \ {y}) \in Nat
      BY <1>1
    <3> HIDE DEF G
    <3> QED
      BY <2>3, <2>4, <3>4, <3>5, <3>6
  <2> QED
    BY <2>5, <2>6
<1> HIDE DEF G
<1>3. S \in G
  BY <1>2, SubsetInduction DEF Sized
<1> QED
  BY <1>3 DEF G

\* One more allocation.
LEMMA BytesWith ==
  ASSUME NEW S, Sized(S), NEW x, x.size \in Nat, x \notin S
  PROVE  Sized(S \cup {x}) /\ Bytes(S \cup {x}) = Bytes(S) + x.size
<1>1. Sized(S \cup {x})
  BY FS_AddElement DEF Sized
<1>2. (S \cup {x}) \ {x} = S
  OBVIOUS
<1>3. Bytes(S \cup {x}) = x.size + Bytes(S)
  BY <1>1, <1>2, BytesWithout
<1>4. Bytes(S) \in Nat
  BY BytesNat
<1> QED
  BY <1>1, <1>3, <1>4

LEMMA LiveSized ==
  ASSUME TotalInv
  PROVE  /\ Sized(live) /\ total = Bytes(live)
         /\ TypeOK
BY DEF TotalInv, ArenaInv, TypeOK, Allocations, Sized, TotalExact

\* arena_alloc adds what it hands out to the total, once.
LEMMA AllocTotal ==
  ASSUME TotalInv, NEW a, a.size \in Nat, a \notin live,
         live' = live \cup {a}, total' = total + a.size, marks' = marks, ArenaInv'
  PROVE  TotalInv'
<1>1. Sized(live') /\ Bytes(live') = total'
  BY LiveSized, BytesWith
<1>2. IsFiniteSet(live') /\ TotalExact'
  BY <1>1 DEF Sized, TotalExact
<1> QED
  BY <1>2 DEF TotalInv

\* The new allocation is none that is in use: those of its block end where it starts.
LEMMA BumpTotal ==
  ASSUME TotalInv, NEW request \in Requests, Bump(request)
  PROVE  TotalInv'
<1> DEFINE size == AlignSize(request)
           a == Allocation(head, size)
<1>1. size \in Nat /\ size > 0
  BY AlignSizeBounds, ArenaAssumption
<1>2. ArenaInv
  BY DEF TotalInv
<1>3. ArenaInv'
  BY <1>2, BumpInv
<1> HIDE DEF size
<1>4. live' = live \cup {a} /\ total' = total + size /\ marks' = marks /\ Fits(size)
  BY DEF Bump, size
<1>5. a.block = head /\ a.off = used[head] /\ a.size = size
  BY DEF Allocation
<1>6. used[head] \in Nat
  BY <1>2, <1>4, ChainBlocks DEF ArenaInv, Fits
<1>7. a \notin live
  BY <1>1, <1>2, <1>5, <1>6 DEF ArenaInv, LiveIntact
<1> HIDE DEF a
<1> QED
  BY <1>1, <1>3, <1>4, <1>5, <1>7, AllocTotal

\* Nothing in use lies in a block that malloc has only now returned.
LEMMA GrowTotal ==
  ASSUME TotalInv, NEW request \in Requests, Grow(request)
  PROVE  TotalInv'
<1> DEFINE size == AlignSize(request)
           a == [block |-> issued + 1, off |-> 0, size |-> size]
<1>1. size \in Nat
  BY AlignSizeBounds, ArenaAssumption
<1>2. ArenaInv
  BY DEF TotalInv
<1>3. ArenaInv'
  BY <1>2, GrowInv
<1>4. live' = live \cup {a} /\ total' = total + a.size /\ marks' = marks
  BY DEF Grow
<1>5. issued \in 0..MaxBlocks /\ heap \subseteq 1..issued
  BY <1>2 DEF ArenaInv, TypeOK
<1>6. a.block \notin heap
  BY <1>5, ArenaAssumption
<1>7. a \notin live
  BY <1>2, <1>6 DEF ArenaInv, LiveIntact
<1> QED
  BY <1>1, <1>3, <1>4, <1>7, AllocTotal

\* A mark is taken with the total of what is in use then.
LEMMA MarkTotal ==
  ASSUME TotalInv, Mark
  PROVE  TotalInv'
<1>1. ArenaInv'
  BY MarkInv DEF TotalInv
<1> DEFINE m == [block |-> head, used |-> IF head = Null THEN 0 ELSE used[head],
                 total |-> total, live |-> live]
<1>2. marks' = Append(marks, m) /\ live' = live /\ total' = total
  BY DEF Mark
<1>3. marks \in Seq(MarkType) /\ marks' \in Seq(MarkType)
  BY <1>1 DEF TotalInv, ArenaInv, TypeOK, MarkType, Allocations, Blocks
<1>4. m.total = Bytes(m.live)
  BY DEF TotalInv, TotalExact
<1> HIDE DEF m
<1>5. ASSUME NEW i \in 1..Len(marks') PROVE marks'[i].total = Bytes(marks'[i].live)
  <2>1. i = Len(marks) + 1 \/ i \in 1..Len(marks)
    BY <1>2, <1>3
  <2>2. marks'[i] = IF i = Len(marks) + 1 THEN m ELSE marks[i]
    BY <1>2, <1>3, <2>1
  <2> QED
    BY <1>4, <2>1, <2>2 DEF TotalInv
<1> QED
  BY <1>1, <1>2, <1>5 DEF TotalInv, TotalExact

\* arena_release goes back to the mark's total and to what the mark keeps, all of
\* which is still in use.
LEMMA ReleaseTotal ==
  ASSUME TotalInv, Release
  PROVE  TotalInv'
<1>1. ArenaInv'
  BY ReleaseInv DEF TotalInv
<1> DEFINE n == Len(marks)
           m == marks[n]
<1>2. /\ marks # <<>> /\ live' = live \cap m.live /\ total' = m.total
      /\ marks' = SubSeq(marks, 1, n - 1)
  BY DEF Release, TotalAfter
<1>3. marks \in Seq(MarkType)
  BY DEF TotalInv, ArenaInv, TypeOK
<1>4. n \in Nat /\ n > 0 /\ n \in 1..n
  BY <1>2, <1>3
<1>5. m.live \subseteq live
  BY <1>4 DEF TotalInv, ArenaInv, MarkKeeps
<1>6. live' = m.live
  BY <1>2, <1>5
<1>7. m.total = Bytes(m.live)
  BY <1>4 DEF TotalInv
<1>8. IsFiniteSet(live')
  BY <1>5, <1>6, FS_Subset DEF TotalInv
<1>9. \A i \in 1..Len(marks') : i \in 1..n /\ marks'[i] = marks[i]
  BY <1>2, <1>3, <1>4
<1> QED
  BY <1>1, <1>2, <1>6, <1>7, <1>8, <1>9 DEF TotalInv, TotalExact

LEMMA SameTotal ==
  ASSUME TotalInv, UNCHANGED <<live, total, marks>>, ArenaInv'
  PROVE  TotalInv'
BY DEF TotalInv, TotalExact

LEMMA EmptyTotal ==
  ASSUME live = {}, total = 0, Len(marks) = 0, ArenaInv
  PROVE  TotalInv
<1>1. Sized({})
  BY FS_EmptySet DEF Sized
<1>2. Bytes({}) = 0
  BY <1>1, BytesRule
<1>3. IsFiniteSet(live) /\ TotalExact
  BY <1>2, FS_EmptySet DEF TotalExact
<1> QED
  BY <1>3 DEF TotalInv

\* What arena->total says is what the client holds, byte for byte, after any
\* sequence of allocations, marks and releases.
THEOREM LimitCountsWhatIsUsed == Spec => []TotalExact
<1>1. Init => TotalInv
  BY InitInv, EmptyTotal DEF Init
<1>2. TotalInv /\ [Next]_vars => TotalInv'
  <2> SUFFICES ASSUME TotalInv, [Next]_vars PROVE TotalInv'
    OBVIOUS
  <2>1. ArenaInv
    BY DEF TotalInv
  <2>2. CASE \E request \in Requests : Bump(request)
    BY <2>2, BumpTotal
  <2>3. CASE \E request \in Requests : Grow(request)
    BY <2>3, GrowTotal
  <2>4. CASE Mark
    BY <2>4, MarkTotal
  <2>5. CASE Release
    BY <2>5, ReleaseTotal
  <2>6. CASE Destroy
    <3>1. ArenaInv'
      BY <2>1, <2>6, DestroyInv
    <3>2. live' = {} /\ total' = 0 /\ marks' = <<>>
      BY <2>6 DEF Destroy
    <3>3. Sized({}) /\ Bytes({}) = 0
      BY FS_EmptySet, BytesRule DEF Sized
    <3> QED
      BY <3>1, <3>2, <3>3, FS_EmptySet DEF TotalInv, TotalExact
  <2>7. CASE Create
    BY <2>1, <2>7, UnchangedInv, SameTotal DEF Create
  <2>8. CASE UNCHANGED vars
    <3>1. ArenaInv'
      BY <2>1, <2>8, UnchangedInv DEF vars, ArenaInv, TypeOK
    <3> QED
      BY <2>8, <3>1, SameTotal DEF vars
  <2> QED
    BY <2>2, <2>3, <2>4, <2>5, <2>6, <2>7, <2>8 DEF Next
<1>3. TotalInv => TotalExact
  BY DEF TotalInv
<1> QED
  BY <1>1, <1>2, <1>3, PTL DEF Spec
=============================================================================
