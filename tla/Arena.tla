------------------------------- MODULE Arena -------------------------------
(***************************************************************************)
(* The bump allocator of src/common/arena.c, under the contract stated     *)
(* above arena_release: marks are released in the reverse of the order in  *)
(* which they were taken, and nothing allocated after a mark is used once  *)
(* the mark has been released.                                             *)
(*                                                                         *)
(* An arena is a singly linked list of heap blocks, the newest first.      *)
(* Blocks are numbered in the order malloc returned them, so the list is   *)
(* the set chain in descending order and head is its greatest member.      *)
(***************************************************************************)
EXTENDS Integers, Sequences, FiniteSetsExt

CONSTANTS
  Limit,      \* arena_create's limit: the bytes an arena may hand out
  BlockSize,  \* the usual capacity of one block, 65536 in the code
  Align,      \* ARENA_ALIGNMENT
  Requests,   \* the sizes arena_alloc is asked for
  MaxBlocks,  \* bound: blocks taken from malloc in one behaviour
  MaxMarks    \* bound: marks held at once

ASSUME ArenaAssumption ==
  /\ Limit \in Nat /\ BlockSize \in Nat \ {0} /\ Align \in Nat \ {0}
  /\ Requests \subseteq Nat
  /\ MaxBlocks \in Nat /\ MaxMarks \in Nat

VARIABLES
  alive,     \* the arena exists: created and not yet destroyed
  issued,    \* how many blocks malloc has returned so far
  heap,      \* the blocks malloc returned and free has not taken back
  used,      \* ArenaBlock.used
  capacity,  \* ArenaBlock.capacity
  chain,     \* the blocks reachable from arena->head
  head,      \* arena->head
  total,     \* arena->total
  marks,     \* the ArenaMarks held by the client, the innermost last
  live       \* the allocations the client may still use

vars == <<alive, issued, heap, used, capacity, chain, head, total, marks, live>>

Null == 0
Blocks == 1..MaxBlocks

\* align_size, with the one byte that stands for an empty request. A request
\* that would overflow size_t is larger than any limit, so it is refused by
\* the limit below and needs no case of its own.
AlignSize(size) ==
  LET n == (IF size = 0 THEN 1 ELSE size) + Align - 1
  IN  n - (n % Align)

Allocation(block, size) == [block |-> block, off |-> used[block], size |-> size]

\* One byte of the check is lost: a request is placed in a block it overruns.
FitsOffByOne(size) == head # Null /\ capacity[head] + Align - used[head] >= size

\* The head block has room for an aligned request.
Fits(size) == head # Null /\ capacity[head] - used[head] >= size

\* The capacity of a block taken for an aligned request: the usual one, unless
\* the request is larger or less than that is left under the limit.
NewCapacity(size) ==
  LET wanted == IF size > BlockSize THEN size ELSE BlockSize
      remaining == Limit - total
  IN  IF wanted > remaining THEN remaining ELSE wanted

\* arena_alloc, served from the block at the head of the list.
Bump(request) ==
  LET size == AlignSize(request) IN
  /\ alive
  /\ total + size <= Limit
  /\ Fits(size)
  /\ live' = live \cup {Allocation(head, size)}
  /\ used' = [used EXCEPT ![head] = @ + size]
  /\ total' = total + size
  /\ UNCHANGED <<alive, issued, heap, capacity, chain, head, marks>>

\* arena_alloc, served from a new block pushed on the list. What is left of
\* the old head block is abandoned.
Grow(request) ==
  LET size == AlignSize(request)
      block == issued + 1
  IN
  /\ alive
  /\ total + size <= Limit
  /\ ~Fits(size)
  /\ issued < MaxBlocks
  /\ issued' = block
  /\ heap' = heap \cup {block}
  /\ chain' = chain \cup {block}
  /\ head' = block
  /\ capacity' = [capacity EXCEPT ![block] = NewCapacity(size)]
  /\ used' = [used EXCEPT ![block] = size]
  /\ live' = live \cup {[block |-> block, off |-> 0, size |-> size]}
  /\ total' = total + size
  /\ UNCHANGED <<alive, marks>>

\* arena_mark: the block at the head, how much of it is used, and the total.
\* live is what the mark promises to keep; the code does not store it.
Mark ==
  /\ alive
  /\ Len(marks) < MaxMarks
  /\ marks' = Append(marks, [block |-> head,
                             used |-> IF head = Null THEN 0 ELSE used[head],
                             total |-> total,
                             live |-> live])
  /\ UNCHANGED <<alive, issued, heap, used, capacity, chain, head, total, live>>

\* The walk frees the marked block as well before it stops.
FreedIncludesMarked(m) ==
  IF m.block \in chain THEN {b \in chain : b >= m.block} ELSE chain

\* The blocks arena_release frees: it walks the list from the head until it
\* meets the marked block, and to the end of the list when it never does.
Freed(m) == IF m.block \in chain THEN {b \in chain : b > m.block} ELSE chain

\* The mark's total is forgotten.
TotalAfterForgotten(m) == total

TotalAfter(m) == m.total

\* arena_release of the innermost mark. The marked block's next pointer is
\* cleared, which drops every older block from the list without freeing it.
Release ==
  LET m == marks[Len(marks)]
      found == m.block \in chain
  IN
  /\ alive
  /\ marks # <<>>
  /\ heap' = heap \ Freed(m)
  /\ chain' = IF found THEN {m.block} ELSE {}
  /\ head' = IF found THEN m.block ELSE Null
  /\ used' = IF found THEN [used EXCEPT ![m.block] = m.used] ELSE used
  /\ total' = TotalAfter(m)
  /\ marks' = SubSeq(marks, 1, Len(marks) - 1)
  /\ live' = live \cap m.live
  /\ UNCHANGED <<alive, issued, capacity>>

\* arena_destroy: every block still on the list is freed.
Destroy ==
  /\ alive
  /\ alive' = FALSE
  /\ heap' = heap \ chain
  /\ chain' = {} /\ head' = Null /\ total' = 0
  /\ marks' = <<>> /\ live' = {}
  /\ UNCHANGED <<issued, used, capacity>>

\* arena_create, as the driver does for each further input.
Create ==
  /\ ~alive
  /\ alive' = TRUE
  /\ UNCHANGED <<issued, heap, used, capacity, chain, head, total, marks, live>>

Init ==
  /\ alive = TRUE
  /\ issued = 0 /\ heap = {} /\ chain = {} /\ head = Null /\ total = 0
  /\ used = [b \in Blocks |-> 0] /\ capacity = [b \in Blocks |-> 0]
  /\ marks = <<>> /\ live = {}

Next ==
  \/ \E request \in Requests : Bump(request)
  \/ \E request \in Requests : Grow(request)
  \/ Mark
  \/ Release
  \/ Destroy
  \/ Create

Spec == Init /\ [][Next]_vars

-----------------------------------------------------------------------------
Allocations == [block : Blocks, off : Nat, size : Nat]
MarkType == [block : Blocks \cup {Null}, used : Nat, total : 0..Limit,
             live : SUBSET Allocations]

\* Types, with the bounds the counters keep: no block is filled past its
\* capacity and the total stays under the arena's limit.
TypeOK ==
  /\ alive \in BOOLEAN
  /\ issued \in 0..MaxBlocks
  /\ heap \subseteq 1..issued
  /\ used \in [Blocks -> Nat] /\ capacity \in [Blocks -> Nat]
  /\ \A b \in Blocks : used[b] <= capacity[b]
  /\ chain \subseteq heap
  /\ IF head = Null THEN chain = {}
                    ELSE head \in chain /\ \A b \in chain : b <= head
  /\ total \in 0..Limit
  /\ marks \in Seq(MarkType)
  /\ live \subseteq Allocations

Overlap(a, b) ==
  /\ a.block = b.block
  /\ a.off < b.off + b.size
  /\ b.off < a.off + a.size

\* Every allocation the client may still use lies in a block that has not been
\* freed and below that block's fill, and no two such allocations share a byte,
\* whatever sequence of nested marks and releases went before: arena_release
\* takes back nothing older than its mark, and the next arena_alloc hands out
\* nothing that is still in use.
LiveIntact ==
  /\ \A a \in live : a.block \in heap /\ a.off + a.size <= used[a.block]
  /\ \A a, b \in live : a # b => ~Overlap(a, b)

\* While a mark is held the block it names is never freed, so arena_release
\* never compares the list with the address of a dead block (which malloc could
\* have given to a block taken after the mark).
MarksNeverDangle ==
  \A i \in 1..Len(marks) : marks[i].block # Null => marks[i].block \in heap

\* Why the releases are safe. What the marks keep is ordered like the marks
\* themselves; a block still on the list is never newer than a mark that
\* protects it, and that mark's own block is then on the list too.
MarkKeeps(m) ==
  /\ m.block # Null => m.used <= used[m.block]
  /\ m.live \subseteq live
  /\ \A a \in m.live :
       /\ a.block \in chain => m.block \in chain /\ a.block <= m.block
       /\ a.block = m.block => a.off + a.size <= m.used

MarksNested(outer, inner) ==
  /\ outer.live \subseteq inner.live
  /\ outer.block \in chain => inner.block \in chain /\ outer.block <= inner.block
  /\ outer.block # Null /\ outer.block = inner.block => outer.used <= inner.used

\* The inductive invariant behind LiveIntact and MarksNeverDangle.
ArenaInv ==
  /\ TypeOK
  /\ LiveIntact
  /\ MarksNeverDangle
  /\ \A i \in 1..Len(marks) : MarkKeeps(marks[i])
  /\ \A i, j \in 1..Len(marks) : i < j => MarksNested(marks[i], marks[j])

-----------------------------------------------------------------------------
Bytes(allocations) == MapThenSumSet(LAMBDA a : a.size, allocations)

\* arena->total is exactly the bytes of the allocations that are still in use:
\* a release restores the total of the moment its mark was taken, however many
\* blocks were pushed, freed or dropped in between. The limit is enforced on
\* this number, so a drift would refuse allocations early or never.
TotalExact == total = Bytes(live)

\* TotalExact is kept because each mark's total is that of what the mark keeps.
TotalInv ==
  /\ ArenaInv
  /\ IsFiniteSet(live) /\ TotalExact
  /\ \A i \in 1..Len(marks) : marks[i].total = Bytes(marks[i].live)

\* "A mark records an allocation point so the space taken since then can be
\* released" (src/cc64.h:24): once a mark is released, no block the heap still
\* holds counts the bytes of an allocation made after it. Nested marks break
\* it: the inner release cuts the list below its block, so the outer release no
\* longer finds its own block and leaves the bytes taken since in place.
SpaceReturned ==
  [][Len(marks') < Len(marks) /\ alive'
     => \A a \in live \ live' : a.block \in heap' => a.off >= used'[a.block]]_vars
=============================================================================
