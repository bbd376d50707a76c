----------------------------- MODULE TargetHeap -----------------------------
(***************************************************************************)
(* The target's heap: malloc, calloc, realloc and free of                  *)
(* src/runtime/target_alloc.c, and the mapping table of                    *)
(* src/runtime/target_map.c, over the two services cc64_alloc and          *)
(* cc64_free, whose thunks the encoder emits.                              *)
(*                                                                         *)
(* Sizes and addresses are numbers below Word, in bytes. What the program  *)
(* keeps in a block is the number of bytes it has written at its start.    *)
(***************************************************************************)
EXTENDS Integers

CONSTANTS
  Word,      \* 2^64
  HeapEnd,   \* where the memory the target gives out ends
  Slots,     \* CC64_MAPPING_SLOTS
  Requests,  \* the sizes and lengths the program asks for
  Counts     \* the counts it asks calloc for

Paragraph == 16 \* CC64_GRANULARITY, and what the service counts in
Header == 16    \* CC64_HEAP_HEADER

ASSUME HeapAssumption ==
  /\ Word \in Nat /\ HeapEnd \in Nat /\ HeapEnd < Word - 1
  /\ Slots \in Nat
  /\ Requests \subseteq 0..(Word - 1)
  /\ Counts \subseteq 0..(Word - 1)

Null == 0
Refused == Word - 1  \* (void *)-1, and MAP_FAILED

VARIABLES
  blocks,   \* the service's blocks in use: how many bytes the one at a base has
  sizes,    \* the size header of each block that malloc handed on, by base
  held,     \* history: the size last asked for, by pointer the program holds
  written,  \* history: the bytes the program has written there
  mappings, \* the table: [base, length, in_use] by slot
  asked,    \* history: the length asked for, by slot
  result    \* what the last call answered: [call, address, length, value]

vars == <<blocks, sizes, held, written, mappings, asked, result>>

Extend(f, x, v) == [y \in DOMAIN f \cup {x} |-> IF y = x THEN v ELSE f[y]]
Without(f, x) == [y \in DOMAIN f \ {x} |-> f[y]]

Least(a, b) == IF a < b THEN a ELSE b

Answer(call, address, length, value) ==
  result' = [call |-> call, address |-> address, length |-> length, value |-> value]

-----------------------------------------------------------------------------
(* The services *)

\* The thunk of cc64_alloc rounds the size up to paragraphs, in 64 bits.
Granted(size) == (((size + Paragraph - 1) % Word) \div Paragraph) * Paragraph

\* Each block has a paragraph of the target's own before it.
Free(base, length) ==
  /\ base % Paragraph = 0
  /\ Paragraph < base /\ base + length <= HeapEnd
  /\ \A other \in DOMAIN blocks :
       \/ base + length <= other - Paragraph
       \/ other + blocks[other] <= base - Paragraph

\* Where a block of a size may be, and the answer of a refusal.
Allocations(size) == {base \in 1..HeapEnd : Free(base, Granted(size))} \cup {Refused}

Allocated(base, size) == blocks' = Extend(blocks, base, Granted(size))

\* cc64_free gives back the block at base; there may be none.
Freed(base) == blocks' = Without(blocks, base)

-----------------------------------------------------------------------------
(* malloc and its kin *)

\* A request for nothing is passed on.
UsableAsIs(size) == size

Usable(size) == IF size = 0 THEN 1 ELSE size

\* The block is asked for without room for its header.
WithoutHeader(size) == size

\* What malloc asks the service for.
WithHeader(size) == size + Header

Overflows(size) == size > Word - 1 - Header

\* What malloc can find: a block, or Refused for the answer NULL.
Places(size) == IF Overflows(size) THEN {Refused} ELSE Allocations(WithHeader(size))

\* malloc(size) hands on a new block at base, whose first bytes the program, or
\* the library for it, has filled.
Handed(base, size, filled) ==
  /\ Allocated(base, WithHeader(Usable(size)))
  /\ sizes' = Extend(sizes, base, Usable(size))
  /\ held' = Extend(held, base + Header, size)
  /\ written' = Extend(written, base + Header, filled)

Kept == UNCHANGED <<blocks, sizes, held, written>>

Malloc ==
  /\ \E size \in Requests : \E base \in Places(Usable(size)) :
       \/ /\ base = Refused
          /\ Kept
          /\ Answer("malloc", Null, size, Null)
       \/ /\ base # Refused
          /\ Handed(base, size, 0)
          /\ Answer("malloc", Null, size, base + Header)
  /\ UNCHANGED <<mappings, asked>>

\* calloc refuses a product that does not fit and fills what it hands on.
Calloc ==
  /\ \E count \in Counts, size \in Requests :
       LET total == (count * size) % Word
           fits == count * size <= Word - 1
       IN
       \/ /\ ~fits
          /\ Kept
          /\ Answer("calloc", Null, size, Null)
       \/ /\ fits
          /\ \E base \in Places(Usable(total)) :
               \/ /\ base = Refused
                  /\ Kept
                  /\ Answer("calloc", Null, size, Null)
               \/ /\ base # Refused
                  /\ Handed(base, total, total)
                  /\ Answer("calloc", Null, size, base + Header)
  /\ UNCHANGED <<mappings, asked>>

\* free, of a pointer that is held or NULL.
FreePointer ==
  /\ \/ Kept /\ Answer("free", Null, 0, Null)
     \/ \E pointer \in DOMAIN held :
          /\ Freed(pointer - Header)
          /\ sizes' = Without(sizes, pointer - Header)
          /\ held' = Without(held, pointer)
          /\ written' = Without(written, pointer)
          /\ Answer("free", pointer, 0, Null)
  /\ UNCHANGED <<mappings, asked>>

\* The old block is not given back.
GivesNothingBack(base) == FALSE

\* realloc frees the old block once it has copied it.
GivesBack(base) == TRUE

\* Only what the new size asks for is copied.
CopiedAsked(previous, size) == 0

\* memcpy(next, pointer, previous)
Copied(previous, size) == previous

\* realloc keeps the block that is large enough, and its size header with it.
\* Otherwise it moves to a new one; a refusal is -1 and keeps the old one.
Realloc ==
  /\ \E pointer \in DOMAIN held, size \in Requests :
       LET base == pointer - Header
           previous == sizes[base]
       IN
       \/ /\ size = 0
          /\ Freed(base)
          /\ sizes' = Without(sizes, base)
          /\ held' = Without(held, pointer)
          /\ written' = Without(written, pointer)
          /\ Answer("realloc", pointer, size, Null)
       \/ /\ size # 0 /\ size <= previous
          /\ held' = [held EXCEPT ![pointer] = size]
          /\ written' = [written EXCEPT ![pointer] = Least(@, size)]
          /\ UNCHANGED <<blocks, sizes>>
          /\ Answer("realloc", pointer, size, pointer)
       \/ /\ size > previous
          /\ \E next \in Places(size) :
               \/ /\ next = Refused
                  /\ Kept
                  /\ Answer("realloc", pointer, size, Refused)
               \/ /\ next # Refused
                  /\ blocks' =
                       LET grown == Extend(blocks, next, Granted(WithHeader(size)))
                       IN  IF GivesBack(base) THEN Without(grown, base) ELSE grown
                  /\ sizes' = Without(Extend(sizes, next, size), base)
                  /\ held' = Without(Extend(held, next + Header, size), pointer)
                  /\ written' =
                       Without(Extend(written, next + Header,
                                      Least(written[pointer], Copied(previous, size))),
                               pointer)
                  /\ Answer("realloc", pointer, size, next + Header)
  /\ UNCHANGED <<mappings, asked>>

\* The program fills what it asked for.
Write ==
  /\ \E pointer \in DOMAIN held :
       /\ written[pointer] < held[pointer]
       /\ written' = [written EXCEPT ![pointer] = held[pointer]]
  /\ UNCHANGED <<blocks, sizes, held, mappings, asked, result>>

-----------------------------------------------------------------------------
(* Mappings *)

Unused == [base |-> Null, length |-> 0, in_use |-> FALSE]

FirstUnused(slot) ==
  /\ ~mappings[slot].in_use
  /\ \A other \in 1..(slot - 1) : mappings[other].in_use

\* In use is what the table says it is.
Holds(slot, address) ==
  /\ mappings[slot].in_use
  /\ mappings[slot].base <= address
  /\ address < (mappings[slot].base + mappings[slot].length) % Word

\* find_mapping
Finds(slot, address) ==
  /\ Holds(slot, address)
  /\ \A other \in 1..(slot - 1) : ~Holds(other, address)

\* The length is rounded up with a mask, in 64 bits.
Rounded(length) == (((length + Paragraph - 1) % Word) \div Paragraph) * Paragraph

\* The mapping records what the service answered unless that is NULL, and a
\* refusal is not NULL.
Mmap ==
  /\ \E length \in Requests :
       \/ /\ length = 0
          /\ Answer("mmap", Null, length, Refused)
          /\ UNCHANGED <<blocks, mappings, asked>>
       \/ /\ length # 0
          /\ \A slot \in 1..Slots : mappings[slot].in_use
          /\ Answer("mmap", Null, length, Refused)
          /\ UNCHANGED <<blocks, mappings, asked>>
       \/ /\ length # 0
          /\ \E slot \in 1..Slots : \E base \in Allocations(Rounded(length)) :
               /\ FirstUnused(slot)
               /\ IF base = Refused THEN UNCHANGED blocks
                                    ELSE Allocated(base, Rounded(length))
               /\ mappings' = [mappings EXCEPT ![slot] =
                                 [base |-> base, length |-> Rounded(length),
                                  in_use |-> TRUE]]
               /\ asked' = [asked EXCEPT ![slot] = length]
               /\ Answer("mmap", Null, length, base)
  /\ UNCHANGED <<sizes, held, written>>

\* The addresses and lengths a program releases: those of its mappings, and
\* MAP_FAILED itself.
Addresses == {mappings[slot].base : slot \in 1..Slots} \cup {Refused}
            \cup {mappings[slot].base + 1 : slot \in {s \in 1..Slots : mappings[s].in_use}}

Lengths == Requests \cup {asked[slot] : slot \in 1..Slots}

\* A release of part of a mapping is refused.
WholeLength(slot, length) == length = 0 \/ length = mappings[slot].length

Munmap ==
  /\ \E address \in Addresses, length \in Lengths :
       \/ /\ \A slot \in 1..Slots : ~Holds(slot, address)
          /\ Answer("munmap", address, length, -1)
          /\ UNCHANGED <<blocks, mappings, asked>>
       \/ \E slot \in 1..Slots :
            /\ Finds(slot, address)
            /\ \/ /\ ~WholeLength(slot, length)
                  /\ Answer("munmap", address, length, -1)
                  /\ UNCHANGED <<blocks, mappings, asked>>
               \/ /\ WholeLength(slot, length)
                  /\ Freed(mappings[slot].base)
                  /\ mappings' = [mappings EXCEPT ![slot] = Unused]
                  /\ asked' = [asked EXCEPT ![slot] = 0]
                  /\ Answer("munmap", address, length, 0)
  /\ UNCHANGED <<sizes, held, written>>

\* mprotect and madvise only find out whether the address is mapped.
Advise ==
  /\ \E address \in Addresses :
       Answer("advise", address, 0,
              IF \E slot \in 1..Slots : Holds(slot, address) THEN 0 ELSE -1)
  /\ UNCHANGED <<blocks, sizes, held, written, mappings, asked>>

Init ==
  /\ blocks = <<>> /\ sizes = <<>> /\ held = <<>> /\ written = <<>>
  /\ mappings = [slot \in 1..Slots |-> Unused]
  /\ asked = [slot \in 1..Slots |-> 0]
  /\ result = [call |-> "none", address |-> Null, length |-> 0, value |-> Null]

Next == Malloc \/ Calloc \/ FreePointer \/ Realloc \/ Write \/ Mmap \/ Munmap \/ Advise

Spec == Init /\ [][Next]_vars

-----------------------------------------------------------------------------
TypeOK ==
  /\ blocks \in [DOMAIN blocks -> Nat] /\ DOMAIN blocks \subseteq 1..HeapEnd
  /\ sizes \in [DOMAIN sizes -> 1..(Word - 1)] /\ DOMAIN sizes \subseteq 1..HeapEnd
  /\ held \in [DOMAIN held -> 0..(Word - 1)] /\ DOMAIN held \subseteq 1..(HeapEnd + Header)
  /\ written \in [DOMAIN held -> 0..(Word - 1)]
  /\ mappings \in [1..Slots -> [base : 0..(Word - 1), length : 0..(Word - 1),
                                in_use : BOOLEAN]]
  /\ asked \in [1..Slots -> 0..(Word - 1)]

\* Every pointer the program holds lies in a block of the service, behind the
\* header that records at least the size it was last asked for, and the block
\* has room for both, whatever reallocations came before.
StorageFits ==
  \A pointer \in DOMAIN held :
    LET base == pointer - Header IN
    /\ base \in DOMAIN blocks /\ base \in DOMAIN sizes
    /\ held[pointer] <= sizes[base]
    /\ Header + sizes[base] <= blocks[base]

\* Every block of the service is a held pointer's or a mapping's and no block is
\* both: none is lost, and none is in the hands of two owners.
BlocksOwned ==
  LET pointers == {pointer - Header : pointer \in DOMAIN held}
      mapped == {slot \in 1..Slots : mappings[slot].in_use /\ mappings[slot].base # Refused}
      bases == {mappings[slot].base : slot \in mapped}
  IN
  /\ DOMAIN blocks = pointers \cup bases
  /\ pointers \cap bases = {}
  /\ \A s, t \in mapped : mappings[s].base = mappings[t].base => s = t

\* What a pointer has: a header, which records at least what was last asked for, and no
\* more written than that.
HeadersKnown ==
  \A pointer \in DOMAIN held :
    /\ pointer - Header \in DOMAIN sizes
    /\ held[pointer] <= sizes[pointer - Header]
    /\ written[pointer] <= held[pointer]

HeapInv == TypeOK /\ BlocksOwned /\ HeadersKnown

\* No size that malloc or calloc passes on wraps when it is rounded to paragraphs.
NothingWraps ==
  \A size \in Requests \cup {count * n : count \in Counts, n \in Requests} :
    ~Overflows(Usable(size)) => WithHeader(Usable(size)) + Paragraph - 1 < Word

\* realloc carries over all that was written and fits, however often the block
\* has shrunk and moved.
ContentsKept ==
  [][result'.call = "realloc" /\ result' # result /\ result'.value \notin {Null, Refused}
       => /\ result'.value \in DOMAIN written'
          /\ result'.address \in DOMAIN written
          /\ written'[result'.value] =
               Least(written[result'.address], held'[result'.value])]_vars

\* cc64_alloc hands back -1 for a refusal "and the runtime library is written
\* against that one rule" (docs/specs/runtime-v1.md:21): what the table holds as
\* in use is a block of the service.
MappingsAreBlocks ==
  \A slot \in 1..Slots : mappings[slot].in_use => mappings[slot].base \in DOMAIN blocks

\* "A block of the requested size or nothing" (include/target/sys/mman.h:7): what
\* a program holds or has mapped has the bytes it asked for.
GrantsHoldRequest ==
  /\ \A pointer \in DOMAIN held : Header + held[pointer] <= blocks[pointer - Header]
  /\ \A slot \in 1..Slots :
       mappings[slot].in_use /\ mappings[slot].base # Refused =>
         asked[slot] <= blocks[mappings[slot].base]

\* "A later request about the same range can be answered with the length it was
\* given" (src/runtime/target_map.c:8): a release that names a mapping by its
\* address and the length it was asked for is not refused.
UnmapByRequest ==
  [][\A slot \in 1..Slots :
       LET m == mappings[slot] IN
       /\ m.in_use /\ m.base \in DOMAIN blocks
       /\ result' # result /\ result'.call = "munmap"
       /\ result'.address = m.base /\ result'.length = asked[slot]
       => result'.value = 0]_vars
=============================================================================
