-------------------------- MODULE HeapClockProofs --------------------------
(***************************************************************************)
(* Whatever a program allocates, resizes, gives back and maps, every block *)
(* of the service has one owner, and realloc carries over what was written.*)
(* HeapInv (TargetHeap.tla) is the inductive invariant. Where no size wraps*)
(* when it is rounded, every block has room for its header and for what it *)
(* was asked for.                                                          *)
(*                                                                         *)
(* The clock, at the end, shares nothing with the heap: whatever it shows, *)
(* its moments are those of the calendar. ClockInv (TargetClock.tla) is the*)
(* inductive invariant.                                                    *)
(***************************************************************************)
EXTENDS TargetHeap, TargetClock, WellFoundedInduction, TLAPS

Numbers == 0..(Word - 1)
Pointers(h) == {pointer - Header : pointer \in DOMAIN h}
Mapped(m) == {slot \in 1..Slots : m[slot].in_use /\ m[slot].base # Refused}
Bases(m) == {m[slot].base : slot \in Mapped(m)}
Mappings == [base : Numbers, length : Numbers, in_use : BOOLEAN]

\* The three parts of BlocksOwned, of what the tables are.
Owned(b, h, m) ==
  /\ DOMAIN b = Pointers(h) \cup Bases(m)
  /\ Pointers(h) \cap Bases(m) = {}
  /\ \A s, t \in Mapped(m) : m[s].base = m[t].base => s = t

LEMMA OwnedSame == BlocksOwned <=> Owned(blocks, held, mappings)
BY DEF BlocksOwned, Owned, Pointers, Mapped, Bases

-----------------------------------------------------------------------------
(* Tables *)

LEMMA Extended ==
  ASSUME NEW f, NEW x, NEW v
  PROVE  /\ DOMAIN Extend(f, x, v) = DOMAIN f \cup {x}
         /\ Extend(f, x, v)[x] = v
         /\ \A y \in DOMAIN f : y # x => Extend(f, x, v)[y] = f[y]
BY DEF Extend

LEMMA ExtendedTyped ==
  ASSUME NEW S, NEW D, NEW f, f \in [D -> S], NEW x, NEW v, v \in S, NEW g, g = Extend(f, x, v)
  PROVE  g \in [D \cup {x} -> S]
BY DEF Extend

LEMMA Shortened ==
  ASSUME NEW f, NEW x
  PROVE  /\ DOMAIN Without(f, x) = DOMAIN f \ {x}
         /\ \A y \in DOMAIN f : y # x => Without(f, x)[y] = f[y]
BY DEF Without

LEMMA ShortenedTyped ==
  ASSUME NEW S, NEW D, NEW f, f \in [D -> S], NEW x, NEW g, g = Without(f, x)
  PROVE  g \in [D \ {x} -> S]
BY DEF Without

LEMMA GrantedNat == ASSUME NEW size \in Nat PROVE Granted(size) \in Nat
BY HeapAssumption DEF Granted, Paragraph

\* A block the service gives out is new.
LEMMA NewBlock ==
  ASSUME HeapInv, NEW size \in Nat, NEW base \in Allocations(size), base # Refused
  PROVE  base \in 1..HeapEnd /\ base \notin DOMAIN blocks /\ base \in Numbers
<1>1. base \in 1..HeapEnd /\ Free(base, Granted(size))
  BY DEF Allocations
<1>2. ASSUME base \in DOMAIN blocks PROVE FALSE
  <2>1. blocks[base] \in Nat /\ Granted(size) \in Nat
    BY <1>2, GrantedNat DEF HeapInv, TypeOK
  <2>2. \/ base + Granted(size) <= base - Paragraph
        \/ base + blocks[base] <= base - Paragraph
    BY <1>1, <1>2 DEF Free
  <2> QED
    BY <1>1, <2>1, <2>2, HeapAssumption DEF Paragraph
<1> QED
  BY <1>1, <1>2, HeapAssumption DEF Numbers

-----------------------------------------------------------------------------
(* Each step *)

\* A new block, and a pointer to what is behind its header.
LEMMA HandedTyped ==
  ASSUME HeapInv, NEW size \in Numbers, NEW filled \in 0..size,
         NEW base \in Allocations(WithHeader(Usable(size))), base # Refused,
         Handed(base, size, filled), UNCHANGED <<mappings, asked>>
  PROVE  TypeOK'
<1>1. WithHeader(Usable(size)) \in Nat /\ Usable(size) \in 1..(Word - 1)
  <2>1. Word > 1
    BY NewBlock, HeapAssumption DEF Allocations
  <2> QED
    BY <2>1, HeapAssumption DEF Numbers, WithHeader, Usable, Header
<1>2. base \in 1..HeapEnd /\ base + Header \in 1..(HeapEnd + Header)
  BY <1>1, NewBlock, HeapAssumption DEF Header
<1> DEFINE granted == Granted(WithHeader(Usable(size)))
<1>3. granted \in Nat
  BY <1>1, GrantedNat
<1>4. size \in 0..(Word - 1) /\ filled \in 0..(Word - 1)
  BY HeapAssumption DEF Numbers
<1>5. blocks' \in [DOMAIN blocks \cup {base} -> Nat] /\ DOMAIN blocks \cup {base} \subseteq 1..HeapEnd
  <2>1. blocks' = Extend(blocks, base, granted) /\ blocks \in [DOMAIN blocks -> Nat]
    BY DEF Handed, Allocated, HeapInv, TypeOK
  <2> HIDE DEF granted
  <2>2. blocks' \in [DOMAIN blocks \cup {base} -> Nat]
    BY <1>3, <2>1, ExtendedTyped
  <2> QED
    BY <1>2, <2>2 DEF HeapInv, TypeOK
<1>6. /\ sizes' \in [DOMAIN sizes \cup {base} -> 1..(Word - 1)]
      /\ DOMAIN sizes \cup {base} \subseteq 1..HeapEnd
  <2>1. sizes' = Extend(sizes, base, Usable(size)) /\ sizes \in [DOMAIN sizes -> 1..(Word - 1)]
    BY DEF Handed, HeapInv, TypeOK
  <2>2. sizes' \in [DOMAIN sizes \cup {base} -> 1..(Word - 1)]
    BY <1>1, <2>1, ExtendedTyped
  <2> QED
    BY <1>2, <2>2 DEF HeapInv, TypeOK
<1> DEFINE pointers == DOMAIN held \cup {base + Header}
<1>7. held' \in [pointers -> 0..(Word - 1)] /\ pointers \subseteq 1..(HeapEnd + Header)
  <2>1. held' = Extend(held, base + Header, size) /\ held \in [DOMAIN held -> 0..(Word - 1)]
    BY DEF Handed, HeapInv, TypeOK
  <2>2. held' \in [pointers -> 0..(Word - 1)]
    BY <1>4, <2>1, ExtendedTyped
  <2> QED
    BY <1>2, <2>2 DEF HeapInv, TypeOK
<1>8. written' \in [pointers -> 0..(Word - 1)]
  <2>1. written' = Extend(written, base + Header, filled) /\ written \in [DOMAIN held -> 0..(Word - 1)]
    BY DEF Handed, HeapInv, TypeOK
  <2> QED
    BY <1>4, <2>1, ExtendedTyped
<1> HIDE DEF pointers
<1> QED
  BY <1>5, <1>6, <1>7, <1>8 DEF HeapInv, TypeOK

LEMMA HandedInv ==
  ASSUME HeapInv, NEW size \in Numbers, NEW filled \in 0..size,
         NEW base \in Allocations(WithHeader(Usable(size))), base # Refused,
         Handed(base, size, filled), UNCHANGED <<mappings, asked>>
  PROVE  HeapInv'
<1>1. TypeOK'
  BY HandedTyped
<1>2. WithHeader(Usable(size)) \in Nat /\ size <= Usable(size)
  BY HeapAssumption DEF Numbers, WithHeader, Usable, Header
<1>3. base \in 1..HeapEnd /\ base \notin DOMAIN blocks
  BY <1>2, NewBlock
<1>4. /\ DOMAIN held \subseteq Int
      /\ DOMAIN blocks = Pointers(held) \cup Bases(mappings)
      /\ Owned(blocks, held, mappings)
  BY OwnedSame, HeapAssumption DEF HeapInv, TypeOK, Owned, Header
<1>5. /\ DOMAIN blocks' = DOMAIN blocks \cup {base}
      /\ DOMAIN held' = DOMAIN held \cup {base + Header}
      /\ DOMAIN sizes' = DOMAIN sizes \cup {base}
  BY Extended DEF Handed, Allocated
<1>6. Pointers(held') = Pointers(held) \cup {base}
  BY <1>3, <1>5, HeapAssumption DEF Pointers, Header
<1>7. Owned(blocks', held', mappings')
  BY <1>3, <1>4, <1>5, <1>6 DEF Owned
<1>8. HeadersKnown'
  <2> SUFFICES ASSUME NEW pointer \in DOMAIN held'
               PROVE  /\ pointer - Header \in DOMAIN sizes'
                      /\ held'[pointer] <= sizes'[pointer - Header]
                      /\ written'[pointer] <= held'[pointer]
    BY DEF HeadersKnown
  <2>1. CASE pointer = base + Header
    <3>1. pointer - Header = base
      BY <1>3, <2>1 DEF Header
    <3>2. held'[pointer] = size
      BY <2>1 DEF Handed, Extend
    <3>3. written'[pointer] = filled
      BY <2>1 DEF Handed, Extend
    <3>4. sizes'[base] = Usable(size)
      BY DEF Handed, Extend
    <3> QED
      BY <1>2, <1>5, <3>1, <3>2, <3>3, <3>4 DEF Numbers
  <2>2. CASE pointer # base + Header
    <3>1. pointer \in DOMAIN held /\ pointer \in DOMAIN written
      BY <1>5, <2>2 DEF HeapInv, TypeOK
    <3>2. pointer - Header # base
      BY <1>3, <1>4, <2>2, <3>1 DEF Header
    <3>3. pointer - Header \in DOMAIN sizes
      BY <3>1 DEF HeapInv, HeadersKnown
    <3>4. held'[pointer] = held[pointer]
      BY <2>2, <3>1 DEF Handed, Extend
    <3>5. written'[pointer] = written[pointer]
      BY <2>2, <3>1 DEF Handed, Extend
    <3>6. sizes'[pointer - Header] = sizes[pointer - Header]
      BY <3>2, <3>3 DEF Handed, Extend
    <3> QED
      BY <1>5, <3>1, <3>3, <3>4, <3>5, <3>6 DEF HeapInv, HeadersKnown
  <2> QED
    BY <2>1, <2>2
<1>9. BlocksOwned' <=> Owned(blocks', held', mappings')
  BY DEF BlocksOwned, Owned, Pointers, Mapped, Bases
<1> QED
  BY <1>1, <1>7, <1>8, <1>9 DEF HeapInv

\* A pointer is given back with its block.
LEMMA PointerFreedInv ==
  ASSUME HeapInv, NEW pointer \in DOMAIN held, Freed(pointer - Header),
         sizes' = Without(sizes, pointer - Header), held' = Without(held, pointer),
         written' = Without(written, pointer), UNCHANGED <<mappings, asked>>
  PROVE  HeapInv'
<1> DEFINE base == pointer - Header
<1>1. /\ DOMAIN held \subseteq Int
      /\ DOMAIN written = DOMAIN held
      /\ Owned(blocks, held, mappings)
  BY OwnedSame, HeapAssumption DEF HeapInv, TypeOK, Header
<1>2. base \in Pointers(held)
  BY DEF Pointers
<1>3. /\ DOMAIN blocks' = DOMAIN blocks \ {base}
      /\ DOMAIN sizes' = DOMAIN sizes \ {base}
      /\ DOMAIN held' = DOMAIN held \ {pointer}
  BY Shortened DEF Freed
<1>4. TypeOK'
  <2>1. blocks \in [DOMAIN blocks -> Nat] /\ sizes \in [DOMAIN sizes -> 1..(Word - 1)]
    BY DEF HeapInv, TypeOK
  <2>2. held \in [DOMAIN held -> 0..(Word - 1)] /\ written \in [DOMAIN held -> 0..(Word - 1)]
    BY DEF HeapInv, TypeOK
  <2>3. blocks' \in [DOMAIN blocks \ {base} -> Nat]
    BY <2>1, ShortenedTyped DEF Freed
  <2>4. sizes' \in [DOMAIN sizes \ {base} -> 1..(Word - 1)]
    BY <2>1, ShortenedTyped
  <2>5. held' \in [DOMAIN held \ {pointer} -> 0..(Word - 1)]
    BY <2>2, ShortenedTyped
  <2>6. written' \in [DOMAIN held \ {pointer} -> 0..(Word - 1)]
    BY <2>2, ShortenedTyped
  <2> QED
    BY <1>3, <2>3, <2>4, <2>5, <2>6 DEF HeapInv, TypeOK
<1>5. Pointers(held') = Pointers(held) \ {base}
  BY <1>1, <1>3 DEF Pointers, Header
<1>6. Owned(blocks', held', mappings')
  BY <1>1, <1>2, <1>3, <1>5 DEF Owned
<1>7. HeadersKnown'
  <2> SUFFICES ASSUME NEW other \in DOMAIN held'
               PROVE  /\ other - Header \in DOMAIN sizes'
                      /\ held'[other] <= sizes'[other - Header]
                      /\ written'[other] <= held'[other]
    BY DEF HeadersKnown
  <2>1. other \in DOMAIN held /\ other # pointer
    BY <1>3
  <2>2. other - Header # base
    BY <1>1, <2>1 DEF Header
  <2>3. other - Header \in DOMAIN sizes
    BY <2>1 DEF HeapInv, HeadersKnown
  <2>4. /\ held'[other] = held[other] /\ written'[other] = written[other]
        /\ sizes'[other - Header] = sizes[other - Header]
    BY <1>1, <2>1, <2>2, <2>3, Shortened
  <2> QED
    BY <1>3, <2>1, <2>2, <2>3, <2>4 DEF HeapInv, HeadersKnown
<1>8. BlocksOwned' <=> Owned(blocks', held', mappings')
  BY DEF BlocksOwned, Owned, Pointers, Mapped, Bases
<1> QED
  BY <1>4, <1>6, <1>7, <1>8 DEF HeapInv


\* realloc keeps the block.
LEMMA KeptInv ==
  ASSUME HeapInv, NEW pointer \in DOMAIN held, NEW size \in Numbers, size <= sizes[pointer - Header],
         held' = [held EXCEPT ![pointer] = size],
         written' = [written EXCEPT ![pointer] = Least(@, size)],
         UNCHANGED <<blocks, sizes, mappings, asked>>
  PROVE  HeapInv'
<1>1. /\ held \in [DOMAIN held -> 0..(Word - 1)] /\ written \in [DOMAIN held -> 0..(Word - 1)]
      /\ Word \in Nat /\ size \in 0..(Word - 1)
  BY HeapAssumption DEF HeapInv, TypeOK, Numbers
<1>2. Least(written[pointer], size) \in 0..(Word - 1) /\ Least(written[pointer], size) <= size
  BY <1>1 DEF Least
<1>3. /\ held' \in [DOMAIN held -> 0..(Word - 1)] /\ DOMAIN held' = DOMAIN held
      /\ written' \in [DOMAIN held -> 0..(Word - 1)]
  BY <1>1, <1>2
<1>4. TypeOK'
  BY <1>3 DEF HeapInv, TypeOK
<1>5. BlocksOwned'
  BY <1>3 DEF HeapInv, BlocksOwned
<1>6. HeadersKnown'
  BY <1>1, <1>2, <1>3 DEF HeapInv, HeadersKnown
<1> QED
  BY <1>4, <1>5, <1>6 DEF HeapInv

\* The program writes.
LEMMA WriteInv == HeapInv /\ Write => HeapInv'
<1> SUFFICES ASSUME HeapInv, NEW pointer \in DOMAIN held,
                    written' = [written EXCEPT ![pointer] = held[pointer]],
                    UNCHANGED <<blocks, sizes, held, mappings, asked>>
             PROVE  HeapInv'
  BY DEF Write
<1>1. /\ held \in [DOMAIN held -> 0..(Word - 1)] /\ written \in [DOMAIN held -> 0..(Word - 1)]
      /\ Word \in Nat
  BY HeapAssumption DEF HeapInv, TypeOK
<1>2. TypeOK'
  BY <1>1 DEF HeapInv, TypeOK
<1>3. BlocksOwned'
  BY DEF HeapInv, BlocksOwned
<1>4. HeadersKnown'
  BY <1>1 DEF HeapInv, HeadersKnown
<1> QED
  BY <1>2, <1>3, <1>4 DEF HeapInv


\* realloc moves to a new block.
LEMMA MovedInv ==
  ASSUME HeapInv, NEW pointer \in DOMAIN held, NEW size \in 1..(Word - 1), NEW count \in 0..size,
         NEW next \in Allocations(WithHeader(size)), next # Refused,
         blocks' = Without(Extend(blocks, next, Granted(WithHeader(size))), pointer - Header),
         sizes' = Without(Extend(sizes, next, size), pointer - Header),
         held' = Without(Extend(held, next + Header, size), pointer),
         written' = Without(Extend(written, next + Header, count), pointer),
         UNCHANGED <<mappings, asked>>
  PROVE  HeapInv'
<1> DEFINE base == pointer - Header
           granted == Granted(WithHeader(size))
<1>1. WithHeader(size) \in Nat /\ size \in Numbers /\ count \in Numbers
  BY HeapAssumption DEF Numbers, WithHeader, Header
<1>2. next \in 1..HeapEnd /\ next \notin DOMAIN blocks /\ granted \in Nat
  BY <1>1, NewBlock, GrantedNat
<1>3. /\ DOMAIN held \subseteq Int /\ DOMAIN written = DOMAIN held
      /\ Owned(blocks, held, mappings)
  BY OwnedSame, HeapAssumption DEF HeapInv, TypeOK, Header
<1>4. base \in Pointers(held) /\ base \in DOMAIN blocks /\ base # next /\ pointer # next + Header
  BY <1>2, <1>3 DEF Pointers, Owned, Header
<1>5. /\ DOMAIN blocks' = (DOMAIN blocks \cup {next}) \ {base}
      /\ DOMAIN sizes' = (DOMAIN sizes \cup {next}) \ {base}
      /\ DOMAIN held' = (DOMAIN held \cup {next + Header}) \ {pointer}
  <2>1. DOMAIN blocks' = (DOMAIN blocks \cup {next}) \ {base}
    BY DEF Extend, Without
  <2>2. DOMAIN sizes' = (DOMAIN sizes \cup {next}) \ {base}
    BY DEF Extend, Without
  <2>3. DOMAIN held' = (DOMAIN held \cup {next + Header}) \ {pointer}
    BY DEF Extend, Without
  <2> QED
    BY <2>1, <2>2, <2>3
<1>6. TypeOK'
  <2>1. /\ blocks \in [DOMAIN blocks -> Nat] /\ sizes \in [DOMAIN sizes -> 1..(Word - 1)]
        /\ held \in [DOMAIN held -> Numbers] /\ written \in [DOMAIN held -> Numbers]
    BY DEF HeapInv, TypeOK, Numbers
  <2> DEFINE moreBlocks == Extend(blocks, next, granted)
             moreSizes == Extend(sizes, next, size)
             moreHeld == Extend(held, next + Header, size)
             moreWritten == Extend(written, next + Header, count)
  <2>2. moreBlocks \in [DOMAIN blocks \cup {next} -> Nat] /\ blocks' = Without(moreBlocks, base)
    <3> HIDE DEF granted
    <3>1. moreBlocks \in [DOMAIN blocks \cup {next} -> Nat]
      BY <1>2, <2>1, ExtendedTyped
    <3> QED
      BY <3>1 DEF granted
  <2>3. moreSizes \in [DOMAIN sizes \cup {next} -> 1..(Word - 1)] /\ sizes' = Without(moreSizes, base)
    BY <2>1, ExtendedTyped
  <2>4. moreHeld \in [DOMAIN held \cup {next + Header} -> Numbers] /\ held' = Without(moreHeld, pointer)
    BY <1>1, <2>1, ExtendedTyped
  <2>5. /\ moreWritten \in [DOMAIN held \cup {next + Header} -> Numbers]
        /\ written' = Without(moreWritten, pointer)
    BY <1>1, <2>1, ExtendedTyped
  <2> HIDE DEF moreBlocks, moreSizes, moreHeld, moreWritten, base
  <2>6. blocks' \in [(DOMAIN blocks \cup {next}) \ {base} -> Nat]
    BY <2>2, ShortenedTyped
  <2>7. sizes' \in [(DOMAIN sizes \cup {next}) \ {base} -> 1..(Word - 1)]
    BY <2>3, ShortenedTyped
  <2>8. held' \in [(DOMAIN held \cup {next + Header}) \ {pointer} -> Numbers]
    BY <2>4, ShortenedTyped
  <2>9. written' \in [(DOMAIN held \cup {next + Header}) \ {pointer} -> Numbers]
    BY <2>5, ShortenedTyped
  <2>10. /\ DOMAIN blocks' \subseteq 1..HeapEnd /\ DOMAIN sizes' \subseteq 1..HeapEnd
         /\ DOMAIN held' \subseteq 1..(HeapEnd + Header)
    BY <1>2, <1>5, HeapAssumption DEF HeapInv, TypeOK, Header
  <2> QED
    BY <1>5, <2>6, <2>7, <2>8, <2>9, <2>10 DEF HeapInv, TypeOK, Numbers
<1>7. Pointers(held') = (Pointers(held) \cup {next}) \ {base}
  <2>1. \A p, q \in DOMAIN held \cup {next + Header} : p - Header = q - Header => p = q
    BY <1>2, <1>3 DEF Header
  <2>2. next + Header - Header = next
    BY <1>2 DEF Header
  <2> DEFINE later == held'
  <2>0. /\ \A p : p \in DOMAIN later <=> (p \in DOMAIN held \/ p = next + Header) /\ p # pointer
        /\ base = pointer - Header /\ pointer \in DOMAIN held
    BY <1>5
  <2> HIDE DEF later, base
  <2>3. ASSUME NEW p \in DOMAIN later PROVE p - Header \in (Pointers(held) \cup {next}) \ {base}
    <3>1. p \in DOMAIN held \cup {next + Header} /\ p # pointer /\ pointer \in DOMAIN held
      BY <2>0
    <3>2. p - Header # base
      BY <2>1, <2>0, <3>1
    <3>3. CASE p = next + Header
      <4>1. p - Header = next
        BY <1>2, <3>3 DEF Header
      <4> QED
        BY <3>2, <4>1
    <3>4. CASE p \in DOMAIN held
      BY <3>2, <3>4 DEF Pointers
    <3> QED
      BY <3>1, <3>3, <3>4
  <2>4. ASSUME NEW p \in DOMAIN held, p # pointer PROVE p - Header \in Pointers(later)
    <3>1. p \in DOMAIN later
      BY <2>0, <2>4
    <3> QED
      BY <3>1 DEF Pointers
  <2>5. next \in Pointers(later)
    <3>1. next + Header \in DOMAIN later
      BY <1>4, <2>0
    <3>2. \E p \in DOMAIN later : next = p - Header
      BY <1>2, <3>1 DEF Header
    <3> QED
      BY <3>2 DEF Pointers
  <2>6. Pointers(later) \subseteq (Pointers(held) \cup {next}) \ {base}
    BY <2>3 DEF Pointers
  <2>7. Pointers(held) \ {base} \subseteq Pointers(later)
    BY <2>4, <2>0 DEF Pointers
  <2>8. Pointers(later) = (Pointers(held) \cup {next}) \ {base}
    BY <2>5, <2>6, <2>7, <1>4
  <2> QED
    BY <2>8 DEF later
<1>8. Owned(blocks', held', mappings')
  <2>1. mappings' = mappings /\ Bases(mappings') = Bases(mappings) /\ Mapped(mappings') = Mapped(mappings)
    OBVIOUS
  <2>2. base \notin Bases(mappings) /\ next \notin Bases(mappings)
    BY <1>2, <1>3, <1>4 DEF Owned
  <2> HIDE DEF base
  <2>3. DOMAIN blocks' = Pointers(held') \cup Bases(mappings')
    BY <1>3, <1>5, <1>7, <2>1, <2>2 DEF Owned
  <2>4. Pointers(held') \cap Bases(mappings') = {}
    BY <1>3, <1>7, <2>1, <2>2 DEF Owned
  <2> QED
    BY <1>3, <2>1, <2>3, <2>4 DEF Owned
<1>9. HeadersKnown'
  <2> SUFFICES ASSUME NEW other \in DOMAIN held'
               PROVE  /\ other - Header \in DOMAIN sizes'
                      /\ held'[other] <= sizes'[other - Header]
                      /\ written'[other] <= held'[other]
    BY DEF HeadersKnown
  <2>1. CASE other = next + Header
    <3>1. other - Header = next
      BY <1>2, <2>1 DEF Header
    <3>2. held'[other] = size
      BY <1>4, <2>1 DEF Extend, Without
    <3>3. written'[other] = count
      BY <1>4, <2>1 DEF Extend, Without
    <3>4. sizes'[next] = size
      BY <1>4 DEF Extend, Without
    <3> QED
      BY <1>4, <1>5, <3>1, <3>2, <3>3, <3>4
  <2>2. CASE other # next + Header
    <3>1. other \in DOMAIN held /\ other \in DOMAIN written /\ other # pointer
      BY <1>3, <1>5, <2>2
    <3>2. other - Header # next /\ other - Header # base
      BY <1>2, <1>3, <2>2, <3>1 DEF Header
    <3>3. other - Header \in DOMAIN sizes
      BY <3>1 DEF HeapInv, HeadersKnown
    <3>4. held'[other] = held[other]
      BY <2>2, <3>1 DEF Extend, Without
    <3>5. written'[other] = written[other]
      BY <2>2, <3>1 DEF Extend, Without
    <3>6. sizes'[other - Header] = sizes[other - Header]
      BY <3>2, <3>3 DEF Extend, Without
    <3> QED
      BY <1>5, <3>1, <3>2, <3>3, <3>4, <3>5, <3>6 DEF HeapInv, HeadersKnown
  <2> QED
    BY <2>1, <2>2
<1>10. BlocksOwned' <=> Owned(blocks', held', mappings')
  BY DEF BlocksOwned, Owned, Pointers, Mapped, Bases
<1> QED
  BY <1>6, <1>8, <1>9, <1>10 DEF HeapInv

LEMMA SameInv ==
  ASSUME HeapInv, UNCHANGED <<blocks, sizes, held, written, mappings, asked>> PROVE HeapInv'
<1>1. TypeOK'
  BY DEF HeapInv, TypeOK
<1>2. BlocksOwned'
  BY DEF HeapInv, BlocksOwned
<1>3. HeadersKnown'
  BY DEF HeapInv, HeadersKnown
<1> QED
  BY <1>1, <1>2, <1>3 DEF HeapInv

\* A length that is rounded has the width of a word.
LEMMA RoundedNumber == ASSUME NEW length \in Numbers PROVE Rounded(length) \in Numbers
BY HeapAssumption DEF Rounded, Numbers, Paragraph

\* A slot of the table gets what the service answered, a block or a refusal.
LEMMA MmapInv == HeapInv /\ Mmap => HeapInv'
<1> SUFFICES ASSUME HeapInv, Mmap PROVE HeapInv'
  OBVIOUS
<1>1. CASE UNCHANGED <<blocks, sizes, held, written, mappings, asked>>
  BY <1>1, SameInv
<1>2. ASSUME NEW length \in Requests, NEW slot \in 1..Slots, NEW base \in Allocations(Rounded(length)),
             FirstUnused(slot),
             IF base = Refused THEN UNCHANGED blocks ELSE Allocated(base, Rounded(length)),
             mappings' = [mappings EXCEPT ![slot] =
                            [base |-> base, length |-> Rounded(length), in_use |-> TRUE]],
             asked' = [asked EXCEPT ![slot] = length],
             UNCHANGED <<sizes, held, written>>
      PROVE  HeapInv'
  <2> DEFINE entry == [base |-> base, length |-> Rounded(length), in_use |-> TRUE]
  <2>1. length \in Numbers /\ Rounded(length) \in Numbers /\ Rounded(length) \in Nat
    BY RoundedNumber, HeapAssumption DEF Numbers
  <2>2. base # Refused => base \in 1..HeapEnd /\ base \notin DOMAIN blocks
    BY <2>1, NewBlock
  <2>3. base \in Numbers
    BY <2>1, <2>2, HeapAssumption DEF Numbers, Refused
  <2>4. entry \in Mappings /\ entry.base = base /\ entry.in_use = TRUE
    BY <2>1, <2>3 DEF Mappings
  <2> HIDE DEF entry
  <2>5. mappings \in [1..Slots -> Mappings] /\ asked \in [1..Slots -> Numbers] /\ ~mappings[slot].in_use
    BY <1>2 DEF HeapInv, TypeOK, FirstUnused, Mappings, Numbers
  <2>6. /\ mappings' \in [1..Slots -> Mappings] /\ mappings'[slot] = entry
        /\ \A other \in 1..Slots : other # slot => mappings'[other] = mappings[other]
    BY <1>2, <2>4, <2>5 DEF entry
  <2>7. asked' \in [1..Slots -> Numbers]
    BY <1>2, <2>1, <2>5
  <2>8. blocks' \in [DOMAIN blocks' -> Nat] /\ DOMAIN blocks' \subseteq 1..HeapEnd
    <3>1. CASE base = Refused
      BY <1>2, <3>1 DEF HeapInv, TypeOK
    <3>2. CASE base # Refused
      <4> DEFINE granted == Granted(Rounded(length))
      <4>1. blocks' = Extend(blocks, base, granted) /\ blocks \in [DOMAIN blocks -> Nat]
        BY <1>2, <3>2 DEF Allocated, HeapInv, TypeOK
      <4>2. granted \in Nat
        BY <2>1, GrantedNat
      <4> HIDE DEF granted
      <4>3. blocks' \in [DOMAIN blocks \cup {base} -> Nat]
        BY <4>1, <4>2, ExtendedTyped
      <4> QED
        BY <2>2, <3>2, <4>3 DEF HeapInv, TypeOK
    <3> QED
      BY <3>1, <3>2
  <2>9. TypeOK'
    BY <1>2, <2>6, <2>7, <2>8 DEF HeapInv, TypeOK, Mappings, Numbers
  <2>10. HeadersKnown'
    BY <1>2 DEF HeapInv, HeadersKnown
  <2>11. Owned(blocks, held, mappings)
    BY OwnedSame DEF HeapInv
  <2>12. Owned(blocks', held', mappings')
    <3>1. CASE base = Refused
      <4>1. Mapped(mappings') = Mapped(mappings)
        BY <2>4, <2>5, <2>6, <3>1 DEF Mapped
      <4>2. \A s \in Mapped(mappings) : mappings'[s] = mappings[s]
        BY <2>5, <2>6 DEF Mapped
      <4>3. Bases(mappings') = Bases(mappings)
        BY <4>1, <4>2 DEF Bases
      <4>4. DOMAIN blocks' = DOMAIN blocks /\ Pointers(held') = Pointers(held)
        BY <1>2, <3>1 DEF Pointers
      <4> QED
        BY <2>11, <4>1, <4>2, <4>3, <4>4 DEF Owned
    <3>2. CASE base # Refused
      <4>1. Mapped(mappings') = Mapped(mappings) \cup {slot}
        BY <2>4, <2>5, <2>6, <3>2 DEF Mapped
      <4>2. /\ \A s \in Mapped(mappings) : mappings'[s] = mappings[s] /\ s # slot
            /\ mappings'[slot].base = base
        BY <2>4, <2>5, <2>6 DEF Mapped
      <4>3. Bases(mappings') = Bases(mappings) \cup {base}
        BY <4>1, <4>2 DEF Bases
      <4>4. DOMAIN blocks' = DOMAIN blocks \cup {base}
        BY <1>2, <3>2, Extended DEF Allocated
      <4>5. \A s \in Mapped(mappings) : mappings[s].base # base
        BY <2>2, <2>11, <3>2 DEF Owned, Bases
      <4>6. Pointers(held') = Pointers(held) /\ base \notin Pointers(held)
        BY <1>2, <2>2, <2>11, <3>2 DEF Owned, Pointers
      <4> QED
        BY <2>11, <4>1, <4>2, <4>3, <4>4, <4>5, <4>6 DEF Owned
    <3> QED
      BY <3>1, <3>2
  <2>13. BlocksOwned' <=> Owned(blocks', held', mappings')
    BY DEF BlocksOwned, Owned, Pointers, Mapped, Bases
  <2> QED
    BY <2>9, <2>10, <2>12, <2>13 DEF HeapInv
<1> QED
  BY <1>1, <1>2 DEF Mmap

\* A slot of the table is given back with its block.
LEMMA MunmapInv == HeapInv /\ Munmap => HeapInv'
<1> SUFFICES ASSUME HeapInv, Munmap PROVE HeapInv'
  OBVIOUS
<1>1. CASE UNCHANGED <<blocks, sizes, held, written, mappings, asked>>
  BY <1>1, SameInv
<1>2. ASSUME NEW slot \in 1..Slots, mappings[slot].in_use, Freed(mappings[slot].base),
             mappings' = [mappings EXCEPT ![slot] = Unused], asked' = [asked EXCEPT ![slot] = 0],
             UNCHANGED <<sizes, held, written>>
      PROVE  HeapInv'
  <2> DEFINE base == mappings[slot].base
  <2>1. mappings \in [1..Slots -> Mappings] /\ asked \in [1..Slots -> Numbers]
    BY DEF HeapInv, TypeOK, Mappings, Numbers
  <2>2. Unused \in Mappings /\ Unused.in_use = FALSE /\ 0 \in Numbers
    BY HeapAssumption DEF Unused, Mappings, Numbers, Null
  <2>3. /\ mappings' \in [1..Slots -> Mappings] /\ mappings'[slot] = Unused
        /\ \A other \in 1..Slots : other # slot => mappings'[other] = mappings[other]
    BY <1>2, <2>1, <2>2
  <2>4. asked' \in [1..Slots -> Numbers]
    BY <1>2, <2>1, <2>2
  <2>5. DOMAIN blocks' = DOMAIN blocks \ {base} /\ blocks' \in [DOMAIN blocks \ {base} -> Nat]
    <3>1. blocks \in [DOMAIN blocks -> Nat] /\ blocks' = Without(blocks, base)
      BY <1>2 DEF HeapInv, TypeOK, Freed
    <3> HIDE DEF base
    <3> QED
      BY <3>1, Shortened, ShortenedTyped
  <2>6. TypeOK'
    BY <1>2, <2>3, <2>4, <2>5 DEF HeapInv, TypeOK, Mappings, Numbers
  <2>7. HeadersKnown'
    BY <1>2 DEF HeapInv, HeadersKnown
  <2>8. Owned(blocks, held, mappings)
    BY OwnedSame DEF HeapInv
  <2>9. Mapped(mappings') = Mapped(mappings) \ {slot}
    BY <2>2, <2>3 DEF Mapped
  <2>10. \A s \in Mapped(mappings') : mappings'[s] = mappings[s]
    BY <2>3, <2>9 DEF Mapped
  <2>11. Pointers(held') = Pointers(held)
    BY <1>2 DEF Pointers
  <2>12. Owned(blocks', held', mappings')
    <3>1. CASE base = Refused
      <4>1. slot \notin Mapped(mappings) /\ base \notin DOMAIN blocks
        BY <3>1, HeapAssumption DEF Mapped, HeapInv, TypeOK, Refused
      <4>2. Mapped(mappings') = Mapped(mappings) /\ DOMAIN blocks' = DOMAIN blocks
        BY <2>5, <2>9, <4>1
      <4>3. Bases(mappings') = Bases(mappings)
        BY <2>10, <4>2 DEF Bases
      <4> QED
        BY <2>8, <2>10, <2>11, <4>2, <4>3 DEF Owned
    <3>2. CASE base # Refused
      <4>1. slot \in Mapped(mappings) /\ base \in Bases(mappings)
        BY <1>2, <3>2 DEF Mapped, Bases
      <4>2. \A s \in Mapped(mappings') : s # slot /\ mappings[s].base # base
        BY <2>8, <2>9, <4>1 DEF Owned
      <4>3. Bases(mappings') = Bases(mappings) \ {base}
        BY <2>9, <2>10, <4>2 DEF Bases
      <4>4. base \notin Pointers(held)
        BY <2>8, <4>1 DEF Owned
      <4> QED
        BY <2>5, <2>8, <2>9, <2>10, <2>11, <4>3, <4>4 DEF Owned
    <3> QED
      BY <3>1, <3>2
  <2>13. BlocksOwned' <=> Owned(blocks', held', mappings')
    BY DEF BlocksOwned, Owned, Pointers, Mapped, Bases
  <2> QED
    BY <2>6, <2>7, <2>12, <2>13 DEF HeapInv
<1> QED
  BY <1>1, <1>2 DEF Munmap, Finds, Holds

-----------------------------------------------------------------------------
(* The steps, as the lemmas take them *)

Asked == Requests \cup {count * n : count \in Counts, n \in Requests}

NotRealloc == result'.call # "realloc" \/ result' = result \/ result'.value \in {Null, Refused}

HandStep ==
  \E size \in Numbers : \E filled \in 0..size : \E base \in Allocations(WithHeader(Usable(size))) :
    /\ size \in Asked /\ ~Overflows(Usable(size)) /\ base # Refused
    /\ Handed(base, size, filled)
    /\ UNCHANGED <<mappings, asked>>
    /\ NotRealloc

FreeStep ==
  \E pointer \in DOMAIN held :
    /\ Freed(pointer - Header)
    /\ sizes' = Without(sizes, pointer - Header) /\ held' = Without(held, pointer)
    /\ written' = Without(written, pointer)
    /\ UNCHANGED <<mappings, asked>>
    /\ NotRealloc

KeepStep ==
  \E pointer \in DOMAIN held : \E size \in Numbers :
    /\ size <= sizes[pointer - Header]
    /\ held' = [held EXCEPT ![pointer] = size]
    /\ written' = [written EXCEPT ![pointer] = Least(@, size)]
    /\ UNCHANGED <<blocks, sizes, mappings, asked>>
    /\ result'.address = pointer /\ result'.value = pointer

MoveStep ==
  \E pointer \in DOMAIN held : \E size \in 1..(Word - 1) : \E count \in 0..size :
    \E next \in Allocations(WithHeader(size)) :
      /\ size \in Asked /\ ~Overflows(size) /\ next # Refused
      /\ count = written[pointer]
      /\ blocks' = Without(Extend(blocks, next, Granted(WithHeader(size))), pointer - Header)
      /\ sizes' = Without(Extend(sizes, next, size), pointer - Header)
      /\ held' = Without(Extend(held, next + Header, size), pointer)
      /\ written' = Without(Extend(written, next + Header, count), pointer)
      /\ UNCHANGED <<mappings, asked>>
      /\ result'.address = pointer /\ result'.value = next + Header

SameStep == UNCHANGED <<blocks, sizes, held, written, mappings, asked>> /\ NotRealloc

LEMMA MallocStep == HeapInv /\ Malloc => HandStep \/ SameStep
<1> SUFFICES ASSUME HeapInv, UNCHANGED <<mappings, asked>>,
                    NEW size \in Requests, NEW base \in Places(Usable(size)),
                    base # Refused, Handed(base, size, 0),
                    Answer("malloc", Null, size, base + Header)
             PROVE  HandStep
  BY DEF Malloc, SameStep, Kept, Answer, NotRealloc
<1>1. size \in Numbers /\ 0 \in 0..size /\ size \in Asked
  BY HeapAssumption DEF Numbers, Asked
<1>2. ~Overflows(Usable(size)) /\ base \in Allocations(WithHeader(Usable(size)))
  BY DEF Places
<1>3. NotRealloc
  BY DEF Answer, NotRealloc
<1> QED
  BY <1>1, <1>2, <1>3 DEF HandStep

LEMMA CallocStep == HeapInv /\ Calloc => HandStep \/ SameStep
<1> SUFFICES ASSUME HeapInv, UNCHANGED <<mappings, asked>>,
                    NEW count \in Counts, NEW size \in Requests, count * size <= Word - 1,
                    NEW total, total = (count * size) % Word,
                    NEW base \in Places(Usable(total)), base # Refused,
                    Handed(base, total, total), Answer("calloc", Null, size, base + Header)
             PROVE  HandStep
  BY DEF Calloc, SameStep, Kept, Answer, NotRealloc
<1>1. count \in Nat /\ size \in Nat /\ Word \in Nat /\ count * size \in Nat
  BY HeapAssumption
<1>2. total = count * size /\ total \in Numbers /\ total \in 0..total
  <2> DEFINE product == count * size
  <2>1. product \in Nat /\ product <= Word - 1 /\ total = product % Word
    BY <1>1
  <2> HIDE DEF product
  <2>2. total = product /\ total \in Numbers /\ total \in 0..total
    BY <1>1, <2>1 DEF Numbers
  <2> QED
    BY <2>2 DEF product
<1>3. total \in Asked
  BY <1>2 DEF Asked
<1>4. ~Overflows(Usable(total)) /\ base \in Allocations(WithHeader(Usable(total)))
  BY DEF Places
<1>5. NotRealloc
  BY DEF Answer, NotRealloc
<1> QED
  BY <1>2, <1>3, <1>4, <1>5 DEF HandStep

LEMMA FreePointerStep == HeapInv /\ FreePointer => FreeStep \/ SameStep
BY DEF FreePointer, FreeStep, SameStep, Kept, Answer, NotRealloc

\* What was written fits in the old block, so nothing of it is left behind.
LEMMA ReallocStep == HeapInv /\ Realloc => FreeStep \/ KeepStep \/ MoveStep \/ SameStep
<1> SUFFICES ASSUME HeapInv, Realloc PROVE FreeStep \/ KeepStep \/ MoveStep \/ SameStep
  OBVIOUS
<1>1. PICK pointer \in DOMAIN held, size \in Requests :
        LET base == pointer - Header
            previous == sizes[base]
        IN
        \/ /\ size = 0
           /\ Freed(base)
           /\ sizes' = Without(sizes, base)
           /\ held' = Without(held, pointer)
           /\ written' = Without(written, pointer)
           /\ Answer("realloc", pointer, size, Null)
        \/ /\ size # 0 /\ size <= previous
           /\ held' = [held EXCEPT ![pointer] = size]
           /\ written' = [written EXCEPT ![pointer] = Least(@, size)]
           /\ UNCHANGED <<blocks, sizes>>
           /\ Answer("realloc", pointer, size, pointer)
        \/ /\ size > previous
           /\ \E next \in Places(size) :
                \/ /\ next = Refused
                   /\ Kept
                   /\ Answer("realloc", pointer, size, Refused)
                \/ /\ next # Refused
                   /\ blocks' = Without(Extend(blocks, next, Granted(WithHeader(size))), base)
                   /\ sizes' = Without(Extend(sizes, next, size), base)
                   /\ held' = Without(Extend(held, next + Header, size), pointer)
                   /\ written' = Without(Extend(written, next + Header,
                                                Least(written[pointer], previous)), pointer)
                   /\ Answer("realloc", pointer, size, next + Header)
  BY DEF Realloc, GivesBack, Copied
<1>2. UNCHANGED <<mappings, asked>>
  BY DEF Realloc
<1> DEFINE base == pointer - Header
           previous == sizes[base]
<1>3. /\ size \in Numbers /\ size \in Asked /\ Word \in Nat
      /\ previous \in 1..(Word - 1) /\ written[pointer] \in Nat
      /\ written[pointer] <= previous
  <2>1. base \in DOMAIN sizes /\ held[pointer] <= previous /\ written[pointer] <= held[pointer]
    BY DEF HeapInv, HeadersKnown
  <2>2. held[pointer] \in 0..(Word - 1) /\ written[pointer] \in 0..(Word - 1) /\ previous \in 1..(Word - 1)
    BY <2>1 DEF HeapInv, TypeOK
  <2> QED
    BY <2>1, <2>2, HeapAssumption DEF Numbers, Asked
<1>4. CASE size = 0
  <2>1. NotRealloc
    BY <1>1, <1>3, <1>4 DEF Answer, NotRealloc
  <2> QED
    BY <1>1, <1>2, <1>3, <1>4, <2>1 DEF FreeStep
<1>5. CASE size # 0 /\ size <= previous
  <2>1. result'.address = pointer /\ result'.value = pointer
    BY <1>1, <1>3, <1>5 DEF Answer, Numbers
  <2>2. /\ held' = [held EXCEPT ![pointer] = size]
        /\ written' = [written EXCEPT ![pointer] = Least(@, size)]
        /\ UNCHANGED <<blocks, sizes>>
    BY <1>1, <1>3, <1>5 DEF Numbers
  <2> QED
    BY <1>2, <1>3, <1>5, <2>1, <2>2 DEF KeepStep
<1>6. CASE size > previous
  <2>1. PICK next \in Places(size) :
          \/ /\ next = Refused
             /\ Kept
             /\ Answer("realloc", pointer, size, Refused)
          \/ /\ next # Refused
             /\ blocks' = Without(Extend(blocks, next, Granted(WithHeader(size))), base)
             /\ sizes' = Without(Extend(sizes, next, size), base)
             /\ held' = Without(Extend(held, next + Header, size), pointer)
             /\ written' = Without(Extend(written, next + Header,
                                          Least(written[pointer], previous)), pointer)
             /\ Answer("realloc", pointer, size, next + Header)
    BY <1>1, <1>3, <1>6 DEF Numbers
  <2>2. CASE next = Refused
    <3>1. Kept /\ NotRealloc
      BY <2>1, <2>2 DEF Answer, NotRealloc
    <3> QED
      BY <1>2, <3>1 DEF SameStep, Kept
  <2>3. CASE next # Refused
    <3>1. next \in Allocations(WithHeader(size)) /\ ~Overflows(size)
      BY <2>3 DEF Places
    <3>2. Least(written[pointer], previous) = written[pointer]
      BY <1>3 DEF Least
    <3>3. size \in 1..(Word - 1) /\ written[pointer] \in 0..size
      BY <1>3, <1>6 DEF Numbers
    <3>4. result'.address = pointer /\ result'.value = next + Header
      BY <2>1, <2>3 DEF Answer
    <3>5. /\ blocks' = Without(Extend(blocks, next, Granted(WithHeader(size))), base)
          /\ sizes' = Without(Extend(sizes, next, size), base)
          /\ held' = Without(Extend(held, next + Header, size), pointer)
          /\ written' = Without(Extend(written, next + Header, written[pointer]), pointer)
      BY <2>1, <2>3, <3>2
    <3> QED
      BY <1>2, <1>3, <2>3, <3>1, <3>3, <3>4, <3>5 DEF MoveStep
  <2> QED
    BY <2>1, <2>2, <2>3
<1> QED
  BY <1>3, <1>4, <1>5, <1>6 DEF Numbers

LEMMA OtherSteps ==
  /\ Write => UNCHANGED <<blocks, sizes, held, mappings, asked>> /\ NotRealloc
  /\ Mmap => UNCHANGED <<sizes, held, written>> /\ NotRealloc
  /\ Munmap => UNCHANGED <<sizes, held, written>> /\ NotRealloc
  /\ Advise => SameStep
<1>1. Write => UNCHANGED <<blocks, sizes, held, mappings, asked>> /\ NotRealloc
  BY DEF Write, NotRealloc
<1>2. Mmap => UNCHANGED <<sizes, held, written>> /\ NotRealloc
  BY DEF Mmap, NotRealloc, Answer
<1>3. Munmap => UNCHANGED <<sizes, held, written>> /\ NotRealloc
  BY DEF Munmap, NotRealloc, Answer
<1>4. Advise => SameStep
  BY DEF Advise, SameStep, NotRealloc, Answer
<1> QED
  BY <1>1, <1>2, <1>3, <1>4

LEMMA StepCases ==
  HeapInv /\ [Next]_vars =>
    \/ HandStep \/ FreeStep \/ KeepStep \/ MoveStep \/ SameStep
    \/ Write \/ Mmap \/ Munmap
<1> SUFFICES ASSUME HeapInv, [Next]_vars
             PROVE  \/ HandStep \/ FreeStep \/ KeepStep \/ MoveStep \/ SameStep
                    \/ Write \/ Mmap \/ Munmap
  OBVIOUS
<1>1. CASE UNCHANGED vars
  BY <1>1 DEF vars, SameStep, NotRealloc
<1>2. CASE Next
  BY <1>2, MallocStep, CallocStep, FreePointerStep, ReallocStep, OtherSteps DEF Next
<1> QED
  BY <1>1, <1>2

-----------------------------------------------------------------------------
(* Every block has one owner *)

LEMMA InitInv == Init => HeapInv
<1> SUFFICES ASSUME Init PROVE HeapInv
  OBVIOUS
<1>1. Unused \in [base : 0..(Word - 1), length : 0..(Word - 1), in_use : BOOLEAN]
  BY HeapAssumption DEF Unused, Null
<1>2. DOMAIN blocks = {} /\ DOMAIN sizes = {} /\ DOMAIN held = {} /\ DOMAIN written = {}
  BY DEF Init
<1>3. TypeOK
  <2>1. /\ mappings \in [1..Slots -> [base : 0..(Word - 1), length : 0..(Word - 1),
                                      in_use : BOOLEAN]]
        /\ asked \in [1..Slots -> 0..(Word - 1)]
    BY <1>1, HeapAssumption DEF Init
  <2>2. blocks \in [DOMAIN blocks -> Nat] /\ sizes \in [DOMAIN sizes -> 1..(Word - 1)]
    BY <1>2 DEF Init
  <2>3. held \in [DOMAIN held -> 0..(Word - 1)] /\ written \in [DOMAIN held -> 0..(Word - 1)]
    BY <1>2 DEF Init
  <2> QED
    BY <1>2, <2>1, <2>2, <2>3 DEF TypeOK
<1>4. \A slot \in 1..Slots : mappings[slot].in_use = FALSE
  BY DEF Init, Unused
<1>5. BlocksOwned
  BY <1>2, <1>4 DEF BlocksOwned
<1>6. HeadersKnown
  BY <1>2 DEF HeadersKnown
<1> QED
  BY <1>3, <1>5, <1>6 DEF HeapInv

LEMMA StepInv == HeapInv /\ [Next]_vars => HeapInv'
<1> SUFFICES ASSUME HeapInv, [Next]_vars PROVE HeapInv'
  OBVIOUS
<1>1. CASE HandStep
  BY <1>1, HandedInv DEF HandStep
<1>2. CASE FreeStep
  BY <1>2, PointerFreedInv DEF FreeStep
<1>3. CASE KeepStep
  BY <1>3, KeptInv DEF KeepStep
<1>4. CASE MoveStep
  BY <1>4, MovedInv DEF MoveStep
<1>5. CASE SameStep
  BY <1>5, SameInv DEF SameStep
<1> QED
  BY <1>1, <1>2, <1>3, <1>4, <1>5, StepCases, WriteInv, MmapInv, MunmapInv

LEMMA Invariant == Spec => []HeapInv
BY InitInv, StepInv, PTL DEF Spec

\* The state keeps its types, whatever is allocated, resized, given back and mapped.
THEOREM TypeCorrect == Spec => []TypeOK
<1>1. HeapInv => TypeOK
  BY DEF HeapInv
<1> QED
  BY <1>1, Invariant, PTL

\* malloc, realloc and the mapping table give every block of the service one owner: no
\* block is lost, and none is a pointer's and a mapping's at once.
THEOREM BlocksHaveOwners == Spec => []BlocksOwned
<1>1. HeapInv => BlocksOwned
  BY DEF HeapInv
<1> QED
  BY <1>1, Invariant, PTL

-----------------------------------------------------------------------------
(* realloc keeps what was written *)

LEMMA StepContents == HeapInv /\ [Next]_vars =>
  (result'.call = "realloc" /\ result' # result /\ result'.value \notin {Null, Refused}
     => /\ result'.value \in DOMAIN written'
        /\ result'.address \in DOMAIN written
        /\ written'[result'.value] = Least(written[result'.address], held'[result'.value]))
<1> SUFFICES ASSUME HeapInv, [Next]_vars, ~NotRealloc
             PROVE  /\ result'.value \in DOMAIN written'
                    /\ result'.address \in DOMAIN written
                    /\ written'[result'.value] =
                         Least(written[result'.address], held'[result'.value])
  BY DEF NotRealloc
<1>1. KeepStep \/ MoveStep
  BY StepCases, OtherSteps DEF HandStep, FreeStep, SameStep
<1>2. DOMAIN written = DOMAIN held
  BY DEF HeapInv, TypeOK
<1>3. CASE KeepStep
  BY <1>2, <1>3 DEF KeepStep
<1>4. CASE MoveStep
  <2>1. PICK pointer \in DOMAIN held, size \in 1..(Word - 1), next \in 1..HeapEnd :
          /\ next \in Allocations(WithHeader(size)) /\ next # Refused /\ written[pointer] \in 0..size
          /\ held' = Without(Extend(held, next + Header, size), pointer)
          /\ written' = Without(Extend(written, next + Header, written[pointer]), pointer)
          /\ result'.address = pointer /\ result'.value = next + Header
    BY <1>4 DEF MoveStep, Allocations
  <2>2. pointer # next + Header
    <3>1. next \in 1..HeapEnd /\ next \notin DOMAIN blocks
      <4>1. WithHeader(size) \in Nat
        BY HeapAssumption DEF WithHeader, Header
      <4> QED
        BY <2>1, <4>1, NewBlock
    <3>2. pointer - Header \in DOMAIN blocks
      BY DEF HeapInv, BlocksOwned
    <3> QED
      BY <3>1, <3>2 DEF Header
  <2>3. written'[next + Header] = written[pointer] /\ next + Header \in DOMAIN written'
    BY <2>1, <2>2 DEF Extend, Without
  <2>4. held'[next + Header] = size
    BY <2>1, <2>2 DEF Extend, Without
  <2>5. Least(written[pointer], size) = written[pointer]
    BY <2>1 DEF Least
  <2> QED
    BY <1>2, <2>1, <2>3, <2>4, <2>5
<1> QED
  BY <1>1, <1>3, <1>4

\* A pointer that realloc answers has at its start all that was written at the old one
\* and fits, for every sequence of calls before it.
THEOREM ContentsCarried == Spec => ContentsKept
<1>1. HeapInv /\ [Next]_vars =>
        [result'.call = "realloc" /\ result' # result /\ result'.value \notin {Null, Refused}
         => /\ result'.value \in DOMAIN written'
            /\ result'.address \in DOMAIN written
            /\ written'[result'.value] =
                 Least(written[result'.address], held'[result'.value])]_vars
  BY StepContents
<1> QED
  BY <1>1, Invariant, PTL DEF Spec, ContentsKept

-----------------------------------------------------------------------------
(* Every block has room *)

Roomy == \A pointer \in DOMAIN held : Header + sizes[pointer - Header] <= blocks[pointer - Header]

\* Rounding a size that does not wrap does not take from it.
LEMMA GrantedEnough ==
  ASSUME NEW size \in Nat, size + Paragraph - 1 < Word PROVE Granted(size) >= size
<1>1. (size + Paragraph - 1) % Word = size + Paragraph - 1
  BY HeapAssumption DEF Paragraph
<1> QED
  BY <1>1 DEF Granted, Paragraph

\* Room is kept where each pointer has a new block that has it, or what it had.
LEMMA RoomKept ==
  ASSUME Roomy,
         \A pointer \in DOMAIN held' :
           \/ Header + sizes'[pointer - Header] <= blocks'[pointer - Header]
           \/ /\ pointer \in DOMAIN held
              /\ sizes'[pointer - Header] = sizes[pointer - Header]
              /\ blocks'[pointer - Header] = blocks[pointer - Header]
  PROVE  Roomy'
BY DEF Roomy

LEMMA HandRoom == NothingWraps /\ HeapInv /\ Roomy /\ HandStep => Roomy'
<1> SUFFICES ASSUME NothingWraps, HeapInv, Roomy,
                    NEW size \in Numbers, NEW base \in Allocations(WithHeader(Usable(size))),
                    size \in Asked, ~Overflows(Usable(size)), base # Refused,
                    blocks' = Extend(blocks, base, Granted(WithHeader(Usable(size)))),
                    sizes' = Extend(sizes, base, Usable(size)),
                    DOMAIN held' = DOMAIN held \cup {base + Header},
                    NEW pointer \in DOMAIN held'
             PROVE  \/ Header + sizes'[pointer - Header] <= blocks'[pointer - Header]
                    \/ /\ pointer \in DOMAIN held
                       /\ sizes'[pointer - Header] = sizes[pointer - Header]
                       /\ blocks'[pointer - Header] = blocks[pointer - Header]
  <2> SUFFICES ASSUME NothingWraps, HeapInv, Roomy, HandStep PROVE Roomy'
    OBVIOUS
  <2>1. PICK size \in Numbers, base \in 1..HeapEnd :
          /\ base \in Allocations(WithHeader(Usable(size)))
          /\ size \in Asked /\ ~Overflows(Usable(size)) /\ base # Refused
          /\ blocks' = Extend(blocks, base, Granted(WithHeader(Usable(size))))
          /\ sizes' = Extend(sizes, base, Usable(size))
          /\ DOMAIN held' = DOMAIN held \cup {base + Header}
    BY DEF HandStep, Handed, Allocated, Allocations, Extend
  <2> QED
    BY <2>1, RoomKept
<1> DEFINE usable == Usable(size)
<1>1. usable \in Nat /\ WithHeader(usable) \in Nat
  BY HeapAssumption DEF Numbers, Usable, WithHeader, Header
<1>2. base \in 1..HeapEnd /\ base \notin DOMAIN blocks
  BY <1>1, NewBlock
<1>3. CASE pointer = base + Header
  <2>1. pointer - Header = base
    BY <1>2, <1>3 DEF Header
  <2>2. sizes'[base] = usable /\ blocks'[base] = Granted(WithHeader(usable))
    BY DEF Extend
  <2>3. Granted(WithHeader(usable)) >= WithHeader(usable)
    BY <1>1, GrantedEnough DEF NothingWraps, Asked
  <2> HIDE DEF usable
  <2> QED
    BY <1>1, <2>1, <2>2, <2>3 DEF WithHeader, Header
<1>4. CASE pointer # base + Header
  <2>1. pointer \in DOMAIN held
    BY <1>4
  <2>2. pointer - Header \in DOMAIN blocks /\ pointer - Header \in DOMAIN sizes
    BY <2>1 DEF HeapInv, BlocksOwned, HeadersKnown
  <2> QED
    <3>1. pointer - Header # base
      BY <1>2, <2>2
    <3>2. sizes'[pointer - Header] = sizes[pointer - Header]
      BY <2>2, <3>1 DEF Extend
    <3>3. blocks'[pointer - Header] = blocks[pointer - Header]
      BY <2>2, <3>1 DEF Extend
    <3> QED
      BY <2>1, <3>2, <3>3
<1> QED
  BY <1>3, <1>4

LEMMA MoveRoom == NothingWraps /\ HeapInv /\ Roomy /\ MoveStep => Roomy'
<1> SUFFICES ASSUME NothingWraps, HeapInv, Roomy,
                    NEW old \in DOMAIN held, NEW size \in 1..(Word - 1),
                    NEW next \in Allocations(WithHeader(size)),
                    size \in Asked, ~Overflows(size), next # Refused,
                    blocks' = Without(Extend(blocks, next, Granted(WithHeader(size))), old - Header),
                    sizes' = Without(Extend(sizes, next, size), old - Header),
                    DOMAIN held' = (DOMAIN held \cup {next + Header}) \ {old},
                    NEW pointer \in DOMAIN held'
             PROVE  \/ Header + sizes'[pointer - Header] <= blocks'[pointer - Header]
                    \/ /\ pointer \in DOMAIN held
                       /\ sizes'[pointer - Header] = sizes[pointer - Header]
                       /\ blocks'[pointer - Header] = blocks[pointer - Header]
  <2> SUFFICES ASSUME NothingWraps, HeapInv, Roomy, MoveStep PROVE Roomy'
    OBVIOUS
  <2>1. PICK old \in DOMAIN held, size \in 1..(Word - 1), next \in 1..HeapEnd :
          /\ next \in Allocations(WithHeader(size))
          /\ size \in Asked /\ ~Overflows(size) /\ next # Refused
          /\ blocks' = Without(Extend(blocks, next, Granted(WithHeader(size))), old - Header)
          /\ sizes' = Without(Extend(sizes, next, size), old - Header)
          /\ held' = Without(Extend(held, next + Header, size), old)
    BY DEF MoveStep, Allocations
  <2>2. DOMAIN held' = (DOMAIN held \cup {next + Header}) \ {old}
    BY <2>1 DEF Extend, Without
  <2> QED
    BY <2>1, <2>2, RoomKept
<1>1. size \in Nat /\ size # 0 /\ WithHeader(size) \in Nat
  BY HeapAssumption DEF WithHeader, Header
<1>2. next \in 1..HeapEnd /\ next \notin DOMAIN blocks
  BY <1>1, NewBlock
<1>3. old - Header \in DOMAIN blocks /\ DOMAIN held \subseteq Int
  BY HeapAssumption DEF HeapInv, BlocksOwned, TypeOK, Header
<1>4. CASE pointer = next + Header
  <2>1. pointer - Header = next /\ next # old - Header
    BY <1>2, <1>3, <1>4 DEF Header
  <2>2. sizes'[next] = size
    BY <2>1 DEF Extend, Without
  <2>3. blocks'[next] = Granted(WithHeader(size))
    BY <2>1 DEF Extend, Without
  <2>4. Granted(WithHeader(size)) >= WithHeader(size)
    BY <1>1, GrantedEnough DEF NothingWraps, Asked, Usable
  <2> QED
    BY <1>1, <2>1, <2>2, <2>3, <2>4 DEF WithHeader, Header
<1>5. CASE pointer # next + Header
  <2>1. pointer \in DOMAIN held /\ pointer # old
    BY <1>5
  <2>2. pointer - Header \in DOMAIN blocks /\ pointer - Header \in DOMAIN sizes
    BY <2>1 DEF HeapInv, BlocksOwned, HeadersKnown
  <2>3. pointer - Header # next /\ pointer - Header # old - Header
    BY <1>2, <1>3, <2>1, <2>2 DEF Header
  <2>4. sizes'[pointer - Header] = sizes[pointer - Header]
    BY <2>2, <2>3 DEF Extend, Without
  <2>5. blocks'[pointer - Header] = blocks[pointer - Header]
    BY <2>2, <2>3 DEF Extend, Without
  <2> QED
    BY <2>1, <2>4, <2>5
<1> QED
  BY <1>4, <1>5

LEMMA FreeRoom == HeapInv /\ Roomy /\ FreeStep => Roomy'
<1> SUFFICES ASSUME HeapInv, Roomy, NEW old \in DOMAIN held,
                    blocks' = Without(blocks, old - Header),
                    sizes' = Without(sizes, old - Header), held' = Without(held, old),
                    NEW pointer \in DOMAIN held'
             PROVE  /\ pointer \in DOMAIN held
                    /\ sizes'[pointer - Header] = sizes[pointer - Header]
                    /\ blocks'[pointer - Header] = blocks[pointer - Header]
  BY RoomKept DEF FreeStep, Freed
<1>1. pointer \in DOMAIN held /\ pointer # old
  BY DEF Without
<1>2. pointer - Header \in DOMAIN blocks /\ pointer - Header \in DOMAIN sizes
  BY <1>1 DEF HeapInv, BlocksOwned, HeadersKnown
<1>3. pointer - Header # old - Header
  BY <1>1, HeapAssumption DEF HeapInv, TypeOK, Header
<1> QED
  BY <1>1, <1>2, <1>3, Shortened

\* Mapping and unmapping leave the blocks of pointers alone.
LEMMA MappingRoom == HeapInv /\ Roomy /\ (Mmap \/ Munmap) => Roomy'
<1> SUFFICES ASSUME HeapInv, Roomy, Mmap \/ Munmap, NEW pointer \in DOMAIN held
             PROVE  blocks'[pointer - Header] = blocks[pointer - Header]
  BY OtherSteps, RoomKept
<1>1. pointer - Header \in DOMAIN blocks
  BY DEF HeapInv, BlocksOwned
<1>2. CASE UNCHANGED blocks
  BY <1>2
<1>3. ASSUME NEW length \in Requests, NEW base \in Allocations(Rounded(length)), base # Refused,
             Allocated(base, Rounded(length))
      PROVE  blocks'[pointer - Header] = blocks[pointer - Header]
  <2>1. Rounded(length) \in Nat
    BY RoundedNumber, HeapAssumption DEF Numbers
  <2>2. base \notin DOMAIN blocks
    BY <1>3, <2>1, NewBlock
  <2> QED
    BY <1>1, <1>3, <2>2 DEF Allocated, Extend
<1>4. ASSUME NEW slot \in 1..Slots, mappings[slot].in_use, Freed(mappings[slot].base)
      PROVE  blocks'[pointer - Header] = blocks[pointer - Header]
  <2>1. pointer - Header # mappings[slot].base
    <3>1. CASE mappings[slot].base = Refused
      BY <1>1, <3>1, HeapAssumption DEF HeapInv, TypeOK, Refused
    <3>2. CASE mappings[slot].base # Refused
      BY <1>4, <3>2 DEF HeapInv, BlocksOwned
    <3> QED
      BY <3>1, <3>2
  <2> QED
    BY <1>1, <1>4, <2>1, Shortened DEF Freed
<1> QED
  BY <1>2, <1>3, <1>4 DEF Mmap, Munmap, Finds, Holds

LEMMA StepRoom == NothingWraps /\ HeapInv /\ Roomy /\ [Next]_vars => Roomy'
<1> SUFFICES ASSUME NothingWraps, HeapInv, Roomy, [Next]_vars PROVE Roomy'
  OBVIOUS
<1>1. CASE KeepStep
  BY <1>1, RoomKept DEF KeepStep
<1>2. CASE SameStep
  BY <1>2, RoomKept DEF SameStep
<1>3. CASE Write
  BY <1>3, OtherSteps, RoomKept
<1> QED
  BY <1>1, <1>2, <1>3, HandRoom, MoveRoom, FreeRoom, MappingRoom, StepCases

\* Where no size wraps when it is rounded to paragraphs, every block that malloc, calloc
\* or realloc hands on has room for its header and for all it was asked for.
THEOREM BlocksFit == ASSUME NothingWraps PROVE Spec => []StorageFits
<1>1. Init => Roomy
  BY DEF Init, Roomy
<1>2. HeapInv /\ Roomy /\ [Next]_vars => Roomy'
  BY StepRoom
<1>3. HeapInv /\ Roomy => StorageFits
  BY DEF HeapInv, HeadersKnown, BlocksOwned, StorageFits, Roomy
<1> QED
  BY <1>1, <1>2, <1>3, Invariant, PTL DEF Spec


-----------------------------------------------------------------------------
(* The clock *)

\* The days of the years up to y, by the usual formula.
DaysThrough(y) == 365 * y + y \div 4 - y \div 100 + y \div 400

\* The formula gives each year the days that leap_year gives it.
LEMMA YearLength ==
  ASSUME NEW y \in Nat, y >= 1980
  PROVE  DaysThrough(y) - DaysThrough(y - 1) = (IF Leap(y) THEN 366 ELSE 365)
  BY DEF DaysThrough, Leap

\* The days of the years are a number.
LEMMA DaysThroughType ==
  ASSUME NEW y \in Int
  PROVE DaysThrough(y) \in Int
  BY DEF DaysThrough

\* Induction over the numbers, of a set.
LEMMA Counting ==
  ASSUME NEW S, 0 \in S, \A n \in Nat : n \in S => n + 1 \in S
  PROVE  Nat \subseteq S
<1> DEFINE R == OpToRel(<, Nat)
           T == Nat \ S
<1>1. SUFFICES ASSUME T # {} PROVE FALSE
  OBVIOUS
<1>2. IsWellFoundedOn(R, Nat) /\ T \subseteq Nat
  BY NatLessThanWellFounded
<1>3. \A m, n \in Nat : <<m, n>> \in R <=> m < n
  BY DEF OpToRel
<1> HIDE DEF R, T
<1>4. PICK least \in T : \A n \in T : ~(<<n, least>> \in R)
  BY <1>1, <1>2, WFMin
<1> USE DEF T
<1>5. least \in Nat /\ least # 0 /\ least - 1 \in Nat /\ least - 1 < least
  BY <1>4
<1>6. <<least - 1, least>> \in R
  BY <1>3, <1>5
<1>7. least - 1 \in S
  BY <1>4, <1>5, <1>6
<1>8. least - 1 + 1 \in S
  BY <1>5, <1>7
<1> QED
  BY <1>4, <1>5, <1>8

\* The years that read_moment counts one by one are those of the formula.
LEMMA DaysBeforeClosed ==
  ASSUME NEW year \in Nat, year >= 1980
  PROVE  DaysBefore(year) = DaysThrough(year - 1) - DaysThrough(1979)
<1> DEFINE Rule(f, y) == IF y = 1980 THEN 0 ELSE f[y - 1] + (IF Leap(y - 1) THEN 366 ELSE 365)
           Years == 1980..year
           before == CHOOSE f : f = [y \in Years |-> Rule(f, y)]
           closed == [y \in Years |-> DaysThrough(y - 1) - DaysThrough(1979)]
<1>1. DaysBefore(year) = before[year]
  BY DEF DaysBefore
<1>2. closed = [y \in Years |-> Rule(closed, y)]
  <2>1. ASSUME NEW y \in Years PROVE closed[y] = Rule(closed, y)
    <3>0. y \in Int /\ y >= 1980 /\ y <= year
      OBVIOUS
    <3>1. CASE y = 1980
      BY <3>1, DaysThroughType
    <3>2. CASE y # 1980
      <4>1. y - 1 \in Years /\ y - 1 \in Nat /\ y - 1 >= 1980
        BY <3>0, <3>2
      <4>2. closed[y - 1] = DaysThrough(y - 1 - 1) - DaysThrough(1979) /\ closed[y] = DaysThrough(y - 1) - DaysThrough(1979)
        BY <4>1
      <4>3. DaysThrough(y - 1) - DaysThrough(y - 1 - 1) = (IF Leap(y - 1) THEN 366 ELSE 365)
        BY <4>1, YearLength
      <4>4. DaysThrough(y - 1) \in Int /\ DaysThrough(y - 1 - 1) \in Int /\ DaysThrough(1979) \in Int
        BY <3>0, DaysThroughType
      <4> HIDE DEF closed
      <4> QED
        BY <3>2, <4>2, <4>3, <4>4
    <3> QED
      BY <3>1, <3>2
  <2>2. closed = [y \in Years |-> closed[y]]
    OBVIOUS
  <2> HIDE DEF closed, Rule, Years
  <2>3. [y \in Years |-> closed[y]] = [y \in Years |-> Rule(closed, y)]
    BY <2>1
  <2> QED
    BY <2>2, <2>3
<1> HIDE DEF closed
<1>3. before = [y \in Years |-> Rule(before, y)]
  BY <1>2
<1> HIDE DEF before
<1>4. \A y \in Years : before[y] = Rule(before, y)
  BY <1>3
<1> DEFINE S == {n \in Nat : 1980 + n \in Years => before[1980 + n] = DaysThrough(1979 + n) - DaysThrough(1979)}
<1>5. 0 \in S
  <2>1. before[1980] = 0
    BY <1>4
  <2> QED
    BY <2>1, DaysThroughType
<1>6. \A n \in Nat : n \in S => n + 1 \in S
  <2> SUFFICES ASSUME NEW n \in Nat, n \in S, 1980 + (n + 1) \in Years
               PROVE  before[1980 + (n + 1)] = DaysThrough(1979 + (n + 1)) - DaysThrough(1979)
    OBVIOUS
  <2>1. 1980 + n \in Years /\ 1980 + (n + 1) # 1980 /\ 1980 + (n + 1) - 1 = 1980 + n
        /\ 1979 + (n + 1) = 1980 + n /\ 1980 + n - 1 = 1979 + n
    OBVIOUS
  <2>2. before[1980 + n] = DaysThrough(1979 + n) - DaysThrough(1979)
    BY <2>1
  <2>3. before[1980 + (n + 1)] = before[1980 + n] + (IF Leap(1980 + n) THEN 366 ELSE 365)
    BY <1>4, <2>1
  <2>4. DaysThrough(1980 + n) - DaysThrough(1979 + n) = (IF Leap(1980 + n) THEN 366 ELSE 365)
    BY <2>1, YearLength, 1980 + n \in Nat, 1980 + n >= 1980
  <2>5. DaysThrough(1980 + n) \in Int /\ DaysThrough(1979 + n) \in Int /\ DaysThrough(1979) \in Int
    BY DaysThroughType
  <2> QED
    BY <2>1, <2>2, <2>3, <2>4, <2>5
<1> HIDE DEF S
<1>7. Nat \subseteq S
  BY <1>5, <1>6, Counting
<1>8. year - 1980 \in Nat /\ 1980 + (year - 1980) = year /\ 1979 + (year - 1980) = year - 1
  OBVIOUS
<1> USE DEF S
<1>9. 1980 + (year - 1980) \in Years /\ year - 1980 \in S
  BY <1>7, <1>8
<1> QED
  BY <1>1, <1>8, <1>9

\* a date's number
\* The days of a moment, by month_offsets and leap_year, are those of the calendar.
LEMMA DaysRight ==
  ASSUME NEW y \in Nat, y >= 1980, NEW m \in Nat, m >= 1, m <= 12, NEW d \in Nat
  PROVE  DaysBefore(y) + MonthOffset(m) + d - 1 + (IF m > 2 /\ Leap(y) THEN 1 ELSE 0)
         = CivilDay([year |-> y, month |-> m, day |-> d]) - CivilDay([year |-> 1980, month |-> 1, day |-> 1])
<1>1. DaysBefore(y) = DaysThrough(y - 1) - DaysThrough(1979)
  BY DaysBeforeClosed
<1>2. CivilDay([year |-> 1980, month |-> 1, day |-> 1]) = DaysThrough(1979) + 307
  BY DEF CivilDay, DaysThrough
<1>3. DaysThrough(y) - DaysThrough(y - 1) = (IF Leap(y) THEN 366 ELSE 365)
  BY YearLength
<1>4. DaysThrough(y) \in Int /\ DaysThrough(y - 1) \in Int /\ DaysThrough(1979) \in Int
  BY DaysThroughType
<1>5. CivilDay([year |-> y, month |-> m, day |-> d]) =
        IF m > 2 THEN DaysThrough(y) + (153 * (m - 3) + 2) \div 5 + d
        ELSE DaysThrough(y - 1) + (153 * (m + 9) + 2) \div 5 + d
  BY DEF CivilDay, DaysThrough
<1>0. m \in 1..12
  OBVIOUS
<1>6. IF m > 2 THEN MonthOffset(m) = (153 * (m - 3) + 2) \div 5 + 59
      ELSE MonthOffset(m) = (153 * (m + 9) + 2) \div 5 - 306
  BY <1>0 DEF MonthOffset
<1>7. MonthOffset(m) \in Nat
  BY <1>0 DEF MonthOffset
<1> QED
  BY <1>1, <1>2, <1>3, <1>4, <1>5, <1>6, <1>7
\* The date after a real one is real, in the same year or in the next.
LEMMA NextDateReal ==
  ASSUME NEW d, RealDate(d)
  PROVE  /\ RealDate(NextDate(d))
         /\ NextDate(d).year \in {d.year, d.year + 1}
<1> DEFINE month == MonthDays(d)
<1>1. \A x : MonthDays(x) \in 28..31
  BY DEF MonthDays
<1>2. d = [year |-> d.year, month |-> d.month, day |-> d.day]
      /\ d.year \in Nat /\ d.month \in 1..12 /\ d.day \in 1..31 /\ d.day <= month
  BY DEF RealDate, Dates
<1>3. CASE d.day < MonthDays(d)
  <2> DEFINE e == [year |-> d.year, month |-> d.month, day |-> d.day + 1]
  <2>1. NextDate(d) = e
    BY <1>2, <1>3 DEF NextDate
  <2>2. e \in Dates
    BY <1>1, <1>2, <1>3 DEF Dates
  <2>3. MonthDays(e) = MonthDays(d)
    BY DEF MonthDays
  <2> QED
    <3>1. e.day <= MonthDays(e) /\ e.year = d.year
      BY <1>1, <1>2, <1>3, <2>3
    <3> QED
      BY <2>1, <2>2, <3>1 DEF RealDate
<1>4. CASE ~(d.day < MonthDays(d)) /\ d.month < 12
  <2> DEFINE e == [year |-> d.year, month |-> d.month + 1, day |-> 1]
  <2>1. NextDate(d) = e
    BY <1>2, <1>4 DEF NextDate
  <2>2. e \in Dates
    BY <1>2, <1>4 DEF Dates
  <2> QED
    BY <1>1, <1>2, <2>1, <2>2 DEF RealDate
<1>5. CASE ~(d.day < MonthDays(d)) /\ ~(d.month < 12)
  <2> DEFINE e == [year |-> d.year + 1, month |-> 1, day |-> 1]
  <2>1. NextDate(d) = e
    BY <1>5 DEF NextDate
  <2>2. e \in Dates
    BY <1>2 DEF Dates
  <2> QED
    BY <1>1, <1>2, <2>1, <2>2 DEF RealDate
<1> QED
  BY <1>3, <1>4, <1>5

\* The clock always shows a real date, and a year that has sixteen bits.
THEOREM DatesReal == ClockAssumption /\ ClockSpec => []ClockInv
<1> SUFFICES ASSUME ClockAssumption PROVE ClockSpec => []ClockInv
  OBVIOUS
<1>1. ClockInit => ClockInv
  <2> SUFFICES ASSUME ClockInit PROVE ClockInv
    OBVIOUS
  <2>1. date \in Starts /\ second \in Instants /\ days = 0
    BY DEF ClockInit
  <2>2. RealDate(date)
    BY <2>1 DEF ClockAssumption, RealDate, Dates
  <2> QED
    BY <2>1, <2>2 DEF ClockInv, ClockAssumption
<1>2. ClockInv /\ [ClockNext]_clockVars => ClockInv'
  <2> SUFFICES ASSUME ClockInv, [ClockNext]_clockVars PROVE ClockInv'
    OBVIOUS
  <2>0. RealDate(date) /\ date.year \in 1980..(2200 + days)
    BY DEF ClockInv
  <2>1. CASE second' \in {s \in Instants : s > second} /\ date' = date /\ days' = days
    BY <2>0, <2>1 DEF ClockInv, ClockAssumption
  <2>2. CASE days < Days /\ days' = days + 1 /\ date' = NextDate(date) /\ second' = 0
    <3>1. RealDate(date') /\ date'.year \in {date.year, date.year + 1}
      BY <2>0, <2>2, NextDateReal
    <3>2. days \in Nat /\ date.year \in Nat
      BY <2>0 DEF ClockInv, RealDate, Dates
    <3> QED
      BY <2>2, <2>0, <3>1, <3>2 DEF ClockInv, ClockAssumption
  <2>3. CASE date' = date /\ second' = second /\ days' = days
    BY <2>0, <2>3 DEF ClockInv
  <2> QED
    BY <2>1, <2>2, <2>3 DEF ClockNext, clockVars, Tick, Key, Program, GetTime, GetTimeRest, Nap, NapKey, NapTime, ReadKey
<1> QED
  BY <1>1, <1>2, PTL DEF ClockSpec

\* Three fields that fit their places are read as they were packed.
LEMMA ByteKept ==
  ASSUME NEW h \in Nat, h < 65536, NEW i \in Nat, i < 256, NEW j \in Nat, j < 256
  PROVE  /\ (Packed(h, i, j) \div 65536) % 65536 = h
         /\ h < 256 => Field(Packed(h, i, j), 65536) = h
         /\ Field(Packed(h, i, j), 256) = i
         /\ Field(Packed(h, i, j), 1) = j
BY DEF Packed, Field

\* So are the fields of a date and of a second of the day.
LEMMA FieldsKept ==
  ASSUME NEW y \in Nat, y < 65536, NEW m \in Nat, m < 256, NEW d \in Nat, d < 256,
         NEW s \in Nat, s < 86400
  PROVE  Fields(Packed(y, m, d), Packed(Hour(s), Minute(s), Second(s))) =
           [year |-> y, month |-> m, day |-> d,
            hour |-> Hour(s), minute |-> Minute(s), second |-> Second(s)]
<1> DEFINE h == Hour(s)
           i == Minute(s)
           j == Second(s)
<1>1. h \in Nat /\ h < 24 /\ i \in Nat /\ i < 60 /\ j \in Nat /\ j < 60
  BY DEF Hour, Minute, Second
<1> HIDE DEF h, i, j
<1>2. /\ (Packed(y, m, d) \div 65536) % 65536 = y
      /\ Field(Packed(y, m, d), 256) = m /\ Field(Packed(y, m, d), 1) = d
  BY ByteKept
<1>3. h < 65536 /\ h < 256 /\ i < 256 /\ j < 256
  BY <1>1
<1>4. /\ Field(Packed(h, i, j), 65536) = h
      /\ Field(Packed(h, i, j), 256) = i /\ Field(Packed(h, i, j), 1) = j
  BY <1>1, <1>3, ByteKept
<1>5. Fields(Packed(y, m, d), Packed(h, i, j)) =
        [year |-> y, month |-> m, day |-> d, hour |-> h, minute |-> i, second |-> j]
  BY <1>2, <1>4 DEF Fields
<1> QED
  BY <1>5 DEF h, i, j

\* Hours, minutes and seconds make up the second of the day.
LEMMA SecondsKept ==
  ASSUME NEW s \in Nat, s < 86400
  PROVE  Hour(s) * 3600 + Minute(s) * 60 + Second(s) = s
  BY DEF Hour, Minute, Second

\* Whatever date of the clock's it is and whatever time of the day, the seconds and
\* the weekday that read_moment makes of the clock's fields are those of the calendar.
THEOREM MomentAlwaysRight == ClockAssumption /\ ClockSpec => []MomentRight
<1> SUFFICES ASSUME ClockAssumption PROVE ClockSpec => []MomentRight
  OBVIOUS
<1>1. ClockInv => MomentRight
  <2> SUFFICES ASSUME ClockInv PROVE MomentRight
    OBVIOUS
  <2> DEFINE y == date.year
             m == date.month
             d == date.day
             f == [year |-> y, month |-> m, day |-> d, hour |-> Hour(second),
                   minute |-> Minute(second), second |-> Second(second)]
             first == [year |-> 1980, month |-> 1, day |-> 1]
  <2>1. RealDate(date) /\ y \in Int /\ y >= 1980 /\ y <= 2200 + days /\ days \in Int /\ days <= Days
        /\ second \in Nat /\ second < 86400 /\ Days \in Nat /\ 2200 + Days < 65536
    BY DEF ClockInv, ClockAssumption
  <2>2. date = [year |-> y, month |-> m, day |-> d] /\ m \in 1..12 /\ d \in 1..31
                                 /\ m \in Nat /\ m >= 1 /\ m <= 12 /\ m < 256 /\ d \in Nat /\ d < 256
    BY <2>1 DEF RealDate, Dates
  <2>3. y \in Nat /\ y < 65536
    <3> HIDE DEF y
    <3> QED
      BY <2>1
  <2> HIDE DEF y, m, d
  <2>4. Now = f
    <3>1. Now = Fields(Packed(y, m, d), Packed(Hour(second), Minute(second), Second(second)))
      BY DEF Now, y, m, d
    <3>2. Fields(Packed(y, m, d), Packed(Hour(second), Minute(second), Second(second))) = f
      BY <2>1, <2>2, <2>3, FieldsKept
    <3> QED
      BY <3>1, <3>2
  <2>5. DayOfYear(f) = MonthOffset(m) + d - 1 + (IF m > 2 /\ Leap(y) THEN 1 ELSE 0)
    BY DEF DayOfYear
  <2>6. SinceEpoch(f) = DaysBefore(y) + DayOfYear(f)
    BY DEF SinceEpoch
  <2>7. MonthOffset(m) \in Nat
    BY <2>2 DEF MonthOffset
  <2>8. DaysBefore(y) \in Int
    BY <2>1, <2>3, DaysBeforeClosed, DaysThroughType
  <2>9. DaysBefore(y) + MonthOffset(m) + d - 1 + (IF m > 2 /\ Leap(y) THEN 1 ELSE 0)
          = CivilDay(date) - CivilDay(first)
    <3>1. DaysBefore(y) + MonthOffset(m) + d - 1 + (IF m > 2 /\ Leap(y) THEN 1 ELSE 0)
            = CivilDay([year |-> y, month |-> m, day |-> d]) - CivilDay(first)
      BY <2>1, <2>2, <2>3, DaysRight
    <3> QED
      BY <2>2, <3>1
  <2>10. SinceEpoch(f) = CivilDay(date) - CivilDay(first)
    <3> HIDE DEF f, first
    <3> QED
      BY <2>2, <2>5, <2>6, <2>7, <2>8, <2>9
  <2>11. Seconds(f) = [days |-> SinceEpoch(f), seconds |-> second]
    BY <2>1, SecondsKept DEF Seconds
  <2>12. CivilDay(first) = 723121 /\ CivilDay(date) \in Int
    BY <2>1, <2>2 DEF CivilDay
  <2>13. Weekday(f) = (CivilDay(date) + 2) % 7
    <3> HIDE DEF f, first
    <3>1. (CivilDay(date) - 723121 + 2) % 7 = (CivilDay(date) + 2) % 7
      BY <2>12
    <3> QED
      BY <2>10, <2>12, <3>1 DEF Weekday
  <2> HIDE DEF f
  <2> QED
    BY <2>4, <2>10, <2>11, <2>13 DEF MomentRight
<1> QED
  BY <1>1, DatesReal, PTL
=============================================================================
