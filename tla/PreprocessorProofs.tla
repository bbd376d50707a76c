-------------------------- MODULE PreprocessorProofs --------------------------
(***************************************************************************)
(* Proofs about Preprocessor for all sources of any length, all include    *)
(* paths and all limits. Of the actions those that take a line and stay in *)
(* the source are first brought to one form, Steps; the others enter a     *)
(* source, leave one or finish. The invariant has five parts: the types,   *)
(* the stack of includes, the depth of each source's conditional groups,   *)
(* what each source will tell __FILE__ and __LINE__ when it goes on, which *)
(* for a source that is not on top the one above it has put aside, and the *)
(* line that opened each of the groups, which explains what is kept of it. *)
(***************************************************************************)
EXTENDS Preprocessor, SequenceTheorems, FiniteSetTheorems, WellFoundedInduction, TLAPS

Names == Volume \cup {line.path : line \in {l \in Lines : l.kind = "line" /\ l.named}}
Entries == [line : Lines, active : BOOLEAN, holds : BOOLEAN]
Frames == [path : Volume, position : Nat, conditions : Seq(GroupType),
           savedPath : Names, savedDelta : Int, seen : Seq(Entries)]
Tokens == [path : Names, line : Int]

Typed ==
  /\ content \in [Volume -> Seq(Lines)]
  /\ ended \subseteq Volume
  /\ frames \in Seq(Frames)
  /\ includes \in Seq(Volume)
  /\ path \in Names /\ delta \in Int
  /\ output \in Seq(Tokens) /\ Len(output) <= MaxTokens
  /\ errors \in Nat /\ good \in BOOLEAN /\ done \in BOOLEAN
  /\ done => frames = <<>>
  /\ \A i \in 1..Len(frames) :
       /\ frames[i].position = Len(frames[i].seen)
       /\ frames[i].position <= Len(content[frames[i].path])

-----------------------------------------------------------------------------
(* Sets of line numbers *)

LEMMA MaxOf ==
  ASSUME NEW n \in Nat, NEW S, S \subseteq 1..n, S # {}
  PROVE  Max(S) \in S /\ \A x \in S : x <= Max(S)
<1> DEFINE T == {n - x : x \in S}
<1>1. T \subseteq Nat /\ T # {}
  OBVIOUS
<1>2. PICK t \in T : \A y \in T : ~(<<y, t>> \in OpToRel(<, Nat))
  BY <1>1, NatLessThanWellFounded, WFMin
<1>3. PICK m \in S : t = n - m
  OBVIOUS
<1>4. \A x \in S : x <= m
  <2> SUFFICES ASSUME NEW x \in S, x > m
               PROVE  FALSE
    OBVIOUS
  <2>1. n - x \in T /\ n - x \in Nat /\ n - x < t /\ t \in Nat
    BY <1>3
  <2>2. <<n - x, t>> \in OpToRel(<, Nat)
    BY <2>1 DEF OpToRel
  <2> QED
    BY <1>2, <2>1, <2>2
<1>5. \E y \in S : \A x \in S : y >= x
  BY <1>4
<1> QED
  BY <1>5 DEF Max

LEMMA MaxIs ==
  ASSUME NEW n \in Nat, NEW S, S \subseteq 1..n, NEW m \in S, \A x \in S : x <= m
  PROVE  Max(S) = m
<1>1. Max(S) \in S /\ \A x \in S : x <= Max(S)
  BY MaxOf
<1> DEFINE largest == Max(S)
<1>2. largest \in S /\ \A x \in S : x <= largest
  BY <1>1
<1> HIDE DEF largest
<1>3. largest \in Int /\ m \in Int
  BY <1>2
<1>4. largest = m
  BY <1>2, <1>3
<1> QED
  BY <1>4 DEF largest

-----------------------------------------------------------------------------
(* The last of a sequence *)

LEMMA Lasts ==
  ASSUME NEW S, NEW s \in Seq(S), s # <<>>
  PROVE  /\ Len(s) \in Nat \ {0} /\ Last(s) = s[Len(s)] /\ Last(s) \in S
         /\ Front(s) \in Seq(S) /\ Len(Front(s)) = Len(s) - 1
         /\ \A i \in 1..(Len(s) - 1) : Front(s)[i] = s[i]
<1>1. Len(s) \in Nat \ {0}
  BY EmptySeq
<1> DEFINE n == Len(s) - 1
<1>2. n \in Nat /\ 1 \in Int /\ n \in Int /\ \A i \in 1..n : s[i] \in S
  BY <1>1
<1> HIDE DEF n
<1>3. /\ SubSeq(s, 1, n) \in Seq(S)
      /\ Len(SubSeq(s, 1, n)) = IF 1 <= n THEN n - 1 + 1 ELSE 0
      /\ \A i \in 1..(n - 1 + 1) : SubSeq(s, 1, n)[i] = s[1 + i - 1]
  BY ONLY <1>2, SubSeqProperties
<1>4. Len(SubSeq(s, 1, n)) = n /\ \A i \in 1..n : SubSeq(s, 1, n)[i] = s[i]
  BY <1>2, <1>3
<1> USE DEF n
<1>5. Front(s) = SubSeq(s, 1, Len(s) - 1) /\ Last(s) = s[Len(s)]
  BY DEF Last, Front
<1> QED
  BY <1>1, <1>3, <1>4, <1>5

LEMMA Replaced ==
  ASSUME NEW S, NEW s \in Seq(S), s # <<>>, NEW e \in S
  PROVE  /\ Append(Front(s), e) \in Seq(S) /\ Append(Front(s), e) # <<>>
         /\ Len(Append(Front(s), e)) = Len(s)
         /\ Append(Front(s), e)[Len(s)] = e
         /\ \A i \in 1..(Len(s) - 1) : Append(Front(s), e)[i] = s[i]
<1>1. /\ Front(s) \in Seq(S) /\ Len(Front(s)) = Len(s) - 1 /\ Len(s) \in Nat \ {0}
      /\ \A i \in 1..(Len(s) - 1) : Front(s)[i] = s[i]
  BY Lasts
<1> QED
  BY <1>1, AppendProperties

-----------------------------------------------------------------------------
(* A line is taken *)

\* What a line makes of the conditional groups, if all is well.
Regrouped(line, conditions) ==
  LET old == Top.conditions
      active == Active /\ Holds(line) IN
  /\ line.kind \in Openings => conditions = Append(old, Group(Active, active, active))
  /\ line.kind = "elif" =>
       old # <<>> /\ conditions = Replace(old, Reopen(Last(old), Holds(line)))
  /\ line.kind = "else" => old # <<>> /\ conditions = Replace(old, Otherwise(Last(old)))
  /\ line.kind = "endif" => old # <<>> /\ conditions = Front(old)
  /\ line.kind \notin Conditionals => conditions = old

\* What it makes of the presumed path and line.
Renamed(line) ==
  IF line.kind = "line" /\ Active
  THEN /\ delta' = line.number - Number - 1
       /\ path' = IF line.named THEN line.path ELSE path
  ELSE UNCHANGED <<path, delta>>

Steps(line, conditions) ==
  /\ Reading
  /\ line \in Lines
  /\ conditions \in Seq(GroupType)
  /\ Reads(line)
  /\ GoOn(line, conditions)
  /\ UNCHANGED includes
  /\ good' \in BOOLEAN /\ errors' \in Nat
  /\ good' => Regrouped(line, conditions)
  /\ Renamed(line)

LEMMA TopOf ==
  ASSUME Typed, frames # <<>>
  PROVE  /\ Len(frames) \in Nat \ {0} /\ Top = frames[Len(frames)] /\ Top \in Frames
         /\ Top.position = Len(Top.seen) /\ Number = Len(Top.seen) + 1
         /\ Top.conditions \in Seq(GroupType) /\ Active \in BOOLEAN
         /\ Top.seen \in Seq(Entries) /\ Top.path \in Volume
<1>1. Len(frames) \in Nat \ {0} /\ Top = frames[Len(frames)] /\ Top \in Frames
  BY Lasts DEF Typed, Top
<1>2. /\ Top.conditions \in Seq(GroupType) /\ Top.seen \in Seq(Entries)
      /\ Top.path \in Volume
  BY <1>1 DEF Frames
<1>3. Top.position = Len(Top.seen) /\ Number = Len(Top.seen) + 1
  BY <1>1 DEF Typed, Number
<1>4. Active \in BOOLEAN
  <2>1. CASE Top.conditions = <<>>
    BY <2>1 DEF Active, IsActive
  <2>2. CASE Top.conditions # <<>>
    <3>1. Last(Top.conditions) \in GroupType
      BY <1>2, <2>2, Lasts
    <3> QED
      BY <2>2, <3>1 DEF Active, IsActive, GroupType
  <2> QED
    BY <2>1, <2>2
<1> QED
  BY <1>1, <1>2, <1>3, <1>4

LEMMA HoldsType ==
  ASSUME NEW line
  PROVE  Holds(line) \in BOOLEAN
<1>1. CASE line.kind \in {"if", "elif"}
  BY <1>1 DEF Holds
<1>2. CASE line.kind = "ifdef"
  BY <1>2 DEF Holds
<1>3. CASE line.kind = "ifndef"
  BY <1>3 DEF Holds
<1>4. CASE line.kind \notin {"if", "elif", "ifdef", "ifndef"}
  BY <1>4 DEF Holds
<1> QED
  BY <1>1, <1>2, <1>3, <1>4

Entry(line) == [line |-> line, active |-> Active, holds |-> Holds(line)]

LEMMA AfterOf ==
  ASSUME Typed, frames # <<>>, NEW line \in Lines, NEW conditions \in Seq(GroupType)
  PROVE  /\ After(line, conditions) \in Frames
         /\ After(line, conditions).position = Len(Top.seen) + 1
         /\ After(line, conditions).conditions = conditions
         /\ After(line, conditions).seen = Append(Top.seen, Entry(line))
         /\ After(line, conditions).path = Top.path
         /\ After(line, conditions).savedPath = Top.savedPath
         /\ After(line, conditions).savedDelta = Top.savedDelta
         /\ Entry(line) \in Entries
         /\ Len(Append(Top.seen, Entry(line))) = Len(Top.seen) + 1
<1>1. Entry(line) \in Entries
  BY TopOf, HoldsType DEF Entry, Entries
<1>2. /\ Append(Top.seen, Entry(line)) \in Seq(Entries)
      /\ Len(Append(Top.seen, Entry(line))) = Len(Top.seen) + 1
  BY <1>1, TopOf, AppendProperties
<1>3. After(line, conditions) = [Top EXCEPT !.position = Len(Top.seen) + 1,
         !.conditions = conditions, !.seen = Append(Top.seen, Entry(line))]
  BY TopOf DEF After, Entry
<1> DEFINE longer == Append(Top.seen, Entry(line))
<1> HIDE DEF longer
<1>4. Top \in Frames /\ Len(Top.seen) + 1 \in Nat
  BY TopOf
<1>5. After(line, conditions) = [Top EXCEPT !.position = Len(Top.seen) + 1,
         !.conditions = conditions, !.seen = longer]
  BY <1>3 DEF longer
<1>6. longer \in Seq(Entries)
  BY <1>2 DEF longer
<1>7. After(line, conditions) \in Frames
  BY <1>4, <1>5, <1>6 DEF Frames
<1>8. /\ After(line, conditions).position = Len(Top.seen) + 1
      /\ After(line, conditions).conditions = conditions
      /\ After(line, conditions).seen = longer
      /\ After(line, conditions).path = Top.path
      /\ After(line, conditions).savedPath = Top.savedPath
      /\ After(line, conditions).savedDelta = Top.savedDelta
  BY <1>4, <1>5 DEF Frames
<1> QED
  BY <1>1, <1>2, <1>7, <1>8 DEF longer

\* The contents of files are only discovered.
LEMMA Discovered ==
  ASSUME Typed, frames # <<>>, NEW line \in Lines, Reads(line)
  PROVE  /\ content' \in [Volume -> Seq(Lines)] /\ ended' = ended /\ done' = done
         /\ \A file \in Volume : Len(content[file]) <= Len(content'[file])
         /\ Number <= Len(content'[Top.path])
<1>1. content[Top.path] \in Seq(Lines) /\ Top.path \in Volume /\ Number \in Nat
      /\ Number <= Len(content[Top.path]) + 1
  <2>1. Top.path \in Volume
    BY TopOf
  <2>2. content \in [Volume -> Seq(Lines)]
    BY DEF Typed
  <2>3. /\ Len(frames) \in 1..Len(frames) /\ Top = frames[Len(frames)]
        /\ Top.position = Len(Top.seen) /\ Number = Len(Top.seen) + 1
        /\ Len(Top.seen) \in Nat
    <3>1. Top.seen \in Seq(Entries) /\ Len(frames) \in Nat \ {0}
      BY TopOf
    <3> QED
      BY <3>1, TopOf
  <2>4. Top.position <= Len(content[Top.path])
    BY <2>3 DEF Typed
  <2>5. content[Top.path] \in Seq(Lines) /\ Len(content[Top.path]) \in Nat
    BY <2>1, <2>2
  <2> QED
    BY <2>1, <2>3, <2>4, <2>5
<1>2. CASE Number <= Len(content[Top.path])
  <2>1. content' = content /\ ended' = ended /\ done' = done
    BY <1>2 DEF Reads
  <2>2. content \in [Volume -> Seq(Lines)]
    BY DEF Typed
  <2>3. \A file \in Volume : Len(content[file]) \in Nat
    BY <2>2
  <2> QED
    BY <1>2, <2>1, <2>2, <2>3
<1>3. CASE ~(Number <= Len(content[Top.path]))
  <2>1. content' = [content EXCEPT ![Top.path] = Append(content[Top.path], line)]
    BY <1>3 DEF Reads
  <2>2. /\ Append(content[Top.path], line) \in Seq(Lines)
        /\ Len(Append(content[Top.path], line)) = Len(content[Top.path]) + 1
    BY <1>1, AppendProperties
  <2>3. content \in [Volume -> Seq(Lines)]
    BY DEF Typed
  <2>4. content'[Top.path] = Append(content[Top.path], line)
    BY <1>1, <2>1, <2>3
  <2>5. \A file \in Volume : file # Top.path => content'[file] = content[file]
    BY <2>1, <2>3
  <2>6. content' \in [Volume -> Seq(Lines)]
    BY <1>1, <2>1, <2>2, <2>3
  <2>7. \A file \in Volume : Len(content[file]) \in Nat
    BY <2>3
  <2>8. \A file \in Volume : Len(content[file]) <= Len(content'[file])
    BY <1>1, <2>2, <2>4, <2>5, <2>7
  <2>9. Number <= Len(content'[Top.path])
    BY <1>1, <1>3, <2>2, <2>4, <2>7
  <2>10. ended' = ended /\ done' = done
    BY DEF Reads
  <2> QED
    BY <2>6, <2>8, <2>9, <2>10
<1> QED
  BY <1>2, <1>3

LEMMA Framed ==
  ASSUME Typed, NEW line, NEW conditions, Steps(line, conditions)
  PROVE  /\ frames # <<>> /\ frames' \in Seq(Frames) /\ frames' # <<>>
         /\ Len(frames') = Len(frames) /\ Len(frames) \in Nat \ {0}
         /\ frames'[Len(frames)] = After(line, conditions) /\ Top' = After(line, conditions)
         /\ \A i \in 1..(Len(frames) - 1) : frames'[i] = frames[i]
<1>1. frames # <<>> /\ line \in Lines /\ conditions \in Seq(GroupType)
  BY DEF Steps, Reading
<1>2. After(line, conditions) \in Frames /\ Len(frames) \in Nat \ {0}
  BY <1>1, AfterOf, TopOf
<1>3. frames \in Seq(Frames) /\ frames' = Append(Front(frames), After(line, conditions))
  BY DEF Steps, GoOn, Typed
<1> DEFINE after == After(line, conditions)
<1> HIDE DEF after
<1>4. after \in Frames /\ frames' = Append(Front(frames), after)
  BY <1>2, <1>3 DEF after
<1>5. /\ frames' \in Seq(Frames) /\ Len(frames') = Len(frames) /\ frames' # <<>>
      /\ frames'[Len(frames)] = after /\ \A i \in 1..(Len(frames) - 1) : frames'[i] = frames[i]
  <2> DEFINE new == Append(Front(frames), after)
  <2>1. /\ new \in Seq(Frames) /\ Len(new) = Len(frames) /\ new # <<>>
        /\ new[Len(frames)] = after /\ \A i \in 1..(Len(frames) - 1) : new[i] = frames[i]
    BY <1>1, <1>3, <1>4, Replaced
  <2> HIDE DEF new
  <2>2. frames' = new
    BY <1>4 DEF new
  <2> QED
    BY <2>1, <2>2
<1>6. Top' = frames'[Len(frames')]
  BY DEF Top, Last
<1> QED
  BY <1>1, <1>2, <1>5, <1>6 DEF after

LEMMA TypedStep ==
  ASSUME Typed, NEW line, NEW conditions, Steps(line, conditions),
         output' \in Seq(Tokens), Len(output') <= MaxTokens
  PROVE  Typed'
<1>1. /\ frames # <<>> /\ line \in Lines /\ conditions \in Seq(GroupType) /\ Reads(line)
      /\ includes' = includes /\ good' \in BOOLEAN /\ errors' \in Nat /\ ~done
  BY DEF Steps, Reading
<1>2. /\ content' \in [Volume -> Seq(Lines)] /\ ended' = ended /\ done' = done
      /\ \A file \in Volume : Len(content[file]) <= Len(content'[file])
      /\ Number <= Len(content'[Top.path])
  BY <1>1, Discovered
<1>3. /\ frames' \in Seq(Frames) /\ Len(frames') = Len(frames) /\ Len(frames) \in Nat
      /\ frames'[Len(frames)] = After(line, conditions)
      /\ \A i \in 1..(Len(frames) - 1) : frames'[i] = frames[i]
  BY Framed
<1>4. ASSUME NEW i \in 1..Len(frames')
      PROVE  /\ frames'[i].position = Len(frames'[i].seen)
             /\ frames'[i].position <= Len(content'[frames'[i].path])
  <2>1. CASE i = Len(frames)
    <3>1. /\ After(line, conditions).position = Number
          /\ After(line, conditions).path = Top.path
          /\ Len(After(line, conditions).seen) = Number
      BY <1>1, AfterOf, TopOf
    <3> QED
      BY <1>2, <1>3, <2>1, <3>1
  <2>2. CASE i # Len(frames)
    <3>1. i \in 1..(Len(frames) - 1) /\ i \in 1..Len(frames) /\ frames'[i] = frames[i]
      BY <1>3, <2>2
    <3>2. /\ frames[i].position = Len(frames[i].seen)
          /\ frames[i].position <= Len(content[frames[i].path])
      BY <3>1 DEF Typed
    <3>3. frames[i] \in Frames
      BY <3>1 DEF Typed
    <3>4. frames[i].path \in Volume /\ frames[i].position \in Nat
      BY <3>3 DEF Frames
    <3>5. /\ Len(content[frames[i].path]) \in Nat /\ Len(content'[frames[i].path]) \in Nat
          /\ Len(content[frames[i].path]) <= Len(content'[frames[i].path])
      BY <1>2, <3>4 DEF Typed
    <3> QED
      BY <3>1, <3>2, <3>4, <3>5
  <2> QED
    BY <2>1, <2>2
<1>5. path' \in Names /\ delta' \in Int
  <2>1. CASE line.kind = "line" /\ Active
    <3>1. line.number \in Int /\ Number \in Int
      BY <1>1, <2>1, TopOf, PreprocessorAssumption
    <3>2. delta' = line.number - Number - 1
      BY <2>1 DEF Steps, Renamed
    <3>3. path' \in Names
      BY <1>1, <2>1 DEF Steps, Renamed, Typed, Names
    <3> QED
      BY <3>1, <3>2, <3>3
  <2>2. CASE ~(line.kind = "line" /\ Active)
    BY <2>2 DEF Steps, Renamed, Typed
  <2> QED
    BY <2>1, <2>2
<1>6. /\ content' \in [Volume -> Seq(Lines)] /\ ended' \subseteq Volume
      /\ includes' \in Seq(Volume) /\ done' \in BOOLEAN /\ ~done'
  BY <1>1, <1>2 DEF Typed
<1> QED
  BY <1>1, <1>3, <1>4, <1>5, <1>6 DEF Typed

-----------------------------------------------------------------------------
(* include_stack *)

Stack ==
  /\ Len(includes) = Len(frames) /\ Len(includes) <= MaxDepth
  /\ \A i \in 1..Len(frames) : includes[i] = frames[i].path
  /\ \A i, j \in 1..Len(includes) : includes[i] = includes[j] => i = j

LEMMA StackStep ==
  ASSUME Typed, Stack, NEW line, NEW conditions, Steps(line, conditions)
  PROVE  Stack'
<1>1. /\ Len(frames') = Len(frames) /\ Len(frames) \in Nat \ {0} /\ frames # <<>>
      /\ frames'[Len(frames)] = After(line, conditions)
      /\ \A i \in 1..(Len(frames) - 1) : frames'[i] = frames[i]
  BY Framed
<1>2. includes' = includes /\ line \in Lines /\ conditions \in Seq(GroupType)
  BY DEF Steps
<1>3. frames'[Len(frames)].path = frames[Len(frames)].path
  BY <1>1, <1>2, AfterOf, TopOf
<1>4. \A i \in 1..Len(frames') : includes'[i] = frames'[i].path
  <2> SUFFICES ASSUME NEW i \in 1..Len(frames')
               PROVE  includes'[i] = frames'[i].path
    OBVIOUS
  <2>1. includes[i] = frames[i].path
    BY <1>1 DEF Stack
  <2>2. i = Len(frames) \/ i \in 1..(Len(frames) - 1)
    BY <1>1
  <2> QED
    BY <1>1, <1>2, <1>3, <2>1, <2>2
<1> QED
  BY <1>1, <1>2, <1>4 DEF Stack

-----------------------------------------------------------------------------
(* The lines of a source, one more *)

LEMMA Counted ==
  ASSUME NEW n \in Nat, NEW S, S \subseteq 1..n
  PROVE  /\ IsFiniteSet(S) /\ Cardinality(S) \in Nat
         /\ Cardinality(S \cup {n + 1}) = Cardinality(S) + 1
<1>1. IsFiniteSet(1..n)
  BY FS_Interval
<1>2. IsFiniteSet(S)
  BY <1>1, FS_Subset
<1>3. n + 1 \notin S
  OBVIOUS
<1> QED
  BY <1>2, <1>3, FS_AddElement, FS_CardinalityType

LEMMA DepthIs ==
  ASSUME NEW seen, NEW k \in Nat, NEW m, k = m - 1
  PROVE  Depth(seen, m) = Cardinality({j \in 1..k : seen[j].line.kind \in Openings})
                            - Cardinality({j \in 1..k : seen[j].line.kind = "endif"})
BY DEF Depth

LEMMA RenumberingsIs ==
  ASSUME NEW seen, NEW k \in Nat, NEW m, k = m - 1
  PROVE  Renumberings(seen, m) = {i \in 1..k : seen[i].line.kind = "line" /\ seen[i].active}
BY DEF Renumberings

LEMMA LineIs ==
  ASSUME NEW seen, NEW m
  PROVE  PresumedLine(seen, m) =
           IF Renumberings(seen, m) = {} THEN m
           ELSE seen[Max(Renumberings(seen, m))].line.number
                  + (m - Max(Renumberings(seen, m)) - 1)
BY DEF PresumedLine

LEMMA DepthNext ==
  ASSUME NEW seen \in Seq(Entries), NEW e \in Entries
  PROVE  /\ Depth(seen, Len(seen) + 1) \in Int
         /\ Depth(Append(seen, e), Len(seen) + 2) = Depth(seen, Len(seen) + 1)
              + (IF e.line.kind \in Openings THEN 1 ELSE 0)
              - (IF e.line.kind = "endif" THEN 1 ELSE 0)
<1> DEFINE n == Len(seen)
           longer == Append(seen, e)
<1>1. n \in Nat /\ longer[n + 1] = e /\ \A i \in 1..n : longer[i] = seen[i]
  BY AppendProperties
<1> HIDE DEF n, longer
<1> DEFINE A == {j \in 1..n : seen[j].line.kind \in Openings}
           B == {j \in 1..n : seen[j].line.kind = "endif"}
           C == {j \in 1..(n + 1) : longer[j].line.kind \in Openings}
           D == {j \in 1..(n + 1) : longer[j].line.kind = "endif"}
<1>2. C = IF e.line.kind \in Openings THEN A \cup {n + 1} ELSE A
  BY <1>1
<1>3. D = IF e.line.kind = "endif" THEN B \cup {n + 1} ELSE B
  BY <1>1
<1>4. A \subseteq 1..n /\ B \subseteq 1..n
  OBVIOUS
<1>5. Depth(seen, n + 1) = Cardinality(A) - Cardinality(B)
  <2>1. n = (n + 1) - 1
    BY <1>1
  <2> QED
    BY <1>1, <2>1, DepthIs
<1>6. Depth(longer, n + 2) = Cardinality(C) - Cardinality(D)
  <2>1. n + 1 = (n + 2) - 1 /\ n + 1 \in Nat
    BY <1>1
  <2> QED
    BY <2>1, DepthIs
<1> HIDE DEF A, B, C, D
<1>7. Cardinality(A) \in Nat /\ Cardinality(A \cup {n + 1}) = Cardinality(A) + 1
  BY <1>1, <1>4, Counted
<1>8. Cardinality(B) \in Nat /\ Cardinality(B \cup {n + 1}) = Cardinality(B) + 1
  BY <1>1, <1>4, Counted
<1>9. Cardinality(C) = Cardinality(A) + (IF e.line.kind \in Openings THEN 1 ELSE 0)
  BY <1>2, <1>7
<1>10. Cardinality(D) = Cardinality(B) + (IF e.line.kind = "endif" THEN 1 ELSE 0)
  BY <1>3, <1>8
<1>11. Depth(longer, n + 2) = Depth(seen, n + 1)
              + (IF e.line.kind \in Openings THEN 1 ELSE 0)
              - (IF e.line.kind = "endif" THEN 1 ELSE 0)
  BY <1>5, <1>6, <1>7, <1>8, <1>9, <1>10
<1> QED
  BY <1>5, <1>7, <1>8, <1>11 DEF n, longer

LEMMA RenumberingsNext ==
  ASSUME NEW seen \in Seq(Entries), NEW e \in Entries
  PROVE  /\ Renumberings(seen, Len(seen) + 1) \subseteq 1..Len(seen)
         /\ Renumberings(Append(seen, e), Len(seen) + 2) =
              Renumberings(seen, Len(seen) + 1)
                \cup (IF e.line.kind = "line" /\ e.active THEN {Len(seen) + 1} ELSE {})
<1> DEFINE n == Len(seen)
           longer == Append(seen, e)
<1>1. n \in Nat /\ longer[n + 1] = e /\ \A i \in 1..n : longer[i] = seen[i]
  BY AppendProperties
<1> HIDE DEF n, longer
<1>2. n + 1 - 1 = n /\ n + 2 - 1 = n + 1
  BY <1>1
<1>3. Renumberings(seen, n + 1) = {i \in 1..n : seen[i].line.kind = "line" /\ seen[i].active}
  BY <1>1, <1>2, RenumberingsIs
<1>4. Renumberings(longer, n + 2)
        = {i \in 1..(n + 1) : longer[i].line.kind = "line" /\ longer[i].active}
  <2>1. n + 1 \in Nat /\ n + 1 = (n + 2) - 1
    BY <1>1
  <2> QED
    BY <2>1, RenumberingsIs
<1>5. Renumberings(longer, n + 2) = Renumberings(seen, n + 1)
        \cup (IF e.line.kind = "line" /\ e.active THEN {n + 1} ELSE {})
  BY <1>1, <1>3, <1>4
<1> QED
  BY <1>3, <1>5 DEF n, longer

LEMMA LineNext ==
  ASSUME NEW seen \in Seq(Entries), NEW e \in Entries
  PROVE  /\ PresumedLine(seen, Len(seen) + 1) \in Int
         /\ PresumedLine(Append(seen, e), Len(seen) + 2) =
              IF e.line.kind = "line" /\ e.active THEN e.line.number
              ELSE PresumedLine(seen, Len(seen) + 1) + 1
<1> DEFINE n == Len(seen)
           longer == Append(seen, e)
           old == Renumberings(seen, n + 1)
           new == Renumberings(longer, n + 2)
           counts == e.line.kind = "line" /\ e.active
<1>1. /\ n \in Nat /\ n + 1 \in Nat
      /\ longer[n + 1] = e /\ \A i \in 1..n : longer[i] = seen[i] /\ seen[i] \in Entries
  BY AppendProperties
<1>2. old \subseteq 1..n /\ new = old \cup (IF counts THEN {n + 1} ELSE {})
  BY RenumberingsNext
<1>3. \A i \in old : seen[i].line.number \in Int
  <2> SUFFICES ASSUME NEW i \in old
               PROVE  seen[i].line.number \in Int
    OBVIOUS
  <2>1. seen[i].line.kind = "line" /\ i \in 1..n
    BY <1>2 DEF Renumberings
  <2>2. seen[i].line \in Lines
    BY <1>1, <2>1 DEF Entries
  <2> QED
    BY <2>1, <2>2, PreprocessorAssumption
<1>4. counts => e.line.number \in Int
  BY PreprocessorAssumption DEF Entries
<1> DEFINE here == n + 1
           there == n + 2
<1>5. PresumedLine(seen, here) =
        IF old = {} THEN here ELSE seen[Max(old)].line.number + (here - Max(old) - 1)
  <2>1. old = Renumberings(seen, here)
    OBVIOUS
  <2> HIDE DEF old, here, n, longer
  <2> QED
    BY <2>1, LineIs
<1>6. PresumedLine(longer, there) =
        IF new = {} THEN there ELSE longer[Max(new)].line.number + (there - Max(new) - 1)
  <2>1. new = Renumberings(longer, there)
    OBVIOUS
  <2> HIDE DEF new, there, n, longer
  <2> QED
    BY <2>1, LineIs
<1>7. old # {} => Max(old) \in old
  BY <1>1, <1>2, MaxOf
<1>8. counts => Max(new) = n + 1
  <2> SUFFICES ASSUME counts
               PROVE  Max(new) = n + 1
    OBVIOUS
  <2> HIDE DEF n, old, new, longer
  <2>1. new \subseteq 1..(n + 1) /\ n + 1 \in new /\ \A x \in new : x <= n + 1
    BY <1>1, <1>2
  <2> QED
    BY <1>1, <2>1, MaxIs
<1> DEFINE before == PresumedLine(seen, here)
           after == PresumedLine(longer, there)
           highest == Max(old)
<1>9. after = IF counts THEN e.line.number ELSE before + 1
  <2>4. here \in Int /\ here = n + 1 /\ there \in Int /\ there = n + 2 /\ n \in Int
    BY <1>1
  <2> HIDE DEF n, old, new, longer, before, after, here, there
  <2>1. CASE counts
    <3>1. new # {} /\ longer[n + 1].line.number = e.line.number
      BY <1>1, <1>2, <2>1
    <3>2. after = e.line.number + (there - (n + 1) - 1)
      BY <1>6, <1>8, <2>1, <3>1 DEF after
    <3>3. e.line.number \in Int
      BY <1>4, <2>1
    <3> HIDE DEF counts
    <3> QED
      BY <1>1, <2>1, <2>4, <3>2, <3>3
  <2>2. CASE ~counts /\ old = {}
    <3>1. after = there /\ before = here
      BY <1>2, <1>5, <1>6, <2>2 DEF after, before
    <3> QED
      BY <1>1, <2>2, <2>4, <3>1
  <2>3. CASE ~counts /\ old # {}
    <3>1. new = old /\ highest \in 1..n /\ highest \in old
      BY <1>2, <1>7, <2>3
    <3>2. after = longer[highest].line.number + (there - highest - 1)
      BY <1>6, <2>3, <3>1 DEF after
    <3>3. before = seen[highest].line.number + (here - highest - 1)
      BY <1>5, <2>3 DEF before
    <3>4. longer[highest] = seen[highest] /\ seen[highest].line.number \in Int
      BY <1>1, <1>3, <3>1
    <3>5. ~counts
      BY <2>3
    <3> HIDE DEF highest, counts
    <3> DEFINE number == seen[highest].line.number
    <3>6. number \in Int /\ highest \in Int /\ n \in Int
      BY <1>1, <3>1, <3>4
    <3>7. after = number + (there - highest - 1) /\ before = number + (here - highest - 1)
      BY <3>2, <3>3, <3>4
    <3> HIDE DEF number
    <3>8. after = before + 1
      BY <2>4, <3>6, <3>7
    <3> QED
      BY <3>5, <3>8
  <2> QED
    BY <2>1, <2>2, <2>3
<1>10. before \in Int
  <2>4. here \in Int /\ n \in Int
    BY <1>1
  <2> HIDE DEF n, old, new, longer, here
  <2>1. CASE old = {}
    BY <1>5, <2>1, <2>4
  <2>2. CASE old # {}
    <3>1. highest \in 1..n /\ seen[highest].line.number \in Int
      BY <1>2, <1>3, <1>7, <2>2
    <3>2. before = seen[highest].line.number + (here - highest - 1)
      BY <1>5, <2>2
    <3> HIDE DEF highest, before
    <3> QED
      BY <2>4, <3>1, <3>2
  <2> QED
    BY <2>1, <2>2
<1> QED
  BY <1>9, <1>10 DEF before, after, n, longer, counts, here, there

LEMMA PathNext ==
  ASSUME NEW seen \in Seq(Entries), NEW e \in Entries, NEW file
  PROVE  PresumedPath(file, Append(seen, e), Len(seen) + 2) =
           IF e.line.kind = "line" /\ e.active /\ e.line.named THEN e.line.path
           ELSE PresumedPath(file, seen, Len(seen) + 1)
<1> DEFINE n == Len(seen)
           longer == Append(seen, e)
           old == {i \in Renumberings(seen, n + 1) : seen[i].line.named}
           new == {i \in Renumberings(longer, n + 2) : longer[i].line.named}
           counts == e.line.kind = "line" /\ e.active /\ e.line.named
<1>1. /\ n \in Nat /\ n + 1 \in Nat
      /\ longer[n + 1] = e /\ \A i \in 1..n : longer[i] = seen[i]
  BY AppendProperties
<1>2. /\ Renumberings(seen, n + 1) \subseteq 1..n
      /\ Renumberings(longer, n + 2) = Renumberings(seen, n + 1)
            \cup (IF e.line.kind = "line" /\ e.active THEN {n + 1} ELSE {})
  BY RenumberingsNext
<1>3. PresumedPath(file, seen, n + 1) = IF old = {} THEN file ELSE seen[Max(old)].line.path
  BY DEF PresumedPath
<1>4. PresumedPath(file, longer, n + 2) = IF new = {} THEN file ELSE longer[Max(new)].line.path
  BY DEF PresumedPath
<1>5. old \subseteq 1..n
  BY <1>2
<1>6. new = old \cup (IF counts THEN {n + 1} ELSE {})
  <2> HIDE DEF n, longer
  <2> QED
    BY <1>1, <1>2
<1>7. old # {} => Max(old) \in old
  BY <1>1, <1>5, MaxOf
<1> HIDE DEF n, longer, old, new
<1>8. counts => Max(new) = n + 1
  <2> SUFFICES ASSUME counts
               PROVE  Max(new) = n + 1
    OBVIOUS
  <2>1. new \subseteq 1..(n + 1) /\ n + 1 \in new /\ \A x \in new : x <= n + 1
    BY <1>1, <1>5, <1>6
  <2> QED
    BY <1>1, <2>1, MaxIs
<1>9. CASE counts
  <2>1. new # {} /\ longer[Max(new)] = e
    BY <1>1, <1>6, <1>8, <1>9
  <2> QED
    BY <1>4, <1>9, <2>1 DEF n, longer
<1>10. CASE ~counts
  <2>1. new = old
    BY <1>6, <1>10
  <2>2. old # {} => longer[Max(old)] = seen[Max(old)]
    BY <1>1, <1>5, <1>7
  <2>3. PresumedPath(file, longer, n + 2) = PresumedPath(file, seen, n + 1)
    BY <1>3, <1>4, <2>1, <2>2
  <2> QED
    BY <1>10, <2>3 DEF n, longer
<1> QED
  BY <1>9, <1>10

-----------------------------------------------------------------------------
(* The actions that take a line *)

\* What a line that is taken publishes.
Emits(line) ==
  \/ output' = output
  \/ /\ line.kind = "text" /\ Len(output) < MaxTokens
     /\ output' = Append(output, [path |-> path, line |-> Number + delta])

Takes == \E line, conditions : Steps(line, conditions) /\ Emits(line)

LEMMA Emitted ==
  ASSUME Typed, frames # <<>>, NEW line, Emits(line)
  PROVE  output' \in Seq(Tokens) /\ Len(output') <= MaxTokens
<1> DEFINE token == [path |-> path, line |-> Number + delta]
<1>1. token \in Tokens
  <2>1. Number \in Int
    BY TopOf
  <2> QED
    BY <2>1 DEF Typed, Tokens
<1>2. output \in Seq(Tokens) /\ Len(output) <= MaxTokens /\ MaxTokens \in Nat
  BY PreprocessorAssumption DEF Typed
<1> HIDE DEF token
<1>3. Append(output, token) \in Seq(Tokens) /\ Len(Append(output, token)) = Len(output) + 1
  BY <1>1, <1>2, AppendProperties
<1>4. output' = output \/ (Len(output) < MaxTokens /\ output' = Append(output, token))
  BY DEF Emits, token
<1> QED
  BY <1>2, <1>3, <1>4

LEMMA Failing ==
  ASSUME Typed, NEW count \in Nat, Fail(count) \/ Same
  PROVE  good' \in BOOLEAN /\ errors' \in Nat
<1>1. errors' \in Nat
  BY DEF Fail, Same, Typed
<1>2. good' \in BOOLEAN
  BY Zenon DEF Fail, Same, Typed
<1> QED
  BY <1>1, <1>2

LEMMA Opens ==
  ASSUME Typed, Reading, Open
  PROVE  Takes
<1>1. PICK line \in {l \in Lines : l.kind \in Openings} :
        /\ Reads(line)
        /\ GoOn(line, Append(Top.conditions,
                             Group(Active, Active /\ Holds(line), Active /\ Holds(line))))
        /\ errors' = errors + (IF Active /\ Invalid(line) THEN 1 ELSE 0)
        /\ UNCHANGED <<includes, macros, path, delta, output, good>>
  BY DEF Open
<1> DEFINE group == Group(Active, Active /\ Holds(line), Active /\ Holds(line))
           conditions == Append(Top.conditions, group)
<1>2. Active \in BOOLEAN /\ Holds(line) \in BOOLEAN /\ Top.conditions \in Seq(GroupType)
  BY TopOf, HoldsType DEF Reading
<1>3. group \in GroupType
  <2> DEFINE a == Active
             b == Active /\ Holds(line)
  <2>1. a \in BOOLEAN /\ b \in BOOLEAN
    BY <1>2
  <2> HIDE DEF a, b
  <2>2. Group(a, b, b) \in GroupType
    BY <2>1 DEF Group, GroupType
  <2> QED
    BY <2>2 DEF a, b
<1> HIDE DEF group
<1>4. conditions \in Seq(GroupType)
  BY <1>2, <1>3, AppendProperties
<1>5. Regrouped(line, conditions)
  BY <1>1 DEF Regrouped, Openings, Conditionals, group
<1>6. GoOn(line, conditions)
  BY <1>1 DEF group
<1>7. Renamed(line)
  BY <1>1 DEF Renamed, Openings
<1>8. good' \in BOOLEAN /\ errors' \in Nat
  BY <1>1 DEF Typed
<1> HIDE DEF conditions
<1>9. Steps(line, conditions) /\ Emits(line)
  BY <1>1, <1>4, <1>5, <1>6, <1>7, <1>8 DEF Steps, Emits
<1> QED
  BY <1>9 DEF Takes

LEMMA Switches ==
  ASSUME Typed, Reading, Elif \/ Else
  PROVE  Takes
<1>1. PICK line, group :
        /\ line \in Lines
        /\ Top.conditions # <<>>
        /\ \/ line.kind = "elif" /\ group = Reopen(Last(Top.conditions), Holds(line))
           \/ line.kind = "else" /\ group = Otherwise(Last(Top.conditions))
        /\ Reads(line)
        /\ GoOn(line, Replace(Top.conditions, group))
        /\ errors' \in Nat
        /\ UNCHANGED <<includes, path, delta, output, good>>
  <2>1. CASE Elif
    <3>1. PICK line \in Lines :
            /\ line.kind = "elif"
            /\ Top.conditions # <<>>
            /\ Reads(line)
            /\ GoOn(line, Replace(Top.conditions, Reopen(Last(Top.conditions), Holds(line))))
            /\ errors' = errors + (IF ~Last(Top.conditions).seenTrue
                                      /\ Last(Top.conditions).parent
                                      /\ Invalid(line) THEN 1 ELSE 0)
            /\ UNCHANGED <<includes, path, delta, output, good>>
      BY <2>1 DEF Elif
    <3>2. errors' \in Nat
      BY <3>1 DEF Typed
    <3> QED
      BY <3>1, <3>2
  <2>2. CASE Else
    <3>1. PICK line \in Lines :
            /\ line.kind = "else"
            /\ Top.conditions # <<>>
            /\ Reads(line)
            /\ GoOn(line, Replace(Top.conditions, Otherwise(Last(Top.conditions))))
            /\ UNCHANGED <<includes, path, delta, output, good, errors>>
      BY <2>2 DEF Else
    <3>2. errors' \in Nat
      BY <3>1 DEF Typed
    <3> QED
      BY <3>1, <3>2
  <2> QED
    BY <2>1, <2>2
<1>2. Holds(line) \in BOOLEAN /\ Top.conditions \in Seq(GroupType)
  BY TopOf, HoldsType DEF Reading
<1>3. Last(Top.conditions) \in GroupType
  BY <1>1, <1>2, Lasts
<1>4. group \in GroupType
  BY <1>1, <1>2, <1>3 DEF Reopen, Otherwise, GroupType
<1>5. Replace(Top.conditions, group) \in Seq(GroupType)
  BY <1>1, <1>2, <1>4, Replaced DEF Replace
<1>6. Regrouped(line, Replace(Top.conditions, group))
  BY <1>1 DEF Regrouped, Openings, Conditionals
<1>7. Renamed(line)
  BY <1>1 DEF Renamed
<1>8. good' \in BOOLEAN
  BY <1>1 DEF Typed
<1> DEFINE conditions == Replace(Top.conditions, group)
<1> HIDE DEF conditions
<1>9. Steps(line, conditions) /\ Emits(line)
  BY <1>1, <1>5, <1>6, <1>7, <1>8 DEF Steps, Emits, conditions
<1> QED
  BY <1>9 DEF Takes

LEMMA Closes ==
  ASSUME Typed, Reading, Endif \/ Stray
  PROVE  Takes
<1>1. Top.conditions \in Seq(GroupType)
  BY TopOf DEF Reading
<1>2. CASE Endif
  <2>1. PICK line \in Lines :
          /\ line.kind = "endif"
          /\ Top.conditions # <<>>
          /\ Reads(line)
          /\ GoOn(line, Front(Top.conditions))
          /\ UNCHANGED <<includes, path, delta, output, good, errors>>
    BY <1>2 DEF Endif
  <2> DEFINE conditions == Front(Top.conditions)
  <2>2. conditions \in Seq(GroupType)
    BY <1>1, <2>1, Lasts
  <2>3. Regrouped(line, conditions) /\ Renamed(line)
    BY <2>1 DEF Regrouped, Openings, Conditionals, Renamed
  <2>4. good' \in BOOLEAN /\ errors' \in Nat
    BY <2>1 DEF Typed
  <2>5. GoOn(line, conditions)
    BY <2>1
  <2> HIDE DEF conditions
  <2>6. Steps(line, conditions) /\ Emits(line)
    BY <2>1, <2>2, <2>3, <2>4, <2>5 DEF Steps, Emits
  <2> QED
    BY <2>6 DEF Takes
<1>3. CASE Stray
  <2>1. PICK line \in Lines :
          /\ line.kind \in {"elif", "else", "endif"}
          /\ Reads(line)
          /\ GoOn(line, <<>>)
          /\ Fail(1)
          /\ UNCHANGED <<includes, path, delta, output>>
    BY <1>3 DEF Stray
  <2>2. <<>> \in Seq(GroupType) /\ Renamed(line)
    BY <2>1 DEF Renamed
  <2>3. ~good' /\ good' \in BOOLEAN /\ errors' \in Nat
    <3>1. 1 \in Nat
      OBVIOUS
    <3>2. good' \in BOOLEAN /\ errors' \in Nat
      BY <2>1, <3>1, Failing
    <3>3. ~good'
      BY <2>1, Zenon DEF Fail
    <3> QED
      BY <3>2, <3>3
  <2>4. Steps(line, <<>>) /\ Emits(line)
    BY <2>1, <2>2, <2>3 DEF Steps, Emits
  <2> QED
    BY <2>4 DEF Takes
<1> QED
  BY <1>2, <1>3

LEMMA Executed ==
  ASSUME Typed, Reading, Pass \/ Text \/ Define \/ Undef \/ Line \/ Error
  PROVE  Takes
<1>1. Top.conditions \in Seq(GroupType) /\ 0 \in Nat /\ 1 \in Nat
  BY TopOf DEF Reading
<1>2. SUFFICES ASSUME NEW line \in Lines, Reads(line), GoOn(line, Top.conditions),
                      line.kind \notin Conditionals, UNCHANGED includes,
                      Fail(0) \/ Fail(1) \/ Same, Renamed(line), Emits(line)
               PROVE  Takes
  <2>1. CASE Pass
    BY <2>1 DEF Pass, Renamed, Emits
  <2>2. CASE Text
    <3>1. PICK line \in Lines :
            /\ line.kind = "text"
            /\ Executes(line)
            /\ IF Full
               THEN Fail(1) /\ UNCHANGED output
               ELSE /\ output' = Append(output, [path |-> path, line |-> Number + delta])
                    /\ Same
            /\ UNCHANGED <<includes, macros, path, delta>>
      BY <2>2 DEF Text
    <3>2. Emits(line)
      <4>1. ~Full => Len(output) < MaxTokens
        BY PreprocessorAssumption DEF Full, Typed
      <4>2. CASE Full
        BY <3>1, <4>2 DEF Emits
      <4>3. CASE ~Full
        BY <3>1, <4>1, <4>3 DEF Emits
      <4> QED
        BY <4>2, <4>3
    <3>3. Fail(1) \/ Same
      BY <3>1
    <3>4. Reads(line) /\ GoOn(line, Top.conditions) /\ UNCHANGED includes
      BY <3>1 DEF Executes
    <3>5. line.kind \notin Conditionals /\ Renamed(line)
      BY <3>1 DEF Conditionals, Openings, Renamed
    <3> QED
      BY <3>2, <3>3, <3>4, <3>5
  <2>3. CASE Define
    BY <2>3 DEF Define, Executes, Conditionals, Openings, Renamed, Emits
  <2>4. CASE Undef
    BY <2>4 DEF Undef, Executes, Conditionals, Openings, Renamed, Emits
  <2>5. CASE Line
    BY <2>5 DEF Line, Executes, Conditionals, Openings, Renamed, Emits
  <2>6. CASE Error
    BY <2>6 DEF Error, Executes, Conditionals, Openings, Renamed, Emits
  <2> QED
    BY <2>1, <2>2, <2>3, <2>4, <2>5, <2>6
<1>3. good' \in BOOLEAN /\ errors' \in Nat
  BY <1>1, <1>2, Failing
<1>4. Regrouped(line, Top.conditions)
  BY <1>2 DEF Regrouped, Conditionals
<1> DEFINE conditions == Top.conditions
<1>5. conditions \in Seq(GroupType) /\ GoOn(line, conditions) /\ Regrouped(line, conditions)
  BY <1>1, <1>2, <1>4
<1> HIDE DEF conditions
<1>6. Steps(line, conditions)
  BY <1>2, <1>3, <1>5 DEF Steps
<1> QED
  BY <1>2, <1>6 DEF Takes

-----------------------------------------------------------------------------
(* Sources are entered and left *)

Entering(line, file) ==
  /\ Reading
  /\ line \in Lines /\ line.kind = "include" /\ file \in Volume
  /\ Reads(line)
  /\ Len(includes) < MaxDepth /\ ~Cycle(file)
  /\ frames' = Front(frames) \o <<After(line, Top.conditions), Source(file)>>
  /\ includes' = Append(includes, file)
  /\ path' = file /\ delta' = 0
  /\ UNCHANGED <<good, errors, output>>

LEMMA Included ==
  ASSUME Typed, Reading, Include
  PROVE  Takes \/ \E line, file : Entering(line, file)
<1>1. PICK line \in Lines :
        /\ line.kind = "include"
        /\ Reads(line)
        /\ \/ /\ GoOn(line, Top.conditions)
              /\ Fail(1)
              /\ UNCHANGED <<includes, path, delta>>
           \/ \E file \in Volume :
                /\ Enters(line, file)
                /\ frames' = Front(frames)
                     \o <<After(line, Top.conditions), Source(file)>>
                /\ includes' = Append(includes, file)
                /\ path' = file /\ delta' = 0
                /\ Same
        /\ UNCHANGED <<macros, output>>
  BY Zenon DEF Include
<1>2. CASE GoOn(line, Top.conditions) /\ Fail(1) /\ UNCHANGED <<includes, path, delta>>
  <2> DEFINE conditions == Top.conditions
  <2>1. good' \in BOOLEAN /\ errors' \in Nat
    <3>1. 1 \in Nat
      OBVIOUS
    <3> QED
      BY <1>2, <3>1, Failing
  <2>2. conditions \in Seq(GroupType) /\ Regrouped(line, conditions) /\ Renamed(line)
    BY <1>1, <1>2, TopOf DEF Reading, Regrouped, Renamed, Openings
  <2>3. GoOn(line, conditions) /\ UNCHANGED includes
    BY <1>2
  <2> HIDE DEF conditions
  <2>4. Steps(line, conditions) /\ Emits(line)
    BY <1>1, <2>1, <2>2, <2>3 DEF Steps, Emits
  <2> QED
    BY <2>4 DEF Takes
<1>3. CASE \E file \in Volume :
             /\ Enters(line, file)
             /\ frames' = Front(frames) \o <<After(line, Top.conditions), Source(file)>>
             /\ includes' = Append(includes, file)
             /\ path' = file /\ delta' = 0
             /\ Same
  BY <1>1, <1>3, Zenon DEF Entering, Enters, Same
<1> QED
  BY <1>1, <1>2, <1>3

LEMMA Pushed ==
  ASSUME Typed, NEW line, NEW file, Entering(line, file)
  PROVE  /\ frames # <<>> /\ Len(frames) \in Nat \ {0}
         /\ After(line, Top.conditions) \in Frames /\ Source(file) \in Frames
         /\ frames' \in Seq(Frames) /\ Len(frames') = Len(frames) + 1
         /\ frames'[Len(frames)] = After(line, Top.conditions)
         /\ frames'[Len(frames) + 1] = Source(file)
         /\ \A i \in 1..(Len(frames) - 1) : frames'[i] = frames[i]
<1>1. frames # <<>> /\ line \in Lines /\ file \in Volume
  BY DEF Entering, Reading
<1>2. Top.conditions \in Seq(GroupType)
  BY <1>1, TopOf
<1>3. After(line, Top.conditions) \in Frames
  BY <1>1, <1>2, AfterOf
<1>4. Source(file) \in Frames
  BY <1>1 DEF Source, Typed, Frames
<1> DEFINE after == After(line, Top.conditions)
           source == Source(file)
           both == <<after, source>>
<1>5. frames' = Front(frames) \o both
  BY DEF Entering
<1>6. after \in Frames /\ source \in Frames
  BY <1>3, <1>4
<1> HIDE DEF after, source
<1>7. both \in Seq(Frames) /\ Len(both) = 2 /\ both[1] = after /\ both[2] = source
  BY <1>6
<1> HIDE DEF both
<1>8. /\ Front(frames) \in Seq(Frames) /\ Len(Front(frames)) = Len(frames) - 1
      /\ Len(frames) \in Nat \ {0}
      /\ \A i \in 1..(Len(frames) - 1) : Front(frames)[i] = frames[i]
  BY <1>1, Lasts DEF Typed
<1> DEFINE front == Front(frames)
           new == front \o both
<1> HIDE DEF front
<1>9. front \in Seq(Frames) /\ Len(front) = Len(frames) - 1
  BY <1>8 DEF front
<1>10. /\ new \in Seq(Frames) /\ Len(new) = Len(front) + Len(both)
       /\ \A i \in 1..(Len(front) + Len(both)) :
            new[i] = IF i <= Len(front) THEN front[i] ELSE both[i - Len(front)]
  BY <1>7, <1>9, ConcatProperties
<1> HIDE DEF new
<1>11. /\ Len(new) = Len(frames) + 1
       /\ new[Len(frames)] = after /\ new[Len(frames) + 1] = source
  <2>1. Len(frames) - Len(front) = 1 /\ Len(frames) + 1 - Len(front) = 2
    BY <1>8, <1>9
  <2>2. /\ Len(frames) \in 1..(Len(front) + Len(both))
        /\ Len(frames) + 1 \in 1..(Len(front) + Len(both))
        /\ ~(Len(frames) <= Len(front)) /\ ~(Len(frames) + 1 <= Len(front))
    BY <1>7, <1>8, <1>9
  <2>3. new[Len(frames)] = both[1] /\ new[Len(frames) + 1] = both[2]
    BY <1>10, <2>1, <2>2
  <2> QED
    BY <1>7, <1>8, <1>9, <1>10, <2>3
<1>12. \A i \in 1..(Len(frames) - 1) : new[i] = frames[i]
  BY <1>7, <1>8, <1>9, <1>10 DEF front
<1>13. frames' = new
  BY <1>5 DEF new, front
<1> QED
  BY <1>1, <1>6, <1>8, <1>10, <1>11, <1>12, <1>13 DEF after, source

LEMMA Popped ==
  ASSUME Typed, Leave
  PROVE  /\ frames # <<>> /\ Len(frames) \in Nat \ {0}
         /\ frames' \in Seq(Frames) /\ Len(frames') = Len(frames) - 1
         /\ \A i \in 1..(Len(frames) - 1) : frames'[i] = frames[i]
<1>1. frames # <<>> /\ frames' = Front(frames)
  BY DEF Leave
<1>2. /\ Front(frames) \in Seq(Frames) /\ Len(Front(frames)) = Len(frames) - 1
      /\ Len(frames) \in Nat \ {0}
      /\ \A i \in 1..(Len(frames) - 1) : Front(frames)[i] = frames[i]
  BY <1>1, Lasts DEF Typed
<1> QED
  BY <1>1, <1>2

LEMMA TypedEntering ==
  ASSUME Typed, NEW line, NEW file, Entering(line, file)
  PROVE  Typed'
<1>1. /\ frames # <<>> /\ line \in Lines /\ file \in Volume /\ Reads(line) /\ ~done
      /\ includes' = Append(includes, file) /\ path' = file /\ delta' = 0
      /\ UNCHANGED <<good, errors, output>>
  BY DEF Entering, Reading
<1>2. /\ content' \in [Volume -> Seq(Lines)] /\ ended' = ended /\ done' = done
      /\ \A f \in Volume : Len(content[f]) <= Len(content'[f])
      /\ Number <= Len(content'[Top.path])
  BY <1>1, Discovered
<1>3. /\ Len(frames) \in Nat \ {0}
      /\ frames' \in Seq(Frames) /\ Len(frames') = Len(frames) + 1
      /\ frames'[Len(frames)] = After(line, Top.conditions)
      /\ frames'[Len(frames) + 1] = Source(file)
      /\ \A i \in 1..(Len(frames) - 1) : frames'[i] = frames[i]
  BY Pushed
<1>4. ASSUME NEW i \in 1..Len(frames')
      PROVE  /\ frames'[i].position = Len(frames'[i].seen)
             /\ frames'[i].position <= Len(content'[frames'[i].path])
  <2>1. CASE i = Len(frames)
    <3>1. Top.conditions \in Seq(GroupType)
      BY <1>1, TopOf
    <3>2. /\ After(line, Top.conditions).position = Number
          /\ After(line, Top.conditions).path = Top.path
          /\ Len(After(line, Top.conditions).seen) = Number
      BY <1>1, <3>1, AfterOf, TopOf
    <3> QED
      BY <1>2, <1>3, <2>1, <3>2
  <2>2. CASE i = Len(frames) + 1
    <3>1. frames'[i].position = 0 /\ frames'[i].seen = <<>> /\ frames'[i].path = file
      BY <1>3, <2>2 DEF Source
    <3>2. Len(content'[file]) \in Nat
      BY <1>1, <1>2
    <3> QED
      BY <3>1, <3>2
  <2>3. CASE i # Len(frames) /\ i # Len(frames) + 1
    <3>1. i \in 1..(Len(frames) - 1) /\ i \in 1..Len(frames) /\ frames'[i] = frames[i]
      BY <1>3, <2>3
    <3>2. /\ frames[i].position = Len(frames[i].seen)
          /\ frames[i].position <= Len(content[frames[i].path])
      BY <3>1 DEF Typed
    <3>3. frames[i] \in Frames
      BY <3>1 DEF Typed
    <3>4. frames[i].path \in Volume /\ frames[i].position \in Nat
      BY <3>3 DEF Frames
    <3>5. /\ Len(content[frames[i].path]) \in Nat /\ Len(content'[frames[i].path]) \in Nat
          /\ Len(content[frames[i].path]) <= Len(content'[frames[i].path])
      BY <1>2, <3>4 DEF Typed
    <3> QED
      BY <3>1, <3>2, <3>4, <3>5
  <2> QED
    BY <2>1, <2>2, <2>3
<1>5. path' \in Names /\ delta' \in Int
  BY <1>1 DEF Names
<1>6. /\ content' \in [Volume -> Seq(Lines)] /\ ended' \subseteq Volume
      /\ done' \in BOOLEAN /\ ~done' /\ good' \in BOOLEAN /\ errors' \in Nat
      /\ output' \in Seq(Tokens) /\ Len(output') <= MaxTokens
  BY <1>1, <1>2 DEF Typed
<1>7. includes' \in Seq(Volume)
  BY <1>1, AppendProperties DEF Typed
<1> QED
  BY <1>3, <1>4, <1>5, <1>6, <1>7 DEF Typed

LEMMA TypedLeave ==
  ASSUME Typed, Stack, Leave
  PROVE  Typed'
<1>1. /\ Len(frames) \in Nat \ {0} /\ frames # <<>> /\ frames' \in Seq(Frames)
      /\ Len(frames') = Len(frames) - 1
      /\ \A i \in 1..(Len(frames) - 1) : frames'[i] = frames[i]
  BY Popped
<1>2. Top \in Frames /\ Top.path \in Volume
  BY <1>1, TopOf
<1>3. path' \in Names /\ delta' \in Int
  BY <1>2 DEF Leave, Restore, Frames
<1>4. includes' \in Seq(Volume)
  <2>1. includes \in Seq(Volume) /\ Len(includes) # 0
    BY <1>1 DEF Typed, Stack
  <2>2. includes # <<>>
    BY <2>1
  <2> QED
    BY <2>1, <2>2, Lasts DEF Leave
<1>5. good' \in BOOLEAN /\ errors' \in Nat
  <2>1. 1 \in Nat /\ (Fail(1) \/ Same)
    BY DEF Leave
  <2> QED
    BY <2>1, Failing
<1>6. /\ content' = content /\ ended' \subseteq Volume /\ ~done' /\ done' \in BOOLEAN
      /\ output' = output
  BY <1>2 DEF Leave, Typed
<1>7. ASSUME NEW i \in 1..Len(frames')
      PROVE  /\ frames'[i].position = Len(frames'[i].seen)
             /\ frames'[i].position <= Len(content'[frames'[i].path])
  <2>1. i \in 1..Len(frames) /\ frames'[i] = frames[i]
    BY <1>1
  <2> QED
    BY <1>6, <2>1 DEF Typed
<1> QED
  BY <1>1, <1>3, <1>4, <1>5, <1>6, <1>7 DEF Typed

LEMMA TypedFinish ==
  ASSUME Typed, Finish
  PROVE  Typed'
<1>1. /\ output' = <<>> \/ output' = output
      /\ Fail(1) \/ Same
      /\ done' = TRUE /\ frames = <<>>
      /\ UNCHANGED <<content, ended, frames, includes, path, delta>>
  BY DEF Finish, Published
<1>2. output' \in Seq(Tokens) /\ Len(output') <= MaxTokens
  <2>1. CASE output' = <<>>
    <3>1. MaxTokens \in Nat /\ Len(<<>>) = 0 /\ <<>> \in Seq(Tokens)
      BY PreprocessorAssumption
    <3> QED
      BY <2>1, <3>1
  <2>2. CASE output' = output
    BY <2>2 DEF Typed
  <2> QED
    BY <1>1, <2>1, <2>2
<1>3. good' \in BOOLEAN /\ errors' \in Nat
  <2>1. 1 \in Nat
    OBVIOUS
  <2> QED
    BY <1>1, <2>1, Failing
<1>4. done' \in BOOLEAN /\ (done' => frames' = <<>>)
  BY <1>1
<1> QED
  BY <1>1, <1>2, <1>3, <1>4 DEF Typed

LEMMA StackEntering ==
  ASSUME Typed, Stack, NEW line, NEW file, Entering(line, file)
  PROVE  Stack'
<1>1. /\ Len(frames) \in Nat \ {0} /\ frames # <<>> /\ Len(frames') = Len(frames) + 1
      /\ frames'[Len(frames)] = After(line, Top.conditions)
      /\ frames'[Len(frames) + 1] = Source(file)
      /\ \A i \in 1..(Len(frames) - 1) : frames'[i] = frames[i]
  BY Pushed
<1>2. /\ includes' = Append(includes, file) /\ line \in Lines /\ file \in Volume
      /\ Len(includes) < MaxDepth /\ file \notin ToSet(includes)
  BY DEF Entering, Cycle
<1>3. includes \in Seq(Volume) /\ MaxDepth \in Nat
  BY PreprocessorAssumption DEF Typed
<1>4. /\ Len(includes') = Len(includes) + 1 /\ includes'[Len(includes) + 1] = file
      /\ \A i \in 1..Len(includes) : includes'[i] = includes[i] /\ includes[i] # file
  BY <1>2, <1>3, AppendProperties DEF ToSet
<1>5. After(line, Top.conditions).path = Top.path /\ Top = frames[Len(frames)]
  <2>1. Top.conditions \in Seq(GroupType)
    BY <1>1, TopOf
  <2> QED
    BY <1>1, <1>2, <2>1, AfterOf, TopOf
<1>6. Source(file).path = file
  BY DEF Source
<1>7. \A i \in 1..Len(frames') : includes'[i] = frames'[i].path
  <2> SUFFICES ASSUME NEW i \in 1..Len(frames')
               PROVE  includes'[i] = frames'[i].path
    OBVIOUS
  <2>1. CASE i = Len(frames) + 1
    BY <1>1, <1>4, <1>6, <2>1 DEF Stack
  <2>2. CASE i = Len(frames)
    BY <1>1, <1>4, <1>5, <2>2 DEF Stack
  <2>3. CASE i \in 1..(Len(frames) - 1)
    BY <1>1, <1>4, <2>3 DEF Stack
  <2> QED
    BY <1>1, <2>1, <2>2, <2>3
<1>8. \A i, j \in 1..Len(includes') : includes'[i] = includes'[j] => i = j
  BY <1>1, <1>4 DEF Stack
<1> QED
  BY <1>1, <1>2, <1>3, <1>4, <1>7, <1>8 DEF Stack

LEMMA StackLeave ==
  ASSUME Typed, Stack, Leave
  PROVE  Stack'
<1>1. /\ Len(frames) \in Nat \ {0} /\ Len(frames') = Len(frames) - 1
      /\ \A i \in 1..(Len(frames) - 1) : frames'[i] = frames[i]
  BY Popped
<1>2. includes \in Seq(Volume) /\ includes # <<>> /\ Len(includes) = Len(frames)
  BY <1>1 DEF Typed, Stack
<1>3. /\ Len(Front(includes)) = Len(includes) - 1
      /\ \A i \in 1..(Len(includes) - 1) : Front(includes)[i] = includes[i]
  BY <1>2, Lasts
<1>4. includes' = Front(includes)
  BY DEF Leave
<1>5. MaxDepth \in Nat
  BY PreprocessorAssumption
<1> QED
  BY <1>1, <1>2, <1>3, <1>4, <1>5 DEF Stack

-----------------------------------------------------------------------------
(* Conditional groups *)

DepthOf(seen) == Depth(seen, Len(seen) + 1)

Balanced ==
  good => \A i \in 1..Len(frames) : DepthOf(frames[i].seen) = Len(frames[i].conditions)

LEMMA DepthNone ==
  DepthOf(<<>>) = 0 /\ Len(<<>>) = 0
<1>1. Depth(<<>>, 1) = Cardinality({j \in 1..0 : (<<>>[j]).line.kind \in Openings})
                        - Cardinality({j \in 1..0 : (<<>>[j]).line.kind = "endif"})
  BY DepthIs
<1>2. /\ {j \in 1..0 : (<<>>[j]).line.kind \in Openings} = {}
      /\ {j \in 1..0 : (<<>>[j]).line.kind = "endif"} = {}
  OBVIOUS
<1>3. Cardinality({}) = 0
  BY FS_EmptySet
<1> QED
  BY <1>1, <1>2, <1>3 DEF DepthOf

LEMMA Recounted ==
  ASSUME Typed, frames # <<>>, NEW line \in Lines, NEW conditions \in Seq(GroupType),
         Regrouped(line, conditions),
         DepthOf(Top.seen) = Len(Top.conditions)
  PROVE  DepthOf(After(line, conditions).seen) = Len(After(line, conditions).conditions)
<1> DEFINE old == Top.conditions
           seen == Top.seen
           e == Entry(line)
           opens == IF line.kind \in Openings THEN 1 ELSE 0
           closes == IF line.kind = "endif" THEN 1 ELSE 0
<1>1. old \in Seq(GroupType) /\ seen \in Seq(Entries)
  BY TopOf
<1>2. /\ After(line, conditions).conditions = conditions
      /\ After(line, conditions).seen = Append(seen, e)
      /\ Len(Append(seen, e)) = Len(seen) + 1
      /\ e \in Entries
  BY AfterOf
<1>3. e.line = line
  BY DEF Entry
<1>4. Len(conditions) = Len(old) + opens - closes
  <2>1. CASE line.kind \in Openings
    <3>1. conditions = Append(old, Group(Active, Active /\ Holds(line), Active /\ Holds(line)))
      BY <2>1 DEF Regrouped
    <3> DEFINE group == Group(Active, Active /\ Holds(line), Active /\ Holds(line))
    <3> HIDE DEF group
    <3>2. conditions = Append(old, group)
      BY <3>1 DEF group
    <3>3. Len(Append(old, group)) = Len(old) + 1 /\ Len(old) \in Nat
      BY <1>1
    <3>4. opens = 1 /\ closes = 0
      BY <2>1 DEF Openings
    <3> HIDE DEF old, opens, closes
    <3> QED
      BY <3>2, <3>3, <3>4
  <2>2. CASE line.kind \in {"elif", "else"}
    <3>1. PICK group : conditions = Append(Front(old), group) /\ old # <<>>
      BY <2>2 DEF Regrouped, Replace
    <3>2. /\ Front(old) \in Seq(GroupType) /\ Len(Front(old)) = Len(old) - 1
          /\ Len(old) \in Nat \ {0}
      BY <1>1, <3>1, Lasts
    <3>3. Len(Append(Front(old), group)) = Len(Front(old)) + 1
      BY <3>2
    <3>4. opens = 0 /\ closes = 0
      BY <2>2 DEF Openings
    <3> HIDE DEF old, opens, closes
    <3> QED
      BY <3>1, <3>2, <3>3, <3>4
  <2>3. CASE line.kind = "endif"
    <3>1. conditions = Front(old) /\ old # <<>>
      BY <2>3 DEF Regrouped
    <3>2. Len(Front(old)) = Len(old) - 1 /\ Len(old) \in Nat \ {0}
      BY <1>1, <3>1, Lasts
    <3>3. opens = 0 /\ closes = 1
      BY <2>3 DEF Openings
    <3> HIDE DEF old, opens, closes
    <3> QED
      BY <3>1, <3>2, <3>3
  <2>4. CASE line.kind \notin Conditionals
    <3>1. conditions = old /\ Len(old) \in Nat
      BY <1>1, <2>4 DEF Regrouped
    <3>2. opens = 0 /\ closes = 0
      BY <2>4 DEF Conditionals
    <3> HIDE DEF old, opens, closes
    <3> QED
      BY <3>1, <3>2
  <2> QED
    BY <2>1, <2>2, <2>3, <2>4 DEF Conditionals
<1> HIDE DEF seen, e, old
<1>5. Depth(Append(seen, e), Len(seen) + 2) = Depth(seen, Len(seen) + 1) + opens - closes
  <2>1. /\ Depth(seen, Len(seen) + 1) \in Int
        /\ Depth(Append(seen, e), Len(seen) + 2) = Depth(seen, Len(seen) + 1)
              + (IF e.line.kind \in Openings THEN 1 ELSE 0)
              - (IF e.line.kind = "endif" THEN 1 ELSE 0)
    BY <1>1, <1>2, DepthNext
  <2> QED
    BY <1>3, <2>1
<1>6. Depth(seen, Len(seen) + 1) = Len(old)
  BY DEF DepthOf, seen, old
<1>7. Len(Append(seen, e)) + 1 = Len(seen) + 2
  <2>1. Len(seen) \in Nat
    BY <1>1
  <2> QED
    BY <1>2, <2>1
<1> HIDE DEF opens, closes
<1> QED
  BY <1>2, <1>4, <1>5, <1>6, <1>7 DEF DepthOf, seen

LEMMA BalancedStep ==
  ASSUME Typed, Balanced, NEW line, NEW conditions, Steps(line, conditions)
  PROVE  Balanced'
<1>1. /\ frames # <<>> /\ Len(frames') = Len(frames) /\ Len(frames) \in Nat \ {0}
      /\ frames'[Len(frames)] = After(line, conditions)
      /\ \A i \in 1..(Len(frames) - 1) : frames'[i] = frames[i]
  BY Framed
<1>2. good /\ line \in Lines /\ conditions \in Seq(GroupType)
  BY DEF Steps, Reading
<1>3. SUFFICES ASSUME good', NEW i \in 1..Len(frames')
               PROVE  DepthOf(frames'[i].seen) = Len(frames'[i].conditions)
  BY DEF Balanced, DepthOf, Depth
<1>4. \A k \in 1..Len(frames) : DepthOf(frames[k].seen) = Len(frames[k].conditions)
  BY <1>2 DEF Balanced
<1>5. CASE i = Len(frames)
  <2>1. Regrouped(line, conditions)
    BY <1>3 DEF Steps
  <2>2. DepthOf(Top.seen) = Len(Top.conditions)
    BY <1>1, <1>4, TopOf
  <2> QED
    BY <1>1, <1>2, <1>5, <2>1, <2>2, Recounted
<1>6. CASE i # Len(frames)
  BY <1>1, <1>4, <1>6
<1> QED
  BY <1>5, <1>6

LEMMA BalancedEntering ==
  ASSUME Typed, Balanced, NEW line, NEW file, Entering(line, file)
  PROVE  Balanced'
<1>1. /\ frames # <<>> /\ Len(frames) \in Nat \ {0} /\ Len(frames') = Len(frames) + 1
      /\ frames'[Len(frames)] = After(line, Top.conditions)
      /\ frames'[Len(frames) + 1] = Source(file)
      /\ \A i \in 1..(Len(frames) - 1) : frames'[i] = frames[i]
  BY Pushed
<1>2. good /\ line \in Lines /\ line.kind = "include"
  BY DEF Entering, Reading
<1>3. SUFFICES ASSUME NEW i \in 1..Len(frames')
               PROVE  DepthOf(frames'[i].seen) = Len(frames'[i].conditions)
  BY DEF Balanced, DepthOf, Depth
<1>4. \A k \in 1..Len(frames) : DepthOf(frames[k].seen) = Len(frames[k].conditions)
  BY <1>2 DEF Balanced
<1>5. CASE i = Len(frames)
  <2>1. Top.conditions \in Seq(GroupType)
    BY <1>1, TopOf
  <2>2. Regrouped(line, Top.conditions)
    BY <1>2 DEF Regrouped, Openings
  <2>3. DepthOf(Top.seen) = Len(Top.conditions)
    BY <1>1, <1>4, TopOf
  <2> QED
    BY <1>1, <1>2, <1>5, <2>1, <2>2, <2>3, Recounted
<1>6. CASE i = Len(frames) + 1
  <2>1. frames'[i].seen = <<>> /\ frames'[i].conditions = <<>>
    BY <1>1, <1>6 DEF Source
  <2> QED
    BY <2>1, DepthNone
<1>7. CASE i # Len(frames) /\ i # Len(frames) + 1
  BY <1>1, <1>4, <1>7
<1> QED
  BY <1>5, <1>6, <1>7

LEMMA BalancedLeave ==
  ASSUME Typed, Balanced, Leave
  PROVE  Balanced'
<1>1. /\ Len(frames) \in Nat \ {0} /\ Len(frames') = Len(frames) - 1
      /\ \A i \in 1..(Len(frames) - 1) : frames'[i] = frames[i]
  BY Popped
<1>2. good' => good
  BY Zenon DEF Leave, Fail, Same
<1>3. SUFFICES ASSUME good', NEW i \in 1..Len(frames')
               PROVE  DepthOf(frames'[i].seen) = Len(frames'[i].conditions)
  BY DEF Balanced, DepthOf, Depth
<1>4. i \in 1..Len(frames) /\ frames'[i] = frames[i]
  BY <1>1
<1> QED
  BY <1>2, <1>3, <1>4 DEF Balanced

-----------------------------------------------------------------------------
(* The presumed path and line *)

\* What each source goes on with: for the one on top that is the path and the
\* delta of now, for the others what the source above them has put aside.
PathAt(i) == IF i = Len(frames) THEN path ELSE frames[i + 1].savedPath
DeltaAt(i) == IF i = Len(frames) THEN delta ELSE frames[i + 1].savedDelta

Tells(frame, p, d) ==
  LET n == Len(frame.seen) + 1 IN
  p = PresumedPath(frame.path, frame.seen, n) /\ d + n = PresumedLine(frame.seen, n)

Presumed == \A i \in 1..Len(frames) : Tells(frames[i], PathAt(i), DeltaAt(i))

LEMMA ToldOn ==
  ASSUME Typed, frames # <<>>, NEW line \in Lines, NEW conditions \in Seq(GroupType),
         Tells(Top, path, delta), NEW p, NEW d \in Int,
         p = IF line.kind = "line" /\ Active /\ line.named THEN line.path ELSE path,
         d = IF line.kind = "line" /\ Active THEN line.number - Number - 1 ELSE delta
  PROVE  Tells(After(line, conditions), p, d)
<1> DEFINE seen == Top.seen
           e == Entry(line)
           longer == Append(seen, e)
           n == Len(seen)
           file == Top.path
<1>1. seen \in Seq(Entries) /\ n \in Nat /\ Number = n + 1
  BY TopOf
<1>2. /\ After(line, conditions).path = file
      /\ After(line, conditions).seen = longer
      /\ Len(longer) = n + 1
      /\ e \in Entries
  BY AfterOf
<1>3. e.line = line /\ e.active = Active
  BY DEF Entry
<1>4. path = PresumedPath(file, seen, n + 1) /\ delta + (n + 1) = PresumedLine(seen, n + 1)
  BY DEF Tells
<1>5. PresumedPath(file, longer, n + 2) =
        IF e.line.kind = "line" /\ e.active /\ e.line.named THEN e.line.path
        ELSE PresumedPath(file, seen, n + 1)
  <2> HIDE DEF e, seen, file
  <2> QED
    BY <1>1, <1>2, PathNext
<1>6. /\ PresumedLine(seen, n + 1) \in Int
      /\ PresumedLine(longer, n + 2) =
           IF e.line.kind = "line" /\ e.active THEN e.line.number
           ELSE PresumedLine(seen, n + 1) + 1
  <2> HIDE DEF e, seen
  <2> QED
    BY <1>1, <1>2, LineNext
<1>7. p = PresumedPath(file, longer, n + 2)
  <2> HIDE DEF e, seen, file, longer, n
  <2> QED
    BY <1>3, <1>4, <1>5
<1>8. d + (n + 2) = PresumedLine(longer, n + 2)
  <2> DEFINE before == PresumedLine(seen, n + 1)
             after == PresumedLine(longer, n + 2)
  <2>1. /\ before \in Int /\ delta + (n + 1) = before /\ delta \in Int /\ n \in Int
        /\ after = IF line.kind = "line" /\ Active THEN line.number ELSE before + 1
    BY <1>1, <1>3, <1>4, <1>6 DEF Typed
  <2> HIDE DEF n, before, after
  <2>2. CASE line.kind = "line" /\ Active
    <3>1. line.number \in Int /\ after = line.number /\ d = line.number - (n + 1) - 1
      BY <1>1, <2>1, <2>2, PreprocessorAssumption
    <3>2. d + (n + 2) = line.number
      BY <2>1, <3>1
    <3> QED
      BY <3>1, <3>2 DEF after
  <2>3. CASE ~(line.kind = "line" /\ Active)
    <3>1. after = before + 1 /\ d = delta
      BY <2>1, <2>3
    <3>2. d + (n + 2) = after
      BY <2>1, <3>1
    <3> QED
      BY <3>2 DEF after
  <2> QED
    BY <2>2, <2>3
<1>9. Len(longer) + 1 = n + 2
  BY <1>1, <1>2
<1> HIDE DEF n, longer, file
<1> QED
  BY <1>2, <1>7, <1>8, <1>9 DEF Tells

LEMMA ToldFirst ==
  ASSUME NEW frame, frame.seen = <<>>
  PROVE  Tells(frame, frame.path, 0)
<1>1. Renumberings(<<>>, 1) = {}
  <2>1. Renumberings(<<>>, 1) = {i \in 1..0 : (<<>>[i]).line.kind = "line" /\ (<<>>[i]).active}
    BY RenumberingsIs
  <2> QED
    BY <2>1
<1>2. PresumedLine(<<>>, 1) = 1
  BY <1>1 DEF PresumedLine
<1>3. PresumedPath(frame.path, <<>>, 1) = frame.path
  BY <1>1 DEF PresumedPath
<1>4. Len(<<>>) + 1 = 1 /\ 0 + 1 = 1
  OBVIOUS
<1> QED
  BY <1>2, <1>3, <1>4 DEF Tells

LEMMA PresumedStep ==
  ASSUME Typed, Presumed, NEW line, NEW conditions, Steps(line, conditions), Typed'
  PROVE  Presumed'
<1>1. /\ frames # <<>> /\ Len(frames') = Len(frames) /\ Len(frames) \in Nat \ {0}
      /\ frames'[Len(frames)] = After(line, conditions)
      /\ \A i \in 1..(Len(frames) - 1) : frames'[i] = frames[i]
  BY Framed
<1>2. line \in Lines /\ conditions \in Seq(GroupType) /\ Renamed(line) /\ delta' \in Int
  BY DEF Steps, Typed
<1>3. Top = frames[Len(frames)]
  BY <1>1, TopOf
<1>4. Tells(Top, path, delta)
  BY <1>1, <1>3 DEF Presumed, PathAt, DeltaAt
<1>5. Tells(frames'[Len(frames)], path', delta')
  <2> DEFINE p == path'
             d == delta'
  <2>1. /\ p = IF line.kind = "line" /\ Active /\ line.named THEN line.path ELSE path
        /\ d = IF line.kind = "line" /\ Active THEN line.number - Number - 1 ELSE delta
        /\ d \in Int
    BY <1>2 DEF Renamed
  <2> HIDE DEF p, d
  <2>2. Tells(After(line, conditions), p, d)
    BY <1>1, <1>2, <1>4, <2>1, ToldOn
  <2> QED
    BY <1>1, <2>2 DEF p, d
<1>6. After(line, conditions).savedPath = Top.savedPath
      /\ After(line, conditions).savedDelta = Top.savedDelta
  BY <1>1, <1>2, AfterOf
<1>7. ASSUME NEW i \in 1..Len(frames')
      PROVE  Tells(frames'[i], PathAt(i)', DeltaAt(i)')
  <2>1. CASE i = Len(frames)
    <3>1. PathAt(i)' = path' /\ DeltaAt(i)' = delta'
      BY <1>1, <2>1 DEF PathAt, DeltaAt
    <3> QED
      BY <1>5, <2>1, <3>1
  <2>2. CASE i # Len(frames)
    <3>1. i \in 1..(Len(frames) - 1) /\ i \in 1..Len(frames) /\ i # Len(frames')
      BY <1>1, <2>2
    <3>2. Tells(frames[i], PathAt(i), DeltaAt(i)) /\ frames'[i] = frames[i]
      BY <1>1, <3>1 DEF Presumed
    <3>3. /\ PathAt(i)' = frames'[i + 1].savedPath
          /\ DeltaAt(i)' = frames'[i + 1].savedDelta
          /\ PathAt(i) = frames[i + 1].savedPath
          /\ DeltaAt(i) = frames[i + 1].savedDelta
      BY <2>2, <3>1 DEF PathAt, DeltaAt
    <3>4. /\ frames'[i + 1].savedPath = frames[i + 1].savedPath
          /\ frames'[i + 1].savedDelta = frames[i + 1].savedDelta
      <4>1. i + 1 = Len(frames) \/ i + 1 \in 1..(Len(frames) - 1)
        BY <1>1, <3>1
      <4> QED
        BY <1>1, <1>3, <1>6, <4>1
    <3> QED
      BY <3>2, <3>3, <3>4
  <2> QED
    BY <2>1, <2>2
<1> QED
  BY <1>7 DEF Presumed, Tells, PresumedPath, PresumedLine, Renumberings

LEMMA PresumedEntering ==
  ASSUME Typed, Presumed, NEW line, NEW file, Entering(line, file)
  PROVE  Presumed'
<1>1. /\ frames # <<>> /\ Len(frames) \in Nat \ {0} /\ Len(frames') = Len(frames) + 1
      /\ frames'[Len(frames)] = After(line, Top.conditions)
      /\ frames'[Len(frames) + 1] = Source(file)
      /\ \A i \in 1..(Len(frames) - 1) : frames'[i] = frames[i]
  BY Pushed
<1>2. line \in Lines /\ line.kind = "include" /\ path' = file /\ delta' = 0
  BY DEF Entering
<1>3. Top = frames[Len(frames)] /\ Top.conditions \in Seq(GroupType)
  BY <1>1, TopOf
<1>4. Tells(Top, path, delta)
  BY <1>1, <1>3 DEF Presumed, PathAt, DeltaAt
<1>5. Tells(After(line, Top.conditions), path, delta)
  <2> DEFINE conditions == Top.conditions
  <2>1. conditions \in Seq(GroupType) /\ delta \in Int
    BY <1>3 DEF Typed
  <2> HIDE DEF conditions
  <2>2. Tells(After(line, conditions), path, delta)
    BY <1>1, <1>2, <1>4, <2>1, ToldOn
  <2> QED
    BY <2>2 DEF conditions
<1>6. /\ After(line, Top.conditions).savedPath = Top.savedPath
      /\ After(line, Top.conditions).savedDelta = Top.savedDelta
  BY <1>1, <1>2, <1>3, AfterOf
<1>7. Tells(Source(file), file, 0)
  BY ToldFirst DEF Source
<1>8. ASSUME NEW i \in 1..Len(frames')
      PROVE  Tells(frames'[i], PathAt(i)', DeltaAt(i)')
  <2>1. CASE i = Len(frames) + 1
    <3>1. PathAt(i)' = file /\ DeltaAt(i)' = 0
      BY <1>1, <1>2, <2>1 DEF PathAt, DeltaAt
    <3> QED
      BY <1>1, <1>7, <2>1, <3>1
  <2>2. CASE i = Len(frames)
    <3>1. PathAt(i)' = frames'[i + 1].savedPath /\ DeltaAt(i)' = frames'[i + 1].savedDelta
      BY <1>1, <2>2 DEF PathAt, DeltaAt
    <3>2. frames'[i + 1].savedPath = path /\ frames'[i + 1].savedDelta = delta
      BY <1>1, <2>2 DEF Source
    <3> QED
      BY <1>1, <1>5, <2>2, <3>1, <3>2
  <2>3. CASE i \in 1..(Len(frames) - 1)
    <3>1. i \in 1..Len(frames) /\ i # Len(frames') /\ i # Len(frames)
      BY <1>1, <2>3
    <3>2. Tells(frames[i], PathAt(i), DeltaAt(i)) /\ frames'[i] = frames[i]
      BY <1>1, <2>3, <3>1 DEF Presumed
    <3>3. /\ PathAt(i)' = frames'[i + 1].savedPath
          /\ DeltaAt(i)' = frames'[i + 1].savedDelta
          /\ PathAt(i) = frames[i + 1].savedPath
          /\ DeltaAt(i) = frames[i + 1].savedDelta
      BY <3>1 DEF PathAt, DeltaAt
    <3>4. /\ frames'[i + 1].savedPath = frames[i + 1].savedPath
          /\ frames'[i + 1].savedDelta = frames[i + 1].savedDelta
      <4>1. i + 1 = Len(frames) \/ i + 1 \in 1..(Len(frames) - 1)
        BY <1>1, <2>3
      <4> QED
        BY <1>1, <1>3, <1>6, <4>1
    <3> QED
      BY <3>2, <3>3, <3>4
  <2> QED
    BY <1>1, <2>1, <2>2, <2>3
<1> QED
  BY <1>8 DEF Presumed, Tells, PresumedPath, PresumedLine, Renumberings

LEMMA PresumedLeave ==
  ASSUME Typed, Presumed, Leave
  PROVE  Presumed'
<1>1. /\ frames # <<>> /\ Len(frames) \in Nat \ {0} /\ Len(frames') = Len(frames) - 1
      /\ \A i \in 1..(Len(frames) - 1) : frames'[i] = frames[i]
  BY Popped
<1>2. path' = frames[Len(frames)].savedPath /\ delta' = frames[Len(frames)].savedDelta
  BY <1>1, TopOf DEF Leave, Restore
<1>3. ASSUME NEW i \in 1..Len(frames')
      PROVE  Tells(frames'[i], PathAt(i)', DeltaAt(i)')
  <2>1. i \in 1..(Len(frames) - 1) /\ i \in 1..Len(frames) /\ i # Len(frames)
    BY <1>1
  <2>2. Tells(frames[i], PathAt(i), DeltaAt(i)) /\ frames'[i] = frames[i]
    BY <1>1, <2>1 DEF Presumed
  <2>3. PathAt(i) = frames[i + 1].savedPath /\ DeltaAt(i) = frames[i + 1].savedDelta
    BY <2>1 DEF PathAt, DeltaAt
  <2>4. CASE i = Len(frames')
    <3>1. PathAt(i)' = path' /\ DeltaAt(i)' = delta' /\ i + 1 = Len(frames)
      BY <1>1, <2>4 DEF PathAt, DeltaAt
    <3> QED
      BY <1>2, <2>2, <2>3, <3>1
  <2>5. CASE i # Len(frames')
    <3>1. /\ PathAt(i)' = frames'[i + 1].savedPath
          /\ DeltaAt(i)' = frames'[i + 1].savedDelta
      BY <2>5 DEF PathAt, DeltaAt
    <3>2. frames'[i + 1] = frames[i + 1]
      BY <1>1, <2>5
    <3> QED
      BY <2>2, <2>3, <3>1, <3>2
  <2> QED
    BY <2>4, <2>5
<1> QED
  BY <1>3 DEF Presumed, Tells, PresumedPath, PresumedLine, Renumberings

-----------------------------------------------------------------------------
(* Sections of conditional groups, with one more line *)

LEMMA DepthSame ==
  ASSUME NEW seen \in Seq(Entries), NEW e \in Entries, NEW m \in 1..(Len(seen) + 1)
  PROVE  Depth(Append(seen, e), m) = Depth(seen, m) /\ Depth(seen, m) \in Int
<1> DEFINE k == m - 1
           longer == Append(seen, e)
<1>1. k \in Nat /\ k = m - 1 /\ \A j \in 1..k : longer[j] = seen[j]
  BY AppendProperties
<1> HIDE DEF k, longer
<1> DEFINE A == {j \in 1..k : seen[j].line.kind \in Openings}
           B == {j \in 1..k : seen[j].line.kind = "endif"}
           C == {j \in 1..k : longer[j].line.kind \in Openings}
           D == {j \in 1..k : longer[j].line.kind = "endif"}
<1>2. C = A /\ D = B /\ A \subseteq 1..k /\ B \subseteq 1..k
  BY <1>1
<1>3. Depth(seen, m) = Cardinality(A) - Cardinality(B)
  BY <1>1, DepthIs
<1>4. Depth(longer, m) = Cardinality(C) - Cardinality(D)
  BY <1>1, DepthIs
<1> HIDE DEF A, B, C, D
<1>5. Cardinality(A) \in Nat /\ Cardinality(B) \in Nat
  BY <1>1, <1>2, Counted
<1> QED
  BY <1>2, <1>3, <1>4, <1>5 DEF longer

LEMMA OpenSame ==
  ASSUME NEW seen \in Seq(Entries), NEW e \in Entries, NEW m \in 1..(Len(seen) + 1),
         NEW i \in 1..(m - 1)
  PROVE  OpenAt(Append(seen, e), i, m) <=> OpenAt(seen, i, m)
<1> DEFINE longer == Append(seen, e)
<1>1. Len(seen) \in Nat /\ i \in 1..Len(seen) /\ i \in 1..(Len(seen) + 1)
  OBVIOUS
<1>2. longer[i] = seen[i]
  BY <1>1, AppendProperties
<1>3. \A j \in 1..(Len(seen) + 1) : Depth(longer, j) = Depth(seen, j)
  BY DepthSame
<1> HIDE DEF longer
<1>4. \A j \in (i + 1)..m : j \in 1..(Len(seen) + 1)
  BY <1>1
<1>5. OpenAt(longer, i, m) <=> OpenAt(seen, i, m)
  BY <1>1, <1>2, <1>3, <1>4 DEF OpenAt
<1> QED
  BY <1>5 DEF longer

LEMMA OpenNext ==
  ASSUME NEW seen \in Seq(Entries), NEW e \in Entries, NEW i \in 1..Len(seen)
  PROVE  OpenAt(Append(seen, e), i, Len(seen) + 2) <=>
           /\ OpenAt(seen, i, Len(seen) + 1)
           /\ Depth(Append(seen, e), Len(seen) + 2) > Depth(seen, i)
<1> DEFINE longer == Append(seen, e)
           n == Len(seen)
<1>1. n \in Nat /\ i \in 1..n /\ i \in 1..(n + 1)
  OBVIOUS
<1>2. longer[i] = seen[i]
  BY <1>1, AppendProperties
<1>3. \A j \in 1..(n + 1) : Depth(longer, j) = Depth(seen, j)
  BY DepthSame
<1> HIDE DEF longer, n
<1>4. \A j \in (i + 1)..(n + 2) : j = n + 2 \/ j \in (i + 1)..(n + 1)
  BY <1>1
<1>5. n + 2 \in (i + 1)..(n + 2) /\ \A j \in (i + 1)..(n + 1) : /\ j \in (i + 1)..(n + 2)
                                                              /\ j \in 1..(n + 1)
  BY <1>1
<1>6. OpenAt(longer, i, n + 2) <=> OpenAt(seen, i, n + 1) /\ Depth(longer, n + 2) > Depth(seen, i)
  BY <1>1, <1>2, <1>3, <1>4, <1>5 DEF OpenAt
<1> QED
  BY <1>6 DEF longer, n

LEMMA OpenLast ==
  ASSUME NEW seen \in Seq(Entries), NEW e \in Entries
  PROVE  OpenAt(Append(seen, e), Len(seen) + 1, Len(seen) + 2) <=> e.line.kind \in Openings
<1> DEFINE longer == Append(seen, e)
           n == Len(seen)
<1>1. n \in Nat /\ longer[n + 1] = e
  BY AppendProperties
<1>2. Depth(longer, n + 1) = Depth(seen, n + 1) /\ Depth(seen, n + 1) \in Int
  BY DepthSame
<1>3. e.line.kind \in Openings => Depth(longer, n + 2) = Depth(seen, n + 1) + 1
  BY DepthNext DEF Openings
<1> HIDE DEF longer, n
<1>4. \A j \in (n + 1 + 1)..(n + 2) : j = n + 2
  BY <1>1
<1>5. e.line.kind \in Openings => Depth(longer, n + 2) > Depth(longer, n + 1)
  BY <1>2, <1>3
<1>6. OpenAt(longer, n + 1, n + 2) <=> e.line.kind \in Openings
  BY <1>1, <1>4, <1>5 DEF OpenAt
<1> QED
  BY <1>6 DEF longer, n

LEMMA GroupsWithin ==
  ASSUME NEW seen, NEW i \in Nat \ {0}, NEW m \in Nat, i < m, NEW k, k = m - 1
  PROVE  GroupsOf(seen, i, m) \subseteq 1..k /\ i \in GroupsOf(seen, i, m)
BY DEF GroupsOf

LEMMA GroupsSame ==
  ASSUME NEW seen \in Seq(Entries), NEW e \in Entries, NEW m \in 1..(Len(seen) + 1),
         NEW i \in 1..(m - 1)
  PROVE  GroupsOf(Append(seen, e), i, m) = GroupsOf(seen, i, m)
<1> DEFINE longer == Append(seen, e)
<1>1. Len(seen) \in Nat /\ i \in 1..Len(seen) /\ i \in 1..(Len(seen) + 1)
  OBVIOUS
<1>2. \A j \in 1..Len(seen) : longer[j] = seen[j]
  BY AppendProperties
<1>3. \A j \in 1..(Len(seen) + 1) : Depth(longer, j) = Depth(seen, j)
  BY DepthSame
<1> HIDE DEF longer
<1>4. \A j \in (i + 1)..(m - 1) : j \in 1..Len(seen) /\ j \in 1..(Len(seen) + 1)
  BY <1>1
<1>5. GroupsOf(longer, i, m) = GroupsOf(seen, i, m)
  BY <1>1, <1>2, <1>3, <1>4 DEF GroupsOf
<1> QED
  BY <1>5 DEF longer

LEMMA GroupsNext ==
  ASSUME NEW seen \in Seq(Entries), NEW e \in Entries, NEW i \in 1..Len(seen)
  PROVE  GroupsOf(Append(seen, e), i, Len(seen) + 2) =
           GroupsOf(seen, i, Len(seen) + 1)
             \cup (IF /\ e.line.kind \in {"elif", "else"}
                      /\ Depth(seen, Len(seen) + 1) = Depth(seen, i) + 1
                   THEN {Len(seen) + 1} ELSE {})
<1> DEFINE longer == Append(seen, e)
           n == Len(seen)
<1>1. n \in Nat /\ i \in 1..n /\ i \in 1..(n + 1) /\ longer[n + 1] = e
  BY AppendProperties
<1>2. \A j \in 1..n : longer[j] = seen[j]
  BY AppendProperties
<1>3. \A j \in 1..(n + 1) : Depth(longer, j) = Depth(seen, j)
  BY DepthSame
<1> HIDE DEF longer, n
<1> DEFINE added == {j \in (i + 1)..n : /\ seen[j].line.kind \in {"elif", "else"}
                                        /\ Depth(seen, j) = Depth(seen, i) + 1}
           new == {j \in (i + 1)..(n + 1) : /\ longer[j].line.kind \in {"elif", "else"}
                                            /\ Depth(longer, j) = Depth(longer, i) + 1}
           joins == e.line.kind \in {"elif", "else"} /\ Depth(seen, n + 1) = Depth(seen, i) + 1
<1>4. new = added \cup (IF joins THEN {n + 1} ELSE {})
  <2>1. \A j : j \in (i + 1)..(n + 1) <=> j \in (i + 1)..n \/ j = n + 1
    BY <1>1
  <2>2. \A j \in (i + 1)..n : j \in 1..n /\ j \in 1..(n + 1)
    BY <1>1
  <2>3. n + 1 \in 1..(n + 1) /\ n + 1 \notin (i + 1)..n
    BY <1>1
  <2> QED
    BY <1>1, <1>2, <1>3, <2>1, <2>2, <2>3
<1>5. \A j : j \in GroupsOf(seen, i, n + 1) <=> j = i \/ j \in added
  <2> DEFINE m == n + 1
  <2>1. n = m - 1 /\ i \in Nat
    BY <1>1
  <2> HIDE DEF m
  <2>2. \A j : j \in GroupsOf(seen, i, m) <=>
                j = i \/ (/\ j \in (i + 1)..n
                         /\ seen[j].line.kind \in {"elif", "else"}
                         /\ Depth(seen, j) = Depth(seen, i) + 1)
    BY <2>1 DEF GroupsOf
  <2> QED
    BY <2>2 DEF m
<1>6. \A j : j \in GroupsOf(longer, i, n + 2) <=> j = i \/ j \in new
  <2> DEFINE k == n + 1
             m == n + 2
  <2>1. k \in Nat /\ k = m - 1 /\ i \in Nat
    BY <1>1
  <2> HIDE DEF m, k
  <2>2. \A j : j \in GroupsOf(longer, i, m) <=>
                j = i \/ (/\ j \in (i + 1)..k
                         /\ longer[j].line.kind \in {"elif", "else"}
                         /\ Depth(longer, j) = Depth(longer, i) + 1)
    BY <2>1 DEF GroupsOf
  <2> QED
    BY <2>2 DEF m, k
<1>7. GroupsOf(longer, i, n + 2) = GroupsOf(seen, i, n + 1) \cup (IF joins THEN {n + 1} ELSE {})
  BY <1>4, <1>5, <1>6
<1> QED
  BY <1>7 DEF longer, n

LEMMA GroupsLast ==
  ASSUME NEW seen, NEW n \in Nat
  PROVE  GroupsOf(seen, n + 1, n + 2) = {n + 1}
BY DEF GroupsOf

\* Some group of the section line i opens has a condition that holds.
Chosen(seen, i, m) == \E j \in GroupsOf(seen, i, m) : seen[j].holds

LEMMA SelectedSame ==
  ASSUME NEW seen \in Seq(Entries), NEW e \in Entries, NEW m \in 1..(Len(seen) + 1),
         NEW i \in 1..(m - 1)
  PROVE  Selected(Append(seen, e), i, m) <=> Selected(seen, i, m)
<1> DEFINE longer == Append(seen, e)
           groups == GroupsOf(seen, i, m)
           k == m - 1
<1>1. k \in Nat /\ i \in 1..k /\ i < m /\ m \in Nat
      /\ \A j \in 1..k : longer[j] = seen[j]
  BY AppendProperties
<1>2. groups = GroupsOf(longer, i, m)
  BY GroupsSame
<1>3. groups \subseteq 1..k /\ i \in groups
  BY <1>1, GroupsWithin
<1> DEFINE last == Max(groups)
<1>4. last \in groups
  <2> HIDE DEF groups, k
  <2> QED
    BY <1>1, <1>3, MaxOf
<1>5. Selected(longer, i, m) <=>
        longer[last].holds /\ \A j \in groups \ {last} : ~longer[j].holds
  BY <1>2 DEF Selected
<1>6. Selected(seen, i, m) <=>
        seen[last].holds /\ \A j \in groups \ {last} : ~seen[j].holds
  BY DEF Selected
<1> HIDE DEF longer, groups, k, last
<1>7. Selected(longer, i, m) <=> Selected(seen, i, m)
  BY <1>1, <1>3, <1>4, <1>5, <1>6
<1> QED
  BY <1>7 DEF longer

Joins(seen, e, i) ==
  e.line.kind \in {"elif", "else"} /\ Depth(seen, Len(seen) + 1) = Depth(seen, i) + 1

LEMMA SelectedNext ==
  ASSUME NEW seen \in Seq(Entries), NEW e \in Entries, NEW i \in 1..Len(seen)
  PROVE  /\ Selected(Append(seen, e), i, Len(seen) + 2) <=>
              IF Joins(seen, e, i) THEN e.holds /\ ~Chosen(seen, i, Len(seen) + 1)
              ELSE Selected(seen, i, Len(seen) + 1)
         /\ Chosen(Append(seen, e), i, Len(seen) + 2) <=>
              Chosen(seen, i, Len(seen) + 1) \/ (Joins(seen, e, i) /\ e.holds)
<1> DEFINE longer == Append(seen, e)
           n == Len(seen)
           joins == Joins(seen, e, i)
           old == GroupsOf(seen, i, n + 1)
           new == GroupsOf(longer, i, n + 2)
<1>1. /\ n \in Nat /\ i \in 1..n /\ longer[n + 1] = e
      /\ \A j \in 1..n : longer[j] = seen[j]
  BY AppendProperties
<1>2. new = old \cup (IF joins THEN {n + 1} ELSE {})
  BY GroupsNext DEF Joins
<1>3. old \subseteq 1..n /\ i \in old
  <2>1. n + 1 \in Nat /\ i < n + 1 /\ n = (n + 1) - 1 /\ i \in Nat \ {0}
    BY <1>1
  <2> HIDE DEF n
  <2> QED
    BY <2>1, GroupsWithin
<1> DEFINE last == Max(old)
           final == Max(new)
<1>4. /\ Selected(seen, i, n + 1) <=>
           seen[last].holds /\ \A j \in old \ {last} : ~seen[j].holds
      /\ Selected(longer, i, n + 2) <=>
           longer[final].holds /\ \A j \in new \ {final} : ~longer[j].holds
  BY DEF Selected
<1>5. /\ Chosen(seen, i, n + 1) <=> \E j \in old : seen[j].holds
      /\ Chosen(longer, i, n + 2) <=> \E j \in new : longer[j].holds
  BY DEF Chosen
<1>6. last \in old
  <2> HIDE DEF old, n
  <2> QED
    BY <1>1, <1>3, MaxOf
<1>7. joins => final = n + 1
  <2> SUFFICES ASSUME joins
               PROVE  final = n + 1
    OBVIOUS
  <2> HIDE DEF n, old, new, joins
  <2>1. n + 1 \in Nat /\ new \subseteq 1..(n + 1) /\ n + 1 \in new /\ \A x \in new : x <= n + 1
    BY <1>1, <1>2, <1>3
  <2> QED
    BY <2>1, MaxIs
<1>8. ~joins => new = old /\ final = last
  BY <1>2
<1>9. n + 1 \notin 1..n
  BY <1>1
<1> DEFINE next == n + 1
           end == n + 2
<1>10. CASE joins
  <2> HIDE DEF longer, joins, old, new, last, final
  <2>1. new \ {final} = old /\ longer[final] = e
    BY <1>1, <1>2, <1>3, <1>7, <1>9, <1>10
  <2>2. Selected(longer, i, n + 2) <=> e.holds /\ \A j \in old : ~seen[j].holds
    BY <1>1, <1>3, <1>4, <2>1
  <2>3. Chosen(longer, i, n + 2) <=> e.holds \/ \E j \in old : seen[j].holds
    BY <1>1, <1>2, <1>3, <1>5, <1>10
  <2>4. Chosen(seen, i, n + 1) \in BOOLEAN
    BY DEF Chosen
  <2>5. Chosen(seen, i, n + 1) <=> \E j \in old : seen[j].holds
    BY <1>5
  <2>6. /\ Selected(longer, i, n + 2) <=> e.holds /\ ~Chosen(seen, i, n + 1)
        /\ Chosen(longer, i, n + 2) <=> Chosen(seen, i, n + 1) \/ (joins /\ e.holds)
    BY <1>10, <2>2, <2>3, <2>5
  <2> QED
    BY <1>10, <2>6 DEF longer, joins
<1>11. CASE ~joins
  <2> HIDE DEF longer, joins, old, new, last, final
  <2>1. new = old /\ final = last /\ longer[last] = seen[last]
    BY <1>1, <1>3, <1>6, <1>8, <1>11
  <2>2. Selected(longer, i, n + 2) <=> Selected(seen, i, n + 1)
    BY <1>1, <1>3, <1>4, <2>1
  <2>3. Chosen(longer, i, n + 2) <=> Chosen(seen, i, n + 1)
    BY <1>1, <1>3, <1>5, <2>1
  <2> QED
    BY <1>11, <2>2, <2>3 DEF longer, joins
<1> QED
  BY <1>10, <1>11

LEMMA SelectedLast ==
  ASSUME NEW seen \in Seq(Entries), NEW e \in Entries
  PROVE  /\ Selected(Append(seen, e), Len(seen) + 1, Len(seen) + 2) <=> e.holds
         /\ Chosen(Append(seen, e), Len(seen) + 1, Len(seen) + 2) <=> e.holds
<1> DEFINE longer == Append(seen, e)
           n == Len(seen)
           groups == GroupsOf(longer, n + 1, n + 2)
<1>1. n \in Nat /\ n + 1 \in Nat /\ longer[n + 1] = e
  BY AppendProperties
<1>2. groups = {n + 1}
  BY <1>1, GroupsLast
<1>3. Max(groups) = n + 1
  <2> HIDE DEF n, groups
  <2>1. groups \subseteq 1..(n + 1) /\ n + 1 \in groups /\ \A x \in groups : x <= n + 1
    BY <1>1, <1>2
  <2> QED
    BY <1>1, <2>1, MaxIs
<1>4. Selected(longer, n + 1, n + 2) <=>
        longer[Max(groups)].holds /\ \A j \in groups \ {Max(groups)} : ~longer[j].holds
  BY DEF Selected
<1>5. Chosen(longer, n + 1, n + 2) <=> \E j \in groups : longer[j].holds
  BY DEF Chosen
<1> HIDE DEF longer, groups, n
<1>6. /\ Selected(longer, n + 1, n + 2) <=> e.holds
      /\ Chosen(longer, n + 1, n + 2) <=> e.holds
  BY <1>1, <1>2, <1>3, <1>4, <1>5
<1> QED
  BY <1>6 DEF longer, n

-----------------------------------------------------------------------------
(* The groups the code keeps are those of the sections that are open *)

\* Line f[k] opens the section conditions[k] is about.
Grouped(seen, conditions, f) ==
  LET n == Len(seen) + 1 IN
  /\ f \in [1..Len(conditions) -> 1..Len(seen)]
  /\ \A i \in 1..Len(seen) : OpenAt(seen, i, n) <=> \E k \in 1..Len(conditions) : f[k] = i
  /\ \A k \in 1..Len(conditions) :
       /\ Depth(seen, f[k]) = k - 1
       /\ conditions[k].parent <=> \A j \in 1..(k - 1) : Selected(seen, f[j], n)
       /\ conditions[k].active <=> \A j \in 1..k : Selected(seen, f[j], n)
       /\ conditions[k].parent => (conditions[k].seenTrue <=> Chosen(seen, f[k], n))

\* The last group of them is active if and only if every section has selected the
\* group the next line is in.
LEMMA ActiveIs ==
  ASSUME NEW seen \in Seq(Entries), NEW conditions \in Seq(GroupType), NEW f,
         Grouped(seen, conditions, f)
  PROVE  IsActive(conditions) <=>
           \A i \in 1..Len(seen) : OpenAt(seen, i, Len(seen) + 1)
                                    => Selected(seen, i, Len(seen) + 1)
<1> DEFINE n == Len(seen) + 1
           d == Len(conditions)
<1>1. /\ d \in Nat
      /\ \A i \in 1..Len(seen) : OpenAt(seen, i, n) <=> \E k \in 1..d : f[k] = i
      /\ \A k \in 1..d : f[k] \in 1..Len(seen)
      /\ \A k \in 1..d : conditions[k].active <=> \A j \in 1..k : Selected(seen, f[j], n)
  BY DEF Grouped
<1>2. IsActive(conditions) <=> \A k \in 1..d : Selected(seen, f[k], n)
  <2>1. CASE conditions = <<>>
    <3>1. d = 0
      BY <2>1
    <3> QED
      BY <2>1, <3>1 DEF IsActive
  <2>2. CASE conditions # <<>>
    <3>1. d \in 1..d /\ Last(conditions) = conditions[d]
      <4>1. Len(conditions) \in Nat \ {0} /\ Last(conditions) = conditions[Len(conditions)]
        BY <2>2, Lasts
      <4> QED
        BY <4>1
    <3>2. IsActive(conditions) = conditions[d].active
      BY <2>2, <3>1 DEF IsActive
    <3>3. conditions[d].active <=> \A j \in 1..d : Selected(seen, f[j], n)
      BY <1>1, <3>1
    <3> QED
      BY <3>2, <3>3
  <2> QED
    BY <2>1, <2>2
<1> HIDE DEF n, d
<1>3. IsActive(conditions) <=>
        \A i \in 1..Len(seen) : OpenAt(seen, i, n) => Selected(seen, i, n)
  BY <1>1, <1>2
<1> QED
  BY <1>3 DEF n

\* What one more line does to the sections that are open.
OneMore(seen, e, f, d, n, longer) ==
  /\ \A k \in 1..d : /\ f[k] \in 1..Len(seen) /\ f[k] \in 1..n
                     /\ Depth(longer, f[k]) = k - 1
  /\ Depth(longer, n) = d
  /\ OpenAt(longer, n, n + 1) <=> e.line.kind \in Openings
  /\ \A i \in 1..Len(seen) : OpenAt(longer, i, n + 1) <=>
       \E k \in 1..d : f[k] = i /\ ~(k = d /\ e.line.kind = "endif")
  /\ \A k \in 1..d :
       ~(k = d /\ e.line.kind \in {"elif", "else"}) =>
         /\ Selected(longer, f[k], n + 1) <=> Selected(seen, f[k], n)
         /\ Chosen(longer, f[k], n + 1) <=> Chosen(seen, f[k], n)
  /\ d # 0 /\ e.line.kind \in {"elif", "else"} =>
       /\ Selected(longer, f[d], n + 1) <=> e.holds /\ ~Chosen(seen, f[d], n)
       /\ Chosen(longer, f[d], n + 1) <=> e.holds \/ Chosen(seen, f[d], n)

LEMMA Carried ==
  ASSUME NEW seen \in Seq(Entries), NEW e \in Entries, NEW conditions \in Seq(GroupType),
         NEW f, Grouped(seen, conditions, f), Depth(seen, Len(seen) + 1) = Len(conditions)
  PROVE  OneMore(seen, e, f, Len(conditions), Len(seen) + 1, Append(seen, e))
<1> DEFINE d == Len(conditions)
           n == Len(seen) + 1
           longer == Append(seen, e)
<1>0. n = Len(seen) + 1 /\ d = Len(conditions) /\ longer = Append(seen, e)
      /\ Depth(seen, n) = d
  OBVIOUS
<1> HIDE DEF d, n, longer
<1>1. d \in Nat /\ n \in Nat \ {0} /\ Len(longer) = n /\ Len(seen) = n - 1 /\ d \in Int
  BY <1>0, AppendProperties
<1>2. \A k \in 1..d : f[k] \in 1..Len(seen) /\ Depth(seen, f[k]) = k - 1
  BY <1>0 DEF Grouped
<1>3. \A i \in 1..Len(seen) : OpenAt(seen, i, n) <=> \E k \in 1..d : f[k] = i
  BY <1>0 DEF Grouped
<1>4. /\ Depth(longer, n) = d
      /\ \A i \in 1..Len(seen) : Depth(longer, i) = Depth(seen, i)
  <2>1. n \in 1..(Len(seen) + 1) /\ \A i \in 1..Len(seen) : i \in 1..(Len(seen) + 1)
    BY <1>0, <1>1
  <2>2. \A m \in 1..(Len(seen) + 1) : Depth(longer, m) = Depth(seen, m)
    BY <1>0, DepthSame
  <2> QED
    BY <1>0, <2>1, <2>2
<1> DEFINE opens == e.line.kind \in Openings
           closes == e.line.kind = "endif"
           switches == e.line.kind \in {"elif", "else"}
<1>5. /\ opens => Depth(longer, n + 1) = d + 1
      /\ closes => Depth(longer, n + 1) = d - 1
      /\ ~opens /\ ~closes => Depth(longer, n + 1) = d
  <2>1. Depth(longer, Len(seen) + 2) = Depth(seen, Len(seen) + 1)
              + (IF opens THEN 1 ELSE 0) - (IF closes THEN 1 ELSE 0)
    BY <1>0, DepthNext
  <2>2. Len(seen) + 2 = n + 1 /\ ~(opens /\ closes) /\ Depth(seen, Len(seen) + 1) = d
    BY <1>0, <1>1 DEF Openings
  <2>3. CASE opens
    <3>1. Depth(longer, n + 1) = d + 1 - 0 /\ ~closes
      BY <2>1, <2>2, <2>3
    <3> QED
      BY <1>1, <2>3, <3>1
  <2>4. CASE closes
    <3>1. Depth(longer, n + 1) = d + 0 - 1 /\ ~opens
      BY <2>1, <2>2, <2>4
    <3> QED
      BY <1>1, <2>4, <3>1
  <2>5. CASE ~opens /\ ~closes
    <3>1. Depth(longer, n + 1) = d + 0 - 0
      BY <2>1, <2>2, <2>5
    <3> QED
      BY <1>1, <2>5, <3>1
  <2> QED
    BY <2>3, <2>4, <2>5
<1>6. \A i \in 1..Len(seen) : OpenAt(longer, i, n + 1) <=>
        OpenAt(seen, i, n) /\ Depth(longer, n + 1) > Depth(seen, i)
  <2>1. \A i \in 1..Len(seen) : OpenAt(longer, i, Len(seen) + 2) <=>
          OpenAt(seen, i, n) /\ Depth(longer, Len(seen) + 2) > Depth(seen, i)
    BY <1>0, OpenNext
  <2>2. Len(seen) + 2 = n + 1
    BY <1>0, <1>1
  <2> QED
    BY <1>0, <2>1, <2>2
<1>7. OpenAt(longer, n, n + 1) <=> opens
  <2>1. OpenAt(longer, Len(seen) + 1, Len(seen) + 2) <=> opens
    BY <1>0, OpenLast
  <2>2. Len(seen) + 2 = n + 1
    BY <1>0, <1>1
  <2> QED
    BY <1>0, <2>1, <2>2
<1>8. \A i \in 1..Len(seen) :
        /\ Selected(longer, i, n + 1) <=>
             IF Joins(seen, e, i) THEN e.holds /\ ~Chosen(seen, i, n) ELSE Selected(seen, i, n)
        /\ Chosen(longer, i, n + 1) <=> Chosen(seen, i, n) \/ (Joins(seen, e, i) /\ e.holds)
  <2>1. \A i \in 1..Len(seen) :
          /\ Selected(longer, i, Len(seen) + 2) <=>
               IF Joins(seen, e, i) THEN e.holds /\ ~Chosen(seen, i, Len(seen) + 1)
               ELSE Selected(seen, i, Len(seen) + 1)
          /\ Chosen(longer, i, Len(seen) + 2) <=>
               Chosen(seen, i, Len(seen) + 1) \/ (Joins(seen, e, i) /\ e.holds)
    BY <1>0, SelectedNext
  <2>2. Len(seen) + 2 = n + 1
    BY <1>0, <1>1
  <2> QED
    BY <1>0, <2>1, <2>2
<1>9. \A k \in 1..d : Joins(seen, e, f[k]) <=> switches /\ k = d
  <2> SUFFICES ASSUME NEW k \in 1..d
               PROVE  Joins(seen, e, f[k]) <=> switches /\ k = d
    OBVIOUS
  <2>1. Depth(seen, f[k]) = k - 1 /\ k \in Int
    BY <1>1, <1>2
  <2>2. Depth(seen, Len(seen) + 1) = d
    BY <1>0, <1>1
  <2>3. d = k - 1 + 1 <=> k = d
    BY <1>1, <2>1
  <2> QED
    BY <2>1, <2>2, <2>3 DEF Joins
<1> HIDE DEF opens, closes, switches
<1>10. \A i \in 1..Len(seen) : OpenAt(longer, i, n + 1) <=>
              \E k \in 1..d : f[k] = i /\ ~(k = d /\ closes)
  <2>1. \A k \in 1..d : Depth(longer, n + 1) > Depth(seen, f[k]) <=> ~(k = d /\ closes)
    <3> SUFFICES ASSUME NEW k \in 1..d
                 PROVE  Depth(longer, n + 1) > Depth(seen, f[k]) <=> ~(k = d /\ closes)
      OBVIOUS
    <3>1. Depth(seen, f[k]) = k - 1 /\ k \in Int /\ k <= d
      BY <1>1, <1>2
    <3> DEFINE after == Depth(longer, n + 1)
    <3>2. IF closes THEN after = d - 1 ELSE after = d \/ after = d + 1
      <4>1. ~(opens /\ closes)
        BY DEF opens, closes, Openings
      <4>2. CASE opens
        BY <1>5, <4>1, <4>2
      <4>3. CASE closes
        BY <1>5, <4>3
      <4>4. CASE ~opens /\ ~closes
        BY <1>5, <4>4
      <4> QED
        BY <4>2, <4>3, <4>4
    <3> HIDE DEF after
    <3>3. after > k - 1 <=> ~(k = d /\ closes)
      BY <1>1, <3>1, <3>2
    <3> QED
      BY <3>1, <3>3 DEF after
  <2> QED
    BY <1>3, <1>6, <2>1
<1>11. \A k \in 1..d : f[k] \in 1..n /\ f[k] \in 1..Len(seen) /\ Depth(longer, f[k]) = k - 1
  BY <1>1, <1>2, <1>4
<1>12. \A k \in 1..d :
        ~(k = d /\ switches) =>
          /\ Selected(longer, f[k], n + 1) <=> Selected(seen, f[k], n)
          /\ Chosen(longer, f[k], n + 1) <=> Chosen(seen, f[k], n)
  BY <1>8, <1>9, <1>11
<1>13. d # 0 /\ switches =>
              /\ Selected(longer, f[d], n + 1) <=> e.holds /\ ~Chosen(seen, f[d], n)
              /\ Chosen(longer, f[d], n + 1) <=> e.holds \/ Chosen(seen, f[d], n)
  <2>1. d # 0 => d \in 1..d
    BY <1>0, <1>1
  <2> QED
    BY <1>8, <1>9, <1>11, <2>1
<1> QED
  BY <1>1, <1>4, <1>7, <1>10, <1>11, <1>12, <1>13 DEF OneMore, opens, closes, switches, d, n, longer

\* A line opens a section.
LEMMA GroupedOpens ==
  ASSUME NEW seen \in Seq(Entries), NEW e \in Entries, NEW conditions \in Seq(GroupType),
         NEW f, Grouped(seen, conditions, f), Depth(seen, Len(seen) + 1) = Len(conditions),
         e.line.kind \in Openings, NEW group \in GroupType,
         group.parent <=> IsActive(conditions),
         group.active <=> group.parent /\ e.holds, group.seenTrue <=> group.active
  PROVE  \E g : Grouped(Append(seen, e), Append(conditions, group), g)
<1> DEFINE n == Len(seen) + 1
           d == Len(conditions)
           longer == Append(seen, e)
           more == Append(conditions, group)
           g == [k \in 1..(d + 1) |-> IF k = d + 1 THEN n ELSE f[k]]
<1>1. /\ d \in Nat /\ n \in Nat \ {0} /\ Len(longer) = n /\ Len(seen) = n - 1
      /\ \A k \in 1..d : /\ f[k] \in 1..Len(seen) /\ f[k] \in 1..n
                         /\ Depth(longer, f[k]) = k - 1
      /\ Depth(longer, n) = d
      /\ OpenAt(longer, n, n + 1)
      /\ \A i \in 1..Len(seen) : OpenAt(longer, i, n + 1) <=> \E k \in 1..d : f[k] = i
      /\ \A k \in 1..d : /\ Selected(longer, f[k], n + 1) <=> Selected(seen, f[k], n)
                         /\ Chosen(longer, f[k], n + 1) <=> Chosen(seen, f[k], n)
  <2>1. e.line.kind # "endif" /\ e.line.kind \notin {"elif", "else"}
    BY DEF Openings
  <2>2. OneMore(seen, e, f, d, n, longer)
    BY Carried
  <2>3. /\ d \in Nat /\ n \in Nat \ {0} /\ Len(longer) = n /\ Len(seen) = n - 1
    BY AppendProperties
  <2> HIDE DEF n, d, longer
  <2> QED
    BY <2>1, <2>2, <2>3 DEF OneMore
<1>2. /\ Selected(longer, n, n + 1) <=> e.holds
      /\ Chosen(longer, n, n + 1) <=> e.holds
  <2>1. /\ Selected(longer, Len(seen) + 1, Len(seen) + 2) <=> e.holds
        /\ Chosen(longer, Len(seen) + 1, Len(seen) + 2) <=> e.holds
    BY SelectedLast
  <2>2. Len(seen) + 2 = n + 1
    BY <1>1
  <2> QED
    BY <2>1, <2>2
<1>3. IsActive(conditions) <=> \A k \in 1..d : Selected(seen, f[k], n)
  <2>1. IsActive(conditions) <=>
          \A i \in 1..Len(seen) : OpenAt(seen, i, n) => Selected(seen, i, n)
    BY ActiveIs
  <2>2. /\ \A i \in 1..Len(seen) : OpenAt(seen, i, n) <=> \E k \in 1..d : f[k] = i
        /\ \A k \in 1..d : f[k] \in 1..Len(seen)
    BY DEF Grouped
  <2> QED
    BY <2>1, <2>2
<1>4. \A k \in 1..d :
        /\ conditions[k].parent <=> \A j \in 1..(k - 1) : Selected(seen, f[j], n)
        /\ conditions[k].active <=> \A j \in 1..k : Selected(seen, f[j], n)
        /\ conditions[k].parent => (conditions[k].seenTrue <=> Chosen(seen, f[k], n))
  BY DEF Grouped
<1>5. /\ Len(more) = d + 1 /\ more[d + 1] = group
      /\ \A k \in 1..d : more[k] = conditions[k]
  BY AppendProperties
<1> HIDE DEF n, d, longer, more
<1>6. /\ g \in [1..(d + 1) -> 1..n] /\ g[d + 1] = n
      /\ \A k \in 1..d : g[k] = f[k] /\ k # d + 1
  <2>1. n \in 1..n /\ d + 1 \in 1..(d + 1)
    BY <1>1
  <2>2. \A k \in 1..(d + 1) : k = d + 1 \/ k \in 1..d
    BY <1>1
  <2>3. \A k \in 1..d : k \in 1..(d + 1) /\ k # d + 1
    BY <1>1
  <2> QED
    BY <1>1, <2>1, <2>2, <2>3
<1> HIDE DEF g
<1>7. ASSUME NEW i \in 1..n
      PROVE  OpenAt(longer, i, n + 1) <=> \E k \in 1..(d + 1) : g[k] = i
  <2>1. \A k \in 1..(d + 1) : k = d + 1 \/ k \in 1..d
    BY <1>1
  <2>2. d + 1 \in 1..(d + 1) /\ \A k \in 1..d : k \in 1..(d + 1)
    BY <1>1
  <2>3. CASE i = n
    BY <1>1, <1>6, <2>2, <2>3
  <2>4. CASE i # n
    <3>1. i \in 1..Len(seen)
      BY <1>1, <2>4
    <3>2. (\E k \in 1..(d + 1) : g[k] = i) <=> \E k \in 1..d : f[k] = i
      BY <1>6, <2>1, <2>2, <2>4
    <3> QED
      BY <1>1, <3>1, <3>2
  <2> QED
    BY <2>3, <2>4
<1>8. ASSUME NEW k \in 1..(d + 1)
      PROVE  /\ Depth(longer, g[k]) = k - 1
             /\ more[k].parent <=> \A j \in 1..(k - 1) : Selected(longer, g[j], n + 1)
             /\ more[k].active <=> \A j \in 1..k : Selected(longer, g[j], n + 1)
             /\ more[k].parent => (more[k].seenTrue <=> Chosen(longer, g[k], n + 1))
  <2>1. CASE k \in 1..d
    <3>1. /\ g[k] = f[k] /\ more[k] = conditions[k]
          /\ \A j \in 1..k : j \in 1..d /\ g[j] = f[j]
          /\ \A j \in 1..(k - 1) : j \in 1..d /\ g[j] = f[j]
      BY <1>1, <1>5, <1>6, <2>1
    <3> QED
      BY <1>1, <1>4, <2>1, <3>1
  <2>2. CASE k = d + 1
    <3>1. /\ g[k] = n /\ more[k] = group /\ k - 1 = d
          /\ \A j \in 1..k : j = k \/ j \in 1..d
          /\ k \in 1..k /\ \A j \in 1..d : j \in 1..k /\ g[j] = f[j]
      <4>1. g[k] = n /\ more[k] = group
        BY <1>5, <1>6, <2>2
      <4>2. /\ k - 1 = d /\ k \in 1..k /\ \A j \in 1..d : j \in 1..k
            /\ \A j \in 1..k : j = k \/ j \in 1..d
        BY <1>1, <2>2
      <4> QED
        BY <1>6, <4>1, <4>2
    <3>2. IsActive(conditions) <=> \A j \in 1..d : Selected(longer, g[j], n + 1)
      BY <1>1, <1>3, <3>1
    <3>3. (\A j \in 1..k : Selected(longer, g[j], n + 1))
            <=> e.holds /\ \A j \in 1..d : Selected(longer, g[j], n + 1)
      BY <1>2, <3>1
    <3> QED
      BY <1>1, <1>2, <3>1, <3>2, <3>3
  <2>3. k \in 1..d \/ k = d + 1
    BY <1>1
  <2> QED
    BY <2>1, <2>2, <2>3
<1>9. Grouped(longer, more, g)
  BY <1>1, <1>5, <1>6, <1>7, <1>8 DEF Grouped
<1> QED
  BY <1>9 DEF longer, more

\* A line goes on to the next group of the innermost section.
LEMMA GroupedSwitches ==
  ASSUME NEW seen \in Seq(Entries), NEW e \in Entries, NEW conditions \in Seq(GroupType),
         NEW f, Grouped(seen, conditions, f), Depth(seen, Len(seen) + 1) = Len(conditions),
         e.line.kind \in {"elif", "else"}, conditions # <<>>, NEW group \in GroupType,
         group.parent <=> Last(conditions).parent,
         group.active <=> group.parent /\ e.holds /\ ~Last(conditions).seenTrue,
         group.parent => (group.seenTrue <=> Last(conditions).seenTrue \/ e.holds)
  PROVE  Grouped(Append(seen, e), Append(Front(conditions), group), f)
<1> DEFINE n == Len(seen) + 1
           d == Len(conditions)
           longer == Append(seen, e)
           changed == Append(Front(conditions), group)
<1>1. /\ d \in Nat \ {0} /\ n \in Nat \ {0} /\ Len(longer) = n /\ Len(seen) = n - 1
      /\ f \in [1..d -> 1..Len(seen)]
      /\ \A k \in 1..d : /\ f[k] \in 1..Len(seen) /\ f[k] \in 1..n
                         /\ Depth(longer, f[k]) = k - 1
      /\ ~OpenAt(longer, n, n + 1)
      /\ \A i \in 1..Len(seen) : OpenAt(longer, i, n + 1) <=> \E k \in 1..d : f[k] = i
      /\ \A k \in 1..d : k # d =>
           /\ Selected(longer, f[k], n + 1) <=> Selected(seen, f[k], n)
           /\ Chosen(longer, f[k], n + 1) <=> Chosen(seen, f[k], n)
      /\ Selected(longer, f[d], n + 1) <=> e.holds /\ ~Chosen(seen, f[d], n)
      /\ Chosen(longer, f[d], n + 1) <=> e.holds \/ Chosen(seen, f[d], n)
  <2>1. e.line.kind # "endif" /\ e.line.kind \notin Openings
    BY DEF Openings
  <2>2. OneMore(seen, e, f, d, n, longer)
    BY Carried
  <2>3. /\ d \in Nat \ {0} /\ n \in Nat \ {0} /\ Len(longer) = n /\ Len(seen) = n - 1
    BY AppendProperties, Lasts
  <2>4. f \in [1..d -> 1..Len(seen)]
    BY DEF Grouped
  <2> HIDE DEF n, d, longer
  <2> QED
    BY <2>1, <2>2, <2>3, <2>4 DEF OneMore
<1>2. \A k \in 1..d :
        /\ conditions[k].parent <=> \A j \in 1..(k - 1) : Selected(seen, f[j], n)
        /\ conditions[k].active <=> \A j \in 1..k : Selected(seen, f[j], n)
        /\ conditions[k].parent => (conditions[k].seenTrue <=> Chosen(seen, f[k], n))
  BY DEF Grouped
<1>3. /\ Len(changed) = d /\ changed[d] = group /\ Last(conditions) = conditions[d]
      /\ \A k \in 1..(d - 1) : changed[k] = conditions[k]
  <2>1. Last(conditions) = conditions[Len(conditions)]
    BY Lasts
  <2>2. /\ Len(changed) = d /\ changed[d] = group
        /\ \A k \in 1..(d - 1) : changed[k] = conditions[k]
    BY Replaced
  <2> QED
    BY <2>1, <2>2
<1> HIDE DEF n, d, longer, changed
<1>4. /\ group.parent <=> \A j \in 1..(d - 1) : Selected(seen, f[j], n)
      /\ group.active <=> /\ \A j \in 1..(d - 1) : Selected(seen, f[j], n)
                          /\ Selected(longer, f[d], n + 1)
      /\ group.parent => (group.seenTrue <=> Chosen(longer, f[d], n + 1))
  <2>1. d \in 1..d
    BY <1>1
  <2>2. /\ conditions[d].parent <=> \A j \in 1..(d - 1) : Selected(seen, f[j], n)
        /\ conditions[d].parent => (conditions[d].seenTrue <=> Chosen(seen, f[d], n))
    BY <1>2, <2>1
  <2> QED
    BY <1>1, <1>3, <2>2
<1>5. ASSUME NEW i \in 1..n
      PROVE  OpenAt(longer, i, n + 1) <=> \E k \in 1..d : f[k] = i
  <2>1. CASE i = n
    <3>1. \A k \in 1..d : f[k] # n
      BY <1>1
    <3> QED
      BY <1>1, <2>1, <3>1
  <2>2. CASE i # n
    <3>1. i \in 1..Len(seen)
      BY <1>1, <2>2
    <3> QED
      BY <1>1, <3>1
  <2> QED
    BY <2>1, <2>2
<1>6. ASSUME NEW k \in 1..d
      PROVE  /\ Depth(longer, f[k]) = k - 1
             /\ changed[k].parent <=> \A j \in 1..(k - 1) : Selected(longer, f[j], n + 1)
             /\ changed[k].active <=> \A j \in 1..k : Selected(longer, f[j], n + 1)
             /\ changed[k].parent => (changed[k].seenTrue <=> Chosen(longer, f[k], n + 1))
  <2>1. CASE k # d
    <3>1. /\ k \in 1..(d - 1) /\ \A j \in 1..k : j \in 1..d /\ j # d
          /\ \A j \in 1..(k - 1) : j \in 1..d /\ j # d
      BY <1>1, <2>1
    <3> QED
      BY <1>1, <1>2, <1>3, <2>1, <3>1
  <2>2. CASE k = d
    <3>1. /\ d \in 1..d /\ \A j \in 1..d : j = d \/ j \in 1..(d - 1)
          /\ \A j \in 1..(d - 1) : j \in 1..d /\ j # d
      BY <1>1
    <3>2. \A j \in 1..(d - 1) : Selected(longer, f[j], n + 1) <=> Selected(seen, f[j], n)
      BY <1>1, <3>1
    <3>3. (\A j \in 1..d : Selected(longer, f[j], n + 1))
            <=> /\ \A j \in 1..(d - 1) : Selected(longer, f[j], n + 1)
                /\ Selected(longer, f[d], n + 1)
      BY <3>1
    <3> QED
      BY <1>1, <1>3, <1>4, <2>2, <3>2, <3>3
  <2> QED
    BY <2>1, <2>2
<1>7. f \in [1..d -> 1..n]
  BY <1>1
<1>8. Grouped(longer, changed, f)
  BY <1>1, <1>3, <1>5, <1>6, <1>7 DEF Grouped
<1> QED
  BY <1>8 DEF longer, changed

\* A line closes the innermost section.
LEMMA GroupedCloses ==
  ASSUME NEW seen \in Seq(Entries), NEW e \in Entries, NEW conditions \in Seq(GroupType),
         NEW f, Grouped(seen, conditions, f), Depth(seen, Len(seen) + 1) = Len(conditions),
         e.line.kind = "endif", conditions # <<>>
  PROVE  \E g : Grouped(Append(seen, e), Front(conditions), g)
<1> DEFINE n == Len(seen) + 1
           d == Len(conditions)
           longer == Append(seen, e)
           fewer == Front(conditions)
           g == [k \in 1..(d - 1) |-> f[k]]
<1>1. /\ d \in Nat \ {0} /\ n \in Nat \ {0} /\ Len(longer) = n /\ Len(seen) = n - 1
      /\ \A k \in 1..d : /\ f[k] \in 1..Len(seen) /\ f[k] \in 1..n
                         /\ Depth(longer, f[k]) = k - 1
      /\ ~OpenAt(longer, n, n + 1)
      /\ \A i \in 1..Len(seen) :
           OpenAt(longer, i, n + 1) <=> \E k \in 1..d : f[k] = i /\ k # d
      /\ \A k \in 1..d : /\ Selected(longer, f[k], n + 1) <=> Selected(seen, f[k], n)
                         /\ Chosen(longer, f[k], n + 1) <=> Chosen(seen, f[k], n)
  <2>1. e.line.kind \notin {"elif", "else"} /\ e.line.kind \notin Openings
    BY DEF Openings
  <2>2. OneMore(seen, e, f, d, n, longer)
    BY Carried
  <2>3. /\ d \in Nat \ {0} /\ n \in Nat \ {0} /\ Len(longer) = n /\ Len(seen) = n - 1
    BY AppendProperties, Lasts
  <2> HIDE DEF n, d, longer
  <2> QED
    BY <2>1, <2>2, <2>3 DEF OneMore
<1>2. \A k \in 1..d :
        /\ conditions[k].parent <=> \A j \in 1..(k - 1) : Selected(seen, f[j], n)
        /\ conditions[k].active <=> \A j \in 1..k : Selected(seen, f[j], n)
        /\ conditions[k].parent => (conditions[k].seenTrue <=> Chosen(seen, f[k], n))
  BY DEF Grouped
<1>3. Len(fewer) = d - 1 /\ \A k \in 1..(d - 1) : fewer[k] = conditions[k]
  BY Lasts
<1> HIDE DEF n, d, longer, fewer
<1>4. /\ g \in [1..(d - 1) -> 1..n]
      /\ \A k \in 1..(d - 1) : g[k] = f[k] /\ k \in 1..d /\ k # d
  BY <1>1
<1>5. \A k \in 1..d : k # d => k \in 1..(d - 1)
  BY <1>1
<1> HIDE DEF g
<1>6. ASSUME NEW i \in 1..n
      PROVE  OpenAt(longer, i, n + 1) <=> \E k \in 1..(d - 1) : g[k] = i
  <2>1. CASE i = n
    <3>1. \A k \in 1..d : f[k] # n
      BY <1>1
    <3> QED
      BY <1>1, <1>4, <2>1, <3>1
  <2>2. CASE i # n
    <3>1. i \in 1..Len(seen)
      BY <1>1, <2>2
    <3> QED
      BY <1>1, <1>4, <1>5, <3>1
  <2> QED
    BY <2>1, <2>2
<1>7. ASSUME NEW k \in 1..(d - 1)
      PROVE  /\ Depth(longer, g[k]) = k - 1
             /\ fewer[k].parent <=> \A j \in 1..(k - 1) : Selected(longer, g[j], n + 1)
             /\ fewer[k].active <=> \A j \in 1..k : Selected(longer, g[j], n + 1)
             /\ fewer[k].parent => (fewer[k].seenTrue <=> Chosen(longer, g[k], n + 1))
  <2>1. /\ \A j \in 1..k : j \in 1..d /\ j \in 1..(d - 1)
        /\ \A j \in 1..(k - 1) : j \in 1..d /\ j \in 1..(d - 1)
    BY <1>1
  <2> QED
    BY <1>1, <1>2, <1>3, <1>4, <2>1
<1>8. Grouped(longer, fewer, g)
  BY <1>1, <1>3, <1>4, <1>6, <1>7 DEF Grouped
<1> QED
  BY <1>8 DEF longer, fewer

\* Any other line leaves them as they are.
LEMMA GroupedStays ==
  ASSUME NEW seen \in Seq(Entries), NEW e \in Entries, NEW conditions \in Seq(GroupType),
         NEW f, Grouped(seen, conditions, f), Depth(seen, Len(seen) + 1) = Len(conditions),
         e.line.kind \notin Conditionals
  PROVE  Grouped(Append(seen, e), conditions, f)
<1> DEFINE n == Len(seen) + 1
           d == Len(conditions)
           longer == Append(seen, e)
<1>1. /\ d \in Nat /\ n \in Nat \ {0} /\ Len(longer) = n /\ Len(seen) = n - 1
      /\ f \in [1..d -> 1..Len(seen)]
      /\ \A k \in 1..d : /\ f[k] \in 1..Len(seen) /\ f[k] \in 1..n
                         /\ Depth(longer, f[k]) = k - 1
      /\ ~OpenAt(longer, n, n + 1)
      /\ \A i \in 1..Len(seen) : OpenAt(longer, i, n + 1) <=> \E k \in 1..d : f[k] = i
      /\ \A k \in 1..d : /\ Selected(longer, f[k], n + 1) <=> Selected(seen, f[k], n)
                         /\ Chosen(longer, f[k], n + 1) <=> Chosen(seen, f[k], n)
  <2>1. /\ e.line.kind \notin {"elif", "else"} /\ e.line.kind \notin Openings
        /\ e.line.kind # "endif"
    BY DEF Conditionals
  <2>2. OneMore(seen, e, f, d, n, longer)
    BY Carried
  <2>3. /\ d \in Nat /\ n \in Nat \ {0} /\ Len(longer) = n /\ Len(seen) = n - 1
    BY AppendProperties
  <2>4. f \in [1..d -> 1..Len(seen)]
    BY DEF Grouped
  <2> HIDE DEF n, d, longer
  <2> QED
    BY <2>1, <2>2, <2>3, <2>4 DEF OneMore
<1>2. \A k \in 1..d :
        /\ conditions[k].parent <=> \A j \in 1..(k - 1) : Selected(seen, f[j], n)
        /\ conditions[k].active <=> \A j \in 1..k : Selected(seen, f[j], n)
        /\ conditions[k].parent => (conditions[k].seenTrue <=> Chosen(seen, f[k], n))
  BY DEF Grouped
<1>3. d = Len(conditions)
  OBVIOUS
<1> HIDE DEF n, d, longer
<1>4. ASSUME NEW i \in 1..n
      PROVE  OpenAt(longer, i, n + 1) <=> \E k \in 1..d : f[k] = i
  <2>1. CASE i = n
    <3>1. \A k \in 1..d : f[k] # n
      BY <1>1
    <3> QED
      BY <1>1, <2>1, <3>1
  <2>2. CASE i # n
    <3>1. i \in 1..Len(seen)
      BY <1>1, <2>2
    <3> QED
      BY <1>1, <3>1
  <2> QED
    BY <2>1, <2>2
<1>5. ASSUME NEW k \in 1..d
      PROVE  /\ Depth(longer, f[k]) = k - 1
             /\ conditions[k].parent <=> \A j \in 1..(k - 1) : Selected(longer, f[j], n + 1)
             /\ conditions[k].active <=> \A j \in 1..k : Selected(longer, f[j], n + 1)
             /\ conditions[k].parent => (conditions[k].seenTrue <=> Chosen(longer, f[k], n + 1))
  <2>1. (\A j \in 1..k : j \in 1..d) /\ (\A j \in 1..(k - 1) : j \in 1..d)
    BY <1>1
  <2> QED
    BY <1>1, <1>2, <2>1
<1>6. f \in [1..d -> 1..n]
  BY <1>1
<1>7. Grouped(longer, conditions, f)
  BY <1>1, <1>3, <1>4, <1>5, <1>6 DEF Grouped
<1> QED
  BY <1>7 DEF longer

\* The lines of a source count exactly if their sections have selected them.
Consistent(seen) ==
  \A n \in 1..Len(seen) :
    seen[n].active <=> \A i \in 1..(n - 1) : OpenAt(seen, i, n) => Selected(seen, i, n)

Known(frame, sure) ==
  /\ Consistent(frame.seen)
  /\ sure => \E f \in [1..Len(frame.conditions) -> 1..Len(frame.seen)] :
               Grouped(frame.seen, frame.conditions, f)

Sectioned == \A i \in 1..Len(frames) : Known(frames[i], good)

LEMMA ConsistentNext ==
  ASSUME NEW seen \in Seq(Entries), NEW e \in Entries, NEW conditions \in Seq(GroupType),
         NEW f, Grouped(seen, conditions, f), e.active <=> IsActive(conditions),
         Consistent(seen)
  PROVE  Consistent(Append(seen, e))
<1> DEFINE longer == Append(seen, e)
           last == Len(seen)
<1>1. /\ last \in Nat /\ Len(longer) = last + 1 /\ longer[last + 1] = e
      /\ \A n \in 1..last : longer[n] = seen[n]
  BY AppendProperties
<1>2. \A m \in 1..(last + 1) : \A i \in 1..(m - 1) :
        /\ OpenAt(longer, i, m) <=> OpenAt(seen, i, m)
        /\ Selected(longer, i, m) <=> Selected(seen, i, m)
  BY OpenSame, SelectedSame
<1>3. e.active <=> \A i \in 1..last : OpenAt(seen, i, last + 1) => Selected(seen, i, last + 1)
  BY ActiveIs
<1>4. \A n \in 1..last : seen[n].active <=>
        \A i \in 1..(n - 1) : OpenAt(seen, i, n) => Selected(seen, i, n)
  BY DEF Consistent
<1> HIDE DEF longer, last
<1>5. ASSUME NEW n \in 1..(last + 1)
      PROVE  longer[n].active <=>
               \A i \in 1..(n - 1) : OpenAt(longer, i, n) => Selected(longer, i, n)
  <2>1. \A i \in 1..(n - 1) : /\ OpenAt(longer, i, n) <=> OpenAt(seen, i, n)
                              /\ Selected(longer, i, n) <=> Selected(seen, i, n)
    BY <1>2
  <2>2. (\A i \in 1..(n - 1) : OpenAt(longer, i, n) => Selected(longer, i, n))
          <=> \A i \in 1..(n - 1) : OpenAt(seen, i, n) => Selected(seen, i, n)
    BY <2>1, Zenon
  <2>3. CASE n \in 1..last
    <3>1. longer[n] = seen[n]
      BY <1>1, <2>3
    <3>2. seen[n].active <=> \A i \in 1..(n - 1) : OpenAt(seen, i, n) => Selected(seen, i, n)
      BY <1>4, <2>3
    <3> QED
      BY <2>2, <3>1, <3>2, Zenon
  <2>4. CASE n = last + 1
    <3>1. n - 1 = last
      BY <1>1, <2>4
    <3>2. longer[n].active <=> \A i \in 1..(n - 1) : OpenAt(seen, i, n) => Selected(seen, i, n)
      BY <1>1, <1>3, <2>4, <3>1
    <3> QED
      BY <2>2, <3>2, Zenon
  <2>5. n \in 1..last \/ n = last + 1
    BY <1>1
  <2> QED
    BY <2>3, <2>4, <2>5
<1>6. Consistent(longer)
  BY <1>1, <1>5 DEF Consistent
<1> QED
  BY <1>6 DEF longer

LEMMA GroupedAfter ==
  ASSUME Typed, frames # <<>>, NEW line \in Lines, NEW conditions \in Seq(GroupType),
         Regrouped(line, conditions), DepthOf(Top.seen) = Len(Top.conditions),
         NEW f, Grouped(Top.seen, Top.conditions, f)
  PROVE  \E g : Grouped(Append(Top.seen, Entry(line)), conditions, g)
<1> DEFINE old == Top.conditions
           seen == Top.seen
           e == Entry(line)
           holds == Holds(line)
<1>1. /\ old \in Seq(GroupType) /\ seen \in Seq(Entries) /\ Active \in BOOLEAN
      /\ Active = IsActive(old) /\ holds \in BOOLEAN
  BY TopOf, HoldsType DEF Active
<1>2. e \in Entries
  BY AfterOf
<1>3. e.line = line /\ e.holds = holds
  BY DEF Entry
<1>4. Depth(seen, Len(seen) + 1) = Len(old) /\ Grouped(seen, old, f)
  BY DEF DepthOf
<1>5. Regrouped(line, conditions)
  OBVIOUS
<1>6. old # <<>> => Last(old) \in GroupType /\ Front(old) \in Seq(GroupType)
  BY <1>1, Lasts
<1>7. line.kind \in Openings =>
        conditions = Append(old, Group(Active, Active /\ holds, Active /\ holds))
  BY <1>5 DEF Regrouped
<1>8. /\ line.kind = "elif" => old # <<>> /\ conditions = Replace(old, Reopen(Last(old), holds))
      /\ line.kind = "else" => old # <<>> /\ conditions = Replace(old, Otherwise(Last(old)))
      /\ line.kind = "endif" => old # <<>> /\ conditions = Front(old)
      /\ line.kind \notin Conditionals => conditions = old
  BY <1>5 DEF Regrouped
<1>9. line.kind = "else" => holds
  BY DEF Holds
<1> DEFINE longer == Append(seen, e)
<1> HIDE DEF old, seen, e, holds
<1>10. CASE line.kind \in Openings
  <2> DEFINE group == Group(Active, Active /\ holds, Active /\ holds)
  <2>1. /\ group \in GroupType
        /\ group.parent <=> Active
        /\ group.active <=> Active /\ holds
        /\ group.seenTrue <=> Active /\ holds
    BY <1>1 DEF Group, GroupType
  <2>2. conditions = Append(old, group)
    BY <1>7, <1>10
  <2> HIDE DEF group
  <2>3. /\ group.parent <=> IsActive(old)
        /\ group.active <=> group.parent /\ e.holds
        /\ group.seenTrue <=> group.active
    BY <1>1, <1>3, <2>1
  <2>4. \E g : Grouped(longer, Append(old, group), g)
    BY <1>1, <1>2, <1>3, <1>4, <1>10, <2>1, <2>3, GroupedOpens
  <2> QED
    BY <2>2, <2>4 DEF seen, e
<1>11. CASE line.kind \in {"elif", "else"}
  <2> DEFINE last == Last(old)
             group == IF line.kind = "elif" THEN Reopen(last, holds) ELSE Otherwise(last)
  <2>1. old # <<>> /\ last \in GroupType /\ conditions = Append(Front(old), group)
    BY <1>6, <1>8, <1>11 DEF Replace
  <2> HIDE DEF last
  <2>2. /\ group \in GroupType /\ group.parent = last.parent
        /\ group.active <=> last.parent /\ holds /\ ~last.seenTrue
        /\ group.parent => (group.seenTrue <=> last.seenTrue \/ holds)
    <3>1. CASE line.kind = "elif"
      BY <1>1, <2>1, <3>1 DEF Reopen, GroupType
    <3>2. CASE line.kind = "else"
      BY <1>1, <1>9, <2>1, <3>2 DEF Otherwise, GroupType
    <3> QED
      BY <1>11, <3>1, <3>2
  <2> HIDE DEF group
  <2>3. Grouped(longer, Append(Front(old), group), f)
    <3>1. /\ group.parent <=> Last(old).parent
          /\ group.active <=> group.parent /\ e.holds /\ ~Last(old).seenTrue
          /\ group.parent => (group.seenTrue <=> Last(old).seenTrue \/ e.holds)
      BY <1>3, <2>2 DEF last
    <3> QED
      BY <1>1, <1>2, <1>3, <1>4, <1>11, <2>1, <2>2, <3>1, GroupedSwitches
  <2> QED
    BY <2>1, <2>3 DEF seen, e
<1>12. CASE line.kind = "endif"
  <2>1. \E g : Grouped(longer, Front(old), g)
    BY <1>1, <1>2, <1>3, <1>4, <1>8, <1>12, GroupedCloses
  <2> QED
    BY <1>8, <1>12, <2>1 DEF seen, e
<1>13. CASE line.kind \notin Conditionals
  <2>1. Grouped(longer, old, f)
    BY <1>1, <1>2, <1>3, <1>4, <1>13, GroupedStays
  <2> QED
    BY <1>8, <1>13, <2>1 DEF seen, e
<1> QED
  BY <1>10, <1>11, <1>12, <1>13 DEF Conditionals

LEMMA KnownStep ==
  ASSUME Typed, Balanced, Sectioned, good, frames # <<>>,
         NEW line \in Lines, NEW conditions \in Seq(GroupType)
  PROVE  /\ Consistent(After(line, conditions).seen)
         /\ Regrouped(line, conditions) => Known(After(line, conditions), TRUE)
<1>1. /\ Len(frames) \in 1..Len(frames) /\ Top = frames[Len(frames)]
      /\ Top.seen \in Seq(Entries) /\ Top.conditions \in Seq(GroupType)
  BY TopOf
<1>2. Known(Top, good)
  BY <1>1 DEF Sectioned
<1>3. Consistent(Top.seen)
  BY <1>2 DEF Known
<1>4. PICK f : Grouped(Top.seen, Top.conditions, f)
  BY <1>2 DEF Known
<1>5. DepthOf(Top.seen) = Len(Top.conditions)
  BY <1>1 DEF Balanced
<1> DEFINE e == Entry(line)
           longer == Append(Top.seen, e)
           after == After(line, conditions)
<1>6. after.seen = longer /\ after.conditions = conditions /\ e \in Entries
  BY AfterOf
<1>7. e.active <=> IsActive(Top.conditions)
  BY DEF Entry, Active
<1>8. Consistent(longer)
  <2> HIDE DEF e
  <2> QED
    BY <1>1, <1>3, <1>4, <1>6, <1>7, ConsistentNext
<1>9. Regrouped(line, conditions) => \E g : Grouped(longer, conditions, g)
  <2> SUFFICES ASSUME Regrouped(line, conditions)
               PROVE  \E g : Grouped(longer, conditions, g)
    OBVIOUS
  <2> QED
    BY <1>4, <1>5, GroupedAfter
<1> HIDE DEF longer, after
<1>10. Regrouped(line, conditions) =>
         \E g \in [1..Len(conditions) -> 1..Len(longer)] : Grouped(longer, conditions, g)
  BY <1>9 DEF Grouped
<1> QED
  BY <1>6, <1>8, <1>10 DEF Known, after

LEMMA SectionedStep ==
  ASSUME Typed, Balanced, Sectioned, NEW line, NEW conditions, Steps(line, conditions)
  PROVE  Sectioned'
<1>1. /\ frames # <<>> /\ Len(frames') = Len(frames) /\ Len(frames) \in Nat \ {0}
      /\ frames'[Len(frames)] = After(line, conditions)
      /\ \A i \in 1..(Len(frames) - 1) : frames'[i] = frames[i]
  BY Framed
<1>2. /\ good /\ line \in Lines /\ conditions \in Seq(GroupType)
      /\ good' => Regrouped(line, conditions)
  BY DEF Steps, Reading
<1>3. /\ Consistent(After(line, conditions).seen)
      /\ Regrouped(line, conditions) => Known(After(line, conditions), TRUE)
  BY <1>1, <1>2, KnownStep
<1>4. ASSUME NEW i \in 1..Len(frames')
      PROVE  Known(frames'[i], good')
  <2>1. CASE i = Len(frames)
    BY <1>1, <1>2, <1>3, <2>1 DEF Known
  <2>2. CASE i # Len(frames)
    <3>1. i \in 1..Len(frames) /\ frames'[i] = frames[i]
      BY <1>1, <2>2
    <3>2. Known(frames[i], good)
      BY <3>1 DEF Sectioned
    <3> QED
      BY <1>2, <3>1, <3>2 DEF Known
  <2> QED
    BY <2>1, <2>2
<1> QED
  BY <1>4 DEF Sectioned, Known, Consistent, Grouped, OpenAt, Selected, Chosen, GroupsOf, Depth

LEMMA KnownFirst ==
  ASSUME NEW frame, frame.seen = <<>>, frame.conditions = <<>>
  PROVE  Known(frame, TRUE)
<1>1. Len(<<>>) = 0
  OBVIOUS
<1>2. Consistent(<<>>)
  BY <1>1 DEF Consistent
<1>3. <<>> \in [1..0 -> 1..0] /\ Grouped(<<>>, <<>>, <<>>)
  <2>1. <<>> \in [1..0 -> 1..0]
    OBVIOUS
  <2>2. \A k \in 1..0 : FALSE
    OBVIOUS
  <2> QED
    BY <1>1, <2>1, <2>2 DEF Grouped
<1> QED
  BY <1>1, <1>2, <1>3 DEF Known

LEMMA SectionedEntering ==
  ASSUME Typed, Balanced, Sectioned, NEW line, NEW file, Entering(line, file)
  PROVE  Sectioned'
<1>1. /\ frames # <<>> /\ Len(frames) \in Nat \ {0} /\ Len(frames') = Len(frames) + 1
      /\ frames'[Len(frames)] = After(line, Top.conditions)
      /\ frames'[Len(frames) + 1] = Source(file)
      /\ \A i \in 1..(Len(frames) - 1) : frames'[i] = frames[i]
  BY Pushed
<1>2. good /\ good' = good /\ line \in Lines /\ line.kind = "include"
  BY DEF Entering, Reading
<1> DEFINE conditions == Top.conditions
<1>3. conditions \in Seq(GroupType) /\ Regrouped(line, conditions)
  BY <1>1, <1>2, TopOf DEF Regrouped, Openings
<1> HIDE DEF conditions
<1>4. Known(After(line, conditions), TRUE)
  BY <1>1, <1>2, <1>3, KnownStep
<1>5. Known(Source(file), TRUE)
  <2>1. Source(file).seen = <<>> /\ Source(file).conditions = <<>>
    BY DEF Source
  <2> QED
    BY <2>1, KnownFirst
<1>6. ASSUME NEW i \in 1..Len(frames')
      PROVE  Known(frames'[i], good')
  <2>1. CASE i = Len(frames)
    BY <1>1, <1>2, <1>4, <2>1 DEF Known, conditions
  <2>2. CASE i = Len(frames) + 1
    BY <1>1, <1>2, <1>5, <2>2 DEF Known
  <2>3. CASE i # Len(frames) /\ i # Len(frames) + 1
    <3>1. i \in 1..Len(frames) /\ frames'[i] = frames[i]
      BY <1>1, <2>3
    <3>2. Known(frames[i], good)
      BY <3>1 DEF Sectioned
    <3> QED
      BY <1>2, <3>1, <3>2
  <2> QED
    BY <2>1, <2>2, <2>3
<1> QED
  BY <1>6 DEF Sectioned, Known, Consistent, Grouped, OpenAt, Selected, Chosen, GroupsOf, Depth

LEMMA SectionedLeave ==
  ASSUME Typed, Sectioned, Leave
  PROVE  Sectioned'
<1>1. /\ Len(frames) \in Nat \ {0} /\ Len(frames') = Len(frames) - 1
      /\ \A i \in 1..(Len(frames) - 1) : frames'[i] = frames[i]
  BY Popped
<1>2. good' => good
  BY Zenon DEF Leave, Fail, Same
<1>3. ASSUME NEW i \in 1..Len(frames')
      PROVE  Known(frames'[i], good')
  <2>1. i \in 1..Len(frames) /\ frames'[i] = frames[i]
    BY <1>1
  <2>2. Known(frames[i], good)
    BY <2>1 DEF Sectioned
  <2> QED
    BY <1>2, <2>1, <2>2 DEF Known
<1> QED
  BY <1>3 DEF Sectioned, Known, Consistent, Grouped, OpenAt, Selected, Chosen, GroupsOf, Depth

-----------------------------------------------------------------------------
(* The invariant *)

Inv == Typed /\ Stack /\ Balanced /\ Presumed /\ Sectioned

LEMMA NextIs ==
  ASSUME Typed, Next
  PROVE  Takes \/ (\E line, file : Entering(line, file)) \/ Leave \/ Finish
<1>1. CASE Reading /\ (Open \/ Elif \/ Else \/ Endif \/ Stray)
  BY <1>1, Opens, Switches, Closes
<1>2. CASE Reading /\ (Pass \/ Text \/ Define \/ Undef \/ Line \/ Error)
  BY <1>2, Executed
<1>3. CASE Reading /\ Include
  BY <1>3, Included
<1> QED
  BY <1>1, <1>2, <1>3 DEF Next

LEMMA InvInit ==
  Init => Inv
<1> SUFFICES ASSUME Init
             PROVE  Inv
  OBVIOUS
<1>1. /\ Main \in Volume /\ MaxTokens \in Nat /\ MaxDepth \in Nat /\ MaxDepth # 0
  BY PreprocessorAssumption
<1> DEFINE first == [path |-> Main, position |-> 0, conditions |-> <<>>,
                     savedPath |-> Main, savedDelta |-> 0, seen |-> <<>>]
<1>2. (frames = <<first>> /\ includes = <<Main>>) \/ (frames = <<>> /\ includes = <<>>)
  BY DEF Init
<1>3. first \in Frames /\ first.seen = <<>> /\ first.position = 0 /\ first.path = Main
      /\ first.conditions = <<>>
  BY <1>1 DEF Frames, Names
<1> HIDE DEF first
<1>4. frames \in Seq(Frames) /\ includes \in Seq(Volume)
      /\ \A i \in 1..Len(frames) : i = 1 /\ frames[i] = first /\ Len(frames) = 1
  <2>1. CASE frames = <<first>> /\ includes = <<Main>>
    <3>1. <<first>> \in Seq(Frames) /\ Len(<<first>>) = 1 /\ <<first>>[1] = first
      BY <1>3
    <3>2. <<Main>> \in Seq(Volume)
      BY <1>1
    <3> QED
      BY <2>1, <3>1, <3>2
  <2>2. CASE frames = <<>> /\ includes = <<>>
    <3>1. Len(<<>>) = 0 /\ <<>> \in Seq(Frames) /\ <<>> \in Seq(Volume)
      OBVIOUS
    <3> QED
      BY <2>2, <3>1
  <2> QED
    BY <1>2, <2>1, <2>2
<1>5. good \in BOOLEAN /\ errors \in Nat
  <2>1. errors \in Nat
    BY DEF Init
  <2>2. good \in BOOLEAN
    BY Zenon DEF Init
  <2> QED
    BY <2>1, <2>2
<1>6. /\ content \in [Volume -> Seq(Lines)] /\ ended \subseteq Volume
      /\ path = Main /\ delta = 0 /\ done = FALSE /\ output = <<>>
  BY DEF Init
<1>7. content[Main] = <<>>
  BY <1>1 DEF Init
<1>8. Typed
  <2>1. path \in Names /\ delta \in Int /\ output \in Seq(Tokens) /\ Len(output) <= MaxTokens
    BY <1>1, <1>6 DEF Names
  <2>2. \A i \in 1..Len(frames) : /\ frames[i].position = Len(frames[i].seen)
                                  /\ frames[i].position <= Len(content[frames[i].path])
    BY <1>3, <1>4, <1>7
  <2>3. done \in BOOLEAN /\ (done => frames = <<>>)
    BY <1>6
  <2> QED
    BY <1>4, <1>5, <1>6, <2>1, <2>2, <2>3 DEF Typed
<1>9. Stack
  <2>1. CASE frames = <<first>> /\ includes = <<Main>>
    BY <1>1, <1>3, <2>1 DEF Stack
  <2>2. CASE frames = <<>> /\ includes = <<>>
    BY <1>1, <2>2 DEF Stack
  <2> QED
    BY <1>2, <2>1, <2>2
<1>10. Balanced
  <2>1. DepthOf(<<>>) = 0
    BY DepthNone
  <2> QED
    BY <1>3, <1>4, <2>1 DEF Balanced
<1>11. Presumed
  <2> SUFFICES ASSUME NEW i \in 1..Len(frames)
               PROVE  Tells(frames[i], PathAt(i), DeltaAt(i))
    BY DEF Presumed
  <2>1. frames[i] = first /\ PathAt(i) = Main /\ DeltaAt(i) = 0
    BY <1>4, <1>6 DEF PathAt, DeltaAt
  <2> QED
    BY <1>3, <2>1, ToldFirst
<1>12. Sectioned
  <2>1. \A i \in 1..Len(frames) : Known(frames[i], TRUE)
    BY <1>3, <1>4, KnownFirst
  <2> QED
    BY <2>1 DEF Sectioned, Known
<1> QED
  BY <1>8, <1>9, <1>10, <1>11, <1>12 DEF Inv

LEMMA InvNext ==
  Inv /\ [Next]_vars => Inv'
<1> SUFFICES ASSUME Inv, [Next]_vars
             PROVE  Inv'
  OBVIOUS
<1>1. Typed /\ Stack /\ Balanced /\ Presumed /\ Sectioned
  BY DEF Inv
<1>2. CASE Takes
  <2>1. PICK line, conditions : Steps(line, conditions) /\ Emits(line)
    BY <1>2 DEF Takes
  <2>2. output' \in Seq(Tokens) /\ Len(output') <= MaxTokens
    BY <1>1, <2>1, Emitted DEF Steps, Reading
  <2>3. Typed'
    BY <1>1, <2>1, <2>2, TypedStep
  <2> QED
    BY <1>1, <2>1, <2>3, StackStep, BalancedStep, PresumedStep,
       SectionedStep DEF Inv
<1>3. CASE \E line, file : Entering(line, file)
  BY <1>1, <1>3, TypedEntering, StackEntering, BalancedEntering,
     PresumedEntering, SectionedEntering DEF Inv
<1>4. CASE Leave
  BY <1>1, <1>4, TypedLeave, StackLeave, BalancedLeave, PresumedLeave,
     SectionedLeave DEF Inv
<1>5. CASE Finish
  <2>1. Typed'
    BY <1>1, <1>5, TypedFinish
  <2>2. frames = <<>> /\ UNCHANGED <<frames, includes, path, delta>>
    BY <1>5 DEF Finish
  <2>3. Stack'
    BY <1>1, <2>2 DEF Stack
  <2>4. Balanced' /\ Presumed' /\ Sectioned'
    BY <2>2 DEF Balanced, Presumed, Sectioned
  <2> QED
    BY <2>1, <2>3, <2>4 DEF Inv
<1>6. CASE UNCHANGED vars
  <2>1. UNCHANGED <<content, ended, frames, includes, path, delta, output, errors, good, done>>
    BY <1>6 DEF vars
  <2>2. Typed'
    BY <1>1, <2>1 DEF Typed
  <2>3. Stack'
    BY <1>1, <2>1 DEF Stack
  <2>4. Balanced'
    <3>1. (good' => good) /\ frames' = frames
      BY <2>1
    <3> QED
      BY <1>1, <3>1 DEF Balanced, DepthOf, Depth
  <2>5. Presumed'
    <3>1. SUFFICES ASSUME NEW i \in 1..Len(frames')
                   PROVE  Tells(frames'[i], PathAt(i)', DeltaAt(i)')
      BY DEF Presumed, Tells, PresumedPath, PresumedLine, Renumberings
    <3>2. Tells(frames[i], PathAt(i), DeltaAt(i))
      BY <1>1, <2>1 DEF Presumed
    <3>3. PathAt(i)' = PathAt(i) /\ DeltaAt(i)' = DeltaAt(i) /\ frames' = frames
      BY <2>1 DEF PathAt, DeltaAt
    <3> QED
      BY <3>2, <3>3
  <2>6. Sectioned'
    <3>1. \A i \in 1..Len(frames') : Known(frames'[i], good')
      BY <1>1, <2>1 DEF Sectioned
    <3> QED
      BY <3>1 DEF Sectioned, Known, Consistent, Grouped, OpenAt, Selected, Chosen, GroupsOf,
                  Depth
  <2> QED
    BY <2>2, <2>3, <2>4, <2>5, <2>6 DEF Inv
<1> QED
  BY <1>1, <1>2, <1>3, <1>4, <1>5, <1>6, NextIs

\* The five parts of the invariant hold in every state of process_source.
THEOREM Invariant == Spec => []Inv
<1> QED
  BY InvInit, InvNext, PTL DEF Spec

\* The state of the preprocessor is well-formed: no source is read past its end
\* and no more tokens are published than output_push admits.
THEOREM TypeCorrect == Spec => []TypeOK
<1>1. Inv => TypeOK
  <2> SUFFICES ASSUME Inv
               PROVE  TypeOK
    OBVIOUS
  <2>1. Typed
    BY DEF Inv
  <2>2. ASSUME NEW i \in 1..Len(frames)
        PROVE  FrameType(frames[i])
    <3>1. frames[i] \in Frames
      BY <2>1 DEF Typed
    <3>2. /\ frames[i].path \in Volume /\ frames[i].conditions \in Seq(GroupType)
          /\ frames[i].savedDelta \in Int
      BY <3>1 DEF Frames
    <3> QED
      BY <2>1, <3>2 DEF FrameType, Typed
  <2> QED
    BY <2>1, <2>2 DEF TypeOK, Typed
<1> QED
  BY <1>1, Invariant, PTL

\* process_include reads no file while it is being read, and no more of them at
\* once than CC64_PP_MAX_INCLUDE_DEPTH, also while a failure is on its way out.
THEOREM FilesReadOnce == Spec => []NoReentry
<1>1. Inv => NoReentry
  <2> SUFFICES ASSUME Inv
               PROVE  NoReentry
    OBVIOUS
  <2>1. Typed /\ Stack
    BY DEF Inv
  <2>2. includes = [i \in 1..Len(frames) |-> frames[i].path]
    BY <2>1 DEF Typed, Stack
  <2>3. IsInjective(includes)
    BY <2>1 DEF Typed, Stack, IsInjective
  <2> QED
    BY <2>1, <2>2, <2>3 DEF NoReentry, Stack
<1> QED
  BY <1>1, Invariant, PTL

\* A line counts in process_source if and only if each conditional section it is in
\* has selected its group, however deep they nest and whatever was skipped.
THEOREM LinesSelected == Spec => []ActiveIsSelected
<1>1. Inv => ActiveIsSelected
  BY DEF Inv, Sectioned, Known, Consistent, ActiveIsSelected
<1> QED
  BY <1>1, Invariant, PTL

\* A source process_source leaves without a failure has closed each conditional
\* group it opened and no other.
THEOREM GroupsClosed == Spec => SourcesBalanced
<1>1. Inv /\ [Next]_vars => [Len(frames') < Len(frames) /\ good'
                               => Depth(Top.seen, Top.position + 1) = 0]_vars
  <2> SUFFICES ASSUME Inv, Next, Len(frames') < Len(frames), good'
               PROVE  Depth(Top.seen, Top.position + 1) = 0
    OBVIOUS
  <2>1. Typed /\ Balanced
    BY DEF Inv
  <2>2. ~Takes
    <3> SUFFICES ASSUME NEW line, NEW conditions, Steps(line, conditions)
                 PROVE  FALSE
      BY DEF Takes
    <3>1. Len(frames') = Len(frames) /\ Len(frames) \in Nat
      BY <2>1, Framed
    <3> QED
      BY <3>1
  <2>3. ~\E line, file : Entering(line, file)
    <3> SUFFICES ASSUME NEW line, NEW file, Entering(line, file)
                 PROVE  FALSE
      OBVIOUS
    <3>1. Len(frames') = Len(frames) + 1 /\ Len(frames) \in Nat
      BY <2>1, Pushed
    <3> QED
      BY <3>1
  <2>4. ~Finish
    <3> SUFFICES ASSUME Finish
                 PROVE  FALSE
      OBVIOUS
    <3>1. frames' = frames /\ Len(frames) \in Nat
      BY <2>1 DEF Finish, Typed
    <3> QED
      BY <3>1
  <2>5. Leave
    BY <2>1, <2>2, <2>3, <2>4, NextIs
  <2>6. good /\ Top.conditions = <<>>
    <3>1. ~Fail(1)
      BY Zenon DEF Fail
    <3>2. ~Unterminated(Top.conditions) /\ Same
      BY <2>5, <3>1 DEF Leave
    <3> QED
      BY <3>2 DEF Unterminated, Same
  <2>7. frames # <<>>
    BY <2>5 DEF Leave
  <2>8. /\ Len(frames) \in 1..Len(frames) /\ Top = frames[Len(frames)]
        /\ Top.position = Len(Top.seen)
    BY <2>1, <2>7, TopOf
  <2>9. DepthOf(Top.seen) = Len(Top.conditions) /\ Len(<<>>) = 0
    BY <2>1, <2>6, <2>8 DEF Balanced
  <2> QED
    BY <2>6, <2>8, <2>9 DEF DepthOf
<1> QED
  BY <1>1, Invariant, PTL DEF Spec, SourcesBalanced

\* A token carries the presumed path and line of where it stands in its source,
\* whatever was included before it.
THEOREM TokensPlaced == Spec => LinesPresumed
<1>1. Inv /\ [Next]_vars =>
        [Len(output') > Len(output)
           => Last(output') = [path |-> PresumedPath(Top.path, Top.seen, Number),
                               line |-> PresumedLine(Top.seen, Number)]]_vars
  <2> SUFFICES ASSUME Inv, Next, Len(output') > Len(output)
               PROVE  Last(output') = [path |-> PresumedPath(Top.path, Top.seen, Number),
                                       line |-> PresumedLine(Top.seen, Number)]
    OBVIOUS
  <2>1. Typed /\ Presumed
    BY DEF Inv
  <2>2. output' # output /\ output' # <<>>
    <3>1. Len(output) \in Nat /\ Len(<<>>) = 0
      BY <2>1 DEF Typed
    <3> QED
      BY <3>1
  <2>3. Takes
    <3>1. ~Leave
      BY <2>2 DEF Leave
    <3>2. ~Finish
      BY <2>2 DEF Finish, Published
    <3>3. ~\E line, file : Entering(line, file)
      BY <2>2 DEF Entering
    <3> QED
      BY <2>1, <3>1, <3>2, <3>3, NextIs
  <2>4. PICK line, conditions : Steps(line, conditions) /\ Emits(line)
    BY <2>3 DEF Takes
  <2> DEFINE token == [path |-> path, line |-> Number + delta]
  <2>5. output' = Append(output, token)
    BY <2>2, <2>4 DEF Emits
  <2>6. frames # <<>>
    BY <2>4 DEF Steps, Reading
  <2>7. /\ Len(frames) \in 1..Len(frames) /\ Top = frames[Len(frames)]
        /\ Number = Len(Top.seen) + 1 /\ Len(Top.seen) \in Nat
    BY <2>1, <2>6, TopOf
  <2>8. Tells(Top, path, delta)
    BY <2>1, <2>7 DEF Presumed, PathAt, DeltaAt
  <2>9. path = PresumedPath(Top.path, Top.seen, Number)
        /\ delta + Number = PresumedLine(Top.seen, Number)
    BY <2>7, <2>8 DEF Tells
  <2>10. Number + delta = delta + Number
    BY <2>1, <2>7 DEF Typed
  <2>11. Last(output') = token
    <3> HIDE DEF token
    <3>1. output \in Seq(Tokens)
      BY <2>1 DEF Typed
    <3>2. /\ Len(Append(output, token)) = Len(output) + 1
          /\ Append(output, token)[Len(output) + 1] = token
      BY <3>1
    <3> QED
      BY <2>5, <3>2 DEF Last
  <2> QED
    BY <2>9, <2>10, <2>11
<1> QED
  BY <1>1, Invariant, PTL DEF Spec, LinesPresumed
=============================================================================
