---------------------------- MODULE Preprocessor ----------------------------
(***************************************************************************)
(* The directives of src/frontend/preprocessor.c: process_source reads a   *)
(* source line by line, process_directive keeps its conditional groups,    *)
(* the macros and the presumed line, and process_include reads another     *)
(* source in its place. Macro replacement is the matter of MacroExpansion. *)
(*                                                                         *)
(* A line of a source is discovered when it is first read, and stays the   *)
(* same from then on, so that every set of small sources is considered.    *)
(* A line of text is one token, which carries the path and the line that   *)
(* __FILE__ and __LINE__ have on it. Newline tokens are left out, and so   *)
(* are the tokens of the lines of #if and #include in the count of tokens. *)
(***************************************************************************)
EXTENDS Integers, Sequences, SequencesExt, FiniteSets, FiniteSetsExt

CONSTANTS
  Lines,        \* the lines a source may have
  Volume,       \* the paths of the files that can be read
  Unlexable,    \* those of them the lexer refuses
  Main,         \* the path of the translation unit
  IncludePaths, \* the directories of -I, in order
  Here,         \* the current directory
  MaxLines,     \* how many lines all the sources have at most (a bound)
  MaxDepth,     \* CC64_PP_MAX_INCLUDE_DEPTH
  MaxTokens     \* CC64_PP_MAX_TOKENS

ASSUME PreprocessorAssumption ==
  /\ Main \in Volume
  /\ Unlexable \subseteq Volume
  /\ {MaxLines, MaxDepth, MaxTokens} \subseteq Nat
  /\ MaxDepth # 0
  /\ \A line \in Lines : line.kind = "line" => line.number \in Int

Openings == {"if", "ifdef", "ifndef"}
Conditionals == Openings \cup {"elif", "else", "endif"}

VARIABLES
  content,  \* the lines of each file, as far as they are known
  ended,    \* the files whose end is known
  frames,   \* the sources being read, the translation unit first
  includes, \* include_stack
  macros,   \* the names that are defined
  path,     \* display_path
  delta,    \* line_delta
  output,   \* the tokens published
  errors,   \* how many errors were reported
  good,     \* what process_source is about to return
  done      \* whether preprocess_source has returned

vars == <<content, ended, frames, includes, macros, path, delta, output,
          errors, good, done>>

Top == Last(frames)
Number == Top.position + 1  \* of the line being read

-----------------------------------------------------------------------------
(* Reading a line *)

\* A history of the lines is kept in seen: whether the code took the line to be
\* in an active group, and whether a condition on it held.
Source(file) ==
  [path |-> file, position |-> 0, conditions |-> <<>>,
   savedPath |-> path, savedDelta |-> delta, seen |-> <<>>]

IsActive(conditions) == IF conditions = <<>> THEN TRUE ELSE Last(conditions).active

Active == IsActive(Top.conditions)

\* The loop of process_source goes on.
Reading == ~done /\ good /\ frames # <<>>

\* The next line of the source is `line`.
Reads(line) ==
  LET known == content[Top.path] IN
  /\ IF Number <= Len(known)
     THEN line = known[Number] /\ UNCHANGED content
     ELSE /\ Top.path \notin ended
          /\ MapThenSumSet(LAMBDA file : Len(content[file]), Volume) < MaxLines
          /\ content' = [content EXCEPT ![Top.path] = Append(@, line)]
  /\ UNCHANGED <<ended, done>>

Holds(line) ==
  CASE line.kind \in {"if", "elif"} -> line.cond = "true"
    [] line.kind = "ifdef" -> line.name \in macros
    [] line.kind = "ifndef" -> line.name \notin macros
    [] OTHER -> TRUE

\* The source goes on behind the line, with these conditional groups.
After(line, conditions) ==
  [Top EXCEPT !.position = @ + 1, !.conditions = conditions,
     !.seen = Append(@, [line |-> line, active |-> Active, holds |-> Holds(line)])]

GoOn(line, conditions) ==
  frames' = Append(Front(frames), After(line, conditions))

Fail(count) == good' = FALSE /\ errors' = errors + count

Same == UNCHANGED <<good, errors>>

-----------------------------------------------------------------------------
(* Conditional groups *)

Group(parent, active, seen) ==
  [parent |-> parent, active |-> active, seenTrue |-> seen]

\* #if, #ifdef and #ifndef. A condition that cannot be evaluated is reported and
\* false; in a group that is not active #if is not evaluated at all.
Invalid(line) == line.kind \in {"if", "elif"} /\ line.cond = "invalid"

Open ==
  \E line \in {l \in Lines : l.kind \in Openings} :
    LET active == Active /\ Holds(line) IN
    /\ Reads(line)
    /\ GoOn(line, Append(Top.conditions, Group(Active, active, active)))
    /\ errors' = errors + (IF Active /\ Invalid(line) THEN 1 ELSE 0)
    /\ UNCHANGED <<includes, macros, path, delta, output, good>>

ReopenForgetsParent(group, holds) ==
  IF group.seenTrue THEN [group EXCEPT !.active = FALSE]
  ELSE [group EXCEPT !.active = holds, !.seenTrue = holds]

\* What #elif makes of the group, with its condition.
Reopen(group, holds) ==
  IF group.seenTrue \/ ~group.parent THEN [group EXCEPT !.active = FALSE]
  ELSE [group EXCEPT !.active = holds, !.seenTrue = holds]

\* What #else makes of it.
Otherwise(group) ==
  IF group.seenTrue THEN [group EXCEPT !.active = FALSE]
  ELSE [group EXCEPT !.active = group.parent, !.seenTrue = TRUE]

Replace(conditions, group) == Append(Front(conditions), group)

Elif ==
  \E line \in {l \in Lines : l.kind = "elif"} :
    LET group == Last(Top.conditions)
        evaluated == ~group.seenTrue /\ group.parent IN
    /\ Top.conditions # <<>>
    /\ Reads(line)
    /\ GoOn(line, Replace(Top.conditions, Reopen(group, Holds(line))))
    /\ errors' = errors + (IF evaluated /\ Invalid(line) THEN 1 ELSE 0)
    /\ UNCHANGED <<includes, macros, path, delta, output, good>>

Else ==
  \E line \in {l \in Lines : l.kind = "else"} :
    /\ Top.conditions # <<>>
    /\ Reads(line)
    /\ GoOn(line, Replace(Top.conditions, Otherwise(Last(Top.conditions))))
    /\ UNCHANGED <<includes, macros, path, delta, output, good, errors>>

Endif ==
  \E line \in {l \in Lines : l.kind = "endif"} :
    /\ Top.conditions # <<>>
    /\ Reads(line)
    /\ GoOn(line, Front(Top.conditions))
    /\ UNCHANGED <<includes, macros, path, delta, output, good, errors>>

\* #elif, #else or #endif without #if.
Stray ==
  \E line \in {l \in Lines : l.kind \in {"elif", "else", "endif"}} :
    /\ Top.conditions = <<>>
    /\ Reads(line)
    /\ GoOn(line, <<>>)
    /\ Fail(1)
    /\ UNCHANGED <<includes, macros, path, delta, output>>

\* Every other line of a group that is not active is passed over.
Pass ==
  \E line \in {l \in Lines : l.kind \notin Conditionals} :
    /\ ~Active
    /\ Reads(line)
    /\ GoOn(line, Top.conditions)
    /\ Same
    /\ UNCHANGED <<includes, macros, path, delta, output>>

-----------------------------------------------------------------------------
(* Lines of active groups *)

\* output_push refuses a token.
Full == Len(output) >= MaxTokens

Executes(line) == Active /\ Reads(line) /\ GoOn(line, Top.conditions)

Text ==
  \E line \in {l \in Lines : l.kind = "text"} :
    /\ Executes(line)
    /\ IF Full
       THEN Fail(1) /\ UNCHANGED output
       ELSE /\ output' = Append(output, [path |-> path, line |-> Number + delta])
            /\ Same
    /\ UNCHANGED <<includes, macros, path, delta>>

\* A definition takes the place of the one the name had. It fails without
\* a word when the arena is exhausted.
Define ==
  \E line \in {l \in Lines : l.kind = "define"} :
    /\ Executes(line)
    /\ \/ macros' = macros \cup {line.name} /\ Same
       \/ Fail(0) /\ UNCHANGED macros
    /\ UNCHANGED <<includes, path, delta, output>>

Undef ==
  \E line \in {l \in Lines : l.kind = "undef"} :
    /\ Executes(line)
    /\ macros' = macros \ {line.name}
    /\ Same
    /\ UNCHANGED <<includes, path, delta, output>>

\* #line gives the next line a number, and the source a name if there is one.
Line ==
  \E line \in {l \in Lines : l.kind = "line"} :
    /\ Executes(line)
    /\ delta' = line.number - Number - 1
    /\ path' = IF line.named THEN line.path ELSE path
    /\ Same
    /\ UNCHANGED <<includes, macros, output>>

\* #error, and a directive that is malformed or unknown.
Error ==
  \E line \in {l \in Lines : l.kind = "error"} :
    /\ Executes(line)
    /\ Fail(1)
    /\ UNCHANGED <<includes, macros, path, delta, output>>

-----------------------------------------------------------------------------
(* #include *)

Joined(directory, name) ==
  CASE directory = Here -> name
    [] directory # Here /\ name.dir = Here -> [name EXCEPT !.dir = directory]
    [] OTHER -> [name EXCEPT !.dir = <<directory, name.dir>>]

Everywhere(directories, name) ==
  [i \in DOMAIN directories |-> Joined(directories[i], name)]

\* Where a name is looked for, in order: as it stands, next to the file that
\* includes it unless it is angled, and then its last component alone.
Candidates(line) ==
  LET own == IF line.angled THEN <<Here>> ELSE <<Top.path.dir, Here>>
      leaf == [line.file EXCEPT !.dir = Here] IN
  Everywhere(own \o IncludePaths, line.file)
    \o (IF line.file.dir = Here THEN <<>>
        ELSE Everywhere(<<Here>> \o IncludePaths, leaf))

\* `file` is the first of them that can be read.
Finds(line, file) ==
  \E i \in DOMAIN Candidates(line) :
    /\ Candidates(line)[i] = file
    /\ \A j \in 1..(i - 1) : Candidates(line)[j] \notin Volume

CycleWithParentOnly(file) == file = Last(includes)

Cycle(file) == file \in ToSet(includes)

\* Refused are inclusions that are too deep, of a file that is read already or is
\* not there, and of one that cannot be read to its end as tokens, which fails
\* before anything of it is processed.
Enters(line, file) ==
  /\ Len(includes) < MaxDepth
  /\ Finds(line, file)
  /\ ~Cycle(file)
  /\ file \notin Unlexable

Include ==
  \E line \in {l \in Lines : l.kind = "include"} :
    /\ Active
    /\ Reads(line)
    /\ \/ /\ \A file \in Volume : ~Enters(line, file)
          /\ GoOn(line, Top.conditions)
          /\ Fail(1)
          /\ UNCHANGED <<includes, path, delta>>
       \/ \E file \in Volume :
            /\ Enters(line, file)
            /\ frames' = Front(frames)
                 \o <<After(line, Top.conditions), Source(file)>>
            /\ includes' = Append(includes, file)
            /\ path' = file /\ delta' = 0
            /\ Same
    /\ UNCHANGED <<macros, output>>

RestorePathOnly == path' = Top.savedPath /\ UNCHANGED delta

\* What the source that is left put aside is restored.
Restore == path' = Top.savedPath /\ delta' = Top.savedDelta

UnterminatedIgnored(conditions) == FALSE

\* A group that was opened in the source and not closed in it is an error.
Unterminated(conditions) == conditions # <<>>

\* The end of a source is reached, or a line of it has failed.
Leave ==
  /\ ~done /\ frames # <<>>
  /\ \/ good /\ Top.position = Len(content[Top.path])
     \/ ~good
  /\ ended' = IF good THEN ended \cup {Top.path} ELSE ended
  /\ IF Unterminated(Top.conditions) THEN Fail(1) ELSE Same
  /\ frames' = Front(frames)
  /\ includes' = Front(includes)
  /\ Restore
  /\ UNCHANGED <<content, macros, output, done>>

\* A run that fails publishes nothing.
Published(tokens) == IF good THEN tokens ELSE <<>>

\* preprocessor_run ends the output with a token of its own, which the limit may
\* refuse; preprocess_source returns.
Finish ==
  /\ ~done /\ frames = <<>>
  /\ IF good /\ Full
     THEN Fail(1) /\ output' = <<>>
     ELSE Same /\ output' = Published(output)
  /\ done' = TRUE
  /\ UNCHANGED <<content, ended, frames, includes, macros, path, delta>>

-----------------------------------------------------------------------------
\* A definition of the command line that is refused, and a translation unit the
\* lexer refuses, end the run before it starts.
Init ==
  /\ content = [file \in Volume |-> <<>>]
  /\ ended = {}
  /\ macros = {}
  /\ output = <<>>
  /\ done = FALSE
  /\ delta = 0 /\ path = Main
  /\ \/ /\ good = TRUE /\ errors = 0
        /\ Main \notin Unlexable
        /\ frames = <<[path |-> Main, position |-> 0, conditions |-> <<>>,
                       savedPath |-> Main, savedDelta |-> 0, seen |-> <<>>]>>
        /\ includes = <<Main>>
     \/ /\ good = FALSE /\ errors = 1
        /\ frames = <<>> /\ includes = <<>>

Next ==
  \/ /\ Reading
     /\ \/ Open \/ Elif \/ Else \/ Endif \/ Stray \/ Pass
        \/ Text \/ Define \/ Undef \/ Line \/ Error \/ Include
  \/ Leave
  \/ Finish

Spec == Init /\ [][Next]_vars

-----------------------------------------------------------------------------
GroupType == [parent : BOOLEAN, active : BOOLEAN, seenTrue : BOOLEAN]

FrameType(frame) ==
  /\ frame.path \in Volume
  /\ frame.position = Len(frame.seen)
  /\ frame.position <= Len(content[frame.path])
  /\ frame.conditions \in Seq(GroupType)
  /\ frame.savedDelta \in Int

TypeOK ==
  /\ \A file \in Volume : content[file] \in Seq(Lines)
  /\ ended \subseteq Volume
  /\ \A i \in 1..Len(frames) : FrameType(frames[i])
  /\ delta \in Int
  /\ Len(output) <= MaxTokens
  /\ errors \in Nat
  /\ {good, done} \subseteq BOOLEAN
  /\ done => frames = <<>>

\* The conditional groups of a source, read off its lines alone. Depth(seen, i)
\* is how many groups are open before line i.
Depth(seen, i) ==
  Cardinality({j \in 1..(i - 1) : seen[j].line.kind \in Openings})
    - Cardinality({j \in 1..(i - 1) : seen[j].line.kind = "endif"})

OpenAt(seen, i, end) ==
  /\ seen[i].line.kind \in Openings
  /\ \A j \in (i + 1)..end : Depth(seen, j) > Depth(seen, i)

\* The groups of the section line i opens: the line that begins each.
GroupsOf(seen, i, end) ==
  {i} \cup {j \in (i + 1)..(end - 1) :
              /\ seen[j].line.kind \in {"elif", "else"}
              /\ Depth(seen, j) = Depth(seen, i) + 1}

\* The group line `end` is in is the first of its section whose condition holds.
Selected(seen, i, end) ==
  LET groups == GroupsOf(seen, i, end)
      last == Max(groups) IN
  seen[last].holds /\ \A j \in groups \ {last} : ~seen[j].holds

\* A line of a source counts if and only if each section it is in has selected
\* the group it is in, however sections nest, whatever groups were skipped and
\* whatever else was included in between.
ActiveIsSelected ==
  \A f \in 1..Len(frames) :
    LET seen == frames[f].seen IN
    \A n \in 1..Len(seen) :
      seen[n].active <=> \A i \in 1..(n - 1) :
                           OpenAt(seen, i, n) => Selected(seen, i, n)

\* No source leaves a group open for the source that included it, and none
\* closes a group it did not open.
SourcesBalanced ==
  [][Len(frames') < Len(frames) /\ good'
       => Depth(Top.seen, Top.position + 1) = 0]_vars

\* The #line directives of a source that count, before line n.
Renumberings(seen, n) ==
  {i \in 1..(n - 1) : seen[i].line.kind = "line" /\ seen[i].active}

PresumedLine(seen, n) ==
  LET before == Renumberings(seen, n) IN
  IF before = {} THEN n
  ELSE seen[Max(before)].line.number + (n - Max(before) - 1)

PresumedPath(file, seen, n) ==
  LET before == {i \in Renumberings(seen, n) : seen[i].line.named} IN
  IF before = {} THEN file ELSE seen[Max(before)].line.path

\* __LINE__ and __FILE__ tell where a token stands in its own source, whatever
\* sources were included before it and whatever #line said in those.
LinesPresumed ==
  [][Len(output') > Len(output)
       => Last(output') = [path |-> PresumedPath(Top.path, Top.seen, Number),
                           line |-> PresumedLine(Top.seen, Number)]]_vars

\* include_stack is the sources being read, no file twice and no more than
\* the limit allows, also while a failure is on its way out.
NoReentry ==
  /\ includes = [i \in 1..Len(frames) |-> frames[i].path]
  /\ IsInjective(includes)
  /\ Len(includes) <= MaxDepth
=============================================================================
