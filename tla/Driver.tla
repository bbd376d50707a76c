------------------------------- MODULE Driver -------------------------------
(***************************************************************************)
(* cc64_main, src/driver/main.c: response files are spliced into the       *)
(* command line, the options are read, and the inputs are linked, or       *)
(* compiled one after the other by compile_one. All of them share one      *)
(* options block and one diagnostic sink, which keeps the first Limit      *)
(* diagnostics; each has an arena of its own, which its sources live in.   *)
(*                                                                         *)
(* What the phases of the compiler make of an input is a choice: how many  *)
(* diagnostics they report and whether they succeed. A name is a stem and  *)
(* an extension. The options that change no control (-P, --line-markers)   *)
(* are left out, and so are the values of -I and -D and their attached form. *)
(***************************************************************************)
EXTENDS Integers, Sequences, SequencesExt, FiniteSets

CONSTANTS
  CommandLines, \* the command lines: sequences of words
  Responses,    \* the response files that can be read: names to words
  Readable,     \* the names of the inputs that can be read
  Formats,      \* the names --format takes
  Target,       \* CC64_TARGET
  MaxDepth,     \* RESPONSE_DEPTH
  MaxArguments, \* the capacity of the argument vector, the program's name included
  MaxInputs,    \* CC64_MAX_INPUTS
  MaxValues,    \* how many -I, and how many -D, there may be
  Limit,        \* sink.limit
  MaxReports,   \* how many diagnostics a step reports at most (a bound)
  MaxDeclarations, \* how many declarations an input has at most (a bound)
  Aborted       \* the status of a process its C library ended

ASSUME DriverAssumption ==
  /\ {MaxDepth, MaxArguments, MaxInputs, MaxValues} \subseteq Nat
  /\ {MaxReports, MaxDeclarations} \subseteq Nat
  /\ Limit \in Nat \ {0}
  /\ Aborted # 0

VARIABLES
  phase,    \* what cc64_main is doing
  reading,  \* the command line and the response files being read
  items,    \* the arguments
  position, \* how many of them parse_options has taken
  options,  \* struct Options
  sink,     \* the diagnostics kept
  current,  \* the number of the input being compiled
  good,     \* what compile_one has in `good`
  before,   \* errors_before
  left,     \* how many declarations are left to parse
  failed,   \* parser->failed
  tokens,   \* who owns the array of tokens
  alive,    \* the inputs whose arena exists
  volume,   \* the files written: names to the inputs they were made from
  status,   \* the exit status so far
  history   \* what the inputs did, and what was printed (not in the program)

driverVars == <<phase, reading, items, position, options, sink, current, good, before,
                left, failed, tokens, alive, volume, status, history>>

parser == <<left, failed, tokens>>
input == <<current, good, before, parser, alive>>
command == <<reading, items, position, options>>

-----------------------------------------------------------------------------
(* Diagnostics *)

\* A diagnostic of the driver itself has no source and belongs to input 0.
Report(count, sourced) ==
  [i \in 1..count |-> [input |-> current, sourced |-> sourced]]

\* diagnostic_emit drops what comes when the sink is full.
Kept(diagnostics) ==
  IF Len(diagnostics) > Limit THEN SubSeq(diagnostics, 1, Limit) ELSE diagnostics

Emit(count, sourced) == sink' = Kept(sink \o Report(count, sourced))

\* The input reports `count` diagnostics, or fails of itself.
Recorded(count, success) ==
  IF count = 0 /\ success THEN history
  ELSE [history EXCEPT !.troubled = @ \cup {current}]

\* print_diagnostics prints all that the sink holds. Those whose source is in an
\* arena that has been destroyed are remembered.
Printed(diagnostics, record) ==
  [record EXCEPT !.dangling = @ \/ \E i \in 1..Len(diagnostics) :
                   /\ diagnostics[i].sourced
                   /\ diagnostics[i].input \notin alive]

End(code) == phase' = "done" /\ status' = code

\* The driver refuses the command.
Refuse ==
  /\ sink' = Append(sink, [input |-> 0, sourced |-> FALSE])
  /\ history' = Printed(sink', history)
  /\ End(1)
  /\ UNCHANGED <<input, volume>>

-----------------------------------------------------------------------------
(* Response files *)

Top == Last(reading)

\* append_response_file is called with a depth of one by the command line.
TooDeep == Len(reading) >= MaxDepth

Full == Len(items) + 1 >= MaxArguments

\* The next word of the file being read, or of the command line: another file, or
\* an argument. A file that cannot be read or is too large is refused.
Expand ==
  /\ phase = "expand"
  /\ Top # <<>>
  /\ LET word == Head(Top)
         rest == Append(Front(reading), Tail(Top)) IN
     IF word.kind = "response"
     THEN /\ UNCHANGED items
          /\ IF TooDeep \/ word.name \notin DOMAIN Responses
             THEN End(1) /\ UNCHANGED reading
             ELSE /\ reading' = Append(rest, Responses[word.name])
                  /\ UNCHANGED <<phase, status>>
     ELSE IF Full THEN End(1) /\ UNCHANGED <<reading, items>>
     ELSE /\ items' = Append(items, word) /\ reading' = rest
          /\ UNCHANGED <<phase, status>>
  /\ UNCHANGED <<input, position, options, sink, volume, history>>

EndOfFile ==
  /\ phase = "expand"
  /\ Top = <<>>
  /\ reading' = Front(reading)
  /\ phase' = IF Len(reading) = 1 THEN "options" ELSE phase
  /\ UNCHANGED <<input, items, position, options, sink, volume, status, history>>

-----------------------------------------------------------------------------
(* Options *)

File(stem, ext) == [stem |-> stem, ext |-> ext]

Defaults ==
  [action |-> "compile", inputs |-> <<>>, output |-> File("a", "o"),
   outputSet |-> FALSE, target |-> Target, includes |-> 0, defines |-> 0,
   free |-> FALSE, format |-> File("com", "")]

Word == items[position + 1]

\* take_value: whatever word follows, be it an option.
HasValue == position + 2 <= Len(items)
Value == LET word == items[position + 2] IN
         IF word.kind = "plain" THEN word.name ELSE word

Set(new, count) ==
  /\ options' = new
  /\ position' = position + count
  /\ UNCHANGED <<input, phase, reading, items, sink, volume, status, history>>

Flag ==
  \/ Word.kind = "action" /\ Set([options EXCEPT !.action = Word.action], 1)
  \/ Word.kind = "free" /\ Set([options EXCEPT !.free = TRUE], 1)

TakesFormat == HasValue /\ Value \in Formats

Valued ==
  \/ /\ Word.kind = "output" /\ HasValue
     /\ Set([options EXCEPT !.output = Value, !.outputSet = TRUE], 2)
  \/ /\ Word.kind = "target" /\ HasValue
     /\ Set([options EXCEPT !.target = Value], 2)
  \/ /\ Word.kind = "format" /\ TakesFormat
     /\ Set([options EXCEPT !.format = Value], 2)
  \/ /\ Word.kind = "include" /\ HasValue /\ options.includes < MaxValues
     /\ Set([options EXCEPT !.includes = @ + 1], 2)
  \/ /\ Word.kind = "define" /\ HasValue /\ options.defines < MaxValues
     /\ Set([options EXCEPT !.defines = @ + 1], 2)

AddInput ==
  /\ Word.kind = "plain" /\ Len(options.inputs) < MaxInputs
  /\ Set([options EXCEPT !.inputs = Append(@, Word.name)], 1)

\* An option that is unknown, lacks its value or has a wrong one, or is one too
\* many.
Wrong ==
  \/ Word.kind = "unknown"
  \/ Word.kind \in {"output", "target", "include", "define"} /\ ~HasValue
  \/ Word.kind = "format" /\ ~TakesFormat
  \/ Word.kind = "include" /\ options.includes = MaxValues
  \/ Word.kind = "define" /\ options.defines = MaxValues
  \/ Word.kind = "plain" /\ Len(options.inputs) = MaxInputs

Option ==
  /\ phase = "options"
  /\ position < Len(items)
  /\ \/ Flag \/ Valued \/ AddInput
     \/ Wrong /\ Refuse /\ UNCHANGED command

NeedsInput == options.action \notin {"version", "help"}

\* Every action but linking makes a file of each input, named after it when there
\* are several.
Derived(file) ==
  File(file.stem, IF options.action = "compile" THEN "cc64o" ELSE "i")

Several == Len(options.inputs) > 1

Output ==
  IF Several /\ options.action # "link" THEN Derived(options.inputs[current])
  ELSE IF options.action = "link" /\ ~options.outputSet THEN File("a", "com")
  ELSE options.output

OutputForSeveral == Several /\ options.outputSet

Begin(n) ==
  /\ phase' = "load"
  /\ current' = n

\* The options have been read: what cc64_main does about them.
Choose ==
  /\ phase = "options"
  /\ position = Len(items)
  /\ \/ /\ ~NeedsInput
        /\ End(0) /\ UNCHANGED <<input, sink, volume, history>>
     \/ /\ NeedsInput
        /\ \/ options.inputs = <<>>
           \/ options.action # "link"
                /\ (options.target # Target \/ OutputForSeveral)
        /\ Refuse
     \/ /\ options.action = "link" /\ options.inputs # <<>>
        /\ phase' = "link"
        /\ UNCHANGED <<input, sink, volume, status, history>>
     \/ /\ NeedsInput /\ options.action # "link"
        /\ options.inputs # <<>> /\ options.target = Target /\ ~OutputForSeveral
        /\ Begin(1)
        /\ UNCHANGED <<good, before, parser, alive, sink, volume, status, history>>
  /\ UNCHANGED command

-----------------------------------------------------------------------------
(* Linking and compiling *)

Put(name) ==
  volume' = [n \in DOMAIN volume \cup {name} |->
               IF n = name THEN current ELSE volume[n]]

\* A write that fails leaves what was there, or a part of the new contents.
Spoil(name) ==
  \/ UNCHANGED volume
  \/ volume' = [n \in DOMAIN volume \ {name} |-> volume[n]]

\* link_objects, which writes the image last.
Link ==
  /\ phase = "link"
  /\ \E count \in 0..MaxReports, success \in BOOLEAN :
       /\ success => count = 0
       /\ Emit(count, FALSE)
       /\ history' = Printed(sink', Recorded(count, success))
       /\ IF success THEN Put(Output) ELSE Spoil(Output)
       /\ End(IF success /\ sink' = <<>> THEN 0 ELSE 1)
  /\ UNCHANGED <<input, command>>

Goes(next, success) == good' = success /\ phase' = next

GoesOn(next, success) == Goes(IF success THEN next ELSE "leave", success)

\* What a phase of the compiler reports of the input.
Reports(count, sourced, ok) ==
  /\ Emit(count, sourced)
  /\ history' = Recorded(count, ok)
  /\ UNCHANGED <<command, current, before, alive, volume, status>>

\* compile_one reads the input, or gives it up.
Load ==
  /\ phase = "load"
  /\ before' = Len(sink)
  /\ IF options.inputs[current] \in Readable
     THEN /\ alive' = alive \cup {current}
          /\ Goes("preprocess", TRUE)
          /\ UNCHANGED <<sink, history>>
     ELSE /\ sink' = Kept(Append(sink, [input |-> current, sourced |-> FALSE]))
          /\ history' = Printed(sink', Recorded(1, FALSE))
          /\ Goes("next", FALSE)
          /\ UNCHANGED alive
  /\ UNCHANGED <<command, current, parser, volume, status>>

NothingNew == Len(sink') = Len(sink)

AfterPreprocessing ==
  CASE options.action = "compile" -> "create"
    [] options.action = "ast" -> "parse"
    [] OTHER -> "publish"

\* preprocess_source may report an invalid condition and succeed all the same.
Preprocess ==
  /\ phase = "preprocess"
  /\ \E count \in 0..MaxReports, sourced, ok \in BOOLEAN :
       /\ Reports(count, sourced, ok)
       /\ GoesOn(AfterPreprocessing, ok /\ NothingNew)
  /\ tokens' = "list"
  /\ UNCHANGED <<left, failed>>

AcceptedAlways == TRUE

\* parser_finish: nothing was reported, by this input or another.
Accepted == sink' = <<>>

\* parser_create takes the tokens and drops those that end lines. What is left of
\* the list is kept in a smaller block; if nothing is, the C library may have
\* given the block back for good.
Take ==
  \E count \in 0..MaxDeclarations, owner \in {"parser", "dangling"} :
    /\ owner = "dangling" => count = 0
    /\ left' = count /\ failed' = FALSE
    /\ tokens' = owner

Create ==
  /\ phase = "create"
  /\ Take
  /\ phase' = "declarations"
  /\ UNCHANGED <<command, current, good, before, alive, sink, volume, status, history>>

\* compile_declarations takes up a declaration. It is rejected, and the next one
\* is taken; or the parser cannot go on; or it is parsed, lowered and encoded, or
\* one of these fails.
Declaration ==
  /\ phase = "declarations" /\ good /\ ~failed
  /\ left > 0 /\ left' = left - 1
  /\ \E count \in 0..MaxReports, ok \in BOOLEAN :
       /\ Emit(count, TRUE)
       /\ history' = Recorded(count, ok)
       /\ \/ ~ok /\ count > 0 /\ UNCHANGED <<good, failed>>
          \/ ~ok /\ failed' = TRUE /\ UNCHANGED good
          \/ (ok => count = 0) /\ good' = ok /\ UNCHANGED failed
  /\ UNCHANGED <<phase, command, current, before, tokens, alive, volume, status>>

\* The parser is done, and gives the tokens back: twice, if they are gone.
FinishParsing ==
  /\ phase = "declarations"
  /\ ~good \/ failed \/ left = 0
  /\ UNCHANGED sink
  /\ \/ /\ LET success == good /\ ~failed /\ Accepted IN
           Goes(IF success THEN "encode" ELSE "leave", success)
        /\ UNCHANGED status
     \/ tokens = "dangling" /\ End(Aborted) /\ UNCHANGED good
  /\ tokens' = IF tokens = "dangling" THEN "twice" ELSE "none"
  /\ UNCHANGED <<command, current, before, left, failed, alive, volume, history>>

\* parse_tokens, for --dump-ast, does all of this at once.
Parse ==
  /\ phase = "parse"
  /\ \E count \in 0..MaxReports, ok \in BOOLEAN :
       /\ Reports(count, TRUE, ok)
       /\ GoesOn("publish", ok /\ Accepted /\ NothingNew)
  /\ Take

\* ir_encoder_finish.
Encode ==
  /\ phase = "encode"
  /\ \E count \in 0..MaxReports, ok \in BOOLEAN :
       /\ Reports(count, TRUE, ok)
       /\ GoesOn("write", ok /\ count = 0)
  /\ UNCHANGED parser

\* object_write_cc64o, which reports what it cannot write.
Write ==
  /\ phase = "write"
  /\ \/ /\ Put(Output)
        /\ Goes("leave", TRUE)
        /\ UNCHANGED <<sink, history>>
     \/ /\ Emit(1, FALSE)
        /\ history' = Recorded(1, FALSE)
        /\ Goes("leave", FALSE)
        /\ Spoil(Output)
  /\ UNCHANGED <<command, current, before, parser, alive, status>>

\* The tokens or the tree go to the standard output, and so do preprocessed
\* tokens unless -o names a file.
Publish ==
  /\ phase = "publish"
  /\ \E ok \in BOOLEAN :
       /\ IF ~(options.action = "preprocess" /\ options.outputSet
                 /\ options.output # File("-", ""))
          THEN UNCHANGED volume
          ELSE IF ok THEN Put(Output) ELSE Spoil(Output)
       /\ history' = Recorded(0, ok)
       /\ Goes("leave", ok)
  /\ UNCHANGED <<command, current, before, parser, alive, sink, status>>

\* The end of compile_one: everything the sink holds is printed, and the arena
\* of the input goes.
Verdict == good /\ Len(sink) = before

Leave ==
  /\ phase = "leave"
  /\ history' = Printed(sink, history)
  /\ tokens' = "none"
  /\ alive' = alive \ {current}
  /\ Goes("next", Verdict)
  /\ UNCHANGED <<command, current, before, left, failed, sink, volume, status>>

WorseOfLast == IF good THEN 0 ELSE 1

Worse == IF good THEN status ELSE 1

SameAgain == current

Following == current + 1

\* cc64_main goes on to the next input, whatever became of this one.
NextInput ==
  /\ phase = "next"
  /\ IF current < Len(options.inputs)
     THEN Begin(Following) /\ status' = Worse
     ELSE End(Worse) /\ UNCHANGED current
  /\ history' = IF good THEN history ELSE [history EXCEPT !.refused = @ \cup {current}]
  /\ UNCHANGED <<command, good, before, parser, alive, sink, volume>>

-----------------------------------------------------------------------------
DriverInit ==
  /\ phase = "expand"
  /\ \E words \in CommandLines : reading = <<words>>
  /\ items = <<>> /\ position = 0
  /\ options = Defaults
  /\ sink = <<>> /\ before = 0
  /\ current = 0 /\ good = TRUE
  /\ left = 0 /\ failed = FALSE /\ tokens = "none"
  /\ alive = {}
  /\ volume = [name \in {} |-> 0]
  /\ status = 0
  /\ history = [troubled |-> {}, refused |-> {}, dangling |-> FALSE]

DriverNext ==
  \/ Expand \/ EndOfFile
  \/ Option \/ Choose
  \/ Link
  \/ Load \/ Preprocess \/ Parse \/ Create \/ Declaration \/ FinishParsing
  \/ Encode \/ Write \/ Publish \/ Leave \/ NextInput

\* The program runs as long as it can: nothing it waits for is outside of it.
DriverSpec == DriverInit /\ [][DriverNext]_driverVars /\ WF_driverVars(DriverNext)

-----------------------------------------------------------------------------
Inputs == 1..Len(options.inputs)

\* A build that trusts the exit status never takes a failure for a success, also
\* when the sink is full and counts no more: nothing was reported and no step
\* failed, and every object the command asks for is there.
StatusTruthful ==
  phase = "done" /\ status = 0 =>
    /\ history.troubled = {}
    /\ NeedsInput /\ options.action = "compile" =>
         IF Several THEN \A n \in Inputs : Derived(options.inputs[n]) \in DOMAIN volume
         ELSE options.output \in DOMAIN volume

\* "A failed compilation never reaches this function" (src/common/util.c:88): a
\* file is written only of an input that has reported nothing and failed in
\* nothing, and nothing goes wrong with it afterwards.
OnlyCleanOutputs ==
  \A name \in DOMAIN volume : volume[name] \notin history.troubled

\* Every command ends: response files that name each other do not go on for ever.
Ends == <>(phase = "done")

\* "the return value reports only what this input produced" (src/driver/main.c:486):
\* an input that is refused reported something, or a step failed on it.
RefusedForItself == phase = "done" => history.refused \subseteq history.troubled

\* "Every action other than linking produces one file per input"
\* (src/driver/main.c:689).
OneFilePerInput ==
  phase = "done" /\ status = 0 /\ Several /\ options.action \in {"compile", "preprocess"}
    => \A n \in Inputs : \E name \in DOMAIN volume : volume[name] = n

\* A diagnostic that is printed has a source that still exists.
SourcesAlive == ~history.dangling

\* The tokens are given back once.
TokensFreedOnce == tokens # "twice"
=============================================================================
