--------------------------- MODULE TargetConsole ---------------------------
(***************************************************************************)
(* Console input on the target: cc64_console_input_ready and               *)
(* cc64_console_take of src/runtime/target_file.c, and the calls that ask  *)
(* them, poll and nanosleep (target_term.c), read (target_file.c) and      *)
(* fread on a console stream (target_stdio.c).                             *)
(*                                                                         *)
(* The console has two sources, the keyboard and the line. Characters      *)
(* arrive on either at any time, also between two services of one call. A  *)
(* character is <<source, n>>, the n-th that arrived there.                *)
(***************************************************************************)
EXTENDS Integers, Sequences

CONSTANTS
  Arrivals,  \* how many characters arrive on each source at most
  ReadSizes, \* the sizes asked of read and fread
  Handles,   \* the handles polled; 0..2 are the console
  PollSizes  \* how many handles one poll asks about

ASSUME ConsoleAssumption ==
  /\ Arrivals \in Nat
  /\ ReadSizes \subseteq Nat \ {0}
  /\ Handles \subseteq Int
  /\ PollSizes \subseteq Nat

Sources == {"key", "line"}
Character == Sources \X (1..Arrivals)

VARIABLES
  arrived,  \* how many characters have arrived, by source
  keyboard, \* the keyboard's queue
  line,     \* the line's queue
  held,     \* line_held, as a sequence that is empty unless line_has_held
  call,     \* the call that runs, and what it has still to do
  received, \* every character handed to the program, in order
  eof,      \* CC64_STREAM_EOF of stdin
  promised  \* history: the character poll last answered for, until a read

consoleVars == <<arrived, keyboard, line, held, call, received, eof, promised>>

None == <<"none", 0>>
Idle == [name |-> "none"]

Console(handle) == handle \in 0..2

\* A character typed, or sent over the line.
Arrive(source) ==
  LET character == <<source, arrived[source] + 1>> IN
  /\ arrived[source] < Arrivals
  /\ arrived' = [arrived EXCEPT ![source] = @ + 1]
  /\ IF source = "key"
     THEN keyboard' = Append(keyboard, character) /\ UNCHANGED line
     ELSE line' = Append(line, character) /\ UNCHANGED keyboard
  /\ UNCHANGED <<held, call, received, eof, promised>>

-----------------------------------------------------------------------------
(* The status check *)

\* The calls that ask whether input is waiting say where they resume.
Asking(step) == call.name \in {"poll", "nap"} /\ call.step = step

\* A check found a character, or None. It is the answer for an entry of poll,
\* and ends the wait of nanosleep.
Answered(character) ==
  \/ /\ call.name = "poll"
     /\ call' = [call EXCEPT !.step = "next",
                   !.seen = Append(@, IF character # None THEN "in" ELSE "none")]
     /\ promised' = IF character # None THEN character ELSE promised
  \/ /\ call.name = "nap"
     /\ call' = IF character # None THEN Idle ELSE [call EXCEPT !.step = "time"]
     /\ UNCHANGED promised

\* The status check looks at the keyboard alone.
HeldForgotten == FALSE

\* The held character is looked at before the keyboard is asked.
HeldFirst == held # <<>>

\* cc64_console_input_ready up to its first service, cc64_console_ready.
AskHeldAndKeyboard ==
  /\ Asking("ready")
  /\ \/ HeldFirst /\ Answered(Head(held))
     \/ ~HeldFirst /\ keyboard # <<>> /\ Answered(Head(keyboard))
     \/ /\ ~HeldFirst /\ keyboard = <<>>
        /\ call' = [call EXCEPT !.step = "line"]
        /\ UNCHANGED promised
  /\ UNCHANGED <<arrived, keyboard, line, held, received, eof>>

\* cc64_console_line: the character, or None for the -1 of an empty line.
LineService ==
  IF line = <<>> THEN [taken |-> None, left |-> <<>>]
                 ELSE [taken |-> Head(line), left |-> Tail(line)]

\* The answer of the service is believed whatever it is.
NeverNotTaken(character) == FALSE

\* taken < 0
NotTaken(character) == character = None

\* What was taken to find out is forgotten.
HoldNothing(character) == UNCHANGED held

\* What was taken to find out is kept for the read.
Hold(character) == held' = <<character>>

\* The second service of the check, which takes the character.
AskLine ==
  LET service == LineService IN
  /\ Asking("line")
  /\ line' = service.left
  /\ \/ NotTaken(service.taken) /\ Answered(None) /\ UNCHANGED held
     \/ ~NotTaken(service.taken) /\ Answered(service.taken) /\ Hold(service.taken)
  /\ UNCHANGED <<arrived, keyboard, received, eof>>

-----------------------------------------------------------------------------
(* poll *)

Poll ==
  /\ call = Idle
  /\ \E count \in PollSizes : \E asked \in [1..count -> [fd : Handles, in : BOOLEAN]] :
       call' = [name |-> "poll", step |-> "next", asked |-> asked,
                seen |-> <<>>]
  /\ UNCHANGED <<arrived, keyboard, line, held, received, eof, promised>>

PollEntry == call.asked[Len(call.seen) + 1]

\* The next entry: a negative handle, a console asked for input, or another.
PollNext ==
  /\ call.name = "poll" /\ call.step = "next"
  /\ Len(call.seen) < Len(call.asked)
  /\ \/ /\ PollEntry.fd < 0
        /\ call' = [call EXCEPT !.seen = Append(@, "invalid")]
     \/ /\ Console(PollEntry.fd) /\ PollEntry.in
        /\ call' = [call EXCEPT !.step = "ready"]
     \/ /\ Console(PollEntry.fd) /\ ~PollEntry.in
        /\ call' = [call EXCEPT !.seen = Append(@, "out")]
     \/ /\ PollEntry.fd > 2
        /\ call' = [call EXCEPT !.seen = Append(@, "none")]
  /\ UNCHANGED <<arrived, keyboard, line, held, received, eof, promised>>

\* poll returns, without having waited whatever its timeout was.
PollReturn ==
  /\ call.name = "poll" /\ call.step = "next"
  /\ Len(call.seen) = Len(call.asked)
  /\ call' = Idle
  /\ UNCHANGED <<arrived, keyboard, line, held, received, eof, promised>>

-----------------------------------------------------------------------------
(* nanosleep *)

Nap ==
  /\ call = Idle
  /\ call' = [name |-> "nap", step |-> "ready"]
  /\ UNCHANGED <<arrived, keyboard, line, held, received, eof, promised>>

\* The clock has moved far enough, or has not and the console is asked again;
\* TargetClock says which.
NapTime ==
  /\ call.name = "nap" /\ call.step = "time"
  /\ call' \in {Idle, [call EXCEPT !.step = "ready"]}
  /\ UNCHANGED <<arrived, keyboard, line, held, received, eof, promised>>

-----------------------------------------------------------------------------
(* read and fread *)

\* The service reads the keyboard alone: some of what waits there, at most size.
Moved(size) == IF keyboard = <<>> THEN {0} ELSE 1..(IF size < Len(keyboard)
                                                   THEN size ELSE Len(keyboard))

FromKeyboard(count) ==
  /\ received' = received \o SubSeq(keyboard, 1, count)
  /\ keyboard' = SubSeq(keyboard, count + 1, Len(keyboard))

\* read on a console handle, up to the answer of cc64_read.
Read ==
  /\ call = Idle
  /\ \E size \in ReadSizes : \E count \in Moved(size) :
       /\ FromKeyboard(count)
       /\ IF count = 0
          THEN call' = [name |-> "read"] /\ UNCHANGED promised
          ELSE call' = Idle /\ promised' = None
  /\ UNCHANGED <<arrived, line, held, eof>>

\* What the call takes is handed to the program; it returns 0 for nothing.
Delivered(character) ==
  received' = IF character = None THEN received ELSE Append(received, character)

\* The line is asked for a character whatever is held.
TakeLineOnly ==
  Delivered(LineService.taken) /\ line' = LineService.left /\ UNCHANGED held

\* cc64_console_take: the held character, or one of the line.
Take ==
  IF held # <<>>
  THEN Delivered(Head(held)) /\ held' = <<>> /\ UNCHANGED line
  ELSE Delivered(LineService.taken) /\ line' = LineService.left /\ UNCHANGED held

\* An empty keyboard is not an empty console. A read that finds nothing on
\* either returns 0.
ReadLine ==
  /\ call.name = "read"
  /\ Take
  /\ call' = Idle
  /\ promised' = None
  /\ UNCHANGED <<arrived, keyboard, eof>>

\* fread on stdin: the service again and again until it has what it wants or
\* the service moves nothing, which is the end of file.
ReadStream ==
  /\ call = Idle
  /\ \E size \in ReadSizes :
       call' = [name |-> "fread", left |-> size]
  /\ UNCHANGED <<arrived, keyboard, line, held, received, eof, promised>>

ReadStreamMore ==
  /\ call.name = "fread"
  /\ \E count \in Moved(call.left) :
       /\ FromKeyboard(count)
       /\ eof' = (eof \/ count = 0)
       /\ call' = IF count \in {0, call.left} THEN Idle
                  ELSE [call EXCEPT !.left = @ - count]
  /\ promised' = None
  /\ UNCHANGED <<arrived, line, held>>

Init ==
  /\ arrived = [source \in Sources |-> 0]
  /\ keyboard = <<>> /\ line = <<>> /\ held = <<>>
  /\ call = Idle
  /\ received = <<>>
  /\ eof = FALSE
  /\ promised = None

Program ==
  \/ Poll \/ PollNext \/ AskHeldAndKeyboard \/ AskLine \/ PollReturn
  \/ Nap \/ NapTime
  \/ Read \/ ReadLine
  \/ ReadStream \/ ReadStreamMore

Next == Program \/ \E source \in Sources : Arrive(source)

Spec == Init /\ [][Next]_consoleVars

\* A program goes on with the call it is in, sleeps for no more than some time,
\* and reads the console again and again. Nobody has to type.
FairSpec ==
  /\ Spec
  /\ WF_consoleVars(Program)
  /\ SF_consoleVars(NapTime /\ call' = Idle)
  /\ SF_consoleVars(Read)

-----------------------------------------------------------------------------
Entries == [fd : Handles, in : BOOLEAN]
Words == {"in", "out", "none", "invalid"}
Reads == [name : {"fread"}, left : Nat \ {0}]
Naps == [name : {"nap"}, step : {"ready", "line", "time"}]
Polls == [name : {"poll"}, step : {"next", "ready", "line"},
          asked : Seq(Entries), seen : Seq(Words)]

CallType ==
  \/ call \in {Idle, [name |-> "read"]} \cup Reads \cup Naps
  \/ /\ call \in Polls
     /\ Len(call.seen) + (IF call.step = "next" THEN 0 ELSE 1) <= Len(call.asked)

TypeOK ==
  /\ arrived \in [Sources -> 0..Arrivals]
  /\ keyboard \in Seq(Character) /\ line \in Seq(Character)
  /\ held \in Seq(Character) /\ Len(held) <= 1
  /\ received \in Seq(Character)
  /\ eof \in BOOLEAN
  /\ promised \in Character \cup {None}
  /\ CallType

\* What of a source the program has still to be given, in its order.
Waiting(source) == IF source = "key" THEN keyboard ELSE held \o line

\* The program has been given the first count characters of a source and no
\* other, each once, and in the order in which they arrived.
Given(source, count) ==
  /\ \A n \in 1..count : \E i \in 1..Len(received) : received[i] = <<source, n>>
  /\ \A i \in 1..Len(received) : received[i][1] = source => received[i][2] <= count
  /\ \A i, j \in 1..Len(received) :
       i < j /\ received[i][1] = source /\ received[j][1] = source
         => received[i][2] < received[j][2]

\* No character is lost, doubled or overtaken by a later one of its source: not
\* by a status check, which has to take a character of the line to see it, and
\* not by a read that finds one held.
NoneLost ==
  \A source \in Sources : \E count \in 0..arrived[source] :
    /\ Given(source, count)
    /\ count + Len(Waiting(source)) = arrived[source]
    /\ \A n \in 1..Len(Waiting(source)) : Waiting(source)[n] = <<source, count + n>>

\* Between a poll that found a character and the next read, somewhere
\* a read looks has a character: the two "cannot disagree about whether input
\* is waiting" (docs/provenance-ledger.md:178).
PromiseKept == promised # None => keyboard # <<>> \/ held # <<>>

\* A read that has found the keyboard empty, between a promise and its answer,
\* finds a held character: what PromiseKept lacks to be kept by the next step.
ConsoleInv ==
  /\ TypeOK
  /\ PromiseKept
  /\ call.name = "read" /\ promised # None => held # <<>>

\* The line is asked only when nothing is held, so that what it gives up is never
\* put in the place of a character: what NoneLost lacks to be kept.
LosslessInv ==
  /\ ConsoleInv
  /\ NoneLost
  /\ Asking("line") => held = <<>>

\* No read that follows a poll that found something returns nothing, whatever
\* naps and further polls come in between.
ReadHonoursCheck ==
  [][call.name = "read" /\ call' = Idle /\ promised # None
       => Len(received') > Len(received)]_consoleVars

\* Everything typed is read, however the reads and the status checks fall.
EverythingRead ==
  \A source \in Sources : \A n \in 1..Arrivals :
    arrived[source] >= n ~> \E i \in 1..Len(received) : received[i] = <<source, n>>

\* "A program that polls and then reads gets the character the poll reported
\* rather than the next one" (src/runtime/target_file.c:144).
ReadGetsReported ==
  [][promised # None /\ promised' = None /\ Len(received') > Len(received)
       => received'[Len(received) + 1] = promised]_consoleVars

\* "A program's console input is the keyboard and the line together"
\* (tests/target_console.c:1): a stream that reaches its end has no input left.
EndIsEmpty ==
  [][~eof /\ eof' => keyboard = <<>> /\ line = <<>> /\ held = <<>>]_consoleVars
=============================================================================
