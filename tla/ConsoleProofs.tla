--------------------------- MODULE ConsoleProofs ---------------------------
(***************************************************************************)
(* However many characters arrive, and however polls, sleeps and reads     *)
(* follow each other, a read that comes after a successful poll returns    *)
(* something. ConsoleInv (TargetConsole.tla) is the inductive invariant.   *)
(***************************************************************************)
EXTENDS TargetConsole, SequenceTheorems, TLAPS

\* A call is what its name says.
LEMMA CallNames ==
  ASSUME CallType
  PROVE  /\ call.name \in {"none", "read", "fread", "nap", "poll"}
         /\ call.name = "none" => call = Idle
         /\ call.name = "read" => call = [name |-> "read"]
         /\ call.name = "fread" => call \in Reads
         /\ call.name = "nap" => call \in Naps
         /\ call.name = "poll" =>
              /\ call \in Polls
              /\ Len(call.seen) + (IF call.step = "next" THEN 0 ELSE 1) <= Len(call.asked)
<1>1. Idle.name = "none" /\ [name |-> "read"].name = "read"
  BY DEF Idle
<1>2. /\ \A c \in Reads : c.name = "fread"
      /\ \A c \in Naps : c.name = "nap"
      /\ \A c \in Polls : c.name = "poll"
  BY DEF Reads, Naps, Polls
<1> QED
  BY <1>1, <1>2 DEF CallType

\* What an answer to a poll or a sleep leaves: a call of its type, that is not a
\* read, and a promise only for a character.
LEMMA AnsweredType ==
  ASSUME TypeOK, NEW step \in {"ready", "line"}, Asking(step),
         NEW character \in Character \cup {None}, Answered(character)
  PROVE  /\ CallType' /\ call'.name # "read"
         /\ promised' \in Character \cup {None}
         /\ promised' = promised \/ (promised' = character /\ character # None)
<1>1. promised \in Character \cup {None} /\ CallType
  BY DEF TypeOK
<1>2. CASE call.name = "nap"
  <2>1. call \in Naps
    BY <1>1, <1>2, CallNames
  <2>2. /\ call' = Idle \/ call' = [call EXCEPT !.step = "time"]
        /\ promised' = promised
    BY <1>2 DEF Answered
  <2>3. [call EXCEPT !.step = "time"] \in Naps /\ [call EXCEPT !.step = "time"].name = "nap"
    BY <2>1 DEF Naps
  <2>4. Idle.name = "none"
    BY DEF Idle
  <2> QED
    BY <1>1, <2>2, <2>3, <2>4 DEF CallType
<1>3. CASE call.name = "poll"
  <2> DEFINE word == IF character # None THEN "in" ELSE "none"
  <2>1. call \in Polls /\ call.step = step /\ Len(call.seen) + 1 <= Len(call.asked)
    BY <1>1, <1>3, CallNames DEF Asking
  <2>2. call' = [call EXCEPT !.step = "next", !.seen = Append(call.seen, word)]
    BY <1>3 DEF Answered
  <2>3. /\ call.seen \in Seq(Words) /\ call.asked \in Seq(Entries)
        /\ word \in Words
    BY <2>1 DEF Polls, Words
  <2> HIDE DEF word
  <2>4. /\ Append(call.seen, word) \in Seq(Words)
        /\ Len(Append(call.seen, word)) = Len(call.seen) + 1
    BY <2>3
  <2>5. /\ call' \in Polls /\ call'.name = "poll"
        /\ call'.step = "next" /\ call'.asked = call.asked
        /\ call'.seen = Append(call.seen, word)
    BY <2>1, <2>2, <2>4 DEF Polls
  <2>6. CallType'
    BY <2>1, <2>4, <2>5 DEF CallType
  <2>7. promised' = IF character # None THEN character ELSE promised
    BY <1>3 DEF Answered
  <2> QED
    BY <1>1, <2>5, <2>6, <2>7
<1> QED
  BY <1>2, <1>3 DEF Asking

LEMMA InitInv == Init => ConsoleInv
<1> SUFFICES ASSUME Init PROVE ConsoleInv
  OBVIOUS
<1>1. CallType
  BY DEF Init, CallType
<1>2. <<>> \in Seq(Character) /\ Len(<<>>) = 0
  OBVIOUS
<1>3. arrived \in [Sources -> 0..Arrivals]
  BY ConsoleAssumption DEF Init
<1>4. /\ keyboard \in Seq(Character) /\ line \in Seq(Character)
      /\ held \in Seq(Character) /\ Len(held) <= 1
      /\ received \in Seq(Character)
  BY <1>2 DEF Init
<1>5. TypeOK
  BY <1>1, <1>3, <1>4 DEF Init, TypeOK
<1> QED
  BY <1>5 DEF Init, ConsoleInv, PromiseKept, Idle

\* A character that arrives takes nothing away.
LEMMA ArriveInv ==
  ASSUME ConsoleInv, NEW source \in Sources, Arrive(source)
  PROVE  ConsoleInv'
<1> DEFINE character == <<source, arrived[source] + 1>>
<1>1. character \in Character /\ arrived' \in [Sources -> 0..Arrivals]
  BY ConsoleAssumption DEF ConsoleInv, TypeOK, Arrive, Character
<1>2. CASE source = "key"
  <2>1. keyboard' = Append(keyboard, character) /\ UNCHANGED line
    BY <1>2 DEF Arrive
  <2>2. keyboard' \in Seq(Character) /\ keyboard' # <<>>
    BY <1>1, <2>1 DEF ConsoleInv, TypeOK
  <2> QED
    BY <1>1, <2>1, <2>2 DEF ConsoleInv, TypeOK, CallType, PromiseKept, Arrive
<1>3. CASE source = "line"
  <2>1. line' = Append(line, character) /\ UNCHANGED keyboard
    BY <1>3 DEF Arrive
  <2>2. line' \in Seq(Character)
    BY <1>1, <2>1 DEF ConsoleInv, TypeOK
  <2> QED
    BY <1>1, <2>1, <2>2 DEF ConsoleInv, TypeOK, CallType, PromiseKept, Arrive
<1> QED
  BY <1>2, <1>3 DEF Sources

\* The first service of a check: what it answers for waits where a read looks.
LEMMA AskHeldAndKeyboardInv ==
  ASSUME ConsoleInv, AskHeldAndKeyboard
  PROVE  ConsoleInv'
<1>1. /\ TypeOK /\ CallType /\ PromiseKept /\ Asking("ready")
      /\ UNCHANGED <<arrived, keyboard, line, held, received, eof>>
  BY DEF ConsoleInv, TypeOK, AskHeldAndKeyboard
<1>2. CASE held = <<>> /\ keyboard = <<>>
  <2>1. call' = [call EXCEPT !.step = "line"] /\ promised' = promised
    BY <1>2 DEF AskHeldAndKeyboard, HeldFirst
  <2>2. CallType' /\ call'.name # "read"
    <3>1. CASE call.name = "nap"
      <4>1. call \in Naps
        BY <1>1, <3>1, CallNames
      <4>2. call' \in Naps /\ call'.name = "nap"
        BY <2>1, <4>1 DEF Naps
      <4> QED
        BY <4>2 DEF CallType
    <3>2. CASE call.name = "poll"
      <4>1. call \in Polls /\ Len(call.seen) + 1 <= Len(call.asked)
        BY <1>1, <3>2, CallNames DEF Asking
      <4>2. /\ call' \in Polls /\ call'.name = "poll" /\ call'.step = "line"
            /\ call'.seen = call.seen /\ call'.asked = call.asked
        BY <2>1, <4>1 DEF Polls
      <4> QED
        BY <4>1, <4>2 DEF CallType
    <3> QED
      BY <1>1, <3>1, <3>2 DEF Asking
  <2> QED
    BY <1>1, <2>1, <2>2 DEF ConsoleInv, TypeOK, PromiseKept
<1>3. CASE ~(held = <<>> /\ keyboard = <<>>)
  <2>1. PICK character \in Character \cup {None} : Answered(character)
    <3>1. CASE held # <<>>
      BY <1>1, <3>1 DEF AskHeldAndKeyboard, HeldFirst, TypeOK
    <3>2. CASE held = <<>>
      BY <1>1, <1>3, <3>2 DEF AskHeldAndKeyboard, HeldFirst, TypeOK
    <3> QED
      BY <3>1, <3>2
  <2>2. CallType' /\ call'.name # "read" /\ promised' \in Character \cup {None}
    BY <1>1, <2>1, AnsweredType
  <2> QED
    BY <1>1, <1>3, <2>2 DEF ConsoleInv, TypeOK, PromiseKept
<1> QED
  BY <1>2, <1>3

\* The second service: what it takes to answer for is held.
LEMMA AskLineInv ==
  ASSUME ConsoleInv, AskLine
  PROVE  ConsoleInv'
<1>1. /\ TypeOK /\ CallType /\ PromiseKept /\ Asking("line")
      /\ UNCHANGED <<arrived, keyboard, received, eof>>
  BY DEF ConsoleInv, TypeOK, AskLine
<1>2. CASE line = <<>>
  <2>1. line' = line /\ Answered(None) /\ UNCHANGED held
    BY <1>2 DEF AskLine, LineService, NotTaken, None, Character
  <2>2. CallType' /\ call'.name # "read" /\ promised' = promised
    BY <1>1, <2>1, AnsweredType
  <2> QED
    BY <1>1, <2>1, <2>2 DEF ConsoleInv, TypeOK, PromiseKept
<1>3. CASE line # <<>>
  <2>1. Head(line) \in Character /\ Head(line) # None /\ Tail(line) \in Seq(Character)
    BY <1>1, <1>3 DEF TypeOK, Character, Sources, None
  <2>2. line' = Tail(line) /\ Answered(Head(line)) /\ held' = <<Head(line)>>
    BY <1>3, <2>1 DEF AskLine, LineService, NotTaken, Hold
  <2>3. /\ CallType' /\ call'.name # "read"
        /\ promised' \in Character \cup {None}
    BY <1>1, <2>1, <2>2, AnsweredType
  <2>4. held' \in Seq(Character) /\ Len(held') <= 1 /\ held' # <<>>
    BY <2>1, <2>2
  <2> QED
    BY <1>1, <2>1, <2>2, <2>3, <2>4 DEF ConsoleInv, TypeOK, PromiseKept
<1> QED
  BY <1>2, <1>3

\* The other steps of poll and nanosleep touch neither characters nor the promise.
LEMMA CallInv ==
  ASSUME ConsoleInv, CallType', call'.name # "read",
         UNCHANGED <<arrived, keyboard, line, held, received, eof, promised>>
  PROVE  ConsoleInv'
BY DEF ConsoleInv, TypeOK, PromiseKept

LEMMA PollInv ==
  ASSUME ConsoleInv, Poll \/ PollNext \/ PollReturn \/ Nap \/ NapTime
  PROVE  ConsoleInv'
<1>1. CallType
  BY DEF ConsoleInv, TypeOK
<1>2. Idle.name = "none"
  BY DEF Idle
<1>3. CASE Poll
  <2>0. PICK count \in PollSizes : \E asked \in [1..count -> Entries] :
          call' = [name |-> "poll", step |-> "next", asked |-> asked, seen |-> <<>>]
    BY <1>3 DEF Poll, Entries
  <2>1. PICK asked \in [1..count -> Entries] :
          call' = [name |-> "poll", step |-> "next", asked |-> asked, seen |-> <<>>]
    BY <2>0
  <2>2. asked \in Seq(Entries) /\ Len(asked) = count /\ count \in Nat
    BY <2>1, ConsoleAssumption, IsASeq
  <2>3. <<>> \in Seq(Words) /\ Len(<<>>) = 0
    OBVIOUS
  <2>4. call' \in Polls /\ call'.name = "poll" /\ call'.seen = <<>>
        /\ call'.asked = asked /\ call'.step = "next"
    BY <2>1, <2>2, <2>3 DEF Polls
  <2>5. CallType'
    BY <2>2, <2>3, <2>4 DEF CallType
  <2> QED
    BY <1>3, <2>4, <2>5, CallInv DEF Poll
<1>4. CASE PollNext
  <2>1. call \in Polls /\ call.step = "next" /\ Len(call.seen) < Len(call.asked)
    BY <1>1, <1>4, CallNames DEF PollNext
  <2>2. call.seen \in Seq(Words) /\ call.asked \in Seq(Entries)
    BY <2>1 DEF Polls
  <2>3. ASSUME NEW word \in Words, call' = [call EXCEPT !.seen = Append(call.seen, word)]
        PROVE  CallType' /\ call'.name = "poll"
    <3>1. /\ Append(call.seen, word) \in Seq(Words)
          /\ Len(Append(call.seen, word)) = Len(call.seen) + 1
          /\ Len(call.seen) \in Nat /\ Len(call.asked) \in Nat
      BY <2>2, <2>3
    <3>2. /\ call' \in Polls /\ call'.name = "poll" /\ call'.step = "next"
          /\ call'.seen = Append(call.seen, word) /\ call'.asked = call.asked
      BY <2>1, <2>3, <3>1 DEF Polls
    <3> QED
      BY <2>1, <3>1, <3>2 DEF CallType
  <2>4. ASSUME call' = [call EXCEPT !.step = "ready"]
        PROVE  CallType' /\ call'.name = "poll"
    <3>1. /\ call' \in Polls /\ call'.name = "poll" /\ call'.step = "ready"
          /\ call'.seen = call.seen /\ call'.asked = call.asked
      BY <2>1, <2>4 DEF Polls
    <3>2. Len(call.seen) + 1 <= Len(call.asked)
      BY <2>1, <2>2
    <3> QED
      BY <3>1, <3>2 DEF CallType
  <2>5. \/ call' = [call EXCEPT !.step = "ready"]
        \/ \E word \in Words : call' = [call EXCEPT !.seen = Append(call.seen, word)]
    BY <1>4 DEF PollNext, Words
  <2>6. CallType' /\ call'.name = "poll"
    BY <2>3, <2>4, <2>5
  <2> QED
    BY <1>4, <2>6, CallInv DEF PollNext
<1>5. CASE PollReturn
  BY <1>2, <1>5, CallInv DEF PollReturn, CallType
<1>6. CASE Nap
  <2>1. call' \in Naps /\ call'.name = "nap"
    BY <1>6 DEF Nap, Naps
  <2> QED
    BY <1>6, <2>1, CallInv DEF Nap, CallType
<1>7. CASE NapTime
  <2>1. call \in Naps
    BY <1>1, <1>7, CallNames DEF NapTime
  <2>2. call' = Idle \/ (call' \in Naps /\ call'.name = "nap")
    BY <1>7, <2>1 DEF NapTime, Naps
  <2> QED
    BY <1>2, <1>7, <2>2, CallInv DEF NapTime, CallType
<1> QED
  BY <1>3, <1>4, <1>5, <1>6, <1>7

\* What the keyboard gives up goes to the program, in its order.
LEMMA FromKeyboardType ==
  ASSUME TypeOK, NEW size \in Nat \ {0}, NEW count \in Moved(size), FromKeyboard(count)
  PROVE  /\ keyboard' \in Seq(Character) /\ received' \in Seq(Character)
         /\ count \in Nat /\ count <= size
         /\ count = 0 => keyboard = <<>> /\ keyboard' = <<>>
         /\ Len(received') = Len(received) + count
<1>1. keyboard \in Seq(Character) /\ received \in Seq(Character)
  BY DEF TypeOK
<1>2. /\ count \in 0..Len(keyboard) /\ count <= size
      /\ count = 0 => keyboard = <<>>
  BY <1>1, EmptySeq DEF Moved
<1>3. /\ SubSeq(keyboard, 1, count) \in Seq(Character)
      /\ Len(SubSeq(keyboard, 1, count)) = count
  BY <1>1, <1>2, SubSeqProperties
<1>4. SubSeq(keyboard, count + 1, Len(keyboard)) \in Seq(Character)
  BY <1>1, <1>2, SubSeqProperties
<1>5. count = 0 => SubSeq(keyboard, count + 1, Len(keyboard)) = <<>>
  BY <1>2, SubSeqProperties
<1>6. /\ received \o SubSeq(keyboard, 1, count) \in Seq(Character)
      /\ Len(received \o SubSeq(keyboard, 1, count)) = Len(received) + count
  BY <1>1, <1>3, ConcatProperties
<1> QED
  BY <1>2, <1>4, <1>5, <1>6 DEF FromKeyboard

LEMMA ReadInv ==
  ASSUME ConsoleInv, Read
  PROVE  ConsoleInv'
<1>1. TypeOK /\ PromiseKept
  BY DEF ConsoleInv
<1>2. UNCHANGED <<arrived, line, held, eof>>
  BY DEF Read
<1>3. PICK size \in ReadSizes : \E count \in Moved(size) :
        /\ FromKeyboard(count)
        /\ IF count = 0
           THEN call' = [name |-> "read"] /\ UNCHANGED promised
           ELSE call' = Idle /\ promised' = None
  BY DEF Read
<1>4. PICK count \in Moved(size) :
        /\ FromKeyboard(count)
        /\ IF count = 0
           THEN call' = [name |-> "read"] /\ UNCHANGED promised
           ELSE call' = Idle /\ promised' = None
  BY <1>3
<1>5. /\ keyboard' \in Seq(Character) /\ received' \in Seq(Character)
      /\ count = 0 => keyboard = <<>> /\ keyboard' = <<>>
  BY <1>1, <1>4, ConsoleAssumption, FromKeyboardType
<1>6. CASE count = 0
  <2>1. CallType' /\ promised' = promised
    BY <1>4, <1>6 DEF CallType
  <2>2. promised # None => held # <<>>
    BY <1>1, <1>5, <1>6 DEF PromiseKept
  <2> QED
    BY <1>1, <1>2, <1>5, <2>1, <2>2 DEF ConsoleInv, TypeOK, PromiseKept
<1>7. CASE count # 0
  <2>1. CallType' /\ promised' = None
    BY <1>4, <1>7 DEF CallType
  <2> QED
    BY <1>1, <1>2, <1>5, <2>1 DEF ConsoleInv, TypeOK, PromiseKept
<1> QED
  BY <1>6, <1>7

\* What cc64_console_take leaves, and that it gives what is held.
LEMMA TakeType ==
  ASSUME TypeOK, Take
  PROVE  /\ line' \in Seq(Character) /\ held' \in Seq(Character) /\ Len(held') <= 1
         /\ received' \in Seq(Character)
         /\ held # <<>> => Len(received') > Len(received)
<1>1. /\ line \in Seq(Character) /\ held \in Seq(Character) /\ Len(held) <= 1
      /\ received \in Seq(Character)
  BY DEF TypeOK
<1>2. \A c \in Character : c # None
  BY DEF Character, Sources, None
<1>3. \A c \in Character : /\ Append(received, c) \in Seq(Character)
                          /\ Len(Append(received, c)) = Len(received) + 1
  BY <1>1
<1>4. Len(received) \in Nat
  BY <1>1
<1>5. CASE held # <<>>
  <2>1. Head(held) \in Character
    BY <1>1, <1>5
  <2>2. Delivered(Head(held)) /\ held' = <<>> /\ UNCHANGED line
    BY <1>5 DEF Take
  <2>3. received' = Append(received, Head(held))
    BY <1>2, <2>1, <2>2 DEF Delivered
  <2>4. held' \in Seq(Character) /\ Len(held') = 0
    BY <2>2
  <2> QED
    BY <1>1, <1>3, <1>4, <2>1, <2>2, <2>3, <2>4
<1>6. CASE held = <<>> /\ line = <<>>
  BY <1>1, <1>6 DEF Take, LineService, Delivered
<1>7. CASE held = <<>> /\ line # <<>>
  <2>1. Head(line) \in Character /\ Tail(line) \in Seq(Character)
    BY <1>1, <1>7
  <2>2. received' = Append(received, Head(line)) /\ line' = Tail(line) /\ UNCHANGED held
    BY <1>2, <1>7, <2>1 DEF Take, LineService, Delivered
  <2> QED
    BY <1>1, <1>3, <1>7, <2>1, <2>2
<1> QED
  BY <1>5, <1>6, <1>7

LEMMA ReadLineInv ==
  ASSUME ConsoleInv, ReadLine
  PROVE  ConsoleInv'
<1>1. TypeOK /\ Take /\ call' = Idle /\ promised' = None
      /\ UNCHANGED <<arrived, keyboard, eof>>
  BY DEF ConsoleInv, ReadLine
<1>2. CallType' /\ call'.name # "read"
  BY <1>1 DEF CallType, Idle
<1> QED
  BY <1>1, <1>2, TakeType DEF ConsoleInv, TypeOK, PromiseKept

LEMMA ReadStreamInv ==
  ASSUME ConsoleInv, ReadStream
  PROVE  ConsoleInv'
<1>1. PICK size \in ReadSizes : call' = [name |-> "fread", left |-> size]
  BY DEF ReadStream
<1>2. call' \in Reads /\ call'.name = "fread"
  BY <1>1, ConsoleAssumption DEF Reads
<1> QED
  BY <1>2, CallInv DEF ReadStream, CallType

LEMMA ReadStreamMoreInv ==
  ASSUME ConsoleInv, ReadStreamMore
  PROVE  ConsoleInv'
<1>1. /\ TypeOK /\ CallType /\ call.name = "fread" /\ promised' = None
      /\ UNCHANGED <<arrived, line, held>>
  BY DEF ConsoleInv, TypeOK, ReadStreamMore
<1>2. call \in Reads /\ call.left \in Nat \ {0}
  BY <1>1, CallNames DEF Reads
<1>3. PICK count \in Moved(call.left) :
        /\ FromKeyboard(count)
        /\ eof' = (eof \/ count = 0)
        /\ call' = IF count \in {0, call.left} THEN Idle
                   ELSE [call EXCEPT !.left = @ - count]
  BY DEF ReadStreamMore
<1>4. /\ keyboard' \in Seq(Character) /\ received' \in Seq(Character)
      /\ count \in Nat /\ count <= call.left
  BY <1>1, <1>2, <1>3, FromKeyboardType
<1>5. CASE count \in {0, call.left}
  <2>1. CallType' /\ call'.name # "read"
    BY <1>3, <1>5 DEF CallType, Idle
  <2> QED
    BY <1>1, <1>3, <1>4, <2>1 DEF ConsoleInv, TypeOK, PromiseKept
<1>6. CASE count \notin {0, call.left}
  <2>1. call.left - count \in Nat \ {0}
    BY <1>2, <1>4, <1>6
  <2>2. call' \in Reads /\ call'.name = "fread"
    BY <1>2, <1>3, <1>6, <2>1 DEF Reads
  <2> QED
    BY <1>1, <1>3, <1>4, <2>2 DEF ConsoleInv, TypeOK, PromiseKept, CallType
<1> QED
  BY <1>5, <1>6

-----------------------------------------------------------------------------
\* ConsoleInv holds whatever arrives between any two services of the calls of
\* src/runtime/target_term.c and target_file.c.
THEOREM Inductive == Spec => []ConsoleInv
<1>1. ConsoleInv /\ [Next]_consoleVars => ConsoleInv'
  <2> SUFFICES ASSUME ConsoleInv, [Next]_consoleVars PROVE ConsoleInv'
    OBVIOUS
  <2>1. CASE Poll \/ PollNext \/ PollReturn \/ Nap \/ NapTime
    BY <2>1, PollInv
  <2>2. CASE AskHeldAndKeyboard
    BY <2>2, AskHeldAndKeyboardInv
  <2>3. CASE AskLine
    BY <2>3, AskLineInv
  <2>4. CASE Read
    BY <2>4, ReadInv
  <2>5. CASE ReadLine
    BY <2>5, ReadLineInv
  <2>6. CASE ReadStream
    BY <2>6, ReadStreamInv
  <2>7. CASE ReadStreamMore
    BY <2>7, ReadStreamMoreInv
  <2>8. CASE \E source \in Sources : Arrive(source)
    BY <2>8, ArriveInv
  <2>9. CASE UNCHANGED consoleVars
    BY <2>9 DEF consoleVars, ConsoleInv, TypeOK, CallType, PromiseKept
  <2> QED
    BY <2>1, <2>2, <2>3, <2>4, <2>5, <2>6, <2>7, <2>8, <2>9 DEF Next, Program
<1> QED
  BY <1>1, InitInv, PTL DEF Spec

\* The calls keep to the types of what they hold: at most one character is held.
THEOREM TypeCorrect == Spec => []TypeOK
<1>1. ConsoleInv => TypeOK
  BY DEF ConsoleInv
<1> QED
  BY <1>1, Inductive, PTL

\* What a poll has reported is where a read looks, until the next read.
THEOREM PromisesKept == Spec => []PromiseKept
<1>1. ConsoleInv => PromiseKept
  BY DEF ConsoleInv
<1> QED
  BY <1>1, Inductive, PTL

\* A read after a poll that found something returns something, also when its
\* first service found nothing (read, src/runtime/target_file.c).
THEOREM ChecksHonoured == Spec => ReadHonoursCheck
<1>1. ConsoleInv /\ [Next]_consoleVars
        => [call.name = "read" /\ call' = Idle /\ promised # None
              => Len(received') > Len(received)]_consoleVars
  <2> SUFFICES ASSUME ConsoleInv, Next, call.name = "read", call' = Idle, promised # None
               PROVE  Len(received') > Len(received)
    BY DEF consoleVars
  <2>1. TypeOK /\ held # <<>>
    BY DEF ConsoleInv
  <2>2. Idle.name = "none"
    BY DEF Idle
  <2>3. ReadLine
    BY <2>2 DEF Next, Program, Poll, PollNext, AskHeldAndKeyboard, AskLine, PollReturn,
                Nap, NapTime, Read, ReadStream, ReadStreamMore, Arrive, Asking
  <2> QED
    BY <2>1, <2>3, TakeType DEF ReadLine
<1> QED
  BY <1>1, Inductive, PTL DEF Spec, ReadHonoursCheck

-----------------------------------------------------------------------------
(* Nothing is lost *)

\* The next characters of a source, handed over in their order, are given; what
\* has been given of the other source stays as it is.
LEMMA MoreGiven ==
  ASSUME TypeOK, TypeOK', NEW source \in Sources, NEW count \in Nat, NEW more \in Nat,
         Given(source, count),
         Len(received') = Len(received) + more,
         \A i \in 1..Len(received) : received'[i] = received[i],
         \A n \in 1..more : received'[Len(received) + n] = <<source, count + n>>
  PROVE  /\ Given(source, count + more)'
         /\ \A other \in Sources \ {source} : \A c \in Nat :
              Given(other, c) => Given(other, c)'
<1> DEFINE L == Len(received)
<1>1. L \in Nat /\ \A i \in 1..L : received[i][2] \in Nat
  <2>1. received \in Seq(Character) /\ \A i \in 1..L : received[i] \in Character
    BY DEF TypeOK
  <2>2. \A c \in Character : c[2] \in Nat
    BY ConsoleAssumption DEF Character
  <2> QED
    BY <2>1, <2>2
<1>2. \A i \in 1..(L + more) : i \in 1..L \/ \E n \in 1..more : i = L + n
  <2> SUFFICES ASSUME NEW i \in 1..(L + more), i \notin 1..L
               PROVE  \E n \in 1..more : i = L + n
    OBVIOUS
  <2>1. i - L \in 1..more /\ i = L + (i - L)
    BY <1>1
  <2> QED
    BY <2>1
<1>3. \A n \in 1..more : L + n \in 1..(L + more)
  BY <1>1
<1>4. /\ 1..Len(received') = 1..(L + more)
      /\ \A i \in 1..L : received'[i] = received[i]
      /\ \A n \in 1..more : received'[L + n] = <<source, count + n>>
  OBVIOUS
<1> HIDE DEF L
<1>7. \A i \in 1..L : i \in 1..(L + more)
  BY <1>1
<1>5. Given(source, count + more)'
  <2>1. ASSUME NEW n \in 1..(count + more)
        PROVE  \E i \in 1..(L + more) : received'[i] = <<source, n>>
    <3>1. CASE n <= count
      <4>0. n \in 1..count
        BY <3>1
      <4>1. PICK i \in 1..L : received[i] = <<source, n>>
        BY ONLY <4>0, Given(source, count) DEF Given, L
      <4> QED
        BY <1>4, <1>7, <4>1
    <3>2. CASE n > count
      <4>1. n - count \in 1..more /\ n = count + (n - count)
        BY <3>2
      <4> QED
        BY <1>3, <1>4, <4>1
    <3> QED
      BY <3>1, <3>2
  <2>2. ASSUME NEW i \in 1..(L + more), received'[i][1] = source
        PROVE  received'[i][2] <= count + more
    <3>1. CASE i \in 1..L
      <4>1. received[i][2] <= count
        BY <1>4, <2>2, <3>1 DEF Given, L
      <4> QED
        BY <1>1, <1>4, <3>1, <4>1
    <3>2. CASE \E n \in 1..more : i = L + n
      BY <1>4, <3>2
    <3> QED
      BY <1>2, <3>1, <3>2
  <2>3. ASSUME NEW i \in 1..(L + more), NEW j \in 1..(L + more), i < j,
               received'[i][1] = source, received'[j][1] = source
        PROVE  received'[i][2] < received'[j][2]
    <3>1. CASE j \in 1..L
      <4>1. i \in 1..L
        BY <1>1, <2>3, <3>1
      <4> QED
        BY <1>4, <2>3, <3>1, <4>1 DEF Given, L
    <3>2. CASE \E n \in 1..more : j = L + n
      <4>1. PICK n \in 1..more : j = L + n
        BY <3>2
      <4>2. received'[j] = <<source, count + n>>
        BY <1>4, <4>1
      <4>3. CASE i \in 1..L
        <5>1. received[i][2] <= count /\ received[i][2] \in Nat
          BY <1>1, <1>4, <2>3, <4>3 DEF Given, L
        <5>2. received'[i][2] = received[i][2]
          BY <1>4, <4>3
        <5> QED
          BY <4>2, <5>1, <5>2
      <4>4. CASE \E k \in 1..more : i = L + k
        <5>1. PICK k \in 1..more : i = L + k
          BY <4>4
        <5>2. received'[i] = <<source, count + k>>
          BY <1>4, <5>1
        <5>4. k < n
          BY <1>1, <2>3, <4>1, <5>1
        <5>3. received'[i][2] = count + k /\ received'[j][2] = count + n
          BY <4>2, <5>2
        <5> QED
          BY <5>3, <5>4
      <4> QED
        BY <1>2, <4>3, <4>4
    <3> QED
      BY <1>2, <3>1, <3>2
  <2> QED
    BY <1>4, <2>1, <2>2, <2>3 DEF Given
<1>6. ASSUME NEW other \in Sources \ {source}, NEW c \in Nat, Given(other, c)
      PROVE  Given(other, c)'
  <2>0. \A n \in 1..more : received'[L + n][1] = source
    BY <1>4
  <2>1. \A i \in 1..(L + more) :
          received'[i][1] = other => i \in 1..L /\ received'[i] = received[i]
    BY <1>2, <1>4, <2>0
  <2>2. /\ \A n \in 1..c : \E i \in 1..L : received[i] = <<other, n>>
        /\ \A i \in 1..L : received[i][1] = other => received[i][2] <= c
        /\ \A i, j \in 1..L :
             i < j /\ received[i][1] = other /\ received[j][1] = other
               => received[i][2] < received[j][2]
    BY <1>6 DEF Given, L
  <2>3. \A n \in 1..c : \E i \in 1..(L + more) : received'[i] = <<other, n>>
    BY <1>4, <1>7, <2>2
  <2>4. \A i \in 1..(L + more) : received'[i][1] = other => received'[i][2] <= c
    BY <2>1, <2>2
  <2>5. \A i, j \in 1..(L + more) :
          i < j /\ received'[i][1] = other /\ received'[j][1] = other
            => received'[i][2] < received'[j][2]
    BY <2>1, <2>2
  <2> QED
    BY <1>4, <2>3, <2>4, <2>5 DEF Given
<1> QED
  BY <1>5, <1>6

\* A step that moves the front of what waits of one source to the program, or
\* nothing at all, loses nothing.
LEMMA HandedOver ==
  ASSUME TypeOK, TypeOK', NoneLost, UNCHANGED arrived,
         NEW source \in Sources, NEW front \in Seq(Character),
         Waiting(source) = front \o Waiting(source)',
         received' = received \o front,
         \A other \in Sources \ {source} : Waiting(other)' = Waiting(other)
  PROVE  NoneLost'
<1> DEFINE more == Len(front)
<1>1. /\ received \in Seq(Character) /\ more \in Nat
      /\ \A other \in Sources : arrived[other] \in Nat
  BY ConsoleAssumption DEF TypeOK
<1>2. \A other \in Sources : Waiting(other)' \in Seq(Character)
  <2>1. keyboard' \in Seq(Character) /\ held' \o line' \in Seq(Character)
    BY ConcatProperties DEF TypeOK
  <2> QED
    BY <2>1 DEF Waiting, Sources
<1>3. /\ Len(received') = Len(received) + more
      /\ \A i \in 1..Len(received) : received'[i] = received[i]
      /\ \A n \in 1..more : received'[Len(received) + n] = front[n]
  <2> DEFINE L == Len(received)
  <2>1. /\ Len(received') = L + more
        /\ \A i \in 1..(L + more) :
             received'[i] = IF i <= L THEN received[i] ELSE front[i - L]
    BY <1>1, ConcatProperties
  <2>2. L \in Nat
    BY <1>1
  <2> HIDE DEF L, more
  <2>3. \A i \in 1..L : i \in 1..(L + more) /\ i <= L
    BY <1>1, <2>2
  <2>4. \A n \in 1..more : L + n \in 1..(L + more) /\ ~(L + n <= L) /\ (L + n) - L = n
    BY <1>1, <2>2
  <2>5. /\ \A i \in 1..L : received'[i] = received[i]
        /\ \A n \in 1..more : received'[L + n] = front[n]
    BY <2>1, <2>3, <2>4
  <2> QED
    BY <2>1, <2>5 DEF L
<1>4. PICK count \in 0..arrived[source] :
        /\ Given(source, count)
        /\ count + Len(Waiting(source)) = arrived[source]
        /\ \A n \in 1..Len(Waiting(source)) : Waiting(source)[n] = <<source, count + n>>
  BY DEF NoneLost
<1>5. PICK rest \in Seq(Character) : rest = Waiting(source)'
  BY <1>2
<1> DEFINE left == Len(rest)
           given == count + more
<1>6. /\ Len(Waiting(source)) = more + left
      /\ \A n \in 1..(more + left) :
           Waiting(source)[n] = IF n <= more THEN front[n] ELSE rest[n - more]
  <2>1. Waiting(source) = front \o rest
    BY <1>5
  <2> QED
    BY <2>1, ConcatProperties
<1>7. left \in Nat /\ count \in Nat /\ given \in Nat /\ given = count + more
  BY <1>1, <1>5
<1>8. \A n \in 1..more : front[n] = <<source, count + n>>
  <2>1. \A n \in 1..more : n \in 1..(more + left) /\ n <= more
    BY <1>1, <1>7
  <2> QED
    BY <1>4, <1>6, <2>1
<1>9. \A n \in 1..left : rest[n] = <<source, given + n>>
  <2> SUFFICES ASSUME NEW n \in 1..left
               PROVE  rest[n] = <<source, given + n>>
    OBVIOUS
  <2> HIDE DEF left, more, given
  <2>1. more + n \in 1..(more + left) /\ ~(more + n <= more) /\ (more + n) - more = n
    BY <1>1, <1>7
  <2>2. Waiting(source)[more + n] = rest[n]
    BY <1>6, <2>1
  <2>3. Waiting(source)[more + n] = <<source, count + (more + n)>>
    BY <1>4, <1>6, <2>1
  <2>4. count + (more + n) = given + n
    BY <1>1, <1>7
  <2> QED
    BY <2>2, <2>3, <2>4
<1> HIDE DEF left, more, given
<1>11. given \in 0..arrived[source] /\ given + left = arrived[source]
  BY <1>1, <1>4, <1>6, <1>7
<1>12. /\ Given(source, count + more)'
       /\ \A other \in Sources \ {source} : \A c \in Nat : Given(other, c) => Given(other, c)'
  BY <1>1, <1>3, <1>4, <1>7, <1>8, MoreGiven
<1>13. \E c \in 0..arrived'[source] :
        /\ Given(source, c)'
        /\ c + Len(Waiting(source)') = arrived'[source]
        /\ \A n \in 1..Len(Waiting(source)') : Waiting(source)'[n] = <<source, c + n>>
  BY <1>5, <1>7, <1>9, <1>11, <1>12 DEF left
<1>14. ASSUME NEW other \in Sources \ {source}
       PROVE  \E c \in 0..arrived'[other] :
                /\ Given(other, c)'
                /\ c + Len(Waiting(other)') = arrived'[other]
                /\ \A n \in 1..Len(Waiting(other)') : Waiting(other)'[n] = <<other, c + n>>
  <2>1. PICK c \in 0..arrived[other] :
          /\ Given(other, c)
          /\ c + Len(Waiting(other)) = arrived[other]
          /\ \A n \in 1..Len(Waiting(other)) : Waiting(other)[n] = <<other, c + n>>
    BY DEF NoneLost
  <2>2. c \in Nat
    BY <1>1
  <2>3. Given(other, c)'
    BY <1>12, <2>1, <2>2
  <2> QED
    BY <2>1, <2>3
<1> DEFINE Kept(other) ==
             \E c \in 0..arrived'[other] :
               /\ Given(other, c)'
               /\ c + Len(Waiting(other)') = arrived'[other]
               /\ \A n \in 1..Len(Waiting(other)') : Waiting(other)'[n] = <<other, c + n>>
<1>15. Kept(source)
  BY <1>13
<1>16. \A other \in Sources \ {source} : Kept(other)
  BY <1>14
<1> HIDE DEF Kept
<1>17. \A other \in Sources : Kept(other)
  BY <1>15, <1>16
<1> QED
  BY <1>17 DEF NoneLost, Kept

\* A step of a call that moves no character.
LEMMA StillLossless ==
  ASSUME LosslessInv, ConsoleInv', UNCHANGED <<arrived, keyboard, line, held, received>>,
         Asking("line")' => held = <<>>
  PROVE  LosslessInv'
BY DEF LosslessInv, NoneLost, Given, Waiting

LEMMA CallLossless ==
  ASSUME LosslessInv, ConsoleInv', Poll \/ PollNext \/ PollReturn \/ Nap \/ NapTime \/ ReadStream
  PROVE  LosslessInv'
<1>1. CallType
  BY DEF LosslessInv, ConsoleInv, TypeOK
<1>2. Idle.name = "none"
  BY DEF Idle
<1>3. ~Asking("line")'
  <2>1. CASE Poll
    BY <2>1 DEF Poll, Asking
  <2>2. CASE PollNext
    <3>1. call \in Polls /\ call.step = "next"
      BY <1>1, <2>2, CallNames DEF PollNext
    <3>2. \/ call' = [call EXCEPT !.step = "ready"]
          \/ \E word \in Words : call' = [call EXCEPT !.seen = Append(call.seen, word)]
      BY <2>2 DEF PollNext, Words
    <3>3. call'.step \in {"ready", "next"}
      BY <3>1, <3>2 DEF Polls
    <3> QED
      BY <3>3 DEF Asking
  <2>3. CASE PollReturn
    BY <1>2, <2>3 DEF PollReturn, Asking
  <2>4. CASE Nap
    BY <2>4 DEF Nap, Asking
  <2>5. CASE NapTime
    <3>1. call \in Naps
      BY <1>1, <2>5, CallNames DEF NapTime
    <3>2. call' = Idle \/ call'.step = "ready"
      BY <2>5, <3>1 DEF NapTime, Naps
    <3> QED
      BY <1>2, <3>2 DEF Asking
  <2>6. CASE ReadStream
    BY <2>6 DEF ReadStream, Asking
  <2> QED
    BY <2>1, <2>2, <2>3, <2>4, <2>5, <2>6
<1> QED
  BY <1>3, StillLossless DEF Poll, PollNext, PollReturn, Nap, NapTime, ReadStream

\* An answer ends the check.
LEMMA AnsweredAsks ==
  ASSUME CallType, NEW step, Asking(step), NEW character, Answered(character)
  PROVE  ~Asking("line")'
<1>1. Idle.name = "none"
  BY DEF Idle
<1>2. CASE call.name = "poll"
  <2>1. call \in Polls
    BY <1>2, CallNames
  <2>2. call'.step = "next"
    BY <1>2, <2>1 DEF Answered, Polls
  <2> QED
    BY <2>2 DEF Asking
<1>3. CASE call.name = "nap"
  <2>1. call \in Naps
    BY <1>3, CallNames
  <2>2. call' = Idle \/ call'.step = "time"
    BY <1>3, <2>1 DEF Answered, Naps
  <2> QED
    BY <1>1, <2>2 DEF Asking
<1> QED
  BY <1>2, <1>3 DEF Asking

\* A character joins the end of what waits.
LEMMA ArriveLossless ==
  ASSUME LosslessInv, ConsoleInv', NEW source \in Sources, Arrive(source)
  PROVE  LosslessInv'
<1> DEFINE before == arrived[source]
           character == <<source, before + 1>>
<1>1. /\ TypeOK /\ TypeOK' /\ NoneLost /\ (Asking("line") => held = <<>>)
      /\ before \in Nat /\ character \in Character
      /\ UNCHANGED <<held, call, received>>
      /\ arrived' = [arrived EXCEPT ![source] = before + 1]
  BY ConsoleAssumption DEF LosslessInv, ConsoleInv, TypeOK, Arrive, Character
<1>2. /\ keyboard \in Seq(Character) /\ line \in Seq(Character) /\ held \in Seq(Character)
      /\ arrived \in [Sources -> 0..Arrivals]
  BY <1>1 DEF TypeOK
<1>3. /\ Waiting(source) \in Seq(Character)
      /\ Waiting(source)' = Append(Waiting(source), character)
      /\ \A other \in Sources \ {source} : Waiting(other)' = Waiting(other)
  <2>1. CASE source = "key"
    BY <1>1, <1>2, <2>1 DEF Arrive, Waiting, Sources
  <2>2. CASE source = "line"
    <3>1. /\ keyboard' = keyboard /\ line' = Append(line, character)
      BY <2>2 DEF Arrive
    <3>2. held \o Append(line, character) = Append(held \o line, character)
      <4>1. /\ line \o <<character>> = Append(line, character)
            /\ held \o line \in Seq(Character)
            /\ <<character>> \in Seq(Character)
        BY <1>1, <1>2, AppendIsConcat, ConcatProperties
      <4>2. (held \o line) \o <<character>> = Append(held \o line, character)
        BY <1>1, <4>1, AppendIsConcat
      <4>3. (held \o line) \o <<character>> = held \o (line \o <<character>>)
        BY <1>2, <4>1, ConcatAssociative
      <4> QED
        BY <4>1, <4>2, <4>3
    <3> QED
      BY <1>1, <1>2, <2>2, <3>1, <3>2, ConcatProperties DEF Waiting, Sources
  <2> QED
    BY <2>1, <2>2 DEF Sources
<1> DEFINE queue == Waiting(source)
           length == Len(queue)
<1>4. /\ length \in Nat
      /\ Len(Append(queue, character)) = length + 1
      /\ \A n \in 1..length : Append(queue, character)[n] = queue[n]
      /\ Append(queue, character)[length + 1] = character
  BY <1>3, AppendProperties
<1>5. PICK count \in 0..before :
        /\ Given(source, count)
        /\ count + length = before
        /\ \A n \in 1..length : queue[n] = <<source, count + n>>
  BY <1>1 DEF NoneLost
<1> DEFINE Kept(other) ==
             \E c \in 0..arrived'[other] :
               /\ Given(other, c)'
               /\ c + Len(Waiting(other)') = arrived'[other]
               /\ \A n \in 1..Len(Waiting(other)') : Waiting(other)'[n] = <<other, c + n>>
<1>6. \A other \in Sources, c \in Nat : Given(other, c) => Given(other, c)'
  BY <1>1 DEF Given
<1>7. Kept(source)
  <2>1. arrived'[source] = before + 1 /\ count \in 0..(before + 1) /\ count \in Nat
    BY <1>1, <1>2
  <2>2. count + (length + 1) = before + 1
    BY <1>1, <1>4, <1>5
  <2>3. \A n \in 1..(length + 1) : Append(queue, character)[n] = <<source, count + n>>
    <3> SUFFICES ASSUME NEW n \in 1..(length + 1)
                 PROVE  Append(queue, character)[n] = <<source, count + n>>
      OBVIOUS
    <3> HIDE DEF length, queue, character
    <3>1. CASE n \in 1..length
      BY <1>4, <1>5, <3>1
    <3>2. CASE n = length + 1
      <4>1. count + n = before + 1
        BY <2>2, <3>2
      <4> QED
        BY <1>4, <3>2, <4>1 DEF character
    <3> QED
      BY <1>4, <3>1, <3>2
  <2> HIDE DEF before, character
  <2> QED
    BY <1>3, <1>4, <1>5, <1>6, <2>1, <2>2, <2>3
<1>8. ASSUME NEW other \in Sources \ {source} PROVE Kept(other)
  <2>1. PICK c \in 0..arrived[other] :
          /\ Given(other, c)
          /\ c + Len(Waiting(other)) = arrived[other]
          /\ \A n \in 1..Len(Waiting(other)) : Waiting(other)[n] = <<other, c + n>>
    BY <1>1 DEF NoneLost
  <2>2. c \in Nat /\ arrived'[other] = arrived[other]
    BY <1>1, <1>2
  <2> QED
    BY <1>3, <1>6, <2>1, <2>2
<1> HIDE DEF Kept
<1>9. \A other \in Sources : Kept(other)
  BY <1>7, <1>8
<1>10. NoneLost'
  BY <1>9 DEF NoneLost, Kept
<1>11. Asking("line")' => held' = <<>>
  BY <1>1 DEF Asking
<1> QED
  BY <1>10, <1>11 DEF LosslessInv

\* The line is asked when nothing is held, and nothing else moves.
LEMMA AskHeldAndKeyboardLossless ==
  ASSUME LosslessInv, ConsoleInv', AskHeldAndKeyboard
  PROVE  LosslessInv'
<1>1. CallType /\ Asking("ready")
  BY DEF LosslessInv, ConsoleInv, TypeOK, AskHeldAndKeyboard
<1>2. held = <<>> \/ \E character : Answered(character)
  BY DEF AskHeldAndKeyboard, HeldFirst
<1>3. Asking("line")' => held = <<>>
  BY <1>1, <1>2, AnsweredAsks
<1> QED
  BY <1>3, StillLossless DEF AskHeldAndKeyboard

\* What is taken from the line is held, and waits where it did.
LEMMA AskLineLossless ==
  ASSUME LosslessInv, ConsoleInv', AskLine
  PROVE  LosslessInv'
<1>1. /\ TypeOK /\ CallType /\ NoneLost /\ Asking("line") /\ held = <<>>
      /\ UNCHANGED <<arrived, keyboard, received, eof>>
  BY DEF LosslessInv, ConsoleInv, TypeOK, AskLine
<1>2. ~Asking("line")'
  BY <1>1, AnsweredAsks DEF AskLine
<1>3. line \in Seq(Character)
  BY <1>1 DEF TypeOK
<1>4. held' \o line' = held \o line
  <2>1. CASE line = <<>>
    BY <2>1 DEF AskLine, LineService, NotTaken, None, Character
  <2>2. CASE line # <<>>
    <3>1. Head(line) \in Character /\ Head(line) # None
      BY <1>3, <2>2 DEF Character, Sources, None
    <3>2. line' = Tail(line) /\ held' = <<Head(line)>>
      BY <2>2, <3>1 DEF AskLine, LineService, NotTaken, Hold
    <3>3. <<Head(line)>> \o Tail(line) = line /\ <<>> \o line = line
      BY <1>3, <2>2
    <3> QED
      BY <1>1, <3>2, <3>3
  <2> QED
    BY <2>1, <2>2
<1>5. NoneLost'
  <2>1. <<>> \in Seq(Character) /\ received' = received \o <<>>
    BY <1>1, ConcatEmptySeq DEF TypeOK
  <2>2. Waiting("line")' \in Seq(Character)
    <3>1. held \o line \in Seq(Character)
      BY <1>1, <1>3, ConcatProperties DEF TypeOK
    <3> QED
      BY <1>4, <3>1 DEF Waiting
  <2>3. Waiting("line") = <<>> \o Waiting("line")'
    BY <1>4, <2>2, ConcatEmptySeq DEF Waiting
  <2>4. \A other \in Sources \ {"line"} : Waiting(other)' = Waiting(other)
    BY <1>1 DEF Waiting, Sources
  <2>5. TypeOK' /\ UNCHANGED arrived /\ "line" \in Sources
    BY <1>1 DEF ConsoleInv, Sources
  <2> QED
    BY <1>1, <2>1, <2>3, <2>4, <2>5, HandedOver
<1> QED
  BY <1>2, <1>5 DEF LosslessInv

\* The keyboard gives up its front to the program.
LEMMA FromKeyboardLossless ==
  ASSUME LosslessInv, ConsoleInv', UNCHANGED <<arrived, line, held>>,
         NEW size \in Nat \ {0}, NEW count \in Moved(size), FromKeyboard(count),
         ~Asking("line")'
  PROVE  LosslessInv'
<1>1. TypeOK /\ TypeOK' /\ NoneLost /\ keyboard \in Seq(Character)
  BY DEF LosslessInv, ConsoleInv, TypeOK
<1> DEFINE length == Len(keyboard)
           front == SubSeq(keyboard, 1, count)
<1>2. length \in Nat /\ count \in 0..length
  BY <1>1, EmptySeq DEF Moved
<1>3. front \in Seq(Character)
  BY <1>1, <1>2, SubSeqProperties
<1>4. keyboard = front \o keyboard'
  <2>1. 1 \in 1..(length + 1) /\ count \in (1 - 1)..length /\ length \in count..length
    BY <1>2
  <2>2. SubSeq(keyboard, 1, count) \o SubSeq(keyboard, count + 1, length)
          = SubSeq(keyboard, 1, length)
    BY <1>1, <2>1, ConcatAdjacentSubSeq
  <2>3. SubSeq(keyboard, 1, length) = keyboard
    BY <1>1, SubSeqFull
  <2> QED
    BY <2>2, <2>3 DEF FromKeyboard
<1>5. received' = received \o front
  BY DEF FromKeyboard
<1>6. /\ Waiting("key") = front \o Waiting("key")'
      /\ \A other \in Sources \ {"key"} : Waiting(other)' = Waiting(other)
  BY <1>4 DEF Waiting, Sources
<1> HIDE DEF front
<1>7. NoneLost'
  BY <1>1, <1>3, <1>5, <1>6, HandedOver DEF Sources
<1> QED
  BY <1>7 DEF LosslessInv

LEMMA ReadLossless ==
  ASSUME LosslessInv, ConsoleInv', Read
  PROVE  LosslessInv'
<1>1. UNCHANGED <<arrived, line, held>>
  BY DEF Read
<1>2. PICK size \in ReadSizes : \E count \in Moved(size) :
        FromKeyboard(count) /\ call' \in {[name |-> "read"], Idle}
  BY DEF Read
<1>3. PICK count \in Moved(size) :
        FromKeyboard(count) /\ call' \in {[name |-> "read"], Idle}
  BY <1>2
<1>4. size \in Nat \ {0}
  BY ConsoleAssumption
<1>5. ~Asking("line")'
  BY <1>3 DEF Asking, Idle
<1> QED
  BY <1>1, <1>3, <1>4, <1>5, FromKeyboardLossless

LEMMA ReadStreamMoreLossless ==
  ASSUME LosslessInv, ConsoleInv', ReadStreamMore
  PROVE  LosslessInv'
<1>1. /\ CallType /\ call.name = "fread"
      /\ UNCHANGED <<arrived, line, held>>
  BY DEF LosslessInv, ConsoleInv, TypeOK, ReadStreamMore
<1>2. call \in Reads /\ call.left \in Nat \ {0}
  BY <1>1, CallNames DEF Reads
<1>3. PICK count \in Moved(call.left) :
        /\ FromKeyboard(count)
        /\ call' = Idle \/ call' = [call EXCEPT !.left = call.left - count]
  BY DEF ReadStreamMore
<1>4. ~Asking("line")'
  <2>1. CASE call' = Idle
    BY <2>1 DEF Asking, Idle
  <2>2. CASE call' = [call EXCEPT !.left = call.left - count]
    <3>1. call'.name = "fread"
      BY <1>2, <2>2 DEF Reads
    <3> QED
      BY <3>1 DEF Asking
  <2> QED
    BY <1>3, <2>1, <2>2
<1> QED
  BY <1>1, <1>2, <1>3, <1>4, FromKeyboardLossless

\* A read of the line gives what is held before what follows it.
LEMMA ReadLineLossless ==
  ASSUME LosslessInv, ConsoleInv', ReadLine
  PROVE  LosslessInv'
<1>1. /\ TypeOK /\ TypeOK' /\ NoneLost /\ Take /\ call' = Idle
      /\ UNCHANGED <<arrived, keyboard, eof>>
      /\ line \in Seq(Character) /\ held \in Seq(Character) /\ Len(held) <= 1
      /\ received \in Seq(Character)
  BY DEF LosslessInv, ConsoleInv, TypeOK, ReadLine
<1>2. ~Asking("line")'
  BY <1>1 DEF Asking, Idle
<1>3. \A c \in Character : c # None
  BY DEF Character, Sources, None
<1>4. \E front \in Seq(Character) :
        /\ held \o line = front \o (held' \o line')
        /\ received' = received \o front
  <2>1. CASE held # <<>>
    <3>1. Head(held) \in Character /\ held = <<Head(held)>>
      <4>0. Len(held) = 1
        <5>1. PICK n \in Nat : n = Len(held)
          BY <1>1
        <5>2. n # 0 /\ n <= 1
          BY <1>1, <2>1, <5>1, EmptySeq
        <5>3. n = 1
          BY <5>2
        <5> QED
          BY <5>1, <5>3
      <4>1. Len(held) = 1 /\ held[1] = Head(held) /\ held[1] \in Character
        BY <1>1, <2>1, <4>0
      <4> QED
        BY <1>1, <4>1
    <3>2. Delivered(Head(held)) /\ held' = <<>> /\ line' = line
      BY <1>1, <2>1 DEF Take
    <3>3. received' = received \o held
      <4>1. received' = Append(received, Head(held))
        BY <1>3, <3>1, <3>2 DEF Delivered
      <4>2. Append(received, Head(held)) = received \o <<Head(held)>>
        BY <1>1, <3>1, AppendIsConcat
      <4> QED
        BY <3>1, <4>1, <4>2
    <3>4. held' \o line' = line
      BY <1>1, <3>2, ConcatEmptySeq
    <3> QED
      BY <1>1, <3>3, <3>4
  <2>2. CASE held = <<>> /\ line = <<>>
    <3>1. received' = received /\ line' = line /\ held' = held
      BY <1>1, <2>2 DEF Take, LineService, Delivered
    <3>2. <<>> \in Seq(Character) /\ received \o <<>> = received /\ <<>> \o <<>> = <<>>
      BY <1>1, ConcatEmptySeq
    <3> QED
      BY <2>2, <3>1, <3>2
  <2>3. CASE held = <<>> /\ line # <<>>
    <3>1. Head(line) \in Character /\ Tail(line) \in Seq(Character)
      BY <1>1, <2>3
    <3>2. received' = Append(received, Head(line)) /\ line' = Tail(line) /\ held' = held
      BY <1>1, <1>3, <2>3, <3>1 DEF Take, LineService, Delivered
    <3>3. /\ received' = received \o <<Head(line)>>
          /\ <<Head(line)>> \in Seq(Character)
      BY <1>1, <3>1, <3>2, AppendIsConcat
    <3>4. held \o line = line /\ held' \o line' = Tail(line)
      BY <1>1, <2>3, <3>1, <3>2, ConcatEmptySeq
    <3>5. <<Head(line)>> \o Tail(line) = line
      BY <1>1, <2>3
    <3> QED
      BY <3>3, <3>4, <3>5
  <2> QED
    BY <2>1, <2>2, <2>3
<1>5. PICK front \in Seq(Character) :
        /\ held \o line = front \o (held' \o line')
        /\ received' = received \o front
  BY <1>4
<1>6. /\ Waiting("line") = front \o Waiting("line")'
      /\ \A other \in Sources \ {"line"} : Waiting(other)' = Waiting(other)
  BY <1>1, <1>5 DEF Waiting, Sources
<1>7. NoneLost'
  BY <1>1, <1>5, <1>6, HandedOver DEF Sources
<1> QED
  BY <1>2, <1>7 DEF LosslessInv

LEMMA InitLossless == Init => LosslessInv
<1> SUFFICES ASSUME Init PROVE LosslessInv
  OBVIOUS
<1>1. ~Asking("line")
  BY DEF Init, Asking, Idle
<1>2. \A source \in Sources : arrived[source] = 0
  BY DEF Init
<1>3. <<>> \o <<>> = <<>> /\ Len(<<>>) = 0
  OBVIOUS
<1>4. \A source \in Sources : Waiting(source) = <<>>
  BY <1>3 DEF Init, Waiting
<1>5. \A source \in Sources : Given(source, 0)
  BY <1>3 DEF Init, Given
<1>6. NoneLost
  BY <1>2, <1>3, <1>4, <1>5 DEF NoneLost
<1> QED
  BY <1>1, <1>6, InitInv DEF LosslessInv

\* Whatever arrives when, and however checks and reads follow each other, what
\* the program has been given of each source is the beginning of what arrived
\* there, and the rest still waits, in its order.
THEOREM NothingLost == Spec => []NoneLost
<1>1. LosslessInv /\ ConsoleInv' /\ [Next]_consoleVars => LosslessInv'
  <2> SUFFICES ASSUME LosslessInv, ConsoleInv', [Next]_consoleVars PROVE LosslessInv'
    OBVIOUS
  <2>1. CASE Poll \/ PollNext \/ PollReturn \/ Nap \/ NapTime \/ ReadStream
    BY <2>1, CallLossless
  <2>2. CASE AskHeldAndKeyboard
    BY <2>2, AskHeldAndKeyboardLossless
  <2>3. CASE AskLine
    BY <2>3, AskLineLossless
  <2>4. CASE Read
    BY <2>4, ReadLossless
  <2>5. CASE ReadLine
    BY <2>5, ReadLineLossless
  <2>6. CASE ReadStreamMore
    BY <2>6, ReadStreamMoreLossless
  <2>7. CASE \E source \in Sources : Arrive(source)
    BY <2>7, ArriveLossless
  <2>8. CASE UNCHANGED consoleVars
    BY <2>8, StillLossless DEF consoleVars, LosslessInv, Asking
  <2> QED
    BY <2>1, <2>2, <2>3, <2>4, <2>5, <2>6, <2>7, <2>8 DEF Next, Program
<1>2. LosslessInv => NoneLost
  BY DEF LosslessInv
<1> QED
  BY <1>1, <1>2, InitLossless, Inductive, PTL DEF Spec
=============================================================================
