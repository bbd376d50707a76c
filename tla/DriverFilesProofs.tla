-------------------------- MODULE DriverFilesProofs --------------------------
(***************************************************************************)
(* The files of the two sides.                                             *)
(*                                                                         *)
(* At the target: whatever a program opens, moves, empties and closes,     *)
(* whichever service fails and however little one moves, no handle is lost *)
(* or has two owners, and ftell is right. FilesInv (TargetFiles.tla) is    *)
(* the inductive invariant.                                                *)
(*                                                                         *)
(* On the host: the exit status of the compiler tells the truth, and it    *)
(* leaves behind files of inputs without trouble only, for every command   *)
(* line, any number of inputs and any limit of the diagnostic sink.        *)
(* DriverInv is the inductive invariant: it follows the sink,              *)
(* errors_before and `good` through the phases of compile_one.             *)
(***************************************************************************)
EXTENDS TargetFiles, Driver, SequenceTheorems, TLAPS

-----------------------------------------------------------------------------
(* Files and streams of the target *)

\* One entry of the table, or of the streams, gets another position.
LEMMA EntryMoved ==
  ASSUME NEW T, T \in [DOMAIN T -> Entries], NEW h \in DOMAIN T, NEW p \in 0..MaxLength
  PROVE  /\ [T EXCEPT ![h].position = p] \in [DOMAIN T -> Entries]
         /\ DOMAIN [T EXCEPT ![h].position = p] = DOMAIN T
         /\ [T EXCEPT ![h].position = p][h].position = p
         /\ \A g \in DOMAIN T : g # h => [T EXCEPT ![h].position = p][g] = T[g]
BY DEF Entries

LEMMA StreamMoved ==
  ASSUME NEW T, T \in [DOMAIN T -> Streams], NEW h \in DOMAIN T, NEW p \in 0..MaxLength
  PROVE  /\ [T EXCEPT ![h].position = p] \in [DOMAIN T -> Streams]
         /\ DOMAIN [T EXCEPT ![h].position = p] = DOMAIN T
         /\ [T EXCEPT ![h].position = p][h].position = p
         /\ \A g \in DOMAIN T : g # h => [T EXCEPT ![h].position = p][g] = T[g]
BY DEF Streams

\* A flag changes, and the position does not.
LEMMA StreamFlagged ==
  ASSUME NEW T, T \in [DOMAIN T -> Streams], NEW h \in DOMAIN T, NEW b \in BOOLEAN, NEW new,
         new = [T EXCEPT ![h].error = b] \/ new = [T EXCEPT ![h].eof = b]
  PROVE  /\ new \in [DOMAIN T -> Streams] /\ DOMAIN new = DOMAIN T
         /\ \A g \in DOMAIN T : new[g].position = T[g].position
<1>1. CASE new = [T EXCEPT ![h].error = b]
  BY <1>1 DEF Streams
<1>2. CASE new = [T EXCEPT ![h].eof = b]
  BY <1>2 DEF Streams
<1> QED
  BY <1>1, <1>2

LEMMA LengthBounds ==
  ASSUME FilesTyped, NEW handle
  PROVE  LengthOf(handle) \in 0..MaxLength
BY FilesAssumption DEF FilesTyped, LengthOf

LEMMA InitInv == Init => FilesInv
<1> SUFFICES ASSUME Init PROVE FilesInv
  OBVIOUS
<1>1. DOMAIN table = {} /\ DOMAIN streams = {} /\ fds = {} /\ call = Idle
  BY DEF Init
<1>2. table \in [DOMAIN table -> Entries] /\ streams \in [DOMAIN streams -> Streams]
  BY <1>1 DEF Init
<1>3. FilesTyped
  <2>1. PICK names \in SUBSET Names : files \in [names -> {0, MaxLength}]
    BY DEF Init
  <2> QED
    BY <2>1, FilesAssumption DEF FilesTyped
<1> QED
  BY <1>1, <1>2, <1>3 DEF FilesInv, TypeOK, HandlesOwned, PositionTrue

-----------------------------------------------------------------------------
\* A step that leaves the handles alone.
LEMMA UntouchedInv ==
  ASSUME FilesInv, FilesTyped', UNCHANGED <<table, streams, fds, call>>
  PROVE  FilesInv'
BY DEF FilesInv, TypeOK, HandlesOwned, PositionTrue

\* A file made or emptied.
LEMMA MadeTyped ==
  ASSUME FilesTyped, NEW name \in Names, files' = Extend(files, name, 0)
  PROVE  FilesTyped'
<1>1. 0 \in 0..MaxLength /\ files \in [DOMAIN files -> 0..MaxLength]
  BY FilesAssumption DEF FilesTyped
<1>2. /\ DOMAIN Extend(files, name, 0) = DOMAIN files \cup {name}
      /\ Extend(files, name, 0) \in [DOMAIN Extend(files, name, 0) -> 0..MaxLength]
  BY <1>1 DEF Extend
<1> QED
  BY <1>2 DEF FilesTyped

\* The program gets a handle of its own.
LEMMA GotHandleInv ==
  ASSUME FilesInv, FilesTyped', NEW handle \in FreeHandles, NEW name \in Names,
         Opened(handle, name), fds' = fds \cup {handle}, UNCHANGED <<streams, call>>
  PROVE  FilesInv'
<1> DEFINE entry == [name |-> name, position |-> 0]
           larger == Extend(table, handle, entry)
<1>0. entry \in Entries /\ table \in [DOMAIN table -> Entries]
  BY FilesAssumption DEF Entries, FilesInv, TypeOK
<1>1. /\ DOMAIN larger = DOMAIN table \cup {handle}
      /\ larger \in [DOMAIN larger -> Entries]
      /\ \A h \in DOMAIN table : h # handle => larger[h] = table[h]
  <2> HIDE DEF entry
  <2> QED
    BY <1>0 DEF Extend
<1>2. /\ DOMAIN table' = DOMAIN table \cup {handle}
      /\ table' \in [DOMAIN table' -> Entries]
      /\ \A h \in DOMAIN table : h # handle => table'[h] = table[h]
  <2>1. table' = larger
    BY DEF Opened
  <2> HIDE DEF larger
  <2> QED
    BY <1>1, <2>1
<1>3. handle \in Handles /\ handle \notin DOMAIN table
  BY DEF FreeHandles
<1>4. TypeOK'
  BY <1>2, <1>3 DEF FilesInv, TypeOK
<1>5. HandlesOwned' /\ PositionTrue'
  BY <1>2, <1>3 DEF FilesInv, HandlesOwned, PositionTrue
<1> QED
  BY <1>4, <1>5 DEF FilesInv

\* A stream gets a handle.
LEMMA GotStreamInv ==
  ASSUME FilesInv, FilesTyped', NEW handle \in FreeHandles, NEW name \in Names,
         NEW writable \in BOOLEAN, Opened(handle, name),
         streams' = Extend(streams, handle,
           [writable |-> writable, eof |-> FALSE, error |-> FALSE, position |-> 0]),
         UNCHANGED <<fds, call>>
  PROVE  FilesInv'
<1> DEFINE entry == [name |-> name, position |-> 0]
           stream == [writable |-> writable, eof |-> FALSE, error |-> FALSE, position |-> 0]
<1>1. entry \in Entries /\ stream \in Streams /\ entry.position = stream.position
  BY FilesAssumption DEF Entries, Streams
<1> DEFINE moreTable == Extend(table, handle, entry)
           moreStreams == Extend(streams, handle, stream)
<1>2. table' = moreTable /\ streams' = moreStreams
  BY DEF Opened
<1> HIDE DEF entry, stream
<1>3. /\ DOMAIN moreTable = DOMAIN table \cup {handle}
      /\ moreTable \in [DOMAIN moreTable -> Entries] /\ moreTable[handle] = entry
      /\ \A h \in DOMAIN table : h # handle => moreTable[h] = table[h]
  <2>1. table \in [DOMAIN table -> Entries]
    BY DEF FilesInv, TypeOK
  <2> QED
    BY <1>1, <2>1 DEF Extend
<1>4. /\ DOMAIN moreStreams = DOMAIN streams \cup {handle}
      /\ moreStreams \in [DOMAIN moreStreams -> Streams] /\ moreStreams[handle] = stream
      /\ \A h \in DOMAIN streams : h # handle => moreStreams[h] = streams[h]
  <2>1. streams \in [DOMAIN streams -> Streams]
    BY DEF FilesInv, TypeOK
  <2> QED
    BY <1>1, <2>1 DEF Extend
<1> HIDE DEF moreTable, moreStreams
<1>5. /\ DOMAIN table' = DOMAIN table \cup {handle}
      /\ table' \in [DOMAIN table' -> Entries] /\ table'[handle] = entry
      /\ \A h \in DOMAIN table : h # handle => table'[h] = table[h]
  BY <1>2, <1>3
<1>6. /\ DOMAIN streams' = DOMAIN streams \cup {handle}
      /\ streams' \in [DOMAIN streams' -> Streams] /\ streams'[handle] = stream
      /\ \A h \in DOMAIN streams : h # handle => streams'[h] = streams[h]
  BY <1>2, <1>4
<1>7. handle \in Handles /\ handle \notin DOMAIN table
  BY DEF FreeHandles
<1>8. TypeOK'
  BY <1>5, <1>6, <1>7 DEF FilesInv, TypeOK
<1>9. HandlesOwned' /\ PositionTrue'
  BY <1>1, <1>5, <1>6, <1>7 DEF FilesInv, HandlesOwned, PositionTrue
<1> QED
  BY <1>8, <1>9 DEF FilesInv

\* A handle of the program's moves, and no stream is on it.
LEMMA HandleMovedInv ==
  ASSUME FilesInv, NEW handle \in fds, NEW place \in 0..MaxLength,
         table' = [table EXCEPT ![handle].position = place],
         UNCHANGED <<files, streams, fds, call>>
  PROVE  FilesInv'
<1>1. handle \in DOMAIN table /\ handle \notin DOMAIN streams
  BY DEF FilesInv, HandlesOwned
<1>2. /\ table' \in [DOMAIN table -> Entries] /\ DOMAIN table' = DOMAIN table
      /\ \A h \in DOMAIN table : h # handle => table'[h] = table[h]
  BY <1>1, EntryMoved DEF FilesInv, TypeOK
<1>3. TypeOK'
  BY <1>2 DEF FilesInv, TypeOK, FilesTyped
<1>4. HandlesOwned' /\ PositionTrue'
  BY <1>1, <1>2 DEF FilesInv, HandlesOwned, PositionTrue
<1> QED
  BY <1>3, <1>4 DEF FilesInv

\* A stream and its handle move together.
LEMMA StreamMovedInv ==
  ASSUME FilesInv, FilesTyped', NEW stream \in DOMAIN streams, NEW place \in 0..MaxLength,
         table' = [table EXCEPT ![stream].position = place],
         DOMAIN streams' = DOMAIN streams, streams' \in [DOMAIN streams -> Streams],
         streams'[stream].position = place,
         \A s \in DOMAIN streams : s # stream => streams'[s] = streams[s],
         \/ call' = call
         \/ /\ call' \in Transfers /\ call'.done <= call'.want
            /\ call'.stream \in DOMAIN streams,
         UNCHANGED fds
  PROVE  FilesInv'
<1>1. stream \in DOMAIN table
  BY DEF FilesInv, HandlesOwned
<1>2. /\ table' \in [DOMAIN table -> Entries] /\ DOMAIN table' = DOMAIN table
      /\ table'[stream].position = place
      /\ \A h \in DOMAIN table : h # stream => table'[h] = table[h]
  BY <1>1, EntryMoved DEF FilesInv, TypeOK
<1>3. TypeOK'
  BY <1>2 DEF FilesInv, TypeOK
<1>4. HandlesOwned' /\ PositionTrue'
  BY <1>2 DEF FilesInv, HandlesOwned, PositionTrue
<1> QED
  BY <1>3, <1>4 DEF FilesInv

\* A stream is flagged, or nothing but the call changes.
LEMMA FlaggedInv ==
  ASSUME FilesInv, UNCHANGED <<files, table, fds>>,
         DOMAIN streams' = DOMAIN streams, streams' \in [DOMAIN streams -> Streams],
         \A s \in DOMAIN streams : streams'[s].position = streams[s].position,
         \/ call' = call \/ call' = Idle
         \/ /\ call' \in Transfers /\ call'.done <= call'.want
            /\ call'.stream \in DOMAIN streams
  PROVE  FilesInv'
<1>1. TypeOK'
  BY DEF FilesInv, TypeOK, FilesTyped
<1> QED
  BY <1>1 DEF FilesInv, HandlesOwned, PositionTrue

\* A handle of the program's is closed.
LEMMA CloseHandleInv ==
  ASSUME FilesInv, CloseHandle
  PROVE  FilesInv'
<1>1. PICK handle \in fds : table' = Without(table, handle) /\ fds' = fds \ {handle}
  BY DEF CloseHandle, Close
<1>2. UNCHANGED <<files, streams, call>>
  BY DEF CloseHandle, Between
<1>3. /\ DOMAIN table' = DOMAIN table \ {handle}
      /\ table' \in [DOMAIN table' -> Entries]
      /\ \A h \in DOMAIN table' : table'[h] = table[h]
  BY <1>1 DEF FilesInv, TypeOK, Without
<1>4. TypeOK'
  BY <1>1, <1>2, <1>3 DEF FilesInv, TypeOK, FilesTyped
<1>5. HandlesOwned' /\ PositionTrue'
  BY <1>1, <1>2, <1>3 DEF FilesInv, HandlesOwned, PositionTrue
<1> QED
  BY <1>4, <1>5 DEF FilesInv

\* A stream is closed, with its handle.
LEMMA FcloseInv ==
  ASSUME FilesInv, Fclose
  PROVE  FilesInv'
<1>1. PICK stream \in DOMAIN streams :
        table' = Without(table, stream) /\ streams' = Without(streams, stream)
  BY DEF Fclose, Close, Releases
<1>2. UNCHANGED <<files, fds, call>> /\ call = Idle
  BY DEF Fclose, Between
<1>3. /\ DOMAIN table' = DOMAIN table \ {stream}
      /\ table' \in [DOMAIN table' -> Entries]
      /\ \A h \in DOMAIN table' : table'[h] = table[h]
  BY <1>1 DEF FilesInv, TypeOK, Without
<1>4. /\ DOMAIN streams' = DOMAIN streams \ {stream}
      /\ streams' \in [DOMAIN streams' -> Streams]
      /\ \A h \in DOMAIN streams' : streams'[h] = streams[h]
  BY <1>1 DEF FilesInv, TypeOK, Without
<1>5. TypeOK'
  BY <1>2, <1>3, <1>4 DEF FilesInv, TypeOK, FilesTyped
<1>6. HandlesOwned' /\ PositionTrue'
  BY <1>2, <1>3, <1>4 DEF FilesInv, HandlesOwned, PositionTrue
<1> QED
  BY <1>5, <1>6 DEF FilesInv

-----------------------------------------------------------------------------
\* What the services answer, for a path that names something.
LEMMA NamedPath ==
  ASSUME NEW path \in Paths, FileName(path) # NoName
  PROVE  FileName(path) \in Names
BY DEF Paths, FileName

LEMMA Handed ==
  ASSUME NEW name, NEW handle, handle # Failed,
         handle \in OpenAnswers(name) \/ handle \in CreateAnswers(name)
  PROVE  handle \in FreeHandles
BY DEF OpenAnswers, CreateAnswers

LEMMA OpenInv ==
  ASSUME FilesInv, Open
  PROVE  FilesInv'
<1>1. UNCHANGED <<streams, call>> /\ FilesTyped
  BY DEF Open, Between, FilesInv, TypeOK
<1>2. CASE UNCHANGED <<files, table, fds>>
  BY <1>1, <1>2, UntouchedInv DEF FilesTyped
<1>3. CASE \E path \in Paths :
             /\ FileName(path) # NoName
             /\ \E handle \in OpenAnswers(FileName(path)) :
                  /\ handle # Failed
                  /\ Opened(handle, FileName(path))
                  /\ fds' = fds \cup {handle}
                  /\ UNCHANGED files
  <2>1. PICK name \in Names, handle \in FreeHandles :
          Opened(handle, name) /\ fds' = fds \cup {handle} /\ UNCHANGED files
    BY <1>3, NamedPath, Handed
  <2> QED
    BY <1>1, <2>1, GotHandleInv DEF FilesTyped
<1>4. CASE \E path \in Paths :
             /\ FileName(path) # NoName
             /\ \E handle \in CreateAnswers(FileName(path)) :
                  /\ handle # Failed
                  /\ Created(handle, FileName(path))
                  /\ fds' = fds \cup {handle}
  <2>1. PICK name \in Names, handle \in FreeHandles :
          Created(handle, name) /\ fds' = fds \cup {handle}
    BY <1>4, NamedPath, Handed
  <2>2. FilesTyped'
    BY <1>1, <2>1, MadeTyped DEF Created
  <2> QED
    BY <1>1, <2>1, <2>2, GotHandleInv DEF Created
<1> QED
  BY <1>2, <1>3, <1>4 DEF Open

LEMMA HandleStepsInv ==
  ASSUME FilesInv, MoveHandle \/ Fstat
  PROVE  FilesInv'
<1>1. FilesTyped
  BY DEF FilesInv, TypeOK
<1>2. CASE MoveHandle
  <2>1. PICK handle \in fds : \E place \in 0..LengthOf(handle) :
          table' = [table EXCEPT ![handle].position = place]
    BY <1>2 DEF MoveHandle
  <2>2. PICK place \in 0..LengthOf(handle) :
          table' = [table EXCEPT ![handle].position = place]
    BY <2>1
  <2>3. place \in 0..MaxLength
    BY <1>1, <2>2, LengthBounds, FilesAssumption
  <2> QED
    BY <1>2, <2>2, <2>3, HandleMovedInv DEF MoveHandle, Between
<1>3. CASE Fstat
  <2>1. PICK handle \in fds : \E moved \in {"nowhere", "end", "start"} :
          table' = [table EXCEPT ![handle].position =
                      CASE moved = "nowhere" -> table[handle].position
                        [] moved = "end" -> LengthOf(handle)
                        [] moved = "start" -> 0]
    BY <1>3 DEF Fstat
  <2>2. /\ table[handle].position \in 0..MaxLength
        /\ LengthOf(handle) \in 0..MaxLength /\ 0 \in 0..MaxLength
    BY <1>1, LengthBounds, FilesAssumption DEF FilesInv, TypeOK, HandlesOwned, Entries
  <2>3. \E place \in 0..MaxLength :
          table' = [table EXCEPT ![handle].position = place]
    BY <2>1, <2>2
  <2> QED
    BY <1>3, <2>3, HandleMovedInv DEF Fstat, Between
<1> QED
  BY <1>2, <1>3

\* access, stat and truncate give back the handle they opened.
LEMMA PathStepsInv ==
  ASSUME FilesInv, Access \/ Stat \/ Truncate \/ Unlink \/ RemoveFile
  PROVE  FilesInv'
<1>1. UNCHANGED <<table, streams, fds, call>>
  BY DEF Access, Stat, Truncate, Unlink, RemoveFile, Between, ClosesAgain
<1>2. FilesTyped'
  <2>1. FilesTyped
    BY DEF FilesInv, TypeOK
  <2>2. CASE UNCHANGED files
    BY <2>1, <2>2 DEF FilesTyped
  <2>3. CASE Truncate /\ ~UNCHANGED files
    <3>1. PICK path \in Paths :
            FileName(path) # NoName /\ files' = Extend(files, FileName(path), 0)
      BY <2>3 DEF Truncate
    <3> QED
      BY <2>1, <3>1, NamedPath, MadeTyped
  <2>4. CASE RemoveFile /\ ~UNCHANGED files
    <3>1. PICK name : files' = Without(files, name)
      BY <2>4 DEF RemoveFile
    <3> QED
      BY <2>1, <3>1 DEF FilesTyped, Without
  <2> QED
    BY <2>2, <2>3, <2>4 DEF Access, Stat, Unlink
<1> QED
  BY <1>1, <1>2, UntouchedInv

LEMMA FopenInv ==
  ASSUME FilesInv, Fopen
  PROVE  FilesInv'
<1>1. UNCHANGED <<fds, call>> /\ FilesTyped
  BY DEF Fopen, Between, FilesInv, TypeOK
<1>2. CASE UNCHANGED <<files, table, streams>>
  BY <1>1, <1>2, UntouchedInv DEF FilesTyped
<1>3. CASE ~UNCHANGED <<files, table, streams>>
  <2>1. PICK path \in Paths, writable \in BOOLEAN, memory \in BOOLEAN :
          /\ FileName(path) # NoName
          /\ \E handle \in IF writable THEN CreateAnswers(FileName(path))
                                       ELSE OpenAnswers(FileName(path)) :
               /\ handle # Failed
               /\ files' = IF writable THEN Extend(files, FileName(path), 0) ELSE files
               /\ IF memory
                  THEN /\ Opened(handle, FileName(path))
                       /\ streams' = Extend(streams, handle,
                            [writable |-> writable, eof |-> FALSE, error |-> FALSE,
                             position |-> 0])
                  ELSE ClosesAgain(handle) /\ UNCHANGED streams
    BY <1>3 DEF Fopen
  <2> DEFINE name == FileName(path)
  <2>2. name \in Names
    BY <2>1, NamedPath
  <2>3. FilesTyped'
    <3>1. CASE writable
      BY <1>1, <2>1, <2>2, <3>1, MadeTyped
    <3>2. CASE ~writable
      BY <1>1, <2>1, <3>2 DEF FilesTyped
    <3> QED
      BY <3>1, <3>2
  <2>4. PICK handle \in FreeHandles :
          IF memory
          THEN /\ Opened(handle, name)
               /\ streams' = Extend(streams, handle,
                    [writable |-> writable, eof |-> FALSE, error |-> FALSE,
                     position |-> 0])
          ELSE ClosesAgain(handle) /\ UNCHANGED streams
    BY <2>1, Handed
  <2> HIDE DEF name
  <2>5. CASE memory
    BY <1>1, <2>2, <2>3, <2>4, <2>5, GotStreamInv
  <2>6. CASE ~memory
    BY <1>1, <2>3, <2>4, <2>6, UntouchedInv DEF ClosesAgain
  <2> QED
    BY <2>5, <2>6
<1> QED
  BY <1>2, <1>3

-----------------------------------------------------------------------------
\* A transfer begins, or a stream that is not writable refuses one.
LEMMA BeginInv ==
  ASSUME FilesInv, Fread \/ Fwrite
  PROVE  FilesInv'
<1>1. UNCHANGED <<files, table, fds>> /\ streams \in [DOMAIN streams -> Streams]
  BY DEF Fread, Fwrite, FilesInv, TypeOK
<1>2. \A stream \in DOMAIN streams : stream \in Handles
  BY DEF FilesInv, TypeOK, HandlesOwned
<1>3. ASSUME NEW name \in {"fread", "fwrite"}, NEW stream \in DOMAIN streams,
             NEW want \in Wants, UNCHANGED streams,
             call' = [name |-> name, stream |-> stream, want |-> want, done |-> 0]
      PROVE  FilesInv'
  <2>1. want \in Nat \ {0}
    BY FilesAssumption
  <2>2. call' \in Transfers /\ call'.done <= call'.want /\ call'.stream \in DOMAIN streams
    BY <1>2, <1>3, <2>1 DEF Transfers
  <2> QED
    BY <1>1, <1>3, <2>2, FlaggedInv
<1>4. ASSUME NEW stream \in DOMAIN streams, UNCHANGED call,
             streams' = [streams EXCEPT ![stream].error = TRUE]
      PROVE  FilesInv'
  <2>1. /\ streams' \in [DOMAIN streams -> Streams] /\ DOMAIN streams' = DOMAIN streams
        /\ \A s \in DOMAIN streams : streams'[s].position = streams[s].position
    BY <1>1, <1>4 DEF Streams
  <2> QED
    BY <1>1, <1>4, <2>1, FlaggedInv
<1> QED
  BY <1>3, <1>4 DEF Fread, Fwrite

\* The call that runs.
LEMMA TransferFacts ==
  ASSUME FilesInv, call.name \in {"fread", "fwrite"}
  PROVE  /\ call \in Transfers /\ call.done <= call.want
         /\ call.done \in Nat /\ call.want \in Nat /\ call.stream \in DOMAIN streams
         /\ table[call.stream].position \in 0..MaxLength
         /\ streams[call.stream].position = table[call.stream].position
<1>1. call \in Transfers /\ call.done <= call.want /\ call.stream \in DOMAIN streams
  BY DEF FilesInv, TypeOK, Idle
<1>2. call.done \in Nat /\ call.want \in Nat
  BY <1>1, FilesAssumption DEF Transfers
<1>3. call.stream \in DOMAIN table
  BY <1>1 DEF FilesInv, HandlesOwned
<1>4. /\ table[call.stream] \in Entries
      /\ streams[call.stream].position = table[call.stream].position
  BY <1>1, <1>3 DEF FilesInv, TypeOK, PositionTrue
<1> QED
  BY <1>1, <1>2, <1>4 DEF Entries

\* One service call that moves something.
LEMMA MovedInv ==
  ASSUME FilesInv, FilesTyped', call.name \in {"fread", "fwrite"},
         NEW moved \in Nat, moved <= Ask, Position(call.stream) + moved <= MaxLength,
         Moved(moved), UNCHANGED fds,
         streams' = [streams EXCEPT ![call.stream].position = @ + MovedBy(moved)]
  PROVE  FilesInv'
<1> DEFINE stream == call.stream
           end == table[stream].position + moved
<1>1. /\ call \in Transfers /\ call.done <= call.want
      /\ call.done \in Nat /\ call.want \in Nat /\ stream \in DOMAIN streams
      /\ table[stream].position \in 0..MaxLength
      /\ streams[stream].position = table[stream].position
  BY TransferFacts
<1>2. end \in 0..MaxLength
  BY <1>1, FilesAssumption DEF Position
<1>3. /\ table' = [table EXCEPT ![stream].position = end]
      /\ streams' = [streams EXCEPT ![stream].position = end]
  BY <1>1 DEF Moved, MovedBy
<1>4. moved <= call.want - call.done
  BY <1>1, FilesAssumption DEF Ask
<1>5. call' = [call EXCEPT !.done = call.done + moved]
  BY DEF Moved
<1>6. call' \in Transfers /\ call'.done <= call'.want /\ call'.stream \in DOMAIN streams
  BY <1>1, <1>4, <1>5 DEF Transfers
<1>7. streams \in [DOMAIN streams -> Streams]
  BY DEF FilesInv, TypeOK
<1> HIDE DEF stream, end
<1>8. /\ streams' \in [DOMAIN streams -> Streams] /\ DOMAIN streams' = DOMAIN streams
      /\ streams'[stream].position = end
      /\ \A s \in DOMAIN streams : s # stream => streams'[s] = streams[s]
  <2> DEFINE after == [streams EXCEPT ![stream].position = end]
  <2>1. /\ after \in [DOMAIN streams -> Streams] /\ DOMAIN after = DOMAIN streams
        /\ after[stream].position = end
        /\ \A s \in DOMAIN streams : s # stream => after[s] = streams[s]
    BY <1>1, <1>2, <1>7, StreamMoved
  <2>2. streams' = after
    BY <1>3
  <2> HIDE DEF after
  <2> QED
    BY <2>1, <2>2
<1> QED
  BY <1>1, <1>2, <1>3, <1>6, <1>8, StreamMovedInv

LEMMA ReturnedInv ==
  ASSUME FilesInv, call' = Idle, UNCHANGED <<files, table, fds>>,
         \/ UNCHANGED streams
         \/ \E stream \in DOMAIN streams, b \in BOOLEAN :
              \/ streams' = [streams EXCEPT ![stream].error = b]
              \/ streams' = [streams EXCEPT ![stream].eof = b]
  PROVE  FilesInv'
<1>1. streams \in [DOMAIN streams -> Streams]
  BY DEF FilesInv, TypeOK
<1>2. /\ streams' \in [DOMAIN streams -> Streams] /\ DOMAIN streams' = DOMAIN streams
      /\ \A s \in DOMAIN streams : streams'[s].position = streams[s].position
  BY <1>1, StreamFlagged
<1> QED
  BY <1>2, FlaggedInv

LEMMA FreadMoreInv ==
  ASSUME FilesInv, FreadMore
  PROVE  FilesInv'
<1> DEFINE stream == call.stream
           rest == LengthOf(stream) - Position(stream)
<1>1. UNCHANGED <<files, fds>> /\ FilesTyped /\ FilesTyped'
  BY DEF FreadMore, FilesInv, TypeOK, FilesTyped
<1>2. /\ stream \in DOMAIN streams /\ Position(stream) \in 0..MaxLength
      /\ call.name \in {"fread", "fwrite"} /\ Ask \in Int
  BY TransferFacts, FilesAssumption DEF FreadMore, Position, Ask
<1>3. LengthOf(stream) \in 0..MaxLength
  BY <1>1, LengthBounds
<1>4. CASE \E moved \in 1..(IF Ask < rest THEN Ask ELSE rest) :
             /\ Moved(moved)
             /\ streams' = [streams EXCEPT ![stream].position = @ + MovedBy(moved)]
  <2>1. PICK moved \in 1..(IF Ask < rest THEN Ask ELSE rest) :
             /\ Moved(moved)
             /\ streams' = [streams EXCEPT ![stream].position = @ + MovedBy(moved)]
    BY <1>4
  <2>2. rest \in Int /\ moved \in Nat /\ moved <= Ask /\ moved <= rest
    BY <1>2, <1>3, <2>1, FilesAssumption
  <2>3. Position(stream) + moved <= MaxLength
    BY <1>2, <1>3, <2>2, FilesAssumption
  <2> QED
    BY <1>1, <1>2, <2>1, <2>2, <2>3, MovedInv
<1>5. CASE call' = Idle /\ UNCHANGED <<table, streams>>
  BY <1>1, <1>5, ReturnedInv
<1>6. CASE /\ call' = Idle /\ UNCHANGED table
           /\ \E moved \in {0, Failed} :
                streams' = [streams EXCEPT ![stream].eof = @ \/ MarksEnd(moved)]
  <2>1. \A b \in BOOLEAN, moved \in {0, Failed} : (b \/ MarksEnd(moved)) \in BOOLEAN
    OBVIOUS
  <2>2. \E b \in BOOLEAN : streams' = [streams EXCEPT ![stream].eof = b]
    BY <1>6, <2>1 DEF MarksEnd
  <2> QED
    BY <1>1, <1>2, <1>6, <2>2, ReturnedInv
<1> QED
  BY <1>4, <1>5, <1>6 DEF FreadMore, Returned

LEMMA FwriteMoreInv ==
  ASSUME FilesInv, FwriteMore
  PROVE  FilesInv'
<1> DEFINE stream == call.stream
<1>1. UNCHANGED fds /\ FilesTyped
  BY DEF FwriteMore, FilesInv, TypeOK
<1>2. /\ stream \in DOMAIN streams /\ Position(stream) \in 0..MaxLength
      /\ call.name \in {"fread", "fwrite"} /\ Ask \in Int
  BY TransferFacts, FilesAssumption DEF FwriteMore, Position, Ask
<1>3. CASE \E moved \in 1..Ask :
             /\ Position(stream) + moved <= MaxLength
             /\ Moved(moved)
             /\ files' = [files EXCEPT ![table[stream].name] =
                            IF Position(stream) + moved > @ THEN Position(stream) + moved ELSE @]
             /\ streams' = [streams EXCEPT ![stream].position = @ + MovedBy(moved)]
  <2>1. PICK moved \in 1..Ask :
             /\ Position(stream) + moved <= MaxLength
             /\ Moved(moved)
             /\ files' = [files EXCEPT ![table[stream].name] =
                            IF Position(stream) + moved > @ THEN Position(stream) + moved ELSE @]
             /\ streams' = [streams EXCEPT ![stream].position = @ + MovedBy(moved)]
    BY <1>3
  <2>2. moved \in Nat /\ moved <= Ask /\ Position(stream) + moved \in 0..MaxLength
    BY <1>2, <2>1, FilesAssumption
  <2>3. FilesTyped'
    BY <1>1, <2>1, <2>2 DEF FilesTyped
  <2> QED
    BY <1>1, <1>2, <2>1, <2>2, <2>3, MovedInv
<1>4. CASE call' = Idle /\ UNCHANGED <<files, table, streams>>
  BY <1>1, <1>4, ReturnedInv
<1>5. CASE /\ call' = Idle /\ UNCHANGED <<files, table>>
           /\ streams' = [streams EXCEPT ![stream].error = TRUE]
  BY <1>1, <1>2, <1>5, ReturnedInv
<1> QED
  BY <1>3, <1>4, <1>5 DEF FwriteMore, Returned

LEMMA FseekInv ==
  ASSUME FilesInv, Fseek
  PROVE  FilesInv'
<1>1. UNCHANGED <<files, fds, call>> /\ FilesTyped /\ FilesTyped'
      /\ streams \in [DOMAIN streams -> Streams]
  BY DEF Fseek, Between, FilesInv, TypeOK, FilesTyped
<1>2. CASE UNCHANGED <<table, streams>>
  BY <1>1, <1>2, UntouchedInv
<1>3. CASE ~UNCHANGED <<table, streams>>
  <2>1. PICK stream \in DOMAIN streams : \E place \in 0..LengthOf(stream) :
          /\ table' = [table EXCEPT ![stream].position = place]
          /\ streams' = [streams EXCEPT ![stream].position = place, ![stream].eof = FALSE]
    BY <1>3 DEF Fseek, SeekRecords
  <2>2. PICK place \in 0..LengthOf(stream) :
          /\ table' = [table EXCEPT ![stream].position = place]
          /\ streams' = [streams EXCEPT ![stream].position = place, ![stream].eof = FALSE]
    BY <2>1
  <2>3. place \in 0..MaxLength
    BY <1>1, <2>2, LengthBounds, FilesAssumption
  <2>4. /\ streams' \in [DOMAIN streams -> Streams] /\ DOMAIN streams' = DOMAIN streams
        /\ streams'[stream].position = place
        /\ \A s \in DOMAIN streams : s # stream => streams'[s] = streams[s]
    BY <1>1, <2>2, <2>3 DEF Streams
  <2> QED
    <3>1. call' = call /\ UNCHANGED fds /\ FilesTyped'
      BY <1>1
    <3>2. table' = [table EXCEPT ![stream].position = place] /\ stream \in DOMAIN streams
      BY <2>1, <2>2
    <3> QED
      BY <2>3, <2>4, <3>1, <3>2, StreamMovedInv
<1> QED
  BY <1>2, <1>3

-----------------------------------------------------------------------------
\* FilesInv is inductive: the calls of src/runtime/target_file.c and
\* target_stdio.c keep it, in any order and with any service refusing.
THEOREM FilesInductive == Spec => []FilesInv
<1>1. FilesInv /\ [Next]_vars => FilesInv'
  <2> SUFFICES ASSUME FilesInv, [Next]_vars PROVE FilesInv'
    OBVIOUS
  <2>1. CASE Open
    BY <2>1, OpenInv
  <2>2. CASE CloseHandle
    BY <2>2, CloseHandleInv
  <2>3. CASE MoveHandle \/ Fstat
    BY <2>3, HandleStepsInv
  <2>4. CASE Access \/ Stat \/ Truncate \/ Unlink \/ RemoveFile
    BY <2>4, PathStepsInv
  <2>5. CASE Fopen
    BY <2>5, FopenInv
  <2>6. CASE Fclose
    BY <2>6, FcloseInv
  <2>7. CASE Fread \/ Fwrite
    BY <2>7, BeginInv
  <2>8. CASE FreadMore
    BY <2>8, FreadMoreInv
  <2>9. CASE FwriteMore
    BY <2>9, FwriteMoreInv
  <2>10. CASE Fseek
    BY <2>10, FseekInv
  <2>11. CASE UNCHANGED vars
    BY <2>11, UntouchedInv DEF vars, FilesInv, TypeOK, FilesTyped
  <2> QED
    BY <2>1, <2>2, <2>3, <2>4, <2>5, <2>6, <2>7, <2>8, <2>9, <2>10, <2>11 DEF Next
<1> QED
  BY <1>1, InitInv, PTL DEF Spec

\* Files, handles, streams and the call that runs keep their types and bounds.
THEOREM TypeCorrect == Spec => []TypeOK
<1>1. FilesInv => TypeOK
  BY DEF FilesInv
<1> QED
  BY <1>1, FilesInductive, PTL

\* No path through open, stat, access, truncate, fopen or fclose loses a handle.
THEOREM HandlesNeverLost == Spec => []HandlesOwned
<1>1. FilesInv => HandlesOwned
  BY DEF FilesInv
<1> QED
  BY <1>1, FilesInductive, PTL

\* ftell is right after transfers of any number of service calls.
THEOREM PositionsTrue == Spec => []PositionTrue
<1>1. FilesInv => PositionTrue
  BY DEF FilesInv
<1> QED
  BY <1>1, FilesInductive, PTL

-----------------------------------------------------------------------------
(* The driver *)

Diagnostics == [input : Nat, sourced : BOOLEAN]
Histories == [troubled : SUBSET Nat, refused : SUBSET Nat, dangling : BOOLEAN]
IsSeq(s) == \E S : s \in Seq(S)

Typed ==
  /\ sink \in Seq(Diagnostics)
  /\ current \in Nat
  /\ good \in BOOLEAN /\ failed \in BOOLEAN
  /\ history \in Histories
  /\ IsSeq(options.inputs)
  /\ {"action", "inputs", "output", "outputSet"} \subseteq DOMAIN options

Starting == {"expand", "options", "link"}
Going == {"preprocess", "create", "parse", "encode", "write", "publish"}
Working == Going \cup {"load", "declarations"}
Finished == {"leave", "next"}

\* Nothing has happened yet.
Fresh ==
  /\ sink = <<>> /\ current = 0 /\ status = 0
  /\ history.troubled = {} /\ DOMAIN volume = {}
  /\ phase = "link" => options.action = "link"

Trouble == current \in history.troubled

\* What cc64_main knows while compile_one works on an input or has.
Chosen ==
  /\ current \in Inputs
  /\ options.action \notin {"link", "version", "help"}
  /\ ~OutputForSeveral
  /\ history.troubled \subseteq 1..current
  /\ \A name \in DOMAIN volume : volume[name] \in 1..current

\* An input in trouble left a diagnostic, or a step of it failed.
TroubleKnown ==
  Trouble => sink # <<>> \/ ~good \/ (phase = "declarations" /\ failed)

\* As long as no input was refused, none before this one was in trouble.
Silent ==
  status = 0 =>
    /\ history.troubled \subseteq {current}
    /\ phase = "load" => sink = <<>>
    /\ phase \in Working \cup {"leave"} /\ phase # "load" => before = 0
    /\ phase = "next" /\ good => sink = <<>>

OutputOf(n) == IF Several THEN Derived(options.inputs[n]) ELSE options.output

Written ==
  status = 0 /\ options.action = "compile" /\ (phase \in Finished => good) =>
    /\ \A n \in 1..(current - 1) : OutputOf(n) \in DOMAIN volume
    /\ phase \in Finished => OutputOf(current) \in DOMAIN volume

\* What each phase relies on.
PhaseKnows ==
  /\ phase \in Working => \A name \in DOMAIN volume : volume[name] # current
  /\ phase \in Going => good
  /\ phase \in {"load", "preprocess"} => ~Trouble /\ (current = 1 => sink = <<>>)
  /\ phase = "parse" => options.action = "ast"
  /\ phase \in {"encode", "write"} => sink = <<>>
  /\ phase = "publish" => options.action # "compile"
  /\ phase = "publish" /\ options.action = "preprocess" /\ options.outputSet => sink = <<>>

Compiling == Chosen /\ TroubleKnown /\ Silent /\ Written /\ PhaseKnows

DriverInv ==
  /\ Typed
  /\ phase \in Starting \cup Working \cup Finished \cup {"done"}
  /\ OnlyCleanOutputs
  /\ phase \in Starting => Fresh
  /\ phase \in Working \cup Finished => Compiling
  /\ StatusTruthful

-----------------------------------------------------------------------------
(* The sink and the history *)

LEMMA KeptSink ==
  ASSUME NEW s \in Seq(Diagnostics)
  PROVE  Kept(s) \in Seq(Diagnostics) /\ (Kept(s) = <<>> <=> s = <<>>)
<1>1. Limit \in Nat \ {0} /\ Len(s) \in Nat
  BY DriverAssumption
<1>2. CASE Len(s) > Limit
  <2>1. \A i \in 1..Limit : s[i] \in Diagnostics
    BY <1>1, <1>2
  <2>2. SubSeq(s, 1, Limit) \in Seq(Diagnostics) /\ Len(SubSeq(s, 1, Limit)) = Limit
    BY <1>1, <2>1, SubSeqProperties
  <2>3. Kept(s) = SubSeq(s, 1, Limit)
    BY <1>2 DEF Kept
  <2> QED
    BY <1>1, <1>2, <2>2, <2>3, EmptySeq
<1>3. CASE ~(Len(s) > Limit)
  BY <1>3 DEF Kept
<1> QED
  BY <1>2, <1>3

LEMMA Emitted ==
  ASSUME Typed, NEW count \in Nat, NEW sourced \in BOOLEAN, Emit(count, sourced)
  PROVE  sink' \in Seq(Diagnostics) /\ (sink' = <<>> <=> sink = <<>> /\ count = 0)
<1> DEFINE more == Report(count, sourced)
<1>1. more \in Seq(Diagnostics) /\ Len(more) = count
  BY DEF Report, Diagnostics, Typed
<1>2. sink \in Seq(Diagnostics) /\ sink' = Kept(sink \o more)
  BY DEF Typed, Emit
<1> HIDE DEF more
<1>3. sink \o more \in Seq(Diagnostics) /\ Len(sink \o more) = Len(sink) + count
  BY <1>1, <1>2
<1>4. sink \o more = <<>> <=> sink = <<>> /\ count = 0
  BY <1>1, <1>2, <1>3, EmptySeq
<1> QED
  BY <1>2, <1>3, <1>4, KeptSink

LEMMA Recording ==
  ASSUME Typed, NEW count \in Nat, NEW ok \in BOOLEAN
  PROVE  /\ Recorded(count, ok) \in Histories
         /\ Recorded(count, ok).troubled =
              IF count = 0 /\ ok THEN history.troubled ELSE history.troubled \cup {current}
BY DEF Recorded, Typed, Histories

LEMMA Printing ==
  ASSUME NEW s, NEW record \in Histories
  PROVE  Printed(s, record) \in Histories /\ Printed(s, record).troubled = record.troubled
<1> DEFINE late == \E i \in 1..Len(s) : s[i].sourced /\ s[i].input \notin alive
<1>1. Printed(s, record) = [record EXCEPT !.dangling = @ \/ late]
  BY DEF Printed
<1>2. (record.dangling \/ late) \in BOOLEAN
  OBVIOUS
<1> HIDE DEF late
<1> QED
  BY <1>1, <1>2 DEF Histories

-----------------------------------------------------------------------------
(* Before an input is taken *)

LEMMA DriverInitInv == DriverInit => DriverInv
<1> SUFFICES ASSUME DriverInit PROVE DriverInv
  OBVIOUS
<1>1. DOMAIN volume = {} /\ history.troubled = {} /\ history \in Histories
  BY DEF DriverInit, Histories
<1>2. options.inputs = <<>> /\ {"action", "inputs", "output", "outputSet"} \subseteq DOMAIN options
  BY DEF DriverInit, Defaults
<1>3. IsSeq(options.inputs)
  BY <1>2, EmptySeq DEF IsSeq
<1>4. Typed
  BY <1>1, <1>2, <1>3, EmptySeq DEF DriverInit, Typed
<1> QED
  BY <1>1, <1>4 DEF DriverInit, DriverInv, Starting, Working, Going, Finished, Fresh,
     OnlyCleanOutputs, StatusTruthful

LEMMA RefuseInv ==
  ASSUME DriverInv, phase = "options", Refuse, UNCHANGED command PROVE DriverInv'
<1>1. Typed /\ Fresh
  BY DEF DriverInv, Starting
<1>2. sink' \in Seq(Diagnostics)
  BY <1>1 DEF Refuse, Typed, Diagnostics
<1>3. history' \in Histories /\ history'.troubled = {}
  BY <1>1, Printing DEF Refuse, Typed, Fresh
<1>4. Typed'
  BY <1>1, <1>2, <1>3 DEF Refuse, Typed, command, input, parser
<1>5. phase' = "done" /\ status' = 1 /\ volume' = volume
  BY DEF Refuse, End
<1> QED
  BY <1>1, <1>3, <1>4, <1>5 DEF DriverInv, OnlyCleanOutputs, StatusTruthful, Fresh,
     Starting, Working, Going, Finished

LEMMA ExpandInv == DriverInv /\ (Expand \/ EndOfFile) => DriverInv'
<1> SUFFICES ASSUME DriverInv, Expand \/ EndOfFile PROVE DriverInv'
  OBVIOUS
<1>1. Typed /\ Fresh /\ phase = "expand"
  BY DEF DriverInv, Starting, Expand, EndOfFile
<1>2. /\ UNCHANGED <<current, good, failed, options, sink, volume, history>>
      /\ \/ phase' \in {"expand", "options"} /\ status' = status
         \/ phase' = "done" /\ status' = 1
  BY <1>1 DEF Expand, EndOfFile, End, input, parser
<1>3. Typed'
  BY <1>1, <1>2 DEF Typed
<1> QED
  BY <1>1, <1>2, <1>3 DEF DriverInv, OnlyCleanOutputs, StatusTruthful, Fresh,
     Starting, Working, Going, Finished

LEMMA OptionInv == DriverInv /\ Option => DriverInv'
<1> SUFFICES ASSUME DriverInv, Option PROVE DriverInv'
  OBVIOUS
<1>1. Typed /\ Fresh /\ phase = "options"
  BY DEF DriverInv, Starting, Option
<1>2. CASE Wrong /\ Refuse /\ UNCHANGED command
  BY <1>1, <1>2, RefuseInv
<1>3. CASE Flag \/ Valued \/ AddInput
  <2>1. UNCHANGED <<input, phase, sink, volume, status, history>>
    BY <1>3 DEF Flag, Valued, AddInput, Set
  <2>2. DOMAIN options' = DOMAIN options
    BY <1>3 DEF Flag, Valued, AddInput, Set
  <2>3. IsSeq(options'.inputs)
    <3>1. CASE Flag \/ Valued
      <4>1. options'.inputs = options.inputs
        BY <1>1, <3>1 DEF Flag, Valued, Set, Typed
      <4> QED
        BY <1>1, <4>1 DEF Typed
    <3>2. CASE AddInput
      <4>1. PICK S : options.inputs \in Seq(S)
        BY <1>1 DEF Typed, IsSeq
      <4>2. options'.inputs = Append(options.inputs, Word.name)
        BY <1>1, <3>2 DEF AddInput, Set, Typed
      <4>3. options.inputs \in Seq(S \cup {Word.name})
        BY <4>1, SeqMonotonic
      <4>4. options'.inputs \in Seq(S \cup {Word.name})
        BY <4>2, <4>3
      <4> QED
        BY <4>4 DEF IsSeq
    <3> QED
      BY <1>3, <3>1, <3>2
  <2>4. Typed'
    BY <1>1, <2>1, <2>2, <2>3 DEF Typed, input, parser
  <2> QED
    BY <1>1, <2>1, <2>4 DEF DriverInv, OnlyCleanOutputs, StatusTruthful, Fresh,
       Starting, Working, Going, Finished, input
<1> QED
  BY <1>2, <1>3 DEF Option

LEMMA ChooseInv == DriverInv /\ Choose => DriverInv'
<1> SUFFICES ASSUME DriverInv, Choose PROVE DriverInv'
  OBVIOUS
<1>1. Typed /\ Fresh /\ phase = "options"
  BY DEF DriverInv, Starting, Choose
<1>2. UNCHANGED <<reading, items, position, options>>
  BY DEF Choose, command
<1>3. CASE ~NeedsInput /\ End(0) /\ UNCHANGED <<input, sink, volume, history>>
  <2>1. Typed'
    BY <1>1, <1>2, <1>3 DEF Typed, input, parser
  <2> QED
    BY <1>1, <1>2, <1>3, <2>1 DEF DriverInv, OnlyCleanOutputs, StatusTruthful, Fresh, End,
       NeedsInput, Starting, Working, Going, Finished
<1>4. CASE Refuse
  BY <1>1, <1>2, <1>4, RefuseInv DEF command
<1>5. CASE options.action = "link" /\ phase' = "link" /\ UNCHANGED <<input, sink, volume, status, history>>
  <2>1. Typed'
    BY <1>1, <1>2, <1>5 DEF Typed, input, parser
  <2> QED
    BY <1>1, <1>2, <1>5, <2>1 DEF DriverInv, OnlyCleanOutputs, StatusTruthful, Fresh, input,
       Starting, Working, Going, Finished
<1>6. CASE /\ NeedsInput /\ options.action # "link"
           /\ options.inputs # <<>> /\ ~OutputForSeveral
           /\ Begin(1)
           /\ UNCHANGED <<good, before, parser, alive, sink, volume, status, history>>
  <2>1. Typed'
    BY <1>1, <1>2, <1>6 DEF Typed, parser, Begin
  <2>2. 1 \in 1..Len(options.inputs)
    BY <1>1, <1>6, EmptySeq DEF Typed, IsSeq
  <2>3. Chosen'
    BY <1>1, <1>2, <1>6, <2>2 DEF Chosen, Inputs, Fresh, Begin, NeedsInput, OutputForSeveral, Several
  <2>4. TroubleKnown' /\ Silent' /\ Written' /\ PhaseKnows'
    BY <1>1, <1>2, <1>6 DEF TroubleKnown, Trouble, Silent, Written, PhaseKnows, Fresh, Begin,
       Working, Going, Finished
  <2> QED
    BY <1>1, <1>2, <1>6, <2>1, <2>3, <2>4 DEF DriverInv, OnlyCleanOutputs, StatusTruthful, Fresh,
       Begin, Compiling, Starting, Working, Going, Finished
<1> QED
  BY <1>3, <1>4, <1>5, <1>6 DEF Choose

LEMMA Putting ==
  ASSUME NEW name, Put(name)
  PROVE  /\ DOMAIN volume' = DOMAIN volume \cup {name}
         /\ volume'[name] = current
         /\ \A other \in DOMAIN volume : other # name => volume'[other] = volume[other]
BY DEF Put

LEMMA Spoiling ==
  ASSUME NEW name, Spoil(name)
  PROVE  /\ DOMAIN volume' \subseteq DOMAIN volume
         /\ \A other \in DOMAIN volume' : volume'[other] = volume[other]
BY DEF Spoil

LEMMA LinkInv == DriverInv /\ Link => DriverInv'
<1> SUFFICES ASSUME DriverInv, Link PROVE DriverInv'
  OBVIOUS
<1>1. Typed /\ Fresh /\ phase = "link"
  BY DEF DriverInv, Starting, Link
<1>2. PICK count \in 0..MaxReports, success \in BOOLEAN :
        /\ success => count = 0
        /\ Emit(count, FALSE)
        /\ history' = Printed(sink', Recorded(count, success))
        /\ IF success THEN Put(Output) ELSE Spoil(Output)
        /\ End(IF success /\ sink' = <<>> THEN 0 ELSE 1)
  BY DEF Link
<1>3. UNCHANGED <<current, good, failed, options>>
  BY DEF Link, input, command, parser
<1>4. count \in Nat
  BY DriverAssumption
<1>5. sink' \in Seq(Diagnostics)
  BY <1>1, <1>2, <1>4, Emitted
<1>6. /\ history' \in Histories
      /\ history'.troubled = IF count = 0 /\ success THEN {} ELSE {current}
  BY <1>1, <1>2, <1>4, Recording, Printing DEF Fresh
<1>7. Typed'
  BY <1>1, <1>3, <1>5, <1>6 DEF Typed
<1>8. OnlyCleanOutputs'
  <2>1. CASE success
    BY <1>1, <1>2, <1>6, <2>1 DEF OnlyCleanOutputs
  <2>2. CASE ~success
    BY <1>1, <1>2, <1>6, <2>2, Spoiling DEF OnlyCleanOutputs, Fresh
  <2> QED
    BY <2>1, <2>2
<1>9. StatusTruthful'
  BY <1>1, <1>2, <1>3, <1>6 DEF StatusTruthful, End, Fresh
<1> QED
  BY <1>2, <1>7, <1>8, <1>9 DEF DriverInv, End, Starting, Working, Going, Finished

-----------------------------------------------------------------------------
(* An input *)

LEMMA Works ==
  ASSUME Typed', phase' \in Working \cup Finished, Compiling', OnlyCleanOutputs'
  PROVE  DriverInv'
BY DEF DriverInv, StatusTruthful, Starting, Working, Going, Finished

LEMMA Continues ==
  ASSUME DriverInv, phase \in Working \cup Finished
  PROVE  Typed /\ Chosen /\ TroubleKnown /\ Silent /\ Written /\ PhaseKnows /\ OnlyCleanOutputs
BY DEF DriverInv, Compiling

\* Nothing is written: the files there are those of the inputs before.
LEMMA StaysClean ==
  ASSUME OnlyCleanOutputs, PhaseKnows, phase \in Working, volume' = volume,
         history'.troubled \subseteq history.troubled \cup {current}
  PROVE  OnlyCleanOutputs'
BY DEF OnlyCleanOutputs, PhaseKnows

LEMMA Reporting ==
  ASSUME Typed, NEW count \in Nat, NEW sourced \in BOOLEAN, NEW ok \in BOOLEAN,
         Emit(count, sourced), history' = Recorded(count, ok), UNCHANGED <<options, current>>,
         good' \in BOOLEAN, failed' \in BOOLEAN
  PROVE  /\ Typed'
         /\ sink' = <<>> <=> sink = <<>> /\ count = 0
         /\ history'.troubled = IF count = 0 /\ ok THEN history.troubled
                                                   ELSE history.troubled \cup {current}
BY Emitted, Recording DEF Typed

\* What stays true when options, input and files stay.
LEMMA StaysChosen ==
  ASSUME Typed, Chosen, UNCHANGED <<options, current, volume>>,
         history'.troubled \subseteq history.troubled \cup {current}
  PROVE  Chosen'
BY DEF Chosen, Typed, Inputs, OutputForSeveral, Several, IsSeq

LEMMA LoadInv == DriverInv /\ Load => DriverInv'
<1> SUFFICES ASSUME DriverInv, Load PROVE DriverInv'
  OBVIOUS
<1>1. phase = "load" /\ phase \in Working
  BY DEF Load, Working
<1>2. Typed /\ Chosen /\ TroubleKnown /\ Silent /\ Written /\ PhaseKnows /\ OnlyCleanOutputs
  BY <1>1, Continues
<1>3. /\ UNCHANGED <<options, current, volume, status, failed>>
      /\ before' = Len(sink)
  BY DEF Load, command, parser
<1>4. CASE Goes("preprocess", TRUE) /\ UNCHANGED <<sink, history>>
  <2>1. Typed'
    BY <1>2, <1>3, <1>4 DEF Typed, Goes
  <2>2. Chosen' /\ OnlyCleanOutputs'
    BY <1>1, <1>2, <1>3, <1>4, StaysChosen, StaysClean
  <2>3. TroubleKnown' /\ Silent' /\ Written' /\ PhaseKnows'
    BY <1>1, <1>2, <1>3, <1>4, EmptySeq DEF TroubleKnown, Trouble, Silent, Written, PhaseKnows,
       Goes, Working, Going, Finished, OutputOf, Several, Derived
  <2> QED
    BY <1>4, <2>1, <2>2, <2>3, Works DEF Goes, Compiling, Working, Going, Finished
<1>5. CASE /\ sink' = Kept(Append(sink, [input |-> current, sourced |-> FALSE]))
           /\ history' = Printed(sink', Recorded(1, FALSE))
           /\ Goes("next", FALSE)
  <2>1. sink' \in Seq(Diagnostics) /\ sink' # <<>>
    <3> DEFINE more == Append(sink, [input |-> current, sourced |-> FALSE])
    <3>1. more \in Seq(Diagnostics) /\ Len(more) = Len(sink) + 1
      BY <1>2 DEF Typed, Diagnostics
    <3>2. more # <<>>
      BY <1>2, <3>1 DEF Typed
    <3> HIDE DEF more
    <3>3. Kept(more) \in Seq(Diagnostics) /\ Kept(more) # <<>>
      BY <3>1, <3>2, KeptSink
    <3> QED
      BY <1>5, <3>3 DEF more
  <2>2. history' \in Histories /\ history'.troubled = history.troubled \cup {current}
    BY <1>2, <1>5, Recording, Printing
  <2>3. Typed'
    BY <1>2, <1>3, <1>5, <2>1, <2>2 DEF Typed, Goes
  <2>4. Chosen' /\ OnlyCleanOutputs'
    BY <1>1, <1>2, <1>3, <2>2, StaysChosen, StaysClean
  <2>5. TroubleKnown' /\ Silent' /\ Written' /\ PhaseKnows'
    BY <1>1, <1>2, <1>3, <1>5, <2>1, <2>2 DEF TroubleKnown, Trouble, Silent, Written, PhaseKnows,
       Goes, Working, Going, Finished, OutputOf, Several, Derived
  <2> QED
    BY <1>5, <2>3, <2>4, <2>5, Works DEF Goes, Compiling, Working, Going, Finished
<1> QED
  BY <1>4, <1>5 DEF Load

LEMMA PreprocessInv == DriverInv /\ Preprocess => DriverInv'
<1> SUFFICES ASSUME DriverInv, Preprocess PROVE DriverInv'
  OBVIOUS
<1>1. phase = "preprocess" /\ phase \in Working /\ phase \in Going
  BY DEF Preprocess, Working, Going
<1>2. Typed /\ Chosen /\ TroubleKnown /\ Silent /\ Written /\ PhaseKnows /\ OnlyCleanOutputs
  BY <1>1, Continues
<1>3. PICK count \in 0..MaxReports, sourced \in BOOLEAN, ok \in BOOLEAN :
        Reports(count, sourced, ok) /\ GoesOn(AfterPreprocessing, ok /\ NothingNew)
  BY DEF Preprocess
<1>4. /\ UNCHANGED <<options, current, before, volume, status, failed>>
      /\ count \in Nat /\ good' \in BOOLEAN
      /\ Emit(count, sourced) /\ history' = Recorded(count, ok)
  BY <1>3, DriverAssumption DEF Preprocess, Reports, GoesOn, Goes, NothingNew, command
<1>5. /\ Typed'
      /\ sink' = <<>> <=> sink = <<>> /\ count = 0
      /\ history'.troubled = IF count = 0 /\ ok THEN history.troubled
                                                ELSE history.troubled \cup {current}
  BY <1>2, <1>4, Reporting DEF Typed
<1>6. Chosen' /\ OnlyCleanOutputs'
  BY <1>1, <1>2, <1>4, <1>5, StaysChosen, StaysClean
<1>7. CASE good'
  <2>1. ok /\ Len(sink') = Len(sink) /\ phase' = AfterPreprocessing
    BY <1>3, <1>7 DEF GoesOn, Goes, NothingNew
  <2>2. sink = <<>> => sink' = <<>>
    BY <1>2, <1>5, <2>1, EmptySeq DEF Typed
  <2>3. options.outputSet => current = 1
    BY <1>2 DEF Chosen, OutputForSeveral, Several, Typed, Inputs, IsSeq
  <2>4. /\ phase' \in {"create", "parse", "publish"}
        /\ phase' = "parse" => options.action = "ast"
        /\ phase' = "publish" => options.action # "compile"
    BY <2>1 DEF AfterPreprocessing
  <2>5. TroubleKnown' /\ Silent' /\ Written'
    BY <1>1, <1>2, <1>4, <1>5, <2>1, <2>2, <2>4 DEF TroubleKnown, Trouble, Silent, Written, PhaseKnows,
       Working, Going, Finished, OutputOf, Several, Derived
  <2>6. PhaseKnows'
    BY <1>1, <1>2, <1>4, <1>7, <2>2, <2>3, <2>4 DEF PhaseKnows, Working, Going
  <2> QED
    BY <1>5, <1>6, <2>4, <2>5, <2>6, Works DEF Compiling, Working, Going, Finished
<1>8. CASE ~good'
  <2>1. phase' = "leave"
    BY <1>3, <1>4, <1>8 DEF GoesOn, Goes, NothingNew
  <2>2. TroubleKnown' /\ Silent' /\ Written' /\ PhaseKnows'
    BY <1>1, <1>2, <1>4, <1>5, <1>8, <2>1 DEF TroubleKnown, Trouble, Silent, Written, PhaseKnows,
       Working, Going, Finished, OutputOf, Several, Derived
  <2> QED
    BY <1>5, <1>6, <2>1, <2>2, Works DEF Compiling, Working, Going, Finished
<1> QED
  BY <1>7, <1>8

LEMMA CreateInv == DriverInv /\ Create => DriverInv'
<1> SUFFICES ASSUME DriverInv, Create PROVE DriverInv'
  OBVIOUS
<1>1. phase = "create" /\ phase \in Working /\ phase \in Going /\ phase' = "declarations"
  BY DEF Create, Working, Going
<1>2. Typed /\ Chosen /\ TroubleKnown /\ Silent /\ Written /\ PhaseKnows /\ OnlyCleanOutputs
  BY <1>1, Continues
<1>3. /\ UNCHANGED <<options, current, good, before, sink, volume, status, history>>
      /\ failed' = FALSE
  BY DEF Create, Take, command
<1>4. Typed'
  BY <1>2, <1>3 DEF Typed
<1>5. Chosen' /\ OnlyCleanOutputs'
  BY <1>1, <1>2, <1>3, StaysChosen, StaysClean
<1>6. TroubleKnown' /\ Silent' /\ Written' /\ PhaseKnows'
  BY <1>1, <1>2, <1>3 DEF TroubleKnown, Trouble, Silent, Written, PhaseKnows,
     Working, Going, Finished, OutputOf, Several, Derived
<1> QED
  BY <1>1, <1>4, <1>5, <1>6, Works DEF Compiling, Working, Going, Finished

LEMMA DeclarationInv == DriverInv /\ Declaration => DriverInv'
<1> SUFFICES ASSUME DriverInv, Declaration PROVE DriverInv'
  OBVIOUS
<1>1. phase = "declarations" /\ phase \in Working /\ phase' = "declarations"
  BY DEF Declaration, Working, Going
<1>2. Typed /\ Chosen /\ TroubleKnown /\ Silent /\ Written /\ PhaseKnows /\ OnlyCleanOutputs
  BY <1>1, Continues
<1>3. PICK count \in 0..MaxReports, ok \in BOOLEAN :
        /\ Emit(count, TRUE)
        /\ history' = Recorded(count, ok)
        /\ \/ ~ok /\ count > 0 /\ UNCHANGED <<good, failed>>
           \/ ~ok /\ failed' = TRUE /\ UNCHANGED good
           \/ (ok => count = 0) /\ good' = ok /\ UNCHANGED failed
  BY DEF Declaration
<1>4. /\ UNCHANGED <<options, current, before, volume, status>>
      /\ count \in Nat /\ good' \in BOOLEAN /\ failed' \in BOOLEAN
      /\ good /\ ~failed
  <2>1. UNCHANGED <<options, current, before, volume, status>> /\ good /\ ~failed
    BY DEF Declaration, command
  <2>2. count \in Nat
    BY DriverAssumption
  <2>3. good' \in BOOLEAN /\ failed' \in BOOLEAN
    BY <1>2, <1>3, Zenon DEF Typed
  <2> QED
    BY <2>1, <2>2, <2>3
<1>5. /\ Typed'
      /\ sink' = <<>> <=> sink = <<>> /\ count = 0
      /\ history'.troubled = IF count = 0 /\ ok THEN history.troubled
                                                ELSE history.troubled \cup {current}
  BY <1>2, <1>3, <1>4, Reporting
<1>6. Chosen' /\ OnlyCleanOutputs'
  BY <1>1, <1>2, <1>4, <1>5, StaysChosen, StaysClean
<1>7. TroubleKnown'
  <2>1. CASE count > 0
    BY <1>5, <2>1 DEF TroubleKnown
  <2>2. CASE ~ok /\ ~(count > 0)
    <3>1. failed' = TRUE \/ good' = ok
      BY <1>3, <2>2
    <3> QED
      BY <1>1, <2>2, <3>1 DEF TroubleKnown
  <2>3. CASE ok /\ ~(count > 0)
    <3>1. history'.troubled = history.troubled /\ (sink' = <<>> <=> sink = <<>>)
      BY <1>4, <1>5, <2>3
    <3> QED
      BY <1>1, <1>2, <1>4, <3>1 DEF TroubleKnown, Trouble
  <2> QED
    BY <2>1, <2>2, <2>3
<1>8. Silent' /\ Written' /\ PhaseKnows'
  BY <1>1, <1>2, <1>4, <1>5 DEF Trouble, Silent, Written, PhaseKnows,
     Working, Going, Finished, OutputOf, Several, Derived
<1> QED
  BY <1>1, <1>5, <1>6, <1>7, <1>8, Works DEF Compiling, Working, Going, Finished

LEMMA FinishParsingInv == DriverInv /\ FinishParsing => DriverInv'
<1> SUFFICES ASSUME DriverInv, FinishParsing PROVE DriverInv'
  OBVIOUS
<1>1. phase = "declarations" /\ phase \in Working
  BY DEF FinishParsing, Working, Going
<1>2. Typed /\ Chosen /\ TroubleKnown /\ Silent /\ Written /\ PhaseKnows /\ OnlyCleanOutputs
  BY <1>1, Continues
<1>3. UNCHANGED <<options, current, before, failed, sink, volume, history>>
  BY DEF FinishParsing, command
<1>4. OnlyCleanOutputs'
  BY <1>2, <1>3 DEF OnlyCleanOutputs
<1>5. CASE End(Aborted) /\ UNCHANGED good
  BY <1>2, <1>3, <1>4, <1>5, DriverAssumption DEF DriverInv, Typed, End, StatusTruthful,
     Starting, Working, Going, Finished
<1>6. CASE LET success == good /\ ~failed /\ Accepted IN
           Goes(IF success THEN "encode" ELSE "leave", success) /\ UNCHANGED status
  <2>1. /\ status' = status /\ good' \in BOOLEAN
        /\ \/ phase' = "encode" /\ good' /\ good /\ ~failed /\ sink = <<>>
           \/ phase' = "leave" /\ ~good'
    BY <1>2, <1>3, <1>6 DEF Goes, Accepted, Typed
  <2>2. Typed' /\ Chosen'
    BY <1>2, <1>3, <2>1, StaysChosen DEF Typed
  <2>3. TroubleKnown' /\ Silent' /\ Written' /\ PhaseKnows'
    BY <1>1, <1>2, <1>3, <2>1 DEF TroubleKnown, Trouble, Silent, Written, PhaseKnows,
       Working, Going, Finished, OutputOf, Several, Derived
  <2> QED
    BY <1>4, <2>1, <2>2, <2>3, Works DEF Compiling, Working, Going, Finished
<1> QED
  BY <1>5, <1>6 DEF FinishParsing

LEMMA ParseInv == DriverInv /\ Parse => DriverInv'
<1> SUFFICES ASSUME DriverInv, Parse PROVE DriverInv'
  OBVIOUS
<1>1. phase = "parse" /\ phase \in Working /\ phase \in Going
  BY DEF Parse, Working, Going
<1>2. Typed /\ Chosen /\ TroubleKnown /\ Silent /\ Written /\ PhaseKnows /\ OnlyCleanOutputs
  BY <1>1, Continues
<1>3. PICK count \in 0..MaxReports, ok \in BOOLEAN :
        Reports(count, TRUE, ok) /\ GoesOn("publish", ok /\ Accepted /\ NothingNew)
  BY DEF Parse
<1>4. /\ UNCHANGED <<options, current, before, volume, status>> /\ failed' = FALSE
      /\ count \in Nat /\ good' \in BOOLEAN
      /\ Emit(count, TRUE) /\ history' = Recorded(count, ok)
  <2>1. UNCHANGED <<options, current, before, volume, status>> /\ failed' = FALSE
    BY <1>3 DEF Parse, Reports, Take, command
  <2>2. count \in Nat
    BY DriverAssumption
  <2>3. good' = (ok /\ Accepted /\ NothingNew)
    BY <1>3 DEF GoesOn, Goes
  <2>4. Emit(count, TRUE) /\ history' = Recorded(count, ok)
    BY <1>3 DEF Reports
  <2>5. good' \in BOOLEAN
    BY <2>3, Zenon DEF Accepted, NothingNew
  <2> QED
    BY <2>1, <2>2, <2>4, <2>5
<1>5. /\ Typed'
      /\ sink' = <<>> <=> sink = <<>> /\ count = 0
      /\ history'.troubled = IF count = 0 /\ ok THEN history.troubled
                                                ELSE history.troubled \cup {current}
  BY <1>2, <1>4, Reporting DEF Typed
<1>6. Chosen' /\ OnlyCleanOutputs'
  BY <1>1, <1>2, <1>4, <1>5, StaysChosen, StaysClean
<1>7. \/ ok /\ sink' = <<>> /\ good' /\ phase' = "publish"
      \/ ~good' /\ phase' = "leave"
  BY <1>3, <1>4 DEF GoesOn, Goes, NothingNew, Accepted
<1>8. TroubleKnown' /\ Silent' /\ Written' /\ PhaseKnows'
  BY <1>1, <1>2, <1>4, <1>5, <1>7 DEF TroubleKnown, Trouble, Silent, Written, PhaseKnows,
     Working, Going, Finished, OutputOf, Several, Derived
<1> QED
  BY <1>5, <1>6, <1>7, <1>8, Works DEF Compiling, Working, Going, Finished

LEMMA EncodeInv == DriverInv /\ Encode => DriverInv'
<1> SUFFICES ASSUME DriverInv, Encode PROVE DriverInv'
  OBVIOUS
<1>1. phase = "encode" /\ phase \in Working /\ phase \in Going
  BY DEF Encode, Working, Going
<1>2. Typed /\ Chosen /\ TroubleKnown /\ Silent /\ Written /\ PhaseKnows /\ OnlyCleanOutputs
  BY <1>1, Continues
<1>3. PICK count \in 0..MaxReports, ok \in BOOLEAN :
        Reports(count, TRUE, ok) /\ GoesOn("write", ok /\ count = 0)
  BY DEF Encode
<1>4. /\ UNCHANGED <<options, current, before, volume, status, failed>>
      /\ count \in Nat /\ good' \in BOOLEAN
      /\ Emit(count, TRUE) /\ history' = Recorded(count, ok)
  <2>1. UNCHANGED <<options, current, before, volume, status, failed>>
    BY <1>3 DEF Encode, Reports, command, parser
  <2>2. count \in Nat
    BY DriverAssumption
  <2>3. good' = (ok /\ count = 0)
    BY <1>3 DEF GoesOn, Goes
  <2>4. Emit(count, TRUE) /\ history' = Recorded(count, ok)
    BY <1>3 DEF Reports
  <2>5. good' \in BOOLEAN
    BY <2>3, Zenon
  <2> QED
    BY <2>1, <2>2, <2>4, <2>5
<1>5. /\ Typed'
      /\ sink' = <<>> <=> sink = <<>> /\ count = 0
      /\ history'.troubled = IF count = 0 /\ ok THEN history.troubled
                                                ELSE history.troubled \cup {current}
  BY <1>2, <1>4, Reporting DEF Typed
<1>6. Chosen' /\ OnlyCleanOutputs'
  BY <1>1, <1>2, <1>4, <1>5, StaysChosen, StaysClean
<1>7. \/ ok /\ count = 0 /\ good' /\ phase' = "write"
      \/ ~good' /\ phase' = "leave"
  BY <1>3, <1>4 DEF GoesOn, Goes
<1>8. TroubleKnown' /\ Silent' /\ Written' /\ PhaseKnows'
  BY <1>1, <1>2, <1>4, <1>5, <1>7 DEF TroubleKnown, Trouble, Silent, Written, PhaseKnows,
     Working, Going, Finished, OutputOf, Several, Derived
<1> QED
  BY <1>5, <1>6, <1>7, <1>8, Works DEF Compiling, Working, Going, Finished

\* A file is put, or one is spoiled.
LEMMA FilesChosen ==
  ASSUME Typed, Chosen, UNCHANGED <<options, current>>, NEW name, Put(name) \/ Spoil(name),
         history'.troubled \subseteq history.troubled \cup {current}
  PROVE  Chosen'
<1>1. \A n \in DOMAIN volume' : volume'[n] \in 1..current
  <2>1. current \in 1..current /\ \A n \in DOMAIN volume : volume[n] \in 1..current
    BY DEF Chosen, Typed, Inputs
  <2>2. CASE Put(name)
    BY <2>1, <2>2, Putting
  <2>3. CASE Spoil(name)
    BY <2>1, <2>3, Spoiling
  <2> QED
    BY <2>2, <2>3
<1> QED
  BY <1>1 DEF Chosen, Typed, Inputs, OutputForSeveral, Several, IsSeq

LEMMA PutClean ==
  ASSUME OnlyCleanOutputs, NEW name, Put(name), ~Trouble,
         history'.troubled = history.troubled
  PROVE  OnlyCleanOutputs'
BY Putting DEF OnlyCleanOutputs, Trouble

LEMMA SpoilClean ==
  ASSUME OnlyCleanOutputs, NEW name, Spoil(name), PhaseKnows, phase \in Working,
         history'.troubled \subseteq history.troubled \cup {current}
  PROVE  OnlyCleanOutputs'
BY Spoiling DEF OnlyCleanOutputs, PhaseKnows

LEMMA WriteInv == DriverInv /\ Write => DriverInv'
<1> SUFFICES ASSUME DriverInv, Write PROVE DriverInv'
  OBVIOUS
<1>1. phase = "write" /\ phase \in Working /\ phase \in Going
  BY DEF Write, Working, Going
<1>2. Typed /\ Chosen /\ TroubleKnown /\ Silent /\ Written /\ PhaseKnows /\ OnlyCleanOutputs
  BY <1>1, Continues
<1>3. UNCHANGED <<options, current, before, failed, status>> /\ phase' = "leave"
  BY DEF Write, command, parser, Goes
<1>4. good /\ sink = <<>> /\ ~Trouble
  BY <1>1, <1>2 DEF PhaseKnows, TroubleKnown
<1>5. CASE Put(Output) /\ Goes("leave", TRUE) /\ UNCHANGED <<sink, history>>
  <2>1. Typed'
    BY <1>2, <1>3, <1>5 DEF Typed, Goes
  <2>2. Chosen' /\ OnlyCleanOutputs'
    BY <1>2, <1>3, <1>4, <1>5, FilesChosen, PutClean
  <2>3. TroubleKnown' /\ Silent' /\ PhaseKnows'
    BY <1>1, <1>2, <1>3, <1>4, <1>5 DEF TroubleKnown, Trouble, Silent, PhaseKnows, Goes,
       Working, Going, Finished
  <2>4. Written'
    <3>1. DOMAIN volume' = DOMAIN volume \cup {Output}
      BY <1>5, Putting
    <3>2. options.action = "compile" => Output = OutputOf(current)
      BY DEF Output, OutputOf
    <3>3. status = 0 /\ options.action = "compile"
            => \A n \in 1..(current - 1) : OutputOf(n) \in DOMAIN volume
      BY <1>1, <1>2 DEF Written, Finished
    <3> SUFFICES ASSUME status = 0, options.action = "compile"
                 PROVE  /\ \A n \in 1..(current - 1) : OutputOf(n) \in DOMAIN volume'
                        /\ OutputOf(current) \in DOMAIN volume'
      BY <1>3 DEF Written, OutputOf, Several, Derived
    <3> QED
      BY <3>1, <3>2, <3>3
  <2> QED
    BY <1>3, <2>1, <2>2, <2>3, <2>4, Works DEF Compiling, Finished
<1>6. CASE Emit(1, FALSE) /\ history' = Recorded(1, FALSE) /\ Goes("leave", FALSE) /\ Spoil(Output)
  <2>1. /\ Typed' /\ sink' # <<>> /\ good' = FALSE
        /\ history'.troubled = history.troubled \cup {current}
    <3>1. good' = FALSE /\ 1 \in Nat /\ FALSE \in BOOLEAN /\ failed' \in BOOLEAN
      BY <1>2, <1>3, <1>6 DEF Typed, Goes
    <3> QED
      <4>1. Emit(1, FALSE) /\ history' = Recorded(1, FALSE) /\ UNCHANGED <<options, current>>
        BY <1>3, <1>6
      <4>2. good' \in BOOLEAN
        BY <3>1
      <4>3. /\ Typed' /\ (sink' = <<>> <=> sink = <<>> /\ 1 = 0)
            /\ history'.troubled = IF 1 = 0 /\ FALSE THEN history.troubled
                                                     ELSE history.troubled \cup {current}
        BY <1>2, <3>1, <4>1, <4>2, Reporting
      <4> QED
        BY <3>1, <4>3
  <2>2. Chosen' /\ OnlyCleanOutputs'
    BY <1>1, <1>2, <1>3, <1>6, <2>1, FilesChosen, SpoilClean
  <2>3. TroubleKnown' /\ PhaseKnows' /\ Silent' /\ Written'
    BY <1>1, <1>2, <1>3, <1>4, <2>1 DEF TroubleKnown, Trouble, PhaseKnows, Silent, Written,
       Working, Going, Finished
  <2> QED
    BY <1>3, <2>1, <2>2, <2>3, Works DEF Compiling, Finished
<1> QED
  BY <1>5, <1>6 DEF Write

\* Preprocessed tokens go to a file only when there is one input, and then
\* nothing was reported when it comes to that.
LEMMA PublishInv == DriverInv /\ Publish => DriverInv'
<1> SUFFICES ASSUME DriverInv, Publish PROVE DriverInv'
  OBVIOUS
<1>1. phase = "publish" /\ phase \in Working /\ phase \in Going
  BY DEF Publish, Working, Going
<1>2. Typed /\ Chosen /\ TroubleKnown /\ Silent /\ Written /\ PhaseKnows /\ OnlyCleanOutputs
  BY <1>1, Continues
<1>3. PICK ok \in BOOLEAN :
        /\ IF ~(options.action = "preprocess" /\ options.outputSet
                  /\ options.output # File("-", ""))
           THEN UNCHANGED volume
           ELSE IF ok THEN Put(Output) ELSE Spoil(Output)
        /\ history' = Recorded(0, ok)
        /\ Goes("leave", ok)
  BY DEF Publish
<1>4. /\ UNCHANGED <<options, current, before, failed, sink, status>>
      /\ phase' = "leave" /\ good' = ok /\ good /\ options.action # "compile"
  BY <1>1, <1>2, <1>3 DEF Publish, command, parser, Goes, PhaseKnows
<1>5. /\ history' \in Histories
      /\ history'.troubled = IF ok THEN history.troubled ELSE history.troubled \cup {current}
  BY <1>2, <1>3, Recording
<1>6. Typed'
  BY <1>2, <1>4, <1>5 DEF Typed
<1>7. Chosen' /\ OnlyCleanOutputs'
  <2>1. CASE UNCHANGED volume
    BY <1>1, <1>2, <1>4, <1>5, <2>1, StaysChosen, StaysClean
  <2>2. CASE ok /\ Put(Output) /\ options.action = "preprocess" /\ options.outputSet
    <3>1. ~Trouble
      BY <1>1, <1>2, <2>2 DEF PhaseKnows, TroubleKnown, Going
    <3> QED
      BY <1>2, <1>4, <1>5, <2>2, <3>1, FilesChosen, PutClean
  <2>3. CASE Spoil(Output)
    BY <1>1, <1>2, <1>4, <1>5, <2>3, FilesChosen, SpoilClean
  <2> QED
    BY <1>3, <2>1, <2>2, <2>3
<1>8. TroubleKnown'
  <2>1. CASE ok
    BY <1>1, <1>2, <1>4, <1>5, <2>1 DEF TroubleKnown, Trouble
  <2>2. CASE ~ok
    BY <1>4, <2>2 DEF TroubleKnown
  <2> QED
    BY <2>1, <2>2
<1>9. Silent' /\ Written' /\ PhaseKnows'
  BY <1>1, <1>2, <1>4, <1>5 DEF Silent, Written, PhaseKnows, Working, Going, Finished
<1> QED
  BY <1>4, <1>6, <1>7, <1>8, <1>9, Works DEF Compiling, Finished

LEMMA LeaveInv == DriverInv /\ Leave => DriverInv'
<1> SUFFICES ASSUME DriverInv, Leave PROVE DriverInv'
  OBVIOUS
<1>1. phase = "leave" /\ phase \in Working \cup Finished
  BY DEF Leave, Finished
<1>2. Typed /\ Chosen /\ TroubleKnown /\ Silent /\ Written /\ PhaseKnows /\ OnlyCleanOutputs
  BY <1>1, Continues
<1>3. /\ UNCHANGED <<options, current, before, failed, sink, volume, status>>
      /\ phase' = "next" /\ good' = Verdict
  BY DEF Leave, command, Goes
<1>4. history' \in Histories /\ history'.troubled = history.troubled
  BY <1>2, Printing DEF Leave, Typed
<1>5. good' \in BOOLEAN /\ (good' => good /\ Len(sink) = before)
  BY <1>2, <1>3 DEF Verdict, Typed
<1>6. Typed'
  BY <1>2, <1>3, <1>4, <1>5 DEF Typed
<1>7. Chosen' /\ OnlyCleanOutputs'
  BY <1>2, <1>3, <1>4, StaysChosen DEF OnlyCleanOutputs
<1>8. TroubleKnown'
  BY <1>1, <1>2, <1>3, <1>4, <1>5 DEF TroubleKnown, Trouble
<1>9. Silent'
  <2>1. status = 0 /\ good' => sink = <<>>
    BY <1>1, <1>2, <1>5, EmptySeq DEF Silent, Typed, Working, Going
  <2> QED
    BY <1>1, <1>2, <1>3, <1>4, <2>1 DEF Silent, Working, Going
<1>10. Written' /\ PhaseKnows'
  BY <1>1, <1>2, <1>3, <1>5 DEF Written, PhaseKnows, Working, Going, Finished, OutputOf, Several, Derived
<1> QED
  BY <1>3, <1>6, <1>7, <1>8, <1>9, <1>10, Works DEF Compiling, Finished

LEMMA NextInputInv == DriverInv /\ NextInput => DriverInv'
<1> SUFFICES ASSUME DriverInv, NextInput PROVE DriverInv'
  OBVIOUS
<1>1. phase = "next" /\ phase \in Working \cup Finished
  BY DEF NextInput, Finished
<1>2. Typed /\ Chosen /\ TroubleKnown /\ Silent /\ Written /\ PhaseKnows /\ OnlyCleanOutputs
  BY <1>1, Continues
<1>3. UNCHANGED <<options, good, before, failed, sink, volume>>
  BY DEF NextInput, command, parser
<1>4. history' \in Histories /\ history'.troubled = history.troubled
  BY <1>2 DEF NextInput, Typed, Histories
<1>5. OnlyCleanOutputs'
  BY <1>2, <1>3, <1>4 DEF OnlyCleanOutputs
<1>6. status' = Worse /\ (status' = 0 => status = 0 /\ good)
  BY <1>1 DEF NextInput, Begin, End, Worse
<1>7. status' = 0 => history.troubled = {} /\ sink = <<>>
  BY <1>1, <1>2, <1>6 DEF Silent, TroubleKnown, Trouble
<1>8. Len(options.inputs) \in Nat /\ current \in Nat /\ current \in 1..Len(options.inputs)
  BY <1>2 DEF Typed, IsSeq, Chosen, Inputs
<1>9. CASE current < Len(options.inputs)
  <2>1. phase' = "load" /\ current' = current + 1
    BY <1>9 DEF NextInput, Begin, Following
  <2>2. Typed'
    BY <1>2, <1>3, <1>4, <1>8, <2>1 DEF Typed
  <2>3. Chosen'
    BY <1>2, <1>3, <1>4, <1>8, <1>9, <2>1 DEF Chosen, Inputs, OutputForSeveral, Several
  <2>4. TroubleKnown' /\ Silent' /\ PhaseKnows'
    <3>1. ~Trouble' /\ current' # 1
      BY <1>2, <1>4, <1>8, <2>1 DEF Trouble, Chosen
    <3>2. \A name \in DOMAIN volume : volume[name] # current'
      BY <1>2, <1>8, <2>1 DEF Chosen
    <3> QED
      BY <1>3, <1>4, <1>7, <2>1, <3>1, <3>2 DEF TroubleKnown, Silent, PhaseKnows, Working, Going, Finished
  <2>5. Written'
    <3>1. \A n \in 1..(current' - 1) : n \in 1..(current - 1) \/ n = current
      BY <1>8, <2>1
    <3> QED
      BY <1>1, <1>2, <1>3, <1>6, <2>1, <3>1 DEF Written, Finished, OutputOf, Several, Derived
  <2> QED
    BY <1>5, <2>1, <2>2, <2>3, <2>4, <2>5, Works DEF Compiling, Working
<1>10. CASE ~(current < Len(options.inputs))
  <2>1. phase' = "done" /\ current' = current
    BY <1>10 DEF NextInput, End
  <2>2. Typed'
    BY <1>2, <1>3, <1>4, <2>1 DEF Typed
  <2>3. ASSUME status' = 0, options.action = "compile", NEW n \in Inputs
        PROVE  OutputOf(n) \in DOMAIN volume
    <3>1. n \in 1..(current - 1) \/ n = current
      BY <1>8, <1>10 DEF Inputs
    <3> QED
      BY <1>1, <1>2, <1>6, <2>3, <3>1 DEF Written, Finished
  <2>4. StatusTruthful'
    <3>1. 1 \in Inputs
      BY <1>8 DEF Inputs
    <3> QED
      BY <1>3, <1>4, <1>7, <2>1, <2>3, <3>1 DEF StatusTruthful, Inputs, OutputOf, Several, Derived
  <2> QED
    BY <1>5, <2>1, <2>2, <2>4 DEF DriverInv, Starting, Working, Going, Finished
<1> QED
  BY <1>9, <1>10

-----------------------------------------------------------------------------
LEMMA DriverStepInv == DriverInv /\ [DriverNext]_driverVars => DriverInv'
<1> SUFFICES ASSUME DriverInv, [DriverNext]_driverVars PROVE DriverInv'
  OBVIOUS
<1>1. CASE UNCHANGED driverVars
  <2>1. UNCHANGED <<phase, options, sink, current, good, before, failed, volume, status, history>>
    BY <1>1 DEF driverVars
  <2>2. Typed' <=> Typed
    BY <2>1 DEF Typed
  <2>3. Fresh' <=> Fresh
    BY <2>1 DEF Fresh
  <2>4. Compiling' <=> Compiling
    BY <2>1 DEF Compiling, Chosen, TroubleKnown, Trouble, Silent, Written, PhaseKnows, Inputs,
       OutputForSeveral, OutputOf, Several, Derived
  <2>5. (OnlyCleanOutputs' <=> OnlyCleanOutputs) /\ (StatusTruthful' <=> StatusTruthful)
    BY <2>1 DEF OnlyCleanOutputs, StatusTruthful, NeedsInput, Inputs, Several, Derived
  <2> QED
    BY <2>1, <2>2, <2>3, <2>4, <2>5 DEF DriverInv
<1>2. CASE DriverNext
  BY <1>2, ExpandInv, OptionInv, ChooseInv, LinkInv, LoadInv, PreprocessInv, ParseInv, CreateInv,
     DeclarationInv, FinishParsingInv, EncodeInv, WriteInv, PublishInv, LeaveInv, NextInputInv
     DEF DriverNext
<1> QED
  BY <1>1, <1>2

\* The driver knows of every trouble by a diagnostic, by `good` or by the parser's
\* failure, through all phases of compile_one and from input to input.
THEOREM DriverInductive == DriverSpec => []DriverInv
BY DriverInitInv, DriverStepInv, PTL DEF DriverSpec

\* Exit status 0 means that no input was in trouble and, compiling, that every object is
\* there: for any command line, any number of inputs and any limit of the sink.
THEOREM StatusTold == DriverSpec => []StatusTruthful
<1>1. DriverInv => StatusTruthful
  BY DEF DriverInv
<1> QED
  BY <1>1, DriverInductive, PTL

\* compile_one and the linker leave files only of inputs that were never in trouble.
THEOREM OutputsClean == DriverSpec => []OnlyCleanOutputs
<1>1. DriverInv => OnlyCleanOutputs
  BY DEF DriverInv
<1> QED
  BY <1>1, DriverInductive, PTL
=============================================================================
