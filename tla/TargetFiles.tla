---------------------------- MODULE TargetFiles ----------------------------
(***************************************************************************)
(* Files on the target: the handle calls of src/runtime/target_file.c and  *)
(* the streams of src/runtime/target_stdio.c, over the target's one        *)
(* directory and its table of handles. One program runs at a time; what it *)
(* does not control is which service call fails, and how far a read or a   *)
(* write gets.                                                             *)
(*                                                                         *)
(* A file is its length. A path is <<kind, name>>: "bare", "rooted" (a     *)
(* leading separator) or "other" (some other directory or drive).          *)
(***************************************************************************)
EXTENDS Integers, FiniteSets

CONSTANTS
  Names,        \* the names files may have
  HandleLimit,  \* how many files may be open, thirteen
  ServiceLimit, \* CC64_SERVICE_LIMIT
  MaxLength,    \* how long a file may be before the volume is full
  Wants,        \* the sizes asked of fread and fwrite
  StreamLimit   \* how many streams the program opens at a time

ASSUME FilesAssumption ==
  /\ {HandleLimit, ServiceLimit, MaxLength, StreamLimit} \subseteq Nat
  /\ ServiceLimit > 0
  /\ Wants \subseteq Nat \ {0}

VARIABLES
  files,   \* the directory: length by name
  table,   \* the target's handles: [name, position]
  streams, \* cc64_file, by the handle it was opened with
  fds,     \* the handles the program got from open
  call,    \* the fread or fwrite that runs
  result   \* what the last call answered

vars == <<files, table, streams, fds, call, result>>

Paths == {"bare", "rooted", "other"} \X Names
NoName == "none"
NoPath == <<"none", NoName>>
Failed == -1
Idle == [name |-> "none"]

Handles == 3..(HandleLimit + 2)
FreeHandles == Handles \ DOMAIN table

Extend(f, x, v) == [y \in DOMAIN f \cup {x} |-> IF y = x THEN v ELSE f[y]]
Without(f, x) == [y \in DOMAIN f \ {x} |-> f[y]]

\* What a call answered, and the name it gave the service for its path.
Answer(name, path, file, value) ==
  result' = [name |-> name, path |-> path, file |-> file, value |-> value]

\* The calls below run to their end between two of the program's steps.
Between == call = Idle /\ UNCHANGED call

-----------------------------------------------------------------------------
(* The services. Each may also refuse. *)

\* What a service makes of a name with a separator in it: nothing.
Reaches(path) == IF path[1] = "bare" THEN path[2] ELSE NoName

OpenAnswers(name) ==
  (IF name \in DOMAIN files THEN FreeHandles ELSE {}) \cup {Failed}

CreateAnswers(name) ==
  (IF name # NoName THEN FreeHandles ELSE {}) \cup {Failed}

Opened(handle, name) == table' = Extend(table, handle, [name |-> name, position |-> 0])

\* cc64_create makes the file, or empties the one that is there.
Created(handle, name) ==
  /\ files' = Extend(files, name, 0)
  /\ Opened(handle, name)

Close(handle) == table' = Without(table, handle)

LengthOf(handle) ==
  IF table[handle].name \in DOMAIN files THEN files[table[handle].name] ELSE 0

-----------------------------------------------------------------------------
(* Names *)

\* cc64_file_name: the root is the directory's own name, and no other directory
\* is reached.
FileName(path) == IF path[1] = "other" THEN NoName ELSE path[2]

\* The name fill_fcb builds the block for: the path's last component.
FcbName(path) == path[2]

-----------------------------------------------------------------------------
(* The handle calls *)

\* open. A handle for anything but reading is made by cc64_create, after the
\* one cc64_open gave is closed.
Open ==
  /\ Between
  /\ \E path \in Paths, mode \in {"read", "write", "both"},
        create \in BOOLEAN, truncate \in BOOLEAN :
       LET name == FileName(path)
           again == mode # "read" \/ truncate \/ create
       IN
       \/ /\ name = NoName
          /\ Answer("open", path, name, Failed)
          /\ UNCHANGED <<files, table, fds>>
       \/ /\ name # NoName
          /\ \E first \in OpenAnswers(name) :
               \/ /\ first # Failed /\ ~again
                  /\ Opened(first, name)
                  /\ fds' = fds \cup {first}
                  /\ Answer("open", path, name, first)
                  /\ UNCHANGED files
               \/ /\ IF first # Failed THEN again ELSE create
                  /\ \E second \in CreateAnswers(name) :
                       \/ /\ second # Failed
                          /\ Created(second, name)
                          /\ fds' = fds \cup {second}
                          /\ Answer("open", path, name, second)
                       \/ /\ second = Failed
                          /\ Answer("open", path, name, Failed)
                          /\ UNCHANGED <<files, table, fds>>
               \/ /\ first = Failed /\ ~create
                  /\ Answer("open", path, name, Failed)
                  /\ UNCHANGED <<files, table, fds>>
  /\ UNCHANGED streams

CloseHandle ==
  /\ Between
  /\ \E handle \in fds :
       /\ Close(handle)
       /\ fds' = fds \ {handle}
       /\ Answer("close", NoPath, NoName, 0)
  /\ UNCHANGED <<files, streams>>

\* read, write and lseek on a handle of open's: one service each.
MoveHandle ==
  /\ Between
  /\ \E handle \in fds : \E position \in 0..LengthOf(handle) :
       /\ table' = [table EXCEPT ![handle].position = position]
       /\ Answer("lseek", NoPath, NoName, position)
  /\ UNCHANGED <<files, streams, fds>>

\* access, stat and truncate close the handle they opened.
ClosesAgain(handle) == UNCHANGED table

Access ==
  /\ Between
  /\ \E path \in Paths :
       LET name == FileName(path) IN
       \/ /\ name = NoName
          /\ Answer("access", path, name, Failed)
          /\ UNCHANGED table
       \/ /\ name # NoName
          /\ \E handle \in OpenAnswers(name) :
               \/ handle = Failed /\ Answer("access", path, name, Failed) /\ UNCHANGED table
               \/ handle # Failed /\ Answer("access", path, name, 0) /\ ClosesAgain(handle)
  /\ UNCHANGED <<files, streams, fds>>

\* stat hands the path to the service as it is. size_of may fail.
Stat ==
  /\ Between
  /\ \E path \in Paths : \E handle \in OpenAnswers(Reaches(path)) :
       \/ /\ handle = Failed
          /\ Answer("stat", path, Reaches(path), Failed)
          /\ UNCHANGED table
       \/ /\ handle # Failed
          /\ \/ Answer("stat", path, Reaches(path), 0)
             \/ Answer("stat", path, Reaches(path), Failed)
          /\ ClosesAgain(handle)
  /\ UNCHANGED <<files, streams, fds>>

\* size_of finds the length by seeking to the end and back to the start.
Fstat ==
  /\ Between
  /\ \E handle \in fds : \E moved \in {"nowhere", "end", "start"} :
       /\ table' = [table EXCEPT ![handle].position =
                      CASE moved = "nowhere" -> @
                        [] moved = "end" -> LengthOf(handle)
                        [] moved = "start" -> 0]
       /\ Answer("fstat", NoPath, NoName, IF moved = "start" THEN 0 ELSE Failed)
  /\ UNCHANGED <<files, streams, fds>>

\* truncate creates the file anew, seeks and closes.
Truncate ==
  /\ Between
  /\ \E path \in Paths :
       LET name == FileName(path) IN
       \/ /\ name = NoName
          /\ Answer("truncate", path, name, Failed)
          /\ UNCHANGED <<files, table>>
       \/ /\ name # NoName
          /\ \E handle \in CreateAnswers(name) :
               \/ /\ handle = Failed
                  /\ Answer("truncate", path, name, Failed)
                  /\ UNCHANGED <<files, table>>
               \/ /\ handle # Failed
                  /\ files' = Extend(files, name, 0)
                  /\ ClosesAgain(handle)
                  /\ \/ Answer("truncate", path, name, 0)
                     \/ Answer("truncate", path, name, Failed)
  /\ UNCHANGED <<streams, fds>>

\* unlink. block_for leaves out the name's first character and ends in a zero
\* byte, which is no directory entry: the delete service never finds it.
Unlink ==
  /\ Between
  /\ \E path \in Paths : Answer("unlink", path, NoName, Failed)
  /\ UNCHANGED <<files, table, streams, fds>>

\* remove of target_stdio.c, of files that are not open.
RemoveFile ==
  /\ Between
  /\ \E path \in Paths :
       \/ /\ FcbName(path) \in DOMAIN files
          /\ \A handle \in DOMAIN table : table[handle].name # FcbName(path)
          /\ files' = Without(files, FcbName(path))
          /\ Answer("remove", path, FcbName(path), 0)
       \/ Answer("remove", path, FcbName(path), Failed) /\ UNCHANGED files
  /\ UNCHANGED <<table, streams, fds>>

-----------------------------------------------------------------------------
(* Streams *)

\* fopen. The stream's record is allocated after the handle, and the handle is
\* closed again when there is no memory for it.
Fopen ==
  /\ Between
  /\ Cardinality(DOMAIN streams) < StreamLimit
  /\ \E path \in Paths, writable \in BOOLEAN, memory \in BOOLEAN :
       LET name == FileName(path)
           answers == IF writable THEN CreateAnswers(name) ELSE OpenAnswers(name)
       IN
       \/ /\ name = NoName
          /\ Answer("fopen", path, name, Failed)
          /\ UNCHANGED <<files, table, streams>>
       \/ /\ name # NoName
          /\ \E handle \in answers :
               \/ /\ handle = Failed
                  /\ Answer("fopen", path, name, Failed)
                  /\ UNCHANGED <<files, table, streams>>
               \/ /\ handle # Failed
                  /\ files' = IF writable THEN Extend(files, name, 0) ELSE files
                  /\ IF memory
                     THEN /\ Opened(handle, name)
                          /\ streams' = Extend(streams, handle,
                               [writable |-> writable, eof |-> FALSE, error |-> FALSE,
                                position |-> 0])
                          /\ Answer("fopen", path, name, handle)
                     ELSE /\ ClosesAgain(handle)
                          /\ UNCHANGED streams
                          /\ Answer("fopen", path, name, Failed)
  /\ UNCHANGED fds

\* Only the handle of a stream that writes is given back.
ReleasesWritten(stream) == streams[stream].writable

\* Every handle a stream owns is released.
Releases(stream) == TRUE

Fclose ==
  /\ Between
  /\ \E stream \in DOMAIN streams :
       /\ IF Releases(stream) THEN Close(stream) ELSE UNCHANGED table
       /\ streams' = Without(streams, stream)
       /\ Answer("fclose", NoPath, NoName, 0)
  /\ UNCHANGED <<files, fds>>

Fread ==
  /\ call = Idle
  /\ \E stream \in DOMAIN streams, want \in Wants :
       call' = [name |-> "fread", stream |-> stream, want |-> want, done |-> 0]
  /\ UNCHANGED <<files, table, streams, fds, result>>

\* A stream that is not writable is refused.
Fwrite ==
  /\ call = Idle
  /\ \E stream \in DOMAIN streams, want \in Wants :
       \/ /\ streams[stream].writable
          /\ call' = [name |-> "fwrite", stream |-> stream, want |-> want, done |-> 0]
          /\ UNCHANGED <<streams, result>>
       \/ /\ ~streams[stream].writable
          /\ streams' = [streams EXCEPT ![stream].error = TRUE]
          /\ Answer("fwrite", NoPath, NoName, 0)
          /\ UNCHANGED call
  /\ UNCHANGED <<files, table, fds>>

Ask == IF call.want - call.done > ServiceLimit THEN ServiceLimit
                                               ELSE call.want - call.done

Position(stream) == table[stream].position

\* The position is moved by what was asked for.
MovedByAsk(moved) == Ask

\* The position is moved by what the service moved.
MovedBy(moved) == moved

Moved(moved) ==
  /\ table' = [table EXCEPT ![call.stream].position = @ + moved]
  /\ call' = [call EXCEPT !.done = @ + moved]

Returned(value) == call' = Idle /\ Answer(call.name, NoPath, NoName, value)

\* A refusal marks it too.
MarksEnd(moved) == moved <= 0

\* One service call of fread. No bytes and a refusal both end the loop, and both
\* count as the end of the file.
FreadMore ==
  LET stream == call.stream
      rest == LengthOf(stream) - Position(stream)
  IN
  /\ call.name = "fread"
  /\ \/ /\ call.done = call.want
        /\ Returned(call.done)
        /\ UNCHANGED <<table, streams>>
     \/ /\ call.done < call.want
        /\ \E moved \in 1..(IF Ask < rest THEN Ask ELSE rest) :
             /\ Moved(moved)
             /\ streams' = [streams EXCEPT ![stream].position = @ + MovedBy(moved)]
             /\ UNCHANGED result
     \/ /\ call.done < call.want
        /\ \E moved \in {0, Failed} :
             /\ moved = 0 => rest <= 0
             /\ streams' = [streams EXCEPT ![stream].eof = @ \/ MarksEnd(moved)]
             /\ Returned(call.done)
             /\ UNCHANGED table
  /\ UNCHANGED <<files, fds>>

\* One service call of fwrite. A refusal answers 0, whatever has been written.
FwriteMore ==
  LET stream == call.stream IN
  /\ call.name = "fwrite"
  /\ \/ /\ call.done = call.want
        /\ Returned(call.done)
        /\ UNCHANGED <<files, table, streams>>
     \/ /\ call.done < call.want
        /\ \E moved \in 1..Ask :
             LET end == Position(stream) + moved IN
             /\ end <= MaxLength
             /\ Moved(moved)
             /\ files' = [files EXCEPT ![table[stream].name] = IF end > @ THEN end ELSE @]
             /\ streams' = [streams EXCEPT ![stream].position = @ + MovedBy(moved)]
             /\ UNCHANGED result
     \/ /\ call.done < call.want
        /\ \/ /\ streams' = [streams EXCEPT ![stream].error = TRUE]
              /\ Returned(0)
           \/ Returned(call.done) /\ UNCHANGED streams
        /\ UNCHANGED <<files, table>>
  /\ UNCHANGED fds

\* The position of the stream is left as it was.
SeekForgets(stream, position) == streams[stream].position

\* fseek records where the service says it moved.
SeekRecords(stream, position) == position

\* fseek, and rewind with position 0.
Fseek ==
  /\ Between
  /\ \E stream \in DOMAIN streams :
       \/ \E position \in 0..LengthOf(stream) :
            /\ table' = [table EXCEPT ![stream].position = position]
            /\ streams' = [streams EXCEPT ![stream].position = SeekRecords(stream, position),
                                          ![stream].eof = FALSE]
            /\ Answer("fseek", NoPath, NoName, 0)
       \/ /\ UNCHANGED <<table, streams>>
          /\ Answer("fseek", NoPath, NoName, Failed)
  /\ UNCHANGED <<files, fds>>

Init ==
  /\ files \in UNION {[names -> {0, MaxLength}] : names \in SUBSET Names}
  /\ table = <<>> /\ streams = <<>> /\ fds = {}
  /\ call = Idle
  /\ result = [name |-> "none", path |-> NoPath, file |-> NoName, value |-> 0]

Next ==
  \/ Open \/ CloseHandle \/ MoveHandle \/ Access \/ Stat \/ Fstat \/ Truncate
  \/ Unlink \/ RemoveFile
  \/ Fopen \/ Fclose \/ Fread \/ FreadMore \/ Fwrite \/ FwriteMore \/ Fseek

Spec == Init /\ [][Next]_vars

-----------------------------------------------------------------------------
Entries == [name : Names, position : 0..MaxLength]
Streams == [writable : BOOLEAN, eof : BOOLEAN, error : BOOLEAN, position : 0..MaxLength]
Transfers ==
  [name : {"fread", "fwrite"}, stream : Handles, want : Wants, done : Nat]

FilesTyped == files \in [DOMAIN files -> 0..MaxLength] /\ DOMAIN files \subseteq Names

TypeOK ==
  /\ FilesTyped
  /\ table \in [DOMAIN table -> Entries] /\ DOMAIN table \subseteq Handles
  /\ streams \in [DOMAIN streams -> Streams]
  /\ fds \subseteq Handles
  /\ \/ call = Idle
     \/ /\ call \in Transfers
        /\ call.done <= call.want
        /\ call.stream \in DOMAIN streams

\* Every handle of the target's table belongs to a stream or to a handle the
\* program holds, and to one of them: none of the calls that open a file on the
\* way to their answer, or that fail after they opened it, leaves it open.
HandlesOwned ==
  /\ DOMAIN table = fds \cup DOMAIN streams
  /\ fds \cap DOMAIN streams = {}

\* ftell answers from the stream's own count of bytes: it is where the target's
\* handle stands, after short transfers, refused ones and seeks.
PositionTrue ==
  \A stream \in DOMAIN streams : streams[stream].position = table[stream].position

\* The types, who owns a handle and where it stands keep each other true.
FilesInv == TypeOK /\ HandlesOwned /\ PositionTrue

\* "A path a program composed from the working directory names the same file
\* whichever call it makes" (src/runtime/target_stdio.c:48).
SameFileEveryCall ==
  result.name \in {"open", "access", "stat", "truncate", "fopen"} =>
    result.file = FileName(result.path)

\* "A path that names any other directory is refused rather than reduced to its
\* last component" (src/runtime/target_file.c:186).
OtherDirectoryRefused ==
  [][result'.path[1] = "other" /\ result' # result => files' = files]_vars

\* unlink gives the delete service the name of the file its path names
\* (src/runtime/target_file.c:234).
UnlinkNamesFile ==
  result.name = "unlink" /\ result.path[1] # "other" => result.file = result.path[2]
=============================================================================
