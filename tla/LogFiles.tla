------------------------------- MODULE LogFiles -------------------------------
(***************************************************************************)
(* The log files of utils/log.c: messages appended to the current file,    *)
(* rotated through numbered files when it has grown to max_file_size.  A   *)
(* thread looks at g_log_initialized and the level before it takes the     *)
(* lock, so init and shutdown may come in between.                         *)
(***************************************************************************)
EXTENDS Naturals, Sequences, FiniteSets

CONSTANTS MaxFileCount, MaxFileSize,  \* max_file_count; max_file_size, in messages
          MaxWaiting, MaxMessages, MaxStayed  \* bounds on the run

ASSUME LogAssumption == {MaxFileCount, MaxFileSize} \subseteq Nat \ {0}

VARIABLES logInitialized, fileOutput,
          fileHandle, \* TRUE when file_handle is not NULL
          logFiles,   \* the messages of log_file, log_file.1, log_file.2, ...
          waiting,    \* threads past the check and not yet at the lock
          written,    \* history: messages written to a file so far
          stayed      \* history: files that a rotation failed to rename

logVars == <<logInitialized, fileOutput, fileHandle, logFiles, waiting, written, stayed>>

LogInit == /\ logInitialized = FALSE /\ fileOutput = FALSE /\ fileHandle = FALSE
           /\ logFiles = [i \in 1 .. MaxFileCount |-> <<>>]
           /\ waiting = 0 /\ written = 0 /\ stayed = 0

\* xsan_log_init: an open handle is overwritten, not closed; a file that cannot be
\* opened leaves g_log_initialized as it was.  No file is opened when the
\* configuration wants none or does not name one: the handle stays what it was.
LogStart(output) ==
  /\ fileOutput' = output
  /\ \/ logInitialized' = TRUE /\ UNCHANGED fileHandle
     \/ output /\ fileHandle' = TRUE /\ logInitialized' = TRUE
     \/ output /\ fileHandle' = FALSE /\ UNCHANGED logInitialized
  /\ UNCHANGED <<logFiles, waiting, written, stayed>>

\* xsan_log_shutdown
LogShutdown == /\ fileHandle' = FALSE /\ logInitialized' = FALSE
               /\ UNCHANGED <<fileOutput, logFiles, waiting, written, stayed>>

\* xsan_log_message up to the lock, for a message of a level that is logged.
LogEnter == /\ logInitialized /\ waiting < MaxWaiting
            /\ waiting' = waiting + 1
            /\ UNCHANGED <<logInitialized, fileOutput, fileHandle, logFiles, written, stayed>>

\* Faulty variant of Rotated: the renames go from the current file up.
RotatedUp(chain, renamed) ==
  [i \in DOMAIN chain |-> IF i = MaxFileCount /\ renamed # {} THEN chain[1]
                          ELSE IF renamed # {} THEN <<>> ELSE chain[i]]

\* The renames of rotate_log_file, from the last number down: the file before each place
\* in renamed takes that name.  A rename that fails, or finds no such file, leaves what
\* has that name, unless it moved on itself; nobody looks at the result of rename.
Rotated(chain, renamed) ==
  [i \in DOMAIN chain |-> IF i \in renamed /\ chain[i - 1] # <<>> THEN chain[i - 1]
                          ELSE IF i + 1 \in renamed THEN <<>>
                          ELSE chain[i]]

\* check_log_rotation
Full(current) == Len(current) >= MaxFileSize

\* xsan_log_message with the lock held.  A full file is renamed, with the ones before
\* it, and the current one opened empty, also when it could not be renamed.  If it
\* cannot be opened the message is not written, nor is any later one.
LogWrite ==
  /\ waiting > 0 /\ waiting' = waiting - 1
  /\ written < MaxMessages
  /\ \/ /\ ~(fileOutput /\ fileHandle)
        /\ UNCHANGED <<logFiles, fileHandle, written, stayed>>
     \/ /\ fileOutput /\ fileHandle /\ ~Full(logFiles[1])
        /\ logFiles' = [logFiles EXCEPT ![1] = Append(@, written + 1)]
        /\ written' = written + 1 /\ UNCHANGED <<fileHandle, stayed>>
     \/ /\ fileOutput /\ fileHandle /\ Full(logFiles[1])
        /\ \E renamed \in SUBSET (2 .. MaxFileCount) :
             /\ stayed' = stayed + Cardinality({i \in (2 .. MaxFileCount) \ renamed :
                                                  logFiles[i - 1] # <<>>})
             /\ stayed' <= MaxStayed
             /\ \/ /\ logFiles' = [Rotated(logFiles, renamed) EXCEPT ![1] = <<written + 1>>]
                   /\ written' = written + 1 /\ UNCHANGED fileHandle
                \/ /\ logFiles' = Rotated(logFiles, renamed)
                   /\ fileHandle' = FALSE /\ UNCHANGED written
  /\ UNCHANGED <<logInitialized, fileOutput>>

LogNext == \/ \E output \in BOOLEAN : LogStart(output)
           \/ LogShutdown \/ LogEnter \/ LogWrite

LogSpec == LogInit /\ [][LogNext]_logVars

-----------------------------------------------------------------------------
(* Properties *)

\* The messages of the files, from the oldest file to the current one.
ReadBack(chain) ==
  LET n == Len(chain)
      old == [i \in 1 .. n |-> chain[n - i + 1]]
      joined[i \in 1 .. n] == IF i = 1 THEN old[i] ELSE joined[i - 1] \o old[i]
  IN  joined[n]

\* Messages that fit into the rotated files.
RotatedRoom == MaxFileSize * (MaxFileCount - 1)

\* Read from the oldest file to the current one, the log is in order and ends with the
\* last message written, however often the log was shut down, initialised again, or
\* failed to reopen or rename a file.  It keeps at least what fits into the rotated
\* files, less one file for each rename that failed, and has no gap when none failed.
LogKeepsNewest ==
  LET kept == ReadBack(logFiles)
      n == Len(kept)
  IN  /\ \A i \in 1 .. n - 1 : kept[i] < kept[i + 1]
      /\ written > 0 => n > 0 /\ kept[n] = written
      /\ \E m \in {written, RotatedRoom} : n + MaxFileSize * stayed >= m
      /\ stayed = 0 => \A i \in 1 .. n : kept[i] = written - n + i
      /\ \A i \in 1 .. MaxFileCount : Len(logFiles[i]) <= MaxFileSize
=============================================================================
