-------------------------------- MODULE PerfLog --------------------------------
(***************************************************************************)
(* The performance log of Executive Services (cfe_es_perf.c): tasks add    *)
(* entries to a ring of BufferSize, around a trigger, until the log stops  *)
(* itself or a command stops it; that command also starts the dump, a job  *)
(* of the background task that goes through its states a few iterations    *)
(* at a time and holds the mutex of the log over several of its turns.     *)
(*                                                                         *)
(* An entry is its number since the capture was started; one that an       *)
(* earlier capture left in the ring is 0.  A filtered marker adds nothing, *)
(* and whether a marker is a trigger is a choice.                          *)
(***************************************************************************)
EXTENDS Integers, Sequences

CONSTANTS
  Tasks,        \* tasks that add entries
  BufferSize,   \* CFE_PLATFORM_ES_PERF_DATA_BUFFER_SIZE
  MaxRecords,   \* bound on the entries of a capture
  NoTask        \* nobody holds the mutex

ASSUME PerfAssumption ==
  BufferSize \in Nat \ {0, 1} /\ NoTask \notin Tasks \cup {"dump"} /\ "dump" \notin Tasks

VARIABLES
  MetaData,     \* of the log: State, Mode, TriggerCount, DataStart, DataEnd, DataCount
  DataBuffer,
  PerfDataMutex,\* who holds it
  adding,       \* where a task is in CFE_ES_PerfLogAdd
  dump,         \* BackgroundPerfDumpState: states, StateCounter, DataPos, and whether its file is open
  file,         \* history: entries of the file until the mutex is given, and whether every write succeeded
  capture       \* history: entries recorded, which is the trigger, stopped by itself, cut short by a reset

logVars  == <<MetaData, DataBuffer, capture>>
dumpVars == <<dump, file>>
perfVars == <<MetaData, DataBuffer, PerfDataMutex, adding, dump, file, capture>>

Modes == {"START", "CENTER", "END"}

DumpStates == <<"IDLE", "INIT", "OPEN_FILE", "DELAY", "LOCK_DATA", "WRITE_FS_HDR", "WRITE_PERF_METADATA",
                "WRITE_PERF_ENTRIES", "CLEANUP", "UNLOCK_DATA", "CLOSE_FILE">>

\* The state after s, by number; after the last one, idle.
StateAfter(s) ==
  LET i == CHOOSE i \in DOMAIN DumpStates : DumpStates[i] = s
  IN  IF i = Len(DumpStates) THEN "IDLE" ELSE DumpStates[i + 1]

NextSlot(i) == (i + 1) % BufferSize

DumpIdle == dump.CurrentState = "IDLE" /\ dump.PendingState = "IDLE"

EmptyLog(state, mode) ==
  [State |-> state, Mode |-> mode, TriggerCount |-> 0, DataStart |-> 0, DataEnd |-> 0, DataCount |-> 0]

EmptyCapture == [count |-> 0, trigger |-> 0, stoppedItself |-> FALSE, cut |-> FALSE]

IdleDump == [CurrentState |-> "IDLE", PendingState |-> "IDLE", StateCounter |-> 0, DataPos |-> 0, FileDesc |-> FALSE]

NoFile == [entries |-> <<>>, ok |-> FALSE]

PerfInit ==
  /\ MetaData = EmptyLog("IDLE", "START")
  /\ DataBuffer = [i \in 0..(BufferSize - 1) |-> 0]
  /\ PerfDataMutex = NoTask
  /\ adding = [t \in Tasks |-> "none"]
  /\ dump = IdleDump
  /\ file = NoFile
  /\ capture = EmptyCapture

--------------------------------------------------------------------------------
(* CFE_ES_StartPerfDataCmd *)
StartPerfDataCmd(mode) ==
  /\ DumpIdle
  /\ PerfDataMutex = NoTask
  /\ MetaData' = EmptyLog("WAITING", mode)
  /\ DataBuffer' = [i \in DOMAIN DataBuffer |-> 0]
  /\ capture' = EmptyCapture
  /\ UNCHANGED <<PerfDataMutex, adding, dumpVars>>

(* CFE_ES_StopPerfDataCmd, which does not take the mutex; the name of the  *)
(* file may be wrong.                                                      *)
StopPerfDataCmd(named) ==
  /\ DumpIdle
  /\ MetaData' = [MetaData EXCEPT !.State = "IDLE"]
  /\ dump' = IF named THEN [dump EXCEPT !.PendingState = "INIT"] ELSE dump
  /\ UNCHANGED <<DataBuffer, PerfDataMutex, adding, file, capture>>

--------------------------------------------------------------------------------
(* CFE_ES_PerfLogAdd reads the state of the log without the mutex... *)
PerfLogAdd(t) ==
  /\ adding[t] = "none"
  /\ MetaData.State # "IDLE"
  /\ adding' = [adding EXCEPT ![t] = "taking"]
  /\ UNCHANGED <<logVars, PerfDataMutex, dumpVars>>

\* What an entry does to ring and counters.
Added(log) ==
  LET end == NextSlot(log.DataEnd)
  IN  IF log.DataCount < BufferSize
      THEN [log EXCEPT !.DataEnd = end, !.DataCount = @ + 1]
      ELSE [log EXCEPT !.DataEnd = end, !.DataStart = end]

(* ... and again with it, and adds the entry; the state is read once more  *)
(* to tell whether the marker may be the trigger.                          *)
Record(t, isTrigger) ==
  /\ adding[t] = "taking"
  /\ PerfDataMutex = NoTask
  /\ MetaData.State # "IDLE"
  /\ capture.count < MaxRecords
  /\ DataBuffer' = [DataBuffer EXCEPT ![MetaData.DataEnd] = capture.count + 1]
  /\ MetaData' = Added(MetaData)
  /\ capture' = [capture EXCEPT !.count = @ + 1]
  /\ PerfDataMutex' = t
  /\ adding' = [adding EXCEPT ![t] = IF MetaData.State = "WAITING" /\ isTrigger THEN "trigger" ELSE "count"]
  /\ UNCHANGED dumpVars

\* The log was stopped while the task waited for the mutex.
RecordNothing(t) ==
  /\ adding[t] = "taking"
  /\ PerfDataMutex = NoTask
  /\ MetaData.State = "IDLE"
  /\ adding' = [adding EXCEPT ![t] = "none"]
  /\ UNCHANGED <<logVars, PerfDataMutex, dumpVars>>

(* The trigger is stored, whatever the state has become meanwhile. *)
StoreTriggered(t) ==
  /\ adding[t] = "trigger"
  /\ MetaData' = [MetaData EXCEPT !.State = "TRIGGERED"]
  /\ capture' = [capture EXCEPT !.trigger = capture.count]
  /\ adding' = [adding EXCEPT ![t] = "count"]
  /\ UNCHANGED <<DataBuffer, PerfDataMutex, dumpVars>>

\* Entries from the trigger on after which the log stops itself.
EntriesWanted(mode) ==
  CASE mode = "START" -> BufferSize [] mode = "CENTER" -> BufferSize \div 2 [] mode = "END" -> 1

(* The entry counts if the log is triggered, and the mutex is given. *)
CountEntry(t) ==
  /\ adding[t] = "count"
  /\ IF MetaData.State = "TRIGGERED"
     THEN LET stops == MetaData.TriggerCount + 1 >= EntriesWanted(MetaData.Mode)
          IN  /\ MetaData' = [MetaData EXCEPT !.TriggerCount = @ + 1, !.State = IF stops THEN "IDLE" ELSE @]
              /\ capture' = [capture EXCEPT !.stoppedItself = stops]
     ELSE UNCHANGED <<MetaData, capture>>
  /\ PerfDataMutex' = NoTask
  /\ adding' = [adding EXCEPT ![t] = "none"]
  /\ UNCHANGED <<DataBuffer, dumpVars>>

--------------------------------------------------------------------------------
(* CFE_ES_RunPerfLogDump: an iteration of its loop first enters the state  *)
(* that is pending, then finishes it or writes one of its blocks.          *)

Entering(s) == dump.PendingState = s /\ dump.CurrentState # s

Blocks(s) ==
  CASE s \in {"WRITE_FS_HDR", "WRITE_PERF_METADATA"} -> 1
    [] s = "WRITE_PERF_ENTRIES" -> MetaData.DataCount
    [] OTHER -> 0

\* The job once the state that is pending has been entered.
Entered ==
  IF dump.PendingState = dump.CurrentState THEN dump
  ELSE [dump EXCEPT !.CurrentState = dump.PendingState,
                    !.StateCounter = Blocks(dump.PendingState),
                    !.DataPos = IF dump.PendingState = "WRITE_PERF_ENTRIES" THEN MetaData.DataStart ELSE @]

\* Faulty form: the log is written to the file without the mutex.
LockNothing == UNCHANGED PerfDataMutex

\* The mutex is held from LOCK_DATA to UNLOCK_DATA, over the turns in between.
LockOrUnlock ==
  /\ Entering("LOCK_DATA") => PerfDataMutex = NoTask
  /\ PerfDataMutex' = IF Entering("LOCK_DATA") THEN "dump"
                      ELSE IF Entering("UNLOCK_DATA") THEN NoTask
                      ELSE PerfDataMutex

\* Faulty form: the dump waits for a file that could not be opened.
PendingForFile(d) == IF d.CurrentState = "OPEN_FILE" /\ ~d.FileDesc THEN "OPEN_FILE" ELSE StateAfter(d.CurrentState)

\* Without a file there is nothing to do; otherwise the states follow each other.
PendingAfter(d) == IF d.CurrentState = "OPEN_FILE" /\ ~d.FileDesc THEN "IDLE" ELSE StateAfter(d.CurrentState)

FinishState(opened) ==
  LET d == [Entered EXCEPT !.FileDesc = IF Entering("OPEN_FILE") THEN opened
                                        ELSE @ /\ ~Entering("CLOSE_FILE")]
  IN  /\ d.CurrentState # "IDLE"
      /\ d.StateCounter = 0
      /\ LockOrUnlock
      /\ dump' = [d EXCEPT !.PendingState = PendingAfter(d)]
      /\ file' = IF Entering("OPEN_FILE") THEN [NoFile EXCEPT !.ok = opened]
                 ELSE IF Entering("UNLOCK_DATA") THEN NoFile
                 ELSE file
      /\ UNCHANGED <<logVars, adding>>

\* After a write that failed, the rest is left out.
WriteBlock(written) ==
  LET isEntry == Entered.CurrentState = "WRITE_PERF_ENTRIES"
  IN  /\ Entered.StateCounter > 0
      /\ dump' = [Entered EXCEPT !.StateCounter = @ - 1,
                                 !.DataPos = IF isEntry THEN NextSlot(@) ELSE @,
                                 !.PendingState = IF written THEN @ ELSE "CLEANUP"]
      /\ file' = [entries |-> IF isEntry /\ written THEN Append(file.entries, DataBuffer[Entered.DataPos])
                              ELSE file.entries,
                  ok |-> file.ok /\ written]
      /\ UNCHANGED <<logVars, PerfDataMutex, adding>>

\* Its position is set again before it is used.
BecomeIdle ==
  /\ Entering("IDLE")
  /\ dump' = IdleDump
  /\ file' = NoFile
  /\ UNCHANGED <<logVars, PerfDataMutex, adding>>

DumpStep ==
  \/ \E opened \in BOOLEAN : FinishState(opened)
  \/ \E written \in BOOLEAN : WriteBlock(written)
  \/ BecomeIdle

--------------------------------------------------------------------------------
(* A processor reset keeps the log and stops it (CFE_ES_SetupPerfVariables)*)
PerfRestart ==
  /\ PerfDataMutex' = NoTask
  /\ adding' = [t \in Tasks |-> "none"]
  /\ dump' = IdleDump
  /\ file' = NoFile

PerfReset ==
  /\ MetaData' = [MetaData EXCEPT !.State = "IDLE"]
  /\ UNCHANGED <<DataBuffer, capture>>
  /\ PerfRestart

(* It may cut a task short that has written an entry but not, or only in   *)
(* part, the counters; in a log that is full the oldest entry is gone then.*)
PerfResetInRecord ==
  /\ \E t \in Tasks : adding[t] = "taking"
  /\ PerfDataMutex = NoTask
  /\ MetaData.State # "IDLE"
  /\ capture.count < MaxRecords
  /\ DataBuffer' = [DataBuffer EXCEPT ![MetaData.DataEnd] = capture.count + 1]
  /\ \E advanced \in BOOLEAN :
       MetaData' = [MetaData EXCEPT !.State = "IDLE", !.DataEnd = IF advanced THEN NextSlot(@) ELSE @]
  /\ capture' = IF MetaData.DataCount < BufferSize THEN capture
                ELSE [capture EXCEPT !.count = @ + 1, !.cut = TRUE]
  /\ PerfRestart

--------------------------------------------------------------------------------
\* The last entries of the capture, as many as fit, the oldest first.
Window ==
  LET size == IF capture.count < BufferSize THEN capture.count ELSE BufferSize
  IN  [i \in 1..size |-> capture.count - size + i]

(* Every write of the dump succeeded, and the mutex is still held. *)
DumpWhole == dump.CurrentState = "CLEANUP" /\ file.ok

(* A whole dump file (WRITE_PERF_ENTRIES of CFE_ES_RunPerfLogDump) is the  *)
(* last entries of the capture, in order and each once, though the mutex   *)
(* was held from turn to turn and the log was stopped without it; after a  *)
(* reset that cut the last entry short in a full log (CFE_ES_PerfLogAdd,   *)
(* between the entry and its counters) that entry is the first of the file.*)
(* And when the log stopped itself, the trigger is where the mode puts it: *)
(* first, at the center, or last.                                          *)
DumpIsWindow ==
  DumpWhole =>
    /\ file.entries = IF capture.cut THEN <<capture.count>> \o SubSeq(Window, 1, BufferSize - 1) ELSE Window
    /\ capture.stoppedItself =>
         file.entries[Len(file.entries) + 1 - EntriesWanted(MetaData.Mode)] = capture.trigger

================================================================================
