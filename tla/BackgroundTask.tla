---------------------------- MODULE BackgroundTask -----------------------------
(***************************************************************************)
(* The background task of Executive Services (cfe_es_backgroundtask.c)     *)
(* calls its jobs one after the other, waits, and calls them again: the    *)
(* dump of the performance log (PerfLog) and the writing of files          *)
(* (FileDump).  A job works while it has credit, which grows with time,    *)
(* and goes on in its next turn; a dump that waits for the mutex of the    *)
(* log keeps the whole task waiting.  Beside it tasks add to the log, the  *)
(* ES task handles its commands, and requests for files are made.  The     *)
(* scan of the app table is in EsApps; the scan for exceptions touches     *)
(* nothing of this.                                                        *)
(***************************************************************************)
EXTENDS PerfLog, FileDump

VARIABLE turn   \* the job that runs, or will when the wait is over: "perf" or "files"

vars == <<perfVars, fileVars, turn>>

Init == PerfInit /\ FileInit /\ turn = "perf"

--------------------------------------------------------------------------------
(* An iteration of the dump; an idle dump, and one that begins its delay,  *)
(* end their turn.                                                         *)
RunPerfLogDump ==
  /\ turn = "perf"
  /\ DumpStep
  /\ turn' = IF Entering("DELAY") \/ Entering("IDLE") THEN "files" ELSE "perf"
  /\ UNCHANGED fileVars

\* The dump is idle, or has no credit; while it waits for the mutex the turn goes on.
LeavePerfLogDump ==
  /\ turn = "perf"
  /\ Entering("LOCK_DATA") => PerfDataMutex = NoTask
  /\ turn' = "files"
  /\ UNCHANGED <<perfVars, fileVars>>

RunFileDump ==
  /\ turn = "files"
  /\ OpenFile
  /\ UNCHANGED <<perfVars, turn>>

\* The turn ends with a request that is complete, or without credit, or with nothing to do.
LeaveFileDump ==
  /\ turn = "files"
  /\ SkipFile \/ EndFile \/ OutOfCredit \/ NothingToDo
  /\ turn' = "perf"
  /\ UNCHANGED perfVars

\* The commands of the ES task, one at a time.
Command ==
  /\ \/ \E mode \in Modes : StartPerfDataCmd(mode)
     \/ \E named \in BOOLEAN : StopPerfDataCmd(named)
  /\ UNCHANGED <<fileVars, turn>>

AddEntry(t) ==
  /\ \/ PerfLogAdd(t)
     \/ \E isTrigger \in BOOLEAN : Record(t, isTrigger)
     \/ RecordNothing(t)
  /\ UNCHANGED <<fileVars, turn>>

\* What a task does with the mutex of the log before it gives it back.
FinishEntry(t) ==
  /\ StoreTriggered(t) \/ CountEntry(t)
  /\ UNCHANGED <<fileVars, turn>>

RequestFile(m) ==
  /\ BackgroundFileDumpRequest(m)
  /\ UNCHANGED <<perfVars, turn>>

ProcessorReset ==
  /\ PerfReset \/ PerfResetInRecord
  /\ FileReset
  /\ turn' = "perf"

Next ==
  \/ RunPerfLogDump \/ LeavePerfLogDump \/ RunFileDump \/ LeaveFileDump
  \/ Command
  \/ \E t \in Tasks : AddEntry(t) \/ FinishEntry(t)
  \/ \E m \in Metas : RequestFile(m)
  \/ ProcessorReset

(* The task is scheduled, and so are those that hold the mutex.  Strong    *)
(* fairness for the work of the jobs: credit comes with time, a file has   *)
(* finitely many records, and a task that waits for the mutex of the log   *)
(* gets it although others come.                                           *)
Fairness ==
  /\ WF_vars(LeavePerfLogDump) /\ WF_vars(RunFileDump) /\ WF_vars(LeaveFileDump)
  /\ SF_vars(RunPerfLogDump)
  /\ SF_vars(LeaveFileDump /\ EndFile)
  /\ \A t \in Tasks : WF_vars(FinishEntry(t))

Spec == Init /\ [][Next]_vars /\ Fairness

--------------------------------------------------------------------------------
(* A dump that was commanded ends and a request for a file is served,      *)
(* whether their files can be written or not: again and again there is no  *)
(* dump, and again and again an object is not pending.  The background     *)
(* task is never stuck with the mutex of the log, and never with a file    *)
(* (CFE_ES_RunPerfLogDump, CFE_FS_RunBackgroundFileDump).                  *)
JobsEnd ==
  /\ []<>DumpIdle
  /\ \A m \in Metas : []<>(~IsPending[m])

================================================================================
