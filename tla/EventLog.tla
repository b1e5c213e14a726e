------------------------------- MODULE EventLog -------------------------------
(***************************************************************************)
(* The local event log of Event Services (cfe_evs_log.c): a ring in the    *)
(* area of memory that survives a processor reset.  It is changed under    *)
(* the mutex of Event Services, one word after another, and a reset may    *)
(* come between two of them.                                               *)
(***************************************************************************)
EXTENDS Naturals, Sequences

CONSTANTS
  LogMax,       \* CFE_PLATFORM_EVS_LOG_MAX
  DefaultMode,  \* CFE_PLATFORM_EVS_DEFAULT_LOG_MODE
  Torn          \* an entry that was only partly written

Modes == {"OVERWRITE", "DISCARD"}

ASSUME LogAssumption == LogMax \in Nat \ {0} /\ DefaultMode \in Modes

\* As after a power-on reset.
NewLog == [entry |-> [i \in 0..(LogMax - 1) |-> Torn], next |-> 0, count |-> 0, full |-> FALSE,
           overflow |-> FALSE, mode |-> DefaultMode]

\* What makes a log take the events to come as an empty one does.
Emptied(log) == log.next = 0 /\ log.count = 0 /\ ~log.full

ClearWrites == 4 + LogMax

(* The log when EVS_ClearLog has done the first n of its writes: Next,     *)
(* LogCount, LogFullFlag, the overflow counter and the entries.  The mode  *)
(* is kept.                                                                *)
ClearLogUpTo(log, n) ==
  [entry |-> [i \in 0..(LogMax - 1) |-> IF n >= 5 + i THEN Torn ELSE log.entry[i]],
   next |-> IF n >= 1 THEN 0 ELSE log.next,
   count |-> IF n >= 2 THEN 0 ELSE log.count,
   full |-> n < 3 /\ log.full,
   overflow |-> n < 4 /\ log.overflow,
   mode |-> log.mode]

EVS_ClearLog(log) == ClearLogUpTo(log, ClearWrites)

LogWrites == 7

(* The log when EVS_AddLog has done the first n of its writes: the         *)
(* overflow counter, of which only whether it counts is kept, the entry in *)
(* two parts, Next, its return to 0, LogCount and LogFullFlag.             *)
AddLogUpTo(log, event, n) ==
  LET keep == ~log.full \/ log.mode = "OVERWRITE"
      done(k) == keep /\ n >= k
      grows == log.count < LogMax
  IN [entry |-> IF done(2) THEN [log.entry EXCEPT ![log.next] = IF n = 2 THEN Torn ELSE event]
                ELSE log.entry,
      next |-> IF done(5) /\ log.next + 1 = LogMax THEN 0
               ELSE IF done(4) THEN log.next + 1 ELSE log.next,
      count |-> IF done(6) /\ grows THEN log.count + 1 ELSE log.count,
      full |-> log.full \/ (done(7) /\ grows /\ log.count + 1 = LogMax),
      overflow |-> log.overflow \/ (log.full /\ n >= 1),
      mode |-> log.mode]

\* Faulty form: Next goes back to 0 only in a log that overwrites.
AddLogNoReturn(log, event) ==
  LET added == AddLogUpTo(log, event, LogWrites) IN
  IF log.mode = "DISCARD" /\ log.next + 1 = LogMax THEN [added EXCEPT !.next = log.next] ELSE added

EVS_AddLog(log, event) == AddLogUpTo(log, event, LogWrites)

(* What CFE_EVS_EarlyInit makes of the log after a processor reset: one    *)
(* whose Next is out of range is cleared and gets the default mode, which  *)
(* a further reset may cut short; any other is kept as it is.              *)
Restored(log) ==
  IF log.next >= LogMax THEN {NewLog} \cup {ClearLogUpTo(log, n) : n \in 1..ClearWrites}
  ELSE {log}

\* The entries from the oldest, in the order in which a file gets them.
Oldest(log)  == IF log.count = LogMax THEN log.next ELSE 0
Entries(log) == [i \in 1..log.count |-> log.entry[(Oldest(log) + i - 1) % LogMax]]

(* Every index into the ring stays in it, also after a reset that came in  *)
(* the middle of an addition or a clear (EVS_AddLog and                    *)
(* CFE_EVS_WriteLogDataFileCmd do not look).                               *)
InBounds(log) == log.next \in 0..(LogMax - 1) /\ log.count \in 0..LogMax
=============================================================================
