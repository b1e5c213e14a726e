---------------------------- MODULE EventServices ----------------------------
(***************************************************************************)
(* Event Services (cfe_evs.c, cfe_evs_utils.c, cfe_evs_log.c,              *)
(* cfe_evs_task.c).  An event of an application passes the switches of the *)
(* application, the filter of its event id, which takes no lock, and the   *)
(* tokens against floods; then it is put in the local event log and sent.  *)
(* Tasks of several applications send at the same time, an application may *)
(* send for another, the EVS task carries out commands, an application may *)
(* be cleaned up, and the processor may be reset at any moment.            *)
(*                                                                         *)
(* Of the event ids of an application one may have a filter.  Masks are    *)
(* the documented ones, 2^n - 1.  An event of the EVS task about a command *)
(* is a DEBUG event, disabled by default, unless the command failed.       *)
(* Counters in telemetry are left out, as are the port and SB messages.    *)
(***************************************************************************)
EXTENDS EventLog, Integers

CONSTANTS
  Tasks,        \* tasks that send events
  Apps, Evs,    \* applications, and Event Services itself
  AppOf,        \* by task: its application
  Senders,      \* applications that events are sent for
  Masks,        \* masks of filters
  MaxFilterCount,  \* CFE_EVS_MAX_FILTER_COUNT, the greatest a counter holds
  Burst,        \* CFE_PLATFORM_EVS_MAX_APP_EVENT_BURST
  Cost,         \* EVENT_COST
  Rate,         \* tokens credited by a unit of time
  MaxCommands   \* bound on commands, resets and cleanups

ASSUME TokenAssumption == Burst \in Nat \ {0} /\ Cost \in Nat \ {0} /\ Rate \in Nat \ {0}

ASSUME AppAssumption ==
  /\ Evs \notin Apps /\ AppOf \in [Tasks -> Apps] /\ Senders \subseteq Apps \cup {Evs}
  /\ Masks \subseteq Nat /\ MaxFilterCount \in Nat /\ MaxCommands \in Nat

VARIABLES
  data,         \* by application: EVS_AppData_t
  call,         \* by task: what its call holds
  log,          \* the local event log
  writing,      \* what the EVS task does with a file of the log
  allowance,    \* by application: what an ideal bucket still grants
  squelching,   \* by application: its last event was squelched
  spoilt,       \* a reset came in the middle of an addition to the log or of its clear
  commands      \* commands, resets and cleanups so far

vars == <<data, call, log, writing, allowance, squelching, spoilt, commands>>
ghosts == <<allowance, squelching>>

Types  == {"ERROR", "INFO"}
Ids    == {"filtered", "plain"}

\* The events that Event Services sends of its own, and their types.
OwnIds     == {"started", "squelched", "unregistered", "locked", "failed"}
TypeOf(id) == IF id \in {"started", "locked"} THEN "INFO" ELSE "ERROR"
Events     == Ids \cup OwnIds

\* What is no event is no sequence of events either.
ASSUME TornAssumption == Torn \notin Events \cup Seq(Events \cup {Torn})

Upper == Burst * Cost
Lower == -Upper

\* After so long any account is full again.
Forever == (2 * Upper) \div Rate + Cost

\* An ideal bucket grants the burst; two events more make up for rounding.
Grant == Upper + 2 * Cost

Lesser(x, y)  == IF x < y THEN x ELSE y
Greater(x, y) == IF x > y THEN x ELSE y

\* CFE_EVS_Register: everything afresh, and the time of the last credit is 0.
Cleared == [used |-> FALSE, unreg |-> FALSE, active |-> FALSE, types |-> {}, listed |-> FALSE,
            mask |-> 0, count |-> 0, tokens |-> 0, elapsed |-> Forever]
Registered(listed, mask) ==
  [Cleared EXCEPT !.used = TRUE, !.active = TRUE, !.types = Types, !.tokens = Upper,
                  !.listed = listed, !.mask = mask]

Idle == [at |-> "idle"]

Init ==
  /\ data = [a \in Apps \cup {Evs} |-> Cleared]
  /\ call = [t \in Tasks |-> Idle]
  /\ log = NewLog
  /\ writing = Idle
  /\ allowance = [a \in DOMAIN data |-> Grant]
  /\ squelching = [a \in DOMAIN data |-> FALSE]
  /\ spoilt = FALSE
  /\ commands = 0

Goto(t, c) == call' = [call EXCEPT ![t] = c]

\* The switches: of all events of an application, and of a type (CFE_EVS_GetTypeEnable).
SwitchedOn(caller, app, type) == data[app].active /\ type \in data[caller].types

\* EVS_SendEvent, for which the switch of the type is the calling application's.
SentByEvs(caller, id) == data[Evs].used /\ SwitchedOn(caller, Evs, TypeOf(id))
LoggedByEvs(caller, id) == IF SentByEvs(caller, id) THEN EVS_AddLog(log, id) ELSE log

\* CFE_EVS_TaskInit, before which no event of Event Services itself is sent.
CFE_EVS_TaskInit ==
  /\ ~data[Evs].used
  /\ data' = [data EXCEPT ![Evs] = Registered(FALSE, 0)]
  /\ log' = EVS_AddLog(log, "started")
  /\ allowance' = [allowance EXCEPT ![Evs] = Grant]
  /\ squelching' = [squelching EXCEPT ![Evs] = FALSE]
  /\ UNCHANGED <<call, writing, spoilt, commands>>

-----------------------------------------------------------------------------
(* The calls of an application.                                            *)

\* CFE_EVS_Register; with an unknown filter scheme the application is left unregistered.
CFE_EVS_Register(t) ==
  LET a == AppOf[t] IN
  /\ call[t] = Idle
  /\ \/ \E mask \in Masks : data' = [data EXCEPT ![a] = Registered(TRUE, mask)]
     \/ data' = [data EXCEPT ![a] = Registered(FALSE, 0)]
     \/ data' = [data EXCEPT ![a] = Cleared]
  /\ allowance' = [allowance EXCEPT ![a] = Grant]
  /\ squelching' = [squelching EXCEPT ![a] = FALSE]
  /\ UNCHANGED <<call, log, writing, spoilt, commands>>

\* CFE_EVS_SendEvent, CFE_EVS_SendTimedEvent and CFE_EVS_SendEventWithAppID.
CFE_EVS_SendEvent(t, app, id, type) ==
  /\ call[t] = Idle
  /\ data[app].used
  /\ SwitchedOn(AppOf[t], app, type)
  /\ Goto(t, IF id = "filtered" /\ data[app].listed
             THEN [at |-> "filter", app |-> app]
             ELSE [at |-> "squelch", app |-> app, id |-> id])
  /\ UNCHANGED <<data, log, writing, ghosts, spoilt, commands>>

\* Once for an application that is not registered.
EVS_NotRegistered(t, app) ==
  /\ call[t] = Idle
  /\ ~data[app].used /\ ~data[app].unreg
  /\ data' = [data EXCEPT ![app].unreg = TRUE]
  /\ Goto(t, [at |-> "tell", id |-> "unregistered", then |-> Idle])
  /\ UNCHANGED <<log, writing, ghosts, spoilt, commands>>

\* CFE_EVS_ResetFilter and CFE_EVS_ResetAllFilters, by the application itself.
CFE_EVS_ResetFilter(t) ==
  /\ call[t] = Idle
  /\ data[AppOf[t]].used
  /\ data' = [data EXCEPT ![AppOf[t]].count = 0]
  /\ UNCHANGED <<call, log, writing, ghosts, spoilt, commands>>

(* EVS_IsFiltered takes no lock.  It reads the counter for the mask and    *)
(* for the limit, reads it to raise it (or keeps what it read), and writes *)
(* it back.                                                                *)
Passed(c, passes) ==
  IF passes THEN [at |-> "squelch", app |-> c.app, id |-> "filtered"] ELSE Idle

EVS_IsFiltered(t) ==
  LET c == call[t]
      f == data[c.app]
      passes == f.count % (f.mask + 1) = 0
  IN /\ c.at = "filter"
     /\ Goto(t, IF f.count < MaxFilterCount
                THEN [at |-> "load", app |-> c.app, passes |-> passes, seen |-> f.count]
                ELSE Passed(c, passes))
     /\ UNCHANGED <<data, log, writing, ghosts, spoilt, commands>>

LoadCount(t) ==
  /\ call[t].at = "load"
  /\ \E seen \in {call[t].seen, data[call[t].app].count} :
       Goto(t, [call[t] EXCEPT !.at = "store", !.seen = seen])
  /\ UNCHANGED <<data, log, writing, ghosts, spoilt, commands>>

StoreCount(t) ==
  LET c == call[t]
      raised == (c.seen + 1) % (MaxFilterCount + 1)
  IN /\ c.at = "store"
     /\ data' = [data EXCEPT ![c.app].count = raised]
     /\ Goto(t, IF raised = MaxFilterCount
                THEN [at |-> "tell", id |-> "locked", then |-> Passed(c, c.passes)]
                ELSE Passed(c, c.passes))
     /\ UNCHANGED <<log, writing, ghosts, spoilt, commands>>

(* EVS_CheckAndIncrementSquelchTokens, under the mutex: tokens come with   *)
(* time, at least one event's worth at once, and every event, sent or      *)
(* squelched, costs some.                                                  *)
Credit(a) == data[a].elapsed * Rate

Credited(a) == Credit(a) >= Cost

\* Faulty form: the tokens grow past the burst.
TokensUnbounded(a) == data[a].tokens + (IF Credited(a) THEN Credit(a) ELSE 0)

Tokens(a) == IF Credited(a) THEN Lesser(data[a].tokens + Credit(a), Upper) ELSE data[a].tokens

\* Faulty form: squelching is announced whenever the account is near empty.
AnnouncedAlways(a) == Tokens(a) > -2 * Cost

Announced(a) == Tokens(a) > -Cost /\ ~Credited(a)

Charged(tokens) == Greater(tokens - Cost, Lower)

EVS_CheckAndIncrementSquelchTokens(t) ==
  LET c == call[t]
      a == c.app
      sent == Tokens(a) > 0
      log1 == [at |-> "log", app |-> a, id |-> c.id]
  IN /\ c.at = "squelch"
     /\ data' = [data EXCEPT ![a].tokens = Charged(Tokens(a)),
                             ![a].elapsed = IF Credited(a) THEN 0 ELSE @]
     /\ Goto(t, IF sent THEN log1
                ELSE IF Announced(a) THEN [at |-> "tell", id |-> "squelched", then |-> Idle]
                ELSE Idle)
     /\ allowance' = IF sent THEN [allowance EXCEPT ![a] = @ - Cost] ELSE allowance
     /\ squelching' = [squelching EXCEPT ![a] = ~sent]
     /\ UNCHANGED <<log, writing, spoilt, commands>>

\* EVS_SendEvent, in the course of a call.
EVS_SendEvent(t) ==
  /\ call[t].at = "tell"
  /\ log' = LoggedByEvs(AppOf[t], call[t].id)
  /\ Goto(t, call[t].then)
  /\ UNCHANGED <<data, writing, ghosts, spoilt, commands>>

EVS_GenerateEventTelemetry(t) ==
  /\ call[t].at = "log"
  /\ log' = EVS_AddLog(log, call[t].id)
  /\ Goto(t, Idle)
  /\ UNCHANGED <<data, writing, ghosts, spoilt, commands>>

Tick ==
  /\ data' = [a \in DOMAIN data |-> [data[a] EXCEPT !.elapsed = Lesser(@ + 1, Forever)]]
  /\ allowance' = [a \in DOMAIN data |-> Lesser(allowance[a] + Rate, Grant)]
  /\ UNCHANGED <<call, log, writing, squelching, spoilt, commands>>

-----------------------------------------------------------------------------
(* What the EVS task does, one command at a time.                          *)

Command ==
  /\ data[Evs].used
  /\ commands < MaxCommands
  /\ commands' = commands + 1
  /\ writing = Idle

\* CFE_EVS_EnableAppEventTypeCmd and CFE_EVS_DisableAppEventTypeCmd.
SwitchAppEventType(a, type) ==
  /\ Command
  /\ data[a].used
  /\ \E types \in {data[a].types \cup {type}, data[a].types \ {type}} :
       data' = [data EXCEPT ![a].types = types]
  /\ UNCHANGED <<call, log, writing, ghosts, spoilt>>

\* CFE_EVS_EnableEventTypeCmd and CFE_EVS_DisableEventTypeCmd: of all applications.
SwitchEventType(type) ==
  /\ Command
  /\ \E on \in BOOLEAN :
       data' = [a \in DOMAIN data |->
                  IF ~data[a].used THEN data[a]
                  ELSE [data[a] EXCEPT !.types = IF on THEN @ \cup {type} ELSE @ \ {type}]]
  /\ UNCHANGED <<call, log, writing, ghosts, spoilt>>

\* CFE_EVS_EnableAppEventsCmd and CFE_EVS_DisableAppEventsCmd.
SwitchAppEvents(a) ==
  /\ Command
  /\ data[a].used
  /\ \E on \in BOOLEAN : data' = [data EXCEPT ![a].active = on]
  /\ UNCHANGED <<call, log, writing, ghosts, spoilt>>

\* CFE_EVS_AddEventFilterCmd, CFE_EVS_SetFilterCmd and CFE_EVS_DeleteEventFilterCmd.
ChangeFilter(a) ==
  /\ Command
  /\ data[a].used
  /\ \E mask \in Masks :
       data' = [data EXCEPT ![a] =
         IF ~@.listed THEN [@ EXCEPT !.listed = TRUE, !.mask = mask, !.count = 0]
         ELSE [@ EXCEPT !.mask = mask]]
  /\ UNCHANGED <<call, log, writing, ghosts, spoilt>>

DeleteFilter(a) ==
  /\ Command
  /\ data[a].used /\ data[a].listed
  /\ data' = [data EXCEPT ![a].listed = FALSE, ![a].mask = 0, ![a].count = 0]
  /\ UNCHANGED <<call, log, writing, ghosts, spoilt>>

\* CFE_EVS_ResetFilterCmd and CFE_EVS_ResetAllFiltersCmd.
ResetFilter(a) ==
  /\ Command
  /\ data[a].used
  /\ data' = [data EXCEPT ![a].count = 0]
  /\ UNCHANGED <<call, log, writing, ghosts, spoilt>>

\* A command about an application or filter that is not there.
CommandFails ==
  /\ Command
  /\ log' = LoggedByEvs(Evs, "failed")
  /\ UNCHANGED <<data, call, writing, ghosts, spoilt>>

ClearLog ==
  /\ Command
  /\ log' = EVS_ClearLog(log)
  /\ spoilt' = FALSE
  /\ UNCHANGED <<data, call, writing, ghosts>>

SetLogMode ==
  /\ Command
  /\ \E mode \in Modes : log' = [log EXCEPT !.mode = mode]
  /\ UNCHANGED <<data, call, writing, ghosts, spoilt>>

\* CFE_EVS_WriteLogDataFileCmd writes under the mutex, up to the first failure.
WriteLogDataFile ==
  /\ Command
  /\ \E wrote \in 0..log.count :
       writing' = [at |-> "report", wrote |-> wrote, whole |-> wrote = log.count]
  /\ UNCHANGED <<data, call, log, ghosts, spoilt>>

\* Faulty form: a file with some of the entries will do.
WroteSome == writing.wrote > 0

\* Then it compares, without the mutex, with a count that may have grown.
WroteAll == writing.wrote = log.count

ReportLogDataFile ==
  /\ writing.at = "report"
  /\ writing' = Idle
  /\ log' = IF WroteAll THEN log ELSE LoggedByEvs(Evs, "failed")
  /\ UNCHANGED <<data, call, ghosts, spoilt, commands>>

-----------------------------------------------------------------------------
\* CFE_EVS_CleanUpApp, which may come in the middle of a call.
CFE_EVS_CleanUpApp(a) ==
  /\ commands < MaxCommands
  /\ commands' = commands + 1
  /\ data' = [data EXCEPT ![a].used = FALSE]
  /\ UNCHANGED <<call, log, writing, ghosts, spoilt>>

(* A reset at any moment, which may cut short an addition to the log or,   *)
(* between other commands, its clear; then CFE_EVS_EarlyInit, which a      *)
(* further reset may cut short.                                            *)
UnderWay ==
  {call[t].id : t \in {u \in Tasks : call[u].at = "log"}}
    \cup {call[t].id : t \in {u \in Tasks : call[u].at = "tell" /\ SentByEvs(AppOf[u], call[u].id)}}
    \cup {id \in {"started"} : ~data[Evs].used}
    \cup {id \in {"failed"} : SentByEvs(Evs, id) /\ (writing = Idle \/ ~WroteAll)}

CutShort ==
  {AddLogUpTo(log, id, n) : id \in UnderWay, n \in 0..LogWrites}
    \cup {ClearLogUpTo(log, n) : n \in {k \in 0..ClearWrites : data[Evs].used /\ writing = Idle}}

ProcessorReset ==
  /\ commands < MaxCommands
  /\ commands' = commands + 1
  /\ \E left \in CutShort \cup {log} : log' \in Restored(left)
  /\ spoilt' = /\ ~Emptied(log')
               /\ spoilt \/ log' \notin {log} \cup {EVS_AddLog(log, id) : id \in UnderWay}
  /\ data' = [a \in DOMAIN data |-> Cleared]
  /\ call' = [t \in Tasks |-> Idle]
  /\ writing' = Idle
  /\ allowance' = [a \in DOMAIN data |-> Grant]
  /\ squelching' = [a \in DOMAIN data |-> FALSE]

Next ==
  \/ CFE_EVS_TaskInit
  \/ \E t \in Tasks :
       \/ CFE_EVS_Register(t) \/ CFE_EVS_ResetFilter(t)
       \/ \E app \in Senders :
            \/ \E id \in Ids, type \in Types : CFE_EVS_SendEvent(t, app, id, type)
            \/ EVS_NotRegistered(t, app)
       \/ EVS_IsFiltered(t) \/ LoadCount(t) \/ StoreCount(t)
       \/ EVS_CheckAndIncrementSquelchTokens(t)
       \/ EVS_SendEvent(t)
       \/ EVS_GenerateEventTelemetry(t)
  \/ Tick
  \/ \E a \in DOMAIN data :
       \/ \E type \in Types : SwitchAppEventType(a, type)
       \/ SwitchAppEvents(a)
       \/ ChangeFilter(a) \/ DeleteFilter(a) \/ ResetFilter(a)
  \/ \E type \in Types : SwitchEventType(type)
  \/ CommandFails
  \/ ClearLog \/ SetLogMode \/ WriteLogDataFile
  \/ ReportLogDataFile
  \/ \E a \in Apps : CFE_EVS_CleanUpApp(a)
  \/ ProcessorReset

Spec == Init /\ [][Next]_vars

-----------------------------------------------------------------------------
(* Accounts, calls and the log have their types.  The indices of the log   *)
(* stay inside the ring, whatever addition or clear a reset cut short.     *)
Account ==
  [used : BOOLEAN, unreg : BOOLEAN, active : BOOLEAN, types : SUBSET Types, listed : BOOLEAN,
   mask : Masks \cup {0}, count : 0..MaxFilterCount, tokens : Lower..Upper, elapsed : 0..Forever]

Squelch == [at : {"squelch"}, app : Senders, id : Ids]

Call ==
  {Idle} \cup Squelch
    \cup [at : {"filter"}, app : Senders]
    \cup [at : {"load", "store"}, app : Senders, passes : BOOLEAN, seen : 0..MaxFilterCount]
    \cup [at : {"log"}, app : Senders, id : Ids]
    \cup [at : {"tell"}, id : OwnIds, then : {Idle} \cup Squelch]

Log ==
  [entry : [0..(LogMax - 1) -> Events \cup {Torn}], next : 0..(LogMax - 1), count : 0..LogMax,
   full : BOOLEAN, overflow : BOOLEAN, mode : Modes]

TypeOK ==
  /\ data \in [Apps \cup {Evs} -> Account]
  /\ call \in [Tasks -> Call]
  /\ log \in Log
  /\ writing \in {Idle} \cup [at : {"report"}, wrote : 0..LogMax, whole : BOOLEAN]
  /\ allowance \in [Apps \cup {Evs} -> Int]
  /\ squelching \in [Apps \cup {Evs} -> BOOLEAN]
  /\ spoilt \in BOOLEAN
  /\ commands \in 0..MaxCommands

(* The log in the reset area implements EventQueue: all tasks' events, in  *)
(* order, over resets, changes of mode and clearing (cfe_evs_log.c); only  *)
(* a reset in the middle of an addition or of a clear spoils it, and even  *)
(* then no index leaves the ring (CFE_EVS_EarlyInit).                      *)
Queue == INSTANCE EventQueue WITH
  Capacity <- LogMax, Events <- Events, Spoilt <- Torn,
  queue <- IF spoilt /\ InBounds(log) THEN Torn ELSE Entries(log), mode <- log.mode
LogIsQueue == Queue!Spec

(* In no stretch of time does an application send more events than the     *)
(* burst, two, and what the rate grants, however its tasks call and in     *)
(* however small pieces time passes (EVS_CheckAndIncrementSquelchTokens).  *)
RateBounded == \A a \in DOMAIN data : allowance[a] >= 0

(* Of a run of squelched events the first is announced and no other is     *)
(* (EVS_CheckAndIncrementSquelchTokens), though the account may jump over 0. *)
SquelchAnnounced ==
  [][\A t \in Tasks : EVS_CheckAndIncrementSquelchTokens(t) =>
       LET a == call[t].app IN
       call'[t].at = "tell" <=> (squelching'[a] /\ ~squelching[a])]_vars

(* A file of the log that is reported written holds the whole log, though  *)
(* the count it is compared with may grow (CFE_EVS_WriteLogDataFileCmd).   *)
ReportedWhole == writing.at = "report" /\ WroteAll => writing.whole
=============================================================================
