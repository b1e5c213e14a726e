------------------------------- MODULE EsApps -------------------------------
(***************************************************************************)
(* The life of applications and their tasks in Executive Services          *)
(* (cfe_es_apps.c, cfe_es_api.c): creation, the requests to stop, restart  *)
(* or delete, the scan of the background task that serves them, and the    *)
(* child tasks apps create and end themselves.                             *)
(*                                                                         *)
(* The ES tables are shared data under one mutex; an action is what happens *)
(* between two lock operations, or one call of OSAL.  A task is deleted    *)
(* outside of the locked regions only.                                     *)
(***************************************************************************)
EXTENDS Integers, FiniteSets

CONSTANTS
  Names,       \* names of apps and libraries
  LibNames,    \* those of them that name a library file
  Loaders,     \* tasks that start apps and libraries: start-up, ES commands
  Background,  \* the background task of ES, which restarts apps
  MaxApps,     \* CFE_PLATFORM_ES_MAX_APPLICATIONS
  MaxTasks,    \* OS_MAX_TASKS, the tasks of cFE itself not counted
  MaxLibs,     \* CFE_PLATFORM_ES_MAX_LIBRARIES
  KillTimeout, \* CFE_PLATFORM_ES_APP_KILL_TIMEOUT, in scans of the app table
  MaxAppId,    \* bounds of the model: serial numbers of apps
  MaxTaskId,   \*   and of tasks
  NoName,
  Failures,    \* modules may not load, OSAL may not create the task
  Children,    \* main tasks create child tasks
  Returns,     \* a child task may return without CFE_ES_ExitChildTask
  Prompt       \* a start or a creation of a task is over before the new task
               \* leaves its first delay, or ES cleans up the app

ASSUME SizeAssumption == /\ {MaxApps, MaxTasks, KillTimeout} \subseteq Nat \ {0}
                         /\ {MaxLibs, MaxAppId, MaxTaskId} \subseteq Nat
ASSUME NameAssumption == /\ IsFiniteSet(Names) /\ LibNames \subseteq Names
                         /\ NoName \notin Names /\ Background \notin Loaders
ASSUME ScopeAssumption == {Failures, Children, Returns, Prompt} \subseteq BOOLEAN

VARIABLES
  AppTable, LastAppId, RegisteredExternalApps,
  TaskTable, RegisteredTasks,
  LibTable,
  os,         \* OSAL: the tasks, by their ids, and where each is
  LastTaskId,
  create,     \* the start in progress of each loader and the background task
  bg,         \* the background task
  told,       \* history: what an app, by its id, was last asked to do
  waited      \* history: scans since an app was asked to stop

tables == <<AppTable, LastAppId, RegisteredExternalApps, TaskTable, RegisteredTasks, LibTable>>
vars   == <<tables, os, LastTaskId, create, bg, told, waited>>

-----------------------------------------------------------------------------
(* Ids and records *)

UNDEFINED == 0
RESERVED  == -1
AppIds  == 1..MaxAppId
TaskIds == 1..MaxTaskId
AppSlots  == 0..(MaxApps - 1)
TaskSlots == 0..(MaxTasks - 1)
ToAppIndex(a)  == a % MaxApps
ToTaskIndex(t) == t % MaxTasks

\* CFE_ES_AppState_Enum; INIT stands for all states before RUNNING
INIT    == 2
RUNNING == 3
WAITING == 4
STOPPED == 5

Requests == {"RUN", "EXIT", "RESTART", "DELETE"}
Commands == {"RESTART", "DELETE"}  \* a reload is a restart with another file
AppRec  == [AppId : AppIds \cup {UNDEFINED, RESERVED}, AppName : Names \cup {NoName},
            AppState : INIT..STOPPED, Request : Requests, Timer : 0..KillTimeout,
            MainTaskId : TaskIds \cup {UNDEFINED}]
TaskRec == [TaskId : TaskIds \cup {UNDEFINED, RESERVED}, AppId : AppIds \cup {UNDEFINED}]
FreeApp  == [AppId |-> UNDEFINED, AppName |-> NoName, AppState |-> INIT,
             Request |-> "RUN", Timer |-> 0, MainTaskId |-> UNDEFINED]
FreeTask == [TaskId |-> UNDEFINED, AppId |-> UNDEFINED]

\* An OSAL task: app and creator are 0 for none, child the one it creates
NoTask == [at |-> "None", app |-> 0, creator |-> 0, child |-> 0]
OsTasks == {t \in TaskIds : os[t].at # "None"}
Creating(t) == os[t].at \in {"Start", "Record"}

NoCreate == [at |-> "None", name |-> NoName, id |-> 0, task |-> 0]
BgIdle   == [at |-> "Scan", todo |-> {}, id |-> 0, req |-> "RUN", name |-> NoName,
             tasks |-> {}, main |-> 0, task |-> 0]

Used(i)     == AppTable[i].AppId # UNDEFINED
TaskUsed(i) == TaskTable[i].TaskId # UNDEFINED
IsMatch(a)  == AppTable[ToAppIndex(a)].AppId = a
TaskIsMatch(t) == TaskTable[ToTaskIndex(t)].TaskId = t

\* CFE_ES_GetAppRecordByContext: the caller's app, if ES knows both
AppOf(t) == TaskTable[ToTaskIndex(t)].AppId
InContext(t) == TaskIsMatch(t) /\ IsMatch(AppOf(t))
Slot(t) == ToAppIndex(AppOf(t))
IsMain(t) == AppTable[Slot(t)].MainTaskId = t

Init ==
  /\ AppTable = [i \in AppSlots |-> FreeApp]
  /\ TaskTable = [i \in TaskSlots |-> FreeTask]
  /\ LibTable = [n \in LibNames |-> "Free"]
  /\ LastAppId = 0 /\ RegisteredExternalApps = 0 /\ RegisteredTasks = 0
  /\ os = [t \in TaskIds |-> NoTask] /\ LastTaskId = 0
  /\ create = [c \in Loaders \cup {Background} |-> NoCreate]
  /\ bg = BgIdle
  /\ told = [a \in AppIds |-> "RUN"]
  /\ waited = [a \in AppIds |-> 0]

-----------------------------------------------------------------------------
(* OSAL *)

\* Ids in the order OSAL gives them out, of free slots; none when the table
\* is full, or MaxTaskId was reached
Openings == {t \in TaskIds : /\ t > LastTaskId
                             /\ \A u \in OsTasks : ToTaskIndex(u) # ToTaskIndex(t)}

\* OS_TaskCreate: what becomes of the tasks when t is created
OsTaskCreate(t, app, creator, rest) ==
  /\ t \in Openings /\ \A u \in Openings : t <= u
  /\ os' = [rest EXCEPT ![t] = [at |-> "Entry", app |-> app, creator |-> creator, child |-> 0]]
  /\ LastTaskId' = t
OsTaskDelete(T) == os' = [t \in TaskIds |-> IF t \in T THEN NoTask ELSE os[t]]

-----------------------------------------------------------------------------
(* Errors a change of the code could make; the model does not use them,    *)
(* they show that the properties notice.                                   *)

\* The record of a task that was deleted or ended is not counted out.
FreeTaskRecordOnly(t) ==
  /\ TaskTable' = [TaskTable EXCEPT ![ToTaskIndex(t)] = FreeTask]
  /\ UNCHANGED RegisteredTasks
\* The loop over the apps stops one early.
MainTasksButLast ==
  {AppTable[i].MainTaskId : i \in {j \in AppSlots \ {MaxApps - 1} : Used(j)}}
\* Apps that stop already take requests.
AskableAny(a) == IsMatch(a)
\* The request is read after the clean up, which freed the record.
ProcessControlRequestLate ==
  /\ bg.at = "Read"
  /\ IF bg.todo = {} THEN bg' = BgIdle
     ELSE \E a \in bg.todo : bg' = [bg EXCEPT !.todo = @ \ {a}, !.at = "List", !.id = a, !.req = "RUN"]
  /\ UNCHANGED <<tables, os, LastTaskId, create, told, waited>>
\* The clean up lists the tasks of all apps.
TasksOfAny(a) == {t \in TaskIds : TaskIsMatch(t)}
\* The loop that deletes the listed tasks stops before the first, the main task.
NextTaskButFirst ==
  /\ bg.at = "Next"
  /\ IF bg.tasks \subseteq {bg.main} THEN bg' = [bg EXCEPT !.at = "Free"]
     ELSE \E t \in bg.tasks \ {bg.main} : bg' = [bg EXCEPT !.at = "Sweep", !.task = t]
  /\ UNCHANGED <<tables, os, LastTaskId, create, told, waited>>

-----------------------------------------------------------------------------
(* Creation of apps and libraries *)

\* CFE_ResourceId_FindNext
FreeIds == {a \in (LastAppId + 1)..(LastAppId + MaxApps) : ~Used(ToAppIndex(a))}
NextId(a) == a \in FreeIds /\ \A b \in FreeIds : a <= b

\* The names that a new app must not have
NamesTaken == {AppTable[i].AppName : i \in {j \in AppSlots : Used(j)}}

\* First region of CFE_ES_AppCreate, in a call that does not return at once
AppCreate(c, n) ==
  /\ n \notin NamesTaken
  /\ \E a \in AppIds :
       /\ NextId(a)
       /\ AppTable' = [AppTable EXCEPT ![ToAppIndex(a)] =
                         [FreeApp EXCEPT !.AppId = RESERVED, !.AppName = n]]
       /\ LastAppId' = a
       /\ create' = [create EXCEPT ![c] = [at |-> "Launch", name |-> n, id |-> a, task |-> 0]]

\* A command, or a line of the start-up script
StartApp(c, n) ==
  /\ create[c].at = "None"
  /\ AppCreate(c, n)
  /\ UNCHANGED <<RegisteredExternalApps, TaskTable, RegisteredTasks, LibTable, os, LastTaskId,
                 bg, told, waited>>

\* CFE_ES_LoadModule and the OS_TaskCreate of CFE_ES_StartAppTask
Launch(c) ==
  /\ create[c].at = "Launch"
  /\ \/ \E t \in TaskIds :
          /\ OsTaskCreate(t, create[c].id, 0, os)
          /\ create' = [create EXCEPT ![c].at = "Record", ![c].task = t]
     \/ /\ Failures \/ Openings = {}
        /\ create' = [create EXCEPT ![c].at = "Fail"]
        /\ UNCHANGED <<os, LastTaskId>>
  /\ UNCHANGED <<tables, bg, told, waited>>

\* The region of CFE_ES_StartAppTask: the record of task t of app a
RecordTask(t, a) ==
  /\ TaskTable' = [TaskTable EXCEPT ![ToTaskIndex(t)] = [TaskId |-> t, AppId |-> a]]
  /\ RegisteredTasks' = RegisteredTasks + 1

RecordMain(c) ==
  /\ create[c].at = "Record"
  /\ RecordTask(create[c].task, create[c].id)
  /\ AppTable' = [AppTable EXCEPT ![ToAppIndex(create[c].id)].MainTaskId = create[c].task]
  /\ create' = [create EXCEPT ![c].at = "Publish"]
  /\ UNCHANGED <<LastAppId, RegisteredExternalApps, LibTable, os, LastTaskId, bg, told, waited>>

\* Last region of CFE_ES_AppCreate
Publish(c) ==
  /\ \/ /\ create[c].at = "Publish"
        /\ AppTable' = [AppTable EXCEPT ![ToAppIndex(create[c].id)].AppId = create[c].id]
        /\ RegisteredExternalApps' = RegisteredExternalApps + 1
     \/ /\ create[c].at = "Fail"
        /\ AppTable' = [AppTable EXCEPT ![ToAppIndex(create[c].id)] = FreeApp]
        /\ UNCHANGED RegisteredExternalApps
  /\ create' = [create EXCEPT ![c] = NoCreate]
  /\ UNCHANGED <<LastAppId, TaskTable, RegisteredTasks, LibTable, os, LastTaskId, bg, told, waited>>

\* CFE_ES_LoadLibrary, the region before the module is loaded
LoadLibrary(c, n) ==
  /\ create[c].at = "None"
  /\ LibTable[n] = "Free" /\ n \notin NamesTaken
  /\ Cardinality({m \in LibNames : LibTable[m] # "Free"}) < MaxLibs
  /\ LibTable' = [LibTable EXCEPT ![n] = "Reserved"]
  /\ create' = [create EXCEPT ![c].at = "Library", ![c].name = n]
  /\ UNCHANGED <<AppTable, LastAppId, RegisteredExternalApps, TaskTable, RegisteredTasks,
                 os, LastTaskId, bg, told, waited>>

\* and the region after, when it and the function of the library succeeded
LibraryDone(c) ==
  /\ create[c].at = "Library"
  /\ \E st \in {"Used"} \cup (IF Failures THEN {"Free"} ELSE {}) :
       LibTable' = [LibTable EXCEPT ![create[c].name] = st]
  /\ create' = [create EXCEPT ![c] = NoCreate]
  /\ UNCHANGED <<AppTable, LastAppId, RegisteredExternalApps, TaskTable, RegisteredTasks,
                 os, LastTaskId, bg, told, waited>>

-----------------------------------------------------------------------------
(* Calls of the tasks of apps *)

\* CFE_ES_TaskEntryPoint: GetTaskFunction polls until the task has a record,
\* or gives up; then the task is over
InCreation(t) == (\E c \in DOMAIN create : create[c].task = t) \/ (\E u \in OsTasks : os[u].child = t)
Enter(t) ==
  /\ os[t].at = "Entry"
  /\ Prompt => ~InCreation(t)
  /\ IF TaskIsMatch(t) THEN os' = [os EXCEPT ![t].at = "Run"] ELSE OsTaskDelete({t})
  /\ UNCHANGED <<tables, LastTaskId, create, bg, told, waited>>

\* CFE_ES_RunLoop: its only change of state
RunLoop(t) ==
  /\ os[t].at = "Run" /\ InContext(t)
  /\ AppTable[Slot(t)].AppState < RUNNING
  /\ AppTable' = [AppTable EXCEPT ![Slot(t)].AppState = RUNNING]
  /\ UNCHANGED <<LastAppId, RegisteredExternalApps, TaskTable, RegisteredTasks, LibTable,
                 os, LastTaskId, create, bg, told, waited>>

\* CFE_ES_WaitForSystemState raises the state of the app to the one it waits
\* for the system to reach: OPERATIONAL (RUNNING) or SHUTDOWN (STOPPED)
WaitForSystemState(t, required) ==
  /\ os[t].at = "Run" /\ InContext(t)
  /\ AppTable[Slot(t)].AppState < required
  /\ AppTable' = [AppTable EXCEPT ![Slot(t)].AppState = required]
  /\ UNCHANGED <<LastAppId, RegisteredExternalApps, TaskTable, RegisteredTasks, LibTable,
                 os, LastTaskId, create, bg, told, waited>>

\* CFE_ES_ExitApp of an app that ES knows, with the status APP_EXIT or
\* APP_ERROR: the task waits to be deleted
ExitApp(t) ==
  /\ os[t].at = "Run" /\ InContext(t)
  /\ LET rec == AppTable[Slot(t)]
         req == IF rec.Request = "RUN" THEN "EXIT" ELSE rec.Request
     IN  /\ AppTable' = [AppTable EXCEPT ![Slot(t)] =
                           [rec EXCEPT !.Request = req, !.AppState = STOPPED]]
         /\ told' = [told EXCEPT ![rec.AppId] = IF @ = "RUN" THEN "EXIT" ELSE @]
  /\ os' = [os EXCEPT ![t].at = "Exited"]
  /\ UNCHANGED <<LastAppId, RegisteredExternalApps, TaskTable, RegisteredTasks, LibTable,
                 LastTaskId, create, bg, waited>>

\* The function of the task returns: for a main task after CFE_ES_RunLoop
\* was false and CFE_ES_ExitApp returned, since ES did not find its app
Return(t) ==
  /\ os[t].at = "Run"
  /\ ~InContext(t) \/ (Returns /\ ~IsMain(t))
  /\ OsTaskDelete({t})
  /\ UNCHANGED <<tables, LastTaskId, create, bg, told, waited>>

\* CFE_ES_CreateChildTask: its checks
CreateChildTask(t) ==
  /\ Children
  /\ os[t].at = "Run" /\ InContext(t) /\ IsMain(t)
  /\ os' = [os EXCEPT ![t].at = "Start"]
  /\ UNCHANGED <<tables, LastTaskId, create, bg, told, waited>>

\* OSAL creates the task for it, or does not
StartChild(t) ==
  /\ os[t].at = "Start"
  /\ \/ \E u \in TaskIds : OsTaskCreate(u, os[t].app, t, [os EXCEPT ![t].at = "Record", ![t].child = u])
     \/ /\ Failures \/ Openings = {}
        /\ os' = [os EXCEPT ![t].at = "Run"]
        /\ UNCHANGED LastTaskId
  /\ UNCHANGED <<tables, create, bg, told, waited>>

RecordChild(t) ==
  /\ os[t].at = "Record"
  /\ RecordTask(os[t].child, os[t].app)
  /\ os' = [os EXCEPT ![t].at = "Run", ![t].child = 0]
  /\ UNCHANGED <<AppTable, LastAppId, RegisteredExternalApps, LibTable, LastTaskId, create, bg,
                 told, waited>>

\* A task deletes another, which must not be a main task
MainTasks == {AppTable[i].MainTaskId : i \in {j \in AppSlots : Used(j)}}
FreeTaskRecord(t) ==
  /\ TaskTable' = [TaskTable EXCEPT ![ToTaskIndex(t)] = FreeTask]
  /\ RegisteredTasks' = RegisteredTasks - 1
DeleteChildTask(t, u) ==
  /\ os[t].at = "Run" /\ t # u /\ u \in OsTasks
  /\ TaskIsMatch(u) /\ u \notin MainTasks
  /\ OsTaskDelete({u})
  /\ FreeTaskRecord(u)
  /\ UNCHANGED <<AppTable, LastAppId, RegisteredExternalApps, LibTable, LastTaskId, create, bg,
                 told, waited>>

\* CFE_ES_ExitChildTask, and the OS_TaskExit after it let go of the lock
ExitChildTask(t) ==
  /\ os[t].at = "Run" /\ InContext(t) /\ ~IsMain(t)
  /\ FreeTaskRecord(t)
  /\ os' = [os EXCEPT ![t].at = "Exiting"]
  /\ UNCHANGED <<AppTable, LastAppId, RegisteredExternalApps, LibTable, LastTaskId, create, bg,
                 told, waited>>
TaskExit(t) ==
  /\ os[t].at = "Exiting"
  /\ OsTaskDelete({t})
  /\ UNCHANGED <<tables, LastTaskId, create, bg, told, waited>>

\* CFE_ES_RestartApp, CFE_ES_ReloadApp and CFE_ES_DeleteApp (and the stop
\* command): only a running app is asked
Askable(a) == IsMatch(a) /\ AppTable[ToAppIndex(a)].AppState = RUNNING
Ask(a, req) ==
  /\ Askable(a)
  /\ AppTable' = [AppTable EXCEPT ![ToAppIndex(a)].Request = req]
  /\ told' = [told EXCEPT ![a] = req]
  /\ UNCHANGED <<LastAppId, RegisteredExternalApps, TaskTable, RegisteredTasks, LibTable,
                 os, LastTaskId, create, bg, waited>>

-----------------------------------------------------------------------------
(* The background task *)

\* What a scan does to a record, and whether its time is up
Stopping(i) == Used(i) /\ AppTable[i].AppState > RUNNING
Stop(i)     == Used(i) /\ AppTable[i].AppState = RUNNING /\ AppTable[i].Request # "RUN"
Expired(i)  == Stopping(i) /\ AppTable[i].Timer <= 1
Scanned(i)  == IF Stopping(i) THEN [AppTable[i] EXCEPT !.Timer = IF @ > 1 THEN @ - 1 ELSE 0]
               ELSE IF Stop(i) THEN [AppTable[i] EXCEPT !.AppState = WAITING, !.Timer = KillTimeout]
               ELSE AppTable[i]

\* The locked region of CFE_ES_RunAppTableScan
RunAppTableScan ==
  /\ bg.at = "Scan"
  /\ AppTable' = [i \in AppSlots |-> Scanned(i)]
  /\ LET todo == {AppTable[i].AppId : i \in {j \in AppSlots : Expired(j)}}
     IN  bg' = [bg EXCEPT !.todo = todo, !.at = IF todo = {} THEN "Scan" ELSE "Read"]
  /\ waited' = [a \in AppIds |-> IF IsMatch(a) /\ told[a] # "RUN" /\ waited[a] <= KillTimeout
                                 THEN waited[a] + 1 ELSE waited[a]]
  /\ UNCHANGED <<LastAppId, RegisteredExternalApps, TaskTable, RegisteredTasks, LibTable,
                 os, LastTaskId, create, told>>

\* The locked region of CFE_ES_ProcessControlRequest, for one of the list.
\* ES still knows the app, since no other task cleans up (see Served).
ProcessControlRequest ==
  /\ bg.at = "Read"
  /\ IF bg.todo = {} THEN bg' = BgIdle
     ELSE \E a \in bg.todo :
            bg' = [bg EXCEPT !.todo = @ \ {a}, !.at = "List", !.id = a,
                             !.req = AppTable[ToAppIndex(a)].Request,
                             !.name = AppTable[ToAppIndex(a)].AppName]
  /\ UNCHANGED <<tables, os, LastTaskId, create, told, waited>>

\* First region of CFE_ES_CleanUpApp; app and task records are reserved
TasksOf(a) == {t \in TaskIds : TaskIsMatch(t) /\ AppOf(t) = a}
CleanUpApp ==
  /\ bg.at = "List"
  /\ Prompt => \A t \in OsTasks : os[t].app = bg.id => ~Creating(t)
  /\ LET T == TasksOf(bg.id)
     IN  /\ TaskTable' = [i \in TaskSlots |-> IF TaskTable[i].TaskId \in T
                                              THEN [TaskTable[i] EXCEPT !.TaskId = RESERVED]
                                              ELSE TaskTable[i]]
         /\ RegisteredTasks' = RegisteredTasks - Cardinality(T)
         /\ bg' = [bg EXCEPT !.at = "Next", !.tasks = T,
                             !.main = AppTable[ToAppIndex(bg.id)].MainTaskId]
  /\ RegisteredExternalApps' = RegisteredExternalApps - 1
  /\ AppTable' = [AppTable EXCEPT ![ToAppIndex(bg.id)].AppId = RESERVED]
  /\ UNCHANGED <<LastAppId, LibTable, os, LastTaskId, create, told, waited>>

\* CFE_ES_CleanupTaskResources of each task, the main task last: OSAL objects
\* that the task created go first, other tasks among them, until a sweep finds
\* none (or no fewer than the sweep before it: the task deleted next created one
\* meanwhile, as it may after a sweep that finds none)
NextTask ==
  /\ bg.at = "Next"
  /\ IF bg.tasks = {} THEN bg' = [bg EXCEPT !.at = "Free"]
     ELSE \E t \in bg.tasks :
            /\ t = bg.main => bg.tasks = {t}
            /\ bg' = [bg EXCEPT !.at = "Sweep", !.task = t]
  /\ UNCHANGED <<tables, os, LastTaskId, create, told, waited>>

CreatedBy(t) == {u \in OsTasks : os[u].creator = t}
SweepTask ==
  /\ bg.at = "Sweep"
  /\ IF CreatedBy(bg.task) # {} THEN OsTaskDelete(CreatedBy(bg.task)) /\ UNCHANGED bg
     ELSE bg' = [bg EXCEPT !.at = "Delete"] /\ UNCHANGED os
  /\ UNCHANGED <<tables, LastTaskId, create, told, waited>>

DeleteTask ==
  /\ bg.at = "Delete"
  /\ OsTaskDelete({bg.task})
  /\ bg' = [bg EXCEPT !.at = "Next", !.tasks = @ \ {bg.task}]
  /\ UNCHANGED <<tables, LastTaskId, create, told, waited>>

\* Last region of CFE_ES_CleanUpApp.  The list of its tasks is gone from bg:
\* their records are the reserved ones, since only this task reserves any.
FreeRecords ==
  /\ bg.at = "Free"
  /\ TaskTable' = [i \in TaskSlots |-> IF TaskTable[i].TaskId = RESERVED
                                       THEN FreeTask ELSE TaskTable[i]]
  /\ AppTable' = [AppTable EXCEPT ![ToAppIndex(bg.id)] = FreeApp]
  /\ bg' = [bg EXCEPT !.at = "Create"]
  /\ UNCHANGED <<LastAppId, RegisteredExternalApps, RegisteredTasks, LibTable,
                 os, LastTaskId, create, told, waited>>

\* The CFE_ES_AppCreate of a restart, which returns at once when the name is
\* taken again or no slot is free (or MaxAppId was reached)
Restart ==
  /\ bg.at = "Create" /\ bg.req = "RESTART"
  /\ AppCreate(Background, bg.name)
  /\ bg' = [bg EXCEPT !.at = "Creating"]
  /\ UNCHANGED <<RegisteredExternalApps, TaskTable, RegisteredTasks, LibTable, os, LastTaskId,
                 told, waited>>

RequestDone ==
  /\ \/ /\ bg.at = "Create"
        /\ bg.req # "RESTART" \/ bg.name \in NamesTaken \/ ~\E a \in AppIds : NextId(a)
     \/ bg.at = "Creating" /\ create[Background].at = "None"
  /\ bg' = [BgIdle EXCEPT !.at = "Read", !.todo = bg.todo]
  /\ UNCHANGED <<tables, os, LastTaskId, create, told, waited>>

-----------------------------------------------------------------------------

LoadStep(c) == Launch(c) \/ RecordMain(c) \/ Publish(c) \/ LibraryDone(c)

BackgroundStep ==
  \/ RunAppTableScan \/ ProcessControlRequest \/ CleanUpApp
  \/ NextTask \/ SweepTask \/ DeleteTask \/ FreeRecords \/ Restart \/ RequestDone
  \/ LoadStep(Background)

TaskStep(t) ==
  \/ Enter(t) \/ RunLoop(t) \/ ExitApp(t) \/ Return(t)
  \/ \E required \in {RUNNING, STOPPED} : WaitForSystemState(t, required)
  \/ CreateChildTask(t) \/ StartChild(t) \/ RecordChild(t)
  \/ \E u \in TaskIds : DeleteChildTask(t, u)
  \/ ExitChildTask(t) \/ TaskExit(t)

Next ==
  \/ \E c \in Loaders : \/ \E n \in Names : StartApp(c, n)
                        \/ \E n \in LibNames : LoadLibrary(c, n)
                        \/ LoadStep(c)
  \/ \E a \in AppIds, req \in Commands : Ask(a, req)
  \/ BackgroundStep
  \/ \E t \in TaskIds : TaskStep(t)

Spec == Init /\ [][Next]_vars

\* The background task runs, and a start goes on: neither waits for an app
FairSpec == /\ Spec /\ WF_vars(BackgroundStep)
            /\ \A c \in Loaders : WF_vars(LoadStep(c))

-----------------------------------------------------------------------------
(* Type invariant *)

\* The tables of ES and of OSAL, and the two kinds of calls that take several
\* steps, have their types.
TypeOK ==
  /\ AppTable \in [AppSlots -> AppRec]
  /\ TaskTable \in [TaskSlots -> TaskRec]
  /\ LibTable \in [LibNames -> {"Free", "Reserved", "Used"}]
  /\ LastAppId \in 0..MaxAppId /\ LastTaskId \in 0..MaxTaskId
  /\ RegisteredExternalApps \in Nat /\ RegisteredTasks \in Nat
  /\ os \in [TaskIds -> [at : {"None", "Entry", "Run", "Start", "Record", "Exiting", "Exited"},
                         app : 0..MaxAppId, creator : 0..MaxTaskId, child : 0..MaxTaskId]]
  /\ create \in [Loaders \cup {Background} ->
                   [at : {"None", "Launch", "Record", "Publish", "Fail", "Library"},
                    name : Names \cup {NoName}, id : 0..MaxAppId, task : 0..MaxTaskId]]
  /\ bg \in [at : {"Scan", "Read", "List", "Next", "Sweep", "Delete", "Free", "Create", "Creating"},
             todo : SUBSET AppIds, id : 0..MaxAppId, req : Requests, name : Names \cup {NoName},
             tasks : SUBSET TaskIds, main : 0..MaxTaskId, task : 0..MaxTaskId]
  /\ told \in [AppIds -> Requests]
  /\ waited \in [AppIds -> 0..(KillTimeout + 1)]

-----------------------------------------------------------------------------
(* Safety *)

\* The counters of the housekeeping packet are the records that a name or an
\* id finds: apps, and main and child tasks.
CountersExact ==
  /\ RegisteredExternalApps = Cardinality({i \in AppSlots : AppTable[i].AppId \in AppIds})
  /\ RegisteredTasks = Cardinality({i \in TaskSlots : TaskTable[i].TaskId \in TaskIds})

\* No task outlives its app: code of an app runs only while ES knows the app,
\* creates it or cleans it up, not after its module is unloaded.
CleaningUp(a) == bg.id = a /\ bg.at \in {"Next", "Sweep", "Delete"}
NoOrphan ==
  \A t \in OsTasks : os[t].at \notin {"Entry", "Exiting"} =>
    \/ IsMatch(os[t].app) \/ CleaningUp(os[t].app)
    \/ \E c \in DOMAIN create : create[c].id = os[t].app

\* CFE_ES_RunLoop is false for a task only when its app was asked to stop, or
\* exits: an app that nobody stopped is in context.
NoSpuriousStop ==
  \A t \in OsTasks : os[t].at = "Run" /\ told[os[t].app] = "RUN" =>
    InContext(t) \/ CleaningUp(os[t].app)

\* An app is cleaned up when it stopped by itself or when it was asked to,
\* and then after KillTimeout scans; and a new one takes its place only if
\* the last request it got says so: requests and exits that came later, and
\* other apps in the same slot, make no difference.
Served ==
  /\ \A a \in bg.todo : IsMatch(a)
  /\ bg.at = "List" =>
       /\ IsMatch(bg.id)
       /\ \/ AppTable[ToAppIndex(bg.id)].AppState = STOPPED
          \/ told[bg.id] # "RUN" /\ waited[bg.id] > KillTimeout
  /\ bg.at \in {"List", "Next", "Sweep", "Delete", "Free", "Create"} =>
       (bg.req = "RESTART") = (told[bg.id] = "RESTART")

-----------------------------------------------------------------------------
(* Action properties *)

\* A main task ends by its own doing or in the clean up of its app: no child,
\* no clean up of another app and no reuse of its slot ends it.
MainSafe ==
  [][\A i \in AppSlots : LET t == AppTable[i].MainTaskId
                         IN  AppTable[i].AppId \in AppIds /\ t \in OsTasks
                               => os'[t] # NoTask \/ ~InContext(t)]_vars

-----------------------------------------------------------------------------
(* Liveness *)

\* An app that was asked to stop, or stops, goes, though it never calls ES
\* again, and its main task with it.
RequestServed ==
  \A a \in AppIds :
    IsMatch(a) /\ AppTable[ToAppIndex(a)].AppState >= RUNNING /\ AppTable[ToAppIndex(a)].Request # "RUN"
      ~> ~IsMatch(a) /\ bg.id # a /\ \A t \in OsTasks : os[t].app = a => os[t].creator # 0

\* A restart brings back an app of that name, unless another request follows
\* it, or no slot or task is left.
Restarted ==
  \A a \in AppIds, n \in Names :
    IsMatch(a) /\ AppTable[ToAppIndex(a)].AppName = n /\ told[a] = "RESTART"
      ~> \/ told[a] # "RESTART"
         \/ \E i \in AppSlots : AppTable[i].AppId \in AppIds \ {a} /\ AppTable[i].AppName = n
         \/ Openings = {} \/ ~\E b \in AppIds : NextId(b)

=============================================================================
