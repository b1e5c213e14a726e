----------------------------- MODULE EsAppsProofs -----------------------------
(***************************************************************************)
(* Proofs about EsApps, for every value of its constants.                  *)
(***************************************************************************)
EXTENDS EsApps, FiniteSetTheorems, FunctionTheorems, TLAPS

-----------------------------------------------------------------------------
(* The inductive invariant: apps *)

OsRec == [at : {"None", "Entry", "Run", "Start", "Record", "Exiting", "Exited"},
          app : 0..MaxAppId, creator : 0..MaxTaskId, child : 0..MaxTaskId]
CreateRec == [at : {"None", "Launch", "Record", "Publish", "Fail", "Library"},
              name : Names \cup {NoName}, id : 0..MaxAppId, task : 0..MaxTaskId]
BgRec == [at : {"Scan", "Read", "List", "Next", "Sweep", "Delete", "Free", "Create", "Creating"},
          todo : SUBSET AppIds, id : 0..MaxAppId, req : Requests, name : Names \cup {NoName},
          tasks : SUBSET TaskIds, main : 0..MaxTaskId, task : 0..MaxTaskId]
Creators == Loaders \cup {Background}

(* The types of the variables, but for those of the two counters.          *)
Types ==
  /\ AppTable \in [AppSlots -> AppRec]
  /\ TaskTable \in [TaskSlots -> TaskRec]
  /\ LibTable \in [LibNames -> {"Free", "Reserved", "Used"}]
  /\ LastAppId \in 0..MaxAppId /\ LastTaskId \in 0..MaxTaskId
  /\ os \in [TaskIds -> OsRec]
  /\ create \in [Creators -> CreateRec]
  /\ bg \in BgRec
  /\ told \in [AppIds -> Requests]
  /\ waited \in [AppIds -> 0..(KillTimeout + 1)]
  /\ \A c \in Creators : create[c].at = "Library" => create[c].name \in LibNames
  /\ \A c \in Creators : create[c].at \notin {"None", "Library"} => create[c].id \in AppIds
  /\ \A t \in TaskIds : os[t].at # "None" => os[t].app \in AppIds
  /\ \A i \in TaskSlots : TaskTable[i].TaskId \in TaskIds => TaskTable[i].AppId \in AppIds

\* The starts of apps, and the clean up, that hold a reserved record.
Making(c) == create[c].at \in {"Launch", "Record", "Publish", "Fail"}
Cleaning  == bg.at \in {"Next", "Sweep", "Delete", "Free"}

(* An id is in the record it selects, and is not given out again.  A       *)
(* reserved record is that of one start, or of the clean up.               *)
IdsInv ==
  /\ \A i \in AppSlots : AppTable[i].AppId \in AppIds =>
       ToAppIndex(AppTable[i].AppId) = i /\ AppTable[i].AppId <= LastAppId
  /\ \A c \in Creators : Making(c) =>
       /\ create[c].id \in 1..LastAppId
       /\ AppTable[ToAppIndex(create[c].id)].AppId = RESERVED
  /\ \A c, d \in Creators :
       Making(c) /\ Making(d) /\ ToAppIndex(create[c].id) = ToAppIndex(create[d].id) => c = d
  /\ Cleaning =>
       /\ AppTable[ToAppIndex(bg.id)].AppId = RESERVED
       /\ \A c \in Creators : Making(c) => ToAppIndex(create[c].id) # ToAppIndex(bg.id)
  /\ \A i \in AppSlots : AppTable[i].AppId = RESERVED =>
       \/ Cleaning /\ i = ToAppIndex(bg.id)
       \/ \E c \in Creators : Making(c) /\ i = ToAppIndex(create[c].id)
  /\ bg.at # "Creating" => create[Background].at = "None"
  /\ bg.at = "List" \/ Cleaning \/ bg.at = "Create" => bg.id \in 1..LastAppId
  /\ bg.at = "Create" => ~IsMatch(bg.id) /\ \A c \in Creators : Making(c) => create[c].id # bg.id

\* An app whose time is up, and which can be asked for nothing any more.
Due(a) ==
  /\ IsMatch(a)
  /\ \/ AppTable[ToAppIndex(a)].AppState = STOPPED
     \/ AppTable[ToAppIndex(a)].AppState = WAITING /\ told[a] # "RUN" /\ waited[a] > KillTimeout

(* The record of an app holds what it was last asked, and a timer that     *)
(* with the scans so far makes up the time it is given.                    *)
RequestInv ==
  /\ \A a \in AppIds : a > LastAppId => told[a] = "RUN"
  /\ \A c \in Creators : Making(c) =>
       /\ told[create[c].id] = "RUN"
       /\ AppTable[ToAppIndex(create[c].id)].AppState = INIT
       /\ AppTable[ToAppIndex(create[c].id)].Request = "RUN"
  /\ \A i \in AppSlots : AppTable[i].AppId \in AppIds =>
       /\ AppTable[i].Request = told[AppTable[i].AppId]
       /\ AppTable[i].AppState = WAITING =>
            /\ told[AppTable[i].AppId] # "RUN"
            /\ waited[AppTable[i].AppId] + AppTable[i].Timer > KillTimeout
  /\ bg.at = "Scan" => bg.todo = {}
  /\ \A a \in bg.todo : Due(a)
  /\ bg.at = "List" => Due(bg.id) /\ bg.id \notin bg.todo
  /\ bg.at = "List" \/ Cleaning \/ bg.at = "Create" => (bg.req = "RESTART") = (told[bg.id] = "RESTART")

AppInv == IdsInv /\ RequestInv

-----------------------------------------------------------------------------
(* The inductive invariant: tasks *)

\* A task whose record is still to be written, by the start or task that created it.
MainPending(c, t)  == create[c].at = "Record" /\ create[c].task = t
ChildPending(u, t) == os[u].at = "Record" /\ os[u].child = t
Pending(t) == (\E c \in Creators : MainPending(c, t)) \/ (\E u \in TaskIds : ChildPending(u, t))

Deleting == bg.at \in {"Next", "Sweep", "Delete"}

(* A task is recorded at most once, where its id says, for its app.        *)
RecordInv ==
  /\ \A i \in TaskSlots : TaskTable[i].TaskId \in TaskIds =>
       ToTaskIndex(TaskTable[i].TaskId) = i /\ TaskTable[i].TaskId <= LastTaskId
  /\ \A t \in TaskIds : os[t].at # "None" =>
       t <= LastTaskId /\ (TaskIsMatch(t) => AppOf(t) = os[t].app)
  /\ \A t, u \in OsTasks : ToTaskIndex(t) = ToTaskIndex(u) => t = u
  /\ \A t \in TaskIds : os[t].creator <= LastTaskId /\ (os[t].at = "None" => os[t].creator = 0)
  /\ \A t \in TaskIds : os[t].at = "Exiting" => ~TaskIsMatch(t)

(* A task without a record has not run yet.                                *)
PendingInv ==
  /\ \A t \in TaskIds : Pending(t) =>
       /\ t <= LastTaskId /\ ~TaskIsMatch(t) /\ os[t].at \in {"Entry", "None"}
       /\ Deleting => t \notin bg.tasks
       /\ \A i \in AppSlots : AppTable[i].MainTaskId # t
       /\ \A u \in OsTasks : os[u].creator # t
  /\ \A c, d \in Creators, t \in TaskIds : MainPending(c, t) /\ MainPending(d, t) => c = d
  /\ \A c \in Creators, u, t \in TaskIds : ~(MainPending(c, t) /\ ChildPending(u, t))
  /\ \A u, v, t \in TaskIds : ChildPending(u, t) /\ ChildPending(v, t) => u = v
  /\ \A c \in Creators : create[c].at = "Record" =>
       /\ create[c].task \in TaskIds
       /\ os[create[c].task].creator = 0
       /\ create[c].task \in OsTasks => os[create[c].task].app = create[c].id
  /\ \A u \in TaskIds : os[u].at = "Record" =>
       /\ os[u].child \in TaskIds
       /\ os[u].child \in OsTasks => os[os[u].child].creator = u /\ os[os[u].child].app = os[u].app

(* A main task belongs to its app and was not created by another task.  A  *)
(* task that is to be deleted has lost its record.                         *)
MainInv ==
  /\ \A i \in AppSlots : AppTable[i].MainTaskId \in TaskIds =>
       AppTable[i].MainTaskId <= LastTaskId /\ os[AppTable[i].MainTaskId].creator = 0
  /\ \A i \in AppSlots : AppTable[i].AppId \in AppIds =>
       LET t == AppTable[i].MainTaskId IN
       t \in TaskIds /\ TaskIsMatch(t) => AppOf(t) = AppTable[i].AppId
  /\ \A c \in Creators : Making(c) =>
       LET t == AppTable[ToAppIndex(create[c].id)].MainTaskId IN
       t \in TaskIds /\ TaskIsMatch(t) => AppOf(t) = create[c].id
  /\ Deleting => \A t \in bg.tasks : t <= LastTaskId /\ ~TaskIsMatch(t)
  /\ bg.at \in {"Sweep", "Delete"} => bg.task \in bg.tasks

TaskInv == RecordInv /\ PendingInv /\ MainInv

-----------------------------------------------------------------------------
(* What a prompt start adds *)

\* Where a task runs code of its app, and what tells that the app is there
Running == {"Run", "Start", "Record", "Exited"}
Published(t) ==
  \/ IsMatch(os[t].app)
  \/ \E c \in Creators : create[c].at = "Publish" /\ create[c].task = t /\ create[c].id = os[t].app

(* A task that runs is known with its app, or is on the list of the clean  *)
(* up, which begins only when no task is being created.                    *)
PromptInv ==
  /\ \A t \in TaskIds : Pending(t) => t \in OsTasks
  /\ \A t \in TaskIds : os[t].at = "Entry" /\ TaskIsMatch(t) => Published(t)
  /\ \A t \in TaskIds : os[t].at \in Running =>
       \/ TaskIsMatch(t) /\ IsMatch(os[t].app)
       \/ Deleting /\ os[t].app = bg.id /\ t \in bg.tasks /\ ~Creating(t)
  /\ Deleting => \A t \in bg.tasks : t \in OsTasks => os[t].app = bg.id

(* And that no child task returns: a record is that of a task.             *)
LiveInv ==
  /\ \A i \in TaskSlots : TaskTable[i].TaskId \in TaskIds => TaskTable[i].TaskId \in OsTasks
  /\ Deleting => \A i \in TaskSlots : TaskTable[i].TaskId \in TaskIds => TaskTable[i].AppId # bg.id
  /\ \A u \in OsTasks, t \in TaskIds : os[u].creator = t =>
       (TaskIsMatch(t) => os[u].app = AppOf(t)) /\ (Deleting /\ t \in bg.tasks => os[u].app = bg.id)

-----------------------------------------------------------------------------
(* Slots and records *)

LEMMA SlotTypes ==
  /\ MaxApps \in Nat \ {0} /\ MaxTasks \in Nat \ {0} /\ KillTimeout \in Nat \ {0}
  /\ MaxAppId \in Nat /\ MaxTaskId \in Nat
  /\ \A a \in Nat : ToAppIndex(a) \in AppSlots
  /\ \A t \in Nat : ToTaskIndex(t) \in TaskSlots
<1>1. ASSUME NEW n \in Nat \ {0}, NEW a \in Nat PROVE a % n \in 0..(n - 1)  OBVIOUS
<1>2. MaxApps \in Nat \ {0} /\ MaxTasks \in Nat \ {0} /\ KillTimeout \in Nat \ {0} /\ MaxAppId \in Nat
      /\ MaxTaskId \in Nat
  BY SizeAssumption
<1> QED BY <1>1, <1>2 DEF ToAppIndex, ToTaskIndex, AppSlots, TaskSlots

LEMMA RecordTypes ==
  /\ FreeApp \in AppRec /\ FreeTask \in TaskRec
  /\ \A n \in Names \cup {NoName} : [FreeApp EXCEPT !.AppId = RESERVED, !.AppName = n] \in AppRec
  /\ \A n : /\ [FreeApp EXCEPT !.AppId = RESERVED, !.AppName = n].AppId = RESERVED
            /\ [FreeApp EXCEPT !.AppId = RESERVED, !.AppName = n].AppState = INIT
            /\ [FreeApp EXCEPT !.AppId = RESERVED, !.AppName = n].Request = "RUN"
            /\ [FreeApp EXCEPT !.AppId = RESERVED, !.AppName = n].MainTaskId = UNDEFINED
  /\ UNDEFINED \notin AppIds /\ RESERVED \notin AppIds /\ UNDEFINED \notin TaskIds /\ RESERVED \notin TaskIds
  /\ UNDEFINED # RESERVED
<1>1. 0 \in 0..KillTimeout  BY SlotTypes
<1>2. \A r \in AppRec, n \in Names \cup {NoName} : [r EXCEPT !.AppId = RESERVED, !.AppName = n] \in AppRec  BY DEF AppRec
<1>3. FreeApp \in AppRec  BY <1>1 DEF FreeApp, AppRec, UNDEFINED, INIT, STOPPED, Requests
<1>4. FreeTask \in TaskRec  BY DEF FreeTask, TaskRec
<1>5. UNDEFINED \notin AppIds /\ RESERVED \notin AppIds /\ UNDEFINED \notin TaskIds /\ RESERVED \notin TaskIds
      /\ UNDEFINED # RESERVED
  BY DEF UNDEFINED, RESERVED, AppIds, TaskIds
<1> QED BY <1>2, <1>3, <1>4, <1>5 DEF FreeApp

(* What the types say of a record that is not a task.                      *)
LEMMA NoTaskType ==
  NoTask \in OsRec
  /\ NoTask.at = "None" /\ NoTask.app = 0 /\ NoTask.creator = 0 /\ NoTask.child = 0
BY SlotTypes DEF NoTask, OsRec

LEMMA TypesInit == Init => Types
<1> SUFFICES ASSUME Init PROVE Types  OBVIOUS
<1>1. NoCreate \in CreateRec  BY SlotTypes DEF NoCreate, CreateRec
<1>2. BgIdle \in BgRec  BY SlotTypes DEF BgIdle, BgRec, Requests
<1>3. told \in [AppIds -> Requests] /\ waited \in [AppIds -> 0..(KillTimeout + 1)]
  BY SlotTypes DEF Init, Requests
<1>4. LastAppId \in 0..MaxAppId /\ LastTaskId \in 0..MaxTaskId  BY SlotTypes DEF Init
<1>5. /\ \A c \in Creators : create[c].at = "None"
      /\ \A t \in TaskIds : os[t].at = "None"
      /\ \A i \in TaskSlots : TaskTable[i].TaskId \notin TaskIds
  BY NoTaskType, RecordTypes DEF Init, NoCreate, Creators, FreeTask
<1>6. LibTable \in [LibNames -> {"Free", "Reserved", "Used"}]  BY DEF Init
<1> QED BY <1>1, <1>2, <1>3, <1>4, <1>5, <1>6, RecordTypes, NoTaskType DEF Init, Types, Creators

-----------------------------------------------------------------------------
(* The types are kept *)

(* Of OSAL: a task is created, and others are deleted.                     *)
LEMMA OsCreated ==
  ASSUME Types, NEW t \in TaskIds, NEW app \in 0..MaxAppId, NEW creator \in 0..MaxTaskId,
         NEW rest \in [TaskIds -> OsRec], OsTaskCreate(t, app, creator, rest)
  PROVE  /\ os' \in [TaskIds -> OsRec] /\ LastTaskId' = t /\ LastTaskId' \in 0..MaxTaskId
         /\ t \in Openings /\ t > LastTaskId
         /\ os'[t].at = "Entry" /\ os'[t].app = app /\ os'[t].creator = creator /\ os'[t].child = 0
         /\ \A u \in TaskIds : u # t => os'[u] = rest[u]
<1> PICK r : r = [at |-> "Entry", app |-> app, creator |-> creator, child |-> 0]  OBVIOUS
<1>1. os' = [rest EXCEPT ![t] = r] /\ LastTaskId' = t /\ t \in Openings  BY DEF OsTaskCreate
<1>2. r \in OsRec  BY SlotTypes DEF OsRec
<1>3. t > LastTaskId /\ t \in 0..MaxTaskId  BY <1>1 DEF Openings, TaskIds
<1>4. os' \in [TaskIds -> OsRec] /\ os'[t] = r  BY <1>1, <1>2
<1>5. \A u \in TaskIds : u # t => os'[u] = rest[u]  BY <1>1
<1> QED BY <1>1, <1>3, <1>4, <1>5

LEMMA OsDeleted ==
  ASSUME Types, NEW T, OsTaskDelete(T)
  PROVE  /\ os' \in [TaskIds -> OsRec]
         /\ \A t \in TaskIds : IF t \in T THEN os'[t] = NoTask ELSE os'[t] = os[t]
BY NoTaskType DEF OsTaskDelete, Types, OsRec

(* A task is at another place.                                             *)
(* A start is at another place.                                            *)
LEMMA CreateMoved ==
  ASSUME Types, NEW c \in Creators, NEW r \in CreateRec,
         r.at = "Library" => r.name \in LibNames, r.at \notin {"None", "Library"} => r.id \in AppIds
  PROVE  /\ [create EXCEPT ![c] = r] \in [Creators -> CreateRec]
         /\ [create EXCEPT ![c] = r][c] = r
         /\ \A d \in Creators : d # c => [create EXCEPT ![c] = r][d] = create[d]
         /\ \A d \in Creators : [create EXCEPT ![c] = r][d].at = "Library"
                                  => [create EXCEPT ![c] = r][d].name \in LibNames
         /\ \A d \in Creators : [create EXCEPT ![c] = r][d].at \notin {"None", "Library"}
                                  => [create EXCEPT ![c] = r][d].id \in AppIds
BY DEF Types

LEMMA AppSet ==
  ASSUME Types, NEW i \in AppSlots, NEW r \in AppRec
  PROVE  /\ [AppTable EXCEPT ![i] = r] \in [AppSlots -> AppRec]
         /\ [AppTable EXCEPT ![i] = r][i] = r
         /\ \A j \in AppSlots : j # i => [AppTable EXCEPT ![i] = r][j] = AppTable[j]
BY DEF Types

LEMMA TaskSet ==
  ASSUME Types, NEW i \in TaskSlots, NEW r \in TaskRec, r.TaskId \in TaskIds => r.AppId \in AppIds
  PROVE  /\ [TaskTable EXCEPT ![i] = r] \in [TaskSlots -> TaskRec]
         /\ [TaskTable EXCEPT ![i] = r][i] = r
         /\ \A j \in TaskSlots : j # i => [TaskTable EXCEPT ![i] = r][j] = TaskTable[j]
         /\ \A j \in TaskSlots : [TaskTable EXCEPT ![i] = r][j].TaskId \in TaskIds
                                  => [TaskTable EXCEPT ![i] = r][j].AppId \in AppIds
BY DEF Types

(* What an id selects.                                                     *)
LEMMA Selected ==
  ASSUME Types
  PROVE  /\ \A c \in Creators : /\ create[c] \in CreateRec
                                /\ ToAppIndex(create[c].id) \in AppSlots
                                /\ ToTaskIndex(create[c].task) \in TaskSlots
         /\ ToAppIndex(bg.id) \in AppSlots
         /\ \A a \in AppIds : ToAppIndex(a) \in AppSlots
         /\ \A t \in TaskIds : ToTaskIndex(t) \in TaskSlots /\ os[t] \in OsRec
         /\ \A i \in AppSlots : AppTable[i] \in AppRec
         /\ \A i \in TaskSlots : TaskTable[i] \in TaskRec
<1>1. \A c \in Creators : create[c].id \in Nat /\ create[c].task \in Nat
  BY SlotTypes DEF Types, CreateRec
<1>2. bg.id \in Nat  BY SlotTypes DEF Types, BgRec
<1>3. AppIds \subseteq Nat /\ TaskIds \subseteq Nat  BY SlotTypes DEF AppIds, TaskIds
<1> QED BY <1>1, <1>2, <1>3, SlotTypes DEF Types

(* A task of which ES knows the app.                                       *)
LEMMA Context ==
  ASSUME Types, NEW t \in TaskIds, InContext(t)
  PROVE  /\ AppOf(t) \in AppIds /\ Slot(t) \in AppSlots
         /\ AppTable[Slot(t)].AppId = AppOf(t) /\ TaskIsMatch(t)
<1>1. AppTable[ToAppIndex(AppOf(t))].AppId = AppOf(t) /\ TaskIsMatch(t)  BY DEF InContext, IsMatch
<1>2. AppOf(t) \in AppIds  BY <1>1, Selected DEF AppOf, TaskIsMatch, Types
<1> QED BY <1>1, <1>2, Selected DEF Slot

LEMMA IdTypes ==
  ASSUME Types
  PROVE  /\ AppIds \subseteq Nat /\ TaskIds \subseteq Nat /\ LastAppId \in Nat /\ LastTaskId \in Nat
         /\ \A a \in 1..LastAppId : a \in AppIds /\ a <= LastAppId
         /\ \A a \in AppIds : a <= LastAppId => a \in 1..LastAppId
         /\ bg.todo \subseteq AppIds
<1>1. MaxAppId \in Nat /\ MaxTaskId \in Nat  BY SlotTypes
<1>2. LastAppId \in 0..MaxAppId /\ LastTaskId \in 0..MaxTaskId /\ bg.todo \subseteq AppIds
  BY DEF Types, BgRec
<1> QED BY <1>1, <1>2 DEF AppIds, TaskIds

-----------------------------------------------------------------------------
(* What the actions do, record by record *)

\* What they leave alone
SameApps  == AppTable' = AppTable /\ LastAppId' = LastAppId
SameTasks == TaskTable' = TaskTable
SameOs    == os' = os /\ LastTaskId' = LastTaskId
SameLibs  == LibTable' = LibTable
SameHist  == told' = told /\ waited' = waited

LEMMA AppCreateDoes ==
  ASSUME Types, NEW c \in Creators, NEW n \in Names \cup {NoName}, AppCreate(c, n)
  PROVE  \E a \in AppIds :
           /\ a > LastAppId /\ LastAppId' = a
           /\ AppTable[ToAppIndex(a)].AppId = UNDEFINED
           /\ AppTable' \in [AppSlots -> AppRec]
           /\ AppTable'[ToAppIndex(a)].AppId = RESERVED
           /\ AppTable'[ToAppIndex(a)].AppState = INIT
           /\ AppTable'[ToAppIndex(a)].Request = "RUN"
           /\ AppTable'[ToAppIndex(a)].MainTaskId = UNDEFINED
           /\ \A i \in AppSlots : i # ToAppIndex(a) => AppTable'[i] = AppTable[i]
           /\ create' \in [Creators -> CreateRec]
           /\ create'[c].at = "Launch" /\ create'[c].id = a /\ create'[c].task = 0
           /\ \A d \in Creators : d # c => create'[d] = create[d]
           /\ \A d \in Creators : create'[d].at = "Library" => create'[d].name \in LibNames
           /\ \A d \in Creators : create'[d].at \notin {"None", "Library"} => create'[d].id \in AppIds
<1>1. PICK a \in AppIds : /\ NextId(a)
                          /\ AppTable' = [AppTable EXCEPT ![ToAppIndex(a)] =
                                 [FreeApp EXCEPT !.AppId = RESERVED, !.AppName = n]]
                          /\ LastAppId' = a
                          /\ create' = [create EXCEPT ![c] =
                                 [at |-> "Launch", name |-> n, id |-> a, task |-> 0]]
  BY DEF AppCreate
<1>2. a > LastAppId /\ AppTable[ToAppIndex(a)].AppId = UNDEFINED
  BY <1>1, SlotTypes DEF NextId, FreeIds, Used, Types
<1>3. PICK r : r = [FreeApp EXCEPT !.AppId = RESERVED, !.AppName = n]  OBVIOUS
<1>4. /\ r \in AppRec /\ r.AppId = RESERVED /\ r.AppState = INIT /\ r.Request = "RUN"
      /\ r.MainTaskId = UNDEFINED
  BY <1>3, RecordTypes
<1>5. AppTable' = [AppTable EXCEPT ![ToAppIndex(a)] = r]  BY <1>1, <1>3
<1>6. ToAppIndex(a) \in AppSlots  BY Selected
<1>7. PICK s : s = [at |-> "Launch", name |-> n, id |-> a, task |-> 0]  OBVIOUS
<1>8. s \in CreateRec /\ s.at = "Launch" /\ s.id = a /\ s.task = 0
  BY <1>7, SlotTypes DEF CreateRec, AppIds
<1>9. create' = [create EXCEPT ![c] = s]  BY <1>1, <1>7
<1>10. /\ AppTable' \in [AppSlots -> AppRec] /\ AppTable'[ToAppIndex(a)] = r
       /\ \A i \in AppSlots : i # ToAppIndex(a) => AppTable'[i] = AppTable[i]
  BY <1>4, <1>5, <1>6, AppSet
<1>11. s.at = "Library" => s.name \in LibNames  BY <1>8
<1>12. /\ create' \in [Creators -> CreateRec] /\ create'[c] = s
       /\ \A d \in Creators : d # c => create'[d] = create[d]
       /\ \A d \in Creators : create'[d].at = "Library" => create'[d].name \in LibNames
       /\ \A d \in Creators : create'[d].at \notin {"None", "Library"} => create'[d].id \in AppIds
  BY <1>8, <1>9, <1>11, CreateMoved
<1> QED BY <1>1, <1>2, <1>4, <1>8, <1>10, <1>12

LEMMA StartAppDoes ==
  ASSUME Types, NEW c \in Creators, NEW n \in Names, StartApp(c, n)
  PROVE  /\ Types' /\ create[c].at = "None"
         /\ bg' = bg /\ SameTasks /\ SameOs /\ SameHist
<1>1. bg' = bg /\ TaskTable' = TaskTable /\ LibTable' = LibTable /\ os' = os /\ LastTaskId' = LastTaskId
      /\ told' = told /\ waited' = waited /\ create[c].at = "None" /\ AppCreate(c, n)
  BY DEF StartApp
<1>2. /\ LastAppId' \in 0..MaxAppId /\ AppTable' \in [AppSlots -> AppRec]
      /\ create' \in [Creators -> CreateRec]
      /\ \A d \in Creators : create'[d].at = "Library" => create'[d].name \in LibNames
      /\ \A d \in Creators : create'[d].at \notin {"None", "Library"} => create'[d].id \in AppIds
  BY <1>1, AppCreateDoes DEF AppIds
<1> QED BY <1>1, <1>2 DEF Types, SameTasks, SameOs, SameHist

LEMMA LaunchDoes ==
  ASSUME Types, NEW c \in Creators, Launch(c)
  PROVE  /\ Types' /\ SameApps /\ SameTasks /\ bg' = bg /\ SameHist
         /\ create[c].at = "Launch" /\ create'[c].id = create[c].id
         /\ \A d \in Creators : d # c => create'[d] = create[d]
         /\ \/ /\ create'[c].at = "Record"
               /\ \E t \in TaskIds : /\ create'[c].task = t
                                     /\ OsTaskCreate(t, create[c].id, 0, os)
            \/ create'[c].at = "Fail" /\ SameOs
<1>1. /\ AppTable' = AppTable /\ LastAppId' = LastAppId /\ TaskTable' = TaskTable
      /\ LibTable' = LibTable /\ bg' = bg /\ told' = told /\ waited' = waited
      /\ create[c].at = "Launch"
  BY DEF Launch, tables
<1> USE DEF SameApps, SameTasks, SameHist, SameOs
<1>2. create[c] \in CreateRec /\ create[c].id \in AppIds /\ create[c].id \in 0..MaxAppId
  BY <1>1 DEF Types, AppIds
<1>3. CASE \E t \in TaskIds : /\ OsTaskCreate(t, create[c].id, 0, os)
                              /\ create' = [create EXCEPT ![c].at = "Record", ![c].task = t]
  <2>1. PICK t \in TaskIds : /\ OsTaskCreate(t, create[c].id, 0, os)
                              /\ create' = [create EXCEPT ![c].at = "Record", ![c].task = t]
    BY <1>3
  <2>2. PICK r : r = [create[c] EXCEPT !.at = "Record", !.task = t]  OBVIOUS
  <2> t \in 0..MaxTaskId  BY SlotTypes DEF TaskIds
  <2>3. r \in CreateRec /\ r.at = "Record" /\ r.id = create[c].id /\ r.task = t
    BY <1>2, <2>2 DEF CreateRec
  <2>4. create' = [create EXCEPT ![c] = r]  BY <2>1, <2>2, <1>2 DEF Types
  <2>5. /\ create' \in [Creators -> CreateRec] /\ create'[c] = r
        /\ \A d \in Creators : d # c => create'[d] = create[d]
        /\ \A d \in Creators : create'[d].at = "Library" => create'[d].name \in LibNames
        /\ \A d \in Creators : create'[d].at \notin {"None", "Library"} => create'[d].id \in AppIds
    BY <2>3, <2>4, <1>2, CreateMoved
  <2>6. /\ os' \in [TaskIds -> OsRec] /\ LastTaskId' \in 0..MaxTaskId
        /\ os'[t].app = create[c].id /\ \A u \in TaskIds : u # t => os'[u] = os[u]
    BY <2>1, <1>2, SlotTypes, OsCreated DEF Types
  <2>7. \A u \in TaskIds : os'[u].at # "None" => os'[u].app \in AppIds  BY <2>6, <1>2 DEF Types
  <2>8. Types'  BY <1>1, <2>5, <2>6, <2>7 DEF Types
  <2> QED BY <1>1, <2>1, <2>3, <2>5, <2>8
<1>4. CASE create' = [create EXCEPT ![c].at = "Fail"] /\ os' = os /\ LastTaskId' = LastTaskId
  <2>2. PICK r : r = [create[c] EXCEPT !.at = "Fail"]  OBVIOUS
  <2>3. r \in CreateRec /\ r.at = "Fail" /\ r.id = create[c].id
    BY <1>2, <2>2 DEF CreateRec
  <2>4. create' = [create EXCEPT ![c] = r]  BY <1>4, <2>2, <1>2 DEF Types
  <2>5. /\ create' \in [Creators -> CreateRec] /\ create'[c] = r
        /\ \A d \in Creators : d # c => create'[d] = create[d]
        /\ \A d \in Creators : create'[d].at = "Library" => create'[d].name \in LibNames
        /\ \A d \in Creators : create'[d].at \notin {"None", "Library"} => create'[d].id \in AppIds
    BY <2>3, <2>4, <1>2, CreateMoved
  <2>8. Types'  BY <1>1, <1>4, <2>5 DEF Types
  <2> QED BY <1>1, <1>4, <2>3, <2>5, <2>8
<1> QED BY <1>3, <1>4 DEF Launch

LEMMA LaunchCreates ==
  ASSUME Types, NEW c \in Creators, Launch(c)
  PROVE  \/ create'[c].at = "Fail" /\ SameOs
         \/ \E t \in TaskIds :
              /\ create'[c].at = "Record" /\ create'[c].task = t
              /\ t \in Openings /\ t > LastTaskId /\ LastTaskId' = t
              /\ os'[t].at = "Entry" /\ os'[t].app = create[c].id /\ os'[t].creator = 0
              /\ \A u \in TaskIds : u # t => os'[u] = os[u]
<1>1. CASE create'[c].at = "Record" /\ \E t \in TaskIds : create'[c].task = t /\ OsTaskCreate(t, create[c].id, 0, os)
  <2>1. PICK t \in TaskIds : create'[c].task = t /\ OsTaskCreate(t, create[c].id, 0, os)  BY <1>1
  <2>2. PICK id \in 0..MaxAppId, z \in 0..MaxTaskId, rest \in [TaskIds -> OsRec] :
             id = create[c].id /\ z = 0 /\ rest = os
    BY SlotTypes DEF Types, CreateRec
  <2>3. OsTaskCreate(t, id, z, rest)  BY <2>1, <2>2
  <2> QED BY <1>1, <2>1, <2>2, <2>3, OsCreated
<1> QED BY <1>1, LaunchDoes
(* What is asked of the tables, and of the starts, for the types.          *)
CreateTyped ==
  /\ create \in [Creators -> CreateRec]
  /\ \A d \in Creators : create[d].at = "Library" => create[d].name \in LibNames
  /\ \A d \in Creators : create[d].at \notin {"None", "Library"} => create[d].id \in AppIds
OsTyped == os \in [TaskIds -> OsRec] /\ \A t \in TaskIds : os[t].at # "None" => os[t].app \in AppIds
TasksTyped ==
  /\ TaskTable \in [TaskSlots -> TaskRec]
  /\ \A i \in TaskSlots : TaskTable[i].TaskId \in TaskIds => TaskTable[i].AppId \in AppIds

LEMMA CreateStep ==
  ASSUME Types, NEW c \in Creators, NEW r \in CreateRec, create' = [create EXCEPT ![c] = r],
         (r.at = "Library" => r.name \in LibNames) /\ (r.at \notin {"None", "Library"} => r.id \in AppIds)
  PROVE  CreateTyped' /\ create'[c] = r /\ \A d \in Creators : d # c => create'[d] = create[d]
BY DEF Types, CreateTyped

(* The record of a task is written.                                        *)
LEMMA RecordTaskDoes ==
  ASSUME Types, NEW t \in 0..MaxTaskId, NEW a \in AppIds, RecordTask(t, a)
  PROVE  /\ TasksTyped' /\ ToTaskIndex(t) \in TaskSlots
         /\ TaskTable'[ToTaskIndex(t)].TaskId = t /\ TaskTable'[ToTaskIndex(t)].AppId = a
         /\ \A i \in TaskSlots : i # ToTaskIndex(t) => TaskTable'[i] = TaskTable[i]
         /\ RegisteredTasks' = RegisteredTasks + 1
<1> PICK r : r = [TaskId |-> t, AppId |-> a]  OBVIOUS
<1>1. TaskTable' = [TaskTable EXCEPT ![ToTaskIndex(t)] = r]  BY DEF RecordTask
<1>2. r \in TaskRec /\ r.TaskId = t /\ r.AppId = a  BY SlotTypes DEF TaskRec, TaskIds, UNDEFINED
<1>3. ToTaskIndex(t) \in TaskSlots  BY SlotTypes
<1> QED BY <1>1, <1>2, <1>3, TaskSet DEF TasksTyped, RecordTask

LEMMA RecordMainDoes ==
  ASSUME Types, NEW c \in Creators, RecordMain(c)
  PROVE  /\ Types' /\ LastAppId' = LastAppId /\ SameOs /\ bg' = bg /\ SameHist
         /\ create[c].at = "Record" /\ create'[c].at = "Publish" /\ create'[c].id = create[c].id
         /\ create[c].id \in AppIds /\ create[c].task \in 0..MaxTaskId
         /\ \A d \in Creators : d # c => create'[d] = create[d]
         /\ RecordTask(create[c].task, create[c].id)
         /\ AppTable'[ToAppIndex(create[c].id)].MainTaskId = create[c].task
         /\ \A i \in AppSlots : /\ AppTable'[i].AppId = AppTable[i].AppId
                                /\ AppTable'[i].AppState = AppTable[i].AppState
                                /\ AppTable'[i].Request = AppTable[i].Request
                                /\ AppTable'[i].Timer = AppTable[i].Timer
         /\ \A i \in AppSlots : i # ToAppIndex(create[c].id) => AppTable'[i] = AppTable[i]
         /\ RegisteredExternalApps' = RegisteredExternalApps
<1>1. /\ LastAppId' = LastAppId /\ RegisteredExternalApps' = RegisteredExternalApps
      /\ LibTable' = LibTable /\ os' = os /\ LastTaskId' = LastTaskId
      /\ bg' = bg /\ told' = told /\ waited' = waited /\ create[c].at = "Record"
      /\ RecordTask(create[c].task, create[c].id)
  BY DEF RecordMain
<1> PICK i : i = ToAppIndex(create[c].id)  OBVIOUS
<1>2. /\ create[c] \in CreateRec /\ create[c].id \in AppIds /\ create[c].task \in 0..MaxTaskId
      /\ i \in AppSlots /\ AppTable[i] \in AppRec
  BY <1>1, Selected DEF Types, CreateRec
<1> PICK r : r = [AppTable[i] EXCEPT !.MainTaskId = create[c].task]  OBVIOUS
<1>3. create[c].task \in TaskIds \cup {UNDEFINED}  BY <1>2, SlotTypes DEF TaskIds, UNDEFINED
<1>4. /\ r \in AppRec /\ r.MainTaskId = create[c].task
      /\ r.AppId = AppTable[i].AppId /\ r.AppState = AppTable[i].AppState
      /\ r.Request = AppTable[i].Request /\ r.Timer = AppTable[i].Timer
  BY <1>2, <1>3 DEF AppRec
<1>5. AppTable' = [AppTable EXCEPT ![i] = r]  BY <1>2 DEF RecordMain, Types
<1>6. /\ AppTable' \in [AppSlots -> AppRec] /\ AppTable'[i] = r
      /\ \A j \in AppSlots : j # i => AppTable'[j] = AppTable[j]
  BY <1>2, <1>4, <1>5, AppSet
<1> PICK s : s = [create[c] EXCEPT !.at = "Publish"]  OBVIOUS
<1>7. s \in CreateRec /\ s.at = "Publish" /\ s.id = create[c].id  BY <1>2 DEF CreateRec
<1>8. create' = [create EXCEPT ![c] = s]  BY <1>2 DEF RecordMain, Types
<1>81. (s.at = "Library" => s.name \in LibNames) /\ (s.at \notin {"None", "Library"} => s.id \in AppIds)
  BY <1>2, <1>7
<1>9. CreateTyped' /\ create'[c] = s /\ \A d \in Creators : d # c => create'[d] = create[d]
  BY <1>81, <1>7, <1>8, CreateStep
<1>10. TasksTyped'  BY <1>1, <1>2, RecordTaskDoes
<1>11. Types'  BY <1>1, <1>6, <1>9, <1>10 DEF Types, CreateTyped, TasksTyped
<1> QED BY <1>1, <1>2, <1>4, <1>6, <1>7, <1>9, <1>11 DEF SameOs, SameHist

LEMMA PublishDoes ==
  ASSUME Types, NEW c \in Creators, Publish(c)
  PROVE  /\ Types' /\ LastAppId' = LastAppId /\ SameOs /\ SameTasks /\ bg' = bg /\ SameHist
         /\ create'[c].at = "None" /\ create[c].id \in AppIds
         /\ \A d \in Creators : d # c => create'[d] = create[d]
         /\ \A i \in AppSlots : i # ToAppIndex(create[c].id) => AppTable'[i] = AppTable[i]
         /\ RegisteredTasks' = RegisteredTasks
         /\ LET i == ToAppIndex(create[c].id) IN
            \/ /\ create[c].at = "Publish"
               /\ AppTable'[i].AppId = create[c].id
               /\ AppTable'[i].AppState = AppTable[i].AppState
               /\ AppTable'[i].Request = AppTable[i].Request
               /\ AppTable'[i].MainTaskId = AppTable[i].MainTaskId
               /\ RegisteredExternalApps' = RegisteredExternalApps + 1
            \/ /\ create[c].at = "Fail"
               /\ AppTable'[i].AppId = UNDEFINED
               /\ AppTable'[i].MainTaskId = UNDEFINED
               /\ RegisteredExternalApps' = RegisteredExternalApps
<1>1. /\ LastAppId' = LastAppId /\ TaskTable' = TaskTable /\ RegisteredTasks' = RegisteredTasks
      /\ LibTable' = LibTable /\ os' = os /\ LastTaskId' = LastTaskId
      /\ bg' = bg /\ told' = told /\ waited' = waited /\ create[c].at \in {"Publish", "Fail"}
      /\ create' = [create EXCEPT ![c] = NoCreate]
  BY DEF Publish
<1> PICK i : i = ToAppIndex(create[c].id)  OBVIOUS
<1>2. create[c].id \in AppIds /\ i \in AppSlots /\ AppTable[i] \in AppRec  BY <1>1, Selected DEF Types
<1>3. NoCreate \in CreateRec /\ NoCreate.at = "None"  BY SlotTypes DEF NoCreate, CreateRec
<1>4. CreateTyped' /\ create'[c].at = "None" /\ \A d \in Creators : d # c => create'[d] = create[d]
  BY <1>1, <1>3, CreateStep
<1>5. CASE create[c].at = "Publish"
  <2> PICK r : r = [AppTable[i] EXCEPT !.AppId = create[c].id]  OBVIOUS
  <2>1. /\ r \in AppRec /\ r.MainTaskId = AppTable[i].MainTaskId /\ r.AppId = create[c].id
        /\ r.AppState = AppTable[i].AppState /\ r.Request = AppTable[i].Request
    BY <1>2 DEF AppRec
  <2>2. AppTable' = [AppTable EXCEPT ![i] = r]  BY <1>5, <1>2 DEF Publish, Types
  <2>3. /\ AppTable' \in [AppSlots -> AppRec] /\ AppTable'[i] = r
        /\ \A j \in AppSlots : j # i => AppTable'[j] = AppTable[j]
    BY <1>2, <2>1, <2>2, AppSet
  <2>4. RegisteredExternalApps' = RegisteredExternalApps + 1  BY <1>5 DEF Publish
  <2>5. Types'  BY <1>1, <1>4, <2>3 DEF Types, CreateTyped
  <2> QED BY <1>1, <1>2, <1>4, <1>5, <2>1, <2>3, <2>4, <2>5 DEF SameOs, SameHist, SameTasks
<1>6. CASE create[c].at = "Fail"
  <2>1. FreeApp \in AppRec /\ FreeApp.AppId = UNDEFINED /\ FreeApp.MainTaskId = UNDEFINED
    BY RecordTypes DEF FreeApp
  <2>2. AppTable' = [AppTable EXCEPT ![i] = FreeApp]  BY <1>6 DEF Publish
  <2>3. /\ AppTable' \in [AppSlots -> AppRec] /\ AppTable'[i] = FreeApp
        /\ \A j \in AppSlots : j # i => AppTable'[j] = AppTable[j]
    BY <1>2, <2>1, <2>2, AppSet
  <2>4. RegisteredExternalApps' = RegisteredExternalApps  BY <1>6 DEF Publish
  <2>5. Types'  BY <1>1, <1>4, <2>3 DEF Types, CreateTyped
  <2> QED BY <1>1, <1>2, <1>4, <1>6, <2>1, <2>3, <2>4, <2>5 DEF SameOs, SameHist, SameTasks
<1> QED BY <1>1, <1>5, <1>6

LEMMA LoadLibraryDoes ==
  ASSUME Types, NEW c \in Creators, NEW n \in LibNames, LoadLibrary(c, n)
  PROVE  /\ Types' /\ SameApps /\ SameOs /\ SameTasks /\ bg' = bg /\ SameHist
         /\ create[c].at = "None" /\ create'[c].at = "Library"
         /\ \A d \in Creators : d # c => create'[d] = create[d]
<1>1. /\ AppTable' = AppTable /\ LastAppId' = LastAppId /\ TaskTable' = TaskTable
      /\ os' = os /\ LastTaskId' = LastTaskId
      /\ bg' = bg /\ told' = told /\ waited' = waited /\ create[c].at = "None"
      /\ create' = [create EXCEPT ![c].at = "Library", ![c].name = n]
  BY DEF LoadLibrary
<1>2. create[c] \in CreateRec  BY DEF Types
<1>3. n \in Names  BY NameAssumption
<1> PICK s : s = [create[c] EXCEPT !.at = "Library", !.name = n]  OBVIOUS
<1>4. s \in CreateRec /\ s.at = "Library" /\ s.name = n  BY <1>2, <1>3 DEF CreateRec
<1>5. create' = [create EXCEPT ![c] = s]  BY <1>1, <1>2 DEF Types
<1>41. (s.at = "Library" => s.name \in LibNames) /\ (s.at \notin {"None", "Library"} => s.id \in AppIds)
  BY <1>4
<1>6. CreateTyped' /\ create'[c] = s /\ \A d \in Creators : d # c => create'[d] = create[d]
  BY <1>4, <1>41, <1>5, CreateStep
<1>7. LibTable' \in [LibNames -> {"Free", "Reserved", "Used"}]  BY DEF LoadLibrary, Types
<1>8. Types'  BY <1>1, <1>6, <1>7 DEF Types, CreateTyped
<1> QED BY <1>1, <1>4, <1>6, <1>8 DEF SameApps, SameOs, SameTasks, SameHist

LEMMA LibraryDoneDoes ==
  ASSUME Types, NEW c \in Creators, LibraryDone(c)
  PROVE  /\ Types' /\ SameApps /\ SameOs /\ SameTasks /\ bg' = bg /\ SameHist
         /\ create[c].at = "Library" /\ create'[c].at = "None"
         /\ \A d \in Creators : d # c => create'[d] = create[d]
<1>1. /\ AppTable' = AppTable /\ LastAppId' = LastAppId /\ TaskTable' = TaskTable
      /\ os' = os /\ LastTaskId' = LastTaskId
      /\ bg' = bg /\ told' = told /\ waited' = waited /\ create[c].at = "Library"
      /\ create' = [create EXCEPT ![c] = NoCreate]
  BY DEF LibraryDone
<1>3. NoCreate \in CreateRec /\ NoCreate.at = "None"  BY SlotTypes DEF NoCreate, CreateRec
<1>4. CreateTyped' /\ create'[c].at = "None" /\ \A d \in Creators : d # c => create'[d] = create[d]
  BY <1>1, <1>3, CreateStep
<1>5. LibTable' \in [LibNames -> {"Free", "Reserved", "Used"}]  BY <1>1 DEF LibraryDone, Types
<1>6. Types'  BY <1>1, <1>4, <1>5 DEF Types, CreateTyped
<1> QED BY <1>1, <1>4, <1>6 DEF SameApps, SameOs, SameTasks, SameHist

(* Tasks are at another place, or gone.                                    *)
LEMMA OsStep ==
  ASSUME Types, NEW t \in TaskIds, NEW r \in OsRec, os' = [os EXCEPT ![t] = r],
         r.at = "None" \/ r.app \in AppIds
  PROVE  OsTyped' /\ os'[t] = r /\ \A u \in TaskIds : u # t => os'[u] = os[u]
BY DEF Types, OsTyped

LEMMA OsGone ==
  ASSUME Types, NEW T, OsTaskDelete(T)
  PROVE  OsTyped' /\ \A t \in TaskIds : IF t \in T THEN os'[t] = NoTask ELSE os'[t] = os[t]
<1>1. NoTask \in OsRec /\ NoTask.at = "None"  BY NoTaskType
<1> QED BY <1>1, OsDeleted DEF OsTyped, Types

LEMMA EnterDoes ==
  ASSUME Types, NEW t \in TaskIds, Enter(t)
  PROVE  /\ Types' /\ SameApps /\ SameTasks /\ LastTaskId' = LastTaskId /\ create' = create /\ bg' = bg
         /\ SameHist /\ os[t].at = "Entry"
         /\ RegisteredExternalApps' = RegisteredExternalApps /\ RegisteredTasks' = RegisteredTasks
         /\ \A u \in TaskIds : u # t => os'[u] = os[u]
         /\ Prompt => ~InCreation(t)
         /\ \/ /\ TaskIsMatch(t) /\ os'[t].at = "Run" /\ os'[t].app = os[t].app
               /\ os'[t].creator = os[t].creator /\ os'[t].child = os[t].child
            \/ ~TaskIsMatch(t) /\ os'[t] = NoTask
<1>1. /\ AppTable' = AppTable /\ LastAppId' = LastAppId /\ TaskTable' = TaskTable
      /\ LibTable' = LibTable /\ LastTaskId' = LastTaskId /\ create' = create /\ bg' = bg
      /\ told' = told /\ waited' = waited /\ os[t].at = "Entry" /\ (Prompt => ~InCreation(t))
      /\ RegisteredExternalApps' = RegisteredExternalApps /\ RegisteredTasks' = RegisteredTasks
  BY DEF Enter, tables
<1>2. os[t] \in OsRec /\ os[t].app \in AppIds  BY <1>1 DEF Types
<1> USE DEF SameApps, SameTasks, SameHist
<1>3. CASE TaskIsMatch(t)
  <2> PICK r : r = [os[t] EXCEPT !.at = "Run"]  OBVIOUS
  <2>1. /\ r \in OsRec /\ r.at = "Run" /\ r.app = os[t].app /\ r.creator = os[t].creator
        /\ r.child = os[t].child
    BY <1>2 DEF OsRec
  <2>2. os' = [os EXCEPT ![t] = r]  BY <1>3, <1>2 DEF Enter, Types
  <2>3. OsTyped' /\ os'[t] = r /\ \A u \in TaskIds : u # t => os'[u] = os[u]
    BY <1>2, <2>1, <2>2, OsStep
  <2>4. Types'  BY <1>1, <2>3 DEF Types, OsTyped
  <2> QED BY <1>1, <1>3, <2>1, <2>3, <2>4
<1>4. CASE ~TaskIsMatch(t)
  <2>1. OsTaskDelete({t})  BY <1>4 DEF Enter
  <2>2. OsTyped' /\ os'[t] = NoTask /\ \A u \in TaskIds : u # t => os'[u] = os[u]  BY <2>1, OsGone
  <2>3. Types'  BY <1>1, <2>2 DEF Types, OsTyped
  <2> QED BY <1>1, <1>4, <2>2, <2>3
<1> QED BY <1>3, <1>4

\* The state of an app is raised to that it runs in, or waits for
Raise(t, state) ==
  /\ os[t].at = "Run" /\ InContext(t)
  /\ AppTable[Slot(t)].AppState < state
  /\ AppTable' = [AppTable EXCEPT ![Slot(t)].AppState = state]
  /\ UNCHANGED <<LastAppId, RegisteredExternalApps, TaskTable, RegisteredTasks, LibTable,
                 os, LastTaskId, create, bg, told, waited>>

LEMMA RaiseDoes ==
  ASSUME Types, NEW t \in TaskIds, NEW state \in {RUNNING, STOPPED}, Raise(t, state)
  PROVE  /\ Types' /\ LastAppId' = LastAppId /\ SameTasks /\ SameOs /\ create' = create /\ bg' = bg
         /\ SameHist /\ AppOf(t) \in AppIds /\ AppTable[Slot(t)].AppId = AppOf(t)
         /\ RegisteredExternalApps' = RegisteredExternalApps /\ RegisteredTasks' = RegisteredTasks
         /\ AppTable[Slot(t)].AppState < state /\ AppTable'[Slot(t)].AppState = state
         /\ \A i \in AppSlots : /\ AppTable'[i].AppId = AppTable[i].AppId
                                /\ AppTable'[i].Request = AppTable[i].Request
                                /\ AppTable'[i].Timer = AppTable[i].Timer
                                /\ AppTable'[i].MainTaskId = AppTable[i].MainTaskId
         /\ \A i \in AppSlots : i # Slot(t) => AppTable'[i] = AppTable[i]
<1>1. /\ LastAppId' = LastAppId /\ TaskTable' = TaskTable /\ RegisteredTasks' = RegisteredTasks
      /\ RegisteredExternalApps' = RegisteredExternalApps /\ LibTable' = LibTable /\ os' = os
      /\ LastTaskId' = LastTaskId /\ create' = create /\ bg' = bg /\ told' = told /\ waited' = waited
      /\ InContext(t) /\ AppTable[Slot(t)].AppState < state
  BY DEF Raise
<1>2. AppOf(t) \in AppIds /\ Slot(t) \in AppSlots /\ AppTable[Slot(t)].AppId = AppOf(t)
  BY <1>1, Context
<1> PICK i : i = Slot(t)  OBVIOUS
<1>3. AppTable[i] \in AppRec /\ i \in AppSlots  BY <1>2 DEF Types
<1> PICK r : r = [AppTable[i] EXCEPT !.AppState = state]  OBVIOUS
<1>4. state \in INIT..STOPPED  BY DEF RUNNING, STOPPED, INIT
<1>5. /\ r \in AppRec /\ r.AppState = state /\ r.AppId = AppTable[i].AppId
      /\ r.Request = AppTable[i].Request /\ r.Timer = AppTable[i].Timer
      /\ r.MainTaskId = AppTable[i].MainTaskId
  BY <1>3, <1>4 DEF AppRec
<1>6. AppTable' = [AppTable EXCEPT ![i] = r]  BY <1>3 DEF Raise, Types
<1>7. /\ AppTable' \in [AppSlots -> AppRec] /\ AppTable'[i] = r
      /\ \A j \in AppSlots : j # i => AppTable'[j] = AppTable[j]
  BY <1>3, <1>5, <1>6, AppSet
<1>8. Types'  BY <1>1, <1>7 DEF Types
<1> QED BY <1>1, <1>2, <1>5, <1>7, <1>8 DEF SameTasks, SameOs, SameHist

LEMMA ExitAppDoes ==
  ASSUME Types, NEW t \in TaskIds, ExitApp(t)
  PROVE  /\ Types' /\ LastAppId' = LastAppId /\ SameTasks /\ LastTaskId' = LastTaskId
         /\ create' = create /\ bg' = bg /\ waited' = waited
         /\ RegisteredExternalApps' = RegisteredExternalApps /\ RegisteredTasks' = RegisteredTasks
         /\ InContext(t) /\ AppOf(t) \in AppIds /\ AppTable[Slot(t)].AppId = AppOf(t)
         /\ os[t].at = "Run" /\ os'[t].at = "Exited" /\ os'[t].app = os[t].app
         /\ os'[t].creator = os[t].creator /\ os'[t].child = os[t].child
         /\ \A u \in TaskIds : u # t => os'[u] = os[u]
         /\ LET rec == AppTable[Slot(t)] IN
            /\ AppTable'[Slot(t)].Request = IF rec.Request = "RUN" THEN "EXIT" ELSE rec.Request
            /\ AppTable'[Slot(t)].AppState = STOPPED
            /\ told'[AppOf(t)] = IF told[AppOf(t)] = "RUN" THEN "EXIT" ELSE told[AppOf(t)]
         /\ \A a \in AppIds : a # AppOf(t) => told'[a] = told[a]
         /\ \A i \in AppSlots : /\ AppTable'[i].AppId = AppTable[i].AppId
                                /\ AppTable'[i].Timer = AppTable[i].Timer
                                /\ AppTable'[i].MainTaskId = AppTable[i].MainTaskId
         /\ \A i \in AppSlots : i # Slot(t) => AppTable'[i] = AppTable[i]
<1>1. /\ LastAppId' = LastAppId /\ TaskTable' = TaskTable /\ RegisteredTasks' = RegisteredTasks
      /\ RegisteredExternalApps' = RegisteredExternalApps /\ LibTable' = LibTable
      /\ LastTaskId' = LastTaskId /\ create' = create /\ bg' = bg /\ waited' = waited
      /\ InContext(t) /\ os[t].at = "Run" /\ os' = [os EXCEPT ![t].at = "Exited"]
  BY DEF ExitApp
<1>2. AppOf(t) \in AppIds /\ Slot(t) \in AppSlots /\ AppTable[Slot(t)].AppId = AppOf(t)
  BY <1>1, Context
<1> PICK i : i = Slot(t)  OBVIOUS
<1> PICK a : a = AppOf(t)  OBVIOUS
<1>3. AppTable[i] \in AppRec /\ i \in AppSlots /\ AppTable[i].AppId = a /\ a \in AppIds
  BY <1>2 DEF Types
<1> PICK req : req = IF AppTable[i].Request = "RUN" THEN "EXIT" ELSE AppTable[i].Request  OBVIOUS
<1> PICK r : r = [AppTable[i] EXCEPT !.Request = req, !.AppState = STOPPED]  OBVIOUS
<1>4. STOPPED \in INIT..STOPPED /\ req \in Requests
  BY <1>3 DEF STOPPED, INIT, Requests, AppRec
<1>5. /\ r \in AppRec /\ r.AppState = STOPPED /\ r.AppId = AppTable[i].AppId
      /\ r.Request = req /\ r.Timer = AppTable[i].Timer /\ r.MainTaskId = AppTable[i].MainTaskId
  BY <1>3, <1>4 DEF AppRec
<1>6. AppTable' = [AppTable EXCEPT ![i] = r]  BY DEF ExitApp
<1>7. /\ AppTable' \in [AppSlots -> AppRec] /\ AppTable'[i] = r
      /\ \A j \in AppSlots : j # i => AppTable'[j] = AppTable[j]
  BY <1>3, <1>5, <1>6, AppSet
<1>8. told' = [told EXCEPT ![a] = IF told[a] = "RUN" THEN "EXIT" ELSE told[a]]
  BY <1>3 DEF ExitApp, Types
<1>9. /\ told' \in [AppIds -> Requests]
      /\ told'[a] = IF told[a] = "RUN" THEN "EXIT" ELSE told[a]
      /\ \A b \in AppIds : b # a => told'[b] = told[b]
  BY <1>3, <1>8 DEF Types, Requests
<1>10. os[t] \in OsRec /\ os[t].app \in AppIds  BY <1>1 DEF Types
<1> PICK s : s = [os[t] EXCEPT !.at = "Exited"]  OBVIOUS
<1>11. /\ s \in OsRec /\ s.at = "Exited" /\ s.app = os[t].app /\ s.creator = os[t].creator
       /\ s.child = os[t].child
  BY <1>10 DEF OsRec
<1>12. os' = [os EXCEPT ![t] = s]  BY <1>1, <1>10 DEF Types
<1>13. OsTyped' /\ os'[t] = s /\ \A u \in TaskIds : u # t => os'[u] = os[u]
  BY <1>10, <1>11, <1>12, OsStep
<1>14. Types'  BY <1>1, <1>7, <1>9, <1>13 DEF Types, OsTyped
<1>15. /\ \A j \in AppSlots : /\ AppTable'[j].AppId = AppTable[j].AppId
                              /\ AppTable'[j].Timer = AppTable[j].Timer
                              /\ AppTable'[j].MainTaskId = AppTable[j].MainTaskId
  BY <1>5, <1>7
<1> QED BY <1>1, <1>2, <1>5, <1>7, <1>9, <1>11, <1>13, <1>14, <1>15 DEF SameTasks

LEMMA ReturnDoes ==
  ASSUME Types, NEW t \in TaskIds, Return(t) \/ TaskExit(t)
  PROVE  /\ Types' /\ SameApps /\ SameTasks /\ LastTaskId' = LastTaskId /\ create' = create /\ bg' = bg
         /\ SameHist /\ os[t].at \in {"Run", "Exiting"}
         /\ RegisteredExternalApps' = RegisteredExternalApps /\ RegisteredTasks' = RegisteredTasks
         /\ os'[t] = NoTask /\ \A u \in TaskIds : u # t => os'[u] = os[u]
<1>1. /\ AppTable' = AppTable /\ LastAppId' = LastAppId /\ TaskTable' = TaskTable
      /\ LibTable' = LibTable /\ LastTaskId' = LastTaskId /\ create' = create /\ bg' = bg
      /\ told' = told /\ waited' = waited /\ os[t].at \in {"Run", "Exiting"}
      /\ RegisteredExternalApps' = RegisteredExternalApps /\ RegisteredTasks' = RegisteredTasks
      /\ OsTaskDelete({t})
  BY DEF Return, TaskExit, tables
<1>2. OsTyped' /\ os'[t] = NoTask /\ \A u \in TaskIds : u # t => os'[u] = os[u]  BY <1>1, OsGone
<1>3. Types'  BY <1>1, <1>2 DEF Types, OsTyped
<1> QED BY <1>1, <1>2, <1>3 DEF SameApps, SameTasks, SameHist

LEMMA CreateChildTaskDoes ==
  ASSUME Types, NEW t \in TaskIds, CreateChildTask(t)
  PROVE  /\ Types' /\ SameApps /\ SameTasks /\ LastTaskId' = LastTaskId /\ create' = create /\ bg' = bg
         /\ SameHist /\ os[t].at = "Run" /\ InContext(t) /\ IsMain(t)
         /\ RegisteredExternalApps' = RegisteredExternalApps /\ RegisteredTasks' = RegisteredTasks
         /\ os'[t].at = "Start" /\ os'[t].app = os[t].app
         /\ os'[t].creator = os[t].creator /\ os'[t].child = os[t].child
         /\ \A u \in TaskIds : u # t => os'[u] = os[u]
<1>1. /\ AppTable' = AppTable /\ LastAppId' = LastAppId /\ TaskTable' = TaskTable
      /\ LibTable' = LibTable /\ LastTaskId' = LastTaskId /\ create' = create /\ bg' = bg
      /\ told' = told /\ waited' = waited /\ os[t].at = "Run" /\ InContext(t) /\ IsMain(t)
      /\ RegisteredExternalApps' = RegisteredExternalApps /\ RegisteredTasks' = RegisteredTasks
      /\ os' = [os EXCEPT ![t].at = "Start"]
  BY DEF CreateChildTask, tables
<1>2. os[t] \in OsRec /\ os[t].app \in AppIds  BY <1>1 DEF Types
<1> PICK s : s = [os[t] EXCEPT !.at = "Start"]  OBVIOUS
<1>3. /\ s \in OsRec /\ s.at = "Start" /\ s.app = os[t].app /\ s.creator = os[t].creator
      /\ s.child = os[t].child
  BY <1>2 DEF OsRec
<1>4. os' = [os EXCEPT ![t] = s]  BY <1>1, <1>2 DEF Types
<1>5. OsTyped' /\ os'[t] = s /\ \A u \in TaskIds : u # t => os'[u] = os[u]
  BY <1>2, <1>3, <1>4, OsStep
<1>6. Types'  BY <1>1, <1>5 DEF Types, OsTyped
<1> QED BY <1>1, <1>3, <1>5, <1>6 DEF SameApps, SameTasks, SameHist

LEMMA StartChildDoes ==
  ASSUME Types, NEW t \in TaskIds, StartChild(t)
  PROVE  /\ Types' /\ SameApps /\ SameTasks /\ create' = create /\ bg' = bg /\ SameHist
         /\ RegisteredExternalApps' = RegisteredExternalApps /\ RegisteredTasks' = RegisteredTasks
         /\ os[t].at = "Start" /\ os'[t].app = os[t].app /\ os'[t].creator = os[t].creator
         /\ \/ \E u \in TaskIds :
                 /\ u \in Openings /\ u > LastTaskId /\ LastTaskId' = u /\ u # t
                 /\ os'[t].at = "Record" /\ os'[t].child = u
                 /\ os'[u].at = "Entry" /\ os'[u].app = os[t].app /\ os'[u].creator = t
                 /\ os'[u].child = 0
                 /\ \A v \in TaskIds : v \notin {t, u} => os'[v] = os[v]
            \/ /\ LastTaskId' = LastTaskId /\ os'[t].at = "Run" /\ os'[t].child = os[t].child
               /\ \A v \in TaskIds : v # t => os'[v] = os[v]
<1>1. /\ AppTable' = AppTable /\ LastAppId' = LastAppId /\ TaskTable' = TaskTable
      /\ LibTable' = LibTable /\ create' = create /\ bg' = bg
      /\ told' = told /\ waited' = waited /\ os[t].at = "Start"
      /\ RegisteredExternalApps' = RegisteredExternalApps /\ RegisteredTasks' = RegisteredTasks
  BY DEF StartChild, tables
<1>2. os[t] \in OsRec /\ os[t].app \in AppIds /\ os[t].app \in 0..MaxAppId /\ t \in 0..MaxTaskId
  BY <1>1, SlotTypes DEF Types, AppIds, TaskIds
<1> USE DEF SameApps, SameTasks, SameHist
<1>3. ASSUME NEW u \in TaskIds,
             OsTaskCreate(u, os[t].app, t, [os EXCEPT ![t].at = "Record", ![t].child = u])
      PROVE  /\ Types' /\ os'[t].app = os[t].app /\ os'[t].creator = os[t].creator
             /\ u \in Openings /\ u > LastTaskId /\ LastTaskId' = u /\ u # t
             /\ os'[t].at = "Record" /\ os'[t].child = u
             /\ os'[u].at = "Entry" /\ os'[u].app = os[t].app /\ os'[u].creator = t /\ os'[u].child = 0
             /\ \A v \in TaskIds : v \notin {t, u} => os'[v] = os[v]
  <2>1. PICK s : s = [os[t] EXCEPT !.at = "Record", !.child = u]  OBVIOUS
  <2> u \in 0..MaxTaskId  BY SlotTypes DEF TaskIds
  <2>2. /\ s \in OsRec /\ s.at = "Record" /\ s.app = os[t].app /\ s.creator = os[t].creator
        /\ s.child = u
    BY <1>2, <2>1 DEF OsRec
  <2>3. PICK rest : rest = [os EXCEPT ![t] = s]  OBVIOUS
  <2>4. rest \in [TaskIds -> OsRec] /\ rest[t] = s /\ \A v \in TaskIds : v # t => rest[v] = os[v]
    BY <2>2, <2>3 DEF Types
  <2>5. rest = [os EXCEPT ![t].at = "Record", ![t].child = u]  BY <1>2, <2>1, <2>3 DEF Types
  <2> PICK app \in 0..MaxAppId, creator \in 0..MaxTaskId : app = os[t].app /\ creator = t  BY <1>2
  <2>6. rest \in [TaskIds -> OsRec] /\ OsTaskCreate(u, app, creator, rest)  BY <1>3, <2>4, <2>5
  <2>7. /\ os' \in [TaskIds -> OsRec] /\ LastTaskId' = u /\ LastTaskId' \in 0..MaxTaskId
        /\ u \in Openings /\ u > LastTaskId
        /\ os'[u].at = "Entry" /\ os'[u].app = app /\ os'[u].creator = creator /\ os'[u].child = 0
        /\ \A v \in TaskIds : v # u => os'[v] = rest[v]
    BY <2>6, OsCreated
  <2>8. u # t
    <3> SUFFICES ASSUME u = t PROVE FALSE  OBVIOUS
    <3>1. t \in OsTasks /\ ToTaskIndex(t) = ToTaskIndex(u)  BY <1>1 DEF OsTasks
    <3> QED BY <2>7, <3>1 DEF Openings
  <2>9. os'[t] = s /\ \A v \in TaskIds : v \notin {t, u} => os'[v] = os[v]  BY <2>4, <2>7, <2>8
  <2>10. \A v \in TaskIds : os'[v].at # "None" => os'[v].app \in AppIds
    BY <1>2, <2>2, <2>7, <2>9 DEF Types
  <2>11. Types'  BY <1>1, <2>7, <2>10 DEF Types
  <2> QED BY <2>2, <2>7, <2>8, <2>9, <2>11
<1>4. CASE os' = [os EXCEPT ![t].at = "Run"] /\ LastTaskId' = LastTaskId
  <2> PICK s : s = [os[t] EXCEPT !.at = "Run"]  OBVIOUS
  <2>1. /\ s \in OsRec /\ s.at = "Run" /\ s.app = os[t].app /\ s.creator = os[t].creator
        /\ s.child = os[t].child
    BY <1>2 DEF OsRec
  <2>2. os' = [os EXCEPT ![t] = s]  BY <1>4, <1>2 DEF Types
  <2>3. OsTyped' /\ os'[t] = s /\ \A u \in TaskIds : u # t => os'[u] = os[u]
    BY <1>2, <2>1, <2>2, OsStep
  <2>4. Types'  BY <1>1, <1>4, <2>3 DEF Types, OsTyped
  <2> QED BY <1>1, <1>4, <2>1, <2>3, <2>4
<1>5. \/ \E u \in TaskIds : OsTaskCreate(u, os[t].app, t, [os EXCEPT ![t].at = "Record", ![t].child = u])
      \/ os' = [os EXCEPT ![t].at = "Run"] /\ LastTaskId' = LastTaskId
  BY DEF StartChild
<1>6. CASE \E u \in TaskIds : OsTaskCreate(u, os[t].app, t, [os EXCEPT ![t].at = "Record", ![t].child = u])
  BY <1>1, <1>3, <1>6
<1> QED BY <1>4, <1>5, <1>6

LEMMA RecordChildDoes ==
  ASSUME Types, NEW t \in TaskIds, RecordChild(t)
  PROVE  /\ Types' /\ SameApps /\ LastTaskId' = LastTaskId /\ create' = create /\ bg' = bg /\ SameHist
         /\ RegisteredExternalApps' = RegisteredExternalApps
         /\ os[t].at = "Record" /\ os[t].app \in AppIds /\ os[t].child \in 0..MaxTaskId
         /\ RecordTask(os[t].child, os[t].app)
         /\ os'[t].at = "Run" /\ os'[t].app = os[t].app /\ os'[t].creator = os[t].creator
         /\ os'[t].child = 0
         /\ \A u \in TaskIds : u # t => os'[u] = os[u]
<1>1. /\ AppTable' = AppTable /\ LastAppId' = LastAppId /\ LibTable' = LibTable
      /\ LastTaskId' = LastTaskId /\ create' = create /\ bg' = bg
      /\ told' = told /\ waited' = waited /\ os[t].at = "Record"
      /\ RegisteredExternalApps' = RegisteredExternalApps
      /\ RecordTask(os[t].child, os[t].app)
      /\ os' = [os EXCEPT ![t].at = "Run", ![t].child = 0]
  BY DEF RecordChild
<1>2. os[t] \in OsRec /\ os[t].app \in AppIds /\ os[t].child \in 0..MaxTaskId
  BY <1>1 DEF Types, OsRec
<1> PICK s : s = [os[t] EXCEPT !.at = "Run", !.child = 0]  OBVIOUS
<1> 0 \in 0..MaxTaskId  BY SlotTypes
<1>3. /\ s \in OsRec /\ s.at = "Run" /\ s.app = os[t].app /\ s.creator = os[t].creator
      /\ s.child = 0
  BY <1>2 DEF OsRec
<1>4. os' = [os EXCEPT ![t] = s]  BY <1>1, <1>2 DEF Types
<1>5. OsTyped' /\ os'[t] = s /\ \A u \in TaskIds : u # t => os'[u] = os[u]
  BY <1>2, <1>3, <1>4, OsStep
<1>6. TasksTyped'  BY <1>1, <1>2, RecordTaskDoes
<1>7. Types'  BY <1>1, <1>5, <1>6 DEF Types, OsTyped, TasksTyped
<1> QED BY <1>1, <1>2, <1>3, <1>5, <1>7 DEF SameApps, SameHist

\* The record of a task is freed
LEMMA FreeTaskRecordDoes ==
  ASSUME Types, NEW t \in TaskIds, FreeTaskRecord(t)
  PROVE  /\ TasksTyped' /\ ToTaskIndex(t) \in TaskSlots
         /\ TaskTable'[ToTaskIndex(t)].TaskId = UNDEFINED
         /\ \A i \in TaskSlots : i # ToTaskIndex(t) => TaskTable'[i] = TaskTable[i]
         /\ RegisteredTasks' = RegisteredTasks - 1
<1>1. TaskTable' = [TaskTable EXCEPT ![ToTaskIndex(t)] = FreeTask] /\ RegisteredTasks' = RegisteredTasks - 1
  BY DEF FreeTaskRecord
<1>2. FreeTask \in TaskRec /\ FreeTask.TaskId = UNDEFINED /\ UNDEFINED \notin TaskIds
  BY RecordTypes DEF FreeTask
<1>3. ToTaskIndex(t) \in TaskSlots  BY Selected
<1> QED BY <1>1, <1>2, <1>3, TaskSet DEF TasksTyped

LEMMA DeleteChildTaskDoes ==
  ASSUME Types, NEW t \in TaskIds, NEW u \in TaskIds, DeleteChildTask(t, u)
  PROVE  /\ Types' /\ SameApps /\ LastTaskId' = LastTaskId /\ create' = create /\ bg' = bg /\ SameHist
         /\ RegisteredExternalApps' = RegisteredExternalApps
         /\ u \in OsTasks /\ TaskIsMatch(u) /\ u \notin MainTasks /\ FreeTaskRecord(u)
         /\ os'[u] = NoTask /\ \A v \in TaskIds : v # u => os'[v] = os[v]
<1>1. /\ AppTable' = AppTable /\ LastAppId' = LastAppId /\ LibTable' = LibTable
      /\ LastTaskId' = LastTaskId /\ create' = create /\ bg' = bg
      /\ told' = told /\ waited' = waited
      /\ RegisteredExternalApps' = RegisteredExternalApps
      /\ u \in OsTasks /\ TaskIsMatch(u) /\ u \notin MainTasks /\ FreeTaskRecord(u) /\ OsTaskDelete({u})
  BY DEF DeleteChildTask
<1>2. OsTyped' /\ os'[u] = NoTask /\ \A v \in TaskIds : v # u => os'[v] = os[v]  BY <1>1, OsGone
<1>3. TasksTyped'  BY <1>1, FreeTaskRecordDoes
<1>4. Types'  BY <1>1, <1>2, <1>3 DEF Types, OsTyped, TasksTyped
<1> QED BY <1>1, <1>2, <1>4 DEF SameApps, SameHist

LEMMA ExitChildTaskDoes ==
  ASSUME Types, NEW t \in TaskIds, ExitChildTask(t)
  PROVE  /\ Types' /\ SameApps /\ LastTaskId' = LastTaskId /\ create' = create /\ bg' = bg /\ SameHist
         /\ RegisteredExternalApps' = RegisteredExternalApps
         /\ os[t].at = "Run" /\ InContext(t) /\ ~IsMain(t) /\ FreeTaskRecord(t)
         /\ os'[t].at = "Exiting" /\ os'[t].app = os[t].app /\ os'[t].creator = os[t].creator
         /\ os'[t].child = os[t].child
         /\ \A v \in TaskIds : v # t => os'[v] = os[v]
<1>1. /\ AppTable' = AppTable /\ LastAppId' = LastAppId /\ LibTable' = LibTable
      /\ LastTaskId' = LastTaskId /\ create' = create /\ bg' = bg
      /\ told' = told /\ waited' = waited
      /\ RegisteredExternalApps' = RegisteredExternalApps
      /\ os[t].at = "Run" /\ InContext(t) /\ ~IsMain(t) /\ FreeTaskRecord(t)
      /\ os' = [os EXCEPT ![t].at = "Exiting"]
  BY DEF ExitChildTask
<1>2. os[t] \in OsRec /\ os[t].app \in AppIds  BY <1>1 DEF Types
<1> PICK s : s = [os[t] EXCEPT !.at = "Exiting"]  OBVIOUS
<1>3. /\ s \in OsRec /\ s.at = "Exiting" /\ s.app = os[t].app /\ s.creator = os[t].creator
      /\ s.child = os[t].child
  BY <1>2 DEF OsRec
<1>4. os' = [os EXCEPT ![t] = s]  BY <1>1, <1>2 DEF Types
<1>5. OsTyped' /\ os'[t] = s /\ \A u \in TaskIds : u # t => os'[u] = os[u]
  BY <1>2, <1>3, <1>4, OsStep
<1>6. TasksTyped'  BY <1>1, FreeTaskRecordDoes
<1>7. Types'  BY <1>1, <1>5, <1>6 DEF Types, OsTyped, TasksTyped
<1> QED BY <1>1, <1>3, <1>5, <1>7 DEF SameApps, SameHist

LEMMA AskDoes ==
  ASSUME Types, NEW a \in AppIds, NEW req \in Commands, Ask(a, req)
  PROVE  /\ Types' /\ LastAppId' = LastAppId /\ SameTasks /\ SameOs /\ create' = create /\ bg' = bg
         /\ waited' = waited
         /\ RegisteredExternalApps' = RegisteredExternalApps /\ RegisteredTasks' = RegisteredTasks
         /\ IsMatch(a) /\ AppTable[ToAppIndex(a)].AppState = RUNNING /\ req # "RUN"
         /\ AppTable'[ToAppIndex(a)].Request = req /\ told'[a] = req
         /\ \A b \in AppIds : b # a => told'[b] = told[b]
         /\ \A i \in AppSlots : /\ AppTable'[i].AppId = AppTable[i].AppId
                                /\ AppTable'[i].AppState = AppTable[i].AppState
                                /\ AppTable'[i].Timer = AppTable[i].Timer
                                /\ AppTable'[i].MainTaskId = AppTable[i].MainTaskId
         /\ \A i \in AppSlots : i # ToAppIndex(a) => AppTable'[i] = AppTable[i]
<1>1. /\ LastAppId' = LastAppId /\ TaskTable' = TaskTable /\ RegisteredTasks' = RegisteredTasks
      /\ RegisteredExternalApps' = RegisteredExternalApps /\ LibTable' = LibTable /\ os' = os
      /\ LastTaskId' = LastTaskId /\ create' = create /\ bg' = bg /\ waited' = waited
      /\ IsMatch(a) /\ AppTable[ToAppIndex(a)].AppState = RUNNING
      /\ told' = [told EXCEPT ![a] = req]
  BY DEF Ask, Askable
<1> PICK i : i = ToAppIndex(a)  OBVIOUS
<1>2. AppTable[i] \in AppRec /\ i \in AppSlots  BY Selected
<1>3. req \in Requests /\ req # "RUN"  BY DEF Commands, Requests
<1> PICK r : r = [AppTable[i] EXCEPT !.Request = req]  OBVIOUS
<1>4. /\ r \in AppRec /\ r.AppState = AppTable[i].AppState /\ r.AppId = AppTable[i].AppId
      /\ r.Request = req /\ r.Timer = AppTable[i].Timer /\ r.MainTaskId = AppTable[i].MainTaskId
  BY <1>2, <1>3 DEF AppRec
<1>5. AppTable' = [AppTable EXCEPT ![i] = r]  BY <1>2 DEF Ask, Types
<1>6. /\ AppTable' \in [AppSlots -> AppRec] /\ AppTable'[i] = r
      /\ \A j \in AppSlots : j # i => AppTable'[j] = AppTable[j]
  BY <1>2, <1>4, <1>5, AppSet
<1>7. /\ told' \in [AppIds -> Requests] /\ told'[a] = req
      /\ \A b \in AppIds : b # a => told'[b] = told[b]
  BY <1>1, <1>3 DEF Types
<1>8. Types'  BY <1>1, <1>6, <1>7 DEF Types
<1> QED BY <1>1, <1>3, <1>4, <1>6, <1>7, <1>8 DEF SameTasks, SameOs

-----------------------------------------------------------------------------
(* The background task *)

LEMMA RunAppTableScanDoes ==
  ASSUME Types, AppInv, RunAppTableScan
  PROVE  /\ Types' /\ LastAppId' = LastAppId /\ SameTasks /\ SameOs /\ create' = create /\ told' = told
         /\ RegisteredExternalApps' = RegisteredExternalApps /\ RegisteredTasks' = RegisteredTasks
         /\ bg.at = "Scan" /\ bg'.at \in {"Scan", "Read"} /\ (bg'.at = "Scan" => bg'.todo = {})
         /\ bg'.todo = {AppTable[i].AppId : i \in {j \in AppSlots : Expired(j)}}
         /\ \A i \in AppSlots :
              /\ AppTable'[i] = Scanned(i)
              /\ AppTable'[i].AppId = AppTable[i].AppId
              /\ AppTable'[i].Request = AppTable[i].Request
              /\ AppTable'[i].MainTaskId = AppTable[i].MainTaskId
         /\ \A a \in AppIds : waited'[a] = IF IsMatch(a) /\ told[a] # "RUN" /\ waited[a] <= KillTimeout
                                           THEN waited[a] + 1 ELSE waited[a]
<1>1. /\ LastAppId' = LastAppId /\ TaskTable' = TaskTable /\ RegisteredTasks' = RegisteredTasks
      /\ RegisteredExternalApps' = RegisteredExternalApps /\ LibTable' = LibTable /\ os' = os
      /\ LastTaskId' = LastTaskId /\ create' = create /\ told' = told /\ bg.at = "Scan"
      /\ AppTable' = [i \in AppSlots |-> Scanned(i)]
  BY DEF RunAppTableScan
<1>2. ASSUME NEW i \in AppSlots
      PROVE  /\ Scanned(i) \in AppRec /\ Scanned(i).AppId = AppTable[i].AppId
             /\ Scanned(i).Request = AppTable[i].Request /\ Scanned(i).MainTaskId = AppTable[i].MainTaskId
  <2>1. AppTable[i] \in AppRec  BY DEF Types
  <2>2. AppTable[i].Timer \in 0..KillTimeout /\ KillTimeout \in Nat  BY <2>1, SlotTypes DEF AppRec
  <2>3. CASE Stopping(i)
    <3>1. PICK T : T = IF AppTable[i].Timer > 1 THEN AppTable[i].Timer - 1 ELSE 0  OBVIOUS
    <3>2. T \in 0..KillTimeout  BY <2>2, <3>1
    <3>3. Scanned(i) = [AppTable[i] EXCEPT !.Timer = T]  BY <2>1, <2>3, <3>1 DEF Scanned, AppRec
    <3> QED BY <2>1, <3>2, <3>3 DEF AppRec
  <2>4. CASE ~Stopping(i) /\ Stop(i)
    <3>1. Scanned(i) = [AppTable[i] EXCEPT !.AppState = WAITING, !.Timer = KillTimeout]
      BY <2>4 DEF Scanned
    <3>2. WAITING \in INIT..STOPPED /\ KillTimeout \in 0..KillTimeout  BY <2>2 DEF WAITING, INIT, STOPPED
    <3> QED BY <2>1, <3>1, <3>2 DEF AppRec
  <2>5. CASE ~Stopping(i) /\ ~Stop(i)  BY <2>1, <2>5 DEF Scanned
  <2> QED BY <2>3, <2>4, <2>5
<1>3. AppTable' \in [AppSlots -> AppRec] /\ \A i \in AppSlots : AppTable'[i] = Scanned(i)  BY <1>1, <1>2
<1>4. PICK todo : todo = {AppTable[i].AppId : i \in {j \in AppSlots : Expired(j)}}  OBVIOUS
<1>5. todo \subseteq AppIds
  <2> SUFFICES ASSUME NEW i \in AppSlots, Expired(i) PROVE AppTable[i].AppId \in AppIds  BY <1>4
  <2>1. AppTable[i].AppId \in AppIds \cup {UNDEFINED, RESERVED}  BY DEF Types, AppRec
  <2>2. AppTable[i].AppId # UNDEFINED /\ AppTable[i].AppState # INIT
    BY DEF Expired, Stopping, Used, INIT, RUNNING
  <2>3. AppTable[i].AppId # RESERVED
    BY <1>1, <2>2 DEF AppInv, IdsInv, RequestInv, Cleaning
  <2> QED BY <2>1, <2>2, <2>3
<1>6. PICK at \in {"Scan", "Read"} : at = IF todo = {} THEN "Scan" ELSE "Read"  OBVIOUS
<1>7. bg' = [bg EXCEPT !.todo = todo, !.at = at]  BY <1>4, <1>6 DEF RunAppTableScan
<1>8. bg' \in BgRec /\ bg'.at = at /\ bg'.todo = todo  BY <1>5, <1>7 DEF Types, BgRec
<1>9. /\ \A a \in AppIds : waited'[a] = IF IsMatch(a) /\ told[a] # "RUN" /\ waited[a] <= KillTimeout
                                       THEN waited[a] + 1 ELSE waited[a]
      /\ waited' \in [AppIds -> 0..(KillTimeout + 1)]
  <2>1. ASSUME NEW a \in AppIds
        PROVE  (IF IsMatch(a) /\ told[a] # "RUN" /\ waited[a] <= KillTimeout
                THEN waited[a] + 1 ELSE waited[a]) \in 0..(KillTimeout + 1)
    <3>1. waited[a] \in 0..(KillTimeout + 1) /\ KillTimeout \in Nat  BY SlotTypes DEF Types
    <3> QED BY <3>1
  <2> QED BY <2>1 DEF RunAppTableScan
<1>10. Types'  BY <1>1, <1>3, <1>8, <1>9 DEF Types
<1> QED BY <1>1, <1>2, <1>3, <1>4, <1>6, <1>8, <1>9, <1>10 DEF SameTasks, SameOs

LEMMA ProcessControlRequestDoes ==
  ASSUME Types, ProcessControlRequest
  PROVE  /\ Types' /\ SameApps /\ SameTasks /\ SameOs /\ create' = create /\ SameHist
         /\ RegisteredExternalApps' = RegisteredExternalApps /\ RegisteredTasks' = RegisteredTasks
         /\ bg.at = "Read"
         /\ \/ bg.todo = {} /\ bg'.at = "Scan" /\ bg'.todo = {}
            \/ \E a \in bg.todo : /\ bg'.at = "List" /\ bg'.id = a /\ bg'.todo = bg.todo \ {a}
                                  /\ a \in AppIds
                                  /\ bg'.req = AppTable[ToAppIndex(a)].Request
<1>1. /\ AppTable' = AppTable /\ LastAppId' = LastAppId /\ TaskTable' = TaskTable
      /\ LibTable' = LibTable /\ os' = os /\ LastTaskId' = LastTaskId /\ create' = create
      /\ told' = told /\ waited' = waited /\ bg.at = "Read"
      /\ RegisteredExternalApps' = RegisteredExternalApps /\ RegisteredTasks' = RegisteredTasks
  BY DEF ProcessControlRequest, tables
<1> USE DEF SameApps, SameTasks, SameOs, SameHist
<1>2. CASE bg.todo = {}
  <2>1. bg' = BgIdle  BY <1>2 DEF ProcessControlRequest
  <2>2. BgIdle \in BgRec /\ BgIdle.at = "Scan" /\ BgIdle.todo = {}
    BY SlotTypes DEF BgIdle, BgRec, Requests
  <2>3. Types'  BY <1>1, <2>1, <2>2 DEF Types
  <2> QED BY <1>1, <1>2, <2>1, <2>2, <2>3
<1>3. CASE bg.todo # {}
  <2>1. PICK a \in bg.todo : bg' = [bg EXCEPT !.todo = bg.todo \ {a}, !.at = "List", !.id = a,
                                             !.req = AppTable[ToAppIndex(a)].Request,
                                             !.name = AppTable[ToAppIndex(a)].AppName]
    BY <1>3 DEF ProcessControlRequest
  <2>2. a \in AppIds /\ a \in 0..MaxAppId /\ AppTable[ToAppIndex(a)] \in AppRec
    BY SlotTypes, Selected DEF Types, BgRec, AppIds
  <2>3. PICK req, name, todo : /\ req = AppTable[ToAppIndex(a)].Request
                               /\ name = AppTable[ToAppIndex(a)].AppName /\ todo = bg.todo \ {a}
    OBVIOUS
  <2>4. req \in Requests /\ name \in Names \cup {NoName} /\ todo \subseteq AppIds
    BY <2>2, <2>3 DEF AppRec, Types, BgRec
  <2>5. bg' = [bg EXCEPT !.todo = todo, !.at = "List", !.id = a, !.req = req, !.name = name]
    BY <2>1, <2>3
  <2>6. bg' \in BgRec /\ bg'.at = "List" /\ bg'.id = a /\ bg'.todo = todo /\ bg'.req = req
    BY <2>2, <2>4, <2>5 DEF Types, BgRec
  <2>7. Types'  BY <1>1, <2>6 DEF Types
  <2> QED BY <1>1, <2>2, <2>3, <2>6, <2>7
<1> QED BY <1>2, <1>3

LEMMA CleanUpAppDoes ==
  ASSUME Types, bg.id \in AppIds, CleanUpApp
  PROVE  /\ Types' /\ LastAppId' = LastAppId /\ SameOs /\ create' = create /\ SameHist
         /\ bg.at = "List" /\ bg'.at = "Next" /\ bg'.id = bg.id /\ bg'.req = bg.req
         /\ bg'.todo = bg.todo /\ bg'.tasks = TasksOf(bg.id)
         /\ AppTable'[ToAppIndex(bg.id)].AppId = RESERVED
         /\ \A i \in AppSlots : /\ AppTable'[i].AppState = AppTable[i].AppState
                                /\ AppTable'[i].Request = AppTable[i].Request
                                /\ AppTable'[i].Timer = AppTable[i].Timer
                                /\ AppTable'[i].MainTaskId = AppTable[i].MainTaskId
         /\ \A i \in AppSlots : i # ToAppIndex(bg.id) => AppTable'[i] = AppTable[i]
         /\ \A i \in TaskSlots : IF TaskTable[i].TaskId \in TasksOf(bg.id)
                                 THEN TaskTable'[i].TaskId = RESERVED
                                 ELSE TaskTable'[i] = TaskTable[i]
         /\ RegisteredTasks' = RegisteredTasks - Cardinality(TasksOf(bg.id))
         /\ RegisteredExternalApps' = RegisteredExternalApps - 1
         /\ (Prompt => \A t \in OsTasks : os[t].app = bg.id => ~Creating(t))
<1> PICK T : T = TasksOf(bg.id)  OBVIOUS
<1>1. /\ LastAppId' = LastAppId /\ LibTable' = LibTable /\ os' = os /\ LastTaskId' = LastTaskId
      /\ create' = create /\ told' = told /\ waited' = waited /\ bg.at = "List"
      /\ (Prompt => \A t \in OsTasks : os[t].app = bg.id => ~Creating(t))
      /\ RegisteredTasks' = RegisteredTasks - Cardinality(T)
      /\ RegisteredExternalApps' = RegisteredExternalApps - 1
      /\ TaskTable' = [i \in TaskSlots |-> IF TaskTable[i].TaskId \in T
                                           THEN [TaskTable[i] EXCEPT !.TaskId = RESERVED]
                                           ELSE TaskTable[i]]
      /\ bg' = [bg EXCEPT !.at = "Next", !.tasks = T, !.main = AppTable[ToAppIndex(bg.id)].MainTaskId]
  BY DEF CleanUpApp
<1> PICK i : i = ToAppIndex(bg.id)  OBVIOUS
<1>2. i \in AppSlots /\ AppTable[i] \in AppRec  BY Selected
<1>3. PICK r : r = [AppTable[i] EXCEPT !.AppId = RESERVED]  OBVIOUS
<1>4. /\ r \in AppRec /\ r.AppState = AppTable[i].AppState /\ r.AppId = RESERVED
      /\ r.Request = AppTable[i].Request /\ r.Timer = AppTable[i].Timer
      /\ r.MainTaskId = AppTable[i].MainTaskId
  BY <1>2, <1>3 DEF AppRec
<1>5. AppTable' = [AppTable EXCEPT ![i] = r]  BY <1>2, <1>3 DEF CleanUpApp, Types
<1>6. /\ AppTable' \in [AppSlots -> AppRec] /\ AppTable'[i] = r
      /\ \A j \in AppSlots : j # i => AppTable'[j] = AppTable[j]
  BY <1>2, <1>4, <1>5, AppSet
<1>7. T \subseteq TaskIds  BY DEF TasksOf
<1>8. PICK main : main = AppTable[i].MainTaskId  OBVIOUS
<1>9. main \in TaskIds \cup {UNDEFINED}  BY <1>2, <1>8 DEF AppRec
<1>10. main \in 0..MaxTaskId  BY <1>9, SlotTypes DEF TaskIds, UNDEFINED
<1>11. bg' = [bg EXCEPT !.at = "Next", !.tasks = T, !.main = main]  BY <1>1, <1>8
<1>12. /\ bg' \in BgRec /\ bg'.at = "Next" /\ bg'.tasks = T /\ bg'.id = bg.id /\ bg'.req = bg.req
       /\ bg'.todo = bg.todo
  BY <1>7, <1>10, <1>11 DEF Types, BgRec
<1>13. ASSUME NEW j \in TaskSlots
       PROVE  /\ TaskTable'[j] \in TaskRec /\ (TaskTable'[j].TaskId \in TaskIds => TaskTable'[j].AppId \in AppIds)
              /\ IF TaskTable[j].TaskId \in T THEN TaskTable'[j].TaskId = RESERVED
                 ELSE TaskTable'[j] = TaskTable[j]
  <2>1. TaskTable[j] \in TaskRec  BY DEF Types
  <2>2. CASE TaskTable[j].TaskId \in T
    <3>1. TaskTable'[j] = [TaskTable[j] EXCEPT !.TaskId = RESERVED]  BY <1>1, <2>2
    <3>2. TaskTable'[j] \in TaskRec /\ TaskTable'[j].TaskId = RESERVED  BY <2>1, <3>1 DEF TaskRec
    <3> QED BY <2>2, <3>2, RecordTypes
  <2>3. CASE TaskTable[j].TaskId \notin T  BY <1>1, <2>1, <2>3 DEF Types
  <2> QED BY <2>2, <2>3
<1>14. TasksTyped'  BY <1>1, <1>13 DEF TasksTyped
<1>15. Types'  BY <1>1, <1>6, <1>12, <1>14 DEF Types, TasksTyped
<1>16. \A j \in AppSlots : /\ AppTable'[j].AppState = AppTable[j].AppState
                           /\ AppTable'[j].Request = AppTable[j].Request
                           /\ AppTable'[j].Timer = AppTable[j].Timer
                           /\ AppTable'[j].MainTaskId = AppTable[j].MainTaskId
  BY <1>4, <1>6
<1> QED BY <1>1, <1>4, <1>6, <1>12, <1>13, <1>15, <1>16 DEF SameOs, SameHist

LEMMA NextTaskDoes ==
  ASSUME Types, NextTask
  PROVE  /\ Types' /\ SameApps /\ SameTasks /\ SameOs /\ create' = create /\ SameHist
         /\ RegisteredExternalApps' = RegisteredExternalApps /\ RegisteredTasks' = RegisteredTasks
         /\ bg.at = "Next" /\ bg'.id = bg.id /\ bg'.req = bg.req /\ bg'.todo = bg.todo
         /\ bg'.tasks = bg.tasks
         /\ \/ bg.tasks = {} /\ bg'.at = "Free"
            \/ bg'.at = "Sweep" /\ bg'.task \in bg.tasks
<1>1. /\ AppTable' = AppTable /\ LastAppId' = LastAppId /\ TaskTable' = TaskTable
      /\ LibTable' = LibTable /\ os' = os /\ LastTaskId' = LastTaskId /\ create' = create
      /\ told' = told /\ waited' = waited /\ bg.at = "Next"
      /\ RegisteredExternalApps' = RegisteredExternalApps /\ RegisteredTasks' = RegisteredTasks
  BY DEF NextTask, tables
<1> USE DEF SameApps, SameTasks, SameOs, SameHist
<1>2. bg \in BgRec  BY DEF Types
<1>3. CASE bg.tasks = {}
  <2>1. bg' = [bg EXCEPT !.at = "Free"]  BY <1>3 DEF NextTask
  <2>2. /\ bg' \in BgRec /\ bg'.at = "Free" /\ bg'.id = bg.id /\ bg'.req = bg.req
        /\ bg'.todo = bg.todo /\ bg'.tasks = bg.tasks
    BY <1>2, <2>1 DEF BgRec
  <2>3. Types'  BY <1>1, <2>2 DEF Types
  <2> QED BY <1>1, <1>3, <2>2, <2>3
<1>4. CASE bg.tasks # {}
  <2>1. PICK t \in bg.tasks : bg' = [bg EXCEPT !.at = "Sweep", !.task = t]  BY <1>4 DEF NextTask
  <2>2. t \in TaskIds  BY <1>2 DEF BgRec
  <2>3. t \in 0..MaxTaskId  BY <2>2, SlotTypes DEF TaskIds
  <2>4. /\ bg' \in BgRec /\ bg'.at = "Sweep" /\ bg'.id = bg.id /\ bg'.req = bg.req
        /\ bg'.todo = bg.todo /\ bg'.tasks = bg.tasks /\ bg'.task = t
    BY <1>2, <2>1, <2>3 DEF BgRec
  <2>5. Types'  BY <1>1, <2>4 DEF Types
  <2> QED BY <1>1, <2>4, <2>5
<1> QED BY <1>3, <1>4

LEMMA SweepTaskDoes ==
  ASSUME Types, SweepTask
  PROVE  /\ Types' /\ SameApps /\ SameTasks /\ LastTaskId' = LastTaskId /\ create' = create /\ SameHist
         /\ RegisteredExternalApps' = RegisteredExternalApps /\ RegisteredTasks' = RegisteredTasks
         /\ bg.at = "Sweep" /\ bg'.id = bg.id /\ bg'.req = bg.req /\ bg'.todo = bg.todo
         /\ bg'.tasks = bg.tasks /\ bg'.task = bg.task
         /\ \/ /\ bg'.at = "Sweep"
               /\ \A u \in TaskIds : IF u \in CreatedBy(bg.task) THEN os'[u] = NoTask ELSE os'[u] = os[u]
            \/ bg'.at = "Delete" /\ os' = os /\ CreatedBy(bg.task) = {}
<1>1. /\ AppTable' = AppTable /\ LastAppId' = LastAppId /\ TaskTable' = TaskTable
      /\ LibTable' = LibTable /\ LastTaskId' = LastTaskId /\ create' = create
      /\ told' = told /\ waited' = waited /\ bg.at = "Sweep"
      /\ RegisteredExternalApps' = RegisteredExternalApps /\ RegisteredTasks' = RegisteredTasks
  BY DEF SweepTask, tables
<1> USE DEF SameApps, SameTasks, SameHist
<1>2. bg \in BgRec  BY DEF Types
<1>3. CASE CreatedBy(bg.task) # {}
  <2>1. bg' = bg /\ OsTaskDelete(CreatedBy(bg.task))  BY <1>3 DEF SweepTask
  <2>2. OsTyped' /\ \A u \in TaskIds : IF u \in CreatedBy(bg.task) THEN os'[u] = NoTask ELSE os'[u] = os[u]
    BY <2>1, OsGone
  <2>3. Types'  BY <1>1, <2>1, <2>2 DEF Types, OsTyped
  <2> QED BY <1>1, <2>1, <2>2, <2>3
<1>4. CASE CreatedBy(bg.task) = {}
  <2>1. bg' = [bg EXCEPT !.at = "Delete"] /\ os' = os  BY <1>4 DEF SweepTask
  <2>2. /\ bg' \in BgRec /\ bg'.at = "Delete" /\ bg'.id = bg.id /\ bg'.req = bg.req
        /\ bg'.todo = bg.todo /\ bg'.tasks = bg.tasks /\ bg'.task = bg.task
    BY <1>2, <2>1 DEF BgRec
  <2>3. Types'  BY <1>1, <2>1, <2>2 DEF Types
  <2> QED BY <1>1, <1>4, <2>1, <2>2, <2>3
<1> QED BY <1>3, <1>4

LEMMA DeleteTaskDoes ==
  ASSUME Types, DeleteTask
  PROVE  /\ Types' /\ SameApps /\ SameTasks /\ LastTaskId' = LastTaskId /\ create' = create /\ SameHist
         /\ RegisteredExternalApps' = RegisteredExternalApps /\ RegisteredTasks' = RegisteredTasks
         /\ bg.at = "Delete" /\ bg'.at = "Next" /\ bg'.id = bg.id /\ bg'.req = bg.req
         /\ bg'.todo = bg.todo /\ bg'.tasks = bg.tasks \ {bg.task}
         /\ \A u \in TaskIds : IF u = bg.task THEN os'[u] = NoTask ELSE os'[u] = os[u]
<1>1. /\ AppTable' = AppTable /\ LastAppId' = LastAppId /\ TaskTable' = TaskTable
      /\ LibTable' = LibTable /\ LastTaskId' = LastTaskId /\ create' = create
      /\ told' = told /\ waited' = waited /\ bg.at = "Delete" /\ OsTaskDelete({bg.task})
      /\ RegisteredExternalApps' = RegisteredExternalApps /\ RegisteredTasks' = RegisteredTasks
      /\ bg' = [bg EXCEPT !.at = "Next", !.tasks = bg.tasks \ {bg.task}]
  BY DEF DeleteTask, tables
<1>2. bg \in BgRec  BY DEF Types
<1>3. PICK T : T = bg.tasks \ {bg.task}  OBVIOUS
<1>4. T \subseteq TaskIds  BY <1>2, <1>3 DEF BgRec
<1>5. bg' = [bg EXCEPT !.at = "Next", !.tasks = T]  BY <1>1, <1>3
<1>6. /\ bg' \in BgRec /\ bg'.at = "Next" /\ bg'.id = bg.id /\ bg'.req = bg.req
      /\ bg'.todo = bg.todo /\ bg'.tasks = T
  BY <1>2, <1>4, <1>5 DEF BgRec
<1>7. OsTyped' /\ \A u \in TaskIds : IF u = bg.task THEN os'[u] = NoTask ELSE os'[u] = os[u]
  BY <1>1, OsGone
<1>8. Types'  BY <1>1, <1>6, <1>7 DEF Types, OsTyped
<1> QED BY <1>1, <1>3, <1>6, <1>7, <1>8 DEF SameApps, SameTasks, SameHist

LEMMA FreeRecordsDoes ==
  ASSUME Types, FreeRecords
  PROVE  /\ Types' /\ LastAppId' = LastAppId /\ SameOs /\ create' = create /\ SameHist
         /\ RegisteredExternalApps' = RegisteredExternalApps /\ RegisteredTasks' = RegisteredTasks
         /\ bg.at = "Free" /\ bg'.at = "Create" /\ bg'.id = bg.id /\ bg'.req = bg.req
         /\ bg'.todo = bg.todo
         /\ AppTable'[ToAppIndex(bg.id)].AppId = UNDEFINED
         /\ AppTable'[ToAppIndex(bg.id)].MainTaskId = UNDEFINED
         /\ \A i \in AppSlots : i # ToAppIndex(bg.id) => AppTable'[i] = AppTable[i]
         /\ \A i \in TaskSlots : IF TaskTable[i].TaskId = RESERVED
                                 THEN TaskTable'[i].TaskId = UNDEFINED
                                 ELSE TaskTable'[i] = TaskTable[i]
<1>1. /\ LastAppId' = LastAppId /\ LibTable' = LibTable /\ os' = os /\ LastTaskId' = LastTaskId
      /\ create' = create /\ told' = told /\ waited' = waited /\ bg.at = "Free"
      /\ RegisteredTasks' = RegisteredTasks
      /\ RegisteredExternalApps' = RegisteredExternalApps
      /\ TaskTable' = [i \in TaskSlots |-> IF TaskTable[i].TaskId = RESERVED THEN FreeTask ELSE TaskTable[i]]
      /\ AppTable' = [AppTable EXCEPT ![ToAppIndex(bg.id)] = FreeApp]
      /\ bg' = [bg EXCEPT !.at = "Create"]
  BY DEF FreeRecords
<1> PICK i : i = ToAppIndex(bg.id)  OBVIOUS
<1>2. i \in AppSlots /\ bg \in BgRec  BY Selected DEF Types
<1>3. FreeApp \in AppRec /\ FreeApp.AppId = UNDEFINED /\ FreeApp.MainTaskId = UNDEFINED
  BY RecordTypes DEF FreeApp
<1>4. /\ AppTable' \in [AppSlots -> AppRec] /\ AppTable'[i] = FreeApp
      /\ \A j \in AppSlots : j # i => AppTable'[j] = AppTable[j]
  BY <1>1, <1>2, <1>3, AppSet
<1>5. /\ bg' \in BgRec /\ bg'.at = "Create" /\ bg'.id = bg.id /\ bg'.req = bg.req
      /\ bg'.todo = bg.todo
  BY <1>1, <1>2 DEF BgRec
<1>6. FreeTask \in TaskRec /\ FreeTask.TaskId = UNDEFINED /\ UNDEFINED \notin TaskIds
  BY RecordTypes DEF FreeTask
<1>7. TasksTyped' /\ \A j \in TaskSlots : IF TaskTable[j].TaskId = RESERVED
                                          THEN TaskTable'[j].TaskId = UNDEFINED
                                          ELSE TaskTable'[j] = TaskTable[j]
  BY <1>1, <1>6 DEF Types, TasksTyped
<1>8. Types'  BY <1>1, <1>4, <1>5, <1>7 DEF Types, TasksTyped
<1> QED BY <1>1, <1>3, <1>4, <1>5, <1>7, <1>8 DEF SameOs, SameHist

LEMMA RestartDoes ==
  ASSUME Types, Restart
  PROVE  /\ Types' /\ SameTasks /\ SameOs /\ SameHist
         /\ bg.at = "Create" /\ bg'.at = "Creating" /\ bg'.todo = bg.todo
         /\ RegisteredExternalApps' = RegisteredExternalApps /\ RegisteredTasks' = RegisteredTasks
         /\ bg.name \in Names \cup {NoName} /\ AppCreate(Background, bg.name) /\ Background \in Creators
<1>1. bg' = [bg EXCEPT !.at = "Creating"] /\ TaskTable' = TaskTable /\ LibTable' = LibTable /\ os' = os
      /\ LastTaskId' = LastTaskId /\ told' = told /\ waited' = waited /\ bg.at = "Create"
      /\ RegisteredExternalApps' = RegisteredExternalApps /\ RegisteredTasks' = RegisteredTasks
      /\ AppCreate(Background, bg.name)
  BY DEF Restart
<1>2. bg \in BgRec /\ bg.name \in Names \cup {NoName} /\ Background \in Creators
  BY DEF Types, BgRec, Creators
<1>3. bg' \in BgRec /\ bg'.at = "Creating" /\ bg'.todo = bg.todo  BY <1>1, <1>2 DEF BgRec
<1>4. PICK n \in Names \cup {NoName} : n = bg.name  BY <1>2
<1>5. PICK c \in Creators : c = Background  BY <1>2
<1>6. AppCreate(c, n)  BY <1>1, <1>4, <1>5
<1>7. /\ LastAppId' \in 0..MaxAppId /\ AppTable' \in [AppSlots -> AppRec] /\ CreateTyped'
  BY <1>6, AppCreateDoes DEF AppIds, CreateTyped
<1>8. Types'  BY <1>1, <1>3, <1>7 DEF Types, CreateTyped
<1> QED BY <1>1, <1>2, <1>3, <1>8 DEF SameTasks, SameOs, SameHist

LEMMA RequestDoneDoes ==
  ASSUME Types, RequestDone
  PROVE  /\ Types' /\ SameApps /\ SameTasks /\ SameOs /\ create' = create /\ SameHist
         /\ RegisteredExternalApps' = RegisteredExternalApps /\ RegisteredTasks' = RegisteredTasks
         /\ bg.at = "Create" \/ (bg.at = "Creating" /\ create[Background].at = "None")
         /\ bg'.at = "Read" /\ bg'.todo = bg.todo
<1>1. /\ AppTable' = AppTable /\ LastAppId' = LastAppId /\ TaskTable' = TaskTable
      /\ LibTable' = LibTable /\ os' = os /\ LastTaskId' = LastTaskId /\ create' = create
      /\ told' = told /\ waited' = waited
      /\ bg.at = "Create" \/ (bg.at = "Creating" /\ create[Background].at = "None")
      /\ bg' = [BgIdle EXCEPT !.at = "Read", !.todo = bg.todo]
      /\ RegisteredExternalApps' = RegisteredExternalApps /\ RegisteredTasks' = RegisteredTasks
  BY DEF RequestDone, tables
<1>2. BgIdle \in BgRec /\ bg.todo \subseteq AppIds
  BY SlotTypes DEF BgIdle, BgRec, Requests, Types
<1>3. bg' \in BgRec /\ bg'.at = "Read" /\ bg'.todo = bg.todo  BY <1>1, <1>2 DEF BgRec
<1>4. Types'  BY <1>1, <1>3 DEF Types
<1> QED BY <1>1, <1>3, <1>4 DEF SameApps, SameTasks, SameOs, SameHist

-----------------------------------------------------------------------------
(* Ids and requests: what an action that leaves apps alone keeps *)

LEMMA IdsFrame ==
  ASSUME Types, Types', IdsInv, LastAppId' = LastAppId,
         \A i \in AppSlots : AppTable'[i].AppId = AppTable[i].AppId,
         \A c \in Creators : Making(c)' <=> Making(c),
         \A c \in Creators : Making(c) => create'[c].id = create[c].id,
         bg'.at # "Creating" => create'[Background].at = "None",
         Cleaning' <=> Cleaning, Cleaning => bg'.id = bg.id,
         bg'.at = "List" => bg'.id \in 1..LastAppId,
         bg'.at = "Create" => bg.at = "Create" /\ bg'.id = bg.id
  PROVE  IdsInv'
<1>1. /\ \A c \in Creators : ToAppIndex(create[c].id) \in AppSlots
      /\ \A c \in Creators : ToAppIndex(create'[c].id) \in AppSlots
      /\ ToAppIndex(bg.id) \in AppSlots
  <2>1. \A c \in Creators : create[c].id \in Nat /\ create'[c].id \in Nat
    BY SlotTypes DEF Types, CreateRec
  <2> QED BY <2>1, Selected, SlotTypes
<1>2. \A i \in AppSlots : AppTable'[i].AppId \in AppIds =>
        ToAppIndex(AppTable'[i].AppId) = i /\ AppTable'[i].AppId <= LastAppId'
  BY DEF IdsInv
<1>3. \A c \in Creators : Making(c)' =>
        /\ create'[c].id \in 1..LastAppId'
        /\ AppTable'[ToAppIndex(create'[c].id)].AppId = RESERVED
  BY <1>1 DEF IdsInv
<1>4. \A c, d \in Creators :
        Making(c)' /\ Making(d)' /\ ToAppIndex(create'[c].id) = ToAppIndex(create'[d].id) => c = d
  BY DEF IdsInv
<1>5. Cleaning' =>
        /\ AppTable'[ToAppIndex(bg'.id)].AppId = RESERVED
        /\ \A c \in Creators : Making(c)' => ToAppIndex(create'[c].id) # ToAppIndex(bg'.id)
  BY <1>1 DEF IdsInv
<1>6. \A i \in AppSlots : AppTable'[i].AppId = RESERVED =>
        \/ Cleaning' /\ i = ToAppIndex(bg'.id)
        \/ \E c \in Creators : Making(c)' /\ i = ToAppIndex(create'[c].id)
  BY DEF IdsInv
<1>7. bg'.at # "Creating" => create'[Background].at = "None"  OBVIOUS
<1>8. bg'.at = "List" \/ Cleaning' \/ bg'.at = "Create" => bg'.id \in 1..LastAppId'
  BY DEF IdsInv
<1>9. bg'.at = "Create" => ~IsMatch(bg.id)' /\ \A c \in Creators : Making(c)' => create'[c].id # bg'.id
  BY <1>1 DEF IdsInv, IsMatch
<1> QED BY <1>2, <1>3, <1>4, <1>5, <1>6, <1>7, <1>8, <1>9 DEF IdsInv

LEMMA AppFrame ==
  ASSUME Types, Types', AppInv, LastAppId' = LastAppId, SameHist,
         \A i \in AppSlots : /\ AppTable'[i].AppId = AppTable[i].AppId
                             /\ AppTable'[i].AppState = AppTable[i].AppState
                             /\ AppTable'[i].Request = AppTable[i].Request
                             /\ AppTable'[i].Timer = AppTable[i].Timer,
         \A c \in Creators : Making(c)' <=> Making(c),
         \A c \in Creators : Making(c) => create'[c].id = create[c].id,
         bg.at # "Creating" => create'[Background].at = "None",
         bg'.todo = bg.todo, bg'.id = bg.id, bg'.req = bg.req,
         bg'.at = bg.at \/ (Cleaning /\ Cleaning')
  PROVE  AppInv'
<1>1. Cleaning' <=> Cleaning  BY DEF Cleaning
<1>2. \A at \in {"Scan", "Read", "List", "Create", "Creating"} : bg'.at = at <=> bg.at = at
  BY DEF Cleaning
<1>3. /\ \A c \in Creators : ToAppIndex(create[c].id) \in AppSlots
      /\ \A c \in Creators : ToAppIndex(create'[c].id) \in AppSlots
      /\ ToAppIndex(bg.id) \in AppSlots
      /\ \A a \in AppIds : ToAppIndex(a) \in AppSlots
  <2>1. \A c \in Creators : create[c].id \in Nat /\ create'[c].id \in Nat
    BY SlotTypes DEF Types, CreateRec
  <2> QED BY <2>1, Selected, SlotTypes
<1>4. IdsInv'
  <2>1. bg'.at # "Creating" => create'[Background].at = "None"  BY <1>2
  <2>2. bg'.at = "List" => bg'.id \in 1..LastAppId  BY <1>2 DEF AppInv, IdsInv
  <2>3. bg'.at = "Create" => bg.at = "Create" /\ bg'.id = bg.id  BY <1>2
  <2> QED BY <1>1, <2>1, <2>2, <2>3, IdsFrame DEF AppInv
<1>5. \A a \in AppIds : Due(a)' <=> Due(a)
  BY <1>3 DEF Due, IsMatch, SameHist
<1>6. RequestInv'
  <2>1. told' = told /\ waited' = waited  BY DEF SameHist
  <2>2. \A c \in Creators : Making(c)' =>
          /\ told'[create'[c].id] = "RUN"
          /\ AppTable'[ToAppIndex(create'[c].id)].AppState = INIT
          /\ AppTable'[ToAppIndex(create'[c].id)].Request = "RUN"
    BY <1>3, <2>1 DEF AppInv, RequestInv
  <2>3. \A i \in AppSlots : AppTable'[i].AppId \in AppIds =>
          /\ AppTable'[i].Request = told'[AppTable'[i].AppId]
          /\ AppTable'[i].AppState = WAITING =>
               /\ told'[AppTable'[i].AppId] # "RUN"
               /\ waited'[AppTable'[i].AppId] + AppTable'[i].Timer > KillTimeout
    BY <2>1 DEF AppInv, RequestInv
  <2>4. bg.todo \subseteq AppIds /\ (bg.at = "List" => bg.id \in AppIds)
    BY DEF Types, BgRec, AppInv, IdsInv, AppIds
  <2>5. (bg'.at = "Scan" => bg'.todo = {}) /\ \A a \in bg'.todo : Due(a)'
    BY <1>2, <1>5, <2>4 DEF AppInv, RequestInv
  <2>6. bg'.at = "List" => Due(bg.id)' /\ bg'.id \notin bg'.todo
    <3>1. SUFFICES ASSUME bg.at = "List" PROVE Due(bg.id)' /\ bg'.id \notin bg'.todo  BY <1>2
    <3>2. PICK b \in AppIds : b = bg.id  BY <2>4, <3>1
    <3>3. Due(b) /\ b \notin bg.todo  BY <3>1, <3>2 DEF AppInv, RequestInv
    <3>4. Due(b)'  BY <1>5, <3>3
    <3> QED BY <3>2, <3>3, <3>4 DEF Due, IsMatch
  <2>7. bg'.at = "List" \/ Cleaning' \/ bg'.at = "Create" =>
          (bg'.req = "RESTART") = (told'[bg'.id] = "RESTART")
    BY <1>1, <1>2, <2>1 DEF AppInv, RequestInv
  <2>8. \A a \in AppIds : a > LastAppId' => told'[a] = "RUN"  BY <2>1 DEF AppInv, RequestInv
  <2> QED BY <2>2, <2>3, <2>5, <2>6, <2>7, <2>8 DEF RequestInv
<1> QED BY <1>4, <1>6 DEF AppInv

(* The records of apps that exist do not change when one is created.       *)
LEMMA AppCreateKeeps ==
  ASSUME Types, Types', AppInv, NEW c \in Creators, NEW n \in Names \cup {NoName}, AppCreate(c, n),
         create[c].at = "None", SameHist,
         \/ bg' = bg /\ c # Background
         \/ bg.at = "Create" /\ bg'.at = "Creating" /\ bg'.todo = bg.todo
  PROVE  AppInv'
<1>1. PICK a \in AppIds :
        /\ a > LastAppId /\ LastAppId' = a
        /\ AppTable[ToAppIndex(a)].AppId = UNDEFINED
        /\ AppTable'[ToAppIndex(a)].AppId = RESERVED
        /\ AppTable'[ToAppIndex(a)].AppState = INIT
        /\ AppTable'[ToAppIndex(a)].Request = "RUN"
        /\ \A i \in AppSlots : i # ToAppIndex(a) => AppTable'[i] = AppTable[i]
        /\ create'[c].at = "Launch" /\ create'[c].id = a
        /\ \A d \in Creators : d # c => create'[d] = create[d]
  BY AppCreateDoes
<1> PICK k : k = ToAppIndex(a)  OBVIOUS
<1>2. k \in AppSlots /\ LastAppId \in Nat /\ a \in Nat /\ UNDEFINED \notin AppIds /\ RESERVED \notin AppIds
      /\ UNDEFINED # RESERVED
  <2>1. UNDEFINED \notin AppIds /\ RESERVED \notin AppIds /\ UNDEFINED # RESERVED  BY RecordTypes
  <2>2. LastAppId \in Nat /\ a \in Nat  BY IdTypes
  <2>3. k \in AppSlots  BY Selected
  <2> QED BY <2>1, <2>2, <2>3
<1>3. ~Making(c) /\ Making(c)' /\ \A d \in Creators : d # c => (Making(d)' <=> Making(d))
  BY <1>1 DEF Making
<1>4. \A d \in Creators : Making(d) =>
        /\ d # c /\ create'[d].id = create[d].id /\ ToAppIndex(create[d].id) # k
        /\ ToAppIndex(create[d].id) \in AppSlots
        /\ create[d].id \in 1..LastAppId
        /\ AppTable'[ToAppIndex(create[d].id)] = AppTable[ToAppIndex(create[d].id)]
        /\ AppTable[ToAppIndex(create[d].id)].AppId = RESERVED
  BY <1>1, <1>2, <1>3, Selected DEF AppInv, IdsInv
<1>5. Cleaning' => /\ Cleaning /\ bg' = bg /\ ToAppIndex(bg.id) \in AppSlots /\ ToAppIndex(bg.id) # k
                   /\ AppTable'[ToAppIndex(bg.id)] = AppTable[ToAppIndex(bg.id)]
  BY <1>1, <1>2, Selected DEF AppInv, IdsInv, Cleaning
<1>6. Cleaning => Cleaning' /\ bg' = bg  BY DEF Cleaning
<1>7. IdsInv'
  <2>1. \A i \in AppSlots : AppTable'[i].AppId \in AppIds =>
          ToAppIndex(AppTable'[i].AppId) = i /\ AppTable'[i].AppId <= LastAppId'
    BY <1>1, <1>2 DEF AppInv, IdsInv, AppIds
  <2>2. ASSUME NEW d \in Creators, Making(d)'
        PROVE  /\ create'[d].id \in 1..LastAppId'
               /\ AppTable'[ToAppIndex(create'[d].id)].AppId = RESERVED
    <3>1. CASE d = c
      <4>1. a \in 1..a  BY <1>2 DEF AppIds
      <4> QED BY <1>1, <3>1, <4>1
    <3>2. CASE d # c
      <4>1. Making(d)  BY <1>3, <2>2, <3>2
      <4>2. create[d].id \in 1..LastAppId  BY <1>4, <4>1
      <4>3. create[d].id \in 1..a  BY <1>1, <1>2, <4>2
      <4> QED BY <1>1, <1>4, <4>1, <4>3
    <3> QED BY <3>1, <3>2
  <2>3. ASSUME NEW d \in Creators, NEW e \in Creators, Making(d)', Making(e)',
               ToAppIndex(create'[d].id) = ToAppIndex(create'[e].id)
        PROVE  d = e
    <3>1. (d # c => Making(d)) /\ (e # c => Making(e))  BY <1>3, <2>3
    <3>2. CASE d # c /\ e # c  BY <1>4, <2>3, <3>1, <3>2 DEF AppInv, IdsInv
    <3>3. CASE d = c /\ e # c  BY <1>1, <1>4, <2>3, <3>1, <3>3
    <3>4. CASE d # c /\ e = c  BY <1>1, <1>4, <2>3, <3>1, <3>4
    <3> QED BY <3>2, <3>3, <3>4
  <2>4. Cleaning' =>
          /\ AppTable'[ToAppIndex(bg'.id)].AppId = RESERVED
          /\ \A d \in Creators : Making(d)' => ToAppIndex(create'[d].id) # ToAppIndex(bg'.id)
    <3> SUFFICES ASSUME Cleaning'
                 PROVE  /\ AppTable'[ToAppIndex(bg'.id)].AppId = RESERVED
                        /\ \A d \in Creators : Making(d)' => ToAppIndex(create'[d].id) # ToAppIndex(bg'.id)
      OBVIOUS
    <3>1. AppTable'[ToAppIndex(bg'.id)].AppId = RESERVED  BY <1>5 DEF AppInv, IdsInv
    <3>2. \A d \in Creators : Making(d) => ToAppIndex(create[d].id) # ToAppIndex(bg.id)
      BY <1>5 DEF AppInv, IdsInv
    <3>3. \A d \in Creators : Making(d)' => ToAppIndex(create'[d].id) # ToAppIndex(bg'.id)
      BY <1>1, <1>3, <1>5, <3>2
    <3> QED BY <3>1, <3>3
  <2>5. ASSUME NEW i \in AppSlots, AppTable'[i].AppId = RESERVED
        PROVE  \/ Cleaning' /\ i = ToAppIndex(bg'.id)
               \/ \E d \in Creators : Making(d)' /\ i = ToAppIndex(create'[d].id)
    <3>1. CASE i = k  BY <1>1, <1>3, <3>1
    <3>2. CASE i # k
      <4>1. \/ Cleaning /\ i = ToAppIndex(bg.id)
            \/ \E d \in Creators : Making(d) /\ i = ToAppIndex(create[d].id)
        BY <1>1, <2>5, <3>2 DEF AppInv, IdsInv
      <4> QED BY <1>3, <1>4, <1>6, <4>1
    <3> QED BY <3>1, <3>2
  <2>6. bg'.at # "Creating" => create'[Background].at = "None"
    <3>1. Background \in Creators  BY DEF Creators
    <3> QED BY <1>1, <3>1 DEF AppInv, IdsInv
  <2>7. bg'.at = "List" \/ Cleaning' \/ bg'.at = "Create" => bg'.id \in 1..LastAppId'
    <3> SUFFICES ASSUME bg'.at = "List" \/ Cleaning' \/ bg'.at = "Create"
                 PROVE  bg'.id \in 1..LastAppId'
      OBVIOUS
    <3>1. bg' = bg /\ bg.id \in 1..LastAppId  BY DEF Cleaning, AppInv, IdsInv
    <3> QED BY <1>1, <1>2, <3>1
  <2>8. bg'.at = "Create" => ~IsMatch(bg.id)' /\ \A d \in Creators : Making(d)' => create'[d].id # bg'.id
    <3> SUFFICES ASSUME bg'.at = "Create"
                 PROVE  ~IsMatch(bg.id)' /\ \A d \in Creators : Making(d)' => create'[d].id # bg'.id
      OBVIOUS
    <3>1. bg' = bg /\ bg.id \in 1..LastAppId /\ ~IsMatch(bg.id)  BY DEF AppInv, IdsInv
    <3>2. bg.id # a /\ bg.id # RESERVED  BY <1>1, <1>2, <3>1 DEF RESERVED
    <3>3. ~IsMatch(bg.id)'  BY <1>1, <3>1, <3>2, Selected DEF IsMatch
    <3>4. ASSUME NEW d \in Creators, Making(d)' PROVE create'[d].id # bg'.id
      BY <1>1, <1>3, <1>4, <3>1, <3>2, <3>4 DEF AppInv, IdsInv
    <3> QED BY <3>3, <3>4
  <2> QED BY <2>1, <2>2, <2>3, <2>4, <2>5, <2>6, <2>7, <2>8 DEF IdsInv
<1>8. ASSUME NEW b \in AppIds, Due(b) PROVE Due(b)'
  <2>1. ToAppIndex(b) \in AppSlots /\ ToAppIndex(b) # k  BY <1>1, <1>2, <1>8, Selected DEF Due, IsMatch
  <2> QED BY <1>1, <1>8, <2>1 DEF Due, IsMatch, SameHist
<1>9. RequestInv'
  <2>1. told' = told /\ waited' = waited  BY DEF SameHist
  <2>2. \A b \in AppIds : b > LastAppId' => told'[b] = "RUN"
    BY <1>1, <1>2, <2>1 DEF AppInv, RequestInv, AppIds
  <2>3. ASSUME NEW d \in Creators, Making(d)'
        PROVE  /\ told'[create'[d].id] = "RUN"
               /\ AppTable'[ToAppIndex(create'[d].id)].AppState = INIT
               /\ AppTable'[ToAppIndex(create'[d].id)].Request = "RUN"
    <3>1. CASE d = c  BY <1>1, <2>1, <3>1 DEF AppInv, RequestInv
    <3>2. CASE d # c  BY <1>3, <1>4, <2>1, <2>3, <3>2 DEF AppInv, RequestInv
    <3> QED BY <3>1, <3>2
  <2>4. \A i \in AppSlots : AppTable'[i].AppId \in AppIds =>
          /\ AppTable'[i].Request = told'[AppTable'[i].AppId]
          /\ AppTable'[i].AppState = WAITING =>
               /\ told'[AppTable'[i].AppId] # "RUN"
               /\ waited'[AppTable'[i].AppId] + AppTable'[i].Timer > KillTimeout
    BY <1>1, <1>2, <2>1 DEF AppInv, RequestInv
  <2>5. bg'.todo = bg.todo /\ bg.todo \subseteq AppIds  BY DEF Types, BgRec
  <2>6. (bg'.at = "Scan" => bg'.todo = {}) /\ \A b \in bg'.todo : Due(b)'
    BY <1>8, <2>5 DEF AppInv, RequestInv
  <2>7. bg'.at = "List" => Due(bg.id)' /\ bg'.id \notin bg'.todo
    <3> SUFFICES ASSUME bg'.at = "List" PROVE Due(bg.id)' /\ bg'.id \notin bg'.todo  OBVIOUS
    <3>1. bg' = bg /\ Due(bg.id) /\ bg.id \notin bg.todo /\ bg.id \in 1..LastAppId
      BY DEF AppInv, RequestInv, IdsInv
    <3>2. PICK b \in AppIds : b = bg.id  BY <3>1, IdTypes
    <3>3. Due(b)'  BY <1>8, <3>1, <3>2
    <3> QED BY <3>1, <3>2, <3>3 DEF Due, IsMatch
  <2>8. bg'.at = "List" \/ Cleaning' \/ bg'.at = "Create" =>
          (bg'.req = "RESTART") = (told'[bg'.id] = "RESTART")
    <3> SUFFICES ASSUME bg'.at = "List" \/ Cleaning' \/ bg'.at = "Create"
                 PROVE  (bg'.req = "RESTART") = (told'[bg'.id] = "RESTART")
      OBVIOUS
    <3>1. bg' = bg  BY DEF Cleaning
    <3> QED BY <2>1, <3>1 DEF AppInv, RequestInv, Cleaning
  <2> QED BY <2>2, <2>3, <2>4, <2>6, <2>7, <2>8 DEF RequestInv
<1> QED BY <1>7, <1>9 DEF AppInv

(* Where the ids are.                                                      *)
LEMMA IdPlaces ==
  ASSUME Types, IdsInv
  PROVE  /\ \A c \in Creators : Making(c) =>
              /\ create[c].id \in AppIds /\ ToAppIndex(create[c].id) \in AppSlots
              /\ AppTable[ToAppIndex(create[c].id)].AppId = RESERVED
         /\ RESERVED \notin AppIds /\ UNDEFINED \notin AppIds /\ RESERVED # UNDEFINED
         /\ Cleaning => /\ AppTable[ToAppIndex(bg.id)].AppId = RESERVED
                        /\ ToAppIndex(bg.id) \in AppSlots /\ bg.id \in AppIds
         /\ \A i \in AppSlots : AppTable[i].AppId \in AppIds =>
              /\ ToAppIndex(AppTable[i].AppId) = i
              /\ AppTable[i].AppId \in 1..LastAppId
<1>1. RESERVED \notin AppIds /\ UNDEFINED \notin AppIds /\ RESERVED # UNDEFINED  BY RecordTypes
<1>2. \A c \in Creators : Making(c) =>
              /\ create[c].id \in AppIds /\ ToAppIndex(create[c].id) \in AppSlots
              /\ AppTable[ToAppIndex(create[c].id)].AppId = RESERVED
  BY Selected, IdTypes DEF IdsInv
<1>3. Cleaning => /\ AppTable[ToAppIndex(bg.id)].AppId = RESERVED
                  /\ ToAppIndex(bg.id) \in AppSlots /\ bg.id \in AppIds
  BY Selected, IdTypes DEF IdsInv
<1>4. \A i \in AppSlots : AppTable[i].AppId \in AppIds =>
              /\ ToAppIndex(AppTable[i].AppId) = i
              /\ AppTable[i].AppId \in 1..LastAppId
  BY IdTypes DEF IdsInv
<1> QED BY <1>1, <1>2, <1>3, <1>4

LEMMA RaiseKeepsApps ==
  ASSUME Types, AppInv, NEW t \in TaskIds, NEW state \in {RUNNING, STOPPED}, Raise(t, state)
  PROVE  AppInv'
<1> PICK i : i = Slot(t)  OBVIOUS
<1> PICK a : a = AppOf(t)  OBVIOUS
<1>1. /\ Types' /\ LastAppId' = LastAppId /\ create' = create /\ bg' = bg /\ told' = told /\ waited' = waited
      /\ a \in AppIds /\ AppTable[i].AppId = a
      /\ AppTable[i].AppState < state /\ AppTable'[i].AppState = state
      /\ \A j \in AppSlots : /\ AppTable'[j].AppId = AppTable[j].AppId
                             /\ AppTable'[j].Request = AppTable[j].Request
                             /\ AppTable'[j].Timer = AppTable[j].Timer
      /\ \A j \in AppSlots : j # i => AppTable'[j] = AppTable[j]
  BY RaiseDoes DEF SameHist
<1>2. i \in AppSlots  BY <1>1, Selected DEF Slot
<1>3. IdsInv /\ RequestInv  BY DEF AppInv
<1>4. IdsInv'
  <2>1. \A c \in Creators : Making(c)' <=> Making(c)  BY <1>1 DEF Making
  <2>2. Cleaning' <=> Cleaning  BY <1>1 DEF Cleaning
  <2>3. bg'.at # "Creating" => create'[Background].at = "None"  BY <1>1, <1>3 DEF IdsInv
  <2>4. bg'.at = "List" => bg'.id \in 1..LastAppId  BY <1>1, <1>3 DEF IdsInv
  <2> QED BY <1>1, <1>3, <2>1, <2>2, <2>3, <2>4, IdsFrame
<1>5. state # WAITING /\ (AppTable[i].AppState = STOPPED => FALSE)
      /\ (AppTable[i].AppState = WAITING => state = STOPPED)
  BY <1>1 DEF RUNNING, WAITING, STOPPED
<1>6. ASSUME NEW b \in AppIds, Due(b) PROVE Due(b)'
  <2>1. CASE ToAppIndex(b) = i
    <3>1. AppTable[i].AppId = b /\ AppTable[i].AppState = WAITING  BY <1>5, <1>6, <2>1 DEF Due, IsMatch
    <3>2. AppTable'[i].AppState = STOPPED /\ AppTable'[i].AppId = b  BY <1>1, <1>2, <1>5, <3>1
    <3> QED BY <2>1, <3>2 DEF Due, IsMatch
  <2>2. CASE ToAppIndex(b) # i
    <3>1. AppTable'[ToAppIndex(b)] = AppTable[ToAppIndex(b)]  BY <1>1, <2>2, Selected
    <3> QED BY <1>1, <1>6, <3>1 DEF Due, IsMatch
  <2> QED BY <2>1, <2>2
<1>7. RequestInv'
  <2>1. \A c \in Creators : Making(c)' =>
          /\ told'[create'[c].id] = "RUN"
          /\ AppTable'[ToAppIndex(create'[c].id)].AppState = INIT
          /\ AppTable'[ToAppIndex(create'[c].id)].Request = "RUN"
    <3> SUFFICES ASSUME NEW c \in Creators, Making(c)
                 PROVE  /\ told'[create'[c].id] = "RUN"
                        /\ AppTable'[ToAppIndex(create'[c].id)].AppState = INIT
                        /\ AppTable'[ToAppIndex(create'[c].id)].Request = "RUN"
      BY <1>1 DEF Making
    <3>1. ToAppIndex(create[c].id) # i /\ ToAppIndex(create[c].id) \in AppSlots  BY <1>1, <1>3, IdPlaces
    <3> QED BY <1>1, <1>3, <3>1 DEF RequestInv
  <2>2. \A j \in AppSlots : AppTable'[j].AppId \in AppIds =>
          /\ AppTable'[j].Request = told'[AppTable'[j].AppId]
          /\ AppTable'[j].AppState = WAITING =>
               /\ told'[AppTable'[j].AppId] # "RUN"
               /\ waited'[AppTable'[j].AppId] + AppTable'[j].Timer > KillTimeout
    BY <1>1, <1>2, <1>3, <1>5 DEF RequestInv
  <2>3. bg'.todo \subseteq AppIds /\ (bg.at = "List" => bg.id \in AppIds)
    BY <1>1, <1>3, IdTypes DEF IdsInv
  <2>4. (bg'.at = "Scan" => bg'.todo = {}) /\ \A b \in bg'.todo : Due(b)'
    BY <1>1, <1>3, <1>6, <2>3 DEF RequestInv
  <2>5. bg'.at = "List" => Due(bg.id)' /\ bg'.id \notin bg'.todo
    <3> SUFFICES ASSUME bg.at = "List" PROVE Due(bg.id)' /\ bg'.id \notin bg'.todo  BY <1>1
    <3>1. PICK b \in AppIds : b = bg.id  BY <2>3
    <3>2. Due(b)' /\ b \notin bg.todo  BY <1>3, <1>6, <3>1 DEF RequestInv
    <3> QED BY <1>1, <3>1, <3>2 DEF Due, IsMatch
  <2>6. bg'.at = "List" \/ Cleaning' \/ bg'.at = "Create" => (bg'.req = "RESTART") = (told'[bg'.id] = "RESTART")
    BY <1>1, <1>3 DEF RequestInv, Cleaning
  <2>7. \A b \in AppIds : b > LastAppId' => told'[b] = "RUN"  BY <1>1, <1>3 DEF RequestInv
  <2> QED BY <2>1, <2>2, <2>4, <2>5, <2>6, <2>7 DEF RequestInv
<1> QED BY <1>4, <1>7 DEF AppInv

LEMMA ExitAppKeepsApps ==
  ASSUME Types, AppInv, NEW t \in TaskIds, ExitApp(t)
  PROVE  AppInv'
<1> PICK i : i = Slot(t)  OBVIOUS
<1> PICK a : a = AppOf(t)  OBVIOUS
<1>1. /\ Types' /\ LastAppId' = LastAppId /\ create' = create /\ bg' = bg /\ waited' = waited
      /\ a \in AppIds /\ AppTable[i].AppId = a
      /\ AppTable'[i].Request = IF AppTable[i].Request = "RUN" THEN "EXIT" ELSE AppTable[i].Request
      /\ AppTable'[i].AppState = STOPPED
      /\ told'[a] = IF told[a] = "RUN" THEN "EXIT" ELSE told[a]
      /\ \A b \in AppIds : b # a => told'[b] = told[b]
      /\ \A j \in AppSlots : AppTable'[j].AppId = AppTable[j].AppId
      /\ \A j \in AppSlots : j # i => AppTable'[j] = AppTable[j]
  BY ExitAppDoes
<1>2. i \in AppSlots  BY <1>1, Selected DEF Slot
<1>3. IdsInv /\ RequestInv  BY DEF AppInv
<1>4. IdsInv'
  <2>1. \A c \in Creators : Making(c)' <=> Making(c)  BY <1>1 DEF Making
  <2>2. Cleaning' <=> Cleaning  BY <1>1 DEF Cleaning
  <2>3. bg'.at # "Creating" => create'[Background].at = "None"  BY <1>1, <1>3 DEF IdsInv
  <2>4. bg'.at = "List" => bg'.id \in 1..LastAppId  BY <1>1, <1>3 DEF IdsInv
  <2> QED BY <1>1, <1>3, <2>1, <2>2, <2>3, <2>4, IdsFrame
<1>5. \A b \in AppIds : (told'[b] = "RESTART" <=> told[b] = "RESTART") /\ (told[b] # "RUN" => told'[b] # "RUN")
  BY <1>1
<1>6. ASSUME NEW b \in AppIds, Due(b) PROVE Due(b)'
  <2>1. CASE ToAppIndex(b) = i
    <3>1. AppTable'[i].AppId = b  BY <1>1, <1>2, <1>6, <2>1 DEF Due, IsMatch
    <3> QED BY <1>1, <2>1, <3>1 DEF Due, IsMatch
  <2>2. CASE ToAppIndex(b) # i
    <3>1. AppTable'[ToAppIndex(b)] = AppTable[ToAppIndex(b)]  BY <1>1, <2>2, Selected
    <3> QED BY <1>1, <1>5, <1>6, <3>1 DEF Due, IsMatch
  <2> QED BY <2>1, <2>2
<1>7. RequestInv'
  <2>1. \A c \in Creators : Making(c)' =>
          /\ told'[create'[c].id] = "RUN"
          /\ AppTable'[ToAppIndex(create'[c].id)].AppState = INIT
          /\ AppTable'[ToAppIndex(create'[c].id)].Request = "RUN"
    <3> SUFFICES ASSUME NEW c \in Creators, Making(c)
                 PROVE  /\ told'[create'[c].id] = "RUN"
                        /\ AppTable'[ToAppIndex(create'[c].id)].AppState = INIT
                        /\ AppTable'[ToAppIndex(create'[c].id)].Request = "RUN"
      BY <1>1 DEF Making
    <3>1. /\ ToAppIndex(create[c].id) # i /\ ToAppIndex(create[c].id) \in AppSlots
          /\ create[c].id \in AppIds
      BY <1>1, <1>3, IdPlaces
    <3>2. ToAppIndex(a) = i  BY DEF Slot
    <3>3. create[c].id # a  BY <3>1, <3>2
    <3> QED BY <1>1, <1>3, <3>1, <3>3 DEF RequestInv
  <2>2. ASSUME NEW j \in AppSlots, AppTable'[j].AppId \in AppIds
        PROVE  /\ AppTable'[j].Request = told'[AppTable'[j].AppId]
               /\ AppTable'[j].AppState = WAITING =>
                    /\ told'[AppTable'[j].AppId] # "RUN"
                    /\ waited'[AppTable'[j].AppId] + AppTable'[j].Timer > KillTimeout
    <3>1. CASE j = i
      <4>1. AppTable[i].Request = told[a]  BY <1>1, <1>2, <1>3 DEF RequestInv
      <4>2. AppTable'[i].AppId = a  BY <1>1, <1>2
      <4> QED BY <1>1, <3>1, <4>1, <4>2 DEF STOPPED, WAITING
    <3>2. CASE j # i
      <4>1. AppTable'[j] = AppTable[j] /\ AppTable[j].AppId # a
        BY <1>1, <1>2, <1>3, <3>2, IdPlaces
      <4> QED BY <1>1, <1>3, <2>2, <4>1 DEF RequestInv
    <3> QED BY <3>1, <3>2
  <2>3. bg'.todo \subseteq AppIds
        /\ (bg.at = "List" \/ Cleaning \/ bg.at = "Create" => bg.id \in AppIds)
    BY <1>1, <1>3, IdTypes DEF IdsInv
  <2>4. (bg'.at = "Scan" => bg'.todo = {}) /\ \A b \in bg'.todo : Due(b)'
    BY <1>1, <1>3, <1>6, <2>3 DEF RequestInv
  <2>5. bg'.at = "List" => Due(bg.id)' /\ bg'.id \notin bg'.todo
    <3> SUFFICES ASSUME bg.at = "List" PROVE Due(bg.id)' /\ bg'.id \notin bg'.todo  BY <1>1
    <3>1. PICK b \in AppIds : b = bg.id  BY <2>3
    <3>2. Due(b)' /\ b \notin bg.todo  BY <1>3, <1>6, <3>1 DEF RequestInv
    <3> QED BY <1>1, <3>1, <3>2 DEF Due, IsMatch
  <2>6. bg'.at = "List" \/ Cleaning' \/ bg'.at = "Create" => (bg'.req = "RESTART") = (told'[bg'.id] = "RESTART")
    BY <1>1, <1>3, <1>5, <2>3 DEF RequestInv, Cleaning
  <2>7. \A b \in AppIds : b > LastAppId' => told'[b] = "RUN"
    <3>1. a \in 1..LastAppId  BY <1>1, <1>2, <1>3, IdPlaces
    <3> QED BY <1>1, <1>3, <3>1, IdTypes DEF RequestInv
  <2> QED BY <2>1, <2>2, <2>4, <2>5, <2>6, <2>7 DEF RequestInv
<1> QED BY <1>4, <1>7 DEF AppInv

LEMMA AskKeepsApps ==
  ASSUME Types, AppInv, NEW a \in AppIds, NEW req \in Commands, Ask(a, req)
  PROVE  AppInv'
<1> PICK i : i = ToAppIndex(a)  OBVIOUS
<1>1. /\ Types' /\ LastAppId' = LastAppId /\ create' = create /\ bg' = bg /\ waited' = waited
      /\ IsMatch(a) /\ AppTable[i].AppId = a /\ AppTable[i].AppState = RUNNING
      /\ AppTable'[i].Request = req /\ told'[a] = req
      /\ \A b \in AppIds : b # a => told'[b] = told[b]
      /\ \A j \in AppSlots : /\ AppTable'[j].AppId = AppTable[j].AppId
                             /\ AppTable'[j].AppState = AppTable[j].AppState
      /\ \A j \in AppSlots : j # i => AppTable'[j] = AppTable[j]
  BY AskDoes DEF IsMatch
<1>2. i \in AppSlots  BY Selected
<1>3. IdsInv /\ RequestInv  BY DEF AppInv
<1>4. IdsInv'
  <2>1. \A c \in Creators : Making(c)' <=> Making(c)  BY <1>1 DEF Making
  <2>2. Cleaning' <=> Cleaning  BY <1>1 DEF Cleaning
  <2>3. bg'.at # "Creating" => create'[Background].at = "None"  BY <1>1, <1>3 DEF IdsInv
  <2>4. bg'.at = "List" => bg'.id \in 1..LastAppId  BY <1>1, <1>3 DEF IdsInv
  <2> QED BY <1>1, <1>3, <2>1, <2>2, <2>3, <2>4, IdsFrame
<1>5. ~Due(a)  BY <1>1 DEF Due, RUNNING, WAITING, STOPPED
<1>6. ASSUME NEW b \in AppIds, Due(b) PROVE Due(b)' /\ b # a
  <2>1. b # a  BY <1>5, <1>6
  <2>2. ToAppIndex(b) # i  BY <1>1, <1>6, <2>1 DEF Due, IsMatch
  <2>3. AppTable'[ToAppIndex(b)] = AppTable[ToAppIndex(b)]  BY <1>1, <2>2, Selected
  <2> QED BY <1>1, <1>6, <2>1, <2>3 DEF Due, IsMatch
<1>7. RequestInv'
  <2>1. \A c \in Creators : Making(c)' =>
          /\ told'[create'[c].id] = "RUN"
          /\ AppTable'[ToAppIndex(create'[c].id)].AppState = INIT
          /\ AppTable'[ToAppIndex(create'[c].id)].Request = "RUN"
    <3> SUFFICES ASSUME NEW c \in Creators, Making(c)
                 PROVE  /\ told'[create'[c].id] = "RUN"
                        /\ AppTable'[ToAppIndex(create'[c].id)].AppState = INIT
                        /\ AppTable'[ToAppIndex(create'[c].id)].Request = "RUN"
      BY <1>1 DEF Making
    <3>1. /\ ToAppIndex(create[c].id) # i /\ ToAppIndex(create[c].id) \in AppSlots
          /\ create[c].id \in AppIds
      BY <1>1, <1>3, IdPlaces
    <3>3. create[c].id # a  BY <3>1
    <3> QED BY <1>1, <1>3, <3>1, <3>3 DEF RequestInv
  <2>2. ASSUME NEW j \in AppSlots, AppTable'[j].AppId \in AppIds
        PROVE  /\ AppTable'[j].Request = told'[AppTable'[j].AppId]
               /\ AppTable'[j].AppState = WAITING =>
                    /\ told'[AppTable'[j].AppId] # "RUN"
                    /\ waited'[AppTable'[j].AppId] + AppTable'[j].Timer > KillTimeout
    <3>1. CASE j = i
      <4>1. AppTable'[i].AppId = a /\ AppTable'[i].AppState = RUNNING  BY <1>1, <1>2
      <4> QED BY <1>1, <3>1, <4>1 DEF RUNNING, WAITING
    <3>2. CASE j # i
      <4>1. AppTable'[j] = AppTable[j] /\ AppTable[j].AppId # a
        BY <1>1, <1>2, <1>3, <3>2, IdPlaces
      <4> QED BY <1>1, <1>3, <2>2, <4>1 DEF RequestInv
    <3> QED BY <3>1, <3>2
  <2>3. bg'.todo \subseteq AppIds
        /\ (bg.at = "List" \/ Cleaning \/ bg.at = "Create" => bg.id \in AppIds)
    BY <1>1, <1>3, IdTypes DEF IdsInv
  <2>4. (bg'.at = "Scan" => bg'.todo = {}) /\ \A b \in bg'.todo : Due(b)'
    BY <1>1, <1>3, <1>6, <2>3 DEF RequestInv
  <2>5. bg'.at = "List" => Due(bg.id)' /\ bg'.id \notin bg'.todo
    <3> SUFFICES ASSUME bg.at = "List" PROVE Due(bg.id)' /\ bg'.id \notin bg'.todo  BY <1>1
    <3>1. PICK b \in AppIds : b = bg.id  BY <2>3
    <3>2. Due(b)' /\ b \notin bg.todo  BY <1>3, <1>6, <3>1 DEF RequestInv
    <3> QED BY <1>1, <3>1, <3>2 DEF Due, IsMatch
  <2>6. bg'.at = "List" \/ Cleaning' \/ bg'.at = "Create" => (bg'.req = "RESTART") = (told'[bg'.id] = "RESTART")
    <3> SUFFICES ASSUME bg.at = "List" \/ Cleaning \/ bg.at = "Create"
                 PROVE  (bg'.req = "RESTART") = (told'[bg'.id] = "RESTART")
      BY <1>1 DEF Cleaning
    <3>1. CASE bg.at = "List"  BY <1>3, <1>6, <2>3, <3>1, <1>1 DEF RequestInv
    <3>2. CASE Cleaning
      <4>1. bg.id # a  BY <1>1, <1>3, <3>2, IdPlaces
      <4> QED BY <1>1, <1>3, <2>3, <3>2, <4>1 DEF RequestInv
    <3>3. CASE bg.at = "Create"
      <4>1. bg.id # a  BY <1>1, <1>3, <3>3 DEF IdsInv
      <4> QED BY <1>1, <1>3, <2>3, <3>3, <4>1 DEF RequestInv
    <3> QED BY <3>1, <3>2, <3>3
  <2>7. \A b \in AppIds : b > LastAppId' => told'[b] = "RUN"
    <3>1. a \in 1..LastAppId  BY <1>1, <1>2, <1>3, IdPlaces
    <3> QED BY <1>1, <1>3, <3>1, IdTypes DEF RequestInv
  <2> QED BY <2>1, <2>2, <2>4, <2>5, <2>6, <2>7 DEF RequestInv
<1> QED BY <1>4, <1>7 DEF AppInv

LEMMA ScanKeepsApps ==
  ASSUME Types, AppInv, RunAppTableScan
  PROVE  AppInv'
<1>1. /\ Types' /\ LastAppId' = LastAppId /\ create' = create /\ told' = told
      /\ bg.at = "Scan" /\ bg'.at \in {"Scan", "Read"} /\ (bg'.at = "Scan" => bg'.todo = {})
      /\ bg'.todo = {AppTable[i].AppId : i \in {j \in AppSlots : Expired(j)}}
      /\ \A i \in AppSlots :
           /\ AppTable'[i] = Scanned(i)
           /\ AppTable'[i].AppId = AppTable[i].AppId
           /\ AppTable'[i].Request = AppTable[i].Request
      /\ \A a \in AppIds : waited'[a] = IF IsMatch(a) /\ told[a] # "RUN" /\ waited[a] <= KillTimeout
                                        THEN waited[a] + 1 ELSE waited[a]
  BY RunAppTableScanDoes
<1>2. IdsInv /\ RequestInv  BY DEF AppInv
<1>3. ~Cleaning /\ ~Cleaning'  BY <1>1 DEF Cleaning
<1>4. IdsInv'
  <2>1. \A c \in Creators : Making(c)' <=> Making(c)  BY <1>1 DEF Making
  <2>2. bg'.at # "Creating" => create'[Background].at = "None"  BY <1>1, <1>2 DEF IdsInv
  <2> QED BY <1>1, <1>2, <1>3, <2>1, <2>2, IdsFrame
<1>5. ASSUME NEW i \in AppSlots, NEW a \in AppIds, AppTable[i].AppId = a
      PROVE  /\ AppTable'[i].AppState = WAITING =>
                  told[a] # "RUN" /\ waited'[a] + AppTable'[i].Timer > KillTimeout
             /\ Expired(i) => \/ AppTable'[i].AppState = STOPPED
                              \/ AppTable'[i].AppState = WAITING /\ told[a] # "RUN" /\ waited'[a] > KillTimeout
  <2>1. /\ AppTable[i] \in AppRec /\ AppTable[i].Timer \in 0..KillTimeout
        /\ AppTable[i].AppState \in INIT..STOPPED
        /\ waited[a] \in 0..(KillTimeout + 1) /\ KillTimeout \in Nat
    BY SlotTypes DEF Types, AppRec
  <2>2. IsMatch(a) /\ Used(i)  BY <1>2, <1>5, IdPlaces DEF IsMatch, Used
  <2>3. waited'[a] = IF told[a] # "RUN" /\ waited[a] <= KillTimeout THEN waited[a] + 1 ELSE waited[a]
    BY <1>1, <2>2
  <2>4. /\ AppTable[i].Request = told[a]
        /\ AppTable[i].AppState = WAITING => told[a] # "RUN" /\ waited[a] + AppTable[i].Timer > KillTimeout
    BY <1>2, <1>5 DEF RequestInv
  <2>5. CASE Stopping(i)
    <3>1. PICK T : T = IF AppTable[i].Timer > 1 THEN AppTable[i].Timer - 1 ELSE 0  OBVIOUS
    <3>2. AppTable'[i] = [AppTable[i] EXCEPT !.Timer = T]  BY <1>1, <2>1, <2>5, <3>1 DEF Scanned, AppRec
    <3>3. AppTable'[i].AppState = AppTable[i].AppState /\ AppTable'[i].Timer = T  BY <2>1, <3>2 DEF AppRec
    <3>4. AppTable[i].AppState \in {WAITING, STOPPED}
      BY <2>1, <2>5 DEF Stopping, RUNNING, WAITING, STOPPED, INIT
    <3>5. CASE AppTable[i].AppState = WAITING
      <4>1. waited'[a] + T > KillTimeout  BY <2>1, <2>3, <2>4, <3>1, <3>5
      <4>2. Expired(i) => waited'[a] > KillTimeout  BY <2>1, <2>3, <2>4, <3>5 DEF Expired
      <4> QED BY <2>4, <3>3, <3>5, <4>1, <4>2
    <3>6. CASE AppTable[i].AppState = STOPPED  BY <3>3, <3>6 DEF WAITING, STOPPED
    <3> QED BY <3>4, <3>5, <3>6
  <2>6. CASE ~Stopping(i) /\ Stop(i)
    <3>1. AppTable'[i] = [AppTable[i] EXCEPT !.AppState = WAITING, !.Timer = KillTimeout]
      BY <1>1, <2>6 DEF Scanned
    <3>2. AppTable'[i].Timer = KillTimeout  BY <2>1, <3>1 DEF AppRec
    <3>3. told[a] # "RUN"  BY <2>4, <2>6 DEF Stop
    <3>4. waited'[a] + KillTimeout > KillTimeout  BY <2>1, <2>3, <3>3
    <3> QED BY <2>6, <3>2, <3>3, <3>4 DEF Expired
  <2>7. CASE ~Stopping(i) /\ ~Stop(i)
    <3>1. AppTable'[i] = AppTable[i]  BY <1>1, <2>7 DEF Scanned
    <3>2. AppTable[i].AppState # WAITING  BY <2>2, <2>7 DEF Stopping, RUNNING, WAITING
    <3> QED BY <2>7, <3>1, <3>2 DEF Expired
  <2> QED BY <2>5, <2>6, <2>7
<1>6. RequestInv'
  <2>1. \A c \in Creators : Making(c)' =>
          /\ told'[create'[c].id] = "RUN"
          /\ AppTable'[ToAppIndex(create'[c].id)].AppState = INIT
          /\ AppTable'[ToAppIndex(create'[c].id)].Request = "RUN"
    <3> SUFFICES ASSUME NEW c \in Creators, Making(c)
                 PROVE  /\ told'[create'[c].id] = "RUN"
                        /\ AppTable'[ToAppIndex(create'[c].id)].AppState = INIT
                        /\ AppTable'[ToAppIndex(create'[c].id)].Request = "RUN"
      BY <1>1 DEF Making
    <3> PICK i : i = ToAppIndex(create[c].id)  OBVIOUS
    <3>1. i \in AppSlots  BY <1>2, IdPlaces
    <3>2. AppTable[i].AppState = INIT /\ AppTable[i].Request = "RUN" /\ told[create[c].id] = "RUN"
      BY <1>2 DEF RequestInv
    <3>3. ~Stopping(i) /\ ~Stop(i)  BY <3>2 DEF Stopping, Stop, INIT, RUNNING
    <3>4. AppTable'[i] = AppTable[i]  BY <1>1, <3>1, <3>3 DEF Scanned
    <3> QED BY <1>1, <3>2, <3>4
  <2>2. \A i \in AppSlots : AppTable'[i].AppId \in AppIds =>
          /\ AppTable'[i].Request = told'[AppTable'[i].AppId]
          /\ AppTable'[i].AppState = WAITING =>
               /\ told'[AppTable'[i].AppId] # "RUN"
               /\ waited'[AppTable'[i].AppId] + AppTable'[i].Timer > KillTimeout
    BY <1>1, <1>2, <1>5 DEF RequestInv
  <2>3. ASSUME NEW b \in bg'.todo PROVE Due(b)'
    <3>1. PICK i \in AppSlots : Expired(i) /\ b = AppTable[i].AppId  BY <1>1, <2>3
    <3>2. b \in AppIds  BY <1>1, <2>3 DEF Types, BgRec
    <3>3. ToAppIndex(b) = i  BY <1>2, <3>1, <3>2, IdPlaces
    <3>4. AppTable'[i].AppId = b  BY <1>1, <3>1
    <3> QED BY <1>1, <1>5, <3>1, <3>2, <3>3, <3>4 DEF Due, IsMatch
  <2>4. \A b \in AppIds : b > LastAppId' => told'[b] = "RUN"  BY <1>1, <1>2 DEF RequestInv
  <2> QED BY <1>1, <1>3, <2>1, <2>2, <2>3, <2>4 DEF RequestInv
<1> QED BY <1>4, <1>6 DEF AppInv

LEMMA ProcessControlRequestKeepsApps ==
  ASSUME Types, AppInv, ProcessControlRequest
  PROVE  AppInv'
<1>1. /\ Types' /\ AppTable' = AppTable /\ LastAppId' = LastAppId /\ create' = create
      /\ told' = told /\ waited' = waited /\ bg.at = "Read"
      /\ \/ bg.todo = {} /\ bg'.at = "Scan" /\ bg'.todo = {}
         \/ \E a \in bg.todo : /\ bg'.at = "List" /\ bg'.id = a /\ bg'.todo = bg.todo \ {a}
                               /\ a \in AppIds
                               /\ bg'.req = AppTable[ToAppIndex(a)].Request
  BY ProcessControlRequestDoes DEF SameApps, SameHist
<1>2. IdsInv /\ RequestInv  BY DEF AppInv
<1>3. ~Cleaning /\ ~Cleaning' /\ bg'.at # "Create" /\ bg'.at # "Creating"  BY <1>1 DEF Cleaning
<1>4. \A a \in AppIds : Due(a)' <=> Due(a)  BY <1>1 DEF Due, IsMatch
<1>5. \A a \in bg.todo : Due(a) /\ a \in AppIds  BY <1>2, IdTypes DEF RequestInv
<1>6. ASSUME NEW a \in bg.todo
      PROVE  a \in 1..LastAppId /\ AppTable[ToAppIndex(a)].Request = told[a]
  <2>1. AppTable[ToAppIndex(a)].AppId = a /\ a \in AppIds /\ ToAppIndex(a) \in AppSlots
    BY <1>5, Selected DEF Due, IsMatch
  <2> QED BY <1>2, <2>1, IdPlaces DEF RequestInv
<1>7. IdsInv'
  <2>1. \A c \in Creators : Making(c)' <=> Making(c)  BY <1>1 DEF Making
  <2>2. create'[Background].at = "None"  BY <1>1, <1>2 DEF IdsInv
  <2>3. bg'.at = "List" => bg'.id \in 1..LastAppId  BY <1>1, <1>6
  <2> QED BY <1>1, <1>2, <1>3, <2>1, <2>2, <2>3, IdsFrame
<1>8. RequestInv'
  <2>1. \A c \in Creators : Making(c)' =>
          /\ told'[create'[c].id] = "RUN"
          /\ AppTable'[ToAppIndex(create'[c].id)].AppState = INIT
          /\ AppTable'[ToAppIndex(create'[c].id)].Request = "RUN"
    BY <1>1, <1>2 DEF RequestInv, Making
  <2>2. \A i \in AppSlots : AppTable'[i].AppId \in AppIds =>
          /\ AppTable'[i].Request = told'[AppTable'[i].AppId]
          /\ AppTable'[i].AppState = WAITING =>
               /\ told'[AppTable'[i].AppId] # "RUN"
               /\ waited'[AppTable'[i].AppId] + AppTable'[i].Timer > KillTimeout
    BY <1>1, <1>2 DEF RequestInv
  <2>3. \A b \in AppIds : b > LastAppId' => told'[b] = "RUN"  BY <1>1, <1>2 DEF RequestInv
  <2>4. (bg'.at = "Scan" => bg'.todo = {}) /\ \A b \in bg'.todo : Due(b)'  BY <1>1, <1>4, <1>5
  <2>5. bg'.at = "List" => Due(bg.id)' /\ bg'.id \notin bg'.todo
    <3> SUFFICES ASSUME bg'.at = "List" PROVE Due(bg.id)' /\ bg'.id \notin bg'.todo  OBVIOUS
    <3>1. PICK b \in bg.todo : bg'.id = b /\ bg'.todo = bg.todo \ {b}  BY <1>1
    <3>2. Due(b)'  BY <1>4, <1>5
    <3> QED BY <3>1, <3>2 DEF Due, IsMatch
  <2>6. bg'.at = "List" => (bg'.req = "RESTART") = (told'[bg'.id] = "RESTART")  BY <1>1, <1>6
  <2> QED BY <1>3, <2>1, <2>2, <2>3, <2>4, <2>5, <2>6 DEF RequestInv
<1> QED BY <1>7, <1>8 DEF AppInv

LEMMA CleanUpAppKeepsApps ==
  ASSUME Types, AppInv, CleanUpApp
  PROVE  AppInv' /\ bg.id \in AppIds /\ IsMatch(bg.id)
<1> PICK i, a : i = ToAppIndex(bg.id) /\ a = bg.id  OBVIOUS
<1>1. IdsInv /\ RequestInv /\ bg.at = "List"  BY DEF AppInv, CleanUpApp
<1>2. a \in AppIds /\ a \in 1..LastAppId /\ Due(a) /\ a \notin bg.todo /\ IsMatch(a)
  BY <1>1, IdTypes DEF IdsInv, RequestInv, Due
<1>3. /\ Types' /\ LastAppId' = LastAppId /\ create' = create /\ told' = told /\ waited' = waited
      /\ bg'.at = "Next" /\ bg'.id = a /\ bg'.req = bg.req /\ bg'.todo = bg.todo
      /\ AppTable'[i].AppId = RESERVED
      /\ \A j \in AppSlots : j # i => AppTable'[j] = AppTable[j]
  BY <1>2, CleanUpAppDoes DEF SameHist
<1>4. i \in AppSlots /\ AppTable[i].AppId = a  BY <1>2, Selected DEF IsMatch
<1>5. ~Cleaning /\ Cleaning'  BY <1>1, <1>3 DEF Cleaning
<1>6. \A c \in Creators : Making(c) =>
        ToAppIndex(create[c].id) # i /\ AppTable'[ToAppIndex(create[c].id)] = AppTable[ToAppIndex(create[c].id)]
  BY <1>1, <1>2, <1>3, <1>4, IdPlaces
<1>7. \A c \in Creators : Making(c)' <=> Making(c)  BY <1>3 DEF Making
<1>8. IdsInv'
  <2>1. \A j \in AppSlots : AppTable'[j].AppId \in AppIds =>
          ToAppIndex(AppTable'[j].AppId) = j /\ AppTable'[j].AppId <= LastAppId'
    BY <1>1, <1>3, <1>4, IdPlaces DEF IdsInv
  <2>2. \A c \in Creators : Making(c)' =>
          /\ create'[c].id \in 1..LastAppId'
          /\ AppTable'[ToAppIndex(create'[c].id)].AppId = RESERVED
    BY <1>1, <1>3, <1>6, <1>7 DEF IdsInv
  <2>3. \A c, d \in Creators :
          Making(c)' /\ Making(d)' /\ ToAppIndex(create'[c].id) = ToAppIndex(create'[d].id) => c = d
    BY <1>1, <1>3, <1>7 DEF IdsInv
  <2>4. /\ AppTable'[ToAppIndex(bg'.id)].AppId = RESERVED
        /\ \A c \in Creators : Making(c)' => ToAppIndex(create'[c].id) # ToAppIndex(bg'.id)
    BY <1>3, <1>6, <1>7
  <2>5. \A j \in AppSlots : AppTable'[j].AppId = RESERVED =>
          \/ Cleaning' /\ j = ToAppIndex(bg'.id)
          \/ \E c \in Creators : Making(c)' /\ j = ToAppIndex(create'[c].id)
    BY <1>1, <1>3, <1>5, <1>7 DEF IdsInv
  <2>6. create'[Background].at = "None"  BY <1>1, <1>3 DEF IdsInv
  <2>7. bg'.id \in 1..LastAppId'  BY <1>2, <1>3
  <2> QED BY <1>3, <2>1, <2>2, <2>3, <2>4, <2>5, <2>6, <2>7 DEF IdsInv
<1>9. RequestInv'
  <2>1. \A c \in Creators : Making(c)' =>
          /\ told'[create'[c].id] = "RUN"
          /\ AppTable'[ToAppIndex(create'[c].id)].AppState = INIT
          /\ AppTable'[ToAppIndex(create'[c].id)].Request = "RUN"
    BY <1>1, <1>3, <1>6, <1>7 DEF RequestInv
  <2>2. \A j \in AppSlots : AppTable'[j].AppId \in AppIds =>
          /\ AppTable'[j].Request = told'[AppTable'[j].AppId]
          /\ AppTable'[j].AppState = WAITING =>
               /\ told'[AppTable'[j].AppId] # "RUN"
               /\ waited'[AppTable'[j].AppId] + AppTable'[j].Timer > KillTimeout
    BY <1>1, <1>3, <1>4, IdPlaces DEF RequestInv
  <2>3. \A b \in AppIds : b > LastAppId' => told'[b] = "RUN"  BY <1>1, <1>3 DEF RequestInv
  <2>4. ASSUME NEW b \in bg'.todo PROVE Due(b)'
    <3>1. b \in AppIds /\ Due(b) /\ b # a  BY <1>1, <1>2, <1>3, <2>4, IdTypes DEF RequestInv
    <3>2. ToAppIndex(b) # i /\ ToAppIndex(b) \in AppSlots  BY <1>4, <3>1, Selected DEF Due, IsMatch
    <3> QED BY <1>3, <3>1, <3>2 DEF Due, IsMatch
  <2>5. (bg'.req = "RESTART") = (told'[bg'.id] = "RESTART")  BY <1>1, <1>3 DEF RequestInv
  <2> QED BY <1>3, <2>1, <2>2, <2>3, <2>4, <2>5 DEF RequestInv
<1> QED BY <1>2, <1>8, <1>9 DEF AppInv

LEMMA FreeRecordsKeepsApps ==
  ASSUME Types, AppInv, FreeRecords
  PROVE  AppInv'
<1> PICK i, a : i = ToAppIndex(bg.id) /\ a = bg.id  OBVIOUS
<1>1. /\ Types' /\ LastAppId' = LastAppId /\ create' = create /\ told' = told /\ waited' = waited
      /\ bg.at = "Free" /\ bg'.at = "Create" /\ bg'.id = a /\ bg'.req = bg.req /\ bg'.todo = bg.todo
      /\ AppTable'[i].AppId = UNDEFINED
      /\ \A j \in AppSlots : j # i => AppTable'[j] = AppTable[j]
  BY FreeRecordsDoes DEF SameHist
<1>2. IdsInv /\ RequestInv  BY DEF AppInv
<1>3. Cleaning /\ ~Cleaning'  BY <1>1 DEF Cleaning
<1>4. a \in AppIds /\ a \in 1..LastAppId /\ i \in AppSlots /\ AppTable[i].AppId = RESERVED
  BY <1>2, <1>3, IdPlaces DEF IdsInv
<1>5. UNDEFINED \notin AppIds /\ RESERVED \notin AppIds /\ UNDEFINED # RESERVED  BY RecordTypes
<1>6. \A c \in Creators : Making(c) =>
        ToAppIndex(create[c].id) # i /\ AppTable'[ToAppIndex(create[c].id)] = AppTable[ToAppIndex(create[c].id)]
  BY <1>1, <1>2, <1>3, IdPlaces DEF IdsInv
<1>7. \A c \in Creators : Making(c)' <=> Making(c)  BY <1>1 DEF Making
<1>8. IdsInv'
  <2>1. \A j \in AppSlots : AppTable'[j].AppId \in AppIds =>
          ToAppIndex(AppTable'[j].AppId) = j /\ AppTable'[j].AppId <= LastAppId'
    BY <1>1, <1>2, <1>5 DEF IdsInv
  <2>2. \A c \in Creators : Making(c)' =>
          /\ create'[c].id \in 1..LastAppId'
          /\ AppTable'[ToAppIndex(create'[c].id)].AppId = RESERVED
    BY <1>1, <1>2, <1>6, <1>7 DEF IdsInv
  <2>3. \A c, d \in Creators :
          Making(c)' /\ Making(d)' /\ ToAppIndex(create'[c].id) = ToAppIndex(create'[d].id) => c = d
    BY <1>1, <1>2, <1>7 DEF IdsInv
  <2>4. \A j \in AppSlots : AppTable'[j].AppId = RESERVED =>
          \E c \in Creators : Making(c)' /\ j = ToAppIndex(create'[c].id)
    BY <1>1, <1>2, <1>5, <1>7 DEF IdsInv
  <2>5. create'[Background].at = "None"  BY <1>1, <1>2 DEF IdsInv
  <2>6. bg'.id \in 1..LastAppId'  BY <1>1, <1>4
  <2>7. ~IsMatch(bg.id)' /\ \A c \in Creators : Making(c)' => create'[c].id # bg'.id
    BY <1>1, <1>4, <1>5, <1>6, <1>7 DEF IsMatch
  <2> QED BY <1>3, <2>1, <2>2, <2>3, <2>4, <2>5, <2>6, <2>7 DEF IdsInv
<1>9. RequestInv'
  <2>1. \A c \in Creators : Making(c)' =>
          /\ told'[create'[c].id] = "RUN"
          /\ AppTable'[ToAppIndex(create'[c].id)].AppState = INIT
          /\ AppTable'[ToAppIndex(create'[c].id)].Request = "RUN"
    BY <1>1, <1>2, <1>6, <1>7 DEF RequestInv
  <2>2. \A j \in AppSlots : AppTable'[j].AppId \in AppIds =>
          /\ AppTable'[j].Request = told'[AppTable'[j].AppId]
          /\ AppTable'[j].AppState = WAITING =>
               /\ told'[AppTable'[j].AppId] # "RUN"
               /\ waited'[AppTable'[j].AppId] + AppTable'[j].Timer > KillTimeout
    BY <1>1, <1>2, <1>5 DEF RequestInv
  <2>3. \A b \in AppIds : b > LastAppId' => told'[b] = "RUN"  BY <1>1, <1>2 DEF RequestInv
  <2>4. ASSUME NEW b \in bg'.todo PROVE Due(b)'
    <3>1. b \in AppIds /\ Due(b)  BY <1>1, <1>2, <2>4, IdTypes DEF RequestInv
    <3>2. ToAppIndex(b) # i /\ ToAppIndex(b) \in AppSlots  BY <1>4, <1>5, <3>1, Selected DEF Due, IsMatch
    <3> QED BY <1>1, <3>1, <3>2 DEF Due, IsMatch
  <2>5. (bg'.req = "RESTART") = (told'[bg'.id] = "RESTART")  BY <1>1, <1>2, <1>3 DEF RequestInv
  <2> QED BY <1>1, <2>1, <2>2, <2>3, <2>4, <2>5 DEF RequestInv
<1> QED BY <1>8, <1>9 DEF AppInv

LEMMA RequestDoneKeepsApps ==
  ASSUME Types, AppInv, RequestDone
  PROVE  AppInv'
<1>1. /\ Types' /\ AppTable' = AppTable /\ LastAppId' = LastAppId /\ create' = create
      /\ told' = told /\ waited' = waited
      /\ bg.at = "Create" \/ (bg.at = "Creating" /\ create[Background].at = "None")
      /\ bg'.at = "Read" /\ bg'.todo = bg.todo
  BY RequestDoneDoes DEF SameApps, SameHist
<1>2. IdsInv /\ RequestInv  BY DEF AppInv
<1>3. ~Cleaning /\ ~Cleaning'  BY <1>1 DEF Cleaning
<1>4. IdsInv'
  <2>1. \A c \in Creators : Making(c)' <=> Making(c)  BY <1>1 DEF Making
  <2>2. create'[Background].at = "None"  BY <1>1, <1>2 DEF IdsInv
  <2> QED BY <1>1, <1>2, <1>3, <2>1, <2>2, IdsFrame
<1>5. RequestInv'
  <2>1. \A a \in AppIds : Due(a)' <=> Due(a)  BY <1>1 DEF Due, IsMatch
  <2>2. \A a \in bg'.todo : Due(a)'  BY <1>1, <1>2, <2>1, IdTypes DEF RequestInv
  <2>3. \A c \in Creators : Making(c)' =>
          /\ told'[create'[c].id] = "RUN"
          /\ AppTable'[ToAppIndex(create'[c].id)].AppState = INIT
          /\ AppTable'[ToAppIndex(create'[c].id)].Request = "RUN"
    BY <1>1, <1>2 DEF RequestInv, Making
  <2> QED BY <1>1, <1>2, <1>3, <2>2, <2>3 DEF RequestInv
<1> QED BY <1>4, <1>5 DEF AppInv

LEMMA PublishKeepsApps ==
  ASSUME Types, AppInv, NEW c \in Creators, Publish(c)
  PROVE  AppInv'
<1> PICK i, a : i = ToAppIndex(create[c].id) /\ a = create[c].id  OBVIOUS
<1>1. /\ Types' /\ LastAppId' = LastAppId /\ bg' = bg /\ told' = told /\ waited' = waited
      /\ create'[c].at = "None" /\ a \in AppIds /\ create[c].at \in {"Publish", "Fail"}
      /\ \A d \in Creators : d # c => create'[d] = create[d]
      /\ \A j \in AppSlots : j # i => AppTable'[j] = AppTable[j]
      /\ \/ /\ AppTable'[i].AppId = a
            /\ AppTable'[i].AppState = AppTable[i].AppState
            /\ AppTable'[i].Request = AppTable[i].Request
         \/ AppTable'[i].AppId = UNDEFINED
  BY PublishDoes DEF SameHist
<1>2. IdsInv /\ RequestInv  BY DEF AppInv
<1>3. Making(c) /\ ~Making(c)' /\ \A d \in Creators : d # c => (Making(d)' <=> Making(d))
  BY <1>1 DEF Making
<1>4. i \in AppSlots /\ AppTable[i].AppId = RESERVED /\ a \in 1..LastAppId
      /\ told[a] = "RUN" /\ AppTable[i].AppState = INIT /\ AppTable[i].Request = "RUN"
  BY <1>2, <1>3, IdPlaces DEF IdsInv, RequestInv
<1>5. UNDEFINED \notin AppIds /\ RESERVED \notin AppIds /\ UNDEFINED # RESERVED  BY RecordTypes
<1>6. \A d \in Creators : Making(d)' =>
        /\ d # c /\ Making(d) /\ create'[d] = create[d] /\ ToAppIndex(create[d].id) # i
        /\ AppTable'[ToAppIndex(create[d].id)] = AppTable[ToAppIndex(create[d].id)]
  BY <1>1, <1>2, <1>3, IdPlaces DEF IdsInv
<1>7. (Cleaning' <=> Cleaning) /\ (Cleaning => /\ ToAppIndex(bg.id) # i
                                               /\ AppTable'[ToAppIndex(bg.id)] = AppTable[ToAppIndex(bg.id)])
  BY <1>1, <1>2, <1>3, IdPlaces DEF IdsInv, Cleaning
<1>8. IdsInv'
  <2>1. \A j \in AppSlots : AppTable'[j].AppId \in AppIds =>
          ToAppIndex(AppTable'[j].AppId) = j /\ AppTable'[j].AppId <= LastAppId'
    BY <1>1, <1>2, <1>4, <1>5, IdTypes DEF IdsInv
  <2>2. \A d \in Creators : Making(d)' =>
          /\ create'[d].id \in 1..LastAppId'
          /\ AppTable'[ToAppIndex(create'[d].id)].AppId = RESERVED
    BY <1>1, <1>2, <1>6 DEF IdsInv
  <2>3. \A d, e \in Creators :
          Making(d)' /\ Making(e)' /\ ToAppIndex(create'[d].id) = ToAppIndex(create'[e].id) => d = e
    BY <1>2, <1>6 DEF IdsInv
  <2>4. Cleaning' =>
          /\ AppTable'[ToAppIndex(bg'.id)].AppId = RESERVED
          /\ \A d \in Creators : Making(d)' => ToAppIndex(create'[d].id) # ToAppIndex(bg'.id)
    BY <1>1, <1>2, <1>6, <1>7 DEF IdsInv
  <2>5. ASSUME NEW j \in AppSlots, AppTable'[j].AppId = RESERVED
        PROVE  \/ Cleaning' /\ j = ToAppIndex(bg'.id)
               \/ \E d \in Creators : Making(d)' /\ j = ToAppIndex(create'[d].id)
    <3>1. j # i  BY <1>1, <1>5, <2>5
    <3>2. \/ Cleaning /\ j = ToAppIndex(bg.id)
          \/ \E d \in Creators : Making(d) /\ j = ToAppIndex(create[d].id)
      BY <1>1, <1>2, <2>5, <3>1 DEF IdsInv
    <3> QED BY <1>1, <1>3, <1>7, <3>1, <3>2
  <2>6. bg'.at # "Creating" => create'[Background].at = "None"
    <3>1. Background \in Creators  BY DEF Creators
    <3> QED BY <1>1, <1>2, <3>1 DEF IdsInv
  <2>7. bg'.at = "List" \/ Cleaning' \/ bg'.at = "Create" => bg'.id \in 1..LastAppId'
    BY <1>1, <1>2, <1>7 DEF IdsInv
  <2>8. bg'.at = "Create" => ~IsMatch(bg.id)' /\ \A d \in Creators : Making(d)' => create'[d].id # bg'.id
    <3> SUFFICES ASSUME bg.at = "Create"
                 PROVE  ~IsMatch(bg.id)' /\ \A d \in Creators : Making(d)' => create'[d].id # bg'.id
      BY <1>1
    <3>1. bg.id # a /\ bg.id \in AppIds /\ ~IsMatch(bg.id)  BY <1>2, <1>3, IdTypes DEF IdsInv
    <3>2. ~IsMatch(bg.id)'  BY <1>1, <1>5, <3>1, Selected DEF IsMatch
    <3>3. \A d \in Creators : Making(d)' => create'[d].id # bg'.id  BY <1>1, <1>2, <1>6 DEF IdsInv
    <3> QED BY <3>2, <3>3
  <2> QED BY <2>1, <2>2, <2>3, <2>4, <2>5, <2>6, <2>7, <2>8 DEF IdsInv
<1>9. ASSUME NEW b \in AppIds, Due(b) PROVE Due(b)'
  <2>1. ToAppIndex(b) # i /\ ToAppIndex(b) \in AppSlots  BY <1>4, <1>5, <1>9, Selected DEF Due, IsMatch
  <2> QED BY <1>1, <1>9, <2>1 DEF Due, IsMatch
<1>10. RequestInv'
  <2>1. \A d \in Creators : Making(d)' =>
          /\ told'[create'[d].id] = "RUN"
          /\ AppTable'[ToAppIndex(create'[d].id)].AppState = INIT
          /\ AppTable'[ToAppIndex(create'[d].id)].Request = "RUN"
    BY <1>1, <1>2, <1>6 DEF RequestInv
  <2>2. ASSUME NEW j \in AppSlots, AppTable'[j].AppId \in AppIds
        PROVE  /\ AppTable'[j].Request = told'[AppTable'[j].AppId]
               /\ AppTable'[j].AppState = WAITING =>
                    /\ told'[AppTable'[j].AppId] # "RUN"
                    /\ waited'[AppTable'[j].AppId] + AppTable'[j].Timer > KillTimeout
    <3>1. CASE j = i  BY <1>1, <1>4, <1>5, <2>2, <3>1 DEF INIT, WAITING
    <3>2. CASE j # i  BY <1>1, <1>2, <2>2, <3>2 DEF RequestInv
    <3> QED BY <3>1, <3>2
  <2>3. bg'.todo \subseteq AppIds /\ (bg.at = "List" => bg.id \in AppIds)  BY <1>1, <1>2, IdTypes DEF IdsInv
  <2>4. (bg'.at = "Scan" => bg'.todo = {}) /\ \A b \in bg'.todo : Due(b)'
    BY <1>1, <1>2, <1>9, <2>3 DEF RequestInv
  <2>5. bg'.at = "List" => Due(bg.id)' /\ bg'.id \notin bg'.todo
    <3> SUFFICES ASSUME bg.at = "List" PROVE Due(bg.id)' /\ bg'.id \notin bg'.todo  BY <1>1
    <3>1. PICK b \in AppIds : b = bg.id  BY <2>3
    <3>2. Due(b)' /\ b \notin bg.todo  BY <1>2, <1>9, <3>1 DEF RequestInv
    <3> QED BY <1>1, <3>1, <3>2 DEF Due, IsMatch
  <2>6. bg'.at = "List" \/ Cleaning' \/ bg'.at = "Create" => (bg'.req = "RESTART") = (told'[bg'.id] = "RESTART")
    BY <1>1, <1>2, <1>7 DEF RequestInv
  <2>7. \A b \in AppIds : b > LastAppId' => told'[b] = "RUN"  BY <1>1, <1>2 DEF RequestInv
  <2> QED BY <2>1, <2>2, <2>4, <2>5, <2>6, <2>7 DEF RequestInv
<1> QED BY <1>8, <1>10 DEF AppInv

-----------------------------------------------------------------------------
(* The steps of the system, one by one *)

LEMMA Steps ==
  ASSUME Types, Next
  PROVE  \/ \E c \in Creators, n \in Names : StartApp(c, n) /\ c # Background
         \/ \E c \in Creators, n \in LibNames : LoadLibrary(c, n) /\ c # Background
         \/ \E c \in Creators : Launch(c) \/ RecordMain(c) \/ Publish(c) \/ LibraryDone(c)
         \/ \E a \in AppIds, req \in Commands : Ask(a, req)
         \/ RunAppTableScan \/ ProcessControlRequest \/ CleanUpApp
         \/ NextTask \/ SweepTask \/ DeleteTask \/ FreeRecords \/ Restart \/ RequestDone
         \/ \E t \in TaskIds : \/ Enter(t) \/ ExitApp(t) \/ Return(t) \/ TaskExit(t)
                               \/ CreateChildTask(t) \/ StartChild(t) \/ RecordChild(t)
                               \/ ExitChildTask(t)
         \/ \E t \in TaskIds, state \in {RUNNING, STOPPED} : Raise(t, state)
         \/ \E t, u \in TaskIds : DeleteChildTask(t, u)
<1>1. Loaders \subseteq Creators /\ Background \in Creators /\ Background \notin Loaders
  BY NameAssumption DEF Creators
<1>2. ASSUME NEW c \in Loaders, NEW n \in Names, StartApp(c, n)
      PROVE  \E d \in Creators, m \in Names : StartApp(d, m) /\ d # Background
  BY <1>1, <1>2
<1>3. ASSUME NEW c \in Loaders, NEW n \in LibNames, LoadLibrary(c, n)
      PROVE  \E d \in Creators, m \in LibNames : LoadLibrary(d, m) /\ d # Background
  BY <1>1, <1>3
<1>4. ASSUME NEW c \in Creators, LoadStep(c)
      PROVE  \E d \in Creators : Launch(d) \/ RecordMain(d) \/ Publish(d) \/ LibraryDone(d)
  BY <1>4 DEF LoadStep
<1>5. ASSUME NEW t \in TaskIds, RunLoop(t)
      PROVE  Raise(t, RUNNING)
  BY <1>5 DEF RunLoop, Raise
<1>6. ASSUME NEW t \in TaskIds, NEW state \in {RUNNING, STOPPED}, WaitForSystemState(t, state)
      PROVE  Raise(t, state)
  BY <1>6 DEF WaitForSystemState, Raise
<1>7. ASSUME NEW t \in TaskIds, TaskStep(t)
      PROVE  \/ Enter(t) \/ ExitApp(t) \/ Return(t) \/ TaskExit(t)
             \/ CreateChildTask(t) \/ StartChild(t) \/ RecordChild(t) \/ ExitChildTask(t)
             \/ \E state \in {RUNNING, STOPPED} : Raise(t, state)
             \/ \E u \in TaskIds : DeleteChildTask(t, u)
  BY <1>5, <1>6, <1>7, Zenon DEF TaskStep
<1>8. CASE \E c \in Loaders : \/ \E n \in Names : StartApp(c, n)
                              \/ \E n \in LibNames : LoadLibrary(c, n)
                              \/ LoadStep(c)
  BY <1>1, <1>2, <1>3, <1>4, <1>8, Zenon
<1>9. CASE \E a \in AppIds, req \in Commands : Ask(a, req)  BY <1>9
<1>10. CASE BackgroundStep  BY <1>1, <1>4, <1>10, Zenon DEF BackgroundStep
<1>11. CASE \E t \in TaskIds : TaskStep(t)  BY <1>7, <1>11, Zenon
<1> QED BY <1>8, <1>9, <1>10, <1>11 DEF Next

LEMMA AppsInit == Init => AppInv
<1> SUFFICES ASSUME Init PROVE AppInv  OBVIOUS
<1>1. /\ \A i \in AppSlots : AppTable[i] = FreeApp
      /\ \A c \in Creators : create[c].at = "None"
      /\ bg.at = "Scan" /\ bg.todo = {}
      /\ \A a \in AppIds : told[a] = "RUN"
  BY DEF Init, NoCreate, Creators, BgIdle
<1>2. FreeApp.AppId = UNDEFINED /\ UNDEFINED \notin AppIds /\ RESERVED # UNDEFINED
  BY RecordTypes DEF FreeApp
<1>3. ~Cleaning /\ (\A c \in Creators : ~Making(c)) /\ Background \in Creators
  BY <1>1 DEF Cleaning, Making, Creators
<1>4. IdsInv  BY <1>1, <1>2, <1>3 DEF IdsInv
<1>5. RequestInv  BY <1>1, <1>2, <1>3 DEF RequestInv
<1> QED BY <1>4, <1>5 DEF AppInv

(* The records of apps are kept in every step.                             *)
LEMMA AppsStep ==
  ASSUME Types, AppInv, [Next]_vars
  PROVE  Types' /\ AppInv'
<1> Background \in Creators  BY DEF Creators
<1>1. bg.at # "Creating" => create[Background].at = "None"  BY DEF AppInv, IdsInv
<1>2. ASSUME Types', LastAppId' = LastAppId, SameHist, bg' = bg, create' = create, AppTable' = AppTable
      PROVE  AppInv'
  <2>1. \A c \in Creators : Making(c)' <=> Making(c)  BY <1>2 DEF Making
  <2> QED BY <1>1, <1>2, <2>1, AppFrame
<1>3. ASSUME Types', LastAppId' = LastAppId, SameHist, create' = create, AppTable' = AppTable,
             bg'.id = bg.id, bg'.req = bg.req, bg'.todo = bg.todo, Cleaning, Cleaning'
      PROVE  AppInv'
  <2>1. \A c \in Creators : Making(c)' <=> Making(c)  BY <1>3 DEF Making
  <2>2. bg.at # "Creating"  BY <1>3 DEF Cleaning
  <2> QED BY <1>1, <1>3, <2>1, <2>2, AppFrame
<1>4. ASSUME NEW c \in Creators, Types', LastAppId' = LastAppId, SameHist, bg' = bg,
             \A d \in Creators : d # c => create'[d] = create[d],
             Making(c)' <=> Making(c), Making(c) => create'[c].id = create[c].id,
             bg.at # "Creating" => create'[Background].at = "None",
             \A i \in AppSlots : /\ AppTable'[i].AppId = AppTable[i].AppId
                                 /\ AppTable'[i].AppState = AppTable[i].AppState
                                 /\ AppTable'[i].Request = AppTable[i].Request
                                 /\ AppTable'[i].Timer = AppTable[i].Timer
      PROVE  AppInv'
  <2>1. \A d \in Creators : Making(d)' <=> Making(d)  BY <1>4 DEF Making
  <2>2. \A d \in Creators : Making(d) => create'[d].id = create[d].id  BY <1>4
  <2> QED BY <1>4, <2>1, <2>2, AppFrame
<1>5. CASE UNCHANGED vars
  <2>1. /\ AppTable' = AppTable /\ LastAppId' = LastAppId /\ TaskTable' = TaskTable /\ LibTable' = LibTable
        /\ os' = os /\ LastTaskId' = LastTaskId /\ create' = create /\ bg' = bg /\ told' = told /\ waited' = waited
    BY <1>5 DEF vars, tables
  <2>2. Types'  BY <2>1 DEF Types
  <2> QED BY <1>2, <2>1, <2>2 DEF SameHist
<1>6. ASSUME NEW c \in Creators, NEW n \in Names, StartApp(c, n), c # Background PROVE Types' /\ AppInv'
  <2>1. PICK m \in Names \cup {NoName} : m = n  OBVIOUS
  <2>2. AppCreate(c, m)  BY <1>6, <2>1 DEF StartApp
  <2> QED BY <1>6, <2>2, StartAppDoes, AppCreateKeeps
<1>7. ASSUME NEW c \in Creators, NEW n \in LibNames, LoadLibrary(c, n), c # Background PROVE Types' /\ AppInv'
  <2>1. /\ Types' /\ SameApps /\ bg' = bg /\ SameHist /\ create[c].at = "None" /\ create'[c].at = "Library"
        /\ \A d \in Creators : d # c => create'[d] = create[d]
    BY <1>7, LoadLibraryDoes
  <2>2. ~Making(c) /\ ~Making(c)'  BY <2>1 DEF Making
  <2>3. bg.at # "Creating" => create'[Background].at = "None"  BY <1>1, <1>7, <2>1
  <2> QED BY <1>4, <2>1, <2>2, <2>3 DEF SameApps
<1>8. ASSUME NEW c \in Creators, Launch(c) PROVE Types' /\ AppInv'
  <2>1. /\ Types' /\ SameApps /\ bg' = bg /\ SameHist /\ create[c].at = "Launch" /\ create'[c].id = create[c].id
        /\ create'[c].at \in {"Record", "Fail"}
        /\ \A d \in Creators : d # c => create'[d] = create[d]
    BY <1>8, LaunchDoes
  <2>2. Making(c) /\ Making(c)'  BY <2>1 DEF Making
  <2>3. bg.at # "Creating" => create'[Background].at = "None"  BY <1>1, <2>1
  <2> QED BY <1>4, <2>1, <2>2, <2>3 DEF SameApps
<1>9. ASSUME NEW c \in Creators, RecordMain(c) PROVE Types' /\ AppInv'
  <2>1. /\ Types' /\ LastAppId' = LastAppId /\ bg' = bg /\ SameHist
        /\ create[c].at = "Record" /\ create'[c].at = "Publish" /\ create'[c].id = create[c].id
        /\ \A d \in Creators : d # c => create'[d] = create[d]
        /\ \A i \in AppSlots : /\ AppTable'[i].AppId = AppTable[i].AppId
                               /\ AppTable'[i].AppState = AppTable[i].AppState
                               /\ AppTable'[i].Request = AppTable[i].Request
                               /\ AppTable'[i].Timer = AppTable[i].Timer
    BY <1>9, RecordMainDoes
  <2>2. Making(c) /\ Making(c)'  BY <2>1 DEF Making
  <2>3. bg.at # "Creating" => create'[Background].at = "None"  BY <1>1, <2>1
  <2> QED BY <1>4, <2>1, <2>2, <2>3
<1>10. ASSUME NEW c \in Creators, Publish(c) PROVE Types' /\ AppInv'
  BY <1>10, PublishDoes, PublishKeepsApps
<1>11. ASSUME NEW c \in Creators, LibraryDone(c) PROVE Types' /\ AppInv'
  <2>1. /\ Types' /\ SameApps /\ bg' = bg /\ SameHist /\ create[c].at = "Library" /\ create'[c].at = "None"
        /\ \A d \in Creators : d # c => create'[d] = create[d]
    BY <1>11, LibraryDoneDoes
  <2>2. ~Making(c) /\ ~Making(c)'  BY <2>1 DEF Making
  <2>3. bg.at # "Creating" => create'[Background].at = "None"  BY <1>1, <2>1
  <2> QED BY <1>4, <2>1, <2>2, <2>3 DEF SameApps
<1>12. ASSUME NEW a \in AppIds, NEW req \in Commands, Ask(a, req) PROVE Types' /\ AppInv'
  BY <1>12, AskDoes, AskKeepsApps
<1>13. ASSUME RunAppTableScan PROVE Types' /\ AppInv'  BY <1>13, RunAppTableScanDoes, ScanKeepsApps
<1>14. ASSUME ProcessControlRequest PROVE Types' /\ AppInv'
  BY <1>14, ProcessControlRequestDoes, ProcessControlRequestKeepsApps
<1>15. ASSUME CleanUpApp PROVE Types' /\ AppInv'  BY <1>15, CleanUpAppKeepsApps, CleanUpAppDoes
<1>16. ASSUME NextTask \/ SweepTask \/ DeleteTask PROVE Types' /\ AppInv'
  <2>1. /\ Types' /\ SameApps /\ create' = create /\ SameHist
        /\ bg'.id = bg.id /\ bg'.req = bg.req /\ bg'.todo = bg.todo
        /\ bg.at \in {"Next", "Sweep", "Delete"} /\ bg'.at \in {"Next", "Sweep", "Delete", "Free"}
    BY <1>16, NextTaskDoes, SweepTaskDoes, DeleteTaskDoes
  <2>2. Cleaning /\ Cleaning'  BY <2>1 DEF Cleaning
  <2> QED BY <1>3, <2>1, <2>2 DEF SameApps
<1>17. ASSUME FreeRecords PROVE Types' /\ AppInv'  BY <1>17, FreeRecordsDoes, FreeRecordsKeepsApps
<1>18. ASSUME Restart PROVE Types' /\ AppInv'
  <2>1. /\ Types' /\ SameHist /\ bg.at = "Create" /\ bg'.at = "Creating" /\ bg'.todo = bg.todo
        /\ bg.name \in Names \cup {NoName} /\ AppCreate(Background, bg.name) /\ create[Background].at = "None"
    BY <1>1, <1>18, RestartDoes
  <2>2. PICK c \in Creators, n \in Names \cup {NoName} : c = Background /\ n = bg.name  BY <2>1
  <2>3. AppCreate(c, n) /\ create[c].at = "None"  BY <2>1, <2>2
  <2> QED BY <2>1, <2>3, AppCreateKeeps
<1>19. ASSUME RequestDone PROVE Types' /\ AppInv'  BY <1>19, RequestDoneDoes, RequestDoneKeepsApps
<1>20. ASSUME NEW t \in TaskIds,
              \/ Enter(t) \/ Return(t) \/ TaskExit(t) \/ CreateChildTask(t) \/ StartChild(t)
              \/ RecordChild(t) \/ ExitChildTask(t)
       PROVE  Types' /\ AppInv'
  <2>1. Types' /\ SameApps /\ bg' = bg /\ SameHist /\ create' = create
    BY <1>20, EnterDoes, ReturnDoes, CreateChildTaskDoes, StartChildDoes, RecordChildDoes, ExitChildTaskDoes
  <2> QED BY <1>2, <2>1 DEF SameApps
<1>21. ASSUME NEW t \in TaskIds, ExitApp(t) PROVE Types' /\ AppInv'
  BY <1>21, ExitAppDoes, ExitAppKeepsApps
<1>22. ASSUME NEW t \in TaskIds, NEW state \in {RUNNING, STOPPED}, Raise(t, state) PROVE Types' /\ AppInv'
  BY <1>22, RaiseDoes, RaiseKeepsApps
<1>23. ASSUME NEW t \in TaskIds, NEW u \in TaskIds, DeleteChildTask(t, u) PROVE Types' /\ AppInv'
  <2>1. Types' /\ SameApps /\ bg' = bg /\ SameHist /\ create' = create  BY <1>23, DeleteChildTaskDoes
  <2> QED BY <1>2, <2>1 DEF SameApps
<1>24. ASSUME Next PROVE Types' /\ AppInv'
  BY <1>24, <1>6, <1>7, <1>8, <1>9, <1>10, <1>11, <1>12, <1>13, <1>14, <1>15, <1>16, <1>17, <1>18, <1>19,
     <1>20, <1>21, <1>22, <1>23, Steps, Zenon
<1> QED BY <1>5, <1>24

(* An app is cleaned up only when its time is up, and started again only   *)
(* if the last request says so: what ProcessControlRequest reads without   *)
(* a lock held since the scan is still true when the app is cleaned up.    *)
THEOREM RequestsServed == Spec => []Served
<1>1. Init => Types /\ AppInv  BY TypesInit, AppsInit
<1>2. Types /\ AppInv /\ [Next]_vars => (Types /\ AppInv)'  BY AppsStep
<1>3. Types /\ AppInv => Served
  <2> SUFFICES ASSUME Types, AppInv PROVE Served  OBVIOUS
  <2>1. \A a \in bg.todo : IsMatch(a)  BY DEF AppInv, RequestInv, Due
  <2>2. bg.at = "List" => /\ IsMatch(bg.id)
                          /\ \/ AppTable[ToAppIndex(bg.id)].AppState = STOPPED
                             \/ told[bg.id] # "RUN" /\ waited[bg.id] > KillTimeout
    BY DEF AppInv, RequestInv, Due
  <2>3. bg.at \in {"List", "Next", "Sweep", "Delete", "Free", "Create"} =>
          (bg.req = "RESTART") = (told[bg.id] = "RESTART")
    BY DEF AppInv, RequestInv, Cleaning
  <2> QED BY <2>1, <2>2, <2>3 DEF Served
<1> QED BY <1>1, <1>2, <1>3, PTL DEF Spec

-----------------------------------------------------------------------------
(* Tasks *)

LEMMA NotPending ==
  ASSUME TaskInv, NEW t \in TaskIds
  PROVE  /\ Pending(t) => t <= LastTaskId /\ ~TaskIsMatch(t) /\ os[t].at \in {"Entry", "None"}
         /\ TaskIsMatch(t) \/ os[t].at \notin {"Entry", "None"} => ~Pending(t)
BY DEF TaskInv, PendingInv

LEMMA Matched ==
  ASSUME Types, RecordInv, NEW t \in TaskIds, TaskIsMatch(t)
  PROVE  ToTaskIndex(t) \in TaskSlots /\ TaskTable[ToTaskIndex(t)].TaskId = t /\ t <= LastTaskId
BY Selected DEF RecordInv, TaskIsMatch

(* Steps after which the records, tasks and starts are some of those there *)
(* were before: all but those that create a task or record one.            *)
Shrinks ==
  /\ LastTaskId' = LastTaskId
  /\ \A i \in TaskSlots : TaskTable'[i] = TaskTable[i] \/ TaskTable'[i].TaskId \notin TaskIds
  /\ \A t \in TaskIds :
       \/ os'[t] = os[t] \/ os'[t] = NoTask
       \/ /\ os[t].at # "None" /\ os'[t].at \notin {"None", "Record"}
          /\ os'[t].app = os[t].app /\ os'[t].creator = os[t].creator
          /\ TaskIsMatch(t) \/ os[t].at # "Entry"
          /\ os'[t].at = "Exiting" => ~TaskIsMatch(t)'
  /\ \A c \in Creators : create'[c].at = "Record" => create'[c] = create[c]
  /\ \A i \in AppSlots : AppTable'[i].MainTaskId = AppTable[i].MainTaskId \/ AppTable'[i].MainTaskId \notin TaskIds
  /\ \A i \in AppSlots : AppTable'[i].AppId \in AppIds =>
       \/ AppTable'[i].MainTaskId \notin TaskIds
       \/ AppTable'[i].AppId = AppTable[i].AppId
       \/ \E c \in Creators : Making(c) /\ AppTable'[i].AppId = create[c].id /\ i = ToAppIndex(create[c].id)
  /\ \A c \in Creators : Making(c)' =>
       \/ AppTable'[ToAppIndex(create'[c].id)].MainTaskId \notin TaskIds
       \/ Making(c) /\ create'[c].id = create[c].id
  /\ Deleting' => \A t \in bg'.tasks : t \in TaskIds /\ ~TaskIsMatch(t)' /\ (TaskIsMatch(t) \/ (Deleting /\ t \in bg.tasks))
  /\ bg'.at \in {"Sweep", "Delete"} => bg'.task \in bg'.tasks

LEMMA ShrinkKeepsTasks ==
  ASSUME Types, Types', IdsInv, TaskInv, Shrinks
  PROVE  TaskInv'
<1>1. RecordInv /\ PendingInv /\ MainInv  BY DEF TaskInv
<1>2. LastTaskId' = LastTaskId  BY DEF Shrinks
<1>3. ASSUME NEW t \in TaskIds, TaskIsMatch(t)'
      PROVE  TaskIsMatch(t) /\ AppOf(t)' = AppOf(t)
  BY <1>3, Selected DEF Shrinks, TaskIsMatch, AppOf
<1>4. ASSUME NEW t \in TaskIds
      PROVE  /\ os'[t].at # "None" => os[t].at # "None" /\ os'[t].app = os[t].app
             /\ os'[t].creator \in {0, os[t].creator}
             /\ os'[t].at # "None" => os'[t].creator = os[t].creator
             /\ os'[t].at = "None" => (os[t].at = "None" /\ os'[t] = os[t]) \/ os'[t] = NoTask
             /\ os'[t].at = "Record" => os'[t] = os[t]
             /\ os'[t].at = "Exiting" => os[t].at = "Exiting" \/ ~TaskIsMatch(t)'
             /\ os[t].at \in {"Entry", "None"} /\ ~TaskIsMatch(t) => os'[t].at \in {"Entry", "None"}
  BY NoTaskType DEF Shrinks
<1>5. ASSUME NEW t \in TaskIds
      PROVE  /\ \A c \in Creators : MainPending(c, t)' => MainPending(c, t)
             /\ \A u \in TaskIds : ChildPending(u, t)' => ChildPending(u, t)
             /\ Pending(t)' => Pending(t)
  <2>1. \A c \in Creators : MainPending(c, t)' => MainPending(c, t)  BY DEF Shrinks, MainPending
  <2>2. \A u \in TaskIds : ChildPending(u, t)' => ChildPending(u, t)  BY <1>4 DEF ChildPending
  <2> QED BY <2>1, <2>2 DEF Pending
<1>6. RecordInv'
  <2>1. \A i \in TaskSlots : TaskTable'[i].TaskId \in TaskIds =>
          ToTaskIndex(TaskTable'[i].TaskId) = i /\ TaskTable'[i].TaskId <= LastTaskId'
    BY <1>1, <1>2 DEF Shrinks, RecordInv
  <2>2. ASSUME NEW t \in TaskIds, os'[t].at # "None"
        PROVE  t <= LastTaskId' /\ (TaskIsMatch(t)' => AppOf(t)' = os'[t].app)
    BY <1>1, <1>2, <1>3, <1>4, <2>2 DEF RecordInv
  <2>3. \A t, u \in OsTasks' : ToTaskIndex(t) = ToTaskIndex(u) => t = u
    BY <1>1, <1>4 DEF RecordInv, OsTasks
  <2>4. ASSUME NEW t \in TaskIds
        PROVE  os'[t].creator <= LastTaskId' /\ (os'[t].at = "None" => os'[t].creator = 0)
    <3>1. 0 <= LastTaskId /\ os[t].creator <= LastTaskId  BY <1>1, IdTypes DEF RecordInv
    <3>2. os'[t].at = "None" => os'[t].creator = 0  BY <1>1, <1>4, NoTaskType DEF RecordInv
    <3> QED BY <1>2, <1>4, <3>1, <3>2
  <2>5. \A t \in TaskIds : os'[t].at = "Exiting" => ~TaskIsMatch(t)'
    BY <1>1, <1>3, <1>4 DEF RecordInv
  <2> QED BY <2>1, <2>2, <2>3, <2>4, <2>5 DEF RecordInv
<1>7. PendingInv'
  <2>1. ASSUME NEW t \in TaskIds, Pending(t)'
        PROVE  /\ t <= LastTaskId' /\ ~TaskIsMatch(t)' /\ os'[t].at \in {"Entry", "None"}
               /\ Deleting' => t \notin bg'.tasks
               /\ \A i \in AppSlots : AppTable'[i].MainTaskId # t
               /\ \A u \in OsTasks' : os'[u].creator # t
    <3>1. Pending(t)  BY <1>5, <2>1
    <3>2. /\ t <= LastTaskId /\ ~TaskIsMatch(t) /\ os[t].at \in {"Entry", "None"}
          /\ Deleting => t \notin bg.tasks
          /\ \A i \in AppSlots : AppTable[i].MainTaskId # t
          /\ \A u \in OsTasks : os[u].creator # t
      BY <1>1, <3>1 DEF PendingInv
    <3>3. Deleting' => t \notin bg'.tasks  BY <3>2 DEF Shrinks
    <3>4. \A i \in AppSlots : AppTable'[i].MainTaskId # t  BY <3>2 DEF Shrinks
    <3>5. \A u \in OsTasks' : os'[u].creator # t  BY <1>4, <3>2 DEF OsTasks
    <3> QED BY <1>2, <1>3, <1>4, <3>2, <3>3, <3>4, <3>5
  <2>2. \A c, d \in Creators, t \in TaskIds : MainPending(c, t)' /\ MainPending(d, t)' => c = d
    BY <1>1, <1>5 DEF PendingInv
  <2>3. \A c \in Creators, u, t \in TaskIds : ~(MainPending(c, t)' /\ ChildPending(u, t)')
    BY <1>1, <1>5 DEF PendingInv
  <2>4. \A u, v, t \in TaskIds : ChildPending(u, t)' /\ ChildPending(v, t)' => u = v
    BY <1>1, <1>5 DEF PendingInv
  <2>5. ASSUME NEW c \in Creators, create'[c].at = "Record"
        PROVE  /\ create'[c].task \in TaskIds
               /\ os'[create'[c].task].creator = 0
               /\ create'[c].task \in OsTasks' => os'[create'[c].task].app = create'[c].id
    <3>1. create'[c] = create[c] /\ create[c].at = "Record"  BY <2>5 DEF Shrinks
    <3>2. PICK t \in TaskIds : t = create[c].task  BY <1>1, <3>1 DEF PendingInv
    <3>3. os[t].creator = 0 /\ (t \in OsTasks => os[t].app = create[c].id)  BY <1>1, <3>1, <3>2 DEF PendingInv
    <3>4. os'[t].creator = 0 /\ (t \in OsTasks' => os'[t].app = create[c].id)  BY <1>4, <3>3 DEF OsTasks
    <3> QED BY <3>1, <3>2, <3>4
  <2>6. ASSUME NEW u \in TaskIds, os'[u].at = "Record"
        PROVE  /\ os'[u].child \in TaskIds
               /\ os'[u].child \in OsTasks' => os'[os'[u].child].creator = u /\ os'[os'[u].child].app = os'[u].app
    <3>1. os'[u] = os[u] /\ os[u].at = "Record"  BY <1>4, <2>6
    <3>2. PICK t \in TaskIds : t = os[u].child  BY <1>1, <3>1 DEF PendingInv
    <3>3. t \in OsTasks => os[t].creator = u /\ os[t].app = os[u].app  BY <1>1, <3>1, <3>2 DEF PendingInv
    <3>4. t \in OsTasks' => os'[t].creator = u /\ os'[t].app = os[u].app  BY <1>4, <3>3 DEF OsTasks
    <3> QED BY <3>1, <3>2, <3>4
  <2> QED BY <2>1, <2>2, <2>3, <2>4, <2>5, <2>6 DEF PendingInv
<1>8. MainInv'
  <2>1. ASSUME NEW i \in AppSlots, AppTable'[i].MainTaskId \in TaskIds
        PROVE  AppTable'[i].MainTaskId <= LastTaskId' /\ os'[AppTable'[i].MainTaskId].creator = 0
    <3>1. PICK t \in TaskIds : t = AppTable'[i].MainTaskId /\ t = AppTable[i].MainTaskId
      BY <2>1 DEF Shrinks
    <3>2. t <= LastTaskId /\ os[t].creator = 0  BY <1>1, <3>1 DEF MainInv
    <3> QED BY <1>2, <1>4, <3>1, <3>2
  <2>2. ASSUME NEW i \in AppSlots, AppTable'[i].AppId \in AppIds, NEW t \in TaskIds,
               t = AppTable'[i].MainTaskId, TaskIsMatch(t)'
        PROVE  AppOf(t)' = AppTable'[i].AppId
    <3>1. t = AppTable[i].MainTaskId /\ TaskIsMatch(t) /\ AppOf(t)' = AppOf(t)  BY <1>3, <2>2 DEF Shrinks
    <3>2. CASE AppTable'[i].AppId = AppTable[i].AppId  BY <1>1, <2>2, <3>1, <3>2 DEF MainInv
    <3>3. CASE \E c \in Creators : Making(c) /\ AppTable'[i].AppId = create[c].id /\ i = ToAppIndex(create[c].id)
      BY <1>1, <2>2, <3>1, <3>3 DEF MainInv
    <3> QED BY <2>2, <3>2, <3>3 DEF Shrinks
  <2>3. ASSUME NEW c \in Creators, Making(c)', NEW t \in TaskIds,
               t = AppTable'[ToAppIndex(create'[c].id)].MainTaskId, TaskIsMatch(t)'
        PROVE  AppOf(t)' = create'[c].id
    <3>1. Making(c) /\ create'[c].id = create[c].id /\ TaskIsMatch(t) /\ AppOf(t)' = AppOf(t)
      BY <1>3, <2>3 DEF Shrinks
    <3>2. t = AppTable[ToAppIndex(create[c].id)].MainTaskId  BY <2>3, <3>1, Selected DEF Shrinks
    <3> QED BY <1>1, <3>1, <3>2 DEF MainInv
  <2>4. Deleting' => \A t \in bg'.tasks : t <= LastTaskId' /\ ~TaskIsMatch(t)'
    BY <1>1, <1>2, Matched DEF Shrinks, MainInv
  <2>5. bg'.at \in {"Sweep", "Delete"} => bg'.task \in bg'.tasks  BY DEF Shrinks
  <2> QED BY <2>1, <2>2, <2>3, <2>4, <2>5 DEF MainInv
<1> QED BY <1>6, <1>7, <1>8 DEF TaskInv

(* A task is created: it is new to all there is.                           *)
LEMMA NewTask ==
  ASSUME Types, TaskInv, NEW t \in TaskIds, t > LastTaskId
  PROVE  /\ ~TaskIsMatch(t) /\ t \notin OsTasks /\ ~Pending(t)
         /\ Deleting => t \notin bg.tasks
         /\ \A i \in AppSlots : AppTable[i].MainTaskId # t
         /\ \A u \in TaskIds : os[u].creator # t
<1>1. LastTaskId \in Nat /\ t \in Nat /\ ~(t <= LastTaskId)  BY IdTypes
<1>2. ~TaskIsMatch(t)  BY <1>1, Matched DEF TaskInv
<1>3. t \notin OsTasks  BY <1>1 DEF TaskInv, RecordInv, OsTasks
<1>4. ~Pending(t)  BY <1>1, NotPending
<1>5. Deleting => t \notin bg.tasks  BY <1>1 DEF TaskInv, MainInv
<1>6. \A i \in AppSlots : AppTable[i].MainTaskId # t  BY <1>1 DEF TaskInv, MainInv
<1>7. \A u \in TaskIds : os[u].creator # t  BY <1>1 DEF TaskInv, RecordInv
<1> QED BY <1>2, <1>3, <1>4, <1>5, <1>6, <1>7

(* What is kept when a start, or a task, creates task t.                   *)
LEMMA CreationKeeps ==
  ASSUME Types, TaskInv, NEW t \in Openings, t > LastTaskId, LastTaskId' = t,
         AppTable' = AppTable, TaskTable' = TaskTable, bg' = bg,
         \A d \in Creators : Making(d)' => Making(d) /\ create'[d].id = create[d].id,
         os'[t].at = "Entry", os'[t].creator \in Nat, os'[t].creator <= LastTaskId,
         \A u \in TaskIds : u # t =>
           /\ os'[u].app = os[u].app /\ os'[u].creator = os[u].creator
           /\ os'[u].at = "None" <=> os[u].at = "None"
           /\ os'[u].at = "Exiting" => os[u].at = "Exiting"
           /\ os[u].at \in {"Entry", "None"} => os'[u].at = os[u].at,
         \A u \in TaskIds : Pending(u)' => (u = t \/ Pending(u)) /\ os'[t].creator # u
  PROVE  /\ RecordInv' /\ MainInv'
         /\ \A u \in TaskIds : Pending(u)' =>
              /\ u <= LastTaskId' /\ ~TaskIsMatch(u)' /\ os'[u].at \in {"Entry", "None"}
              /\ Deleting' => u \notin bg'.tasks
              /\ \A i \in AppSlots : AppTable'[i].MainTaskId # u
              /\ \A v \in OsTasks' : os'[v].creator # u
<1>1. RecordInv /\ PendingInv /\ MainInv  BY DEF TaskInv
<1>2. t \in TaskIds  BY DEF Openings
<1>3. /\ ~TaskIsMatch(t) /\ t \notin OsTasks /\ ~Pending(t)
      /\ Deleting => t \notin bg.tasks
      /\ \A i \in AppSlots : AppTable[i].MainTaskId # t
      /\ \A u \in TaskIds : os[u].creator # t
  BY <1>2, NewTask
<1>4. LastTaskId \in Nat /\ t \in Nat /\ \A u \in TaskIds : u \in Nat  BY <1>2, IdTypes
<1>5. \A u \in Nat : u <= LastTaskId => u <= LastTaskId'  BY <1>4
<1>6. \A u \in TaskIds : (TaskIsMatch(u)' <=> TaskIsMatch(u)) /\ AppOf(u)' = AppOf(u)
  BY DEF TaskIsMatch, AppOf
<1>7. t <= LastTaskId'  BY <1>4
<1>8. RecordInv'
  <2>1. \A i \in TaskSlots : TaskTable'[i].TaskId \in TaskIds =>
          ToTaskIndex(TaskTable'[i].TaskId) = i /\ TaskTable'[i].TaskId <= LastTaskId'
    <3> SUFFICES ASSUME NEW i \in TaskSlots, NEW u \in TaskIds, u = TaskTable[i].TaskId
                 PROVE  ToTaskIndex(u) = i /\ u <= LastTaskId'
      OBVIOUS
    <3>1. ToTaskIndex(u) = i /\ u <= LastTaskId  BY <1>1 DEF RecordInv
    <3> QED BY <1>4, <1>5, <3>1
  <2>2. ASSUME NEW u \in TaskIds, os'[u].at # "None"
        PROVE  u <= LastTaskId' /\ (TaskIsMatch(u)' => AppOf(u)' = os'[u].app)
    <3>1. CASE u = t  BY <1>3, <1>6, <1>7, <3>1
    <3>2. CASE u # t  BY <1>1, <1>4, <1>5, <1>6, <2>2, <3>2 DEF RecordInv
    <3> QED BY <3>1, <3>2
  <2>3. \A u, v \in OsTasks' : ToTaskIndex(u) = ToTaskIndex(v) => u = v
    BY <1>1 DEF RecordInv, OsTasks, Openings
  <2>4. ASSUME NEW u \in TaskIds
        PROVE  os'[u].creator <= LastTaskId' /\ (os'[u].at = "None" => os'[u].creator = 0)
    <3>1. CASE u = t  BY <1>5, <3>1
    <3>2. CASE u # t
      <4>1. os[u].creator <= LastTaskId /\ os[u].creator \in Nat
        BY <1>1, SlotTypes DEF RecordInv, Types, OsRec
      <4>2. os[u].creator <= LastTaskId'  BY <1>5, <4>1
      <4>3. os[u].at = "None" => os[u].creator = 0  BY <1>1 DEF RecordInv
      <4> QED BY <3>2, <4>2, <4>3
    <3> QED BY <3>1, <3>2
  <2>5. \A u \in TaskIds : os'[u].at = "Exiting" => ~TaskIsMatch(u)'
    BY <1>1, <1>6 DEF RecordInv
  <2> QED BY <2>1, <2>2, <2>3, <2>4, <2>5 DEF RecordInv
<1>9. ASSUME NEW u \in TaskIds, Pending(u)'
      PROVE  /\ u <= LastTaskId' /\ ~TaskIsMatch(u)' /\ os'[u].at \in {"Entry", "None"}
             /\ Deleting' => u \notin bg'.tasks
             /\ \A i \in AppSlots : AppTable'[i].MainTaskId # u
             /\ \A v \in OsTasks' : os'[v].creator # u
  <2>1. Deleting' <=> Deleting  BY DEF Deleting
  <2>2. os'[t].creator # u  BY <1>9
  <2>3. CASE u = t  BY <1>3, <1>6, <1>7, <2>1, <2>2, <2>3 DEF OsTasks
  <2>4. CASE u # t
    <3>1. Pending(u)  BY <1>9, <2>4
    <3>2. /\ u <= LastTaskId /\ ~TaskIsMatch(u) /\ os[u].at \in {"Entry", "None"}
          /\ Deleting => u \notin bg.tasks
          /\ \A i \in AppSlots : AppTable[i].MainTaskId # u
          /\ \A v \in OsTasks : os[v].creator # u
      BY <1>1, <3>1 DEF PendingInv
    <3>3. \A v \in OsTasks' : os'[v].creator # u  BY <2>2, <3>2 DEF OsTasks
    <3>4. u <= LastTaskId'  BY <1>4, <1>5, <3>2
    <3> QED BY <1>6, <2>1, <2>4, <3>2, <3>3, <3>4
  <2> QED BY <2>3, <2>4
<1>10. MainInv'
  <2>1. ASSUME NEW i \in AppSlots, AppTable'[i].MainTaskId \in TaskIds
        PROVE  AppTable'[i].MainTaskId <= LastTaskId' /\ os'[AppTable'[i].MainTaskId].creator = 0
    <3>1. PICK u \in TaskIds : u = AppTable[i].MainTaskId  BY <2>1
    <3>2. u <= LastTaskId /\ os[u].creator = 0 /\ u # t  BY <1>1, <1>3, <3>1 DEF MainInv
    <3>3. u <= LastTaskId'  BY <1>4, <1>5, <3>2
    <3> QED BY <3>1, <3>2, <3>3
  <2>2. ASSUME NEW i \in AppSlots, AppTable'[i].AppId \in AppIds, NEW u \in TaskIds,
               u = AppTable'[i].MainTaskId, TaskIsMatch(u)'
        PROVE  AppOf(u)' = AppTable'[i].AppId
    BY <1>1, <1>6, <2>2 DEF MainInv
  <2>3. ASSUME NEW d \in Creators, Making(d)', NEW u \in TaskIds,
               u = AppTable'[ToAppIndex(create'[d].id)].MainTaskId, TaskIsMatch(u)'
        PROVE  AppOf(u)' = create'[d].id
    BY <1>1, <1>6, <2>3 DEF MainInv
  <2>4. Deleting' => \A u \in bg'.tasks : u <= LastTaskId' /\ ~TaskIsMatch(u)'
    <3> SUFFICES ASSUME Deleting, NEW u \in bg.tasks PROVE u <= LastTaskId' /\ ~TaskIsMatch(u)'
      BY DEF Deleting
    <3>1. u \in TaskIds /\ u <= LastTaskId /\ ~TaskIsMatch(u)  BY <1>1 DEF MainInv, Types, BgRec
    <3>2. u <= LastTaskId'  BY <1>4, <1>5, <3>1
    <3> QED BY <1>6, <3>1, <3>2
  <2>5. bg'.at \in {"Sweep", "Delete"} => bg'.task \in bg'.tasks  BY <1>1 DEF MainInv
  <2> QED BY <2>1, <2>2, <2>3, <2>4, <2>5 DEF MainInv
<1> QED BY <1>8, <1>9, <1>10

LEMMA LaunchKeepsTasks ==
  ASSUME Types, IdsInv, TaskInv, NEW c \in Creators, Launch(c)
  PROVE  TaskInv'
<1>1. /\ Types' /\ AppTable' = AppTable /\ LastAppId' = LastAppId /\ TaskTable' = TaskTable /\ bg' = bg
      /\ create[c].at = "Launch" /\ create'[c].id = create[c].id
      /\ \A d \in Creators : d # c => create'[d] = create[d]
  BY LaunchDoes DEF SameApps, SameTasks
<1>2. RecordInv /\ PendingInv /\ MainInv  BY DEF TaskInv
<1>3. Making(c) /\ \A d \in Creators : Making(d)' => Making(d) /\ create'[d].id = create[d].id
  BY <1>1 DEF Making
<1>4. CASE create'[c].at = "Fail" /\ SameOs
  <2>1. /\ LastTaskId' = LastTaskId /\ os' = os
        /\ \A d \in Creators : create'[d].at = "Record" => create'[d] = create[d]
    BY <1>1, <1>4 DEF SameOs
  <2>2. Deleting' => \A t \in bg'.tasks : t \in TaskIds /\ ~TaskIsMatch(t)' /\ Deleting /\ t \in bg.tasks
    BY <1>1, <1>2 DEF Deleting, MainInv, TaskIsMatch, Types, BgRec
  <2>3. bg'.at \in {"Sweep", "Delete"} => bg'.task \in bg'.tasks  BY <1>1, <1>2 DEF MainInv
  <2>4. Shrinks  BY <1>1, <1>3, <2>1, <2>2, <2>3 DEF Shrinks
  <2> QED BY <1>1, <2>4, ShrinkKeepsTasks
<1>5. CASE \E t \in TaskIds :
             /\ create'[c].at = "Record" /\ create'[c].task = t
             /\ t \in Openings /\ t > LastTaskId /\ LastTaskId' = t
             /\ os'[t].at = "Entry" /\ os'[t].app = create[c].id /\ os'[t].creator = 0
             /\ \A u \in TaskIds : u # t => os'[u] = os[u]
  <2>1. PICK t \in TaskIds :
             /\ create'[c].at = "Record" /\ create'[c].task = t
             /\ t \in Openings /\ t > LastTaskId /\ LastTaskId' = t
             /\ os'[t].at = "Entry" /\ os'[t].app = create[c].id /\ os'[t].creator = 0
             /\ \A u \in TaskIds : u # t => os'[u] = os[u]
    BY <1>5
  <2>2. t \notin OsTasks /\ ~Pending(t)  BY <2>1, NewTask
  <2>3. ASSUME NEW u \in TaskIds
        PROVE  /\ u # t => \A d \in Creators : MainPending(d, u)' => MainPending(d, u)
               /\ \A d \in Creators : MainPending(d, t)' => d = c
               /\ \A v \in TaskIds : ChildPending(v, u)' => ChildPending(v, u) /\ u # t
               /\ u # t /\ Pending(u)' => Pending(u)
    <3>1. u # t => \A d \in Creators : MainPending(d, u)' => MainPending(d, u)
      BY <1>1, <2>1 DEF MainPending
    <3>2. \A d \in Creators : MainPending(d, t)' => d = c
      BY <1>1, <2>2 DEF MainPending, Pending
    <3>3. \A v \in TaskIds : ChildPending(v, u)' => ChildPending(v, u) /\ u # t
      BY <2>1, <2>2 DEF ChildPending, Pending
    <3> QED BY <3>1, <3>2, <3>3 DEF Pending
  <2>4. /\ RecordInv' /\ MainInv'
        /\ \A u \in TaskIds : Pending(u)' =>
             /\ u <= LastTaskId' /\ ~TaskIsMatch(u)' /\ os'[u].at \in {"Entry", "None"}
             /\ Deleting' => u \notin bg'.tasks
             /\ \A i \in AppSlots : AppTable'[i].MainTaskId # u
             /\ \A v \in OsTasks' : os'[v].creator # u
    <3>1. os'[t].creator \in Nat /\ os'[t].creator <= LastTaskId  BY <2>1, IdTypes
    <3>2. \A u \in TaskIds : Pending(u)' => (u = t \/ Pending(u)) /\ os'[t].creator # u
      BY <2>1, <2>3, IdTypes DEF TaskIds
    <3> QED BY <1>1, <1>3, <2>1, <3>1, <3>2, CreationKeeps
  <2>5. \A d, e \in Creators, u \in TaskIds : MainPending(d, u)' /\ MainPending(e, u)' => d = e
    BY <1>2, <2>3 DEF PendingInv
  <2>6. \A d \in Creators, v, u \in TaskIds : ~(MainPending(d, u)' /\ ChildPending(v, u)')
    BY <1>2, <2>3 DEF PendingInv
  <2>7. \A u, v, w \in TaskIds : ChildPending(u, w)' /\ ChildPending(v, w)' => u = v
    BY <1>2, <2>3 DEF PendingInv
  <2>8. ASSUME NEW d \in Creators, create'[d].at = "Record"
         PROVE  /\ create'[d].task \in TaskIds
                /\ os'[create'[d].task].creator = 0
                /\ create'[d].task \in OsTasks' => os'[create'[d].task].app = create'[d].id
    <3>1. CASE d = c  BY <1>1, <2>1, <3>1
    <3>2. CASE d # c
      <4>1. create'[d] = create[d]  BY <1>1, <3>2
      <4>2. PICK u \in TaskIds : u = create[d].task  BY <1>2, <2>8, <4>1 DEF PendingInv
      <4>3. Pending(u)  BY <2>8, <4>1, <4>2 DEF Pending, MainPending
      <4>4. os'[u] = os[u]  BY <2>1, <2>2, <4>3
      <4> QED BY <1>2, <2>8, <4>1, <4>2, <4>4 DEF PendingInv, OsTasks
    <3> QED BY <3>1, <3>2
  <2>9. ASSUME NEW v \in TaskIds, os'[v].at = "Record"
         PROVE  /\ os'[v].child \in TaskIds
                /\ os'[v].child \in OsTasks' => os'[os'[v].child].creator = v /\ os'[os'[v].child].app = os'[v].app
    <3>1. v # t /\ os'[v] = os[v]  BY <2>1, <2>9
    <3>2. PICK u \in TaskIds : u = os[v].child  BY <1>2, <2>9, <3>1 DEF PendingInv
    <3>3. Pending(u)  BY <2>9, <3>1, <3>2 DEF Pending, ChildPending
    <3>4. os'[u] = os[u]  BY <2>1, <2>2, <3>3
    <3> QED BY <1>2, <2>9, <3>1, <3>2, <3>4 DEF PendingInv, OsTasks
  <2>10. PendingInv'  BY <2>4, <2>5, <2>6, <2>7, <2>8, <2>9 DEF PendingInv
  <2> QED BY <2>4, <2>10 DEF TaskInv
<1> QED BY <1>4, <1>5, LaunchCreates

LEMMA StartChildKeepsTasks ==
  ASSUME Types, IdsInv, TaskInv, NEW p \in TaskIds, StartChild(p)
  PROVE  TaskInv'
<1>1. /\ Types' /\ AppTable' = AppTable /\ TaskTable' = TaskTable /\ bg' = bg /\ create' = create
      /\ os[p].at = "Start" /\ os'[p].app = os[p].app /\ os'[p].creator = os[p].creator
  BY StartChildDoes DEF SameApps, SameTasks
<1>2. RecordInv /\ PendingInv /\ MainInv  BY DEF TaskInv
<1>3. \A d \in Creators : (Making(d)' <=> Making(d)) /\ create'[d].id = create[d].id  BY <1>1 DEF Making
<1>4. CASE /\ LastTaskId' = LastTaskId /\ os'[p].at = "Run" /\ os'[p].child = os[p].child
           /\ \A v \in TaskIds : v # p => os'[v] = os[v]
  <2>1. Deleting' => \A t \in bg'.tasks : t \in TaskIds /\ ~TaskIsMatch(t)' /\ Deleting /\ t \in bg.tasks
    BY <1>1, <1>2 DEF Deleting, MainInv, TaskIsMatch, Types, BgRec
  <2>2. bg'.at \in {"Sweep", "Delete"} => bg'.task \in bg'.tasks  BY <1>1, <1>2 DEF MainInv
  <2>3. Shrinks  BY <1>1, <1>3, <1>4, <2>1, <2>2 DEF Shrinks
  <2> QED BY <1>1, <2>3, ShrinkKeepsTasks
<1>5. CASE \E t \in TaskIds :
             /\ t \in Openings /\ t > LastTaskId /\ LastTaskId' = t /\ t # p
             /\ os'[p].at = "Record" /\ os'[p].child = t
             /\ os'[t].at = "Entry" /\ os'[t].app = os[p].app /\ os'[t].creator = p
             /\ os'[t].child = 0
             /\ \A v \in TaskIds : v \notin {p, t} => os'[v] = os[v]
  <2>1. PICK t \in TaskIds :
             /\ t \in Openings /\ t > LastTaskId /\ LastTaskId' = t /\ t # p
             /\ os'[p].at = "Record" /\ os'[p].child = t
             /\ os'[t].at = "Entry" /\ os'[t].app = os[p].app /\ os'[t].creator = p
             /\ os'[t].child = 0
             /\ \A v \in TaskIds : v \notin {p, t} => os'[v] = os[v]
    BY <1>5
  <2>2. t \notin OsTasks /\ ~Pending(t)  BY <2>1, NewTask
  <2>3. ~Pending(p) /\ p \in OsTasks /\ p <= LastTaskId  BY <1>1, <1>2, NotPending DEF OsTasks, RecordInv
  <2>4. ASSUME NEW u \in TaskIds
        PROVE  /\ \A d \in Creators : MainPending(d, u)' => MainPending(d, u) /\ u # t
               /\ \A v \in TaskIds : ChildPending(v, u)' => (v = p /\ u = t) \/ (ChildPending(v, u) /\ u # t)
               /\ u # t /\ Pending(u)' => Pending(u)
    <3>1. \A d \in Creators : MainPending(d, u)' => MainPending(d, u) /\ u # t
      BY <1>1, <2>2 DEF MainPending, Pending
    <3>2. \A v \in TaskIds : ChildPending(v, u)' => (v = p /\ u = t) \/ (ChildPending(v, u) /\ u # t)
      BY <2>1, <2>2 DEF ChildPending, Pending
    <3> QED BY <3>1, <3>2 DEF Pending
  <2>5. /\ RecordInv' /\ MainInv'
        /\ \A u \in TaskIds : Pending(u)' =>
             /\ u <= LastTaskId' /\ ~TaskIsMatch(u)' /\ os'[u].at \in {"Entry", "None"}
             /\ Deleting' => u \notin bg'.tasks
             /\ \A i \in AppSlots : AppTable'[i].MainTaskId # u
             /\ \A v \in OsTasks' : os'[v].creator # u
    <3>1. os'[t].creator \in Nat /\ os'[t].creator <= LastTaskId  BY <2>1, <2>3, IdTypes
    <3>2. \A u \in TaskIds : Pending(u)' => (u = t \/ Pending(u)) /\ os'[t].creator # u
      BY <2>1, <2>3, <2>4
    <3>3. \A u \in TaskIds : u # t =>
           /\ os'[u].app = os[u].app /\ os'[u].creator = os[u].creator
           /\ os'[u].at = "None" <=> os[u].at = "None"
           /\ os'[u].at = "Exiting" => os[u].at = "Exiting"
           /\ os[u].at \in {"Entry", "None"} => os'[u].at = os[u].at
      BY <1>1, <2>1
    <3> QED BY <1>1, <1>3, <2>1, <3>1, <3>2, <3>3, CreationKeeps
  <2>6. \A d, e \in Creators, u \in TaskIds : MainPending(d, u)' /\ MainPending(e, u)' => d = e
    BY <1>2, <2>4 DEF PendingInv
  <2>7. \A d \in Creators, v, u \in TaskIds : ~(MainPending(d, u)' /\ ChildPending(v, u)')
    BY <1>2, <2>4 DEF PendingInv
  <2>8. \A u, v, w \in TaskIds : ChildPending(u, w)' /\ ChildPending(v, w)' => u = v
    BY <1>2, <2>4 DEF PendingInv
  <2>9. ASSUME NEW d \in Creators, create'[d].at = "Record"
        PROVE  /\ create'[d].task \in TaskIds
               /\ os'[create'[d].task].creator = 0
               /\ create'[d].task \in OsTasks' => os'[create'[d].task].app = create'[d].id
    <3>1. create[d].at = "Record" /\ create'[d] = create[d]  BY <1>1, <2>9
    <3>2. PICK u \in TaskIds : u = create[d].task  BY <1>2, <3>1 DEF PendingInv
    <3>3. Pending(u)  BY <3>1, <3>2 DEF Pending, MainPending
    <3>4. os'[u] = os[u]  BY <2>1, <2>2, <2>3, <3>3
    <3> QED BY <1>2, <3>1, <3>2, <3>4 DEF PendingInv, OsTasks
  <2>10. ASSUME NEW v \in TaskIds, os'[v].at = "Record"
         PROVE  /\ os'[v].child \in TaskIds
                /\ os'[v].child \in OsTasks' => os'[os'[v].child].creator = v /\ os'[os'[v].child].app = os'[v].app
    <3>1. CASE v = p  BY <1>1, <2>1, <3>1
    <3>2. CASE v # p
      <4>1. v # t /\ os'[v] = os[v]  BY <2>1, <2>10, <3>2
      <4>2. PICK u \in TaskIds : u = os[v].child  BY <1>2, <2>10, <4>1 DEF PendingInv
      <4>3. Pending(u)  BY <2>10, <4>1, <4>2 DEF Pending, ChildPending
      <4>4. os'[u] = os[u]  BY <2>1, <2>2, <2>3, <4>3
      <4> QED BY <1>2, <2>10, <4>1, <4>2, <4>4 DEF PendingInv, OsTasks
    <3> QED BY <3>1, <3>2
  <2>11. PendingInv'  BY <2>5, <2>6, <2>7, <2>8, <2>9, <2>10 DEF PendingInv
  <2> QED BY <2>5, <2>11 DEF TaskInv
<1> QED BY <1>4, <1>5, StartChildDoes

(* What is kept when the record of task t, of app a, is written.           *)
LEMMA RecordingKeeps ==
  ASSUME Types, TaskInv, NEW t \in TaskIds, NEW a \in AppIds, Pending(t), RecordTask(t, a),
         LastTaskId' = LastTaskId, bg' = bg, t \in OsTasks => os[t].app = a,
         \A i \in AppSlots : AppTable'[i].AppId = AppTable[i].AppId,
         \A i \in AppSlots :
           \/ AppTable'[i].MainTaskId = AppTable[i].MainTaskId
           \/ AppTable'[i].MainTaskId = t /\ os[t].creator = 0 /\ AppTable[i].AppId \notin AppIds,
         \A d \in Creators : Making(d)' =>
           /\ Making(d) /\ create'[d].id = create[d].id
           /\ AppTable'[ToAppIndex(create[d].id)].MainTaskId = t => a = create[d].id,
         \A u \in TaskIds :
           /\ os'[u].app = os[u].app /\ os'[u].creator = os[u].creator
           /\ os'[u].at = "None" <=> os[u].at = "None"
           /\ os'[u].at = "Exiting" => os[u].at = "Exiting"
           /\ os[u].at \in {"Entry", "None"} => os'[u].at = os[u].at,
         \A u \in TaskIds : Pending(u)' => Pending(u) /\ u # t
  PROVE  /\ RecordInv' /\ MainInv'
         /\ \A u \in TaskIds : Pending(u)' =>
              /\ u <= LastTaskId' /\ ~TaskIsMatch(u)' /\ os'[u].at \in {"Entry", "None"}
              /\ Deleting' => u \notin bg'.tasks
              /\ \A i \in AppSlots : AppTable'[i].MainTaskId # u
              /\ \A v \in OsTasks' : os'[v].creator # u
<1>1. RecordInv /\ PendingInv /\ MainInv  BY DEF TaskInv
<1>2. /\ t <= LastTaskId /\ ~TaskIsMatch(t) /\ os[t].at \in {"Entry", "None"}
      /\ Deleting => t \notin bg.tasks
      /\ \A i \in AppSlots : AppTable[i].MainTaskId # t
      /\ \A u \in OsTasks : os[u].creator # t
  BY <1>1 DEF PendingInv
<1>3. t \in 0..MaxTaskId  BY SlotTypes DEF TaskIds
<1>4. /\ ToTaskIndex(t) \in TaskSlots
      /\ TaskTable'[ToTaskIndex(t)].TaskId = t /\ TaskTable'[ToTaskIndex(t)].AppId = a
      /\ \A i \in TaskSlots : i # ToTaskIndex(t) => TaskTable'[i] = TaskTable[i]
  BY <1>3, RecordTaskDoes
<1>5. TaskIsMatch(t)' /\ AppOf(t)' = a  BY <1>4 DEF TaskIsMatch, AppOf
<1>6. ASSUME NEW u \in TaskIds, u # t, TaskIsMatch(u)'
      PROVE  TaskIsMatch(u) /\ AppOf(u)' = AppOf(u)
  BY <1>4, <1>6, Selected DEF TaskIsMatch, AppOf
<1>7. Deleting' <=> Deleting  BY DEF Deleting
<1>8. RecordInv'
  <2>1. \A i \in TaskSlots : TaskTable'[i].TaskId \in TaskIds =>
          ToTaskIndex(TaskTable'[i].TaskId) = i /\ TaskTable'[i].TaskId <= LastTaskId'
    BY <1>1, <1>2, <1>4 DEF RecordInv
  <2>2. ASSUME NEW u \in TaskIds, os'[u].at # "None"
        PROVE  u <= LastTaskId' /\ (TaskIsMatch(u)' => AppOf(u)' = os'[u].app)
    <3>1. CASE u = t  BY <1>2, <1>5, <2>2, <3>1 DEF OsTasks
    <3>2. CASE u # t  BY <1>1, <1>6, <2>2, <3>2 DEF RecordInv
    <3> QED BY <3>1, <3>2
  <2>3. \A u, v \in OsTasks' : ToTaskIndex(u) = ToTaskIndex(v) => u = v
    BY <1>1 DEF RecordInv, OsTasks
  <2>4. \A u \in TaskIds : os'[u].creator <= LastTaskId' /\ (os'[u].at = "None" => os'[u].creator = 0)
    BY <1>1 DEF RecordInv
  <2>5. \A u \in TaskIds : os'[u].at = "Exiting" => ~TaskIsMatch(u)'
    BY <1>1, <1>2, <1>6 DEF RecordInv
  <2> QED BY <2>1, <2>2, <2>3, <2>4, <2>5 DEF RecordInv
<1>9. ASSUME NEW u \in TaskIds, Pending(u)'
      PROVE  /\ u <= LastTaskId' /\ ~TaskIsMatch(u)' /\ os'[u].at \in {"Entry", "None"}
             /\ Deleting' => u \notin bg'.tasks
             /\ \A i \in AppSlots : AppTable'[i].MainTaskId # u
             /\ \A v \in OsTasks' : os'[v].creator # u
  <2>1. Pending(u) /\ u # t  BY <1>9
  <2>2. /\ u <= LastTaskId /\ ~TaskIsMatch(u) /\ os[u].at \in {"Entry", "None"}
        /\ Deleting => u \notin bg.tasks
        /\ \A i \in AppSlots : AppTable[i].MainTaskId # u
        /\ \A v \in OsTasks : os[v].creator # u
    BY <1>1, <2>1 DEF PendingInv
  <2>3. \A v \in OsTasks' : os'[v].creator # u  BY <2>2 DEF OsTasks
  <2>4. \A i \in AppSlots : AppTable'[i].MainTaskId # u  BY <2>1, <2>2
  <2> QED BY <1>6, <1>7, <2>1, <2>2, <2>3, <2>4
<1>10. MainInv'
  <2>1. ASSUME NEW i \in AppSlots, AppTable'[i].MainTaskId \in TaskIds
        PROVE  AppTable'[i].MainTaskId <= LastTaskId' /\ os'[AppTable'[i].MainTaskId].creator = 0
    BY <1>1, <1>2, <2>1 DEF MainInv
  <2>2. ASSUME NEW i \in AppSlots, AppTable'[i].AppId \in AppIds, NEW u \in TaskIds,
               u = AppTable'[i].MainTaskId, TaskIsMatch(u)'
        PROVE  AppOf(u)' = AppTable'[i].AppId
    <3>1. u = AppTable[i].MainTaskId /\ u # t  BY <1>2, <2>2
    <3> QED BY <1>1, <1>6, <2>2, <3>1 DEF MainInv
  <2>3. ASSUME NEW d \in Creators, Making(d)', NEW u \in TaskIds,
               u = AppTable'[ToAppIndex(create'[d].id)].MainTaskId, TaskIsMatch(u)'
        PROVE  AppOf(u)' = create'[d].id
    <3>1. /\ Making(d) /\ create'[d].id = create[d].id
          /\ AppTable'[ToAppIndex(create[d].id)].MainTaskId = t => a = create[d].id
      BY <2>3
    <3>2. CASE u = t  BY <1>5, <2>3, <3>1, <3>2
    <3>3. CASE u # t
      <4>1. u = AppTable[ToAppIndex(create[d].id)].MainTaskId  BY <2>3, <3>1, <3>3, Selected
      <4> QED BY <1>1, <1>6, <2>3, <3>1, <3>3, <4>1 DEF MainInv
    <3> QED BY <3>2, <3>3
  <2>4. Deleting' => \A u \in bg'.tasks : u <= LastTaskId' /\ ~TaskIsMatch(u)'
    BY <1>1, <1>2, <1>6, <1>7 DEF MainInv, Types, BgRec
  <2>5. bg'.at \in {"Sweep", "Delete"} => bg'.task \in bg'.tasks  BY <1>1 DEF MainInv
  <2> QED BY <2>1, <2>2, <2>3, <2>4, <2>5 DEF MainInv
<1> QED BY <1>8, <1>9, <1>10

LEMMA RecordMainKeepsTasks ==
  ASSUME Types, IdsInv, TaskInv, NEW c \in Creators, RecordMain(c)
  PROVE  TaskInv'
<1>1. /\ Types' /\ os' = os /\ LastTaskId' = LastTaskId /\ bg' = bg
      /\ create[c].at = "Record" /\ create'[c].at = "Publish" /\ create'[c].id = create[c].id
      /\ create[c].id \in AppIds
      /\ \A d \in Creators : d # c => create'[d] = create[d]
      /\ RecordTask(create[c].task, create[c].id)
      /\ AppTable'[ToAppIndex(create[c].id)].MainTaskId = create[c].task
      /\ \A i \in AppSlots : AppTable'[i].AppId = AppTable[i].AppId
      /\ \A i \in AppSlots : i # ToAppIndex(create[c].id) => AppTable'[i] = AppTable[i]
  BY RecordMainDoes DEF SameOs
<1>2. RecordInv /\ PendingInv /\ MainInv  BY DEF TaskInv
<1>3. PICK t \in TaskIds : t = create[c].task  BY <1>1, <1>2 DEF PendingInv
<1>4. PICK a \in AppIds : a = create[c].id  BY <1>1
<1>5. os[t].creator = 0 /\ (t \in OsTasks => os[t].app = a)  BY <1>1, <1>2, <1>3, <1>4 DEF PendingInv
<1>6. MainPending(c, t) /\ Pending(t)  BY <1>1, <1>3 DEF Pending, MainPending
<1>7. Making(c) /\ Making(c)' /\ \A d \in Creators : Making(d)' => Making(d) /\ create'[d].id = create[d].id
  BY <1>1 DEF Making
<1>8. AppTable[ToAppIndex(a)].AppId = RESERVED /\ RESERVED \notin AppIds
  BY <1>4, <1>7, SlotTypes DEF IdsInv, RESERVED, AppIds
<1>9. ASSUME NEW u \in TaskIds
      PROVE  /\ \A d \in Creators : MainPending(d, u)' => MainPending(d, u) /\ d # c
             /\ \A v \in TaskIds : ChildPending(v, u)' => ChildPending(v, u)
             /\ Pending(u)' => Pending(u) /\ u # t
  <2>1. \A d \in Creators : MainPending(d, u)' => MainPending(d, u) /\ d # c  BY <1>1 DEF MainPending
  <2>2. \A v \in TaskIds : ChildPending(v, u)' => ChildPending(v, u)  BY <1>1 DEF ChildPending
  <2>3. Pending(u)' => Pending(u)  BY <2>1, <2>2 DEF Pending
  <2>4. ~Pending(t)'
    <3>1. \A d \in Creators : ~MainPending(d, t)'
      <4> SUFFICES ASSUME NEW d \in Creators, MainPending(d, t)' PROVE FALSE  OBVIOUS
      <4>1. MainPending(d, t) /\ d # c  BY <1>1 DEF MainPending
      <4> QED BY <1>2, <1>6, <4>1 DEF PendingInv
    <3>2. \A v \in TaskIds : ~ChildPending(v, t)'
      BY <1>1, <1>2, <1>6 DEF PendingInv, ChildPending
    <3> QED BY <3>1, <3>2 DEF Pending
  <2> QED BY <2>1, <2>2, <2>3, <2>4
<1>10. /\ RecordInv' /\ MainInv'
       /\ \A u \in TaskIds : Pending(u)' =>
            /\ u <= LastTaskId' /\ ~TaskIsMatch(u)' /\ os'[u].at \in {"Entry", "None"}
            /\ Deleting' => u \notin bg'.tasks
            /\ \A i \in AppSlots : AppTable'[i].MainTaskId # u
            /\ \A v \in OsTasks' : os'[v].creator # u
  <2>1. RecordTask(t, a)  BY <1>1, <1>3, <1>4
  <2>2. \A i \in AppSlots :
           \/ AppTable'[i].MainTaskId = AppTable[i].MainTaskId
           \/ AppTable'[i].MainTaskId = t /\ os[t].creator = 0 /\ AppTable[i].AppId \notin AppIds
    BY <1>1, <1>3, <1>4, <1>5, <1>8
  <2>3. ASSUME NEW d \in Creators, Making(d)'
        PROVE  /\ Making(d) /\ create'[d].id = create[d].id
               /\ AppTable'[ToAppIndex(create[d].id)].MainTaskId = t => a = create[d].id
    <3>1. Making(d) /\ create'[d].id = create[d].id  BY <1>7, <2>3
    <3>2. CASE ToAppIndex(create[d].id) = ToAppIndex(create[c].id)
      BY <1>4, <1>7, <3>1, <3>2 DEF IdsInv
    <3>3. CASE ToAppIndex(create[d].id) # ToAppIndex(create[c].id)
      <4>1. AppTable'[ToAppIndex(create[d].id)] = AppTable[ToAppIndex(create[d].id)]
        BY <1>1, <3>3, Selected
      <4> QED BY <1>2, <1>6, <3>1, <4>1, Selected DEF PendingInv
    <3> QED BY <3>2, <3>3
  <2> QED BY <1>1, <1>5, <1>6, <1>9, <2>1, <2>2, <2>3, RecordingKeeps
<1>11. \A d, e \in Creators, u \in TaskIds : MainPending(d, u)' /\ MainPending(e, u)' => d = e
  BY <1>2, <1>9 DEF PendingInv
<1>12. \A d \in Creators, v, u \in TaskIds : ~(MainPending(d, u)' /\ ChildPending(v, u)')
  BY <1>2, <1>9 DEF PendingInv
<1>13. \A u, v, w \in TaskIds : ChildPending(u, w)' /\ ChildPending(v, w)' => u = v
  BY <1>2, <1>9 DEF PendingInv
<1>14. ASSUME NEW d \in Creators, create'[d].at = "Record"
       PROVE  /\ create'[d].task \in TaskIds
              /\ os'[create'[d].task].creator = 0
              /\ create'[d].task \in OsTasks' => os'[create'[d].task].app = create'[d].id
  <2>1. create'[d] = create[d]  BY <1>1, <1>14
  <2> QED BY <1>1, <1>2, <1>14, <2>1 DEF PendingInv, OsTasks
<1>15. \A u \in TaskIds : os'[u].at = "Record" =>
         /\ os'[u].child \in TaskIds
         /\ os'[u].child \in OsTasks' => os'[os'[u].child].creator = u /\ os'[os'[u].child].app = os'[u].app
  BY <1>1, <1>2 DEF PendingInv, OsTasks
<1>16. PendingInv'  BY <1>10, <1>11, <1>12, <1>13, <1>14, <1>15 DEF PendingInv
<1> QED BY <1>10, <1>16 DEF TaskInv

LEMMA RecordChildKeepsTasks ==
  ASSUME Types, IdsInv, TaskInv, NEW p \in TaskIds, RecordChild(p)
  PROVE  TaskInv'
<1>1. /\ Types' /\ AppTable' = AppTable /\ LastTaskId' = LastTaskId /\ create' = create /\ bg' = bg
      /\ os[p].at = "Record" /\ os[p].app \in AppIds /\ os[p].child \in 0..MaxTaskId
      /\ RecordTask(os[p].child, os[p].app)
      /\ os'[p].at = "Run" /\ os'[p].app = os[p].app /\ os'[p].creator = os[p].creator
      /\ \A u \in TaskIds : u # p => os'[u] = os[u]
  BY RecordChildDoes DEF SameApps
<1>2. RecordInv /\ PendingInv /\ MainInv  BY DEF TaskInv
<1>3. PICK t \in TaskIds : t = os[p].child  BY <1>1, <1>2 DEF PendingInv
<1>4. PICK a \in AppIds : a = os[p].app  BY <1>1
<1>5. t \in OsTasks => os[t].app = a  BY <1>1, <1>2, <1>3, <1>4 DEF PendingInv
<1>6. ChildPending(p, t) /\ Pending(t)  BY <1>1, <1>3 DEF Pending, ChildPending
<1>7. \A d \in Creators : Making(d)' <=> Making(d)  BY <1>1 DEF Making
<1>8. \A u \in TaskIds :
        /\ os'[u].app = os[u].app /\ os'[u].creator = os[u].creator
        /\ os'[u].at = "None" <=> os[u].at = "None"
        /\ os'[u].at = "Exiting" => os[u].at = "Exiting"
        /\ os[u].at \in {"Entry", "None"} => os'[u].at = os[u].at
        /\ os'[u].at = "Record" => u # p /\ os'[u] = os[u]
  BY <1>1
<1>9. ASSUME NEW u \in TaskIds
      PROVE  /\ \A d \in Creators : MainPending(d, u)' => MainPending(d, u)
             /\ \A v \in TaskIds : ChildPending(v, u)' => ChildPending(v, u) /\ v # p
             /\ Pending(u)' => Pending(u) /\ u # t
  <2>1. \A d \in Creators : MainPending(d, u)' => MainPending(d, u)  BY <1>1 DEF MainPending
  <2>2. \A v \in TaskIds : ChildPending(v, u)' => ChildPending(v, u) /\ v # p  BY <1>8 DEF ChildPending
  <2>3. Pending(u)' => Pending(u)  BY <2>1, <2>2 DEF Pending
  <2>4. ~Pending(t)'
    <3>1. \A d \in Creators : ~MainPending(d, t)'
      BY <1>1, <1>2, <1>6 DEF PendingInv, MainPending
    <3>2. \A v \in TaskIds : ~ChildPending(v, t)'
      <4> SUFFICES ASSUME NEW v \in TaskIds, ChildPending(v, t)' PROVE FALSE  OBVIOUS
      <4>1. ChildPending(v, t) /\ v # p  BY <1>8 DEF ChildPending
      <4> QED BY <1>2, <1>6, <4>1 DEF PendingInv
    <3> QED BY <3>1, <3>2 DEF Pending
  <2> QED BY <2>1, <2>2, <2>3, <2>4
<1>10. /\ RecordInv' /\ MainInv'
       /\ \A u \in TaskIds : Pending(u)' =>
            /\ u <= LastTaskId' /\ ~TaskIsMatch(u)' /\ os'[u].at \in {"Entry", "None"}
            /\ Deleting' => u \notin bg'.tasks
            /\ \A i \in AppSlots : AppTable'[i].MainTaskId # u
            /\ \A v \in OsTasks' : os'[v].creator # u
  <2>1. RecordTask(t, a)  BY <1>1, <1>3, <1>4
  <2>2. \A i \in AppSlots : AppTable[i].MainTaskId # t  BY <1>2, <1>6 DEF PendingInv
  <2>3. \A d \in Creators : AppTable'[ToAppIndex(create[d].id)].MainTaskId # t  BY <1>1, <2>2, Selected
  <2> QED BY <1>1, <1>5, <1>6, <1>7, <1>8, <1>9, <2>1, <2>2, <2>3, RecordingKeeps
<1>11. \A d, e \in Creators, u \in TaskIds : MainPending(d, u)' /\ MainPending(e, u)' => d = e
  BY <1>2, <1>9 DEF PendingInv
<1>12. \A d \in Creators, v, u \in TaskIds : ~(MainPending(d, u)' /\ ChildPending(v, u)')
  BY <1>2, <1>9 DEF PendingInv
<1>13. \A u, v, w \in TaskIds : ChildPending(u, w)' /\ ChildPending(v, w)' => u = v
  BY <1>2, <1>9 DEF PendingInv
<1>14. ASSUME NEW d \in Creators, create'[d].at = "Record"
       PROVE  /\ create'[d].task \in TaskIds
              /\ os'[create'[d].task].creator = 0
              /\ create'[d].task \in OsTasks' => os'[create'[d].task].app = create'[d].id
  <2>1. create[d].at = "Record" /\ create'[d] = create[d]  BY <1>1, <1>14
  <2> QED BY <1>2, <1>8, <2>1 DEF PendingInv, OsTasks
<1>15. ASSUME NEW u \in TaskIds, os'[u].at = "Record"
       PROVE  /\ os'[u].child \in TaskIds
              /\ os'[u].child \in OsTasks' => os'[os'[u].child].creator = u /\ os'[os'[u].child].app = os'[u].app
  <2>1. os[u].at = "Record" /\ os'[u] = os[u]  BY <1>8, <1>15
  <2>2. PICK v \in TaskIds : v = os[u].child  BY <1>2, <2>1 DEF PendingInv
  <2>3. v \in OsTasks => os[v].creator = u /\ os[v].app = os[u].app  BY <1>2, <2>1, <2>2 DEF PendingInv
  <2> QED BY <1>8, <2>1, <2>2, <2>3 DEF OsTasks
<1>16. PendingInv'  BY <1>10, <1>11, <1>12, <1>13, <1>14, <1>15 DEF PendingInv
<1> QED BY <1>10, <1>16 DEF TaskInv

(* The other steps only take away: first those that leave the starts, the  *)
(* places of the apps and the list of the clean up alone.                  *)
LEMMA FewerTasks ==
  ASSUME Types, Types', IdsInv, TaskInv, LastTaskId' = LastTaskId, create' = create,
         bg' = bg \/ ~Deleting',
         \A i \in AppSlots : /\ AppTable'[i].AppId = AppTable[i].AppId
                             /\ AppTable'[i].MainTaskId = AppTable[i].MainTaskId,
         \A i \in TaskSlots : TaskTable'[i] = TaskTable[i] \/ TaskTable'[i].TaskId \notin TaskIds,
         \A t \in TaskIds :
           \/ os'[t] = os[t] \/ os'[t] = NoTask
           \/ /\ os[t].at # "None" /\ os'[t].at \notin {"None", "Record"}
              /\ os'[t].app = os[t].app /\ os'[t].creator = os[t].creator
              /\ TaskIsMatch(t) \/ os[t].at # "Entry"
              /\ os'[t].at = "Exiting" => ~TaskIsMatch(t)'
  PROVE  TaskInv'
<1>1. MainInv  BY DEF TaskInv
<1>2. \A c \in Creators : Making(c)' <=> Making(c)  BY DEF Making
<1>3. \A t \in TaskIds : TaskIsMatch(t)' => TaskIsMatch(t)  BY Selected DEF TaskIsMatch
<1>4. Deleting' => \A t \in bg'.tasks : t \in TaskIds /\ ~TaskIsMatch(t)' /\ Deleting /\ t \in bg.tasks
  BY <1>1, <1>3 DEF Deleting, MainInv, Types, BgRec
<1>5. bg'.at \in {"Sweep", "Delete"} => bg'.task \in bg'.tasks  BY <1>1 DEF MainInv, Deleting
<1>6. Shrinks  BY <1>2, <1>4, <1>5 DEF Shrinks
<1> QED BY <1>6, ShrinkKeepsTasks

(* Then those of the start of an app or library.                           *)
LEMMA StartKeepsTasks ==
  ASSUME Types, Types', IdsInv, TaskInv, LastTaskId' = LastTaskId, os' = os, TaskTable' = TaskTable,
         bg' = bg \/ ~Deleting', NEW c \in Creators, create'[c].at # "Record",
         \A d \in Creators : d # c => create'[d] = create[d],
         \A i \in AppSlots :
           \/ AppTable'[i].MainTaskId \notin TaskIds
           \/ /\ AppTable'[i].MainTaskId = AppTable[i].MainTaskId
              /\ \/ AppTable'[i].AppId = AppTable[i].AppId
                 \/ Making(c) /\ AppTable'[i].AppId = create[c].id /\ i = ToAppIndex(create[c].id),
         Making(c)' => AppTable'[ToAppIndex(create'[c].id)].MainTaskId \notin TaskIds
  PROVE  TaskInv'
<1>1. MainInv  BY DEF TaskInv
<1>2. \A d \in Creators : d # c => (Making(d)' <=> Making(d)) /\ create'[d].id = create[d].id
  BY DEF Making
<1>3. \A t \in TaskIds : TaskIsMatch(t)' <=> TaskIsMatch(t)  BY DEF TaskIsMatch
<1>4. Deleting' => \A t \in bg'.tasks : t \in TaskIds /\ ~TaskIsMatch(t)' /\ Deleting /\ t \in bg.tasks
  BY <1>1, <1>3 DEF Deleting, MainInv, Types, BgRec
<1>5. bg'.at \in {"Sweep", "Delete"} => bg'.task \in bg'.tasks  BY <1>1 DEF MainInv, Deleting
<1>6. \A i \in AppSlots : AppTable'[i].AppId \in AppIds =>
       \/ AppTable'[i].MainTaskId \notin TaskIds
       \/ AppTable'[i].AppId = AppTable[i].AppId
       \/ \E d \in Creators : Making(d) /\ AppTable'[i].AppId = create[d].id /\ i = ToAppIndex(create[d].id)
  OBVIOUS
<1>7. \A d \in Creators : Making(d)' =>
       \/ AppTable'[ToAppIndex(create'[d].id)].MainTaskId \notin TaskIds
       \/ Making(d) /\ create'[d].id = create[d].id
  BY <1>2
<1>8. \A d \in Creators : create'[d].at = "Record" => create'[d] = create[d]  OBVIOUS
<1>9. Shrinks  BY <1>4, <1>5, <1>6, <1>7, <1>8 DEF Shrinks
<1> QED BY <1>9, ShrinkKeepsTasks

LEMMA AppCreateKeepsTasks ==
  ASSUME Types, Types', IdsInv, TaskInv, LastTaskId' = LastTaskId, os' = os, TaskTable' = TaskTable,
         bg' = bg \/ ~Deleting', NEW c \in Creators, NEW n \in Names \cup {NoName}, AppCreate(c, n)
  PROVE  TaskInv'
<1>1. PICK a \in AppIds :
           /\ AppTable'[ToAppIndex(a)].MainTaskId = UNDEFINED
           /\ \A i \in AppSlots : i # ToAppIndex(a) => AppTable'[i] = AppTable[i]
           /\ create'[c].at = "Launch" /\ create'[c].id = a
           /\ \A d \in Creators : d # c => create'[d] = create[d]
  BY AppCreateDoes
<1>2. UNDEFINED \notin TaskIds  BY RecordTypes
<1> QED BY <1>1, <1>2, StartKeepsTasks

LEMMA PublishKeepsTasks ==
  ASSUME Types, IdsInv, TaskInv, NEW c \in Creators, Publish(c)
  PROVE  TaskInv'
<1> PICK k : k = ToAppIndex(create[c].id)  OBVIOUS
<1>1. /\ Types' /\ LastTaskId' = LastTaskId /\ os' = os /\ TaskTable' = TaskTable /\ bg' = bg
      /\ create'[c].at = "None"
      /\ \A d \in Creators : d # c => create'[d] = create[d]
      /\ \A i \in AppSlots : i # k => AppTable'[i] = AppTable[i]
      /\ \/ /\ create[c].at = "Publish" /\ AppTable'[k].AppId = create[c].id
            /\ AppTable'[k].MainTaskId = AppTable[k].MainTaskId
         \/ AppTable'[k].MainTaskId = UNDEFINED
  BY PublishDoes DEF SameOs, SameTasks
<1>2. UNDEFINED \notin TaskIds  BY RecordTypes
<1>3. \A i \in AppSlots :
        \/ AppTable'[i].MainTaskId \notin TaskIds
        \/ /\ AppTable'[i].MainTaskId = AppTable[i].MainTaskId
           /\ \/ AppTable'[i].AppId = AppTable[i].AppId
              \/ Making(c) /\ AppTable'[i].AppId = create[c].id /\ i = ToAppIndex(create[c].id)
  BY <1>1, <1>2 DEF Making
<1>4. ~Making(c)'  BY <1>1 DEF Making
<1> QED BY <1>1, <1>3, <1>4, StartKeepsTasks

(* And those of the clean up.                                              *)
LEMMA CleanUpAppKeepsTasks ==
  ASSUME Types, IdsInv, TaskInv, bg.id \in AppIds, CleanUpApp
  PROVE  TaskInv'
<1>1. /\ Types' /\ os' = os /\ LastTaskId' = LastTaskId /\ create' = create
      /\ bg.at = "List" /\ bg'.at = "Next" /\ bg'.tasks = TasksOf(bg.id)
      /\ AppTable'[ToAppIndex(bg.id)].AppId = RESERVED
      /\ \A i \in AppSlots : AppTable'[i].MainTaskId = AppTable[i].MainTaskId
      /\ \A i \in AppSlots : i # ToAppIndex(bg.id) => AppTable'[i] = AppTable[i]
      /\ \A i \in TaskSlots : IF TaskTable[i].TaskId \in TasksOf(bg.id)
                              THEN TaskTable'[i].TaskId = RESERVED
                              ELSE TaskTable'[i] = TaskTable[i]
  BY CleanUpAppDoes DEF SameOs
<1>2. RESERVED \notin AppIds /\ RESERVED \notin TaskIds  BY SlotTypes DEF RESERVED, AppIds, TaskIds
<1>3. \A c \in Creators : Making(c)' <=> Making(c)  BY <1>1 DEF Making
<1>4. \A t \in bg'.tasks : t \in TaskIds /\ TaskIsMatch(t) /\ ~TaskIsMatch(t)'
  <2> SUFFICES ASSUME NEW t \in TasksOf(bg.id) PROVE t \in TaskIds /\ TaskIsMatch(t) /\ ~TaskIsMatch(t)'
    BY <1>1
  <2>1. t \in TaskIds /\ TaskTable[ToTaskIndex(t)].TaskId = t  BY DEF TasksOf, TaskIsMatch
  <2>2. TaskTable'[ToTaskIndex(t)].TaskId = RESERVED  BY <1>1, <2>1, Selected
  <2> QED BY <1>2, <2>1, <2>2 DEF TaskIsMatch
<1>5. \A i \in AppSlots : AppTable'[i].AppId \in AppIds => AppTable'[i].AppId = AppTable[i].AppId
  BY <1>1, <1>2
<1>6. \A i \in TaskSlots : TaskTable'[i] = TaskTable[i] \/ TaskTable'[i].TaskId \notin TaskIds
  BY <1>1, <1>2
<1>7. /\ LastTaskId' = LastTaskId /\ os' = os /\ create' = create /\ bg'.at \notin {"Sweep", "Delete"}
      /\ \A i \in AppSlots : AppTable'[i].MainTaskId = AppTable[i].MainTaskId
  BY <1>1
<1>8. \A c \in Creators : Making(c)' => Making(c) /\ create'[c].id = create[c].id  BY <1>3, <1>7
<1>9. Deleting' => \A t \in bg'.tasks : t \in TaskIds /\ ~TaskIsMatch(t)' /\ TaskIsMatch(t)  BY <1>4
<1>10. Shrinks  BY <1>5, <1>6, <1>7, <1>8, <1>9 DEF Shrinks
<1> QED BY <1>1, <1>10, ShrinkKeepsTasks

LEMMA DeletionKeepsTasks ==
  ASSUME Types, IdsInv, TaskInv, NextTask \/ SweepTask \/ DeleteTask
  PROVE  TaskInv'
<1>1. /\ Types' /\ AppTable' = AppTable /\ TaskTable' = TaskTable /\ LastTaskId' = LastTaskId
      /\ create' = create /\ Deleting /\ bg'.tasks \subseteq bg.tasks
      /\ \A t \in TaskIds : os'[t] = os[t] \/ os'[t] = NoTask
  BY NextTaskDoes, SweepTaskDoes, DeleteTaskDoes DEF SameApps, SameTasks, SameOs, Deleting
<1>2. MainInv  BY DEF TaskInv
<1>3. bg'.at \in {"Sweep", "Delete"} => bg'.task \in bg'.tasks
  BY <1>2, NextTaskDoes, SweepTaskDoes, DeleteTaskDoes DEF MainInv
<1>4. \A c \in Creators : Making(c)' <=> Making(c)  BY <1>1 DEF Making
<1>5. \A t \in bg'.tasks : t \in TaskIds /\ ~TaskIsMatch(t)' /\ Deleting /\ t \in bg.tasks
  BY <1>1, <1>2 DEF MainInv, TaskIsMatch, Types, BgRec
<1>6. Shrinks  BY <1>1, <1>3, <1>4, <1>5 DEF Shrinks
<1> QED BY <1>1, <1>6, ShrinkKeepsTasks

LEMMA FreeRecordsKeepsTasks ==
  ASSUME Types, IdsInv, TaskInv, FreeRecords
  PROVE  TaskInv'
<1>1. /\ Types' /\ os' = os /\ LastTaskId' = LastTaskId /\ create' = create /\ bg'.at = "Create"
      /\ AppTable'[ToAppIndex(bg.id)].AppId = UNDEFINED
      /\ AppTable'[ToAppIndex(bg.id)].MainTaskId = UNDEFINED
      /\ \A i \in AppSlots : i # ToAppIndex(bg.id) => AppTable'[i] = AppTable[i]
      /\ \A i \in TaskSlots : IF TaskTable[i].TaskId = RESERVED
                              THEN TaskTable'[i].TaskId = UNDEFINED
                              ELSE TaskTable'[i] = TaskTable[i]
  BY FreeRecordsDoes DEF SameOs
<1>2. UNDEFINED \notin AppIds /\ UNDEFINED \notin TaskIds  BY RecordTypes
<1>3. \A c \in Creators : (Making(c)' <=> Making(c)) /\ create'[c].id = create[c].id  BY <1>1 DEF Making
<1>4. ~Deleting' /\ bg'.at \notin {"Sweep", "Delete"}  BY <1>1 DEF Deleting
<1>5. \A i \in AppSlots : AppTable'[i].AppId \in AppIds => AppTable'[i].AppId = AppTable[i].AppId
  BY <1>1, <1>2
<1>6. \A i \in TaskSlots : TaskTable'[i] = TaskTable[i] \/ TaskTable'[i].TaskId \notin TaskIds
  BY <1>1, <1>2
<1>7. \A i \in AppSlots : AppTable'[i].MainTaskId = AppTable[i].MainTaskId \/ AppTable'[i].MainTaskId \notin TaskIds
  BY <1>1, <1>2
<1>8. Shrinks  BY <1>1, <1>3, <1>4, <1>5, <1>6, <1>7 DEF Shrinks
<1> QED BY <1>1, <1>8, ShrinkKeepsTasks

LEMMA TasksInit == Init => TaskInv
<1> SUFFICES ASSUME Init PROVE TaskInv  OBVIOUS
<1>1. /\ \A i \in AppSlots : AppTable[i] = FreeApp
      /\ \A i \in TaskSlots : TaskTable[i] = FreeTask
      /\ \A t \in TaskIds : os[t] = NoTask
      /\ \A c \in Creators : create[c].at = "None"
      /\ bg.at = "Scan" /\ LastTaskId = 0
  BY DEF Init, NoCreate, Creators, BgIdle
<1>2. /\ FreeApp.AppId \notin AppIds /\ FreeApp.MainTaskId \notin TaskIds /\ FreeTask.TaskId \notin TaskIds
      /\ NoTask.at = "None" /\ NoTask.creator = 0
  BY RecordTypes DEF FreeApp, FreeTask, NoTask
<1>3. ~Deleting /\ (\A c \in Creators : ~Making(c)) /\ OsTasks = {}
  BY <1>1, <1>2 DEF Deleting, Making, OsTasks
<1>4. /\ \A c \in Creators, t \in TaskIds : ~MainPending(c, t)
      /\ \A u, t \in TaskIds : ~ChildPending(u, t)
      /\ \A t \in TaskIds : ~Pending(t)
  BY <1>1, <1>2 DEF MainPending, ChildPending, Pending
<1>5. RecordInv  BY <1>1, <1>2, <1>3 DEF RecordInv
<1>6. PendingInv  BY <1>1, <1>2, <1>4 DEF PendingInv
<1>7. MainInv  BY <1>1, <1>2, <1>3 DEF MainInv
<1> QED BY <1>5, <1>6, <1>7 DEF TaskInv

LEMMA TasksStep ==
  ASSUME Types, Types', AppInv, TaskInv, [Next]_vars
  PROVE  TaskInv'
<1> IdsInv /\ Background \in Creators  BY DEF AppInv, Creators
<1>1. CASE UNCHANGED vars
  <2>1. /\ AppTable' = AppTable /\ TaskTable' = TaskTable /\ os' = os /\ LastTaskId' = LastTaskId
        /\ create' = create /\ bg' = bg
    BY <1>1 DEF vars, tables
  <2> QED BY <2>1, FewerTasks
<1>2. ASSUME NEW c \in Creators, NEW n \in Names, StartApp(c, n) PROVE TaskInv'
  <2>1. PICK m \in Names \cup {NoName} : m = n  OBVIOUS
  <2>2. AppCreate(c, m)  BY <1>2, <2>1 DEF StartApp
  <2>3. bg' = bg /\ TaskTable' = TaskTable /\ os' = os /\ LastTaskId' = LastTaskId
    BY <1>2, StartAppDoes DEF SameTasks, SameOs
  <2> QED BY <2>2, <2>3, AppCreateKeepsTasks
<1>3. ASSUME NEW c \in Creators, (\E n \in LibNames : LoadLibrary(c, n)) \/ LibraryDone(c) PROVE TaskInv'
  <2>1. /\ AppTable' = AppTable /\ bg' = bg /\ TaskTable' = TaskTable /\ os' = os /\ LastTaskId' = LastTaskId
        /\ create'[c].at \in {"None", "Library"}
        /\ \A d \in Creators : d # c => create'[d] = create[d]
    BY <1>3, LoadLibraryDoes, LibraryDoneDoes DEF SameApps, SameTasks, SameOs
  <2>2. ~Making(c)'  BY <2>1 DEF Making
  <2> QED BY <2>1, <2>2, StartKeepsTasks
<1>4. ASSUME NEW c \in Creators, Launch(c) \/ RecordMain(c) \/ Publish(c) PROVE TaskInv'
  BY <1>4, LaunchKeepsTasks, RecordMainKeepsTasks, PublishKeepsTasks
<1>5. ASSUME NEW a \in AppIds, NEW req \in Commands, Ask(a, req) PROVE TaskInv'
  <2>1. /\ bg' = bg /\ TaskTable' = TaskTable /\ os' = os /\ LastTaskId' = LastTaskId /\ create' = create
        /\ \A i \in AppSlots : /\ AppTable'[i].AppId = AppTable[i].AppId
                               /\ AppTable'[i].MainTaskId = AppTable[i].MainTaskId
    BY <1>5, AskDoes DEF SameTasks, SameOs
  <2> QED BY <2>1, FewerTasks
<1>6. ASSUME RunAppTableScan PROVE TaskInv'
  <2>1. /\ TaskTable' = TaskTable /\ os' = os /\ LastTaskId' = LastTaskId /\ create' = create
        /\ bg'.at \in {"Scan", "Read"}
        /\ \A i \in AppSlots : /\ AppTable'[i].AppId = AppTable[i].AppId
                               /\ AppTable'[i].MainTaskId = AppTable[i].MainTaskId
    BY <1>6, RunAppTableScanDoes DEF SameTasks, SameOs
  <2>2. ~Deleting'  BY <2>1 DEF Deleting
  <2> QED BY <2>1, <2>2, FewerTasks
<1>7. ASSUME ProcessControlRequest \/ RequestDone PROVE TaskInv'
  <2>1. /\ AppTable' = AppTable /\ TaskTable' = TaskTable /\ os' = os /\ LastTaskId' = LastTaskId
        /\ create' = create /\ bg'.at \in {"Scan", "List", "Read"}
    BY <1>7, ProcessControlRequestDoes, RequestDoneDoes DEF SameApps, SameTasks, SameOs
  <2>2. ~Deleting'  BY <2>1 DEF Deleting
  <2> QED BY <2>1, <2>2, FewerTasks
<1>8. ASSUME CleanUpApp PROVE TaskInv'
  <2>1. bg.at = "List"  BY <1>8 DEF CleanUpApp
  <2>2. bg.id \in AppIds  BY <2>1, IdTypes DEF IdsInv
  <2> QED BY <1>8, <2>2, CleanUpAppKeepsTasks
<1>9. ASSUME NextTask \/ SweepTask \/ DeleteTask \/ FreeRecords PROVE TaskInv'
  BY <1>9, DeletionKeepsTasks, FreeRecordsKeepsTasks
<1>10. ASSUME Restart PROVE TaskInv'
  <2>1. /\ TaskTable' = TaskTable /\ os' = os /\ LastTaskId' = LastTaskId /\ bg'.at = "Creating"
        /\ bg.name \in Names \cup {NoName} /\ AppCreate(Background, bg.name)
    BY <1>10, RestartDoes DEF SameTasks, SameOs
  <2>2. PICK c \in Creators, n \in Names \cup {NoName} : c = Background /\ n = bg.name  BY <2>1
  <2>3. AppCreate(c, n)  BY <2>1, <2>2
  <2>4. ~Deleting'  BY <2>1 DEF Deleting
  <2> QED BY <2>1, <2>3, <2>4, AppCreateKeepsTasks
<1>11. ASSUME NEW t \in TaskIds, Enter(t) \/ Return(t) \/ TaskExit(t) \/ CreateChildTask(t) PROVE TaskInv'
  <2>1. /\ AppTable' = AppTable /\ TaskTable' = TaskTable /\ LastTaskId' = LastTaskId /\ create' = create
        /\ bg' = bg /\ \A u \in TaskIds : u # t => os'[u] = os[u]
        /\ \/ os'[t] = NoTask
           \/ /\ os[t].at # "None" /\ os'[t].at \in {"Run", "Start"}
              /\ os'[t].app = os[t].app /\ os'[t].creator = os[t].creator
              /\ TaskIsMatch(t) \/ os[t].at # "Entry"
    BY <1>11, EnterDoes, ReturnDoes, CreateChildTaskDoes DEF SameApps, SameTasks
  <2> QED BY <2>1, FewerTasks
<1>12. ASSUME NEW t \in TaskIds, ExitApp(t) PROVE TaskInv'
  <2>1. /\ TaskTable' = TaskTable /\ LastTaskId' = LastTaskId /\ create' = create
        /\ bg' = bg /\ \A u \in TaskIds : u # t => os'[u] = os[u]
        /\ os[t].at = "Run" /\ os'[t].at = "Exited"
        /\ os'[t].app = os[t].app /\ os'[t].creator = os[t].creator
        /\ \A i \in AppSlots : /\ AppTable'[i].AppId = AppTable[i].AppId
                               /\ AppTable'[i].MainTaskId = AppTable[i].MainTaskId
    BY <1>12, ExitAppDoes DEF SameTasks
  <2> QED BY <2>1, FewerTasks
<1>13. ASSUME NEW t \in TaskIds, NEW state \in {RUNNING, STOPPED}, Raise(t, state) PROVE TaskInv'
  <2>1. /\ TaskTable' = TaskTable /\ os' = os /\ LastTaskId' = LastTaskId /\ create' = create /\ bg' = bg
        /\ \A i \in AppSlots : /\ AppTable'[i].AppId = AppTable[i].AppId
                               /\ AppTable'[i].MainTaskId = AppTable[i].MainTaskId
    BY <1>13, RaiseDoes DEF SameTasks, SameOs
  <2> QED BY <2>1, FewerTasks
<1>14. ASSUME NEW t \in TaskIds, StartChild(t) \/ RecordChild(t) PROVE TaskInv'
  BY <1>14, StartChildKeepsTasks, RecordChildKeepsTasks
<1>15. ASSUME NEW t \in TaskIds, NEW u \in TaskIds, DeleteChildTask(t, u) PROVE TaskInv'
  <2>1. /\ AppTable' = AppTable /\ LastTaskId' = LastTaskId /\ create' = create /\ bg' = bg
        /\ \A v \in TaskIds : os'[v] = os[v] \/ os'[v] = NoTask
        /\ FreeTaskRecord(u)
    BY <1>15, DeleteChildTaskDoes DEF SameApps
  <2>2. \A i \in TaskSlots : TaskTable'[i] = TaskTable[i] \/ TaskTable'[i].TaskId \notin TaskIds
    BY <2>1, FreeTaskRecordDoes, RecordTypes
  <2> QED BY <2>1, <2>2, FewerTasks
<1>16. ASSUME NEW t \in TaskIds, ExitChildTask(t) PROVE TaskInv'
  <2>1. /\ AppTable' = AppTable /\ LastTaskId' = LastTaskId /\ create' = create /\ bg' = bg
        /\ os[t].at = "Run" /\ os'[t].at = "Exiting" /\ os'[t].app = os[t].app
        /\ os'[t].creator = os[t].creator
        /\ \A u \in TaskIds : u # t => os'[u] = os[u]
        /\ FreeTaskRecord(t)
    BY <1>16, ExitChildTaskDoes DEF SameApps
  <2>2. /\ \A i \in TaskSlots : TaskTable'[i] = TaskTable[i] \/ TaskTable'[i].TaskId \notin TaskIds
        /\ TaskTable'[ToTaskIndex(t)].TaskId = UNDEFINED
    BY <2>1, FreeTaskRecordDoes, RecordTypes
  <2>3. ~TaskIsMatch(t)'  BY <2>2, RecordTypes DEF TaskIsMatch
  <2> QED BY <2>1, <2>2, <2>3, FewerTasks
<1>17. ASSUME Next PROVE TaskInv'
  BY <1>17, <1>2, <1>3, <1>4, <1>5, <1>6, <1>7, <1>8, <1>9, <1>10, <1>11, <1>12, <1>13, <1>14, <1>15, <1>16,
     Steps, Zenon
<1> QED BY <1>1, <1>17

-----------------------------------------------------------------------------
(* No step takes a main task that its app still knows *)

LEMMA MainTaskStays ==
  ASSUME Types, AppInv, TaskInv, Next, NEW i \in AppSlots, AppTable[i].AppId \in AppIds,
         NEW t \in OsTasks, t = AppTable[i].MainTaskId, InContext(t)
  PROVE  os'[t] # NoTask
<1>1. t \in TaskIds /\ os[t].at # "None" /\ NoTask.at = "None"  BY DEF OsTasks, NoTask
<1>2. RecordInv /\ MainInv /\ IdsInv  BY DEF TaskInv, AppInv
<1>3. TaskIsMatch(t) /\ os[t].at # "Exiting"  BY <1>1, <1>2 DEF RecordInv, InContext
<1>4. IsMain(t)
  <2>1. AppOf(t) = AppTable[i].AppId  BY <1>1, <1>2, <1>3 DEF MainInv
  <2>2. Slot(t) = i  BY <1>2, <2>1 DEF IdsInv, Slot
  <2> QED BY <2>2 DEF IsMain
<1>5. os[t].creator = 0 /\ (Deleting => t \notin bg.tasks)  BY <1>1, <1>2, <1>3 DEF MainInv
<1>6. ASSUME os' = os PROVE os'[t] # NoTask  BY <1>1, <1>6
<1>7. ASSUME NEW c \in Creators, Launch(c) PROVE os'[t] # NoTask
  BY <1>1, <1>7, LaunchCreates DEF SameOs
<1>8. ASSUME NEW u \in TaskIds, Enter(u) PROVE os'[t] # NoTask
  BY <1>1, <1>3, <1>8, EnterDoes
<1>9. ASSUME NEW u \in TaskIds, Return(u) \/ TaskExit(u) PROVE os'[t] # NoTask
  <2>1. u # t  BY <1>3, <1>4, <1>9 DEF Return, TaskExit
  <2> QED BY <1>1, <1>9, <2>1, ReturnDoes
<1>10. ASSUME NEW u \in TaskIds, ExitApp(u) \/ CreateChildTask(u) \/ RecordChild(u) \/ ExitChildTask(u)
       PROVE  os'[t] # NoTask
  BY <1>1, <1>10, ExitAppDoes, CreateChildTaskDoes, RecordChildDoes, ExitChildTaskDoes
<1>11. ASSUME NEW u \in TaskIds, StartChild(u) PROVE os'[t] # NoTask
  BY <1>1, <1>11, StartChildDoes
<1>12. ASSUME NEW u \in TaskIds, NEW v \in TaskIds, DeleteChildTask(u, v) PROVE os'[t] # NoTask
  <2>1. v \notin MainTasks /\ \A w \in TaskIds : w # v => os'[w] = os[w]  BY <1>12, DeleteChildTaskDoes
  <2>2. t \in MainTasks  BY RecordTypes DEF MainTasks, Used
  <2> QED BY <1>1, <2>1, <2>2
<1>13. ASSUME SweepTask PROVE os'[t] # NoTask
  <2>1. bg.at = "Sweep" /\ bg.task \in TaskIds
    BY <1>2, <1>13, SweepTaskDoes DEF MainInv, Types, BgRec
  <2>2. t \notin CreatedBy(bg.task)  BY <1>5, <2>1, SlotTypes DEF CreatedBy, TaskIds
  <2> QED BY <1>1, <1>13, <2>2, SweepTaskDoes
<1>14. ASSUME DeleteTask PROVE os'[t] # NoTask
  <2>1. bg.at = "Delete" /\ bg.task \in bg.tasks  BY <1>2, <1>14, DeleteTaskDoes DEF MainInv
  <2>2. t # bg.task  BY <1>5, <2>1 DEF Deleting
  <2> QED BY <1>1, <1>14, <2>2, DeleteTaskDoes
<1>15. ASSUME NEW c \in Creators,
              \/ \E n \in Names : StartApp(c, n)
              \/ \E n \in LibNames : LoadLibrary(c, n)
              \/ RecordMain(c) \/ Publish(c) \/ LibraryDone(c)
       PROVE  os'[t] # NoTask
  BY <1>6, <1>15 DEF StartApp, LoadLibrary, RecordMain, Publish, LibraryDone
<1>16. ASSUME \/ RunAppTableScan \/ ProcessControlRequest \/ CleanUpApp \/ NextTask
              \/ FreeRecords \/ Restart \/ RequestDone
              \/ \E a \in AppIds, req \in Commands : Ask(a, req)
              \/ \E u \in TaskIds, state \in {RUNNING, STOPPED} : Raise(u, state)
       PROVE  os'[t] # NoTask
  <2>1. os' = os
    BY <1>16 DEF RunAppTableScan, ProcessControlRequest, CleanUpApp, NextTask, FreeRecords, Restart,
                 RequestDone, Ask, Raise
  <2> QED BY <1>6, <2>1
<1> QED BY <1>7, <1>8, <1>9, <1>10, <1>11, <1>12, <1>13, <1>14, <1>15, <1>16, Steps, Zenon

(* A main task ends by its own doing or in the clean up of its app: what   *)
(* CFE_ES_DeleteChildTask, the sweep of CFE_ES_CleanupTaskResources and    *)
(* the reuse of the slots of the two tables do never hits that of an app   *)
(* that ES knows, whatever the interleaving of starts and clean ups.       *)
THEOREM MainTasksSafe == Spec => MainSafe
<1>1. Init => Types /\ AppInv /\ TaskInv  BY TypesInit, AppsInit, TasksInit
<1>2. Types /\ AppInv /\ TaskInv /\ [Next]_vars => (Types /\ AppInv /\ TaskInv)'  BY AppsStep, TasksStep
<1>3. Types /\ AppInv /\ TaskInv /\ [Next]_vars =>
        [\A i \in AppSlots : LET t == AppTable[i].MainTaskId
                             IN  AppTable[i].AppId \in AppIds /\ t \in OsTasks
                                   => os'[t] # NoTask \/ ~InContext(t)]_vars
  <2> SUFFICES ASSUME Types, AppInv, TaskInv, Next, NEW i \in AppSlots, AppTable[i].AppId \in AppIds,
                      AppTable[i].MainTaskId \in OsTasks, InContext(AppTable[i].MainTaskId)
               PROVE  os'[AppTable[i].MainTaskId] # NoTask
    OBVIOUS
  <2>1. PICK t \in OsTasks : t = AppTable[i].MainTaskId  OBVIOUS
  <2>2. InContext(t)  BY <2>1
  <2> QED BY <2>1, <2>2, MainTaskStays
<1> QED BY <1>1, <1>2, <1>3, PTL DEF Spec, MainSafe

-----------------------------------------------------------------------------
(* Prompt starts: tasks and their apps *)

(* An app is known until it is cleaned up, and a start that wrote the      *)
(* record of the main task makes the app known.                            *)
LEMMA AppsStay ==
  ASSUME Types, AppInv, Next
  PROVE  /\ \A a \in AppIds : IsMatch(a) => IsMatch(a)' \/ (bg.at = "List" /\ bg'.at = "Next")
         /\ \A c \in Creators : create[c].at = "Publish" =>
              \/ create'[c] = create[c]
              \/ AppTable'[ToAppIndex(create[c].id)].AppId = create[c].id
<1>1. IdsInv /\ RESERVED \notin AppIds /\ UNDEFINED \notin AppIds
  BY SlotTypes DEF AppInv, RESERVED, UNDEFINED, AppIds
<1> DEFINE Goal == /\ \A a \in AppIds : IsMatch(a) => IsMatch(a)' \/ (bg.at = "List" /\ bg'.at = "Next")
                   /\ \A c \in Creators : create[c].at = "Publish" =>
                        \/ create'[c] = create[c]
                        \/ AppTable'[ToAppIndex(create[c].id)].AppId = create[c].id
<1>2. ASSUME \A i \in AppSlots : AppTable'[i].AppId = AppTable[i].AppId
      PROVE  \A a \in AppIds : IsMatch(a) => IsMatch(a)'
  BY <1>2, Selected DEF IsMatch
<1>3. ASSUME NEW k \in AppSlots, AppTable[k].AppId \notin AppIds,
             \A i \in AppSlots : i # k => AppTable'[i] = AppTable[i]
      PROVE  \A a \in AppIds : IsMatch(a) => IsMatch(a)'
  BY <1>3, Selected DEF IsMatch
<1>4. ASSUME NEW c \in Creators, NEW n \in Names \cup {NoName}, AppCreate(c, n), create[c].at = "None"
      PROVE  Goal
  <2>1. PICK a \in AppIds :
             /\ AppTable[ToAppIndex(a)].AppId = UNDEFINED
             /\ \A i \in AppSlots : i # ToAppIndex(a) => AppTable'[i] = AppTable[i]
             /\ \A d \in Creators : d # c => create'[d] = create[d]
    BY <1>4, AppCreateDoes
  <2>2. ToAppIndex(a) \in AppSlots  BY Selected
  <2> QED BY <1>1, <1>3, <1>4, <2>1, <2>2
<1>5. ASSUME NEW c \in Creators, NEW n \in Names, StartApp(c, n) PROVE Goal
  <2>1. PICK m \in Names \cup {NoName} : m = n  OBVIOUS
  <2>2. AppCreate(c, m) /\ create[c].at = "None"  BY <1>5, <2>1 DEF StartApp
  <2> QED BY <1>4, <2>2
<1>6. ASSUME Restart PROVE Goal
  <2>1. PICK c \in Creators, n \in Names \cup {NoName} : c = Background /\ n = bg.name
    BY <1>6, RestartDoes
  <2>2. AppCreate(c, n) /\ create[c].at = "None"  BY <1>1, <1>6, <2>1, RestartDoes DEF IdsInv
  <2> QED BY <1>4, <2>2
<1>7. ASSUME NEW c \in Creators,
             (\E n \in LibNames : LoadLibrary(c, n)) \/ LibraryDone(c) \/ Launch(c) \/ RecordMain(c)
      PROVE  Goal
  <2>1. /\ \A i \in AppSlots : AppTable'[i].AppId = AppTable[i].AppId
        /\ create[c].at # "Publish" /\ \A d \in Creators : d # c => create'[d] = create[d]
    BY <1>7, LoadLibraryDoes, LibraryDoneDoes, LaunchDoes, RecordMainDoes DEF SameApps
  <2> QED BY <1>2, <2>1
<1>8. ASSUME NEW c \in Creators, Publish(c) PROVE Goal
  <2>1. Making(c)  BY <1>8 DEF Publish, Making
  <2>2. PICK k \in AppSlots : k = ToAppIndex(create[c].id)  BY Selected
  <2>3. /\ \A i \in AppSlots : i # k => AppTable'[i] = AppTable[i]
        /\ create[c].at = "Publish" => AppTable'[k].AppId = create[c].id
        /\ \A d \in Creators : d # c => create'[d] = create[d]
    BY <1>8, <2>2, PublishDoes
  <2>4. AppTable[k].AppId \notin AppIds  BY <1>1, <2>1, <2>2 DEF IdsInv
  <2> QED BY <1>3, <2>2, <2>3, <2>4
<1>9. ASSUME CleanUpApp PROVE Goal
  <2>1. bg.id \in AppIds  BY <1>1, <1>9, IdTypes DEF CleanUpApp, IdsInv
  <2>2. create' = create /\ \A i \in AppSlots : i # ToAppIndex(bg.id) => AppTable'[i] = AppTable[i]
    BY <1>9, <2>1, CleanUpAppDoes
  <2> QED BY <1>9, <2>1, <2>2, CleanUpAppDoes
<1>10. ASSUME FreeRecords PROVE Goal
  <2>1. PICK k \in AppSlots : k = ToAppIndex(bg.id)  BY Selected
  <2>2. create' = create /\ \A i \in AppSlots : i # k => AppTable'[i] = AppTable[i]
    BY <1>10, <2>1, FreeRecordsDoes
  <2>3. AppTable[k].AppId \notin AppIds  BY <1>1, <1>10, <2>1 DEF IdsInv, FreeRecords, Cleaning
  <2> QED BY <1>3, <2>2, <2>3
<1>11. ASSUME create' = create, \A i \in AppSlots : AppTable'[i].AppId = AppTable[i].AppId PROVE Goal
  BY <1>2, <1>11
<1>12. ASSUME NEW a \in AppIds, NEW req \in Commands, Ask(a, req) PROVE Goal
  BY <1>11, <1>12, AskDoes
<1>13. ASSUME RunAppTableScan \/ ProcessControlRequest \/ RequestDone \/ NextTask \/ SweepTask \/ DeleteTask
       PROVE  Goal
  BY <1>11, <1>13, RunAppTableScanDoes, ProcessControlRequestDoes, RequestDoneDoes, NextTaskDoes,
     SweepTaskDoes, DeleteTaskDoes DEF SameApps
<1>14. ASSUME NEW t \in TaskIds,
              \/ Enter(t) \/ ExitApp(t) \/ Return(t) \/ TaskExit(t)
              \/ CreateChildTask(t) \/ StartChild(t) \/ RecordChild(t) \/ ExitChildTask(t)
              \/ \E u \in TaskIds : DeleteChildTask(t, u)
              \/ \E state \in {RUNNING, STOPPED} : Raise(t, state)
       PROVE  Goal
  BY <1>11, <1>14, EnterDoes, ExitAppDoes, ReturnDoes, CreateChildTaskDoes, StartChildDoes, RecordChildDoes,
     ExitChildTaskDoes, DeleteChildTaskDoes, RaiseDoes DEF SameApps
<1> HIDE DEF Goal
<1>15. Goal
  BY <1>5, <1>6, <1>7, <1>8, <1>9, <1>10, <1>12, <1>13, <1>14, Steps, Zenon
<1> QED BY <1>15 DEF Goal

(* What a step must respect.                                               *)
LEMMA PromptFrame ==
  ASSUME Types, Types', TaskInv, PromptInv,
         \A a \in AppIds : IsMatch(a) => IsMatch(a)',
         \A c \in Creators : create[c].at = "Publish" =>
           \/ create'[c] = create[c]
           \/ AppTable'[ToAppIndex(create[c].id)].AppId = create[c].id,
         Deleting' => Deleting /\ bg'.id = bg.id /\ bg'.tasks \subseteq bg.tasks,
         \A t \in OsTasks' : Deleting /\ t \in bg.tasks => Deleting' /\ t \in bg'.tasks,
         \A t \in OsTasks' : TaskIsMatch(t) /\ os'[t].at # "Exiting" => TaskIsMatch(t)',
         \A t \in OsTasks' :
           \/ /\ t \in OsTasks /\ os'[t].app = os[t].app
              /\ os'[t].at \in Running => os[t].at \in Running \/ (TaskIsMatch(t) /\ IsMatch(os[t].app))
              /\ os'[t].at = "Entry" => os[t].at = "Entry"
              /\ Creating(t)' => Creating(t) \/ TaskIsMatch(t)
           \/ os'[t].at = "Entry" /\ ~TaskIsMatch(t)' /\ (Deleting => t \notin bg.tasks),
         \A t \in OsTasks' : os'[t].at = "Entry" /\ TaskIsMatch(t)' => TaskIsMatch(t) \/ Published(t)',
         \A t \in TaskIds : Pending(t)' => t \in OsTasks'
  PROVE  PromptInv'
<1>1. \A t \in OsTasks' : t \in TaskIds /\ os'[t].at # "None"  BY DEF OsTasks
<1>2. Running \subseteq {"Run", "Start", "Record", "Exited"}  BY DEF Running
<1>3. MainInv  BY DEF TaskInv
<1>4. ASSUME NEW t \in TaskIds, os'[t].at = "Entry", TaskIsMatch(t)'
      PROVE  Published(t)'
  <2>1. t \in OsTasks'  BY <1>4 DEF OsTasks
  <2>2. CASE Published(t)'  BY <2>2
  <2>3. CASE TaskIsMatch(t) /\ ~Published(t)'
    <3>1. t \in OsTasks /\ os'[t].app = os[t].app /\ os[t].at = "Entry"  BY <1>4, <2>1
    <3>2. Published(t)  BY <2>3, <3>1 DEF PromptInv
    <3>3. PICK a \in AppIds : a = os[t].app  BY <3>1 DEF Types
    <3>4. CASE IsMatch(a)  BY <3>1, <3>3, <3>4 DEF Published, IsMatch
    <3>5. CASE \E c \in Creators : create[c].at = "Publish" /\ create[c].task = t /\ create[c].id = a
      BY <3>1, <3>3, <3>5 DEF Published, IsMatch
    <3> QED BY <3>2, <3>3, <3>4, <3>5 DEF Published
  <2> QED BY <1>4, <2>1, <2>2, <2>3
<1>5. ASSUME NEW t \in TaskIds, os'[t].at \in Running
      PROVE  \/ TaskIsMatch(t)' /\ IsMatch(os[t].app)' 
             \/ Deleting' /\ os'[t].app = bg'.id /\ t \in bg'.tasks /\ ~Creating(t)'
  <2>1. t \in OsTasks' /\ os'[t].at \notin {"Entry", "Exiting"}  BY <1>2, <1>5 DEF OsTasks
  <2>2. /\ t \in OsTasks /\ os'[t].app = os[t].app
        /\ os[t].at \in Running \/ (TaskIsMatch(t) /\ IsMatch(os[t].app))
        /\ Creating(t)' => Creating(t) \/ TaskIsMatch(t)
    BY <1>5, <2>1
  <2>3. PICK a \in AppIds : a = os[t].app  BY <2>2 DEF Types, OsTasks
  <2>4. CASE TaskIsMatch(t) /\ IsMatch(a)
    BY <2>1, <2>2, <2>3, <2>4 DEF IsMatch
  <2>5. CASE Deleting /\ os[t].app = bg.id /\ t \in bg.tasks /\ ~Creating(t)
    <3>1. ~TaskIsMatch(t)  BY <1>3, <2>5 DEF MainInv
    <3> QED BY <2>1, <2>2, <2>5, <3>1
  <2> QED BY <2>2, <2>3, <2>4, <2>5 DEF PromptInv
<1>6. Deleting' => \A t \in bg'.tasks : t \in OsTasks' => os'[t].app = bg'.id
  BY DEF PromptInv
<1> QED BY <1>4, <1>5, <1>6 DEF PromptInv, IsMatch

LEMMA FewerPending ==
  ASSUME Types, \A c \in Creators : create'[c].at = "Record" => create'[c] = create[c],
         \A u \in TaskIds : os'[u].at = "Record" => os'[u] = os[u],
         NEW t \in TaskIds, Pending(t)'
  PROVE  Pending(t)
BY DEF Pending, MainPending, ChildPending

\* What the prompt start of an app, or creation of a task, is used for.
LEMMA PendingTask ==
  ASSUME Types, TaskInv, PromptInv, NEW t \in TaskIds, Pending(t)
  PROVE  InCreation(t) /\ os[t].at = "Entry" /\ ~TaskIsMatch(t) /\ (Deleting => t \notin bg.tasks)
<1>1. /\ ~TaskIsMatch(t) /\ os[t].at \in {"Entry", "None"} /\ (Deleting => t \notin bg.tasks)
      /\ t \in OsTasks
  BY DEF TaskInv, PendingInv, PromptInv
<1>2. CASE \E c \in Creators : MainPending(c, t)
  <2>1. DOMAIN create = Creators  BY DEF Types
  <2>2. PICK c \in Creators : create[c].task = t  BY <1>2 DEF MainPending
  <2> QED BY <1>1, <2>1, <2>2 DEF InCreation, OsTasks
<1>3. CASE \E u \in TaskIds : ChildPending(u, t)
  <2>1. PICK u \in TaskIds : os[u].at = "Record" /\ os[u].child = t  BY <1>3 DEF ChildPending
  <2>2. u \in OsTasks  BY <2>1 DEF OsTasks
  <2> QED BY <1>1, <2>1, <2>2 DEF InCreation, OsTasks
<1> QED BY <1>1, <1>2, <1>3 DEF Pending, OsTasks

LEMMA CleanUpAppKeepsPrompt ==
  ASSUME Types, TaskInv, PromptInv, Prompt, bg.id \in AppIds, IsMatch(bg.id), CleanUpApp
  PROVE  PromptInv'
<1>1. /\ os' = os /\ create' = create /\ bg.at = "List" /\ bg'.at = "Next" /\ bg'.id = bg.id
      /\ bg'.tasks = TasksOf(bg.id)
      /\ \A i \in AppSlots : i # ToAppIndex(bg.id) => AppTable'[i] = AppTable[i]
      /\ \A t \in OsTasks : os[t].app = bg.id => ~Creating(t)
  BY CleanUpAppDoes DEF SameOs
<1>2. \A i \in TaskSlots : IF TaskTable[i].TaskId \in TasksOf(bg.id)
                           THEN TaskTable'[i].TaskId = RESERVED
                           ELSE TaskTable'[i] = TaskTable[i]
  BY CleanUpAppDoes
<1>3. ~Deleting /\ Deleting'  BY <1>1 DEF Deleting
<1>4. RESERVED \notin TaskIds  BY SlotTypes DEF RESERVED, TaskIds
<1>5. ASSUME NEW t \in TaskIds
      PROVE  /\ TaskIsMatch(t)' => TaskIsMatch(t) /\ t \notin TasksOf(bg.id)
             /\ TaskIsMatch(t) /\ t \notin TasksOf(bg.id) => TaskIsMatch(t)'
  <2> PICK i \in TaskSlots : i = ToTaskIndex(t)  BY Selected
  <2>1. CASE TaskTable[i].TaskId \in TasksOf(bg.id)
    <3>1. TaskTable'[i].TaskId = RESERVED  BY <1>2, <2>1
    <3> QED BY <1>4, <2>1, <3>1 DEF TaskIsMatch
  <2>2. CASE TaskTable[i].TaskId \notin TasksOf(bg.id)
    <3>1. TaskTable'[i] = TaskTable[i]  BY <1>2, <2>2
    <3> QED BY <2>2, <3>1 DEF TaskIsMatch
  <2> QED BY <2>1, <2>2
<1>6. ASSUME NEW a \in AppIds, IsMatch(a), a # bg.id PROVE IsMatch(a)'
  BY <1>1, <1>6, Selected DEF IsMatch
<1>7. ASSUME NEW t \in TaskIds, os[t].at # "None", TaskIsMatch(t)
      PROVE  os[t].app \in AppIds /\ (os[t].app = bg.id <=> t \in TasksOf(bg.id))
  BY <1>7 DEF TaskInv, RecordInv, TasksOf, Types
<1>8. \A t \in TaskIds : Pending(t)' => t \in OsTasks'
  BY <1>1 DEF PromptInv, Pending, MainPending, ChildPending, OsTasks
<1>9. ASSUME NEW t \in TaskIds, os[t].at = "Entry", TaskIsMatch(t)' PROVE Published(t)'
  <2>1. TaskIsMatch(t) /\ os[t].app \in AppIds /\ os[t].app # bg.id  BY <1>5, <1>7, <1>9
  <2>2. Published(t)  BY <1>9, <2>1 DEF PromptInv
  <2> QED BY <1>1, <1>6, <2>1, <2>2 DEF Published, IsMatch
<1>10. ASSUME NEW t \in TaskIds, os[t].at \in Running
       PROVE  \/ TaskIsMatch(t)' /\ IsMatch(os[t].app)'
              \/ Deleting' /\ os'[t].app = bg'.id /\ t \in bg'.tasks /\ ~Creating(t)'
  <2>1. os[t].at # "None" /\ TaskIsMatch(t) /\ IsMatch(os[t].app)  BY <1>3, <1>10 DEF PromptInv, Running
  <2>2. CASE t \in TasksOf(bg.id)
    <3>1. os[t].app = bg.id /\ t \in OsTasks  BY <1>7, <2>1, <2>2 DEF OsTasks
    <3> QED BY <1>1, <1>3, <2>2, <3>1 DEF Creating
  <2>3. CASE t \notin TasksOf(bg.id)
    <3>1. os[t].app # bg.id /\ os[t].app \in AppIds  BY <1>7, <2>1, <2>3
    <3> QED BY <1>1, <1>5, <1>6, <2>1, <2>3, <3>1 DEF IsMatch
  <2> QED BY <2>2, <2>3
<1>11. \A t \in bg'.tasks : t \in OsTasks' => os'[t].app = bg'.id
  BY <1>1, <1>7 DEF TasksOf, OsTasks
<1> QED BY <1>1, <1>8, <1>9, <1>10, <1>11 DEF PromptInv, IsMatch

(* A task is created by a start, or by task p.                             *)
LEMMA CreationKeepsPrompt ==
  ASSUME Types, Types', TaskInv, PromptInv, NEW t \in Openings, t > LastTaskId,
         TaskTable' = TaskTable, bg' = bg, os'[t].at = "Entry",
         \A a \in AppIds : IsMatch(a) => IsMatch(a)',
         \A c \in Creators : create[c].at = "Publish" =>
           \/ create'[c] = create[c]
           \/ AppTable'[ToAppIndex(create[c].id)].AppId = create[c].id,
         \A u \in TaskIds : u # t =>
           \/ os'[u] = os[u]
           \/ os[u].at = "Start" /\ os'[u].at \in {"Run", "Record"} /\ os'[u].app = os[u].app,
         \A u \in TaskIds : Pending(u)' => u = t \/ Pending(u)
  PROVE  PromptInv'
<1>1. t \in TaskIds  BY DEF Openings
<1>2. ~TaskIsMatch(t) /\ (Deleting => t \notin bg.tasks)  BY <1>1, NewTask
<1>3. \A u \in TaskIds : TaskIsMatch(u)' <=> TaskIsMatch(u)  BY DEF TaskIsMatch
<1>4. Deleting' <=> Deleting  BY DEF Deleting
<1>5. ASSUME NEW u \in OsTasks'
      PROVE  \/ /\ u \in OsTasks /\ os'[u].app = os[u].app
                /\ os'[u].at \in Running => os[u].at \in Running \/ (TaskIsMatch(u) /\ IsMatch(os[u].app))
                /\ os'[u].at = "Entry" => os[u].at = "Entry"
                /\ Creating(u)' => Creating(u) \/ TaskIsMatch(u)
             \/ os'[u].at = "Entry" /\ ~TaskIsMatch(u)' /\ (Deleting => u \notin bg.tasks)
  <2>1. u \in TaskIds /\ os'[u].at # "None"  BY DEF OsTasks
  <2>2. CASE u = t  BY <1>1, <1>2, <1>3, <2>2
  <2>3. CASE u # t /\ os'[u] = os[u]  BY <2>1, <2>3 DEF OsTasks, Creating
  <2>4. CASE u # t /\ os[u].at = "Start" /\ os'[u].at \in {"Run", "Record"} /\ os'[u].app = os[u].app
    BY <2>1, <2>4 DEF OsTasks, Creating, Running
  <2> QED BY <2>1, <2>2, <2>3, <2>4
<1>6. \A u \in OsTasks' : u \in TaskIds  BY DEF OsTasks
<1>7. ASSUME NEW u \in TaskIds, Pending(u)' PROVE u \in OsTasks'
  <2>1. CASE u = t  BY <1>1, <2>1 DEF OsTasks
  <2>2. CASE u # t
    <3>1. u \in OsTasks /\ os[u].at = "Entry"  BY <1>7, <2>2, PendingTask DEF OsTasks
    <3> QED BY <2>2, <3>1 DEF OsTasks
  <2> QED BY <2>1, <2>2
<1> QED BY <1>3, <1>4, <1>5, <1>6, <1>7, PromptFrame

(* The record of task t is written.                                        *)
LEMMA RecordingKeepsPrompt ==
  ASSUME Types, Types', TaskInv, PromptInv, NEW t \in TaskIds, NEW a \in AppIds,
         Pending(t), RecordTask(t, a), bg' = bg,
         \A b \in AppIds : IsMatch(b) => IsMatch(b)',
         \A c \in Creators : create[c].at = "Publish" =>
           \/ create'[c] = create[c]
           \/ AppTable'[ToAppIndex(create[c].id)].AppId = create[c].id,
         \A u \in TaskIds :
           \/ os'[u] = os[u]
           \/ os[u].at = "Record" /\ os'[u].at = "Run" /\ os'[u].app = os[u].app,
         \A u \in TaskIds : Pending(u)' => Pending(u),
         Published(t)'
  PROVE  PromptInv'
<1>1. t \in OsTasks  BY PendingTask DEF OsTasks
<1>2. t \in 0..MaxTaskId  BY SlotTypes DEF TaskIds
<1>3. /\ ToTaskIndex(t) \in TaskSlots
      /\ TaskTable'[ToTaskIndex(t)].TaskId = t
      /\ \A i \in TaskSlots : i # ToTaskIndex(t) => TaskTable'[i] = TaskTable[i]
  BY <1>2, RecordTaskDoes
<1>4. ASSUME NEW u \in TaskIds, u # t, TaskIsMatch(u)' PROVE TaskIsMatch(u)
  BY <1>3, <1>4, Selected DEF TaskIsMatch
<1>5. ASSUME NEW u \in OsTasks, TaskIsMatch(u) PROVE TaskIsMatch(u)'
  <2>1. u \in TaskIds  BY DEF OsTasks
  <2>2. CASE ToTaskIndex(u) = ToTaskIndex(t)
    <3>1. u = t  BY <1>1, <2>2 DEF TaskInv, RecordInv
    <3> QED BY <1>3, <3>1 DEF TaskIsMatch
  <2>3. CASE ToTaskIndex(u) # ToTaskIndex(t)  BY <1>3, <1>5, <2>1, <2>3, Selected DEF TaskIsMatch
  <2> QED BY <2>2, <2>3
<1>6. \A u \in TaskIds : u \in OsTasks' <=> u \in OsTasks  BY DEF OsTasks
<1>7. \A u \in OsTasks' : u \in TaskIds /\ u \in OsTasks  BY <1>6 DEF OsTasks
<1>8. Deleting' <=> Deleting  BY DEF Deleting
<1>9. ASSUME NEW u \in OsTasks'
      PROVE  /\ u \in OsTasks /\ os'[u].app = os[u].app
             /\ os'[u].at \in Running => os[u].at \in Running \/ (TaskIsMatch(u) /\ IsMatch(os[u].app))
             /\ os'[u].at = "Entry" => os[u].at = "Entry"
             /\ Creating(u)' => Creating(u) \/ TaskIsMatch(u)
  BY <1>7 DEF Running, Creating
<1>10. \A u \in OsTasks' : os'[u].at = "Entry" /\ TaskIsMatch(u)' => TaskIsMatch(u) \/ Published(u)'
  <2> SUFFICES ASSUME NEW u \in OsTasks', TaskIsMatch(u)', ~TaskIsMatch(u) PROVE Published(u)'
    OBVIOUS
  <2>1. u = t  BY <1>4, <1>7
  <2> QED BY <2>1
<1>11. \A u \in TaskIds : Pending(u)' => u \in OsTasks'  BY <1>6 DEF PromptInv
<1>12. \A u \in OsTasks' : TaskIsMatch(u) => TaskIsMatch(u)'  BY <1>5, <1>7
<1> QED BY <1>8, <1>9, <1>10, <1>11, <1>12, PromptFrame

(* Nothing happens to tasks, and to the list of the clean up.              *)
LEMMA SameTasksPrompt ==
  ASSUME Types, Types', TaskInv, PromptInv, os' = os, bg' = bg \/ (~Deleting /\ ~Deleting'),
         \A a \in AppIds : IsMatch(a) => IsMatch(a)' \/ (bg.at = "List" /\ bg'.at = "Next"),
         \A c \in Creators : create[c].at = "Publish" =>
           \/ create'[c] = create[c]
           \/ AppTable'[ToAppIndex(create[c].id)].AppId = create[c].id,
         \A c \in Creators : create'[c].at = "Record" => create'[c] = create[c],
         \A t \in TaskIds : TaskIsMatch(t)' <=> TaskIsMatch(t)
  PROVE  PromptInv'
<1>1. ~(bg.at = "List" /\ bg'.at = "Next")  BY DEF Deleting
<1>2. \A t \in TaskIds : Pending(t)' => Pending(t)  BY FewerPending
<1>3. \A t \in OsTasks' : t \in TaskIds /\ t \in OsTasks  BY DEF OsTasks
<1>4. Deleting' => Deleting /\ bg' = bg  BY DEF Deleting
<1>5. Deleting => Deleting' /\ bg' = bg  BY DEF Deleting
<1>6. \A t \in TaskIds : Pending(t)' => t \in OsTasks'  BY <1>2 DEF PromptInv, OsTasks
<1>7. ASSUME NEW t \in OsTasks'
      PROVE  /\ t \in OsTasks /\ os'[t].app = os[t].app
             /\ os'[t].at \in Running => os[t].at \in Running \/ (TaskIsMatch(t) /\ IsMatch(os[t].app))
             /\ os'[t].at = "Entry" => os[t].at = "Entry"
             /\ Creating(t)' => Creating(t) \/ TaskIsMatch(t)
  BY <1>3 DEF Creating
<1>8. \A a \in AppIds : IsMatch(a) => IsMatch(a)'  BY <1>1
<1>9. /\ Deleting' => Deleting /\ bg'.id = bg.id /\ bg'.tasks \subseteq bg.tasks
      /\ \A t \in OsTasks' : Deleting /\ t \in bg.tasks => Deleting' /\ t \in bg'.tasks
      /\ \A t \in OsTasks' : TaskIsMatch(t) => TaskIsMatch(t)'
      /\ \A t \in OsTasks' : TaskIsMatch(t)' => TaskIsMatch(t)
  BY <1>3, <1>4, <1>5
<1> QED BY <1>6, <1>7, <1>8, <1>9, PromptFrame

(* A task moves on, or ends; a record may be freed with it.                *)
LEMMA MoveKeepsPrompt ==
  ASSUME Types, Types', TaskInv, PromptInv, NEW t \in TaskIds,
         \A a \in AppIds : IsMatch(a) => IsMatch(a)', create' = create, bg' = bg,
         \A u \in TaskIds : u # t => os'[u] = os[u],
         \/ TaskTable' = TaskTable
         \/ FreeTaskRecord(t) /\ TaskIsMatch(t) /\ os'[t].at \in {"None", "Exiting"},
         \/ os'[t].at \in {"None", "Exiting"}
         \/ /\ os[t].at # "None" /\ os'[t].app = os[t].app /\ os'[t].at # "Entry"
            /\ os'[t].at \in Running => os[t].at \in Running \/ (TaskIsMatch(t) /\ IsMatch(os[t].app))
            /\ Creating(t)' => TaskIsMatch(t)
            /\ os'[t].at # "Record",
         os'[t].at \notin {"Record", "Entry"} /\ ~Pending(t),
         os'[t].at = "Exiting" => os[t].at # "None" /\ os'[t].app = os[t].app
  PROVE  PromptInv'
<1>1. \A u \in TaskIds : Pending(u)' => Pending(u) /\ u # t  BY FewerPending
<1>2. \A u \in OsTasks' : u \in TaskIds /\ u \in OsTasks  BY DEF OsTasks
<1>3. \A u \in TaskIds : Pending(u)' => u \in OsTasks'  BY <1>1 DEF PromptInv, OsTasks
<1>4. ASSUME NEW u \in OsTasks'
      PROVE  /\ u \in OsTasks /\ os'[u].app = os[u].app
             /\ os'[u].at \in Running => os[u].at \in Running \/ (TaskIsMatch(u) /\ IsMatch(os[u].app))
             /\ os'[u].at = "Entry" => os[u].at = "Entry"
             /\ Creating(u)' => Creating(u) \/ TaskIsMatch(u)
  <2>1. CASE u = t
    <3>1. os'[t].at # "None"  BY <2>1 DEF OsTasks
    <3> QED BY <1>2, <2>1, <3>1 DEF Running, Creating
  <2>2. CASE u # t  BY <1>2, <2>2 DEF Creating
  <2> QED BY <2>1, <2>2
<1>5. ASSUME NEW u \in OsTasks'
      PROVE  /\ TaskIsMatch(u) /\ os'[u].at # "Exiting" => TaskIsMatch(u)'
             /\ TaskIsMatch(u)' => TaskIsMatch(u)
  <2>1. CASE TaskTable' = TaskTable  BY <2>1 DEF TaskIsMatch
  <2>2. CASE FreeTaskRecord(t) /\ TaskIsMatch(t) /\ os'[t].at \in {"None", "Exiting"}
    <3>1. /\ TaskTable'[ToTaskIndex(t)].TaskId = UNDEFINED
          /\ \A i \in TaskSlots : i # ToTaskIndex(t) => TaskTable'[i] = TaskTable[i]
      BY <2>2, FreeTaskRecordDoes
    <3>2. u \in TaskIds /\ os'[u].at # "None" /\ UNDEFINED \notin TaskIds  BY RecordTypes DEF OsTasks
    <3>3. CASE ToTaskIndex(u) = ToTaskIndex(t)  BY <2>2, <3>1, <3>2, <3>3 DEF TaskIsMatch
    <3>4. CASE ToTaskIndex(u) # ToTaskIndex(t)  BY <3>1, <3>2, <3>4, Selected DEF TaskIsMatch
    <3> QED BY <3>3, <3>4
  <2> QED BY <2>1, <2>2
<1>6. Deleting' <=> Deleting  BY DEF Deleting
<1> QED BY <1>3, <1>4, <1>5, <1>6, PromptFrame

(* The clean up deletes tasks: none that is still being created.           *)
LEMMA DeletionKeepsPrompt ==
  ASSUME Types, TaskInv, PromptInv, NextTask \/ SweepTask \/ DeleteTask
  PROVE  PromptInv'
<1>1. /\ Types' /\ AppTable' = AppTable /\ TaskTable' = TaskTable /\ create' = create
      /\ Deleting /\ bg'.id = bg.id /\ bg'.tasks \subseteq bg.tasks
      /\ \A t \in TaskIds : os'[t] = os[t] \/ os'[t] = NoTask
  BY NextTaskDoes, SweepTaskDoes, DeleteTaskDoes DEF SameApps, SameTasks, SameOs, Deleting
<1>2. PendingInv /\ MainInv  BY DEF TaskInv
<1>3. NoTask.at = "None"  BY DEF NoTask
<1>4. \A t \in OsTasks' : t \in TaskIds /\ t \in OsTasks /\ os'[t] = os[t]  BY <1>1, <1>3 DEF OsTasks
<1>5. \A t \in OsTasks' : t \in bg.tasks => Deleting' /\ t \in bg'.tasks
  <2>1. CASE NextTask  BY <2>1, NextTaskDoes DEF Deleting
  <2>2. CASE SweepTask  BY <2>2, SweepTaskDoes DEF Deleting
  <2>3. CASE DeleteTask
    <3>1. bg'.tasks = bg.tasks \ {bg.task} /\ bg'.at = "Next"  BY <2>3, DeleteTaskDoes
    <3>2. \A t \in OsTasks' : t # bg.task  BY <1>3, <1>4, <2>3, DeleteTaskDoes DEF OsTasks
    <3> QED BY <3>1, <3>2 DEF Deleting
  <2> QED BY <2>1, <2>2, <2>3
<1>6. ASSUME NEW t \in TaskIds, Pending(t) PROVE t \in OsTasks'
  <2>1. os[t].at = "Entry" /\ t \notin bg.tasks  BY <1>1, <1>6, PendingTask
  <2>2. CASE NextTask  BY <2>1, <2>2, NextTaskDoes DEF SameOs, OsTasks
  <2>3. CASE SweepTask
    <3>1. bg.at = "Sweep" /\ bg.task \in bg.tasks /\ bg.task \in TaskIds
      BY <1>2, <2>3, SweepTaskDoes DEF MainInv, Types, BgRec
    <3>2. os[t].creator # bg.task
      <4>1. CASE \E c \in Creators : MainPending(c, t)
        <5>1. os[t].creator = 0  BY <1>2, <4>1 DEF PendingInv, MainPending
        <5> QED BY <3>1, <5>1, SlotTypes DEF TaskIds
      <4>2. CASE \E v \in TaskIds : ChildPending(v, t)
        <5>1. PICK v \in TaskIds : os[v].at = "Record" /\ os[v].child = t  BY <4>2 DEF ChildPending
        <5>2. os[t].creator = v  BY <1>2, <2>1, <5>1 DEF PendingInv, OsTasks
        <5>3. TaskIsMatch(v)  BY <5>1 DEF PromptInv, Running, Creating
        <5>4. v # bg.task  BY <1>1, <1>2, <3>1, <5>3 DEF MainInv
        <5> QED BY <5>2, <5>4
      <4> QED BY <1>6, <4>1, <4>2 DEF Pending
    <3>3. t \notin CreatedBy(bg.task)  BY <3>2 DEF CreatedBy
    <3> QED BY <2>1, <2>3, <3>3, SweepTaskDoes DEF OsTasks
  <2>4. CASE DeleteTask
    <3>1. bg.at = "Delete" /\ bg.task \in bg.tasks  BY <1>2, <2>4, DeleteTaskDoes DEF MainInv
    <3> QED BY <2>1, <2>4, <3>1, DeleteTaskDoes DEF OsTasks
  <2> QED BY <2>2, <2>3, <2>4
<1>7. \A t \in TaskIds : Pending(t)' => t \in OsTasks'
  <2>1. \A t \in TaskIds : os'[t].at = "Record" => os'[t] = os[t]  BY <1>1, <1>3
  <2> QED BY <1>1, <1>6, <2>1, FewerPending
<1>8. \A a \in AppIds : IsMatch(a) => IsMatch(a)'  BY <1>1 DEF IsMatch
<1>9. \A t \in TaskIds : TaskIsMatch(t)' <=> TaskIsMatch(t)  BY <1>1 DEF TaskIsMatch
<1>10. ASSUME NEW t \in OsTasks'
       PROVE  /\ t \in OsTasks /\ os'[t].app = os[t].app
              /\ os'[t].at \in Running => os[t].at \in Running \/ (TaskIsMatch(t) /\ IsMatch(os[t].app))
              /\ os'[t].at = "Entry" => os[t].at = "Entry"
              /\ Creating(t)' => Creating(t) \/ TaskIsMatch(t)
  BY <1>4 DEF Creating
<1>11. /\ Deleting' => Deleting /\ bg'.id = bg.id /\ bg'.tasks \subseteq bg.tasks
       /\ \A t \in OsTasks' : TaskIsMatch(t)' <=> TaskIsMatch(t)
  BY <1>1, <1>4, <1>9
<1> QED BY <1>1, <1>5, <1>7, <1>8, <1>10, <1>11, PromptFrame

LEMMA PromptInit == Init => PromptInv
<1> SUFFICES ASSUME Init PROVE PromptInv  OBVIOUS
<1>1. /\ \A t \in TaskIds : os[t].at = "None"
      /\ \A c \in Creators : create[c].at = "None"
      /\ bg.at = "Scan"
  BY NoTaskType DEF Init, NoCreate, Creators, BgIdle
<1>2. ~Deleting /\ \A t \in TaskIds : ~Pending(t)
  BY <1>1 DEF Deleting, Pending, MainPending, ChildPending
<1> QED BY <1>1, <1>2 DEF PromptInv, Running

LEMMA PromptStep ==
  ASSUME Types, Types', AppInv, TaskInv, PromptInv, Prompt, [Next]_vars
  PROVE  PromptInv'
<1> Background \in Creators  BY DEF Creators
<1>1. CASE UNCHANGED vars
  <2>1. /\ AppTable' = AppTable /\ TaskTable' = TaskTable /\ os' = os /\ create' = create /\ bg' = bg
    BY <1>1 DEF vars, tables
  <2>2. \A a \in AppIds : IsMatch(a) => IsMatch(a)'  BY <2>1 DEF IsMatch
  <2>3. \A t \in TaskIds : TaskIsMatch(t)' <=> TaskIsMatch(t)  BY <2>1 DEF TaskIsMatch
  <2> QED BY <2>1, <2>2, <2>3, SameTasksPrompt
<1> SUFFICES ASSUME Next PROVE PromptInv'  BY <1>1
<1>2. /\ \A a \in AppIds : IsMatch(a) => IsMatch(a)' \/ (bg.at = "List" /\ bg'.at = "Next")
      /\ \A c \in Creators : create[c].at = "Publish" =>
           \/ create'[c] = create[c]
           \/ AppTable'[ToAppIndex(create[c].id)].AppId = create[c].id
  BY AppsStay
<1>3. bg' = bg => \A a \in AppIds : IsMatch(a) => IsMatch(a)'  BY <1>2
<1>4. TaskTable' = TaskTable => \A t \in TaskIds : TaskIsMatch(t)' <=> TaskIsMatch(t)  BY DEF TaskIsMatch
<1>5. ASSUME NEW c \in Creators, NEW n \in Names \cup {NoName}, AppCreate(c, n)
      PROVE  \A d \in Creators : create'[d].at = "Record" => create'[d] = create[d]
  <2>1. create'[c].at = "Launch" /\ \A d \in Creators : d # c => create'[d] = create[d]
    BY <1>5, AppCreateDoes
  <2> QED BY <2>1
<1>6. ASSUME NEW c \in Creators, NEW n \in Names, StartApp(c, n) PROVE PromptInv'
  <2>1. PICK m \in Names \cup {NoName} : m = n  OBVIOUS
  <2>2. AppCreate(c, m)  BY <1>6, <2>1 DEF StartApp
  <2>3. bg' = bg /\ TaskTable' = TaskTable /\ os' = os  BY <1>6, StartAppDoes DEF SameTasks, SameOs
  <2> QED BY <1>2, <1>4, <1>5, <2>2, <2>3, SameTasksPrompt
<1>7. ASSUME NEW c \in Creators, (\E n \in LibNames : LoadLibrary(c, n)) \/ LibraryDone(c) \/ Publish(c)
      PROVE  PromptInv'
  <2>1. /\ bg' = bg /\ TaskTable' = TaskTable /\ os' = os /\ create'[c].at \in {"None", "Library"}
        /\ \A d \in Creators : d # c => create'[d] = create[d]
    BY <1>7, LoadLibraryDoes, LibraryDoneDoes, PublishDoes DEF SameTasks, SameOs
  <2> QED BY <1>2, <1>4, <2>1, SameTasksPrompt
<1>8. ASSUME NEW c \in Creators, Launch(c) PROVE PromptInv'
  <2>1. /\ bg' = bg /\ TaskTable' = TaskTable
        /\ \A d \in Creators : d # c => create'[d] = create[d]
    BY <1>8, LaunchDoes DEF SameTasks
  <2>2. CASE create'[c].at = "Fail" /\ os' = os
    BY <1>2, <1>4, <2>1, <2>2, SameTasksPrompt
  <2>3. CASE \E t \in TaskIds :
               /\ create'[c].at = "Record" /\ create'[c].task = t
               /\ t \in Openings /\ t > LastTaskId /\ LastTaskId' = t
               /\ os'[t].at = "Entry" /\ os'[t].app = create[c].id /\ os'[t].creator = 0
               /\ \A u \in TaskIds : u # t => os'[u] = os[u]
    <3>1. PICK t \in TaskIds :
               /\ create'[c].task = t /\ t \in Openings /\ t > LastTaskId
               /\ os'[t].at = "Entry" /\ \A u \in TaskIds : u # t => os'[u] = os[u]
      BY <2>3
    <3>2. \A u \in TaskIds : Pending(u)' => u = t \/ Pending(u)
      BY <2>1, <3>1 DEF Pending, MainPending, ChildPending
    <3> QED BY <1>2, <1>3, <2>1, <3>1, <3>2, CreationKeepsPrompt
  <2> QED BY <1>8, <2>2, <2>3, LaunchCreates DEF SameOs
<1>9. ASSUME NEW c \in Creators, RecordMain(c) PROVE PromptInv'
  <2>1. /\ os' = os /\ bg' = bg /\ create[c].at = "Record" /\ create'[c].at = "Publish"
        /\ create'[c].id = create[c].id
        /\ \A d \in Creators : d # c => create'[d] = create[d]
        /\ RecordTask(create[c].task, create[c].id)
    BY <1>9, RecordMainDoes DEF SameOs
  <2>2. PICK t \in TaskIds : t = create[c].task  BY <2>1 DEF TaskInv, PendingInv
  <2>3. PICK a \in AppIds : a = create[c].id  BY <2>1 DEF Types
  <2>4. Pending(t)  BY <2>1, <2>2 DEF Pending, MainPending
  <2>5. \A u \in TaskIds : Pending(u)' => Pending(u)
    BY <2>1 DEF Pending, MainPending, ChildPending
  <2>6. Published(t)'
    <3>1. create'[c].task = create[c].task  BY <1>9 DEF RecordMain, Types, CreateRec
    <3>2. os[t].app = a  BY <2>1, <2>2, <2>3, <2>4 DEF TaskInv, PendingInv, PromptInv
    <3> QED BY <2>1, <2>2, <2>3, <3>1, <3>2 DEF Published
  <2>7. RecordTask(t, a)  BY <2>1, <2>2, <2>3
  <2> QED BY <1>2, <1>3, <2>1, <2>4, <2>5, <2>6, <2>7, RecordingKeepsPrompt
<1>10. ASSUME NEW p \in TaskIds, RecordChild(p) PROVE PromptInv'
  <2>1. /\ AppTable' = AppTable /\ create' = create /\ bg' = bg /\ os[p].at = "Record"
        /\ RecordTask(os[p].child, os[p].app)
        /\ os'[p].at = "Run" /\ os'[p].app = os[p].app
        /\ \A u \in TaskIds : u # p => os'[u] = os[u]
    BY <1>10, RecordChildDoes DEF SameApps
  <2>2. PICK t \in TaskIds : t = os[p].child  BY <2>1 DEF TaskInv, PendingInv
  <2>3. PICK a \in AppIds : a = os[p].app  BY <2>1 DEF Types
  <2>4. Pending(t)  BY <2>1, <2>2 DEF Pending, ChildPending
  <2>5. \A u \in TaskIds : Pending(u)' => Pending(u)
    BY <2>1, FewerPending
  <2>6. Published(t)'
    <3>1. os[t].app = a  BY <2>1, <2>2, <2>3, <2>4 DEF TaskInv, PendingInv, PromptInv
    <3>2. os'[t].app = a  BY <2>1, <3>1
    <3>3. IsMatch(a)  BY <2>1, <2>3 DEF PromptInv, Running, Creating
    <3> QED BY <2>1, <3>2, <3>3 DEF Published, IsMatch
  <2>7. RecordTask(t, a)  BY <2>1, <2>2, <2>3
  <2>8. \A u \in TaskIds :
          \/ os'[u] = os[u]
          \/ os[u].at = "Record" /\ os'[u].at = "Run" /\ os'[u].app = os[u].app
    BY <2>1
  <2> QED BY <1>2, <1>3, <2>1, <2>4, <2>5, <2>6, <2>7, <2>8, RecordingKeepsPrompt
<1>11. ASSUME NEW a \in AppIds, NEW req \in Commands, Ask(a, req) PROVE PromptInv'
  <2>1. bg' = bg /\ TaskTable' = TaskTable /\ os' = os /\ create' = create
    BY <1>11, AskDoes DEF SameTasks, SameOs
  <2> QED BY <1>2, <1>4, <2>1, SameTasksPrompt
<1>12. ASSUME RunAppTableScan \/ ProcessControlRequest \/ RequestDone PROVE PromptInv'
  <2>1. /\ TaskTable' = TaskTable /\ os' = os /\ create' = create
        /\ bg.at \in {"Scan", "Read", "Create", "Creating"} /\ bg'.at \in {"Scan", "Read", "List"}
    BY <1>12, RunAppTableScanDoes, ProcessControlRequestDoes, RequestDoneDoes DEF SameTasks, SameOs
  <2>2. ~Deleting /\ ~Deleting'  BY <2>1 DEF Deleting
  <2> QED BY <1>2, <1>4, <2>1, <2>2, SameTasksPrompt
<1>13. ASSUME CleanUpApp PROVE PromptInv'
  <2>1. bg.at = "List"  BY <1>13 DEF CleanUpApp
  <2>2. bg.id \in AppIds /\ IsMatch(bg.id)  BY <2>1, IdTypes DEF AppInv, IdsInv, RequestInv, Due
  <2> QED BY <1>13, <2>2, CleanUpAppKeepsPrompt
<1>14. ASSUME NextTask \/ SweepTask \/ DeleteTask PROVE PromptInv'  BY <1>14, DeletionKeepsPrompt
<1>15. ASSUME FreeRecords PROVE PromptInv'
  <2>1. /\ os' = os /\ create' = create /\ bg.at = "Free" /\ bg'.at = "Create"
        /\ \A i \in TaskSlots : IF TaskTable[i].TaskId = RESERVED
                                THEN TaskTable'[i].TaskId = UNDEFINED
                                ELSE TaskTable'[i] = TaskTable[i]
    BY <1>15, FreeRecordsDoes DEF SameOs
  <2>2. UNDEFINED \notin TaskIds /\ RESERVED \notin TaskIds
    BY SlotTypes DEF RESERVED, UNDEFINED, TaskIds
  <2>3. ASSUME NEW t \in TaskIds PROVE TaskIsMatch(t)' <=> TaskIsMatch(t)
    BY <2>1, <2>2, Selected DEF TaskIsMatch
  <2>4. ~Deleting /\ ~Deleting'  BY <2>1 DEF Deleting
  <2> QED BY <1>2, <2>1, <2>3, <2>4, SameTasksPrompt
<1>16. ASSUME Restart PROVE PromptInv'
  <2>1. /\ TaskTable' = TaskTable /\ os' = os /\ bg.at = "Create" /\ bg'.at = "Creating"
        /\ bg.name \in Names \cup {NoName} /\ AppCreate(Background, bg.name)
    BY <1>16, RestartDoes DEF SameTasks, SameOs
  <2>2. PICK c \in Creators, n \in Names \cup {NoName} : c = Background /\ n = bg.name  BY <2>1
  <2>3. AppCreate(c, n)  BY <2>1, <2>2
  <2>4. ~Deleting /\ ~Deleting'  BY <2>1 DEF Deleting
  <2> QED BY <1>2, <1>4, <1>5, <2>1, <2>3, <2>4, SameTasksPrompt
<1>17. ASSUME NEW t \in TaskIds, Enter(t) PROVE PromptInv'
  <2>1. /\ TaskTable' = TaskTable /\ create' = create /\ bg' = bg /\ os[t].at = "Entry"
        /\ ~InCreation(t) /\ \A u \in TaskIds : u # t => os'[u] = os[u]
        /\ \/ TaskIsMatch(t) /\ os'[t].at = "Run" /\ os'[t].app = os[t].app
           \/ ~TaskIsMatch(t) /\ os'[t] = NoTask
    BY <1>17, EnterDoes DEF SameTasks
  <2>2. ~Pending(t)  BY <2>1, PendingTask
  <2>3. TaskIsMatch(t) => IsMatch(os[t].app)
    <3>1. \A c \in Creators : create[c].task # t  BY <2>1 DEF InCreation, Types
    <3> QED BY <2>1, <3>1 DEF PromptInv, Published
  <2> QED BY <1>2, <1>3, <2>1, <2>2, <2>3, MoveKeepsPrompt DEF NoTask, Creating
<1>18. ASSUME NEW t \in TaskIds, Return(t) \/ TaskExit(t) PROVE PromptInv'
  <2>1. /\ TaskTable' = TaskTable /\ create' = create /\ bg' = bg /\ os[t].at \in {"Run", "Exiting"}
        /\ os'[t] = NoTask /\ \A u \in TaskIds : u # t => os'[u] = os[u]
    BY <1>18, ReturnDoes DEF SameTasks
  <2>2. ~Pending(t)  BY <2>1, PendingTask
  <2> QED BY <1>2, <1>3, <2>1, <2>2, MoveKeepsPrompt DEF NoTask
<1>19. ASSUME NEW t \in TaskIds, CreateChildTask(t) \/ ExitApp(t) PROVE PromptInv'
  <2>1. /\ TaskTable' = TaskTable /\ create' = create /\ bg' = bg /\ os[t].at = "Run" /\ InContext(t)
        /\ os'[t].at \in {"Start", "Exited"} /\ os'[t].app = os[t].app
        /\ \A u \in TaskIds : u # t => os'[u] = os[u]
    BY <1>19, CreateChildTaskDoes, ExitAppDoes DEF SameTasks
  <2>2. ~Pending(t)  BY <2>1, PendingTask
  <2>3. TaskIsMatch(t)  BY <2>1 DEF InContext
  <2> QED BY <1>2, <1>3, <2>1, <2>2, <2>3, MoveKeepsPrompt DEF Running
<1>20. ASSUME NEW p \in TaskIds, StartChild(p) PROVE PromptInv'
  <2>1. /\ TaskTable' = TaskTable /\ create' = create /\ bg' = bg /\ os[p].at = "Start"
        /\ os'[p].app = os[p].app
    BY <1>20, StartChildDoes DEF SameTasks
  <2>2. CASE \E t \in TaskIds :
               /\ t \in Openings /\ t > LastTaskId /\ LastTaskId' = t /\ t # p
               /\ os'[p].at = "Record" /\ os'[p].child = t
               /\ os'[t].at = "Entry" /\ os'[t].app = os[p].app /\ os'[t].creator = p
               /\ os'[t].child = 0
               /\ \A v \in TaskIds : v \notin {p, t} => os'[v] = os[v]
    <3>1. PICK t \in TaskIds :
               /\ t \in Openings /\ t > LastTaskId
               /\ os'[p].at = "Record" /\ os'[p].child = t /\ os'[t].at = "Entry"
               /\ \A v \in TaskIds : v \notin {p, t} => os'[v] = os[v]
      BY <2>2
    <3>2. \A u \in TaskIds : Pending(u)' => u = t \/ Pending(u)
      BY <2>1, <3>1 DEF Pending, MainPending, ChildPending
    <3>3. \A u \in TaskIds : u # t =>
            \/ os'[u] = os[u]
            \/ os[u].at = "Start" /\ os'[u].at \in {"Run", "Record"} /\ os'[u].app = os[u].app
      BY <2>1, <3>1
    <3> QED BY <1>2, <1>3, <2>1, <3>1, <3>2, <3>3, CreationKeepsPrompt
  <2>3. CASE /\ LastTaskId' = LastTaskId /\ os'[p].at = "Run" /\ os'[p].child = os[p].child
             /\ \A v \in TaskIds : v # p => os'[v] = os[v]
    <3>1. ~Pending(p)  BY <2>1, PendingTask
    <3> QED BY <1>2, <1>3, <2>1, <2>3, <3>1, MoveKeepsPrompt DEF Running, Creating
  <2> QED BY <1>20, <2>2, <2>3, StartChildDoes
<1>21. ASSUME NEW t \in TaskIds, ExitChildTask(t) PROVE PromptInv'
  <2>1. /\ create' = create /\ bg' = bg /\ os[t].at = "Run" /\ InContext(t) /\ FreeTaskRecord(t)
        /\ os'[t].at = "Exiting" /\ os'[t].app = os[t].app
        /\ \A u \in TaskIds : u # t => os'[u] = os[u]
    BY <1>21, ExitChildTaskDoes
  <2>2. ~Pending(t)  BY <2>1, PendingTask
  <2>3. TaskIsMatch(t)  BY <2>1 DEF InContext
  <2> QED BY <1>2, <1>3, <2>1, <2>2, <2>3, MoveKeepsPrompt
<1>22. ASSUME NEW t \in TaskIds, NEW u \in TaskIds, DeleteChildTask(t, u) PROVE PromptInv'
  <2>1. /\ create' = create /\ bg' = bg /\ TaskIsMatch(u) /\ FreeTaskRecord(u)
        /\ os'[u] = NoTask /\ \A v \in TaskIds : v # u => os'[v] = os[v]
    BY <1>22, DeleteChildTaskDoes
  <2>2. ~Pending(u)  BY <2>1, PendingTask
  <2> QED BY <1>2, <1>3, <2>1, <2>2, MoveKeepsPrompt DEF NoTask
<1>23. ASSUME NEW t \in TaskIds, NEW state \in {RUNNING, STOPPED}, Raise(t, state) PROVE PromptInv'
  <2>1. bg' = bg /\ TaskTable' = TaskTable /\ os' = os /\ create' = create
    BY <1>23, RaiseDoes DEF SameTasks, SameOs
  <2> QED BY <1>2, <1>4, <2>1, SameTasksPrompt
<1> QED BY <1>6, <1>7, <1>8, <1>9, <1>10, <1>11, <1>12, <1>13, <1>14, <1>15, <1>16, <1>17, <1>18, <1>19,
           <1>20, <1>21, <1>22, <1>23, Steps, Zenon

(* In a system that starts tasks promptly: the facts about a running task. *)
LEMMA RunningTask ==
  ASSUME Types, RecordInv, PromptInv, NEW t \in TaskIds, os[t].at \in Running
  PROVE  (InContext(t) /\ IsMatch(os[t].app)) \/ CleaningUp(os[t].app)
<1>1. CASE TaskIsMatch(t) /\ IsMatch(os[t].app)
  <2>1. os[t].at # "None"  BY DEF Running
  <2>2. AppOf(t) = os[t].app  BY <1>1, <2>1 DEF RecordInv
  <2> QED BY <1>1, <2>2 DEF InContext
<1>2. CASE Deleting /\ os[t].app = bg.id
  BY <1>2 DEF CleaningUp, Deleting
<1> QED BY <1>1, <1>2 DEF PromptInv

LEMMA PromptHolds == Prompt /\ Spec => [](Types /\ AppInv /\ TaskInv /\ PromptInv)
<1>1. Init => Types /\ AppInv /\ TaskInv /\ PromptInv  BY TypesInit, AppsInit, TasksInit, PromptInit
<1>2. Prompt /\ Types /\ AppInv /\ TaskInv /\ PromptInv /\ [Next]_vars =>
        (Prompt /\ Types /\ AppInv /\ TaskInv /\ PromptInv)'
  BY AppsStep, TasksStep, PromptStep
<1> QED BY <1>1, <1>2, PTL DEF Spec

(* CFE_ES_CleanUpApp lists the tasks of the app before it deletes any of   *)
(* them: where a start or the creation of a task is over before its app is *)
(* cleaned up, no task is missed, and the code that CFE_ES_AppCreate       *)
(* loaded is not unloaded under a task that runs it.                       *)
THEOREM TasksOwned == Prompt /\ Spec => []NoOrphan
<1>1. Types /\ AppInv /\ TaskInv /\ PromptInv => NoOrphan
  <2> SUFFICES ASSUME Types, TaskInv, PromptInv, NEW t \in OsTasks, os[t].at \notin {"Entry", "Exiting"}
               PROVE  IsMatch(os[t].app) \/ CleaningUp(os[t].app)
    BY DEF NoOrphan
  <2>1. t \in TaskIds /\ os[t].at \in Running  BY DEF OsTasks, Types, OsRec, Running
  <2> QED BY <2>1, RunningTask DEF TaskInv
<1> QED BY <1>1, PromptHolds, PTL

(* There too, ES finds the app of a task by its id, so that CFE_ES_RunLoop *)
(* returns false only for an app that was asked to stop or is cleaned up.  *)
THEOREM StopsAsked == Prompt /\ Spec => []NoSpuriousStop
<1>1. Types /\ AppInv /\ TaskInv /\ PromptInv => NoSpuriousStop
  <2> SUFFICES ASSUME Types, TaskInv, PromptInv, NEW t \in OsTasks, os[t].at = "Run"
               PROVE  InContext(t) \/ CleaningUp(os[t].app)
    BY DEF NoSpuriousStop
  <2>1. t \in TaskIds /\ os[t].at \in Running  BY DEF OsTasks, Running
  <2> QED BY <2>1, RunningTask DEF TaskInv
<1> QED BY <1>1, PromptHolds, PTL

-----------------------------------------------------------------------------
(* Records are those of tasks: LiveInv *)

(* Most steps record no task, and take no task away that is recorded.  A   *)
(* task that is new has no task as creator, or one of its own app.         *)
LEMMA LiveFrame ==
  ASSUME Types, Types', TaskInv, PromptInv, LiveInv,
         \A i \in TaskSlots : TaskTable'[i] = TaskTable[i] \/ TaskTable'[i].TaskId \notin TaskIds,
         Deleting' => Deleting /\ bg'.id = bg.id /\ bg'.tasks \subseteq bg.tasks,
         \A u \in TaskIds : os[u].at # "None" /\ os'[u].at = "None" => ~TaskIsMatch(u)',
         \A u \in TaskIds : os'[u].at # "None" =>
           \/ os[u].at # "None" /\ os'[u].app = os[u].app /\ os'[u].creator = os[u].creator
           \/ os'[u].creator = 0
           \/ \E p \in TaskIds : os'[u].creator = p /\ os[p].at # "None" /\ os'[u].app = os[p].app
  PROVE  LiveInv'
<1>1. \A i \in TaskSlots : TaskTable'[i].TaskId \in TaskIds => TaskTable'[i].TaskId \in OsTasks'
  <2> SUFFICES ASSUME NEW i \in TaskSlots, TaskTable'[i].TaskId \in TaskIds
               PROVE  TaskTable'[i].TaskId \in OsTasks'
    OBVIOUS
  <2>1. PICK u \in TaskIds : u = TaskTable'[i].TaskId  OBVIOUS
  <2>2. TaskTable[i].TaskId = u  BY <2>1
  <2>3. ToTaskIndex(u) = i  BY <2>2 DEF TaskInv, RecordInv
  <2>4. TaskIsMatch(u)'  BY <2>1, <2>3 DEF TaskIsMatch
  <2>5. u \in OsTasks  BY <2>2 DEF LiveInv
  <2>6. os'[u].at # "None"  BY <2>4, <2>5 DEF OsTasks
  <2> QED BY <2>1, <2>6 DEF OsTasks
<1>2. Deleting' => \A i \in TaskSlots : TaskTable'[i].TaskId \in TaskIds => TaskTable'[i].AppId # bg'.id
  BY DEF LiveInv
<1>3. ASSUME NEW u \in OsTasks', NEW t \in TaskIds, os'[u].creator = t
      PROVE  (TaskIsMatch(t)' => os'[u].app = AppOf(t)') /\ (Deleting' /\ t \in bg'.tasks => os'[u].app = bg'.id)
  <2>1. u \in TaskIds /\ os'[u].at # "None" /\ t # 0  BY DEF OsTasks, TaskIds
  <2>2. ToTaskIndex(t) \in TaskSlots  BY Selected
  <2>3. TaskIsMatch(t)' => TaskIsMatch(t) /\ AppOf(t)' = AppOf(t)  BY <2>2 DEF TaskIsMatch, AppOf
  <2>4. CASE os[u].at # "None" /\ os'[u].app = os[u].app /\ os'[u].creator = os[u].creator
    <3>1. u \in OsTasks  BY <2>1, <2>4 DEF OsTasks
    <3>2. (TaskIsMatch(t) => os[u].app = AppOf(t)) /\ (Deleting /\ t \in bg.tasks => os[u].app = bg.id)
      BY <1>3, <2>4, <3>1 DEF LiveInv
    <3> QED BY <2>3, <2>4, <3>2
  <2>5. CASE os'[u].creator = 0  BY <1>3, <2>1, <2>5
  <2>6. CASE \E p \in TaskIds : os'[u].creator = p /\ os[p].at # "None" /\ os'[u].app = os[p].app
    <3>1. os[t].at # "None" /\ os'[u].app = os[t].app  BY <1>3, <2>6
    <3>2. TaskIsMatch(t) => AppOf(t) = os[t].app  BY <3>1 DEF TaskInv, RecordInv
    <3>3. Deleting /\ t \in bg.tasks => os[t].app = bg.id  BY <3>1 DEF PromptInv, OsTasks
    <3> QED BY <2>3, <3>1, <3>2, <3>3
  <2> QED BY <2>1, <2>4, <2>5, <2>6
<1> QED BY <1>1, <1>2, <1>3 DEF LiveInv

(* The record of a new task takes a place that no task has.                *)
LEMMA RecordIsNew ==
  ASSUME Types, TaskInv, PromptInv, LiveInv, NEW t \in TaskIds, Pending(t)
  PROVE  t \in OsTasks /\ TaskTable[ToTaskIndex(t)].TaskId \notin TaskIds
<1>1. t \in OsTasks /\ ~TaskIsMatch(t)  BY NotPending DEF PromptInv
<1> SUFFICES ASSUME TaskTable[ToTaskIndex(t)].TaskId \in TaskIds PROVE FALSE  BY <1>1
<1>2. PICK u \in TaskIds : u = TaskTable[ToTaskIndex(t)].TaskId  OBVIOUS
<1>3. ToTaskIndex(t) \in TaskSlots  BY Selected
<1>4. u \in OsTasks /\ ToTaskIndex(u) = ToTaskIndex(t)  BY <1>2, <1>3 DEF LiveInv, TaskInv, RecordInv
<1>5. u = t  BY <1>1, <1>4 DEF TaskInv, RecordInv
<1> QED BY <1>1, <1>2, <1>5 DEF TaskIsMatch

LEMMA RecordingKeepsLive ==
  ASSUME Types, Types', TaskInv, PromptInv, LiveInv, NEW t \in TaskIds, NEW a \in AppIds,
         Pending(t), RecordTask(t, a), bg' = bg, Deleting => a # bg.id,
         \A u \in TaskIds :
           \/ os'[u] = os[u]
           \/ /\ os[u].at # "None" /\ os'[u].at # "None"
              /\ os'[u].app = os[u].app /\ os'[u].creator = os[u].creator
  PROVE  LiveInv'
<1>1. /\ ToTaskIndex(t) \in TaskSlots
      /\ TaskTable'[ToTaskIndex(t)].TaskId = t /\ TaskTable'[ToTaskIndex(t)].AppId = a
      /\ \A i \in TaskSlots : i # ToTaskIndex(t) => TaskTable'[i] = TaskTable[i]
  <2>1. t \in 0..MaxTaskId  BY SlotTypes DEF TaskIds
  <2> QED BY <2>1, RecordTaskDoes
<1>2. OsTasks' = OsTasks  BY DEF OsTasks
<1>3. Deleting' <=> Deleting  BY DEF Deleting
<1>4. t \in OsTasks /\ \A u \in OsTasks : os[u].creator # t  BY RecordIsNew DEF TaskInv, PendingInv
<1>5. \A i \in TaskSlots : TaskTable'[i].TaskId \in TaskIds => TaskTable'[i].TaskId \in OsTasks'
  BY <1>1, <1>2, <1>4 DEF LiveInv
<1>6. Deleting' => \A i \in TaskSlots : TaskTable'[i].TaskId \in TaskIds => TaskTable'[i].AppId # bg'.id
  BY <1>1, <1>3 DEF LiveInv
<1>7. ASSUME NEW u \in OsTasks', NEW v \in TaskIds, os'[u].creator = v
      PROVE  (TaskIsMatch(v)' => os'[u].app = AppOf(v)') /\ (Deleting' /\ v \in bg'.tasks => os'[u].app = bg'.id)
  <2>1. u \in OsTasks /\ u \in TaskIds /\ os[u].creator = v /\ os'[u].app = os[u].app
    BY <1>2, <1>7 DEF OsTasks
  <2>2. v # t /\ ToTaskIndex(v) \in TaskSlots  BY <1>4, <2>1, Selected
  <2>3. TaskIsMatch(v)' => TaskIsMatch(v) /\ AppOf(v)' = AppOf(v)
    BY <1>1, <2>2 DEF TaskIsMatch, AppOf
  <2>4. (TaskIsMatch(v) => os[u].app = AppOf(v)) /\ (Deleting /\ v \in bg.tasks => os[u].app = bg.id)
    BY <2>1 DEF LiveInv
  <2> QED BY <1>3, <2>1, <2>3, <2>4
<1> QED BY <1>5, <1>6, <1>7 DEF LiveInv

(* The clean up takes the records of the tasks it lists.                   *)
LEMMA CleanUpAppKeepsLive ==
  ASSUME Types, Types', AppInv, TaskInv, PromptInv, LiveInv, CleanUpApp
  PROVE  LiveInv'
<1>1. bg.at = "List"  BY DEF CleanUpApp
<1>2. bg.id \in AppIds /\ IsMatch(bg.id)  BY <1>1, IdTypes DEF AppInv, IdsInv, RequestInv, Due
<1>3. /\ os' = os /\ bg'.id = bg.id /\ bg'.tasks = TasksOf(bg.id)
      /\ \A i \in TaskSlots : IF TaskTable[i].TaskId \in TasksOf(bg.id)
                              THEN TaskTable'[i].TaskId = RESERVED
                              ELSE TaskTable'[i] = TaskTable[i]
  BY <1>2, CleanUpAppDoes DEF SameOs
<1>4. RESERVED \notin TaskIds  BY RecordTypes
<1>5. \A i \in TaskSlots : TaskTable'[i].TaskId \in TaskIds =>
        TaskTable'[i] = TaskTable[i] /\ TaskTable[i].TaskId \notin TasksOf(bg.id)
  BY <1>3, <1>4
<1>6. \A i \in TaskSlots : TaskTable'[i].TaskId \in TaskIds => TaskTable'[i].TaskId \in OsTasks'
  BY <1>3, <1>5 DEF LiveInv, OsTasks
<1>7. ASSUME NEW i \in TaskSlots, TaskTable'[i].TaskId \in TaskIds PROVE TaskTable'[i].AppId # bg'.id
  <2>1. PICK u \in TaskIds : u = TaskTable[i].TaskId  BY <1>5, <1>7
  <2>2. ToTaskIndex(u) = i  BY <2>1 DEF TaskInv, RecordInv
  <2>3. TaskIsMatch(u) /\ AppOf(u) = TaskTable[i].AppId  BY <2>1, <2>2 DEF TaskIsMatch, AppOf
  <2>4. u \notin TasksOf(bg.id)  BY <1>5, <1>7, <2>1
  <2> QED BY <1>3, <1>5, <1>7, <2>3, <2>4 DEF TasksOf
<1>8. ASSUME NEW u \in OsTasks', NEW t \in TaskIds, os'[u].creator = t
      PROVE  (TaskIsMatch(t)' => os'[u].app = AppOf(t)') /\ (t \in bg'.tasks => os'[u].app = bg'.id)
  <2>1. u \in OsTasks /\ os[u].creator = t /\ os'[u] = os[u]  BY <1>3, <1>8 DEF OsTasks
  <2>2. ToTaskIndex(t) \in TaskSlots  BY Selected
  <2>3. TaskIsMatch(t)' => TaskIsMatch(t) /\ AppOf(t)' = AppOf(t)
    BY <1>5, <2>2 DEF TaskIsMatch, AppOf
  <2>4. TaskIsMatch(t) => os[u].app = AppOf(t)  BY <2>1 DEF LiveInv
  <2> QED BY <1>3, <2>1, <2>3, <2>4 DEF TasksOf
<1> QED BY <1>6, <1>7, <1>8 DEF LiveInv

LEMMA LiveInit == Init => LiveInv
<1> SUFFICES ASSUME Init PROVE LiveInv  OBVIOUS
<1>1. /\ \A i \in TaskSlots : TaskTable[i].TaskId = UNDEFINED
      /\ \A t \in TaskIds : os[t].at = "None"
      /\ ~Deleting
  BY NoTaskType DEF Init, FreeTask, BgIdle, Deleting
<1>2. UNDEFINED \notin TaskIds  BY RecordTypes
<1> QED BY <1>1, <1>2 DEF LiveInv, OsTasks

\* What the steps that record nothing and create no task have in common
LEMMA LiveStays ==
  ASSUME Types, Types', TaskInv, PromptInv, LiveInv,
         \A i \in TaskSlots : TaskTable'[i] = TaskTable[i] \/ TaskTable'[i].TaskId \notin TaskIds,
         Deleting' => Deleting /\ bg'.id = bg.id /\ bg'.tasks \subseteq bg.tasks,
         \A u \in TaskIds :
           \/ os'[u] = os[u]
           \/ os'[u] = NoTask /\ ~TaskIsMatch(u)'
           \/ /\ os[u].at # "None" /\ os'[u].at # "None"
              /\ os'[u].app = os[u].app /\ os'[u].creator = os[u].creator
  PROVE  LiveInv'
<1>1. \A u \in TaskIds : os[u].at # "None" /\ os'[u].at = "None" => ~TaskIsMatch(u)'  OBVIOUS
<1>2. \A u \in TaskIds : os'[u].at # "None" =>
        os[u].at # "None" /\ os'[u].app = os[u].app /\ os'[u].creator = os[u].creator
  BY NoTaskType
<1> QED BY <1>1, <1>2, LiveFrame

LEMMA LiveStep ==
  ASSUME Types, Types', AppInv, TaskInv, PromptInv, LiveInv, ~Returns, [Next]_vars
  PROVE  LiveInv'
<1> Background \in Creators  BY DEF Creators
<1>1. ASSUME TaskTable' = TaskTable, os' = os, (bg' = bg \/ ~Deleting') PROVE LiveInv'
  <2>1. Deleting' => Deleting /\ bg'.id = bg.id /\ bg'.tasks \subseteq bg.tasks  BY <1>1 DEF Deleting
  <2> QED BY <1>1, <2>1, LiveStays
<1>2. CASE UNCHANGED vars  BY <1>1, <1>2 DEF vars, tables
<1> SUFFICES ASSUME Next PROVE LiveInv'  BY <1>2
<1>3. bg' = bg => (Deleting' => Deleting /\ bg'.id = bg.id /\ bg'.tasks \subseteq bg.tasks)
  BY DEF Deleting
<1>4. TaskTable' = TaskTable => \A t \in TaskIds : TaskIsMatch(t)' <=> TaskIsMatch(t)  BY DEF TaskIsMatch
<1>5. ASSUME NEW c \in Creators,
             \/ \E n \in Names : StartApp(c, n)
             \/ \E n \in LibNames : LoadLibrary(c, n)
             \/ LibraryDone(c) \/ Publish(c)
      PROVE  LiveInv'
  <2>1. bg' = bg /\ TaskTable' = TaskTable /\ os' = os
    BY <1>5, StartAppDoes, LoadLibraryDoes, LibraryDoneDoes, PublishDoes DEF SameTasks, SameOs
  <2> QED BY <1>1, <2>1
<1>6. ASSUME NEW c \in Creators, Launch(c) PROVE LiveInv'
  <2>1. bg' = bg /\ TaskTable' = TaskTable  BY <1>6, LaunchDoes DEF SameTasks
  <2>2. CASE os' = os  BY <1>1, <2>1, <2>2
  <2>3. CASE \E t \in TaskIds :
               /\ t \in Openings /\ t > LastTaskId /\ os'[t].at = "Entry" /\ os'[t].creator = 0
               /\ \A u \in TaskIds : u # t => os'[u] = os[u]
    BY <1>3, <2>1, <2>3, LiveFrame
  <2> QED BY <1>6, <2>2, <2>3, LaunchCreates DEF SameOs
<1>7. ASSUME NEW c \in Creators, RecordMain(c) PROVE LiveInv'
  <2>1. /\ os' = os /\ bg' = bg /\ create[c].at = "Record"
        /\ RecordTask(create[c].task, create[c].id)
    BY <1>7, RecordMainDoes DEF SameOs
  <2>2. PICK t \in TaskIds : t = create[c].task  BY <2>1 DEF TaskInv, PendingInv
  <2>3. PICK a \in AppIds : a = create[c].id  BY <2>1 DEF Types
  <2>4. Pending(t)  BY <2>1, <2>2 DEF Pending, MainPending
  <2>5. Deleting => a # bg.id  BY <2>1, <2>3 DEF Deleting, Cleaning, Making, AppInv, IdsInv
  <2>6. RecordTask(t, a)  BY <2>1, <2>2, <2>3
  <2> QED BY <2>1, <2>4, <2>5, <2>6, RecordingKeepsLive
<1>8. ASSUME NEW p \in TaskIds, RecordChild(p) PROVE LiveInv'
  <2>1. /\ bg' = bg /\ os[p].at = "Record" /\ os'[p].at = "Run"
        /\ os'[p].app = os[p].app /\ os'[p].creator = os[p].creator
        /\ RecordTask(os[p].child, os[p].app) /\ \A u \in TaskIds : u # p => os'[u] = os[u]
    BY <1>8, RecordChildDoes
  <2>2. PICK t \in TaskIds : t = os[p].child  BY <2>1 DEF TaskInv, PendingInv
  <2>3. PICK a \in AppIds : a = os[p].app  BY <2>1 DEF Types
  <2>4. Pending(t)  BY <2>1, <2>2 DEF Pending, ChildPending
  <2>5. Deleting => a # bg.id
    <3>1. SUFFICES ASSUME Deleting, a = bg.id PROVE FALSE  OBVIOUS
    <3>2. IsMatch(a)  BY <2>1, <2>3 DEF PromptInv, Running, Creating
    <3>3. Cleaning  BY <3>1 DEF Deleting, Cleaning
    <3>4. AppTable[ToAppIndex(a)].AppId = RESERVED  BY <3>1, <3>3 DEF AppInv, IdsInv
    <3> QED BY <3>2, <3>4, RecordTypes DEF IsMatch
  <2>6. RecordTask(t, a)  BY <2>1, <2>2, <2>3
  <2>7. \A u \in TaskIds :
          \/ os'[u] = os[u]
          \/ /\ os[u].at # "None" /\ os'[u].at # "None"
             /\ os'[u].app = os[u].app /\ os'[u].creator = os[u].creator
    BY <2>1
  <2> QED BY <2>1, <2>4, <2>5, <2>6, <2>7, RecordingKeepsLive
<1>9. ASSUME \/ \E a \in AppIds, req \in Commands : Ask(a, req)
             \/ \E t \in TaskIds, state \in {RUNNING, STOPPED} : Raise(t, state)
      PROVE  LiveInv'
  <2>1. bg' = bg /\ TaskTable' = TaskTable /\ os' = os
    BY <1>9, AskDoes, RaiseDoes DEF SameTasks, SameOs
  <2> QED BY <1>1, <2>1
<1>10. ASSUME RunAppTableScan \/ ProcessControlRequest \/ RequestDone \/ Restart PROVE LiveInv'
  <2>1. /\ TaskTable' = TaskTable /\ os' = os
        /\ bg'.at \in {"Scan", "Read", "List", "Creating"}
    BY <1>10, RunAppTableScanDoes, ProcessControlRequestDoes, RequestDoneDoes, RestartDoes
       DEF SameTasks, SameOs
  <2>2. ~Deleting'  BY <2>1 DEF Deleting
  <2> QED BY <1>1, <2>1, <2>2
<1>11. ASSUME CleanUpApp PROVE LiveInv'  BY <1>11, CleanUpAppKeepsLive
<1>12. ASSUME NextTask PROVE LiveInv'
  <2>1. TaskTable' = TaskTable /\ os' = os /\ bg.at = "Next" /\ bg'.id = bg.id /\ bg'.tasks = bg.tasks
    BY <1>12, NextTaskDoes DEF SameTasks, SameOs
  <2>2. Deleting  BY <2>1 DEF Deleting
  <2> QED BY <2>1, <2>2, LiveStays
<1>13. ASSUME SweepTask PROVE LiveInv'
  <2>1. /\ TaskTable' = TaskTable /\ bg.at = "Sweep" /\ bg'.id = bg.id /\ bg'.tasks = bg.tasks
        /\ \A u \in TaskIds : os'[u] = os[u] \/ (u \in CreatedBy(bg.task) /\ os'[u] = NoTask)
    BY <1>13, SweepTaskDoes DEF SameTasks
  <2>2. Deleting /\ bg.task \in bg.tasks  BY <2>1 DEF Deleting, TaskInv, MainInv
  <2>3. PICK v \in TaskIds : v = bg.task  BY <2>2 DEF Types, BgRec
  <2>4. ASSUME NEW u \in TaskIds, u \in CreatedBy(bg.task) PROVE ~TaskIsMatch(u)
    <3>1. u \in OsTasks /\ os[u].creator = v  BY <2>3, <2>4 DEF CreatedBy
    <3>2. os[u].app = bg.id  BY <2>2, <2>3, <3>1 DEF LiveInv
    <3> SUFFICES ASSUME TaskIsMatch(u) PROVE FALSE  OBVIOUS
    <3>3. AppOf(u) = bg.id  BY <3>1, <3>2 DEF TaskInv, RecordInv, OsTasks
    <3>4. ToTaskIndex(u) \in TaskSlots /\ TaskTable[ToTaskIndex(u)].TaskId = u  BY Matched DEF TaskInv
    <3> QED BY <2>2, <3>3, <3>4 DEF LiveInv, AppOf
  <2>5. \A u \in TaskIds : os'[u] = os[u] \/ (os'[u] = NoTask /\ ~TaskIsMatch(u)')
    BY <1>4, <2>1, <2>4
  <2> QED BY <2>1, <2>2, <2>5, LiveStays
<1>14. ASSUME DeleteTask PROVE LiveInv'
  <2>1. /\ TaskTable' = TaskTable /\ bg.at = "Delete" /\ bg'.id = bg.id
        /\ bg'.tasks = bg.tasks \ {bg.task}
        /\ \A u \in TaskIds : os'[u] = os[u] \/ (u = bg.task /\ os'[u] = NoTask)
    BY <1>14, DeleteTaskDoes DEF SameTasks
  <2>2. Deleting /\ ~TaskIsMatch(bg.task)  BY <2>1 DEF Deleting, TaskInv, MainInv
  <2>3. \A u \in TaskIds : os'[u] = os[u] \/ (os'[u] = NoTask /\ ~TaskIsMatch(u)')
    BY <1>4, <2>1, <2>2
  <2>4. bg'.tasks \subseteq bg.tasks  BY <2>1
  <2> QED BY <2>1, <2>2, <2>3, <2>4, LiveStays
<1>15. ASSUME FreeRecords PROVE LiveInv'
  <2>1. /\ os' = os /\ bg'.at = "Create"
        /\ \A i \in TaskSlots : TaskTable'[i] = TaskTable[i] \/ TaskTable'[i].TaskId = UNDEFINED
    BY <1>15, FreeRecordsDoes DEF SameOs
  <2>2. \A i \in TaskSlots : TaskTable'[i] = TaskTable[i] \/ TaskTable'[i].TaskId \notin TaskIds
    BY <2>1, RecordTypes
  <2>3. ~Deleting'  BY <2>1 DEF Deleting
  <2> QED BY <2>1, <2>2, <2>3, LiveStays
<1>16. ASSUME NEW t \in TaskIds, Enter(t) PROVE LiveInv'
  <2>1. /\ TaskTable' = TaskTable /\ bg' = bg /\ os[t].at = "Entry"
        /\ \A u \in TaskIds : u # t => os'[u] = os[u]
        /\ \/ TaskIsMatch(t) /\ os'[t].at = "Run" /\ os'[t].app = os[t].app /\ os'[t].creator = os[t].creator
           \/ ~TaskIsMatch(t) /\ os'[t] = NoTask
    BY <1>16, EnterDoes DEF SameTasks
  <2> QED BY <1>3, <1>4, <2>1, LiveStays
<1>17. ASSUME NEW t \in TaskIds, Return(t) \/ TaskExit(t) PROVE LiveInv'
  <2>1. /\ TaskTable' = TaskTable /\ bg' = bg /\ os'[t] = NoTask
        /\ \A u \in TaskIds : u # t => os'[u] = os[u]
    BY <1>17, ReturnDoes DEF SameTasks
  <2>2. ~TaskIsMatch(t)
    <3>1. CASE Return(t)
      <4>1. os[t].at = "Run" /\ ~InContext(t)  BY <3>1 DEF Return
      <4> SUFFICES ASSUME TaskIsMatch(t) PROVE FALSE  OBVIOUS
      <4>2. ~(Deleting /\ t \in bg.tasks)  BY DEF TaskInv, MainInv
      <4>3. IsMatch(os[t].app)  BY <4>1, <4>2 DEF PromptInv, Running
      <4>4. AppOf(t) = os[t].app  BY <4>1 DEF TaskInv, RecordInv
      <4> QED BY <4>1, <4>3, <4>4 DEF InContext
    <3>2. CASE TaskExit(t)  BY <3>2 DEF TaskExit, TaskInv, RecordInv
    <3> QED BY <1>17, <3>1, <3>2
  <2> QED BY <1>3, <1>4, <2>1, <2>2, LiveStays
<1>18. ASSUME NEW t \in TaskIds, CreateChildTask(t) \/ ExitApp(t) PROVE LiveInv'
  <2>1. /\ TaskTable' = TaskTable /\ bg' = bg /\ os[t].at = "Run" /\ os'[t].at \in {"Start", "Exited"}
        /\ os'[t].app = os[t].app /\ os'[t].creator = os[t].creator
        /\ \A u \in TaskIds : u # t => os'[u] = os[u]
    BY <1>18, CreateChildTaskDoes, ExitAppDoes DEF SameTasks
  <2> QED BY <1>3, <2>1, LiveStays
<1>19. ASSUME NEW p \in TaskIds, StartChild(p) PROVE LiveInv'
  <2>1. /\ TaskTable' = TaskTable /\ bg' = bg /\ os[p].at = "Start"
        /\ os'[p].app = os[p].app /\ os'[p].creator = os[p].creator
        /\ \/ \E t \in TaskIds :
                /\ t # p /\ os'[p].at = "Record" /\ os'[t].at = "Entry"
                /\ os'[t].app = os[p].app /\ os'[t].creator = p
                /\ \A v \in TaskIds : v \notin {p, t} => os'[v] = os[v]
           \/ os'[p].at = "Run" /\ \A v \in TaskIds : v # p => os'[v] = os[v]
    BY <1>19, StartChildDoes DEF SameTasks
  <2>2. \A u \in TaskIds : os[u].at # "None" /\ os'[u].at = "None" => ~TaskIsMatch(u)'  BY <2>1
  <2>3. \A u \in TaskIds : os'[u].at # "None" =>
          \/ os[u].at # "None" /\ os'[u].app = os[u].app /\ os'[u].creator = os[u].creator
          \/ os'[u].creator = 0
          \/ \E q \in TaskIds : os'[u].creator = q /\ os[q].at # "None" /\ os'[u].app = os[q].app
    BY <2>1
  <2> QED BY <1>3, <2>1, <2>2, <2>3, LiveFrame
<1>20. ASSUME NEW u \in TaskIds, bg' = bg, FreeTaskRecord(u),
              \A v \in TaskIds : v # u => os'[v] = os[v],
              \/ os'[u] = NoTask
              \/ /\ os[u].at # "None" /\ os'[u].at # "None"
                 /\ os'[u].app = os[u].app /\ os'[u].creator = os[u].creator
       PROVE  LiveInv'
  <2>1. /\ ToTaskIndex(u) \in TaskSlots /\ TaskTable'[ToTaskIndex(u)].TaskId = UNDEFINED
        /\ \A i \in TaskSlots : i # ToTaskIndex(u) => TaskTable'[i] = TaskTable[i]
    BY <1>20, FreeTaskRecordDoes
  <2>2. ~TaskIsMatch(u)' /\ UNDEFINED \notin TaskIds  BY <2>1, RecordTypes DEF TaskIsMatch
  <2>3. \A i \in TaskSlots : TaskTable'[i] = TaskTable[i] \/ TaskTable'[i].TaskId \notin TaskIds
    BY <2>1, <2>2
  <2> QED BY <1>3, <1>20, <2>2, <2>3, LiveStays
<1>21. ASSUME NEW t \in TaskIds, NEW u \in TaskIds, DeleteChildTask(t, u) PROVE LiveInv'
  BY <1>20, <1>21, DeleteChildTaskDoes
<1>22. ASSUME NEW t \in TaskIds, ExitChildTask(t) PROVE LiveInv'
  <2>1. os[t].at # "None" /\ os'[t].at # "None"  BY <1>22, ExitChildTaskDoes
  <2> QED BY <1>20, <1>22, <2>1, ExitChildTaskDoes
<1> QED BY <1>5, <1>6, <1>7, <1>8, <1>9, <1>10, <1>11, <1>12, <1>13, <1>14, <1>15, <1>16, <1>17, <1>18,
           <1>19, <1>21, <1>22, Steps, Zenon

-----------------------------------------------------------------------------
(* The counters *)

KnownApps  == {i \in AppSlots : AppTable[i].AppId \in AppIds}
KnownTasks == {i \in TaskSlots : TaskTable[i].TaskId \in TaskIds}

LEMMA KnownFinite ==
  /\ IsFiniteSet(KnownApps) /\ IsFiniteSet(KnownTasks)
  /\ IsFiniteSet(KnownApps)' /\ IsFiniteSet(KnownTasks)'
<1>1. IsFiniteSet(AppSlots) /\ IsFiniteSet(TaskSlots)
  BY SlotTypes, FS_Interval DEF AppSlots, TaskSlots
<1>2. /\ KnownApps \subseteq AppSlots /\ KnownTasks \subseteq TaskSlots
      /\ KnownApps' \subseteq AppSlots /\ KnownTasks' \subseteq TaskSlots
  BY DEF KnownApps, KnownTasks
<1> QED BY <1>1, <1>2, FS_Subset

(* The records of the tasks of an app are as many as these tasks.          *)
LEMMA TasksOfCount ==
  ASSUME Types, TaskInv, NEW a \in AppIds, NEW R,
         R = {i \in TaskSlots : TaskTable[i].TaskId \in TasksOf(a)}
  PROVE  R \subseteq KnownTasks /\ IsFiniteSet(R) /\ Cardinality(R) = Cardinality(TasksOf(a))
<1>1. R \subseteq KnownTasks  BY DEF TasksOf, KnownTasks
<1>2. IsFiniteSet(R)  BY <1>1, KnownFinite, FS_Subset
<1>3. PICK f : f = [i \in R |-> TaskTable[i].TaskId]  OBVIOUS
<1>4. f \in [R -> TasksOf(a)]  BY <1>3
<1>5. \A i, j \in R : f[i] = f[j] => i = j
  <2> SUFFICES ASSUME NEW i \in R, NEW j \in R, f[i] = f[j] PROVE i = j  OBVIOUS
  <2>1. TaskTable[i].TaskId = TaskTable[j].TaskId  BY <1>3
  <2>2. /\ i \in TaskSlots /\ TaskTable[i].TaskId \in TaskIds
        /\ j \in TaskSlots /\ TaskTable[j].TaskId \in TaskIds
    BY <1>1 DEF KnownTasks
  <2>3. ToTaskIndex(TaskTable[i].TaskId) = i /\ ToTaskIndex(TaskTable[j].TaskId) = j
    BY <2>2 DEF TaskInv, RecordInv
  <2> QED BY <2>1, <2>3
<1>6. \A t \in TasksOf(a) : \E i \in R : f[i] = t
  <2> SUFFICES ASSUME NEW t \in TasksOf(a) PROVE \E i \in R : f[i] = t  OBVIOUS
  <2>1. t \in TaskIds /\ TaskIsMatch(t)  BY DEF TasksOf
  <2>2. ToTaskIndex(t) \in TaskSlots /\ TaskTable[ToTaskIndex(t)].TaskId = t  BY <2>1, Matched DEF TaskInv
  <2>3. ToTaskIndex(t) \in R  BY <2>2
  <2> QED BY <1>3, <2>2, <2>3
<1>7. f \in Bijection(R, TasksOf(a))  BY <1>4, <1>5, <1>6, Fun_IsBij
<1>8. ExistsBijection(R, TasksOf(a))  BY <1>7 DEF ExistsBijection
<1> QED BY <1>1, <1>2, <1>8, FS_Bijection

LEMMA CardDifference ==
  ASSUME NEW S, NEW T, IsFiniteSet(S), T \subseteq S
  PROVE  /\ IsFiniteSet(S \ T)
         /\ Cardinality(S \ T) = Cardinality(S) - Cardinality(T)
<1>1. IsFiniteSet(T) /\ IsFiniteSet(S \ T)  BY FS_Subset
<1>2. Cardinality((S \ T) \cup T) = Cardinality(S \ T) + Cardinality(T) - Cardinality((S \ T) \cap T)
  BY <1>1, FS_Union
<1>3. (S \ T) \cup T = S /\ (S \ T) \cap T = {}  OBVIOUS
<1>4. Cardinality((S \ T) \cap T) = 0  BY <1>3, FS_EmptySet
<1>5. Cardinality(S \ T) \in Nat /\ Cardinality(T) \in Nat /\ Cardinality(S) \in Nat
  BY <1>1, FS_CardinalityType
<1>6. Cardinality(S) = Cardinality(S \ T) + Cardinality(T) - 0
  <2>1. PICK U, V : U = (S \ T) \cup T /\ V = (S \ T) \cap T  OBVIOUS
  <2>2. Cardinality(U) = Cardinality(S \ T) + Cardinality(T) - Cardinality(V)  BY <1>2, <2>1
  <2>3. U = S /\ Cardinality(V) = 0  BY <1>3, <1>4, <2>1
  <2> QED BY <2>2, <2>3
<1> QED BY <1>1, <1>5, <1>6

\* Steps that leave the counters
LEMMA Uncounted ==
  ASSUME NEW c \in Creators,
         \/ \E n \in Names : StartApp(c, n)
         \/ \E n \in LibNames : LoadLibrary(c, n)
         \/ Launch(c) \/ LibraryDone(c)
  PROVE  RegisteredExternalApps' = RegisteredExternalApps /\ RegisteredTasks' = RegisteredTasks
BY DEF StartApp, LoadLibrary, Launch, LibraryDone, tables

(* CFE_ES_AppCreate counts the app that it publishes, CFE_ES_CleanUpApp    *)
(* the one that it reserves: in between no record changes that is known.   *)
LEMMA AppsCounted ==
  ASSUME Types, Types', AppInv, [Next]_vars, RegisteredExternalApps = Cardinality(KnownApps)
  PROVE  RegisteredExternalApps' = Cardinality(KnownApps')
<1> Background \in Creators  BY DEF Creators
<1>1. RESERVED \notin AppIds /\ UNDEFINED \notin AppIds /\ IdsInv  BY RecordTypes DEF AppInv
<1>2. ASSUME RegisteredExternalApps' = RegisteredExternalApps,
             \A i \in AppSlots : AppTable'[i].AppId \in AppIds <=> AppTable[i].AppId \in AppIds
      PROVE  RegisteredExternalApps' = Cardinality(KnownApps')
  <2>1. KnownApps' = KnownApps  BY <1>2 DEF KnownApps
  <2> QED BY <1>2, <2>1
<1>3. CASE UNCHANGED vars  BY <1>2, <1>3 DEF vars, tables
<1> SUFFICES ASSUME Next PROVE RegisteredExternalApps' = Cardinality(KnownApps')  BY <1>3
<1>4. ASSUME NEW c \in Creators, NEW n \in Names \cup {NoName}, AppCreate(c, n)
      PROVE  \A i \in AppSlots : AppTable'[i].AppId \in AppIds <=> AppTable[i].AppId \in AppIds
  <2>1. PICK a \in AppIds :
               /\ AppTable[ToAppIndex(a)].AppId = UNDEFINED /\ AppTable'[ToAppIndex(a)].AppId = RESERVED
               /\ \A i \in AppSlots : i # ToAppIndex(a) => AppTable'[i] = AppTable[i]
    BY <1>4, AppCreateDoes
  <2> QED BY <1>1, <2>1
<1>5. ASSUME NEW c \in Creators, NEW n \in Names, StartApp(c, n)
      PROVE  RegisteredExternalApps' = Cardinality(KnownApps')
  <2>1. PICK m \in Names \cup {NoName} : m = n  OBVIOUS
  <2>2. AppCreate(c, m)  BY <1>5, <2>1 DEF StartApp
  <2> QED BY <1>2, <1>4, <1>5, <2>2, Uncounted
<1>6. ASSUME NEW c \in Creators, (\E n \in LibNames : LoadLibrary(c, n)) \/ LibraryDone(c) \/ Launch(c)
      PROVE  RegisteredExternalApps' = Cardinality(KnownApps')
  <2>1. AppTable' = AppTable  BY <1>6, LoadLibraryDoes, LibraryDoneDoes, LaunchDoes DEF SameApps
  <2>2. RegisteredExternalApps' = RegisteredExternalApps  BY <1>6, Uncounted
  <2> QED BY <1>2, <2>1, <2>2
<1>7. ASSUME NEW c \in Creators, RecordMain(c) PROVE RegisteredExternalApps' = Cardinality(KnownApps')
  BY <1>2, <1>7, RecordMainDoes
<1>8. ASSUME NEW c \in Creators, Publish(c) PROVE RegisteredExternalApps' = Cardinality(KnownApps')
  <2>1. PICK i : i = ToAppIndex(create[c].id)  OBVIOUS
  <2>2. /\ create[c].id \in AppIds /\ i \in AppSlots
        /\ \A j \in AppSlots : j # i => AppTable'[j] = AppTable[j]
        /\ \/ /\ AppTable'[i].AppId = create[c].id
              /\ RegisteredExternalApps' = RegisteredExternalApps + 1
           \/ /\ AppTable'[i].AppId = UNDEFINED
              /\ RegisteredExternalApps' = RegisteredExternalApps
    BY <1>8, <2>1, PublishDoes, Selected
  <2>3. Making(c)  BY <1>8 DEF Publish, Making
  <2>4. AppTable[i].AppId = RESERVED  BY <1>1, <2>1, <2>3 DEF IdsInv
  <2>5. CASE AppTable'[i].AppId = UNDEFINED /\ RegisteredExternalApps' = RegisteredExternalApps
    BY <1>1, <1>2, <2>2, <2>4, <2>5
  <2>6. CASE AppTable'[i].AppId = create[c].id /\ RegisteredExternalApps' = RegisteredExternalApps + 1
    <3>1. KnownApps' = KnownApps \cup {i} /\ i \notin KnownApps
      BY <1>1, <2>2, <2>4, <2>6 DEF KnownApps
    <3>2. Cardinality(KnownApps \cup {i}) = Cardinality(KnownApps) + 1
      BY <3>1, KnownFinite, FS_AddElement
    <3> QED BY <2>6, <3>1, <3>2
  <2> QED BY <2>2, <2>5, <2>6
<1>9. ASSUME CleanUpApp PROVE RegisteredExternalApps' = Cardinality(KnownApps')
  <2>1. bg.at = "List"  BY <1>9 DEF CleanUpApp
  <2>2. bg.id \in AppIds /\ IsMatch(bg.id)  BY <2>1, IdTypes DEF AppInv, IdsInv, RequestInv, Due
  <2>3. PICK i : i = ToAppIndex(bg.id)  OBVIOUS
  <2>4. /\ i \in AppSlots /\ AppTable'[i].AppId = RESERVED
        /\ RegisteredExternalApps' = RegisteredExternalApps - 1
        /\ \A j \in AppSlots : j # i => AppTable'[j] = AppTable[j]
    BY <1>9, <2>2, <2>3, CleanUpAppDoes, Selected
  <2>5. AppTable[i].AppId \in AppIds  BY <2>2, <2>3 DEF IsMatch
  <2>6. KnownApps' = KnownApps \ {i} /\ i \in KnownApps  BY <1>1, <2>4, <2>5 DEF KnownApps
  <2>7. Cardinality(KnownApps \ {i}) = Cardinality(KnownApps) - 1
    BY <2>6, KnownFinite, FS_RemoveElement
  <2> QED BY <2>4, <2>6, <2>7
<1>10. ASSUME FreeRecords PROVE RegisteredExternalApps' = Cardinality(KnownApps')
  <2>1. PICK i : i = ToAppIndex(bg.id)  OBVIOUS
  <2>2. /\ bg.at = "Free" /\ AppTable'[i].AppId = UNDEFINED
        /\ RegisteredExternalApps' = RegisteredExternalApps
        /\ \A j \in AppSlots : j # i => AppTable'[j] = AppTable[j]
    BY <1>10, <2>1, FreeRecordsDoes
  <2>3. AppTable[i].AppId = RESERVED  BY <1>1, <2>1, <2>2 DEF IdsInv, Cleaning
  <2> QED BY <1>1, <1>2, <2>2, <2>3
<1>11. ASSUME RunAppTableScan PROVE RegisteredExternalApps' = Cardinality(KnownApps')
  BY <1>2, <1>11, RunAppTableScanDoes
<1>12. ASSUME ProcessControlRequest \/ NextTask \/ SweepTask \/ DeleteTask \/ RequestDone
       PROVE  RegisteredExternalApps' = Cardinality(KnownApps')
  <2>1. AppTable' = AppTable /\ RegisteredExternalApps' = RegisteredExternalApps
    BY <1>12, ProcessControlRequestDoes, NextTaskDoes, SweepTaskDoes, DeleteTaskDoes, RequestDoneDoes
       DEF SameApps
  <2> QED BY <1>2, <2>1
<1>13. ASSUME Restart PROVE RegisteredExternalApps' = Cardinality(KnownApps')
  <2>1. /\ bg.name \in Names \cup {NoName} /\ AppCreate(Background, bg.name)
        /\ RegisteredExternalApps' = RegisteredExternalApps
    BY <1>13, RestartDoes
  <2>2. PICK c \in Creators, n \in Names \cup {NoName} : c = Background /\ n = bg.name  BY <2>1
  <2>3. AppCreate(c, n)  BY <2>1, <2>2
  <2> QED BY <1>2, <1>4, <2>1, <2>3
<1>14. ASSUME NEW a \in AppIds, NEW req \in Commands, Ask(a, req)
       PROVE  RegisteredExternalApps' = Cardinality(KnownApps')
  BY <1>2, <1>14, AskDoes
<1>15. ASSUME NEW t \in TaskIds,
              \/ Enter(t) \/ Return(t) \/ TaskExit(t) \/ CreateChildTask(t) \/ StartChild(t)
              \/ RecordChild(t) \/ ExitChildTask(t) \/ \E u \in TaskIds : DeleteChildTask(t, u)
       PROVE  RegisteredExternalApps' = Cardinality(KnownApps')
  <2>1. AppTable' = AppTable /\ RegisteredExternalApps' = RegisteredExternalApps
    BY <1>15, EnterDoes, ReturnDoes, CreateChildTaskDoes, StartChildDoes, RecordChildDoes,
       ExitChildTaskDoes, DeleteChildTaskDoes DEF SameApps
  <2> QED BY <1>2, <2>1
<1>16. ASSUME NEW t \in TaskIds, ExitApp(t) PROVE RegisteredExternalApps' = Cardinality(KnownApps')
  BY <1>2, <1>16, ExitAppDoes
<1>17. ASSUME NEW t \in TaskIds, NEW state \in {RUNNING, STOPPED}, Raise(t, state)
       PROVE  RegisteredExternalApps' = Cardinality(KnownApps')
  BY <1>2, <1>17, RaiseDoes
<1> QED BY <1>5, <1>6, <1>7, <1>8, <1>9, <1>10, <1>11, <1>12, <1>13, <1>14, <1>15, <1>16, <1>17,
           Steps, Zenon

(* CFE_ES_StartAppTask counts the record it writes, the end of a child the *)
(* one it frees, and CFE_ES_CleanUpApp those it reserves.                  *)
LEMMA TasksCounted ==
  ASSUME Types, Types', AppInv, TaskInv, PromptInv, LiveInv, [Next]_vars,
         RegisteredTasks = Cardinality(KnownTasks)
  PROVE  RegisteredTasks' = Cardinality(KnownTasks')
<1> Background \in Creators  BY DEF Creators
<1>1. RESERVED \notin TaskIds /\ UNDEFINED \notin TaskIds  BY RecordTypes
<1>2. ASSUME RegisteredTasks' = RegisteredTasks, TaskTable' = TaskTable
      PROVE  RegisteredTasks' = Cardinality(KnownTasks')
  <2>1. KnownTasks' = KnownTasks  BY <1>2 DEF KnownTasks
  <2> QED BY <1>2, <2>1
<1>3. CASE UNCHANGED vars  BY <1>2, <1>3 DEF vars, tables
<1> SUFFICES ASSUME Next PROVE RegisteredTasks' = Cardinality(KnownTasks')  BY <1>3
<1>4. ASSUME NEW t \in TaskIds, NEW a \in AppIds, Pending(t), RecordTask(t, a)
      PROVE  RegisteredTasks' = Cardinality(KnownTasks')
  <2>1. t \in 0..MaxTaskId  BY SlotTypes DEF TaskIds
  <2>2. PICK i : i = ToTaskIndex(t)  OBVIOUS
  <2>3. /\ i \in TaskSlots /\ TaskTable'[i].TaskId = t /\ RegisteredTasks' = RegisteredTasks + 1
        /\ \A j \in TaskSlots : j # i => TaskTable'[j] = TaskTable[j]
    BY <1>4, <2>1, <2>2, RecordTaskDoes
  <2>4. TaskTable[i].TaskId \notin TaskIds  BY <1>4, <2>2, RecordIsNew
  <2>5. KnownTasks' = KnownTasks \cup {i} /\ i \notin KnownTasks  BY <2>3, <2>4 DEF KnownTasks
  <2>6. Cardinality(KnownTasks \cup {i}) = Cardinality(KnownTasks) + 1
    BY <2>5, KnownFinite, FS_AddElement
  <2> QED BY <2>3, <2>5, <2>6
<1>5. ASSUME NEW t \in TaskIds, TaskIsMatch(t), FreeTaskRecord(t)
      PROVE  RegisteredTasks' = Cardinality(KnownTasks')
  <2>1. PICK i : i = ToTaskIndex(t)  OBVIOUS
  <2>2. /\ i \in TaskSlots /\ TaskTable'[i].TaskId = UNDEFINED /\ RegisteredTasks' = RegisteredTasks - 1
        /\ \A j \in TaskSlots : j # i => TaskTable'[j] = TaskTable[j]
    BY <1>5, <2>1, FreeTaskRecordDoes
  <2>3. TaskTable[i].TaskId \in TaskIds  BY <1>5, <2>1 DEF TaskIsMatch
  <2>4. KnownTasks' = KnownTasks \ {i} /\ i \in KnownTasks  BY <1>1, <2>2, <2>3 DEF KnownTasks
  <2>5. Cardinality(KnownTasks \ {i}) = Cardinality(KnownTasks) - 1
    BY <2>4, KnownFinite, FS_RemoveElement
  <2> QED BY <2>2, <2>4, <2>5
<1>6. ASSUME NEW c \in Creators,
             \/ \E n \in Names : StartApp(c, n)
             \/ \E n \in LibNames : LoadLibrary(c, n)
             \/ LibraryDone(c) \/ Launch(c) \/ Publish(c)
      PROVE  RegisteredTasks' = Cardinality(KnownTasks')
  <2>1. TaskTable' = TaskTable
    BY <1>6, StartAppDoes, LoadLibraryDoes, LibraryDoneDoes, LaunchDoes, PublishDoes DEF SameTasks
  <2>2. RegisteredTasks' = RegisteredTasks  BY <1>6, Uncounted, PublishDoes
  <2> QED BY <1>2, <2>1, <2>2
<1>7. ASSUME NEW c \in Creators, RecordMain(c) PROVE RegisteredTasks' = Cardinality(KnownTasks')
  <2>1. create[c].at = "Record" /\ RecordTask(create[c].task, create[c].id)  BY <1>7 DEF RecordMain
  <2>2. PICK t \in TaskIds : t = create[c].task  BY <2>1 DEF TaskInv, PendingInv
  <2>3. PICK a \in AppIds : a = create[c].id  BY <2>1 DEF Types
  <2>4. Pending(t)  BY <2>1, <2>2 DEF Pending, MainPending
  <2> QED BY <1>4, <2>1, <2>2, <2>3, <2>4
<1>8. ASSUME NEW p \in TaskIds, RecordChild(p) PROVE RegisteredTasks' = Cardinality(KnownTasks')
  <2>1. os[p].at = "Record" /\ RecordTask(os[p].child, os[p].app)  BY <1>8 DEF RecordChild
  <2>2. PICK t \in TaskIds : t = os[p].child  BY <2>1 DEF TaskInv, PendingInv
  <2>3. PICK a \in AppIds : a = os[p].app  BY <2>1 DEF Types
  <2>4. Pending(t)  BY <2>1, <2>2 DEF Pending, ChildPending
  <2> QED BY <1>4, <2>1, <2>2, <2>3, <2>4
<1>9. ASSUME CleanUpApp PROVE RegisteredTasks' = Cardinality(KnownTasks')
  <2>1. bg.at = "List"  BY <1>9 DEF CleanUpApp
  <2>2. bg.id \in AppIds  BY <2>1, IdTypes DEF AppInv, IdsInv
  <2>3. PICK a \in AppIds : a = bg.id  BY <2>2
  <2>4. PICK R : R = {i \in TaskSlots : TaskTable[i].TaskId \in TasksOf(a)}  OBVIOUS
  <2>5. /\ RegisteredTasks' = RegisteredTasks - Cardinality(TasksOf(a))
        /\ \A i \in TaskSlots : IF TaskTable[i].TaskId \in TasksOf(a)
                                THEN TaskTable'[i].TaskId = RESERVED
                                ELSE TaskTable'[i] = TaskTable[i]
    BY <1>9, <2>2, <2>3, CleanUpAppDoes
  <2>6. R \subseteq KnownTasks /\ Cardinality(R) = Cardinality(TasksOf(a))  BY <2>4, TasksOfCount
  <2>7. KnownTasks' = KnownTasks \ R
    <3>1. \A i \in TaskSlots : i \in R => TaskTable'[i].TaskId \notin TaskIds  BY <1>1, <2>4, <2>5
    <3>2. \A i \in TaskSlots : i \notin R => TaskTable'[i] = TaskTable[i]  BY <2>4, <2>5
    <3> QED BY <2>6, <3>1, <3>2 DEF KnownTasks
  <2>8. Cardinality(KnownTasks \ R) = Cardinality(KnownTasks) - Cardinality(R)
    BY <2>6, KnownFinite, CardDifference
  <2> QED BY <2>5, <2>6, <2>7, <2>8
<1>10. ASSUME FreeRecords PROVE RegisteredTasks' = Cardinality(KnownTasks')
  <2>1. /\ RegisteredTasks' = RegisteredTasks
        /\ \A i \in TaskSlots : IF TaskTable[i].TaskId = RESERVED
                                THEN TaskTable'[i].TaskId = UNDEFINED
                                ELSE TaskTable'[i] = TaskTable[i]
    BY <1>10, FreeRecordsDoes
  <2>2. KnownTasks' = KnownTasks  BY <1>1, <2>1 DEF KnownTasks
  <2> QED BY <2>1, <2>2
<1>11. ASSUME \/ RunAppTableScan \/ ProcessControlRequest \/ NextTask \/ SweepTask \/ DeleteTask
              \/ Restart \/ RequestDone
       PROVE  RegisteredTasks' = Cardinality(KnownTasks')
  <2>1. TaskTable' = TaskTable /\ RegisteredTasks' = RegisteredTasks
    BY <1>11, RunAppTableScanDoes, ProcessControlRequestDoes, NextTaskDoes, SweepTaskDoes,
       DeleteTaskDoes, RestartDoes, RequestDoneDoes DEF SameTasks
  <2> QED BY <1>2, <2>1
<1>12. ASSUME \/ \E a \in AppIds, req \in Commands : Ask(a, req)
              \/ \E t \in TaskIds, state \in {RUNNING, STOPPED} : Raise(t, state)
       PROVE  RegisteredTasks' = Cardinality(KnownTasks')
  BY <1>2, <1>12, AskDoes, RaiseDoes DEF SameTasks
<1>13. ASSUME NEW t \in TaskIds,
              \/ Enter(t) \/ Return(t) \/ TaskExit(t) \/ CreateChildTask(t) \/ StartChild(t) \/ ExitApp(t)
       PROVE  RegisteredTasks' = Cardinality(KnownTasks')
  <2>1. TaskTable' = TaskTable /\ RegisteredTasks' = RegisteredTasks
    BY <1>13, EnterDoes, ReturnDoes, CreateChildTaskDoes, StartChildDoes, ExitAppDoes DEF SameTasks
  <2> QED BY <1>2, <2>1
<1>14. ASSUME NEW t \in TaskIds, ExitChildTask(t) PROVE RegisteredTasks' = Cardinality(KnownTasks')
  BY <1>5, <1>14 DEF ExitChildTask, InContext
<1>15. ASSUME NEW t \in TaskIds, NEW u \in TaskIds, DeleteChildTask(t, u)
       PROVE  RegisteredTasks' = Cardinality(KnownTasks')
  BY <1>5, <1>15 DEF DeleteChildTask
<1> QED BY <1>6, <1>7, <1>8, <1>9, <1>10, <1>11, <1>12, <1>13, <1>14, <1>15, Steps, Zenon

LEMMA CountersInit == Init => CountersExact
<1> SUFFICES ASSUME Init PROVE CountersExact  OBVIOUS
<1>1. UNDEFINED \notin AppIds /\ UNDEFINED \notin TaskIds  BY RecordTypes
<1>2. KnownApps = {} /\ KnownTasks = {}  BY <1>1 DEF Init, FreeApp, FreeTask, KnownApps, KnownTasks
<1> QED BY <1>2, FS_EmptySet DEF Init, CountersExact, KnownApps, KnownTasks

(* The counts in the housekeeping packet are those of the records that ES  *)
(* finds, if no child task returns without CFE_ES_ExitChildTask, which     *)
(* would leave its record (CFE_ES_StartAppTask, CFE_ES_CleanUpApp).        *)
THEOREM CountersHold == Prompt /\ ~Returns /\ Spec => []CountersExact
<1>1. Init => Types /\ AppInv /\ TaskInv /\ PromptInv /\ LiveInv /\ CountersExact
  BY TypesInit, AppsInit, TasksInit, PromptInit, LiveInit, CountersInit
<1>2. Prompt /\ ~Returns /\ (Types /\ AppInv /\ TaskInv /\ PromptInv /\ LiveInv /\ CountersExact)
        /\ [Next]_vars =>
      (Prompt /\ ~Returns /\ Types /\ AppInv /\ TaskInv /\ PromptInv /\ LiveInv /\ CountersExact)'
  <2> SUFFICES ASSUME Prompt, ~Returns, Types, AppInv, TaskInv, PromptInv, LiveInv, CountersExact,
                      [Next]_vars
               PROVE  Types' /\ AppInv' /\ TaskInv' /\ PromptInv' /\ LiveInv' /\ CountersExact'
    OBVIOUS
  <2>1. Types' /\ AppInv'  BY AppsStep
  <2>2. TaskInv'  BY <2>1, TasksStep
  <2>3. PromptInv'  BY <2>1, PromptStep
  <2>4. LiveInv'  BY <2>1, LiveStep
  <2>5. RegisteredExternalApps' = Cardinality(KnownApps') /\ RegisteredTasks' = Cardinality(KnownTasks')
    BY <2>1, AppsCounted, TasksCounted DEF CountersExact, KnownApps, KnownTasks
  <2>6. CountersExact'  BY <2>5 DEF CountersExact, KnownApps, KnownTasks
  <2> QED BY <2>1, <2>2, <2>3, <2>4, <2>6
<1> QED BY <1>1, <1>2, PTL DEF Spec
=============================================================================
