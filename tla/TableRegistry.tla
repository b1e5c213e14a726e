---------------------------- MODULE TableRegistry ----------------------------
(***************************************************************************)
(* The registry of tables and the handles apps have on them                *)
(* (src/modules/tbl): registration, sharing, unregistration, the clean up  *)
(* of an app, and what the service keeps of critical tables in the         *)
(* Critical Data Store, so that they are recovered after a processor       *)
(* reset.                                                                  *)
(*                                                                         *)
(* A call is one region under the registry's mutex, but for the copies to  *)
(* the store, each a step of its own since a reset may come between them   *)
(* (op says which is next while the mutex is held), and for CFE_TBL_Load   *)
(* and CFE_TBL_Modified, which copy after they let go of the mutex.  A     *)
(* clean up is one region for each handle.                                 *)
(*                                                                         *)
(* IDs are the entries they name: an ID of a former use of an entry is     *)
(* refused before anything changes.  Loads are what they make active;      *)
(* how they come about is in TableLoad.                                    *)
(***************************************************************************)
EXTENDS Integers, FiniteSets, FiniteSetsExt

CONSTANTS
  Apps,         \* applications, one task each
  Names,        \* full names of tables
  Owner,        \* the application that registers each name
  Records,      \* entries of the registry
  Descriptors,  \* entries of the table of access descriptors
  Images,       \* contents of tables
  Kinds,        \* the kinds each name is registered as: [double, critical : BOOLEAN]
  MaxCritical,  \* CFE_PLATFORM_TBL_MAX_CRITICAL_TABLES
  MaxStores,    \* bound: IDs of stores
  PoolBlocks,   \* blocks in the pool that buffers are taken from
  None          \* no name, no app, no image, nothing

ASSUME TableAssumption == /\ Owner \in [Names -> Apps]
                          /\ Kinds \in [Names -> SUBSET [double : BOOLEAN, critical : BOOLEAN]]
                          /\ Records \cap Descriptors = {} /\ IsFiniteSet(Records)
ASSUME BoundAssumption == MaxCritical \in Nat /\ MaxStores \in Nat /\ PoolBlocks \in Nat
ASSUME NoneAssumption == None \notin Apps \cup Names \cup Images \cup Records \cup Descriptors

VARIABLES
  app,          \* each app: "out", "running", or "cleaning" while its resources are given back
  todo,         \* the descriptors its clean up has yet to come to
  Registry,     \* CFE_TBL_Global.Registry
  Handles,      \* CFE_TBL_Global.Handles
  Link,         \* Next and Prev of each descriptor and of each record's AccessList
  pool,         \* blocks left in the pool
  CritReg,      \* CFE_TBL_Global.CritReg
  SavedCritReg, \* its copy in the Critical Data Store
  Cds,          \* the store of each name: its ID, 0 for none, and the image in it
  op,           \* the call that holds the mutex, and its next copy to the store
  copying,      \* what an app in CFE_TBL_Load or CFE_TBL_Modified has yet to do without the mutex
  deleting,     \* the entry CFE_TBL_DeleteCDSCmd is about to free, or 0
  may           \* history: what a registration of each name may recover

handleVars == <<Registry, Handles, Link, pool>>
storeVars  == <<CritReg, SavedCritReg, Cds>>
vars == <<app, todo, handleVars, storeVars, op, copying, deleting, may>>

Rec == [used : BOOLEAN, name : Names \cup {None}, owner : Apps \cup {None}, double : BOOLEAN,
        critical : BOOLEAN, blocks : 0..2, active : 0..2, buffer : [1..2 -> Images \cup {None}],
        cds : 0..MaxStores]
FreeRec   == [used |-> FALSE, name |-> None, owner |-> None, double |-> FALSE, critical |-> FALSE,
              blocks |-> 0, active |-> 0, buffer |-> [b \in 1..2 |-> None], cds |-> 0]
FreeDesc  == [used |-> FALSE, app |-> None, reg |-> None]
NoLink    == [next |-> None, prev |-> None]
FreeCrit  == [cds |-> 0, name |-> None, loaded |-> FALSE]
NoStore   == [id |-> 0, image |-> None]
Idle      == [at |-> "Idle", app |-> None, rec |-> None, raced |-> FALSE]
NotCopying == [at |-> "No", rec |-> None, buf |-> 0, raced |-> FALSE]
Recovery  == Images \cup {None}

Init ==
  /\ app = [a \in Apps |-> "out"]
  /\ todo = [a \in Apps |-> {}]
  /\ Registry = [r \in Records |-> FreeRec]
  /\ Handles = [d \in Descriptors |-> FreeDesc]
  /\ Link = [x \in Records \cup Descriptors |-> NoLink]
  /\ pool = PoolBlocks
  /\ op = Idle
  /\ copying = [a \in Apps |-> NotCopying]
  /\ deleting = 0
  /\ CritReg = [e \in 1..MaxCritical |-> FreeCrit]
  /\ SavedCritReg = CritReg
  /\ Cds = [n \in Names |-> NoStore]
  /\ may = [n \in Names |-> {None}]

-----------------------------------------------------------------------------
(* Lists of access descriptors: circular, through the record itself.       *)

\* An undefined handle leads to the head of the list
SafeLink(r, d) == IF d = None THEN r ELSE d

InsertLink(r, d) ==
  LET next == Link[r].next
  IN  [[Link EXCEPT ![d] = [next |-> next, prev |-> None]]
        EXCEPT ![r].next = d, ![SafeLink(r, next)].prev = d]

\* Faulty form: the successor keeps its way back to what was removed.
RemoveLinkOneWay(r, d) ==
  [[Link EXCEPT ![SafeLink(r, Link[d].prev)].next = Link[d].next] EXCEPT ![d] = NoLink]

RemoveLink(r, d) ==
  LET next == Link[d].next
      prev == Link[d].prev
  IN  [[[Link EXCEPT ![SafeLink(r, prev)].next = next]
         EXCEPT ![SafeLink(r, next)].prev = prev]
         EXCEPT ![d] = NoLink]

IsAttached(link) == link.next # None

(* Registration. *)

FreeRecords     == {r \in Records : ~Registry[r].used}
FreeDescriptors == {d \in Descriptors : ~Handles[d].used}
Named(n)        == {r \in Records : Registry[r].used /\ Registry[r].name = n}
Unlocked        == op = Idle
MayCall(a)      == app[a] = "running" /\ op.app # a /\ copying[a] = NotCopying

\* A call of CFE_TBL_Register that finds no record of that name and a free one
Registers(a, n, r) == MayCall(a) /\ Unlocked /\ Owner[n] = a /\ Named(n) = {} /\ r \in FreeRecords

BlocksOf(kind) == IF kind.double THEN 2 ELSE 1

Register(a, n, kind) ==
  \E r \in Records, d \in FreeDescriptors :
    /\ Registers(a, n, r)
    /\ pool >= BlocksOf(kind)
    /\ pool' = pool - BlocksOf(kind)
    /\ Registry' = [Registry EXCEPT ![r] =
         [FreeRec EXCEPT !.used = TRUE, !.name = n, !.owner = a, !.double = kind.double,
                         !.blocks = BlocksOf(kind)]]
    /\ Handles' = [Handles EXCEPT ![d] = [used |-> TRUE, app |-> a, reg |-> r]]
    /\ Link' = InsertLink(r, d)
    /\ op' = IF kind.critical THEN [Idle EXCEPT !.at = "RegisterCds", !.app = a, !.rec = r] ELSE Idle
    /\ UNCHANGED <<app, todo, storeVars, copying, deleting, may>>

\* Without a descriptor or a block the call fails; what it has taken stays:
\* a record without a name, a descriptor of no app, the first of two blocks
RegisterFails(a, n, kind) ==
  \E r \in Records :
    /\ Registers(a, n, r)
    /\ \/ FreeDescriptors = {} /\ UNCHANGED <<Handles, pool>>
          /\ Registry' = [Registry EXCEPT ![r] = [FreeRec EXCEPT !.used = TRUE]]
       \/ \E d \in FreeDescriptors :
            /\ pool < BlocksOf(kind)
            /\ pool' = 0
            /\ Handles' = [Handles EXCEPT ![d] = [FreeDesc EXCEPT !.used = TRUE]]
            /\ Registry' = [Registry EXCEPT ![r] =
                 [FreeRec EXCEPT !.used = TRUE, !.blocks = pool]]
    /\ UNCHANGED <<app, todo, Link, storeVars, op, copying, deleting, may>>

-----------------------------------------------------------------------------
(* Critical tables. *)

\* The entry found for a store, 0 if there is none
Info(reg, id) ==
  LET found == {e \in 1..MaxCritical : reg[e].cds = id}
  IN  IF found = {} THEN 0 ELSE Min(found)

LoadedOnce(reg, id) == Info(reg, id) # 0 /\ reg[Info(reg, id)].loaded

\* CFE_ES_RegisterCDSEx and, when the store exists, the attempt to restore.  A new store has in
\* it whatever its block had
RegisterCds ==
  LET r == op.rec
      n == Registry[r].name
  IN
  /\ op.at = "RegisterCds"
  /\ \/ /\ Cds[n].id = 0
        /\ op' = Idle
        /\ UNCHANGED <<Registry, Cds, may>>
     \/ \E id \in 1..MaxStores \ {Cds[m].id : m \in Names}, image \in Recovery :
          /\ Cds[n].id = 0
          /\ Cds' = [Cds EXCEPT ![n] = [id |-> id, image |-> image]]
          /\ Registry' = [Registry EXCEPT ![r].cds = id]
          /\ op' = [op EXCEPT !.at = "SaveCrit"]
          /\ may' = IF LoadedOnce(CritReg, id) \/ LoadedOnce(SavedCritReg, id)
                    THEN [may EXCEPT ![n] = Recovery] ELSE may
     \/ /\ Cds[n].id # 0
        /\ IF Cds[n].image # None /\ LoadedOnce(CritReg, Cds[n].id)
           THEN /\ Registry' = [Registry EXCEPT ![r].cds = Cds[n].id, ![r].critical = TRUE,
                                  ![r].active = 1, ![r].buffer[1] = Cds[n].image]
                /\ op' = Idle
           ELSE /\ Registry' = [Registry EXCEPT ![r].cds = Cds[n].id, ![r].critical = TRUE]
                /\ op' = [op EXCEPT !.at = "SaveCrit"]
        /\ UNCHANGED <<Cds, may>>
  /\ UNCHANGED <<app, todo, Handles, Link, pool, CritReg, SavedCritReg, copying, deleting>>

\* The critical registry with an entry for record r, if one is free; the entry
\* keeps TableLoadedOnce of the table that had it before
WithEntry(r) ==
  LET e == Info(CritReg, 0)
  IN  IF e = 0 THEN CritReg
      ELSE [CritReg EXCEPT ![e].cds = Registry[r].cds, ![e].name = Registry[r].name]

RegisterWithCriticalTableRegistry ==
  LET r == op.rec
  IN  /\ op.at = "SaveCrit"
      /\ CritReg' = WithEntry(r)
      /\ SavedCritReg' = IF Info(CritReg, 0) = 0 THEN SavedCritReg ELSE CritReg'
      /\ Registry' = [Registry EXCEPT ![r].critical = TRUE]
      /\ may' = IF LoadedOnce(CritReg', Registry[r].cds)
                THEN [may EXCEPT ![Registry[r].name] = Recovery] ELSE may
      /\ op' = Idle
      /\ UNCHANGED <<app, todo, Handles, Link, pool, Cds, copying, deleting>>

-----------------------------------------------------------------------------
(* Sharing, unregistration and clean up. *)

Share(a, n) ==
  \E r \in Named(n), d \in FreeDescriptors :
    /\ MayCall(a) /\ Unlocked
    /\ Handles' = [Handles EXCEPT ![d] = [used |-> TRUE, app |-> a, reg |-> r]]
    /\ Link' = InsertLink(r, d)
    /\ UNCHANGED <<app, todo, Registry, pool, storeVars, op, copying, deleting, may>>

\* Faulty form: the record goes with its owner, though others share the table.
ReleaseWithOwner(a, d) ==
  LET r    == Handles[d].reg
      last == Registry[r].owner \in {a, None}
  IN  /\ Link' = RemoveLink(r, d)
      /\ Registry' = IF last THEN [Registry EXCEPT ![r] = FreeRec] ELSE Registry
      /\ pool' = IF last THEN pool + Registry[r].blocks ELSE pool
      /\ Handles' = [Handles EXCEPT ![d] = FreeDesc]

\* CFE_TBL_TxnReleaseAccDesc: the owner gives the table up, the last one who
\* has a handle gives its record and its buffers back
Release(a, d) ==
  LET r     == Handles[d].reg
      owner == IF Registry[r].owner = a THEN None ELSE Registry[r].owner
      last  == owner = None /\ ~IsAttached(RemoveLink(r, d)[r])
  IN  /\ Link' = RemoveLink(r, d)
      /\ Registry' = [Registry EXCEPT ![r] =
           IF last THEN FreeRec ELSE [Registry[r] EXCEPT !.owner = owner]]
      /\ pool' = IF last THEN pool + Registry[r].blocks ELSE pool
      /\ Handles' = [Handles EXCEPT ![d] = FreeDesc]

Unregister(a) ==
  \E d \in Descriptors :
    /\ MayCall(a) /\ Unlocked
    /\ Handles[d].app = a
    /\ Release(a, d)
    /\ UNCHANGED <<app, todo, storeVars, op, copying, deleting, may>>

\* ES starts an app, and has one cleaned up that makes no more calls
StartApp(a) ==
  /\ app[a] = "out"
  /\ app' = [app EXCEPT ![a] = "running"]
  /\ UNCHANGED <<todo, handleVars, storeVars, op, copying, deleting, may>>

StopApp(a) ==
  /\ MayCall(a)
  /\ app' = [app EXCEPT ![a] = "cleaning"]
  /\ todo' = [todo EXCEPT ![a] = {d \in Descriptors : Handles[d].app = a}]
  /\ UNCHANGED <<handleVars, storeVars, op, copying, deleting, may>>

\* A turn of the loop of CFE_TBL_CleanUpApp that comes to a handle of the app
CleanUpApp(a) ==
  \E d \in todo[a] :
    /\ app[a] = "cleaning" /\ Unlocked
    /\ todo' = [todo EXCEPT ![a] = @ \ {d}]
    /\ Release(a, d)
    /\ UNCHANGED <<app, storeVars, op, copying, deleting, may>>

CleanUpDone(a) ==
  /\ app[a] = "cleaning" /\ todo[a] = {}
  /\ app' = [app EXCEPT ![a] = "out"]
  /\ UNCHANGED <<todo, handleVars, storeVars, op, copying, deleting, may>>

-----------------------------------------------------------------------------
(* Contents. *)

Promise(n, images) == may' = [may EXCEPT ![n] = images]

\* Apps that have changed record r and are to copy it without the mutex
Copiers(r) == {a \in Apps : copying[a].rec = r /\ copying[a].at # "Load"}

\* The buffer for the next image: the one that is not active, of two
NextBuffer(r) == IF Registry[r].double /\ Registry[r].active = 1 THEN 2 ELSE 1

\* Image v becomes the active one of record r, in buffer b
Activates(r, b, v) == Registry' = [Registry EXCEPT ![r].active = b, ![r].buffer[b] = v]

\* App a is to copy buffer b of record r; with others at it, the order in
\* which the copies come need not be that of the images
CopiesNext(a, r, b, v) ==
  /\ copying' = [m \in Apps |->
       IF m = a THEN [at |-> "CopyData", rec |-> r, buf |-> b, raced |-> Copiers(r) # {}]
       ELSE IF m \in Copiers(r) THEN [copying[m] EXCEPT !.raced = TRUE]
       ELSE copying[m]]
  /\ Promise(Registry[r].name, may[Registry[r].name] \cup {v, None})

\* CFE_TBL_Update by the owner, from CFE_TBL_Manage as a rule: v was loaded before
Update(a, v) ==
  \E d \in Descriptors :
    LET r == Handles[d].reg
    IN
    /\ MayCall(a) /\ Unlocked
    /\ Handles[d].app = a /\ Registry[r].owner = a
    /\ Activates(r, NextBuffer(r), v)
    /\ IF Registry[r].critical
       THEN /\ op' = [at |-> "CopyData", app |-> a, rec |-> r, raced |-> Copiers(r) # {}]
            /\ copying' = [m \in Apps |-> IF m \in Copiers(r)
                                          THEN [copying[m] EXCEPT !.raced = TRUE]
                                          ELSE copying[m]]
            /\ Promise(Registry[r].name, may[Registry[r].name] \cup {v, None})
       ELSE UNCHANGED <<op, may, copying>>
    /\ UNCHANGED <<app, todo, Handles, Link, pool, storeVars, deleting>>

\* CFE_TBL_Load by the owner gives the mutex back before it reads the image,
\* and makes it active without
Load(a) ==
  \E d \in Descriptors :
    /\ MayCall(a) /\ Unlocked
    /\ Handles[d].app = a /\ Registry[Handles[d].reg].owner = a
    /\ copying' = [copying EXCEPT ![a] = [NotCopying EXCEPT !.at = "Load", !.rec = Handles[d].reg]]
    /\ UNCHANGED <<app, todo, handleVars, storeVars, op, deleting, may>>

LoadFinish(a, v) ==
  LET r == copying[a].rec
  IN  /\ copying[a].at = "Load"
      /\ Activates(r, NextBuffer(r), v)
      /\ IF Registry[r].critical THEN CopiesNext(a, r, NextBuffer(r), v)
         ELSE copying' = [copying EXCEPT ![a] = NotCopying] /\ UNCHANGED may
      /\ UNCHANGED <<app, todo, Handles, Link, pool, storeVars, op, deleting>>

\* CFE_ES_CopyToCDS of buffer b of record r
CopyData(r, b) == Cds' = [Cds EXCEPT ![Registry[r].name].image = Registry[r].buffer[b]]

\* Faulty form: the critical registry is saved with new entries only.
SaveEntryInMemory(r) ==
  LET e == Info(CritReg, Registry[r].cds)
  IN  /\ CritReg' = IF e = 0 THEN CritReg ELSE [CritReg EXCEPT ![e].loaded = TRUE]
      /\ UNCHANGED SavedCritReg

\* The rest of CFE_TBL_UpdateCriticalTblCDS, when the table has an entry
SaveEntry(r) ==
  LET e == Info(CritReg, Registry[r].cds)
  IN  /\ CritReg' = IF e = 0 THEN CritReg ELSE [CritReg EXCEPT ![e].loaded = TRUE]
      /\ SavedCritReg' = IF e = 0 THEN SavedCritReg ELSE CritReg'

\* What a whole copy of the active image promises
Kept(r) == IF Info(CritReg, Registry[r].cds) # 0 THEN {Registry[r].buffer[Registry[r].active]}
           ELSE IF LoadedOnce(SavedCritReg, Registry[r].cds) THEN Recovery
           ELSE {None}

UpdateCDS ==
  /\ op.at = "CopyData"
  /\ CopyData(op.rec, Registry[op.rec].active)
  /\ op' = [op EXCEPT !.at = "SaveEntry"]
  /\ UNCHANGED <<app, todo, handleVars, CritReg, SavedCritReg, copying, deleting, may>>

UpdateCritReg ==
  /\ op.at = "SaveEntry"
  /\ SaveEntry(op.rec)
  /\ op' = Idle
  /\ Promise(Registry[op.rec].name, IF op.raced THEN Recovery ELSE Kept(op.rec))
  /\ UNCHANGED <<app, todo, handleVars, Cds, copying, deleting>>

\* An app with a handle wrote v into the active buffer and says so
Modified(a, v) ==
  \E d \in Descriptors :
    LET r == Handles[d].reg
        b == Registry[r].active
    IN
    /\ MayCall(a) /\ Unlocked
    /\ Handles[d].app = a /\ b # 0
    /\ Activates(r, b, v)
    /\ IF Registry[r].critical THEN CopiesNext(a, r, b, v) ELSE UNCHANGED <<copying, may>>
    /\ UNCHANGED <<app, todo, Handles, Link, pool, storeVars, op, deleting>>

\* The copies without the mutex: of the buffer that was active or, if the look at
\* the record came late, is now
CopyUnlocked(a) ==
  LET r == copying[a].rec
  IN  /\ copying[a].at = "CopyData"
      /\ \E b \in {copying[a].buf, Registry[r].active} : CopyData(r, b)
      /\ copying' = [copying EXCEPT ![a].at = "SaveEntry"]
      /\ UNCHANGED <<app, todo, handleVars, CritReg, SavedCritReg, op, deleting, may>>

SaveUnlocked(a) ==
  LET r == copying[a].rec
  IN  /\ copying[a].at = "SaveEntry"
      /\ SaveEntry(r)
      /\ copying' = [copying EXCEPT ![a] = NotCopying]
      /\ Promise(Registry[r].name, IF copying[a].raced THEN Recovery ELSE Kept(r))
      /\ UNCHANGED <<app, todo, handleVars, Cds, op, deleting>>

-----------------------------------------------------------------------------
(* The command that deletes a store, in two steps without the mutex. *)

DeleteCDSCmd(n) ==
  LET entries == {e \in 1..MaxCritical : CritReg[e].name = n}
  IN  /\ deleting = 0
      /\ Named(n) = {} /\ entries # {}
      /\ Cds[n].id # 0 /\ app[Owner[n]] = "out"
      /\ Cds' = [Cds EXCEPT ![n] = NoStore]
      /\ deleting' = Min(entries)
      /\ Promise(n, {None})
      /\ UNCHANGED <<app, todo, handleVars, CritReg, SavedCritReg, op, copying>>

FreeEntry ==
  /\ deleting # 0
  /\ CritReg' = [CritReg EXCEPT ![deleting].cds = 0]
  /\ deleting' = 0
  /\ may' = [n \in Names |-> IF Cds[n].id # 0 /\ Cds[n].id = CritReg[deleting].cds
                             THEN Recovery ELSE may[n]]
  /\ UNCHANGED <<app, todo, handleVars, SavedCritReg, Cds, op, copying>>

\* A processor reset.  It may tear a copy of an image, which then fails its
\* check, or leave an entry of the critical registry with one field of two;
\* of the critical registry the table service takes what it finds
Reset ==
  LET torn == {Registry[r].name : r \in {copying[a].rec : a \in
                 {m \in Apps : copying[m].at = "CopyData"}}}
              \cup (IF op.at = "CopyData" THEN {Registry[op.rec].name} ELSE {})
      new  == WithEntry(op.rec)
  IN  /\ \E lost \in SUBSET torn :
           Cds' = [n \in Names |-> IF n \in lost THEN [Cds[n] EXCEPT !.image = None] ELSE Cds[n]]
      /\ \/ UNCHANGED SavedCritReg
         \/ /\ op.at = "SaveCrit"
            /\ \E e \in 1..MaxCritical : \/ SavedCritReg' = [CritReg EXCEPT ![e].cds = new[e].cds]
                                         \/ SavedCritReg' = [CritReg EXCEPT ![e].name = new[e].name]
      /\ CritReg' = SavedCritReg'
      /\ IF op.at = "SaveCrit" /\ LoadedOnce(new, Registry[op.rec].cds)
         THEN Promise(Registry[op.rec].name, Recovery) ELSE UNCHANGED may
      /\ app' = [a \in Apps |-> "out"]
      /\ todo' = [a \in Apps |-> {}]
      /\ Registry' = [r \in Records |-> FreeRec]
      /\ Handles' = [d \in Descriptors |-> FreeDesc]
      /\ Link' = [x \in Records \cup Descriptors |-> NoLink]
      /\ pool' = PoolBlocks
      /\ op' = Idle
      /\ copying' = [a \in Apps |-> NotCopying]
      /\ deleting' = 0

Next ==
  \/ RegisterCds \/ RegisterWithCriticalTableRegistry
  \/ UpdateCDS \/ UpdateCritReg \/ FreeEntry \/ Reset
  \/ \E n \in Names : DeleteCDSCmd(n)
  \/ \E a \in Apps :
       \/ StartApp(a) \/ StopApp(a) \/ CleanUpApp(a) \/ CleanUpDone(a)
       \/ Unregister(a) \/ Load(a) \/ CopyUnlocked(a) \/ SaveUnlocked(a)
       \/ \E n \in Names : Share(a, n)
       \/ \E n \in Names : \E kind \in Kinds[n] : Register(a, n, kind) \/ RegisterFails(a, n, kind)
       \/ \E v \in Images : Update(a, v) \/ LoadFinish(a, v) \/ Modified(a, v)

Spec == Init /\ [][Next]_vars

-----------------------------------------------------------------------------
(* Properties. *)

HandlesOn(r) == {d \in Descriptors : Handles[d].used /\ Handles[d].reg = r}

\* The list of each record is one ring through all handles on it, the same in
\* both directions, whatever the order in which they come and go: updates are told and readers
\* found along it (CFE_TBL_HandleListInsertLink, CFE_TBL_HandleListRemoveLink)
ListsSound ==
  \A r \in Records : Registry[r].used =>
    LET ring    == HandlesOn(r) \cup {r}
        Succ(x) == SafeLink(r, Link[x].next)
    IN  /\ \A x \in ring : Succ(x) \in ring /\ SafeLink(r, Link[Succ(x)].prev) = x
        /\ \A part \in SUBSET HandlesOn(r) : part # {} => \E x \in part : Succ(x) \notin part

\* The blocks that records have, the first and the second of each
Taken == {x \in Records \X (1..2) : x[2] <= Registry[x[1]].blocks}

\* Registry, handles and buffers agree at every step of any clean up: a record is there for as
\* long as a handle, its owner has one and runs, no handle is of an app that is gone or on a record that is,
\* and no block is lost, but for what a registration that failed left (CFE_TBL_TxnReleaseAccDesc,
\* CFE_TBL_TxnRemoveAccessLink, CFE_TBL_CleanUpApp)
NothingLost ==
  /\ \A r \in Records : Registry[r].used /\ Registry[r].name # None =>
       /\ HandlesOn(r) # {}
       /\ Registry[r].owner # None => /\ app[Registry[r].owner] # "out"
                                      /\ \E d \in HandlesOn(r) : Handles[d].app = Registry[r].owner
  /\ \A d \in Descriptors : Handles[d].used /\ Handles[d].app # None =>
       app[Handles[d].app] # "out" /\ Registry[Handles[d].reg].used
  /\ pool + Cardinality(Taken) = PoolBlocks

\* A critical table that is registered again has the image that was active last, whatever resets
\* came between its copies and registrations; if one cut an update, the image before, the new
\* one or none; unless CFE_TBL_Modified of another app raced with an update, or the
\* table was given the entry of a deleted one (CFE_TBL_RestoreTableDataFromCDS,
\* CFE_TBL_UpdateCriticalTblCDS)
LastImageRecovered ==
  [][op.at = "RegisterCds" /\ op' # op /\ Registry'[op.rec].used =>
       LET rec == Registry'[op.rec]
       IN  (IF rec.active = 0 THEN None ELSE rec.buffer[rec.active]) \in may[rec.name]]_vars
=============================================================================
