--------------------------- MODULE TableRegistryInv ---------------------------
(***************************************************************************)
(* The inductive invariants behind the theorems of TableRegistryProofs.    *)
(***************************************************************************)
EXTENDS TableRegistry

Desc    == [used : BOOLEAN, app : Apps \cup {None}, reg : Records \cup {None}]
Links   == [next : Descriptors \cup {None}, prev : Descriptors \cup {None}]
Crit    == [cds : 0..MaxStores, name : Names \cup {None}, loaded : BOOLEAN]
Store   == [id : 0..MaxStores, image : Recovery]
Call    == [at : {"Idle", "RegisterCds", "SaveCrit", "CopyData", "SaveEntry"},
            app : Apps \cup {None}, rec : Records \cup {None}, raced : BOOLEAN]
Copy    == [at : {"No", "Load", "CopyData", "SaveEntry"},
            rec : Records \cup {None}, buf : 0..2, raced : BOOLEAN]

\* Every variable has its type.
TypeOK ==
  /\ app \in [Apps -> {"out", "running", "cleaning"}]
  /\ todo \in [Apps -> SUBSET Descriptors]
  /\ Registry \in [Records -> Rec]
  /\ Handles \in [Descriptors -> Desc]
  /\ Link \in [Records \cup Descriptors -> Links]
  /\ pool \in Nat
  /\ CritReg \in [1..MaxCritical -> Crit]
  /\ SavedCritReg \in [1..MaxCritical -> Crit]
  /\ Cds \in [Names -> Store]
  /\ op \in Call
  /\ copying \in [Apps -> Copy]
  /\ deleting \in 0..MaxCritical
  /\ may \in [Names -> SUBSET Recovery]

\* App a has a handle on record r
Holds(a, r) == \E d \in Descriptors : Handles[d].app = a /\ Handles[d].reg = r

(* An unused entry is as new.  What a registration that failed left has    *)
(* neither name nor handle; any other handle is of an app that is not gone *)
(* and on a record with a name.                                            *)
EntriesInv ==
  /\ \A r \in Records :
       /\ ~Registry[r].used => Registry[r] = FreeRec
       /\ Registry[r].name = None => Link[r] = NoLink /\ HandlesOn(r) = {} /\ Registry[r].owner = None
       /\ Registry[r].name # None =>
            /\ HandlesOn(r) # {}
            /\ Registry[r].owner # None => Holds(Registry[r].owner, r)
  /\ \A d \in Descriptors :
       /\ ~Handles[d].used => Handles[d] = FreeDesc
       /\ Handles[d].app = None <=> Handles[d].reg = None
       /\ Handles[d].app # None => app[Handles[d].app] # "out" /\ Registry[Handles[d].reg].name # None
  /\ \A r, s \in Records : Registry[r].name = Registry[s].name /\ Registry[r].name # None => r = s

(* A call, with the mutex or without, is of an app that runs and has a     *)
(* handle on the record, and an app is in one call; a clean up has yet to  *)
(* come to what handles the app still has.                                 *)
CallsInv ==
  /\ op.at = "Idle" => op = Idle
  /\ op.at # "Idle" => /\ op.app \in Apps /\ app[op.app] = "running" /\ copying[op.app] = NotCopying
                       /\ op.rec \in Records /\ Holds(op.app, op.rec)
  /\ \A a \in Apps :
       /\ copying[a].at = "No" => copying[a] = NotCopying
       /\ copying[a].at # "No" => /\ app[a] = "running"
                                  /\ copying[a].rec \in Records /\ Holds(a, copying[a].rec)
       /\ todo[a] = IF app[a] = "cleaning" THEN {d \in Descriptors : Handles[d].app = a} ELSE {}

(* A call that copies to a store has an image and a buffer to copy. *)
ActiveInv ==
  /\ op.at \in {"CopyData", "SaveEntry"} => Registry[op.rec].active # 0
  /\ \A a \in Apps : copying[a].at \in {"CopyData", "SaveEntry"} =>
       copying[a].buf # 0 /\ Registry[copying[a].rec].active # 0

(* Each ring can be walked backward too. *)
BackInv ==
  \A r \in Records : Registry[r].used =>
    LET ring    == HandlesOn(r) \cup {r}
        Pred(x) == SafeLink(r, Link[x].prev)
    IN  \A x \in ring : Pred(x) \in ring /\ SafeLink(r, Link[Pred(x)].next) = x

RingsInv == TypeOK /\ EntriesInv /\ CallsInv /\ ActiveInv /\ ListsSound /\ BackInv

-----------------------------------------------------------------------------
(* Critical tables *)

\* What a registration would recover from a store with the entries of reg
Recovered(reg, store) ==
  IF store.id # 0 /\ LoadedOnce(reg, store.id) THEN store.image ELSE None

Active(r) == Registry[r].buffer[Registry[r].active]

(* Stores have IDs of their own, and a critical table is of the one with its name. *)
StoresInv ==
  /\ \A m, n \in Names : Cds[m].id = Cds[n].id /\ Cds[m].id # 0 => m = n
  /\ \A r \in Records : Registry[r].critical =>
       /\ Registry[r].name # None
       /\ Registry[r].cds = Cds[Registry[r].name].id /\ Registry[r].cds # 0

(* The registration of a critical table is alone with its record, and      *)
(* writes an entry for it only if nothing might be recovered.              *)
RegistrationInv ==
  /\ op.at \in {"RegisterCds", "SaveCrit"} =>
       /\ Registry[op.rec].active = 0
       /\ \A a \in Apps : copying[a].rec # op.rec
  /\ op.at = "RegisterCds" => ~Registry[op.rec].critical
  /\ op.at = "SaveCrit" => LET n == Registry[op.rec].name
                           IN  /\ Registry[op.rec].cds = Cds[n].id /\ Cds[n].id # 0
                               /\ None \in may[n]

(* What a copy in progress may write, or tear, is promised.  One that none *)
(* has raced with is alone with its record, and has copied what is active. *)
OpCopyInv ==
  op.at \in {"CopyData", "SaveEntry"} =>
    LET r == op.rec
        n == Registry[r].name
    IN  /\ Registry[r].critical /\ Registry[r].owner = op.app
        /\ op.at = "CopyData" => {None, Active(r)} \subseteq may[n]
        /\ ~op.raced => /\ Copiers(r) = {}
                        /\ op.at = "SaveEntry" => Cds[n].image = Active(r)

CopyInv(a) ==
  copying[a].at \in {"CopyData", "SaveEntry"} =>
    LET r == copying[a].rec
        n == Registry[r].name
        b == copying[a].buf
    IN  /\ Registry[r].critical
        /\ copying[a].at = "CopyData" => {None, Active(r), Registry[r].buffer[b]} \subseteq may[n]
        /\ ~copying[a].raced =>
             /\ Copiers(r) = {a} /\ op.rec # r
             /\ copying[a].at = "CopyData" => b = Registry[r].active
             /\ copying[a].at = "SaveEntry" => Cds[n].image = Active(r)

(* A load without the mutex is the owner's. *)
LoadInv(a) == copying[a].at = "Load" => Registry[copying[a].rec].owner = a

CopiesInv == OpCopyInv /\ \A a \in Apps : CopyInv(a) /\ LoadInv(a)

(* Whatever would be recovered now, or after a reset, is promised.         *)
PromiseInv == \A n \in Names : {Recovered(CritReg, Cds[n]), Recovered(SavedCritReg, Cds[n])} \subseteq may[n]

CriticalInv == StoresInv /\ RegistrationInv /\ CopiesInv /\ PromiseInv

=============================================================================
