----------------------------- MODULE TableLoadInv -----------------------------
(***************************************************************************)
(* The inductive invariants of TableLoad.  PlaceInv: where calls can be,   *)
(* what a table record says, and who has which shared buffer and which     *)
(* dump control block.  On top of it WaitInv, what a load in progress is   *)
(* worth, and ReadersInv, what the address of a reader is.                 *)
(***************************************************************************)
EXTENDS TableLoad

(* The slots of shared buffers, and the dump control blocks.               *)
SharedSlots == {Shared} \X (0..(NumShared - 1))
Blocks      == 0..(NumShared - 1)

(* The fields that a place in a call uses have values.                     *)
CallTyped(o) ==
  /\ o.at # "idle" => o.tbl \in Tables
  /\ o.at \in {"dump", "snapshot", "copy"} => o.dump \in BlockIds
  /\ o.at = "commit" => o.buf \in Slots /\ o.id \in LocalIds
CallsTyped == \A p \in Procs : CallTyped(op[p])
TypeInv == TypeOK /\ CallsTyped

(* The table task executes commands, owners manage their tables, and nobody*)
(* is in CFE_TBL_Load.                                                     *)
CallsPlaced ==
  \A p \in Procs :
    /\ op[p].at \notin {"reserve", "check", "drop", "finish", "commit"}
    /\ op[p].at \in {"open", "read", "header", "abort", "dump", "snapshot", "copy"} => p = TblTask
    /\ op[p].at \in {"open", "read", "header"} => op[p].cmd /\ op[p].tbl \notin DumpOnly
    /\ op[p].at \in {"manage", "validate", "run", "verdict", "update", "take", "modify"} =>
         p \in Apps /\ Owner[op[p].tbl] = p
    /\ op[p].at = "modify" => op[p].tbl \in DumpOnly

(* The record of a table: its active and previous IDs are its own; a load  *)
(* in progress has its buffer, a shared one once the table was loaded,     *)
(* unless the table has two of its own; a dump-only table has its first    *)
(* buffer always.                                                          *)
RecordSound(t) ==
  /\ Active[t] # NoId => Active[t][1] = t /\ Buffers[Slot(Active[t])].Id \in {NoId, Active[t]}
  /\ Prev[t] # NoId => Prev[t][1] = t
  /\ Next[t] # NoId =>
       /\ Buffers[Slot(Next[t])].Id = Next[t]
       /\ \/ Next[t] \in SharedIds /\ t \notin DoubleBuffered
          \/ Next[t] = NextLocal(t) /\ (t \in DoubleBuffered \/ Active[t] = NoId)
  /\ t \in DumpOnly =>
       /\ Next[t] = NoId /\ Prev[t] = NoId
       /\ Active[t] = FirstLoad(t) /\ Buffers[Slot(Active[t])].Id = Active[t]
RecordsSound == \A t \in Tables : RecordSound(t)

(* A shared buffer has at most one holder, a load in progress or a dump,   *)
(* and none exactly if it has no ID.                                       *)
LoadHas(t, s) == Slot(Next[t]) = s
HeldOnce(s) ==
  /\ \A t, u \in Tables : LoadHas(t, s) /\ LoadHas(u, s) => t = u
  /\ \A t \in Tables, b \in Blocks : ~(LoadHas(t, s) /\ DumpHas(b, s))
  /\ \A b, c \in Blocks : DumpHas(b, s) /\ DumpHas(c, s) => b = c
  /\ \A b \in Blocks : DumpHas(b, s) => Buffers[s].Id # NoId
  /\ Buffers[s].Id # NoId => (\E t \in Tables : LoadHas(t, s)) \/ \E b \in Blocks : DumpHas(b, s)
OneHolder == \A s \in SharedSlots : HeldOnce(s)

(* Between the two regions of CFE_TBL_AbortLoadCmd: the buffer to free is  *)
(* the one of the load, or it was freed in between and nobody has taken it.*)
AbortSound ==
  LET t == op[TblTask].tbl
      b == op[TblTask].buf IN
  op[TblTask].at = "abort" =>
    /\ t \notin DumpOnly
    /\ IF t \in DoubleBuffered THEN b = NoSlot
       ELSE /\ b \in SharedSlots \cup {<<t, 0>>}
            /\ Next[t] # NoId => Slot(Next[t]) = b
            /\ b \in SharedSlots /\ Next[t] = NoId => Buffers[b].Id = NoId

(* The table task reads a file into no buffer that a dump has.             *)
ReadSound ==
  LET o == op[TblTask] IN
  o.at = "read" => /\ o.buf \in Slots /\ o.buf[1] \in {o.tbl, Shared}
                   /\ \A b \in Blocks : ~DumpHas(b, o.buf)

(* A dump control block: the buffer and source of the dump in it.          *)
BlockSound(b) ==
  LET c == DumpControlBlocks[b] IN
  /\ c.Id # NoDump => Block(c.Id) = b /\ c.tbl \in Tables
  /\ c.State # "FREE" => c.Id # NoDump /\ c.Buf \in SharedSlots
  /\ c.State = "PERFORMED" => c.Source = NoId
  /\ c.Id # NoDump /\ c.tbl \in DumpOnly /\ c.State # "PERFORMED" => c.Source = Active[c.tbl]
BlocksSound == \A b \in Blocks : BlockSound(b)

(* The dump that the table task prepares has a block of its own that no    *)
(* table knows of yet; a dump-only table is not copied by the table task.  *)
DumpSound ==
  LET o == op[TblTask]
      c == DumpControlBlocks[Block(o.dump)] IN
  o.at \in {"dump", "snapshot", "copy"} =>
    /\ c.Id = o.dump /\ c.tbl = o.tbl /\ c.State = "FREE"
    /\ \A u \in Tables : DumpControlId[u] # o.dump
    /\ o.at # "dump" => o.tbl \notin DumpOnly /\ c.Buf \in SharedSlots

(* The DumpControlId of a table leads to a dump of that table, if the block*)
(* still has that ID.                                                      *)
LinkSound(t) ==
  BlockMatches(DumpControlId[t]) =>
    LET c == DumpControlBlocks[Block(DumpControlId[t])] IN c.tbl = t /\ c.State # "FREE"
DumpsLinked == \A t \in Tables : LinkSound(t)

(* The image of a dump-only table is whole, unless its owner is changing   *)
(* it.                                                                     *)
ImagesWhole ==
  \A t \in DumpOnly :
    \/ Buffers[Slot(Active[t])].Content \in Images
    \/ op[Owner[t]].at = "modify" /\ op[Owner[t]].tbl = t

(* So are its snapshots.                                                   *)
SnapshotsWhole ==
  \A b \in Blocks :
    LET c == DumpControlBlocks[b] IN
    c.State = "PERFORMED" /\ c.tbl \in DumpOnly => Buffers[c.Buf].Content \in Images

PlaceInv ==
  CallsPlaced /\ RecordsSound /\ OneHolder /\ AbortSound /\ ReadSound
    /\ BlocksSound /\ DumpSound /\ DumpsLinked
OwnInv == PlaceInv /\ ImagesWhole /\ SnapshotsWhole

(* CFE_TBL_Load is not called.  It reserves, fills and commits its buffer  *)
(* without the lock, so that a load command at the same time loses it.     *)
NoLoad == "Load" \notin Api

-----------------------------------------------------------------------------
(* The ground waits for validations and aborts nothing, and owners load    *)
(* nothing themselves.                                                     *)
Waits == Api = {} /\ Patient /\ "Abort" \notin Commands

(* What a table has: its images, active and in progress.                   *)
Has(t, s) == \/ Active[t] # NoId /\ s = Slot(Active[t])
             \/ Next[t] # NoId /\ s = Slot(Next[t])

(* A load whose image is valid, and one that is to become active.          *)
ValidLoad(t) == Next[t] # NoId /\ Buffers[Slot(Next[t])].IsValid
Due(t)       == ValidLoad(t) /\ Buffers[Slot(Next[t])].ActivateReq

(* A task that reads a file into a load, and one that validates an image.  *)
Reading(p)    == op[p].at \in {"open", "read", "header"}
Validating(a) == op[a].at \in {"run", "verdict"}

(* The ground waits: while a validation is asked for, performed or not     *)
(* reported yet, the table task executes no command.                       *)
TaskWaits ==
  /\ op[TblTask].at # "abort"
  /\ (\E v \in Vals : Val[v].State # "FREE") => op[TblTask].at = "idle"

(* One validation at a time is asked for or performed, on a buffer of its  *)
(* table.                                                                  *)
OneRequest ==
  /\ \A t \in Tables : PendingVal[t] # NoVal =>
       /\ PendingVal[t] \in Vals /\ Val[PendingVal[t]].State = "PENDING"
       /\ \A u \in Tables : PendingVal[u] # NoVal => u = t
       /\ \A a \in Apps : ~Validating(a)
  /\ \A a \in Apps : Validating(a) =>
       /\ op[a].val \in Vals /\ Val[op[a].val].State = "PENDING"
       /\ op[a].buf = NoSlot \/ Has(op[a].tbl, op[a].buf)
       /\ \A b \in Apps : Validating(b) => b = a

(* A table that was never active has no older image, and no valid one but  *)
(* that of its load; an owner about to update has what is to become active;*)
(* a load is not valid while its file is read.                             *)
NeverActive(t) ==
  Active[t] = NoId => /\ Prev[t] = NoId
                      /\ Next[t] = NoId => ~Buffers[Slot(NextLocal(t))].IsValid
LoadsSound ==
  /\ \A t \in Tables : NeverActive(t)
  /\ \A a \in Apps : op[a].at = "update" => Due(op[a].tbl)
  /\ LET o == op[TblTask] IN
     Reading(TblTask) => /\ Next[o.tbl] # NoId /\ ~Buffers[Slot(Next[o.tbl])].IsValid
                         /\ o.at = "read" => o.buf = Slot(Next[o.tbl])

(* What is active, valid or found valid is what the validation function    *)
(* accepts.                                                                *)
ValidSound ==
  /\ OnlyValidActive
  /\ \A t \in Validated : ValidLoad(t) => Buffers[Slot(Next[t])].Content \in Good
  /\ \A a \in Apps : op[a].at = "verdict" /\ op[a].ok /\ op[a].buf # NoSlot /\ op[a].tbl \in Validated
       => Buffers[op[a].buf].Content \in Good

WaitInv == TaskWaits /\ OneRequest /\ LoadsSound /\ ValidSound

-----------------------------------------------------------------------------
(* Every table that can be loaded has two buffers, or was loaded twice.    *)
LoadedTwice == Tables \ DumpOnly \subseteq DoubleBuffered \cup Reloaded

(* A reader's address is a buffer of the table, locked by the reader, that *)
(* is in use and is neither the next to be filled nor the one of the load. *)
ReaderSound(a, t) ==
  ptr[a][t] # NoSlot =>
    /\ a \in Accessors[t] /\ Active[t] # NoId
    /\ ptr[a][t] \in Slots /\ ptr[a][t][1] = t
    /\ Acc[a][t].LockFlag /\ Slot(Acc[a][t].BufferIndex) = ptr[a][t]
    /\ Buffers[ptr[a][t]].Id \notin {NoId, NextLocal(t)}
    /\ Slot(Next[t]) # ptr[a][t]
ActiveSound(t) ==
  /\ t \notin DoubleBuffered => Active[t] # NoId
  /\ Active[t] # NoId => Buffers[Slot(Active[t])].Id = Active[t]
ReadersInv ==
  \A t \in Tables \ DumpOnly : ActiveSound(t) /\ \A a \in Apps : ReaderSound(a, t)
=============================================================================
