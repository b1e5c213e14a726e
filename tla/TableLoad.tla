------------------------------ MODULE TableLoad ------------------------------
(***************************************************************************)
(* Loading, validating, activating and dumping the images of cFE tables    *)
(* (src/modules/tbl): the table task executes ground commands, the task    *)
(* that owns a table manages it, and every sharer reads the active image   *)
(* in place, between CFE_TBL_GetAddress and CFE_TBL_ReleaseAddress.        *)
(*                                                                         *)
(* One mutex protects the registry, but the content of a buffer is read    *)
(* from a file, validated and, in CFE_TBL_Load and the abort command, put  *)
(* in place without it.  An action is one locked region or the longest     *)
(* unlocked stretch that touches shared state once; op[p] says where in    *)
(* a call the task p is.                                                   *)
(***************************************************************************)
EXTENDS Integers, FiniteSets

CONSTANTS
  Apps,           \* applications, one task each
  TblTask,        \* the task of Table Services
  Tables,         \* registered tables
  Owner,          \* the application that registered each table
  Accessors,      \* the applications that read each table, through an access
                  \* descriptor of their own
  DoubleBuffered, \* tables with two buffers of their own
  DumpOnly,       \* tables that are only dumped, and changed in place by their owner
  Validated,      \* tables with a validation function
  Loaded,         \* tables that were loaded before the behaviour starts
  Reloaded,       \* those of them that were loaded at least twice
  Shared,         \* the category of the shared load buffers
  NumShared,      \* CFE_PLATFORM_TBL_MAX_SIMULTANEOUS_LOADS
  Vals,           \* the entries of ValidationResults
  Images,         \* table images
  Good,           \* the images that validation functions accept
  Junk,           \* a cleared buffer, or one filled in part
  NoId, NoSlot, NoVal, NoTable, NoDump,
  Wrap,           \* bound: buffer IDs repeat after Wrap turns of the buffers, and so
                  \* do those of the dump control blocks
  Commands,       \* the ground commands that are sent
  Patient,        \* the ground waits for the result of a validation, which
                  \* housekeeping reports, before it sends another command
  Api             \* the loading functions that owners call

ASSUME ActorAssumption == /\ TblTask \notin Apps
                          /\ Owner \in [Tables -> Apps]
                          /\ Accessors \in [Tables -> SUBSET Apps]
ASSUME TableAssumption == /\ DoubleBuffered \subseteq Tables
                          /\ Validated \subseteq Tables
                          /\ Loaded \subseteq Tables
                          /\ DumpOnly \subseteq Tables \ (DoubleBuffered \cup Loaded \cup Validated)
                          /\ Reloaded \subseteq Loaded
                          /\ NoTable \notin Tables
                          /\ Shared \notin Tables
ASSUME BufferAssumption == /\ NumShared \in Nat \ {0}
                           /\ Wrap \in Nat \ {0, 1}
                           /\ Good \subseteq Images /\ Good # {}
                           /\ Junk \notin Images
                           /\ NoVal \notin Vals
ASSUME ScopeAssumption == /\ Commands \subseteq {"Load", "Validate", "Activate", "Abort", "Dump"}
                          /\ Api \subseteq {"Load", "Update"}
                          /\ Patient \in BOOLEAN

-----------------------------------------------------------------------------
(* Buffer IDs.  The serial number of an ID determines its category (shared *)
(* buffers, or the buffers of one table) and, modulo the buffers of that   *)
(* category, its buffer; a single buffered table uses its buffer 0 only.   *)
LocalIds  == Tables \X (0..(2 * Wrap - 1))
SharedIds == {Shared} \X (0..(NumShared * Wrap - 1))
BufferIds == LocalIds \cup SharedIds
Slots     == (Tables \X {0, 1}) \cup ({Shared} \X (0..(NumShared - 1)))

Slot(id) ==
  IF id = NoId THEN NoSlot
  ELSE IF id[1] = Shared THEN <<Shared, id[2] % NumShared>>
  ELSE <<id[1], IF id[1] \in DoubleBuffered THEN id[2] % 2 ELSE 0>>

(* There are as many dump control blocks as shared buffers.                *)
BlockIds == 0..(NumShared * Wrap - 1)
Block(d) == d % NumShared

ASSUME NameAssumption == /\ NoId \notin BufferIds /\ NoSlot \notin Slots
                         /\ NoDump \notin BlockIds

LoadBuff   == [Id : BufferIds \cup {NoId}, IsValid : BOOLEAN, ActivateReq : BOOLEAN,
               Content : Images \cup {Junk}]
FreeBuff   == [Id |-> NoId, IsValid |-> FALSE, ActivateReq |-> FALSE, Content |-> Junk]
AccessDesc == [LockFlag : BOOLEAN, BufferIndex : BufferIds \cup {NoId}, Updated : BOOLEAN]
ValResult  == [State : {"FREE", "PENDING", "PERFORMED"}, Select : {"INACTIVE", "ACTIVE"}]

DumpControl == [Id : BlockIds \cup {NoDump}, State : {"FREE", "PENDING", "PERFORMED"},
                Buf : Slots \cup {NoSlot}, Source : BufferIds \cup {NoId},
                tbl : Tables \cup {NoTable}]
FreeBlock   == [Id |-> NoDump, State |-> "FREE", Buf |-> NoSlot, Source |-> NoId, tbl |-> NoTable]

Procs == Apps \cup {TblTask}
Op    == [at : {"idle", "reserve", "open", "read", "header", "check", "finish", "commit", "drop",
                "manage", "validate", "run", "verdict", "update", "abort", "dump", "snapshot",
                "copy", "take", "modify"},
          cmd : BOOLEAN, tbl : Tables \cup {NoTable}, buf : Slots \cup {NoSlot},
          dump : BlockIds \cup {NoDump},
          id : BufferIds \cup {NoId}, img : Images \cup {Junk}, val : Vals \cup {NoVal},
          ok : BOOLEAN]
Idle  == [at |-> "idle", cmd |-> FALSE, tbl |-> NoTable, buf |-> NoSlot, id |-> NoId,
          dump |-> NoDump, img |-> Junk, val |-> NoVal, ok |-> FALSE]

VARIABLES
  Active, Prev, Next,  \* table -> its ActiveBufferId, PrevBufferId, NextBufferId
  PendingVal,          \* table -> its PendingValId
  Buffers,             \* slot -> load buffer
  LastLoadBuffId,      \* serial of the last shared buffer handed out
  Acc,                 \* application -> table -> access descriptor
  Val,                 \* ValidationResults
  DumpControlId,       \* table -> its DumpControlId
  DumpControlBlocks,   \* block -> dump control block
  LastDumpCtrlBlockId, \* the last one handed out
  op,                  \* task -> where it is in which call
  ptr                  \* application -> table -> the address it works with

regVars  == <<Active, Prev, Next, PendingVal>>
dumpVars == <<DumpControlId, DumpControlBlocks, LastDumpCtrlBlockId>>
vars == <<regVars, Buffers, LastLoadBuffId, Acc, Val, op, ptr, dumpVars>>

(* CFE_TBL_Load has filled the tables of Loaded once, with the buffer flags *)
(* that it leaves; those of Reloaded a second time.  A dump-only table has  *)
(* its buffer since its registration.                                       *)
FirstLoad(t)  == <<t, 1>>
LastLoad(t)   == IF t \in Reloaded THEN <<t, 2>> ELSE <<t, 1>>
InitBuff(s, i) ==
  IF s[1] \in DumpOnly /\ Slot(FirstLoad(s[1])) = s
  THEN [Id |-> FirstLoad(s[1]), IsValid |-> FALSE, ActivateReq |-> FALSE, Content |-> i]
  ELSE IF s[1] \notin Loaded THEN FreeBuff
  ELSE IF Slot(LastLoad(s[1])) = s
       THEN [Id |-> IF s[1] \in DoubleBuffered \cup Reloaded THEN LastLoad(s[1]) ELSE NoId,
             IsValid |-> TRUE, ActivateReq |-> TRUE, Content |-> i]
  ELSE IF Slot(FirstLoad(s[1])) = s
       THEN [Id |-> FirstLoad(s[1]), IsValid |-> TRUE, ActivateReq |-> TRUE, Content |-> i]
  ELSE FreeBuff

Init ==
  /\ Active = [t \in Tables |-> IF t \in Loaded THEN LastLoad(t)
                              ELSE IF t \in DumpOnly THEN FirstLoad(t) ELSE NoId]
  /\ Prev = [t \in Tables |-> IF t \in Reloaded THEN FirstLoad(t) ELSE NoId]
  /\ Next = [t \in Tables |-> NoId]
  /\ PendingVal = [t \in Tables |-> NoVal]
  /\ \E i \in Good : Buffers = [s \in Slots |-> InitBuff(s, i)]
  /\ LastLoadBuffId = 0
  /\ Acc = [a \in Apps |-> [t \in Tables |->
              [LockFlag |-> FALSE, BufferIndex |-> NoId, Updated |-> t \in Loaded]]]
  /\ Val = [v \in Vals |-> [State |-> "FREE", Select |-> "INACTIVE"]]
  /\ DumpControlId = [t \in Tables |-> NoDump]
  /\ DumpControlBlocks = [b \in 0..(NumShared - 1) |-> FreeBlock]
  /\ LastDumpCtrlBlockId = 0
  /\ op = [p \in Procs |-> Idle]
  /\ ptr = [a \in Apps |-> [t \in Tables |-> NoSlot]]

-----------------------------------------------------------------------------
(* Here and below, definitions under the word "faulty" are what the code   *)
(* would be with one plausible bug: the mutation runs put them in the      *)
(* place of the definition that follows.                                   *)

(* Faulty: only the lock of the table's owner counts.                      *)
LockedByOwner(t, s) == Acc[Owner[t]][t].LockFlag /\ Slot(Acc[Owner[t]][t].BufferIndex) = s

-----------------------------------------------------------------------------
(* Helpers named after the functions they model.                           *)

(* CFE_TBL_GetNextLocalBufferId: the buffer after the active one.          *)
NextLocal(t) == <<t, IF Active[t] = NoId THEN 1 ELSE (Active[t][2] + 1) % (2 * Wrap)>>

(* CFE_TBL_FindNextSharedBufferId.                                         *)
SharedAfter(i) == <<Shared, (LastLoadBuffId + i) % (NumShared * Wrap)>>
FreeShared == {i \in 1..NumShared : Buffers[Slot(SharedAfter(i))].Id = NoId}
NextShared == SharedAfter(CHOOSE i \in FreeShared : \A j \in FreeShared : i <= j)

(* CFE_TBL_CheckInactiveBufferHelper over the access list of the table.    *)
Locked(t, s) ==
  \E a \in Accessors[t] : Acc[a][t].LockFlag /\ Slot(Acc[a][t].BufferIndex) = s

(* CFE_TBL_GetInactiveBufferExclusive succeeds: the buffer is reserved     *)
(* already, is not used, or no accessor of the table has it locked.        *)
Available(t) ==
  LET b == Buffers[Slot(NextLocal(t))] IN
  b.Id \in {NextLocal(t), NoId} \/ ~Locked(t, Slot(NextLocal(t)))

(* CFE_TBL_GetLoadInProgressBuffer, which also clears a stale NextBufferId. *)
LoadBuf(t) ==
  IF Next[t] # NoId /\ Buffers[Slot(Next[t])].Id = Next[t] THEN Slot(Next[t]) ELSE NoSlot
ClearStale(t) ==
  Next' = IF LoadBuf(t) = NoSlot THEN [Next EXCEPT ![t] = NoId] ELSE Next

(* Faulty: the new buffer keeps its flags.                                 *)
GetWorkingBufferKeepsFlags(t) ==
  LET id == IF t \in DoubleBuffered THEN NextLocal(t) ELSE NextShared IN
  /\ Active[t] # NoId
  /\ IF t \in DoubleBuffered THEN Available(t) ELSE FreeShared # {}
  /\ Next' = [Next EXCEPT ![t] = id]
  /\ Buffers' = [Buffers EXCEPT ![Slot(id)].Id = id]
  /\ LastLoadBuffId' = IF id[1] = Shared THEN id[2] ELSE LastLoadBuffId

(* CFE_TBL_GetWorkingBuffer when no load is in progress: a buffer of its   *)
(* own for a table that was never loaded, else a buffer that starts as a   *)
(* copy of the active image (CFE_TBL_PrepareNewLoadBuff).                  *)
GetWorkingBuffer(t) ==
  \/ /\ Active[t] = NoId
     /\ Available(t)
     /\ Next' = [Next EXCEPT ![t] = NextLocal(t)]
     /\ Buffers' = [Buffers EXCEPT ![Slot(NextLocal(t))].Id = NextLocal(t)]
     /\ UNCHANGED LastLoadBuffId
  \/ LET id == IF t \in DoubleBuffered THEN NextLocal(t) ELSE NextShared IN
     /\ Active[t] # NoId
     /\ IF t \in DoubleBuffered THEN Available(t) ELSE FreeShared # {}
     /\ Next' = [Next EXCEPT ![t] = id]
     /\ Buffers' = [Buffers EXCEPT ![Slot(id)] =
                      [Id |-> id, IsValid |-> FALSE, ActivateReq |-> FALSE,
                       Content |-> Buffers[Slot(Active[t])].Content]]
     /\ LastLoadBuffId' = IF id[1] = Shared THEN id[2] ELSE LastLoadBuffId

(* Faulty: the load ends, but its buffer is not freed.                     *)
DiscardNothing(t, bs) == bs

(* CFE_TBL_DiscardWorkingBuffer, on the buffers bs.                        *)
Discard(t, bs) ==
  IF t \notin DoubleBuffered /\ Next[t] # NoId
  THEN [bs EXCEPT ![Slot(Next[t])].Id = NoId] ELSE bs

(* CFE_TBL_UpdateInternal: the buffer that becomes active, and the rest of *)
(* the function from there on.                                             *)
Private(t) == Next[t][1] = t
Target(t)  == IF Private(t) THEN Next[t] ELSE NextLocal(t)

(* Faulty: the accessors are not notified.                                 *)
CommitSilent(t, from, id) ==
  /\ Buffers' = Discard(t, [Buffers EXCEPT ![Slot(id)] =
                   [Buffers[Slot(id)] EXCEPT !.Id = id, !.Content = Buffers[from].Content]])
  /\ Active' = [Active EXCEPT ![t] = id]
  /\ Prev' = [Prev EXCEPT ![t] = Active[t]]
  /\ Next' = [Next EXCEPT ![t] = NoId]
  /\ UNCHANGED Acc
(* Faulty: the load stays in progress.                                     *)
CommitKeepsNext(t, from, id) ==
  /\ Buffers' = [Buffers EXCEPT ![Slot(id)] =
                   [Buffers[Slot(id)] EXCEPT !.Id = id, !.Content = Buffers[from].Content]]
  /\ Active' = [Active EXCEPT ![t] = id]
  /\ Prev' = [Prev EXCEPT ![t] = Active[t]]
  /\ UNCHANGED <<Next, Acc>>

Commit(t, from, id) ==
  /\ Buffers' = Discard(t, [Buffers EXCEPT ![Slot(id)] =
                   [Buffers[Slot(id)] EXCEPT !.Id = id, !.Content = Buffers[from].Content]])
  /\ Active' = [Active EXCEPT ![t] = id]
  /\ Prev' = [Prev EXCEPT ![t] = Active[t]]
  /\ Next' = [Next EXCEPT ![t] = NoId]
  /\ Acc' = [a \in Apps |-> IF a \in Accessors[t]
                            THEN [Acc[a] EXCEPT ![t].Updated = TRUE] ELSE Acc[a]]

(* CFE_TBL_TxnGetTableStatus.                                              *)
UpdatePending(t) ==
  LoadBuf(t) # NoSlot /\ Buffers[LoadBuf(t)].IsValid /\ Buffers[LoadBuf(t)].ActivateReq
TableStatus(t) == IF PendingVal[t] # NoVal THEN "VALIDATION_PENDING"
                  ELSE IF UpdatePending(t) THEN "UPDATE_PENDING"
                  ELSE IF DumpControlId[t] # NoDump THEN "DUMP_PENDING" ELSE "SUCCESS"

IsAt(p, where) == op[p].at = where
Goto(p, o) == op' = [op EXCEPT ![p] = o]

-----------------------------------------------------------------------------
(* Reading an image into the buffer of a load in progress, in the load     *)
(* command and in CFE_TBL_Load.                                            *)

(* CFE_TBL_LoadContentFromFile locates the buffer and reads into it.       *)
ReadBegin(p) ==
  LET t == op[p].tbl IN
  /\ IsAt(p, "open")
  /\ ClearStale(t)
  /\ IF LoadBuf(t) = NoSlot
     THEN /\ Goto(p, IF op[p].cmd THEN Idle ELSE [op[p] EXCEPT !.at = "drop"])
          /\ UNCHANGED Buffers
     ELSE /\ Goto(p, [op[p] EXCEPT !.at = "read", !.buf = LoadBuf(t)])
          /\ Buffers' = [Buffers EXCEPT ![LoadBuf(t)].Content = Junk]
  /\ UNCHANGED <<Active, Prev, PendingVal, LastLoadBuffId, Acc, Val, ptr, dumpVars>>

(* The image is whole; CFE_TBL_DecodeInputData copies it if the table has  *)
(* another working buffer by then.  An application may also load from      *)
(* memory (CFE_TBL_TxnLoadFromSourceAddr), and then there is no header.    *)
ReadEnd(p) ==
  LET t == op[p].tbl IN
  /\ IsAt(p, "read")
  /\ ClearStale(t)
  /\ Buffers' = [s \in Slots |-> IF s \in {op[p].buf, LoadBuf(t)}
                                 THEN [Buffers[s] EXCEPT !.Content = op[p].img] ELSE Buffers[s]]
  /\ \/ Goto(p, [op[p] EXCEPT !.at = "header", !.buf = NoSlot])
     \/ ~op[p].cmd /\ Goto(p, [op[p] EXCEPT !.at = "check", !.buf = NoSlot])
  /\ UNCHANGED <<Active, Prev, PendingVal, LastLoadBuffId, Acc, Val, ptr, dumpVars>>

(* What validations and activations of the buffer there were since it was  *)
(* reserved is forgotten; without a validation function the load is valid. *)
SetMetaDataFromFileHeader(p) ==
  LET t == op[p].tbl
      b == LoadBuf(t) IN
  /\ IsAt(p, "header")
  /\ ClearStale(t)
  /\ Buffers' = IF b = NoSlot THEN Buffers
                ELSE [Buffers EXCEPT ![b].IsValid = (t \notin Validated), ![b].ActivateReq = FALSE]
  /\ Goto(p, IF op[p].cmd THEN Idle ELSE [op[p] EXCEPT !.at = "check"])
  /\ UNCHANGED <<Active, Prev, PendingVal, LastLoadBuffId, Acc, Val, ptr, dumpVars>>

(* The file is refused, is too short, or cannot be read.  The command      *)
(* leaves the load in progress; CFE_TBL_Load goes on to give it up.        *)
ReadFail(p) ==
  /\ IsAt(p, "open") \/ IsAt(p, "read")
  /\ Goto(p, IF op[p].cmd THEN Idle ELSE [op[p] EXCEPT !.at = "drop", !.buf = NoSlot])
  /\ UNCHANGED <<regVars, Buffers, LastLoadBuffId, Acc, Val, ptr, dumpVars>>

-----------------------------------------------------------------------------
(* Ground commands, executed by the table task.                            *)
Command(c) == /\ IsAt(TblTask, "idle") /\ c \in Commands
              /\ Patient => \A v \in Vals : Val[v].State = "FREE"

(* Faulty: a load in progress does not stop another one.                   *)
LoadCmdAgain(t, i) ==
  /\ Command("Load") /\ t \notin DumpOnly
  /\ IF LoadBuf(t) = NoSlot THEN GetWorkingBuffer(t)
     ELSE UNCHANGED <<Next, Buffers, LastLoadBuffId>>
  /\ Goto(TblTask, [Idle EXCEPT !.at = "open", !.cmd = TRUE, !.tbl = t, !.img = i])
  /\ UNCHANGED <<Active, Prev, PendingVal, Acc, Val, ptr, dumpVars>>

(* CFE_TBL_LoadCmd: the locked region that reserves a buffer.              *)
LoadCmd(t, i) ==
  /\ Command("Load") /\ t \notin DumpOnly
  /\ Next[t] = NoId
  /\ GetWorkingBuffer(t)
  /\ Goto(TblTask, [Idle EXCEPT !.at = "open", !.cmd = TRUE, !.tbl = t, !.img = i])
  /\ UNCHANGED <<Active, Prev, PendingVal, Acc, Val, ptr, dumpVars>>

(* CFE_TBL_ValidateCmd: a request to the owner, or an immediate verdict    *)
(* for a table without a validation function.                              *)
SelectedBuffer(t, select) ==
  IF select = "ACTIVE" THEN Slot(Active[t])
  ELSE IF LoadBuf(t) # NoSlot THEN LoadBuf(t) ELSE Slot(Prev[t])

ValidateCmd(t, select, v) ==
  /\ Command("Validate")
  /\ PendingVal[t] = NoVal
  /\ SelectedBuffer(t, select) # NoSlot
  /\ Val[v].State = "FREE"
  /\ IF t \in Validated
     THEN /\ Val' = [Val EXCEPT ![v] = [State |-> "PENDING", Select |-> select]]
          /\ PendingVal' = [PendingVal EXCEPT ![t] = v]
          /\ UNCHANGED Buffers
     ELSE /\ Buffers' = [Buffers EXCEPT ![SelectedBuffer(t, select)].IsValid = TRUE]
          /\ UNCHANGED <<Val, PendingVal>>
  /\ IF select = "INACTIVE" THEN ClearStale(t) ELSE UNCHANGED Next
  /\ UNCHANGED <<Active, Prev, LastLoadBuffId, Acc, op, ptr, dumpVars>>

(* CFE_TBL_ActivateCmd: only a valid image is marked for activation.       *)
ActivateCmd(t) ==
  /\ Command("Activate") /\ t \notin DumpOnly
  /\ ClearStale(t)
  /\ Buffers' = IF LoadBuf(t) # NoSlot /\ Buffers[LoadBuf(t)].IsValid
                THEN [Buffers EXCEPT ![LoadBuf(t)].ActivateReq = TRUE] ELSE Buffers
  /\ UNCHANGED <<Active, Prev, PendingVal, LastLoadBuffId, Acc, Val, op, ptr, dumpVars>>

(* CFE_TBL_AbortLoadCmd works without the lock: it locates the buffer to   *)
(* discard, and then clears the load and frees that buffer.                *)
AbortLoadCmd(t) ==
  /\ Command("Abort")
  /\ Next[t] # NoId
  /\ Goto(TblTask, [Idle EXCEPT !.at = "abort", !.tbl = t,
                      !.buf = IF t \in DoubleBuffered THEN NoSlot ELSE Slot(Next[t])])
  /\ UNCHANGED <<regVars, Buffers, LastLoadBuffId, Acc, Val, ptr, dumpVars>>

AbortLoad ==
  LET b == op[TblTask].buf IN
  /\ IsAt(TblTask, "abort")
  /\ Next' = [Next EXCEPT ![op[TblTask].tbl] = NoId]
  /\ Buffers' = IF b = NoSlot THEN Buffers ELSE [Buffers EXCEPT ![b].Id = NoId]
  /\ Goto(TblTask, Idle)
  /\ UNCHANGED <<Active, Prev, PendingVal, LastLoadBuffId, Acc, Val, ptr, dumpVars>>

-----------------------------------------------------------------------------
(* Dumps.  A dump takes a dump control block, and a shared buffer for a    *)
(* snapshot that housekeeping writes to a file.                            *)

(* CFE_TBL_GetNextDumpCtrlBlock.                                           *)
BlockAfter(i) == (LastDumpCtrlBlockId + i) % (NumShared * Wrap)
FreeBlocks == {i \in 1..NumShared : DumpControlBlocks[Block(BlockAfter(i))].Id = NoDump}
NextBlock  == BlockAfter(CHOOSE i \in FreeBlocks : \A j \in FreeBlocks : i <= j)

BlockMatches(d) == d # NoDump /\ DumpControlBlocks[Block(d)].Id = d

(* CFE_TBL_AllocateDumpCtrlBlock: one dump of a table at a time.  The      *)
(* block has the ID of the buffer to copy.  Bound: IDs that come round     *)
(* early are not given out while a table has them.                         *)
AllocateDumpCtrlBlock(t, select) ==
  /\ DumpControlId[t] = NoDump
  /\ SelectedBuffer(t, select) # NoSlot
  /\ FreeBlocks # {}
  /\ \A u \in Tables : DumpControlId[u] # NextBlock
  /\ DumpControlBlocks' = [DumpControlBlocks EXCEPT ![Block(NextBlock)] =
                             [FreeBlock EXCEPT !.Id = NextBlock, !.tbl = t,
                                !.Source = Buffers[SelectedBuffer(t, select)].Id]]
  /\ LastDumpCtrlBlockId' = NextBlock
  /\ IF select = "INACTIVE" THEN ClearStale(t) ELSE UNCHANGED Next

(* CFE_TBL_DumpCmd: the locked region.                                     *)
DumpCmd(t, select) ==
  /\ Command("Dump")
  /\ AllocateDumpCtrlBlock(t, select)
  /\ Goto(TblTask, [Idle EXCEPT !.at = "dump", !.tbl = t, !.dump = NextBlock])
  /\ UNCHANGED <<Active, Prev, PendingVal, Buffers, LastLoadBuffId, Acc, Val, ptr, DumpControlId>>

(* Faulty: the table task copies any table by itself.                      *)
PrepareDumpAtOnce ==
  LET d == op[TblTask].dump IN
  /\ IsAt(TblTask, "dump")
  /\ IF FreeShared = {}
     THEN /\ Goto(TblTask, Idle)
          /\ UNCHANGED <<Buffers, LastLoadBuffId, DumpControlBlocks>>
     ELSE /\ Buffers' = [Buffers EXCEPT ![Slot(NextShared)].Id = NextShared]
          /\ LastLoadBuffId' = NextShared[2]
          /\ DumpControlBlocks' = [DumpControlBlocks EXCEPT ![Block(d)].Buf = Slot(NextShared)]
          /\ Goto(TblTask, [op[TblTask] EXCEPT !.at = "snapshot"])
  /\ UNCHANGED <<regVars, Acc, Val, ptr, DumpControlId, LastDumpCtrlBlockId>>

(* CFE_TBL_PrepareDumpSnapshotBuffer, without the lock: the snapshot of a  *)
(* dump-only table is left to its owner.  With no buffer for it the block  *)
(* stays taken.                                                            *)
PrepareDump ==
  LET t == op[TblTask].tbl
      d == op[TblTask].dump
      deferred == t \in DumpOnly /\ FreeShared # {} IN
  /\ IsAt(TblTask, "dump")
  /\ IF FreeShared = {}
     THEN UNCHANGED <<Buffers, LastLoadBuffId, DumpControlBlocks>>
     ELSE /\ Buffers' = [Buffers EXCEPT ![Slot(NextShared)].Id = NextShared]
          /\ LastLoadBuffId' = NextShared[2]
          /\ DumpControlBlocks' = [DumpControlBlocks EXCEPT ![Block(d)].Buf = Slot(NextShared),
                                                    ![Block(d)].State = IF deferred THEN "PENDING" ELSE @]
  /\ DumpControlId' = IF deferred THEN [DumpControlId EXCEPT ![t] = d] ELSE DumpControlId
  /\ Goto(TblTask, IF FreeShared = {} \/ deferred THEN Idle
                   ELSE [op[TblTask] EXCEPT !.at = "snapshot"])
  /\ UNCHANGED <<regVars, Acc, Val, ptr, LastDumpCtrlBlockId>>

(* CFE_TBL_ExecuteDumpSnapshot: the source must still have the ID that the *)
(* block has; a snapshot that was taken has lost it.                       *)
SourceThere(c) == c.Source # NoId /\ Buffers[Slot(c.Source)].Id = c.Source
Performed(c)   == [c EXCEPT !.State = "PERFORMED", !.Source = NoId]

(* The table task copies without the lock; what it copies may change.  If  *)
(* the source is gone, the buffer is given back, and the block is not.     *)
SnapshotBegin ==
  LET c == DumpControlBlocks[Block(op[TblTask].dump)] IN
  /\ IsAt(TblTask, "snapshot")
  /\ IF SourceThere(c)
     THEN /\ Goto(TblTask, [op[TblTask] EXCEPT !.at = "copy", !.buf = Slot(c.Source),
                                               !.img = Buffers[Slot(c.Source)].Content])
          /\ UNCHANGED Buffers
     ELSE /\ Goto(TblTask, Idle)
          /\ Buffers' = [Buffers EXCEPT ![c.Buf].Id = NoId]
  /\ UNCHANGED <<regVars, LastLoadBuffId, Acc, Val, ptr, dumpVars>>

SnapshotEnd ==
  LET o == op[TblTask]
      c == DumpControlBlocks[Block(o.dump)] IN
  /\ IsAt(TblTask, "copy")
  /\ Buffers' = [Buffers EXCEPT ![c.Buf].Content =
                    IF Buffers[o.buf].Content = o.img THEN o.img ELSE Junk]
  /\ DumpControlBlocks' = [DumpControlBlocks EXCEPT ![Block(o.dump)] = Performed(c)]
  /\ Goto(TblTask, Idle)
  /\ UNCHANGED <<regVars, LastLoadBuffId, Acc, Val, ptr, DumpControlId, LastDumpCtrlBlockId>>

(* CFE_TBL_DumpToBuffer, called by the owner in CFE_TBL_Manage.            *)
DumpToBuffer(a) ==
  LET t == op[a].tbl
      d == DumpControlId[t]
      c == DumpControlBlocks[Block(d)] IN
  /\ IsAt(a, "take")
  /\ IF BlockMatches(d) /\ SourceThere(c)
     THEN /\ Buffers' = [Buffers EXCEPT ![c.Buf].Content = Buffers[Slot(c.Source)].Content]
          /\ DumpControlBlocks' = [DumpControlBlocks EXCEPT ![Block(d)] = Performed(c)]
     ELSE UNCHANGED <<Buffers, DumpControlBlocks>>
  /\ DumpControlId' = IF BlockMatches(d) THEN DumpControlId ELSE [DumpControlId EXCEPT ![t] = NoDump]
  /\ Goto(a, Idle)
  /\ UNCHANGED <<regVars, LastLoadBuffId, Acc, Val, ptr, LastDumpCtrlBlockId>>

(* The owner of a dump-only table writes to it whenever it likes, and      *)
(* tells the others with CFE_TBL_Modified.                                 *)
Modify(a, t) ==
  /\ IsAt(a, "idle") /\ Owner[t] = a /\ t \in DumpOnly
  /\ Buffers' = [Buffers EXCEPT ![Slot(Active[t])].Content = Junk]
  /\ Goto(a, [Idle EXCEPT !.at = "modify", !.tbl = t])
  /\ UNCHANGED <<regVars, LastLoadBuffId, Acc, Val, ptr, dumpVars>>

Modified(a, i) ==
  LET t == op[a].tbl IN
  /\ IsAt(a, "modify")
  /\ Buffers' = [Buffers EXCEPT ![Slot(Active[t])].Content = i]
  /\ Acc' = [b \in Apps |-> IF b \in Accessors[t] \ {a}
                            THEN [Acc[b] EXCEPT ![t].Updated = TRUE] ELSE Acc[b]]
  /\ Goto(a, Idle)
  /\ UNCHANGED <<regVars, LastLoadBuffId, Val, ptr, dumpVars>>

(* CFE_TBL_SendHkCmd: CFE_TBL_GetHkData reports one finished validation    *)
(* and frees its entry; then all snapshots are written and given back.     *)
Finished == {v \in Vals : Val[v].State = "PERFORMED"}
Taken    == {b \in DOMAIN DumpControlBlocks : DumpControlBlocks[b].State = "PERFORMED"}

GetHkData ==
  IF Finished = {} THEN UNCHANGED Val
  ELSE \E v \in Finished : Val' = [Val EXCEPT ![v] = [State |-> "FREE", Select |-> "INACTIVE"]]

SendHkCmd ==
  LET written == {DumpControlBlocks[b].Buf : b \in Taken} IN
  /\ IsAt(TblTask, "idle") /\ (Finished # {} \/ Taken # {})
  /\ GetHkData
  /\ Buffers' = [s \in Slots |-> IF s \in written THEN [Buffers[s] EXCEPT !.Id = NoId] ELSE Buffers[s]]
  /\ DumpControlBlocks' = [b \in DOMAIN DumpControlBlocks |->
                              IF b \in Taken THEN FreeBlock ELSE DumpControlBlocks[b]]
  /\ UNCHANGED <<regVars, LastLoadBuffId, Acc, op, ptr, DumpControlId, LastDumpCtrlBlockId>>

-----------------------------------------------------------------------------
(* CFE_TBL_Load, called by the owner.  Once its access is checked it holds *)
(* no lock, up to its end.                                                 *)
Load(a, t, i) ==
  /\ "Load" \in Api /\ IsAt(a, "idle") /\ Owner[t] = a /\ t \notin DumpOnly
  /\ Next[t] = NoId
  /\ Goto(a, [Idle EXCEPT !.at = "reserve", !.tbl = t, !.img = i])
  /\ UNCHANGED <<regVars, Buffers, LastLoadBuffId, Acc, Val, ptr, dumpVars>>

LoadReserve(a) ==
  /\ IsAt(a, "reserve")
  /\ GetWorkingBuffer(op[a].tbl)
  /\ Goto(a, [op[a] EXCEPT !.at = "open"])
  /\ UNCHANGED <<Active, Prev, PendingVal, Acc, Val, ptr, dumpVars>>

(* CFE_TBL_ERR_NO_BUFFER_AVAIL.                                            *)
LoadNoBuffer(a) ==
  LET t == op[a].tbl IN
  /\ IsAt(a, "reserve")
  /\ IF Active[t] = NoId \/ t \in DoubleBuffered THEN ~Available(t) ELSE FreeShared = {}
  /\ Goto(a, Idle)
  /\ UNCHANGED <<regVars, Buffers, LastLoadBuffId, Acc, Val, ptr, dumpVars>>

(* CFE_TBL_ValidateLoadInProgress.                                         *)
Accepts(t, i) == t \in Validated => i \in Good

ValidateLoad(a) ==
  LET t  == op[a].tbl
      b  == LoadBuf(t)
      ok == b # NoSlot /\ Accepts(t, Buffers[b].Content) IN
  /\ IsAt(a, "check")
  /\ ClearStale(t)
  /\ Buffers' = IF b = NoSlot THEN Buffers
                ELSE [Buffers EXCEPT ![b].IsValid = ok, ![b].ActivateReq = ok,
                                     ![b].Content = IF ok THEN @ ELSE Junk]
  /\ Goto(a, [op[a] EXCEPT !.at = IF ok THEN "finish" ELSE "drop"])
  /\ UNCHANGED <<Active, Prev, PendingVal, LastLoadBuffId, Acc, Val, ptr, dumpVars>>

(* CFE_TBL_LoadFinish gives a failed load up ...                           *)
LoadDrop(a) ==
  LET t == op[a].tbl IN
  /\ IsAt(a, "drop")
  /\ Buffers' = Discard(t, Buffers)
  /\ Next' = [Next EXCEPT ![t] = NoId]
  /\ Goto(a, Idle)
  /\ UNCHANGED <<Active, Prev, PendingVal, LastLoadBuffId, Acc, Val, ptr, dumpVars>>

(* ... and makes a good one active: CFE_TBL_UpdateInternal reserves the    *)
(* buffer, or finds it locked, and then copies into it.                    *)
LoadFinish(a) ==
  LET t == op[a].tbl
      b == LoadBuf(t) IN
  /\ IsAt(a, "finish")
  /\ ClearStale(t)
  /\ IF b # NoSlot /\ (Private(t) \/ Available(t))
     THEN /\ Goto(a, [op[a] EXCEPT !.at = "commit", !.buf = b, !.id = Target(t)])
          /\ Buffers' = [Buffers EXCEPT ![Slot(Target(t))].Id = Target(t)]
     ELSE /\ Goto(a, Idle)
          /\ UNCHANGED Buffers
  /\ UNCHANGED <<Active, Prev, PendingVal, LastLoadBuffId, Acc, Val, ptr, dumpVars>>

LoadCommit(a) ==
  /\ IsAt(a, "commit")
  /\ Commit(op[a].tbl, op[a].buf, op[a].id)
  /\ Goto(a, Idle)
  /\ UNCHANGED <<PendingVal, LastLoadBuffId, Val, ptr, dumpVars>>

-----------------------------------------------------------------------------
(* CFE_TBL_UpdateInternal with the registry locked.  It asks neither       *)
(* whether the image is valid nor whether its activation was requested.    *)
UpdateInternal(t) ==
  LET b == LoadBuf(t) IN
  IF b # NoSlot /\ (Private(t) \/ Available(t))
  THEN Commit(t, b, Target(t))
  ELSE ClearStale(t) /\ UNCHANGED <<Active, Prev, Buffers, Acc>>

(* CFE_TBL_Update, called by the owner on its own account.                 *)
Update(a, t) ==
  /\ "Update" \in Api /\ IsAt(a, "idle") /\ Owner[t] = a
  /\ UpdateInternal(t)
  /\ UNCHANGED <<PendingVal, LastLoadBuffId, Val, op, ptr, dumpVars>>

(* CFE_TBL_Manage: asks for the status of the table and does what is due,  *)
(* validations first and in a loop.  With nothing due it has no effect.    *)
ManageNext(a, t) ==
  Goto(a, [Idle EXCEPT !.tbl = t,
             !.at = CASE TableStatus(t) = "VALIDATION_PENDING" -> "validate"
                      [] TableStatus(t) = "UPDATE_PENDING" -> "update"
                      [] TableStatus(t) = "DUMP_PENDING" -> "take"])

Manage(a, t) ==
  /\ IsAt(a, "idle") /\ Owner[t] = a
  /\ TableStatus(t) # "SUCCESS"
  /\ ManageNext(a, t)
  /\ UNCHANGED <<regVars, Buffers, LastLoadBuffId, Acc, Val, ptr, dumpVars>>

ManageAgain(a) ==
  LET t == op[a].tbl IN
  /\ IsAt(a, "manage")
  /\ IF TableStatus(t) = "SUCCESS" THEN Goto(a, Idle) ELSE ManageNext(a, t)
  /\ UNCHANGED <<regVars, Buffers, LastLoadBuffId, Acc, Val, ptr, dumpVars>>

ManageUpdate(a) ==
  /\ IsAt(a, "update")
  /\ UpdateInternal(op[a].tbl)
  /\ Goto(a, Idle)
  /\ UNCHANGED <<PendingVal, LastLoadBuffId, Val, ptr, dumpVars>>

(* Faulty: the request stays pending.                                      *)
ValidateKeepsRequest(a) ==
  LET v == PendingVal[op[a].tbl] IN
  /\ IsAt(a, "validate")
  /\ v # NoVal
  /\ Goto(a, [op[a] EXCEPT !.at = "run", !.val = v, !.buf = LoadBuf(op[a].tbl)])
  /\ UNCHANGED <<regVars, Buffers, LastLoadBuffId, Acc, Val, ptr, dumpVars>>

(* CFE_TBL_Validate: the locked region takes the request and the buffer;   *)
(* the validation function runs, and its verdict is stored, without the    *)
(* lock.                                                                   *)
Validate(a) ==
  LET t == op[a].tbl
      v == PendingVal[t] IN
  /\ IsAt(a, "validate")
  /\ v # NoVal
  /\ PendingVal' = [PendingVal EXCEPT ![t] = NoVal]
  /\ IF Val[v].Select = "ACTIVE" THEN UNCHANGED Next ELSE ClearStale(t)
  /\ Goto(a, [op[a] EXCEPT !.at = "run", !.val = v,
                !.buf = IF Val[v].Select = "ACTIVE" THEN Slot(Active[t]) ELSE LoadBuf(t)])
  /\ UNCHANGED <<Active, Prev, Buffers, LastLoadBuffId, Acc, Val, ptr, dumpVars>>

ValidationFunc(a) ==
  LET b == op[a].buf IN
  /\ IsAt(a, "run")
  /\ Goto(a, [op[a] EXCEPT !.at = "verdict",
                !.ok = b # NoSlot /\ Accepts(op[a].tbl, Buffers[b].Content)])
  /\ UNCHANGED <<regVars, Buffers, LastLoadBuffId, Acc, Val, ptr, dumpVars>>

ValidateDone(a) ==
  LET b == op[a].buf IN
  /\ IsAt(a, "verdict")
  /\ Buffers' = IF b = NoSlot THEN Buffers ELSE [Buffers EXCEPT ![b].IsValid = op[a].ok]
  /\ Val' = [Val EXCEPT ![op[a].val].State = "PERFORMED"]
  /\ Goto(a, [Idle EXCEPT !.at = "manage", !.tbl = op[a].tbl])
  /\ UNCHANGED <<regVars, LastLoadBuffId, Acc, ptr, dumpVars>>

-----------------------------------------------------------------------------
(* CFE_TBL_GetAddress and CFE_TBL_ReleaseAddress.                          *)
GetAddress(a, t) ==
  LET s == Slot(Active[t]) IN
  /\ IsAt(a, "idle") /\ a \in Accessors[t]
  /\ Active[t] # NoId
  /\ ptr' = [ptr EXCEPT ![a][t] = s]
  /\ Acc' = [Acc EXCEPT ![a][t] =
               [LockFlag |-> TRUE, BufferIndex |-> Buffers[s].Id, Updated |-> FALSE]]
  /\ UNCHANGED <<regVars, Buffers, LastLoadBuffId, Val, op, dumpVars>>

ReleaseAddress(a, t) ==
  /\ IsAt(a, "idle") /\ ptr[a][t] # NoSlot
  /\ ptr' = [ptr EXCEPT ![a][t] = NoSlot]
  /\ Acc' = [Acc EXCEPT ![a][t].LockFlag = FALSE]
  /\ UNCHANGED <<regVars, Buffers, LastLoadBuffId, Val, op, dumpVars>>

-----------------------------------------------------------------------------
(* The steps that continue a call; none of them waits.                     *)
Continue(p) ==
  \/ ReadBegin(p) \/ ReadEnd(p) \/ SetMetaDataFromFileHeader(p) \/ ReadFail(p)
  \/ LoadReserve(p) \/ LoadNoBuffer(p) \/ ValidateLoad(p)
  \/ LoadDrop(p) \/ LoadFinish(p) \/ LoadCommit(p)
  \/ ManageAgain(p) \/ ManageUpdate(p)
  \/ Validate(p) \/ ValidationFunc(p) \/ ValidateDone(p)
  \/ p = TblTask /\ (AbortLoad \/ PrepareDump \/ SnapshotBegin \/ SnapshotEnd)
  \/ DumpToBuffer(p) \/ \E i \in Images : Modified(p, i)

GroundCommand(t) ==
  \/ \E i \in Images : LoadCmd(t, i)
  \/ \E v \in Vals, select \in {"INACTIVE", "ACTIVE"} : ValidateCmd(t, select, v)
  \/ ActivateCmd(t) \/ AbortLoadCmd(t)
  \/ \E select \in {"INACTIVE", "ACTIVE"} : DumpCmd(t, select)

Call(a, t) ==
  \/ \E i \in Images : Load(a, t, i)
  \/ Update(a, t) \/ Manage(a, t) \/ Modify(a, t)
  \/ GetAddress(a, t) \/ ReleaseAddress(a, t)

NextStep ==
  \/ \E t \in Tables : GroundCommand(t) \/ \E a \in Apps : Call(a, t)
  \/ SendHkCmd
  \/ \E p \in Procs : Continue(p)

Spec == Init /\ [][NextStep]_vars

(* The scheduler runs a task that is inside a call, and the owner of a     *)
(* table keeps calling CFE_TBL_Manage for it.                              *)
FairSpec ==
  /\ Spec
  /\ \A p \in Procs : WF_vars(Continue(p))
  /\ \A t \in Tables : SF_vars(Manage(Owner[t], t))

-----------------------------------------------------------------------------
(* Type invariant.                                                         *)
TypeOK ==
  /\ Active \in [Tables -> LocalIds \cup {NoId}]
  /\ Prev \in [Tables -> LocalIds \cup {NoId}]
  /\ Next \in [Tables -> BufferIds \cup {NoId}]
  /\ PendingVal \in [Tables -> Vals \cup {NoVal}]
  /\ Buffers \in [Slots -> LoadBuff]
  /\ LastLoadBuffId \in 0..(NumShared * Wrap - 1)
  /\ Acc \in [Apps -> [Tables -> AccessDesc]]
  /\ Val \in [Vals -> ValResult]
  /\ op \in [Procs -> Op]
  /\ ptr \in [Apps -> [Tables -> Slots \cup {NoSlot}]]
  /\ DumpControlId \in [Tables -> BlockIds \cup {NoDump}]
  /\ DumpControlBlocks \in [0..(NumShared - 1) -> DumpControl]
  /\ LastDumpCtrlBlockId \in BlockIds

-----------------------------------------------------------------------------
(* A shared load buffer that is in use belongs to the load in progress of  *)
(* exactly one table or to exactly one dump: no load or dump is given a    *)
(* buffer that another one still has, and none is lost                     *)
(* (CFE_TBL_AcquireGlobalLoadBuff, CFE_TBL_DiscardWorkingBuffer and        *)
(* CFE_TBL_SendHkCmd).                                                     *)
DumpHas(b, s) ==
  /\ DumpControlBlocks[b].Id # NoDump /\ DumpControlBlocks[b].Buf = s
  /\ \/ DumpControlBlocks[b].State # "FREE"
     \/ op[TblTask].at \in {"snapshot", "copy"} /\ Block(op[TblTask].dump) = b

SharedBuffersOwned ==
  \A s \in {Shared} \X (0..(NumShared - 1)) : Buffers[s].Id # NoId =>
    Cardinality({t \in Tables : Slot(Next[t]) = s})
      + Cardinality({b \in DOMAIN DumpControlBlocks : DumpHas(b, s)}) = 1

(* The snapshot of a dump-only table is the image that the table had at    *)
(* one moment after the dump was asked for, and it stays so until it is    *)
(* written to the file, although the owner changes the table at any time,  *)
(* and loads and other dumps want its buffer (cfe_tbl_dump.c:299: "Dump    *)
(* Only tables need to synchronize their dumps with the owner's            *)
(* execution").                                                            *)
DumpTrue ==
  [][\A b \in DOMAIN DumpControlBlocks :
       LET c == DumpControlBlocks'[b] IN
       c.State = "PERFORMED" /\ c.tbl \in DumpOnly =>
         Buffers'[c.Buf].Content \in Images \cap
           {Buffers[IF DumpControlBlocks[b].State = "PERFORMED" THEN c.Buf
                    ELSE Slot(Active[c.tbl])].Content}]_vars

(* A reader that has an address of a table and has not released it sees    *)
(* one image all the time (cfe_tbl.h: "Table updates cannot occur while    *)
(* table addresses have not been released").                               *)
ReaderStable ==
  [][\A a \in Apps, t \in Tables \ DumpOnly :
       ptr[a][t] # NoSlot /\ ptr'[a][t] = ptr[a][t]
         => Buffers'[ptr[a][t]].Content = Buffers[ptr[a][t]].Content]_vars

(* A table with a validation function never has an active image that the   *)
(* function rejects (cfe_tbl.dox: "The cFE will refuse to let a table with *)
(* an associated Validation Function be Activated until a successful       *)
(* Validation on the Inactive table image has occurred").                  *)
OnlyValidActive ==
  \A t \in Validated : Active[t] # NoId => Buffers[Slot(Active[t])].Content \in Good

(* An accessor that has read an older image than the active one is told    *)
(* at its next CFE_TBL_GetAddress that the table was updated.              *)
NoMissedUpdate ==
  \A t \in Tables : \A a \in Accessors[t] :
    Acc[a][t].BufferIndex \in BufferIds \ {Active[t]} => Acc[a][t].Updated

(* The image that the ground asked to activate is the one that becomes     *)
(* active: nothing changes it while the activation is pending.             *)
PendingImageStable ==
  [][\A t \in Tables : UpdatePending(t) /\ Next'[t] = Next[t]
       => Buffers'[Slot(Next[t])].Content = Buffers[Slot(Next[t])].Content]_vars

(* A requested validation is carried out, because the owner manages the    *)
(* table, whatever commands and readers come in between.                   *)
ValidationPerformed == \A t \in Tables : PendingVal[t] # NoVal ~> PendingVal[t] = NoVal

(* An accepted activation of a double buffered table is carried out (or    *)
(* aborted) even if its readers never let go, unless the ground asks for   *)
(* another validation first.                                               *)
ActivationPerformed ==
  \A t \in DoubleBuffered : UpdatePending(t) ~> ~UpdatePending(t) \/ PendingVal[t] # NoVal
=============================================================================
