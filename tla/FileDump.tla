------------------------------- MODULE FileDump --------------------------------
(***************************************************************************)
(* Files written in the background by File Services (cfe_fs_api.c): tasks  *)
(* put their requests into a ring of Slots entries, and a job of the       *)
(* background task writes one file after the other, some records at a      *)
(* time.  A request is known by its meta data object, which belongs to one *)
(* task (the write commands of SB share one, ES has one); the task leaves  *)
(* it alone while it is pending.  The counts of requests come round at     *)
(* CountMod, a multiple of Slots as 2^32 is of four.                       *)
(*                                                                         *)
(* Records are not told apart: a file is written, over any number of       *)
(* turns, until its end or an error.                                       *)
(***************************************************************************)
EXTENDS Integers, FiniteSets

CONSTANTS
  Metas,        \* the meta data objects of the tasks
  NoMeta,       \* an entry of the ring that was wiped
  Slots,        \* CFE_FS_MAX_BACKGROUND_FILE_WRITES
  CountMod      \* 2^32

ASSUME FileAssumption ==
  Slots \in Nat \ {0, 1} /\ CountMod \in Nat /\ CountMod > Slots /\ CountMod % Slots = 0 /\ NoMeta \notin Metas

VARIABLES
  Entries,        \* the ring
  RequestCount,
  CompleteCount,
  IsPending,      \* of each meta data object
  Fd,             \* a file is open
  fileOf          \* history: the object whose file it is

queueVars == <<Entries, RequestCount, CompleteCount, IsPending>>
fileVars  == <<Entries, RequestCount, CompleteCount, IsPending, Fd, fileOf>>

FileInit ==
  /\ Entries = [i \in 0..(Slots - 1) |-> NoMeta]
  /\ RequestCount = 0
  /\ CompleteCount = 0
  /\ IsPending = [m \in Metas |-> FALSE]
  /\ Fd = FALSE
  /\ fileOf = NoMeta

--------------------------------------------------------------------------------
\* Faulty form: the counts are compared as if they did not come round.
QueueFullUnwrapped == RequestCount + 1 = CompleteCount + Slots

\* The counts are as far apart as they may get.
QueueFull == (RequestCount + 1) % CountMod = (CompleteCount + Slots) % CountMod

(* CFE_FS_BackgroundFileDumpRequest puts an object into the ring if there  *)
(* is room; otherwise nothing changes.  That the object is not pending is  *)
(* seen before the lock is taken, and only its own task makes it pending.  *)
BackgroundFileDumpRequest(m) ==
  /\ ~IsPending[m]
  /\ ~QueueFull
  /\ Entries' = [Entries EXCEPT ![RequestCount % Slots] = m]
  /\ IsPending' = [IsPending EXCEPT ![m] = TRUE]
  /\ RequestCount' = (RequestCount + 1) % CountMod
  /\ UNCHANGED <<CompleteCount, Fd, fileOf>>

--------------------------------------------------------------------------------
(* CFE_FS_RunBackgroundFileDump: the request it works on, if any. *)
Requested == CompleteCount # RequestCount
Oldest    == Entries[CompleteCount % Slots]

\* Without a file, for whatever reason, the request is complete.
Complete ==
  /\ Entries' = [Entries EXCEPT ![CompleteCount % Slots] = NoMeta]
  /\ CompleteCount' = (CompleteCount + 1) % CountMod
  /\ IsPending' = [IsPending EXCEPT ![Oldest] = FALSE]
  /\ Fd' = FALSE
  /\ fileOf' = NoMeta
  /\ UNCHANGED RequestCount

OpenFile ==
  /\ Requested /\ ~Fd /\ IsPending[Oldest]
  /\ Fd' = TRUE
  /\ fileOf' = Oldest
  /\ UNCHANGED queueVars

\* The file cannot be created or its header not be written; or the object is not pending.
SkipFile ==
  /\ Requested /\ ~Fd
  /\ Complete

\* The last record was written, or one failed.
EndFile ==
  /\ Requested /\ Fd
  /\ Complete

\* The credit is used up: the file stays open until the next turn.
OutOfCredit ==
  /\ Requested /\ Fd
  /\ UNCHANGED fileVars

NothingToDo ==
  /\ ~Requested
  /\ UNCHANGED fileVars

(* The queue and the objects are in memory that a reset clears. *)
FileReset ==
  /\ Entries' = [i \in 0..(Slots - 1) |-> NoMeta]
  /\ RequestCount' = 0
  /\ CompleteCount' = 0
  /\ IsPending' = [m \in Metas |-> FALSE]
  /\ Fd' = FALSE
  /\ fileOf' = NoMeta

--------------------------------------------------------------------------------
\* Places of the ring that hold requests, from the oldest on.
Waiting == {i \in 0..(Slots - 1) : i < (RequestCount - CompleteCount) % CountMod}

PlacesOf(m) == {i \in Waiting : Entries[(CompleteCount + i) % Slots] = m}

(* An object is pending exactly if it waits in the ring, once, and the     *)
(* file that is open is that of the oldest request: no request is lost or  *)
(* overwritten, not even the one that is being written, though the counts  *)
(* come round and the ring is full one short of its size                   *)
(* (CFE_FS_BackgroundFileDumpRequest, CFE_FS_RunBackgroundFileDump).       *)
PendingExact ==
  /\ \A m \in Metas : Cardinality(PlacesOf(m)) = IF IsPending[m] THEN 1 ELSE 0
  /\ Fd => Requested /\ fileOf = Oldest

================================================================================
