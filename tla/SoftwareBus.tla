----------------------------- MODULE SoftwareBus -----------------------------
(***************************************************************************)
(* The cFE Software Bus (src/modules/sb): pipes, routes and the reference  *)
(* counted message buffers that travel from a transmitting task through    *)
(* the OSAL queue of every subscribed pipe to the receiving tasks.         *)
(*                                                                         *)
(* All shared data of SB is protected by one mutex (CFE_SB_LockSharedData) *)
(* but the operations on OSAL queues are made with the mutex released.     *)
(* An action below is one locked region, or one OSAL call, of the code; an *)
(* API call with several of them is a sequence of actions of the calling   *)
(* task, whose program counter pc[t] names the region it executes next.    *)
(***************************************************************************)
EXTENDS Integers, Sequences, FiniteSets

CONSTANTS
  Tasks,          \* tasks that call the SB API
  Apps,           \* applications that own tasks, pipes and buffers
  AppOf,          \* the application of each task (CFE_ES_GetAppID)
  NoApp,          \* CFE_ES_APPID_UNDEFINED
  MsgIds,         \* message IDs
  Bufs,           \* the message buffers the SB memory pool can hold
  NoBuf,          \* the NULL buffer pointer
  MaxPipes,       \* CFE_PLATFORM_SB_MAX_PIPES, the size of PipeTbl
  MaxSerial,      \* bound: the largest pipe serial number handed out
  MaxMsgIds,      \* CFE_PLATFORM_SB_MAX_MSG_IDS
  MaxDestPerPkt,  \* CFE_PLATFORM_SB_MAX_DEST_PER_PKT
  MaxUseCount,    \* 0x7FFF, where CFE_SB_IncrBufUseCnt saturates
  Depths,         \* queue depths that callers ask for
  MsgLims         \* per-subscription message limits that callers ask for

ASSUME TaskAssumption == /\ IsFiniteSet(Tasks)
                         /\ AppOf \in [Tasks -> Apps]
                         /\ NoApp \notin Apps
ASSUME BufAssumption  == NoBuf \notin Bufs
ASSUME SizeAssumption == /\ IsFiniteSet(MsgIds)
                         /\ MaxPipes \in Nat \ {0}
                         /\ MaxSerial \in Nat
                         /\ MaxMsgIds \in Nat
                         /\ MaxDestPerPkt \in Nat \ {0}
                         /\ Depths \subseteq Nat \ {0}
                         /\ MsgLims \subseteq Nat
(* The reference counter is wide enough for the sender and a full route.   *)
ASSUME UseCountAssumption == MaxUseCount \in Nat /\ MaxUseCount > MaxDestPerPkt + 1

-----------------------------------------------------------------------------
(* Pipe IDs.  A CFE resource ID is a base plus a serial number; the index  *)
(* of its table entry is the serial modulo the table size.                 *)
PipeIds   == 1..MaxSerial
UNDEFINED == 0                \* CFE_RESOURCEID_UNDEFINED
RESERVED  == MaxSerial + 1    \* CFE_RESOURCEID_RESERVED, never handed out
Slots     == 0..(MaxPipes - 1)
ToIndex(p) == p % MaxPipes

PipeDesc == [PipeId            : PipeIds \cup {UNDEFINED, RESERVED},
             AppId             : Apps \cup {NoApp},
             MaxQueueDepth     : Nat,
             CurrentQueueDepth : Nat,
             PeakQueueDepth    : Nat,
             IgnoreMine        : BOOLEAN,
             LastBuffer        : Bufs \cup {NoBuf}]

ClearedDesc == [PipeId |-> UNDEFINED, AppId |-> NoApp, MaxQueueDepth |-> 0,
                CurrentQueueDepth |-> 0, PeakQueueDepth |-> 0,
                IgnoreMine |-> FALSE, LastBuffer |-> NoBuf]

BufferDesc == [UseCount : Nat, AppId : Apps \cup {NoApp},
               List : {"none", "ZeroCopy", "InTransit"},
               MsgId : MsgIds \cup {"none"}]
FreeBuf == [UseCount |-> 0, AppId |-> NoApp, List |-> "none", MsgId |-> "none"]

Destination == [Active : BOOLEAN, BuffCount : Nat, MsgId2PipeLim : Nat]
NoDest == [Active |-> FALSE, BuffCount |-> 0, MsgId2PipeLim |-> 0]

VARIABLES
  PipeTbl,     \* slot -> pipe descriptor
  LastPipeId,  \* serial of the last pipe ID handed out
  PipesInUse, SubscriptionsInUse,  \* the gauges of the statistics packet
  Routes,      \* message IDs that have a route
  Dests,       \* message ID -> pipe IDs in the destination list of its route
  Dest,        \* message ID -> pipe ID -> destination block
  Buf,         \* buffer -> buffer descriptor
  Queue,       \* pipe ID -> contents of the OSAL queue made for that pipe
  QueueDepth,  \* pipe ID -> depth of that queue, 0 when there is no queue
  pc,          \* task -> the region of the code it executes next
  zc,          \* task -> zero-copy buffer it has allocated and not yet sent
  cur,         \* task -> buffer whose reference the running call holds
  pid,         \* task -> pipe ID the running call works on
  targets,     \* task -> pipes the running transmission still has to write
  cleaning,    \* task -> application it cleans up (NoApp when none)
  todo,        \* task -> pipes on the delete list of that clean up
  gone         \* applications whose tasks have ended, until they are restarted

pipeVars  == <<PipeTbl, LastPipeId, PipesInUse>>
routeVars == <<SubscriptionsInUse, Routes, Dests, Dest>>
osVars    == <<Queue, QueueDepth>>
cleanVars == <<cleaning, todo, gone>>
taskVars  == <<pc, zc, cur, pid, targets>>
vars == <<pipeVars, routeVars, Buf, osVars, taskVars, cleanVars>>

Init ==
  /\ PipeTbl = [s \in Slots |-> ClearedDesc]
  /\ LastPipeId = 0
  /\ PipesInUse = 0
  /\ SubscriptionsInUse = 0
  /\ Routes = {}
  /\ Dests = [m \in MsgIds |-> {}]
  /\ Dest = [m \in MsgIds |-> [p \in PipeIds |-> NoDest]]
  /\ Buf = [b \in Bufs |-> FreeBuf]
  /\ Queue = [p \in PipeIds |-> <<>>]
  /\ QueueDepth = [p \in PipeIds |-> 0]
  /\ pc = [t \in Tasks |-> "idle"]
  /\ zc = [t \in Tasks |-> NoBuf]
  /\ cur = [t \in Tasks |-> NoBuf]
  /\ pid = [t \in Tasks |-> UNDEFINED]
  /\ targets = [t \in Tasks |-> {}]
  /\ cleaning = [t \in Tasks |-> NoApp]
  /\ todo = [t \in Tasks |-> {}]
  /\ gone = {}

-----------------------------------------------------------------------------
(* Faulty forms of some definitions below: what the code would be with one *)
(* plausible bug.  The mutation runs put them in the place of the original.*)

(* A stale pipe ID is located by its table index alone.                    *)
IsMatchByIndex(p) == PipeTbl[ToIndex(p)].PipeId \in PipeIds
(* A reserved table entry is taken for a free one.                         *)
IsUsedIfLive(s) == PipeTbl[s].PipeId \in PipeIds
(* One reference for the whole route, not one for every destination.       *)
IncrOnce(bd, n) == [bd EXCEPT !.UseCount = @ + 1]
(* The message count of the destination is not lowered.                    *)
UncountNothing(m, p) == UNCHANGED Dest
(* The drain loop looks at the head of the queue without taking it.        *)
DrainPeek(t) ==
  /\ pc[t] = "drain" /\ cur[t] = NoBuf
  /\ Queue[pid[t]] # <<>>
  /\ UNCHANGED vars
(* The scan for an application's pipes misses the last table entry.        *)
PipesOfButLast(a) ==
  {p \in PipeIds : /\ PipeTbl[ToIndex(p)].PipeId = p /\ PipeTbl[ToIndex(p)].AppId = a
                   /\ ToIndex(p) < MaxPipes - 1}
(* Ownership is checked by table entry, whatever pipe is in it.            *)
OwnsEntry(t, p) == pc[t] = "idle" /\ PipeTbl[ToIndex(p)].AppId = AppOf[t]

-----------------------------------------------------------------------------
(* Helpers named after the functions they model.                           *)

(* CFE_SB_PipeDescIsMatch of the descriptor that p locates.                *)
IsMatch(p) == PipeTbl[ToIndex(p)].PipeId = p
IsUsed(s)  == PipeTbl[s].PipeId # UNDEFINED

(* CFE_ResourceId_FindNext: the first of the next MaxPipes serials whose   *)
(* table entry is not used; UNDEFINED when the table is full.              *)
FreeSerials == {i \in 1..MaxPipes : ~IsUsed(ToIndex(LastPipeId + i))}
FindNext ==
  IF FreeSerials = {} THEN UNDEFINED
  ELSE LastPipeId + (CHOOSE i \in FreeSerials : \A j \in FreeSerials : i <= j)

(* CFE_SB_IncrBufUseCnt, n times, and CFE_SB_DecrBufUseCnt, which returns  *)
(* the buffer to the pool with its last reference.                         *)
Incr(bd, n) == [bd EXCEPT !.UseCount =
                  IF bd.UseCount + n <= MaxUseCount THEN bd.UseCount + n
                                                    ELSE MaxUseCount]
Decr(bd) == IF bd.UseCount = 0 THEN bd
            ELSE IF bd.UseCount = 1 THEN FreeBuf
            ELSE [bd EXCEPT !.UseCount = bd.UseCount - 1]

(* x-- where the code guards it with x > 0.                                *)
Less1(n) == IF n > 0 THEN n - 1 ELSE 0

(* CFE_SB_RemoveDest of pipe p in every route of the set ms.               *)
RemoveDest(ms, p) ==
  /\ Dests' = [m \in MsgIds |-> IF m \in ms THEN Dests[m] \ {p} ELSE Dests[m]]
  /\ Dest' = [m \in MsgIds |->
                IF m \in ms THEN [Dest[m] EXCEPT ![p] = NoDest] ELSE Dest[m]]
  /\ SubscriptionsInUse' = SubscriptionsInUse - Cardinality({m \in ms : p \in Dests[m]})

(* The depth and message limit accounting that ends with a message leaving *)
(* pipe p: done by a receiver, and by a sender whose write failed.         *)
UncountDest(m, p) ==
  Dest' = IF p \in Dests[m]
          THEN [Dest EXCEPT ![m][p].BuffCount = Less1(@)] ELSE Dest
UncountPipe(p) ==
  [PipeTbl[ToIndex(p)] EXCEPT !.CurrentQueueDepth = Less1(@)]

(* A task calls the API from its own code, while its application lives.    *)
Calls(t) == pc[t] = "idle" /\ AppOf[t] \notin gone

-----------------------------------------------------------------------------
(* CFE_SB_CreatePipe.  The first locked region takes a table entry; a full *)
(* table only counts an error.                                             *)
CreatePipe(t) ==
  LET p == FindNext IN
  /\ Calls(t)
  /\ p \in PipeIds
  /\ PipeTbl' = [PipeTbl EXCEPT ![ToIndex(p)] = [ClearedDesc EXCEPT !.PipeId = RESERVED]]
  /\ LastPipeId' = p
  /\ pid' = [pid EXCEPT ![t] = p]
  /\ pc' = [pc EXCEPT ![t] = "create"]
  /\ UNCHANGED <<PipesInUse, routeVars, Buf, osVars, zc, cur, targets, cleanVars>>

(* OS_QueueCreate succeeds (nobody else knows the new queue yet) and the   *)
(* second locked region publishes the pipe.                                *)
CreatePipeDone(t, depth) ==
  LET p == pid[t] IN
  /\ pc[t] = "create"
  /\ QueueDepth' = [QueueDepth EXCEPT ![p] = depth]
  /\ PipeTbl' = [PipeTbl EXCEPT ![ToIndex(p)] =
                   [PipeTbl[ToIndex(p)] EXCEPT !.PipeId = p, !.AppId = AppOf[t],
                                               !.MaxQueueDepth = depth]]
  /\ PipesInUse' = PipesInUse + 1
  /\ pc' = [pc EXCEPT ![t] = "idle"]
  /\ pid' = [pid EXCEPT ![t] = UNDEFINED]
  /\ UNCHANGED <<LastPipeId, routeVars, Buf, Queue, zc, cur, targets, cleanVars>>

(* OS_QueueCreate fails: name taken, or no queue left.                     *)
CreatePipeFail(t) ==
  /\ pc[t] = "create"
  /\ PipeTbl' = [PipeTbl EXCEPT ![ToIndex(pid[t])].PipeId = UNDEFINED]
  /\ pc' = [pc EXCEPT ![t] = "idle"]
  /\ pid' = [pid EXCEPT ![t] = UNDEFINED]
  /\ UNCHANGED <<LastPipeId, PipesInUse, routeVars, Buf, osVars, zc, cur,
                 targets, cleanVars>>

(* CFE_SB_SetPipeOpts, of which IGNOREMINE is the only option.             *)
SetPipeOpts(t, p, ignoreMine) ==
  /\ Calls(t)
  /\ IsMatch(p) /\ PipeTbl[ToIndex(p)].AppId = AppOf[t]
  /\ PipeTbl' = [PipeTbl EXCEPT ![ToIndex(p)].IgnoreMine = ignoreMine]
  /\ UNCHANGED <<LastPipeId, PipesInUse, routeVars, Buf, osVars, taskVars, cleanVars>>

-----------------------------------------------------------------------------
(* CFE_SB_DeletePipeFull.  The first locked region removes the pipe from   *)
(* every route, invalidates its ID and keeps the last buffer to release.   *)
DeletePipeFull(t, p, a) ==
  /\ IsMatch(p) /\ PipeTbl[ToIndex(p)].AppId = a
  /\ RemoveDest(Routes, p)
  /\ cur' = [cur EXCEPT ![t] = PipeTbl[ToIndex(p)].LastBuffer]
  /\ PipeTbl' = [PipeTbl EXCEPT ![ToIndex(p)].PipeId = RESERVED]
  /\ pid' = [pid EXCEPT ![t] = p]
  /\ pc' = [pc EXCEPT ![t] = "drain"]
  /\ UNCHANGED <<LastPipeId, PipesInUse, Routes, Buf, osVars, zc, targets>>

DeletePipe(t, p) ==
  /\ Calls(t)
  /\ DeletePipeFull(t, p, AppOf[t])
  /\ UNCHANGED cleanVars

(* The drain loop: release the buffer in hand, then take the next one.     *)
DrainRelease(t) ==
  /\ pc[t] = "drain" /\ cur[t] # NoBuf
  /\ Buf' = [Buf EXCEPT ![cur[t]] = Decr(Buf[cur[t]])]
  /\ cur' = [cur EXCEPT ![t] = NoBuf]
  /\ UNCHANGED <<pipeVars, routeVars, osVars, pc, zc, pid, targets, cleanVars>>

DrainGet(t) ==
  LET q == Queue[pid[t]] IN
  /\ pc[t] = "drain" /\ cur[t] = NoBuf
  /\ q # <<>>
  /\ cur' = [cur EXCEPT ![t] = Head(q)]
  /\ Queue' = [Queue EXCEPT ![pid[t]] = Tail(q)]
  /\ UNCHANGED <<pipeVars, routeVars, Buf, QueueDepth, pc, zc, pid, targets, cleanVars>>

DrainEnd(t) ==
  /\ pc[t] = "drain" /\ cur[t] = NoBuf
  /\ Queue[pid[t]] = <<>>
  /\ pc' = [pc EXCEPT ![t] = "qdelete"]
  /\ UNCHANGED <<pipeVars, routeVars, Buf, osVars, zc, cur, pid, targets, cleanVars>>

(* OS_QueueDelete.  Queue keeps what the queue held when it was destroyed: *)
(* the references in it are lost.                                          *)
QueueDelete(t) ==
  /\ pc[t] = "qdelete"
  /\ QueueDepth' = [QueueDepth EXCEPT ![pid[t]] = 0]
  /\ pc' = [pc EXCEPT ![t] = "free"]
  /\ UNCHANGED <<pipeVars, routeVars, Buf, Queue, zc, cur, pid, targets, cleanVars>>

(* The last locked region frees the table entry.                           *)
DeletePipeDone(t) ==
  /\ pc[t] = "free"
  /\ PipeTbl' = [PipeTbl EXCEPT ![ToIndex(pid[t])].PipeId = UNDEFINED]
  /\ PipesInUse' = PipesInUse - 1
  /\ pc' = [pc EXCEPT ![t] = IF cleaning[t] = NoApp THEN "idle" ELSE "cleanup"]
  /\ pid' = [pid EXCEPT ![t] = UNDEFINED]
  /\ UNCHANGED <<LastPipeId, routeVars, Buf, osVars, zc, cur, targets, cleanVars>>

-----------------------------------------------------------------------------
(* CFE_SB_CleanUpApp, called by ES for an application that has ended.  It  *)
(* lists the application's pipes, deletes each of them, and releases the   *)
(* zero-copy buffers the application never sent.  The application may be   *)
(* started again when that is done.                                        *)
PipesOf(a) == {p \in PipeIds : IsMatch(p) /\ PipeTbl[ToIndex(p)].AppId = a}

CleanUpApp(t, a) ==
  /\ Calls(t)
  /\ a \in Apps \ gone
  /\ \A u \in Tasks : AppOf[u] = a => u # t /\ pc[u] = "idle"
  /\ gone' = gone \cup {a}
  /\ cleaning' = [cleaning EXCEPT ![t] = a]
  /\ todo' = [todo EXCEPT ![t] = PipesOf(a)]
  /\ pc' = [pc EXCEPT ![t] = "cleanup"]
  /\ UNCHANGED <<pipeVars, routeVars, Buf, osVars, zc, cur, pid, targets>>

CleanUpPipe(t, p) ==
  /\ pc[t] = "cleanup" /\ p \in todo[t]
  /\ DeletePipeFull(t, p, cleaning[t])
  /\ todo' = [todo EXCEPT ![t] = @ \ {p}]
  /\ UNCHANGED <<cleaning, gone>>

ZeroCopyReleaseAppId(t) ==
  LET a == cleaning[t] IN
  /\ pc[t] = "cleanup" /\ todo[t] = {}
  /\ Buf' = [b \in Bufs |-> IF Buf[b].List = "ZeroCopy" /\ Buf[b].AppId = a
                            THEN Decr(Buf[b]) ELSE Buf[b]]
  /\ zc' = [u \in Tasks |-> IF AppOf[u] = a THEN NoBuf ELSE zc[u]]
  /\ gone' = gone \ {a}
  /\ cleaning' = [cleaning EXCEPT ![t] = NoApp]
  /\ pc' = [pc EXCEPT ![t] = "idle"]
  /\ UNCHANGED <<pipeVars, routeVars, osVars, cur, pid, targets, todo>>

-----------------------------------------------------------------------------
(* CFE_SB_SubscribeFull.  A duplicate subscription, a full routing table   *)
(* and a full destination list change nothing but error counters.          *)
Owns(t, p) == Calls(t) /\ IsMatch(p) /\ PipeTbl[ToIndex(p)].AppId = AppOf[t]

RouteFor(m) ==
  /\ m \in Routes \/ Cardinality(Routes) < MaxMsgIds
  /\ Routes' = Routes \cup {m}

SubscribeFull(t, p, m, lim) ==
  /\ Owns(t, p)
  /\ RouteFor(m)
  /\ p \notin Dests[m] /\ Cardinality(Dests[m]) < MaxDestPerPkt
  /\ Dests' = [Dests EXCEPT ![m] = @ \cup {p}]
  /\ Dest' = [Dest EXCEPT ![m][p] = [Active |-> TRUE, BuffCount |-> 0,
                                     MsgId2PipeLim |-> lim]]
  /\ SubscriptionsInUse' = SubscriptionsInUse + 1
  /\ UNCHANGED <<pipeVars, Buf, osVars, taskVars, cleanVars>>

(* The pool has no destination block left: the new route stays behind.     *)
SubscribeNoBlock(t, p, m) ==
  /\ Owns(t, p)
  /\ RouteFor(m)
  /\ p \notin Dests[m] /\ Cardinality(Dests[m]) < MaxDestPerPkt
  /\ UNCHANGED <<pipeVars, SubscriptionsInUse, Dests, Dest, Buf, osVars,
                 taskVars, cleanVars>>

(* CFE_SB_UnsubscribeFull.  The messages already on the pipe stay there.   *)
UnsubscribeFull(t, p, m) ==
  /\ Owns(t, p)
  /\ m \in Routes /\ p \in Dests[m]
  /\ RemoveDest({m}, p)
  /\ UNCHANGED <<pipeVars, Routes, Buf, osVars, taskVars, cleanVars>>

(* CFE_SB_EnableRouteCmd and CFE_SB_DisableRouteCmd, ground commands.      *)
SetRouteActive(m, p, active) ==
  /\ IsMatch(p) /\ p \in Dests[m]
  /\ Dest' = [Dest EXCEPT ![m][p].Active = active]
  /\ UNCHANGED <<pipeVars, SubscriptionsInUse, Routes, Dests, Buf, osVars,
                 taskVars, cleanVars>>

-----------------------------------------------------------------------------
(* CFE_SB_AllocateMessageBuffer: a buffer of the pool with UseCount 1, on  *)
(* the ZeroCopy tracking list in the name of the caller's application.     *)
AllocateMessageBuffer(t, b) ==
  /\ Calls(t) /\ zc[t] = NoBuf
  /\ Buf[b].UseCount = 0
  /\ Buf' = [Buf EXCEPT ![b] = [UseCount |-> 1, AppId |-> AppOf[t],
                                List |-> "ZeroCopy", MsgId |-> "none"]]
  /\ zc' = [zc EXCEPT ![t] = b]
  /\ UNCHANGED <<pipeVars, routeVars, osVars, pc, cur, pid, targets, cleanVars>>

(* CFE_SB_ReleaseMessageBuffer of a buffer that was never sent.            *)
ReleaseMessageBuffer(t) ==
  LET b == zc[t] IN
  /\ Calls(t) /\ b # NoBuf
  /\ Buf[b].AppId # NoApp
  /\ Buf' = [Buf EXCEPT ![b] = Decr([Buf[b] EXCEPT !.AppId = NoApp])]
  /\ zc' = [zc EXCEPT ![t] = NoBuf]
  /\ UNCHANGED <<pipeVars, routeVars, osVars, pc, cur, pid, targets, cleanVars>>

(* CFE_SB_TransmitBuffer, and CFE_SB_TransmitMsg after its allocation: the *)
(* buffer is validated, and CFE_SB_TransmitTxn_FindDestinations turns the  *)
(* route into the set of pipes to write.  The depth of the pipe, the count *)
(* of the destination and the references of the buffer are all raised here *)
(* on the expectation that every write will succeed.                       *)
Eligible(t, m) ==
  {p \in Dests[m] : /\ Dest[m][p].Active
                    /\ IsMatch(p)
                    /\ ~ (/\ PipeTbl[ToIndex(p)].IgnoreMine
                          /\ PipeTbl[ToIndex(p)].AppId = AppOf[t])}
UnderLimit(m, ps) == {p \in ps : Dest[m][p].BuffCount < Dest[m][p].MsgId2PipeLim}

CountPipe(d) ==
  [d EXCEPT !.CurrentQueueDepth = d.CurrentQueueDepth + 1,
            !.PeakQueueDepth = IF d.CurrentQueueDepth + 1 > d.PeakQueueDepth
                               THEN d.CurrentQueueDepth + 1 ELSE d.PeakQueueDepth]

FindDestinations(t, m) ==
  LET b == zc[t]
      accepted == UnderLimit(m, Eligible(t, m)) IN
  /\ Calls(t) /\ b # NoBuf
  /\ Buf[b].AppId # NoApp
  /\ Buf' = [Buf EXCEPT ![b] = [Incr(Buf[b], Cardinality(accepted)) EXCEPT
                                  !.AppId = NoApp, !.List = "InTransit", !.MsgId = m]]
  /\ Dest' = [Dest EXCEPT ![m] = [p \in PipeIds |->
                IF p \in accepted THEN [Dest[m][p] EXCEPT !.BuffCount = @ + 1]
                                  ELSE Dest[m][p]]]
  /\ PipeTbl' = [s \in Slots |-> IF PipeTbl[s].PipeId \in accepted
                                 THEN CountPipe(PipeTbl[s]) ELSE PipeTbl[s]]
  /\ targets' = [targets EXCEPT ![t] = accepted]
  /\ cur' = [cur EXCEPT ![t] = b]
  /\ zc' = [zc EXCEPT ![t] = NoBuf]
  /\ pc' = [pc EXCEPT ![t] = "send"]
  /\ UNCHANGED <<LastPipeId, PipesInUse, SubscriptionsInUse, Routes, Dests,
                 osVars, pid, cleanVars>>

(* CFE_SB_TransmitTxn_PipeHandler: OS_QueuePut, without the lock, to the   *)
(* queue that FindDestinations saw.                                        *)
HasRoom(p) == Len(Queue[p]) < QueueDepth[p]

QueuePut(t, p) ==
  /\ pc[t] = "send" /\ p \in targets[t]
  /\ HasRoom(p)
  /\ Queue' = [Queue EXCEPT ![p] = Append(@, cur[t])]
  /\ targets' = [targets EXCEPT ![t] = @ \ {p}]
  /\ UNCHANGED <<pipeVars, routeVars, Buf, QueueDepth, pc, zc, cur, pid, cleanVars>>

(* The queue is full, or it was deleted in the meantime.                   *)
QueuePutFail(t, p) ==
  /\ pc[t] = "send" /\ p \in targets[t]
  /\ ~HasRoom(p)
  /\ pid' = [pid EXCEPT ![t] = p]
  /\ pc' = [pc EXCEPT ![t] = "undo"]
  /\ UNCHANGED <<pipeVars, routeVars, Buf, osVars, zc, cur, targets, cleanVars>>

(* The locked region that takes the accounting of a failed write back.     *)
UndoPut(t) ==
  LET p == pid[t]
      b == cur[t] IN
  /\ pc[t] = "undo"
  /\ PipeTbl' = IF IsMatch(p) THEN [PipeTbl EXCEPT ![ToIndex(p)] = UncountPipe(p)]
                              ELSE PipeTbl
  /\ UncountDest(Buf[b].MsgId, p)
  /\ Buf' = [Buf EXCEPT ![b] = Decr(Buf[b])]
  /\ targets' = [targets EXCEPT ![t] = @ \ {p}]
  /\ pid' = [pid EXCEPT ![t] = UNDEFINED]
  /\ pc' = [pc EXCEPT ![t] = "send"]
  /\ UNCHANGED <<LastPipeId, PipesInUse, SubscriptionsInUse, Routes, Dests,
                 osVars, zc, cur, cleanVars>>

(* CFE_SB_TransmitTxn_Execute drops the sender's own reference.            *)
TransmitDone(t) ==
  /\ pc[t] = "send" /\ targets[t] = {}
  /\ Buf' = [Buf EXCEPT ![cur[t]] = Decr(Buf[cur[t]])]
  /\ cur' = [cur EXCEPT ![t] = NoBuf]
  /\ pc' = [pc EXCEPT ![t] = "idle"]
  /\ UNCHANGED <<pipeVars, routeVars, osVars, zc, pid, targets, cleanVars>>

-----------------------------------------------------------------------------
(* CFE_SB_ReceiveBuffer.  The call first releases the buffer of the        *)
(* previous call (CFE_SB_ReceiveTxn_SetPipeId).  A pipe is served by one   *)
(* task at a time, as the comment there asks.  A message that fails its    *)
(* verification is dropped by going through this action again.             *)
SoleReceiver(p) == \A u \in Tasks : pc[u] \in {"get", "export"} => pid[u] # p

ReceiveBuffer(t, p) ==
  LET b == PipeTbl[ToIndex(p)].LastBuffer IN
  /\ Calls(t)
  /\ IsMatch(p) /\ SoleReceiver(p)
  /\ Buf' = IF b = NoBuf THEN Buf ELSE [Buf EXCEPT ![b] = Decr(Buf[b])]
  /\ PipeTbl' = [PipeTbl EXCEPT ![ToIndex(p)].LastBuffer = NoBuf]
  /\ pid' = [pid EXCEPT ![t] = p]
  /\ pc' = [pc EXCEPT ![t] = "get"]
  /\ UNCHANGED <<LastPipeId, PipesInUse, routeVars, osVars, zc, cur, targets, cleanVars>>

(* OS_QueueGet takes a message, or returns without one: empty, timed out,  *)
(* or the queue is gone.                                                   *)
QueueGet(t) ==
  LET q == Queue[pid[t]] IN
  /\ pc[t] = "get"
  /\ QueueDepth[pid[t]] > 0 /\ q # <<>>
  /\ cur' = [cur EXCEPT ![t] = Head(q)]
  /\ Queue' = [Queue EXCEPT ![pid[t]] = Tail(q)]
  /\ pc' = [pc EXCEPT ![t] = "export"]
  /\ UNCHANGED <<pipeVars, routeVars, Buf, QueueDepth, zc, pid, targets, cleanVars>>

QueueGetFail(t) ==
  /\ pc[t] = "get"
  /\ QueueDepth[pid[t]] = 0 \/ Queue[pid[t]] = <<>>
  /\ pid' = [pid EXCEPT ![t] = UNDEFINED]
  /\ pc' = [pc EXCEPT ![t] = "idle"]
  /\ UNCHANGED <<pipeVars, routeVars, Buf, osVars, zc, cur, targets, cleanVars>>

(* CFE_SB_ReceiveTxn_ExportReference: the reference moves from the queue   *)
(* to the pipe descriptor, unless the pipe was deleted in the meantime.    *)
ExportReference(t) ==
  LET p == pid[t]
      b == cur[t] IN
  /\ pc[t] = "export"
  /\ \/ /\ IsMatch(p)
        /\ PipeTbl' = [PipeTbl EXCEPT ![ToIndex(p)] =
                         [UncountPipe(p) EXCEPT !.LastBuffer = b]]
        /\ UncountDest(Buf[b].MsgId, p)
        /\ Buf' = [Buf EXCEPT ![b] = Decr(Incr(Buf[b], 1))]
     \/ /\ ~IsMatch(p)
        /\ Buf' = [Buf EXCEPT ![b] = Decr(Buf[b])]
        /\ UNCHANGED <<PipeTbl, Dest>>
  /\ cur' = [cur EXCEPT ![t] = NoBuf]
  /\ pid' = [pid EXCEPT ![t] = UNDEFINED]
  /\ pc' = [pc EXCEPT ![t] = "idle"]
  /\ UNCHANGED <<LastPipeId, PipesInUse, SubscriptionsInUse, Routes, Dests,
                 osVars, zc, targets, cleanVars>>

-----------------------------------------------------------------------------
Call(t) ==
  \/ CreatePipe(t)
  \/ \E p \in PipeIds, f \in BOOLEAN : SetPipeOpts(t, p, f)
  \/ \E p \in PipeIds : DeletePipe(t, p) \/ ReceiveBuffer(t, p)
  \/ \E a \in Apps : CleanUpApp(t, a)
  \/ \E p \in PipeIds, m \in MsgIds, lim \in MsgLims : SubscribeFull(t, p, m, lim)
  \/ \E p \in PipeIds, m \in MsgIds : SubscribeNoBlock(t, p, m) \/ UnsubscribeFull(t, p, m)
  \/ \E b \in Bufs : AllocateMessageBuffer(t, b)
  \/ ReleaseMessageBuffer(t)
  \/ \E m \in MsgIds : FindDestinations(t, m)

(* The steps that end a call, none of which waits for another task.        *)
Continue(t) ==
  \/ \E d \in Depths : CreatePipeDone(t, d)
  \/ CreatePipeFail(t)
  \/ DrainRelease(t) \/ DrainGet(t) \/ DrainEnd(t)
  \/ QueueDelete(t) \/ DeletePipeDone(t)
  \/ \E p \in PipeIds : CleanUpPipe(t, p)
  \/ ZeroCopyReleaseAppId(t)
  \/ \E p \in PipeIds : QueuePut(t, p) \/ QueuePutFail(t, p)
  \/ UndoPut(t) \/ TransmitDone(t)
  \/ ExportReference(t)

(* OS_QueueGet may wait, for ever with CFE_SB_PEND_FOREVER.                *)
Wait(t) == QueueGet(t) \/ QueueGetFail(t)

Next ==
  \/ \E t \in Tasks : Call(t) \/ Continue(t) \/ Wait(t)
  \/ \E m \in MsgIds, p \in PipeIds, f \in BOOLEAN : SetRouteActive(m, p, f)

Spec == Init /\ [][Next]_vars

(* The scheduler runs every task that is inside a call that does not wait. *)
FairSpec == Spec /\ \A t \in Tasks : WF_vars(Continue(t))

-----------------------------------------------------------------------------
(* Type invariant.                                                         *)
Locations == {"idle", "create", "drain", "qdelete", "free", "cleanup",
              "send", "undo", "get", "export"}

TypeOK ==
  /\ PipeTbl \in [Slots -> PipeDesc]
  /\ LastPipeId \in Nat
  /\ PipesInUse \in Int /\ SubscriptionsInUse \in Int
  /\ Routes \subseteq MsgIds
  /\ Dests \in [MsgIds -> SUBSET PipeIds]
  /\ Dest \in [MsgIds -> [PipeIds -> Destination]]
  /\ Buf \in [Bufs -> BufferDesc]
  /\ Queue \in [PipeIds -> Seq(Bufs)]
  /\ QueueDepth \in [PipeIds -> Nat]
  /\ pc \in [Tasks -> Locations]
  /\ zc \in [Tasks -> Bufs \cup {NoBuf}]
  /\ cur \in [Tasks -> Bufs \cup {NoBuf}]
  /\ pid \in [Tasks -> PipeIds \cup {UNDEFINED}]
  /\ targets \in [Tasks -> SUBSET PipeIds]
  /\ cleaning \in [Tasks -> Apps \cup {NoApp}]
  /\ todo \in [Tasks -> SUBSET PipeIds]
  /\ gone \subseteq Apps

-----------------------------------------------------------------------------
(* Who holds a reference to buffer b.                                      *)
InCall(b)  == {t \in Tasks : cur[t] = b}
Unsent(b)  == {t \in Tasks : zc[t] = b}
InFlight(b) == {x \in Tasks \X PipeIds : cur[x[1]] = b /\ x[2] \in targets[x[1]]}
Queued(b)  == {p \in PipeIds : \E i \in DOMAIN Queue[p] : Queue[p][i] = b}
Exported(b) == {s \in Slots : PipeTbl[s].PipeId \in PipeIds /\ PipeTbl[s].LastBuffer = b}

References(b) == Cardinality(InCall(b)) + Cardinality(Unsent(b)) + Cardinality(InFlight(b))
                   + Cardinality(Queued(b)) + Cardinality(Exported(b))

(* The use count of every buffer is the number of references to it that    *)
(* exist: in the running calls of tasks, in unsent zero-copy pointers, in  *)
(* writes still to be made, in queues and in pipe descriptors.  A buffer   *)
(* is never returned to the pool while somebody can still reach it         *)
(* (CFE_SB_DecrBufUseCnt), whatever the order in which senders, receivers  *)
(* and deletions of the pipes between them run.                            *)
UseCountExact == \A b \in Bufs : Buf[b].UseCount = References(b)

(* No queue ever holds the same buffer twice.                              *)
NoDuplicates ==
  \A p \in PipeIds : \A i, j \in DOMAIN Queue[p] : Queue[p][i] = Queue[p][j] => i = j

(* The depth a live pipe reports (CurrentQueueDepth) is the number of      *)
(* messages on its queue, plus the writes announced and not yet made, plus *)
(* the message a receiver has taken and not yet accounted for.  An old     *)
(* transaction on a deleted pipe never disturbs the pipe that reuses its   *)
(* table entry.                                                            *)
Writing(p) == {t \in Tasks : p \in targets[t]}
Reading(p) == {t \in Tasks : pc[t] = "export" /\ pid[t] = p}

DepthExact ==
  \A p \in PipeIds : IsMatch(p) =>
    PipeTbl[ToIndex(p)].CurrentQueueDepth =
      Len(Queue[p]) + Cardinality(Writing(p)) + Cardinality(Reading(p))

(* The messages of m on their way through pipe p.                          *)
OnPipe(m, p) ==
    Cardinality({i \in DOMAIN Queue[p] : Buf[Queue[p][i]].MsgId = m})
  + Cardinality({t \in Writing(p) : Buf[cur[t]].MsgId = m})
  + Cardinality({t \in Reading(p) : Buf[cur[t]].MsgId = m})

(* The message count of a subscription never exceeds its limit nor the     *)
(* number of messages that can still lower it, so that no subscription is  *)
(* stopped for good by messages that are no longer on the pipe.            *)
BuffCountSound ==
  \A m \in MsgIds : \A p \in Dests[m] :
    /\ Dest[m][p].BuffCount <= Dest[m][p].MsgId2PipeLim
    /\ Dest[m][p].BuffCount <= OnPipe(m, p)

(* A destination names a pipe that exists: a deletion leaves no            *)
(* subscription behind and no subscription is added to a pipe that is      *)
(* being deleted.                                                          *)
NoDanglingDest == \A m \in MsgIds : \A p \in Dests[m] : m \in Routes /\ IsMatch(p)

(* A reserved table entry belongs to exactly one creation or deletion, and *)
(* an OSAL queue to a pipe that is live or in the hands of its deletion.   *)
InTransition(t) == pc[t] \in {"create", "drain", "qdelete", "free"}
Holder(s) == {t \in Tasks : InTransition(t) /\ ToIndex(pid[t]) = s}

SlotsExclusive ==
  /\ \A s \in Slots : Cardinality(Holder(s)) =
       (IF PipeTbl[s].PipeId = RESERVED THEN 1 ELSE 0)
  /\ \A p \in PipeIds : QueueDepth[p] > 0 =>
       IsMatch(p) \/ \E t \in Tasks : pid[t] = p /\ pc[t] \in {"drain", "qdelete"}

(* When the clean up of an application ends, nothing of it is left in SB:  *)
(* no pipe, no subscription and no buffer carries its ID.                  *)
Left(a) == \/ \E s \in Slots : PipeTbl[s].PipeId \in PipeIds /\ PipeTbl[s].AppId = a
           \/ \E b \in Bufs : Buf[b].UseCount > 0 /\ Buf[b].AppId = a
CleanUpComplete == [][\A a \in gone \ gone' : ~Left(a)']_vars

(* Every call ends, except a receive that waits for a message; the drain   *)
(* loop of a deletion ends although other tasks keep transmitting.         *)
EveryCallEnds ==
  \A t \in Tasks : pc[t] \notin {"idle", "get"} ~> pc[t] \in {"idle", "get"}

=============================================================================
