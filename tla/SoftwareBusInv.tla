---------------------------- MODULE SoftwareBusInv ----------------------------
(***************************************************************************)
(* The inductive invariant of SoftwareBus behind its counts, in layers:    *)
(* the local state of a call, the ownership of pipe table entries, the     *)
(* accounting of buffer references, who holds a reserved entry and an OSAL *)
(* queue, and the messages on a pipe.                                      *)
(***************************************************************************)
EXTENDS SoftwareBus

Sending(t)   == pc[t] \in {"send", "undo"}
Receiving(t) == pc[t] \in {"get", "export"}

(* Layer 1: what the locals of a task say while it is in a call.           *)
CallLocals ==
  \A t \in Tasks :
    /\ InTransition(t) \/ Receiving(t) => pid[t] \in PipeIds
    /\ Sending(t) \/ pc[t] = "export" => cur[t] \in Bufs
    /\ ~Sending(t) /\ pc[t] \notin {"export", "drain"} => cur[t] = NoBuf
    /\ ~Sending(t) => targets[t] = {}
    /\ pc[t] = "undo" => pid[t] \in targets[t]
    /\ pc[t] = "cleanup" => cleaning[t] \in Apps

(* Layer 2: a creation or a deletion owns its reserved entry; a pipe in    *)
(* creation and a pipe in reception hold no last buffer.                   *)
SlotOwned ==
  \A t \in Tasks : InTransition(t) =>
    /\ PipeTbl[ToIndex(pid[t])].PipeId = RESERVED
    /\ pc[t] = "create" => PipeTbl[ToIndex(pid[t])].LastBuffer = NoBuf
    /\ \A u \in Tasks \ {t} : InTransition(u) => ToIndex(pid[u]) # ToIndex(pid[t])
ReceiverAlone ==
  \A t \in Tasks : Receiving(t) =>
    /\ IsMatch(pid[t]) => PipeTbl[ToIndex(pid[t])].LastBuffer = NoBuf
    /\ \A u \in Tasks \ {t} : Receiving(u) => pid[u] # pid[t]

(* Layer 3: an unsent buffer has one reference and one owner; a buffer is  *)
(* sent by one task, and is not yet on the queues it still has to go to.   *)
RouteBound == \A m \in MsgIds : Cardinality(Dests[m]) <= MaxDestPerPkt
UseBound   == \A b \in Bufs : Buf[b].UseCount <= MaxDestPerPkt + 1

UnsentOwned ==
  /\ \A t \in Tasks : zc[t] # NoBuf => /\ Buf[zc[t]].UseCount = 1
                                       /\ Buf[zc[t]].List = "ZeroCopy"
                                       /\ Buf[zc[t]].AppId = AppOf[t]
  /\ \A b \in Bufs : Buf[b].List = "ZeroCopy" => \E t \in Tasks : zc[t] = b
SenderAlone ==
  \A t, u \in Tasks : Sending(t) /\ Sending(u) /\ cur[t] = cur[u] => t = u
NotYetQueued ==
  \A t \in Tasks : Sending(t) => \A p \in targets[t] : p \notin Queued(cur[t])

Ownership  == SlotOwned /\ ReceiverAlone
Accounting == /\ RouteBound /\ UseBound /\ UnsentOwned /\ SenderAlone
              /\ NotYetQueued /\ NoDuplicates /\ UseCountExact

(* Layer 4: a reserved entry has its creation or deletion, and an OSAL     *)
(* queue its pipe or the deletion of it.                                   *)
ReservedHeld ==
  \A s \in Slots : PipeTbl[s].PipeId = RESERVED =>
    \E t \in Tasks : InTransition(t) /\ ToIndex(pid[t]) = s
QueueOwned ==
  \A p \in PipeIds : QueueDepth[p] > 0 =>
    IsMatch(p) \/ \E t \in Tasks : pid[t] = p /\ pc[t] \in {"drain", "qdelete"}

(* Layer 5: nothing has happened yet to a pipe ID that is still to be      *)
(* handed out or whose pipe is being created.                              *)
Fresh(p) == p > LastPipeId \/ \E t \in Tasks : pc[t] = "create" /\ pid[t] = p
FreshUntouched ==
  \A p \in PipeIds : Fresh(p) =>
    /\ ~IsMatch(p) /\ Queue[p] = <<>> /\ Writing(p) = {}
    /\ \A t \in Tasks : Receiving(t) => pid[t] # p
CreationClean ==
  \A t \in Tasks : pc[t] = "create" =>
    pid[t] <= LastPipeId /\ PipeTbl[ToIndex(pid[t])].CurrentQueueDepth = 0

Transitions == ReservedHeld /\ QueueOwned
Depth       == FreshUntouched /\ CreationClean /\ DepthExact

(* Layer 6: while an application is cleaned up its tasks are not running,  *)
(* one task cleans it up, and has every live pipe of it on its list; what  *)
(* carries the ID of an application is a buffer that was never sent.       *)
GoneIdle == \A t \in Tasks : AppOf[t] \in gone => pc[t] = "idle"
CleanersGone ==
  \A t \in Tasks : cleaning[t] # NoApp =>
    /\ cleaning[t] \in gone
    /\ \A u \in Tasks \ {t} : cleaning[u] # cleaning[t]
IdsPlaced ==
  \A s \in Slots : PipeTbl[s].PipeId \in PipeIds => ToIndex(PipeTbl[s].PipeId) = s
PipesListed ==
  \A t \in Tasks : cleaning[t] # NoApp =>
    \A s \in Slots : PipeTbl[s].PipeId \in PipeIds /\ PipeTbl[s].AppId = cleaning[t] =>
      PipeTbl[s].PipeId \in todo[t]
OwnedUnsent == \A b \in Bufs : Buf[b].AppId # NoApp => Buf[b].List = "ZeroCopy"

CleanUps == GoneIdle /\ CleanersGone /\ IdsPlaced /\ PipesListed /\ OwnedUnsent

(* The inductive invariant.                                                *)
IInv == /\ TypeOK /\ CallLocals /\ Ownership /\ Accounting /\ Transitions /\ Depth
        /\ CleanUps /\ BuffCountSound
=============================================================================
