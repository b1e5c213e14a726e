-------------------------- MODULE SoftwareBusProofs --------------------------
(***************************************************************************)
(* Proofs about SoftwareBus, for every value of its constants.             *)
(***************************************************************************)
EXTENDS SoftwareBusInv, FiniteSetTheorems, WellFoundedInduction, TLAPS

(* Every ID locates an entry of the table.                                 *)
LEMMA IndexType == \A p \in Nat : ToIndex(p) \in Slots
BY SizeAssumption DEF ToIndex, Slots

(* Counting references up and down gives a buffer descriptor again.        *)
LEMMA DecrType == \A bd \in BufferDesc : Decr(bd) \in BufferDesc
BY DEF Decr, BufferDesc, FreeBuf

LEMMA IncrType == \A bd \in BufferDesc, n \in Nat : Incr(bd, n) \in BufferDesc
BY UseCountAssumption DEF Incr, BufferDesc

(* What an update of one entry of the pipe table needs.                    *)
LEMMA ClearedType == [ClearedDesc EXCEPT !.PipeId = RESERVED] \in PipeDesc
BY SizeAssumption DEF ClearedDesc, PipeDesc, PipeIds, RESERVED, UNDEFINED

(* Every update of a pipe descriptor gives a pipe descriptor again.        *)
LEMMA DescUpdates ==
  ASSUME NEW d \in PipeDesc
  PROVE  /\ \A i \in PipeIds \cup {UNDEFINED, RESERVED} : [d EXCEPT !.PipeId = i] \in PipeDesc
         /\ \A i \in PipeIds, a \in Apps \cup {NoApp}, n \in Nat :
              [d EXCEPT !.PipeId = i, !.AppId = a, !.MaxQueueDepth = n] \in PipeDesc
         /\ \A f \in BOOLEAN : [d EXCEPT !.IgnoreMine = f] \in PipeDesc
         /\ \A b \in Bufs \cup {NoBuf} : [d EXCEPT !.LastBuffer = b] \in PipeDesc
         /\ [d EXCEPT !.CurrentQueueDepth = Less1(@)] \in PipeDesc
         /\ CountPipe(d) \in PipeDesc
<1>1. \A i \in PipeIds \cup {UNDEFINED, RESERVED} : [d EXCEPT !.PipeId = i] \in PipeDesc
  BY DEF PipeDesc
<1>2. \A i \in PipeIds, a \in Apps \cup {NoApp}, n \in Nat :
              [d EXCEPT !.PipeId = i, !.AppId = a, !.MaxQueueDepth = n] \in PipeDesc
  BY DEF PipeDesc
<1>3. \A f \in BOOLEAN : [d EXCEPT !.IgnoreMine = f] \in PipeDesc
  BY DEF PipeDesc
<1>4. \A b \in Bufs \cup {NoBuf} : [d EXCEPT !.LastBuffer = b] \in PipeDesc
  BY DEF PipeDesc
<1>5. [d EXCEPT !.CurrentQueueDepth = Less1(@)] \in PipeDesc
  BY DEF PipeDesc, Less1
<1>6. CountPipe(d) \in PipeDesc
  <2> DEFINE peak == IF d.CurrentQueueDepth + 1 > d.PeakQueueDepth
                     THEN d.CurrentQueueDepth + 1 ELSE d.PeakQueueDepth
  <2>1. d.CurrentQueueDepth + 1 \in Nat /\ peak \in Nat  BY DEF PipeDesc
  <2>2. CountPipe(d) = [d EXCEPT !.CurrentQueueDepth = d.CurrentQueueDepth + 1,
                                 !.PeakQueueDepth = peak]
    BY DEF CountPipe
  <2> HIDE DEF peak
  <2> QED BY <2>1, <2>2 DEF PipeDesc
<1> QED BY <1>1, <1>2, <1>3, <1>4, <1>5, <1>6

(* The entry an ID locates can be read and written.                        *)
LEMMA EntryType ==
  ASSUME PipeTbl \in [Slots -> PipeDesc], NEW p \in Nat
  PROVE  /\ PipeTbl[ToIndex(p)] \in PipeDesc
         /\ \A d \in PipeDesc : [PipeTbl EXCEPT ![ToIndex(p)] = d] \in [Slots -> PipeDesc]
BY IndexType

(* What the updates of a destination list need.                            *)
LEMMA RemoveDestType ==
  ASSUME Dests \in [MsgIds -> SUBSET PipeIds],
         Dest \in [MsgIds -> [PipeIds -> Destination]],
         SubscriptionsInUse \in Int, Routes \subseteq MsgIds,
         NEW ms \in SUBSET MsgIds, NEW p \in PipeIds, RemoveDest(ms, p)
  PROVE  /\ Dests' \in [MsgIds -> SUBSET PipeIds]
         /\ Dest' \in [MsgIds -> [PipeIds -> Destination]]
         /\ SubscriptionsInUse' \in Int
<1>1. NoDest \in Destination  BY DEF NoDest, Destination
<1>2. Cardinality({m \in ms : p \in Dests[m]}) \in Nat
  <2>1. {m \in ms : p \in Dests[m]} \in SUBSET MsgIds  OBVIOUS
  <2> QED BY <2>1, SizeAssumption, FS_Subset, FS_CardinalityType
<1> QED BY <1>1, <1>2 DEF RemoveDest

(* Lowering the message count of a destination keeps its type.             *)
LEMMA UncountDestType ==
  ASSUME Dest \in [MsgIds -> [PipeIds -> Destination]],
         NEW m, NEW p \in PipeIds, UncountDest(m, p)
  PROVE  Dest' \in [MsgIds -> [PipeIds -> Destination]]
<1>1. \A d \in Destination : [d EXCEPT !.BuffCount = Less1(@)] \in Destination
  BY DEF Destination, Less1
<1> QED BY <1>1 DEF UncountDest

Inv1 == TypeOK /\ CallLocals

(* The types and the locals of calls hold at the start, and in each step.  *)
LEMMA TypeInit == Init => Inv1
BY SizeAssumption DEF Init, Inv1, TypeOK, CallLocals, PipeDesc, ClearedDesc, BufferDesc, FreeBuf,
  Destination, NoDest, Slots, PipeIds, UNDEFINED, RESERVED, Locations, InTransition, Sending, Receiving

LEMMA TypeStep == Inv1 /\ [Next]_vars => Inv1'
<1> SUFFICES ASSUME TypeOK, CallLocals, [Next]_vars PROVE TypeOK' /\ CallLocals'
  BY DEF Inv1
<1> USE SizeAssumption, BufAssumption, TaskAssumption
<1>a. PipeTbl \in [Slots -> PipeDesc]  BY DEF TypeOK
<1>b. PipeIds \subseteq Nat /\ UNDEFINED \in Nat /\ UNDEFINED \notin PipeIds  BY DEF PipeIds, UNDEFINED
<1>c. \A t \in Tasks : pid[t] \in Nat  BY <1>b DEF TypeOK
<1>d. \A t \in Tasks : PipeTbl[ToIndex(pid[t])] \in PipeDesc  BY <1>a, <1>c, EntryType
<1>e. \A p \in PipeIds : PipeTbl[ToIndex(p)] \in PipeDesc  BY <1>a, <1>b, EntryType
<1>f. \A p \in Nat, d \in PipeDesc : [PipeTbl EXCEPT ![ToIndex(p)] = d] \in [Slots -> PipeDesc]
  BY <1>a, EntryType
<1>g. \A b \in Bufs : Buf[b] \in BufferDesc /\ Decr(Buf[b]) \in BufferDesc
  BY DecrType DEF TypeOK
<1>1. ASSUME NEW t \in Tasks, CreatePipe(t) PROVE TypeOK' /\ CallLocals'
  <2>1. PipeTbl' \in [Slots -> PipeDesc]
    BY <1>1, <1>b, <1>f, ClearedType DEF CreatePipe
  <2>2. LastPipeId' \in Nat
    BY <1>1, <1>b DEF CreatePipe
  <2>8. TypeOK'
    BY <1>1, <2>1, <2>2, <1>b DEF TypeOK, CreatePipe, Locations, pipeVars, routeVars, osVars, cleanVars, taskVars
  <2>9. CallLocals'
    BY <1>1, <2>1, <2>2, <1>b DEF TypeOK, CallLocals, CreatePipe, InTransition, Sending, Receiving, Calls, taskVars, cleanVars
  <2> QED BY <2>8, <2>9
<1>2. ASSUME NEW t \in Tasks, NEW d \in Depths, CreatePipeDone(t, d) PROVE TypeOK' /\ CallLocals'
  <2>1. pid[t] \in PipeIds
    BY <1>2 DEF CallLocals, InTransition, Receiving, CreatePipeDone
  <2>2. PipeTbl' \in [Slots -> PipeDesc]
    BY <1>2, <2>1, <1>b, <1>d, <1>e, <1>f, DescUpdates DEF CreatePipeDone
  <2>8. TypeOK'
    BY <1>2, <2>1, <2>2, <1>b DEF TypeOK, CreatePipeDone, Locations, pipeVars, routeVars, osVars, cleanVars, taskVars
  <2>9. CallLocals'
    BY <1>2, <2>1, <2>2, <1>b DEF TypeOK, CallLocals, CreatePipeDone, InTransition, Sending, Receiving, Calls, taskVars, cleanVars
  <2> QED BY <2>8, <2>9
<1>3. ASSUME NEW t \in Tasks, CreatePipeFail(t) PROVE TypeOK' /\ CallLocals'
  <2>1. pid[t] \in PipeIds
    BY <1>3 DEF CallLocals, InTransition, Receiving, CreatePipeFail
  <2>2. PipeTbl' \in [Slots -> PipeDesc]
    BY <1>3, <2>1, <1>b, <1>d, <1>e, <1>f, DescUpdates DEF CreatePipeFail
  <2>8. TypeOK'
    BY <1>3, <2>1, <2>2, <1>b DEF TypeOK, CreatePipeFail, Locations, pipeVars, routeVars, osVars, cleanVars, taskVars
  <2>9. CallLocals'
    BY <1>3, <2>1, <2>2, <1>b DEF TypeOK, CallLocals, CreatePipeFail, InTransition, Sending, Receiving, Calls, taskVars, cleanVars
  <2> QED BY <2>8, <2>9
<1>4. ASSUME NEW t \in Tasks, NEW p \in PipeIds, NEW f \in BOOLEAN, SetPipeOpts(t, p, f) PROVE TypeOK' /\ CallLocals'
  <2>2. PipeTbl' \in [Slots -> PipeDesc]
    BY <1>4, <1>b, <1>e, <1>f, DescUpdates DEF SetPipeOpts
  <2>8. TypeOK'
    BY <1>4, <2>2, <1>b DEF TypeOK, SetPipeOpts, Locations, pipeVars, routeVars, osVars, cleanVars, taskVars
  <2>9. CallLocals'
    BY <1>4, <2>2, <1>b DEF TypeOK, CallLocals, SetPipeOpts, InTransition, Sending, Receiving, Calls, taskVars, cleanVars
  <2> QED BY <2>8, <2>9
<1>5. ASSUME NEW t \in Tasks, NEW p \in PipeIds, NEW a \in Apps, DeletePipeFull(t, p, a),
             pc[t] \in {"idle", "cleanup"},
             cleaning' = cleaning, todo' \in [Tasks -> SUBSET PipeIds],
             gone' \subseteq Apps
      PROVE  TypeOK' /\ CallLocals'
  <2>1. PipeTbl' \in [Slots -> PipeDesc]
    BY <1>5, <1>b, <1>e, <1>f, DescUpdates DEF DeletePipeFull
  <2>2. PipeTbl[ToIndex(p)].LastBuffer \in Bufs \cup {NoBuf}
    BY <1>e DEF PipeDesc
  <2>3. /\ Dests' \in [MsgIds -> SUBSET PipeIds]
        /\ Dest' \in [MsgIds -> [PipeIds -> Destination]]
        /\ SubscriptionsInUse' \in Int
    BY <1>5, RemoveDestType DEF DeletePipeFull, TypeOK
  <2>8. TypeOK'
    BY <1>5, <2>1, <2>2, <2>3, <1>b DEF TypeOK, DeletePipeFull, Locations, osVars
  <2>9. CallLocals'
    BY <1>5, <2>2, <1>b DEF TypeOK, CallLocals, DeletePipeFull, InTransition, Sending, Receiving, cleanVars
  <2> QED BY <2>8, <2>9
<1>6. ASSUME NEW t \in Tasks, NEW p \in PipeIds, DeletePipe(t, p) PROVE TypeOK' /\ CallLocals'
  BY <1>5, <1>6 DEF DeletePipe, Calls, TypeOK, cleanVars
<1>7. ASSUME NEW t \in Tasks, NEW p \in PipeIds, CleanUpPipe(t, p) PROVE TypeOK' /\ CallLocals'
  <2>1. cleaning[t] \in Apps
    BY <1>7, <1>e DEF CleanUpPipe, TypeOK, CallLocals
  <2> QED BY <1>5, <1>7, <2>1 DEF CleanUpPipe, TypeOK
<1>8. ASSUME NEW t \in Tasks, DrainRelease(t) PROVE TypeOK' /\ CallLocals'
  <2>1. Buf' \in [Bufs -> BufferDesc]
    BY <1>8, <1>g DEF DrainRelease, TypeOK
  <2>8. TypeOK'
    BY <1>8, <2>1, <1>b DEF TypeOK, DrainRelease, Locations, pipeVars, routeVars, osVars, cleanVars, taskVars
  <2>9. CallLocals'
    BY <1>8, <2>1, <1>b DEF TypeOK, CallLocals, DrainRelease, InTransition, Sending, Receiving, Calls, taskVars, cleanVars
  <2> QED BY <2>8, <2>9
<1>9. ASSUME NEW t \in Tasks, DrainGet(t) PROVE TypeOK' /\ CallLocals'
  <2>1. pid[t] \in PipeIds
    BY <1>9 DEF CallLocals, InTransition, Receiving, DrainGet
  <2>2. /\ Head(Queue[pid[t]]) \in Bufs
        /\ Queue' \in [PipeIds -> Seq(Bufs)]
    BY <1>9, <2>1 DEF DrainGet, TypeOK
  <2>8. TypeOK'
    BY <1>9, <2>1, <2>2, <1>b DEF TypeOK, DrainGet, Locations, pipeVars, routeVars, osVars, cleanVars, taskVars
  <2>9. CallLocals'
    BY <1>9, <2>1, <2>2, <1>b DEF TypeOK, CallLocals, DrainGet, InTransition, Sending, Receiving, Calls, taskVars, cleanVars
  <2> QED BY <2>8, <2>9
<1>10. ASSUME NEW t \in Tasks, DrainEnd(t) PROVE TypeOK' /\ CallLocals'
  <2>8. TypeOK'
    BY <1>10, <1>b DEF TypeOK, DrainEnd, Locations, pipeVars, routeVars, osVars, cleanVars, taskVars
  <2>9. CallLocals'
    BY <1>10, <1>b DEF TypeOK, CallLocals, DrainEnd, InTransition, Sending, Receiving, Calls, taskVars, cleanVars
  <2> QED BY <2>8, <2>9
<1>11. ASSUME NEW t \in Tasks, QueueDelete(t) PROVE TypeOK' /\ CallLocals'
  <2>1. pid[t] \in PipeIds
    BY <1>11 DEF CallLocals, InTransition, Receiving, QueueDelete
  <2>8. TypeOK'
    BY <1>11, <2>1, <1>b DEF TypeOK, QueueDelete, Locations, pipeVars, routeVars, osVars, cleanVars, taskVars
  <2>9. CallLocals'
    BY <1>11, <2>1, <1>b DEF TypeOK, CallLocals, QueueDelete, InTransition, Sending, Receiving, Calls, taskVars, cleanVars
  <2> QED BY <2>8, <2>9
<1>12. ASSUME NEW t \in Tasks, DeletePipeDone(t) PROVE TypeOK' /\ CallLocals'
  <2>1. pid[t] \in PipeIds
    BY <1>12 DEF CallLocals, InTransition, Receiving, DeletePipeDone
  <2>2. PipeTbl' \in [Slots -> PipeDesc]
    BY <1>12, <2>1, <1>b, <1>d, <1>e, <1>f, DescUpdates DEF DeletePipeDone
  <2>8. TypeOK'
    BY <1>12, <2>1, <2>2, <1>b DEF TypeOK, DeletePipeDone, Locations, pipeVars, routeVars, osVars, cleanVars, taskVars
  <2>9. CallLocals'
    BY <1>12, <2>1, <2>2, <1>b DEF TypeOK, CallLocals, DeletePipeDone, InTransition, Sending, Receiving, Calls, taskVars, cleanVars
  <2> QED BY <2>8, <2>9
<1>13. ASSUME NEW t \in Tasks, NEW a \in Apps, CleanUpApp(t, a) PROVE TypeOK' /\ CallLocals'
  <2>8. TypeOK'
    BY <1>13, <1>b DEF TypeOK, CleanUpApp, PipesOf, Locations, pipeVars, routeVars, osVars, cleanVars, taskVars
  <2>9. CallLocals'
    BY <1>13, <1>b DEF TypeOK, CallLocals, CleanUpApp, InTransition, Sending, Receiving, Calls, taskVars, cleanVars
  <2> QED BY <2>8, <2>9
<1>14. ASSUME NEW t \in Tasks, ZeroCopyReleaseAppId(t) PROVE TypeOK' /\ CallLocals'
  <2>1. Buf' \in [Bufs -> BufferDesc]
    BY <1>14, <1>g DEF ZeroCopyReleaseAppId, TypeOK
  <2>8. TypeOK'
    BY <1>14, <2>1, <1>b DEF TypeOK, ZeroCopyReleaseAppId, Locations, pipeVars, routeVars, osVars, cleanVars, taskVars
  <2>9. CallLocals'
    BY <1>14, <2>1, <1>b DEF TypeOK, CallLocals, ZeroCopyReleaseAppId, InTransition, Sending, Receiving, Calls, taskVars, cleanVars
  <2> QED BY <2>8, <2>9
<1>15. ASSUME NEW t \in Tasks, NEW p \in PipeIds, NEW m \in MsgIds, NEW lim \in MsgLims, SubscribeFull(t, p, m, lim) PROVE TypeOK' /\ CallLocals'
  <2>1. Dest' \in [MsgIds -> [PipeIds -> Destination]]
    BY <1>15 DEF SubscribeFull, TypeOK, Destination
  <2>8. TypeOK'
    BY <1>15, <2>1, <1>b DEF TypeOK, SubscribeFull, RouteFor, Locations, pipeVars, routeVars, osVars, cleanVars, taskVars
  <2>9. CallLocals'
    BY <1>15, <2>1, <1>b DEF TypeOK, CallLocals, SubscribeFull, RouteFor, InTransition, Sending, Receiving, Calls, taskVars, cleanVars
  <2> QED BY <2>8, <2>9
<1>16. ASSUME NEW t \in Tasks, NEW p \in PipeIds, NEW m \in MsgIds, SubscribeNoBlock(t, p, m) PROVE TypeOK' /\ CallLocals'
  <2>8. TypeOK'
    BY <1>16, <1>b DEF TypeOK, SubscribeNoBlock, RouteFor, Locations, pipeVars, routeVars, osVars, cleanVars, taskVars
  <2>9. CallLocals'
    BY <1>16, <1>b DEF TypeOK, CallLocals, SubscribeNoBlock, RouteFor, InTransition, Sending, Receiving, Calls, taskVars, cleanVars
  <2> QED BY <2>8, <2>9
<1>17. ASSUME NEW t \in Tasks, NEW p \in PipeIds, NEW m \in MsgIds, UnsubscribeFull(t, p, m) PROVE TypeOK' /\ CallLocals'
  <2>1. /\ Dests' \in [MsgIds -> SUBSET PipeIds]
        /\ Dest' \in [MsgIds -> [PipeIds -> Destination]]
        /\ SubscriptionsInUse' \in Int
    BY <1>17, RemoveDestType DEF UnsubscribeFull, TypeOK
  <2>8. TypeOK'
    BY <1>17, <2>1, <1>b DEF TypeOK, UnsubscribeFull, Locations, pipeVars, routeVars, osVars, cleanVars, taskVars
  <2>9. CallLocals'
    BY <1>17, <2>1, <1>b DEF TypeOK, CallLocals, UnsubscribeFull, InTransition, Sending, Receiving, Calls, taskVars, cleanVars
  <2> QED BY <2>8, <2>9
<1>18. ASSUME NEW m \in MsgIds, NEW p \in PipeIds, NEW f \in BOOLEAN, SetRouteActive(m, p, f) PROVE TypeOK' /\ CallLocals'
  <2>1. Dest' \in [MsgIds -> [PipeIds -> Destination]]
    <3>1. Dest[m][p] \in Destination  BY DEF TypeOK
    <3>2. [Dest[m][p] EXCEPT !.Active = f] \in Destination  BY <3>1 DEF Destination
    <3>3. [Dest[m] EXCEPT ![p] = [Dest[m][p] EXCEPT !.Active = f]] \in [PipeIds -> Destination]
      BY <3>2 DEF TypeOK
    <3> QED BY <1>18, <3>3 DEF SetRouteActive, TypeOK
  <2>8. TypeOK'
    BY <1>18, <2>1, <1>b DEF TypeOK, SetRouteActive, Locations, pipeVars, routeVars, osVars, cleanVars, taskVars
  <2>9. CallLocals'
    BY <1>18, <2>1, <1>b DEF TypeOK, CallLocals, SetRouteActive, InTransition, Sending, Receiving, Calls, taskVars, cleanVars
  <2> QED BY <2>8, <2>9
<1>19. ASSUME NEW t \in Tasks, NEW b \in Bufs, AllocateMessageBuffer(t, b) PROVE TypeOK' /\ CallLocals'
  <2>1. Buf' \in [Bufs -> BufferDesc]
    BY <1>19 DEF AllocateMessageBuffer, TypeOK, BufferDesc
  <2>8. TypeOK'
    BY <1>19, <2>1, <1>b DEF TypeOK, AllocateMessageBuffer, Locations, pipeVars, routeVars, osVars, cleanVars, taskVars
  <2>9. CallLocals'
    BY <1>19, <2>1, <1>b DEF TypeOK, CallLocals, AllocateMessageBuffer, InTransition, Sending, Receiving, Calls, taskVars, cleanVars
  <2> QED BY <2>8, <2>9
<1>20. ASSUME NEW t \in Tasks, ReleaseMessageBuffer(t) PROVE TypeOK' /\ CallLocals'
  <2>1. Buf' \in [Bufs -> BufferDesc]
    <3>1. zc[t] \in Bufs BY <1>20 DEF ReleaseMessageBuffer, TypeOK
    <3>2. [Buf[zc[t]] EXCEPT !.AppId = NoApp] \in BufferDesc BY <3>1, <1>g DEF BufferDesc
    <3> QED BY <1>20, <3>1, <3>2, DecrType DEF ReleaseMessageBuffer, TypeOK
  <2>8. TypeOK'
    BY <1>20, <2>1, <1>b DEF TypeOK, ReleaseMessageBuffer, Locations, pipeVars, routeVars, osVars, cleanVars, taskVars
  <2>9. CallLocals'
    BY <1>20, <2>1, <1>b DEF TypeOK, CallLocals, ReleaseMessageBuffer, InTransition, Sending, Receiving, Calls, taskVars, cleanVars
  <2> QED BY <2>8, <2>9
<1>21. ASSUME NEW t \in Tasks, NEW m \in MsgIds, FindDestinations(t, m) PROVE TypeOK' /\ CallLocals'
  <2> DEFINE accepted == UnderLimit(m, Eligible(t, m))
  <2>1. accepted \in SUBSET PipeIds /\ Cardinality(accepted) \in Nat
    <3>1. accepted \subseteq PipeIds  BY DEF UnderLimit, Eligible, TypeOK
    <3>2. IsFiniteSet(PipeIds)  BY FS_Interval DEF PipeIds
    <3> QED BY <3>1, <3>2, FS_Subset, FS_CardinalityType
  <2> HIDE DEF accepted
  <2>2. Buf' \in [Bufs -> BufferDesc]
    <3>1. zc[t] \in Bufs BY <1>21 DEF FindDestinations, TypeOK
    <3>2. Incr(Buf[zc[t]], Cardinality(accepted)) \in BufferDesc  BY <3>1, <2>1, <1>g, IncrType
    <3>3. [Incr(Buf[zc[t]], Cardinality(accepted)) EXCEPT !.AppId = NoApp, !.List = "InTransit", !.MsgId = m] \in BufferDesc
      BY <3>2 DEF BufferDesc
    <3> QED BY <1>21, <3>3 DEF FindDestinations, TypeOK, accepted
  <2>3. Dest' \in [MsgIds -> [PipeIds -> Destination]]
    <3>1. Dest[m] \in [PipeIds -> Destination]  BY DEF TypeOK
    <3>2. \A p \in PipeIds : [Dest[m][p] EXCEPT !.BuffCount = @ + 1] \in Destination
      BY <3>1 DEF Destination
    <3>3. [p \in PipeIds |-> IF p \in accepted THEN [Dest[m][p] EXCEPT !.BuffCount = @ + 1]
                                               ELSE Dest[m][p]] \in [PipeIds -> Destination]
      BY <3>1, <3>2
    <3> QED BY <1>21, <3>3 DEF FindDestinations, TypeOK, accepted
  <2>4. PipeTbl' \in [Slots -> PipeDesc]
    BY <1>21, <1>a, DescUpdates DEF FindDestinations, accepted
  <2>8. TypeOK'
    BY <1>21, <2>1, <2>2, <2>3, <2>4 DEF TypeOK, FindDestinations, Locations, osVars, cleanVars, accepted
  <2>9. CallLocals'
    BY <1>21, <2>1, <1>b DEF TypeOK, CallLocals, FindDestinations, InTransition, Sending, Receiving, Calls, accepted, cleanVars
  <2> QED BY <2>8, <2>9
<1>22. ASSUME NEW t \in Tasks, NEW p \in PipeIds, QueuePut(t, p) PROVE TypeOK' /\ CallLocals'
  <2>1. Queue' \in [PipeIds -> Seq(Bufs)]
    <3>1. cur[t] \in Bufs BY <1>22 DEF QueuePut, CallLocals, Sending
    <3> QED BY <1>22, <3>1 DEF QueuePut, TypeOK
  <2>8. TypeOK'
    BY <1>22, <2>1, <1>b DEF TypeOK, QueuePut, Locations, pipeVars, routeVars, osVars, cleanVars, taskVars
  <2>9. CallLocals'
    BY <1>22, <2>1, <1>b DEF TypeOK, CallLocals, QueuePut, InTransition, Sending, Receiving, Calls, taskVars, cleanVars
  <2> QED BY <2>8, <2>9
<1>23. ASSUME NEW t \in Tasks, NEW p \in PipeIds, QueuePutFail(t, p) PROVE TypeOK' /\ CallLocals'
  <2>8. TypeOK'
    BY <1>23, <1>b DEF TypeOK, QueuePutFail, Locations, pipeVars, routeVars, osVars, cleanVars, taskVars
  <2>9. CallLocals'
    BY <1>23, <1>b DEF TypeOK, CallLocals, QueuePutFail, InTransition, Sending, Receiving, Calls, taskVars, cleanVars
  <2> QED BY <2>8, <2>9
<1>24. ASSUME NEW t \in Tasks, UndoPut(t) PROVE TypeOK' /\ CallLocals'
  <2>1. cur[t] \in Bufs /\ pid[t] \in PipeIds
    BY <1>24, <1>b DEF UndoPut, CallLocals, Sending, Receiving, TypeOK
  <2>2. Dest' \in [MsgIds -> [PipeIds -> Destination]]
    BY <1>24, <2>1, UncountDestType DEF UndoPut, TypeOK
  <2>3. Buf' \in [Bufs -> BufferDesc]
    BY <1>24, <2>1, <1>g DEF UndoPut, TypeOK
  <2>4. PipeTbl' \in [Slots -> PipeDesc]
    BY <1>24, <2>1, <1>a, <1>b, <1>e, <1>f, DescUpdates DEF UndoPut, UncountPipe
  <2>8. TypeOK'
    BY <1>24, <2>1, <2>2, <2>3, <2>4, <1>b DEF TypeOK, UndoPut, Locations, pipeVars, routeVars, osVars, cleanVars, taskVars
  <2>9. CallLocals'
    BY <1>24, <2>1, <2>2, <2>3, <2>4, <1>b DEF TypeOK, CallLocals, UndoPut, InTransition, Sending, Receiving, Calls, taskVars, cleanVars
  <2> QED BY <2>8, <2>9
<1>25. ASSUME NEW t \in Tasks, TransmitDone(t) PROVE TypeOK' /\ CallLocals'
  <2>1. cur[t] \in Bufs
    BY <1>25 DEF TransmitDone, CallLocals, Sending
  <2>3. Buf' \in [Bufs -> BufferDesc]
    BY <1>25, <2>1, <1>g DEF TransmitDone, TypeOK
  <2>8. TypeOK'
    BY <1>25, <2>1, <2>3, <1>b DEF TypeOK, TransmitDone, Locations, pipeVars, routeVars, osVars, cleanVars, taskVars
  <2>9. CallLocals'
    BY <1>25, <2>1, <2>3, <1>b DEF TypeOK, CallLocals, TransmitDone, InTransition, Sending, Receiving, Calls, taskVars, cleanVars
  <2> QED BY <2>8, <2>9
<1>26. ASSUME NEW t \in Tasks, NEW p \in PipeIds, ReceiveBuffer(t, p) PROVE TypeOK' /\ CallLocals'
  <2>1. PipeTbl[ToIndex(p)].LastBuffer \in Bufs \cup {NoBuf}
    BY <1>e DEF PipeDesc
  <2>2. PipeTbl' \in [Slots -> PipeDesc]
    BY <1>26, <1>b, <1>e, <1>f, DescUpdates DEF ReceiveBuffer
  <2>3. Buf' \in [Bufs -> BufferDesc]
    BY <1>26, <2>1, <1>g DEF ReceiveBuffer, TypeOK
  <2>8. TypeOK'
    BY <1>26, <2>1, <2>2, <2>3, <1>b DEF TypeOK, ReceiveBuffer, Locations, pipeVars, routeVars, osVars, cleanVars, taskVars
  <2>9. CallLocals'
    BY <1>26, <2>1, <2>2, <2>3, <1>b DEF TypeOK, CallLocals, ReceiveBuffer, InTransition, Sending, Receiving, Calls, taskVars, cleanVars
  <2> QED BY <2>8, <2>9
<1>27. ASSUME NEW t \in Tasks, QueueGet(t) PROVE TypeOK' /\ CallLocals'
  <2>1. pid[t] \in PipeIds
    BY <1>27 DEF CallLocals, InTransition, Receiving, QueueGet
  <2>2. /\ Head(Queue[pid[t]]) \in Bufs
        /\ Queue' \in [PipeIds -> Seq(Bufs)]
    BY <1>27, <2>1 DEF QueueGet, TypeOK
  <2>8. TypeOK'
    BY <1>27, <2>1, <2>2, <1>b DEF TypeOK, QueueGet, Locations, pipeVars, routeVars, osVars, cleanVars, taskVars
  <2>9. CallLocals'
    BY <1>27, <2>1, <2>2, <1>b DEF TypeOK, CallLocals, QueueGet, InTransition, Sending, Receiving, Calls, taskVars, cleanVars
  <2> QED BY <2>8, <2>9
<1>28. ASSUME NEW t \in Tasks, QueueGetFail(t) PROVE TypeOK' /\ CallLocals'
  <2>8. TypeOK'
    BY <1>28, <1>b DEF TypeOK, QueueGetFail, Locations, pipeVars, routeVars, osVars, cleanVars, taskVars
  <2>9. CallLocals'
    BY <1>28, <1>b DEF TypeOK, CallLocals, QueueGetFail, InTransition, Sending, Receiving, Calls, taskVars, cleanVars
  <2> QED BY <2>8, <2>9
<1>29. ASSUME NEW t \in Tasks, ExportReference(t) PROVE TypeOK' /\ CallLocals'
  <2>1. cur[t] \in Bufs /\ pid[t] \in PipeIds
    BY <1>29, <1>b DEF ExportReference, CallLocals, Sending, Receiving, TypeOK
  <2>2. Dest' \in [MsgIds -> [PipeIds -> Destination]]
    BY <1>29, <2>1, UncountDestType DEF ExportReference, TypeOK
  <2>3. Buf' \in [Bufs -> BufferDesc]
    <3>1. Decr(Incr(Buf[cur[t]], 1)) \in BufferDesc  BY <2>1, <1>g, IncrType, DecrType
    <3> QED BY ZenonT(40), <1>29, <2>1, <3>1, <1>g DEF ExportReference, TypeOK
  <2>4. PipeTbl' \in [Slots -> PipeDesc]
    <3>1. UncountPipe(pid[t]) \in PipeDesc  BY <2>1, <1>e, DescUpdates DEF UncountPipe
    <3>2. [UncountPipe(pid[t]) EXCEPT !.LastBuffer = cur[t]] \in PipeDesc  BY <2>1, <3>1, DescUpdates
    <3> QED BY <1>29, <2>1, <3>2, <1>a, <1>b, <1>f DEF ExportReference
  <2>8. TypeOK'
    BY <1>29, <2>1, <2>2, <2>3, <2>4, <1>b DEF TypeOK, ExportReference, Locations, pipeVars, routeVars, osVars, cleanVars, taskVars
  <2>9. CallLocals'
    BY <1>29, <2>1, <2>2, <2>3, <2>4, <1>b DEF TypeOK, CallLocals, ExportReference, InTransition, Sending, Receiving, Calls, taskVars, cleanVars
  <2> QED BY <2>8, <2>9
<1>30. CASE UNCHANGED vars
  BY <1>30 DEF vars, pipeVars, routeVars, osVars, taskVars, cleanVars, TypeOK, CallLocals, InTransition, Sending, Receiving
<1> QED
  BY <1>1, <1>2, <1>3, <1>4, <1>6, <1>7, <1>8, <1>9, <1>10, <1>11, <1>12, <1>13, <1>14, <1>15,
     <1>16, <1>17, <1>18, <1>19, <1>20, <1>21, <1>22, <1>23, <1>24, <1>25, <1>26, <1>27, <1>28,
     <1>29, <1>30 DEF Next, Call, Continue, Wait

(* Every variable stays within its type and every call finds its locals as *)
(* it left them, in all the multi-step calls of the SB API.                *)
THEOREM TypeCorrect == Spec => []TypeOK
<1>1. Spec => []Inv1  BY TypeInit, TypeStep, PTL DEF Spec
<1>2. Inv1 => TypeOK  BY DEF Inv1
<1> QED BY <1>1, <1>2, PTL

-----------------------------------------------------------------------------
(* Ownership of table entries, and what it means for destinations.         *)

(* The next pipe ID is a new one, and its table entry is free.             *)
LEMMA NextIsFree ==
  ASSUME LastPipeId \in Nat, NEW p \in PipeIds, p = FindNext
  PROVE  PipeTbl[ToIndex(p)].PipeId = UNDEFINED /\ p > LastPipeId
<1>1. FreeSerials # {} /\ FreeSerials \subseteq Nat \ {0}
  BY SizeAssumption DEF FindNext, FreeSerials, PipeIds, UNDEFINED
<1> DEFINE Less == {x \in Nat \X Nat : x[1] < x[2]}
<1>2. IsWellFoundedOn(Less, Nat)
  <2>1. Less = OpToRel(<, Nat)  BY Zenon DEF OpToRel
  <2> QED BY <2>1, NatLessThanWellFounded, Zenon
<1>3. PICK k \in FreeSerials : \A j \in FreeSerials : <<j, k>> \notin Less
  <2> HIDE DEF Less
  <2> QED BY <1>1, <1>2, WFMin, Zenon
<1>4. \A i, j \in Nat : i < j => <<i, j>> \in Less  OBVIOUS
<1>5. \A j \in FreeSerials : k <= j
  <2> HIDE DEF Less
  <2> SUFFICES ASSUME NEW j \in FreeSerials PROVE k <= j  OBVIOUS
  <2>1. j \in Nat /\ k \in Nat  BY <1>1
  <2>2. ~(j < k)  BY <1>3, <1>4, <2>1, Zenon
  <2> QED BY <2>1, <2>2
<1> DEFINE least == CHOOSE i \in FreeSerials : \A j \in FreeSerials : i <= j
<1>6. least \in FreeSerials  BY <1>5
<1>7. p = LastPipeId + least  BY <1>1 DEF FindNext
<1>8. ~IsUsed(ToIndex(LastPipeId + least))
  <2> HIDE DEF least
  <2> QED BY <1>6 DEF FreeSerials
<1>9. p > LastPipeId
  <2> HIDE DEF least
  <2> QED BY <1>1, <1>6, <1>7
<1> QED BY <1>7, <1>8, <1>9 DEF IsUsed

(* IDs handed out, UNDEFINED and RESERVED are told apart.                  *)
LEMMA IdKinds ==
  /\ UNDEFINED \notin PipeIds /\ RESERVED \notin PipeIds /\ UNDEFINED # RESERVED
  /\ PipeIds \subseteq Nat /\ \A p \in PipeIds : ToIndex(p) \in Slots
BY IndexType, SizeAssumption DEF PipeIds, UNDEFINED, RESERVED

(* What most steps leave alone: the IDs of table entries and the last      *)
(* buffer of one in transition, the tasks in transition, the destinations. *)
SameEntries ==
  \A s \in Slots : /\ PipeTbl'[s].PipeId = PipeTbl[s].PipeId
                   /\ PipeTbl[s].PipeId = RESERVED => PipeTbl'[s].LastBuffer = PipeTbl[s].LastBuffer
SameHolders ==
  \A t \in Tasks : InTransition(t)' =>
    /\ InTransition(t) /\ pid'[t] = pid[t]
    /\ pc'[t] = "create" => pc[t] = "create"
FewerDests ==
  /\ Routes \subseteq Routes'
  /\ \A m \in MsgIds : Dests'[m] \subseteq Dests[m]

Inv2 == Inv1 /\ SlotOwned /\ NoDanglingDest

(* Such a step keeps the owners and makes no destination dangle.           *)
LEMMA Frame ==
  ASSUME Inv2, SameEntries, SameHolders
  PROVE  SlotOwned' /\ (FewerDests => NoDanglingDest')
<1>1. \A t \in Tasks : InTransition(t) => pid[t] \in PipeIds  BY DEF Inv2, Inv1, CallLocals
<1>2. SlotOwned'
  BY ZenonT(40), <1>1, IdKinds DEF Inv2, SlotOwned, SameEntries, SameHolders
<1>3. FewerDests => NoDanglingDest'
  BY IdKinds DEF Inv2, Inv1, TypeOK, NoDanglingDest, SameEntries, FewerDests, IsMatch
<1> QED BY <1>2, <1>3

(* Counting a message on a pipe leaves its ID and its last buffer alone.   *)
LEMMA SameIds ==
  ASSUME NEW d \in PipeDesc
  PROVE  /\ CountPipe(d).PipeId = d.PipeId /\ CountPipe(d).LastBuffer = d.LastBuffer
         /\ [d EXCEPT !.CurrentQueueDepth = Less1(@)].PipeId = d.PipeId
BY DEF PipeDesc, CountPipe

(* A step that ends a creation or a deletion (<1>f) frees its own entry,   *)
(* and one that begins a deletion (<1>g) removes its pipe from all routes. *)
LEMMA OwnedStep == Inv2 /\ [Next]_vars => SlotOwned' /\ NoDanglingDest'
<1> SUFFICES ASSUME Inv2, [Next]_vars PROVE SlotOwned' /\ NoDanglingDest'  OBVIOUS
<1> USE DEF Inv2, Inv1
<1>a. PipeTbl \in [Slots -> PipeDesc] /\ pc \in [Tasks -> Locations] /\ LastPipeId \in Nat
  BY DEF TypeOK
<1>b. pid \in [Tasks -> PipeIds \cup {UNDEFINED}]  BY DEF TypeOK
<1>c. /\ \A t \in Tasks : InTransition(t) => pid[t] \in PipeIds
      /\ \A t \in Tasks : pc[t] = "export" => pid[t] \in PipeIds
      /\ \A t \in Tasks : pc[t] = "undo" => pid[t] \in PipeIds
  BY DEF CallLocals, TypeOK, Receiving
<1>d. /\ Dests \in [MsgIds -> SUBSET PipeIds] /\ Routes \subseteq MsgIds
      /\ \A s \in Slots : PipeTbl[s] \in PipeDesc
  BY <1>a DEF TypeOK
<1>e. ASSUME SameEntries, SameHolders, FewerDests PROVE SlotOwned' /\ NoDanglingDest'
  BY <1>e, Frame
<1>1. ASSUME NEW t \in Tasks, NEW p \in PipeIds, NEW f \in BOOLEAN, SetPipeOpts(t, p, f) PROVE SlotOwned' /\ NoDanglingDest'
  <2>1. SameEntries
    BY <1>1, <1>a, <1>c, <1>d, IdKinds DEF SameEntries, SetPipeOpts, pipeVars
  <2>2. SameHolders
    BY <1>1, <1>a, <1>b DEF SameHolders, InTransition, Calls, taskVars, SetPipeOpts
  <2>3. FewerDests
    BY <1>1, <1>d DEF FewerDests, routeVars, SetPipeOpts
  <2> QED BY <2>1, <2>2, <2>3, <1>e
<1>2. ASSUME NEW t \in Tasks, DrainRelease(t) PROVE SlotOwned' /\ NoDanglingDest'
  <2>1. SameEntries
    BY <1>2, <1>a, <1>c, <1>d, IdKinds DEF SameEntries, DrainRelease, pipeVars
  <2>2. SameHolders
    BY <1>2, <1>a, <1>b DEF SameHolders, InTransition, Calls, taskVars, DrainRelease
  <2>3. FewerDests
    BY <1>2, <1>d DEF FewerDests, routeVars, DrainRelease
  <2> QED BY <2>1, <2>2, <2>3, <1>e
<1>3. ASSUME NEW t \in Tasks, DrainGet(t) PROVE SlotOwned' /\ NoDanglingDest'
  <2>1. SameEntries
    BY <1>3, <1>a, <1>c, <1>d, IdKinds DEF SameEntries, DrainGet, pipeVars
  <2>2. SameHolders
    BY <1>3, <1>a, <1>b DEF SameHolders, InTransition, Calls, taskVars, DrainGet
  <2>3. FewerDests
    BY <1>3, <1>d DEF FewerDests, routeVars, DrainGet
  <2> QED BY <2>1, <2>2, <2>3, <1>e
<1>4. ASSUME NEW t \in Tasks, DrainEnd(t) PROVE SlotOwned' /\ NoDanglingDest'
  <2>1. SameEntries
    BY <1>4, <1>a, <1>c, <1>d, IdKinds DEF SameEntries, DrainEnd, pipeVars
  <2>2. SameHolders
    BY <1>4, <1>a, <1>b DEF SameHolders, InTransition, Calls, taskVars, DrainEnd
  <2>3. FewerDests
    BY <1>4, <1>d DEF FewerDests, routeVars, DrainEnd
  <2> QED BY <2>1, <2>2, <2>3, <1>e
<1>5. ASSUME NEW t \in Tasks, QueueDelete(t) PROVE SlotOwned' /\ NoDanglingDest'
  <2>1. SameEntries
    BY <1>5, <1>a, <1>c, <1>d, IdKinds DEF SameEntries, QueueDelete, pipeVars
  <2>2. SameHolders
    BY <1>5, <1>a, <1>b DEF SameHolders, InTransition, Calls, taskVars, QueueDelete
  <2>3. FewerDests
    BY <1>5, <1>d DEF FewerDests, routeVars, QueueDelete
  <2> QED BY <2>1, <2>2, <2>3, <1>e
<1>6. ASSUME NEW t \in Tasks, NEW a \in Apps, CleanUpApp(t, a) PROVE SlotOwned' /\ NoDanglingDest'
  <2>1. SameEntries
    BY <1>6, <1>a, <1>c, <1>d, IdKinds DEF SameEntries, CleanUpApp, pipeVars
  <2>2. SameHolders
    BY <1>6, <1>a, <1>b DEF SameHolders, InTransition, Calls, taskVars, CleanUpApp
  <2>3. FewerDests
    BY <1>6, <1>d DEF FewerDests, routeVars, CleanUpApp
  <2> QED BY <2>1, <2>2, <2>3, <1>e
<1>7. ASSUME NEW t \in Tasks, ZeroCopyReleaseAppId(t) PROVE SlotOwned' /\ NoDanglingDest'
  <2>1. SameEntries
    BY <1>7, <1>a, <1>c, <1>d, IdKinds DEF SameEntries, ZeroCopyReleaseAppId, pipeVars
  <2>2. SameHolders
    BY <1>7, <1>a, <1>b DEF SameHolders, InTransition, Calls, taskVars, ZeroCopyReleaseAppId
  <2>3. FewerDests
    BY <1>7, <1>d DEF FewerDests, routeVars, ZeroCopyReleaseAppId
  <2> QED BY <2>1, <2>2, <2>3, <1>e
<1>8. ASSUME NEW t \in Tasks, NEW p \in PipeIds, NEW m \in MsgIds, SubscribeNoBlock(t, p, m) PROVE SlotOwned' /\ NoDanglingDest'
  <2>1. SameEntries
    BY <1>8, <1>a, <1>c, <1>d, IdKinds DEF SameEntries, SubscribeNoBlock, RouteFor, pipeVars
  <2>2. SameHolders
    BY <1>8, <1>a, <1>b DEF SameHolders, InTransition, Calls, taskVars, SubscribeNoBlock, RouteFor
  <2>3. FewerDests
    BY <1>8, <1>d DEF FewerDests, routeVars, SubscribeNoBlock, RouteFor
  <2> QED BY <2>1, <2>2, <2>3, <1>e
<1>9. ASSUME NEW t \in Tasks, NEW p \in PipeIds, NEW m \in MsgIds, UnsubscribeFull(t, p, m) PROVE SlotOwned' /\ NoDanglingDest'
  <2>1. SameEntries
    BY <1>9, <1>a, <1>c, <1>d, IdKinds DEF SameEntries, UnsubscribeFull, RemoveDest, pipeVars
  <2>2. SameHolders
    BY <1>9, <1>a, <1>b DEF SameHolders, InTransition, Calls, taskVars, UnsubscribeFull, RemoveDest
  <2>3. FewerDests
    BY <1>9, <1>d DEF FewerDests, routeVars, UnsubscribeFull, RemoveDest
  <2> QED BY <2>1, <2>2, <2>3, <1>e
<1>10. ASSUME NEW m \in MsgIds, NEW p \in PipeIds, NEW f \in BOOLEAN, SetRouteActive(m, p, f) PROVE SlotOwned' /\ NoDanglingDest'
  <2>1. SameEntries
    BY <1>10, <1>a, <1>c, <1>d, IdKinds DEF SameEntries, SetRouteActive, pipeVars
  <2>2. SameHolders
    BY <1>10, <1>a, <1>b DEF SameHolders, InTransition, Calls, taskVars, SetRouteActive
  <2>3. FewerDests
    BY <1>10, <1>d DEF FewerDests, routeVars, SetRouteActive
  <2> QED BY <2>1, <2>2, <2>3, <1>e
<1>11. ASSUME NEW t \in Tasks, NEW b \in Bufs, AllocateMessageBuffer(t, b) PROVE SlotOwned' /\ NoDanglingDest'
  <2>1. SameEntries
    BY <1>11, <1>a, <1>c, <1>d, IdKinds DEF SameEntries, AllocateMessageBuffer, pipeVars
  <2>2. SameHolders
    BY <1>11, <1>a, <1>b DEF SameHolders, InTransition, Calls, taskVars, AllocateMessageBuffer
  <2>3. FewerDests
    BY <1>11, <1>d DEF FewerDests, routeVars, AllocateMessageBuffer
  <2> QED BY <2>1, <2>2, <2>3, <1>e
<1>12. ASSUME NEW t \in Tasks, ReleaseMessageBuffer(t) PROVE SlotOwned' /\ NoDanglingDest'
  <2>1. SameEntries
    BY <1>12, <1>a, <1>c, <1>d, IdKinds DEF SameEntries, ReleaseMessageBuffer, pipeVars
  <2>2. SameHolders
    BY <1>12, <1>a, <1>b DEF SameHolders, InTransition, Calls, taskVars, ReleaseMessageBuffer
  <2>3. FewerDests
    BY <1>12, <1>d DEF FewerDests, routeVars, ReleaseMessageBuffer
  <2> QED BY <2>1, <2>2, <2>3, <1>e
<1>13. ASSUME NEW t \in Tasks, NEW m \in MsgIds, FindDestinations(t, m) PROVE SlotOwned' /\ NoDanglingDest'
  <2>1. SameEntries
    <3>1. \A s \in Slots : PipeTbl'[s] \in {PipeTbl[s], CountPipe(PipeTbl[s])}
      BY <1>13 DEF FindDestinations
    <3> QED BY <3>1, <1>d, SameIds DEF SameEntries
  <2>2. pc' = [pc EXCEPT ![t] = "send"] /\ pid' = pid /\ Routes' = Routes /\ Dests' = Dests
    BY <1>13 DEF FindDestinations
  <2>3. SameHolders
    BY <2>2, <1>a, <1>b DEF SameHolders, InTransition
  <2>4. FewerDests
    BY <2>2, <1>d DEF FewerDests
  <2> QED BY <2>1, <2>3, <2>4, <1>e
<1>14. ASSUME NEW t \in Tasks, NEW p \in PipeIds, QueuePut(t, p) PROVE SlotOwned' /\ NoDanglingDest'
  <2>1. SameEntries
    BY <1>14, <1>a, <1>c, <1>d, IdKinds DEF SameEntries, QueuePut, pipeVars
  <2>2. SameHolders
    BY <1>14, <1>a, <1>b DEF SameHolders, InTransition, Calls, taskVars, QueuePut
  <2>3. FewerDests
    BY <1>14, <1>d DEF FewerDests, routeVars, QueuePut
  <2> QED BY <2>1, <2>2, <2>3, <1>e
<1>15. ASSUME NEW t \in Tasks, NEW p \in PipeIds, QueuePutFail(t, p) PROVE SlotOwned' /\ NoDanglingDest'
  <2>1. SameEntries
    BY <1>15, <1>a, <1>c, <1>d, IdKinds DEF SameEntries, QueuePutFail, pipeVars
  <2>2. SameHolders
    BY <1>15, <1>a, <1>b DEF SameHolders, InTransition, Calls, taskVars, QueuePutFail
  <2>3. FewerDests
    BY <1>15, <1>d DEF FewerDests, routeVars, QueuePutFail
  <2> QED BY <2>1, <2>2, <2>3, <1>e
<1>16. ASSUME NEW t \in Tasks, UndoPut(t) PROVE SlotOwned' /\ NoDanglingDest'
  <2>1. SameEntries
    BY <1>16, <1>a, <1>c, <1>d, IdKinds DEF SameEntries, UndoPut, UncountPipe, PipeDesc, pipeVars
  <2>2. SameHolders
    BY <1>16, <1>a, <1>b DEF SameHolders, InTransition, Calls, taskVars, UndoPut, UncountPipe, PipeDesc
  <2>3. FewerDests
    BY <1>16, <1>d DEF FewerDests, routeVars, UndoPut, UncountPipe, PipeDesc
  <2> QED BY <2>1, <2>2, <2>3, <1>e
<1>17. ASSUME NEW t \in Tasks, TransmitDone(t) PROVE SlotOwned' /\ NoDanglingDest'
  <2>1. SameEntries
    BY <1>17, <1>a, <1>c, <1>d, IdKinds DEF SameEntries, TransmitDone, pipeVars
  <2>2. SameHolders
    BY <1>17, <1>a, <1>b DEF SameHolders, InTransition, Calls, taskVars, TransmitDone
  <2>3. FewerDests
    BY <1>17, <1>d DEF FewerDests, routeVars, TransmitDone
  <2> QED BY <2>1, <2>2, <2>3, <1>e
<1>18. ASSUME NEW t \in Tasks, NEW p \in PipeIds, ReceiveBuffer(t, p) PROVE SlotOwned' /\ NoDanglingDest'
  <2>1. SameEntries
    BY <1>18, <1>a, <1>c, <1>d, IdKinds DEF SameEntries, ReceiveBuffer, IsMatch, PipeDesc, pipeVars
  <2>2. SameHolders
    BY <1>18, <1>a, <1>b DEF SameHolders, InTransition, Calls, taskVars, ReceiveBuffer, IsMatch, PipeDesc
  <2>3. FewerDests
    BY <1>18, <1>d DEF FewerDests, routeVars, ReceiveBuffer, IsMatch, PipeDesc
  <2> QED BY <2>1, <2>2, <2>3, <1>e
<1>19. ASSUME NEW t \in Tasks, QueueGet(t) PROVE SlotOwned' /\ NoDanglingDest'
  <2>1. SameEntries
    BY <1>19, <1>a, <1>c, <1>d, IdKinds DEF SameEntries, QueueGet, pipeVars
  <2>2. SameHolders
    BY <1>19, <1>a, <1>b DEF SameHolders, InTransition, Calls, taskVars, QueueGet
  <2>3. FewerDests
    BY <1>19, <1>d DEF FewerDests, routeVars, QueueGet
  <2> QED BY <2>1, <2>2, <2>3, <1>e
<1>20. ASSUME NEW t \in Tasks, QueueGetFail(t) PROVE SlotOwned' /\ NoDanglingDest'
  <2>1. SameEntries
    BY <1>20, <1>a, <1>c, <1>d, IdKinds DEF SameEntries, QueueGetFail, pipeVars
  <2>2. SameHolders
    BY <1>20, <1>a, <1>b DEF SameHolders, InTransition, Calls, taskVars, QueueGetFail
  <2>3. FewerDests
    BY <1>20, <1>d DEF FewerDests, routeVars, QueueGetFail
  <2> QED BY <2>1, <2>2, <2>3, <1>e
<1>21. ASSUME NEW t \in Tasks, ExportReference(t) PROVE SlotOwned' /\ NoDanglingDest'
  <2>1. SameEntries
    <3> DEFINE p == pid[t]
    <3>1. p \in PipeIds /\ ToIndex(p) \in Slots
      BY <1>21, <1>c, IdKinds DEF ExportReference
    <3>2. PipeTbl[ToIndex(p)] \in PipeDesc  BY <3>1, <1>d
    <3>3. CASE UNCHANGED PipeTbl  BY <3>3 DEF SameEntries
    <3>4. CASE IsMatch(p) /\ PipeTbl' = [PipeTbl EXCEPT ![ToIndex(p)] =
                                         [UncountPipe(p) EXCEPT !.LastBuffer = cur[t]]]
      <4>1. UncountPipe(p) \in PipeDesc /\ UncountPipe(p).PipeId = p
        BY <3>2, <3>4, DescUpdates, SameIds DEF UncountPipe, IsMatch
      <4>2. PipeTbl'[ToIndex(p)].PipeId = p /\ PipeTbl[ToIndex(p)].PipeId = p /\ p # RESERVED
        BY <3>1, <3>4, <4>1, <1>a, IdKinds DEF PipeDesc, IsMatch
      <4>3. \A s \in Slots : s # ToIndex(p) => PipeTbl'[s] = PipeTbl[s]
        BY <3>4, <1>a
      <4> QED BY <4>2, <4>3 DEF SameEntries
    <3> QED BY <1>21, <3>3, <3>4 DEF ExportReference
  <2>2. SameHolders
    BY <1>21, <1>a, <1>b DEF SameHolders, InTransition, ExportReference
  <2>3. FewerDests
    BY <1>21, <1>d DEF FewerDests, ExportReference
  <2> QED BY <2>1, <2>2, <2>3, <1>e
<1>22. ASSUME NEW t \in Tasks, NEW p \in PipeIds, NEW m \in MsgIds, NEW lim \in MsgLims,
              SubscribeFull(t, p, m, lim)
       PROVE  SlotOwned' /\ NoDanglingDest'
  <2>1. UNCHANGED <<PipeTbl, pc, pid>>
    BY <1>22 DEF SubscribeFull, pipeVars, taskVars
  <2>2. SlotOwned'
    BY <2>1 DEF SlotOwned, InTransition
  <2>3. IsMatch(p) /\ Routes' = Routes \cup {m} /\ Dests' = [Dests EXCEPT ![m] = @ \cup {p}]
    BY <1>22 DEF SubscribeFull, Owns, RouteFor
  <2>4. NoDanglingDest'
    BY <2>1, <2>3, <1>d DEF NoDanglingDest, IsMatch
  <2> QED BY <2>2, <2>4
<1>23. ASSUME NEW t \in Tasks, CreatePipe(t) PROVE SlotOwned' /\ NoDanglingDest'
  <2> DEFINE p == FindNext
  <2>1. p \in PipeIds /\ ToIndex(p) \in Slots /\ PipeTbl[ToIndex(p)].PipeId = UNDEFINED
    BY <1>23, <1>a, NextIsFree, IdKinds DEF CreatePipe
  <2> HIDE DEF p
  <2>2. /\ PipeTbl' = [PipeTbl EXCEPT ![ToIndex(p)] = [ClearedDesc EXCEPT !.PipeId = RESERVED]]
        /\ pid' = [pid EXCEPT ![t] = p] /\ pc' = [pc EXCEPT ![t] = "create"]
        /\ UNCHANGED <<Routes, Dests>>
    BY <1>23 DEF CreatePipe, p, routeVars
  <2>3. /\ PipeTbl'[ToIndex(p)].PipeId = RESERVED /\ PipeTbl'[ToIndex(p)].LastBuffer = NoBuf
        /\ \A s \in Slots : s # ToIndex(p) => PipeTbl'[s] = PipeTbl[s]
    BY <2>1, <2>2, <1>a DEF ClearedDesc
  <2>4. /\ pid'[t] = p /\ pc'[t] = "create"
        /\ \A u \in Tasks \ {t} : pid'[u] = pid[u] /\ pc'[u] = pc[u]
    BY <2>2, <1>a, <1>b
  <2>5. \A u \in Tasks \ {t} : InTransition(u) => ToIndex(pid[u]) # ToIndex(p)
    BY <2>1, <1>c, IdKinds DEF SlotOwned
  <2>6. SlotOwned'
    <3>1. \A u \in Tasks \ {t} : InTransition(u)' =>
            /\ InTransition(u) /\ pid'[u] = pid[u] /\ pc'[u] = pc[u]
            /\ pid[u] \in PipeIds /\ ToIndex(pid[u]) \in Slots
            /\ PipeTbl'[ToIndex(pid[u])] = PipeTbl[ToIndex(pid[u])]
      BY <2>3, <2>4, <2>5, <1>c, IdKinds DEF InTransition
    <3>2. ASSUME NEW u \in Tasks, InTransition(u)'
          PROVE  /\ PipeTbl'[ToIndex(pid'[u])].PipeId = RESERVED
                 /\ pc'[u] = "create" => PipeTbl'[ToIndex(pid'[u])].LastBuffer = NoBuf
      <4>1. CASE u = t  BY <2>3, <2>4, <4>1
      <4>2. CASE u # t  BY <3>1, <3>2, <4>2 DEF SlotOwned
      <4> QED BY <4>1, <4>2
    <3>3. ASSUME NEW u \in Tasks, NEW v \in Tasks \ {u}, InTransition(u)', InTransition(v)'
          PROVE  ToIndex(pid'[u]) # ToIndex(pid'[v])
      <4>1. CASE u = t  BY <2>4, <2>5, <3>1, <3>3, <4>1
      <4>2. CASE v = t  BY <2>4, <2>5, <3>1, <3>3, <4>2
      <4>3. CASE u # t /\ v # t  BY <3>1, <3>3, <4>3 DEF SlotOwned
      <4> QED BY <4>1, <4>2, <4>3
    <3>4. \A u \in Tasks : ToIndex(pid[u])' = ToIndex(pid'[u])  BY DEF ToIndex
    <3> QED BY <3>2, <3>3, <3>4 DEF SlotOwned
  <2>7. NoDanglingDest'
    BY <2>1, <2>2, <2>3, <1>d, IdKinds DEF NoDanglingDest, IsMatch
  <2> QED BY <2>6, <2>7
<1>f. ASSUME NEW t \in Tasks, InTransition(t), NEW d \in PipeDesc,
             PipeTbl' = [PipeTbl EXCEPT ![ToIndex(pid[t])] = d],
             ~InTransition(t)', UNCHANGED <<Routes, Dests>>,
             \A u \in Tasks \ {t} : pid'[u] = pid[u] /\ pc'[u] = pc[u]
      PROVE  SlotOwned' /\ NoDanglingDest'
  <2>1. pid[t] \in PipeIds /\ ToIndex(pid[t]) \in Slots /\ PipeTbl[ToIndex(pid[t])].PipeId = RESERVED
    BY <1>c, <1>f, IdKinds DEF SlotOwned
  <2>2. \A s \in Slots : s # ToIndex(pid[t]) => PipeTbl'[s] = PipeTbl[s]
    BY <1>a, <1>f
  <2>3. SlotOwned'
    BY <2>1, <2>2, <1>c, <1>f, IdKinds DEF SlotOwned, InTransition
  <2>4. NoDanglingDest'
    BY <2>1, <2>2, <1>d, <1>f, IdKinds DEF NoDanglingDest, IsMatch
  <2> QED BY <2>3, <2>4
<1>24. ASSUME NEW t \in Tasks, NEW d \in Depths, CreatePipeDone(t, d) PROVE SlotOwned' /\ NoDanglingDest'
  <2>1. InTransition(t) /\ ~InTransition(t)' /\ \A u \in Tasks \ {t} : pid'[u] = pid[u] /\ pc'[u] = pc[u]
    BY <1>24, <1>a, <1>b DEF CreatePipeDone, InTransition
  <2>2. [PipeTbl[ToIndex(pid[t])] EXCEPT !.PipeId = pid[t], !.AppId = AppOf[t], !.MaxQueueDepth = d] \in PipeDesc
    BY <2>1, <1>c, <1>d, IdKinds, DescUpdates, TaskAssumption, SizeAssumption
  <2> QED BY <1>24, <2>1, <2>2, <1>f DEF CreatePipeDone, routeVars
<1>25. ASSUME NEW t \in Tasks, CreatePipeFail(t) PROVE SlotOwned' /\ NoDanglingDest'
  <2>1. InTransition(t) /\ ~InTransition(t)' /\ \A u \in Tasks \ {t} : pid'[u] = pid[u] /\ pc'[u] = pc[u]
    BY <1>25, <1>a, <1>b DEF CreatePipeFail, InTransition
  <2>2. [PipeTbl[ToIndex(pid[t])] EXCEPT !.PipeId = UNDEFINED] \in PipeDesc
    BY <2>1, <1>c, <1>d, IdKinds, DescUpdates
  <2> QED BY <1>25, <2>1, <2>2, <1>f DEF CreatePipeFail, routeVars
<1>26. ASSUME NEW t \in Tasks, DeletePipeDone(t) PROVE SlotOwned' /\ NoDanglingDest'
  <2>1. InTransition(t) /\ ~InTransition(t)' /\ \A u \in Tasks \ {t} : pid'[u] = pid[u] /\ pc'[u] = pc[u]
    BY <1>26, <1>a, <1>b DEF DeletePipeDone, InTransition
  <2>2. [PipeTbl[ToIndex(pid[t])] EXCEPT !.PipeId = UNDEFINED] \in PipeDesc
    BY <2>1, <1>c, <1>d, IdKinds, DescUpdates
  <2> QED BY <1>26, <2>1, <2>2, <1>f DEF DeletePipeDone, routeVars
<1>g. ASSUME NEW t \in Tasks, NEW p \in PipeIds, NEW a \in Apps, DeletePipeFull(t, p, a),
             pc[t] \in {"idle", "cleanup"}
      PROVE  SlotOwned' /\ NoDanglingDest'
  <2>1. ToIndex(p) \in Slots /\ PipeTbl[ToIndex(p)].PipeId = p
    BY <1>g, IdKinds DEF DeletePipeFull, IsMatch
  <2>2. /\ PipeTbl' = [PipeTbl EXCEPT ![ToIndex(p)].PipeId = RESERVED]
        /\ pid' = [pid EXCEPT ![t] = p] /\ pc' = [pc EXCEPT ![t] = "drain"]
        /\ Routes' = Routes
        /\ Dests' = [m \in MsgIds |-> IF m \in Routes THEN Dests[m] \ {p} ELSE Dests[m]]
    BY <1>g DEF DeletePipeFull, RemoveDest
  <2>3. /\ PipeTbl'[ToIndex(p)].PipeId = RESERVED
        /\ \A s \in Slots : s # ToIndex(p) => PipeTbl'[s] = PipeTbl[s]
    BY <2>1, <2>2, <1>a, <1>d DEF PipeDesc
  <2>4. /\ pid'[t] = p /\ pc'[t] = "drain"
        /\ \A u \in Tasks \ {t} : pid'[u] = pid[u] /\ pc'[u] = pc[u]
    BY <2>2, <1>a, <1>b
  <2>5. \A u \in Tasks \ {t} : InTransition(u) => ToIndex(pid[u]) # ToIndex(p)
    BY <2>1, <1>c, IdKinds DEF SlotOwned
  <2>6. SlotOwned'
    <3>1. \A u \in Tasks \ {t} : InTransition(u)' =>
            /\ InTransition(u) /\ pid'[u] = pid[u] /\ pc'[u] = pc[u]
            /\ pid[u] \in PipeIds /\ ToIndex(pid[u]) \in Slots
            /\ PipeTbl'[ToIndex(pid[u])] = PipeTbl[ToIndex(pid[u])]
      BY <2>3, <2>4, <2>5, <1>c, IdKinds DEF InTransition
    <3>2. ASSUME NEW u \in Tasks, InTransition(u)'
          PROVE  /\ PipeTbl'[ToIndex(pid'[u])].PipeId = RESERVED
                 /\ pc'[u] = "create" => PipeTbl'[ToIndex(pid'[u])].LastBuffer = NoBuf
      <4>1. CASE u = t  BY <2>3, <2>4, <4>1
      <4>2. CASE u # t  BY <3>1, <3>2, <4>2 DEF SlotOwned
      <4> QED BY <4>1, <4>2
    <3>3. ASSUME NEW u \in Tasks, NEW v \in Tasks \ {u}, InTransition(u)', InTransition(v)'
          PROVE  ToIndex(pid'[u]) # ToIndex(pid'[v])
      <4>1. CASE u = t  BY <2>4, <2>5, <3>1, <3>3, <4>1
      <4>2. CASE v = t  BY <2>4, <2>5, <3>1, <3>3, <4>2
      <4>3. CASE u # t /\ v # t  BY <3>1, <3>3, <4>3 DEF SlotOwned
      <4> QED BY <4>1, <4>2, <4>3
    <3>4. \A u \in Tasks : ToIndex(pid[u])' = ToIndex(pid'[u])  BY DEF ToIndex
    <3> QED BY <3>2, <3>3, <3>4 DEF SlotOwned
  <2>7. ASSUME NEW m \in MsgIds, NEW q \in Dests'[m] PROVE m \in Routes' /\ IsMatch(q)'
    <3>1. m \in Routes /\ q \in Dests[m] /\ q # p /\ q \in PipeIds /\ PipeTbl[ToIndex(q)].PipeId = q
      BY <2>2, <2>7, <1>d DEF NoDanglingDest, IsMatch
    <3>2. ToIndex(q) # ToIndex(p)  BY <2>1, <3>1
    <3> QED BY <2>2, <2>3, <3>1, <3>2, IdKinds DEF IsMatch
  <2> QED BY <2>6, <2>7 DEF NoDanglingDest
<1>27. ASSUME NEW t \in Tasks, NEW p \in PipeIds, DeletePipe(t, p) PROVE SlotOwned' /\ NoDanglingDest'
  BY <1>27, <1>g, TaskAssumption DEF DeletePipe, Calls
<1>28. ASSUME NEW t \in Tasks, NEW p \in PipeIds, CleanUpPipe(t, p) PROVE SlotOwned' /\ NoDanglingDest'
  BY <1>28, <1>g DEF CleanUpPipe, CallLocals
<1>29. CASE UNCHANGED vars
  BY <1>29 DEF vars, pipeVars, routeVars, taskVars, SlotOwned, InTransition, NoDanglingDest, IsMatch
<1> QED
  BY <1>1, <1>2, <1>3, <1>4, <1>5, <1>6, <1>7, <1>8, <1>9, <1>10, <1>11, <1>12, <1>13, <1>14, <1>15, <1>16, <1>17, <1>18, <1>19, <1>20, <1>21, <1>22, <1>23, <1>24, <1>25, <1>26, <1>27, <1>28, <1>29 DEF Next, Call, Continue, Wait

(* No destination names a pipe that is gone or in deletion: the ID of a    *)
(* pipe becomes invalid in the region that removes its routes, a           *)
(* subscription looks it up in the region that adds one, and an entry in   *)
(* transition belongs to one call, so that none is freed under another.    *)
THEOREM DestinationsLive == Spec => []NoDanglingDest
<1>1. Init => Inv2
  <2>1. Init => SlotOwned /\ NoDanglingDest
    BY DEF Init, SlotOwned, InTransition, NoDanglingDest
  <2> QED BY <2>1, TypeInit DEF Inv2
<1>2. Inv2 /\ [Next]_vars => Inv2'
  BY TypeStep, OwnedStep DEF Inv2
<1>3. Inv2 => NoDanglingDest  BY DEF Inv2
<1> QED BY <1>1, <1>2, <1>3, PTL DEF Spec

(***************************************************************************)
(* What is counted and who owns what: the references to a buffer, the      *)
(* creations and deletions that hold a table entry or a queue, and the     *)
(* messages on a pipe.                                                     *)
(***************************************************************************)

(* Sets that gain or lose one element.                                     *)
LEMMA Gain ==
  ASSUME NEW S, IsFiniteSet(S), NEW x, x \notin S
  PROVE  IsFiniteSet(S \cup {x}) /\ Cardinality(S \cup {x}) = Cardinality(S) + 1
BY FS_AddElement

LEMMA Lose ==
  ASSUME NEW S, IsFiniteSet(S), NEW x \in S
  PROVE  /\ IsFiniteSet(S \ {x}) /\ Cardinality(S \ {x}) = Cardinality(S) - 1
         /\ Cardinality(S) \in Nat \ {0}
BY FS_RemoveElement, FS_CardinalityType, FS_EmptySet

LEMMA PipesFinite ==
  ASSUME NEW S, S \subseteq PipeIds
  PROVE  IsFiniteSet(S)
<1>1. IsFiniteSet(PipeIds)  BY FS_Interval, SizeAssumption DEF PipeIds
<1> QED BY <1>1, FS_Subset

(* Only tasks, pipes and table entries hold references.                    *)
LEMMA HoldersFinite ==
  ASSUME NEW b
  PROVE  /\ IsFiniteSet(InCall(b)) /\ Cardinality(InCall(b)) \in Nat
         /\ IsFiniteSet(Unsent(b)) /\ Cardinality(Unsent(b)) \in Nat
         /\ IsFiniteSet(InFlight(b)) /\ Cardinality(InFlight(b)) \in Nat
         /\ IsFiniteSet(Queued(b)) /\ Cardinality(Queued(b)) \in Nat
         /\ IsFiniteSet(Exported(b)) /\ Cardinality(Exported(b)) \in Nat
<1>1. IsFiniteSet(PipeIds) /\ IsFiniteSet(Slots)
  BY FS_Interval, SizeAssumption DEF PipeIds, Slots
<1>2. IsFiniteSet(Tasks) /\ IsFiniteSet(Tasks \X PipeIds)
  BY <1>1, FS_Product, TaskAssumption
<1>3. /\ InCall(b) \in SUBSET Tasks /\ Unsent(b) \in SUBSET Tasks
      /\ InFlight(b) \in SUBSET (Tasks \X PipeIds)
      /\ Queued(b) \in SUBSET PipeIds /\ Exported(b) \in SUBSET Slots
  BY DEF InCall, Unsent, InFlight, Queued, Exported
<1>4. /\ IsFiniteSet(InCall(b)) /\ IsFiniteSet(Unsent(b)) /\ IsFiniteSet(InFlight(b))
      /\ IsFiniteSet(Queued(b)) /\ IsFiniteSet(Exported(b))
  BY <1>1, <1>2, <1>3, FS_Subset
<1> QED BY <1>4, FS_CardinalityType

(* The inductive invariant of references, with what it rests on.           *)
Inv3 == Inv2 /\ ReceiverAlone /\ Accounting

(* A buffer that has no references is held by nobody.                      *)
LEMMA FreeUnheld ==
  ASSUME UseCountExact, NEW b \in Bufs, Buf[b].UseCount = 0
  PROVE  InCall(b) = {} /\ Unsent(b) = {} /\ InFlight(b) = {} /\ Queued(b) = {} /\ Exported(b) = {}
<1>1. References(b) = 0  BY DEF UseCountExact
<1>2. /\ Cardinality(InCall(b)) = 0 /\ Cardinality(Unsent(b)) = 0 /\ Cardinality(InFlight(b)) = 0
      /\ Cardinality(Queued(b)) = 0 /\ Cardinality(Exported(b)) = 0
  <2>1. /\ Cardinality(InCall(b)) \in Nat /\ Cardinality(Unsent(b)) \in Nat /\ Cardinality(InFlight(b)) \in Nat
        /\ Cardinality(Queued(b)) \in Nat /\ Cardinality(Exported(b)) \in Nat
    BY HoldersFinite
  <2>2. Cardinality(InCall(b)) = 0  BY <1>1, <2>1 DEF References
  <2>3. Cardinality(Unsent(b)) = 0  BY <1>1, <2>1 DEF References
  <2>4. Cardinality(InFlight(b)) = 0  BY <1>1, <2>1 DEF References
  <2>5. Cardinality(Queued(b)) = 0  BY <1>1, <2>1 DEF References
  <2>6. Cardinality(Exported(b)) = 0  BY <1>1, <2>1 DEF References
  <2> QED BY <2>2, <2>3, <2>4, <2>5, <2>6
<1> QED BY <1>2, HoldersFinite, FS_EmptySet

(* A buffer that a task has not sent is held by nobody else.               *)
LEMMA UnsentUnheld ==
  ASSUME UseCountExact, UnsentOwned, NEW t \in Tasks, NEW b \in Bufs, zc[t] = b
  PROVE  InCall(b) = {} /\ Unsent(b) = {t} /\ InFlight(b) = {} /\ Queued(b) = {} /\ Exported(b) = {}
<1>1. References(b) = 1  BY BufAssumption DEF UseCountExact, UnsentOwned
<1>2. t \in Unsent(b)  BY DEF Unsent
<1>3. Cardinality(Unsent(b)) \in Nat \ {0}  BY <1>2, HoldersFinite, Lose
<1>4. /\ Cardinality(InCall(b)) = 0 /\ Cardinality(Unsent(b)) = 1 /\ Cardinality(InFlight(b)) = 0
      /\ Cardinality(Queued(b)) = 0 /\ Cardinality(Exported(b)) = 0
  BY <1>1, <1>3, HoldersFinite DEF References
<1>5. PICK x : Unsent(b) = {x}  BY <1>4, HoldersFinite, FS_Singleton
<1> QED BY <1>2, <1>4, <1>5, HoldersFinite, FS_EmptySet

(* Who holds a reference holds one that is counted, and of a buffer that   *)
(* was sent.                                                               *)
LEMMA HeldCounted ==
  ASSUME TypeOK, UseCountExact, UnsentOwned, NEW b \in Bufs,
         InCall(b) # {} \/ InFlight(b) # {} \/ Queued(b) # {} \/ Exported(b) # {}
  PROVE  Buf[b].UseCount \in Nat \ {0} /\ Unsent(b) = {}
<1>1. Buf[b].UseCount # 0  BY FreeUnheld
<1>2. Buf[b].UseCount \in Nat  BY DEF TypeOK, BufferDesc
<1>3. \A t \in Tasks : zc[t] # b  BY UnsentUnheld
<1> QED BY <1>1, <1>2, <1>3 DEF Unsent

(* What the counting functions do to a count.                              *)
LEMMA DecrCount ==
  ASSUME NEW bd \in BufferDesc, bd.UseCount # 0
  PROVE  /\ Decr(bd).UseCount = bd.UseCount - 1
         /\ Decr(bd).List \in {"none", bd.List}
         /\ Decr(bd).UseCount # 0 => Decr(bd).MsgId = bd.MsgId
BY DEF Decr, BufferDesc, FreeBuf

LEMMA IncrCount ==
  ASSUME NEW bd \in BufferDesc, NEW n \in Nat, bd.UseCount + n <= MaxUseCount
  PROVE  Incr(bd, n) = [bd EXCEPT !.UseCount = bd.UseCount + n]
BY DEF Incr

-----------------------------------------------------------------------------
(* Parts that several steps share.                                         *)
Counts == UseBound /\ UnsentOwned /\ SenderAlone /\ NotYetQueued /\ NoDuplicates /\ UseCountExact

\* The holders of c stay the same.
SameHeld(c) ==
  /\ InCall(c)' = InCall(c) /\ Unsent(c)' = Unsent(c) /\ InFlight(c)' = InFlight(c)
  /\ Queued(c)' = Queued(c) /\ Exported(c)' = Exported(c)

\* No task begins to send, and queues get nothing new.
SendersOnly ==
  /\ \A u \in Tasks : Sending(u)' => Sending(u) /\ cur'[u] = cur[u] /\ targets'[u] \subseteq targets[u]
  /\ \A c \in Bufs : Queued(c)' \subseteq Queued(c)

(* A step that adds k to the references and to the count of one buffer.    *)
LEMMA Recount ==
  ASSUME UseCountExact, TypeOK, NEW b \in Bufs, NEW k \in Int,
         \A c \in Bufs \ {b} : SameHeld(c) /\ Buf'[c].UseCount = Buf[c].UseCount,
         References(b)' = References(b) + k, Buf'[b].UseCount = Buf[b].UseCount + k
  PROVE  UseCountExact'
<1>1. \A c \in Bufs \ {b} : References(c)' = References(c)  BY DEF SameHeld, References
<1> QED BY <1>1 DEF UseCountExact

(* Sending goes on as before.                                              *)
LEMMA SendersKept ==
  ASSUME Inv3, SendersOnly
  PROVE  SenderAlone' /\ NotYetQueued'
<1>1. \A u \in Tasks : Sending(u) => cur[u] \in Bufs  BY DEF Inv3, Inv2, Inv1, CallLocals
<1>2. SenderAlone'  BY DEF Inv3, Accounting, SendersOnly, SenderAlone
<1>3. NotYetQueued'
  <2>1. ASSUME NEW u \in Tasks, Sending(u)', NEW p \in targets'[u] PROVE p \notin Queued(cur[u])'
    <3>1. Sending(u) /\ p \in targets[u]  BY <2>1 DEF SendersOnly
    <3>2. p \notin Queued(cur[u])  BY <3>1 DEF Inv3, Accounting, NotYetQueued
    <3>3. cur'[u] = cur[u] /\ cur[u] \in Bufs  BY <3>1, <2>1, <1>1 DEF SendersOnly
    <3>4. \A c : Queued(c)' = {q \in PipeIds : \E i \in DOMAIN Queue'[q] : Queue'[q][i] = c}
      BY DEF Queued
    <3>5. Queued(cur[u])' = {q \in PipeIds : \E i \in DOMAIN Queue'[q] : Queue'[q][i] = cur'[u]}
      BY DEF Queued
    <3> QED BY <3>2, <3>3, <3>4, <3>5 DEF SendersOnly
  <2> QED BY <2>1 DEF NotYetQueued
<1> QED BY <1>2, <1>3

(* A step that touches no reference.                                       *)
LEMMA QuietStep ==
  ASSUME Inv3, UNCHANGED <<Buf, Queue, zc, cur, targets>>,
         \A c \in Bufs : Exported(c)' = Exported(c),
         \A u \in Tasks : Sending(u)' => Sending(u)
  PROVE  Counts'
<1>1. \A c \in Bufs : SameHeld(c)  BY DEF SameHeld, InCall, Unsent, InFlight, Queued
<1>2. UseCountExact'  BY <1>1 DEF Inv3, Accounting, UseCountExact, References, SameHeld
<1>3. SenderAlone' /\ NotYetQueued'  BY <1>1, SendersKept DEF SendersOnly, SameHeld
<1>4. UseBound' /\ UnsentOwned' /\ NoDuplicates'
  BY DEF Inv3, Accounting, UseBound, UnsentOwned, NoDuplicates
<1> QED BY <1>2, <1>3, <1>4 DEF Counts

(* A reference that somebody held is given back.                           *)
LEMMA GivenBack ==
  ASSUME Inv3, NEW b \in Bufs, InCall(b) # {} \/ InFlight(b) # {} \/ Exported(b) # {},
         Buf' = [Buf EXCEPT ![b] = Decr(Buf[b])], zc' = zc
  PROVE  /\ UseBound' /\ UnsentOwned'
         /\ Buf'[b].UseCount = Buf[b].UseCount - 1
         /\ \A c \in Bufs \ {b} : Buf'[c].UseCount = Buf[c].UseCount
<1>1. Buf \in [Bufs -> BufferDesc]  BY DEF Inv3, Inv2, Inv1, TypeOK
<1>2. Buf[b].UseCount \in Nat \ {0} /\ Unsent(b) = {}
  BY HeldCounted DEF Inv3, Inv2, Inv1, Accounting
<1>3. /\ Buf'[b].UseCount = Buf[b].UseCount - 1 /\ Buf'[b].List \in {"none", Buf[b].List}
      /\ \A c \in Bufs \ {b} : Buf'[c] = Buf[c]
  BY <1>1, <1>2, DecrCount
<1>4. UseBound'
  BY <1>1, <1>2, <1>3, SizeAssumption DEF Inv3, Accounting, UseBound, BufferDesc
<1>5. \A t \in Tasks : zc[t] # b  BY <1>2 DEF Unsent
<1>6. zc \in [Tasks -> Bufs \cup {NoBuf}]  BY DEF Inv3, Inv2, Inv1, TypeOK
<1>7. UnsentOwned'
  BY <1>3, <1>5, <1>6 DEF Inv3, Accounting, UnsentOwned
<1> QED BY <1>3, <1>4, <1>7

(* The oldest buffer is taken from a queue, in which it was once.          *)
LEMMA Taken ==
  ASSUME Inv3, NEW p \in PipeIds, Queue[p] # <<>>,
         Queue' = [Queue EXCEPT ![p] = Tail(Queue[p])],
         NEW b, b = Head(Queue[p])
  PROVE  /\ b \in Bufs /\ p \in Queued(b)
         /\ NoDuplicates'
         /\ Queued(b)' = Queued(b) \ {p}
         /\ \A c \in Bufs \ {b} : Queued(c)' = Queued(c)
<1> DEFINE q == Queue[p]
<1>1. Queue \in [PipeIds -> Seq(Bufs)]  BY DEF Inv3, Inv2, Inv1, TypeOK
<1>2. q \in Seq(Bufs) /\ q # <<>>  BY <1>1
<1>3. /\ b \in Bufs /\ b = q[1] /\ Tail(q) \in Seq(Bufs) /\ Len(q) \in Nat \ {0}
      /\ DOMAIN q = 1..Len(q) /\ DOMAIN Tail(q) = 1..(Len(q) - 1)
      /\ \A i \in 1..(Len(q) - 1) : Tail(q)[i] = q[i + 1]
  BY <1>2
<1>4. Queue'[p] = Tail(q) /\ \A r \in PipeIds \ {p} : Queue'[r] = Queue[r]
  BY <1>1
<1>5. \A i, j \in DOMAIN q : q[i] = q[j] => i = j
  BY DEF Inv3, Accounting, NoDuplicates
<1> HIDE DEF q
<1>6. p \in Queued(b)  BY <1>3 DEF Queued, q
<1>7. \A i, j \in DOMAIN Tail(q) : Tail(q)[i] = Tail(q)[j] => i = j
  BY <1>3, <1>5
<1>8. NoDuplicates'
  <2>1. ASSUME NEW r \in PipeIds, NEW i \in DOMAIN Queue'[r], NEW j \in DOMAIN Queue'[r], Queue'[r][i] = Queue'[r][j]
        PROVE  i = j
    <3>1. CASE r = p  BY <3>1, <2>1, <1>4, <1>7
    <3>2. CASE r # p  BY <3>2, <2>1, <1>4 DEF Inv3, Accounting, NoDuplicates
    <3> QED BY <3>1, <3>2
  <2> QED BY <2>1 DEF NoDuplicates
<1>9. \A c : (\E i \in DOMAIN Tail(q) : Tail(q)[i] = c) <=> (c # b /\ \E i \in DOMAIN q : q[i] = c)
  <2> SUFFICES ASSUME NEW c
               PROVE  (\E i \in DOMAIN Tail(q) : Tail(q)[i] = c) <=> (c # b /\ \E i \in DOMAIN q : q[i] = c)
    OBVIOUS
  <2>1. ASSUME NEW i \in DOMAIN Tail(q), Tail(q)[i] = c PROVE c # b /\ \E k \in DOMAIN q : q[k] = c
    <3>1. i + 1 \in DOMAIN q /\ q[i + 1] = c /\ i + 1 # 1 /\ 1 \in DOMAIN q  BY <1>3, <2>1
    <3> QED BY <3>1, <1>3, <1>5
  <2>2. ASSUME c # b, NEW i \in DOMAIN q, q[i] = c PROVE \E k \in DOMAIN Tail(q) : Tail(q)[k] = c
    <3>1. i # 1 /\ i - 1 \in 1..(Len(q) - 1)  BY <1>3, <2>2
    <3>2. Tail(q)[i - 1] = q[(i - 1) + 1] /\ (i - 1) + 1 = i  BY <1>3, <3>1
    <3> QED BY <1>3, <2>2, <3>1, <3>2
  <2> QED BY <2>1, <2>2
<1>10. \A c : Queued(c)' = {r \in PipeIds : \E i \in DOMAIN Queue'[r] : Queue'[r][i] = c}
  BY DEF Queued
<1>11. \A c : Queued(c)' = IF c = b THEN Queued(c) \ {p} ELSE Queued(c)
  <2> SUFFICES ASSUME NEW c PROVE Queued(c)' = IF c = b THEN Queued(c) \ {p} ELSE Queued(c)
    OBVIOUS
  <2>1. Queued(c)' \subseteq PipeIds /\ Queued(c) \subseteq PipeIds  BY DEF Queued
  <2>2. ASSUME NEW r \in PipeIds PROVE r \in Queued(c)' <=> r \in Queued(c) /\ ~(c = b /\ r = p)
    <3>1. r \in Queued(c)' <=> \E i \in DOMAIN Queue'[r] : Queue'[r][i] = c  BY <1>10
    <3>2. r \in Queued(c) <=> \E i \in DOMAIN Queue[r] : Queue[r][i] = c  BY DEF Queued
    <3>3. CASE r = p
      <4>1. r \in Queued(c)' <=> \E i \in DOMAIN Tail(q) : Tail(q)[i] = c  BY <3>1, <3>3, <1>4, Zenon
      <4>2. r \in Queued(c) <=> \E i \in DOMAIN q : q[i] = c  BY <3>2, <3>3, Zenon DEF q
      <4> QED BY <3>3, <4>1, <4>2, <1>9
    <3>4. CASE r # p  BY <3>1, <3>2, <3>4, <1>4
    <3> QED BY <3>3, <3>4
  <2> QED BY <2>1, <2>2
<1> QED BY <1>3, <1>6, <1>8, <1>11

-----------------------------------------------------------------------------
(* Steps that move or release references.                                  *)

(* A call gives back the buffer it holds: DrainRelease, TransmitDone, and  *)
(* ExportReference when its pipe is gone.                                  *)
LEMMA CallReleases ==
  ASSUME Inv3, NEW t \in Tasks, NEW b \in Bufs, cur[t] = b, targets[t] = {},
         Buf' = [Buf EXCEPT ![b] = Decr(Buf[b])], cur' = [cur EXCEPT ![t] = NoBuf],
         UNCHANGED <<PipeTbl, Queue, zc, targets>>,
         \A u \in Tasks : Sending(u)' => Sending(u) /\ u # t
  PROVE  Counts'
<1>1. TypeOK /\ UseCountExact  BY DEF Inv3, Inv2, Inv1, Accounting
<1>2. t \in InCall(b)  BY DEF InCall
<1>3. cur'[t] = NoBuf /\ \A u \in Tasks \ {t} : cur'[u] = cur[u]
  BY <1>1 DEF TypeOK
<1>4. \A c \in Bufs : InCall(c)' = IF c = b THEN InCall(c) \ {t} ELSE InCall(c)
  BY <1>3, BufAssumption DEF InCall
<1>5. \A c \in Bufs : /\ Unsent(c)' = Unsent(c) /\ InFlight(c)' = InFlight(c)
                      /\ Queued(c)' = Queued(c) /\ Exported(c)' = Exported(c)
  BY <1>3 DEF Unsent, InFlight, Queued, Exported
<1>6. References(b)' = References(b) + (-1)
  <2>1. Cardinality(InCall(b)') = Cardinality(InCall(b)) - 1
    BY <1>2, <1>4, HoldersFinite, Lose
  <2>2. /\ Cardinality(InCall(b)) \in Nat /\ Cardinality(Unsent(b)) \in Nat /\ Cardinality(InFlight(b)) \in Nat
        /\ Cardinality(Queued(b)) \in Nat /\ Cardinality(Exported(b)) \in Nat
    BY HoldersFinite
  <2> QED BY <1>5, <2>1, <2>2 DEF References
<1>7. /\ UseBound' /\ UnsentOwned' /\ Buf'[b].UseCount = Buf[b].UseCount - 1
      /\ \A c \in Bufs \ {b} : Buf'[c].UseCount = Buf[c].UseCount
  BY <1>2, GivenBack
<1>8. Buf[b].UseCount \in Nat  BY <1>1 DEF TypeOK, BufferDesc
<1>9. UseCountExact'
  BY <1>1, <1>4, <1>5, <1>6, <1>7, <1>8, Recount DEF SameHeld
<1>10. SenderAlone' /\ NotYetQueued'  BY <1>3, <1>5, SendersKept DEF SendersOnly
<1>11. NoDuplicates'  BY DEF Inv3, Accounting, NoDuplicates
<1> QED BY <1>7, <1>9, <1>10, <1>11 DEF Counts

(* A call takes a buffer from a queue: DrainGet, QueueGet.                 *)
LEMMA CallTakes ==
  ASSUME Inv3, NEW t \in Tasks, NEW p \in PipeIds, Queue[p] # <<>>, NEW b, b = Head(Queue[p]),
         cur[t] = NoBuf, targets[t] = {},
         cur' = [cur EXCEPT ![t] = b], Queue' = [Queue EXCEPT ![p] = Tail(Queue[p])],
         UNCHANGED <<PipeTbl, Buf, zc, targets>>,
         \A u \in Tasks : Sending(u)' => Sending(u) /\ u # t
  PROVE  Counts'
<1>1. TypeOK /\ UseCountExact  BY DEF Inv3, Inv2, Inv1, Accounting
<1>2. /\ b \in Bufs /\ p \in Queued(b) /\ NoDuplicates'
      /\ Queued(b)' = Queued(b) \ {p}
      /\ \A c \in Bufs \ {b} : Queued(c)' = Queued(c)
  BY Taken
<1>3. cur'[t] = b /\ \A u \in Tasks \ {t} : cur'[u] = cur[u]
  BY <1>1 DEF TypeOK
<1>4. t \notin InCall(b) /\ \A c \in Bufs : InCall(c)' = IF c = b THEN InCall(c) \cup {t} ELSE InCall(c)
  BY <1>2, <1>3, BufAssumption DEF InCall
<1>5. \A c \in Bufs : Unsent(c)' = Unsent(c) /\ InFlight(c)' = InFlight(c) /\ Exported(c)' = Exported(c)
  BY <1>3 DEF Unsent, InFlight, Exported
<1>6. References(b)' = References(b) + 0
  <2>1. Cardinality(InCall(b)') = Cardinality(InCall(b)) + 1
    BY <1>2, <1>4, HoldersFinite, Gain
  <2>2. Cardinality(Queued(b)') = Cardinality(Queued(b)) - 1
    BY <1>2, HoldersFinite, Lose
  <2>3. /\ Cardinality(InCall(b)) \in Nat /\ Cardinality(Unsent(b)) \in Nat /\ Cardinality(InFlight(b)) \in Nat
        /\ Cardinality(Queued(b)) \in Nat /\ Cardinality(Exported(b)) \in Nat
    BY HoldersFinite
  <2> QED BY <1>2, <1>5, <2>1, <2>2, <2>3 DEF References
<1>7. Buf[b].UseCount \in Nat  BY <1>1, <1>2 DEF TypeOK, BufferDesc
<1>8. UseCountExact'
  BY <1>1, <1>2, <1>4, <1>5, <1>6, <1>7, Recount DEF SameHeld
<1>9. SenderAlone' /\ NotYetQueued'  BY <1>2, <1>3, <1>5, SendersKept DEF SendersOnly
<1>10. UseBound' /\ UnsentOwned'  BY DEF Inv3, Accounting, UseBound, UnsentOwned
<1> QED BY <1>2, <1>8, <1>9, <1>10 DEF Counts

\* The buffer that a table entry holds for its pipe.
Held(s) == IF PipeTbl[s].PipeId \in PipeIds THEN PipeTbl[s].LastBuffer ELSE NoBuf

(* A step that changes at most what one table entry holds.                 *)
LEMMA ExportsOf ==
  ASSUME NEW s \in Slots, \A r \in Slots \ {s} : Held(r)' = Held(r), NEW c \in Bufs
  PROVE  /\ s \in Exported(c) <=> Held(s) = c
         /\ Exported(c)' = IF Held(s)' = c THEN Exported(c) \cup {s} ELSE Exported(c) \ {s}
<1>1. \A r \in Slots : r \in Exported(c) <=> Held(r) = c
  BY BufAssumption DEF Exported, Held
<1>2. \A r \in Slots : r \in Exported(c)' <=> Held(r)' = c
  BY BufAssumption DEF Exported, Held
<1>3. Exported(c)' \subseteq Slots /\ Exported(c) \subseteq Slots  BY DEF Exported
<1> QED BY <1>1, <1>2, <1>3

(* What an update of the entry of a pipe changes of it.                    *)
LEMMA EntryUpdated ==
  ASSUME TypeOK, NEW p \in PipeIds, NEW d \in PipeDesc, PipeTbl' = [PipeTbl EXCEPT ![ToIndex(p)] = d]
  PROVE  /\ ToIndex(p) \in Slots /\ PipeTbl'[ToIndex(p)] = d
         /\ \A r \in Slots \ {ToIndex(p)} : PipeTbl'[r] = PipeTbl[r] /\ Held(r)' = Held(r)
BY IdKinds DEF TypeOK, Held

(* The buffer of the previous reception is given back.                     *)
LEMMA ReceiveCounts ==
  ASSUME Inv3, NEW t \in Tasks, NEW p \in PipeIds, ReceiveBuffer(t, p)
  PROVE  Counts'
<1> DEFINE s == ToIndex(p)
           b == PipeTbl[s].LastBuffer
           d == [PipeTbl[s] EXCEPT !.LastBuffer = NoBuf]
<1>1. TypeOK /\ UseCountExact  BY DEF Inv3, Inv2, Inv1, Accounting
<1>2. PipeTbl[s] \in PipeDesc /\ d \in PipeDesc /\ s \in Slots
  BY <1>1, IdKinds, DescUpdates DEF TypeOK
<1>3. PipeTbl' = [PipeTbl EXCEPT ![ToIndex(p)] = d]  BY DEF ReceiveBuffer
<1>4. /\ PipeTbl'[s] = d /\ \A r \in Slots \ {s} : Held(r)' = Held(r)
  BY <1>1, <1>2, <1>3, EntryUpdated
<1>5. PipeTbl[s].PipeId = p /\ b \in Bufs \cup {NoBuf} /\ d.PipeId = p /\ d.LastBuffer = NoBuf
  BY <1>2 DEF ReceiveBuffer, IsMatch, PipeDesc
<1>6. Held(s)' = NoBuf /\ Held(s) = b
  BY <1>4, <1>5 DEF Held
<1>7. /\ UNCHANGED <<Queue, zc, cur, targets>>
      /\ Buf' = IF b = NoBuf THEN Buf ELSE [Buf EXCEPT ![b] = Decr(Buf[b])]
      /\ \A u \in Tasks : Sending(u)' => Sending(u) /\ u # t
  BY <1>1 DEF ReceiveBuffer, Sending, osVars, TypeOK, Calls
<1> HIDE DEF s, b, d
<1>8. \A c \in Bufs : (s \in Exported(c) <=> b = c) /\ Exported(c)' = Exported(c) \ {s}
  <2> SUFFICES ASSUME NEW c \in Bufs PROVE (s \in Exported(c) <=> b = c) /\ Exported(c)' = Exported(c) \ {s}
    OBVIOUS
  <2> QED BY <1>2, <1>4, <1>6, ExportsOf, BufAssumption
<1>9. CASE b = NoBuf
  <2>1. \A c \in Bufs : Exported(c)' = Exported(c)  BY <1>8, <1>9, BufAssumption
  <2> QED BY <2>1, <1>7, <1>9, QuietStep
<1>10. CASE b # NoBuf
  <2> PICK k \in Bufs : k = b  BY <1>5, <1>10
  <2>1. s \in Exported(k) /\ Exported(k)' = Exported(k) \ {s}  BY <1>8
  <2>2. \A c \in Bufs \ {k} : Exported(c)' = Exported(c)  BY <1>8
  <2>3. \A c \in Bufs : InCall(c)' = InCall(c) /\ Unsent(c)' = Unsent(c)
                        /\ InFlight(c)' = InFlight(c) /\ Queued(c)' = Queued(c)
    BY <1>7 DEF InCall, Unsent, InFlight, Queued
  <2>4. References(k)' = References(k) + (-1)
    <3>1. Cardinality(Exported(k)') = Cardinality(Exported(k)) - 1
      BY <2>1, HoldersFinite, Lose
    <3>2. /\ Cardinality(InCall(k)) \in Nat /\ Cardinality(Unsent(k)) \in Nat /\ Cardinality(InFlight(k)) \in Nat
          /\ Cardinality(Queued(k)) \in Nat /\ Cardinality(Exported(k)) \in Nat
      BY HoldersFinite
    <3> QED BY <2>3, <3>1, <3>2 DEF References
  <2>5. /\ UseBound' /\ UnsentOwned' /\ Buf'[k].UseCount = Buf[k].UseCount - 1
        /\ \A c \in Bufs \ {k} : Buf'[c].UseCount = Buf[c].UseCount
    BY <1>7, <1>10, <2>1, GivenBack
  <2>6. Buf[k].UseCount \in Nat  BY <1>1 DEF TypeOK, BufferDesc
  <2>7. UseCountExact'
    BY <1>1, <2>2, <2>3, <2>4, <2>5, <2>6, Recount DEF SameHeld
  <2>8. SenderAlone' /\ NotYetQueued'  BY <1>7, <2>3, SendersKept DEF SendersOnly
  <2>9. NoDuplicates'  BY <1>7 DEF Inv3, Accounting, NoDuplicates
  <2> QED BY <2>5, <2>7, <2>8, <2>9 DEF Counts
<1> QED BY <1>9, <1>10

(* A deletion takes the last buffer of its pipe.                           *)
LEMMA DeleteCounts ==
  ASSUME Inv3, NEW t \in Tasks, NEW p \in PipeIds, NEW a \in Apps, DeletePipeFull(t, p, a),
         pc[t] \in {"idle", "cleanup"}
  PROVE  Counts'
<1> DEFINE s == ToIndex(p)
           b == PipeTbl[s].LastBuffer
           d == [PipeTbl[s] EXCEPT !.PipeId = RESERVED]
<1>1. TypeOK /\ UseCountExact /\ CallLocals  BY DEF Inv3, Inv2, Inv1, Accounting
<1>2. PipeTbl[s] \in PipeDesc /\ d \in PipeDesc /\ s \in Slots
  BY <1>1, IdKinds, DescUpdates DEF TypeOK
<1>3. PipeTbl' = [PipeTbl EXCEPT ![ToIndex(p)] = d]  BY DEF DeletePipeFull
<1>4. /\ PipeTbl'[s] = d /\ \A r \in Slots \ {s} : Held(r)' = Held(r)
  BY <1>1, <1>2, <1>3, EntryUpdated
<1>5. PipeTbl[s].PipeId = p /\ b \in Bufs \cup {NoBuf} /\ d.PipeId = RESERVED
  BY <1>2 DEF DeletePipeFull, IsMatch, PipeDesc
<1>6. Held(s)' = NoBuf /\ Held(s) = b
  BY <1>4, <1>5, IdKinds DEF Held
<1>7. /\ UNCHANGED <<Queue, Buf, zc, targets>>
      /\ cur' = [cur EXCEPT ![t] = b]
      /\ cur[t] = NoBuf /\ targets[t] = {}
      /\ \A u \in Tasks : Sending(u)' => Sending(u) /\ u # t
  BY <1>1 DEF DeletePipeFull, CallLocals, Sending, osVars, TypeOK
<1> HIDE DEF s, b, d
<1>8. \A c \in Bufs : (s \in Exported(c) <=> b = c) /\ Exported(c)' = Exported(c) \ {s}
  <2> SUFFICES ASSUME NEW c \in Bufs PROVE (s \in Exported(c) <=> b = c) /\ Exported(c)' = Exported(c) \ {s}
    OBVIOUS
  <2> QED BY <1>2, <1>4, <1>6, ExportsOf, BufAssumption
<1>9. CASE b = NoBuf
  <2>1. \A c \in Bufs : Exported(c)' = Exported(c)  BY <1>8, <1>9, BufAssumption
  <2>2. cur' = cur  BY <1>1, <1>7, <1>9 DEF TypeOK
  <2> QED BY <2>1, <2>2, <1>7, QuietStep
<1>10. CASE b # NoBuf
  <2> PICK k \in Bufs : k = b  BY <1>5, <1>10
  <2>1. s \in Exported(k) /\ Exported(k)' = Exported(k) \ {s}  BY <1>8
  <2>2. \A c \in Bufs \ {k} : Exported(c)' = Exported(c)  BY <1>8
  <2>3. cur'[t] = k /\ \A u \in Tasks \ {t} : cur'[u] = cur[u]
    BY <1>1, <1>7 DEF TypeOK
  <2>4. t \notin InCall(k) /\ \A c \in Bufs : InCall(c)' = IF c = k THEN InCall(c) \cup {t} ELSE InCall(c)
    BY <2>3, <1>7, BufAssumption DEF InCall
  <2>5. \A c \in Bufs : Unsent(c)' = Unsent(c) /\ InFlight(c)' = InFlight(c) /\ Queued(c)' = Queued(c)
    BY <1>7, <2>3 DEF Unsent, InFlight, Queued
  <2>6. References(k)' = References(k) + 0
    <3>1. Cardinality(Exported(k)') = Cardinality(Exported(k)) - 1
      BY <2>1, HoldersFinite, Lose
    <3>2. Cardinality(InCall(k)') = Cardinality(InCall(k)) + 1
      BY <2>4, HoldersFinite, Gain
    <3>3. /\ Cardinality(InCall(k)) \in Nat /\ Cardinality(Unsent(k)) \in Nat /\ Cardinality(InFlight(k)) \in Nat
          /\ Cardinality(Queued(k)) \in Nat /\ Cardinality(Exported(k)) \in Nat
      BY HoldersFinite
    <3> QED BY <2>5, <3>1, <3>2, <3>3 DEF References
  <2>7. Buf[k].UseCount \in Nat  BY <1>1 DEF TypeOK, BufferDesc
  <2>8. UseCountExact'
    BY <1>1, <1>7, <2>2, <2>4, <2>5, <2>6, <2>7, Recount DEF SameHeld
  <2>9. SenderAlone' /\ NotYetQueued'  BY <1>7, <2>3, <2>5, SendersKept DEF SendersOnly
  <2>10. UseBound' /\ UnsentOwned' /\ NoDuplicates'
    BY <1>7 DEF Inv3, Accounting, UseBound, UnsentOwned, NoDuplicates
  <2> QED BY <2>8, <2>9, <2>10 DEF Counts
<1> QED BY <1>9, <1>10

(* The buffer that a receiver took becomes the last buffer of its pipe, or *)
(* is given back if the pipe is gone.                                      *)
LEMMA ExportCounts ==
  ASSUME Inv3, NEW t \in Tasks, ExportReference(t)
  PROVE  Counts'
<1>1. TypeOK /\ UseCountExact /\ CallLocals  BY DEF Inv3, Inv2, Inv1, Accounting
<1>p. pid[t] \in PipeIds
  BY <1>1 DEF CallLocals, ExportReference, Receiving
<1> PICK p \in PipeIds : p = pid[t]  BY <1>p
<1> DEFINE s == ToIndex(p)
<1>2. p \in PipeIds /\ cur[t] \in Bufs /\ targets[t] = {} /\ pc[t] = "export"
  BY <1>1 DEF CallLocals, ExportReference, Receiving, Sending
<1>3. /\ cur' = [cur EXCEPT ![t] = NoBuf]
      /\ UNCHANGED <<Queue, zc, targets>>
      /\ \A u \in Tasks : Sending(u)' => Sending(u) /\ u # t
  BY <1>1 DEF ExportReference, Sending, osVars, TypeOK
<1> PICK b \in Bufs : b = cur[t]  BY <1>2
<1>4. Buf[b] \in BufferDesc /\ PipeTbl[s] \in PipeDesc /\ s \in Slots
  BY <1>1, <1>2, IdKinds DEF TypeOK
<1>5. t \in InCall(b)  BY DEF InCall
<1>6. CASE ~IsMatch(p)
  <2>1. PipeTbl' = PipeTbl /\ Buf' = [Buf EXCEPT ![b] = Decr(Buf[b])]
    BY <1>6 DEF ExportReference
  <2> QED BY <2>1, <1>2, <1>3, CallReleases
<1>7. CASE IsMatch(p)
  <2> DEFINE d == [UncountPipe(p) EXCEPT !.LastBuffer = b]
  <2>1. /\ PipeTbl' = [PipeTbl EXCEPT ![ToIndex(p)] = d]
        /\ Buf' = [Buf EXCEPT ![b] = Decr(Incr(Buf[b], 1))]
    BY <1>7 DEF ExportReference
  <2>2. UncountPipe(p) \in PipeDesc /\ UncountPipe(p).PipeId = p
    BY <1>4, <1>7, DescUpdates, SameIds DEF UncountPipe, IsMatch
  <2>3. d \in PipeDesc /\ d.PipeId = p /\ d.LastBuffer = b
    BY <2>2 DEF PipeDesc
  <2>4. PipeTbl'[s] = d /\ \A r \in Slots \ {s} : Held(r)' = Held(r)
    BY <1>1, <1>2, <2>1, <2>3, EntryUpdated
  <2>5. PipeTbl[s].LastBuffer = NoBuf
    BY <1>2, <1>7 DEF Inv3, ReceiverAlone, Receiving
  <2>6. Held(s)' = b /\ Held(s) = NoBuf
    BY <1>2, <1>7, <2>3, <2>4, <2>5 DEF Held, IsMatch
  <2> HIDE DEF s, d
  <2>7. s \notin Exported(b) /\ \A c \in Bufs : Exported(c)' = IF c = b THEN Exported(c) \cup {s} ELSE Exported(c)
    <3> SUFFICES ASSUME NEW c \in Bufs
                 PROVE  s \notin Exported(c) /\ Exported(c)' = IF c = b THEN Exported(c) \cup {s} ELSE Exported(c)
      OBVIOUS
    <3> QED BY <1>4, <2>4, <2>6, ExportsOf, BufAssumption
  <2>8. cur'[t] = NoBuf /\ \A u \in Tasks \ {t} : cur'[u] = cur[u]
    BY <1>1, <1>3 DEF TypeOK
  <2>9. \A c \in Bufs : InCall(c)' = IF c = b THEN InCall(c) \ {t} ELSE InCall(c)
    BY <2>8, BufAssumption DEF InCall
  <2>10. \A c \in Bufs : Unsent(c)' = Unsent(c) /\ InFlight(c)' = InFlight(c) /\ Queued(c)' = Queued(c)
    BY <1>2, <1>3, <2>8 DEF Unsent, InFlight, Queued
  <2>11. References(b)' = References(b) + 0
    <3>1. Cardinality(Exported(b)') = Cardinality(Exported(b)) + 1
      BY <2>7, HoldersFinite, Gain
    <3>2. Cardinality(InCall(b)') = Cardinality(InCall(b)) - 1
      BY <1>5, <2>9, HoldersFinite, Lose
    <3>3. /\ Cardinality(InCall(b)) \in Nat /\ Cardinality(Unsent(b)) \in Nat /\ Cardinality(InFlight(b)) \in Nat
          /\ Cardinality(Queued(b)) \in Nat /\ Cardinality(Exported(b)) \in Nat
      BY HoldersFinite
    <3>4. /\ Unsent(b)' = Unsent(b) /\ InFlight(b)' = InFlight(b) /\ Queued(b)' = Queued(b)
      BY <2>10
    <3> QED BY <3>1, <3>2, <3>3, <3>4 DEF References
  <2>12. Buf[b].UseCount \in Nat \ {0} /\ Unsent(b) = {}
    BY <1>1, <1>5, HeldCounted DEF Inv3, Accounting
  <2>13. Decr(Incr(Buf[b], 1)) = Buf[b]
    <3>1. Buf[b].UseCount + 1 <= MaxUseCount
      BY <2>12, UseCountAssumption, SizeAssumption DEF Inv3, Accounting, UseBound
    <3>2. Incr(Buf[b], 1) = [Buf[b] EXCEPT !.UseCount = Buf[b].UseCount + 1]
      BY <1>4, <3>1, IncrCount
    <3> QED BY <1>4, <2>12, <3>2 DEF Decr, BufferDesc
  <2>14. Buf' = Buf  BY <1>1, <2>1, <2>13 DEF TypeOK
  <2>15. UseCountExact'
    BY <1>1, <1>4, <2>7, <2>9, <2>10, <2>11, <2>12, <2>14, Recount DEF SameHeld
  <2>16. SenderAlone' /\ NotYetQueued'  BY <1>3, <2>8, <2>10, SendersKept DEF SendersOnly
  <2>17. UseBound' /\ UnsentOwned' /\ NoDuplicates'
    BY <1>3, <2>14 DEF Inv3, Accounting, UseBound, UnsentOwned, NoDuplicates
  <2> QED BY <2>15, <2>16, <2>17 DEF Counts
<1> QED BY <1>6, <1>7

(* A write that is done with leaves the set of writes to make.             *)
LEMMA TargetDone ==
  ASSUME NEW t \in Tasks, NEW p \in targets[t], p \in PipeIds, NEW b, b = cur[t], cur' = cur,
         \A u \in Tasks : targets'[u] = IF u = t THEN targets[u] \ {p} ELSE targets[u]
  PROVE  /\ <<t, p>> \in InFlight(b)
         /\ \A c \in Bufs : InFlight(c)' = IF c = b THEN InFlight(c) \ {<<t, p>>} ELSE InFlight(c)
<1>1. <<t, p>> \in InFlight(b)  BY DEF InFlight
<1>2. \A c \in Bufs : InFlight(c)' = {x \in Tasks \X PipeIds : cur[x[1]] = c /\ x[2] \in targets'[x[1]]}
  BY DEF InFlight
<1>3. ASSUME NEW c \in Bufs, NEW x \in Tasks \X PipeIds
      PROVE  x \in InFlight(c)' <=> x \in InFlight(c) /\ ~(c = b /\ x = <<t, p>>)
  <2>1. x[1] \in Tasks /\ x = <<x[1], x[2]>>  OBVIOUS
  <2>2. x \in InFlight(c)' <=> cur[x[1]] = c /\ x[2] \in targets'[x[1]]  BY <1>2
  <2>3. x \in InFlight(c) <=> cur[x[1]] = c /\ x[2] \in targets[x[1]]  BY DEF InFlight
  <2>4. CASE x[1] = t
    <3>1. targets'[x[1]] = targets[t] \ {p} /\ (c = b <=> cur[x[1]] = c)  BY <2>1, <2>4
    <3>2. x[2] = p <=> x = <<t, p>>  BY <2>1, <2>4
    <3> QED BY <2>2, <2>3, <2>4, <3>1, <3>2
  <2>5. CASE x[1] # t
    <3>1. targets'[x[1]] = targets[x[1]]  BY <2>1, <2>5
    <3>2. <<t, p>>[1] = t  OBVIOUS
    <3>3. x # <<t, p>>  BY <2>5, <3>2
    <3> QED BY <2>2, <2>3, <3>1, <3>3
  <2> QED BY <2>4, <2>5
<1>4. \A c \in Bufs : InFlight(c)' \subseteq Tasks \X PipeIds /\ InFlight(c) \subseteq Tasks \X PipeIds
  BY DEF InFlight
<1>5. ASSUME NEW c \in Bufs PROVE InFlight(c)' = IF c = b THEN InFlight(c) \ {<<t, p>>} ELSE InFlight(c)
  BY <1>3, <1>4
<1> QED BY <1>1, <1>5

(* A write that failed gives its reference back.                           *)
LEMMA UndoCounts ==
  ASSUME Inv3, NEW t \in Tasks, UndoPut(t)
  PROVE  Counts'
<1>1. TypeOK /\ UseCountExact /\ CallLocals  BY DEF Inv3, Inv2, Inv1, Accounting
<1>p. pid[t] \in PipeIds
  BY <1>1 DEF CallLocals, UndoPut, Sending, TypeOK
<1> PICK p \in PipeIds : p = pid[t]  BY <1>p
<1> DEFINE s == ToIndex(p)
<1>2. p \in PipeIds /\ p \in targets[t] /\ cur[t] \in Bufs /\ pc[t] = "undo"
  BY <1>1 DEF CallLocals, UndoPut, Sending, TypeOK
<1> PICK b \in Bufs : b = cur[t]  BY <1>2
<1>3. /\ Buf' = [Buf EXCEPT ![b] = Decr(Buf[b])]
      /\ targets' = [targets EXCEPT ![t] = targets[t] \ {p}]
      /\ UNCHANGED <<Queue, zc, cur>>
      /\ \A u \in Tasks : Sending(u)' => Sending(u)
  BY <1>1 DEF UndoPut, Sending, osVars, TypeOK
<1>4. \A c \in Bufs : Exported(c)' = Exported(c)
  <2>1. CASE PipeTbl' = PipeTbl  BY <2>1 DEF Exported
  <2>2. CASE IsMatch(p) /\ PipeTbl' = [PipeTbl EXCEPT ![ToIndex(p)] = UncountPipe(p)]
    <3>1. PipeTbl[s] \in PipeDesc /\ s \in Slots  BY <1>1, <1>2, IdKinds DEF TypeOK
    <3>2. UncountPipe(p) \in PipeDesc /\ UncountPipe(p).PipeId = p
      BY <2>2, <3>1, DescUpdates, SameIds DEF UncountPipe, IsMatch
    <3>3. UncountPipe(p).LastBuffer = PipeTbl[s].LastBuffer
      BY <3>1 DEF UncountPipe, PipeDesc
    <3>4. PipeTbl'[s] = UncountPipe(p) /\ \A r \in Slots \ {s} : Held(r)' = Held(r)
      BY <1>1, <1>2, <2>2, <3>2, EntryUpdated
    <3>5. Held(s)' = Held(s)  BY <2>2, <3>2, <3>3, <3>4 DEF Held, IsMatch
    <3> HIDE DEF s
    <3> SUFFICES ASSUME NEW c \in Bufs PROVE Exported(c)' = Exported(c)  OBVIOUS
    <3> QED BY <3>1, <3>4, <3>5, ExportsOf
  <2> QED BY <2>1, <2>2 DEF UndoPut
<1> HIDE DEF s
<1>5. \A u \in Tasks : targets'[u] = IF u = t THEN targets[u] \ {p} ELSE targets[u]
  BY <1>1, <1>3 DEF TypeOK
<1>6. <<t, p>> \in InFlight(b) /\ \A c \in Bufs : InFlight(c)' = IF c = b THEN InFlight(c) \ {<<t, p>>} ELSE InFlight(c)
  BY <1>2, <1>3, <1>5, TargetDone
<1>7. \A c \in Bufs : InCall(c)' = InCall(c) /\ Unsent(c)' = Unsent(c) /\ Queued(c)' = Queued(c)
  BY <1>3 DEF InCall, Unsent, Queued
<1>8. References(b)' = References(b) + (-1)
  <2>1. Cardinality(InFlight(b)') = Cardinality(InFlight(b)) - 1
    BY <1>6, HoldersFinite, Lose
  <2>2. /\ Cardinality(InCall(b)) \in Nat /\ Cardinality(Unsent(b)) \in Nat /\ Cardinality(InFlight(b)) \in Nat
        /\ Cardinality(Queued(b)) \in Nat /\ Cardinality(Exported(b)) \in Nat
    BY HoldersFinite
  <2> QED BY <1>4, <1>7, <2>1, <2>2 DEF References
<1>9. /\ UseBound' /\ UnsentOwned' /\ Buf'[b].UseCount = Buf[b].UseCount - 1
      /\ \A c \in Bufs \ {b} : Buf'[c].UseCount = Buf[c].UseCount
  BY <1>3, <1>6, GivenBack
<1>10. Buf[b].UseCount \in Nat  BY <1>1 DEF TypeOK, BufferDesc
<1>11. UseCountExact'
  BY <1>1, <1>4, <1>6, <1>7, <1>8, <1>9, <1>10, Recount DEF SameHeld
<1>12. SenderAlone' /\ NotYetQueued'  BY <1>3, <1>5, <1>7, SendersKept DEF SendersOnly
<1>13. NoDuplicates'  BY <1>3 DEF Inv3, Accounting, NoDuplicates
<1> QED BY <1>9, <1>11, <1>12, <1>13 DEF Counts

(* A buffer is put on a queue that does not hold it.                       *)
LEMMA PutOn ==
  ASSUME Inv3, NEW p \in PipeIds, NEW b \in Bufs, p \notin Queued(b),
         Queue' = [Queue EXCEPT ![p] = Append(Queue[p], b)]
  PROVE  /\ NoDuplicates'
         /\ Queued(b)' = Queued(b) \cup {p}
         /\ \A c \in Bufs \ {b} : Queued(c)' = Queued(c)
<1> DEFINE q == Queue[p]
<1>1. Queue \in [PipeIds -> Seq(Bufs)]  BY DEF Inv3, Inv2, Inv1, TypeOK
<1>2. /\ Len(q) \in Nat /\ DOMAIN q = 1..Len(q)
      /\ DOMAIN Append(q, b) = 1..(Len(q) + 1)
      /\ Append(q, b)[Len(q) + 1] = b
      /\ \A i \in 1..Len(q) : Append(q, b)[i] = q[i]
  BY <1>1
<1>3. Queue'[p] = Append(q, b) /\ \A r \in PipeIds \ {p} : Queue'[r] = Queue[r]
  BY <1>1
<1>4. \A i, j \in DOMAIN q : q[i] = q[j] => i = j
  BY DEF Inv3, Accounting, NoDuplicates
<1>5. \A i \in DOMAIN q : q[i] # b  BY DEF Queued
<1> HIDE DEF q
<1>6. \A i, j \in DOMAIN Append(q, b) : Append(q, b)[i] = Append(q, b)[j] => i = j
  <2> SUFFICES ASSUME NEW i \in DOMAIN Append(q, b), NEW j \in DOMAIN Append(q, b),
                      Append(q, b)[i] = Append(q, b)[j]
               PROVE  i = j
    OBVIOUS
  <2>1. CASE i \in 1..Len(q) /\ j \in 1..Len(q)  BY <1>2, <1>4, <2>1
  <2>2. CASE i = Len(q) + 1 /\ j = Len(q) + 1  BY <2>2
  <2>3. CASE i \in 1..Len(q) /\ j = Len(q) + 1  BY <1>2, <1>5, <2>3
  <2>4. CASE i = Len(q) + 1 /\ j \in 1..Len(q)  BY <1>2, <1>5, <2>4
  <2>5. \A k \in DOMAIN Append(q, b) : k \in 1..Len(q) \/ k = Len(q) + 1  BY <1>2
  <2> QED BY <2>1, <2>2, <2>3, <2>4, <2>5
<1>7. NoDuplicates'
  <2>1. ASSUME NEW r \in PipeIds, NEW i \in DOMAIN Queue'[r], NEW j \in DOMAIN Queue'[r], Queue'[r][i] = Queue'[r][j]
        PROVE  i = j
    <3>1. CASE r = p  BY <3>1, <2>1, <1>3, <1>6
    <3>2. CASE r # p  BY <3>2, <2>1, <1>3 DEF Inv3, Accounting, NoDuplicates
    <3> QED BY <3>1, <3>2
  <2> QED BY <2>1 DEF NoDuplicates
<1>8. \A c : (\E i \in DOMAIN Append(q, b) : Append(q, b)[i] = c) <=> (c = b \/ \E i \in DOMAIN q : q[i] = c)
  <2> SUFFICES ASSUME NEW c
               PROVE  (\E i \in DOMAIN Append(q, b) : Append(q, b)[i] = c) <=> (c = b \/ \E i \in DOMAIN q : q[i] = c)
    OBVIOUS
  <2>1. Len(q) + 1 \in DOMAIN Append(q, b)  BY <1>2
  <2>2. \A i \in DOMAIN q : i \in DOMAIN Append(q, b) /\ Append(q, b)[i] = q[i]  BY <1>2
  <2>3. \A k \in DOMAIN Append(q, b) : k \in DOMAIN q \/ Append(q, b)[k] = b  BY <1>2
  <2> QED BY <1>2, <2>1, <2>2, <2>3
<1>9. \A c : Queued(c)' = {r \in PipeIds : \E i \in DOMAIN Queue'[r] : Queue'[r][i] = c}
  BY DEF Queued
<1>10. \A c : Queued(c)' = IF c = b THEN Queued(c) \cup {p} ELSE Queued(c)
  <2> SUFFICES ASSUME NEW c PROVE Queued(c)' = IF c = b THEN Queued(c) \cup {p} ELSE Queued(c)
    OBVIOUS
  <2>1. Queued(c)' \subseteq PipeIds /\ Queued(c) \subseteq PipeIds  BY DEF Queued
  <2>2. ASSUME NEW r \in PipeIds PROVE r \in Queued(c)' <=> r \in Queued(c) \/ (c = b /\ r = p)
    <3>1. r \in Queued(c)' <=> \E i \in DOMAIN Queue'[r] : Queue'[r][i] = c  BY <1>9
    <3>2. r \in Queued(c) <=> \E i \in DOMAIN Queue[r] : Queue[r][i] = c  BY DEF Queued
    <3>3. CASE r = p
      <4>1. r \in Queued(c)' <=> \E i \in DOMAIN Append(q, b) : Append(q, b)[i] = c  BY <3>1, <3>3, <1>3, Zenon
      <4>2. r \in Queued(c) <=> \E i \in DOMAIN q : q[i] = c  BY <3>2, <3>3, Zenon DEF q
      <4> QED BY <3>3, <4>1, <4>2, <1>8
    <3>4. CASE r # p  BY <3>1, <3>2, <3>4, <1>3
    <3> QED BY <3>3, <3>4
  <2> QED BY <2>1, <2>2
<1> QED BY <1>7, <1>10

(* A write moves its reference from the call to the queue.                 *)
LEMMA PutCounts ==
  ASSUME Inv3, NEW t \in Tasks, NEW p \in PipeIds, QueuePut(t, p)
  PROVE  Counts'
<1>1. TypeOK /\ UseCountExact /\ CallLocals  BY DEF Inv3, Inv2, Inv1, Accounting
<1>2. p \in targets[t] /\ cur[t] \in Bufs /\ Sending(t)
  BY <1>1 DEF CallLocals, QueuePut, Sending
<1> PICK b \in Bufs : b = cur[t]  BY <1>2
<1>3. p \notin Queued(b)  BY <1>2 DEF Inv3, Accounting, NotYetQueued
<1>4. /\ Queue' = [Queue EXCEPT ![p] = Append(Queue[p], b)]
      /\ targets' = [targets EXCEPT ![t] = targets[t] \ {p}]
      /\ UNCHANGED <<PipeTbl, Buf, zc, cur>>
      /\ \A u \in Tasks : Sending(u)' <=> Sending(u)
  BY <1>1 DEF QueuePut, Sending, pipeVars, TypeOK
<1>5. /\ NoDuplicates' /\ Queued(b)' = Queued(b) \cup {p}
      /\ \A c \in Bufs \ {b} : Queued(c)' = Queued(c)
  BY <1>3, <1>4, PutOn
<1>6. \A u \in Tasks : targets'[u] = IF u = t THEN targets[u] \ {p} ELSE targets[u]
  BY <1>1, <1>4 DEF TypeOK
<1>7. <<t, p>> \in InFlight(b) /\ \A c \in Bufs : InFlight(c)' = IF c = b THEN InFlight(c) \ {<<t, p>>} ELSE InFlight(c)
  BY <1>2, <1>4, <1>6, TargetDone
<1>8. \A c \in Bufs : InCall(c)' = InCall(c) /\ Unsent(c)' = Unsent(c) /\ Exported(c)' = Exported(c)
  BY <1>4 DEF InCall, Unsent, Exported
<1>9. References(b)' = References(b) + 0
  <2>1. Cardinality(InFlight(b)') = Cardinality(InFlight(b)) - 1
    BY <1>7, HoldersFinite, Lose
  <2>2. Cardinality(Queued(b)') = Cardinality(Queued(b)) + 1
    BY <1>3, <1>5, HoldersFinite, Gain
  <2>3. /\ Cardinality(InCall(b)) \in Nat /\ Cardinality(Unsent(b)) \in Nat /\ Cardinality(InFlight(b)) \in Nat
        /\ Cardinality(Queued(b)) \in Nat /\ Cardinality(Exported(b)) \in Nat
    BY HoldersFinite
  <2>4. InCall(b)' = InCall(b) /\ Unsent(b)' = Unsent(b) /\ Exported(b)' = Exported(b)
    BY <1>8
  <2> QED BY <2>1, <2>2, <2>3, <2>4 DEF References
<1>10. Buf[b].UseCount \in Nat  BY <1>1 DEF TypeOK, BufferDesc
<1>11. UseCountExact'
  BY <1>1, <1>4, <1>5, <1>7, <1>8, <1>9, <1>10, Recount DEF SameHeld
<1>12. SenderAlone'  BY <1>4 DEF Inv3, Accounting, SenderAlone
<1>13. NotYetQueued'
  <2>1. ASSUME NEW u \in Tasks, Sending(u)', NEW r \in targets'[u] PROVE r \notin Queued(cur[u])'
    <3>1. Sending(u) /\ r \in targets[u] /\ cur[u] \in Bufs
      BY <1>1, <1>4, <1>6, <2>1 DEF CallLocals
    <3> PICK c \in Bufs : c = cur[u]  BY <3>1
    <3>2. r \notin Queued(c)  BY <3>1 DEF Inv3, Accounting, NotYetQueued
    <3>3. u # t => c # b  BY <1>2, <3>1 DEF Inv3, Accounting, SenderAlone
    <3>4. u = t => c = b /\ r # p  BY <1>1, <1>4, <2>1 DEF TypeOK
    <3>5. r \notin Queued(c)'  BY <1>5, <3>2, <3>3, <3>4
    <3>6. Queued(cur[u])' = Queued(c)'  BY <1>4 DEF Queued
    <3> QED BY <3>5, <3>6
  <2> QED BY <2>1 DEF NotYetQueued
<1>14. UseBound' /\ UnsentOwned'  BY <1>4 DEF Inv3, Accounting, UseBound, UnsentOwned
<1> QED BY <1>5, <1>11, <1>12, <1>13, <1>14 DEF Counts

(* Unsent buffers go back to the pool: a release by their owner, and the   *)
(* clean up of an application.                                             *)
LEMMA UnsentFreed ==
  ASSUME Inv3, NEW F \in SUBSET Bufs, \A b \in F : \E t \in Tasks : zc[t] = b,
         Buf' = [b \in Bufs |-> IF b \in F THEN FreeBuf ELSE Buf[b]],
         zc' = [u \in Tasks |-> IF zc[u] \in F THEN NoBuf ELSE zc[u]],
         UNCHANGED <<PipeTbl, Queue, cur, targets>>,
         \A u \in Tasks : Sending(u)' => Sending(u)
  PROVE  Counts'
<1>1. TypeOK /\ UseCountExact /\ UnsentOwned  BY DEF Inv3, Inv2, Inv1, Accounting
<1>2. \A c \in Bufs : /\ InCall(c)' = InCall(c) /\ InFlight(c)' = InFlight(c)
                      /\ Queued(c)' = Queued(c) /\ Exported(c)' = Exported(c)
  BY DEF InCall, InFlight, Queued, Exported
<1>3. \A c \in Bufs : Unsent(c)' = IF c \in F THEN {} ELSE Unsent(c)
  BY BufAssumption DEF Unsent
<1>4. UseCountExact'
  <2> SUFFICES ASSUME NEW c \in Bufs PROVE Buf'[c].UseCount = References(c)'
    BY DEF UseCountExact
  <2>1. CASE c \in F
    <3>1. InCall(c) = {} /\ InFlight(c) = {} /\ Queued(c) = {} /\ Exported(c) = {}
      BY <1>1, <2>1, UnsentUnheld
    <3>2. Buf'[c].UseCount = 0  BY <2>1 DEF FreeBuf
    <3>3. References(c)' = 0
      BY <1>2, <1>3, <2>1, <3>1, FS_EmptySet DEF References
    <3> QED BY <3>2, <3>3
  <2>2. CASE c \notin F
    <3>1. References(c)' = References(c)  BY <1>2, <1>3, <2>2 DEF References
    <3> QED BY <1>1, <2>2, <3>1 DEF UseCountExact
  <2> QED BY <2>1, <2>2
<1>5. UseBound'
  BY SizeAssumption DEF Inv3, Accounting, UseBound, FreeBuf
<1>6. UnsentOwned'
  <2>1. ASSUME NEW u \in Tasks, zc'[u] # NoBuf
        PROVE  Buf'[zc'[u]].UseCount = 1 /\ Buf'[zc'[u]].List = "ZeroCopy" /\ Buf'[zc'[u]].AppId = AppOf[u]
    <3>1. zc'[u] = zc[u] /\ zc[u] \in Bufs \ F  BY <1>1, <2>1 DEF TypeOK
    <3>2. Buf'[zc[u]] = Buf[zc[u]]  BY <3>1
    <3> QED BY <1>1, <2>1, <3>1, <3>2 DEF UnsentOwned
  <2>2. ASSUME NEW c \in Bufs, Buf'[c].List = "ZeroCopy" PROVE \E u \in Tasks : zc'[u] = c
    <3>1. c \notin F /\ Buf[c].List = "ZeroCopy"  BY <2>2 DEF FreeBuf
    <3> QED BY <1>1, <3>1 DEF UnsentOwned
  <2> QED BY <2>1, <2>2 DEF UnsentOwned
<1>7. SenderAlone' /\ NotYetQueued'  BY <1>2, SendersKept DEF SendersOnly
<1>8. NoDuplicates'  BY DEF Inv3, Accounting, NoDuplicates
<1> QED BY <1>4, <1>5, <1>6, <1>7, <1>8 DEF Counts

(* The owner of an unsent buffer releases it.                              *)
LEMMA ReleaseCounts ==
  ASSUME Inv3, NEW t \in Tasks, ReleaseMessageBuffer(t)
  PROVE  Counts'
<1>1. TypeOK /\ UnsentOwned  BY DEF Inv3, Inv2, Inv1, Accounting
<1>2. zc[t] \in Bufs /\ zc[t] # NoBuf  BY <1>1 DEF TypeOK, ReleaseMessageBuffer
<1> PICK b \in Bufs : b = zc[t]  BY <1>2
<1>3. Buf[b].UseCount = 1 /\ Buf[b] \in BufferDesc  BY <1>1, <1>2 DEF UnsentOwned, TypeOK
<1>4. Decr([Buf[b] EXCEPT !.AppId = NoApp]) = FreeBuf  BY <1>3 DEF Decr, BufferDesc
<1>5. Buf' = [c \in Bufs |-> IF c \in {b} THEN FreeBuf ELSE Buf[c]]
  BY <1>1, <1>4 DEF ReleaseMessageBuffer, TypeOK
<1>6. \A u \in Tasks : zc[u] = b => u = t
  BY <1>1, UnsentUnheld DEF Unsent, Inv3, Accounting
<1>7. zc' = [u \in Tasks |-> IF zc[u] \in {b} THEN NoBuf ELSE zc[u]]
  BY <1>1, <1>6 DEF ReleaseMessageBuffer, TypeOK
<1>8. UNCHANGED <<PipeTbl, Queue, cur, targets>> /\ \A u \in Tasks : Sending(u)' => Sending(u)
  BY DEF ReleaseMessageBuffer, pipeVars, osVars, Sending
<1> PICK F \in SUBSET Bufs : F = {b}  OBVIOUS
<1> QED BY <1>5, <1>7, <1>8, UnsentFreed

(* A clean up releases what the tasks of its application did not send.     *)
LEMMA CleanUpCounts ==
  ASSUME Inv3, NEW t \in Tasks, ZeroCopyReleaseAppId(t)
  PROVE  Counts'
<1>1. TypeOK /\ UnsentOwned /\ CallLocals  BY DEF Inv3, Inv2, Inv1, Accounting
<1> PICK a \in Apps : a = cleaning[t]  BY <1>1 DEF CallLocals, ZeroCopyReleaseAppId
<1> DEFINE F == {b \in Bufs : Buf[b].List = "ZeroCopy" /\ Buf[b].AppId = a}
<1> PICK G \in SUBSET Bufs : G = F  OBVIOUS
<1>2. \A b \in G : \E u \in Tasks : zc[u] = b  BY <1>1 DEF UnsentOwned
<1>3. \A b \in G : Decr(Buf[b]) = FreeBuf
  <2> TAKE b \in G
  <2>1. Buf[b].UseCount = 1  BY <1>1, <1>2, BufAssumption DEF UnsentOwned
  <2> QED BY <2>1 DEF Decr
<1>4. Buf' = [b \in Bufs |-> IF b \in G THEN FreeBuf ELSE Buf[b]]
  BY <1>3 DEF ZeroCopyReleaseAppId
<1>5. \A u \in Tasks : zc[u] # NoBuf => (zc[u] \in G <=> AppOf[u] = a)
  BY <1>1 DEF UnsentOwned, TypeOK
<1>6. zc' = [u \in Tasks |-> IF zc[u] \in G THEN NoBuf ELSE zc[u]]
  BY <1>5, BufAssumption DEF ZeroCopyReleaseAppId
<1>7. UNCHANGED <<PipeTbl, Queue, cur, targets>> /\ \A u \in Tasks : Sending(u)' => Sending(u)
  BY <1>1 DEF ZeroCopyReleaseAppId, pipeVars, osVars, Sending, TypeOK
<1> QED BY <1>2, <1>4, <1>6, <1>7, UnsentFreed

(* A buffer of the pool gets its first owner.                              *)
LEMMA AllocateCounts ==
  ASSUME Inv3, NEW t \in Tasks, NEW b \in Bufs, AllocateMessageBuffer(t, b)
  PROVE  Counts'
<1>1. TypeOK /\ UseCountExact /\ UnsentOwned  BY DEF Inv3, Inv2, Inv1, Accounting
<1>2. /\ zc[t] = NoBuf /\ zc'[t] = b /\ \A u \in Tasks \ {t} : zc'[u] = zc[u]
      /\ Buf[b].UseCount = 0
      /\ Buf'[b] = [UseCount |-> 1, AppId |-> AppOf[t], List |-> "ZeroCopy", MsgId |-> "none"]
      /\ \A c \in Bufs \ {b} : Buf'[c] = Buf[c]
      /\ UNCHANGED <<PipeTbl, Queue, cur, targets, pc>>
  BY <1>1 DEF AllocateMessageBuffer, TypeOK, pipeVars, osVars
<1>3. InCall(b) = {} /\ Unsent(b) = {} /\ InFlight(b) = {} /\ Queued(b) = {} /\ Exported(b) = {}
  BY <1>1, <1>2, FreeUnheld
<1>4. \A c \in Bufs : /\ InCall(c)' = InCall(c) /\ InFlight(c)' = InFlight(c)
                      /\ Queued(c)' = Queued(c) /\ Exported(c)' = Exported(c)
  BY <1>2 DEF InCall, InFlight, Queued, Exported
<1>5. \A c \in Bufs : Unsent(c)' = IF c = b THEN Unsent(c) \cup {t} ELSE Unsent(c)
  BY <1>2, BufAssumption DEF Unsent
<1>6. References(b)' = References(b) + 1
  <2>1. Cardinality(Unsent(b)') = Cardinality(Unsent(b)) + 1
    BY <1>3, <1>5, HoldersFinite, Gain
  <2>2. /\ Cardinality(InCall(b)) \in Nat /\ Cardinality(Unsent(b)) \in Nat /\ Cardinality(InFlight(b)) \in Nat
        /\ Cardinality(Queued(b)) \in Nat /\ Cardinality(Exported(b)) \in Nat
    BY HoldersFinite
  <2>3. /\ InCall(b)' = InCall(b) /\ InFlight(b)' = InFlight(b)
        /\ Queued(b)' = Queued(b) /\ Exported(b)' = Exported(b)
    BY <1>4
  <2> QED BY <2>1, <2>2, <2>3 DEF References
<1>7. UseCountExact'
  BY <1>1, <1>2, <1>4, <1>5, <1>6, Recount DEF SameHeld
<1>8. UseBound'
  BY <1>2, SizeAssumption DEF Inv3, Accounting, UseBound
<1>9. UnsentOwned'
  <2>1. \A u \in Tasks : zc[u] # b  BY <1>3 DEF Unsent
  <2>2. zc \in [Tasks -> Bufs \cup {NoBuf}]  BY <1>1 DEF TypeOK
  <2>3. ASSUME NEW u \in Tasks, zc'[u] # NoBuf
        PROVE  Buf'[zc'[u]].UseCount = 1 /\ Buf'[zc'[u]].List = "ZeroCopy" /\ Buf'[zc'[u]].AppId = AppOf[u]
    <3>1. CASE u = t  BY <1>2, <3>1
    <3>2. CASE u # t  BY <1>1, <1>2, <2>1, <2>2, <2>3, <3>2 DEF UnsentOwned
    <3> QED BY <3>1, <3>2
  <2>4. ASSUME NEW c \in Bufs, Buf'[c].List = "ZeroCopy" PROVE \E u \in Tasks : zc'[u] = c
    <3>1. CASE c = b  BY <1>2, <3>1
    <3>2. CASE c # b
      <4>1. PICK u \in Tasks : zc[u] = c  BY <1>1, <1>2, <2>4, <3>2 DEF UnsentOwned
      <4>2. u # t  BY <1>2, <4>1, BufAssumption
      <4> QED BY <1>2, <4>1, <4>2
    <3> QED BY <3>1, <3>2
  <2> QED BY <2>3, <2>4 DEF UnsentOwned
<1>10. SenderAlone' /\ NotYetQueued'  BY <1>2, <1>4, SendersKept DEF SendersOnly, Sending
<1>11. NoDuplicates'  BY <1>2 DEF Inv3, Accounting, NoDuplicates
<1> QED BY <1>7, <1>8, <1>9, <1>10, <1>11 DEF Counts

(* A transmission finds its destinations, and counts a reference for each  *)
(* beside its own: a full route is within the width of the counter.        *)
LEMMA FindCounts ==
  ASSUME Inv3, NEW t \in Tasks, NEW m \in MsgIds, FindDestinations(t, m)
  PROVE  Counts'
<1>1. TypeOK /\ UseCountExact /\ UnsentOwned /\ CallLocals  BY DEF Inv3, Inv2, Inv1, Accounting
<1>2. zc[t] \in Bufs  BY <1>1 DEF TypeOK, FindDestinations
<1> PICK b \in Bufs : b = zc[t]  BY <1>2
<1> DEFINE accepted == UnderLimit(m, Eligible(t, m))
<1>3. accepted \in SUBSET Dests[m] /\ Dests[m] \in SUBSET PipeIds
  BY <1>1 DEF TypeOK, UnderLimit, Eligible
<1> PICK A \in SUBSET PipeIds : A = accepted  BY <1>3
<1>4. IsFiniteSet(A) /\ Cardinality(A) \in Nat /\ Cardinality(A) <= MaxDestPerPkt
  <2>1. IsFiniteSet(Dests[m])  BY <1>3, PipesFinite
  <2>2. Cardinality(Dests[m]) <= MaxDestPerPkt  BY DEF Inv3, Accounting, RouteBound
  <2>3. IsFiniteSet(A) /\ Cardinality(A) <= Cardinality(Dests[m])  BY <1>3, <2>1, FS_Subset
  <2>4. Cardinality(A) \in Nat /\ Cardinality(Dests[m]) \in Nat  BY <2>1, <2>3, FS_CardinalityType
  <2> QED BY <2>2, <2>3, <2>4, SizeAssumption
<1>5. Buf[b] \in BufferDesc /\ Buf[b].UseCount = 1
  BY <1>1, BufAssumption DEF TypeOK, UnsentOwned
<1>6. Incr(Buf[b], Cardinality(A)) = [Buf[b] EXCEPT !.UseCount = 1 + Cardinality(A)]
  BY <1>4, <1>5, UseCountAssumption, SizeAssumption, IncrCount
<1>7. /\ Buf'[b] = [[Buf[b] EXCEPT !.UseCount = 1 + Cardinality(A)] EXCEPT
                       !.AppId = NoApp, !.List = "InTransit", !.MsgId = m]
      /\ \A c \in Bufs \ {b} : Buf'[c] = Buf[c]
  BY <1>1, <1>6 DEF FindDestinations, TypeOK
<1>8. Buf'[b].UseCount = 1 + Cardinality(A) /\ Buf'[b].List = "InTransit"
  BY <1>5, <1>7 DEF BufferDesc
<1>9. /\ zc'[t] = NoBuf /\ cur'[t] = b /\ targets'[t] = A /\ pc'[t] = "send"
      /\ \A u \in Tasks \ {t} : zc'[u] = zc[u] /\ cur'[u] = cur[u] /\ targets'[u] = targets[u] /\ pc'[u] = pc[u]
      /\ cur[t] = NoBuf /\ targets[t] = {} /\ pc[t] = "idle"
      /\ UNCHANGED Queue
  BY <1>1 DEF FindDestinations, TypeOK, CallLocals, Calls, Sending, osVars
<1>10. \A c \in Bufs : Exported(c)' = Exported(c)
  <2>1. \A s \in Slots : PipeTbl'[s] \in {PipeTbl[s], CountPipe(PipeTbl[s])} /\ PipeTbl[s] \in PipeDesc
    BY <1>1 DEF FindDestinations, TypeOK
  <2>2. \A s \in Slots : PipeTbl'[s].PipeId = PipeTbl[s].PipeId /\ PipeTbl'[s].LastBuffer = PipeTbl[s].LastBuffer
    BY <2>1, SameIds
  <2> QED BY <2>2 DEF Exported
<1>11. InCall(b) = {} /\ Unsent(b) = {t} /\ InFlight(b) = {} /\ Queued(b) = {} /\ Exported(b) = {}
  BY <1>1, UnsentUnheld
<1>12. \A c \in Bufs : Queued(c)' = Queued(c)  BY <1>9 DEF Queued
<1>13. \A c \in Bufs \ {b} : SameHeld(c)
  <2> TAKE c \in Bufs \ {b}
  <2>1. InCall(c)' = InCall(c) /\ Unsent(c)' = Unsent(c)  BY <1>9, BufAssumption DEF InCall, Unsent
  <2>2. InFlight(c)' = InFlight(c)
    <3>1. \A x \in Tasks \X PipeIds : x[1] \in Tasks  OBVIOUS
    <3>2. \A u \in Tasks, p \in PipeIds : cur'[u] = c /\ p \in targets'[u] <=> cur[u] = c /\ p \in targets[u]
      BY <1>9
    <3>3. InFlight(c)' = {x \in Tasks \X PipeIds : cur'[x[1]] = c /\ x[2] \in targets'[x[1]]}
      BY DEF InFlight
    <3> QED BY <3>2, <3>3 DEF InFlight
  <2> QED BY <1>10, <1>12, <2>1, <2>2 DEF SameHeld
<1>14. References(b)' = References(b) + Cardinality(A)
  <2>1. InCall(b)' = {t}
    <3>1. \A u \in Tasks \ {t} : cur'[u] # b  BY <1>9, <1>11 DEF InCall
    <3>2. InCall(b)' = {u \in Tasks : cur'[u] = b}  BY DEF InCall
    <3> QED BY <1>9, <3>1, <3>2
  <2>2. Unsent(b)' = {}
    <3>1. \A u \in Tasks : zc'[u] # b  BY <1>9, <1>11, BufAssumption DEF Unsent
    <3> QED BY <3>1 DEF Unsent
  <2>3. InFlight(b)' = {t} \X A
    <3>1. InFlight(b)' = {x \in Tasks \X PipeIds : cur'[x[1]] = b /\ x[2] \in targets'[x[1]]}
      BY DEF InFlight
    <3>2. \A u \in Tasks : cur'[u] = b => u = t  BY <1>9, <1>11 DEF InCall
    <3>3. \A x \in Tasks \X PipeIds : x \in InFlight(b)' <=> x[1] = t /\ x[2] \in A
      BY <1>9, <3>1, <3>2
    <3>4. \A x \in Tasks \X PipeIds : x \in {t} \X A <=> x[1] = t /\ x[2] \in A
      OBVIOUS
    <3>5. {t} \X A \subseteq Tasks \X PipeIds /\ InFlight(b)' \subseteq Tasks \X PipeIds
      BY <3>1
    <3> QED BY <3>3, <3>4, <3>5
  <2>4. Cardinality({t}) = 1 /\ IsFiniteSet({t})  BY FS_Singleton
  <2>5. Cardinality({t} \X A) = Cardinality(A)
    <3>1. Cardinality({t} \X A) = Cardinality({t}) * Cardinality(A)  BY <1>4, <2>4, FS_Product
    <3> QED BY <1>4, <2>4, <3>1
  <2>6. Cardinality({}) = 0  BY FS_EmptySet
  <2>7. References(b)' = 1 + Cardinality(A)
    <3>1. Queued(b)' = {} /\ Exported(b)' = {}  BY <1>10, <1>11, <1>12
    <3> QED BY <1>4, <2>1, <2>2, <2>3, <2>4, <2>5, <2>6, <3>1 DEF References
  <2>8. References(b) = 1  BY <1>1, <1>5 DEF UseCountExact
  <2> QED BY <1>4, <2>7, <2>8
<1>15. UseCountExact'
  <2> PICK k \in Int : k = Cardinality(A)  BY <1>4
  <2>1. References(b)' = References(b) + k /\ Buf'[b].UseCount = Buf[b].UseCount + k
    BY <1>5, <1>8, <1>14
  <2>2. \A c \in Bufs \ {b} : SameHeld(c) /\ Buf'[c].UseCount = Buf[c].UseCount
    BY <1>7, <1>13
  <2> HIDE DEF accepted
  <2> QED BY <1>1, <2>1, <2>2, Recount
<1>16. UseBound'
  <2>1. \A c \in Bufs \ {b} : Buf'[c].UseCount <= MaxDestPerPkt + 1
    BY <1>7 DEF Inv3, Accounting, UseBound
  <2>2. Buf'[b].UseCount <= MaxDestPerPkt + 1  BY <1>4, <1>8, SizeAssumption
  <2> QED BY <2>1, <2>2 DEF UseBound
<1>17. UnsentOwned'
  <2>1. \A u \in Tasks \ {t} : zc[u] # b  BY <1>11 DEF Unsent
  <2>2. zc \in [Tasks -> Bufs \cup {NoBuf}]  BY <1>1 DEF TypeOK
  <2>3. ASSUME NEW u \in Tasks, zc'[u] # NoBuf
        PROVE  Buf'[zc'[u]].UseCount = 1 /\ Buf'[zc'[u]].List = "ZeroCopy" /\ Buf'[zc'[u]].AppId = AppOf[u]
    <3>1. u # t  BY <1>9, <2>3
    <3> QED BY <1>1, <1>7, <1>9, <2>1, <2>2, <2>3, <3>1 DEF UnsentOwned
  <2>4. ASSUME NEW c \in Bufs, Buf'[c].List = "ZeroCopy" PROVE \E u \in Tasks : zc'[u] = c
    <3>1. c # b  BY <1>8, <2>4
    <3>2. PICK u \in Tasks : zc[u] = c  BY <1>1, <1>7, <2>4, <3>1 DEF UnsentOwned
    <3> QED BY <1>9, <3>1, <3>2
  <2> QED BY <2>3, <2>4 DEF UnsentOwned
<1>18. \A u \in Tasks \ {t} : /\ Sending(u)' <=> Sending(u)
                              /\ cur[u] # b /\ cur'[u] = cur[u] /\ targets'[u] = targets[u]
  BY <1>9, <1>11 DEF InCall, Sending
<1>19. SenderAlone'
  <2>1. ASSUME NEW u \in Tasks, NEW v \in Tasks, Sending(u)', Sending(v)', cur'[u] = cur'[v] PROVE u = v
    <3>1. CASE u = t \/ v = t  BY <1>9, <1>18, <2>1, <3>1
    <3>2. CASE u # t /\ v # t  BY <1>18, <2>1, <3>2 DEF Inv3, Accounting, SenderAlone
    <3> QED BY <3>1, <3>2
  <2> QED BY <2>1 DEF SenderAlone
<1>20. NotYetQueued'
  <2>1. ASSUME NEW u \in Tasks, Sending(u)', NEW p \in targets'[u] PROVE p \notin Queued(cur[u])'
    <3>1. CASE u = t
      <4>1. Queued(cur[u])' = Queued(b)'  BY <1>9, <3>1 DEF Queued
      <4> QED BY <1>11, <1>12, <4>1
    <3>2. CASE u # t
      <4>1. Sending(u) /\ p \in targets[u] /\ cur[u] \in Bufs
        BY <1>1, <1>18, <2>1, <3>2 DEF CallLocals
      <4> PICK c \in Bufs : c = cur[u]  BY <4>1
      <4>2. p \notin Queued(c)  BY <4>1 DEF Inv3, Accounting, NotYetQueued
      <4>3. Queued(cur[u])' = Queued(c)'  BY <1>18, <3>2 DEF Queued
      <4> QED BY <1>12, <4>2, <4>3
    <3> QED BY <3>1, <3>2
  <2> QED BY <2>1 DEF NotYetQueued
<1>21. NoDuplicates'  BY <1>9 DEF Inv3, Accounting, NoDuplicates
<1> QED BY <1>15, <1>16, <1>17, <1>19, <1>20, <1>21 DEF Counts

-----------------------------------------------------------------------------
(* The other parts of the invariant.                                       *)

\* No reception begins, and entries only lose their last buffer.
ReceptionKept ==
  /\ \A u \in Tasks : Receiving(u)' => Receiving(u) /\ pid'[u] = pid[u]
  /\ \A s \in Slots : PipeTbl'[s].PipeId \in PipeIds =>
       \/ PipeTbl'[s].LastBuffer = NoBuf
       \/ PipeTbl'[s].PipeId = PipeTbl[s].PipeId /\ PipeTbl'[s].LastBuffer = PipeTbl[s].LastBuffer

(* Such a step keeps receivers apart.                                      *)
LEMMA ReceptionFrame ==
  ASSUME Inv3, ReceptionKept
  PROVE  ReceiverAlone'
<1>1. \A u \in Tasks : Receiving(u) => pid[u] \in PipeIds  BY DEF Inv3, Inv2, Inv1, CallLocals
<1>2. ASSUME NEW t \in Tasks, Receiving(t)'
      PROVE  /\ IsMatch(pid[t])' => PipeTbl'[ToIndex(pid'[t])].LastBuffer = NoBuf
             /\ \A u \in Tasks \ {t} : Receiving(u)' => pid'[u] # pid'[t]
  <2>1. Receiving(t) /\ pid'[t] = pid[t] /\ pid[t] \in PipeIds /\ ToIndex(pid[t]) \in Slots
    BY <1>1, <1>2, IdKinds DEF ReceptionKept
  <2>2. IsMatch(pid[t])' <=> PipeTbl'[ToIndex(pid'[t])].PipeId = pid'[t]  BY DEF IsMatch, ToIndex
  <2>3. ASSUME PipeTbl'[ToIndex(pid[t])].PipeId = pid[t] PROVE PipeTbl'[ToIndex(pid[t])].LastBuffer = NoBuf
    BY <2>1, <2>3 DEF Inv3, ReceiverAlone, ReceptionKept, IsMatch
  <2> QED BY <1>2, <2>1, <2>2, <2>3 DEF Inv3, ReceiverAlone, ReceptionKept
<1>3. \A t \in Tasks : ToIndex(pid[t])' = ToIndex(pid'[t])  BY DEF ToIndex
<1> QED BY <1>2, <1>3 DEF ReceiverAlone

(* A route is never longer than its bound, and a pipe has one receiver.     *)
LEMMA ReceptionStep == Inv3 /\ [Next]_vars => RouteBound' /\ ReceiverAlone'
<1> SUFFICES ASSUME Inv3, [Next]_vars PROVE RouteBound' /\ ReceiverAlone'  OBVIOUS
<1>a. TypeOK /\ CallLocals /\ SlotOwned /\ RouteBound /\ ReceiverAlone
  BY DEF Inv3, Inv2, Inv1, Accounting
<1>b. /\ PipeTbl \in [Slots -> PipeDesc] /\ pc \in [Tasks -> Locations]
      /\ pid \in [Tasks -> PipeIds \cup {UNDEFINED}] /\ Dests \in [MsgIds -> SUBSET PipeIds]
  BY <1>a DEF TypeOK
<1>c. \A t \in Tasks : InTransition(t) \/ Receiving(t) => pid[t] \in PipeIds /\ ToIndex(pid[t]) \in Slots
  BY <1>a, IdKinds DEF CallLocals
<1>d. ReceptionKept => ReceiverAlone'  BY ReceptionFrame
<1>e. Dests' = Dests => RouteBound'  BY <1>a DEF RouteBound
<1>f. ASSUME \A m \in MsgIds : Dests'[m] \subseteq Dests[m] PROVE RouteBound'
  <2>1. ASSUME NEW m \in MsgIds PROVE Cardinality(Dests'[m]) <= MaxDestPerPkt
    <3>1. IsFiniteSet(Dests[m])  BY <1>b, PipesFinite
    <3>2. Cardinality(Dests'[m]) <= Cardinality(Dests[m]) /\ IsFiniteSet(Dests'[m])
      BY <1>f, <3>1, FS_Subset
    <3>3. Cardinality(Dests'[m]) \in Nat /\ Cardinality(Dests[m]) \in Nat
      BY <3>1, <3>2, FS_CardinalityType
    <3> QED BY <1>a, <3>2, <3>3, SizeAssumption DEF RouteBound
  <2> QED BY <2>1 DEF RouteBound
<1>g. ASSUME NEW t \in Tasks, NEW p \in PipeIds, NEW a, DeletePipeFull(t, p, a) PROVE RouteBound' /\ ReceiverAlone'
  <2>1. PipeTbl'[ToIndex(p)].PipeId = RESERVED
    BY <1>g, <1>b, IdKinds DEF DeletePipeFull, PipeDesc
  <2>2. ReceptionKept
    BY <1>g, <2>1, <1>b, IdKinds DEF DeletePipeFull, ReceptionKept, Receiving
  <2>3. \A k \in MsgIds : Dests'[k] \subseteq Dests[k]
    BY <1>g DEF DeletePipeFull, RemoveDest
  <2> QED BY <2>2, <2>3, <1>d, <1>f
<1>1. ASSUME NEW t \in Tasks, CreatePipe(t) PROVE RouteBound' /\ ReceiverAlone'
  <2>1. PICK p \in PipeIds : /\ PipeTbl' = [PipeTbl EXCEPT ![ToIndex(p)] = [ClearedDesc EXCEPT !.PipeId = RESERVED]]
                             /\ Dests' = Dests
                             /\ pid' = [pid EXCEPT ![t] = p] /\ pc' = [pc EXCEPT ![t] = "create"]
    BY <1>1 DEF CreatePipe, routeVars
  <2>2. PipeTbl'[ToIndex(p)].PipeId = RESERVED
    BY <2>1, <1>b, IdKinds DEF ClearedDesc
  <2>3. ReceptionKept
    BY <2>1, <2>2, <1>b, IdKinds DEF ReceptionKept, Receiving
  <2> QED BY <2>1, <2>3, <1>d, <1>e
<1>2. ASSUME NEW t \in Tasks, NEW d \in Depths, CreatePipeDone(t, d) PROVE RouteBound' /\ ReceiverAlone'
  <2> PICK p \in PipeIds : p = pid[t]  BY <1>2, <1>c DEF CreatePipeDone, InTransition
  <2>1. PipeTbl[ToIndex(p)].LastBuffer = NoBuf
    BY <1>2, <1>a DEF CreatePipeDone, SlotOwned, InTransition
  <2>2. PipeTbl'[ToIndex(p)].LastBuffer = NoBuf
    BY <1>2, <2>1, <1>b, IdKinds DEF CreatePipeDone, PipeDesc
  <2>3. ReceptionKept
    BY <1>2, <2>2, <1>b DEF CreatePipeDone, ReceptionKept, Receiving
  <2> QED BY <1>2, <2>3, <1>d, <1>e DEF CreatePipeDone, routeVars
<1>3. ASSUME NEW t \in Tasks, CreatePipeFail(t) PROVE RouteBound' /\ ReceiverAlone'
  <2> PICK p \in PipeIds : p = pid[t]  BY <1>3, <1>c DEF CreatePipeFail, InTransition
  <2>1. PipeTbl'[ToIndex(p)].PipeId = UNDEFINED
    BY <1>3, <1>b, IdKinds DEF CreatePipeFail, PipeDesc
  <2>2. ReceptionKept
    BY <1>3, <2>1, <1>b, IdKinds DEF CreatePipeFail, ReceptionKept, Receiving
  <2> QED BY <1>3, <2>2, <1>d, <1>e DEF CreatePipeFail, routeVars
<1>4. ASSUME NEW t \in Tasks, NEW p \in PipeIds, NEW f \in BOOLEAN, SetPipeOpts(t, p, f) PROVE RouteBound' /\ ReceiverAlone'
  <2>1. ReceptionKept
    BY <1>4, <1>b DEF SetPipeOpts, ReceptionKept, Receiving, taskVars, PipeDesc
  <2> QED BY <1>4, <2>1, <1>d, <1>e DEF SetPipeOpts, routeVars
<1>5. ASSUME NEW t \in Tasks, NEW p \in PipeIds, DeletePipe(t, p) PROVE RouteBound' /\ ReceiverAlone'
  BY <1>5, <1>g DEF DeletePipe, Calls
<1>6. ASSUME NEW t \in Tasks, NEW p \in PipeIds, CleanUpPipe(t, p) PROVE RouteBound' /\ ReceiverAlone'
  BY <1>6, <1>a, <1>g DEF CleanUpPipe, CallLocals
<1>7. ASSUME NEW t \in Tasks, DrainRelease(t) PROVE RouteBound' /\ ReceiverAlone'
  <2>1. ReceptionKept
    BY <1>7, <1>b DEF DrainRelease, ReceptionKept, Receiving, pipeVars, taskVars
  <2> QED BY <1>7, <2>1, <1>d, <1>e DEF DrainRelease, routeVars
<1>8. ASSUME NEW t \in Tasks, DrainGet(t) PROVE RouteBound' /\ ReceiverAlone'
  <2>1. ReceptionKept
    BY <1>8, <1>b DEF DrainGet, ReceptionKept, Receiving, pipeVars, taskVars
  <2> QED BY <1>8, <2>1, <1>d, <1>e DEF DrainGet, routeVars
<1>9. ASSUME NEW t \in Tasks, DrainEnd(t) PROVE RouteBound' /\ ReceiverAlone'
  <2>1. ReceptionKept
    BY <1>9, <1>b DEF DrainEnd, ReceptionKept, Receiving, pipeVars, taskVars
  <2> QED BY <1>9, <2>1, <1>d, <1>e DEF DrainEnd, routeVars
<1>10. ASSUME NEW t \in Tasks, QueueDelete(t) PROVE RouteBound' /\ ReceiverAlone'
  <2>1. ReceptionKept
    BY <1>10, <1>b DEF QueueDelete, ReceptionKept, Receiving, pipeVars, taskVars
  <2> QED BY <1>10, <2>1, <1>d, <1>e DEF QueueDelete, routeVars
<1>11. ASSUME NEW t \in Tasks, DeletePipeDone(t) PROVE RouteBound' /\ ReceiverAlone'
  <2> PICK p \in PipeIds : p = pid[t]  BY <1>11, <1>c DEF DeletePipeDone, InTransition
  <2>1. PipeTbl'[ToIndex(p)].PipeId = UNDEFINED
    BY <1>11, <1>b, IdKinds DEF DeletePipeDone, PipeDesc
  <2>2. ReceptionKept
    BY <1>11, <2>1, <1>b, IdKinds DEF DeletePipeDone, ReceptionKept, Receiving
  <2> QED BY <1>11, <2>2, <1>d, <1>e DEF DeletePipeDone, routeVars
<1>12. ASSUME NEW t \in Tasks, NEW a \in Apps, CleanUpApp(t, a) PROVE RouteBound' /\ ReceiverAlone'
  <2>1. ReceptionKept
    BY <1>12, <1>b DEF CleanUpApp, ReceptionKept, Receiving, pipeVars, taskVars
  <2> QED BY <1>12, <2>1, <1>d, <1>e DEF CleanUpApp, routeVars
<1>13. ASSUME NEW t \in Tasks, ZeroCopyReleaseAppId(t) PROVE RouteBound' /\ ReceiverAlone'
  <2>1. ReceptionKept
    BY <1>13, <1>b DEF ZeroCopyReleaseAppId, ReceptionKept, Receiving, pipeVars, taskVars
  <2> QED BY <1>13, <2>1, <1>d, <1>e DEF ZeroCopyReleaseAppId, routeVars
<1>14. ASSUME NEW t \in Tasks, NEW p \in PipeIds, NEW m \in MsgIds, NEW lim \in MsgLims, SubscribeFull(t, p, m, lim) PROVE RouteBound' /\ ReceiverAlone'
  <2>1. ReceptionKept
    BY <1>14 DEF SubscribeFull, ReceptionKept, Receiving, pipeVars, taskVars
  <2>2. /\ Dests' = [Dests EXCEPT ![m] = Dests[m] \cup {p}]
        /\ p \notin Dests[m] /\ Cardinality(Dests[m]) < MaxDestPerPkt
    BY <1>14 DEF SubscribeFull
  <2>3. IsFiniteSet(Dests[m])
    <3>1. IsFiniteSet(PipeIds)  BY PipesFinite
    <3>2. Dests[m] \in SUBSET PipeIds  BY <1>b
    <3> QED BY <3>1, <3>2, FS_Subset
  <2>4. Cardinality(Dests[m] \cup {p}) = Cardinality(Dests[m]) + 1  BY <2>2, <2>3, Gain
  <2>5. Cardinality(Dests[m]) \in Nat  BY <2>3, FS_CardinalityType
  <2>6. Cardinality(Dests'[m]) <= MaxDestPerPkt
    BY <2>2, <2>4, <2>5, <1>b, SizeAssumption
  <2>7. RouteBound'  BY <2>2, <2>6, <1>a, <1>b DEF RouteBound
  <2> QED BY <2>1, <2>7, <1>d
<1>15. ASSUME NEW t \in Tasks, NEW p \in PipeIds, NEW m \in MsgIds, SubscribeNoBlock(t, p, m) PROVE RouteBound' /\ ReceiverAlone'
  <2>1. ReceptionKept
    BY <1>15, <1>b DEF SubscribeNoBlock, ReceptionKept, Receiving, pipeVars, taskVars
  <2> QED BY <1>15, <2>1, <1>d, <1>e DEF SubscribeNoBlock, routeVars
<1>16. ASSUME NEW t \in Tasks, NEW p \in PipeIds, NEW m \in MsgIds, UnsubscribeFull(t, p, m) PROVE RouteBound' /\ ReceiverAlone'
  <2>1. ReceptionKept
    BY <1>16 DEF UnsubscribeFull, ReceptionKept, Receiving, pipeVars, taskVars
  <2>2. \A k \in MsgIds : Dests'[k] \subseteq Dests[k]
    BY <1>16 DEF UnsubscribeFull, RemoveDest
  <2> QED BY <2>1, <2>2, <1>d, <1>f
<1>17. ASSUME NEW t \in Tasks, NEW b \in Bufs, AllocateMessageBuffer(t, b) PROVE RouteBound' /\ ReceiverAlone'
  <2>1. ReceptionKept
    BY <1>17, <1>b DEF AllocateMessageBuffer, ReceptionKept, Receiving, pipeVars, taskVars
  <2> QED BY <1>17, <2>1, <1>d, <1>e DEF AllocateMessageBuffer, routeVars
<1>18. ASSUME NEW t \in Tasks, ReleaseMessageBuffer(t) PROVE RouteBound' /\ ReceiverAlone'
  <2>1. ReceptionKept
    BY <1>18, <1>b DEF ReleaseMessageBuffer, ReceptionKept, Receiving, pipeVars, taskVars
  <2> QED BY <1>18, <2>1, <1>d, <1>e DEF ReleaseMessageBuffer, routeVars
<1>19. ASSUME NEW t \in Tasks, NEW m \in MsgIds, FindDestinations(t, m) PROVE RouteBound' /\ ReceiverAlone'
  <2>1. \A s \in Slots : PipeTbl'[s] \in {PipeTbl[s], CountPipe(PipeTbl[s])} /\ PipeTbl[s] \in PipeDesc
    BY <1>19, <1>b DEF FindDestinations
  <2>2. \A s \in Slots : PipeTbl'[s].PipeId = PipeTbl[s].PipeId /\ PipeTbl'[s].LastBuffer = PipeTbl[s].LastBuffer
    BY <2>1, SameIds
  <2>3. ReceptionKept
    BY <1>19, <2>2, <1>b DEF FindDestinations, ReceptionKept, Receiving
  <2> QED BY <1>19, <2>3, <1>d, <1>e DEF FindDestinations
<1>20. ASSUME NEW t \in Tasks, NEW p \in PipeIds, QueuePut(t, p) PROVE RouteBound' /\ ReceiverAlone'
  <2>1. ReceptionKept
    BY <1>20, <1>b DEF QueuePut, ReceptionKept, Receiving, pipeVars, taskVars
  <2> QED BY <1>20, <2>1, <1>d, <1>e DEF QueuePut, routeVars
<1>21. ASSUME NEW t \in Tasks, NEW p \in PipeIds, QueuePutFail(t, p) PROVE RouteBound' /\ ReceiverAlone'
  <2>1. ReceptionKept
    BY <1>21, <1>b DEF QueuePutFail, ReceptionKept, Receiving, pipeVars, taskVars
  <2> QED BY <1>21, <2>1, <1>d, <1>e DEF QueuePutFail, routeVars
<1>22. ASSUME NEW t \in Tasks, UndoPut(t) PROVE RouteBound' /\ ReceiverAlone'
  <2> PICK p : p = pid[t]  OBVIOUS
  <2>1. p \in PipeIds /\ ToIndex(p) \in Slots
    BY <1>22, <1>a, IdKinds DEF UndoPut, CallLocals, Sending, TypeOK
  <2>2. \A s \in Slots : PipeTbl'[s].PipeId = PipeTbl[s].PipeId /\ PipeTbl'[s].LastBuffer = PipeTbl[s].LastBuffer
    BY <1>22, <2>1, <1>b DEF UndoPut, UncountPipe, PipeDesc
  <2>3. ReceptionKept
    BY <1>22, <2>2, <1>b DEF UndoPut, ReceptionKept, Receiving
  <2> QED BY <1>22, <2>3, <1>d, <1>e DEF UndoPut
<1>23. ASSUME NEW t \in Tasks, TransmitDone(t) PROVE RouteBound' /\ ReceiverAlone'
  <2>1. ReceptionKept
    BY <1>23, <1>b DEF TransmitDone, ReceptionKept, Receiving, pipeVars, taskVars
  <2> QED BY <1>23, <2>1, <1>d, <1>e DEF TransmitDone, routeVars
<1>24. ASSUME NEW t \in Tasks, NEW p \in PipeIds, ReceiveBuffer(t, p) PROVE RouteBound' /\ ReceiverAlone'
  <2>1. /\ pid' = [pid EXCEPT ![t] = p] /\ pc' = [pc EXCEPT ![t] = "get"]
        /\ PipeTbl'[ToIndex(p)].LastBuffer = NoBuf
        /\ \A s \in Slots \ {ToIndex(p)} : PipeTbl'[s] = PipeTbl[s]
        /\ PipeTbl'[ToIndex(p)].PipeId = PipeTbl[ToIndex(p)].PipeId
        /\ SoleReceiver(p) /\ Dests' = Dests
    BY <1>24, <1>b, IdKinds DEF ReceiveBuffer, PipeDesc, routeVars
  <2>2. ASSUME NEW v \in Tasks, Receiving(v)' PROVE IsMatch(pid[v])' => PipeTbl'[ToIndex(pid'[v])].LastBuffer = NoBuf
    <3>1. IsMatch(pid[v])' <=> PipeTbl'[ToIndex(pid'[v])].PipeId = pid'[v]  BY DEF IsMatch, ToIndex
    <3>2. CASE v = t  BY <2>1, <3>2, <1>b
    <3>3. CASE v # t
      <4>1. Receiving(v) /\ pid'[v] = pid[v] /\ ToIndex(pid[v]) \in Slots
        BY <2>1, <2>2, <3>3, <1>b, <1>c DEF Receiving
      <4> QED BY <2>1, <3>1, <4>1, <1>a DEF ReceiverAlone, IsMatch
    <3> QED BY <3>2, <3>3
  <2>3. ASSUME NEW v \in Tasks, NEW u \in Tasks \ {v}, Receiving(v)', Receiving(u)' PROVE pid'[u] # pid'[v]
    BY <2>1, <2>3, <1>a, <1>b DEF Receiving, ReceiverAlone, SoleReceiver
  <2>4. \A v \in Tasks : ToIndex(pid[v])' = ToIndex(pid'[v])  BY DEF ToIndex
  <2> QED BY <2>1, <2>2, <2>3, <2>4, <1>e DEF ReceiverAlone
<1>25. ASSUME NEW t \in Tasks, QueueGet(t) PROVE RouteBound' /\ ReceiverAlone'
  <2>1. ReceptionKept
    BY <1>25, <1>b DEF QueueGet, ReceptionKept, Receiving, pipeVars, taskVars
  <2> QED BY <1>25, <2>1, <1>d, <1>e DEF QueueGet, routeVars
<1>26. ASSUME NEW t \in Tasks, QueueGetFail(t) PROVE RouteBound' /\ ReceiverAlone'
  <2>1. ReceptionKept
    BY <1>26, <1>b DEF QueueGetFail, ReceptionKept, Receiving, pipeVars, taskVars
  <2> QED BY <1>26, <2>1, <1>d, <1>e DEF QueueGetFail, routeVars
<1>27. ASSUME NEW t \in Tasks, ExportReference(t) PROVE RouteBound' /\ ReceiverAlone'
  <2> PICK p \in PipeIds : p = pid[t]  BY <1>27, <1>c DEF ExportReference, Receiving
  <2>1. /\ \A u \in Tasks : Receiving(u)' => Receiving(u) /\ pid'[u] = pid[u] /\ pid[u] # p
        /\ Dests' = Dests
    BY <1>27, <1>a, <1>b DEF ExportReference, ReceiverAlone, Receiving
  <2>2. \A s \in Slots \ {ToIndex(p)} : PipeTbl'[s] = PipeTbl[s]
    BY <1>27, <1>b DEF ExportReference
  <2>3. PipeTbl'[ToIndex(p)].PipeId = PipeTbl[ToIndex(p)].PipeId
    BY <1>27, <1>b, IdKinds DEF ExportReference, UncountPipe, PipeDesc
  <2>4. PipeTbl[ToIndex(p)].PipeId = p \/ PipeTbl' = PipeTbl
    BY <1>27 DEF ExportReference, IsMatch
  <2>5. ASSUME NEW v \in Tasks, Receiving(v)' PROVE IsMatch(pid[v])' => PipeTbl'[ToIndex(pid'[v])].LastBuffer = NoBuf
    <3>1. IsMatch(pid[v])' <=> PipeTbl'[ToIndex(pid'[v])].PipeId = pid'[v]  BY DEF IsMatch, ToIndex
    <3>2. Receiving(v) /\ pid'[v] = pid[v] /\ pid[v] # p /\ ToIndex(pid[v]) \in Slots
      BY <2>1, <2>5, <1>c
    <3>3. IsMatch(pid[v]) => PipeTbl[ToIndex(pid[v])].LastBuffer = NoBuf  BY <3>2, <1>a DEF ReceiverAlone
    <3> QED BY <2>2, <2>3, <2>4, <3>1, <3>2, <3>3 DEF IsMatch
  <2>6. \A v \in Tasks : \A u \in Tasks \ {v} : Receiving(v)' /\ Receiving(u)' => pid'[u] # pid'[v]
    BY <2>1, <1>a DEF ReceiverAlone
  <2>7. \A v \in Tasks : ToIndex(pid[v])' = ToIndex(pid'[v])  BY DEF ToIndex
  <2> QED BY <2>1, <2>5, <2>6, <2>7, <1>e DEF ReceiverAlone
<1>28. ASSUME NEW m \in MsgIds, NEW p \in PipeIds, NEW f \in BOOLEAN, SetRouteActive(m, p, f) PROVE RouteBound' /\ ReceiverAlone'
  <2>1. ReceptionKept
    BY <1>28 DEF SetRouteActive, ReceptionKept, Receiving, pipeVars, taskVars
  <2> QED BY <1>28, <2>1, <1>d, <1>e DEF SetRouteActive, routeVars
<1>29. CASE UNCHANGED vars
  <2>1. ReceptionKept
    BY <1>29 DEF vars, ReceptionKept, Receiving, pipeVars, taskVars
  <2> QED BY <1>29, <2>1, <1>d, <1>e DEF vars, routeVars
<1> QED
  BY <1>1, <1>2, <1>3, <1>4, <1>5, <1>6, <1>7, <1>8, <1>9, <1>10, <1>11,
     <1>12, <1>13, <1>14, <1>15, <1>16, <1>17, <1>18, <1>19, <1>20, <1>21,
     <1>22, <1>23, <1>24, <1>25, <1>26, <1>27, <1>28, <1>29 DEF Next, Call,
     Continue, Wait

(* An entry is written and holds the same buffer as before.                *)
LEMMA EntryQuiet ==
  ASSUME TypeOK, NEW p \in PipeIds, NEW d \in PipeDesc, PipeTbl' = [PipeTbl EXCEPT ![ToIndex(p)] = d],
         Held(ToIndex(p)) = IF d.PipeId \in PipeIds THEN d.LastBuffer ELSE NoBuf
  PROVE  \A c \in Bufs : Exported(c)' = Exported(c)
<1> DEFINE s == ToIndex(p)
<1>1. s \in Slots /\ PipeTbl'[s] = d /\ \A r \in Slots \ {s} : Held(r)' = Held(r)
  BY EntryUpdated
<1>2. Held(s)' = Held(s)  BY <1>1 DEF Held
<1> HIDE DEF s
<1> QED BY <1>1, <1>2, ExportsOf

(* Every step keeps the account of references.                             *)
LEMMA CountStep == Inv3 /\ [Next]_vars => Counts'
<1> SUFFICES ASSUME Inv3, [Next]_vars PROVE Counts'  OBVIOUS
<1>a. TypeOK /\ CallLocals /\ SlotOwned  BY DEF Inv3, Inv2, Inv1
<1>b. /\ PipeTbl \in [Slots -> PipeDesc] /\ pc \in [Tasks -> Locations]
      /\ \A p \in PipeIds : PipeTbl[ToIndex(p)] \in PipeDesc
  BY <1>a, IdKinds DEF TypeOK
<1>c. \A t \in Tasks : InTransition(t) \/ Receiving(t) => pid[t] \in PipeIds /\ ToIndex(pid[t]) \in Slots
  BY <1>a, IdKinds DEF CallLocals
<1>d. ASSUME PipeTbl' = PipeTbl PROVE \A c \in Bufs : Exported(c)' = Exported(c)
  BY <1>d DEF Exported
<1>e. ASSUME UNCHANGED <<PipeTbl, Buf, Queue, zc, cur, targets>>, \A u \in Tasks : Sending(u)' => Sending(u)
      PROVE  Counts'
  BY <1>d, <1>e, QuietStep
<1>f. ASSUME NEW p \in PipeIds, NEW d \in PipeDesc, PipeTbl' = [PipeTbl EXCEPT ![ToIndex(p)] = d],
             Held(ToIndex(p)) = IF d.PipeId \in PipeIds THEN d.LastBuffer ELSE NoBuf,
             UNCHANGED <<Buf, Queue, zc, cur, targets>>, \A u \in Tasks : Sending(u)' => Sending(u)
      PROVE  Counts'
  BY <1>a, <1>f, EntryQuiet, QuietStep
<1>g. \A t \in Tasks : InTransition(t) => Held(ToIndex(pid[t])) = NoBuf
  BY <1>a, IdKinds DEF SlotOwned, Held
<1>1. ASSUME NEW t \in Tasks, CreatePipe(t) PROVE Counts'
  <2> PICK p \in PipeIds : p = FindNext  BY <1>1 DEF CreatePipe
  <2>1. PipeTbl[ToIndex(p)].PipeId = UNDEFINED  BY <1>a, NextIsFree DEF TypeOK
  <2>2. Held(ToIndex(p)) = NoBuf  BY <2>1, IdKinds DEF Held
  <2>3. /\ PipeTbl' = [PipeTbl EXCEPT ![ToIndex(p)] = [ClearedDesc EXCEPT !.PipeId = RESERVED]]
        /\ UNCHANGED <<Buf, Queue, zc, cur, targets>>
        /\ \A u \in Tasks : Sending(u)' => Sending(u)
    BY <1>1, <1>b DEF CreatePipe, osVars, Sending
  <2> PICK d \in PipeDesc : d = [ClearedDesc EXCEPT !.PipeId = RESERVED]  BY ClearedType
  <2>4. d.PipeId = RESERVED  BY DEF ClearedDesc
  <2> QED BY <2>2, <2>3, <2>4, <1>f, IdKinds
<1>2. ASSUME NEW t \in Tasks, NEW d \in Depths, CreatePipeDone(t, d) PROVE Counts'
  <2> PICK p \in PipeIds : p = pid[t]  BY <1>2, <1>c DEF CreatePipeDone, InTransition
  <2>1. [PipeTbl[ToIndex(p)] EXCEPT !.PipeId = p, !.AppId = AppOf[t], !.MaxQueueDepth = d] \in PipeDesc
    BY <1>b, DescUpdates, TaskAssumption, SizeAssumption
  <2> PICK e \in PipeDesc : e = [PipeTbl[ToIndex(p)] EXCEPT !.PipeId = p, !.AppId = AppOf[t], !.MaxQueueDepth = d]
    BY <2>1
  <2>2. PipeTbl[ToIndex(p)].LastBuffer = NoBuf /\ Held(ToIndex(p)) = NoBuf
    BY <1>2, <1>a, <1>g DEF CreatePipeDone, SlotOwned, InTransition
  <2>3. e.LastBuffer = NoBuf
    BY <2>2, <1>b DEF PipeDesc
  <2>4. /\ PipeTbl' = [PipeTbl EXCEPT ![ToIndex(p)] = e]
        /\ UNCHANGED <<Buf, Queue, zc, cur, targets>>
        /\ \A u \in Tasks : Sending(u)' => Sending(u)
    BY <1>2, <1>b DEF CreatePipeDone, Sending
  <2> QED BY <2>2, <2>3, <2>4, <1>f
<1>3. ASSUME NEW t \in Tasks, CreatePipeFail(t) PROVE Counts'
  <2> PICK p \in PipeIds : p = pid[t]  BY <1>3, <1>c DEF CreatePipeFail, InTransition
  <2>1. [PipeTbl[ToIndex(p)] EXCEPT !.PipeId = UNDEFINED] \in PipeDesc
    BY <1>b, DescUpdates
  <2> PICK e \in PipeDesc : e = [PipeTbl[ToIndex(p)] EXCEPT !.PipeId = UNDEFINED]
    BY <2>1
  <2>2. Held(ToIndex(p)) = NoBuf  BY <1>3, <1>g DEF CreatePipeFail, InTransition
  <2>3. e.PipeId \notin PipeIds
    BY <1>b, IdKinds DEF PipeDesc
  <2>4. /\ PipeTbl' = [PipeTbl EXCEPT ![ToIndex(p)] = e]
        /\ UNCHANGED <<Buf, Queue, zc, cur, targets>>
        /\ \A u \in Tasks : Sending(u)' => Sending(u)
    BY <1>3, <1>b DEF CreatePipeFail, Sending, osVars
  <2> QED BY <2>2, <2>3, <2>4, <1>f
<1>4. ASSUME NEW t \in Tasks, NEW p \in PipeIds, NEW f \in BOOLEAN, SetPipeOpts(t, p, f) PROVE Counts'
  <2>1. [PipeTbl[ToIndex(p)] EXCEPT !.IgnoreMine = f] \in PipeDesc
    BY <1>b, DescUpdates
  <2> PICK e \in PipeDesc : e = [PipeTbl[ToIndex(p)] EXCEPT !.IgnoreMine = f]
    BY <2>1
  <2>2. e.PipeId = PipeTbl[ToIndex(p)].PipeId /\ e.LastBuffer = PipeTbl[ToIndex(p)].LastBuffer
    BY <1>b DEF PipeDesc
  <2>3. Held(ToIndex(p)) = IF e.PipeId \in PipeIds THEN e.LastBuffer ELSE NoBuf
    BY <2>2 DEF Held
  <2>4. /\ PipeTbl' = [PipeTbl EXCEPT ![ToIndex(p)] = e]
        /\ UNCHANGED <<Buf, Queue, zc, cur, targets>>
        /\ \A u \in Tasks : Sending(u)' => Sending(u)
    BY <1>4, <1>b DEF SetPipeOpts, Sending, osVars, taskVars
  <2> QED BY <2>3, <2>4, <1>f
<1>5. ASSUME NEW t \in Tasks, NEW p \in PipeIds, DeletePipe(t, p) PROVE Counts'
  BY <1>5, DeleteCounts, TaskAssumption DEF DeletePipe, Calls
<1>6. ASSUME NEW t \in Tasks, NEW p \in PipeIds, CleanUpPipe(t, p) PROVE Counts'
  BY <1>6, <1>a, DeleteCounts DEF CleanUpPipe, CallLocals
<1>7. ASSUME NEW t \in Tasks, DrainRelease(t) PROVE Counts'
  <2> PICK b \in Bufs : b = cur[t]  BY <1>7, <1>a DEF DrainRelease, TypeOK
  <2>1. /\ targets[t] = {}
        /\ Buf' = [Buf EXCEPT ![b] = Decr(Buf[b])] /\ cur' = [cur EXCEPT ![t] = NoBuf]
        /\ UNCHANGED <<PipeTbl, Queue, zc, targets>>
        /\ \A u \in Tasks : Sending(u)' => Sending(u) /\ u # t
    BY <1>7, <1>a DEF DrainRelease, Sending, pipeVars, osVars, CallLocals
  <2> QED BY <2>1, CallReleases
<1>8. ASSUME NEW t \in Tasks, DrainGet(t) PROVE Counts'
  <2> PICK p \in PipeIds : p = pid[t]  BY <1>8, <1>c DEF DrainGet, InTransition
  <2> PICK b : b = Head(Queue[p])  OBVIOUS
  <2>1. /\ Queue[p] # <<>> /\ cur[t] = NoBuf /\ targets[t] = {}
        /\ cur' = [cur EXCEPT ![t] = b] /\ Queue' = [Queue EXCEPT ![p] = Tail(Queue[p])]
        /\ UNCHANGED <<PipeTbl, Buf, zc, targets>>
        /\ \A u \in Tasks : Sending(u)' => Sending(u) /\ u # t
    BY <1>8, <1>a DEF DrainGet, Sending, pipeVars, CallLocals
  <2> QED BY <2>1, CallTakes
<1>9. ASSUME NEW t \in Tasks, DrainEnd(t) PROVE Counts'
  BY <1>9, <1>b, <1>e DEF DrainEnd, Sending, pipeVars, osVars, taskVars
<1>10. ASSUME NEW t \in Tasks, QueueDelete(t) PROVE Counts'
  BY <1>10, <1>b, <1>e DEF QueueDelete, Sending, pipeVars, osVars, taskVars
<1>11. ASSUME NEW t \in Tasks, DeletePipeDone(t) PROVE Counts'
  <2> PICK p \in PipeIds : p = pid[t]  BY <1>11, <1>c DEF DeletePipeDone, InTransition
  <2>1. [PipeTbl[ToIndex(p)] EXCEPT !.PipeId = UNDEFINED] \in PipeDesc
    BY <1>b, DescUpdates
  <2> PICK e \in PipeDesc : e = [PipeTbl[ToIndex(p)] EXCEPT !.PipeId = UNDEFINED]
    BY <2>1
  <2>2. Held(ToIndex(p)) = NoBuf  BY <1>11, <1>g DEF DeletePipeDone, InTransition
  <2>3. e.PipeId \notin PipeIds
    BY <1>b, IdKinds DEF PipeDesc
  <2>4. /\ PipeTbl' = [PipeTbl EXCEPT ![ToIndex(p)] = e]
        /\ UNCHANGED <<Buf, Queue, zc, cur, targets>>
        /\ \A u \in Tasks : Sending(u)' => Sending(u)
    BY <1>11, <1>b DEF DeletePipeDone, Sending, osVars
  <2> QED BY <2>2, <2>3, <2>4, <1>f
<1>12. ASSUME NEW t \in Tasks, NEW a \in Apps, CleanUpApp(t, a) PROVE Counts'
  BY <1>12, <1>b, <1>e DEF CleanUpApp, Sending, pipeVars, osVars, taskVars
<1>13. ASSUME NEW t \in Tasks, ZeroCopyReleaseAppId(t) PROVE Counts'
  BY <1>13, CleanUpCounts
<1>14. ASSUME NEW t \in Tasks, NEW p \in PipeIds, NEW m \in MsgIds, NEW lim \in MsgLims, SubscribeFull(t, p, m, lim) PROVE Counts'
  BY <1>14, <1>b, <1>e DEF SubscribeFull, Sending, pipeVars, osVars, taskVars
<1>15. ASSUME NEW t \in Tasks, NEW p \in PipeIds, NEW m \in MsgIds, SubscribeNoBlock(t, p, m) PROVE Counts'
  BY <1>15, <1>b, <1>e DEF SubscribeNoBlock, Sending, pipeVars, osVars, taskVars
<1>16. ASSUME NEW t \in Tasks, NEW p \in PipeIds, NEW m \in MsgIds, UnsubscribeFull(t, p, m) PROVE Counts'
  BY <1>16, <1>b, <1>e DEF UnsubscribeFull, Sending, pipeVars, osVars, taskVars
<1>17. ASSUME NEW t \in Tasks, NEW b \in Bufs, AllocateMessageBuffer(t, b) PROVE Counts'
  BY <1>17, AllocateCounts
<1>18. ASSUME NEW t \in Tasks, ReleaseMessageBuffer(t) PROVE Counts'
  BY <1>18, ReleaseCounts
<1>19. ASSUME NEW t \in Tasks, NEW m \in MsgIds, FindDestinations(t, m) PROVE Counts'
  BY <1>19, FindCounts
<1>20. ASSUME NEW t \in Tasks, NEW p \in PipeIds, QueuePut(t, p) PROVE Counts'
  BY <1>20, PutCounts
<1>21. ASSUME NEW t \in Tasks, NEW p \in PipeIds, QueuePutFail(t, p) PROVE Counts'
  BY <1>21, <1>b, <1>e DEF QueuePutFail, Sending, pipeVars, osVars, taskVars
<1>22. ASSUME NEW t \in Tasks, UndoPut(t) PROVE Counts'
  BY <1>22, UndoCounts
<1>23. ASSUME NEW t \in Tasks, TransmitDone(t) PROVE Counts'
  <2> PICK b \in Bufs : b = cur[t]  BY <1>23, <1>a DEF TransmitDone, CallLocals, Sending
  <2>1. /\ targets[t] = {}
        /\ Buf' = [Buf EXCEPT ![b] = Decr(Buf[b])] /\ cur' = [cur EXCEPT ![t] = NoBuf]
        /\ UNCHANGED <<PipeTbl, Queue, zc, targets>>
        /\ \A u \in Tasks : Sending(u)' => Sending(u) /\ u # t
    BY <1>23, <1>b DEF TransmitDone, Sending, pipeVars, osVars
  <2> QED BY <2>1, CallReleases
<1>24. ASSUME NEW t \in Tasks, NEW p \in PipeIds, ReceiveBuffer(t, p) PROVE Counts'
  BY <1>24, ReceiveCounts
<1>25. ASSUME NEW t \in Tasks, QueueGet(t) PROVE Counts'
  <2> PICK p \in PipeIds : p = pid[t]  BY <1>25, <1>c DEF QueueGet, Receiving
  <2> PICK b : b = Head(Queue[p])  OBVIOUS
  <2>1. /\ Queue[p] # <<>> /\ cur[t] = NoBuf /\ targets[t] = {}
        /\ cur' = [cur EXCEPT ![t] = b] /\ Queue' = [Queue EXCEPT ![p] = Tail(Queue[p])]
        /\ UNCHANGED <<PipeTbl, Buf, zc, targets>>
        /\ \A u \in Tasks : Sending(u)' => Sending(u) /\ u # t
    BY <1>25, <1>a, <1>b DEF QueueGet, Sending, pipeVars, CallLocals
  <2> QED BY <2>1, CallTakes
<1>26. ASSUME NEW t \in Tasks, QueueGetFail(t) PROVE Counts'
  BY <1>26, <1>b, <1>e DEF QueueGetFail, Sending, pipeVars, osVars, taskVars
<1>27. ASSUME NEW t \in Tasks, ExportReference(t) PROVE Counts'
  BY <1>27, ExportCounts
<1>28. ASSUME NEW m \in MsgIds, NEW p \in PipeIds, NEW f \in BOOLEAN, SetRouteActive(m, p, f) PROVE Counts'
  BY <1>28, <1>b, <1>e DEF SetRouteActive, Sending, pipeVars, osVars, taskVars
<1>29. CASE UNCHANGED vars
  BY <1>29, <1>e DEF vars, Sending, pipeVars, osVars, taskVars
<1> QED
  BY <1>1, <1>2, <1>3, <1>4, <1>5, <1>6, <1>7, <1>8, <1>9, <1>10, <1>11,
     <1>12, <1>13, <1>14, <1>15, <1>16, <1>17, <1>18, <1>19, <1>20, <1>21,
     <1>22, <1>23, <1>24, <1>25, <1>26, <1>27, <1>28, <1>29 DEF Next, Call,
     Continue, Wait

(* Nobody holds a buffer at the start.                                     *)
LEMMA CountInit == Init => Inv3
<1> SUFFICES ASSUME Init PROVE Inv3  OBVIOUS
<1>1. Inv2
  <2>1. SlotOwned /\ NoDanglingDest
    BY DEF Init, SlotOwned, InTransition, NoDanglingDest
  <2> QED BY <2>1, TypeInit DEF Inv2
<1>2. ReceiverAlone /\ SenderAlone /\ NotYetQueued /\ NoDuplicates
  BY DEF Init, ReceiverAlone, Receiving, SenderAlone, NotYetQueued, NoDuplicates, Sending
<1>3. UseBound /\ UnsentOwned
  BY SizeAssumption DEF Init, UseBound, UnsentOwned, FreeBuf
<1>4. Cardinality({}) = 0  BY FS_EmptySet
<1>5. RouteBound
  BY <1>4, SizeAssumption DEF Init, RouteBound
<1>6. UseCountExact
  <2> SUFFICES ASSUME NEW b \in Bufs PROVE Buf[b].UseCount = References(b)
    BY DEF UseCountExact
  <2>1. InCall(b) = {} /\ Unsent(b) = {}  BY BufAssumption DEF Init, InCall, Unsent
  <2>2. InFlight(b) = {}
    <3>1. \A x \in Tasks \X PipeIds : x[1] \in Tasks  OBVIOUS
    <3> QED BY <3>1, BufAssumption DEF Init, InFlight
  <2>3. Queued(b) = {}  BY DEF Init, Queued
  <2>4. Exported(b) = {}  BY IdKinds DEF Init, Exported, ClearedDesc
  <2> QED BY <1>4, <2>1, <2>2, <2>3, <2>4 DEF Init, FreeBuf, References
<1> QED BY <1>1, <1>2, <1>3, <1>5, <1>6 DEF Inv3, Accounting

(* The invariant of references is inductive.                               *)
LEMMA Inv3Step == Inv3 /\ [Next]_vars => Inv3'
<1> SUFFICES ASSUME Inv3, [Next]_vars PROVE Inv3'  OBVIOUS
<1>1. Inv2'  BY TypeStep, OwnedStep DEF Inv3, Inv2
<1>2. RouteBound' /\ ReceiverAlone'  BY ReceptionStep
<1>3. Counts'  BY CountStep
<1> QED BY <1>1, <1>2, <1>3 DEF Inv3, Counts, Accounting

(* The use count of every buffer is the number of references to it that    *)
(* exist in calls, in queues and in pipe descriptors: CFE_SB_IncrBufUseCnt *)
(* and CFE_SB_DecrBufUseCnt lose and invent none, although the queues are  *)
(* written and read without the lock, so that a buffer goes back to the    *)
(* pool with its last holder and not before.                               *)
THEOREM UseCountsHold == Spec => []UseCountExact
<1>1. Inv3 => UseCountExact  BY DEF Inv3, Accounting
<1> QED BY CountInit, Inv3Step, <1>1, PTL DEF Spec

(* No queue holds a buffer twice, so that one reception takes one          *)
(* reference and the drain of a pipe gives each of them back once.         *)
THEOREM QueuesWithoutDuplicates == Spec => []NoDuplicates
<1>1. Inv3 => NoDuplicates  BY DEF Inv3, Accounting
<1> QED BY CountInit, Inv3Step, <1>1, PTL DEF Spec

-----------------------------------------------------------------------------
(* Reserved entries, queues and the messages on a pipe.                    *)
Inv4 == Inv2 /\ Transitions /\ Depth

\* Who is in transition stays so, unless with its queue deleted.
HoldersKept ==
  /\ \A s \in Slots : PipeTbl'[s].PipeId = PipeTbl[s].PipeId
  /\ \A t \in Tasks : InTransition(t) =>
       /\ InTransition(t)' /\ pid'[t] = pid[t]
       /\ pc[t] \in {"drain", "qdelete"} => pc'[t] \in {"drain", "qdelete"} \/ QueueDepth'[pid[t]] = 0
  /\ \A p \in PipeIds : QueueDepth'[p] \in {0, QueueDepth[p]}

(* Such a step leaves entries and queues with their holders.               *)
LEMMA HoldersFrame ==
  ASSUME Inv4, HoldersKept
  PROVE  Transitions'
<1>1. \A t \in Tasks : InTransition(t) => pid[t] \in PipeIds
  BY DEF Inv4, Inv2, Inv1, CallLocals
<1>2. ReservedHeld'
  <2>1. ASSUME NEW s \in Slots, PipeTbl'[s].PipeId = RESERVED
        PROVE  \E t \in Tasks : InTransition(t)' /\ ToIndex(pid'[t]) = s
    <3>1. PICK t \in Tasks : InTransition(t) /\ ToIndex(pid[t]) = s
      BY <2>1 DEF HoldersKept, Inv4, Transitions, ReservedHeld
    <3> QED BY <3>1 DEF HoldersKept
  <2>2. \A t \in Tasks : ToIndex(pid[t])' = ToIndex(pid'[t])  BY DEF ToIndex
  <2> QED BY <2>1, <2>2 DEF ReservedHeld
<1>3. QueueOwned'
  <2>1. ASSUME NEW p \in PipeIds, QueueDepth'[p] > 0
        PROVE  IsMatch(p)' \/ \E t \in Tasks : pid'[t] = p /\ pc'[t] \in {"drain", "qdelete"}
    <3>1. QueueDepth[p] > 0 /\ ToIndex(p) \in Slots  BY <2>1, IdKinds DEF HoldersKept
    <3>2. CASE IsMatch(p)  BY <3>1, <3>2 DEF IsMatch, HoldersKept
    <3>3. CASE ~IsMatch(p)
      <4>1. PICK t \in Tasks : pid[t] = p /\ pc[t] \in {"drain", "qdelete"}
        BY <3>1, <3>3 DEF Inv4, Transitions, QueueOwned
      <4> QED BY <2>1, <4>1 DEF HoldersKept, InTransition
    <3> QED BY <3>2, <3>3
  <2> QED BY <2>1 DEF QueueOwned
<1> QED BY <1>2, <1>3 DEF Transitions

(* A reserved entry is always held, and so is an OSAL queue.               *)
LEMMA HolderStep == Inv4 /\ [Next]_vars => Transitions'
<1> SUFFICES ASSUME Inv4, [Next]_vars PROVE Transitions'  OBVIOUS
<1>a. TypeOK /\ CallLocals /\ SlotOwned /\ ReservedHeld /\ QueueOwned
  BY DEF Inv4, Inv2, Inv1, Transitions
<1>b. /\ PipeTbl \in [Slots -> PipeDesc] /\ pc \in [Tasks -> Locations]
      /\ pid \in [Tasks -> PipeIds \cup {UNDEFINED}] /\ QueueDepth \in [PipeIds -> Nat]
  BY <1>a DEF TypeOK
<1>c. \A t \in Tasks : InTransition(t) => pid[t] \in PipeIds /\ ToIndex(pid[t]) \in Slots
  BY <1>a, IdKinds DEF CallLocals
<1>d. HoldersKept => Transitions'  BY HoldersFrame
<1>e. \A t \in Tasks : ToIndex(pid[t])' = ToIndex(pid'[t])  BY DEF ToIndex
<1>f. ASSUME NEW t \in Tasks, NEW p \in PipeIds, p = pid[t], InTransition(t), pc[t] \notin {"drain", "qdelete"},
             PipeTbl'[ToIndex(p)].PipeId # RESERVED,
             \A s \in Slots \ {ToIndex(p)} : PipeTbl'[s] = PipeTbl[s],
             \A u \in Tasks \ {t} : pid'[u] = pid[u] /\ pc'[u] = pc[u],
             \A q \in PipeIds : QueueDepth'[q] = QueueDepth[q] \/ (q = p /\ PipeTbl'[ToIndex(p)].PipeId = p)
      PROVE  Transitions'
  <2>1. PipeTbl[ToIndex(p)].PipeId = RESERVED  BY <1>a, <1>f DEF SlotOwned
  <2>2. ReservedHeld'
    <3>1. ASSUME NEW s \in Slots, PipeTbl'[s].PipeId = RESERVED
          PROVE  \E u \in Tasks : InTransition(u)' /\ ToIndex(pid'[u]) = s
      <4>1. s # ToIndex(p) /\ PipeTbl[s].PipeId = RESERVED  BY <1>f, <3>1
      <4>2. PICK u \in Tasks : InTransition(u) /\ ToIndex(pid[u]) = s  BY <1>a, <4>1 DEF ReservedHeld
      <4> QED BY <1>f, <4>1, <4>2 DEF InTransition
    <3> QED BY <1>e, <3>1 DEF ReservedHeld
  <2>3. QueueOwned'
    <3>1. ASSUME NEW q \in PipeIds, QueueDepth'[q] > 0
          PROVE  IsMatch(q)' \/ \E u \in Tasks : pid'[u] = q /\ pc'[u] \in {"drain", "qdelete"}
      <4>1. CASE q = p /\ PipeTbl'[ToIndex(p)].PipeId = p  BY <4>1 DEF IsMatch
      <4>2. CASE QueueDepth[q] > 0 /\ IsMatch(q)
        <5>1. ToIndex(q) \in Slots \ {ToIndex(p)}  BY <2>1, <4>2, IdKinds DEF IsMatch
        <5> QED BY <1>f, <4>2, <5>1 DEF IsMatch
      <4>3. CASE QueueDepth[q] > 0 /\ ~IsMatch(q)
        <5>1. PICK u \in Tasks : pid[u] = q /\ pc[u] \in {"drain", "qdelete"}  BY <1>a, <4>3 DEF QueueOwned
        <5> QED BY <1>f, <5>1
      <4> QED BY <1>f, <3>1, <4>1, <4>2, <4>3
    <3> QED BY <3>1 DEF QueueOwned
  <2> QED BY <2>2, <2>3 DEF Transitions
<1>g. ASSUME NEW t \in Tasks, NEW p \in PipeIds, ~InTransition(t),
             PipeTbl[ToIndex(p)].PipeId \in {UNDEFINED, p},
             PipeTbl'[ToIndex(p)].PipeId = RESERVED,
             \A s \in Slots \ {ToIndex(p)} : PipeTbl'[s] = PipeTbl[s],
             pid'[t] = p, InTransition(t)',
             PipeTbl[ToIndex(p)].PipeId = p => pc'[t] = "drain",
             \A u \in Tasks \ {t} : pid'[u] = pid[u] /\ pc'[u] = pc[u],
             QueueDepth' = QueueDepth
      PROVE  Transitions'
  <2>1. ReservedHeld'
    <3>1. ASSUME NEW s \in Slots, PipeTbl'[s].PipeId = RESERVED
          PROVE  \E u \in Tasks : InTransition(u)' /\ ToIndex(pid'[u]) = s
      <4>1. CASE s = ToIndex(p)  BY <1>g, <4>1
      <4>2. CASE s # ToIndex(p)
        <5>1. PICK u \in Tasks : InTransition(u) /\ ToIndex(pid[u]) = s  BY <1>a, <1>g, <3>1, <4>2 DEF ReservedHeld
        <5> QED BY <1>g, <5>1 DEF InTransition
      <4> QED BY <4>1, <4>2
    <3> QED BY <1>e, <3>1 DEF ReservedHeld
  <2>2. QueueOwned'
    <3>1. ASSUME NEW q \in PipeIds, QueueDepth'[q] > 0
          PROVE  IsMatch(q)' \/ \E u \in Tasks : pid'[u] = q /\ pc'[u] \in {"drain", "qdelete"}
      <4>1. CASE IsMatch(q) /\ ToIndex(q) = ToIndex(p)
        <5>1. q = p /\ pc'[t] = "drain"  BY <1>g, <4>1, IdKinds DEF IsMatch
        <5> QED BY <1>g, <5>1
      <4>2. CASE IsMatch(q) /\ ToIndex(q) # ToIndex(p)
        BY <1>g, <4>2, IdKinds DEF IsMatch
      <4>3. CASE ~IsMatch(q)
        <5>1. PICK u \in Tasks : pid[u] = q /\ pc[u] \in {"drain", "qdelete"}  BY <1>a, <1>g, <3>1, <4>3 DEF QueueOwned
        <5> QED BY <1>g, <5>1 DEF InTransition
      <4> QED BY <4>1, <4>2, <4>3
    <3> QED BY <3>1 DEF QueueOwned
  <2> QED BY <2>1, <2>2 DEF Transitions
<1>h. ASSUME NEW t \in Tasks, NEW p \in PipeIds, NEW a, DeletePipeFull(t, p, a), pc[t] \in {"idle", "cleanup"}
      PROVE  Transitions'
  <2>1. /\ PipeTbl'[ToIndex(p)].PipeId = RESERVED /\ PipeTbl[ToIndex(p)].PipeId = p
        /\ \A s \in Slots \ {ToIndex(p)} : PipeTbl'[s] = PipeTbl[s]
    BY <1>h, <1>b, IdKinds DEF DeletePipeFull, IsMatch, PipeDesc
  <2>2. /\ pid'[t] = p /\ pc'[t] = "drain" /\ QueueDepth' = QueueDepth
        /\ \A u \in Tasks \ {t} : pid'[u] = pid[u] /\ pc'[u] = pc[u]
    BY <1>h, <1>b DEF DeletePipeFull, osVars
  <2>3. ~InTransition(t) /\ InTransition(t)'  BY <1>h, <2>2 DEF InTransition
  <2> QED BY <2>1, <2>2, <2>3, <1>g
<1>1. ASSUME NEW t \in Tasks, CreatePipe(t) PROVE Transitions'
  <2> PICK p \in PipeIds : p = FindNext  BY <1>1 DEF CreatePipe
  <2>1. PipeTbl[ToIndex(p)].PipeId = UNDEFINED  BY <1>a, NextIsFree DEF TypeOK
  <2>2. /\ PipeTbl'[ToIndex(p)].PipeId = RESERVED
        /\ \A s \in Slots \ {ToIndex(p)} : PipeTbl'[s] = PipeTbl[s]
    BY <1>1, <1>b, IdKinds DEF CreatePipe, ClearedDesc
  <2>3. /\ pid'[t] = p /\ pc'[t] = "create" /\ QueueDepth' = QueueDepth
        /\ \A u \in Tasks \ {t} : pid'[u] = pid[u] /\ pc'[u] = pc[u]
    BY <1>1, <1>b DEF CreatePipe, osVars
  <2>4. ~InTransition(t) /\ InTransition(t)'  BY <1>1, <2>3 DEF InTransition, CreatePipe, Calls
  <2> QED BY <2>1, <2>2, <2>3, <2>4, <1>g, IdKinds
<1>2. ASSUME NEW t \in Tasks, NEW d \in Depths, CreatePipeDone(t, d) PROVE Transitions'
  <2> PICK p \in PipeIds : p = pid[t]  BY <1>2, <1>c DEF CreatePipeDone, InTransition
  <2>1. /\ PipeTbl'[ToIndex(p)].PipeId = p
        /\ \A s \in Slots \ {ToIndex(p)} : PipeTbl'[s] = PipeTbl[s]
    BY <1>2, <1>b, IdKinds DEF CreatePipeDone, PipeDesc
  <2>2. /\ InTransition(t) /\ pc[t] \notin {"drain", "qdelete"}
        /\ \A u \in Tasks \ {t} : pid'[u] = pid[u] /\ pc'[u] = pc[u]
        /\ \A q \in PipeIds : QueueDepth'[q] = QueueDepth[q] \/ q = p
    BY <1>2, <1>b DEF CreatePipeDone, InTransition
  <2> QED BY <2>1, <2>2, <1>f, IdKinds
<1>3. ASSUME NEW t \in Tasks, CreatePipeFail(t) PROVE Transitions'
  <2> PICK p \in PipeIds : p = pid[t]  BY <1>3, <1>c DEF CreatePipeFail, InTransition
  <2>1. /\ PipeTbl'[ToIndex(p)].PipeId # RESERVED
        /\ \A s \in Slots \ {ToIndex(p)} : PipeTbl'[s] = PipeTbl[s]
    BY <1>3, <1>b, IdKinds DEF CreatePipeFail, PipeDesc
  <2>2. /\ InTransition(t) /\ pc[t] \notin {"drain", "qdelete"}
        /\ \A u \in Tasks \ {t} : pid'[u] = pid[u] /\ pc'[u] = pc[u]
        /\ QueueDepth' = QueueDepth
    BY <1>3, <1>b DEF CreatePipeFail, InTransition, osVars
  <2> QED BY <2>1, <2>2, <1>f
<1>4. ASSUME NEW t \in Tasks, NEW p \in PipeIds, NEW f \in BOOLEAN, SetPipeOpts(t, p, f) PROVE Transitions'
  <2>1. HoldersKept
    BY <1>4, <1>b DEF SetPipeOpts, HoldersKept, InTransition, taskVars, osVars, PipeDesc
  <2> QED BY <2>1, <1>d
<1>5. ASSUME NEW t \in Tasks, NEW p \in PipeIds, DeletePipe(t, p) PROVE Transitions'
  BY <1>5, <1>h DEF DeletePipe, Calls
<1>6. ASSUME NEW t \in Tasks, NEW p \in PipeIds, CleanUpPipe(t, p) PROVE Transitions'
  BY <1>6, <1>h DEF CleanUpPipe
<1>7. ASSUME NEW t \in Tasks, DrainRelease(t) PROVE Transitions'
  <2>1. HoldersKept
    BY <1>7, <1>b DEF DrainRelease, HoldersKept, InTransition, pipeVars, taskVars, osVars, Calls
  <2> QED BY <2>1, <1>d
<1>8. ASSUME NEW t \in Tasks, DrainGet(t) PROVE Transitions'
  <2>1. HoldersKept
    BY <1>8, <1>b DEF DrainGet, HoldersKept, InTransition, pipeVars, taskVars, osVars, Calls
  <2> QED BY <2>1, <1>d
<1>9. ASSUME NEW t \in Tasks, DrainEnd(t) PROVE Transitions'
  <2>1. HoldersKept
    BY <1>9, <1>b DEF DrainEnd, HoldersKept, InTransition, pipeVars, taskVars, osVars, Calls
  <2> QED BY <2>1, <1>d
<1>10. ASSUME NEW t \in Tasks, QueueDelete(t) PROVE Transitions'
  <2>1. HoldersKept
    BY <1>10, <1>b, <1>c DEF QueueDelete, HoldersKept, InTransition, pipeVars
  <2> QED BY <2>1, <1>d
<1>11. ASSUME NEW t \in Tasks, DeletePipeDone(t) PROVE Transitions'
  <2> PICK p \in PipeIds : p = pid[t]  BY <1>11, <1>c DEF DeletePipeDone, InTransition
  <2>1. /\ PipeTbl'[ToIndex(p)].PipeId # RESERVED
        /\ \A s \in Slots \ {ToIndex(p)} : PipeTbl'[s] = PipeTbl[s]
    BY <1>11, <1>b, IdKinds DEF DeletePipeDone, PipeDesc
  <2>2. /\ InTransition(t) /\ pc[t] \notin {"drain", "qdelete"}
        /\ \A u \in Tasks \ {t} : pid'[u] = pid[u] /\ pc'[u] = pc[u]
        /\ QueueDepth' = QueueDepth
    BY <1>11, <1>b DEF DeletePipeDone, InTransition, osVars
  <2> QED BY <2>1, <2>2, <1>f
<1>12. ASSUME NEW t \in Tasks, NEW a \in Apps, CleanUpApp(t, a) PROVE Transitions'
  <2>1. HoldersKept
    BY <1>12, <1>b DEF CleanUpApp, HoldersKept, InTransition, pipeVars, taskVars, osVars, Calls
  <2> QED BY <2>1, <1>d
<1>13. ASSUME NEW t \in Tasks, ZeroCopyReleaseAppId(t) PROVE Transitions'
  <2>1. HoldersKept
    BY <1>13, <1>b DEF ZeroCopyReleaseAppId, HoldersKept, InTransition, pipeVars, taskVars, osVars, Calls
  <2> QED BY <2>1, <1>d
<1>14. ASSUME NEW t \in Tasks, NEW p \in PipeIds, NEW m \in MsgIds, NEW lim \in MsgLims, SubscribeFull(t, p, m, lim) PROVE Transitions'
  <2>1. HoldersKept
    BY <1>14, <1>b DEF SubscribeFull, HoldersKept, InTransition, pipeVars, taskVars, osVars, Calls
  <2> QED BY <2>1, <1>d
<1>15. ASSUME NEW t \in Tasks, NEW p \in PipeIds, NEW m \in MsgIds, SubscribeNoBlock(t, p, m) PROVE Transitions'
  <2>1. HoldersKept
    BY <1>15, <1>b DEF SubscribeNoBlock, HoldersKept, InTransition, pipeVars, taskVars, osVars, Calls
  <2> QED BY <2>1, <1>d
<1>16. ASSUME NEW t \in Tasks, NEW p \in PipeIds, NEW m \in MsgIds, UnsubscribeFull(t, p, m) PROVE Transitions'
  <2>1. HoldersKept
    BY <1>16, <1>b DEF UnsubscribeFull, HoldersKept, InTransition, pipeVars, taskVars, osVars, Calls
  <2> QED BY <2>1, <1>d
<1>17. ASSUME NEW t \in Tasks, NEW b \in Bufs, AllocateMessageBuffer(t, b) PROVE Transitions'
  <2>1. HoldersKept
    BY <1>17, <1>b DEF AllocateMessageBuffer, HoldersKept, InTransition, pipeVars, taskVars, osVars, Calls
  <2> QED BY <2>1, <1>d
<1>18. ASSUME NEW t \in Tasks, ReleaseMessageBuffer(t) PROVE Transitions'
  <2>1. HoldersKept
    BY <1>18, <1>b DEF ReleaseMessageBuffer, HoldersKept, InTransition, pipeVars, taskVars, osVars, Calls
  <2> QED BY <2>1, <1>d
<1>19. ASSUME NEW t \in Tasks, NEW m \in MsgIds, FindDestinations(t, m) PROVE Transitions'
  <2>1. \A s \in Slots : PipeTbl'[s] \in {PipeTbl[s], CountPipe(PipeTbl[s])} /\ PipeTbl[s] \in PipeDesc
    BY <1>19, <1>b DEF FindDestinations
  <2>2. \A s \in Slots : PipeTbl'[s].PipeId = PipeTbl[s].PipeId
    BY <2>1, SameIds
  <2>3. HoldersKept
    BY <1>19, <2>2, <1>b DEF FindDestinations, HoldersKept, InTransition, osVars, Calls
  <2> QED BY <2>3, <1>d
<1>20. ASSUME NEW t \in Tasks, NEW p \in PipeIds, QueuePut(t, p) PROVE Transitions'
  <2>1. HoldersKept
    BY <1>20, <1>b DEF QueuePut, HoldersKept, InTransition, pipeVars, taskVars, osVars, Calls
  <2> QED BY <2>1, <1>d
<1>21. ASSUME NEW t \in Tasks, NEW p \in PipeIds, QueuePutFail(t, p) PROVE Transitions'
  <2>1. HoldersKept
    BY <1>21, <1>b DEF QueuePutFail, HoldersKept, InTransition, pipeVars, taskVars, osVars, Calls
  <2> QED BY <2>1, <1>d
<1>22. ASSUME NEW t \in Tasks, UndoPut(t) PROVE Transitions'
  <2> PICK p : p = pid[t]  OBVIOUS
  <2>1. p \in PipeIds /\ ToIndex(p) \in Slots
    BY <1>22, <1>a, IdKinds DEF UndoPut, CallLocals, Sending, TypeOK
  <2>2. \A s \in Slots : PipeTbl'[s].PipeId = PipeTbl[s].PipeId
    BY <1>22, <2>1, <1>b DEF UndoPut, UncountPipe, PipeDesc
  <2>3. HoldersKept
    BY <1>22, <2>2, <1>b DEF UndoPut, HoldersKept, InTransition, osVars
  <2> QED BY <2>3, <1>d
<1>23. ASSUME NEW t \in Tasks, TransmitDone(t) PROVE Transitions'
  <2>1. HoldersKept
    BY <1>23, <1>b DEF TransmitDone, HoldersKept, InTransition, pipeVars, taskVars, osVars, Calls
  <2> QED BY <2>1, <1>d
<1>24. ASSUME NEW t \in Tasks, NEW p \in PipeIds, ReceiveBuffer(t, p) PROVE Transitions'
  <2>1. HoldersKept
    BY <1>24, <1>b DEF ReceiveBuffer, HoldersKept, InTransition, osVars, PipeDesc, Calls
  <2> QED BY <2>1, <1>d
<1>25. ASSUME NEW t \in Tasks, QueueGet(t) PROVE Transitions'
  <2>1. HoldersKept
    BY <1>25, <1>b DEF QueueGet, HoldersKept, InTransition, pipeVars, taskVars, osVars, Calls
  <2> QED BY <2>1, <1>d
<1>26. ASSUME NEW t \in Tasks, QueueGetFail(t) PROVE Transitions'
  <2>1. HoldersKept
    BY <1>26, <1>b DEF QueueGetFail, HoldersKept, InTransition, pipeVars, taskVars, osVars, Calls
  <2> QED BY <2>1, <1>d
<1>27. ASSUME NEW t \in Tasks, ExportReference(t) PROVE Transitions'
  <2> PICK p : p = pid[t]  OBVIOUS
  <2>1. p \in PipeIds /\ ToIndex(p) \in Slots
    BY <1>27, <1>a, IdKinds DEF ExportReference, CallLocals, Receiving
  <2>2. \A s \in Slots : PipeTbl'[s].PipeId = PipeTbl[s].PipeId
    <3>1. PipeTbl' = PipeTbl \/ PipeTbl' = [PipeTbl EXCEPT ![ToIndex(p)] = [UncountPipe(p) EXCEPT !.LastBuffer = cur[t]]]
      BY <1>27 DEF ExportReference
    <3>2. [UncountPipe(p) EXCEPT !.LastBuffer = cur[t]].PipeId = PipeTbl[ToIndex(p)].PipeId
      BY <2>1, <1>b DEF UncountPipe, PipeDesc
    <3> QED BY <2>1, <3>1, <3>2, <1>b
  <2>3. HoldersKept
    BY <1>27, <2>2, <1>b DEF ExportReference, HoldersKept, InTransition, osVars
  <2> QED BY <2>3, <1>d
<1>28. ASSUME NEW m \in MsgIds, NEW p \in PipeIds, NEW f \in BOOLEAN, SetRouteActive(m, p, f) PROVE Transitions'
  <2>1. HoldersKept
    BY <1>28 DEF SetRouteActive, HoldersKept, InTransition, pipeVars, taskVars, osVars
  <2> QED BY <2>1, <1>d
<1>29. CASE UNCHANGED vars
  <2>1. HoldersKept
    BY <1>29 DEF vars, HoldersKept, InTransition, pipeVars, taskVars, osVars
  <2> QED BY <2>1, <1>d
<1> QED
  BY <1>1, <1>2, <1>3, <1>4, <1>5, <1>6, <1>7, <1>8, <1>9, <1>10, <1>11,
     <1>12, <1>13, <1>14, <1>15, <1>16, <1>17, <1>18, <1>19, <1>20, <1>21,
     <1>22, <1>23, <1>24, <1>25, <1>26, <1>27, <1>28, <1>29 DEF Next, Call,
     Continue, Wait

\* No reception but of a live pipe begins, no transmission but to live
\* pipes, and nothing is written but where a call announced it.
FreshKept ==
  /\ LastPipeId' = LastPipeId
  /\ \A u \in Tasks : pc'[u] = "create" => pc[u] = "create" /\ pid'[u] = pid[u]
  /\ \A s \in Slots :
       /\ PipeTbl'[s].PipeId \in PipeIds => PipeTbl'[s].PipeId = PipeTbl[s].PipeId
       /\ PipeTbl[s].PipeId = RESERVED => PipeTbl'[s].CurrentQueueDepth = PipeTbl[s].CurrentQueueDepth
  /\ \A p \in PipeIds : Queue'[p] = Queue[p] \/ Queue[p] # <<>> \/ Writing(p) # {}
  /\ \A u \in Tasks : \A p \in targets'[u] : p \in targets[u] \/ IsMatch(p)
  /\ \A u \in Tasks : Receiving(u)' =>
       \/ Receiving(u) /\ pid'[u] = pid[u]
       \/ \E p \in PipeIds : pid'[u] = p /\ IsMatch(p)

(* Such a step leaves the pipe IDs that are still fresh alone.             *)
LEMMA FreshFrame ==
  ASSUME Inv4, FreshKept
  PROVE  FreshUntouched' /\ CreationClean'
<1>a. FreshUntouched /\ CreationClean /\ SlotOwned
  BY DEF Inv4, Inv2, Depth
<1>b. \A u \in Tasks : InTransition(u) => pid[u] \in PipeIds /\ ToIndex(pid[u]) \in Slots
  BY IdKinds DEF Inv4, Inv2, Inv1, CallLocals
<1>1. ASSUME NEW p \in PipeIds, Fresh(p)'
      PROVE  ~IsMatch(p)' /\ Queue'[p] = <<>> /\ Writing(p)' = {} /\ \A u \in Tasks : Receiving(u)' => pid'[u] # p
  <2>1. Fresh(p)  BY <1>1 DEF Fresh, FreshKept
  <2>2. ~IsMatch(p) /\ Queue[p] = <<>> /\ Writing(p) = {} /\ \A u \in Tasks : Receiving(u) => pid[u] # p
    BY <1>a, <2>1 DEF FreshUntouched
  <2>3. ~IsMatch(p)'  BY <2>2, IdKinds DEF IsMatch, FreshKept
  <2>4. Queue'[p] = <<>>  BY <2>2 DEF FreshKept
  <2>5. Writing(p)' = {}
    <3>1. \A u \in Tasks : p \notin targets'[u]  BY <2>2 DEF FreshKept, Writing
    <3> QED BY <3>1 DEF Writing
  <2>6. \A u \in Tasks : Receiving(u)' => pid'[u] # p  BY <2>2 DEF FreshKept
  <2> QED BY <2>3, <2>4, <2>5, <2>6
<1>2. ASSUME NEW u \in Tasks, pc'[u] = "create"
      PROVE  pid'[u] <= LastPipeId' /\ PipeTbl'[ToIndex(pid'[u])].CurrentQueueDepth = 0
  <2>1. pc[u] = "create" /\ pid'[u] = pid[u]  BY <1>2 DEF FreshKept
  <2>2. ToIndex(pid[u]) \in Slots /\ PipeTbl[ToIndex(pid[u])].PipeId = RESERVED
    BY <1>a, <1>b, <2>1 DEF InTransition, SlotOwned
  <2> QED BY <1>a, <2>1, <2>2 DEF FreshKept, CreationClean
<1>3. \A u \in Tasks : ToIndex(pid[u])' = ToIndex(pid'[u])  BY DEF ToIndex
<1>4. FreshUntouched'  BY <1>1 DEF FreshUntouched
<1>5. CreationClean'  BY <1>2, <1>3 DEF CreationClean
<1> QED BY <1>4, <1>5

\* The reported depth of p is exact.
DepthAt(p) ==
  IsMatch(p) => PipeTbl[ToIndex(p)].CurrentQueueDepth =
                  Len(Queue[p]) + Cardinality(Writing(p)) + Cardinality(Reading(p))

\* A live p, its queue, its writers and its readers stay the same.
SamePipe(p) ==
  IsMatch(p)' =>
    /\ IsMatch(p) /\ PipeTbl'[ToIndex(p)].CurrentQueueDepth = PipeTbl[ToIndex(p)].CurrentQueueDepth
    /\ Queue'[p] = Queue[p] /\ Writing(p)' = Writing(p) /\ Reading(p)' = Reading(p)

(* Depths are exact after a step if they are where it changed something.   *)
LEMMA DepthFrame ==
  ASSUME Inv4, \A p \in PipeIds : SamePipe(p) \/ DepthAt(p)'
  PROVE  DepthExact'
<1>1. ASSUME NEW p \in PipeIds, SamePipe(p) PROVE DepthAt(p)'
  BY <1>1 DEF SamePipe, DepthAt, Inv4, Depth, DepthExact
<1>2. \A p \in PipeIds : DepthAt(p)'  BY <1>1
<1> QED BY <1>2 DEF DepthExact, DepthAt

(* Writers and readers are tasks.                                          *)
LEMMA UsersFinite ==
  ASSUME NEW p
  PROVE  /\ IsFiniteSet(Writing(p)) /\ Cardinality(Writing(p)) \in Nat
         /\ IsFiniteSet(Reading(p)) /\ Cardinality(Reading(p)) \in Nat
<1>1. Writing(p) \in SUBSET Tasks /\ Reading(p) \in SUBSET Tasks  BY DEF Writing, Reading
<1>2. IsFiniteSet(Writing(p)) /\ IsFiniteSet(Reading(p))
  BY <1>1, FS_Subset, TaskAssumption
<1> QED BY <1>2, FS_CardinalityType

\* No message is announced, put on a pipe, taken from one or accounted
\* for, and no pipe becomes live.
SlotsQuiet ==
  \A s \in Slots :
    /\ PipeTbl'[s].CurrentQueueDepth = PipeTbl[s].CurrentQueueDepth
    /\ PipeTbl'[s].PipeId \in PipeIds => PipeTbl'[s].PipeId = PipeTbl[s].PipeId
CallsQuiet ==
  \A u \in Tasks :
    /\ pc'[u] = "create" => pc[u] = "create" /\ pid'[u] = pid[u]
    /\ pc[u] = "export" \/ pc'[u] = "export" => pc'[u] = pc[u] /\ pid'[u] = pid[u]
    /\ pc'[u] = "get" =>
         \/ pc[u] = "get" /\ pid'[u] = pid[u]
         \/ \E p \in PipeIds : pid'[u] = p /\ IsMatch(p)

(* A step that puts nothing on a pipe and takes nothing from one.          *)
LEMMA DepthQuiet ==
  ASSUME Inv4, UNCHANGED <<LastPipeId, Queue, targets>>, SlotsQuiet, CallsQuiet
  PROVE  Depth'
<1>a. \A p \in PipeIds : Queue'[p] = Queue[p]  OBVIOUS
<1>b. \A u \in Tasks : Receiving(u)' =>
        \/ Receiving(u) /\ pid'[u] = pid[u]
        \/ \E p \in PipeIds : pid'[u] = p /\ IsMatch(p)
  BY DEF CallsQuiet, Receiving
<1>c. \A u \in Tasks : pc'[u] = "create" => pc[u] = "create" /\ pid'[u] = pid[u]
  BY DEF CallsQuiet
<1>d. \A u \in Tasks : targets'[u] = targets[u]  OBVIOUS
<1>1. FreshKept  BY <1>a, <1>b, <1>c, <1>d DEF FreshKept, SlotsQuiet
<1>2. ASSUME NEW p \in PipeIds PROVE SamePipe(p)
  <2>1. Writing(p)' = Writing(p)  BY <1>d DEF Writing
  <2>2. Reading(p)' = Reading(p)
    <3>1. \A u \in Tasks : pc'[u] = "export" /\ pid'[u] = p <=> pc[u] = "export" /\ pid[u] = p
      BY DEF CallsQuiet
    <3> QED BY <3>1 DEF Reading
  <2>3. ToIndex(p) \in Slots  BY IdKinds
  <2>4. PipeTbl'[ToIndex(p)].PipeId \in PipeIds => PipeTbl'[ToIndex(p)].PipeId = PipeTbl[ToIndex(p)].PipeId
    BY <2>3 DEF SlotsQuiet
  <2>5. IsMatch(p)' => IsMatch(p)  BY <2>4 DEF IsMatch
  <2>6. PipeTbl'[ToIndex(p)].CurrentQueueDepth = PipeTbl[ToIndex(p)].CurrentQueueDepth
    BY <2>3 DEF SlotsQuiet
  <2> QED BY <2>1, <2>2, <2>5, <2>6, <1>a DEF SamePipe
<1> QED BY <1>1, <1>2, FreshFrame, DepthFrame DEF Depth

(* Every step keeps the depths exact, and fresh pipe IDs untouched.        *)
LEMMA DepthStep == Inv4 /\ [Next]_vars => Depth'
<1> SUFFICES ASSUME Inv4, [Next]_vars PROVE Depth'  OBVIOUS
<1>a. TypeOK /\ CallLocals /\ SlotOwned /\ FreshUntouched /\ CreationClean /\ DepthExact
  BY DEF Inv4, Inv2, Inv1, Depth
<1>b. /\ PipeTbl \in [Slots -> PipeDesc] /\ pc \in [Tasks -> Locations]
      /\ pid \in [Tasks -> PipeIds \cup {UNDEFINED}] /\ Queue \in [PipeIds -> Seq(Bufs)]
      /\ targets \in [Tasks -> SUBSET PipeIds] /\ LastPipeId \in Nat
      /\ \A p \in PipeIds : PipeTbl[ToIndex(p)] \in PipeDesc
  BY <1>a, IdKinds DEF TypeOK
<1>c. /\ \A u \in Tasks : InTransition(u) \/ Receiving(u) => pid[u] \in PipeIds /\ ToIndex(pid[u]) \in Slots
      /\ \A u \in Tasks : ~Sending(u) => targets[u] = {}
  BY <1>a, IdKinds DEF CallLocals
<1>d. \A u \in Tasks : ToIndex(pid[u])' = ToIndex(pid'[u])  BY DEF ToIndex
<1>e. ASSUME FreshKept, \A p \in PipeIds : SamePipe(p) \/ DepthAt(p)' PROVE Depth'
  BY <1>e, FreshFrame, DepthFrame DEF Depth
<1>f. ASSUME UNCHANGED <<PipeTbl, LastPipeId, Queue, targets>>,
             \A u \in Tasks : pc'[u] \in {"create", "get", "export"} \/ pc[u] = "export" =>
                             pc'[u] = pc[u] /\ pid'[u] = pid[u]
      PROVE  Depth'
  <2>1. SlotsQuiet  BY <1>f DEF SlotsQuiet
  <2>2. CallsQuiet  BY <1>f DEF CallsQuiet
  <2> QED BY <1>f, <2>1, <2>2, DepthQuiet
<1>g. ASSUME NEW t \in Tasks, NEW p \in PipeIds, NEW a, DeletePipeFull(t, p, a), pc[t] \in {"idle", "cleanup"}
      PROVE  Depth'
  <2>1. SlotsQuiet  BY <1>g, <1>b, IdKinds DEF DeletePipeFull, PipeDesc, SlotsQuiet
  <2>2. CallsQuiet  BY <1>g, <1>b DEF DeletePipeFull, CallsQuiet
  <2>3. UNCHANGED <<LastPipeId, Queue, targets>>
    BY <1>g, <1>b DEF DeletePipeFull, osVars
  <2> QED BY <2>1, <2>2, <2>3, DepthQuiet
<1>1. ASSUME NEW t \in Tasks, CreatePipe(t) PROVE Depth'
  <2> PICK p \in PipeIds : p = FindNext  BY <1>1 DEF CreatePipe
  <2>1. PipeTbl[ToIndex(p)].PipeId = UNDEFINED /\ p > LastPipeId /\ ToIndex(p) \in Slots
    BY <1>b, NextIsFree, IdKinds
  <2>2. /\ PipeTbl'[ToIndex(p)].PipeId = RESERVED /\ PipeTbl'[ToIndex(p)].CurrentQueueDepth = 0
        /\ \A s \in Slots \ {ToIndex(p)} : PipeTbl'[s] = PipeTbl[s]
    BY <1>1, <1>b, <2>1 DEF CreatePipe, ClearedDesc
  <2>3. /\ pid'[t] = p /\ pc'[t] = "create" /\ pc[t] = "idle" /\ LastPipeId' = p
        /\ \A u \in Tasks \ {t} : pid'[u] = pid[u] /\ pc'[u] = pc[u]
        /\ UNCHANGED <<Queue, targets>>
    BY <1>1, <1>b DEF CreatePipe, osVars, Calls
  <2>4. ASSUME NEW q \in PipeIds, Fresh(q)'
        PROVE  ~IsMatch(q)' /\ Queue'[q] = <<>> /\ Writing(q)' = {} /\ \A u \in Tasks : Receiving(u)' => pid'[u] # q
    <3>1. Fresh(q)
      <4>1. CASE q > LastPipeId'  BY <2>1, <2>3, <4>1, <1>b, IdKinds DEF Fresh
      <4>2. CASE \E u \in Tasks : pc'[u] = "create" /\ pid'[u] = q
        BY <2>1, <2>3, <4>2 DEF Fresh
      <4> QED BY <2>4, <4>1, <4>2 DEF Fresh
    <3>2. ~IsMatch(q) /\ Queue[q] = <<>> /\ Writing(q) = {} /\ \A u \in Tasks : Receiving(u) => pid[u] # q
      BY <3>1, <1>a DEF FreshUntouched
    <3>3. ~IsMatch(q)'  BY <2>2, <3>2, IdKinds DEF IsMatch
    <3> QED BY <2>3, <3>2, <3>3 DEF Writing, Receiving
  <2>5. FreshUntouched'  BY <2>4 DEF FreshUntouched
  <2>6. ASSUME NEW u \in Tasks, pc'[u] = "create"
        PROVE  pid'[u] <= LastPipeId' /\ PipeTbl'[ToIndex(pid'[u])].CurrentQueueDepth = 0
    <3>1. CASE u = t  BY <2>2, <2>3, <3>1, IdKinds
    <3>2. CASE u # t
      <4>1. pc[u] = "create" /\ pid'[u] = pid[u] /\ pid[u] \in PipeIds /\ ToIndex(pid[u]) \in Slots
        BY <2>3, <2>6, <3>2, <1>c DEF InTransition
      <4>2. PipeTbl[ToIndex(pid[u])].PipeId = RESERVED /\ pid[u] <= LastPipeId
            /\ PipeTbl[ToIndex(pid[u])].CurrentQueueDepth = 0
        BY <4>1, <1>a DEF SlotOwned, InTransition, CreationClean
      <4>3. ToIndex(pid[u]) # ToIndex(p)  BY <2>1, <4>2, IdKinds
      <4>4. pid[u] \in Nat /\ p \in Nat /\ LastPipeId \in Nat  BY <4>1, <1>b, IdKinds
      <4>5. PipeTbl'[ToIndex(pid[u])] = PipeTbl[ToIndex(pid[u])]  BY <2>2, <4>1, <4>3
      <4>6. pid[u] <= p  BY <2>1, <4>2, <4>4
      <4> QED BY <2>3, <4>1, <4>2, <4>5, <4>6
    <3> QED BY <3>1, <3>2
  <2>7. CreationClean'  BY <2>6, <1>d DEF CreationClean
  <2>8. ASSUME NEW q \in PipeIds PROVE SamePipe(q)
    <3>1. Writing(q)' = Writing(q)  BY <2>3 DEF Writing
    <3>2. Reading(q)' = Reading(q)  BY <2>3 DEF Reading
    <3>3. IsMatch(q)' => ToIndex(q) \in Slots \ {ToIndex(p)}  BY <2>2, IdKinds DEF IsMatch
    <3> QED BY <2>2, <2>3, <3>1, <3>2, <3>3 DEF SamePipe, IsMatch
  <2> QED BY <2>5, <2>7, <2>8, DepthFrame DEF Depth
<1>2. ASSUME NEW t \in Tasks, NEW d \in Depths, CreatePipeDone(t, d) PROVE Depth'
  <2> PICK p \in PipeIds : p = pid[t]  BY <1>2, <1>c DEF CreatePipeDone, InTransition
  <2>1. PipeTbl[ToIndex(p)].PipeId = RESERVED /\ p <= LastPipeId /\ PipeTbl[ToIndex(p)].CurrentQueueDepth = 0
        /\ ToIndex(p) \in Slots /\ Fresh(p)
    BY <1>2, <1>a, IdKinds DEF CreatePipeDone, SlotOwned, CreationClean, InTransition, Fresh
  <2>2. /\ PipeTbl'[ToIndex(p)].PipeId = p /\ PipeTbl'[ToIndex(p)].CurrentQueueDepth = 0
        /\ \A s \in Slots \ {ToIndex(p)} : PipeTbl'[s] = PipeTbl[s]
    BY <1>2, <1>b, <2>1 DEF CreatePipeDone, PipeDesc
  <2>3. /\ pc[t] = "create" /\ pc'[t] = "idle" /\ LastPipeId' = LastPipeId
        /\ \A u \in Tasks \ {t} : pid'[u] = pid[u] /\ pc'[u] = pc[u]
        /\ UNCHANGED <<Queue, targets>>
    BY <1>2, <1>b DEF CreatePipeDone
  <2>4. \A u \in Tasks \ {t} : pc[u] = "create" => ToIndex(pid[u]) # ToIndex(p)
    BY <2>3, <1>a DEF SlotOwned, InTransition
  <2>5. ASSUME NEW q \in PipeIds, Fresh(q)'
        PROVE  ~IsMatch(q)' /\ Queue'[q] = <<>> /\ Writing(q)' = {} /\ \A u \in Tasks : Receiving(u)' => pid'[u] # q
    <3>1. Fresh(q) /\ q # p
      <4>1. CASE q > LastPipeId'  BY <2>1, <2>3, <4>1, <1>b, IdKinds DEF Fresh
      <4>2. CASE \E u \in Tasks : pc'[u] = "create" /\ pid'[u] = q
        <5>1. PICK u \in Tasks \ {t} : pc[u] = "create" /\ pid[u] = q  BY <2>3, <4>2
        <5> QED BY <2>4, <5>1 DEF Fresh
      <4> QED BY <2>5, <4>1, <4>2 DEF Fresh
    <3>2. ~IsMatch(q) /\ Queue[q] = <<>> /\ Writing(q) = {} /\ \A u \in Tasks : Receiving(u) => pid[u] # q
      BY <3>1, <1>a DEF FreshUntouched
    <3>3. ~IsMatch(q)'  BY <2>2, <3>1, <3>2, IdKinds DEF IsMatch
    <3> QED BY <2>3, <3>2, <3>3 DEF Writing, Receiving
  <2>6. FreshUntouched'  BY <2>5 DEF FreshUntouched
  <2>7. ASSUME NEW u \in Tasks, pc'[u] = "create"
        PROVE  pid'[u] <= LastPipeId' /\ PipeTbl'[ToIndex(pid'[u])].CurrentQueueDepth = 0
    <3>1. u # t /\ pc[u] = "create" /\ pid'[u] = pid[u] /\ ToIndex(pid[u]) \in Slots
      BY <2>3, <2>7, <1>c DEF InTransition
    <3> QED BY <2>2, <2>3, <2>4, <3>1, <1>a DEF CreationClean
  <2>8. CreationClean'  BY <2>7, <1>d DEF CreationClean
  <2>9. ASSUME NEW q \in PipeIds, q # p PROVE SamePipe(q)
    <3>1. Writing(q)' = Writing(q)  BY <2>3 DEF Writing
    <3>2. Reading(q)' = Reading(q)  BY <2>3 DEF Reading
    <3>3. IsMatch(q)' => ToIndex(q) \in Slots \ {ToIndex(p)}  BY <2>2, <2>9, IdKinds DEF IsMatch
    <3> QED BY <2>2, <2>3, <3>1, <3>2, <3>3 DEF SamePipe, IsMatch
  <2>10. DepthAt(p)'
    <3>1. Queue[p] = <<>> /\ Writing(p) = {} /\ \A u \in Tasks : Receiving(u) => pid[u] # p
      BY <2>1, <1>a DEF FreshUntouched
    <3>2. Queue'[p] = <<>> /\ Writing(p)' = {} /\ Reading(p)' = {}
      BY <2>3, <3>1 DEF Writing, Reading, Receiving
    <3>3. Len(<<>>) = 0 /\ Cardinality({}) = 0  BY FS_EmptySet
    <3> QED BY <2>2, <3>2, <3>3 DEF DepthAt
  <2> QED BY <2>6, <2>8, <2>9, <2>10, DepthFrame DEF Depth
<1>3. ASSUME NEW t \in Tasks, CreatePipeFail(t) PROVE Depth'
  <2>1. SlotsQuiet  BY <1>3, <1>b, IdKinds DEF CreatePipeFail, PipeDesc, SlotsQuiet
  <2>2. CallsQuiet  BY <1>3, <1>b DEF CreatePipeFail, taskVars, Calls, CallsQuiet
  <2>3. UNCHANGED <<LastPipeId, Queue, targets>>
    BY <1>3, <1>b DEF CreatePipeFail, osVars, taskVars, Calls
  <2> QED BY <2>1, <2>2, <2>3, DepthQuiet
<1>4. ASSUME NEW t \in Tasks, NEW p \in PipeIds, NEW f \in BOOLEAN, SetPipeOpts(t, p, f) PROVE Depth'
  <2>1. SlotsQuiet  BY <1>4, <1>b, IdKinds DEF SetPipeOpts, PipeDesc, SlotsQuiet
  <2>2. CallsQuiet  BY <1>4, <1>b DEF SetPipeOpts, taskVars, Calls, CallsQuiet
  <2>3. UNCHANGED <<LastPipeId, Queue, targets>>
    BY <1>4, <1>b DEF SetPipeOpts, osVars, taskVars, Calls
  <2> QED BY <2>1, <2>2, <2>3, DepthQuiet
<1>5. ASSUME NEW t \in Tasks, NEW p \in PipeIds, DeletePipe(t, p) PROVE Depth'
  BY <1>5, <1>g DEF DeletePipe, Calls
<1>6. ASSUME NEW t \in Tasks, NEW p \in PipeIds, CleanUpPipe(t, p) PROVE Depth'
  BY <1>6, <1>g DEF CleanUpPipe
<1>7. ASSUME NEW t \in Tasks, DrainRelease(t) PROVE Depth'
  BY <1>7, <1>b, <1>f DEF DrainRelease, pipeVars, taskVars, osVars, Calls
<1>8. ASSUME NEW t \in Tasks, DrainGet(t) PROVE Depth'
  <2> PICK p \in PipeIds : p = pid[t]  BY <1>8, <1>c DEF DrainGet, InTransition
  <2>1. PipeTbl[ToIndex(p)].PipeId = RESERVED /\ Queue[p] # <<>>
    BY <1>8, <1>a DEF DrainGet, SlotOwned, InTransition
  <2>2. /\ \A q \in PipeIds \ {p} : Queue'[q] = Queue[q]
        /\ UNCHANGED <<PipeTbl, LastPipeId, targets, pc, pid>>
    BY <1>8, <1>b DEF DrainGet, pipeVars
  <2>3. FreshKept  BY <2>1, <2>2 DEF FreshKept, Receiving
  <2>4. \A q \in PipeIds : SamePipe(q)
    BY <2>1, <2>2, IdKinds DEF SamePipe, IsMatch, Writing, Reading
  <2> QED BY <2>3, <2>4, <1>e
<1>9. ASSUME NEW t \in Tasks, DrainEnd(t) PROVE Depth'
  BY <1>9, <1>b, <1>f DEF DrainEnd, pipeVars, taskVars, osVars, Calls
<1>10. ASSUME NEW t \in Tasks, QueueDelete(t) PROVE Depth'
  BY <1>10, <1>b, <1>f DEF QueueDelete, pipeVars, taskVars, osVars, Calls
<1>11. ASSUME NEW t \in Tasks, DeletePipeDone(t) PROVE Depth'
  <2>1. SlotsQuiet  BY <1>11, <1>b, IdKinds DEF DeletePipeDone, PipeDesc, SlotsQuiet
  <2>2. CallsQuiet  BY <1>11, <1>b DEF DeletePipeDone, taskVars, Calls, CallsQuiet
  <2>3. UNCHANGED <<LastPipeId, Queue, targets>>
    BY <1>11, <1>b DEF DeletePipeDone, osVars, taskVars, Calls
  <2> QED BY <2>1, <2>2, <2>3, DepthQuiet
<1>12. ASSUME NEW t \in Tasks, NEW a \in Apps, CleanUpApp(t, a) PROVE Depth'
  BY <1>12, <1>b, <1>f DEF CleanUpApp, pipeVars, taskVars, osVars, Calls
<1>13. ASSUME NEW t \in Tasks, ZeroCopyReleaseAppId(t) PROVE Depth'
  BY <1>13, <1>b, <1>f DEF ZeroCopyReleaseAppId, pipeVars, taskVars, osVars, Calls
<1>14. ASSUME NEW t \in Tasks, NEW p \in PipeIds, NEW m \in MsgIds, NEW lim \in MsgLims, SubscribeFull(t, p, m, lim) PROVE Depth'
  BY <1>14, <1>b, <1>f DEF SubscribeFull, pipeVars, taskVars, osVars, Calls
<1>15. ASSUME NEW t \in Tasks, NEW p \in PipeIds, NEW m \in MsgIds, SubscribeNoBlock(t, p, m) PROVE Depth'
  BY <1>15, <1>b, <1>f DEF SubscribeNoBlock, pipeVars, taskVars, osVars, Calls
<1>16. ASSUME NEW t \in Tasks, NEW p \in PipeIds, NEW m \in MsgIds, UnsubscribeFull(t, p, m) PROVE Depth'
  BY <1>16, <1>b, <1>f DEF UnsubscribeFull, pipeVars, taskVars, osVars, Calls
<1>17. ASSUME NEW t \in Tasks, NEW b \in Bufs, AllocateMessageBuffer(t, b) PROVE Depth'
  BY <1>17, <1>b, <1>f DEF AllocateMessageBuffer, pipeVars, taskVars, osVars, Calls
<1>18. ASSUME NEW t \in Tasks, ReleaseMessageBuffer(t) PROVE Depth'
  BY <1>18, <1>b, <1>f DEF ReleaseMessageBuffer, pipeVars, taskVars, osVars, Calls
<1>19. ASSUME NEW t \in Tasks, NEW m \in MsgIds, FindDestinations(t, m) PROVE Depth'
  <2> PICK A \in SUBSET PipeIds : A = UnderLimit(m, Eligible(t, m))
    BY <1>a DEF UnderLimit, Eligible, TypeOK
  <2>1. \A p \in A : IsMatch(p)  BY DEF UnderLimit, Eligible
  <2>2. \A s \in Slots : PipeTbl'[s] = IF PipeTbl[s].PipeId \in A THEN CountPipe(PipeTbl[s]) ELSE PipeTbl[s]
    BY <1>19 DEF FindDestinations
  <2>3. \A d \in PipeDesc : CountPipe(d).PipeId = d.PipeId /\ CountPipe(d).CurrentQueueDepth = d.CurrentQueueDepth + 1
    BY DEF PipeDesc, CountPipe
  <2>4. /\ \A s \in Slots : PipeTbl'[s].PipeId = PipeTbl[s].PipeId
        /\ \A s \in Slots : PipeTbl'[s].CurrentQueueDepth =
                            PipeTbl[s].CurrentQueueDepth + (IF PipeTbl[s].PipeId \in A THEN 1 ELSE 0)
    BY <2>2, <2>3, <1>b DEF PipeDesc
  <2>5. /\ targets'[t] = A /\ targets[t] = {} /\ pc[t] = "idle" /\ pc'[t] = "send" /\ pid' = pid
        /\ \A u \in Tasks \ {t} : targets'[u] = targets[u] /\ pc'[u] = pc[u]
        /\ UNCHANGED <<Queue, LastPipeId>>
    BY <1>19, <1>b, <1>c DEF FindDestinations, Calls, osVars, Sending
  <2>6. FreshKept
    <3>1. \A s \in Slots : PipeTbl[s].PipeId = RESERVED => PipeTbl'[s].CurrentQueueDepth = PipeTbl[s].CurrentQueueDepth
      BY <2>2, IdKinds
    <3>2. \A u \in Tasks : \A p \in targets'[u] : p \in targets[u] \/ IsMatch(p)
      BY <2>1, <2>5
    <3> QED BY <2>4, <2>5, <3>1, <3>2 DEF FreshKept, Receiving
  <2>7. ASSUME NEW p \in PipeIds PROVE SamePipe(p) \/ DepthAt(p)'
    <3>1. Reading(p)' = Reading(p) /\ ToIndex(p) \in Slots  BY <2>5, IdKinds DEF Reading
    <3>2. CASE p \in A
      <4>1. t \notin Writing(p) /\ Writing(p)' = Writing(p) \cup {t}  BY <2>5, <3>2 DEF Writing
      <4>2. Cardinality(Writing(p)') = Cardinality(Writing(p)) + 1  BY <4>1, UsersFinite, Gain
      <4>3. /\ PipeTbl[ToIndex(p)].PipeId = p
            /\ PipeTbl[ToIndex(p)].CurrentQueueDepth = Len(Queue[p]) + Cardinality(Writing(p)) + Cardinality(Reading(p))
        BY <2>1, <3>2, <1>a DEF DepthExact, IsMatch
      <4>4. PipeTbl'[ToIndex(p)].CurrentQueueDepth = PipeTbl[ToIndex(p)].CurrentQueueDepth + 1
        BY <2>4, <3>1, <3>2, <4>3
      <4>5. Cardinality(Writing(p)) \in Nat /\ Cardinality(Reading(p)) \in Nat /\ Len(Queue[p]) \in Nat
        BY UsersFinite, <1>b
      <4> QED BY <2>5, <3>1, <4>2, <4>3, <4>4, <4>5 DEF DepthAt
    <3>3. CASE p \notin A
      <4>1. Writing(p)' = Writing(p)  BY <2>5, <3>3 DEF Writing
      <4>2. PipeTbl[ToIndex(p)].CurrentQueueDepth + 0 = PipeTbl[ToIndex(p)].CurrentQueueDepth
        BY <1>b DEF PipeDesc
      <4> QED BY <2>4, <2>5, <3>1, <3>3, <4>1, <4>2 DEF SamePipe, IsMatch
    <3> QED BY <3>2, <3>3
  <2> QED BY <2>6, <2>7, <1>e
<1>20. ASSUME NEW t \in Tasks, NEW p \in PipeIds, QueuePut(t, p) PROVE Depth'
  <2>1. /\ p \in targets[t] /\ targets'[t] = targets[t] \ {p} /\ \A u \in Tasks \ {t} : targets'[u] = targets[u]
        /\ Queue'[p] = Append(Queue[p], cur[t]) /\ \A q \in PipeIds \ {p} : Queue'[q] = Queue[q]
        /\ UNCHANGED <<PipeTbl, LastPipeId, pc, pid>> /\ cur[t] \in Bufs
    BY <1>20, <1>a, <1>b DEF QueuePut, pipeVars, CallLocals, Sending
  <2>2. t \in Writing(p) /\ Writing(p)' = Writing(p) \ {t}
        /\ \A q \in PipeIds \ {p} : Writing(q)' = Writing(q)
    BY <2>1 DEF Writing
  <2>3. FreshKept  BY <2>1, <2>2 DEF FreshKept, Receiving
  <2>4. \A q \in PipeIds : Reading(q)' = Reading(q)  BY <2>1 DEF Reading
  <2>5. \A q \in PipeIds \ {p} : SamePipe(q)
    BY <2>1, <2>2, <2>4 DEF SamePipe, IsMatch
  <2>6. DepthAt(p)'
    <3>1. Cardinality(Writing(p)') = Cardinality(Writing(p)) - 1  BY <2>2, UsersFinite, Lose
    <3>2. Len(Queue'[p]) = Len(Queue[p]) + 1 /\ Len(Queue[p]) \in Nat  BY <2>1, <1>b
    <3>3. Cardinality(Writing(p)) \in Nat /\ Cardinality(Reading(p)) \in Nat  BY UsersFinite
    <3>4. IsMatch(p) => PipeTbl[ToIndex(p)].CurrentQueueDepth =
                          Len(Queue[p]) + Cardinality(Writing(p)) + Cardinality(Reading(p))
      BY <1>a DEF DepthExact
    <3> QED BY <2>1, <2>4, <3>1, <3>2, <3>3, <3>4 DEF DepthAt, IsMatch
  <2> QED BY <2>3, <2>5, <2>6, <1>e
<1>21. ASSUME NEW t \in Tasks, NEW p \in PipeIds, QueuePutFail(t, p) PROVE Depth'
  BY <1>21, <1>b, <1>f DEF QueuePutFail, pipeVars, taskVars, osVars, Calls
<1>22. ASSUME NEW t \in Tasks, UndoPut(t) PROVE Depth'
  <2> PICK p \in PipeIds : p = pid[t]
    BY <1>22, <1>a, <1>b DEF UndoPut, CallLocals, Sending
  <2>1. /\ p \in targets[t] /\ targets'[t] = targets[t] \ {p} /\ \A u \in Tasks \ {t} : targets'[u] = targets[u]
        /\ UNCHANGED <<Queue, LastPipeId>>
        /\ pc[t] = "undo" /\ pc'[t] = "send" /\ \A u \in Tasks \ {t} : pid'[u] = pid[u] /\ pc'[u] = pc[u]
    BY <1>22, <1>a, <1>b DEF UndoPut, osVars, CallLocals
  <2>2. t \in Writing(p) /\ Writing(p)' = Writing(p) \ {t}
        /\ \A q \in PipeIds \ {p} : Writing(q)' = Writing(q)
    BY <2>1 DEF Writing
  <2>3. /\ \A s \in Slots : PipeTbl'[s].PipeId = PipeTbl[s].PipeId
        /\ \A s \in Slots : PipeTbl[s].PipeId # p => PipeTbl'[s] = PipeTbl[s]
        /\ IsMatch(p) => PipeTbl'[ToIndex(p)].CurrentQueueDepth = Less1(PipeTbl[ToIndex(p)].CurrentQueueDepth)
    BY <1>22, <1>b, IdKinds DEF UndoPut, UncountPipe, PipeDesc, IsMatch
  <2>4. FreshKept  BY <2>1, <2>3, IdKinds DEF FreshKept, Receiving
  <2>5. \A q \in PipeIds : Reading(q)' = Reading(q)  BY <2>1 DEF Reading
  <2>6. \A q \in PipeIds \ {p} : SamePipe(q)
    BY <2>1, <2>2, <2>3, <2>5, IdKinds DEF SamePipe, IsMatch
  <2>7. DepthAt(p)'
    <3>1. Cardinality(Writing(p)') = Cardinality(Writing(p)) - 1 /\ Cardinality(Writing(p)) \in Nat \ {0}
      BY <2>2, UsersFinite, Lose
    <3>2. Len(Queue[p]) \in Nat /\ Cardinality(Reading(p)) \in Nat  BY UsersFinite, <1>b
    <3>3. IsMatch(p)' => IsMatch(p)  BY <2>3, IdKinds DEF IsMatch
    <3>4. IsMatch(p) => PipeTbl[ToIndex(p)].CurrentQueueDepth =
                          Len(Queue[p]) + Cardinality(Writing(p)) + Cardinality(Reading(p))
      BY <1>a DEF DepthExact
    <3>5. IsMatch(p) => PipeTbl'[ToIndex(p)].CurrentQueueDepth = PipeTbl[ToIndex(p)].CurrentQueueDepth - 1
      BY <2>3, <3>1, <3>2, <3>4 DEF Less1
    <3> QED BY <2>1, <2>5, <3>1, <3>2, <3>3, <3>4, <3>5 DEF DepthAt
  <2> QED BY <2>4, <2>6, <2>7, <1>e
<1>23. ASSUME NEW t \in Tasks, TransmitDone(t) PROVE Depth'
  BY <1>23, <1>b, <1>f DEF TransmitDone, pipeVars, taskVars, osVars, Calls
<1>24. ASSUME NEW t \in Tasks, NEW p \in PipeIds, ReceiveBuffer(t, p) PROVE Depth'
  <2>1. SlotsQuiet  BY <1>24, <1>b, IdKinds DEF ReceiveBuffer, PipeDesc, SlotsQuiet
  <2>2. CallsQuiet  BY <1>24, <1>b DEF ReceiveBuffer, taskVars, Calls, CallsQuiet
  <2>3. UNCHANGED <<LastPipeId, Queue, targets>>
    BY <1>24, <1>b DEF ReceiveBuffer, osVars, taskVars, Calls
  <2> QED BY <2>1, <2>2, <2>3, DepthQuiet
<1>25. ASSUME NEW t \in Tasks, QueueGet(t) PROVE Depth'
  <2> PICK p \in PipeIds : p = pid[t]  BY <1>25, <1>c DEF QueueGet, Receiving
  <2>1. /\ Queue[p] # <<>> /\ Queue'[p] = Tail(Queue[p]) /\ \A q \in PipeIds \ {p} : Queue'[q] = Queue[q]
        /\ UNCHANGED <<PipeTbl, LastPipeId, targets, pid>>
        /\ pc[t] = "get" /\ pc'[t] = "export" /\ \A u \in Tasks \ {t} : pc'[u] = pc[u]
    BY <1>25, <1>b DEF QueueGet, pipeVars
  <2>2. t \notin Reading(p) /\ Reading(p)' = Reading(p) \cup {t}
        /\ \A q \in PipeIds \ {p} : Reading(q)' = Reading(q)
    BY <2>1 DEF Reading
  <2>3. FreshKept  BY <2>1 DEF FreshKept, Receiving
  <2>4. \A q \in PipeIds : Writing(q)' = Writing(q)  BY <2>1 DEF Writing
  <2>5. \A q \in PipeIds \ {p} : SamePipe(q)
    BY <2>1, <2>2, <2>4 DEF SamePipe, IsMatch
  <2>6. DepthAt(p)'
    <3>1. Cardinality(Reading(p)') = Cardinality(Reading(p)) + 1  BY <2>2, UsersFinite, Gain
    <3>2. Len(Queue'[p]) = Len(Queue[p]) - 1 /\ Len(Queue[p]) \in Nat  BY <2>1, <1>b
    <3>3. Cardinality(Writing(p)) \in Nat /\ Cardinality(Reading(p)) \in Nat  BY UsersFinite
    <3>4. IsMatch(p) => PipeTbl[ToIndex(p)].CurrentQueueDepth =
                          Len(Queue[p]) + Cardinality(Writing(p)) + Cardinality(Reading(p))
      BY <1>a DEF DepthExact
    <3> QED BY <2>1, <2>4, <3>1, <3>2, <3>3, <3>4 DEF DepthAt, IsMatch
  <2> QED BY <2>3, <2>5, <2>6, <1>e
<1>26. ASSUME NEW t \in Tasks, QueueGetFail(t) PROVE Depth'
  BY <1>26, <1>b, <1>f DEF QueueGetFail, pipeVars, taskVars, osVars, Calls
<1>27. ASSUME NEW t \in Tasks, ExportReference(t) PROVE Depth'
  <2> PICK p \in PipeIds : p = pid[t]  BY <1>27, <1>c DEF ExportReference, Receiving
  <2>1. /\ UNCHANGED <<Queue, LastPipeId, targets>>
        /\ pc[t] = "export" /\ pc'[t] = "idle" /\ \A u \in Tasks \ {t} : pid'[u] = pid[u] /\ pc'[u] = pc[u]
    BY <1>27, <1>b DEF ExportReference, osVars
  <2>2. t \in Reading(p) /\ Reading(p)' = Reading(p) \ {t}
        /\ \A q \in PipeIds \ {p} : Reading(q)' = Reading(q)
    BY <2>1 DEF Reading
  <2>3. /\ \A s \in Slots : PipeTbl'[s].PipeId = PipeTbl[s].PipeId
        /\ \A s \in Slots : PipeTbl[s].PipeId # p => PipeTbl'[s] = PipeTbl[s]
        /\ IsMatch(p) => PipeTbl'[ToIndex(p)].CurrentQueueDepth = Less1(PipeTbl[ToIndex(p)].CurrentQueueDepth)
    <3> DEFINE e == [UncountPipe(p) EXCEPT !.LastBuffer = cur[t]]
    <3>1. /\ e.PipeId = PipeTbl[ToIndex(p)].PipeId
          /\ e.CurrentQueueDepth = Less1(PipeTbl[ToIndex(p)].CurrentQueueDepth)
      BY <1>b DEF UncountPipe, PipeDesc
    <3>2. \/ IsMatch(p) /\ PipeTbl' = [PipeTbl EXCEPT ![ToIndex(p)] = e]
          \/ ~IsMatch(p) /\ PipeTbl' = PipeTbl
      BY <1>27 DEF ExportReference
    <3> HIDE DEF e
    <3> QED BY <3>1, <3>2, <1>b, IdKinds DEF IsMatch
  <2>4. FreshKept  BY <2>1, <2>3, IdKinds DEF FreshKept, Receiving
  <2>5. \A q \in PipeIds : Writing(q)' = Writing(q)  BY <2>1 DEF Writing
  <2>6. \A q \in PipeIds \ {p} : SamePipe(q)
    BY <2>1, <2>2, <2>3, <2>5, IdKinds DEF SamePipe, IsMatch
  <2>7. DepthAt(p)'
    <3>1. Cardinality(Reading(p)') = Cardinality(Reading(p)) - 1 /\ Cardinality(Reading(p)) \in Nat \ {0}
      BY <2>2, UsersFinite, Lose
    <3>2. Len(Queue[p]) \in Nat /\ Cardinality(Writing(p)) \in Nat  BY UsersFinite, <1>b
    <3>3. IsMatch(p)' => IsMatch(p)  BY <2>3, IdKinds DEF IsMatch
    <3>4. IsMatch(p) => PipeTbl[ToIndex(p)].CurrentQueueDepth =
                          Len(Queue[p]) + Cardinality(Writing(p)) + Cardinality(Reading(p))
      BY <1>a DEF DepthExact
    <3>5. IsMatch(p) => PipeTbl'[ToIndex(p)].CurrentQueueDepth = PipeTbl[ToIndex(p)].CurrentQueueDepth - 1
      BY <2>3, <3>1, <3>2, <3>4 DEF Less1
    <3> QED BY <2>1, <2>5, <3>1, <3>2, <3>3, <3>4, <3>5 DEF DepthAt
  <2> QED BY <2>4, <2>6, <2>7, <1>e
<1>28. ASSUME NEW m \in MsgIds, NEW p \in PipeIds, NEW f \in BOOLEAN, SetRouteActive(m, p, f) PROVE Depth'
  BY <1>28, <1>f DEF SetRouteActive, pipeVars, taskVars, osVars
<1>29. CASE UNCHANGED vars
  BY <1>29, <1>f DEF vars, pipeVars, taskVars, osVars
<1> QED
  BY <1>1, <1>2, <1>3, <1>4, <1>5, <1>6, <1>7, <1>8, <1>9, <1>10, <1>11,
     <1>12, <1>13, <1>14, <1>15, <1>16, <1>17, <1>18, <1>19, <1>20, <1>21,
     <1>22, <1>23, <1>24, <1>25, <1>26, <1>27, <1>28, <1>29 DEF Next, Call,
     Continue, Wait

(* At the start nothing is reserved and nothing has been written.          *)
LEMMA Inv4Init == Init => Inv4
<1> SUFFICES ASSUME Init PROVE Inv4  OBVIOUS
<1>1. Inv2  BY CountInit DEF Inv3
<1>2. Transitions
  BY IdKinds DEF Init, Transitions, ReservedHeld, QueueOwned, ClearedDesc
<1>3. FreshUntouched
  BY IdKinds DEF Init, FreshUntouched, IsMatch, ClearedDesc, Writing, Receiving
<1>4. CreationClean /\ DepthExact
  BY IdKinds DEF Init, CreationClean, DepthExact, IsMatch, ClearedDesc
<1> QED BY <1>1, <1>2, <1>3, <1>4 DEF Inv4, Depth

LEMMA Inv4Step == Inv4 /\ [Next]_vars => Inv4'
BY TypeStep, OwnedStep, HolderStep, DepthStep DEF Inv4, Inv2

(* CurrentQueueDepth of a live pipe is the number of messages on its queue *)
(* with those announced and those taken but not yet accounted for: the     *)
(* regions of the senders and receivers that raise and lower it never lose *)
(* a message, and those that find their pipe deleted leave the pipe that   *)
(* has its table entry now alone.                                          *)
THEOREM DepthsHold == Spec => []DepthExact
<1>1. Inv4 => DepthExact  BY DEF Inv4, Depth
<1> QED BY Inv4Init, Inv4Step, <1>1, PTL DEF Spec

(* A reserved table entry is in the hands of one creation or deletion, and *)
(* an OSAL queue is that of a live pipe or of one in deletion: no call     *)
(* takes the entry of another, and no queue is left over.                  *)
THEOREM SlotsHold == Spec => []SlotsExclusive
<1>1. ASSUME Inv4, NEW s \in Slots PROVE Cardinality(Holder(s)) = IF PipeTbl[s].PipeId = RESERVED THEN 1 ELSE 0
  <2>1. CASE PipeTbl[s].PipeId = RESERVED
    <3>1. PICK t \in Tasks : InTransition(t) /\ ToIndex(pid[t]) = s
      BY <1>1, <2>1 DEF Inv4, Transitions, ReservedHeld
    <3>2. \A u \in Tasks \ {t} : InTransition(u) => ToIndex(pid[u]) # s
      BY <1>1, <3>1 DEF Inv4, Inv2, SlotOwned
    <3>3. Holder(s) = {t}  BY <3>1, <3>2 DEF Holder
    <3>4. Cardinality({t}) = 1  BY FS_Singleton
    <3> QED BY <2>1, <3>3, <3>4
  <2>2. CASE PipeTbl[s].PipeId # RESERVED
    <3>1. Holder(s) = {}  BY <1>1, <2>2 DEF Inv4, Inv2, SlotOwned, Holder
    <3> QED BY <2>2, <3>1, FS_EmptySet
  <2> QED BY <2>1, <2>2
<1>2. Inv4 => SlotsExclusive
  BY <1>1 DEF SlotsExclusive, Inv4, Transitions, QueueOwned
<1> QED BY Inv4Init, Inv4Step, <1>2, PTL DEF Spec

-----------------------------------------------------------------------------
(* The clean up of applications.                                           *)
Inv5 == Inv3 /\ CleanUps

\* No pipe becomes live, or an application's.
EntriesKept ==
  \A s \in Slots : PipeTbl'[s].PipeId \in PipeIds =>
    PipeTbl'[s].PipeId = PipeTbl[s].PipeId /\ PipeTbl'[s].AppId = PipeTbl[s].AppId
\* Only a task whose application lives takes a step.
LivesOnly == \E t \in Tasks : AppOf[t] \notin gone /\ \A u \in Tasks \ {t} : pc'[u] = pc[u]

(* Counting references up and down leaves the owner of a buffer alone.     *)
LEMMA CountTags ==
  ASSUME NEW bd \in BufferDesc, bd.AppId # NoApp => bd.List = "ZeroCopy"
  PROVE  /\ Decr(bd).AppId # NoApp => Decr(bd).List = "ZeroCopy"
         /\ \A n \in Nat : Incr(bd, n).AppId = bd.AppId /\ Incr(bd, n).List = bd.List
<1>1. Decr(bd).AppId # NoApp => Decr(bd).List = "ZeroCopy"  BY DEF Decr, BufferDesc, FreeBuf
<1>2. \A n \in Nat : Incr(bd, n).AppId = bd.AppId /\ Incr(bd, n).List = bd.List
  BY DEF Incr, BufferDesc
<1> QED BY <1>1, <1>2

(* Such a step leaves the clean ups as they are.                           *)
LEMMA CleanFrame ==
  ASSUME CleanUps, UNCHANGED cleanVars, EntriesKept, LivesOnly \/ pc' = pc,
         \A b \in Bufs : Buf'[b].AppId # NoApp => Buf'[b].List = "ZeroCopy"
  PROVE  CleanUps'
<1>1. GoneIdle'  BY DEF CleanUps, GoneIdle, LivesOnly, cleanVars
<1>2. CleanersGone'  BY DEF CleanUps, CleanersGone, cleanVars
<1>3. IdsPlaced'
  <2>1. \A s \in Slots : PipeTbl'[s].PipeId \in PipeIds => ToIndex(PipeTbl'[s].PipeId) = s
    BY DEF CleanUps, IdsPlaced, EntriesKept
  <2>2. \A s \in Slots : ToIndex(PipeTbl[s].PipeId)' = ToIndex(PipeTbl'[s].PipeId)  BY DEF ToIndex
  <2> QED BY <2>1, <2>2 DEF IdsPlaced
<1>4. PipesListed'  BY DEF CleanUps, PipesListed, EntriesKept, cleanVars
<1>5. OwnedUnsent'  BY DEF OwnedUnsent
<1> QED BY <1>1, <1>2, <1>3, <1>4, <1>5 DEF CleanUps

(* A pipe that an application deletes, or that is deleted for it.          *)
LEMMA DeleteEntries ==
  ASSUME TypeOK, NEW t \in Tasks, NEW p \in PipeIds, NEW a, DeletePipeFull(t, p, a)
  PROVE  EntriesKept /\ PipeTbl'[ToIndex(p)].PipeId = RESERVED
<1>1. PipeTbl' = [PipeTbl EXCEPT ![ToIndex(p)].PipeId = RESERVED]  BY DEF DeletePipeFull
<1> QED BY <1>1, IdKinds DEF EntriesKept, TypeOK, PipeDesc

(* Every step keeps the clean ups in order.                                *)
LEMMA CleanStep == Inv5 /\ [Next]_vars => CleanUps'
<1> SUFFICES ASSUME Inv5, [Next]_vars PROVE CleanUps'  OBVIOUS
<1>a. TypeOK /\ CallLocals /\ SlotOwned /\ CleanUps  BY DEF Inv5, Inv3, Inv2, Inv1
<1>b. /\ PipeTbl \in [Slots -> PipeDesc] /\ pc \in [Tasks -> Locations]
      /\ pid \in [Tasks -> PipeIds \cup {UNDEFINED}]
      /\ Buf \in [Bufs -> BufferDesc] /\ cur \in [Tasks -> Bufs \cup {NoBuf}]
      /\ zc \in [Tasks -> Bufs \cup {NoBuf}]
      /\ cleaning \in [Tasks -> Apps \cup {NoApp}] /\ todo \in [Tasks -> SUBSET PipeIds]
      /\ \A p \in PipeIds : PipeTbl[ToIndex(p)] \in PipeDesc /\ ToIndex(p) \in Slots
  BY <1>a, IdKinds DEF TypeOK
<1>c. /\ \A u \in Tasks : InTransition(u) \/ Receiving(u) => pid[u] \in PipeIds /\ ToIndex(pid[u]) \in Slots
      /\ \A u \in Tasks : Sending(u) \/ pc[u] = "export" => cur[u] \in Bufs
  BY <1>a, IdKinds DEF CallLocals
<1>d. \A u \in Tasks : pc[u] # "idle" => AppOf[u] \notin gone
  BY <1>a DEF CleanUps, GoneIdle
<1>e. \A b \in Bufs : Buf[b].AppId # NoApp => Buf[b].List = "ZeroCopy"
  BY <1>a DEF CleanUps, OwnedUnsent
<1>f. \A b \in Bufs : Decr(Buf[b]).AppId # NoApp => Decr(Buf[b]).List = "ZeroCopy"
  BY <1>b, <1>e, CountTags
<1>g. ASSUME PipeTbl' = PipeTbl PROVE EntriesKept  BY <1>g DEF EntriesKept
<1>h. ASSUME NEW b \in Bufs, Buf' = [Buf EXCEPT ![b] = Decr(Buf[b])]
      PROVE  \A c \in Bufs : Buf'[c].AppId # NoApp => Buf'[c].List = "ZeroCopy"
  BY <1>b, <1>e, <1>f, <1>h
<1>i. ASSUME UNCHANGED cleanVars, EntriesKept, LivesOnly \/ pc' = pc,
             \A b \in Bufs : Buf'[b].AppId # NoApp => Buf'[b].List = "ZeroCopy"
      PROVE  CleanUps'
  BY <1>a, <1>i, CleanFrame
<1>1. ASSUME NEW t \in Tasks, CreatePipe(t) PROVE CleanUps'
  <2> PICK p \in PipeIds : p = FindNext  BY <1>1 DEF CreatePipe
  <2>1. UNCHANGED cleanVars /\ UNCHANGED Buf  BY <1>1 DEF CreatePipe
  <2>2. EntriesKept
    <3>1. PipeTbl' = [PipeTbl EXCEPT ![ToIndex(p)] = [ClearedDesc EXCEPT !.PipeId = RESERVED]]
      BY <1>1 DEF CreatePipe
    <3>2. [ClearedDesc EXCEPT !.PipeId = RESERVED].PipeId = RESERVED  BY DEF ClearedDesc
    <3> QED BY <3>1, <3>2, <1>b, IdKinds DEF EntriesKept
  <2>3. LivesOnly  BY <1>1, <1>b DEF CreatePipe, Calls, LivesOnly
  <2> QED BY <2>1, <2>2, <2>3, <1>e, <1>i
<1>2. ASSUME NEW t \in Tasks, NEW d \in Depths, CreatePipeDone(t, d) PROVE CleanUps'
  <2> PICK p \in PipeIds : p = pid[t]  BY <1>2, <1>c DEF CreatePipeDone, InTransition
  <2>1. UNCHANGED <<cleaning, todo, gone, Buf>> /\ LivesOnly
    BY <1>2, <1>b, <1>d DEF CreatePipeDone, LivesOnly, cleanVars
  <2>2. /\ PipeTbl'[ToIndex(p)].PipeId = p /\ PipeTbl'[ToIndex(p)].AppId = AppOf[t]
        /\ \A s \in Slots \ {ToIndex(p)} : PipeTbl'[s] = PipeTbl[s]
    BY <1>2, <1>b DEF CreatePipeDone, PipeDesc
  <2>3. AppOf[t] \notin gone  BY <1>2, <1>d DEF CreatePipeDone
  <2>4. GoneIdle'  BY <2>1, <1>a DEF CleanUps, GoneIdle, LivesOnly
  <2>5. CleanersGone' /\ OwnedUnsent'
    BY <2>1, <1>a DEF CleanUps, CleanersGone, OwnedUnsent
  <2>6. IdsPlaced'
    <3>1. \A s \in Slots : PipeTbl'[s].PipeId \in PipeIds => ToIndex(PipeTbl'[s].PipeId) = s
      BY <2>2, <1>a DEF CleanUps, IdsPlaced
    <3>2. \A s \in Slots : ToIndex(PipeTbl[s].PipeId)' = ToIndex(PipeTbl'[s].PipeId)  BY DEF ToIndex
    <3> QED BY <3>1, <3>2 DEF IdsPlaced
  <2>7. PipesListed'
    <3>1. \A u \in Tasks : cleaning[u] # NoApp => cleaning[u] # AppOf[t]
      BY <2>3, <1>a DEF CleanUps, CleanersGone
    <3> QED BY <2>1, <2>2, <3>1, <1>a DEF CleanUps, PipesListed
  <2> QED BY <2>4, <2>5, <2>6, <2>7 DEF CleanUps
<1>3. ASSUME NEW t \in Tasks, CreatePipeFail(t) PROVE CleanUps'
  <2> PICK p \in PipeIds : p = pid[t]  BY <1>3, <1>c DEF CreatePipeFail, InTransition
  <2>1. UNCHANGED cleanVars /\ UNCHANGED Buf /\ LivesOnly
    BY <1>3, <1>b, <1>d DEF CreatePipeFail, LivesOnly
  <2>2. EntriesKept
    BY <1>3, <1>b, IdKinds DEF CreatePipeFail, EntriesKept, PipeDesc
  <2> QED BY <2>1, <2>2, <1>e, <1>i
<1>4. ASSUME NEW t \in Tasks, NEW p \in PipeIds, NEW f \in BOOLEAN, SetPipeOpts(t, p, f) PROVE CleanUps'
  <2>1. UNCHANGED cleanVars /\ UNCHANGED Buf /\ pc' = pc
    BY <1>4 DEF SetPipeOpts, taskVars
  <2>2. EntriesKept
    BY <1>4, <1>b DEF SetPipeOpts, EntriesKept, PipeDesc
  <2> QED BY <2>1, <2>2, <1>e, <1>i
<1>5. ASSUME NEW t \in Tasks, NEW p \in PipeIds, DeletePipe(t, p) PROVE CleanUps'
  <2>1. UNCHANGED cleanVars /\ UNCHANGED Buf /\ LivesOnly
    BY <1>5, <1>b DEF DeletePipe, DeletePipeFull, LivesOnly, Calls
  <2>2. EntriesKept  BY <1>5, <1>a, DeleteEntries DEF DeletePipe
  <2> QED BY <2>1, <2>2, <1>e, <1>i
<1>6. ASSUME NEW t \in Tasks, NEW p \in PipeIds, CleanUpPipe(t, p) PROVE CleanUps'
  <2>1. /\ UNCHANGED <<cleaning, gone, Buf>> /\ LivesOnly
        /\ todo'[t] = todo[t] \ {p} /\ \A u \in Tasks \ {t} : todo'[u] = todo[u]
    BY <1>6, <1>b, <1>d DEF CleanUpPipe, DeletePipeFull, LivesOnly
  <2>2. EntriesKept /\ PipeTbl'[ToIndex(p)].PipeId = RESERVED
    BY <1>6, <1>a, DeleteEntries DEF CleanUpPipe
  <2>3. GoneIdle'  BY <2>1, <1>a DEF CleanUps, GoneIdle, LivesOnly
  <2>4. CleanersGone' /\ OwnedUnsent'
    BY <2>1, <1>a DEF CleanUps, CleanersGone, OwnedUnsent
  <2>5. IdsPlaced'
    <3>1. \A s \in Slots : PipeTbl'[s].PipeId \in PipeIds => ToIndex(PipeTbl'[s].PipeId) = s
      BY <2>2, <1>a DEF CleanUps, IdsPlaced, EntriesKept
    <3>2. \A s \in Slots : ToIndex(PipeTbl[s].PipeId)' = ToIndex(PipeTbl'[s].PipeId)  BY DEF ToIndex
    <3> QED BY <3>1, <3>2 DEF IdsPlaced
  <2>6. PipesListed'
    <3>1. ASSUME NEW u \in Tasks, cleaning[u] # NoApp, NEW s \in Slots,
                 PipeTbl'[s].PipeId \in PipeIds, PipeTbl'[s].AppId = cleaning[u]
          PROVE  PipeTbl'[s].PipeId \in todo'[u]
      <4>1. PipeTbl'[s].PipeId = PipeTbl[s].PipeId /\ PipeTbl[s].PipeId \in todo[u]
        BY <3>1, <2>2, <1>a DEF EntriesKept, CleanUps, PipesListed
      <4>2. PipeTbl[s].PipeId # p
        BY <3>1, <4>1, <2>2, <1>a, IdKinds DEF CleanUps, IdsPlaced
      <4> QED BY <4>1, <4>2, <2>1
    <3> QED BY <3>1, <2>1 DEF PipesListed
  <2> QED BY <2>3, <2>4, <2>5, <2>6 DEF CleanUps
<1>7. ASSUME NEW t \in Tasks, DrainRelease(t) PROVE CleanUps'
  <2> PICK b \in Bufs : b = cur[t]  BY <1>7, <1>b DEF DrainRelease
  <2>1. UNCHANGED cleanVars /\ UNCHANGED PipeTbl /\ pc' = pc /\ Buf' = [Buf EXCEPT ![b] = Decr(Buf[b])]
    BY <1>7 DEF DrainRelease, pipeVars
  <2> QED BY <2>1, <1>g, <1>h, <1>i
<1>8. ASSUME NEW t \in Tasks, DrainGet(t) PROVE CleanUps'
  <2>1. UNCHANGED cleanVars /\ UNCHANGED <<PipeTbl, Buf>> /\ pc' = pc
    BY <1>8, <1>b, <1>d DEF DrainGet, pipeVars, taskVars, LivesOnly
  <2> QED BY <2>1, <1>e, <1>g, <1>i
<1>9. ASSUME NEW t \in Tasks, DrainEnd(t) PROVE CleanUps'
  <2>1. UNCHANGED cleanVars /\ UNCHANGED <<PipeTbl, Buf>> /\ LivesOnly
    BY <1>9, <1>b, <1>d DEF DrainEnd, pipeVars, taskVars, LivesOnly
  <2> QED BY <2>1, <1>e, <1>g, <1>i
<1>10. ASSUME NEW t \in Tasks, QueueDelete(t) PROVE CleanUps'
  <2>1. UNCHANGED cleanVars /\ UNCHANGED <<PipeTbl, Buf>> /\ LivesOnly
    BY <1>10, <1>b, <1>d DEF QueueDelete, pipeVars, taskVars, LivesOnly
  <2> QED BY <2>1, <1>e, <1>g, <1>i
<1>11. ASSUME NEW t \in Tasks, DeletePipeDone(t) PROVE CleanUps'
  <2> PICK p \in PipeIds : p = pid[t]  BY <1>11, <1>c DEF DeletePipeDone, InTransition
  <2>1. UNCHANGED cleanVars /\ UNCHANGED Buf /\ LivesOnly
    BY <1>11, <1>b, <1>d DEF DeletePipeDone, LivesOnly
  <2>2. EntriesKept
    BY <1>11, <1>b, IdKinds DEF DeletePipeDone, EntriesKept, PipeDesc
  <2> QED BY <2>1, <2>2, <1>e, <1>i
<1>12. ASSUME NEW t \in Tasks, NEW a \in Apps, CleanUpApp(t, a) PROVE CleanUps'
  <2>1. /\ a \notin gone /\ gone' = gone \cup {a} /\ cleaning'[t] = a /\ todo'[t] = PipesOf(a)
        /\ \A u \in Tasks \ {t} : cleaning'[u] = cleaning[u] /\ todo'[u] = todo[u] /\ pc'[u] = pc[u]
        /\ \A u \in Tasks : AppOf[u] = a => u # t /\ pc[u] = "idle"
        /\ AppOf[t] \notin gone /\ UNCHANGED <<PipeTbl, Buf>>
    BY <1>12, <1>b DEF CleanUpApp, Calls, pipeVars
  <2>2. GoneIdle'  BY <2>1, <1>a DEF CleanUps, GoneIdle
  <2>3. CleanersGone'  BY <2>1, <1>a DEF CleanUps, CleanersGone
  <2>4. IdsPlaced' /\ OwnedUnsent'
    BY <2>1, <1>a DEF CleanUps, IdsPlaced, OwnedUnsent, ToIndex
  <2>5. PipesListed'
    <3>1. \A s \in Slots : PipeTbl[s].PipeId \in PipeIds /\ PipeTbl[s].AppId = a => PipeTbl[s].PipeId \in PipesOf(a)
      BY <1>a DEF PipesOf, IsMatch, CleanUps, IdsPlaced
    <3> QED BY <2>1, <3>1, <1>a DEF CleanUps, PipesListed
  <2> QED BY <2>2, <2>3, <2>4, <2>5 DEF CleanUps
<1>13. ASSUME NEW t \in Tasks, ZeroCopyReleaseAppId(t) PROVE CleanUps'
  <2>1. /\ cleaning[t] \in Apps /\ gone' = gone \ {cleaning[t]} /\ cleaning'[t] = NoApp
        /\ \A u \in Tasks \ {t} : cleaning'[u] = cleaning[u] /\ pc'[u] = pc[u]
        /\ AppOf[t] \notin gone /\ UNCHANGED <<PipeTbl, todo>>
    BY <1>13, <1>a, <1>b, <1>d DEF ZeroCopyReleaseAppId, pipeVars, CallLocals
  <2>2. GoneIdle'  BY <2>1, <1>a DEF CleanUps, GoneIdle
  <2>3. CleanersGone'  BY <2>1, <1>a, TaskAssumption DEF CleanUps, CleanersGone
  <2>4. OwnedUnsent'
    BY <1>13, <1>e, <1>f DEF ZeroCopyReleaseAppId, OwnedUnsent
  <2>5. IdsPlaced' /\ PipesListed'
    BY <2>1, <1>a DEF CleanUps, IdsPlaced, PipesListed, ToIndex
  <2> QED BY <2>2, <2>3, <2>4, <2>5 DEF CleanUps
<1>14. ASSUME NEW t \in Tasks, NEW p \in PipeIds, NEW m \in MsgIds, NEW lim \in MsgLims, SubscribeFull(t, p, m, lim) PROVE CleanUps'
  <2>1. UNCHANGED cleanVars /\ UNCHANGED <<PipeTbl, Buf>> /\ pc' = pc
    BY <1>14, <1>b, <1>d DEF SubscribeFull, pipeVars, taskVars, LivesOnly
  <2> QED BY <2>1, <1>e, <1>g, <1>i
<1>15. ASSUME NEW t \in Tasks, NEW p \in PipeIds, NEW m \in MsgIds, SubscribeNoBlock(t, p, m) PROVE CleanUps'
  <2>1. UNCHANGED cleanVars /\ UNCHANGED <<PipeTbl, Buf>> /\ pc' = pc
    BY <1>15, <1>b, <1>d DEF SubscribeNoBlock, pipeVars, taskVars, LivesOnly
  <2> QED BY <2>1, <1>e, <1>g, <1>i
<1>16. ASSUME NEW t \in Tasks, NEW p \in PipeIds, NEW m \in MsgIds, UnsubscribeFull(t, p, m) PROVE CleanUps'
  <2>1. UNCHANGED cleanVars /\ UNCHANGED <<PipeTbl, Buf>> /\ pc' = pc
    BY <1>16, <1>b, <1>d DEF UnsubscribeFull, pipeVars, taskVars, LivesOnly
  <2> QED BY <2>1, <1>e, <1>g, <1>i
<1>17. ASSUME NEW t \in Tasks, NEW b \in Bufs, AllocateMessageBuffer(t, b) PROVE CleanUps'
  <2>1. UNCHANGED cleanVars /\ UNCHANGED PipeTbl /\ pc' = pc
    BY <1>17 DEF AllocateMessageBuffer, pipeVars
  <2>2. \A c \in Bufs : Buf'[c].AppId # NoApp => Buf'[c].List = "ZeroCopy"
    BY <1>17, <1>b, <1>e DEF AllocateMessageBuffer
  <2> QED BY <2>1, <2>2, <1>g, <1>i
<1>18. ASSUME NEW t \in Tasks, ReleaseMessageBuffer(t) PROVE CleanUps'
  <2> PICK b \in Bufs : b = zc[t]  BY <1>18, <1>b DEF ReleaseMessageBuffer
  <2>1. UNCHANGED cleanVars /\ UNCHANGED PipeTbl /\ pc' = pc
        /\ Buf' = [Buf EXCEPT ![b] = Decr([Buf[b] EXCEPT !.AppId = NoApp])]
    BY <1>18 DEF ReleaseMessageBuffer, pipeVars
  <2> DEFINE bd == [Buf[b] EXCEPT !.AppId = NoApp]
  <2>2. bd \in BufferDesc /\ bd.AppId = NoApp  BY <1>b DEF BufferDesc
  <2>3. Decr(bd).AppId # NoApp => Decr(bd).List = "ZeroCopy"
    <3> HIDE DEF bd
    <3> QED BY <2>2, CountTags
  <2> HIDE DEF bd
  <2>4. \A c \in Bufs : Buf'[c].AppId # NoApp => Buf'[c].List = "ZeroCopy"
    BY <2>1, <2>3, <1>b, <1>e DEF bd
  <2> QED BY <2>1, <2>4, <1>g, <1>i
<1>19. ASSUME NEW t \in Tasks, NEW m \in MsgIds, FindDestinations(t, m) PROVE CleanUps'
  <2> PICK b \in Bufs : b = zc[t]  BY <1>19, <1>b DEF FindDestinations
  <2> PICK A \in SUBSET PipeIds : A = UnderLimit(m, Eligible(t, m))
    BY <1>a DEF UnderLimit, Eligible, TypeOK
  <2>1. UNCHANGED cleanVars /\ LivesOnly
    BY <1>19, <1>b DEF FindDestinations, Calls, LivesOnly
  <2>2. \A s \in Slots : PipeTbl'[s] = IF PipeTbl[s].PipeId \in A THEN CountPipe(PipeTbl[s]) ELSE PipeTbl[s]
    BY <1>19 DEF FindDestinations
  <2>3. \A e \in PipeDesc : CountPipe(e).PipeId = e.PipeId /\ CountPipe(e).AppId = e.AppId
    BY DEF PipeDesc, CountPipe
  <2>4. EntriesKept
    <3>1. \A s \in Slots : PipeTbl'[s].PipeId = PipeTbl[s].PipeId /\ PipeTbl'[s].AppId = PipeTbl[s].AppId
      BY <2>2, <2>3, <1>b
    <3> QED BY <3>1 DEF EntriesKept
  <2>5. Buf'[b].AppId = NoApp /\ \A c \in Bufs \ {b} : Buf'[c] = Buf[c]
    BY <1>19, <1>b DEF FindDestinations, Incr, BufferDesc
  <2>6. \A c \in Bufs : Buf'[c].AppId # NoApp => Buf'[c].List = "ZeroCopy"
    BY <2>5, <1>e
  <2> QED BY <2>1, <2>4, <2>6, <1>i
<1>20. ASSUME NEW t \in Tasks, NEW p \in PipeIds, QueuePut(t, p) PROVE CleanUps'
  <2>1. UNCHANGED cleanVars /\ UNCHANGED <<PipeTbl, Buf>> /\ pc' = pc
    BY <1>20, <1>b, <1>d DEF QueuePut, pipeVars, taskVars, LivesOnly
  <2> QED BY <2>1, <1>e, <1>g, <1>i
<1>21. ASSUME NEW t \in Tasks, NEW p \in PipeIds, QueuePutFail(t, p) PROVE CleanUps'
  <2>1. UNCHANGED cleanVars /\ UNCHANGED <<PipeTbl, Buf>> /\ LivesOnly
    BY <1>21, <1>b, <1>d DEF QueuePutFail, pipeVars, taskVars, LivesOnly
  <2> QED BY <2>1, <1>e, <1>g, <1>i
<1>22. ASSUME NEW t \in Tasks, UndoPut(t) PROVE CleanUps'
  <2> PICK p \in PipeIds : p = pid[t]  BY <1>22, <1>a, <1>b DEF UndoPut, CallLocals, TypeOK
  <2> PICK b \in Bufs : b = cur[t]  BY <1>22, <1>c DEF UndoPut, Sending
  <2>1. UNCHANGED cleanVars /\ LivesOnly /\ Buf' = [Buf EXCEPT ![b] = Decr(Buf[b])]
    BY <1>22, <1>b, <1>d DEF UndoPut, LivesOnly
  <2>2. EntriesKept
    BY <1>22, <1>b DEF UndoPut, UncountPipe, PipeDesc, EntriesKept
  <2> QED BY <2>1, <2>2, <1>h, <1>i
<1>23. ASSUME NEW t \in Tasks, TransmitDone(t) PROVE CleanUps'
  <2> PICK b \in Bufs : b = cur[t]  BY <1>23, <1>c DEF TransmitDone, Sending
  <2>1. UNCHANGED cleanVars /\ UNCHANGED PipeTbl /\ LivesOnly /\ Buf' = [Buf EXCEPT ![b] = Decr(Buf[b])]
    BY <1>23, <1>b, <1>d DEF TransmitDone, LivesOnly, pipeVars
  <2> QED BY <2>1, <1>g, <1>h, <1>i
<1>24. ASSUME NEW t \in Tasks, NEW p \in PipeIds, ReceiveBuffer(t, p) PROVE CleanUps'
  <2> PICK b \in Bufs \cup {NoBuf} : b = PipeTbl[ToIndex(p)].LastBuffer  BY <1>b DEF PipeDesc
  <2>1. UNCHANGED cleanVars /\ LivesOnly /\ Buf' = (IF b = NoBuf THEN Buf ELSE [Buf EXCEPT ![b] = Decr(Buf[b])])
    BY <1>24, <1>b DEF ReceiveBuffer, LivesOnly, Calls
  <2>2. EntriesKept
    BY <1>24, <1>b DEF ReceiveBuffer, PipeDesc, EntriesKept
  <2>3. \A c \in Bufs : Buf'[c].AppId # NoApp => Buf'[c].List = "ZeroCopy"
    BY <2>1, <1>e, <1>h
  <2> QED BY <2>1, <2>2, <2>3, <1>i
<1>25. ASSUME NEW t \in Tasks, QueueGet(t) PROVE CleanUps'
  <2>1. UNCHANGED cleanVars /\ UNCHANGED <<PipeTbl, Buf>> /\ LivesOnly
    BY <1>25, <1>b, <1>d DEF QueueGet, pipeVars, taskVars, LivesOnly
  <2> QED BY <2>1, <1>e, <1>g, <1>i
<1>26. ASSUME NEW t \in Tasks, QueueGetFail(t) PROVE CleanUps'
  <2>1. UNCHANGED cleanVars /\ UNCHANGED <<PipeTbl, Buf>> /\ LivesOnly
    BY <1>26, <1>b, <1>d DEF QueueGetFail, pipeVars, taskVars, LivesOnly
  <2> QED BY <2>1, <1>e, <1>g, <1>i
<1>27. ASSUME NEW t \in Tasks, ExportReference(t) PROVE CleanUps'
  <2> PICK p \in PipeIds : p = pid[t]  BY <1>27, <1>c DEF ExportReference, Receiving
  <2> PICK b \in Bufs : b = cur[t]  BY <1>27, <1>c DEF ExportReference
  <2>1. UNCHANGED cleanVars /\ LivesOnly
    BY <1>27, <1>b, <1>d DEF ExportReference, LivesOnly
  <2>2. EntriesKept
    <3> DEFINE e == [UncountPipe(p) EXCEPT !.LastBuffer = cur[t]]
    <3>1. e.PipeId = PipeTbl[ToIndex(p)].PipeId /\ e.AppId = PipeTbl[ToIndex(p)].AppId
      BY <1>b DEF UncountPipe, PipeDesc
    <3>2. PipeTbl' = [PipeTbl EXCEPT ![ToIndex(p)] = e] \/ PipeTbl' = PipeTbl
      BY <1>27 DEF ExportReference
    <3> HIDE DEF e
    <3> QED BY <3>1, <3>2, <1>b DEF EntriesKept
  <2>3. Decr(Incr(Buf[b], 1)).AppId # NoApp => Decr(Incr(Buf[b], 1)).List = "ZeroCopy"
    BY <1>b, <1>e, CountTags, IncrType
  <2>4. Buf' = [Buf EXCEPT ![b] = Decr(Incr(Buf[b], 1))] \/ Buf' = [Buf EXCEPT ![b] = Decr(Buf[b])]
    BY <1>27 DEF ExportReference
  <2>5. \A c \in Bufs : Buf'[c].AppId # NoApp => Buf'[c].List = "ZeroCopy"
    BY <2>3, <2>4, <1>b, <1>e, <1>f
  <2> QED BY <2>1, <2>2, <2>5, <1>i
<1>28. ASSUME NEW m \in MsgIds, NEW p \in PipeIds, NEW f \in BOOLEAN, SetRouteActive(m, p, f) PROVE CleanUps'
  <2>1. UNCHANGED cleanVars /\ UNCHANGED <<PipeTbl, Buf>> /\ pc' = pc
    BY <1>28, <1>b, <1>d DEF SetRouteActive, pipeVars, taskVars, LivesOnly
  <2> QED BY <2>1, <1>e, <1>g, <1>i
<1>29. CASE UNCHANGED vars
  BY <1>29, <1>e, <1>g, <1>i DEF vars, pipeVars, taskVars
<1> QED
  BY <1>1, <1>2, <1>3, <1>4, <1>5, <1>6, <1>7, <1>8, <1>9, <1>10, <1>11,
     <1>12, <1>13, <1>14, <1>15, <1>16, <1>17, <1>18, <1>19, <1>20, <1>21,
     <1>22, <1>23, <1>24, <1>25, <1>26, <1>27, <1>28, <1>29 DEF Next, Call,
     Continue, Wait

LEMMA Inv5Init == Init => Inv5
<1> SUFFICES ASSUME Init PROVE Inv5  OBVIOUS
<1>1. GoneIdle /\ CleanersGone /\ OwnedUnsent
  BY DEF Init, GoneIdle, CleanersGone, OwnedUnsent, FreeBuf
<1>2. IdsPlaced /\ PipesListed
  BY IdKinds DEF Init, IdsPlaced, PipesListed, ClearedDesc
<1> QED BY <1>1, <1>2, CountInit DEF Inv5, CleanUps

LEMMA Inv5Step == Inv5 /\ [Next]_vars => Inv5'
BY Inv3Step, CleanStep DEF Inv5

(* The clean up of an application releases its last buffers when no pipe   *)
(* of it is left, and each of those buffers has one reference.             *)
LEMMA NothingLeft ==
  ASSUME Inv5, NEW t \in Tasks, ZeroCopyReleaseAppId(t)
  PROVE  \E c \in Apps : ~Left(c)' /\ gone' = gone \ {c}
<1> PICK a \in Apps : a = cleaning[t]
  BY DEF ZeroCopyReleaseAppId, Inv5, Inv3, Inv2, Inv1, CallLocals
<1>a. TypeOK /\ UnsentOwned /\ PipesListed /\ OwnedUnsent
  BY DEF Inv5, Inv3, Inv2, Inv1, Accounting, CleanUps
<1>1. /\ UNCHANGED PipeTbl /\ todo[t] = {} /\ gone' = gone \ {a}
      /\ \A b \in Bufs : Buf'[b] = IF Buf[b].List = "ZeroCopy" /\ Buf[b].AppId = a THEN Decr(Buf[b]) ELSE Buf[b]
  BY DEF ZeroCopyReleaseAppId, pipeVars
<1>2. ASSUME NEW s \in Slots, PipeTbl'[s].PipeId \in PipeIds, PipeTbl'[s].AppId = a PROVE FALSE
  BY <1>1, <1>2, <1>a, TaskAssumption DEF PipesListed
<1>3. ASSUME NEW b \in Bufs, Buf'[b].UseCount > 0, Buf'[b].AppId = a PROVE FALSE
  <2>1. CASE Buf[b].List = "ZeroCopy" /\ Buf[b].AppId = a
    <3>1. PICK u \in Tasks : zc[u] = b  BY <2>1, <1>a DEF UnsentOwned
    <3>2. Buf[b].UseCount = 1  BY <3>1, <1>a, BufAssumption DEF UnsentOwned
    <3>3. Buf'[b] = Decr(Buf[b])  BY <2>1, <1>1
    <3>4. Decr(Buf[b]) = FreeBuf  BY <3>2 DEF Decr
    <3> QED BY <3>3, <3>4, <1>3 DEF FreeBuf
  <2>2. CASE ~(Buf[b].List = "ZeroCopy" /\ Buf[b].AppId = a)
    <3>1. Buf[b].AppId = a  BY <2>2, <1>1, <1>3
    <3> QED BY <2>2, <3>1, <1>a, TaskAssumption DEF OwnedUnsent
  <2> QED BY <2>1, <2>2
<1>4. ~Left(a)'  BY <1>2, <1>3 DEF Left
<1> QED BY <1>1, <1>4

(* An application leaves the set of those that are gone in that step only. *)
LEMMA GoneByCleanUp ==
  ASSUME Inv5, [Next]_vars, NEW c \in gone \ gone'
  PROVE  \E t \in Tasks : ZeroCopyReleaseAppId(t)
<1> SUFFICES ASSUME \A t \in Tasks : ~ZeroCopyReleaseAppId(t) PROVE gone \subseteq gone'
  OBVIOUS
<1>1. ASSUME NEW t \in Tasks, CreatePipe(t) PROVE gone \subseteq gone'
  BY <1>1 DEF CreatePipe, cleanVars
<1>2. ASSUME NEW t \in Tasks, NEW d \in Depths, CreatePipeDone(t, d) PROVE gone \subseteq gone'
  BY <1>2 DEF CreatePipeDone, cleanVars
<1>3. ASSUME NEW t \in Tasks, CreatePipeFail(t) PROVE gone \subseteq gone'
  BY <1>3 DEF CreatePipeFail, cleanVars
<1>4. ASSUME NEW t \in Tasks, NEW p \in PipeIds, NEW f \in BOOLEAN, SetPipeOpts(t, p, f) PROVE gone \subseteq gone'
  BY <1>4 DEF SetPipeOpts, cleanVars
<1>5. ASSUME NEW t \in Tasks, NEW p \in PipeIds, DeletePipe(t, p) PROVE gone \subseteq gone'
  BY <1>5 DEF DeletePipe, cleanVars
<1>6. ASSUME NEW t \in Tasks, NEW p \in PipeIds, CleanUpPipe(t, p) PROVE gone \subseteq gone'
  BY <1>6 DEF CleanUpPipe, cleanVars
<1>7. ASSUME NEW t \in Tasks, DrainRelease(t) PROVE gone \subseteq gone'
  BY <1>7 DEF DrainRelease, cleanVars
<1>8. ASSUME NEW t \in Tasks, DrainGet(t) PROVE gone \subseteq gone'
  BY <1>8 DEF DrainGet, cleanVars
<1>9. ASSUME NEW t \in Tasks, DrainEnd(t) PROVE gone \subseteq gone'
  BY <1>9 DEF DrainEnd, cleanVars
<1>10. ASSUME NEW t \in Tasks, QueueDelete(t) PROVE gone \subseteq gone'
  BY <1>10 DEF QueueDelete, cleanVars
<1>11. ASSUME NEW t \in Tasks, DeletePipeDone(t) PROVE gone \subseteq gone'
  BY <1>11 DEF DeletePipeDone, cleanVars
<1>12. ASSUME NEW t \in Tasks, NEW a \in Apps, CleanUpApp(t, a) PROVE gone \subseteq gone'
  BY <1>12 DEF CleanUpApp, cleanVars
<1>14. ASSUME NEW t \in Tasks, NEW p \in PipeIds, NEW m \in MsgIds, NEW lim \in MsgLims, SubscribeFull(t, p, m, lim) PROVE gone \subseteq gone'
  BY <1>14 DEF SubscribeFull, cleanVars
<1>15. ASSUME NEW t \in Tasks, NEW p \in PipeIds, NEW m \in MsgIds, SubscribeNoBlock(t, p, m) PROVE gone \subseteq gone'
  BY <1>15 DEF SubscribeNoBlock, cleanVars
<1>16. ASSUME NEW t \in Tasks, NEW p \in PipeIds, NEW m \in MsgIds, UnsubscribeFull(t, p, m) PROVE gone \subseteq gone'
  BY <1>16 DEF UnsubscribeFull, cleanVars
<1>17. ASSUME NEW t \in Tasks, NEW b \in Bufs, AllocateMessageBuffer(t, b) PROVE gone \subseteq gone'
  BY <1>17 DEF AllocateMessageBuffer, cleanVars
<1>18. ASSUME NEW t \in Tasks, ReleaseMessageBuffer(t) PROVE gone \subseteq gone'
  BY <1>18 DEF ReleaseMessageBuffer, cleanVars
<1>19. ASSUME NEW t \in Tasks, NEW m \in MsgIds, FindDestinations(t, m) PROVE gone \subseteq gone'
  BY <1>19 DEF FindDestinations, cleanVars
<1>20. ASSUME NEW t \in Tasks, NEW p \in PipeIds, QueuePut(t, p) PROVE gone \subseteq gone'
  BY <1>20 DEF QueuePut, cleanVars
<1>21. ASSUME NEW t \in Tasks, NEW p \in PipeIds, QueuePutFail(t, p) PROVE gone \subseteq gone'
  BY <1>21 DEF QueuePutFail, cleanVars
<1>22. ASSUME NEW t \in Tasks, UndoPut(t) PROVE gone \subseteq gone'
  BY <1>22 DEF UndoPut, cleanVars
<1>23. ASSUME NEW t \in Tasks, TransmitDone(t) PROVE gone \subseteq gone'
  BY <1>23 DEF TransmitDone, cleanVars
<1>24. ASSUME NEW t \in Tasks, NEW p \in PipeIds, ReceiveBuffer(t, p) PROVE gone \subseteq gone'
  BY <1>24 DEF ReceiveBuffer, cleanVars
<1>25. ASSUME NEW t \in Tasks, QueueGet(t) PROVE gone \subseteq gone'
  BY <1>25 DEF QueueGet, cleanVars
<1>26. ASSUME NEW t \in Tasks, QueueGetFail(t) PROVE gone \subseteq gone'
  BY <1>26 DEF QueueGetFail, cleanVars
<1>27. ASSUME NEW t \in Tasks, ExportReference(t) PROVE gone \subseteq gone'
  BY <1>27 DEF ExportReference, cleanVars
<1>28. ASSUME NEW m \in MsgIds, NEW p \in PipeIds, NEW f \in BOOLEAN, SetRouteActive(m, p, f) PROVE gone \subseteq gone'
  BY <1>28 DEF SetRouteActive, cleanVars
<1>29. CASE UNCHANGED vars  BY <1>29 DEF vars, cleanVars
<1> QED
  BY <1>1, <1>2, <1>3, <1>4, <1>5, <1>6, <1>7, <1>8, <1>9, <1>10, <1>11, <1>12, <1>14, <1>15, <1>16, <1>17, <1>18, <1>19, <1>20, <1>21, <1>22, <1>23, <1>24, <1>25, <1>26, <1>27, <1>28, <1>29 DEF Next, Call, Continue, Wait

(* When CFE_SB_CleanUpApp returns, no pipe and no message buffer carries   *)
(* the ID of the application: those it had when the list was made have     *)
(* been deleted, it could make no other in the meantime, and the buffers   *)
(* it never sent have gone back to the pool with their only reference.     *)
THEOREM CleanUpsComplete == Spec => CleanUpComplete
<1>1. Inv5 /\ [Next]_vars => [\A a \in gone \ gone' : ~Left(a)']_vars
  <2> SUFFICES ASSUME Inv5, [Next]_vars, NEW a \in gone \ gone' PROVE ~Left(a)'  OBVIOUS
  <2>1. PICK t \in Tasks : ZeroCopyReleaseAppId(t)  BY GoneByCleanUp
  <2>2. PICK c \in Apps : ~Left(c)' /\ gone' = gone \ {c}  BY <2>1, NothingLeft
  <2>3. a = c  BY <2>2
  <2> QED BY <2>2, <2>3
<1> QED BY Inv5Init, Inv5Step, <1>1, PTL DEF Spec, CleanUpComplete

-----------------------------------------------------------------------------
(* The messages of one subscription on a pipe.                             *)
Inv6 == Inv3 /\ BuffCountSound

\* The messages of m on the queue of p, still to be written, and taken.
OnQueue(m, p)   == {i \in DOMAIN Queue[p] : Buf[Queue[p][i]].MsgId = m}
ToWrite(m, p)   == {t \in Writing(p) : Buf[cur[t]].MsgId = m}
ToAccount(m, p) == {t \in Reading(p) : Buf[cur[t]].MsgId = m}

LEMMA OnPipeParts ==
  \A m, p : OnPipe(m, p) = Cardinality(OnQueue(m, p)) + Cardinality(ToWrite(m, p)) + Cardinality(ToAccount(m, p))
BY DEF OnPipe, OnQueue, ToWrite, ToAccount

(* Each of the three is a finite set.                                      *)
LEMMA PartsFinite ==
  ASSUME TypeOK, NEW m, NEW p \in PipeIds
  PROVE  /\ IsFiniteSet(OnQueue(m, p)) /\ Cardinality(OnQueue(m, p)) \in Nat
         /\ IsFiniteSet(ToWrite(m, p)) /\ Cardinality(ToWrite(m, p)) \in Nat
         /\ IsFiniteSet(ToAccount(m, p)) /\ Cardinality(ToAccount(m, p)) \in Nat
<1>1. Queue[p] \in Seq(Bufs)  BY DEF TypeOK
<1>2. DOMAIN Queue[p] = 1..Len(Queue[p]) /\ Len(Queue[p]) \in Nat  BY <1>1
<1>3. IsFiniteSet(DOMAIN Queue[p])  BY <1>2, FS_Interval
<1>4. OnQueue(m, p) \subseteq DOMAIN Queue[p] /\ ToWrite(m, p) \subseteq Tasks /\ ToAccount(m, p) \subseteq Tasks
  BY DEF OnQueue, ToWrite, ToAccount, Writing, Reading
<1>5. IsFiniteSet(OnQueue(m, p)) /\ IsFiniteSet(ToWrite(m, p)) /\ IsFiniteSet(ToAccount(m, p))
  BY <1>3, <1>4, FS_Subset, TaskAssumption
<1> QED BY <1>5, FS_CardinalityType

(* A larger set has no fewer elements.                                     *)
LEMMA AtLeast ==
  ASSUME NEW S, NEW T, IsFiniteSet(T), S \subseteq T
  PROVE  IsFiniteSet(S) /\ Cardinality(S) \in Nat /\ Cardinality(T) \in Nat /\ Cardinality(S) <= Cardinality(T)
BY FS_Subset, FS_CardinalityType

\* The count of a subscription is sound.
SoundAt(m, p) ==
  /\ Dest[m][p].BuffCount <= Dest[m][p].MsgId2PipeLim
  /\ Dest[m][p].BuffCount <= OnPipe(m, p)

\* The message of a buffer changes only while nobody has sent it.
TagKept(b) ==
  \/ Buf'[b].MsgId = Buf[b].MsgId
  \/ Buf[b].UseCount = 0 \/ Buf'[b].UseCount = 0 \/ \E t \in Tasks : zc[t] = b

(* Both facts, of the state after a step.                                  *)
LEMMA FreeUnheldNext ==
  ASSUME NEW b \in Bufs
  PROVE  (UseCountExact /\ Buf[b].UseCount = 0 => InCall(b) = {} /\ Queued(b) = {})'
<1>1. UseCountExact /\ Buf[b].UseCount = 0 => InCall(b) = {} /\ Queued(b) = {}
  BY FreeUnheld
<1> QED BY <1>1, PTL

LEMMA PartsFiniteNext ==
  ASSUME NEW m, NEW p \in PipeIds
  PROVE  (TypeOK => /\ IsFiniteSet(OnQueue(m, p)) /\ IsFiniteSet(ToWrite(m, p))
                    /\ IsFiniteSet(ToAccount(m, p)))'
<1>1. TypeOK => /\ IsFiniteSet(OnQueue(m, p)) /\ IsFiniteSet(ToWrite(m, p))
                /\ IsFiniteSet(ToAccount(m, p))
  BY PartsFinite
<1> QED BY <1>1, PTL

(* A buffer that is sent before and after such a step has the same message.*)
LEMMA SentKept ==
  ASSUME Inv3, Inv3', NEW b \in Bufs, TagKept(b),
         InCall(b) # {} \/ Queued(b) # {}, InCall(b)' # {} \/ Queued(b)' # {}
  PROVE  Buf'[b].MsgId = Buf[b].MsgId
<1>1. Buf[b].UseCount # 0  BY FreeUnheld DEF Inv3, Accounting
<1>2. \A t \in Tasks : zc[t] # b  BY UnsentUnheld DEF Inv3, Accounting
<1>3. Buf'[b].UseCount # 0
  <2>1. UseCountExact'  BY DEF Inv3, Accounting
  <2> SUFFICES ASSUME Buf'[b].UseCount = 0 PROVE InCall(b)' = {} /\ Queued(b)' = {}
    OBVIOUS
  <2>2. Buf[b].UseCount' = Buf'[b].UseCount  OBVIOUS
  <2> QED BY <2>1, <2>2, FreeUnheldNext
<1> QED BY <1>1, <1>2, <1>3 DEF TagKept

(* What stays on its way through p: the messages on an unchanged queue,    *)
(* and those of the calls that stay as they are.                           *)
LEMMA StillQueued ==
  ASSUME Inv3, Inv3', \A b \in Bufs : TagKept(b), NEW m, NEW p \in PipeIds, Queue'[p] = Queue[p]
  PROVE  OnQueue(m, p) \subseteq OnQueue(m, p)'
<1> SUFFICES ASSUME NEW i \in DOMAIN Queue[p], Buf[Queue[p][i]].MsgId = m
             PROVE  Buf'[Queue'[p][i]].MsgId = m
  BY DEF OnQueue
<1>1. Queue[p] \in Seq(Bufs)  BY DEF Inv3, Inv2, Inv1, TypeOK
<1> PICK b \in Bufs : b = Queue[p][i]  BY <1>1
<1>2. p \in Queued(b) /\ p \in Queued(b)'
  <2>1. Queued(b)' = {q \in PipeIds : \E j \in DOMAIN Queue'[q] : Queue'[q][j] = b}  BY DEF Queued
  <2> QED BY <2>1 DEF Queued
<1> QED BY <1>2, SentKept

LEMMA StillInCall ==
  ASSUME Inv3, Inv3', \A b \in Bufs : TagKept(b), NEW u \in Tasks, cur[u] \in Bufs, cur'[u] = cur[u]
  PROVE  Buf'[cur'[u]].MsgId = Buf[cur[u]].MsgId
<1> PICK b \in Bufs : b = cur[u]  OBVIOUS
<1>1. u \in InCall(b) /\ u \in InCall(b)'
  <2>1. InCall(b)' = {t \in Tasks : cur'[t] = b}  BY DEF InCall
  <2> QED BY <2>1 DEF InCall
<1> QED BY <1>1, SentKept

\* The calls that write to p, but for those of T, and those that took a
\* message from p, but for those of R, stay as they are.
WritersKept(p, T) == \A u \in Tasks \ T : p \in targets[u] => p \in targets'[u] /\ cur'[u] = cur[u]
ReadersKept(p, R) ==
  \A u \in Tasks \ R : pc[u] = "export" /\ pid[u] = p =>
    pc'[u] = "export" /\ pid'[u] = p /\ cur'[u] = cur[u]

LEMMA StillUsed ==
  ASSUME Inv3, Inv3', \A b \in Bufs : TagKept(b), NEW m, NEW p \in PipeIds, NEW T, NEW R,
         WritersKept(p, T), ReadersKept(p, R)
  PROVE  ToWrite(m, p) \ T \subseteq ToWrite(m, p)' /\ ToAccount(m, p) \ R \subseteq ToAccount(m, p)'
<1>a. TypeOK /\ CallLocals  BY DEF Inv3, Inv2, Inv1
<1>1. ToWrite(m, p)' = {u \in Tasks : p \in targets'[u] /\ Buf'[cur'[u]].MsgId = m}
  BY DEF ToWrite, Writing
<1>2. ToAccount(m, p)' = {u \in Tasks : pc'[u] = "export" /\ pid'[u] = p /\ Buf'[cur'[u]].MsgId = m}
  BY DEF ToAccount, Reading
<1>3. ASSUME NEW u \in ToWrite(m, p) \ T PROVE u \in ToWrite(m, p)'
  <2>1. u \in Tasks /\ p \in targets[u] /\ Buf[cur[u]].MsgId = m  BY <1>3 DEF ToWrite, Writing
  <2>2. cur[u] \in Bufs  BY <2>1, <1>a DEF CallLocals
  <2>3. p \in targets'[u] /\ cur'[u] = cur[u]  BY <1>3, <2>1 DEF WritersKept
  <2> QED BY <2>1, <2>2, <2>3, <1>1, StillInCall
<1>4. ASSUME NEW u \in ToAccount(m, p) \ R PROVE u \in ToAccount(m, p)'
  <2>1. u \in Tasks /\ pc[u] = "export" /\ pid[u] = p /\ Buf[cur[u]].MsgId = m
    BY <1>4 DEF ToAccount, Reading
  <2>2. cur[u] \in Bufs  BY <2>1, <1>a DEF CallLocals
  <2>3. pc'[u] = "export" /\ pid'[u] = p /\ cur'[u] = cur[u]  BY <1>4, <2>1 DEF ReadersKept
  <2> QED BY <2>1, <2>2, <2>3, <1>2, StillInCall
<1> QED BY <1>3, <1>4

(* A subscription whose count and limit stay, and whose messages stay.     *)
LEMMA PairKept ==
  ASSUME Inv3, Inv3', \A b \in Bufs : TagKept(b), NEW m \in MsgIds, NEW p \in PipeIds, SoundAt(m, p),
         Dest'[m][p].BuffCount <= Dest[m][p].BuffCount,
         Dest'[m][p].MsgId2PipeLim = Dest[m][p].MsgId2PipeLim,
         Queue'[p] = Queue[p], WritersKept(p, {}), ReadersKept(p, {})
  PROVE  SoundAt(m, p)'
<1>a. TypeOK /\ TypeOK'  BY DEF Inv3, Inv2, Inv1
<1>1. OnQueue(m, p) \subseteq OnQueue(m, p)'  BY StillQueued
<1>2. ToWrite(m, p) \subseteq ToWrite(m, p)' /\ ToAccount(m, p) \subseteq ToAccount(m, p)'
  BY StillUsed
<1>3. /\ Cardinality(OnQueue(m, p)) \in Nat /\ Cardinality(OnQueue(m, p)') \in Nat
      /\ Cardinality(OnQueue(m, p)) <= Cardinality(OnQueue(m, p)')
  BY <1>a, <1>1, PartsFiniteNext, AtLeast
<1>4. /\ Cardinality(ToWrite(m, p)) \in Nat /\ Cardinality(ToWrite(m, p)') \in Nat
      /\ Cardinality(ToWrite(m, p)) <= Cardinality(ToWrite(m, p)')
  BY <1>a, <1>2, PartsFiniteNext, AtLeast
<1>5. /\ Cardinality(ToAccount(m, p)) \in Nat /\ Cardinality(ToAccount(m, p)') \in Nat
      /\ Cardinality(ToAccount(m, p)) <= Cardinality(ToAccount(m, p)')
  BY <1>a, <1>2, PartsFiniteNext, AtLeast
<1>6. OnPipe(m, p)' = Cardinality(OnQueue(m, p)') + Cardinality(ToWrite(m, p)') + Cardinality(ToAccount(m, p)')
  BY DEF OnPipe, OnQueue, ToWrite, ToAccount
<1>7. OnPipe(m, p) <= OnPipe(m, p)' /\ OnPipe(m, p) \in Nat /\ OnPipe(m, p)' \in Nat
  BY <1>3, <1>4, <1>5, <1>6, OnPipeParts
<1>8. Dest[m][p].BuffCount \in Nat /\ Dest[m][p].MsgId2PipeLim \in Nat /\ Dest'[m][p].BuffCount \in Nat
  BY <1>a DEF TypeOK, Destination
<1> QED BY <1>7, <1>8 DEF SoundAt

(* Counting a reference up or down keeps the message, or frees the buffer. *)
LEMMA CountMessage ==
  ASSUME NEW bd \in BufferDesc
  PROVE  /\ Decr(bd).MsgId = bd.MsgId \/ Decr(bd).UseCount = 0
         /\ Decr(Incr(bd, 1)).MsgId = bd.MsgId \/ Decr(Incr(bd, 1)).UseCount = 0
<1>1. \A e \in BufferDesc : Decr(e).MsgId = e.MsgId \/ Decr(e).UseCount = 0
  BY DEF Decr, BufferDesc, FreeBuf
<1>2. Incr(bd, 1).MsgId = bd.MsgId  BY DEF Incr, BufferDesc
<1> QED BY <1>1, <1>2, IncrType

(* In every step, what was sent and is still held keeps its message.       *)
LEMMA TagStep == Inv3 /\ [Next]_vars => \A b \in Bufs : TagKept(b)
<1> SUFFICES ASSUME Inv3, [Next]_vars PROVE \A b \in Bufs : TagKept(b)  OBVIOUS
<1>a. TypeOK /\ CallLocals  BY DEF Inv3, Inv2, Inv1
<1>b. Buf \in [Bufs -> BufferDesc]  BY <1>a DEF TypeOK
<1>c. \A b \in Bufs : /\ Decr(Buf[b]).MsgId = Buf[b].MsgId \/ Decr(Buf[b]).UseCount = 0
                      /\ Decr(Incr(Buf[b], 1)).MsgId = Buf[b].MsgId \/ Decr(Incr(Buf[b], 1)).UseCount = 0
  BY <1>b, CountMessage
<1>d. ASSUME Buf' = Buf PROVE \A b \in Bufs : TagKept(b)  BY <1>d DEF TagKept
<1>e. ASSUME NEW c, Buf' = [Buf EXCEPT ![c] = Decr(Buf[c])] PROVE \A b \in Bufs : TagKept(b)
  BY <1>b, <1>c, <1>e DEF TagKept
<1>1. ASSUME NEW t \in Tasks, CreatePipe(t) PROVE \A b \in Bufs : TagKept(b)
  BY <1>1, <1>d DEF CreatePipe
<1>2. ASSUME NEW t \in Tasks, NEW d \in Depths, CreatePipeDone(t, d) PROVE \A b \in Bufs : TagKept(b)
  BY <1>2, <1>d DEF CreatePipeDone
<1>3. ASSUME NEW t \in Tasks, CreatePipeFail(t) PROVE \A b \in Bufs : TagKept(b)
  BY <1>3, <1>d DEF CreatePipeFail
<1>4. ASSUME NEW t \in Tasks, NEW p \in PipeIds, NEW f \in BOOLEAN, SetPipeOpts(t, p, f) PROVE \A b \in Bufs : TagKept(b)
  BY <1>4, <1>d DEF SetPipeOpts
<1>5. ASSUME NEW t \in Tasks, NEW p \in PipeIds, DeletePipe(t, p) PROVE \A b \in Bufs : TagKept(b)
  BY <1>5, <1>d DEF DeletePipe, DeletePipeFull
<1>6. ASSUME NEW t \in Tasks, NEW p \in PipeIds, CleanUpPipe(t, p) PROVE \A b \in Bufs : TagKept(b)
  BY <1>6, <1>d DEF CleanUpPipe, DeletePipeFull
<1>7. ASSUME NEW t \in Tasks, DrainRelease(t) PROVE \A b \in Bufs : TagKept(b)
  BY <1>7, <1>e DEF DrainRelease
<1>8. ASSUME NEW t \in Tasks, DrainGet(t) PROVE \A b \in Bufs : TagKept(b)
  BY <1>8, <1>d DEF DrainGet
<1>9. ASSUME NEW t \in Tasks, DrainEnd(t) PROVE \A b \in Bufs : TagKept(b)
  BY <1>9, <1>d DEF DrainEnd
<1>10. ASSUME NEW t \in Tasks, QueueDelete(t) PROVE \A b \in Bufs : TagKept(b)
  BY <1>10, <1>d DEF QueueDelete
<1>11. ASSUME NEW t \in Tasks, DeletePipeDone(t) PROVE \A b \in Bufs : TagKept(b)
  BY <1>11, <1>d DEF DeletePipeDone
<1>12. ASSUME NEW t \in Tasks, NEW a \in Apps, CleanUpApp(t, a) PROVE \A b \in Bufs : TagKept(b)
  BY <1>12, <1>d DEF CleanUpApp
<1>13. ASSUME NEW t \in Tasks, ZeroCopyReleaseAppId(t) PROVE \A b \in Bufs : TagKept(b)
  BY <1>13, <1>b, <1>c DEF ZeroCopyReleaseAppId, TagKept
<1>14. ASSUME NEW t \in Tasks, NEW p \in PipeIds, NEW m \in MsgIds, NEW lim \in MsgLims, SubscribeFull(t, p, m, lim) PROVE \A b \in Bufs : TagKept(b)
  BY <1>14, <1>d DEF SubscribeFull
<1>15. ASSUME NEW t \in Tasks, NEW p \in PipeIds, NEW m \in MsgIds, SubscribeNoBlock(t, p, m) PROVE \A b \in Bufs : TagKept(b)
  BY <1>15, <1>d DEF SubscribeNoBlock
<1>16. ASSUME NEW t \in Tasks, NEW p \in PipeIds, NEW m \in MsgIds, UnsubscribeFull(t, p, m) PROVE \A b \in Bufs : TagKept(b)
  BY <1>16, <1>d DEF UnsubscribeFull
<1>17. ASSUME NEW t \in Tasks, NEW c \in Bufs, AllocateMessageBuffer(t, c) PROVE \A b \in Bufs : TagKept(b)
  BY <1>17, <1>b DEF AllocateMessageBuffer, TagKept
<1>18. ASSUME NEW t \in Tasks, ReleaseMessageBuffer(t) PROVE \A b \in Bufs : TagKept(b)
  <2>1. \A b \in Bufs \ {zc[t]} : Buf'[b] = Buf[b]  BY <1>18, <1>b DEF ReleaseMessageBuffer
  <2> QED BY <2>1 DEF TagKept
<1>19. ASSUME NEW t \in Tasks, NEW m \in MsgIds, FindDestinations(t, m) PROVE \A b \in Bufs : TagKept(b)
  <2>1. \A b \in Bufs \ {zc[t]} : Buf'[b] = Buf[b]  BY <1>19, <1>b DEF FindDestinations
  <2> QED BY <2>1 DEF TagKept
<1>20. ASSUME NEW t \in Tasks, NEW p \in PipeIds, QueuePut(t, p) PROVE \A b \in Bufs : TagKept(b)
  BY <1>20, <1>d DEF QueuePut
<1>21. ASSUME NEW t \in Tasks, NEW p \in PipeIds, QueuePutFail(t, p) PROVE \A b \in Bufs : TagKept(b)
  BY <1>21, <1>d DEF QueuePutFail
<1>22. ASSUME NEW t \in Tasks, UndoPut(t) PROVE \A b \in Bufs : TagKept(b)
  BY <1>22, <1>e DEF UndoPut
<1>23. ASSUME NEW t \in Tasks, TransmitDone(t) PROVE \A b \in Bufs : TagKept(b)
  BY <1>23, <1>e DEF TransmitDone
<1>24. ASSUME NEW t \in Tasks, NEW p \in PipeIds, ReceiveBuffer(t, p) PROVE \A b \in Bufs : TagKept(b)
  <2> PICK c : c = PipeTbl[ToIndex(p)].LastBuffer  OBVIOUS
  <2>1. Buf' = Buf \/ Buf' = [Buf EXCEPT ![c] = Decr(Buf[c])]  BY <1>24 DEF ReceiveBuffer
  <2> QED BY <2>1, <1>d, <1>e
<1>25. ASSUME NEW t \in Tasks, QueueGet(t) PROVE \A b \in Bufs : TagKept(b)
  BY <1>25, <1>d DEF QueueGet
<1>26. ASSUME NEW t \in Tasks, QueueGetFail(t) PROVE \A b \in Bufs : TagKept(b)
  BY <1>26, <1>d DEF QueueGetFail
<1>27. ASSUME NEW t \in Tasks, ExportReference(t) PROVE \A b \in Bufs : TagKept(b)
  <2> PICK c : c = cur[t]  OBVIOUS
  <2>1. Buf' = [Buf EXCEPT ![c] = Decr(Incr(Buf[c], 1))] \/ Buf' = [Buf EXCEPT ![c] = Decr(Buf[c])]
    BY <1>27 DEF ExportReference
  <2>2. ASSUME Buf' = [Buf EXCEPT ![c] = Decr(Incr(Buf[c], 1))] PROVE \A b \in Bufs : TagKept(b)
    BY <2>2, <1>b, <1>c DEF TagKept
  <2> QED BY <2>1, <2>2, <1>e
<1>28. ASSUME NEW m \in MsgIds, NEW p \in PipeIds, NEW f \in BOOLEAN, SetRouteActive(m, p, f) PROVE \A b \in Bufs : TagKept(b)
  BY <1>28, <1>d DEF SetRouteActive
<1>29. CASE UNCHANGED vars  BY <1>29, <1>d DEF vars
<1> QED
  BY <1>1, <1>2, <1>3, <1>4, <1>5, <1>6, <1>7, <1>8, <1>9, <1>10, <1>11,
     <1>12, <1>13, <1>14, <1>15, <1>16, <1>17, <1>18, <1>19, <1>20, <1>21,
     <1>22, <1>23, <1>24, <1>25, <1>26, <1>27, <1>28, <1>29 DEF Next, Call,
     Continue, Wait

(* The count is sound after a step if it is covered by part of what is on  *)
(* its way then.                                                           *)
LEMMA Covered ==
  ASSUME TypeOK', NEW m \in MsgIds, NEW p \in PipeIds, NEW S, NEW W, NEW R,
         S \subseteq OnQueue(m, p)', W \subseteq ToWrite(m, p)', R \subseteq ToAccount(m, p)',
         Dest'[m][p].BuffCount <= Dest'[m][p].MsgId2PipeLim,
         Dest'[m][p].BuffCount <= Cardinality(S) + Cardinality(W) + Cardinality(R)
  PROVE  SoundAt(m, p)'
<1>1. /\ Cardinality(S) \in Nat /\ Cardinality(OnQueue(m, p)') \in Nat
      /\ Cardinality(S) <= Cardinality(OnQueue(m, p)')
  BY PartsFiniteNext, AtLeast
<1>2. /\ Cardinality(W) \in Nat /\ Cardinality(ToWrite(m, p)') \in Nat
      /\ Cardinality(W) <= Cardinality(ToWrite(m, p)')
  BY PartsFiniteNext, AtLeast
<1>3. /\ Cardinality(R) \in Nat /\ Cardinality(ToAccount(m, p)') \in Nat
      /\ Cardinality(R) <= Cardinality(ToAccount(m, p)')
  BY PartsFiniteNext, AtLeast
<1>4. OnPipe(m, p)' = Cardinality(OnQueue(m, p)') + Cardinality(ToWrite(m, p)') + Cardinality(ToAccount(m, p)')
  BY DEF OnPipe, OnQueue, ToWrite, ToAccount
<1>5. Dest'[m][p].BuffCount \in Nat  BY DEF TypeOK, Destination
<1> QED BY <1>1, <1>2, <1>3, <1>4, <1>5 DEF SoundAt

(* A sound count, in numbers.                                              *)
LEMMA SoundParts ==
  ASSUME TypeOK, NEW m \in MsgIds, NEW p \in PipeIds, SoundAt(m, p)
  PROVE  /\ Dest[m][p].BuffCount \in Nat /\ Dest[m][p].MsgId2PipeLim \in Nat
         /\ Dest[m][p].BuffCount <= Dest[m][p].MsgId2PipeLim
         /\ Dest[m][p].BuffCount <=
              Cardinality(OnQueue(m, p)) + Cardinality(ToWrite(m, p)) + Cardinality(ToAccount(m, p))
         /\ Cardinality(OnQueue(m, p)) \in Nat /\ Cardinality(ToWrite(m, p)) \in Nat
         /\ Cardinality(ToAccount(m, p)) \in Nat
<1>1. Dest[m][p] \in Destination  BY DEF TypeOK
<1> QED BY <1>1, OnPipeParts, PartsFinite DEF SoundAt, Destination

\* What a step of these lemmas starts from.
Steps == Inv6 /\ Inv3' /\ \A b \in Bufs : TagKept(b)

(* CFE_SB_TransmitTxn_FindDestinations counts a message for the accepted   *)
(* destinations, whose pipes the sender has still to write.                *)
LEMMA FindSound ==
  ASSUME Steps, NEW t \in Tasks, NEW m \in MsgIds, FindDestinations(t, m),
         NEW n \in MsgIds, NEW p \in Dests[n]
  PROVE  SoundAt(n, p)'
<1>a. TypeOK /\ CallLocals /\ TypeOK' /\ Inv3 /\ Inv3' /\ (\A b \in Bufs : TagKept(b)) /\ SoundAt(n, p)
  BY DEF Steps, Inv6, Inv3, Inv2, Inv1, BuffCountSound, SoundAt
<1>b. p \in PipeIds  BY <1>a DEF TypeOK
<1> PICK b \in Bufs : b = zc[t]  BY <1>a DEF FindDestinations, TypeOK
<1> PICK A \in SUBSET PipeIds : A = UnderLimit(m, Eligible(t, m))
  BY <1>a DEF UnderLimit, Eligible, TypeOK
<1>1. /\ targets'[t] = A /\ targets[t] = {} /\ cur'[t] = b /\ pc[t] = "idle"
      /\ \A u \in Tasks \ {t} : targets'[u] = targets[u] /\ cur'[u] = cur[u] /\ pc'[u] = pc[u]
      /\ UNCHANGED <<Queue, pid>>
  BY <1>a DEF FindDestinations, Calls, osVars, CallLocals, Sending, TypeOK
<1>2. WritersKept(p, {}) /\ ReadersKept(p, {})  BY <1>1 DEF WritersKept, ReadersKept
<1>3. CASE n = m /\ p \in A
  <2>1. Dest[m][p] \in Destination /\ Dest[m][p].BuffCount < Dest[m][p].MsgId2PipeLim
    BY <1>a, <1>b, <1>3 DEF TypeOK, UnderLimit
  <2>2. Dest'[m][p] = [Dest[m][p] EXCEPT !.BuffCount = @ + 1]
    BY <1>a, <1>b, <1>3 DEF FindDestinations, TypeOK
  <2>3. /\ Dest'[m][p].BuffCount = Dest[m][p].BuffCount + 1
        /\ Dest'[m][p].MsgId2PipeLim = Dest[m][p].MsgId2PipeLim
    BY <2>1, <2>2 DEF Destination
  <2>4. Buf'[b].MsgId = m
    <3>1. Cardinality(A) \in Nat  BY PipesFinite, FS_CardinalityType
    <3>2. Buf[b] \in BufferDesc  BY <1>a DEF TypeOK
    <3>3. Incr(Buf[b], Cardinality(A)) \in BufferDesc  BY <3>1, <3>2, IncrType
    <3>4. Buf'[b] = [Incr(Buf[b], Cardinality(A)) EXCEPT !.AppId = NoApp, !.List = "InTransit", !.MsgId = m]
      BY <1>a DEF FindDestinations, TypeOK
    <3> QED BY <3>3, <3>4 DEF BufferDesc
  <2>5. t \notin ToWrite(m, p) /\ t \in ToWrite(m, p)'
    BY <1>1, <1>3, <2>4 DEF ToWrite, Writing
  <2>6. /\ OnQueue(m, p) \subseteq OnQueue(m, p)' /\ ToWrite(m, p) \subseteq ToWrite(m, p)'
        /\ ToAccount(m, p) \subseteq ToAccount(m, p)'
    BY <1>a, <1>b, <1>1, <1>2, StillQueued, StillUsed
  <2>7. ToWrite(m, p) \cup {t} \subseteq ToWrite(m, p)'  BY <2>5, <2>6
  <2>8. Cardinality(ToWrite(m, p) \cup {t}) = Cardinality(ToWrite(m, p)) + 1
    BY <2>5, <1>a, <1>b, PartsFinite, Gain
  <2>9. Dest'[m][p].BuffCount <= Dest'[m][p].MsgId2PipeLim
    BY <2>1, <2>3 DEF Destination
  <2>10. Dest'[m][p].BuffCount <=
           Cardinality(OnQueue(m, p)) + Cardinality(ToWrite(m, p) \cup {t}) + Cardinality(ToAccount(m, p))
    BY <2>3, <2>8, <1>3, <1>a, <1>b, SoundParts
  <2> QED BY <2>6, <2>7, <2>9, <2>10, <1>3, <1>a, <1>b, Covered
<1>4. CASE ~(n = m /\ p \in A)
  <2>1. Dest'[n][p] = Dest[n][p]  BY <1>4, <1>a, <1>b DEF FindDestinations, TypeOK
  <2>2. Dest[n][p].BuffCount \in Nat  BY <1>a, <1>b, SoundParts
  <2> QED BY <2>1, <2>2, <1>a, <1>b, <1>1, <1>2, PairKept
<1> QED BY <1>3, <1>4

(* A message that is written moves from the calls to the queue.            *)
LEMMA PutSound ==
  ASSUME Steps, NEW t \in Tasks, NEW r \in PipeIds, QueuePut(t, r),
         NEW n \in MsgIds, NEW p \in Dests[n]
  PROVE  SoundAt(n, p)'
<1>a. TypeOK /\ CallLocals /\ TypeOK' /\ Inv3 /\ Inv3' /\ (\A b \in Bufs : TagKept(b)) /\ SoundAt(n, p)
  BY DEF Steps, Inv6, Inv3, Inv2, Inv1, BuffCountSound, SoundAt
<1>b. p \in PipeIds  BY <1>a DEF TypeOK
<1>1. /\ r \in targets[t] /\ targets'[t] = targets[t] \ {r} /\ pc[t] = "send" /\ cur[t] \in Bufs
      /\ \A u \in Tasks \ {t} : targets'[u] = targets[u]
      /\ Queue'[r] = Append(Queue[r], cur[t]) /\ \A q \in PipeIds \ {r} : Queue'[q] = Queue[q]
      /\ UNCHANGED <<Buf, pc, pid, cur, Dest>>
  BY <1>a DEF QueuePut, CallLocals, Sending, TypeOK, routeVars
<1>2. WritersKept(p, {t}) /\ ReadersKept(p, {})  BY <1>1 DEF WritersKept, ReadersKept
<1>3. CASE p = r
  <2>1. Queue[p] \in Seq(Bufs) /\ Len(Queue[p]) \in Nat  BY <1>a, <1>b DEF TypeOK
  <2>2. /\ DOMAIN Queue'[p] = DOMAIN Queue[p] \cup {Len(Queue[p]) + 1}
        /\ Len(Queue[p]) + 1 \notin DOMAIN Queue[p]
        /\ Queue'[p][Len(Queue[p]) + 1] = cur[t]
        /\ \A i \in DOMAIN Queue[p] : Queue'[p][i] = Queue[p][i]
    BY <2>1, <1>1, <1>3
  <2>3. /\ OnQueue(n, p) \subseteq OnQueue(n, p)' /\ Len(Queue[p]) + 1 \notin OnQueue(n, p)
        /\ Buf[cur[t]].MsgId = n => Len(Queue[p]) + 1 \in OnQueue(n, p)'
    BY <2>2, <1>1 DEF OnQueue
  <2>4. ToWrite(n, p) \ {t} \subseteq ToWrite(n, p)' /\ ToAccount(n, p) \subseteq ToAccount(n, p)'
    BY <1>a, <1>b, <1>2, StillUsed
  <2>5. t \in ToWrite(n, p) <=> Buf[cur[t]].MsgId = n  BY <1>1, <1>3 DEF ToWrite, Writing
  <2>6. CASE Buf[cur[t]].MsgId = n
    <3>1. Cardinality(OnQueue(n, p) \cup {Len(Queue[p]) + 1}) = Cardinality(OnQueue(n, p)) + 1
      BY <2>3, <1>a, <1>b, PartsFinite, Gain
    <3>2. Cardinality(ToWrite(n, p) \ {t}) = Cardinality(ToWrite(n, p)) - 1
      BY <2>5, <2>6, <1>a, <1>b, PartsFinite, Lose
    <3>3. OnQueue(n, p) \cup {Len(Queue[p]) + 1} \subseteq OnQueue(n, p)'  BY <2>3, <2>6
    <3>4. Dest'[n][p].BuffCount <=
             Cardinality(OnQueue(n, p) \cup {Len(Queue[p]) + 1})
               + Cardinality(ToWrite(n, p) \ {t}) + Cardinality(ToAccount(n, p))
      BY <3>1, <3>2, <1>1, <1>a, <1>b, SoundParts
    <3>5. Dest'[n][p].BuffCount <= Dest'[n][p].MsgId2PipeLim  BY <1>1, <1>a, <1>b, SoundParts
    <3> QED BY <3>3, <3>4, <3>5, <2>4, <1>a, <1>b, Covered
  <2>7. CASE Buf[cur[t]].MsgId # n
    <3>1. ToWrite(n, p) \subseteq ToWrite(n, p)'  BY <2>4, <2>5, <2>7
    <3>2. /\ Dest'[n][p].BuffCount <=
                Cardinality(OnQueue(n, p)) + Cardinality(ToWrite(n, p)) + Cardinality(ToAccount(n, p))
          /\ Dest'[n][p].BuffCount <= Dest'[n][p].MsgId2PipeLim
      BY <1>1, <1>a, <1>b, SoundParts
    <3> QED BY <3>1, <3>2, <2>3, <2>4, <1>a, <1>b, Covered
  <2> QED BY <2>6, <2>7
<1>4. CASE p # r
  <2>1. WritersKept(p, {})  BY <1>1, <1>4 DEF WritersKept
  <2>2. Dest[n][p].BuffCount \in Nat  BY <1>a, <1>b, SoundParts
  <2> QED BY <2>1, <2>2, <1>a, <1>b, <1>1, <1>2, <1>4, PairKept
<1> QED BY <1>3, <1>4

(* UncountDest lowers the count of one subscription by one, if it can.     *)
LEMMA Uncounted ==
  ASSUME TypeOK, NEW m, NEW r \in PipeIds, UncountDest(m, r), NEW n \in MsgIds, NEW p \in Dests[n]
  PROVE  /\ Dest'[n][p].MsgId2PipeLim = Dest[n][p].MsgId2PipeLim
         /\ n = m /\ p = r => Dest'[n][p].BuffCount = Less1(Dest[n][p].BuffCount)
         /\ ~(n = m /\ p = r) => Dest'[n][p].BuffCount = Dest[n][p].BuffCount
<1>1. p \in PipeIds /\ Dest[n][p] \in Destination  BY DEF TypeOK
<1>2. CASE n = m /\ p = r
  <2>1. Dest'[n][p] = [Dest[n][p] EXCEPT !.BuffCount = Less1(@)]
    BY <1>1, <1>2 DEF UncountDest, TypeOK
  <2> QED BY <1>1, <1>2, <2>1 DEF Destination
<1>3. CASE ~(n = m /\ p = r)
  <2>1. Dest'[n][p] = Dest[n][p]  BY <1>1, <1>3 DEF UncountDest, TypeOK
  <2> QED BY <1>3, <2>1
<1> QED BY <1>2, <1>3

(* A write that failed is taken back with its count.                       *)
LEMMA UndoSound ==
  ASSUME Steps, NEW t \in Tasks, UndoPut(t), NEW n \in MsgIds, NEW p \in Dests[n]
  PROVE  SoundAt(n, p)'
<1>a. TypeOK /\ CallLocals /\ TypeOK' /\ Inv3 /\ Inv3' /\ (\A b \in Bufs : TagKept(b)) /\ SoundAt(n, p)
  BY DEF Steps, Inv6, Inv3, Inv2, Inv1, BuffCountSound, SoundAt
<1>b. p \in PipeIds  BY <1>a DEF TypeOK
<1> PICK r \in PipeIds : r = pid[t]  BY <1>a DEF UndoPut, CallLocals, TypeOK
<1>1. /\ r \in targets[t] /\ targets'[t] = targets[t] \ {r} /\ pc[t] = "undo" /\ cur[t] \in Bufs
      /\ \A u \in Tasks \ {t} : targets'[u] = targets[u] /\ pc'[u] = pc[u] /\ pid'[u] = pid[u]
      /\ UNCHANGED <<Queue, cur>> /\ UncountDest(Buf[cur[t]].MsgId, r)
  BY <1>a DEF UndoPut, CallLocals, Sending, TypeOK, osVars
<1>2. WritersKept(p, {t}) /\ ReadersKept(p, {})  BY <1>1 DEF WritersKept, ReadersKept
<1>3. /\ Dest'[n][p].MsgId2PipeLim = Dest[n][p].MsgId2PipeLim
      /\ n = Buf[cur[t]].MsgId /\ p = r => Dest'[n][p].BuffCount = Less1(Dest[n][p].BuffCount)
      /\ ~(n = Buf[cur[t]].MsgId /\ p = r) => Dest'[n][p].BuffCount = Dest[n][p].BuffCount
  BY <1>1, <1>a, Uncounted
<1>4. CASE p = r
  <2>1. OnQueue(n, p) \subseteq OnQueue(n, p)'  BY <1>a, <1>b, <1>1, StillQueued
  <2>2. ToWrite(n, p) \ {t} \subseteq ToWrite(n, p)' /\ ToAccount(n, p) \subseteq ToAccount(n, p)'
    BY <1>a, <1>b, <1>2, StillUsed
  <2>3. t \in ToWrite(n, p) <=> Buf[cur[t]].MsgId = n  BY <1>1, <1>4 DEF ToWrite, Writing
  <2>4. CASE Buf[cur[t]].MsgId = n
    <3>1. Cardinality(ToWrite(n, p) \ {t}) = Cardinality(ToWrite(n, p)) - 1 /\ Cardinality(ToWrite(n, p)) \in Nat \ {0}
      BY <2>3, <2>4, <1>a, <1>b, PartsFinite, Lose
    <3>2. /\ Dest'[n][p].BuffCount <=
                Cardinality(OnQueue(n, p)) + Cardinality(ToWrite(n, p) \ {t}) + Cardinality(ToAccount(n, p))
          /\ Dest'[n][p].BuffCount <= Dest'[n][p].MsgId2PipeLim
      BY <3>1, <2>4, <1>3, <1>4, <1>a, <1>b, SoundParts DEF Less1
    <3> QED BY <3>2, <2>1, <2>2, <1>a, <1>b, Covered
  <2>5. CASE Buf[cur[t]].MsgId # n
    <3>1. ToWrite(n, p) \subseteq ToWrite(n, p)'  BY <2>2, <2>3, <2>5
    <3>2. /\ Dest'[n][p].BuffCount <=
                Cardinality(OnQueue(n, p)) + Cardinality(ToWrite(n, p)) + Cardinality(ToAccount(n, p))
          /\ Dest'[n][p].BuffCount <= Dest'[n][p].MsgId2PipeLim
      BY <2>5, <1>3, <1>a, <1>b, SoundParts
    <3> QED BY <3>1, <3>2, <2>1, <2>2, <1>a, <1>b, Covered
  <2> QED BY <2>4, <2>5
<1>5. CASE p # r
  <2>1. WritersKept(p, {})  BY <1>1, <1>5 DEF WritersKept
  <2>2. Dest[n][p].BuffCount \in Nat  BY <1>a, <1>b, SoundParts
  <2> QED BY <2>1, <2>2, <1>a, <1>b, <1>1, <1>2, <1>3, <1>5, PairKept
<1> QED BY <1>4, <1>5

(* A queue that loses its head keeps the other messages.                   *)
LEMMA TailKept ==
  ASSUME TypeOK, TypeOK', NEW m, NEW p \in PipeIds,
         Queue[p] # <<>>, Queue'[p] = Tail(Queue[p]), Buf' = Buf
  PROVE  Cardinality(OnQueue(m, p) \ {1}) <= Cardinality(OnQueue(m, p)')
<1>1. Queue[p] \in Seq(Bufs) /\ Len(Queue[p]) \in Nat \ {0}  BY DEF TypeOK
<1>2. /\ DOMAIN Queue[p] = 1..Len(Queue[p]) /\ DOMAIN Queue'[p] = 1..(Len(Queue[p]) - 1)
      /\ \A i \in 1..(Len(Queue[p]) - 1) : Queue'[p][i] = Queue[p][i + 1]
  BY <1>1
<1> DEFINE f == [i \in OnQueue(m, p) \ {1} |-> i - 1]
<1>3. OnQueue(m, p) \subseteq 1..Len(Queue[p])  BY <1>2 DEF OnQueue
<1>4. \A i \in OnQueue(m, p) \ {1} : i - 1 \in OnQueue(m, p)'
  <2> SUFFICES ASSUME NEW i \in OnQueue(m, p) \ {1} PROVE i - 1 \in OnQueue(m, p)'  OBVIOUS
  <2>1. i \in 1..Len(Queue[p]) /\ Buf[Queue[p][i]].MsgId = m  BY <1>2 DEF OnQueue
  <2>2. i - 1 \in 1..(Len(Queue[p]) - 1) /\ (i - 1) + 1 = i  BY <2>1, <1>1
  <2>3. Queue'[p][i - 1] = Queue[p][i]  BY <2>2, <1>2
  <2>4. OnQueue(m, p)' = {j \in DOMAIN Queue'[p] : Buf'[Queue'[p][j]].MsgId = m}  BY DEF OnQueue
  <2> QED BY <2>1, <2>2, <2>3, <2>4, <1>2
<1>5. \A i, j \in OnQueue(m, p) \ {1} : i - 1 = j - 1 => i = j  BY <1>3
<1>6. f \in Injection(OnQueue(m, p) \ {1}, OnQueue(m, p)')
  BY <1>4, <1>5 DEF Injection, IsInjective
<1>7. IsFiniteSet(OnQueue(m, p)')  BY PartsFiniteNext
<1> HIDE DEF f
<1> QED BY <1>6, <1>7, FS_Injection

(* A message that is taken moves from the queue to its receiver.           *)
LEMMA GetSound ==
  ASSUME Steps, NEW t \in Tasks, QueueGet(t), NEW n \in MsgIds, NEW p \in Dests[n]
  PROVE  SoundAt(n, p)'
<1>a. TypeOK /\ CallLocals /\ TypeOK' /\ Inv3 /\ Inv3' /\ (\A b \in Bufs : TagKept(b)) /\ SoundAt(n, p)
  BY DEF Steps, Inv6, Inv3, Inv2, Inv1, BuffCountSound, SoundAt
<1>b. p \in PipeIds  BY <1>a DEF TypeOK
<1> PICK r \in PipeIds : r = pid[t]  BY <1>a DEF QueueGet, CallLocals, Receiving
<1>1. /\ Queue[r] # <<>> /\ Queue'[r] = Tail(Queue[r]) /\ \A q \in PipeIds \ {r} : Queue'[q] = Queue[q]
      /\ pc[t] = "get" /\ pc'[t] = "export" /\ cur'[t] = Head(Queue[r]) /\ targets[t] = {}
      /\ \A u \in Tasks \ {t} : pc'[u] = pc[u] /\ cur'[u] = cur[u]
      /\ UNCHANGED <<Buf, pid, targets, Dest>>
  BY <1>a DEF QueueGet, CallLocals, Sending, TypeOK, routeVars
<1>2. WritersKept(p, {}) /\ ReadersKept(p, {})  BY <1>1 DEF WritersKept, ReadersKept
<1>3. CASE p = r
  <2>1. ToWrite(n, p) \subseteq ToWrite(n, p)' /\ ToAccount(n, p) \subseteq ToAccount(n, p)'
    BY <1>a, <1>b, <1>2, StillUsed
  <2>2. Cardinality(OnQueue(n, p) \ {1}) <= Cardinality(OnQueue(n, p)')
    BY <1>1, <1>3, <1>a, <1>b, TailKept
  <2>3. Cardinality(OnQueue(n, p)') \in Nat  BY <1>a, <1>b, PartsFiniteNext, FS_CardinalityType
  <2>4. Queue[p] \in Seq(Bufs) /\ 1 \in DOMAIN Queue[p] /\ Head(Queue[p]) = Queue[p][1]
    BY <1>1, <1>3, <1>a, <1>b DEF TypeOK
  <2>5. 1 \in OnQueue(n, p) <=> Buf[Head(Queue[p])].MsgId = n  BY <2>4 DEF OnQueue
  <2>6. t \notin ToAccount(n, p) /\ (Buf[Head(Queue[p])].MsgId = n => t \in ToAccount(n, p)')
    BY <1>1, <1>3 DEF ToAccount, Reading
  <2>7. Dest'[n][p].BuffCount <= Dest'[n][p].MsgId2PipeLim  BY <1>1, <1>a, <1>b, SoundParts
  <2>8. CASE Buf[Head(Queue[p])].MsgId = n
    <3>1. Cardinality(OnQueue(n, p) \ {1}) = Cardinality(OnQueue(n, p)) - 1
      BY <2>5, <2>8, <1>a, <1>b, PartsFinite, Lose
    <3>2. Cardinality(ToAccount(n, p) \cup {t}) = Cardinality(ToAccount(n, p)) + 1
      BY <2>6, <1>a, <1>b, PartsFinite, Gain
    <3>3. ToAccount(n, p) \cup {t} \subseteq ToAccount(n, p)'  BY <2>1, <2>6, <2>8
    <3>4. Dest'[n][p].BuffCount <=
            Cardinality(OnQueue(n, p)') + Cardinality(ToWrite(n, p)) + Cardinality(ToAccount(n, p) \cup {t})
      BY <3>1, <3>2, <2>2, <2>3, <1>1, <1>a, <1>b, SoundParts
    <3> QED BY <3>3, <3>4, <2>1, <2>7, <1>a, <1>b, Covered
  <2>9. CASE Buf[Head(Queue[p])].MsgId # n
    <3>1. Cardinality(OnQueue(n, p)) <= Cardinality(OnQueue(n, p)')
      <4>1. OnQueue(n, p) \ {1} = OnQueue(n, p)  BY <2>5, <2>9
      <4> QED BY <4>1, <2>2
    <3>2. Dest'[n][p].BuffCount <=
            Cardinality(OnQueue(n, p)') + Cardinality(ToWrite(n, p)) + Cardinality(ToAccount(n, p))
      BY <3>1, <2>3, <1>1, <1>a, <1>b, SoundParts
    <3> QED BY <3>2, <2>1, <2>7, <1>a, <1>b, Covered
  <2> QED BY <2>8, <2>9
<1>4. CASE p # r
  <2>1. Dest[n][p].BuffCount \in Nat  BY <1>a, <1>b, SoundParts
  <2> QED BY <2>1, <1>a, <1>b, <1>1, <1>2, <1>4, PairKept
<1> QED BY <1>3, <1>4

(* CFE_SB_ReceiveTxn_ExportReference takes a message off the count of its  *)
(* subscription, on the pipe it was received from.                         *)
LEMMA ExportSound ==
  ASSUME Steps, NEW t \in Tasks, ExportReference(t), NEW n \in MsgIds, NEW p \in Dests[n]
  PROVE  SoundAt(n, p)'
<1>a. TypeOK /\ CallLocals /\ TypeOK' /\ Inv3 /\ Inv3' /\ (\A b \in Bufs : TagKept(b)) /\ SoundAt(n, p)
  BY DEF Steps, Inv6, Inv3, Inv2, Inv1, BuffCountSound, SoundAt
<1>b. p \in PipeIds /\ IsMatch(p)  BY <1>a DEF TypeOK, Inv3, Inv2, NoDanglingDest
<1> PICK r \in PipeIds : r = pid[t]  BY <1>a DEF ExportReference, CallLocals, Receiving
<1>1. /\ pc[t] = "export" /\ cur[t] \in Bufs /\ targets[t] = {}
      /\ \A u \in Tasks \ {t} : pc'[u] = pc[u] /\ pid'[u] = pid[u] /\ cur'[u] = cur[u]
      /\ UNCHANGED <<Queue, targets>>
  BY <1>a DEF ExportReference, CallLocals, Sending, TypeOK, osVars
<1>2. \/ IsMatch(r) /\ UncountDest(Buf[cur[t]].MsgId, r)
      \/ ~IsMatch(r) /\ Dest' = Dest
  BY DEF ExportReference
<1>3. WritersKept(p, {}) /\ ReadersKept(p, {t})  BY <1>1 DEF WritersKept, ReadersKept
<1>4. CASE p = r
  <2>1. /\ Dest'[n][p].MsgId2PipeLim = Dest[n][p].MsgId2PipeLim
        /\ n = Buf[cur[t]].MsgId => Dest'[n][p].BuffCount = Less1(Dest[n][p].BuffCount)
        /\ n # Buf[cur[t]].MsgId => Dest'[n][p].BuffCount = Dest[n][p].BuffCount
    BY <1>2, <1>4, <1>a, <1>b, Uncounted
  <2>2. OnQueue(n, p) \subseteq OnQueue(n, p)'  BY <1>a, <1>b, <1>1, StillQueued
  <2>3. ToWrite(n, p) \subseteq ToWrite(n, p)' /\ ToAccount(n, p) \ {t} \subseteq ToAccount(n, p)'
    BY <1>a, <1>b, <1>3, StillUsed
  <2>4. t \in ToAccount(n, p) <=> Buf[cur[t]].MsgId = n  BY <1>1, <1>4 DEF ToAccount, Reading
  <2>5. CASE Buf[cur[t]].MsgId = n
    <3>1. Cardinality(ToAccount(n, p) \ {t}) = Cardinality(ToAccount(n, p)) - 1 /\ Cardinality(ToAccount(n, p)) \in Nat \ {0}
      BY <2>4, <2>5, <1>a, <1>b, PartsFinite, Lose
    <3>2. /\ Dest'[n][p].BuffCount <=
                Cardinality(OnQueue(n, p)) + Cardinality(ToWrite(n, p)) + Cardinality(ToAccount(n, p) \ {t})
          /\ Dest'[n][p].BuffCount <= Dest'[n][p].MsgId2PipeLim
      BY <3>1, <2>1, <2>5, <1>a, <1>b, SoundParts DEF Less1
    <3> QED BY <3>2, <2>2, <2>3, <1>a, <1>b, Covered
  <2>6. CASE Buf[cur[t]].MsgId # n
    <3>1. ToAccount(n, p) \subseteq ToAccount(n, p)'  BY <2>3, <2>4, <2>6
    <3>2. /\ Dest'[n][p].BuffCount <=
                Cardinality(OnQueue(n, p)) + Cardinality(ToWrite(n, p)) + Cardinality(ToAccount(n, p))
          /\ Dest'[n][p].BuffCount <= Dest'[n][p].MsgId2PipeLim
      BY <2>1, <2>6, <1>a, <1>b, SoundParts
    <3> QED BY <3>1, <3>2, <2>2, <2>3, <1>a, <1>b, Covered
  <2> QED BY <2>5, <2>6
<1>5. CASE p # r
  <2>1. ReadersKept(p, {})
    <3>1. pid[t] # p  BY <1>5
    <3> QED BY <1>1, <3>1 DEF ReadersKept
  <2>2. /\ Dest'[n][p].MsgId2PipeLim = Dest[n][p].MsgId2PipeLim
        /\ Dest'[n][p].BuffCount = Dest[n][p].BuffCount
    BY <1>2, <1>5, <1>a, Uncounted
  <2>3. Dest[n][p].BuffCount \in Nat  BY <1>a, <1>b, SoundParts
  <2> QED BY <2>1, <2>2, <2>3, <1>a, <1>b, <1>1, <1>3, PairKept
<1> QED BY <1>4, <1>5

(* Every step keeps the counts of the subscriptions sound.                 *)
LEMMA BuffStep == Inv6 /\ [Next]_vars => BuffCountSound'
<1> DEFINE Goal == \A n \in MsgIds : \A p \in Dests'[n] : SoundAt(n, p)'
<1> SUFFICES ASSUME Inv6, [Next]_vars PROVE Goal
  <2>1. (\A n \in MsgIds : \A p \in Dests[n] : SoundAt(n, p))' => BuffCountSound'
    BY DEF SoundAt, BuffCountSound
  <2> QED BY <2>1
<1>a. Inv3 /\ TypeOK /\ CallLocals /\ NoDanglingDest /\ SlotOwned  BY DEF Inv6, Inv3, Inv2, Inv1
<1>b. Inv3' /\ TypeOK' /\ \A b \in Bufs : TagKept(b)
  BY <1>a, Inv3Step, TagStep DEF Inv3, Inv2, Inv1
<1>c. Steps  BY <1>b DEF Steps
<1>d. \A n \in MsgIds : \A p \in Dests[n] : p \in PipeIds /\ IsMatch(p) /\ SoundAt(n, p) /\ Dest[n][p] \in Destination
  BY <1>a DEF Inv6, BuffCountSound, SoundAt, NoDanglingDest, TypeOK
<1>e. /\ pc \in [Tasks -> Locations] /\ cur \in [Tasks -> Bufs \cup {NoBuf}]
      /\ pid \in [Tasks -> PipeIds \cup {UNDEFINED}] /\ Queue \in [PipeIds -> Seq(Bufs)]
      /\ Dests \in [MsgIds -> SUBSET PipeIds] /\ Dest \in [MsgIds -> [PipeIds -> Destination]]
      /\ targets \in [Tasks -> SUBSET PipeIds]
      /\ \A u \in Tasks : ~Sending(u) => targets[u] = {}
      /\ \A u \in Tasks : InTransition(u) => pid[u] \in PipeIds /\ ~IsMatch(pid[u])
  BY <1>a, IdKinds DEF TypeOK, CallLocals, SlotOwned, IsMatch
<1>q. ASSUME NEW n \in MsgIds, NEW p \in Dests[n], Dest'[n][p] = Dest[n][p], Queue'[p] = Queue[p],
             WritersKept(p, {}), ReadersKept(p, {})
      PROVE  SoundAt(n, p)'
  <2>1. Dest[n][p].BuffCount \in Nat  BY <1>d DEF Destination
  <2> QED BY <2>1, <1>a, <1>b, <1>d, <1>q, PairKept
\* The calls that are on some pipe stay as they are.
<1> DEFINE CallsKept ==
      /\ \A u \in Tasks : targets[u] # {} => targets'[u] = targets[u] /\ cur'[u] = cur[u]
      /\ \A u \in Tasks : pc[u] = "export" => pc'[u] = "export" /\ pid'[u] = pid[u] /\ cur'[u] = cur[u]
<1>r. ASSUME CallsKept PROVE \A p : WritersKept(p, {}) /\ ReadersKept(p, {})
  BY <1>r DEF WritersKept, ReadersKept
<1>s. ASSUME CallsKept, UNCHANGED <<Dests, Dest, Queue>> PROVE Goal
  BY <1>q, <1>r, <1>s
\* A pipe that is deleted is no destination any more.
<1>t. ASSUME CallsKept, UNCHANGED Queue, NEW r \in PipeIds, NEW ms \in SUBSET MsgIds, RemoveDest(ms, r) PROVE Goal
  <2> SUFFICES ASSUME NEW n \in MsgIds, NEW p \in Dests'[n] PROVE SoundAt(n, p)'  OBVIOUS
  <2>1. p \in Dests[n] /\ Dest'[n][p] = Dest[n][p]
    BY <1>t, <1>e DEF RemoveDest
  <2> QED BY <2>1, <1>q, <1>r, <1>t
<1> HIDE DEF CallsKept
<1>1. ASSUME NEW t \in Tasks, CreatePipe(t) PROVE Goal
  <2>1. CallsKept  BY <1>1, <1>e DEF CallsKept, CreatePipe, Calls, Owns, Sending, taskVars
  <2>2. UNCHANGED <<Dests, Dest, Queue>>  BY <1>1 DEF CreatePipe, routeVars, osVars
  <2> QED BY <2>1, <2>2, <1>s
<1>2. ASSUME NEW t \in Tasks, NEW d \in Depths, CreatePipeDone(t, d) PROVE Goal
  <2>1. CallsKept  BY <1>2, <1>e DEF CallsKept, CreatePipeDone, Calls, Owns, Sending, taskVars
  <2>2. UNCHANGED <<Dests, Dest, Queue>>  BY <1>2 DEF CreatePipeDone, routeVars, osVars
  <2> QED BY <2>1, <2>2, <1>s
<1>3. ASSUME NEW t \in Tasks, CreatePipeFail(t) PROVE Goal
  <2>1. CallsKept  BY <1>3, <1>e DEF CallsKept, CreatePipeFail, Calls, Owns, Sending, taskVars
  <2>2. UNCHANGED <<Dests, Dest, Queue>>  BY <1>3 DEF CreatePipeFail, routeVars, osVars
  <2> QED BY <2>1, <2>2, <1>s
<1>4. ASSUME NEW t \in Tasks, NEW p \in PipeIds, NEW f \in BOOLEAN, SetPipeOpts(t, p, f) PROVE Goal
  <2>1. CallsKept  BY <1>4, <1>e DEF CallsKept, SetPipeOpts, Calls, Owns, Sending, taskVars
  <2>2. UNCHANGED <<Dests, Dest, Queue>>  BY <1>4 DEF SetPipeOpts, routeVars, osVars
  <2> QED BY <2>1, <2>2, <1>s
<1>5. ASSUME NEW t \in Tasks, NEW p \in PipeIds, DeletePipe(t, p) PROVE Goal
  <2>1. CallsKept  BY <1>5, <1>e DEF CallsKept, DeletePipe, DeletePipeFull, Calls, Sending
  <2>2. UNCHANGED Queue /\ RemoveDest(Routes, p) /\ Routes \in SUBSET MsgIds
    BY <1>5, <1>a DEF DeletePipe, DeletePipeFull, osVars, TypeOK
  <2> QED BY <2>1, <2>2, <1>t
<1>6. ASSUME NEW t \in Tasks, NEW p \in PipeIds, CleanUpPipe(t, p) PROVE Goal
  <2>1. CallsKept  BY <1>6, <1>e DEF CallsKept, CleanUpPipe, DeletePipeFull, Calls, Sending
  <2>2. UNCHANGED Queue /\ RemoveDest(Routes, p) /\ Routes \in SUBSET MsgIds
    BY <1>6, <1>a DEF CleanUpPipe, DeletePipeFull, osVars, TypeOK
  <2> QED BY <2>1, <2>2, <1>t
<1>7. ASSUME NEW t \in Tasks, DrainRelease(t) PROVE Goal
  <2>1. CallsKept  BY <1>7, <1>e DEF CallsKept, DrainRelease, Calls, Owns, Sending, taskVars
  <2>2. UNCHANGED <<Dests, Dest, Queue>>  BY <1>7 DEF DrainRelease, routeVars, osVars
  <2> QED BY <2>1, <2>2, <1>s
<1>8. ASSUME NEW t \in Tasks, DrainGet(t) PROVE Goal
  <2>1. CallsKept  BY <1>8, <1>e DEF CallsKept, DrainGet, Sending
  <2>2. /\ pid[t] \in PipeIds /\ ~IsMatch(pid[t]) /\ UNCHANGED <<Dests, Dest>>
        /\ \A p \in PipeIds \ {pid[t]} : Queue'[p] = Queue[p]
    BY <1>8, <1>e DEF DrainGet, InTransition, routeVars
  <2> QED BY <2>1, <2>2, <1>d, <1>q, <1>r
<1>9. ASSUME NEW t \in Tasks, DrainEnd(t) PROVE Goal
  <2>1. CallsKept  BY <1>9, <1>e DEF CallsKept, DrainEnd, Calls, Owns, Sending, taskVars
  <2>2. UNCHANGED <<Dests, Dest, Queue>>  BY <1>9 DEF DrainEnd, routeVars, osVars
  <2> QED BY <2>1, <2>2, <1>s
<1>10. ASSUME NEW t \in Tasks, QueueDelete(t) PROVE Goal
  <2>1. CallsKept  BY <1>10, <1>e DEF CallsKept, QueueDelete, Calls, Owns, Sending, taskVars
  <2>2. UNCHANGED <<Dests, Dest, Queue>>  BY <1>10 DEF QueueDelete, routeVars, osVars
  <2> QED BY <2>1, <2>2, <1>s
<1>11. ASSUME NEW t \in Tasks, DeletePipeDone(t) PROVE Goal
  <2>1. CallsKept  BY <1>11, <1>e DEF CallsKept, DeletePipeDone, Calls, Owns, Sending, taskVars
  <2>2. UNCHANGED <<Dests, Dest, Queue>>  BY <1>11 DEF DeletePipeDone, routeVars, osVars
  <2> QED BY <2>1, <2>2, <1>s
<1>12. ASSUME NEW t \in Tasks, NEW a \in Apps, CleanUpApp(t, a) PROVE Goal
  <2>1. CallsKept  BY <1>12, <1>e DEF CallsKept, CleanUpApp, Calls, Owns, Sending, taskVars
  <2>2. UNCHANGED <<Dests, Dest, Queue>>  BY <1>12 DEF CleanUpApp, routeVars, osVars
  <2> QED BY <2>1, <2>2, <1>s
<1>13. ASSUME NEW t \in Tasks, ZeroCopyReleaseAppId(t) PROVE Goal
  <2>1. CallsKept  BY <1>13, <1>e DEF CallsKept, ZeroCopyReleaseAppId, Calls, Owns, Sending, taskVars
  <2>2. UNCHANGED <<Dests, Dest, Queue>>  BY <1>13 DEF ZeroCopyReleaseAppId, routeVars, osVars
  <2> QED BY <2>1, <2>2, <1>s
<1>14. ASSUME NEW t \in Tasks, NEW p \in PipeIds, NEW m \in MsgIds, NEW lim \in MsgLims, SubscribeFull(t, p, m, lim) PROVE Goal
  <2>1. CallsKept /\ UNCHANGED Queue  BY <1>14, <1>e DEF CallsKept, SubscribeFull, taskVars, osVars
  <2> SUFFICES ASSUME NEW n \in MsgIds, NEW q \in Dests'[n] PROVE SoundAt(n, q)'  OBVIOUS
  <2>2. CASE n = m /\ q = p
    <3>1. Dest'[n][q].BuffCount = 0 /\ Dest'[n][q].MsgId2PipeLim = lim
      BY <1>14, <2>2, <1>e DEF SubscribeFull
    <3>2. lim \in Nat /\ Cardinality({}) = 0  BY SizeAssumption, FS_EmptySet
    <3> QED BY <3>1, <3>2, <2>2, <1>b, Covered
  <2>3. CASE ~(n = m /\ q = p)
    <3>1. q \in Dests[n] /\ Dest'[n][q] = Dest[n][q]
      BY <1>14, <2>3, <1>e DEF SubscribeFull
    <3> QED BY <3>1, <2>1, <1>q, <1>r
  <2> QED BY <2>2, <2>3
<1>15. ASSUME NEW t \in Tasks, NEW p \in PipeIds, NEW m \in MsgIds, SubscribeNoBlock(t, p, m) PROVE Goal
  <2>1. CallsKept  BY <1>15, <1>e DEF CallsKept, SubscribeNoBlock, Calls, Owns, Sending, taskVars
  <2>2. UNCHANGED <<Dests, Dest, Queue>>  BY <1>15 DEF SubscribeNoBlock, routeVars, osVars
  <2> QED BY <2>1, <2>2, <1>s
<1>16. ASSUME NEW t \in Tasks, NEW p \in PipeIds, NEW m \in MsgIds, UnsubscribeFull(t, p, m) PROVE Goal
  <2>1. CallsKept  BY <1>16, <1>e DEF CallsKept, UnsubscribeFull, taskVars
  <2>2. UNCHANGED Queue /\ RemoveDest({m}, p)  BY <1>16 DEF UnsubscribeFull, osVars
  <2> QED BY <2>1, <2>2, <1>t
<1>17. ASSUME NEW t \in Tasks, NEW b \in Bufs, AllocateMessageBuffer(t, b) PROVE Goal
  <2>1. CallsKept  BY <1>17, <1>e DEF CallsKept, AllocateMessageBuffer, Calls, Owns, Sending, taskVars
  <2>2. UNCHANGED <<Dests, Dest, Queue>>  BY <1>17 DEF AllocateMessageBuffer, routeVars, osVars
  <2> QED BY <2>1, <2>2, <1>s
<1>18. ASSUME NEW t \in Tasks, ReleaseMessageBuffer(t) PROVE Goal
  <2>1. CallsKept  BY <1>18, <1>e DEF CallsKept, ReleaseMessageBuffer, Calls, Owns, Sending, taskVars
  <2>2. UNCHANGED <<Dests, Dest, Queue>>  BY <1>18 DEF ReleaseMessageBuffer, routeVars, osVars
  <2> QED BY <2>1, <2>2, <1>s
<1>19. ASSUME NEW t \in Tasks, NEW m \in MsgIds, FindDestinations(t, m) PROVE Goal
  <2>1. UNCHANGED Dests  BY <1>19 DEF FindDestinations, routeVars
  <2> QED BY <2>1, <1>19, <1>c, FindSound
<1>20. ASSUME NEW t \in Tasks, NEW p \in PipeIds, QueuePut(t, p) PROVE Goal
  <2>1. UNCHANGED Dests  BY <1>20 DEF QueuePut, routeVars
  <2> QED BY <2>1, <1>20, <1>c, PutSound
<1>21. ASSUME NEW t \in Tasks, NEW p \in PipeIds, QueuePutFail(t, p) PROVE Goal
  <2>1. CallsKept  BY <1>21, <1>e DEF CallsKept, QueuePutFail, Calls, Owns, Sending, taskVars
  <2>2. UNCHANGED <<Dests, Dest, Queue>>  BY <1>21 DEF QueuePutFail, routeVars, osVars
  <2> QED BY <2>1, <2>2, <1>s
<1>22. ASSUME NEW t \in Tasks, UndoPut(t) PROVE Goal
  <2>1. UNCHANGED Dests  BY <1>22 DEF UndoPut, routeVars
  <2> QED BY <2>1, <1>22, <1>c, UndoSound
<1>23. ASSUME NEW t \in Tasks, TransmitDone(t) PROVE Goal
  <2>1. CallsKept  BY <1>23, <1>e DEF CallsKept, TransmitDone, Calls, Owns, Sending, taskVars
  <2>2. UNCHANGED <<Dests, Dest, Queue>>  BY <1>23 DEF TransmitDone, routeVars, osVars
  <2> QED BY <2>1, <2>2, <1>s
<1>24. ASSUME NEW t \in Tasks, NEW p \in PipeIds, ReceiveBuffer(t, p) PROVE Goal
  <2>1. CallsKept  BY <1>24, <1>e DEF CallsKept, ReceiveBuffer, Calls, Owns, Sending, taskVars
  <2>2. UNCHANGED <<Dests, Dest, Queue>>  BY <1>24 DEF ReceiveBuffer, routeVars, osVars
  <2> QED BY <2>1, <2>2, <1>s
<1>25. ASSUME NEW t \in Tasks, QueueGet(t) PROVE Goal
  <2>1. UNCHANGED Dests  BY <1>25 DEF QueueGet, routeVars
  <2> QED BY <2>1, <1>25, <1>c, GetSound
<1>26. ASSUME NEW t \in Tasks, QueueGetFail(t) PROVE Goal
  <2>1. CallsKept  BY <1>26, <1>e DEF CallsKept, QueueGetFail, Calls, Owns, Sending, taskVars
  <2>2. UNCHANGED <<Dests, Dest, Queue>>  BY <1>26 DEF QueueGetFail, routeVars, osVars
  <2> QED BY <2>1, <2>2, <1>s
<1>27. ASSUME NEW t \in Tasks, ExportReference(t) PROVE Goal
  <2>1. UNCHANGED Dests  BY <1>27 DEF ExportReference, routeVars
  <2> QED BY <2>1, <1>27, <1>c, ExportSound
<1>28. ASSUME NEW m \in MsgIds, NEW p \in PipeIds, NEW f \in BOOLEAN, SetRouteActive(m, p, f) PROVE Goal
  <2>1. CallsKept /\ UNCHANGED <<Queue, Dests>>  BY <1>28, <1>e DEF CallsKept, SetRouteActive, taskVars, osVars
  <2> SUFFICES ASSUME NEW n \in MsgIds, NEW q \in Dests[n] PROVE SoundAt(n, q)'  BY <2>1
  <2>2. /\ Dest'[n][q].BuffCount = Dest[n][q].BuffCount
        /\ Dest'[n][q].MsgId2PipeLim = Dest[n][q].MsgId2PipeLim
    BY <1>28, <1>d, <1>e DEF SetRouteActive, Destination
  <2>3. Dest[n][q].BuffCount \in Nat  BY <1>d DEF Destination
  <2> QED BY <2>1, <2>2, <2>3, <1>a, <1>b, <1>d, <1>r, PairKept
<1>29. CASE UNCHANGED vars
  BY <1>29, <1>s DEF CallsKept, vars, taskVars, routeVars, osVars
<1> QED
  BY <1>1, <1>2, <1>3, <1>4, <1>5, <1>6, <1>7, <1>8, <1>9, <1>10, <1>11,
     <1>12, <1>13, <1>14, <1>15, <1>16, <1>17, <1>18, <1>19, <1>20, <1>21,
     <1>22, <1>23, <1>24, <1>25, <1>26, <1>27, <1>28, <1>29 DEF Next, Call,
     Continue, Wait

(* The message count of a subscription (BuffCount) never exceeds its limit *)
(* nor the messages on their way through the pipe that will lower it: no   *)
(* subscription is stopped for good by messages that are gone, whatever    *)
(* writes fail and whatever pipes, subscriptions and buffers come and go   *)
(* between the locked regions that raise and lower the count.              *)
THEOREM BuffCountsHold == Spec => []BuffCountSound
<1>1. Init => Inv6
  <2>1. Init => BuffCountSound  BY DEF Init, BuffCountSound
  <2> QED BY <2>1, CountInit DEF Inv6
<1>2. Inv6 /\ [Next]_vars => Inv6'  BY Inv3Step, BuffStep DEF Inv6
<1>3. Inv6 => BuffCountSound  BY DEF Inv6
<1> QED BY <1>1, <1>2, <1>3, PTL DEF Spec
=============================================================================
