--------------------------- MODULE TableLoadProofs ---------------------------
(***************************************************************************)
(* Proofs about TableLoad.  TypeInv types the records and the places that  *)
(* tasks have in their calls.  PlaceInv (TableLoadInv) says who has which  *)
(* buffer and which dump control block; it is inductive as long as no      *)
(* application calls CFE_TBL_Load (NoLoad).  From both follow who owns the *)
(* shared buffers, that accessors are told of updates, and what snapshots  *)
(* contain.  WaitInv says on top of them what is known of a load and of    *)
(* its validation, if the ground waits for one command after the other     *)
(* (Waits): only valid images become active, and those as they were found  *)
(* valid.  ReadersInv says what the address of a reader is (LoadedTwice).  *)
(***************************************************************************)
EXTENDS TableLoadInv, FiniteSetTheorems, NaturalsInduction, WellFoundedInduction, TLAPS

(* Arithmetic of serial numbers.                                           *)
LEMMA Sizes ==
  /\ NumShared \in Nat \ {0} /\ Wrap \in Nat \ {0, 1}
  /\ NumShared * Wrap \in Nat \ {0} /\ 2 * Wrap \in Nat \ {0}
BY BufferAssumption

(* The place of a serial number.                                           *)
LEMMA Remainder ==
  ASSUME NEW n \in Nat, NEW m \in Nat \ {0}
  PROVE  n % m \in 0..(m - 1)
OBVIOUS

(* Two steps of the serial number do not come round to the first one,      *)
(* since Wrap is at least 2.                                               *)
LEMMA Turns ==
  ASSUME NEW n \in 0..(2 * Wrap - 1)
  PROVE  /\ (n + 1) % (2 * Wrap) \in 0..(2 * Wrap - 1)
         /\ (n + 1) % (2 * Wrap) # n
         /\ (((n + 1) % (2 * Wrap)) + 1) % (2 * Wrap) # n
         /\ ((n + 1) % (2 * Wrap)) % 2 # n % 2
<1>1. n \in Nat /\ Wrap \in Nat /\ Wrap >= 2 /\ n < 2 * Wrap  BY Sizes
<1>2. CASE n + 1 < 2 * Wrap
  <2>1. (n + 1) % (2 * Wrap) = n + 1  BY <1>1, <1>2
  <2>2. CASE n + 2 < 2 * Wrap
    <3>1. (n + 2) % (2 * Wrap) = n + 2  BY <1>1, <2>2
    <3> QED BY <1>1, <2>1, <3>1, <2>2
  <2>3. CASE n + 2 = 2 * Wrap
    <3>1. (n + 2) % (2 * Wrap) = 0  BY <1>1, <2>3
    <3> QED BY <1>1, <2>1, <3>1, <2>3
  <2> QED BY <1>1, <1>2, <2>2, <2>3
<1>3. CASE n + 1 = 2 * Wrap
  <2>1. (n + 1) % (2 * Wrap) = 0  BY <1>1, <1>3
  <2>2. 1 % (2 * Wrap) = 1  BY <1>1
  <2> QED BY <1>1, <1>3, <2>1, <2>2
<1> QED BY <1>1, <1>2, <1>3

(* The parts of IDs and slots.                                             *)
LEMMA IdParts ==
  /\ \A id \in LocalIds : /\ id = <<id[1], id[2]>> /\ id[1] \in Tables /\ id[1] # Shared
                          /\ id[2] \in 0..(2 * Wrap - 1) /\ id # NoId /\ id \in BufferIds /\ id \notin SharedIds
  /\ \A id \in SharedIds : /\ id = <<Shared, id[2]>> /\ id[1] = Shared
                           /\ id[2] \in 0..(NumShared * Wrap - 1) /\ id # NoId /\ id \in BufferIds
                           /\ id \notin LocalIds
BY NameAssumption, TableAssumption DEF LocalIds, SharedIds, BufferIds

(* A slot is a shared one or a table's.                                    *)
LEMMA SlotParts ==
  /\ Slot(NoId) = NoSlot /\ NoSlot \notin Slots /\ SharedSlots \subseteq Slots
  /\ \A s \in Slots : \/ s \in SharedSlots /\ s[1] = Shared
                      \/ s \notin SharedSlots /\ s[1] \in Tables /\ s[1] # Shared
  /\ \A t \in Tables, k \in {0, 1} : <<t, k>> \in Slots \ SharedSlots
BY NameAssumption, TableAssumption DEF Slot, Slots, SharedSlots

(* A table's IDs name its own slots, and shared IDs shared ones.           *)
LEMMA SlotKinds ==
  /\ \A id \in LocalIds : /\ Slot(id) \in Slots \ SharedSlots /\ Slot(id)[1] = id[1]
                          /\ id[1] \notin DoubleBuffered => Slot(id) = <<id[1], 0>>
                          /\ id[1] \in DoubleBuffered => Slot(id) = <<id[1], id[2] % 2>>
  /\ \A id \in SharedIds : Slot(id) \in SharedSlots
<1>1. ASSUME NEW id \in LocalIds
      PROVE  /\ Slot(id) \in Slots \ SharedSlots /\ Slot(id)[1] = id[1]
             /\ id[1] \notin DoubleBuffered => Slot(id) = <<id[1], 0>>
             /\ id[1] \in DoubleBuffered => Slot(id) = <<id[1], id[2] % 2>>
  <2> DEFINE k == IF id[1] \in DoubleBuffered THEN id[2] % 2 ELSE 0
  <2>1. id # NoId /\ id[1] # Shared /\ id[1] \in Tables /\ id[2] \in Nat  BY IdParts, Sizes
  <2>2. k \in {0, 1}  BY <2>1
  <2>3. Slot(id) = <<id[1], k>>  BY <2>1 DEF Slot
  <2>4. <<id[1], k>> \in Slots \ SharedSlots
    <3> HIDE DEF k
    <3> QED BY <2>1, <2>2, SlotParts
  <2> QED BY <2>3, <2>4
<1>2. ASSUME NEW id \in SharedIds
      PROVE  Slot(id) = <<Shared, id[2] % NumShared>> /\ id[2] % NumShared \in 0..(NumShared - 1)
  <2>1. id[2] \in Nat  BY IdParts, Sizes
  <2> QED BY <2>1, IdParts, Sizes DEF Slot
<1> QED BY <1>1, <1>2 DEF SharedSlots

(* The buffer after the active one.                                        *)
LEMMA NextLocals ==
  ASSUME NEW t \in Tables, Active[t] \in LocalIds \cup {NoId}, Active[t] # NoId => Active[t][1] = t
  PROVE  /\ NextLocal(t) \in LocalIds /\ NextLocal(t)[1] = t
         /\ NextLocal(t) # Active[t]
         /\ t \in DoubleBuffered => Slot(NextLocal(t)) # Slot(Active[t])
<1>1. CASE Active[t] = NoId
  <2>1. NextLocal(t) = <<t, 1>> /\ 1 \in 0..(2 * Wrap - 1)  BY <1>1, Sizes DEF NextLocal
  <2> QED BY <2>1, <1>1, IdParts, SlotKinds, SlotParts DEF LocalIds
<1>2. CASE Active[t] # NoId
  <2> DEFINE n == Active[t][2]
  <2>1. Active[t] = <<t, n>> /\ n \in 0..(2 * Wrap - 1)  BY <1>2, IdParts
  <2>2. NextLocal(t) = <<t, (n + 1) % (2 * Wrap)>>  BY <1>2 DEF NextLocal
  <2>3. (n + 1) % (2 * Wrap) \in 0..(2 * Wrap - 1) /\ (n + 1) % (2 * Wrap) # n
        /\ ((n + 1) % (2 * Wrap)) % 2 # n % 2
    BY <2>1, Turns
  <2>4. NextLocal(t) \in LocalIds  BY <2>2, <2>3 DEF LocalIds
  <2>5. t \in DoubleBuffered => Slot(NextLocal(t)) = <<t, ((n + 1) % (2 * Wrap)) % 2>> /\ Slot(Active[t]) = <<t, n % 2>>
    BY <2>1, <2>2, <2>4, <1>2, SlotKinds
  <2> HIDE DEF n
  <2> QED BY <2>1, <2>2, <2>3, <2>4, <2>5
<1> QED BY <1>1, <1>2

(* Least elements.                                                         *)
LEMMA LeastElement ==
  ASSUME NEW S, S \subseteq Nat, S # {}
  PROVE  \E k \in S : \A j \in S : k <= j
<1> DEFINE Less == {x \in Nat \X Nat : x[1] < x[2]}
<1>1. IsWellFoundedOn(Less, Nat)
  <2>1. Less = OpToRel(<, Nat)  BY Zenon DEF OpToRel
  <2> QED BY <2>1, NatLessThanWellFounded, Zenon
<1>2. PICK k \in S : \A j \in S : <<j, k>> \notin Less
  <2> HIDE DEF Less
  <2> QED BY <1>1, WFMin, Zenon
<1>3. \A i, j \in Nat : i < j => <<i, j>> \in Less  OBVIOUS
<1> HIDE DEF Less
<1>4. ASSUME NEW j \in S PROVE k <= j
  <2>1. j \in Nat /\ k \in Nat /\ ~(j < k)  BY <1>2, <1>3
  <2> QED BY <2>1
<1> QED BY <1>4

(* A shared buffer, or a dump control block, is found where one is free.   *)
LEMMA NextSharedFree ==
  ASSUME LastLoadBuffId \in 0..(NumShared * Wrap - 1), FreeShared # {}
  PROVE  NextShared \in SharedIds /\ Buffers[Slot(NextShared)].Id = NoId
<1>1. FreeShared \subseteq Nat  BY DEF FreeShared
<1> DEFINE least == CHOOSE i \in FreeShared : \A j \in FreeShared : i <= j
<1>2. least \in FreeShared  BY <1>1, LeastElement
<1>3. NextShared = SharedAfter(least)  BY DEF NextShared
<1> HIDE DEF least
<1>4. LastLoadBuffId + least \in Nat /\ Buffers[Slot(SharedAfter(least))].Id = NoId
  BY <1>2, Sizes DEF FreeShared
<1>5. (LastLoadBuffId + least) % (NumShared * Wrap) \in 0..(NumShared * Wrap - 1)
  BY <1>4, Sizes, Remainder
<1> QED BY <1>3, <1>4, <1>5 DEF SharedAfter, SharedIds

(* The same for dump control blocks (CFE_TBL_GetNextDumpCtrlBlock).        *)
LEMMA NextBlockFree ==
  ASSUME LastDumpCtrlBlockId \in BlockIds, FreeBlocks # {}
  PROVE  NextBlock \in BlockIds /\ DumpControlBlocks[Block(NextBlock)].Id = NoDump
<1>1. FreeBlocks \subseteq Nat  BY DEF FreeBlocks
<1> DEFINE least == CHOOSE i \in FreeBlocks : \A j \in FreeBlocks : i <= j
<1>2. least \in FreeBlocks  BY <1>1, LeastElement
<1>3. NextBlock = BlockAfter(least)  BY DEF NextBlock
<1> HIDE DEF least
<1>4. LastDumpCtrlBlockId + least \in Nat /\ DumpControlBlocks[Block(BlockAfter(least))].Id = NoDump
  BY <1>2, Sizes DEF FreeBlocks, BlockIds
<1>5. (LastDumpCtrlBlockId + least) % (NumShared * Wrap) \in 0..(NumShared * Wrap - 1)
  BY <1>4, Sizes, Remainder
<1> QED BY <1>3, <1>4, <1>5 DEF BlockAfter, BlockIds

(* An ID of a dump control block names a block.                            *)
LEMMA BlockPlace ==
  ASSUME NEW d \in BlockIds
  PROVE  Block(d) \in Blocks /\ d # NoDump
<1>1. d \in Nat  BY Sizes DEF BlockIds
<1> QED BY <1>1, Sizes, NameAssumption DEF Block, Blocks

(* The next ID of a table is one of its own.                               *)
LEMMA NextLocalTyped ==
  ASSUME NEW t \in Tables, Active[t] \in LocalIds \cup {NoId}
  PROVE  NextLocal(t) \in LocalIds /\ NextLocal(t)[1] = t
<1>1. CASE Active[t] = NoId
  BY <1>1, Sizes DEF NextLocal, LocalIds
<1>2. CASE Active[t] # NoId
  <2>1. Active[t][2] \in 0..(2 * Wrap - 1)  BY <1>2, IdParts
  <2> QED BY <2>1, <1>2, Turns DEF NextLocal, LocalIds
<1> QED BY <1>1, <1>2

(* An ID names a buffer.                                                   *)
LEMMA IdSlots ==
  /\ BufferIds = LocalIds \cup SharedIds
  /\ \A id \in BufferIds : Slot(id) \in Slots /\ id # NoId
BY SlotKinds, SlotParts, IdParts DEF BufferIds

(* CFE_TBL_GetLoadInProgressBuffer finds the buffer that NextBufferId      *)
(* names, if the buffer has that ID.                                       *)
LEMMA LoadBufIs ==
  ASSUME TypeOK, NEW t \in Tables
  PROVE  /\ LoadBuf(t) \in Slots \cup {NoSlot}
         /\ LoadBuf(t) # NoSlot => /\ Next[t] # NoId /\ LoadBuf(t) = Slot(Next[t])
                                   /\ Buffers[Slot(Next[t])].Id = Next[t]
         /\ Next[t] # NoId /\ Buffers[Slot(Next[t])].Id = Next[t] => LoadBuf(t) = Slot(Next[t]) /\ LoadBuf(t) # NoSlot
<1>1. Next[t] \in BufferIds \cup {NoId}  BY DEF TypeOK
<1> QED BY <1>1, IdSlots, SlotParts DEF LoadBuf

(* Clearing a stale NextBufferId is well typed.                            *)
LEMMA ClearStaleTyped ==
  ASSUME TypeOK, NEW t \in Tables, ClearStale(t)
  PROVE  Next' \in [Tables -> BufferIds \cup {NoId}]
BY DEF ClearStale, TypeOK

(* A task outside calls.                                                   *)
LEMMA IdleTyped ==
  Idle \in Op /\ CallTyped(Idle)
BY DEF Idle, Op, CallTyped

(* A task moves within its call.                                           *)
LEMMA GotoTyped ==
  ASSUME TypeInv, NEW p \in Procs, NEW o \in Op, CallTyped(o), Goto(p, o)
  PROVE  op' \in [Procs -> Op] /\ CallsTyped'
<1>1. op \in [Procs -> Op] /\ CallsTyped  BY DEF TypeInv, TypeOK
<1>2. op' = [op EXCEPT ![p] = o]  BY DEF Goto
<1>3. \A q \in Procs : op'[q] = IF q = p THEN o ELSE op[q]  BY <1>1, <1>2
<1> QED BY <1>1, <1>2, <1>3 DEF CallsTyped

(* A buffer for a load: one that no load or dump has, or the table's own.  *)
Reserved(t, id, b) ==
  /\ id \in BufferIds /\ b \in LoadBuff /\ b.Id = id
  /\ Next' = [Next EXCEPT ![t] = id]
  /\ Buffers' = [Buffers EXCEPT ![Slot(id)] = b]
  /\ LastLoadBuffId' = IF id \in SharedIds THEN id[2] ELSE LastLoadBuffId
  /\ \/ /\ id \in SharedIds /\ t \notin DoubleBuffered /\ Active[t] # NoId
        /\ Buffers[Slot(id)].Id = NoId
     \/ /\ id = NextLocal(t) /\ (t \in DoubleBuffered \/ Active[t] = NoId)
        /\ Available(t)
  /\ IF Active[t] = NoId THEN b = [Buffers[Slot(id)] EXCEPT !.Id = id] ELSE ~b.IsValid

(* CFE_TBL_GetWorkingBuffer reserves a buffer for the load.                *)
LEMMA Reserves ==
  ASSUME TypeOK, NEW t \in Tables, GetWorkingBuffer(t)
  PROVE  \E id \in BufferIds, b \in LoadBuff : Reserved(t, id, b)
<1>1. Active[t] \in LocalIds \cup {NoId} /\ Buffers \in [Slots -> LoadBuff]
      /\ LastLoadBuffId \in 0..(NumShared * Wrap - 1)
  BY DEF TypeOK
<1>2. NextLocal(t) \in LocalIds /\ NextLocal(t) \in BufferIds /\ NextLocal(t) \notin SharedIds /\ NextLocal(t)[1] # Shared
      /\ Slot(NextLocal(t)) \in Slots
  BY <1>1, NextLocalTyped, IdParts, IdSlots
<1>3. CASE Active[t] = NoId
  <2> DEFINE id == NextLocal(t)
             b == [Buffers[Slot(id)] EXCEPT !.Id = id]
  <2>1. /\ Available(t) /\ Next' = [Next EXCEPT ![t] = id]
        /\ Buffers' = [Buffers EXCEPT ![Slot(id)].Id = id] /\ UNCHANGED LastLoadBuffId
    BY <1>3 DEF GetWorkingBuffer
  <2>2. b \in LoadBuff /\ b.Id = id /\ Buffers' = [Buffers EXCEPT ![Slot(id)] = b]
    BY <1>1, <1>2, <2>1 DEF LoadBuff
  <2> HIDE DEF b, id
  <2>3. id = NextLocal(t) /\ b = [Buffers[Slot(id)] EXCEPT !.Id = id]  BY DEF b, id
  <2> QED BY <1>2, <1>3, <2>1, <2>2, <2>3 DEF Reserved
<1>4. CASE Active[t] # NoId
  <2> DEFINE id == IF t \in DoubleBuffered THEN NextLocal(t) ELSE NextShared
             b == [Id |-> id, IsValid |-> FALSE, ActivateReq |-> FALSE,
                   Content |-> Buffers[Slot(Active[t])].Content]
  <2>1. /\ IF t \in DoubleBuffered THEN Available(t) ELSE FreeShared # {}
        /\ Next' = [Next EXCEPT ![t] = id] /\ Buffers' = [Buffers EXCEPT ![Slot(id)] = b]
        /\ LastLoadBuffId' = IF id[1] = Shared THEN id[2] ELSE LastLoadBuffId
    BY <1>4 DEF GetWorkingBuffer
  <2>2. t \notin DoubleBuffered => NextShared \in SharedIds /\ Buffers[Slot(NextShared)].Id = NoId
    BY <2>1, <1>1, NextSharedFree
  <2>3. id \in BufferIds /\ (id[1] = Shared <=> id \in SharedIds) /\ (id \in SharedIds <=> t \notin DoubleBuffered)
    BY <1>2, <2>2, IdParts
  <2>4. Slot(Active[t]) \in Slots  BY <1>1, <1>4, IdSlots
  <2>5. b \in LoadBuff /\ b.Id = id /\ ~b.IsValid
    <3>1. Buffers[Slot(Active[t])].Content \in Images \cup {Junk}  BY <2>4, <1>1 DEF LoadBuff
    <3> QED BY <2>3, <3>1 DEF LoadBuff
  <2>6. id = IF t \in DoubleBuffered THEN NextLocal(t) ELSE NextShared  OBVIOUS
  <2> HIDE DEF b, id
  <2> QED BY <1>4, <2>1, <2>2, <2>3, <2>5, <2>6 DEF Reserved
<1> QED BY <1>3, <1>4

(* A reserved buffer is well typed.                                        *)
LEMMA ReservedTyped ==
  ASSUME TypeOK, NEW t \in Tables, NEW id, NEW b, Reserved(t, id, b)
  PROVE  /\ Next' \in [Tables -> BufferIds \cup {NoId}]
         /\ Buffers' \in [Slots -> LoadBuff]
         /\ LastLoadBuffId' \in 0..(NumShared * Wrap - 1)
BY IdParts DEF Reserved, TypeOK

(* The image that becomes active.                                          *)
LEMMA DiscardTyped ==
  ASSUME NEW bs \in [Slots -> LoadBuff], NEW t \in Tables
  PROVE  Discard(t, bs) \in [Slots -> LoadBuff]
BY DEF Discard, LoadBuff

(* A commit (the end of CFE_TBL_UpdateInternal) is well typed.             *)
LEMMA CommitTyped ==
  ASSUME TypeOK, NEW t \in Tables, NEW from \in Slots, NEW id \in LocalIds, Commit(t, from, id)
  PROVE  /\ Active' \in [Tables -> LocalIds \cup {NoId}]
         /\ Prev' \in [Tables -> LocalIds \cup {NoId}]
         /\ Next' \in [Tables -> BufferIds \cup {NoId}]
         /\ Buffers' \in [Slots -> LoadBuff]
         /\ Acc' \in [Apps -> [Tables -> AccessDesc]]
<1> DEFINE bs == [Buffers EXCEPT ![Slot(id)] =
                   [Buffers[Slot(id)] EXCEPT !.Id = id, !.Content = Buffers[from].Content]]
<1> DEFINE new == [Buffers[Slot(id)] EXCEPT !.Id = id, !.Content = Buffers[from].Content]
<1>0. Buffers \in [Slots -> LoadBuff] /\ Slot(id) \in Slots /\ id \in BufferIds
  BY IdSlots, IdParts DEF TypeOK
<1>1. bs \in [Slots -> LoadBuff]
  <2>1. new \in LoadBuff  BY <1>0 DEF LoadBuff
  <2>2. bs = [Buffers EXCEPT ![Slot(id)] = new]  OBVIOUS
  <2> HIDE DEF new, bs
  <2> QED BY <1>0, <2>1, <2>2
<1>2. Buffers' = Discard(t, bs)  BY DEF Commit
<1>3. Buffers' \in [Slots -> LoadBuff]
  <2> HIDE DEF bs
  <2> QED BY <1>1, <1>2, DiscardTyped
<1>4. Acc' \in [Apps -> [Tables -> AccessDesc]]
  <2>1. Acc' = [a \in Apps |-> IF a \in Accessors[t] THEN [Acc[a] EXCEPT ![t].Updated = TRUE] ELSE Acc[a]]
    BY DEF Commit
  <2>2. ASSUME NEW a \in Apps PROVE Acc'[a] \in [Tables -> AccessDesc]
    <3>1. Acc[a] \in [Tables -> AccessDesc]  BY DEF TypeOK
    <3>2. [Acc[a] EXCEPT ![t].Updated = TRUE] \in [Tables -> AccessDesc]  BY <3>1 DEF AccessDesc
    <3> QED BY <2>1, <3>1, <3>2
  <2> QED BY <2>1, <2>2
<1>5. /\ Active' = [Active EXCEPT ![t] = id] /\ Prev' = [Prev EXCEPT ![t] = Active[t]]
      /\ Next' = [Next EXCEPT ![t] = NoId]
  BY DEF Commit
<1>6. /\ Active' \in [Tables -> LocalIds \cup {NoId}]
      /\ Prev' \in [Tables -> LocalIds \cup {NoId}]
      /\ Next' \in [Tables -> BufferIds \cup {NoId}]
  BY <1>5 DEF TypeOK
<1> QED BY <1>3, <1>4, <1>6

(* The buffer that an update makes active is the table's own.              *)
LEMMA TargetTyped ==
  ASSUME TypeOK, NEW t \in Tables, Next[t] # NoId
  PROVE  Target(t) \in LocalIds
<1>1. Next[t] \in BufferIds /\ Active[t] \in LocalIds \cup {NoId}  BY DEF TypeOK
<1> QED BY <1>1, NextLocalTyped, IdParts, IdSlots, TableAssumption DEF Target, Private

(* CFE_TBL_UpdateInternal is well typed.                                   *)
LEMMA UpdateTyped ==
  ASSUME TypeOK, NEW t \in Tables, UpdateInternal(t)
  PROVE  /\ Active' \in [Tables -> LocalIds \cup {NoId}]
         /\ Prev' \in [Tables -> LocalIds \cup {NoId}]
         /\ Next' \in [Tables -> BufferIds \cup {NoId}]
         /\ Buffers' \in [Slots -> LoadBuff]
         /\ Acc' \in [Apps -> [Tables -> AccessDesc]]
<1>1. CASE LoadBuf(t) # NoSlot /\ (Private(t) \/ Available(t))
  <2>1. Commit(t, LoadBuf(t), Target(t)) /\ LoadBuf(t) \in Slots /\ Next[t] # NoId
    BY <1>1, LoadBufIs DEF UpdateInternal
  <2> QED BY <2>1, TargetTyped, CommitTyped
<1>2. CASE ~(LoadBuf(t) # NoSlot /\ (Private(t) \/ Available(t)))
  <2>1. ClearStale(t) /\ UNCHANGED <<Active, Prev, Buffers, Acc>>  BY <1>2 DEF UpdateInternal
  <2> QED BY <2>1, ClearStaleTyped DEF TypeOK
<1> QED BY <1>1, <1>2

(* What a new place in a call is made from.                                *)
LEMMA OpParts ==
  ASSUME NEW o, o \in Op
  PROVE  /\ o.tbl \in Tables \cup {NoTable} /\ o.buf \in Slots \cup {NoSlot}
         /\ o.id \in BufferIds \cup {NoId} /\ o.img \in Images \cup {Junk}
         /\ o.val \in Vals \cup {NoVal} /\ o.dump \in BlockIds \cup {NoDump}
BY DEF Op

(* The slot of an optional ID.                                             *)
LEMMA SlotTyped ==
  ASSUME NEW id \in BufferIds \cup {NoId}
  PROVE  Slot(id) \in Slots \cup {NoSlot}
BY IdSlots, SlotParts

(* The buffer that a validation or a dump selects.                         *)
LEMMA SelectedTyped ==
  ASSUME TypeOK, NEW t \in Tables, NEW select
  PROVE  SelectedBuffer(t, select) \in Slots \cup {NoSlot}
<1>1. Active[t] \in BufferIds \cup {NoId} /\ Prev[t] \in BufferIds \cup {NoId}  BY IdParts DEF TypeOK
<1> QED BY <1>1, SlotTyped, LoadBufIs DEF SelectedBuffer

(* Steps of calls.                                                         *)
LEMMA BeginTyped ==
  ASSUME NEW t \in Tables, NEW w \in {"open", "reserve", "manage", "validate", "update", "take", "abort", "modify"},
         NEW c \in BOOLEAN, NEW b \in Slots \cup {NoSlot}, NEW i \in Images \cup {Junk}
  PROVE  LET o == [Idle EXCEPT !.at = w, !.cmd = c, !.tbl = t, !.buf = b, !.img = i] IN o \in Op /\ CallTyped(o)
BY ZenonT(30) DEF Idle, Op, CallTyped

(* The same with the place alone.                                          *)
LEMMA MoveTyped ==
  ASSUME NEW r \in Op, CallTyped(r), r.at # "idle",
         NEW w \in {"open", "read", "header", "check", "finish", "drop", "run", "verdict"}
  PROVE  [r EXCEPT !.at = w] \in Op /\ CallTyped([r EXCEPT !.at = w])
<1> DEFINE o == [r EXCEPT !.at = w]
<1>1. o \in Op  BY DEF Op
<1>2. o.at = w /\ o.tbl = r.tbl  BY DEF Op
<1> HIDE DEF o
<1>3. CallTyped(o)  BY <1>2 DEF CallTyped
<1> QED BY <1>1, <1>3 DEF o

(* The same with a buffer.                                                 *)
LEMMA MoveBufTyped ==
  ASSUME NEW r \in Op, CallTyped(r), r.at # "idle",
         NEW w \in {"open", "read", "header", "check", "finish", "drop", "run", "verdict"},
         NEW b \in Slots \cup {NoSlot}
  PROVE  [r EXCEPT !.at = w, !.buf = b] \in Op /\ CallTyped([r EXCEPT !.at = w, !.buf = b])
<1> DEFINE o == [r EXCEPT !.at = w, !.buf = b]
<1>1. o \in Op  BY ZenonT(30) DEF Op
<1>2. o.at = w /\ o.tbl = r.tbl  BY DEF Op
<1> HIDE DEF o
<1>3. CallTyped(o)  BY <1>2 DEF CallTyped
<1> QED BY <1>1, <1>3 DEF o

(* The same with a validation request.                                     *)
LEMMA MoveValTyped ==
  ASSUME NEW r \in Op, CallTyped(r), r.at # "idle",
         NEW w \in {"open", "read", "check", "finish", "drop", "run", "verdict"},
         NEW b \in Slots \cup {NoSlot}, NEW v \in Vals \cup {NoVal}
  PROVE  [r EXCEPT !.at = w, !.val = v, !.buf = b] \in Op /\ CallTyped([r EXCEPT !.at = w, !.val = v, !.buf = b])
<1> DEFINE o == [r EXCEPT !.at = w, !.val = v, !.buf = b]
<1>1. o \in Op  BY ZenonT(30) DEF Op
<1>2. o.at = w /\ o.tbl = r.tbl  BY DEF Op
<1> HIDE DEF o
<1>3. CallTyped(o)  BY <1>2 DEF CallTyped
<1> QED BY <1>1, <1>3 DEF o

(* The same with a verdict.                                                *)
LEMMA MoveOkTyped ==
  ASSUME NEW r \in Op, CallTyped(r), r.at # "idle",
         NEW w \in {"open", "read", "check", "finish", "drop", "run", "verdict"},
         NEW k \in BOOLEAN
  PROVE  [r EXCEPT !.at = w, !.ok = k] \in Op /\ CallTyped([r EXCEPT !.at = w, !.ok = k])
<1> DEFINE o == [r EXCEPT !.at = w, !.ok = k]
<1>1. o \in Op  BY ZenonT(30) DEF Op
<1>2. o.at = w /\ o.tbl = r.tbl  BY DEF Op
<1> HIDE DEF o
<1>3. CallTyped(o)  BY <1>2 DEF CallTyped
<1> QED BY <1>1, <1>3 DEF o

(* The types of the other variables.                                       *)
RegTyped  == /\ Active \in [Tables -> LocalIds \cup {NoId}]
             /\ Prev \in [Tables -> LocalIds \cup {NoId}]
             /\ Next \in [Tables -> BufferIds \cup {NoId}]
             /\ PendingVal \in [Tables -> Vals \cup {NoVal}]
BuffTyped == /\ Buffers \in [Slots -> LoadBuff]
             /\ LastLoadBuffId \in 0..(NumShared * Wrap - 1)
UserTyped == /\ Acc \in [Apps -> [Tables -> AccessDesc]]
             /\ Val \in [Vals -> ValResult]
             /\ ptr \in [Apps -> [Tables -> Slots \cup {NoSlot}]]
DumpTyped == /\ DumpControlId \in [Tables -> BlockIds \cup {NoDump}]
             /\ DumpControlBlocks \in [0..(NumShared - 1) -> DumpControl]
             /\ LastDumpCtrlBlockId \in BlockIds

(* The type invariant in groups of variables that steps change together.   *)
LEMMA Parts ==
  TypeInv <=> /\ RegTyped /\ BuffTyped /\ UserTyped /\ DumpTyped
              /\ op \in [Procs -> Op] /\ CallsTyped
BY DEF TypeInv, TypeOK, RegTyped, BuffTyped, UserTyped, DumpTyped

(* A group that a step leaves alone stays typed.                           *)
LEMMA Unchanged ==
  ASSUME TypeInv
  PROVE  /\ UNCHANGED regVars => RegTyped'
         /\ UNCHANGED <<Buffers, LastLoadBuffId>> => BuffTyped'
         /\ UNCHANGED <<Acc, Val, ptr>> => UserTyped'
         /\ UNCHANGED dumpVars => DumpTyped'
         /\ UNCHANGED op => op' \in [Procs -> Op] /\ CallsTyped'
         /\ UNCHANGED <<Active, Prev, PendingVal>> /\ Next' \in [Tables -> BufferIds \cup {NoId}] => RegTyped'
         /\ UNCHANGED LastLoadBuffId /\ Buffers' \in [Slots -> LoadBuff] => BuffTyped'
         /\ RegTyped' /\ BuffTyped' /\ UserTyped' /\ DumpTyped' /\ op' \in [Procs -> Op] /\ CallsTyped' => TypeInv'
<1>1. /\ RegTyped /\ BuffTyped /\ UserTyped /\ DumpTyped /\ op \in [Procs -> Op] /\ CallsTyped
  BY Parts
<1>2. UNCHANGED regVars => RegTyped'  BY <1>1 DEF RegTyped, regVars
<1>3. UNCHANGED <<Buffers, LastLoadBuffId>> => BuffTyped'  BY <1>1 DEF BuffTyped
<1>4. UNCHANGED <<Acc, Val, ptr>> => UserTyped'  BY <1>1 DEF UserTyped
<1>5. UNCHANGED dumpVars => DumpTyped'  BY <1>1 DEF DumpTyped, dumpVars
<1>6. UNCHANGED op => op' \in [Procs -> Op] /\ CallsTyped'  BY <1>1 DEF CallsTyped
<1>7. UNCHANGED <<Active, Prev, PendingVal>> /\ Next' \in [Tables -> BufferIds \cup {NoId}] => RegTyped'
  BY <1>1 DEF RegTyped
<1>8. UNCHANGED LastLoadBuffId /\ Buffers' \in [Slots -> LoadBuff] => BuffTyped'
  BY <1>1 DEF BuffTyped
<1>9. RegTyped' /\ BuffTyped' /\ UserTyped' /\ DumpTyped' /\ op' \in [Procs -> Op] /\ CallsTyped' => TypeInv'
  BY DEF TypeInv, TypeOK, RegTyped, BuffTyped, UserTyped, DumpTyped
<1> QED BY <1>2, <1>3, <1>4, <1>5, <1>6, <1>7, <1>8, <1>9

(* One field of one buffer changes.                                        *)
LEMMA FieldTyped ==
  ASSUME Buffers \in [Slots -> LoadBuff], NEW s
  PROVE  /\ \A c \in Images \cup {Junk} : [Buffers EXCEPT ![s].Content = c] \in [Slots -> LoadBuff]
         /\ \A c \in BufferIds \cup {NoId} : [Buffers EXCEPT ![s].Id = c] \in [Slots -> LoadBuff]
         /\ \A c \in BOOLEAN : [Buffers EXCEPT ![s].IsValid = c] \in [Slots -> LoadBuff]
         /\ [Buffers EXCEPT ![s].ActivateReq = TRUE] \in [Slots -> LoadBuff]
         /\ \A c \in BOOLEAN : [Buffers EXCEPT ![s].IsValid = c, ![s].ActivateReq = FALSE] \in [Slots -> LoadBuff]
<1>1. \A c \in Images \cup {Junk} : [Buffers EXCEPT ![s].Content = c] \in [Slots -> LoadBuff]  BY DEF LoadBuff
<1>2. \A c \in BufferIds \cup {NoId} : [Buffers EXCEPT ![s].Id = c] \in [Slots -> LoadBuff]  BY DEF LoadBuff
<1>3. \A c \in BOOLEAN : [Buffers EXCEPT ![s].IsValid = c] \in [Slots -> LoadBuff]  BY DEF LoadBuff
<1>4. [Buffers EXCEPT ![s].ActivateReq = TRUE] \in [Slots -> LoadBuff]  BY DEF LoadBuff
<1>5. \A c \in BOOLEAN : [Buffers EXCEPT ![s].IsValid = c, ![s].ActivateReq = FALSE] \in [Slots -> LoadBuff]
  BY DEF LoadBuff
<1> QED BY <1>1, <1>2, <1>3, <1>4, <1>5

(* The header of a file writes flags only.                                 *)
LEMMA HeaderKeeps ==
  ASSUME TypeInv, NEW p, SetMetaDataFromFileHeader(p), NEW x \in Slots
  PROVE  Buffers'[x].Id = Buffers[x].Id /\ Buffers'[x].Content = Buffers[x].Content
<1>1. Buffers \in [Slots -> LoadBuff]  BY DEF TypeInv, TypeOK
<1>2. Buffers' = Buffers \/ \E s, v : Buffers' = [Buffers EXCEPT ![s].IsValid = v, ![s].ActivateReq = FALSE]
  BY DEF SetMetaDataFromFileHeader
<1>3. ASSUME NEW s, NEW v, Buffers' = [Buffers EXCEPT ![s].IsValid = v, ![s].ActivateReq = FALSE]
      PROVE  Buffers'[x].Id = Buffers[x].Id /\ Buffers'[x].Content = Buffers[x].Content
  <2>1. Buffers'[x] \in {Buffers[x], [Buffers[x] EXCEPT !.IsValid = v, !.ActivateReq = FALSE]}
    BY <1>1, <1>3
  <2> QED BY <1>1, <2>1 DEF LoadBuff
<1> QED BY <1>2, <1>3

(* Reading a file keeps the types.                                         *)
LEMMA TypeReading ==
  ASSUME TypeInv, NEW p \in Procs, ReadBegin(p) \/ ReadEnd(p) \/ SetMetaDataFromFileHeader(p) \/ ReadFail(p)
  PROVE  TypeInv'
<1> DEFINE t == op[p].tbl
<1>1. /\ TypeOK /\ Buffers \in [Slots -> LoadBuff] /\ op[p] \in Op /\ CallTyped(op[p])
  BY DEF TypeInv, TypeOK, CallsTyped
<1>2. CASE ReadBegin(p)
  <2>1. t \in Tables  BY <1>1, <1>2 DEF ReadBegin, IsAt, CallTyped
  <2>2. LoadBuf(t) \in Slots \cup {NoSlot}  BY <1>1, <2>1, LoadBufIs
  <2>3. RegTyped'
    BY <1>1, <1>2, <2>1, ClearStaleTyped, Unchanged DEF ReadBegin
  <2>4. op' \in [Procs -> Op] /\ CallsTyped'
    <3>1. PICK o \in {Idle, [op[p] EXCEPT !.at = "drop"], [op[p] EXCEPT !.at = "read", !.buf = LoadBuf(t)]} : Goto(p, o)
      BY <1>2 DEF ReadBegin
    <3>2. op[p].at # "idle"  BY <1>2 DEF ReadBegin, IsAt
    <3>3. PICK r, s : r = op[p] /\ s = LoadBuf(t)  OBVIOUS
    <3>4. r \in Op /\ CallTyped(r) /\ r.at # "idle" /\ s \in Slots \cup {NoSlot}  BY <1>1, <2>2, <3>2, <3>3
    <3>5. o \in {Idle, [r EXCEPT !.at = "drop"], [r EXCEPT !.at = "read", !.buf = s]}  BY <3>1, <3>3
    <3>6. o \in Op /\ CallTyped(o)
      <4>1. CASE o = Idle  BY <4>1, IdleTyped
      <4>2. CASE o = [r EXCEPT !.at = "drop"]  BY <3>4, <4>2, MoveTyped
      <4>3. CASE o = [r EXCEPT !.at = "read", !.buf = s]  BY <3>4, <4>3, MoveBufTyped
      <4> QED BY <3>5, <4>1, <4>2, <4>3
    <3> QED BY <3>1, <3>6, GotoTyped
  <2>5. Buffers' \in [Slots -> LoadBuff]
    <3>1. [Buffers EXCEPT ![LoadBuf(t)].Content = Junk] \in [Slots -> LoadBuff]  BY <1>1, FieldTyped
    <3>2. Buffers' \in {Buffers, [Buffers EXCEPT ![LoadBuf(t)].Content = Junk]}  BY <1>2 DEF ReadBegin
    <3> QED BY <1>1, <3>1, <3>2
  <2>6. UNCHANGED LastLoadBuffId /\ UNCHANGED <<Acc, Val, ptr>> /\ UNCHANGED dumpVars  BY <1>2 DEF ReadBegin
  <2> QED BY <2>3, <2>4, <2>5, <2>6, Unchanged
<1>3. CASE ReadEnd(p)
  <2>1. t \in Tables  BY <1>1, <1>3 DEF ReadEnd, IsAt, CallTyped
  <2>2. RegTyped'  BY <1>1, <1>3, <2>1, ClearStaleTyped, Unchanged DEF ReadEnd
  <2>3. Buffers' \in [Slots -> LoadBuff]
    <3>1. PICK i : i = op[p].img  OBVIOUS
    <3>2. i \in Images \cup {Junk}  BY <1>1, <3>1, OpParts
    <3>3. \A s \in Slots : [Buffers[s] EXCEPT !.Content = i] \in LoadBuff  BY <1>1, <3>2 DEF LoadBuff
    <3>4. PICK T : Buffers' = [s \in Slots |-> IF s \in T THEN [Buffers[s] EXCEPT !.Content = i] ELSE Buffers[s]]
      BY <1>3, <3>1 DEF ReadEnd
    <3> QED BY <1>1, <3>3, <3>4
  <2>4. PICK w \in {"header", "check"} : Goto(p, [op[p] EXCEPT !.at = w, !.buf = NoSlot])
    BY <1>3 DEF ReadEnd
  <2>5. op' \in [Procs -> Op] /\ CallsTyped'
    <3>1. op[p].at # "idle"  BY <1>3 DEF ReadEnd, IsAt
    <3>2. PICK r : r = op[p]  OBVIOUS
    <3>3. r \in Op /\ CallTyped(r) /\ r.at # "idle"  BY <1>1, <3>1, <3>2
    <3>4. [r EXCEPT !.at = w, !.buf = NoSlot] \in Op /\ CallTyped([r EXCEPT !.at = w, !.buf = NoSlot])
      BY <3>3, MoveBufTyped
    <3> QED BY <2>4, <3>2, <3>4, GotoTyped
  <2>6. UNCHANGED LastLoadBuffId /\ UNCHANGED <<Acc, Val, ptr>> /\ UNCHANGED dumpVars  BY <1>3 DEF ReadEnd
  <2> QED BY <2>2, <2>3, <2>5, <2>6, Unchanged
<1>5. CASE SetMetaDataFromFileHeader(p)
  <2>1. t \in Tables  BY <1>1, <1>5 DEF SetMetaDataFromFileHeader, IsAt, CallTyped
  <2>2. RegTyped'  BY <1>1, <1>5, <2>1, ClearStaleTyped, Unchanged DEF SetMetaDataFromFileHeader
  <2>3. Buffers' \in [Slots -> LoadBuff]
    <3>1. [Buffers EXCEPT ![LoadBuf(t)].IsValid = (t \notin Validated), ![LoadBuf(t)].ActivateReq = FALSE]
            \in [Slots -> LoadBuff]
      BY <1>1, FieldTyped
    <3> QED BY <1>1, <1>5, <3>1 DEF SetMetaDataFromFileHeader
  <2>4. op' \in [Procs -> Op] /\ CallsTyped'
    <3>1. PICK o \in {Idle, [op[p] EXCEPT !.at = "check"]} : Goto(p, o)
      BY <1>5 DEF SetMetaDataFromFileHeader
    <3>2. op[p].at # "idle"  BY <1>5 DEF SetMetaDataFromFileHeader, IsAt
    <3>3. PICK r : r = op[p]  OBVIOUS
    <3>4. r \in Op /\ CallTyped(r) /\ r.at # "idle"  BY <1>1, <3>2, <3>3
    <3>5. [r EXCEPT !.at = "check"] \in Op /\ CallTyped([r EXCEPT !.at = "check"])  BY <3>4, MoveTyped
    <3> QED BY <3>1, <3>3, <3>5, IdleTyped, GotoTyped
  <2>5. UNCHANGED LastLoadBuffId /\ UNCHANGED <<Acc, Val, ptr>> /\ UNCHANGED dumpVars
    BY <1>5 DEF SetMetaDataFromFileHeader
  <2> QED BY <2>2, <2>3, <2>4, <2>5, Unchanged
<1>4. CASE ReadFail(p)
  <2>2. PICK o \in {Idle, [op[p] EXCEPT !.at = "drop", !.buf = NoSlot]} : Goto(p, o)
    BY <1>4 DEF ReadFail
  <2>3. o \in Op /\ CallTyped(o)
    <3>1. op[p].at # "idle"  BY <1>4 DEF ReadFail, IsAt
    <3>2. CASE o = Idle  BY <3>2, IdleTyped
    <3>3. CASE o # Idle
      <4>1. PICK r : r = op[p]  OBVIOUS
      <4>2. r \in Op /\ CallTyped(r) /\ r.at # "idle"  BY <1>1, <3>1, <4>1
      <4>3. o = [r EXCEPT !.at = "drop", !.buf = NoSlot]  BY <2>2, <3>3, <4>1
      <4> QED BY <4>2, <4>3, MoveBufTyped
    <3> QED BY <3>2, <3>3
  <2>4. UNCHANGED regVars /\ UNCHANGED <<Buffers, LastLoadBuffId>> /\ UNCHANGED <<Acc, Val, ptr>> /\ UNCHANGED dumpVars  BY <1>4 DEF ReadFail
  <2> QED BY <2>2, <2>3, <2>4, Unchanged, GotoTyped
<1> QED BY <1>2, <1>3, <1>4, <1>5

(* Ground commands keep the types.                                         *)
LEMMA TypeCommands ==
  ASSUME TypeInv, NEW t \in Tables, GroundCommand(t)
  PROVE  TypeInv'
<1>1. TypeOK /\ Buffers \in [Slots -> LoadBuff]  BY DEF TypeInv, TypeOK
<1>a. TblTask \in Procs  BY DEF Procs
<1>2. ASSUME NEW i \in Images, LoadCmd(t, i) PROVE TypeInv'
  <2>1. GetWorkingBuffer(t) /\ UNCHANGED <<Active, Prev, PendingVal>> /\ UNCHANGED <<Acc, Val, ptr>> /\ UNCHANGED dumpVars
    BY <1>2 DEF LoadCmd
  <2>2. PICK id \in BufferIds, b \in LoadBuff : Reserved(t, id, b)  BY <1>1, <2>1, Reserves
  <2>3. /\ Next' \in [Tables -> BufferIds \cup {NoId}] /\ Buffers' \in [Slots -> LoadBuff]
        /\ LastLoadBuffId' \in 0..(NumShared * Wrap - 1)
    BY <1>1, <2>2, ReservedTyped
  <2> DEFINE o == [Idle EXCEPT !.at = "open", !.cmd = TRUE, !.tbl = t, !.img = i]
  <2>4. o \in Op /\ CallTyped(o)  BY DEF Idle, Op, CallTyped
  <2>5. Goto(TblTask, o)  BY <1>2 DEF LoadCmd
  <2> HIDE DEF o
  <2>6. op' \in [Procs -> Op] /\ CallsTyped'  BY <1>a, <2>4, <2>5, GotoTyped
  <2>7. BuffTyped'  BY <2>3 DEF BuffTyped
  <2> QED BY <2>1, <2>3, <2>6, <2>7, Unchanged
<1>3. ASSUME NEW v \in Vals, NEW select \in {"INACTIVE", "ACTIVE"}, ValidateCmd(t, select, v) PROVE TypeInv'
  <2>1. UNCHANGED <<Active, Prev>> /\ UNCHANGED LastLoadBuffId /\ UNCHANGED <<Acc, ptr>> /\ UNCHANGED op /\ UNCHANGED dumpVars
    BY <1>3 DEF ValidateCmd
  <2>2. Next' \in [Tables -> BufferIds \cup {NoId}]
    BY <1>1, <1>3, ClearStaleTyped DEF ValidateCmd, TypeOK
  <2>3. Buffers' \in [Slots -> LoadBuff]
    <3>1. [Buffers EXCEPT ![SelectedBuffer(t, select)].IsValid = TRUE] \in [Slots -> LoadBuff]  BY <1>1, FieldTyped
    <3>2. Buffers' \in {Buffers, [Buffers EXCEPT ![SelectedBuffer(t, select)].IsValid = TRUE]}  BY <1>3 DEF ValidateCmd
    <3> QED BY <1>1, <3>1, <3>2
  <2>4. PendingVal' \in [Tables -> Vals \cup {NoVal}] /\ Val' \in [Vals -> ValResult]
    <3>1. PendingVal \in [Tables -> Vals \cup {NoVal}] /\ Val \in [Vals -> ValResult]  BY <1>1 DEF TypeOK
    <3>2. [State |-> "PENDING", Select |-> select] \in ValResult  BY DEF ValResult
    <3>3. /\ PendingVal' \in {PendingVal, [PendingVal EXCEPT ![t] = v]}
          /\ Val' \in {Val, [Val EXCEPT ![v] = [State |-> "PENDING", Select |-> select]]}
      BY <1>3 DEF ValidateCmd
    <3> QED BY <3>1, <3>2, <3>3
  <2>5. RegTyped' /\ UserTyped'
    <3>1. RegTyped'  BY <1>1, <2>1, <2>2, <2>4 DEF RegTyped, TypeOK
    <3>2. UserTyped'  BY <1>1, <2>1, <2>4 DEF UserTyped, TypeOK
    <3> QED BY <3>1, <3>2
  <2> QED BY <2>1, <2>3, <2>5, Unchanged
<1>4. ASSUME ActivateCmd(t) PROVE TypeInv'
  <2>1. /\ UNCHANGED <<Active, Prev, PendingVal>> /\ UNCHANGED LastLoadBuffId /\ UNCHANGED <<Acc, Val, ptr>>
        /\ UNCHANGED op /\ UNCHANGED dumpVars /\ ClearStale(t)
    BY <1>4 DEF ActivateCmd
  <2>2. Next' \in [Tables -> BufferIds \cup {NoId}]  BY <1>1, <2>1, ClearStaleTyped
  <2>3. Buffers' \in [Slots -> LoadBuff]
    BY <1>1, <1>4, FieldTyped DEF ActivateCmd
  <2> QED BY <2>1, <2>2, <2>3, Unchanged
<1>5. ASSUME AbortLoadCmd(t) PROVE TypeInv'
  <2> DEFINE b == IF t \in DoubleBuffered THEN NoSlot ELSE Slot(Next[t])
             o == [Idle EXCEPT !.at = "abort", !.tbl = t, !.buf = b]
  <2>1. b \in Slots \cup {NoSlot}  BY <1>1, SlotTyped DEF TypeOK
  <2>2. o \in Op /\ CallTyped(o)
    <3> HIDE DEF b
    <3> QED BY <2>1 DEF Idle, Op, CallTyped
  <2>3. Goto(TblTask, o)  BY <1>5 DEF AbortLoadCmd
  <2> HIDE DEF o
  <2>4. UNCHANGED regVars /\ UNCHANGED <<Buffers, LastLoadBuffId>> /\ UNCHANGED <<Acc, Val, ptr>> /\ UNCHANGED dumpVars
    BY <1>5 DEF AbortLoadCmd
  <2> QED BY <1>a, <2>2, <2>3, <2>4, Unchanged, GotoTyped
<1>6. ASSUME NEW select \in {"INACTIVE", "ACTIVE"}, DumpCmd(t, select) PROVE TypeInv'
  <2>1. /\ AllocateDumpCtrlBlock(t, select) /\ FreeBlocks # {}
        /\ UNCHANGED <<Active, Prev, PendingVal>> /\ UNCHANGED <<Buffers, LastLoadBuffId>>
        /\ UNCHANGED <<Acc, Val, ptr>> /\ UNCHANGED DumpControlId
    BY <1>6 DEF DumpCmd, AllocateDumpCtrlBlock
  <2>2. NextBlock \in BlockIds  BY <1>1, <2>1, NextBlockFree DEF TypeOK
  <2>3. Next' \in [Tables -> BufferIds \cup {NoId}]
    BY <1>1, <2>1, ClearStaleTyped DEF AllocateDumpCtrlBlock, TypeOK
  <2> DEFINE s == SelectedBuffer(t, select)
             c == [FreeBlock EXCEPT !.Id = NextBlock, !.tbl = t, !.Source = Buffers[s].Id]
             o == [Idle EXCEPT !.at = "dump", !.tbl = t, !.dump = NextBlock]
  <2>4. c \in DumpControl
    <3>1. s \in Slots  BY <1>1, <2>1, SelectedTyped DEF AllocateDumpCtrlBlock
    <3>2. Buffers[s].Id \in BufferIds \cup {NoId}  BY <1>1, <3>1 DEF LoadBuff
    <3> HIDE DEF s
    <3> QED BY <2>2, <3>2 DEF FreeBlock, DumpControl
  <2>5. o \in Op /\ CallTyped(o)  BY <2>2 DEF Idle, Op, CallTyped
  <2>6. Goto(TblTask, o)  BY <1>6 DEF DumpCmd
  <2>7. DumpControlBlocks' = [DumpControlBlocks EXCEPT ![Block(NextBlock)] = c] /\ LastDumpCtrlBlockId' = NextBlock
    BY <2>1 DEF AllocateDumpCtrlBlock
  <2> HIDE DEF o, c
  <2>8. DumpTyped'
    BY <1>1, <2>1, <2>2, <2>4, <2>7 DEF DumpTyped, TypeOK
  <2> QED BY <1>a, <2>1, <2>3, <2>5, <2>6, <2>8, Unchanged, GotoTyped
<1> QED BY <1>2, <1>3, <1>4, <1>5, <1>6 DEF GroundCommand

(* The calls of applications keep the types.                               *)
LEMMA TypeUser ==
  ASSUME TypeInv, NEW t \in Tables, NEW a \in Apps, Call(a, t)
  PROVE  TypeInv'
<1>1. TypeOK /\ Buffers \in [Slots -> LoadBuff]  BY DEF TypeInv, TypeOK
<1>a. a \in Procs  BY DEF Procs
<1>2. ASSUME NEW i \in Images, Load(a, t, i) PROVE TypeInv'
  <2> DEFINE o == [Idle EXCEPT !.at = "reserve", !.tbl = t, !.img = i]
  <2>1. o \in Op /\ CallTyped(o)  BY DEF Idle, Op, CallTyped
  <2>2. Goto(a, o)  BY <1>2 DEF Load
  <2> HIDE DEF o
  <2>3. UNCHANGED regVars /\ UNCHANGED <<Buffers, LastLoadBuffId>> /\ UNCHANGED <<Acc, Val, ptr>> /\ UNCHANGED dumpVars
    BY <1>2 DEF Load
  <2> QED BY <1>a, <2>1, <2>2, <2>3, Unchanged, GotoTyped
<1>3. CASE Update(a, t)
  <2>1. UpdateInternal(t) /\ UNCHANGED <<PendingVal, LastLoadBuffId>> /\ UNCHANGED <<Val, ptr>> /\ UNCHANGED op /\ UNCHANGED dumpVars
    BY <1>3 DEF Update
  <2>2. /\ Active' \in [Tables -> LocalIds \cup {NoId}] /\ Prev' \in [Tables -> LocalIds \cup {NoId}]
        /\ Next' \in [Tables -> BufferIds \cup {NoId}] /\ Buffers' \in [Slots -> LoadBuff]
        /\ Acc' \in [Apps -> [Tables -> AccessDesc]]
    BY <1>1, <2>1, UpdateTyped
  <2>3. RegTyped' /\ BuffTyped'  BY <1>1, <2>1, <2>2 DEF RegTyped, BuffTyped, TypeOK
  <2>4. UserTyped'  BY <1>1, <2>1, <2>2 DEF UserTyped, TypeOK
  <2> QED BY <2>1, <2>3, <2>4, Unchanged
<1>4. ASSUME NEW w \in {"validate", "update", "take"}, Goto(a, [Idle EXCEPT !.tbl = t, !.at = w])
      PROVE  op' \in [Procs -> Op] /\ CallsTyped'
  <2> DEFINE o == [Idle EXCEPT !.tbl = t, !.at = w]
  <2>1. o \in Op /\ CallTyped(o)  BY DEF Idle, Op, CallTyped
  <2> HIDE DEF o
  <2> QED BY <1>4, <1>a, <2>1, GotoTyped DEF o
<1>5. CASE Manage(a, t)
  <2>1. \E w \in {"validate", "update", "take"} : Goto(a, [Idle EXCEPT !.tbl = t, !.at = w])
    BY <1>5 DEF Manage, ManageNext, TableStatus
  <2>2. UNCHANGED regVars /\ UNCHANGED <<Buffers, LastLoadBuffId>> /\ UNCHANGED <<Acc, Val, ptr>> /\ UNCHANGED dumpVars
    BY <1>5 DEF Manage
  <2> QED BY <1>4, <2>1, <2>2, Unchanged
<1>6. CASE Modify(a, t)
  <2> DEFINE o == [Idle EXCEPT !.at = "modify", !.tbl = t]
  <2>1. o \in Op /\ CallTyped(o)  BY DEF Idle, Op, CallTyped
  <2>2. Goto(a, o)  BY <1>6 DEF Modify
  <2> HIDE DEF o
  <2>3. UNCHANGED regVars /\ UNCHANGED LastLoadBuffId /\ UNCHANGED <<Acc, Val, ptr>> /\ UNCHANGED dumpVars
    BY <1>6 DEF Modify
  <2>4. Buffers' \in [Slots -> LoadBuff]  BY <1>1, <1>6, FieldTyped DEF Modify
  <2> QED BY <1>a, <2>1, <2>2, <2>3, <2>4, Unchanged, GotoTyped
<1>7. CASE GetAddress(a, t)
  <2>1. /\ UNCHANGED regVars /\ UNCHANGED <<Buffers, LastLoadBuffId>> /\ UNCHANGED Val /\ UNCHANGED op /\ UNCHANGED dumpVars
        /\ Active[t] # NoId
        /\ ptr' = [ptr EXCEPT ![a][t] = Slot(Active[t])]
        /\ Acc' = [Acc EXCEPT ![a][t] = [LockFlag |-> TRUE, BufferIndex |-> Buffers[Slot(Active[t])].Id, Updated |-> FALSE]]
    BY <1>7 DEF GetAddress
  <2>2. Active[t] \in LocalIds /\ Slot(Active[t]) \in Slots  BY <1>1, <2>1, IdSlots DEF TypeOK
  <2>3. Buffers[Slot(Active[t])].Id \in BufferIds \cup {NoId}  BY <1>1, <2>2 DEF LoadBuff
  <2>4. UserTyped'
    <3>1. ptr' \in [Apps -> [Tables -> Slots \cup {NoSlot}]]  BY <1>1, <2>1, <2>2 DEF TypeOK
    <3>2. [LockFlag |-> TRUE, BufferIndex |-> Buffers[Slot(Active[t])].Id, Updated |-> FALSE] \in AccessDesc
      BY <2>3 DEF AccessDesc
    <3>3. Acc' \in [Apps -> [Tables -> AccessDesc]]  BY <1>1, <2>1, <3>2 DEF TypeOK
    <3> QED BY <1>1, <2>1, <3>1, <3>3 DEF UserTyped, TypeOK
  <2> QED BY <2>1, <2>4, Unchanged
<1>8. CASE ReleaseAddress(a, t)
  <2>1. /\ UNCHANGED regVars /\ UNCHANGED <<Buffers, LastLoadBuffId>> /\ UNCHANGED Val /\ UNCHANGED op /\ UNCHANGED dumpVars
        /\ ptr' = [ptr EXCEPT ![a][t] = NoSlot] /\ Acc' = [Acc EXCEPT ![a][t].LockFlag = FALSE]
    BY <1>8 DEF ReleaseAddress
  <2>2. UserTyped'
    <3>1. ptr' \in [Apps -> [Tables -> Slots \cup {NoSlot}]]  BY <1>1, <2>1 DEF TypeOK
    <3>2. Acc \in [Apps -> [Tables -> AccessDesc]]  BY <1>1 DEF TypeOK
    <3>3. [Acc[a] EXCEPT ![t].LockFlag = FALSE] \in [Tables -> AccessDesc]
      <4>1. Acc[a] \in [Tables -> AccessDesc]  BY <3>2
      <4>2. \A r \in AccessDesc : [r EXCEPT !.LockFlag = FALSE] \in AccessDesc  BY DEF AccessDesc
      <4> QED BY <4>1, <4>2
    <3>5. Acc' \in [Apps -> [Tables -> AccessDesc]]  BY <2>1, <3>2, <3>3
    <3> QED BY <1>1, <2>1, <3>1, <3>5 DEF UserTyped, TypeOK
  <2> QED BY <2>1, <2>2, Unchanged
<1> QED BY <1>2, <1>3, <1>5, <1>6, <1>7, <1>8 DEF Call

(* The steps of CFE_TBL_Load keep the types.                               *)
LEMMA TypeLoad ==
  ASSUME TypeInv, NEW p \in Procs, LoadReserve(p) \/ LoadNoBuffer(p) \/ ValidateLoad(p) \/ LoadDrop(p) \/ LoadFinish(p) \/ LoadCommit(p)
  PROVE  TypeInv'
<1> DEFINE t == op[p].tbl
<1>1. /\ TypeOK /\ Buffers \in [Slots -> LoadBuff] /\ op[p] \in Op /\ CallTyped(op[p])
      /\ Next \in [Tables -> BufferIds \cup {NoId}]
  BY DEF TypeInv, TypeOK, CallsTyped
<1>2. op[p].at # "idle" /\ t \in Tables
  BY <1>1 DEF CallTyped, LoadReserve, LoadNoBuffer, ValidateLoad, LoadDrop, LoadFinish, LoadCommit, IsAt
<1> HIDE DEF t
<1>3. CASE LoadReserve(p)
  <2>1. GetWorkingBuffer(t) /\ UNCHANGED <<Active, Prev, PendingVal>> /\ UNCHANGED <<Acc, Val, ptr>> /\ UNCHANGED dumpVars
        /\ Goto(p, [op[p] EXCEPT !.at = "open"])
    BY <1>3 DEF LoadReserve, t
  <2>2. PICK id \in BufferIds, b \in LoadBuff : Reserved(t, id, b)  BY <1>1, <1>2, <2>1, Reserves
  <2>3. /\ Next' \in [Tables -> BufferIds \cup {NoId}] /\ Buffers' \in [Slots -> LoadBuff]
        /\ LastLoadBuffId' \in 0..(NumShared * Wrap - 1)
    BY <1>1, <1>2, <2>2, ReservedTyped
  <2>4. op' \in [Procs -> Op] /\ CallsTyped'  BY <1>1, <1>2, <2>1, MoveTyped, GotoTyped
  <2>5. BuffTyped'  BY <2>3 DEF BuffTyped
  <2> QED BY <2>1, <2>3, <2>4, <2>5, Unchanged
<1>4. CASE LoadNoBuffer(p)
  <2>1. /\ UNCHANGED regVars /\ UNCHANGED <<Buffers, LastLoadBuffId>> /\ UNCHANGED <<Acc, Val, ptr>> /\ UNCHANGED dumpVars
        /\ Goto(p, Idle)
    BY <1>4 DEF LoadNoBuffer
  <2> QED BY <2>1, IdleTyped, Unchanged, GotoTyped
<1>5. CASE ValidateLoad(p)
  <2> DEFINE b == LoadBuf(t)
             ok == b # NoSlot /\ Accepts(t, Buffers[b].Content)
  <2>1. /\ ClearStale(t) /\ UNCHANGED <<Active, Prev, PendingVal>> /\ UNCHANGED LastLoadBuffId
        /\ UNCHANGED <<Acc, Val, ptr>> /\ UNCHANGED dumpVars
        /\ Buffers' = IF b = NoSlot THEN Buffers
             ELSE [Buffers EXCEPT ![b].IsValid = ok, ![b].ActivateReq = ok, ![b].Content = IF ok THEN @ ELSE Junk]
        /\ Goto(p, [op[p] EXCEPT !.at = IF ok THEN "finish" ELSE "drop"])
    <3>1. ClearStale(t) /\ UNCHANGED <<Active, Prev, PendingVal>> /\ UNCHANGED LastLoadBuffId
          /\ UNCHANGED <<Acc, Val, ptr>> /\ UNCHANGED dumpVars
      BY <1>5 DEF ValidateLoad, t
    <3>2. Goto(p, [op[p] EXCEPT !.at = IF ok THEN "finish" ELSE "drop"])  BY <1>5, Zenon DEF ValidateLoad, t
    <3>3. Buffers' = IF b = NoSlot THEN Buffers
                ELSE [Buffers EXCEPT ![b].IsValid = ok, ![b].ActivateReq = ok,
                                     ![b].Content = IF ok THEN @ ELSE Junk]
      BY <1>5, Zenon DEF ValidateLoad, t
    <3> QED BY <3>1, <3>2, <3>3
  <2>2. b \in Slots \cup {NoSlot} /\ ok \in BOOLEAN  BY <1>1, <1>2, LoadBufIs
  <2> HIDE DEF b, ok
  <2>4. Buffers' \in [Slots -> LoadBuff]
    <3>1. CASE b = NoSlot  BY <1>1, <2>1, <3>1
    <3>2. CASE b # NoSlot
      <4>1. b \in Slots /\ Buffers[b] \in LoadBuff  BY <1>1, <2>2, <3>2
      <4>2. (IF ok THEN Buffers[b].Content ELSE Junk) \in Images \cup {Junk}  BY <4>1 DEF LoadBuff
      <4>3. Buffers' = [Buffers EXCEPT ![b].IsValid = ok, ![b].ActivateReq = ok,
                                       ![b].Content = IF ok THEN Buffers[b].Content ELSE Junk]
        BY <2>1, <3>2
      <4>4. \A k \in BOOLEAN, c \in Images \cup {Junk} :
              [Buffers EXCEPT ![b].IsValid = k, ![b].ActivateReq = k, ![b].Content = c] \in [Slots -> LoadBuff]
        BY <1>1, <4>1 DEF LoadBuff
      <4> QED BY <2>2, <4>2, <4>3, <4>4
    <3> QED BY <3>1, <3>2
  <2>5. Next' \in [Tables -> BufferIds \cup {NoId}]  BY <1>1, <1>2, <2>1, ClearStaleTyped
  <2>6. PICK w \in {"finish", "drop"} : Goto(p, [op[p] EXCEPT !.at = w])  BY <2>1
  <2>7. op' \in [Procs -> Op] /\ CallsTyped'  BY <1>1, <1>2, <2>6, MoveTyped, GotoTyped
  <2> QED BY <2>1, <2>4, <2>5, <2>7, Unchanged
<1>6. CASE LoadDrop(p)
  <2>1. /\ UNCHANGED <<Active, Prev, PendingVal>> /\ UNCHANGED LastLoadBuffId /\ UNCHANGED <<Acc, Val, ptr>> /\ UNCHANGED dumpVars
        /\ Goto(p, Idle) /\ Buffers' = Discard(t, Buffers) /\ Next' = [Next EXCEPT ![t] = NoId]
    BY <1>6 DEF LoadDrop, t
  <2>2. Next' \in [Tables -> BufferIds \cup {NoId}] /\ Buffers' \in [Slots -> LoadBuff]
    BY <1>1, <1>2, <2>1, DiscardTyped
  <2> QED BY <2>1, <2>2, IdleTyped, Unchanged, GotoTyped
<1>7. CASE LoadFinish(p)
  <2> DEFINE b == LoadBuf(t)
             o == [op[p] EXCEPT !.at = "commit", !.buf = b, !.id = Target(t)]
  <2>1. /\ ClearStale(t) /\ UNCHANGED <<Active, Prev, PendingVal>> /\ UNCHANGED LastLoadBuffId
        /\ UNCHANGED <<Acc, Val, ptr>> /\ UNCHANGED dumpVars
        /\ \/ b # NoSlot /\ Goto(p, o) /\ Buffers' = [Buffers EXCEPT ![Slot(Target(t))].Id = Target(t)]
           \/ Goto(p, Idle) /\ UNCHANGED Buffers
    BY <1>7 DEF LoadFinish, t
  <2>2. Next' \in [Tables -> BufferIds \cup {NoId}]  BY <1>1, <1>2, <2>1, ClearStaleTyped
  <2>3. b \in Slots \cup {NoSlot} /\ (b # NoSlot => Next[t] # NoId)  BY <1>1, <1>2, LoadBufIs
  <2>4. b # NoSlot => Target(t) \in LocalIds /\ Target(t) \in BufferIds  BY <1>1, <1>2, <2>3, TargetTyped, IdParts
  <2>5. Buffers' \in [Slots -> LoadBuff]
    <3>1. CASE b # NoSlot
      <4>1. [Buffers EXCEPT ![Slot(Target(t))].Id = Target(t)] \in [Slots -> LoadBuff]  BY <1>1, <2>4, <3>1, FieldTyped
      <4> QED BY <1>1, <2>1, <4>1
    <3>2. CASE b = NoSlot  BY <1>1, <2>1, <3>2
    <3> QED BY <3>1, <3>2
  <2>6. b # NoSlot => o \in Op /\ CallTyped(o)
    <3> HIDE DEF b
    <3>1. b # NoSlot => o \in Op
      <4> SUFFICES ASSUME b # NoSlot PROVE o \in Op  OBVIOUS
      <4>1. b \in Slots /\ Target(t) \in BufferIds  BY <2>3, <2>4
      <4>2. \A d \in BufferIds : [op[p] EXCEPT !.at = "commit", !.buf = b, !.id = d] \in Op  BY <1>1, <4>1 DEF Op
      <4> QED BY <4>1, <4>2
    <3>2. o.tbl = t /\ o.at = "commit" /\ o.buf = b /\ o.id = Target(t)  BY <1>1 DEF Op, t
    <3> HIDE DEF o
    <3> QED BY <1>2, <2>3, <2>4, <3>1, <3>2 DEF CallTyped
  <2> HIDE DEF o, b
  <2>7. op' \in [Procs -> Op] /\ CallsTyped'
    <3>1. CASE Goto(p, Idle)  BY <3>1, IdleTyped, GotoTyped
    <3>2. CASE b # NoSlot /\ Goto(p, o)  BY <2>6, <3>2, GotoTyped
    <3> QED BY <2>1, <3>1, <3>2
  <2> QED BY <2>1, <2>2, <2>5, <2>7, Unchanged
<1>8. CASE LoadCommit(p)
  <2>1. /\ Commit(t, op[p].buf, op[p].id) /\ UNCHANGED <<PendingVal, LastLoadBuffId>> /\ UNCHANGED <<Val, ptr>>
        /\ UNCHANGED dumpVars /\ Goto(p, Idle) /\ op[p].at = "commit"
    BY <1>8 DEF LoadCommit, t, IsAt
  <2>2. op[p].buf \in Slots /\ op[p].id \in LocalIds  BY <1>1, <2>1 DEF CallTyped
  <2>3. /\ Active' \in [Tables -> LocalIds \cup {NoId}] /\ Prev' \in [Tables -> LocalIds \cup {NoId}]
        /\ Next' \in [Tables -> BufferIds \cup {NoId}] /\ Buffers' \in [Slots -> LoadBuff]
        /\ Acc' \in [Apps -> [Tables -> AccessDesc]]
    BY <1>1, <1>2, <2>1, <2>2, CommitTyped
  <2>4. RegTyped' /\ BuffTyped'  BY <1>1, <2>1, <2>3 DEF RegTyped, BuffTyped, TypeOK
  <2>5. UserTyped'  BY <1>1, <2>1, <2>3 DEF UserTyped, TypeOK
  <2> QED BY <2>1, <2>4, <2>5, IdleTyped, Unchanged, GotoTyped
<1> QED BY <1>3, <1>4, <1>5, <1>6, <1>7, <1>8

(* The steps of CFE_TBL_Manage keep the types.                             *)
LEMMA TypeManage ==
  ASSUME TypeInv, NEW p \in Procs, ManageAgain(p) \/ ManageUpdate(p) \/ Validate(p) \/ ValidationFunc(p) \/ ValidateDone(p)
  PROVE  TypeInv'
<1> DEFINE t == op[p].tbl
<1>1. /\ TypeOK /\ Buffers \in [Slots -> LoadBuff] /\ op[p] \in Op /\ CallTyped(op[p])
      /\ Next \in [Tables -> BufferIds \cup {NoId}]
  BY DEF TypeInv, TypeOK, CallsTyped
<1>2. op[p].at # "idle" /\ t \in Tables
  BY <1>1 DEF CallTyped, ManageAgain, ManageUpdate, Validate, ValidationFunc, ValidateDone, IsAt
<1> HIDE DEF t
<1>3. CASE ManageAgain(p)
  <2>1. /\ UNCHANGED regVars /\ UNCHANGED <<Buffers, LastLoadBuffId>> /\ UNCHANGED <<Acc, Val, ptr>> /\ UNCHANGED dumpVars
        /\ \/ Goto(p, Idle)
           \/ \E w \in {"validate", "update", "take"} : Goto(p, [Idle EXCEPT !.tbl = t, !.at = w])
    BY <1>3 DEF ManageAgain, ManageNext, TableStatus, t
  <2>2. ASSUME NEW w \in {"validate", "update", "take"}, Goto(p, [Idle EXCEPT !.tbl = t, !.at = w])
        PROVE  op' \in [Procs -> Op] /\ CallsTyped'
    <3> DEFINE o == [Idle EXCEPT !.tbl = t, !.at = w]
    <3>1. o \in Op /\ CallTyped(o)  BY <1>2 DEF Idle, Op, CallTyped
    <3> HIDE DEF o
    <3> QED BY <2>2, <3>1, GotoTyped DEF o
  <2>3. op' \in [Procs -> Op] /\ CallsTyped'  BY <2>1, <2>2, IdleTyped, GotoTyped
  <2> QED BY <2>1, <2>3, Unchanged
<1>4. CASE ManageUpdate(p)
  <2>1. UpdateInternal(t) /\ UNCHANGED <<PendingVal, LastLoadBuffId>> /\ UNCHANGED <<Val, ptr>> /\ UNCHANGED dumpVars
        /\ Goto(p, Idle)
    BY <1>4 DEF ManageUpdate, t
  <2>2. /\ Active' \in [Tables -> LocalIds \cup {NoId}] /\ Prev' \in [Tables -> LocalIds \cup {NoId}]
        /\ Next' \in [Tables -> BufferIds \cup {NoId}] /\ Buffers' \in [Slots -> LoadBuff]
        /\ Acc' \in [Apps -> [Tables -> AccessDesc]]
    BY <1>1, <1>2, <2>1, UpdateTyped
  <2>3. RegTyped' /\ BuffTyped'  BY <1>1, <2>1, <2>2 DEF RegTyped, BuffTyped, TypeOK
  <2>4. UserTyped'  BY <1>1, <2>1, <2>2 DEF UserTyped, TypeOK
  <2> QED BY <2>1, <2>3, <2>4, IdleTyped, GotoTyped, Unchanged
<1>5. CASE Validate(p)
  <2> DEFINE v == PendingVal[t]
             b == IF Val[v].Select = "ACTIVE" THEN Slot(Active[t]) ELSE LoadBuf(t)
  <2>1. /\ UNCHANGED <<Active, Prev>> /\ UNCHANGED <<Buffers, LastLoadBuffId>> /\ UNCHANGED <<Acc, Val, ptr>> /\ UNCHANGED dumpVars
        /\ PendingVal' = [PendingVal EXCEPT ![t] = NoVal]
        /\ UNCHANGED Next \/ ClearStale(t)
        /\ Goto(p, [op[p] EXCEPT !.at = "run", !.val = v, !.buf = b])
    BY <1>5 DEF Validate, t
  <2>2. v \in Vals \cup {NoVal} /\ b \in Slots \cup {NoSlot}
    <3>1. Active[t] \in BufferIds \cup {NoId}  BY <1>1, <1>2, IdParts DEF TypeOK
    <3> QED BY <1>1, <1>2, <3>1, SlotTyped, LoadBufIs DEF TypeOK
  <2> HIDE DEF v, b
  <2>3. Next' \in [Tables -> BufferIds \cup {NoId}]  BY <1>1, <1>2, <2>1, ClearStaleTyped
  <2>4. RegTyped'  BY <1>1, <2>1, <2>3 DEF RegTyped, TypeOK
  <2>5. op' \in [Procs -> Op] /\ CallsTyped'  BY <1>1, <1>2, <2>1, <2>2, MoveValTyped, GotoTyped
  <2> QED BY <2>1, <2>4, <2>5, Unchanged
<1>6. CASE ValidationFunc(p)
  <2>1. /\ UNCHANGED regVars /\ UNCHANGED <<Buffers, LastLoadBuffId>> /\ UNCHANGED <<Acc, Val, ptr>> /\ UNCHANGED dumpVars
        /\ \E k \in BOOLEAN : Goto(p, [op[p] EXCEPT !.at = "verdict", !.ok = k])
    BY <1>6 DEF ValidationFunc
  <2>2. op' \in [Procs -> Op] /\ CallsTyped'  BY <1>1, <1>2, <2>1, MoveOkTyped, GotoTyped
  <2> QED BY <2>1, <2>2, Unchanged
<1>7. CASE ValidateDone(p)
  <2> DEFINE b == op[p].buf
             o == [Idle EXCEPT !.at = "manage", !.tbl = op[p].tbl]
  <2>1. /\ UNCHANGED regVars /\ UNCHANGED LastLoadBuffId /\ UNCHANGED <<Acc, ptr>> /\ UNCHANGED dumpVars
        /\ Buffers' \in {Buffers, [Buffers EXCEPT ![b].IsValid = op[p].ok]}
        /\ Val' = [Val EXCEPT ![op[p].val].State = "PERFORMED"]
        /\ Goto(p, o)
    BY <1>7 DEF ValidateDone
  <2>2. o \in Op /\ CallTyped(o)  BY <1>2 DEF Idle, Op, CallTyped, t
  <2>3. op[p].ok \in BOOLEAN  BY <1>1 DEF Op
  <2>4. Buffers' \in [Slots -> LoadBuff]
    <3>1. [Buffers EXCEPT ![b].IsValid = op[p].ok] \in [Slots -> LoadBuff]  BY <1>1, <2>3, FieldTyped
    <3> QED BY <1>1, <2>1, <3>1
  <2>5. UserTyped'  BY ZenonT(30), <1>1, <2>1 DEF UserTyped, TypeOK, ValResult
  <2> HIDE DEF o
  <2> QED BY <2>1, <2>2, <2>4, <2>5, GotoTyped, Unchanged
<1> QED BY <1>3, <1>4, <1>5, <1>6, <1>7

(* One dump control block changes.                                         *)
LEMMA BlockFields ==
  ASSUME NEW bs \in [0..(NumShared - 1) -> DumpControl], NEW s \in Slots, NEW st \in {"FREE", "PENDING", "PERFORMED"}, NEW b
  PROVE  /\ [bs EXCEPT ![b].Buf = s, ![b].State = st] \in [0..(NumShared - 1) -> DumpControl]
         /\ [bs EXCEPT ![b] = Performed(bs[b])] \in [0..(NumShared - 1) -> DumpControl]
<1>1. [bs EXCEPT ![b].Buf = s, ![b].State = st] \in [0..(NumShared - 1) -> DumpControl]
  BY ZenonT(30) DEF DumpControl
<1>2. \A c \in DumpControl : Performed(c) \in DumpControl  BY DEF DumpControl, Performed
<1> QED BY <1>1, <1>2

(* The steps of the table task about dumps, aborts and housekeeping keep   *)
(* the types.                                                              *)
LEMMA TypeDumps ==
  ASSUME TypeInv, AbortLoad \/ PrepareDump \/ SnapshotBegin \/ SnapshotEnd \/ SendHkCmd
  PROVE  TypeInv'
<1> DEFINE r == op[TblTask]
<1>a. TblTask \in Procs  BY DEF Procs
<1>1. /\ TypeOK /\ Buffers \in [Slots -> LoadBuff] /\ r \in Op /\ CallTyped(r)
      /\ Next \in [Tables -> BufferIds \cup {NoId}] /\ LastLoadBuffId \in 0..(NumShared * Wrap - 1)
      /\ DumpControlBlocks \in [0..(NumShared - 1) -> DumpControl]
      /\ DumpControlId \in [Tables -> BlockIds \cup {NoDump}] /\ LastDumpCtrlBlockId \in BlockIds
  BY <1>a DEF TypeInv, TypeOK, CallsTyped
<1>2. CASE AbortLoad
  <2>1. /\ UNCHANGED <<Active, Prev, PendingVal>> /\ UNCHANGED LastLoadBuffId /\ UNCHANGED <<Acc, Val, ptr>> /\ UNCHANGED dumpVars
        /\ Next' = [Next EXCEPT ![r.tbl] = NoId] /\ Goto(TblTask, Idle)
        /\ Buffers' \in {Buffers, [Buffers EXCEPT ![r.buf].Id = NoId]}
    BY <1>2 DEF AbortLoad
  <2>2. Next' \in [Tables -> BufferIds \cup {NoId}]  BY <1>1, <2>1
  <2>3. Buffers' \in [Slots -> LoadBuff]
    <3>1. [Buffers EXCEPT ![r.buf].Id = NoId] \in [Slots -> LoadBuff]  BY <1>1, FieldTyped
    <3> QED BY <1>1, <2>1, <3>1
  <2> QED BY <1>a, <2>1, <2>2, <2>3, IdleTyped, GotoTyped, Unchanged
<1>3. CASE PrepareDump
  <2> DEFINE b == Block(r.dump)
  <2>1. /\ UNCHANGED regVars /\ UNCHANGED <<Acc, Val, ptr>> /\ UNCHANGED LastDumpCtrlBlockId /\ r.at = "dump"
        /\ DumpControlId' \in {DumpControlId, [DumpControlId EXCEPT ![r.tbl] = r.dump]}
        /\ Goto(TblTask, Idle) \/ Goto(TblTask, [r EXCEPT !.at = "snapshot"])
    BY <1>3 DEF PrepareDump, IsAt
  <2>2. \/ UNCHANGED <<Buffers, LastLoadBuffId>> /\ UNCHANGED DumpControlBlocks
        \/ /\ FreeShared # {} /\ Buffers' = [Buffers EXCEPT ![Slot(NextShared)].Id = NextShared]
           /\ LastLoadBuffId' = NextShared[2]
           /\ \E st \in {"PENDING", DumpControlBlocks[b].State} :
                DumpControlBlocks' = [DumpControlBlocks EXCEPT ![b].Buf = Slot(NextShared), ![b].State = st]
    BY <1>3 DEF PrepareDump
  <2>3. r.dump \in BlockIds /\ b \in 0..(NumShared - 1)  BY <1>1, <2>1, BlockPlace DEF CallTyped, Blocks
  <2>4. BuffTyped' /\ DumpControlBlocks' \in [0..(NumShared - 1) -> DumpControl]
    <3>1. CASE UNCHANGED <<Buffers, LastLoadBuffId>> /\ UNCHANGED DumpControlBlocks  BY <1>1, <3>1, Unchanged
    <3>2. CASE /\ FreeShared # {} /\ Buffers' = [Buffers EXCEPT ![Slot(NextShared)].Id = NextShared]
               /\ LastLoadBuffId' = NextShared[2]
               /\ \E st \in {"PENDING", DumpControlBlocks[b].State} :
                    DumpControlBlocks' = [DumpControlBlocks EXCEPT ![b].Buf = Slot(NextShared), ![b].State = st]
      <4>1. NextShared \in SharedIds  BY <1>1, <3>2, NextSharedFree
      <4>2. NextShared \in BufferIds /\ Slot(NextShared) \in Slots /\ NextShared[2] \in 0..(NumShared * Wrap - 1)
        BY <4>1, IdParts, IdSlots
      <4>3. [Buffers EXCEPT ![Slot(NextShared)].Id = NextShared] \in [Slots -> LoadBuff]  BY <1>1, <4>2, FieldTyped
      <4>4. BuffTyped'  BY <3>2, <4>2, <4>3 DEF BuffTyped
      <4>5. DumpControlBlocks[b].State \in {"FREE", "PENDING", "PERFORMED"}  BY <1>1, <2>3 DEF DumpControl
      <4>6. PICK st \in {"PENDING", DumpControlBlocks[b].State} :
              DumpControlBlocks' = [DumpControlBlocks EXCEPT ![b].Buf = Slot(NextShared), ![b].State = st]
        BY <3>2
      <4>7. st \in {"FREE", "PENDING", "PERFORMED"}  BY <4>5
      <4> HIDE DEF b
      <4>8. DumpControlBlocks' \in [0..(NumShared - 1) -> DumpControl]  BY <1>1, <4>2, <4>6, <4>7, BlockFields
      <4> QED BY <4>4, <4>8
    <3> QED BY <2>2, <3>1, <3>2
  <2>5. DumpTyped'  BY <1>1, <2>1, <2>3, <2>4 DEF DumpTyped
  <2>6. op' \in [Procs -> Op] /\ CallsTyped'
    <3> DEFINE o == [r EXCEPT !.at = "snapshot"]
    <3>1. o \in Op  BY <1>1 DEF Op
    <3>2. o.at = "snapshot" /\ o.tbl = r.tbl /\ o.dump = r.dump  BY <1>1 DEF Op
    <3> HIDE DEF o
    <3>3. CallTyped(o)  BY <1>1, <2>1, <3>2 DEF CallTyped
    <3> QED BY <1>a, <2>1, <3>1, <3>3, IdleTyped, GotoTyped DEF o
  <2> QED BY <2>1, <2>4, <2>5, <2>6, Unchanged
<1>4. CASE SnapshotBegin
  <2> DEFINE c == DumpControlBlocks[Block(r.dump)]
             o == [r EXCEPT !.at = "copy", !.buf = Slot(c.Source), !.img = Buffers[Slot(c.Source)].Content]
  <2>1. /\ UNCHANGED regVars /\ UNCHANGED LastLoadBuffId /\ UNCHANGED <<Acc, Val, ptr>> /\ UNCHANGED dumpVars /\ r.at = "snapshot"
        /\ \/ c.Source # NoId /\ Goto(TblTask, o) /\ UNCHANGED Buffers
           \/ Goto(TblTask, Idle) /\ Buffers' = [Buffers EXCEPT ![c.Buf].Id = NoId]
    BY <1>4 DEF SnapshotBegin, IsAt, SourceThere
  <2>2. c \in DumpControl  BY <1>1, <2>1, BlockPlace DEF CallTyped, Blocks
  <2>3. Buffers' \in [Slots -> LoadBuff]
    <3>1. [Buffers EXCEPT ![c.Buf].Id = NoId] \in [Slots -> LoadBuff]  BY <1>1, FieldTyped
    <3> QED BY <1>1, <2>1, <3>1
  <2>4. c.Source # NoId => o \in Op /\ CallTyped(o)
    <3> SUFFICES ASSUME c.Source # NoId PROVE o \in Op /\ CallTyped(o)  OBVIOUS
    <3> HIDE DEF c
    <3>1. Slot(c.Source) \in Slots  BY <2>2, IdSlots DEF DumpControl
    <3>2. Buffers[Slot(c.Source)].Content \in Images \cup {Junk}  BY <1>1, <3>1 DEF LoadBuff
    <3>3. \A s \in Slots, i \in Images \cup {Junk} : [r EXCEPT !.at = "copy", !.buf = s, !.img = i] \in Op  BY <1>1 DEF Op
    <3>4. o \in Op  BY <3>1, <3>2, <3>3
    <3>5. o.at = "copy" /\ o.tbl = r.tbl /\ o.dump = r.dump  BY <1>1 DEF Op
    <3> HIDE DEF o
    <3> QED BY <1>1, <2>1, <3>4, <3>5 DEF CallTyped
  <2> HIDE DEF o, c
  <2>5. op' \in [Procs -> Op] /\ CallsTyped'  BY <1>a, <2>1, <2>4, IdleTyped, GotoTyped
  <2> QED BY SMTT(20), <2>1, <2>3, <2>5, Unchanged
<1>5. CASE SnapshotEnd
  <2> DEFINE b == Block(r.dump)
             c == DumpControlBlocks[b]
  <2>1. /\ UNCHANGED regVars /\ UNCHANGED LastLoadBuffId /\ UNCHANGED <<Acc, Val, ptr>>
        /\ UNCHANGED <<DumpControlId, LastDumpCtrlBlockId>> /\ Goto(TblTask, Idle)
        /\ \E i \in {r.img, Junk} : Buffers' = [Buffers EXCEPT ![c.Buf].Content = i]
        /\ DumpControlBlocks' = [DumpControlBlocks EXCEPT ![b] = Performed(DumpControlBlocks[b])]
    BY ZenonT(30), <1>5 DEF SnapshotEnd
  <2>2. r.img \in Images \cup {Junk}  BY <1>1, OpParts
  <2>3. Buffers' \in [Slots -> LoadBuff]
    <3>1. PICK i \in {r.img, Junk} : Buffers' = [Buffers EXCEPT ![c.Buf].Content = i]  BY <2>1
    <3> HIDE DEF c
    <3> QED BY Zenon, <1>1, <2>2, <3>1, FieldTyped
  <2>4. DumpTyped'
    <3>2. \A x \in DumpControl : Performed(x) \in DumpControl  BY DEF DumpControl, Performed
    <3> QED BY <1>1, <2>1, <3>2 DEF DumpTyped
  <2> QED BY SMTT(20), <1>a, <2>1, <2>3, <2>4, IdleTyped, GotoTyped, Unchanged
<1>6. CASE SendHkCmd
  <2>1. /\ UNCHANGED regVars /\ UNCHANGED LastLoadBuffId /\ UNCHANGED <<Acc, ptr>> /\ UNCHANGED op
        /\ UNCHANGED <<DumpControlId, LastDumpCtrlBlockId>> /\ GetHkData
        /\ \E w : Buffers' = [s \in Slots |-> IF s \in w THEN [Buffers[s] EXCEPT !.Id = NoId] ELSE Buffers[s]]
        /\ DumpControlBlocks' = [b \in DOMAIN DumpControlBlocks |-> IF b \in Taken THEN FreeBlock ELSE DumpControlBlocks[b]]
    BY <1>6 DEF SendHkCmd
  <2>2. Buffers' \in [Slots -> LoadBuff]
    <3>1. \A b \in LoadBuff : [b EXCEPT !.Id = NoId] \in LoadBuff  BY DEF LoadBuff
    <3>2. PICK w : Buffers' = [s \in Slots |-> IF s \in w THEN [Buffers[s] EXCEPT !.Id = NoId] ELSE Buffers[s]]  BY <2>1
    <3> QED BY <1>1, <3>1, <3>2
  <2>3. FreeBlock \in DumpControl  BY DEF FreeBlock, DumpControl
  <2>4. DumpTyped'  BY <1>1, <2>1, <2>3 DEF DumpTyped
  <2>5. Val' \in [Vals -> ValResult]
    <3>1. Val \in [Vals -> ValResult]  BY <1>1 DEF TypeOK
    <3>2. [State |-> "FREE", Select |-> "INACTIVE"] \in ValResult  BY DEF ValResult
    <3>3. Val' = Val \/ \E v : Val' = [Val EXCEPT ![v] = [State |-> "FREE", Select |-> "INACTIVE"]]  BY <2>1 DEF GetHkData
    <3> QED BY <3>1, <3>2, <3>3
  <2>6. UserTyped'  BY <1>1, <2>1, <2>5 DEF UserTyped, TypeOK
  <2> QED BY <2>1, <2>2, <2>4, <2>6, Unchanged
<1> QED BY <1>2, <1>3, <1>4, <1>5, <1>6

(* CFE_TBL_DumpToBuffer and CFE_TBL_Modified keep the types.               *)
LEMMA TypeTaken ==
  ASSUME TypeInv, NEW p \in Procs, DumpToBuffer(p) \/ \E i \in Images : Modified(p, i)
  PROVE  TypeInv'
<1> DEFINE t == op[p].tbl
<1>1. /\ TypeOK /\ Buffers \in [Slots -> LoadBuff] /\ op[p] \in Op /\ CallTyped(op[p])
      /\ DumpControlBlocks \in [0..(NumShared - 1) -> DumpControl]
      /\ DumpControlId \in [Tables -> BlockIds \cup {NoDump}] /\ LastDumpCtrlBlockId \in BlockIds
  BY DEF TypeInv, TypeOK, CallsTyped
<1>2. op[p].at # "idle" /\ t \in Tables
  BY Zenon, <1>1 DEF CallTyped, DumpToBuffer, Modified, IsAt
<1> HIDE DEF t
<1>3. CASE DumpToBuffer(p)
  <2> DEFINE d == DumpControlId[t]
             b == Block(d)
             c == DumpControlBlocks[b]
  <2>1. /\ UNCHANGED regVars /\ UNCHANGED LastLoadBuffId /\ UNCHANGED <<Acc, Val, ptr>> /\ UNCHANGED LastDumpCtrlBlockId
        /\ Goto(p, Idle)
        /\ DumpControlId' \in {DumpControlId, [DumpControlId EXCEPT ![t] = NoDump]}
        /\ \/ UNCHANGED <<Buffers, DumpControlBlocks>>
           \/ /\ d # NoDump /\ c.Source # NoId
              /\ Buffers' = [Buffers EXCEPT ![c.Buf].Content = Buffers[Slot(c.Source)].Content]
              /\ DumpControlBlocks' = [DumpControlBlocks EXCEPT ![b] = Performed(DumpControlBlocks[b])]
    BY Zenon, <1>3 DEF DumpToBuffer, BlockMatches, SourceThere, t
  <2>2. Buffers' \in [Slots -> LoadBuff] /\ DumpControlBlocks' \in [0..(NumShared - 1) -> DumpControl]
    <3>1. CASE UNCHANGED <<Buffers, DumpControlBlocks>>  BY <1>1, <3>1
    <3>2. CASE /\ d # NoDump /\ c.Source # NoId
               /\ Buffers' = [Buffers EXCEPT ![c.Buf].Content = Buffers[Slot(c.Source)].Content]
               /\ DumpControlBlocks' = [DumpControlBlocks EXCEPT ![b] = Performed(DumpControlBlocks[b])]
      <4>1. b \in 0..(NumShared - 1) /\ c \in DumpControl  BY <1>1, <1>2, <3>2, BlockPlace DEF Blocks
      <4>2. Slot(c.Source) \in Slots  BY <4>1, <3>2, IdSlots DEF DumpControl
      <4>3. Buffers[Slot(c.Source)].Content \in Images \cup {Junk}  BY <1>1, <4>2 DEF LoadBuff
      <4>4. \A x \in DumpControl : Performed(x) \in DumpControl  BY DEF DumpControl, Performed
      <4> HIDE DEF c
      <4>5. Buffers' \in [Slots -> LoadBuff]  BY <1>1, <3>2, <4>3, FieldTyped
      <4> QED BY <1>1, <3>2, <4>4, <4>5
    <3> QED BY <2>1, <3>1, <3>2
  <2>3. DumpTyped'  BY <1>1, <2>1, <2>2 DEF DumpTyped
  <2> QED BY <2>1, <2>2, <2>3, IdleTyped, GotoTyped, Unchanged
<1>4. ASSUME NEW i \in Images, Modified(p, i) PROVE TypeInv'
  <2>1. /\ UNCHANGED regVars /\ UNCHANGED LastLoadBuffId /\ UNCHANGED <<Val, ptr>> /\ UNCHANGED dumpVars /\ Goto(p, Idle)
        /\ Buffers' = [Buffers EXCEPT ![Slot(Active[t])].Content = i]
        /\ Acc' = [b \in Apps |-> IF b \in Accessors[t] \ {p} THEN [Acc[b] EXCEPT ![t].Updated = TRUE] ELSE Acc[b]]
    BY <1>4 DEF Modified, t
  <2>2. Buffers' \in [Slots -> LoadBuff]  BY <1>1, <2>1, FieldTyped
  <2>3. Acc' \in [Apps -> [Tables -> AccessDesc]]
    <3>1. ASSUME NEW b \in Apps PROVE Acc'[b] \in [Tables -> AccessDesc]
      <4>1. Acc[b] \in [Tables -> AccessDesc]  BY <1>1 DEF TypeOK
      <4>2. [Acc[b] EXCEPT ![t].Updated = TRUE] \in [Tables -> AccessDesc]  BY <4>1 DEF AccessDesc
      <4> QED BY <2>1, <4>1, <4>2
    <3> QED BY <2>1, <3>1
  <2>4. UserTyped'  BY <1>1, <2>1, <2>3 DEF UserTyped, TypeOK
  <2> QED BY <2>1, <2>2, <2>4, IdleTyped, GotoTyped, Unchanged
<1> QED BY <1>3, <1>4

(* The types hold at first.                                                *)
LEMMA TypeInit ==
  Init => TypeInv
<1> SUFFICES ASSUME Init PROVE TypeInv  OBVIOUS
<1>1. \A t \in Tables : FirstLoad(t) \in LocalIds /\ LastLoad(t) \in LocalIds
  BY Sizes DEF FirstLoad, LastLoad, LocalIds
<1>2. PICK i \in Good : Buffers = [s \in Slots |-> InitBuff(s, i)]  BY DEF Init
<1>3. ASSUME NEW s \in Slots PROVE InitBuff(s, i) \in LoadBuff
  <2>1. s[1] \in DumpOnly \cup Loaded => s[1] \in Tables  BY TableAssumption
  <2>2. i \in Images  BY BufferAssumption
  <2> QED BY <1>1, <2>1, <2>2, IdParts DEF InitBuff, LoadBuff, FreeBuff
<1>4. RegTyped
  <2>1. /\ Active \in [Tables -> LocalIds \cup {NoId}] /\ Prev \in [Tables -> LocalIds \cup {NoId}]
        /\ Next \in [Tables -> BufferIds \cup {NoId}] /\ PendingVal \in [Tables -> Vals \cup {NoVal}]
    BY <1>1 DEF Init
  <2> QED BY <2>1 DEF RegTyped
<1>5. BuffTyped
  <2>1. NumShared * Wrap \in Nat \ {0}  BY Sizes
  <2>2. LastLoadBuffId = 0  BY DEF Init
  <2>3. 0 \in 0..(NumShared * Wrap - 1)  BY <2>1
  <2> QED BY <1>2, <1>3, <2>2, <2>3 DEF BuffTyped
<1>6. UserTyped
  BY DEF Init, UserTyped, AccessDesc, ValResult
<1>7. DumpTyped
  <2>1. 0 \in BlockIds  BY Sizes DEF BlockIds
  <2>2. FreeBlock \in DumpControl  BY DEF FreeBlock, DumpControl
  <2> QED BY <2>1, <2>2 DEF Init, DumpTyped
<1>8. op \in [Procs -> Op] /\ CallsTyped
  BY IdleTyped DEF Init, CallsTyped
<1> QED BY <1>4, <1>5, <1>6, <1>7, <1>8, Parts

(* Every step keeps the types.                                             *)
LEMMA TypeStep ==
  ASSUME TypeInv, [NextStep]_vars
  PROVE  TypeInv'
<1>1. CASE UNCHANGED vars
  BY <1>1, Unchanged DEF vars
<1>2. ASSUME NEW p \in Procs, Continue(p) PROVE TypeInv'
  BY <1>2, TypeReading, TypeLoad, TypeManage, TypeDumps, TypeTaken DEF Continue
<1> QED BY <1>1, <1>2, TypeCommands, TypeUser, TypeDumps DEF NextStep

(* The record of a table and its buffers.                                  *)
LEMMA RecordFacts ==
  ASSUME TypeInv, RecordsSound, NEW t \in Tables
  PROVE  /\ Active[t] \in LocalIds \cup {NoId} /\ Next[t] \in BufferIds \cup {NoId} /\ Prev[t] \in LocalIds \cup {NoId}
         /\ NextLocal(t) \in LocalIds /\ NextLocal(t) \in BufferIds /\ NextLocal(t)[1] = t
         /\ Slot(NextLocal(t)) \in Slots \ SharedSlots /\ Slot(NextLocal(t))[1] = t
         /\ NextLocal(t) # Active[t] /\ (t \in DoubleBuffered => Slot(NextLocal(t)) # Slot(Active[t]))
         /\ Active[t] # NoId => /\ Slot(Active[t]) \in Slots \ SharedSlots /\ Slot(Active[t])[1] = t
                                /\ t \notin DoubleBuffered => Slot(Active[t]) = <<t, 0>>
         /\ t \notin DoubleBuffered => Slot(NextLocal(t)) = <<t, 0>>
         /\ LoadBuf(t) = Slot(Next[t])
         /\ ClearStale(t) => UNCHANGED Next
         /\ Next[t] # NoId => Slot(Next[t]) \in Slots
         /\ Next[t] # NoId /\ Slot(Next[t]) \notin SharedSlots => Next[t] = NextLocal(t)
         /\ Slot(Next[t]) \in SharedSlots => Next[t] \in SharedIds /\ Next[t] # NoId /\ t \notin DoubleBuffered
<1>1. /\ TypeOK /\ Active[t] \in LocalIds \cup {NoId} /\ Next[t] \in BufferIds \cup {NoId} /\ Prev[t] \in LocalIds \cup {NoId}
      /\ Next \in [Tables -> BufferIds \cup {NoId}]
  BY DEF TypeInv, TypeOK
<1>2. Active[t] # NoId => Active[t][1] = t  BY DEF RecordsSound, RecordSound
<1>3. NextLocal(t) \in LocalIds /\ NextLocal(t)[1] = t /\ NextLocal(t) # Active[t]
      /\ (t \in DoubleBuffered => Slot(NextLocal(t)) # Slot(Active[t]))
  BY <1>1, <1>2, NextLocals
<1>4. NextLocal(t) \in BufferIds /\ Slot(NextLocal(t)) \in Slots \ SharedSlots /\ Slot(NextLocal(t))[1] = t
      /\ (t \notin DoubleBuffered => Slot(NextLocal(t)) = <<t, 0>>)
  BY <1>3, IdParts, SlotKinds
<1>5. Active[t] # NoId => /\ Slot(Active[t]) \in Slots \ SharedSlots /\ Slot(Active[t])[1] = t
                          /\ t \notin DoubleBuffered => Slot(Active[t]) = <<t, 0>>
  BY <1>1, <1>2, SlotKinds
<1>6. Next[t] # NoId => /\ Buffers[Slot(Next[t])].Id = Next[t] /\ Slot(Next[t]) \in Slots
                        /\ \/ Next[t] \in SharedIds /\ t \notin DoubleBuffered /\ Slot(Next[t]) \in SharedSlots
                           \/ Next[t] = NextLocal(t)
  BY <1>1, IdSlots, SlotKinds DEF RecordsSound, RecordSound
<1>7. LoadBuf(t) = Slot(Next[t])  BY <1>6, SlotParts DEF LoadBuf
<1>8. ClearStale(t) => UNCHANGED Next
  <2>1. CASE Next[t] = NoId  BY <1>1, <2>1 DEF ClearStale
  <2>2. CASE Next[t] # NoId
    <3>1. LoadBuf(t) # NoSlot  BY <1>6, <1>7, <2>2, SlotParts
    <3> QED BY <3>1 DEF ClearStale
  <2> QED BY <2>1, <2>2
<1>9. Slot(Next[t]) \in SharedSlots => Next[t] \in SharedIds /\ Next[t] # NoId /\ t \notin DoubleBuffered
  <2> SUFFICES ASSUME Slot(Next[t]) \in SharedSlots PROVE Next[t] \in SharedIds /\ Next[t] # NoId /\ t \notin DoubleBuffered
    OBVIOUS
  <2>1. Next[t] # NoId  BY SlotParts
  <2> QED BY <2>1, <1>4, <1>6
<1> QED BY <1>1, <1>3, <1>4, <1>5, <1>6, <1>7, <1>8, <1>9

(* CFE_TBL_UpdateInternal makes the load in progress active, or does       *)
(* nothing.                                                                *)
Committed(t) ==
  /\ t \notin DumpOnly /\ Next[t] # NoId
  /\ Active' = [Active EXCEPT ![t] = NextLocal(t)]
  /\ Prev' = [Prev EXCEPT ![t] = Active[t]]
  /\ Next' = [Next EXCEPT ![t] = NoId]
  /\ \A s \in Slots :
       /\ Buffers'[s].Id = IF s = Slot(Next[t]) /\ t \notin DoubleBuffered THEN NoId
                           ELSE IF s = Slot(NextLocal(t)) THEN NextLocal(t) ELSE Buffers[s].Id
       /\ Buffers'[s].Content = IF s = Slot(NextLocal(t)) THEN Buffers[Slot(Next[t])].Content ELSE Buffers[s].Content
       /\ Buffers'[s].IsValid = Buffers[s].IsValid /\ Buffers'[s].ActivateReq = Buffers[s].ActivateReq
  /\ Acc' = [a \in Apps |-> IF a \in Accessors[t] THEN [Acc[a] EXCEPT ![t].Updated = TRUE] ELSE Acc[a]]
  /\ Next[t] = NextLocal(t) \/ Available(t)

(* CFE_TBL_UpdateInternal commits, or changes nothing.                     *)
LEMMA UpdateEffect ==
  ASSUME TypeInv, RecordsSound, NEW t \in Tables, UpdateInternal(t)
  PROVE  Committed(t) \/ UNCHANGED <<Active, Prev, Next, Buffers, Acc>>
<1> USE RecordFacts
<1>1. CASE LoadBuf(t) # NoSlot /\ (Private(t) \/ Available(t))
  <2>1. Commit(t, LoadBuf(t), Target(t)) /\ LoadBuf(t) = Slot(Next[t]) /\ Next[t] # NoId
    BY <1>1, SlotParts DEF UpdateInternal
  <2>2. Target(t) = NextLocal(t) /\ (Next[t] = NextLocal(t) \/ Available(t))
    <3>1. Next[t] = NextLocal(t) \/ (Next[t] \in SharedIds /\ Next[t][1] = Shared /\ Shared # t)
      BY <2>1, IdParts, TableAssumption DEF RecordsSound, RecordSound
    <3> QED BY <3>1, <1>1 DEF Target, Private
  <2>3. t \notin DumpOnly  BY <2>1 DEF RecordsSound, RecordSound
  <2> DEFINE id == NextLocal(t)
             new == [Buffers[Slot(id)] EXCEPT !.Id = id, !.Content = Buffers[Slot(Next[t])].Content]
             bs == [Buffers EXCEPT ![Slot(id)] = new]
  <2>4. /\ Buffers' = Discard(t, bs)
        /\ Active' = [Active EXCEPT ![t] = id] /\ Prev' = [Prev EXCEPT ![t] = Active[t]] /\ Next' = [Next EXCEPT ![t] = NoId]
        /\ Acc' = [a \in Apps |-> IF a \in Accessors[t] THEN [Acc[a] EXCEPT ![t].Updated = TRUE] ELSE Acc[a]]
    BY <2>1, <2>2 DEF Commit
  <2>5. /\ Buffers \in [Slots -> LoadBuff] /\ Slot(id) \in Slots /\ Slot(Next[t]) \in Slots
    BY <2>1 DEF TypeInv, TypeOK
  <2>6. new.Id = id /\ new.Content = Buffers[Slot(Next[t])].Content /\ new.IsValid = Buffers[Slot(id)].IsValid
        /\ new.ActivateReq = Buffers[Slot(id)].ActivateReq
    BY <2>5 DEF LoadBuff
  <2>7. new \in LoadBuff
    <3>1. id \in BufferIds /\ Buffers[Slot(Next[t])].Content \in Images \cup {Junk}  BY <2>5 DEF LoadBuff
    <3>2. \A r \in LoadBuff, d \in BufferIds, c \in Images \cup {Junk} : [r EXCEPT !.Id = d, !.Content = c] \in LoadBuff
      BY DEF LoadBuff
    <3>3. Buffers[Slot(id)] \in LoadBuff  BY <2>5
    <3> HIDE DEF id
    <3> QED BY <3>1, <3>2, <3>3
  <2>8. bs \in [Slots -> LoadBuff] /\ bs[Slot(id)] = new /\ \A s \in Slots : s # Slot(id) => bs[s] = Buffers[s]
    <3> HIDE DEF new, id
    <3> QED BY <2>5, <2>7
  <2> HIDE DEF new, bs, id
  <2>9. \A s \in Slots :
           /\ Buffers'[s].Id = IF s = Slot(Next[t]) /\ t \notin DoubleBuffered THEN NoId ELSE bs[s].Id
           /\ Buffers'[s].Content = bs[s].Content
           /\ Buffers'[s].IsValid = bs[s].IsValid /\ Buffers'[s].ActivateReq = bs[s].ActivateReq
    BY <2>1, <2>4, <2>5, <2>8 DEF Discard, LoadBuff
  <2>10. \A s \in Slots :
       /\ Buffers'[s].Id = IF s = Slot(Next[t]) /\ t \notin DoubleBuffered THEN NoId
                           ELSE IF s = Slot(id) THEN id ELSE Buffers[s].Id
       /\ Buffers'[s].Content = IF s = Slot(id) THEN Buffers[Slot(Next[t])].Content ELSE Buffers[s].Content
       /\ Buffers'[s].IsValid = Buffers[s].IsValid /\ Buffers'[s].ActivateReq = Buffers[s].ActivateReq
    BY <2>6, <2>8, <2>9
  <2>11. id = NextLocal(t)  BY DEF id
  <2> QED BY <2>1, <2>2, <2>3, <2>4, <2>10, <2>11 DEF Committed
<1>2. CASE ~(LoadBuf(t) # NoSlot /\ (Private(t) \/ Available(t)))
  <2>1. ClearStale(t) /\ UNCHANGED <<Active, Prev, Buffers, Acc>>  BY <1>2 DEF UpdateInternal
  <2> QED BY <2>1
<1> QED BY <1>1, <1>2

-----------------------------------------------------------------------------
(* Where calls can be.                                                     *)
LEMMA PlacesStep ==
  ASSUME TypeInv, NoLoad, CallsPlaced, NextStep
  PROVE  CallsPlaced'
<1> DEFINE Placed(p, o) ==
      /\ o.at \notin {"reserve", "check", "drop", "finish", "commit"}
      /\ o.at \in {"open", "read", "header", "abort", "dump", "snapshot", "copy"} => p = TblTask
      /\ o.at \in {"open", "read", "header"} => o.cmd /\ o.tbl \notin DumpOnly
      /\ o.at \in {"manage", "validate", "run", "verdict", "update", "take", "modify"} =>
           p \in Apps /\ Owner[o.tbl] = p
      /\ o.at = "modify" => o.tbl \in DumpOnly
<1>1. op \in [Procs -> Op] /\ \A p \in Procs : Placed(p, op[p])  BY DEF TypeInv, TypeOK, CallsPlaced
<1>2. ASSUME NEW p \in Procs, NEW o, Goto(p, o), Placed(p, o) PROVE CallsPlaced'
  <2>1. \A q \in Procs : op'[q] = IF q = p THEN o ELSE op[q]  BY <1>1, <1>2 DEF Goto
  <2>2. \A q \in Procs : Placed(q, op'[q])  BY <1>1, <1>2, <2>1
  <2> QED BY <2>2 DEF CallsPlaced
<1>3. UNCHANGED op => CallsPlaced'  BY <1>1 DEF CallsPlaced
<1>4. \A p \in Procs : Placed(p, Idle)  BY DEF Idle
<1>5. TblTask \in Procs /\ (\A a \in Apps : a \in Procs /\ a # TblTask)  BY ActorAssumption DEF Procs
<1>6. ASSUME NEW p \in Procs, NEW t \in Tables, p \in Apps, Owner[t] = p, ManageNext(p, t)
             , TableStatus(t) # "SUCCESS"
      PROVE  CallsPlaced'
  <2>1. PICK w \in {"validate", "update", "take"} : Goto(p, [Idle EXCEPT !.tbl = t, !.at = w])
    BY <1>6 DEF ManageNext, TableStatus
  <2>2. Placed(p, [Idle EXCEPT !.tbl = t, !.at = w])  BY <1>6 DEF Idle
  <2> QED BY <1>2, <2>1, <2>2
<1>7. ASSUME NEW t \in Tables, GroundCommand(t) PROVE CallsPlaced'
  <2>1. ASSUME NEW i \in Images, LoadCmd(t, i) PROVE CallsPlaced'
    <3>1. Placed(TblTask, [Idle EXCEPT !.at = "open", !.cmd = TRUE, !.tbl = t, !.img = i])  BY <2>1 DEF Idle, LoadCmd
    <3> QED BY <1>2, <1>5, <2>1, <3>1 DEF LoadCmd
  <2>2. ASSUME NEW b, Goto(TblTask, [Idle EXCEPT !.at = "abort", !.tbl = t, !.buf = b]) PROVE CallsPlaced'
    <3>1. Placed(TblTask, [Idle EXCEPT !.at = "abort", !.tbl = t, !.buf = b])  BY DEF Idle
    <3> QED BY <1>2, <1>5, <2>2, <3>1
  <2>3. ASSUME NEW d, Goto(TblTask, [Idle EXCEPT !.at = "dump", !.tbl = t, !.dump = d]) PROVE CallsPlaced'
    <3>1. Placed(TblTask, [Idle EXCEPT !.at = "dump", !.tbl = t, !.dump = d])  BY DEF Idle
    <3> QED BY <1>2, <1>5, <2>3, <3>1
  <2> QED BY <1>3, <1>7, <2>1, <2>2, <2>3 DEF GroundCommand, ValidateCmd, ActivateCmd, AbortLoadCmd, DumpCmd
<1>8. ASSUME NEW t \in Tables, NEW a \in Apps, Call(a, t) PROVE CallsPlaced'
  <2>1. CASE Modify(a, t)
    <3>1. Placed(a, [Idle EXCEPT !.at = "modify", !.tbl = t])  BY <2>1 DEF Idle, Modify
    <3> QED BY <1>2, <1>5, <2>1, <3>1 DEF Modify
  <2>2. CASE Manage(a, t)  BY <1>5, <1>6, <2>2 DEF Manage
  <2> QED BY <1>3, <1>8, <2>1, <2>2 DEF Call, Load, NoLoad, Update, GetAddress, ReleaseAddress
<1>9. ASSUME NEW p \in Procs, Continue(p) PROVE CallsPlaced'
  <2>0. op[p] \in Op /\ Placed(p, op[p]) /\ CallTyped(op[p])  BY <1>1 DEF TypeInv, CallsTyped
  <2>a. ASSUME NEW o, Goto(p, o), o.tbl = op[p].tbl, o.cmd = op[p].cmd,
               \/ o.at \in {"open", "read", "header"} /\ op[p].at \in {"open", "read", "header"}
               \/ o.at \in {"validate", "run", "verdict", "update", "take", "manage"} /\ op[p].at \in {"manage", "validate", "run", "verdict"}
               \/ o.at \in {"snapshot", "copy"} /\ op[p].at \in {"dump", "snapshot"}
        PROVE  CallsPlaced'
    <3>1. Placed(p, o)  BY <2>0, <2>a
    <3> QED BY <1>2, <2>a, <3>1
  <2>1. CASE ReadBegin(p)
    <3>1. op[p].cmd /\ op[p].at = "open"  BY <2>0, <2>1 DEF ReadBegin, IsAt
    <3> DEFINE o == [op[p] EXCEPT !.at = "read", !.buf = LoadBuf(op[p].tbl)]
    <3>2. o.tbl = op[p].tbl /\ o.cmd = op[p].cmd /\ o.at = "read"  BY <2>0 DEF Op
    <3>3. Goto(p, Idle) \/ Goto(p, o)  BY <2>1, <3>1 DEF ReadBegin
    <3> HIDE DEF o
    <3> QED BY <1>2, <1>4, <2>a, <3>1, <3>2, <3>3
  <2>2. CASE SetMetaDataFromFileHeader(p) \/ ReadFail(p)
    BY <1>2, <1>4, <2>0, <2>2 DEF SetMetaDataFromFileHeader, ReadFail, IsAt
  <2>13. CASE ReadEnd(p)
    <3>1. op[p].cmd /\ op[p].at = "read"  BY <2>0, <2>13 DEF ReadEnd, IsAt
    <3> DEFINE o == [op[p] EXCEPT !.at = "header", !.buf = NoSlot]
    <3>2. o.tbl = op[p].tbl /\ o.cmd = op[p].cmd /\ o.at = "header"  BY <2>0 DEF Op
    <3>3. Goto(p, o)  BY <2>13, <3>1 DEF ReadEnd
    <3> HIDE DEF o
    <3> QED BY <2>a, <3>1, <3>2, <3>3
  <2>3. CASE LoadReserve(p) \/ LoadNoBuffer(p) \/ ValidateLoad(p) \/ LoadDrop(p) \/ LoadFinish(p) \/ LoadCommit(p)
    BY <2>0, <2>3 DEF LoadReserve, LoadNoBuffer, ValidateLoad, LoadDrop, LoadFinish, LoadCommit, IsAt
  <2>4. CASE ManageAgain(p)
    <3>1. p \in Apps /\ Owner[op[p].tbl] = p /\ op[p].tbl \in Tables  BY <2>0, <2>4 DEF ManageAgain, IsAt, CallTyped
    <3> QED BY <1>2, <1>4, <1>6, <2>4, <3>1 DEF ManageAgain
  <2>5. CASE ManageUpdate(p)  BY <1>2, <1>4, <2>5 DEF ManageUpdate
  <2>6. CASE Validate(p)
    <3>1. PICK v, b : Goto(p, [op[p] EXCEPT !.at = "run", !.val = v, !.buf = b])  BY <2>6 DEF Validate
    <3> DEFINE o == [op[p] EXCEPT !.at = "run", !.val = v, !.buf = b]
    <3>2. o.tbl = op[p].tbl /\ o.cmd = op[p].cmd /\ o.at = "run"  BY <2>0 DEF Op
    <3>3. op[p].at = "validate"  BY <2>6 DEF Validate, IsAt
    <3> HIDE DEF o
    <3> QED BY <2>a, <3>1, <3>2, <3>3 DEF o
  <2>7. CASE ValidationFunc(p)
    <3>1. PICK k : Goto(p, [op[p] EXCEPT !.at = "verdict", !.ok = k])  BY <2>7 DEF ValidationFunc
    <3> DEFINE o == [op[p] EXCEPT !.at = "verdict", !.ok = k]
    <3>2. o.tbl = op[p].tbl /\ o.cmd = op[p].cmd /\ o.at = "verdict"  BY <2>0 DEF Op
    <3>3. op[p].at = "run"  BY <2>7 DEF ValidationFunc, IsAt
    <3> HIDE DEF o
    <3> QED BY <2>a, <3>1, <3>2, <3>3 DEF o
  <2>8. CASE ValidateDone(p)
    <3>1. Placed(p, [Idle EXCEPT !.at = "manage", !.tbl = op[p].tbl])  BY <2>0, <2>8 DEF Idle, ValidateDone, IsAt
    <3> QED BY <1>2, <2>8, <3>1 DEF ValidateDone
  <2>9. CASE p = TblTask /\ (AbortLoad \/ SnapshotEnd)
    BY <1>2, <1>4, <2>9 DEF AbortLoad, SnapshotEnd
  <2>10. CASE p = TblTask /\ PrepareDump
    <3> DEFINE o == [op[p] EXCEPT !.at = "snapshot"]
    <3>1. (Goto(p, Idle) \/ Goto(p, o)) /\ op[p].at = "dump"  BY <2>10 DEF PrepareDump, IsAt
    <3>2. o.tbl = op[p].tbl /\ o.cmd = op[p].cmd /\ o.at = "snapshot"  BY <2>0 DEF Op
    <3> HIDE DEF o
    <3> QED BY <1>2, <1>4, <2>a, <3>1, <3>2
  <2>11. CASE p = TblTask /\ SnapshotBegin
    <3>1. PICK b, i : Goto(p, Idle) \/ Goto(p, [op[p] EXCEPT !.at = "copy", !.buf = b, !.img = i])
      BY <2>11 DEF SnapshotBegin
    <3> DEFINE o == [op[p] EXCEPT !.at = "copy", !.buf = b, !.img = i]
    <3>2. o.tbl = op[p].tbl /\ o.cmd = op[p].cmd /\ o.at = "copy"  BY <2>0 DEF Op
    <3>3. op[p].at = "snapshot"  BY <2>11 DEF SnapshotBegin, IsAt
    <3> HIDE DEF o
    <3> QED BY <1>2, <1>4, <2>a, <3>1, <3>2, <3>3 DEF o
  <2>12. CASE DumpToBuffer(p) \/ \E i \in Images : Modified(p, i)
    BY Zenon, <1>2, <1>4, <2>12 DEF DumpToBuffer, Modified
  <2> QED BY <1>9, <2>1, <2>2, <2>13, <2>3, <2>4, <2>5, <2>6, <2>7, <2>8, <2>9, <2>10, <2>11, <2>12 DEF Continue
<1>10. CASE SendHkCmd  BY <1>3, <1>10 DEF SendHkCmd
<1> QED BY <1>7, <1>8, <1>9, <1>10 DEF NextStep

(* The step of one task leaves the calls of the others alone.              *)
LEMMA GotoFacts ==
  ASSUME TypeInv, NEW p \in Procs, NEW o, Goto(p, o)
  PROVE  op'[p] = o /\ \A q \in Procs : q # p => op'[q] = op[q]
BY DEF Goto, TypeInv, TypeOK

(* The table task is none of the applications.                             *)
LEMMA TaskFacts ==
  TblTask \in Procs /\ \A a \in Apps : a \in Procs /\ a # TblTask
BY ActorAssumption DEF Procs

Copying(b) == op[TblTask].at \in {"snapshot", "copy"} /\ Block(op[TblTask].dump) = b

(* Who has a buffer for a dump.                                            *)
LEMMA DumpHasIs ==
  ASSUME NEW b, NEW s
  PROVE  DumpHas(b, s) <=> /\ DumpControlBlocks[b].Id # NoDump /\ DumpControlBlocks[b].Buf = s
                           /\ DumpControlBlocks[b].State # "FREE" \/ Copying(b)
BY DEF DumpHas, Copying

(* The same after a step.                                                  *)
LEMMA DumpHasNext ==
  ASSUME NEW b, NEW s
  PROVE  DumpHas(b, s)' <=> /\ DumpControlBlocks'[b].Id # NoDump /\ DumpControlBlocks'[b].Buf = s
                            /\ DumpControlBlocks'[b].State # "FREE" \/ Copying(b)'
BY DEF DumpHas, Copying

(* A buffer whose holders stay has one holder as before.                   *)
LEMMA HeldSame ==
  ASSUME NEW s, HeldOnce(s),
         \A t \in Tables : LoadHas(t, s)' <=> LoadHas(t, s),
         \A b \in Blocks : DumpHas(b, s)' <=> DumpHas(b, s),
         Buffers'[s].Id = NoId <=> Buffers[s].Id = NoId
  PROVE  HeldOnce(s)'
BY DEF HeldOnce, Blocks

(* A buffer that is given back has no holder.                              *)
LEMMA HeldByNone ==
  ASSUME NEW s, \A t \in Tables : ~LoadHas(t, s)', \A b \in Blocks : ~DumpHas(b, s)', Buffers'[s].Id = NoId
  PROVE  HeldOnce(s)'
BY DEF HeldOnce, Blocks

(* A buffer that a load gets.                                              *)
LEMMA HeldByLoad ==
  ASSUME NEW s, NEW u \in Tables, \A t \in Tables : LoadHas(t, s)' <=> t = u,
         \A b \in Blocks : ~DumpHas(b, s)', Buffers'[s].Id # NoId
  PROVE  HeldOnce(s)'
BY DEF HeldOnce, Blocks

(* A buffer that a dump gets.                                              *)
LEMMA HeldByDump ==
  ASSUME NEW s, NEW c \in Blocks, \A t \in Tables : ~LoadHas(t, s)',
         \A b \in Blocks : DumpHas(b, s)' <=> b = c, Buffers'[s].Id # NoId
  PROVE  HeldOnce(s)'
BY DEF HeldOnce, Blocks

(* A shared buffer without an ID has no holder.                            *)
LEMMA FreeSlot ==
  ASSUME TypeInv, RecordsSound, OneHolder, NEW s \in SharedSlots, Buffers[s].Id = NoId
  PROVE  (\A t \in Tables : ~LoadHas(t, s)) /\ (\A b \in Blocks : ~DumpHas(b, s))
<1>1. ASSUME NEW t \in Tables, LoadHas(t, s) PROVE FALSE
  <2>1. Next[t] # NoId  BY <1>1, SlotParts DEF LoadHas
  <2> QED BY <1>1, <2>1 DEF LoadHas, RecordsSound, RecordSound
<1>2. \A b \in Blocks : ~DumpHas(b, s)  BY DEF OneHolder, HeldOnce
<1> QED BY <1>1, <1>2

(* The one buffer of a dump-only table.                                    *)
LEMMA FirstLoads ==
  ASSUME NEW t \in DumpOnly
  PROVE  t \in Tables /\ FirstLoad(t) \in LocalIds /\ FirstLoad(t) # NoId /\ Slot(FirstLoad(t)) = <<t, 0>>
         /\ t \notin DoubleBuffered
<1>1. t \in Tables /\ t \notin DoubleBuffered  BY TableAssumption
<1>2. FirstLoad(t) \in LocalIds /\ FirstLoad(t)[1] = t  BY <1>1, Sizes DEF FirstLoad, LocalIds
<1> QED BY <1>1, <1>2, IdParts, SlotKinds

(* A record is sound after a step that leaves it and its buffers' IDs      *)
(* alone.                                                                  *)
LEMMA RecordSame ==
  ASSUME NEW t \in Tables, RecordSound(t),
         Active'[t] = Active[t], Prev'[t] = Prev[t], Next'[t] = Next[t],
         Active[t] # NoId => Buffers'[Slot(Active[t])].Id = Buffers[Slot(Active[t])].Id,
         Next[t] # NoId => Buffers'[Slot(Next[t])].Id = Buffers[Slot(Next[t])].Id
  PROVE  RecordSound(t)'
<1>1. NextLocal(t)' = NextLocal(t)  BY DEF NextLocal
<1>2. Active'[t] # NoId => Active'[t][1] = t /\ Buffers'[Slot(Active'[t])].Id \in {NoId, Active'[t]}  BY DEF RecordSound
<1>3. Prev'[t] # NoId => Prev'[t][1] = t  BY DEF RecordSound
<1>4. Next'[t] # NoId =>
       /\ Buffers'[Slot(Next'[t])].Id = Next'[t]
       /\ \/ Next'[t] \in SharedIds /\ t \notin DoubleBuffered
          \/ Next'[t] = NextLocal(t)' /\ (t \in DoubleBuffered \/ Active'[t] = NoId)
  BY <1>1 DEF RecordSound
<1>5. t \in DumpOnly =>
       /\ Next'[t] = NoId /\ Prev'[t] = NoId
       /\ Active'[t] = FirstLoad(t) /\ Buffers'[Slot(Active'[t])].Id = Active'[t]
  BY FirstLoads DEF RecordSound, FirstLoad
<1> QED BY <1>2, <1>3, <1>4, <1>5 DEF RecordSound, FirstLoad

(* The same of a dump control block.                                       *)
LEMMA BlockSame ==
  ASSUME NEW b \in Blocks, BlockSound(b), DumpControlBlocks'[b] = DumpControlBlocks[b],
         \A t \in DumpOnly : Active'[t] = Active[t]
  PROVE  BlockSound(b)'
BY DEF BlockSound, Blocks

(* The same of a table's DumpControlId, which may also be cleared.         *)
LEMMA LinkSame ==
  ASSUME NEW t \in Tables, LinkSound(t), DumpControlId'[t] \in {DumpControlId[t], NoDump},
         DumpControlId'[t] # NoDump =>
           DumpControlBlocks'[Block(DumpControlId[t])] = DumpControlBlocks[Block(DumpControlId[t])]
  PROVE  LinkSound(t)'
BY DEF LinkSound, BlockMatches

(* What holds of the table task outside these calls.                       *)
LEMMA TaskAway ==
  ASSUME op'[TblTask].at \notin {"abort", "read", "dump", "snapshot", "copy"}
  PROVE  AbortSound' /\ ReadSound' /\ DumpSound' /\ \A b : ~Copying(b)'
BY DEF AbortSound, ReadSound, DumpSound, Copying

(* The steps that move no buffer and no dump control block.                *)
Kept ==
  /\ UNCHANGED <<Active, Prev, Next, DumpControlBlocks>>
  /\ \A t \in Tables : DumpControlId'[t] \in {DumpControlId[t], NoDump}
  /\ \A s \in Slots : Buffers'[s].Id = Buffers[s].Id

(* Steps that move nothing keep everything but the places of the table     *)
(* task,                                                                   *)
LEMMA KeptBase ==
  ASSUME TypeInv, PlaceInv, Kept, \A b \in Blocks : Copying(b)' <=> Copying(b)
  PROVE  RecordsSound' /\ OneHolder' /\ BlocksSound' /\ DumpsLinked'
<1>1. ASSUME NEW t \in Tables PROVE RecordSound(t)'
  <2>1. /\ RecordSound(t)
        /\ Active[t] # NoId => Slot(Active[t]) \in Slots
        /\ Next[t] # NoId => Slot(Next[t]) \in Slots
    BY RecordFacts DEF PlaceInv, RecordsSound
  <2>3. \A s \in Slots : Buffers'[s].Id = Buffers[s].Id  BY DEF Kept
  <2>2. /\ Active' = Active /\ Prev' = Prev /\ Next' = Next
        /\ Active[t] # NoId => Buffers'[Slot(Active[t])].Id = Buffers[Slot(Active[t])].Id
        /\ Next[t] # NoId => Buffers'[Slot(Next[t])].Id = Buffers[Slot(Next[t])].Id
    BY <2>1, <2>3 DEF Kept
  <2> QED BY <2>1, <2>2, RecordSame
<1>2. ASSUME NEW s \in SharedSlots PROVE HeldOnce(s)'
  <2>1. \A t \in Tables : LoadHas(t, s)' <=> LoadHas(t, s)  BY DEF LoadHas, Kept
  <2>2. \A b \in Blocks : DumpHas(b, s)' <=> DumpHas(b, s)  BY DumpHasIs, DumpHasNext DEF Kept
  <2>3. HeldOnce(s) /\ Buffers'[s].Id = Buffers[s].Id  BY SlotParts DEF Kept, PlaceInv, OneHolder
  <2> QED BY <2>1, <2>2, <2>3, HeldSame
<1>3. ASSUME NEW b \in Blocks PROVE BlockSound(b)'
  BY BlockSame DEF Kept, PlaceInv, BlocksSound
<1>4. ASSUME NEW t \in Tables PROVE LinkSound(t)'
  BY LinkSame DEF Kept, PlaceInv, DumpsLinked
<1> QED BY <1>1, <1>2, <1>3, <1>4 DEF RecordsSound, OneHolder, BlocksSound, DumpsLinked, SharedSlots, Blocks

(* and those too.                                                          *)
LEMMA KeptStep ==
  ASSUME TypeInv, PlaceInv, CallsPlaced', Kept,
         \/ op'[TblTask] = op[TblTask]
         \/ /\ op[TblTask].at \notin {"snapshot", "copy"}
            /\ op'[TblTask].at \notin {"abort", "read", "dump", "snapshot", "copy"}
  PROVE  PlaceInv'
<1>1. \A b \in Blocks : Copying(b)' <=> Copying(b)  BY DEF Copying
<1>2. RecordsSound' /\ OneHolder' /\ BlocksSound' /\ DumpsLinked'  BY <1>1, KeptBase
<1>3. AbortSound' /\ ReadSound' /\ DumpSound'
  <2>1. CASE op'[TblTask] = op[TblTask]
    <3>1. AbortSound'
      <4>1. op[TblTask].at = "abort" /\ op[TblTask].buf \in SharedSlots => op[TblTask].buf \in Slots  BY SlotParts
      <4> QED BY <2>1, <4>1 DEF AbortSound, PlaceInv, Kept, SharedSlots
    <3>2. ReadSound'
      <4>1. \A b \in Blocks : \A s : DumpHas(b, s)' <=> DumpHas(b, s)  BY <1>1, DumpHasIs, DumpHasNext DEF Kept
      <4> QED BY <2>1, <4>1 DEF ReadSound, PlaceInv, Slots, Blocks
    <3>3. DumpSound'
      <4>1. op[TblTask].at \in {"dump", "snapshot", "copy"} => op[TblTask].dump # NoDump
        BY BlockPlace, TaskFacts DEF TypeInv, CallsTyped, CallTyped
      <4> QED BY <2>1, <4>1 DEF DumpSound, PlaceInv, Kept, SharedSlots
    <3> QED BY <3>1, <3>2, <3>3
  <2>2. CASE op'[TblTask].at \notin {"abort", "read", "dump", "snapshot", "copy"}
    BY <2>2, TaskAway
  <2> QED BY <2>1, <2>2
<1> QED BY <1>2, <1>3 DEF PlaceInv

(* Contents and flags are written without a change of IDs.                 *)
LEMMA FieldIds ==
  ASSUME Buffers \in [Slots -> LoadBuff], NEW bs,
         \/ bs = Buffers
         \/ \E s, v : \/ bs = [Buffers EXCEPT ![s].Content = v]
                      \/ bs = [Buffers EXCEPT ![s].IsValid = v]
                      \/ bs = [Buffers EXCEPT ![s].ActivateReq = v]
  PROVE  \A x \in Slots : bs[x].Id = Buffers[x].Id
<1> SUFFICES ASSUME NEW x \in Slots PROVE bs[x].Id = Buffers[x].Id  OBVIOUS
<1>1. Buffers[x] \in LoadBuff /\ DOMAIN Buffers = Slots  OBVIOUS
<1>2. ASSUME NEW s, NEW v, \/ bs = [Buffers EXCEPT ![s].Content = v]
                            \/ bs = [Buffers EXCEPT ![s].IsValid = v]
                            \/ bs = [Buffers EXCEPT ![s].ActivateReq = v]
      PROVE  bs[x].Id = Buffers[x].Id
  <2>1. bs[x] \in {Buffers[x], [Buffers[x] EXCEPT !.Content = v], [Buffers[x] EXCEPT !.IsValid = v],
                   [Buffers[x] EXCEPT !.ActivateReq = v]}
    BY <1>1, <1>2
  <2> QED BY <1>1, <2>1 DEF LoadBuff
<1> QED BY <1>2

(* A step that leaves the records and dump control blocks alone moves      *)
(* nothing.                                                                *)
LEMMA KeptIs ==
  ASSUME UNCHANGED <<Active, Prev>>, UNCHANGED Next, UNCHANGED dumpVars,
         \A s \in Slots : Buffers'[s].Id = Buffers[s].Id
  PROVE  Kept
BY DEF Kept, dumpVars

(* A step of an application that moves nothing.                            *)
LEMMA KeptByApp ==
  ASSUME TypeInv, PlaceInv, CallsPlaced', Kept, NEW a \in Apps, NEW o, Goto(a, o)
  PROVE  PlaceInv'
<1>1. op'[TblTask] = op[TblTask]  BY GotoFacts, TaskFacts
<1> QED BY <1>1, KeptStep

(* A step of the table task that moves nothing.                            *)
LEMMA KeptByTask ==
  ASSUME TypeInv, PlaceInv, CallsPlaced', Kept, NEW o, Goto(TblTask, o),
         op[TblTask].at \notin {"snapshot", "copy"},
         o.at \notin {"abort", "read", "dump", "snapshot", "copy"}
  PROVE  PlaceInv'
<1>1. op'[TblTask] = o  BY GotoFacts, TaskFacts
<1> QED BY <1>1, KeptStep

(* CFE_TBL_ActivateCmd and CFE_TBL_ValidateCmd move nothing.               *)
LEMMA PlaceCommands ==
  ASSUME TypeInv, PlaceInv, CallsPlaced', NEW t \in Tables,
         ActivateCmd(t) \/ \E v \in Vals, select \in {"INACTIVE", "ACTIVE"} : ValidateCmd(t, select, v)
  PROVE  PlaceInv'
<1>1. Buffers \in [Slots -> LoadBuff] /\ RecordsSound  BY DEF TypeInv, TypeOK, PlaceInv
<1>2. UNCHANGED <<Active, Prev>> /\ (UNCHANGED Next \/ ClearStale(t)) /\ UNCHANGED dumpVars /\ UNCHANGED op
  BY DEF ActivateCmd, ValidateCmd
<1>3. Buffers' = Buffers \/ \E s : Buffers' = [Buffers EXCEPT ![s].IsValid = TRUE] \/ Buffers' = [Buffers EXCEPT ![s].ActivateReq = TRUE]
  BY DEF ActivateCmd, ValidateCmd
<1>4. \A s \in Slots : Buffers'[s].Id = Buffers[s].Id  BY ZenonT(30), <1>1, <1>3, FieldIds
<1>5. Kept  BY <1>1, <1>2, <1>4, RecordFacts, KeptIs
<1> QED BY <1>2, <1>5, KeptStep

(* Reading a file moves nothing, and reads into the buffer of a load.      *)
LEMMA PlaceReading ==
  ASSUME TypeInv, PlaceInv, CallsPlaced', NEW p \in Procs,
         ReadBegin(p) \/ ReadEnd(p) \/ SetMetaDataFromFileHeader(p) \/ ReadFail(p)
  PROVE  PlaceInv'
<1> DEFINE t == op[p].tbl
<1>1. Buffers \in [Slots -> LoadBuff] /\ RecordsSound /\ op[p] \in Op /\ CallTyped(op[p])
  BY DEF TypeInv, TypeOK, PlaceInv, CallsTyped
<1>2. p = TblTask /\ op[p].cmd /\ t \in Tables /\ op[p].at \in {"open", "read", "header"}
  BY <1>1 DEF ReadBegin, ReadEnd, SetMetaDataFromFileHeader, ReadFail, IsAt, CallTyped, PlaceInv, CallsPlaced
<1>3. LoadBuf(t) = Slot(Next[t]) /\ (ClearStale(t) => UNCHANGED Next)
  BY <1>1, <1>2, RecordFacts
<1>4. UNCHANGED <<Active, Prev>> /\ (UNCHANGED Next \/ ClearStale(t)) /\ UNCHANGED dumpVars
  BY DEF ReadBegin, ReadEnd, SetMetaDataFromFileHeader, ReadFail, regVars
<1>5. \A s \in Slots : Buffers'[s].Id = Buffers[s].Id
  <2>1. CASE ReadBegin(p) \/ ReadFail(p)
    <3>1. Buffers' = Buffers \/ \E s, v : Buffers' = [Buffers EXCEPT ![s].Content = v]
      BY <2>1 DEF ReadBegin, ReadFail
    <3> QED BY <1>1, <3>1, FieldIds, Zenon
  <2>2. CASE ReadEnd(p)
    <3>1. PICK T, i : Buffers' = [s \in Slots |-> IF s \in T THEN [Buffers[s] EXCEPT !.Content = i] ELSE Buffers[s]]
      BY <2>2 DEF ReadEnd
    <3> QED BY <1>1, <3>1 DEF LoadBuff
  <2>3. CASE SetMetaDataFromFileHeader(p)  BY <2>3, HeaderKeeps
  <2> QED BY <2>1, <2>2, <2>3
<1>6. Kept
  <2> HIDE DEF t
  <2> QED BY <1>3, <1>4, <1>5, KeptIs
<1>7. CASE Goto(p, Idle)
  <2>1. Idle.at = "idle"  BY DEF Idle
  <2> QED BY <1>2, <1>6, <1>7, <2>1, KeptByTask
<1>9. CASE ReadEnd(p)
  <2> DEFINE o == [op[p] EXCEPT !.at = "header", !.buf = NoSlot]
  <2>1. Goto(p, o)  BY <1>2, <1>9 DEF ReadEnd
  <2>2. o.at = "header"  BY <1>1 DEF Op
  <2> HIDE DEF o
  <2> QED BY <1>2, <1>6, <2>1, <2>2, KeptByTask
<1>8. CASE ReadBegin(p) /\ ~Goto(p, Idle)
  <2> DEFINE o == [op[p] EXCEPT !.at = "read", !.buf = LoadBuf(t)]
  <2>1. Goto(p, o) /\ LoadBuf(t) # NoSlot  BY <1>2, <1>8 DEF ReadBegin
  <2>2. o.at = "read" /\ o.tbl = t /\ o.buf = LoadBuf(t)  BY <1>1 DEF Op
  <2> HIDE DEF o, t
  <2>3. op'[TblTask] = o  BY <1>2, <2>1, GotoFacts
  <2>4. \A b : ~Copying(b) /\ ~Copying(b)'  BY <1>2, <2>2, <2>3 DEF Copying
  <2>5. RecordsSound' /\ OneHolder' /\ BlocksSound' /\ DumpsLinked'  BY <1>6, <2>4, KeptBase
  <2>6. AbortSound' /\ DumpSound'  BY <2>2, <2>3 DEF AbortSound, DumpSound
  <2>7. Next[t] # NoId /\ o.buf = Slot(Next[t]) /\ o.buf \in Slots
    BY <1>1, <1>2, <1>3, <2>1, <2>2, RecordFacts, SlotParts
  <2>a. PICK s \in Slots : s = o.buf  BY <2>7
  <2>8. s[1] \in {t, Shared}
    <3>1. CASE s \in SharedSlots  BY <3>1 DEF SharedSlots
    <3>2. CASE s \notin SharedSlots  BY <1>1, <1>2, <2>7, <2>a, <3>2, RecordFacts
    <3> QED BY <3>1, <3>2
  <2>9. ASSUME NEW b \in Blocks PROVE ~DumpHas(b, s)'
    <3>1. DumpHas(b, s)' <=> DumpHas(b, s)  BY <1>6, <2>4, DumpHasIs, DumpHasNext DEF Kept
    <3>2. DumpHas(b, s) => DumpControlBlocks[b].State # "FREE" /\ DumpControlBlocks[b].Buf = s
      BY <2>4, DumpHasIs
    <3>3. DumpHas(b, s) => s \in SharedSlots  BY <3>2 DEF PlaceInv, BlocksSound, BlockSound
    <3>4. LoadHas(t, s)  BY <2>7, <2>a DEF LoadHas
    <3>5. ~DumpHas(b, s)  BY <1>2, <3>3, <3>4 DEF PlaceInv, OneHolder, HeldOnce
    <3> QED BY <3>1, <3>5
  <2>b. op'[TblTask].buf = s /\ op'[TblTask].tbl = t  BY <2>2, <2>3, <2>a
  <2>10. ReadSound'  BY <2>b, <2>8, <2>9 DEF ReadSound, Slots, Blocks
  <2> QED BY <2>5, <2>6, <2>10 DEF PlaceInv
<1> QED BY <1>2, <1>7, <1>8, <1>9 DEF SetMetaDataFromFileHeader, ReadFail

(* The steps of an owner's and a reader's calls that move nothing.         *)
LEMMA PlaceManage ==
  ASSUME TypeInv, PlaceInv, CallsPlaced', NEW a \in Apps,
         \/ ManageAgain(a) \/ Validate(a) \/ ValidationFunc(a) \/ ValidateDone(a) \/ \E i \in Images : Modified(a, i)
         \/ \E t \in Tables : Manage(a, t) \/ GetAddress(a, t) \/ ReleaseAddress(a, t) \/ Modify(a, t)
  PROVE  PlaceInv'
<1>1. Buffers \in [Slots -> LoadBuff] /\ RecordsSound /\ CallTyped(op[a])
  BY TaskFacts DEF TypeInv, TypeOK, PlaceInv, CallsTyped
<1>2. Validate(a) => op[a].tbl \in Tables  BY <1>1 DEF Validate, IsAt, CallTyped
<1>3. UNCHANGED <<Active, Prev>> /\ UNCHANGED dumpVars /\ (UNCHANGED op \/ \E o : Goto(a, o))
  BY ZenonT(30) DEF ManageAgain, Validate, ValidationFunc, ValidateDone, Modified, Manage, GetAddress, ReleaseAddress, Modify,
         regVars, ManageNext
<1>4. UNCHANGED Next
  BY ZenonT(30), <1>1, <1>2, RecordFacts
     DEF ManageAgain, Validate, ValidationFunc, ValidateDone, Modified, Manage, GetAddress, ReleaseAddress, Modify, regVars
<1>5. Buffers' = Buffers \/ \E s, v : Buffers' = [Buffers EXCEPT ![s].Content = v] \/ Buffers' = [Buffers EXCEPT ![s].IsValid = v]
  BY Zenon DEF ManageAgain, Validate, ValidationFunc, ValidateDone, Modified, Manage, GetAddress, ReleaseAddress, Modify
<1>6. Kept
  <2>1. \A s \in Slots : Buffers'[s].Id = Buffers[s].Id  BY ZenonT(30), <1>1, <1>5, FieldIds
  <2> QED BY <1>3, <1>4, <2>1, KeptIs
<1>7. CASE UNCHANGED op  BY <1>6, <1>7, KeptStep
<1> QED BY <1>3, <1>6, <1>7, KeptByApp

(* The slots of one table, or a shared one that it does not hold, are none *)
(* that another table works with.                                          *)
LEMMA Apart ==
  ASSUME TypeInv, RecordsSound, NEW u \in Tables, NEW s,
         \/ s \notin SharedSlots /\ s[1] # u
         \/ s \in SharedSlots /\ ~LoadHas(u, s)
  PROVE  /\ Active[u] # NoId => Slot(Active[u]) # s
         /\ Next[u] # NoId => Slot(Next[u]) # s
<1>1. Active[u] # NoId => Slot(Active[u]) \notin SharedSlots /\ Slot(Active[u])[1] = u
  BY RecordFacts
<1>2. Next[u] # NoId /\ Slot(Next[u]) \notin SharedSlots => Slot(Next[u])[1] = u
  BY RecordFacts
<1> QED BY <1>1, <1>2 DEF LoadHas

(* CFE_TBL_LoadCmd takes a buffer that nobody has, or the table's own.     *)
LEMMA PlaceLoadCmd ==
  ASSUME TypeInv, PlaceInv, CallsPlaced', NEW t \in Tables, NEW i \in Images, LoadCmd(t, i)
  PROVE  PlaceInv'
<1>1. TypeOK /\ RecordsSound /\ OneHolder /\ Buffers \in [Slots -> LoadBuff] /\ Next \in [Tables -> BufferIds \cup {NoId}]
  BY DEF TypeInv, TypeOK, PlaceInv
<1>2. /\ UNCHANGED <<Active, Prev>> /\ UNCHANGED <<DumpControlBlocks, DumpControlId>>
      /\ Next[t] = NoId /\ t \notin DumpOnly /\ GetWorkingBuffer(t)
  BY DEF LoadCmd, dumpVars
<1>3. PICK id \in BufferIds, b \in LoadBuff : Reserved(t, id, b)  BY <1>1, <1>2, Reserves
<1>4. PICK s0 \in Slots : s0 = Slot(id)  BY IdSlots
<1>5. /\ Next'[t] = id /\ \A u \in Tables : u # t => Next'[u] = Next[u]
      /\ \A s \in Slots : Buffers'[s].Id = IF s = s0 THEN id ELSE Buffers[s].Id
  BY <1>1, <1>3, <1>4 DEF Reserved
<1>6. id # NoId  BY IdSlots
<1>7. \/ /\ id \in SharedIds /\ t \notin DoubleBuffered /\ s0 \in SharedSlots /\ Buffers[s0].Id = NoId /\ Active[t] # NoId
      \/ /\ id = NextLocal(t) /\ (t \in DoubleBuffered \/ Active[t] = NoId)
         /\ s0 \notin SharedSlots /\ s0[1] = t
  BY <1>1, <1>3, <1>4, SlotKinds, RecordFacts DEF Reserved
<1>8. op[TblTask].at = "idle" /\ op'[TblTask].at = "open"
  <2>1. Goto(TblTask, [Idle EXCEPT !.at = "open", !.cmd = TRUE, !.tbl = t, !.img = i]) /\ op[TblTask].at = "idle"
    BY DEF LoadCmd, Command, IsAt
  <2>2. op'[TblTask] = [Idle EXCEPT !.at = "open", !.cmd = TRUE, !.tbl = t, !.img = i]  BY <2>1, GotoFacts, TaskFacts
  <2> QED BY <2>1, <2>2 DEF Idle
<1>9. AbortSound' /\ ReadSound' /\ DumpSound' /\ (\A c : ~Copying(c)') /\ (\A c : ~Copying(c))
  BY <1>8, TaskAway DEF Copying
<1>10. s0 \in SharedSlots => (\A u \in Tables : ~LoadHas(u, s0)) /\ (\A c \in Blocks : ~DumpHas(c, s0))
  <2> SUFFICES ASSUME s0 \in SharedSlots PROVE (\A u \in Tables : ~LoadHas(u, s0)) /\ (\A c \in Blocks : ~DumpHas(c, s0))
    OBVIOUS
  <2> QED BY <1>1, <1>7, FreeSlot
<1>11. ASSUME NEW u \in Tables PROVE RecordSound(u)'
  <2>1. CASE u # t
    <3>1. (Active[u] # NoId => Slot(Active[u]) # s0) /\ (Next[u] # NoId => Slot(Next[u]) # s0)
      BY <1>1, <1>7, <1>10, <2>1, Apart
    <3>2. (Active[u] # NoId => Slot(Active[u]) \in Slots) /\ (Next[u] # NoId => Slot(Next[u]) \in Slots) /\ RecordSound(u)
      BY <1>1, RecordFacts DEF RecordsSound
    <3>3. /\ Active[u] # NoId => Buffers'[Slot(Active[u])].Id = Buffers[Slot(Active[u])].Id
          /\ Next[u] # NoId => Buffers'[Slot(Next[u])].Id = Buffers[Slot(Next[u])].Id
      BY <1>5, <3>1, <3>2
    <3> QED BY <1>2, <1>5, <2>1, <3>2, <3>3, RecordSame
  <2>2. CASE u = t
    <3>1. Active[t] # NoId => Slot(Active[t]) # s0 /\ Slot(Active[t]) \in Slots
      BY <1>1, <1>4, <1>7, RecordFacts
    <3>2. RecordSound(t)  BY <1>1 DEF RecordsSound
    <3>3. Active[t] # NoId => Active[t][1] = t /\ Buffers'[Slot(Active[t])].Id \in {NoId, Active[t]}
      BY <1>5, <3>1, <3>2 DEF RecordSound
    <3>4. Buffers'[Slot(Next'[t])].Id = Next'[t]  BY <1>4, <1>5
    <3>5. NextLocal(t)' = NextLocal(t)  BY <1>2 DEF NextLocal
    <3>6. Active'[t] = Active[t] /\ Prev'[t] = Prev[t] /\ (Prev[t] # NoId => Prev[t][1] = t)
      BY <1>2, <3>2 DEF RecordSound
    <3>7. \/ Next'[t] \in SharedIds /\ t \notin DoubleBuffered
          \/ Next'[t] = NextLocal(t)' /\ (t \in DoubleBuffered \/ Active'[t] = NoId)
      BY <1>5, <1>7, <3>5, <3>6
    <3>8. RecordSound(t)'  BY <1>2, <3>3, <3>4, <3>6, <3>7 DEF RecordSound
    <3> QED BY <2>2, <3>8
  <2> QED BY <2>1, <2>2
<1>12. ASSUME NEW s \in SharedSlots PROVE HeldOnce(s)'
  <2>1. \A c \in Blocks : DumpHas(c, s)' <=> DumpHas(c, s)  BY <1>2, <1>9, DumpHasIs, DumpHasNext
  <2>2. CASE s # s0
    <3>1. \A u \in Tables : LoadHas(u, s)' <=> LoadHas(u, s)
      BY <1>2, <1>4, <1>5, <2>2, SlotParts DEF LoadHas
    <3>2. Buffers'[s].Id = Buffers[s].Id  BY <1>5, <2>2, SlotParts
    <3> QED BY <1>1, <2>1, <3>1, <3>2, HeldSame DEF OneHolder
  <2>3. CASE s = s0
    <3>1. \A u \in Tables : LoadHas(u, s)' <=> u = t
      BY <1>4, <1>5, <1>10, <2>3 DEF LoadHas
    <3>2. \A c \in Blocks : ~DumpHas(c, s)'  BY <1>10, <2>1, <2>3
    <3>3. Buffers'[s].Id # NoId  BY <1>5, <1>6, <2>3
    <3> QED BY <3>1, <3>2, <3>3, HeldByLoad
  <2> QED BY <2>2, <2>3
<1>13. BlocksSound' /\ DumpsLinked'
  <2>1. \A c \in Blocks : BlockSound(c)'  BY <1>2, BlockSame DEF PlaceInv, BlocksSound
  <2>2. \A u \in Tables : LinkSound(u)'  BY <1>2, LinkSame DEF PlaceInv, DumpsLinked
  <2> QED BY <2>1, <2>2 DEF BlocksSound, DumpsLinked, Blocks
<1> QED BY <1>9, <1>11, <1>12, <1>13 DEF PlaceInv, RecordsSound, OneHolder, SharedSlots

(* The first region of CFE_TBL_AbortLoadCmd remembers the buffer of the    *)
(* load.                                                                   *)
LEMMA PlaceAbortCmd ==
  ASSUME TypeInv, PlaceInv, CallsPlaced', NEW t \in Tables, AbortLoadCmd(t)
  PROVE  PlaceInv'
<1>1. RecordsSound /\ Next[t] # NoId /\ UNCHANGED <<Active, Prev, Buffers>> /\ UNCHANGED Next /\ UNCHANGED dumpVars
  BY DEF AbortLoadCmd, PlaceInv, regVars
<1>2. PICK b : b = IF t \in DoubleBuffered THEN NoSlot ELSE Slot(Next[t])  OBVIOUS
<1>3. Kept  BY <1>1, KeptIs
<1>4. op[TblTask].at = "idle" /\ op'[TblTask].at = "abort" /\ op'[TblTask].tbl = t /\ op'[TblTask].buf = b
  <2>1. Goto(TblTask, [Idle EXCEPT !.at = "abort", !.tbl = t, !.buf = b]) /\ op[TblTask].at = "idle"
    BY <1>2 DEF AbortLoadCmd, Command, IsAt
  <2>2. op'[TblTask] = [Idle EXCEPT !.at = "abort", !.tbl = t, !.buf = b]  BY <2>1, GotoFacts, TaskFacts
  <2> QED BY <2>1, <2>2 DEF Idle
<1>5. \A c : ~Copying(c) /\ ~Copying(c)'  BY <1>4 DEF Copying
<1>6. RecordsSound' /\ OneHolder' /\ BlocksSound' /\ DumpsLinked'  BY <1>3, <1>5, KeptBase
<1>7. ReadSound' /\ DumpSound'  BY <1>4 DEF ReadSound, DumpSound
<1>8. t \notin DumpOnly  BY <1>1 DEF RecordsSound, RecordSound
<1>9. t \notin DoubleBuffered => b \in SharedSlots \cup {<<t, 0>>} /\ b = Slot(Next[t])
  <2>1. CASE Slot(Next[t]) \in SharedSlots  BY <1>2, <2>1
  <2>2. CASE Slot(Next[t]) \notin SharedSlots  BY <1>1, <1>2, <2>2, RecordFacts
  <2> QED BY <2>1, <2>2
<1>10. AbortSound'  BY <1>1, <1>2, <1>4, <1>8, <1>9 DEF AbortSound, SharedSlots
<1> QED BY <1>6, <1>7, <1>10 DEF PlaceInv

(* The second one frees that buffer, whatever happened in between.         *)
LEMMA PlaceAbort ==
  ASSUME TypeInv, PlaceInv, CallsPlaced', AbortLoad
  PROVE  PlaceInv'
<1>1. TypeOK /\ RecordsSound /\ OneHolder /\ Buffers \in [Slots -> LoadBuff] /\ Next \in [Tables -> BufferIds \cup {NoId}]
      /\ CallTyped(op[TblTask])
  BY TaskFacts DEF TypeInv, TypeOK, PlaceInv, CallsTyped
<1>2. op[TblTask].at = "abort" /\ op[TblTask].tbl \in Tables
  BY <1>1 DEF AbortLoad, IsAt, CallTyped
<1>3. PICK t \in Tables : t = op[TblTask].tbl  BY <1>2
<1>4. PICK b : b = op[TblTask].buf  OBVIOUS
<1>5. /\ t \notin DumpOnly
      /\ IF t \in DoubleBuffered THEN b = NoSlot
         ELSE /\ b \in SharedSlots \cup {<<t, 0>>}
              /\ Next[t] # NoId => Slot(Next[t]) = b
              /\ b \in SharedSlots /\ Next[t] = NoId => Buffers[b].Id = NoId
  BY <1>2, <1>3, <1>4 DEF PlaceInv, AbortSound
<1>6. /\ UNCHANGED <<Active, Prev>> /\ UNCHANGED <<DumpControlBlocks, DumpControlId>>
      /\ Next' = [Next EXCEPT ![t] = NoId]
      /\ Buffers' = IF b = NoSlot THEN Buffers ELSE [Buffers EXCEPT ![b].Id = NoId]
      /\ Goto(TblTask, Idle)
  BY <1>3, <1>4 DEF AbortLoad, dumpVars
<1>7. /\ Next'[t] = NoId /\ \A u \in Tables : u # t => Next'[u] = Next[u]
      /\ \A s \in Slots : Buffers'[s].Id = IF s = b THEN NoId ELSE Buffers[s].Id
  BY <1>1, <1>6, SlotParts DEF LoadBuff
<1>8. op'[TblTask].at = "idle"  BY <1>6, GotoFacts, TaskFacts DEF Idle
<1>9. AbortSound' /\ ReadSound' /\ DumpSound' /\ (\A c : ~Copying(c)') /\ (\A c : ~Copying(c))
  BY <1>2, <1>8, TaskAway DEF Copying
<1>10. b \in SharedSlots => (\A u \in Tables : u # t => ~LoadHas(u, b)) /\ (\A c \in Blocks : ~DumpHas(c, b))
  <2> SUFFICES ASSUME b \in SharedSlots
               PROVE  (\A u \in Tables : u # t => ~LoadHas(u, b)) /\ (\A c \in Blocks : ~DumpHas(c, b))
    OBVIOUS
  <2>1. CASE Next[t] = NoId
    <3>1. Buffers[b].Id = NoId  BY <1>5, <2>1, SlotParts
    <3> QED BY <1>1, <3>1, FreeSlot
  <2>2. CASE Next[t] # NoId
    <3>1. LoadHas(t, b)  BY <1>5, <2>2, SlotParts DEF LoadHas
    <3> QED BY <1>1, <3>1 DEF OneHolder, HeldOnce
  <2> QED BY <2>1, <2>2
<1>11. ASSUME NEW u \in Tables PROVE RecordSound(u)'
  <2>1. CASE u # t
    <3>1. (Active[u] # NoId => Slot(Active[u]) # b) /\ (Next[u] # NoId => Slot(Next[u]) # b)
      <4>1. b = NoSlot \/ b \in SharedSlots \/ (b = <<t, 0>> /\ b \notin SharedSlots)  BY <1>5, SlotParts
      <4>2. CASE b = NoSlot  BY <1>1, <4>2, RecordFacts, SlotParts
      <4>3. CASE b # NoSlot  BY <1>1, <1>10, <2>1, <4>1, <4>3, Apart
      <4> QED BY <4>2, <4>3
    <3>2. (Active[u] # NoId => Slot(Active[u]) \in Slots) /\ (Next[u] # NoId => Slot(Next[u]) \in Slots) /\ RecordSound(u)
      BY <1>1, RecordFacts DEF RecordsSound
    <3>3. /\ Active[u] # NoId => Buffers'[Slot(Active[u])].Id = Buffers[Slot(Active[u])].Id
          /\ Next[u] # NoId => Buffers'[Slot(Next[u])].Id = Buffers[Slot(Next[u])].Id
      BY <1>7, <3>1, <3>2
    <3> QED BY <1>6, <1>7, <2>1, <3>2, <3>3, RecordSame
  <2>2. CASE u = t
    <3>1. Active[t] # NoId => Slot(Active[t]) \in Slots  BY <1>1, RecordFacts
    <3>2. RecordSound(t)  BY <1>1 DEF RecordsSound
    <3>3. Active[t] # NoId => Active[t][1] = t /\ Buffers'[Slot(Active[t])].Id \in {NoId, Active[t]}
      BY <1>7, <3>1, <3>2 DEF RecordSound
    <3>6. Active'[t] = Active[t] /\ Prev'[t] = Prev[t] /\ (Prev[t] # NoId => Prev[t][1] = t)
      BY <1>6, <3>2 DEF RecordSound
    <3>8. RecordSound(t)'  BY <1>5, <1>7, <3>3, <3>6 DEF RecordSound
    <3> QED BY <2>2, <3>8
  <2> QED BY <2>1, <2>2
<1>12. ASSUME NEW s \in SharedSlots PROVE HeldOnce(s)'
  <2>1. \A c \in Blocks : DumpHas(c, s)' <=> DumpHas(c, s)  BY <1>6, <1>9, DumpHasIs, DumpHasNext
  <2>2. CASE s # b
    <3>0. ~LoadHas(t, s)
      <4>1. CASE t \in DoubleBuffered  BY <1>1, <4>1, RecordFacts DEF LoadHas
      <4>2. CASE t \notin DoubleBuffered  BY <1>5, <2>2, <4>2, SlotParts DEF LoadHas
      <4> QED BY <4>1, <4>2
    <3>1. \A u \in Tables : LoadHas(u, s)' <=> LoadHas(u, s)
      BY <1>7, <3>0, SlotParts DEF LoadHas
    <3>2. Buffers'[s].Id = Buffers[s].Id  BY <1>7, <2>2, SlotParts
    <3> QED BY <1>1, <2>1, <3>1, <3>2, HeldSame DEF OneHolder
  <2>3. CASE s = b
    <3>1. \A u \in Tables : ~LoadHas(u, s)'
      BY <1>7, <1>10, <2>3, SlotParts DEF LoadHas
    <3>2. \A c \in Blocks : ~DumpHas(c, s)'  BY <1>10, <2>1, <2>3
    <3>3. Buffers'[s].Id = NoId  BY <1>7, <2>3, SlotParts
    <3> QED BY <3>1, <3>2, <3>3, HeldByNone
  <2> QED BY <2>2, <2>3
<1>13. BlocksSound' /\ DumpsLinked'
  <2>1. \A c \in Blocks : BlockSound(c)'  BY <1>6, BlockSame DEF PlaceInv, BlocksSound
  <2>2. \A u \in Tables : LinkSound(u)'  BY <1>6, LinkSame DEF PlaceInv, DumpsLinked
  <2> QED BY <2>1, <2>2 DEF BlocksSound, DumpsLinked, Blocks
<1> QED BY <1>9, <1>11, <1>12, <1>13 DEF PlaceInv, RecordsSound, OneHolder, SharedSlots

(* CFE_TBL_UpdateInternal gives the shared buffer of the load back.        *)
LEMMA PlaceUpdate ==
  ASSUME TypeInv, PlaceInv, CallsPlaced', NEW t \in Tables, UpdateInternal(t), UNCHANGED dumpVars,
         op'[TblTask] = op[TblTask]
  PROVE  PlaceInv'
<1>1. TypeOK /\ RecordsSound /\ OneHolder /\ Buffers \in [Slots -> LoadBuff] /\ Next \in [Tables -> BufferIds \cup {NoId}]
      /\ Active \in [Tables -> LocalIds \cup {NoId}] /\ Prev \in [Tables -> LocalIds \cup {NoId}]
  BY DEF TypeInv, TypeOK, PlaceInv
<1>2. UNCHANGED <<DumpControlBlocks, DumpControlId>> /\ \A c : Copying(c)' <=> Copying(c)
  BY DEF dumpVars, Copying
<1>3. CASE UNCHANGED <<Active, Prev, Next, Buffers>>
  <2>1. Kept  BY <1>3, KeptIs
  <2> QED BY <2>1, KeptStep
<1>4. CASE Committed(t)
  <2>1. PICK n \in LocalIds : n = NextLocal(t)  BY <1>1, RecordFacts
  <2>2. PICK s0 \in Slots : s0 = Slot(n)  BY <1>1, <2>1, RecordFacts
  <2>3. PICK s1 \in Slots : s1 = Slot(Next[t])  BY <1>1, <1>4, RecordFacts DEF Committed
  <2>4. /\ t \notin DumpOnly /\ Next[t] # NoId
        /\ Active'[t] = n /\ \A u \in Tables : u # t => Active'[u] = Active[u]
        /\ Prev'[t] = Active[t] /\ \A u \in Tables : u # t => Prev'[u] = Prev[u]
        /\ Next'[t] = NoId /\ \A u \in Tables : u # t => Next'[u] = Next[u]
        /\ \A s \in Slots : Buffers'[s].Id = IF s = s1 /\ t \notin DoubleBuffered THEN NoId
                                             ELSE IF s = s0 THEN n ELSE Buffers[s].Id
    BY <1>1, <1>4, <2>1, <2>2, <2>3 DEF Committed
  <2>5. /\ n[1] = t /\ n # NoId /\ s0 \notin SharedSlots /\ s0[1] = t
        /\ s1 \notin SharedSlots => s1 = s0
        /\ s1 \in SharedSlots => t \notin DoubleBuffered
    BY <1>1, <2>1, <2>2, <2>3, <2>4, RecordFacts, IdParts
  <2>6. LoadHas(t, s1)  BY <2>3 DEF LoadHas
  <2>7. s1 \in SharedSlots => (\A u \in Tables : u # t => ~LoadHas(u, s1)) /\ (\A c \in Blocks : ~DumpHas(c, s1))
    BY <1>1, <2>6 DEF OneHolder, HeldOnce
  <2>8. ASSUME NEW u \in Tables PROVE RecordSound(u)'
    <3>1. CASE u # t
      <4>1. /\ Active[u] # NoId => Slot(Active[u]) # s0 /\ Slot(Active[u]) # s1
            /\ Next[u] # NoId => Slot(Next[u]) # s0 /\ Slot(Next[u]) # s1
        BY <1>1, <2>5, <2>7, <3>1, Apart
      <4>2. (Active[u] # NoId => Slot(Active[u]) \in Slots) /\ (Next[u] # NoId => Slot(Next[u]) \in Slots) /\ RecordSound(u)
        BY <1>1, RecordFacts DEF RecordsSound
      <4>3. /\ Active[u] # NoId => Buffers'[Slot(Active[u])].Id = Buffers[Slot(Active[u])].Id
            /\ Next[u] # NoId => Buffers'[Slot(Next[u])].Id = Buffers[Slot(Next[u])].Id
        BY <2>4, <4>1, <4>2
      <4> QED BY <2>4, <3>1, <4>2, <4>3, RecordSame
    <3>2. CASE u = t
      <4>1. Active[t] # NoId => Active[t][1] = t  BY <1>1 DEF RecordsSound, RecordSound
      <4>2. Buffers'[Slot(Active'[t])].Id \in {NoId, Active'[t]}  BY <2>2, <2>4
      <4>3. RecordSound(t)'  BY <2>4, <2>5, <4>1, <4>2 DEF RecordSound
      <4> QED BY <3>2, <4>3
    <3> QED BY <3>1, <3>2
  <2>9. ASSUME NEW s \in SharedSlots PROVE HeldOnce(s)'
    <3>1. \A c \in Blocks : DumpHas(c, s)' <=> DumpHas(c, s)  BY <1>2, DumpHasIs, DumpHasNext
    <3>2. CASE s # s1
      <4>1. \A u \in Tables : LoadHas(u, s)' <=> LoadHas(u, s)
        BY <2>3, <2>4, <3>2, SlotParts DEF LoadHas
      <4>2. Buffers'[s].Id = Buffers[s].Id  BY <2>4, <2>5, <3>2, SlotParts
      <4> QED BY <1>1, <3>1, <4>1, <4>2, HeldSame DEF OneHolder
    <3>3. CASE s = s1
      <4>1. \A u \in Tables : ~LoadHas(u, s)'  BY <2>4, <2>7, <3>3, SlotParts DEF LoadHas
      <4>2. \A c \in Blocks : ~DumpHas(c, s)'  BY <2>7, <3>1, <3>3
      <4>3. Buffers'[s].Id = NoId  BY <2>4, <2>5, <3>3
      <4> QED BY <4>1, <4>2, <4>3, HeldByNone
    <3> QED BY <3>2, <3>3
  <2>10. AbortSound'
    <3> SUFFICES ASSUME op[TblTask].at = "abort" PROVE AbortSound'  BY DEF AbortSound
    <3>1. PICK x \in Tables : x = op[TblTask].tbl  BY TaskFacts DEF TypeInv, CallsTyped, CallTyped
    <3>2. PICK b : b = op[TblTask].buf  OBVIOUS
    <3>3. /\ x \notin DumpOnly
          /\ IF x \in DoubleBuffered THEN b = NoSlot
             ELSE /\ b \in SharedSlots \cup {<<x, 0>>}
                  /\ Next[x] # NoId => Slot(Next[x]) = b
                  /\ b \in SharedSlots /\ Next[x] = NoId => Buffers[b].Id = NoId
      BY <3>1, <3>2 DEF PlaceInv, AbortSound
    <3>4. x \notin DoubleBuffered /\ Next'[x] # NoId => Slot(Next'[x]) = b
      BY <2>4, <3>3
    <3>5. x \notin DoubleBuffered /\ b \in SharedSlots /\ Next'[x] = NoId => Buffers'[b].Id = NoId
      <4>1. CASE x = t  BY <2>3, <2>4, <3>3, <4>1
      <4>2. CASE x # t  BY <2>4, <2>5, <3>3, <4>2, SlotParts
      <4> QED BY <4>1, <4>2
    <3> QED BY <3>1, <3>2, <3>3, <3>4, <3>5 DEF AbortSound, SharedSlots
  <2>11. ReadSound'
    <3>1. \A b \in Blocks : \A s : DumpHas(b, s)' <=> DumpHas(b, s)  BY <1>2, DumpHasIs, DumpHasNext
    <3> QED BY <3>1 DEF ReadSound, PlaceInv, Slots, Blocks
  <2>12. DumpSound'
    BY <1>2 DEF DumpSound, PlaceInv, SharedSlots
  <2>13. \A c \in Blocks : BlockSound(c)'  BY <1>2, <2>4, BlockSame, TableAssumption DEF PlaceInv, BlocksSound
  <2>14. \A u \in Tables : LinkSound(u)'  BY <1>2, LinkSame DEF PlaceInv, DumpsLinked
  <2> QED BY <2>8, <2>9, <2>10, <2>11, <2>12, <2>13, <2>14
          DEF PlaceInv, RecordsSound, OneHolder, SharedSlots, BlocksSound, DumpsLinked, Blocks
<1> QED BY <1>1, <1>3, <1>4, UpdateEffect

(* A step that changes the IDs of buffers only that no load has keeps the  *)
(* records.                                                                *)
LEMMA RecordsKept ==
  ASSUME TypeInv, RecordsSound, UNCHANGED <<Active, Prev, Next>>,
         \A s \in Slots : Buffers'[s].Id # Buffers[s].Id => s \in SharedSlots /\ \A u \in Tables : ~LoadHas(u, s)
  PROVE  /\ RecordsSound'
         /\ \A u \in Tables : \A s : LoadHas(u, s)' <=> LoadHas(u, s)
<1>1. ASSUME NEW u \in Tables PROVE RecordSound(u)'
  <2>1. /\ Active[u] # NoId => Slot(Active[u]) \in Slots \ SharedSlots
        /\ Next[u] # NoId => Slot(Next[u]) \in Slots
        /\ RecordSound(u)
    BY RecordFacts DEF RecordsSound
  <2>2. /\ Active[u] # NoId => Buffers'[Slot(Active[u])].Id = Buffers[Slot(Active[u])].Id
        /\ Next[u] # NoId => Buffers'[Slot(Next[u])].Id = Buffers[Slot(Next[u])].Id
    BY <2>1 DEF LoadHas
  <2> QED BY <2>1, <2>2, RecordSame
<1> QED BY <1>1 DEF RecordsSound, LoadHas

(* The types of dump control blocks and of the IDs that name them.         *)
LEMMA BlockTyped ==
  ASSUME TypeInv
  PROVE  /\ DumpControlBlocks \in [Blocks -> DumpControl]
         /\ \A u \in Tables : DumpControlId[u] # NoDump => DumpControlId[u] \in BlockIds /\ Block(DumpControlId[u]) \in Blocks
         /\ op[TblTask].at \in {"dump", "snapshot", "copy"} =>
              /\ op[TblTask].dump \in BlockIds /\ op[TblTask].dump # NoDump /\ Block(op[TblTask].dump) \in Blocks
              /\ op[TblTask].tbl \in Tables
BY BlockPlace, TaskFacts DEF TypeInv, TypeOK, Blocks, CallsTyped, CallTyped

(* The blocks of dumps that no table knows of may change.                  *)
LEMMA LinksBut ==
  ASSUME TypeInv, DumpsLinked, NEW d \in BlockIds,
         \A b \in Blocks : b # Block(d) => DumpControlBlocks'[b] = DumpControlBlocks[b],
         DumpControlBlocks'[Block(d)].Id = d,
         \A u \in Tables : DumpControlId[u] # d, NEW u \in Tables, DumpControlId'[u] = DumpControlId[u]
  PROVE  LinkSound(u)'
<1>1. PICK x : x = DumpControlId[u]  OBVIOUS
<1>2. x # d /\ x = DumpControlId'[u] /\ (x # NoDump => Block(x) \in Blocks)  BY <1>1, BlockTyped
<1>3. CASE x # NoDump /\ Block(x) = Block(d)
  BY <1>2, <1>3 DEF LinkSound, BlockMatches
<1>4. CASE x # NoDump /\ Block(x) # Block(d)
  BY <1>1, <1>2, <1>4, LinkSame DEF DumpsLinked
<1>5. CASE x = NoDump
  BY <1>2, <1>5 DEF LinkSound, BlockMatches
<1> QED BY <1>3, <1>4, <1>5

(* CFE_TBL_DumpCmd takes a dump control block that nobody has.             *)
LEMMA PlaceDumpCmd ==
  ASSUME TypeInv, PlaceInv, CallsPlaced', NEW t \in Tables, NEW select \in {"INACTIVE", "ACTIVE"}, DumpCmd(t, select)
  PROVE  PlaceInv'
<1>1. /\ RecordsSound /\ OneHolder /\ DumpControlBlocks \in [Blocks -> DumpControl] /\ LastDumpCtrlBlockId \in BlockIds
      /\ FreeBlocks # {}
  BY BlockTyped DEF TypeInv, TypeOK, PlaceInv, DumpCmd, AllocateDumpCtrlBlock
<1>2. PICK d \in BlockIds : d = NextBlock  BY <1>1, NextBlockFree
<1>3. PICK b0 \in Blocks : b0 = Block(d)  BY <1>2, BlockPlace
<1>4. d # NoDump /\ DumpControlBlocks[b0].Id = NoDump  BY <1>1, <1>2, <1>3, NextBlockFree, BlockPlace
<1>5. PICK src : src = Buffers[SelectedBuffer(t, select)].Id  OBVIOUS
<1>6. PICK new : new = [FreeBlock EXCEPT !.Id = d, !.tbl = t, !.Source = src]  OBVIOUS
<1>7. new.Id = d /\ new.tbl = t /\ new.Source = src /\ new.State = "FREE"  BY <1>6 DEF FreeBlock
<1>8. UNCHANGED Next
  <2>1. UNCHANGED Next \/ ClearStale(t)  BY DEF DumpCmd, AllocateDumpCtrlBlock
  <2> QED BY <1>1, <2>1, RecordFacts
<1>9. /\ UNCHANGED <<Active, Prev, Buffers, DumpControlId>>
      /\ SelectedBuffer(t, select) # NoSlot
      /\ \A u \in Tables : DumpControlId[u] # d
      /\ DumpControlBlocks' = [DumpControlBlocks EXCEPT ![b0] = new]
      /\ Goto(TblTask, [Idle EXCEPT !.at = "dump", !.tbl = t, !.dump = d]) /\ op[TblTask].at = "idle"
  BY <1>2, <1>3, <1>5, <1>6 DEF DumpCmd, AllocateDumpCtrlBlock, Command, IsAt
<1>10. /\ DumpControlBlocks'[b0] = new
       /\ \A b \in Blocks : b # b0 => DumpControlBlocks'[b] = DumpControlBlocks[b]
  BY <1>1, <1>9
<1>11. op'[TblTask].at = "dump" /\ op'[TblTask].tbl = t /\ op'[TblTask].dump = d
  <2>1. op'[TblTask] = [Idle EXCEPT !.at = "dump", !.tbl = t, !.dump = d]  BY <1>9, GotoFacts, TaskFacts
  <2> QED BY <2>1 DEF Idle
<1>12. \A b : ~Copying(b) /\ ~Copying(b)'  BY <1>9, <1>11 DEF Copying
<1>13. RecordsSound' /\ \A u \in Tables : \A s : LoadHas(u, s)' <=> LoadHas(u, s)
  BY <1>1, <1>8, <1>9, RecordsKept
<1>14. ASSUME NEW s \in SharedSlots PROVE HeldOnce(s)'
  <2>1. ASSUME NEW b \in Blocks PROVE DumpHas(b, s)' <=> DumpHas(b, s)
    <3>1. CASE b = b0  BY <1>4, <1>7, <1>10, <1>12, <3>1, DumpHasIs, DumpHasNext
    <3>2. CASE b # b0  BY <1>10, <1>12, <3>2, DumpHasIs, DumpHasNext
    <3> QED BY <3>1, <3>2
  <2> QED BY <1>1, <1>9, <1>13, <2>1, HeldSame DEF OneHolder
<1>15. ASSUME NEW b \in Blocks PROVE BlockSound(b)'
  <2>1. CASE b = b0
    <3>1. t \in DumpOnly => src = Active'[t]
      <4> SUFFICES ASSUME t \in DumpOnly PROVE src = Active'[t]  OBVIOUS
      <4>1. Next[t] = NoId /\ Prev[t] = NoId /\ Buffers[Slot(Active[t])].Id = Active[t]
        BY <1>1 DEF RecordsSound, RecordSound
      <4>2. SelectedBuffer(t, select) = Slot(Active[t])  BY <1>9, <4>1, SlotParts DEF SelectedBuffer, LoadBuf
      <4> QED BY <1>5, <1>9, <4>1, <4>2
    <3> QED BY <1>3, <1>7, <1>10, <2>1, <3>1 DEF BlockSound, SharedSlots
  <2>2. CASE b # b0  BY <1>9, <1>10, <2>2, BlockSame DEF PlaceInv, BlocksSound
  <2> QED BY <2>1, <2>2
<1>16. ASSUME NEW u \in Tables PROVE LinkSound(u)'
  BY <1>3, <1>7, <1>9, <1>10, LinksBut DEF PlaceInv
<1>17. AbortSound' /\ ReadSound'  BY <1>11 DEF AbortSound, ReadSound
<1>18. DumpSound'  BY <1>3, <1>7, <1>9, <1>10, <1>11 DEF DumpSound
<1> QED BY <1>13, <1>14, <1>15, <1>16, <1>17, <1>18 DEF PlaceInv, OneHolder, BlocksSound, DumpsLinked, SharedSlots, Blocks

(* CFE_TBL_PrepareDumpSnapshotBuffer takes a shared buffer that nobody has *)
(* for the block.                                                          *)
LEMMA PlacePrepare ==
  ASSUME TypeInv, PlaceInv, CallsPlaced', PrepareDump
  PROVE  PlaceInv'
<1>1. /\ RecordsSound /\ OneHolder /\ DumpControlBlocks \in [Blocks -> DumpControl] /\ Buffers \in [Slots -> LoadBuff]
      /\ LastLoadBuffId \in 0..(NumShared * Wrap - 1) /\ DumpControlId \in [Tables -> BlockIds \cup {NoDump}]
      /\ op[TblTask].at = "dump" /\ op[TblTask] \in Op
  BY BlockTyped, TaskFacts DEF TypeInv, TypeOK, PlaceInv, PrepareDump, IsAt
<1>2. PICK t \in Tables : t = op[TblTask].tbl  BY <1>1, BlockTyped
<1>3. PICK d \in BlockIds : d = op[TblTask].dump  BY <1>1, BlockTyped
<1>4. PICK b0 \in Blocks : b0 = Block(d)  BY <1>3, BlockPlace
<1>5. PICK c \in DumpControl : c = DumpControlBlocks[b0]  BY <1>1
<1>6. c.Id = d /\ c.tbl = t /\ c.State = "FREE" /\ d # NoDump /\ \A u \in Tables : DumpControlId[u] # d
  BY <1>1, <1>2, <1>3, <1>4, <1>5, BlockTyped DEF PlaceInv, DumpSound
<1>7. CASE FreeShared = {}
  <2>1. UNCHANGED <<Active, Prev>> /\ UNCHANGED Next /\ UNCHANGED dumpVars /\ UNCHANGED Buffers /\ Goto(TblTask, Idle)
    BY <1>7 DEF PrepareDump, regVars, dumpVars
  <2>2. Kept  BY <2>1, KeptIs
  <2>3. Idle.at = "idle"  BY DEF Idle
  <2> QED BY <1>1, <2>1, <2>2, <2>3, KeptByTask
<1>8. CASE FreeShared # {}
  <2>1. PICK id \in SharedIds : id = NextShared /\ Buffers[Slot(id)].Id = NoId  BY <1>1, <1>8, NextSharedFree
  <2>2. PICK s0 \in SharedSlots : s0 = Slot(id)  BY SlotKinds
  <2>3. id # NoId /\ id \in BufferIds /\ s0 \in Slots  BY IdParts, SlotParts
  <2>4. PICK deferred \in BOOLEAN : deferred <=> t \in DumpOnly
    <3>1. CASE t \in DumpOnly  BY <3>1
    <3>2. CASE t \notin DumpOnly  BY <3>2
    <3> QED BY <3>1, <3>2
  <2>5. PICK new : new = [c EXCEPT !.Buf = s0, !.State = IF deferred THEN "PENDING" ELSE c.State]  OBVIOUS
  <2>6. new.Id = d /\ new.tbl = t /\ new.Buf = s0 /\ new.Source = c.Source /\ new.State = IF deferred THEN "PENDING" ELSE "FREE"
    BY <1>6, <2>5 DEF DumpControl
  <2>7. /\ UNCHANGED <<Active, Prev, Next>>
        /\ Buffers' = [Buffers EXCEPT ![s0].Id = id]
        /\ DumpControlBlocks' = [DumpControlBlocks EXCEPT ![b0].Buf = s0,
                                    ![b0].State = IF deferred THEN "PENDING" ELSE @]
        /\ DumpControlId' = IF deferred THEN [DumpControlId EXCEPT ![t] = d] ELSE DumpControlId
        /\ Goto(TblTask, IF deferred THEN Idle ELSE [op[TblTask] EXCEPT !.at = "snapshot"])
    BY <1>2, <1>3, <1>4, <1>8, <2>1, <2>2, <2>4, Zenon DEF PrepareDump, regVars
  <2>8. /\ DumpControlBlocks'[b0] = new
        /\ \A b \in Blocks : b # b0 => DumpControlBlocks'[b] = DumpControlBlocks[b]
    BY <1>1, <1>5, <2>5, <2>7
  <2>9. \A s \in Slots : Buffers'[s].Id = IF s = s0 THEN id ELSE Buffers[s].Id
    BY <1>1, <2>3, <2>7 DEF LoadBuff
  <2>10. (\A u \in Tables : ~LoadHas(u, s0)) /\ (\A b \in Blocks : ~DumpHas(b, s0))
    BY <1>1, <2>1, <2>2, FreeSlot
  <2>11. RecordsSound' /\ \A u \in Tables : \A s : LoadHas(u, s)' <=> LoadHas(u, s)
    BY <1>1, <2>7, <2>9, <2>10, RecordsKept
  <2>12. IF deferred THEN op'[TblTask].at = "idle"
         ELSE op'[TblTask].at = "snapshot" /\ op'[TblTask].tbl = t /\ op'[TblTask].dump = d
    <3>1. op'[TblTask] = IF deferred THEN Idle ELSE [op[TblTask] EXCEPT !.at = "snapshot"]
      BY <2>7, GotoFacts, TaskFacts
    <3> QED BY <1>1, <1>2, <1>3, <3>1 DEF Idle, Op
  <2>13. \A b \in Blocks : ~Copying(b) /\ (Copying(b)' <=> ~deferred /\ b = b0)
    BY <1>1, <1>4, <2>12 DEF Copying
  <2>14. ASSUME NEW s \in SharedSlots PROVE HeldOnce(s)'
    <3>1. ASSUME NEW b \in Blocks, b # b0 PROVE DumpHas(b, s)' <=> DumpHas(b, s)
      BY <2>8, <2>13, <3>1, DumpHasIs, DumpHasNext
    <3>2. ~DumpHas(b0, s)  BY <1>5, <1>6, <2>13, DumpHasIs
    <3>3. DumpHas(b0, s)' <=> s = s0  BY <1>6, <2>6, <2>8, <2>13, DumpHasNext
    <3>4. CASE s # s0
      <4>1. Buffers'[s].Id = Buffers[s].Id  BY <2>9, <3>4, SlotParts
      <4> QED BY <1>1, <2>11, <3>1, <3>2, <3>3, <3>4, <4>1, HeldSame DEF OneHolder
    <3>5. CASE s = s0
      <4>1. \A b \in Blocks : DumpHas(b, s)' <=> b = b0  BY <2>10, <3>1, <3>3, <3>5
      <4>2. Buffers'[s].Id # NoId  BY <2>3, <2>9, <3>5
      <4> QED BY <2>10, <2>11, <3>5, <4>1, <4>2, HeldByDump
    <3> QED BY <3>4, <3>5
  <2>15. ASSUME NEW b \in Blocks PROVE BlockSound(b)'
    <3>1. CASE b = b0
      <4>1. t \in DumpOnly => c.Source = Active[t]
        BY <1>5, <1>6 DEF PlaceInv, BlocksSound, BlockSound
      <4> QED BY ZenonT(30), <1>4, <1>6, <2>6, <2>7, <2>8, <3>1, <4>1 DEF BlockSound, SharedSlots
    <3>2. CASE b # b0  BY <2>7, <2>8, <3>2, BlockSame DEF PlaceInv, BlocksSound
    <3> QED BY <3>1, <3>2
  <2>16. ASSUME NEW u \in Tables PROVE LinkSound(u)'
    <3>1. CASE deferred /\ u = t
      <4>1. DumpControlId'[u] = d  BY <1>1, <2>7, <3>1
      <4> QED BY <1>4, <2>6, <2>8, <3>1, <4>1 DEF LinkSound
    <3>2. CASE ~(deferred /\ u = t)
      <4>1. DumpControlId'[u] = DumpControlId[u]  BY <1>1, <2>7, <3>2
      <4> QED BY <1>4, <1>6, <2>6, <2>8, <4>1, LinksBut DEF PlaceInv
    <3> QED BY <3>1, <3>2
  <2>17. AbortSound' /\ ReadSound' /\ DumpSound'
    <3>1. CASE deferred  BY <2>12, <3>1, TaskAway
    <3>2. CASE ~deferred
      <4>1. AbortSound' /\ ReadSound'  BY <2>12, <3>2 DEF AbortSound, ReadSound
      <4>2. DumpSound'  BY <1>4, <1>6, <2>4, <2>6, <2>7, <2>8, <2>12, <3>2 DEF DumpSound, SharedSlots
      <4> QED BY <4>1, <4>2
    <3> QED BY <3>1, <3>2
  <2> QED BY <2>11, <2>14, <2>15, <2>16, <2>17 DEF PlaceInv, OneHolder, BlocksSound, DumpsLinked, SharedSlots, Blocks
<1> QED BY <1>7, <1>8

(* The table task begins the snapshot, or gives the buffer back when the   *)
(* source is gone.                                                         *)
LEMMA PlaceSnapshot ==
  ASSUME TypeInv, PlaceInv, CallsPlaced', SnapshotBegin
  PROVE  PlaceInv'
<1>1. /\ RecordsSound /\ OneHolder /\ DumpControlBlocks \in [Blocks -> DumpControl] /\ Buffers \in [Slots -> LoadBuff]
      /\ op[TblTask].at = "snapshot" /\ op[TblTask] \in Op
  BY BlockTyped, TaskFacts DEF TypeInv, TypeOK, PlaceInv, SnapshotBegin, IsAt
<1>2. PICK b0 \in Blocks : b0 = Block(op[TblTask].dump)  BY <1>1, BlockTyped
<1>3. PICK c \in DumpControl : c = DumpControlBlocks[b0]  BY <1>1
<1>4. c.Id # NoDump /\ c.State = "FREE" /\ c.Buf \in SharedSlots
  BY <1>1, <1>2, <1>3, BlockTyped DEF PlaceInv, DumpSound
<1>5. PICK s0 \in Slots : s0 = c.Buf  BY <1>4, SlotParts
<1>6. UNCHANGED <<Active, Prev>> /\ UNCHANGED Next /\ UNCHANGED dumpVars /\ UNCHANGED <<DumpControlBlocks, DumpControlId>>
  BY DEF SnapshotBegin, regVars, dumpVars
<1>7. CASE SourceThere(c)
  <2>1. PICK b, i : Goto(TblTask, [op[TblTask] EXCEPT !.at = "copy", !.buf = b, !.img = i])
    BY <1>2, <1>3, <1>7 DEF SnapshotBegin
  <2>2. UNCHANGED Buffers  BY <1>2, <1>3, <1>7 DEF SnapshotBegin
  <2>3. Kept  BY <1>6, <2>2, KeptIs
  <2>4. op'[TblTask].at = "copy" /\ op'[TblTask].dump = op[TblTask].dump /\ op'[TblTask].tbl = op[TblTask].tbl
    <3>1. op'[TblTask] = [op[TblTask] EXCEPT !.at = "copy", !.buf = b, !.img = i]  BY <2>1, GotoFacts, TaskFacts
    <3> QED BY <1>1, <3>1 DEF Op
  <2>5. \A x \in Blocks : Copying(x)' <=> Copying(x)  BY <1>1, <2>4 DEF Copying
  <2>6. RecordsSound' /\ OneHolder' /\ BlocksSound' /\ DumpsLinked'  BY <2>3, <2>5, KeptBase
  <2>7. AbortSound' /\ ReadSound'  BY <2>4 DEF AbortSound, ReadSound
  <2>8. DumpSound'  BY <1>1, <1>6, <2>4 DEF DumpSound, PlaceInv, SharedSlots
  <2> QED BY <2>6, <2>7, <2>8 DEF PlaceInv
<1>8. CASE ~SourceThere(c)
  <2>1. Buffers' = [Buffers EXCEPT ![s0].Id = NoId] /\ Goto(TblTask, Idle)
    BY <1>2, <1>3, <1>5, <1>8 DEF SnapshotBegin
  <2>2. op'[TblTask].at = "idle"  BY <2>1, GotoFacts, TaskFacts DEF Idle
  <2>3. AbortSound' /\ ReadSound' /\ DumpSound' /\ \A b : ~Copying(b)'  BY <2>2, TaskAway
  <2>4. \A s \in Slots : Buffers'[s].Id = IF s = s0 THEN NoId ELSE Buffers[s].Id
    BY <1>1, <2>1 DEF LoadBuff
  <2>5. \A b \in Blocks : Copying(b) <=> b = b0  BY <1>1, <1>2 DEF Copying
  <2>6. DumpHas(b0, s0)  BY <1>3, <1>4, <1>5, <2>5, DumpHasIs
  <2>7. (\A u \in Tables : ~LoadHas(u, s0)) /\ (\A b \in Blocks : b # b0 => ~DumpHas(b, s0))
    BY <1>1, <1>4, <1>5, <2>6 DEF OneHolder, HeldOnce
  <2>8. RecordsSound' /\ \A u \in Tables : \A s : LoadHas(u, s)' <=> LoadHas(u, s)
    BY <1>1, <1>4, <1>5, <1>6, <2>4, <2>7, RecordsKept
  <2>9. ASSUME NEW s \in SharedSlots PROVE HeldOnce(s)'
    <3>1. ASSUME NEW b \in Blocks, b # b0 PROVE DumpHas(b, s)' <=> DumpHas(b, s)
      BY <1>6, <2>3, <2>5, <3>1, DumpHasIs, DumpHasNext
    <3>2. ~DumpHas(b0, s)'  BY <1>3, <1>4, <1>6, <2>3, DumpHasNext
    <3>4. CASE s # s0
      <4>1. Buffers'[s].Id = Buffers[s].Id  BY <2>4, <3>4, SlotParts
      <4>2. ~DumpHas(b0, s)  BY <1>3, <1>5, <3>4, DumpHasIs
      <4> QED BY <1>1, <2>8, <3>1, <3>2, <4>1, <4>2, HeldSame DEF OneHolder
    <3>5. CASE s = s0
      <4>1. \A b \in Blocks : ~DumpHas(b, s)'  BY <2>7, <3>1, <3>2, <3>5
      <4>2. Buffers'[s].Id = NoId  BY <2>4, <3>5
      <4> QED BY <2>7, <2>8, <3>5, <4>1, <4>2, HeldByNone
    <3> QED BY <3>4, <3>5
  <2>10. \A b \in Blocks : BlockSound(b)'  BY <1>6, BlockSame DEF PlaceInv, BlocksSound
  <2>11. \A u \in Tables : LinkSound(u)'  BY <1>6, LinkSame DEF PlaceInv, DumpsLinked
  <2> QED BY <2>3, <2>8, <2>9, <2>10, <2>11 DEF PlaceInv, OneHolder, BlocksSound, DumpsLinked, SharedSlots, Blocks
<1> QED BY <1>7, <1>8

(* A snapshot is taken: the block keeps its buffer.                        *)
LEMMA PlacePerformed ==
  ASSUME TypeInv, PlaceInv, CallsPlaced', NEW b0 \in Blocks,
         UNCHANGED <<Active, Prev, Next, DumpControlId>>,
         \A s \in Slots : Buffers'[s].Id = Buffers[s].Id,
         DumpControlBlocks' = [DumpControlBlocks EXCEPT ![b0] = Performed(DumpControlBlocks[b0])],
         DumpControlBlocks[b0].Id # NoDump, DumpControlBlocks[b0].Buf \in SharedSlots,
         \/ /\ Copying(b0) /\ op'[TblTask].at = "idle"
            /\ DumpControlBlocks[b0].Id \in BlockIds /\ b0 = Block(DumpControlBlocks[b0].Id)
            /\ \A u \in Tables : DumpControlId[u] # DumpControlBlocks[b0].Id
         \/ DumpControlBlocks[b0].State # "FREE" /\ op'[TblTask] = op[TblTask]
  PROVE  PlaceInv'
<1>1. /\ RecordsSound /\ OneHolder /\ DumpControlBlocks \in [Blocks -> DumpControl]
  BY BlockTyped DEF PlaceInv
<1>2. PICK c \in DumpControl : c = DumpControlBlocks[b0]  BY <1>1
<1>3. PICK new : new = Performed(c)  OBVIOUS
<1>4. new.Id = c.Id /\ new.tbl = c.tbl /\ new.Buf = c.Buf /\ new.Source = NoId /\ new.State = "PERFORMED"
  BY <1>2, <1>3 DEF Performed, DumpControl
<1>5. /\ DumpControlBlocks'[b0] = new
      /\ \A b \in Blocks : b # b0 => DumpControlBlocks'[b] = DumpControlBlocks[b]
  BY <1>1, <1>2, <1>3
<1>6. \A b \in Blocks : b # b0 => (Copying(b)' <=> Copying(b))  BY DEF Copying
<1>7. RecordsSound' /\ \A u \in Tables : \A s : LoadHas(u, s)' <=> LoadHas(u, s)
  BY <1>1, RecordsKept
<1>8. ASSUME NEW b \in Blocks, NEW s PROVE DumpHas(b, s)' <=> DumpHas(b, s)
  <2>1. CASE b # b0  BY <1>5, <1>6, <2>1, DumpHasIs, DumpHasNext
  <2>2. CASE b = b0  BY <1>2, <1>4, <1>5, <2>2, DumpHasIs, DumpHasNext
  <2> QED BY <2>1, <2>2
<1>9. ASSUME NEW s \in SharedSlots PROVE HeldOnce(s)'
  BY <1>1, <1>7, <1>8, SlotParts, HeldSame DEF OneHolder
<1>10. ASSUME NEW b \in Blocks PROVE BlockSound(b)'
  <2>1. CASE b = b0  BY <1>2, <1>4, <1>5, <2>1 DEF BlockSound, PlaceInv, BlocksSound, SharedSlots
  <2>2. CASE b # b0  BY <1>5, <2>2, BlockSame DEF PlaceInv, BlocksSound
  <2> QED BY <2>1, <2>2
<1>11. ASSUME NEW u \in Tables PROVE LinkSound(u)'
  <2>1. CASE DumpControlBlocks[b0].State # "FREE"
    <3>1. PICK x : x = DumpControlId[u]  OBVIOUS
    <3>2. x = DumpControlId'[u] /\ (x # NoDump => Block(x) \in Blocks)  BY <3>1, BlockTyped
    <3>3. LinkSound(u)  BY DEF PlaceInv, DumpsLinked
    <3>4. CASE x # NoDump /\ Block(x) = b0
      BY <1>2, <1>4, <1>5, <3>1, <3>2, <3>3, <3>4 DEF LinkSound, BlockMatches
    <3>5. CASE x # NoDump /\ Block(x) # b0
      BY <1>5, <3>1, <3>2, <3>3, <3>5, LinkSame
    <3>6. CASE x = NoDump
      BY <3>2, <3>6 DEF LinkSound, BlockMatches
    <3> QED BY <3>4, <3>5, <3>6
  <2>2. CASE /\ DumpControlBlocks[b0].Id \in BlockIds /\ b0 = Block(DumpControlBlocks[b0].Id)
             /\ \A v \in Tables : DumpControlId[v] # DumpControlBlocks[b0].Id
    <3>1. PICK d \in BlockIds : d = DumpControlBlocks[b0].Id  BY <2>2
    <3> QED BY <1>2, <1>4, <1>5, <2>2, <3>1, LinksBut DEF PlaceInv
  <2> QED BY <2>1, <2>2
<1>12. AbortSound' /\ ReadSound' /\ DumpSound'
  <2>1. CASE op'[TblTask].at = "idle"  BY <2>1, TaskAway
  <2>2. CASE DumpControlBlocks[b0].State # "FREE" /\ op'[TblTask] = op[TblTask]
    <3>1. AbortSound'  BY <2>2, SlotParts DEF AbortSound, PlaceInv, SharedSlots
    <3>2. ReadSound'  BY <1>8, <2>2 DEF ReadSound, PlaceInv, Slots, Blocks
    <3>3. op[TblTask].at \in {"dump", "snapshot", "copy"} => Block(op[TblTask].dump) \in Blocks \ {b0}
      BY <2>2, BlockTyped DEF PlaceInv, DumpSound
    <3>4. op[TblTask].at \in {"dump", "snapshot", "copy"} =>
             DumpControlBlocks'[Block(op[TblTask].dump)] = DumpControlBlocks[Block(op[TblTask].dump)]
      BY <1>5, <3>3
    <3>5. DumpSound'  BY <2>2, <3>4 DEF DumpSound, PlaceInv, SharedSlots
    <3> QED BY <3>1, <3>2, <3>5
  <2> QED BY <2>1, <2>2
<1> QED BY <1>7, <1>9, <1>10, <1>11, <1>12 DEF PlaceInv, OneHolder, BlocksSound, DumpsLinked, SharedSlots, Blocks

(* The table task ends the snapshot.                                       *)
LEMMA PlaceSnapshotEnd ==
  ASSUME TypeInv, PlaceInv, CallsPlaced', SnapshotEnd
  PROVE  PlaceInv'
<1>1. /\ Buffers \in [Slots -> LoadBuff]
      /\ op[TblTask].at = "copy" /\ op[TblTask] \in Op
  BY TaskFacts DEF TypeInv, TypeOK, SnapshotEnd, IsAt
<1>2. PICK d \in BlockIds : d = op[TblTask].dump /\ d # NoDump  BY <1>1, BlockTyped
<1>3. PICK b0 \in Blocks : b0 = Block(d)  BY <1>2, BlockPlace
<1>4. /\ DumpControlBlocks[b0].Id = d /\ DumpControlBlocks[b0].Buf \in SharedSlots /\ Copying(b0)
      /\ \A u \in Tables : DumpControlId[u] # d
  BY <1>1, <1>2, <1>3 DEF PlaceInv, DumpSound, Copying
<1>5. /\ UNCHANGED <<Active, Prev, Next, DumpControlId>> /\ Goto(TblTask, Idle)
      /\ DumpControlBlocks' = [DumpControlBlocks EXCEPT ![b0] = Performed(DumpControlBlocks[b0])]
      /\ \E s, v : Buffers' = [Buffers EXCEPT ![s].Content = v]
  BY <1>2, <1>3 DEF SnapshotEnd, regVars
<1>6. \A s \in Slots : Buffers'[s].Id = Buffers[s].Id  BY ZenonT(30), <1>1, <1>5, FieldIds
<1>7. op'[TblTask].at = "idle"  BY <1>5, GotoFacts, TaskFacts DEF Idle
<1> QED BY <1>2, <1>3, <1>4, <1>5, <1>6, <1>7, PlacePerformed

(* The owner takes the snapshot (CFE_TBL_DumpToBuffer).                    *)
LEMMA PlaceTaken ==
  ASSUME TypeInv, PlaceInv, CallsPlaced', NEW a \in Apps, DumpToBuffer(a)
  PROVE  PlaceInv'
<1>1. /\ Buffers \in [Slots -> LoadBuff] /\ DumpControlId \in [Tables -> BlockIds \cup {NoDump}]
      /\ op[a].at = "take" /\ CallTyped(op[a])
  BY Zenon, TaskFacts DEF TypeInv, TypeOK, DumpToBuffer, IsAt, CallsTyped
<1>2. PICK t \in Tables : t = op[a].tbl  BY <1>1 DEF CallTyped
<1>3. PICK d : d = DumpControlId[t]  OBVIOUS
<1>4. PICK b0 : b0 = Block(d)  OBVIOUS
<1>5. UNCHANGED <<Active, Prev, Next>> /\ Goto(a, Idle)
  BY DEF DumpToBuffer, regVars
<1>6. op'[TblTask] = op[TblTask]  BY <1>5, GotoFacts, TaskFacts
<1>7. CASE BlockMatches(d) /\ SourceThere(DumpControlBlocks[b0])
  <2>1. d \in BlockIds /\ d # NoDump /\ b0 \in Blocks /\ DumpControlBlocks[b0].Id = d
    BY <1>3, <1>4, <1>7, BlockTyped DEF BlockMatches
  <2>2. DumpControlBlocks[b0].State # "FREE"
    BY <1>3, <1>4, <1>7 DEF PlaceInv, DumpsLinked, LinkSound
  <2>3. DumpControlBlocks[b0].Buf \in SharedSlots  BY <2>1, <2>2 DEF PlaceInv, BlocksSound, BlockSound
  <2>4. /\ UNCHANGED DumpControlId
        /\ DumpControlBlocks' = [DumpControlBlocks EXCEPT ![b0] = Performed(DumpControlBlocks[b0])]
        /\ \E s, v : Buffers' = [Buffers EXCEPT ![s].Content = v]
    BY <1>2, <1>3, <1>4, <1>7 DEF DumpToBuffer
  <2>5. \A s \in Slots : Buffers'[s].Id = Buffers[s].Id  BY ZenonT(30), <1>1, <2>4, FieldIds
  <2> QED BY <1>5, <1>6, <2>1, <2>2, <2>3, <2>4, <2>5, PlacePerformed
<1>8. CASE ~(BlockMatches(d) /\ SourceThere(DumpControlBlocks[b0]))
  <2>1. UNCHANGED <<Buffers, DumpControlBlocks>>
        /\ DumpControlId' \in {DumpControlId, [DumpControlId EXCEPT ![t] = NoDump]}
    BY <1>2, <1>3, <1>4, <1>8 DEF DumpToBuffer
  <2>2. \A u \in Tables : DumpControlId'[u] \in {DumpControlId[u], NoDump}  BY <1>1, <2>1
  <2>3. Kept  BY <1>5, <2>1, <2>2 DEF Kept
  <2> QED BY <1>6, <2>3, KeptStep
<1> QED BY <1>7, <1>8

(* CFE_TBL_SendHkCmd gives back the buffers and blocks of the snapshots it *)
(* has written, and no others.                                             *)
LEMMA PlaceHk ==
  ASSUME TypeInv, PlaceInv, CallsPlaced', SendHkCmd
  PROVE  PlaceInv'
<1>1. /\ RecordsSound /\ OneHolder /\ DumpControlBlocks \in [Blocks -> DumpControl] /\ DOMAIN DumpControlBlocks = Blocks
      /\ Buffers \in [Slots -> LoadBuff] /\ op[TblTask].at = "idle" /\ op' = op
  BY BlockTyped DEF TypeInv, TypeOK, PlaceInv, SendHkCmd, IsAt
<1>2. PICK T : T = Taken  OBVIOUS
<1>3. T \subseteq Blocks /\ \A b \in Blocks : b \in T <=> DumpControlBlocks[b].State = "PERFORMED"
  BY <1>1, <1>2 DEF Taken
<1>4. PICK W : W = {DumpControlBlocks[b].Buf : b \in T}  OBVIOUS
<1>5. /\ UNCHANGED <<Active, Prev, Next, DumpControlId>>
      /\ Buffers' = [s \in Slots |-> IF s \in W THEN [Buffers[s] EXCEPT !.Id = NoId] ELSE Buffers[s]]
      /\ DumpControlBlocks' = [b \in Blocks |-> IF b \in T THEN FreeBlock ELSE DumpControlBlocks[b]]
  BY <1>1, <1>2, <1>4 DEF SendHkCmd, regVars
<1>6. \A s \in Slots : Buffers'[s].Id = IF s \in W THEN NoId ELSE Buffers[s].Id
  BY <1>1, <1>5 DEF LoadBuff
<1>7. \A b \in T : DumpHas(b, DumpControlBlocks[b].Buf) /\ DumpControlBlocks[b].Buf \in SharedSlots
  BY <1>3, DumpHasIs DEF PlaceInv, BlocksSound, BlockSound
<1>8. W \subseteq SharedSlots /\ \A s \in W : \A u \in Tables : ~LoadHas(u, s)
  <2>1. ASSUME NEW s \in W PROVE s \in SharedSlots /\ \A u \in Tables : ~LoadHas(u, s)
    <3>1. PICK b \in T : s = DumpControlBlocks[b].Buf  BY <1>4
    <3> QED BY <1>1, <1>3, <1>7, <3>1 DEF OneHolder, HeldOnce
  <2> QED BY <2>1
<1>9. RecordsSound' /\ \A u \in Tables : \A s : LoadHas(u, s)' <=> LoadHas(u, s)
  BY <1>1, <1>5, <1>6, <1>8, RecordsKept
<1>10. AbortSound' /\ ReadSound' /\ DumpSound' /\ (\A b : ~Copying(b)') /\ (\A b : ~Copying(b))
  BY <1>1, TaskAway DEF Copying
<1>11. FreeBlock.Id = NoDump /\ FreeBlock.State = "FREE"  BY DEF FreeBlock
<1>12. ASSUME NEW s \in SharedSlots PROVE HeldOnce(s)'
  <2>1. ASSUME NEW b \in Blocks, b \notin T PROVE DumpHas(b, s)' <=> DumpHas(b, s)
    BY <1>5, <1>10, <2>1, DumpHasIs, DumpHasNext
  <2>2. ASSUME NEW b \in T PROVE ~DumpHas(b, s)'
    BY <1>3, <1>5, <1>11, <2>2, DumpHasNext
  <2>3. CASE s \notin W
    <3>1. ASSUME NEW b \in T PROVE ~DumpHas(b, s)  BY <1>4, <2>3, DumpHasIs
    <3>2. \A b \in Blocks : DumpHas(b, s)' <=> DumpHas(b, s)  BY <2>1, <2>2, <3>1
    <3>3. Buffers'[s].Id = Buffers[s].Id  BY <1>6, <2>3, SlotParts
    <3> QED BY <1>1, <1>9, <3>2, <3>3, HeldSame DEF OneHolder
  <2>4. CASE s \in W
    <3>1. PICK b1 \in T : s = DumpControlBlocks[b1].Buf  BY <1>4, <2>4
    <3>2. \A b \in Blocks : DumpHas(b, s) => b = b1  BY <1>1, <1>3, <1>7, <3>1 DEF OneHolder, HeldOnce
    <3>3. \A b \in Blocks : ~DumpHas(b, s)'  BY <2>1, <2>2, <3>2
    <3>4. Buffers'[s].Id = NoId  BY <1>6, <2>4, SlotParts
    <3> QED BY <1>8, <1>9, <2>4, <3>3, <3>4, HeldByNone
  <2> QED BY <2>3, <2>4
<1>13. ASSUME NEW b \in Blocks PROVE BlockSound(b)'
  <2>1. CASE b \in T  BY <1>5, <1>11, <2>1 DEF BlockSound
  <2>2. CASE b \notin T  BY <1>5, <2>2, BlockSame DEF PlaceInv, BlocksSound
  <2> QED BY <2>1, <2>2
<1>14. ASSUME NEW u \in Tables PROVE LinkSound(u)'
  <2>1. PICK x : x = DumpControlId[u]  OBVIOUS
  <2>2. x = DumpControlId'[u] /\ (x # NoDump => Block(x) \in Blocks)  BY <1>5, <2>1, BlockTyped
  <2>3. CASE x # NoDump /\ Block(x) \in T
    BY <1>3, <1>5, <1>11, <2>2, <2>3 DEF LinkSound, BlockMatches
  <2>4. CASE x # NoDump /\ Block(x) \notin T
    BY <1>5, <2>1, <2>2, <2>4, LinkSame DEF PlaceInv, DumpsLinked
  <2>5. CASE x = NoDump
    BY <2>2, <2>5 DEF LinkSound, BlockMatches
  <2> QED BY <2>3, <2>4, <2>5
<1> QED BY <1>9, <1>10, <1>12, <1>13, <1>14 DEF PlaceInv, OneHolder, BlocksSound, DumpsLinked, SharedSlots, Blocks

(* Every step keeps the invariant,                                         *)
LEMMA PlaceStep ==
  ASSUME TypeInv, PlaceInv, NoLoad, [NextStep]_vars
  PROVE  PlaceInv'
<1>1. CASE UNCHANGED vars
  <2>1. CallsPlaced'  BY <1>1 DEF vars, CallsPlaced, PlaceInv
  <2>2. UNCHANGED <<Active, Prev>> /\ UNCHANGED Next /\ UNCHANGED dumpVars /\ UNCHANGED Buffers /\ UNCHANGED op
    BY <1>1 DEF vars, regVars
  <2>3. Kept  BY <2>2, KeptIs
  <2> QED BY <2>1, <2>2, <2>3, KeptStep
<1>2. CASE NextStep
  <2>0. CallsPlaced'  BY <1>2, PlacesStep DEF PlaceInv
  <2>1. ASSUME NEW t \in Tables, GroundCommand(t) PROVE PlaceInv'
    BY <2>0, <2>1, PlaceLoadCmd, PlaceCommands, PlaceAbortCmd, PlaceDumpCmd DEF GroundCommand
  <2>2. ASSUME NEW t \in Tables, NEW a \in Apps, Call(a, t) PROVE PlaceInv'
    <3>1. CASE Update(a, t)
      <4>1. UpdateInternal(t) /\ UNCHANGED dumpVars /\ op' = op  BY <3>1 DEF Update
      <4> QED BY <2>0, <4>1, PlaceUpdate
    <3>2. ~Load(a, t, 0) /\ \A i : ~Load(a, t, i)  BY DEF Load, NoLoad
    <3> QED BY <2>0, <2>2, <3>1, <3>2, PlaceManage DEF Call
  <2>3. ASSUME NEW p \in Procs, Continue(p) PROVE PlaceInv'
    <3>1. CASE ReadBegin(p) \/ ReadEnd(p) \/ SetMetaDataFromFileHeader(p) \/ ReadFail(p)  BY <2>0, <3>1, PlaceReading
    <3>2. CASE p = TblTask /\ (AbortLoad \/ PrepareDump \/ SnapshotBegin \/ SnapshotEnd)
      BY <2>0, <3>2, PlaceAbort, PlacePrepare, PlaceSnapshot, PlaceSnapshotEnd
    <3>3. CASE LoadReserve(p) \/ LoadNoBuffer(p) \/ ValidateLoad(p) \/ LoadDrop(p) \/ LoadFinish(p) \/ LoadCommit(p)
      BY <3>3 DEF PlaceInv, CallsPlaced, LoadReserve, LoadNoBuffer, ValidateLoad, LoadDrop, LoadFinish, LoadCommit, IsAt
    <3>4. CASE ManageAgain(p) \/ ManageUpdate(p) \/ Validate(p) \/ ValidationFunc(p) \/ ValidateDone(p)
               \/ DumpToBuffer(p) \/ \E i \in Images : Modified(p, i)
      <4>1. p \in Apps /\ op[p].at # "idle"
        BY Zenon, <3>4 DEF PlaceInv, CallsPlaced, ManageAgain, ManageUpdate, Validate, ValidationFunc, ValidateDone, DumpToBuffer,
                    Modified, IsAt
      <4>2. CASE ManageUpdate(p)
        <5>1. op[p].tbl \in Tables  BY <4>1 DEF TypeInv, CallsTyped, CallTyped
        <5>2. UpdateInternal(op[p].tbl) /\ UNCHANGED dumpVars /\ Goto(p, Idle)  BY <4>2 DEF ManageUpdate
        <5>3. op'[TblTask] = op[TblTask]  BY <4>1, <5>2, GotoFacts, TaskFacts
        <5> QED BY <2>0, <5>1, <5>2, <5>3, PlaceUpdate
      <4> QED BY <2>0, <3>4, <4>1, <4>2, PlaceManage, PlaceTaken
    <3> QED BY <2>3, <3>1, <3>2, <3>3, <3>4 DEF Continue
  <2> QED BY <1>2, <2>0, <2>1, <2>2, <2>3, PlaceHk DEF NextStep
<1> QED BY <1>1, <1>2

(* and it holds at first.                                                  *)
LEMMA PlaceInit ==
  Init => PlaceInv
<1> SUFFICES ASSUME Init PROVE PlaceInv  OBVIOUS
<1>0. TypeInv  BY TypeInit
<1>1. \A p \in Procs : op[p] = Idle  BY DEF Init
<1>2. CallsPlaced  BY <1>1 DEF CallsPlaced, Idle
<1>3. AbortSound /\ ReadSound /\ DumpSound /\ \A b : ~Copying(b)
  BY <1>1, TaskFacts DEF AbortSound, ReadSound, DumpSound, Copying, Idle
<1>4. \A t \in Tables : Next[t] = NoId /\ DumpControlId[t] = NoDump  BY DEF Init
<1>5. \A b \in Blocks : DumpControlBlocks[b] = FreeBlock  BY DEF Init, Blocks
<1>6. PICK i \in Good : Buffers = [s \in Slots |-> InitBuff(s, i)]  BY DEF Init
<1>7. ASSUME NEW t \in Tables PROVE RecordSound(t)
  <2>1. FirstLoad(t) \in LocalIds /\ LastLoad(t) \in LocalIds /\ FirstLoad(t)[1] = t /\ LastLoad(t)[1] = t
    BY Sizes DEF FirstLoad, LastLoad, LocalIds
  <2>2. Active[t] = IF t \in Loaded THEN LastLoad(t) ELSE IF t \in DumpOnly THEN FirstLoad(t) ELSE NoId
    BY DEF Init
  <2>3. Prev[t] = IF t \in Reloaded THEN FirstLoad(t) ELSE NoId  BY DEF Init
  <2>4. t \in Loaded => Buffers[Slot(LastLoad(t))].Id \in {NoId, LastLoad(t)}
    <3> SUFFICES ASSUME t \in Loaded PROVE Buffers[Slot(LastLoad(t))].Id \in {NoId, LastLoad(t)}  OBVIOUS
    <3>1. PICK s \in Slots : s = Slot(LastLoad(t)) /\ s[1] = t  BY <2>1, SlotKinds
    <3>2. t \notin DumpOnly  BY TableAssumption
    <3>3. Buffers[s] = InitBuff(s, i)  BY <1>6
    <3>4. InitBuff(s, i).Id \in {NoId, LastLoad(t)}  BY <3>1, <3>2 DEF InitBuff
    <3> QED BY <3>1, <3>3, <3>4
  <2>5. t \in DumpOnly => /\ t \notin Loaded /\ t \notin Reloaded /\ Buffers[Slot(FirstLoad(t))].Id = FirstLoad(t)
    <3> SUFFICES ASSUME t \in DumpOnly
                 PROVE  t \notin Loaded /\ t \notin Reloaded /\ Buffers[Slot(FirstLoad(t))].Id = FirstLoad(t)
      OBVIOUS
    <3>1. PICK s \in Slots : s = Slot(FirstLoad(t)) /\ s[1] = t  BY <2>1, SlotKinds
    <3>3. Buffers[s] = InitBuff(s, i)  BY <1>6
    <3>4. InitBuff(s, i).Id = FirstLoad(t)  BY <3>1 DEF InitBuff
    <3> QED BY <3>1, <3>3, <3>4, TableAssumption
  <2> QED BY <1>4, <2>1, <2>2, <2>3, <2>4, <2>5 DEF RecordSound
<1>8. ASSUME NEW s \in SharedSlots PROVE HeldOnce(s)
  <2>1. \A t \in Tables : ~LoadHas(t, s)  BY <1>4, SlotParts DEF LoadHas
  <2>2. \A b \in Blocks : ~DumpHas(b, s)  BY <1>5, DumpHasIs DEF FreeBlock
  <2>3. Buffers[s].Id = NoId
    <3>1. s \in Slots /\ s[1] = Shared /\ Shared \notin DumpOnly /\ Shared \notin Loaded
      BY SlotParts, TableAssumption DEF SharedSlots
    <3> QED BY <1>6, <3>1 DEF InitBuff, FreeBuff
  <2> QED BY <2>1, <2>2, <2>3 DEF HeldOnce
<1>9. \A b \in Blocks : BlockSound(b)  BY <1>5 DEF BlockSound, FreeBlock
<1>10. \A t \in Tables : LinkSound(t)  BY <1>4 DEF LinkSound, BlockMatches
<1> QED BY <1>2, <1>3, <1>7, <1>8, <1>9, <1>10 DEF PlaceInv, RecordsSound, OneHolder, BlocksSound, DumpsLinked

(* One holder, counted.                                                    *)
LEMMA OwnedIs ==
  ASSUME TypeInv, PlaceInv
  PROVE  SharedBuffersOwned
<1>1. ASSUME NEW s \in SharedSlots, Buffers[s].Id # NoId, NEW L, NEW D,
             L = {t \in Tables : Slot(Next[t]) = s},
             D = {b \in DOMAIN DumpControlBlocks : DumpHas(b, s)}
      PROVE  Cardinality(L) + Cardinality(D) = 1
  <2>1. HeldOnce(s) /\ DOMAIN DumpControlBlocks = Blocks  BY BlockTyped DEF PlaceInv, OneHolder
  <2>2. \A x : Cardinality({x}) = 1  BY FS_Singleton
  <2>3. Cardinality({}) = 0  BY FS_EmptySet
  <2>4. CASE \E t \in Tables : LoadHas(t, s)
    <3>1. PICK t \in Tables : LoadHas(t, s)  BY <2>4
    <3>2. L = {t}  BY <1>1, <2>1, <3>1 DEF HeldOnce, LoadHas
    <3>3. D = {}  BY <1>1, <2>1, <3>1 DEF HeldOnce
    <3>4. Cardinality(L) = 1 /\ Cardinality(D) = 0  BY <2>2, <2>3, <3>2, <3>3, Zenon
    <3> QED BY <3>4
  <2>5. CASE (\E b \in Blocks : DumpHas(b, s)) /\ ~\E t \in Tables : LoadHas(t, s)
    <3>1. PICK b \in Blocks : DumpHas(b, s)  BY <2>5
    <3>2. L = {}  BY <1>1, <2>5 DEF LoadHas
    <3>3. D = {b}  BY <1>1, <2>1, <3>1 DEF HeldOnce
    <3>4. Cardinality(L) = 0 /\ Cardinality(D) = 1  BY <2>2, <2>3, <3>2, <3>3, Zenon
    <3> QED BY <3>4
  <2> QED BY <1>1, <2>1, <2>4, <2>5 DEF HeldOnce
<1> QED BY <1>1 DEF SharedBuffersOwned, SharedSlots

(* The steps by what they do to images, readers' descriptors and blocks.   *)
LEMMA Moves ==
  ASSUME TypeInv, PlaceInv, NoLoad, NextStep
  PROVE  \/ \E t \in Tables, i \in Images : LoadCmd(t, i)
         \/ \E t \in Tables : UpdateInternal(t) /\ UNCHANGED dumpVars
         \/ \E t \in Tables, a \in Apps : GetAddress(a, t) \/ ReleaseAddress(a, t) \/ Modify(a, t)
         \/ \E a \in Apps, i \in Images : Modified(a, i) /\ op[a].at = "modify" /\ op[a].tbl \in Tables
         \/ \E a \in Apps : DumpToBuffer(a) /\ op[a].at = "take" /\ op[a].tbl \in Tables /\ Owner[op[a].tbl] = a
         \/ (PrepareDump \/ SnapshotEnd \/ SendHkCmd) /\ UNCHANGED <<Active, Acc>>
         \/ ReadBegin(TblTask) \/ ReadEnd(TblTask)
         \/ /\ UNCHANGED <<Active, Acc>>
            /\ \A s \in Slots : Buffers'[s].Content = Buffers[s].Content
            /\ \/ UNCHANGED DumpControlBlocks
               \/ \E t \in Tables, select \in {"INACTIVE", "ACTIVE"} : DumpCmd(t, select)
<1>1. Buffers \in [Slots -> LoadBuff]  BY DEF TypeInv, TypeOK
<1>a. ASSUME \/ Buffers' = Buffers
             \/ \E s, v : \/ Buffers' = [Buffers EXCEPT ![s].IsValid = v]
                          \/ Buffers' = [Buffers EXCEPT ![s].ActivateReq = v]
                          \/ Buffers' = [Buffers EXCEPT ![s].Id = v]
      PROVE  \A x \in Slots : Buffers'[x].Content = Buffers[x].Content
  <2> SUFFICES ASSUME NEW x \in Slots PROVE Buffers'[x].Content = Buffers[x].Content  OBVIOUS
  <2>0. Buffers[x] \in LoadBuff /\ DOMAIN Buffers = Slots  BY <1>1
  <2>1. ASSUME NEW s, NEW v, \/ Buffers' = [Buffers EXCEPT ![s].IsValid = v]
                             \/ Buffers' = [Buffers EXCEPT ![s].ActivateReq = v]
                             \/ Buffers' = [Buffers EXCEPT ![s].Id = v]
        PROVE  Buffers'[x].Content = Buffers[x].Content
    <3>1. Buffers'[x] \in {Buffers[x], [Buffers[x] EXCEPT !.IsValid = v], [Buffers[x] EXCEPT !.ActivateReq = v],
                           [Buffers[x] EXCEPT !.Id = v]}
      BY <2>0, <2>1
    <3> QED BY <2>0, <3>1 DEF LoadBuff
  <2> QED BY <1>a, <2>1
<1> DEFINE Calm == /\ UNCHANGED <<Active, Acc>>
                   /\ \A s \in Slots : Buffers'[s].Content = Buffers[s].Content
                   /\ \/ UNCHANGED DumpControlBlocks
                      \/ \E t \in Tables, select \in {"INACTIVE", "ACTIVE"} : DumpCmd(t, select)
<1>2. ASSUME NEW t \in Tables, GroundCommand(t), ~\E i \in Images : LoadCmd(t, i) PROVE Calm
  <2>1. CASE ActivateCmd(t)
    <3>1. /\ UNCHANGED <<Active, Acc>> /\ UNCHANGED DumpControlBlocks
          /\ Buffers' = Buffers \/ Buffers' = [Buffers EXCEPT ![LoadBuf(t)].ActivateReq = TRUE]
      BY <2>1 DEF ActivateCmd, dumpVars
    <3>2. \A x \in Slots : Buffers'[x].Content = Buffers[x].Content  BY <1>a, <3>1, Zenon
    <3> QED BY <3>1, <3>2
  <2>2. ASSUME NEW v \in Vals, NEW select \in {"INACTIVE", "ACTIVE"}, ValidateCmd(t, select, v) PROVE Calm
    <3>1. /\ UNCHANGED <<Active, Acc>> /\ UNCHANGED DumpControlBlocks
          /\ Buffers' = Buffers \/ Buffers' = [Buffers EXCEPT ![SelectedBuffer(t, select)].IsValid = TRUE]
      BY <2>2 DEF ValidateCmd, dumpVars
    <3>2. \A x \in Slots : Buffers'[x].Content = Buffers[x].Content  BY <1>a, <3>1, Zenon
    <3> QED BY <3>1, <3>2
  <2>3. CASE AbortLoadCmd(t)  BY <2>3 DEF AbortLoadCmd, regVars, dumpVars
  <2>4. ASSUME NEW select \in {"INACTIVE", "ACTIVE"}, DumpCmd(t, select) PROVE Calm
    BY <2>4 DEF DumpCmd
  <2> QED BY <1>2, <2>1, <2>2, <2>3, <2>4 DEF GroundCommand
<1>3. ASSUME NEW t \in Tables, NEW a \in Apps, Call(a, t),
             ~(UpdateInternal(t) /\ UNCHANGED dumpVars), ~GetAddress(a, t), ~ReleaseAddress(a, t), ~Modify(a, t)
      PROVE  Calm
  <2>1. ~Update(a, t) /\ \A i : ~Load(a, t, i)  BY <1>3 DEF Update, Load, NoLoad
  <2>2. Manage(a, t)  BY <1>3, <2>1 DEF Call
  <2> QED BY <2>2 DEF Manage, regVars, dumpVars
<1>4. ASSUME NEW p \in Procs, Continue(p),
             ~\E t \in Tables : UpdateInternal(t) /\ UNCHANGED dumpVars,
             ~\E a \in Apps, i \in Images : Modified(a, i) /\ op[a].at = "modify" /\ op[a].tbl \in Tables,
             ~\E a \in Apps : DumpToBuffer(a) /\ op[a].at = "take" /\ op[a].tbl \in Tables /\ Owner[op[a].tbl] = a,
             ~((PrepareDump \/ SnapshotEnd) /\ UNCHANGED <<Active, Acc>>),
             ~ReadBegin(TblTask), ~ReadEnd(TblTask)
      PROVE  Calm
  <2>0. CallTyped(op[p])  BY DEF TypeInv, CallsTyped
  <2>1. ~ReadBegin(p) /\ ~ReadEnd(p)
    BY ZenonT(30), <1>4 DEF PlaceInv, CallsPlaced, ReadBegin, ReadEnd, IsAt
  <2>2. ~(LoadReserve(p) \/ LoadNoBuffer(p) \/ ValidateLoad(p) \/ LoadDrop(p) \/ LoadFinish(p) \/ LoadCommit(p))
    BY DEF PlaceInv, CallsPlaced, LoadReserve, LoadNoBuffer, ValidateLoad, LoadDrop, LoadFinish, LoadCommit, IsAt
  <2>3. ~ManageUpdate(p)
    <3> SUFFICES ASSUME ManageUpdate(p) PROVE FALSE  OBVIOUS
    <3>1. op[p].tbl \in Tables /\ UpdateInternal(op[p].tbl) /\ UNCHANGED dumpVars
      BY <2>0 DEF ManageUpdate, IsAt, CallTyped
    <3> QED BY <1>4, <3>1
  <2>4. ~DumpToBuffer(p) /\ \A i \in Images : ~Modified(p, i)
    <3>1. DumpToBuffer(p) \/ (\E i \in Images : Modified(p, i)) => p \in Apps /\ op[p].tbl \in Tables
      BY ZenonT(30), <2>0 DEF PlaceInv, CallsPlaced, DumpToBuffer, Modified, IsAt, CallTyped
    <3>2. DumpToBuffer(p) => op[p].at = "take" /\ Owner[op[p].tbl] = p
      BY DEF PlaceInv, CallsPlaced, DumpToBuffer, IsAt
    <3>3. \A i \in Images : Modified(p, i) => op[p].at = "modify"  BY DEF Modified, IsAt
    <3> QED BY <1>4, <3>1, <3>2, <3>3
  <2>5. ~PrepareDump /\ ~SnapshotEnd  BY <1>4 DEF PrepareDump, SnapshotEnd, regVars
  <2>6. CASE ReadFail(p) \/ ManageAgain(p) \/ Validate(p) \/ ValidationFunc(p)
    BY <2>6 DEF ReadFail, ManageAgain, Validate, ValidationFunc, regVars, dumpVars
  <2>10. CASE SetMetaDataFromFileHeader(p)
    <3>1. UNCHANGED <<Active, Acc>> /\ UNCHANGED DumpControlBlocks
      BY <2>10 DEF SetMetaDataFromFileHeader, dumpVars
    <3>2. \A x \in Slots : Buffers'[x].Content = Buffers[x].Content  BY <2>10, HeaderKeeps
    <3> QED BY <3>1, <3>2
  <2>7. CASE ValidateDone(p)
    <3>1. /\ UNCHANGED <<Active, Acc>> /\ UNCHANGED DumpControlBlocks
          /\ Buffers' = Buffers \/ Buffers' = [Buffers EXCEPT ![op[p].buf].IsValid = op[p].ok]
      BY <2>7 DEF ValidateDone, regVars, dumpVars
    <3>2. \A x \in Slots : Buffers'[x].Content = Buffers[x].Content  BY <1>a, <3>1, Zenon
    <3> QED BY <3>1, <3>2
  <2>8. CASE AbortLoad
    <3>1. /\ UNCHANGED <<Active, Acc>> /\ UNCHANGED DumpControlBlocks
          /\ Buffers' = Buffers \/ Buffers' = [Buffers EXCEPT ![op[TblTask].buf].Id = NoId]
      BY <2>8 DEF AbortLoad, dumpVars
    <3>2. \A x \in Slots : Buffers'[x].Content = Buffers[x].Content  BY <1>a, <3>1, Zenon
    <3> QED BY <3>1, <3>2
  <2>9. CASE SnapshotBegin
    <3>1. /\ UNCHANGED <<Active, Acc>> /\ UNCHANGED DumpControlBlocks
          /\ Buffers' = Buffers \/ \E s : Buffers' = [Buffers EXCEPT ![s].Id = NoId]
      BY <2>9 DEF SnapshotBegin, regVars, dumpVars
    <3>2. \A x \in Slots : Buffers'[x].Content = Buffers[x].Content  BY <1>a, <3>1, Zenon
    <3> QED BY <3>1, <3>2
  <2> QED BY <1>4, <2>1, <2>2, <2>3, <2>4, <2>5, <2>6, <2>7, <2>8, <2>9, <2>10 DEF Continue
<1>5. SendHkCmd => UNCHANGED <<Active, Acc>>  BY DEF SendHkCmd, regVars
<1> HIDE DEF Calm
<1>6. Calm \/ ~Calm  OBVIOUS
<1>7. CASE \E t \in Tables : GroundCommand(t)  BY <1>2, <1>7 DEF Calm
<1>8. CASE \E t \in Tables, a \in Apps : Call(a, t)  BY <1>3, <1>8 DEF Calm
<1>9. CASE \E p \in Procs : Continue(p)  BY <1>4, <1>9 DEF Calm
<1> QED BY <1>5, <1>7, <1>8, <1>9 DEF NextStep

(* The notifications of updates.                                           *)
LEMMA NoticeStep ==
  ASSUME TypeInv, PlaceInv, NoLoad, NoMissedUpdate, [NextStep]_vars
  PROVE  NoMissedUpdate'
<1>1. Acc \in [Apps -> [Tables -> AccessDesc]] /\ RecordsSound  BY DEF TypeInv, TypeOK, PlaceInv
<1>2. \A t \in Tables : Accessors[t] \subseteq Apps  BY ActorAssumption
<1>3. ASSUME UNCHANGED <<Active, Acc>> PROVE NoMissedUpdate'  BY <1>3 DEF NoMissedUpdate
<1>4. ASSUME NEW t \in Tables, Acc' \in [Apps -> [Tables -> AccessDesc]],
             \A u \in Tables : u # t => Active'[u] = Active[u],
             \A a \in Apps, u \in Tables : u # t => Acc'[a][u] = Acc[a][u],
             \A a \in Accessors[t] : Acc'[a][t].Updated \/ (Active'[t] = Active[t] /\ Acc'[a][t] = Acc[a][t])
      PROVE  NoMissedUpdate'
  BY <1>2, <1>4 DEF NoMissedUpdate
<1>5. ASSUME NEW t \in Tables, NEW A,
             Acc' = [b \in Apps |-> IF b \in A THEN [Acc[b] EXCEPT ![t].Updated = TRUE] ELSE Acc[b]]
      PROVE  /\ \A a \in Apps, u \in Tables : u # t => Acc'[a][u] = Acc[a][u]
             /\ \A a \in Apps : IF a \in A THEN Acc'[a][t].Updated ELSE Acc'[a][t] = Acc[a][t]
  <2>1. ASSUME NEW a \in Apps, NEW u \in Tables PROVE u # t => Acc'[a][u] = Acc[a][u]  BY <1>1, <1>5
  <2>2. ASSUME NEW a \in Apps, a \in A PROVE Acc'[a][t].Updated
    <3>1. Acc[a] \in [Tables -> AccessDesc] /\ Acc'[a] = [Acc[a] EXCEPT ![t].Updated = TRUE]  BY <1>1, <1>5, <2>2
    <3>2. Acc'[a][t] = [Acc[a][t] EXCEPT !.Updated = TRUE] /\ Acc[a][t] \in AccessDesc  BY <3>1
    <3> QED BY <3>2 DEF AccessDesc
  <2>3. ASSUME NEW a \in Apps, a \notin A PROVE Acc'[a][t] = Acc[a][t]  BY <1>5, <2>3
  <2> QED BY <2>1, <2>2, <2>3
<1>6. TypeInv'  BY TypeStep
<1>7. Acc' \in [Apps -> [Tables -> AccessDesc]]  BY <1>6 DEF TypeInv, TypeOK
<1>8. ASSUME NEW t \in Tables, UpdateInternal(t) PROVE NoMissedUpdate'
  <2>1. CASE UNCHANGED <<Active, Acc>>  BY <1>3, <2>1
  <2>2. CASE Committed(t)
    <3>1. Active \in [Tables -> LocalIds \cup {NoId}]  BY DEF TypeInv, TypeOK
    <3>2. \A u \in Tables : u # t => Active'[u] = Active[u]  BY <2>2, <3>1 DEF Committed
    <3>3. Acc' = [a \in Apps |-> IF a \in Accessors[t] THEN [Acc[a] EXCEPT ![t].Updated = TRUE] ELSE Acc[a]]
      BY <2>2 DEF Committed
    <3>4. /\ \A a \in Apps, u \in Tables : u # t => Acc'[a][u] = Acc[a][u]
          /\ \A a \in Accessors[t] : Acc'[a][t].Updated
      <4>1. /\ \A a \in Apps, u \in Tables : u # t => Acc'[a][u] = Acc[a][u]
            /\ \A a \in Apps : IF a \in Accessors[t] THEN Acc'[a][t].Updated ELSE Acc'[a][t] = Acc[a][t]
        BY <1>5, <3>3
      <4> QED BY <1>2, <4>1
    <3> QED BY <1>4, <1>7, <3>2, <3>4
  <2> QED BY <1>1, <1>8, <2>1, <2>2, UpdateEffect
<1>9. ASSUME NEW a \in Apps, NEW i \in Images, Modified(a, i), op[a].tbl \in Tables PROVE NoMissedUpdate'
  <2>1. PICK t \in Tables : t = op[a].tbl  BY <1>9
  <2>2. /\ UNCHANGED Active
        /\ Acc' = [b \in Apps |-> IF b \in Accessors[t] \ {a} THEN [Acc[b] EXCEPT ![t].Updated = TRUE] ELSE Acc[b]]
    BY <1>9, <2>1 DEF Modified, regVars
  <2>3. /\ \A b \in Apps, u \in Tables : u # t => Acc'[b][u] = Acc[b][u]
        /\ \A b \in Apps : IF b \in Accessors[t] \ {a} THEN Acc'[b][t].Updated ELSE Acc'[b][t] = Acc[b][t]
    BY <1>5, <2>2
  <2>4. \A b \in Accessors[t] : Acc'[b][t].Updated \/ (Active'[t] = Active[t] /\ Acc'[b][t] = Acc[b][t])
    BY <1>2, <2>2, <2>3
  <2> QED BY <1>4, <1>7, <2>2, <2>3, <2>4
<1>10. ASSUME NEW a \in Apps, NEW t \in Tables, GetAddress(a, t) PROVE NoMissedUpdate'
  <2>1. PICK x : x = Buffers[Slot(Active[t])].Id  OBVIOUS
  <2>2. x \in {NoId, Active[t]}  BY <1>1, <1>10, <2>1 DEF RecordsSound, RecordSound, GetAddress
  <2>3. /\ UNCHANGED Active /\ Acc' = [Acc EXCEPT ![a][t] = [LockFlag |-> TRUE, BufferIndex |-> x, Updated |-> FALSE]]
    BY <1>10, <2>1 DEF GetAddress, regVars
  <2>4. \A b \in Apps, u \in Tables : ~(b = a /\ u = t) => Acc'[b][u] = Acc[b][u]  BY <1>1, <2>3
  <2>5. Acc'[a][t].BufferIndex = x
    <3>1. Acc'[a][t] = [LockFlag |-> TRUE, BufferIndex |-> x, Updated |-> FALSE]  BY <1>1, <2>3
    <3> QED BY <3>1
  <2>6. NoId \notin BufferIds  BY NameAssumption
  <2> QED BY <1>2, <2>2, <2>3, <2>4, <2>5, <2>6 DEF NoMissedUpdate, BufferIds, LocalIds, SharedIds
<1>11. ASSUME NEW a \in Apps, NEW t \in Tables, ReleaseAddress(a, t) PROVE NoMissedUpdate'
  <2>1. UNCHANGED Active /\ Acc' = [Acc EXCEPT ![a][t].LockFlag = FALSE]  BY <1>11 DEF ReleaseAddress, regVars
  <2>2. \A b \in Apps, u \in Tables : Acc'[b][u].BufferIndex = Acc[b][u].BufferIndex /\ Acc'[b][u].Updated = Acc[b][u].Updated
    <3>1. \A b \in Apps, u \in Tables : Acc'[b][u] \in {Acc[b][u], [Acc[b][u] EXCEPT !.LockFlag = FALSE]}  BY <1>1, <2>1
    <3>2. \A b \in Apps, u \in Tables : Acc[b][u] \in AccessDesc  BY <1>1
    <3> QED BY <3>1, <3>2 DEF AccessDesc
  <2> QED BY <1>2, <2>1, <2>2 DEF NoMissedUpdate, BufferIds, LocalIds, SharedIds
<1>12. CASE UNCHANGED vars  BY <1>3, <1>12 DEF vars, regVars
<1>13. CASE NextStep
  <2>1. \A t \in Tables, i \in Images : LoadCmd(t, i) => UNCHANGED <<Active, Acc>>  BY DEF LoadCmd
  <2>2. \A t \in Tables, a \in Apps : Modify(a, t) => UNCHANGED <<Active, Acc>>  BY SMTT(20) DEF Modify, regVars
  <2>3. \A a \in Apps : DumpToBuffer(a) => UNCHANGED <<Active, Acc>>  BY DEF DumpToBuffer, regVars
  <2>4. ReadBegin(TblTask) \/ ReadEnd(TblTask) => UNCHANGED <<Active, Acc>>  BY DEF ReadBegin, ReadEnd, regVars
  <2> QED BY <1>3, <1>8, <1>9, <1>10, <1>11, <1>13, <2>1, <2>2, <2>3, <2>4, Moves
<1> QED BY <1>12, <1>13

(* No accessor has read an image before the first CFE_TBL_GetAddress.      *)
LEMMA NoticeInit ==
  Init => NoMissedUpdate
<1> SUFFICES ASSUME Init PROVE NoMissedUpdate  OBVIOUS
<1>1. \A a \in Apps, t \in Tables : Acc[a][t].BufferIndex = NoId  BY DEF Init
<1> QED BY <1>1, ActorAssumption, NameAssumption DEF NoMissedUpdate

(* What one step does to the image of a dump-only table, and to the        *)
(* snapshots of dump-only tables.                                          *)
ImageStep(t) ==
  \/ Buffers'[Slot(Active[t])].Content = Buffers[Slot(Active[t])].Content
  \/ Modify(Owner[t], t)
  \/ \E i \in Images : Modified(Owner[t], i) /\ op[Owner[t]].tbl = t

SnapshotStep(b) ==
  LET c == DumpControlBlocks[b]
      d == DumpControlBlocks'[b] IN
  d.State = "PERFORMED" /\ d.tbl \in DumpOnly =>
    \/ c.State = "PERFORMED" /\ d = c /\ Buffers'[d.Buf].Content = Buffers[d.Buf].Content
    \/ /\ c.State # "PERFORMED" /\ op[Owner[d.tbl]].at = "take"
       /\ Buffers'[d.Buf].Content = Buffers[Slot(Active[d.tbl])].Content

StepsFine == (\A t \in DumpOnly : ImageStep(t)) /\ \A b \in Blocks : SnapshotStep(b)

(* The record of a dump-only table never changes.                          *)
LEMMA DumpOnlyIs ==
  ASSUME TypeInv, PlaceInv, NEW t \in DumpOnly
  PROVE  /\ t \in Tables /\ Active[t] # NoId /\ Active[t] = FirstLoad(t) /\ Next[t] = NoId
         /\ Slot(Active[t]) = <<t, 0>> /\ <<t, 0>> \in Slots \ SharedSlots /\ t # Shared
         /\ Owner[t] \in Apps /\ Owner[t] \in Procs /\ Owner[t] # TblTask
<1>1. t \in Tables /\ FirstLoad(t) # NoId /\ Slot(FirstLoad(t)) = <<t, 0>>  BY FirstLoads
<1>2. Active[t] = FirstLoad(t) /\ Next[t] = NoId  BY <1>1 DEF PlaceInv, RecordsSound, RecordSound
<1>3. Owner[t] \in Apps  BY <1>1, ActorAssumption
<1> QED BY <1>1, <1>2, <1>3, SlotParts, TableAssumption, TaskFacts

(* The snapshots that are taken have shared buffers of their own.          *)
LEMMA TakenIs ==
  ASSUME TypeInv, PlaceInv, NEW b \in Blocks, DumpControlBlocks[b].State = "PERFORMED"
  PROVE  /\ DumpControlBlocks[b].Buf \in SharedSlots /\ DumpControlBlocks[b].Buf \in Slots
         /\ DumpHas(b, DumpControlBlocks[b].Buf)
BY SlotParts, DumpHasIs DEF PlaceInv, BlocksSound, BlockSound

(* A step that writes to other buffers only.                               *)
LEMMA WriteElsewhere ==
  ASSUME TypeInv, PlaceInv, NEW s0,
         \A s \in Slots : s # s0 => Buffers'[s].Content = Buffers[s].Content,
         \A t \in DumpOnly : <<t, 0>> # s0,
         \A b \in Blocks : DumpControlBlocks[b].State = "PERFORMED" => DumpControlBlocks[b].Buf # s0,
         \A b \in Blocks : DumpControlBlocks'[b].State = "PERFORMED" => DumpControlBlocks'[b] = DumpControlBlocks[b]
  PROVE  StepsFine
<1>1. ASSUME NEW t \in DumpOnly PROVE ImageStep(t)
  BY DumpOnlyIs DEF ImageStep
<1>2. ASSUME NEW b \in Blocks PROVE SnapshotStep(b)
  <2> SUFFICES ASSUME DumpControlBlocks'[b].State = "PERFORMED"
               PROVE  LET c == DumpControlBlocks[b]
                          d == DumpControlBlocks'[b] IN
                      c.State = "PERFORMED" /\ d = c /\ Buffers'[d.Buf].Content = Buffers[d.Buf].Content
    BY DEF SnapshotStep
  <2> QED BY TakenIs
<1> QED BY <1>1, <1>2 DEF StepsFine

(* A step that writes to no buffer.                                        *)
LEMMA WriteNothing ==
  ASSUME TypeInv, PlaceInv,
         \A s \in Slots : Buffers'[s].Content = Buffers[s].Content,
         \A b \in Blocks : DumpControlBlocks'[b].State = "PERFORMED" => DumpControlBlocks'[b] = DumpControlBlocks[b]
  PROVE  StepsFine
<1>1. PICK s0 : s0 = NoSlot  OBVIOUS
<1>2. s0 \notin Slots  BY <1>1, SlotParts
<1>3. \A u \in DumpOnly : <<u, 0>> # s0  BY <1>2, DumpOnlyIs
<1>4. \A b \in Blocks : DumpControlBlocks[b].State = "PERFORMED" => DumpControlBlocks[b].Buf # s0  BY <1>2, TakenIs
<1> QED BY <1>3, <1>4, WriteElsewhere

(* CFE_TBL_LoadCmd writes to a buffer that nobody has.                     *)
LEMMA StepLoadCmd ==
  ASSUME TypeInv, PlaceInv, NEW t \in Tables, NEW i \in Images, LoadCmd(t, i)
  PROVE  StepsFine
<1>1. TypeOK /\ RecordsSound /\ OneHolder /\ Buffers \in [Slots -> LoadBuff]
  BY DEF TypeInv, TypeOK, PlaceInv
<1>2. UNCHANGED DumpControlBlocks /\ t \notin DumpOnly /\ GetWorkingBuffer(t)
  BY DEF LoadCmd, dumpVars
<1>3. PICK id \in BufferIds, r \in LoadBuff : Reserved(t, id, r)  BY <1>1, <1>2, Reserves
<1>4. PICK s0 \in Slots : s0 = Slot(id)  BY IdSlots
<1>5. \A s \in Slots : s # s0 => Buffers'[s].Content = Buffers[s].Content
  BY <1>1, <1>3, <1>4 DEF Reserved
<1>6. \/ s0 \in SharedSlots /\ Buffers[s0].Id = NoId
      \/ s0 \notin SharedSlots /\ s0[1] = t
  BY <1>1, <1>3, <1>4, SlotKinds, RecordFacts DEF Reserved
<1>7. \A b \in Blocks : DumpControlBlocks[b].State = "PERFORMED" => DumpControlBlocks[b].Buf # s0
  BY <1>1, <1>6, TakenIs, FreeSlot
<1>8. \A u \in DumpOnly : <<u, 0>> # s0  BY <1>2, <1>6, DumpOnlyIs
<1> QED BY <1>2, <1>5, <1>7, <1>8, WriteElsewhere

(* CFE_TBL_UpdateInternal writes to the table's own buffer.                *)
LEMMA StepUpdate ==
  ASSUME TypeInv, PlaceInv, NEW t \in Tables, UpdateInternal(t), UNCHANGED dumpVars
  PROVE  StepsFine
<1>1. RecordsSound /\ UNCHANGED DumpControlBlocks  BY DEF PlaceInv, dumpVars
<1>2. CASE Committed(t)
  <2>1. PICK s0 : s0 = Slot(NextLocal(t))  OBVIOUS
  <2>2. s0 \notin SharedSlots /\ s0[1] = t  BY <1>1, <2>1, RecordFacts
  <2>3. t \notin DumpOnly /\ \A s \in Slots : s # s0 => Buffers'[s].Content = Buffers[s].Content
    BY <1>2, <2>1 DEF Committed
  <2>4. \A b \in Blocks : DumpControlBlocks[b].State = "PERFORMED" => DumpControlBlocks[b].Buf # s0
    BY <2>2, TakenIs
  <2>5. \A u \in DumpOnly : <<u, 0>> # s0  BY <2>2, <2>3
  <2> QED BY <1>1, <2>3, <2>4, <2>5, WriteElsewhere
<1>3. CASE UNCHANGED Buffers
  BY <1>1, <1>3, WriteNothing
<1> QED BY <1>1, <1>2, <1>3, UpdateEffect

(* The table task reads a file into the buffer of a load.                  *)
LEMMA StepRead ==
  ASSUME TypeInv, PlaceInv, ReadBegin(TblTask) \/ ReadEnd(TblTask)
  PROVE  StepsFine
<1>1. /\ Buffers \in [Slots -> LoadBuff] /\ RecordsSound /\ OneHolder /\ UNCHANGED DumpControlBlocks
      /\ op[TblTask].at \in {"open", "read"} /\ op[TblTask].tbl \in Tables /\ op[TblTask].tbl \notin DumpOnly
  BY TaskFacts DEF TypeInv, TypeOK, PlaceInv, CallsPlaced, CallsTyped, CallTyped, ReadBegin, ReadEnd, IsAt, dumpVars
<1>2. PICK t \in Tables : t = op[TblTask].tbl  BY <1>1
<1> DEFINE Fit(s0) == s0 \in Slots /\ s0[1] \in {t, Shared} /\ \A b \in Blocks : ~DumpHas(b, s0)
<1>3. ASSUME NEW W, \A s0 \in W : s0 = NoSlot \/ Fit(s0),
             \A s \in Slots : s \notin W => Buffers'[s].Content = Buffers[s].Content
      PROVE  StepsFine
  <2>1. \A b \in Blocks : DumpControlBlocks[b].State = "PERFORMED" =>
          DumpControlBlocks[b].Buf \in Slots /\ DumpControlBlocks[b].Buf \notin W
    BY <1>3, TakenIs, SlotParts
  <2>2. \A u \in DumpOnly : <<u, 0>> \in Slots /\ <<u, 0>> \notin W
    BY <1>1, <1>2, <1>3, DumpOnlyIs, SlotParts
  <2>3. ASSUME NEW u \in DumpOnly PROVE ImageStep(u)
    BY <1>3, <2>2, DumpOnlyIs DEF ImageStep
  <2>4. ASSUME NEW b \in Blocks PROVE SnapshotStep(b)
    BY <1>1, <1>3, <2>1 DEF SnapshotStep
  <2> QED BY <2>3, <2>4 DEF StepsFine
<1>6. LoadBuf(t) = NoSlot \/ Fit(LoadBuf(t))
  <2>1. LoadBuf(t) = Slot(Next[t])  BY <1>1, RecordFacts
  <2> SUFFICES ASSUME LoadBuf(t) # NoSlot PROVE Fit(LoadBuf(t))  OBVIOUS
  <2>2. PICK s0 : s0 = Slot(Next[t])  OBVIOUS
  <2>3. Next[t] # NoId  BY <2>1, SlotParts
  <2>4. s0 \in Slots /\ s0[1] \in {t, Shared}
    BY <1>1, <2>2, <2>3, RecordFacts, SlotParts
  <2>5. \A b \in Blocks : ~DumpHas(b, s0)
    <3>1. CASE s0 \in SharedSlots  BY <1>1, <2>2, <3>1 DEF OneHolder, HeldOnce, LoadHas
    <3>2. CASE s0 \notin SharedSlots
      <4>1. ASSUME NEW b \in Blocks, DumpHas(b, s0) PROVE FALSE
        <5>1. DumpControlBlocks[b].State # "FREE" /\ DumpControlBlocks[b].Buf = s0
          BY <1>1, <4>1 DEF DumpHas
        <5> QED BY <3>2, <5>1 DEF PlaceInv, BlocksSound, BlockSound
      <4> QED BY <4>1
    <3> QED BY <3>1, <3>2
  <2> QED BY <2>1, <2>2, <2>4, <2>5
<1>4. CASE ReadEnd(TblTask)
  <2>1. op[TblTask].at = "read"  BY <1>4 DEF ReadEnd, IsAt
  <2>2. PICK s0 : s0 = op[TblTask].buf  OBVIOUS
  <2>3. Fit(s0)  BY <1>2, <2>1, <2>2 DEF PlaceInv, ReadSound
  <2>4. PICK W : W = {s0, LoadBuf(t)}  OBVIOUS
  <2>5. \A s \in Slots : s \notin W => Buffers'[s].Content = Buffers[s].Content
    BY <1>2, <1>4, <2>2, <2>4 DEF ReadEnd
  <2> QED BY <1>3, <1>6, <2>3, <2>4, <2>5
<1>5. CASE ReadBegin(TblTask)
  <2>1. PICK W : W = {LoadBuf(t)}  OBVIOUS
  <2>2. \A s \in Slots : s \notin W => Buffers'[s].Content = Buffers[s].Content
    BY <1>1, <1>2, <1>5, <2>1 DEF ReadBegin
  <2> QED BY <1>3, <1>6, <2>1, <2>2
<1> QED BY <1>4, <1>5, TaskFacts

(* The owner changes a dump-only table in place.                           *)
LEMMA StepModify ==
  ASSUME TypeInv, PlaceInv, NEW a \in Apps, NEW t \in DumpOnly, Owner[t] = a,
         \/ Modify(a, t)
         \/ \E i \in Images : Modified(a, i) /\ op[a].tbl = t
  PROVE  StepsFine
<1>1. /\ Buffers \in [Slots -> LoadBuff] /\ UNCHANGED DumpControlBlocks
      /\ \E i : Buffers' = [Buffers EXCEPT ![<<t, 0>>].Content = i]
  <2>1. Slot(Active[t]) = <<t, 0>> /\ Buffers \in [Slots -> LoadBuff]  BY DumpOnlyIs DEF TypeInv, TypeOK
  <2>2. CASE Modify(a, t)  BY <2>1, <2>2 DEF Modify, dumpVars
  <2>3. CASE \E i \in Images : Modified(a, i) /\ op[a].tbl = t  BY <2>1, <2>3 DEF Modified, dumpVars
  <2> QED BY <2>1, <2>2, <2>3
<1>2. PICK i : Buffers' = [Buffers EXCEPT ![<<t, 0>>].Content = i]  BY <1>1
<1>3. \A s \in Slots : s # <<t, 0>> => Buffers'[s].Content = Buffers[s].Content  BY <1>1, <1>2
<1>4. ASSUME NEW u \in DumpOnly PROVE ImageStep(u)
  <2>1. CASE u = t  BY <2>1 DEF ImageStep
  <2>2. CASE u # t
    <3>1. Slot(Active[u]) \in Slots /\ Slot(Active[u]) = <<u, 0>>  BY DumpOnlyIs
    <3>2. Slot(Active[u]) # <<t, 0>>  BY <2>2, <3>1
    <3> QED BY <1>3, <3>1, <3>2 DEF ImageStep
  <2> QED BY <2>1, <2>2
<1>5. ASSUME NEW b \in Blocks PROVE SnapshotStep(b)
  <2>1. DumpControlBlocks[b].State = "PERFORMED" =>
          DumpControlBlocks[b].Buf \in Slots /\ DumpControlBlocks[b].Buf # <<t, 0>>
    BY TakenIs, DumpOnlyIs
  <2> QED BY <1>1, <1>3, <2>1 DEF SnapshotStep
<1> QED BY <1>4, <1>5 DEF StepsFine

(* The snapshots other than that of block b0 stay as they are when a step  *)
(* fills the buffer of b0, which b0 has for itself.                        *)
LEMMA FillOwn ==
  ASSUME TypeInv, PlaceInv, NEW b0 \in Blocks, DumpControlBlocks[b0].Buf \in SharedSlots,
         DumpHas(b0, DumpControlBlocks[b0].Buf), DumpControlBlocks[b0].State # "PERFORMED",
         NEW v, Buffers' = [Buffers EXCEPT ![DumpControlBlocks[b0].Buf].Content = v],
         DumpControlBlocks' = [DumpControlBlocks EXCEPT ![b0] = Performed(DumpControlBlocks[b0])],
         DumpControlBlocks[b0].tbl \in DumpOnly =>
           /\ op[Owner[DumpControlBlocks[b0].tbl]].at = "take"
           /\ v = Buffers[Slot(Active[DumpControlBlocks[b0].tbl])].Content
  PROVE  StepsFine
<1>1. Buffers \in [Slots -> LoadBuff] /\ OneHolder /\ DumpControlBlocks \in [Blocks -> DumpControl]
  BY BlockTyped DEF TypeInv, TypeOK, PlaceInv
<1>2. PICK c \in DumpControl : c = DumpControlBlocks[b0]  BY <1>1
<1>3. PICK new : new = Performed(c)  OBVIOUS
<1>4. new.tbl = c.tbl /\ new.Buf = c.Buf  BY <1>2, <1>3 DEF Performed, DumpControl
<1>5. DumpControlBlocks'[b0] = new /\ \A b \in Blocks : b # b0 => DumpControlBlocks'[b] = DumpControlBlocks[b]
  BY <1>1, <1>2, <1>3
<1>6. c.Buf \in Slots /\ \A s \in Slots : s # c.Buf => Buffers'[s].Content = Buffers[s].Content
  BY <1>1, <1>2, SlotParts
<1>7. Buffers'[c.Buf].Content = v
  <2>1. Buffers'[c.Buf] = [Buffers[c.Buf] EXCEPT !.Content = v] /\ Buffers[c.Buf] \in LoadBuff
    BY <1>1, <1>2, <1>6
  <2> QED BY <2>1 DEF LoadBuff
<1>8. ASSUME NEW t \in DumpOnly PROVE ImageStep(t)
  <2>1. Slot(Active[t]) \in Slots /\ Slot(Active[t]) # c.Buf  BY <1>2, DumpOnlyIs
  <2> QED BY <1>6, <2>1 DEF ImageStep
<1>9. ASSUME NEW b \in Blocks PROVE SnapshotStep(b)
  <2>1. CASE b = b0
    BY <1>2, <1>4, <1>5, <1>7, <2>1 DEF SnapshotStep
  <2>2. CASE b # b0
    <3>1. DumpControlBlocks[b].State = "PERFORMED" =>
            DumpControlBlocks[b].Buf \in Slots /\ DumpControlBlocks[b].Buf # c.Buf
      BY <1>1, <1>2, <2>2, TakenIs DEF OneHolder, HeldOnce
    <3> QED BY <1>5, <1>6, <2>2, <3>1 DEF SnapshotStep
  <2> QED BY <2>1, <2>2
<1> QED BY <1>8, <1>9 DEF StepsFine

(* CFE_TBL_DumpToBuffer copies the image that the table has now.           *)
LEMMA StepTaken ==
  ASSUME TypeInv, PlaceInv, NEW a \in Apps, DumpToBuffer(a), op[a].at = "take", op[a].tbl \in Tables,
         Owner[op[a].tbl] = a
  PROVE  StepsFine
<1>1. PICK t \in Tables : t = op[a].tbl  OBVIOUS
<1>2. PICK d : d = DumpControlId[t]  OBVIOUS
<1>3. PICK b0 : b0 = Block(d)  OBVIOUS
<1>4. PICK c : c = DumpControlBlocks[b0]  OBVIOUS
<1>5. CASE BlockMatches(d) /\ SourceThere(c)
  <2>1. b0 \in Blocks /\ c.Id = d /\ d # NoDump  BY <1>2, <1>3, <1>4, <1>5, BlockTyped DEF BlockMatches
  <2>2. c.tbl = t /\ c.State # "FREE"  BY <1>2, <1>3, <1>4, <1>5 DEF PlaceInv, DumpsLinked, LinkSound
  <2>3. BlockSound(b0)  BY <2>1 DEF PlaceInv, BlocksSound
  <2>4. c.Buf \in SharedSlots /\ c.State # "PERFORMED" /\ (t \in DumpOnly => c.Source = Active[t])
    BY <1>4, <1>5, <2>1, <2>2, <2>3 DEF BlockSound, SourceThere
  <2>5. DumpHas(b0, c.Buf)  BY <1>4, <2>1, <2>2 DEF DumpHas
  <2>6. PICK v : v = Buffers[Slot(c.Source)].Content  OBVIOUS
  <2>7. /\ Buffers' = [Buffers EXCEPT ![c.Buf].Content = v]
        /\ DumpControlBlocks' = [DumpControlBlocks EXCEPT ![b0] = Performed(c)]
    BY Zenon, <1>1, <1>2, <1>3, <1>4, <1>5, <2>6 DEF DumpToBuffer
  <2>8. c.tbl \in DumpOnly => op[Owner[c.tbl]].at = "take" /\ v = Buffers[Slot(Active[c.tbl])].Content
    BY <1>1, <2>2, <2>4, <2>6
  <2> QED BY <1>4, <2>1, <2>4, <2>5, <2>7, <2>8, FillOwn
<1>6. CASE ~(BlockMatches(d) /\ SourceThere(c))
  <2>1. UNCHANGED <<Buffers, DumpControlBlocks>>  BY <1>1, <1>2, <1>3, <1>4, <1>6 DEF DumpToBuffer
  <2> QED BY SMTT(20), <2>1, WriteNothing
<1> QED BY <1>5, <1>6

(* The table task copies tables that can be loaded only.                   *)
LEMMA StepSnapshotEnd ==
  ASSUME TypeInv, PlaceInv, SnapshotEnd
  PROVE  StepsFine
<1>1. op[TblTask].at = "copy"  BY DEF SnapshotEnd, IsAt
<1>2. PICK d \in BlockIds : d = op[TblTask].dump /\ d # NoDump  BY <1>1, BlockTyped
<1>3. PICK b0 \in Blocks : b0 = Block(d)  BY <1>2, BlockPlace
<1>4. PICK c : c = DumpControlBlocks[b0]  OBVIOUS
<1>5. /\ c.Id = d /\ c.tbl \notin DumpOnly /\ c.State = "FREE" /\ c.Buf \in SharedSlots
  BY <1>1, <1>2, <1>3, <1>4 DEF PlaceInv, DumpSound
<1>6. DumpHas(b0, c.Buf)  BY <1>1, <1>2, <1>3, <1>4, <1>5 DEF DumpHas
<1>7. PICK v : v = IF Buffers[op[TblTask].buf].Content = op[TblTask].img THEN op[TblTask].img ELSE Junk  OBVIOUS
<1>8. /\ Buffers' = [Buffers EXCEPT ![c.Buf].Content = v]
      /\ DumpControlBlocks' = [DumpControlBlocks EXCEPT ![b0] = Performed(c)]
  BY <1>2, <1>3, <1>4, <1>7 DEF SnapshotEnd
<1> QED BY <1>4, <1>5, <1>6, <1>8, FillOwn

(* CFE_TBL_PrepareDumpSnapshotBuffer writes nothing.                       *)
LEMMA StepPrepare ==
  ASSUME TypeInv, PlaceInv, PrepareDump
  PROVE  StepsFine
<1>1. /\ Buffers \in [Slots -> LoadBuff] /\ DumpControlBlocks \in [Blocks -> DumpControl]
      /\ op[TblTask].at = "dump"
  BY BlockTyped DEF TypeInv, TypeOK, PrepareDump, IsAt
<1>2. PICK b0 \in Blocks : b0 = Block(op[TblTask].dump)  BY <1>1, BlockTyped
<1>3. PICK c \in DumpControl : c = DumpControlBlocks[b0]  BY <1>1
<1>4. c.State = "FREE"  BY <1>1, <1>2, <1>3 DEF PlaceInv, DumpSound
<1>5. \A s \in Slots : Buffers'[s].Content = Buffers[s].Content
  <2>1. Buffers' = Buffers \/ \E s, v : Buffers' = [Buffers EXCEPT ![s].Id = v]  BY Zenon DEF PrepareDump
  <2>2. ASSUME NEW s, NEW v, Buffers' = [Buffers EXCEPT ![s].Id = v], NEW x \in Slots
        PROVE  Buffers'[x].Content = Buffers[x].Content
    <3>1. Buffers'[x] \in {Buffers[x], [Buffers[x] EXCEPT !.Id = v]} /\ Buffers[x] \in LoadBuff
      BY SMTT(20), <1>1, <2>2
    <3> QED BY <3>1 DEF LoadBuff
  <2> QED BY <2>1, <2>2
<1>6. \/ DumpControlBlocks' = DumpControlBlocks
      \/ \E s : \E z \in {"FREE", "PENDING"} : DumpControlBlocks' = [DumpControlBlocks EXCEPT ![b0] = [c EXCEPT !.Buf = s, !.State = z]]
  <2>1. CASE FreeShared = {}  BY <2>1 DEF PrepareDump
  <2>2. CASE FreeShared # {}
    <3>1. PICK s : s = Slot(NextShared)  OBVIOUS
    <3>2. PICK z : z = IF op[TblTask].tbl \in DumpOnly THEN "PENDING" ELSE c.State  OBVIOUS
    <3>3. DumpControlBlocks' = [DumpControlBlocks EXCEPT ![b0].Buf = s, ![b0].State = z]
      BY <1>2, <1>3, <2>2, <3>1, <3>2 DEF PrepareDump
    <3>4. z \in {"FREE", "PENDING"}  BY <1>4, <3>2
    <3> QED BY <1>1, <1>3, <3>3, <3>4
  <2> QED BY <2>1, <2>2
<1>7. \A b \in Blocks : DumpControlBlocks'[b].State = "PERFORMED" => DumpControlBlocks'[b] = DumpControlBlocks[b]
  <2>1. CASE DumpControlBlocks' = DumpControlBlocks  BY <2>1
  <2>2. CASE DumpControlBlocks' # DumpControlBlocks
    <3>1. PICK s : \E z \in {"FREE", "PENDING"} :
            DumpControlBlocks' = [DumpControlBlocks EXCEPT ![b0] = [c EXCEPT !.Buf = s, !.State = z]]
      BY <1>6, <2>2
    <3>2. PICK z \in {"FREE", "PENDING"} : DumpControlBlocks' = [DumpControlBlocks EXCEPT ![b0] = [c EXCEPT !.Buf = s, !.State = z]]
      BY <3>1
    <3>3. [c EXCEPT !.Buf = s, !.State = z].State = z  BY DEF DumpControl
    <3> QED BY SMTT(20), <1>1, <3>2, <3>3
  <2> QED BY <2>1, <2>2
<1> QED BY <1>5, <1>7, WriteNothing

(* Every step changes dump-only tables and their snapshots as it should.   *)
LEMMA StepFine ==
  ASSUME TypeInv, PlaceInv, NoLoad, NextStep
  PROVE  StepsFine
<1>1. CASE \E t \in Tables, i \in Images : LoadCmd(t, i)  BY <1>1, StepLoadCmd
<1>2. CASE \E t \in Tables : UpdateInternal(t) /\ UNCHANGED dumpVars  BY <1>2, StepUpdate
<1>3. ASSUME NEW t \in Tables, NEW a \in Apps, GetAddress(a, t) \/ ReleaseAddress(a, t) \/ Modify(a, t)
      PROVE  StepsFine
  <2>1. CASE GetAddress(a, t) \/ ReleaseAddress(a, t)
    <3>1. UNCHANGED Buffers /\ UNCHANGED DumpControlBlocks  BY <2>1 DEF GetAddress, ReleaseAddress, dumpVars
    <3> QED BY <3>1, WriteNothing
  <2>2. CASE Modify(a, t)
    <3>1. t \in DumpOnly /\ Owner[t] = a  BY <2>2 DEF Modify
    <3> QED BY <2>2, <3>1, StepModify
  <2> QED BY <1>3, <2>1, <2>2
<1>4. ASSUME NEW a \in Apps, NEW i \in Images, Modified(a, i), op[a].at = "modify", op[a].tbl \in Tables
      PROVE  StepsFine
  <2>1. PICK t \in DumpOnly : t = op[a].tbl /\ Owner[t] = a
    BY <1>4, TaskFacts DEF PlaceInv, CallsPlaced
  <2> QED BY <1>4, <2>1, StepModify
<1>5. CASE \E a \in Apps : DumpToBuffer(a) /\ op[a].at = "take" /\ op[a].tbl \in Tables /\ Owner[op[a].tbl] = a
  BY <1>5, StepTaken
<1>6. CASE SendHkCmd
  <2>1. Buffers \in [Slots -> LoadBuff] /\ DOMAIN DumpControlBlocks = Blocks
    BY BlockTyped DEF TypeInv, TypeOK
  <2>2. PICK W : Buffers' = [s \in Slots |-> IF s \in W THEN [Buffers[s] EXCEPT !.Id = NoId] ELSE Buffers[s]]
    BY <1>6 DEF SendHkCmd
  <2>3. \A s \in Slots : Buffers'[s].Content = Buffers[s].Content  BY <2>1, <2>2 DEF LoadBuff
  <2>4. DumpControlBlocks' = [b \in DOMAIN DumpControlBlocks |-> IF b \in Taken THEN FreeBlock ELSE DumpControlBlocks[b]]
    BY <1>6 DEF SendHkCmd
  <2>5. \A b \in Blocks : DumpControlBlocks'[b].State = "PERFORMED" => DumpControlBlocks'[b] = DumpControlBlocks[b]
    BY <2>1, <2>4 DEF FreeBlock
  <2> QED BY <2>3, <2>5, WriteNothing
<1>7. ASSUME NEW t \in Tables, NEW select \in {"INACTIVE", "ACTIVE"}, DumpCmd(t, select),
             \A s \in Slots : Buffers'[s].Content = Buffers[s].Content
      PROVE  StepsFine
  <2>1. DumpControlBlocks \in [Blocks -> DumpControl]  BY BlockTyped
  <2>2. PICK e : e = Buffers[SelectedBuffer(t, select)].Id  OBVIOUS
  <2>3. PICK x : x = NextBlock  OBVIOUS
  <2>4. PICK r : r = [FreeBlock EXCEPT !.Id = x, !.tbl = t, !.Source = e]  OBVIOUS
  <2>5. DumpControlBlocks' = [DumpControlBlocks EXCEPT ![Block(x)] = r]
    BY <1>7, <2>2, <2>3, <2>4 DEF DumpCmd, AllocateDumpCtrlBlock
  <2>6. r.State = "FREE"  BY <2>4 DEF FreeBlock
  <2>7. \A b \in Blocks : DumpControlBlocks'[b].State = "PERFORMED" => DumpControlBlocks'[b] = DumpControlBlocks[b]
    BY <2>1, <2>5, <2>6
  <2> QED BY <1>7, <2>7, WriteNothing
<1>8. CASE UNCHANGED DumpControlBlocks /\ \A s \in Slots : Buffers'[s].Content = Buffers[s].Content
  BY <1>8, WriteNothing
<1> QED BY <1>1, <1>2, <1>3, <1>4, <1>5, <1>6, <1>7, <1>8, Moves, StepRead, StepPrepare, StepSnapshotEnd

(* An owner that is changing its table goes on with it.                    *)
LEMMA ModifyStays ==
  ASSUME TypeInv, PlaceInv, NextStep, NEW a \in Apps, op[a].at = "modify", \A i \in Images : ~Modified(a, i)
  PROVE  op'[a] = op[a]
<1>1. ASSUME NEW p \in Procs, NEW o, Goto(p, o), p # a PROVE op'[a] = op[a]
  BY <1>1, GotoFacts, TaskFacts
<1>2. ASSUME NEW t \in Tables, GroundCommand(t) PROVE op'[a] = op[a]
  BY <1>1, <1>2, TaskFacts DEF GroundCommand, LoadCmd, ValidateCmd, ActivateCmd, AbortLoadCmd, DumpCmd
<1>3. ASSUME NEW t \in Tables, NEW b \in Apps, Call(b, t) PROVE op'[a] = op[a]
  <2>1. op[b].at = "idle" => b # a  OBVIOUS
  <2>2. CASE Update(b, t) \/ GetAddress(b, t) \/ ReleaseAddress(b, t)
    BY <2>2 DEF Update, GetAddress, ReleaseAddress
  <2>3. CASE (\E i \in Images : Load(b, t, i)) \/ Manage(b, t) \/ Modify(b, t)
    BY <1>1, <2>1, <2>3, TaskFacts DEF Load, Manage, ManageNext, Modify, IsAt
  <2> QED BY <1>3, <2>2, <2>3 DEF Call
<1>4. ASSUME NEW p \in Procs, Continue(p) PROVE op'[a] = op[a]
  <2>1. CASE p = TblTask /\ (AbortLoad \/ PrepareDump \/ SnapshotBegin \/ SnapshotEnd)
    <3>1. \E o : Goto(TblTask, o)  BY <2>1 DEF AbortLoad, PrepareDump, SnapshotBegin, SnapshotEnd, Goto
    <3> QED BY SMTT(20), <1>1, <3>1, TaskFacts
  <2>2. CASE ~(p = TblTask /\ (AbortLoad \/ PrepareDump \/ SnapshotBegin \/ SnapshotEnd))
    <3>1. p # a
      BY Zenon, <1>4, <2>2 DEF Continue, ReadBegin, ReadEnd, SetMetaDataFromFileHeader, ReadFail, LoadReserve, LoadNoBuffer, ValidateLoad, LoadDrop, LoadFinish,
           LoadCommit, ManageAgain, ManageUpdate, Validate, ValidationFunc, ValidateDone, DumpToBuffer, IsAt
    <3>2. \E o : Goto(p, o)
      <4>1. CASE ReadBegin(p) \/ ReadEnd(p) \/ SetMetaDataFromFileHeader(p) \/ ReadFail(p)
        BY <4>1 DEF ReadBegin, ReadEnd, SetMetaDataFromFileHeader, ReadFail, Goto
      <4>2. CASE LoadReserve(p) \/ LoadNoBuffer(p) \/ ValidateLoad(p) \/ LoadDrop(p) \/ LoadFinish(p) \/ LoadCommit(p)
        BY <4>2 DEF LoadReserve, LoadNoBuffer, ValidateLoad, LoadDrop, LoadFinish, LoadCommit, Goto
      <4>3. CASE ManageAgain(p) \/ ManageUpdate(p) \/ Validate(p) \/ ValidationFunc(p) \/ ValidateDone(p)
        BY <4>3 DEF ManageAgain, ManageNext, ManageUpdate, Validate, ValidationFunc, ValidateDone, Goto
      <4>4. CASE DumpToBuffer(p) \/ \E i \in Images : Modified(p, i)  BY Zenon, <4>4 DEF DumpToBuffer, Modified, Goto
      <4> QED BY <1>4, <2>2, <4>1, <4>2, <4>3, <4>4 DEF Continue
    <3> QED BY <1>1, <3>1, <3>2
  <2> QED BY <2>1, <2>2
<1>5. SendHkCmd => op' = op  BY DEF SendHkCmd
<1> QED BY <1>2, <1>3, <1>4, <1>5 DEF NextStep

(* The images of dump-only tables, and their snapshots.                    *)
LEMMA ImagesStep ==
  ASSUME TypeInv, PlaceInv, NoLoad, ImagesWhole, [NextStep]_vars
  PROVE  ImagesWhole'
<1>1. CASE UNCHANGED vars  BY <1>1 DEF vars, regVars, ImagesWhole
<1>2. CASE NextStep
  <2> SUFFICES ASSUME NEW t \in DumpOnly
               PROVE  \/ Buffers'[Slot(Active'[t])].Content \in Images
                      \/ op'[Owner[t]].at = "modify" /\ op'[Owner[t]].tbl = t
    BY DEF ImagesWhole
  <2>1. PICK a \in Apps : a = Owner[t]  BY DumpOnlyIs
  <2>2. Slot(Active[t]) = <<t, 0>> /\ <<t, 0>> \in Slots /\ Active[t] = FirstLoad(t) /\ t \in Tables  BY DumpOnlyIs
  <2>3. Active'[t] = Active[t]
    <3>1. PlaceInv'  BY <1>2, PlaceStep
    <3> QED BY <2>2, <3>1 DEF PlaceInv, RecordsSound, RecordSound, FirstLoad
  <2>4. Buffers \in [Slots -> LoadBuff]  BY DEF TypeInv, TypeOK
  <2>5. ASSUME NEW i \in Images, Modified(a, i), op[a].tbl = t PROVE Buffers'[<<t, 0>>].Content \in Images
    <3>1. Buffers' = [Buffers EXCEPT ![<<t, 0>>].Content = i]  BY <2>2, <2>5 DEF Modified
    <3>2. Buffers'[<<t, 0>>] = [Buffers[<<t, 0>>] EXCEPT !.Content = i] /\ Buffers[<<t, 0>>] \in LoadBuff
      BY <2>2, <2>4, <3>1
    <3> QED BY <3>2 DEF LoadBuff
  <2>6. ASSUME Modify(a, t) PROVE op'[a].at = "modify" /\ op'[a].tbl = t
    <3>1. Goto(a, [Idle EXCEPT !.at = "modify", !.tbl = t])  BY <2>6 DEF Modify
    <3>2. op'[a] = [Idle EXCEPT !.at = "modify", !.tbl = t]  BY <3>1, GotoFacts, TaskFacts
    <3> QED BY <3>2 DEF Idle
  <2>7. CASE Buffers'[<<t, 0>>].Content = Buffers[<<t, 0>>].Content
    <3>1. CASE Buffers[<<t, 0>>].Content \in Images  BY <2>2, <2>3, <2>7, <3>1
    <3>2. CASE op[a].at = "modify" /\ op[a].tbl = t
      BY <1>2, <2>1, <2>2, <2>3, <2>5, <3>2, ModifyStays
    <3> QED BY <2>1, <2>2, <3>1, <3>2 DEF ImagesWhole
  <2>8. ImageStep(t)  BY <1>2, StepFine DEF StepsFine
  <2> QED BY <2>1, <2>2, <2>3, <2>5, <2>6, <2>7, <2>8 DEF ImageStep
<1> QED BY <1>1, <1>2

(* A snapshot is the image that the table had when its owner took it, and  *)
(* stays so.                                                               *)
LEMMA SnapshotKept ==
  ASSUME TypeInv, PlaceInv, NoLoad, ImagesWhole, SnapshotsWhole, NextStep, NEW b \in Blocks,
         DumpControlBlocks'[b].State = "PERFORMED", DumpControlBlocks'[b].tbl \in DumpOnly
  PROVE  LET d == DumpControlBlocks'[b] IN
         /\ Buffers'[d.Buf].Content \in Images
         /\ Buffers'[d.Buf].Content = Buffers[IF DumpControlBlocks[b].State = "PERFORMED" THEN d.Buf
                                              ELSE Slot(Active[d.tbl])].Content
<1>1. SnapshotStep(b)  BY StepFine DEF StepsFine
<1>2. PICK d : d = DumpControlBlocks'[b]  OBVIOUS
<1>3. CASE /\ DumpControlBlocks[b].State = "PERFORMED" /\ d = DumpControlBlocks[b]
           /\ Buffers'[d.Buf].Content = Buffers[d.Buf].Content
  BY <1>2, <1>3 DEF SnapshotsWhole
<1>4. CASE /\ DumpControlBlocks[b].State # "PERFORMED" /\ op[Owner[d.tbl]].at = "take"
           /\ Buffers'[d.Buf].Content = Buffers[Slot(Active[d.tbl])].Content
  <2>1. Buffers[Slot(Active[d.tbl])].Content \in Images  BY <1>2, <1>4 DEF ImagesWhole
  <2> QED BY <1>2, <1>4, <2>1
<1> QED BY <1>1, <1>2, <1>3, <1>4 DEF SnapshotStep

(* Snapshots are whole images,                                             *)
LEMMA SnapshotsStep ==
  ASSUME TypeInv, PlaceInv, NoLoad, ImagesWhole, SnapshotsWhole, [NextStep]_vars
  PROVE  SnapshotsWhole'
<1>1. CASE UNCHANGED vars  BY <1>1 DEF vars, dumpVars, SnapshotsWhole, Blocks
<1>2. CASE NextStep  BY <1>2, SnapshotKept DEF SnapshotsWhole, Blocks
<1> QED BY <1>1, <1>2

(* also at first.                                                          *)
LEMMA ImagesInit ==
  Init => ImagesWhole /\ SnapshotsWhole
<1> SUFFICES ASSUME Init PROVE ImagesWhole /\ SnapshotsWhole  OBVIOUS
<1>1. PICK i \in Good : Buffers = [s \in Slots |-> InitBuff(s, i)]  BY DEF Init
<1>2. TypeInv /\ PlaceInv /\ i \in Images  BY TypeInit, PlaceInit, BufferAssumption
<1>3. ASSUME NEW t \in DumpOnly PROVE Buffers[Slot(Active[t])].Content \in Images
  <2>1. Slot(Active[t]) = <<t, 0>> /\ <<t, 0>> \in Slots /\ Slot(FirstLoad(t)) = <<t, 0>>  BY <1>2, DumpOnlyIs
  <2>2. InitBuff(<<t, 0>>, i).Content = i  BY <2>1 DEF InitBuff
  <2>3. Buffers[<<t, 0>>] = InitBuff(<<t, 0>>, i)  BY <1>1, <2>1
  <2> QED BY <1>2, <2>1, <2>2, <2>3
<1>4. \A b \in Blocks : DumpControlBlocks[b].State = "FREE"  BY DEF Init, Blocks, FreeBlock
<1> QED BY <1>3, <1>4 DEF ImagesWhole, SnapshotsWhole

(* Whatever the tasks do, the records, buffers, descriptors and blocks of  *)
(* the table registry keep their types: among others, every ID that        *)
(* CFE_TBL_GetNextLocalBufferId and CFE_TBL_FindNextSharedBufferId give    *)
(* out names a buffer.                                                     *)
THEOREM TypeCorrect ==
  Spec => []TypeOK
<1>1. TypeInv /\ [NextStep]_vars => TypeInv'  BY TypeStep
<1>2. TypeInv => TypeOK  BY DEF TypeInv
<1> QED BY TypeInit, <1>1, <1>2, PTL DEF Spec

(* The inductive invariant of the load buffers and dump control blocks.    *)
THEOREM PlaceCorrect ==
  ASSUME NoLoad
  PROVE  Spec => []PlaceInv
<1>1. Init => TypeInv /\ PlaceInv  BY TypeInit, PlaceInit
<1>2. TypeInv /\ PlaceInv /\ [NextStep]_vars => TypeInv' /\ PlaceInv'  BY TypeStep, PlaceStep
<1> QED BY <1>1, <1>2, PTL DEF Spec

(* SharedBuffersOwned: while no application calls CFE_TBL_Load, which      *)
(* works without the lock, a shared load buffer in use belongs to exactly  *)
(* one load in progress or to exactly one dump, for any numbers of tables, *)
(* buffers and applications (CFE_TBL_GetWorkingBuffer,                     *)
(* CFE_TBL_AbortLoadCmd, CFE_TBL_UpdateInternal, CFE_TBL_SendHkCmd).       *)
THEOREM BuffersOwned ==
  ASSUME NoLoad
  PROVE  Spec => []SharedBuffersOwned
<1>1. Init => TypeInv /\ PlaceInv  BY TypeInit, PlaceInit
<1>2. TypeInv /\ PlaceInv /\ [NextStep]_vars => TypeInv' /\ PlaceInv'  BY TypeStep, PlaceStep
<1>3. TypeInv /\ PlaceInv => SharedBuffersOwned  BY OwnedIs
<1> QED BY <1>1, <1>2, <1>3, PTL DEF Spec

(* NoMissedUpdate: an accessor that has read an older image than the       *)
(* active one is told so at its next CFE_TBL_GetAddress                    *)
(* (CFE_TBL_NotifyTblUsersOfUpdate), under the same condition.             *)
THEOREM UpdatesNoticed ==
  ASSUME NoLoad
  PROVE  Spec => []NoMissedUpdate
<1> DEFINE IInv == TypeInv /\ PlaceInv /\ NoMissedUpdate
<1>1. Init => IInv  BY TypeInit, PlaceInit, NoticeInit
<1>2. IInv /\ [NextStep]_vars => IInv'  BY TypeStep, PlaceStep, NoticeStep
<1> QED BY <1>1, <1>2, PTL DEF Spec

(* DumpTrue: the snapshot of a dump-only table is an image that the table  *)
(* had at one moment, and nothing writes to its buffer until housekeeping  *)
(* has written it to the file (CFE_TBL_DumpToBuffer, CFE_TBL_SendHkCmd),   *)
(* under the same condition.                                               *)
THEOREM DumpsTrue ==
  ASSUME NoLoad
  PROVE  Spec => DumpTrue
<1> DEFINE IInv == TypeInv /\ OwnInv
           Step == \A b \in DOMAIN DumpControlBlocks :
                     LET c == DumpControlBlocks'[b] IN
                     c.State = "PERFORMED" /\ c.tbl \in DumpOnly =>
                       Buffers'[c.Buf].Content \in Images \cap
                         {Buffers[IF DumpControlBlocks[b].State = "PERFORMED" THEN c.Buf
                                  ELSE Slot(Active[c.tbl])].Content}
<1>1. Init => IInv  BY TypeInit, PlaceInit, ImagesInit DEF OwnInv
<1>2. IInv /\ [NextStep]_vars => IInv'  BY TypeStep, PlaceStep, ImagesStep, SnapshotsStep DEF OwnInv
<1>3. IInv /\ [NextStep]_vars => [Step]_vars
  <2> SUFFICES ASSUME IInv, NextStep PROVE Step  OBVIOUS
  <2> SUFFICES ASSUME NEW b \in Blocks, DumpControlBlocks'[b].State = "PERFORMED", DumpControlBlocks'[b].tbl \in DumpOnly
               PROVE  LET c == DumpControlBlocks'[b] IN
                      Buffers'[c.Buf].Content \in Images \cap
                         {Buffers[IF DumpControlBlocks[b].State = "PERFORMED" THEN c.Buf
                                  ELSE Slot(Active[c.tbl])].Content}
    BY BlockTyped
  <2> QED BY SnapshotKept DEF OwnInv
<1>4. Spec => [][Step]_vars  BY <1>1, <1>2, <1>3, PTL DEF Spec
<1> QED BY <1>4 DEF DumpTrue

(* What a table has is its own, or a shared buffer that nobody else has.   *)
LEMMA HasOwn ==
  ASSUME TypeInv, PlaceInv, NEW t \in Tables, NEW s, Has(t, s)
  PROVE  /\ s \in Slots
         /\ s \notin SharedSlots => s[1] = t
         /\ s \in SharedSlots => LoadHas(t, s) /\ \A b \in Blocks : ~DumpHas(b, s)
         /\ \A u \in Tables : Has(u, s) => u = t
<1>1. RecordsSound /\ OneHolder  BY DEF PlaceInv
<1>2. ASSUME NEW u \in Tables, Has(u, s)
      PROVE  s \in Slots /\ (s \notin SharedSlots => s[1] = u) /\ (s \in SharedSlots => LoadHas(u, s))
  <2>1. CASE Active[u] # NoId /\ s = Slot(Active[u])  BY <1>1, <2>1, RecordFacts
  <2>2. CASE Next[u] # NoId /\ s = Slot(Next[u])  BY <1>1, <2>2, RecordFacts DEF LoadHas
  <2> QED BY <1>2, <2>1, <2>2 DEF Has
<1>3. s \in SharedSlots => (\A b \in Blocks : ~DumpHas(b, s)) /\ \A u \in Tables : LoadHas(u, s) => u = t
  BY <1>1, <1>2 DEF OneHolder, HeldOnce
<1> QED BY <1>2, <1>3

(* The active image is not the one in progress.                            *)
LEMMA NextNotActive ==
  ASSUME TypeInv, PlaceInv, NEW t \in Tables, Next[t] # NoId, Active[t] # NoId
  PROVE  Slot(Next[t]) # Slot(Active[t])
BY RecordFacts DEF PlaceInv, RecordsSound, RecordSound

(* A step that leaves the flags of buffers, the records and the requests   *)
(* alone, and starts neither a load nor a validation.                      *)
SameFlags(s) == Buffers'[s].IsValid = Buffers[s].IsValid /\ Buffers'[s].ActivateReq = Buffers[s].ActivateReq

Steady ==
  /\ UNCHANGED <<Active, Prev, Next, PendingVal>>
  /\ \A s \in Slots : SameFlags(s)
  /\ \A v \in Vals : Val'[v] = Val[v] \/ (Val[v].State = "PERFORMED" /\ Val'[v].State = "FREE")
  /\ \A a \in Apps : \/ op'[a] = op[a]
                     \/ /\ op[a].at \notin {"run", "verdict"} /\ op'[a].at \notin {"run", "verdict"}
                        /\ op'[a].at = "update" => UpdatePending(op'[a].tbl)
  /\ \/ op'[TblTask] = op[TblTask]
     \/ op[TblTask].at # "idle" \/ \A v \in Vals : Val[v].State = "FREE"
  /\ op'[TblTask].at # "abort" \/ op'[TblTask] = op[TblTask]
  /\ op'[TblTask].at \in {"open", "read", "header"} =>
       \/ op'[TblTask] = op[TblTask]
       \/ /\ op[TblTask].at \in {"open", "read"} /\ op'[TblTask].tbl = op[TblTask].tbl
          /\ op'[TblTask].at = "read" => op'[TblTask].buf = Slot(Next[op[TblTask].tbl])

(* The buffers of tables that can be loaded keep their images, unless the  *)
(* table task reads a file into the load.                                  *)
Untouched ==
  \A t \in Tables \ DumpOnly : \A s \in Slots : Has(t, s) \/ s[1] = t =>
    \/ Buffers'[s].Content = Buffers[s].Content
    \/ Reading(TblTask) /\ op[TblTask].tbl = t /\ s = Slot(Next[t])

(* What a write to one field of a buffer leaves alone.                     *)
LEMMA Fields ==
  ASSUME TypeInv, NEW x \in Slots
  PROVE  /\ Buffers' = Buffers => SameFlags(x) /\ Buffers'[x].Content = Buffers[x].Content
         /\ \A s, v : Buffers' = [Buffers EXCEPT ![s].Id = v] =>
              SameFlags(x) /\ Buffers'[x].Content = Buffers[x].Content
         /\ \A s, v : Buffers' = [Buffers EXCEPT ![s].Content = v] =>
              SameFlags(x) /\ (x # s => Buffers'[x].Content = Buffers[x].Content)
         /\ \A s, v : Buffers' = [Buffers EXCEPT ![s].IsValid = v] =>
              /\ Buffers'[x].ActivateReq = Buffers[x].ActivateReq /\ Buffers'[x].Content = Buffers[x].Content
              /\ Buffers'[x].IsValid = IF x = s THEN v ELSE Buffers[x].IsValid
         /\ \A s, v : Buffers' = [Buffers EXCEPT ![s].ActivateReq = v] =>
              /\ Buffers'[x].IsValid = Buffers[x].IsValid /\ Buffers'[x].Content = Buffers[x].Content
              /\ Buffers'[x].ActivateReq = IF x = s THEN v ELSE Buffers[x].ActivateReq
<1>1. Buffers \in [Slots -> LoadBuff] /\ Buffers[x] \in LoadBuff  BY DEF TypeInv, TypeOK
<1>2. ASSUME NEW s, NEW v, Buffers' = [Buffers EXCEPT ![s].Id = v]
      PROVE  SameFlags(x) /\ Buffers'[x].Content = Buffers[x].Content
  <2>1. Buffers'[x] \in {Buffers[x], [Buffers[x] EXCEPT !.Id = v]}  BY <1>1, <1>2
  <2> QED BY <1>1, <2>1 DEF LoadBuff, SameFlags
<1>3. ASSUME NEW s, NEW v, Buffers' = [Buffers EXCEPT ![s].Content = v]
      PROVE  SameFlags(x) /\ (x # s => Buffers'[x].Content = Buffers[x].Content)
  <2>1. Buffers'[x] = IF x = s THEN [Buffers[x] EXCEPT !.Content = v] ELSE Buffers[x]  BY <1>1, <1>3
  <2> QED BY <1>1, <2>1 DEF LoadBuff, SameFlags
<1>4. ASSUME NEW s, NEW v, Buffers' = [Buffers EXCEPT ![s].IsValid = v]
      PROVE  /\ Buffers'[x].ActivateReq = Buffers[x].ActivateReq /\ Buffers'[x].Content = Buffers[x].Content
             /\ Buffers'[x].IsValid = IF x = s THEN v ELSE Buffers[x].IsValid
  <2>1. Buffers'[x] = IF x = s THEN [Buffers[x] EXCEPT !.IsValid = v] ELSE Buffers[x]  BY <1>1, <1>4
  <2> QED BY <1>1, <2>1 DEF LoadBuff
<1>5. ASSUME NEW s, NEW v, Buffers' = [Buffers EXCEPT ![s].ActivateReq = v]
      PROVE  /\ Buffers'[x].IsValid = Buffers[x].IsValid /\ Buffers'[x].Content = Buffers[x].Content
             /\ Buffers'[x].ActivateReq = IF x = s THEN v ELSE Buffers[x].ActivateReq
  <2>1. Buffers'[x] = IF x = s THEN [Buffers[x] EXCEPT !.ActivateReq = v] ELSE Buffers[x]  BY <1>1, <1>5
  <2> QED BY <1>1, <2>1 DEF LoadBuff
<1>6. Buffers' = Buffers => SameFlags(x) /\ Buffers'[x].Content = Buffers[x].Content  BY DEF SameFlags
<1> QED BY <1>2, <1>3, <1>4, <1>5, <1>6

(* The parts of a steady step: the records and the calls.                  *)
SteadyData ==
  /\ UNCHANGED <<Active, Prev, Next, PendingVal>>
  /\ \A s \in Slots : SameFlags(s)
  /\ \A v \in Vals : Val'[v] = Val[v] \/ (Val[v].State = "PERFORMED" /\ Val'[v].State = "FREE")
SteadyOwner(a) ==
  \/ op'[a] = op[a]
  \/ /\ op[a].at \notin {"run", "verdict"} /\ op'[a].at \notin {"run", "verdict"}
     /\ op'[a].at = "update" => UpdatePending(op'[a].tbl)
SteadyTask ==
  \/ op'[TblTask] = op[TblTask]
  \/ /\ op[TblTask].at # "idle" \/ \A v \in Vals : Val[v].State = "FREE"
     /\ op'[TblTask].at \notin {"abort", "open"}
     /\ op'[TblTask].at \in {"read", "header"} =>
          /\ op[TblTask].at \in {"open", "read"} /\ op'[TblTask].tbl = op[TblTask].tbl
          /\ op'[TblTask].at = "read" => op'[TblTask].buf = Slot(Next[op[TblTask].tbl])

(* A step is steady by what it does to data, owners and the table task.    *)
LEMMA SteadyIs ==
  SteadyData /\ (\A a \in Apps : SteadyOwner(a)) /\ SteadyTask => Steady
BY DEF Steady, SteadyData, SteadyOwner, SteadyTask

(* A step of an application,                                               *)
LEMMA SteadyByApp ==
  ASSUME TypeInv, SteadyData, NEW p \in Apps, NEW o, Goto(p, o),
         op[p].at \notin {"run", "verdict"}, o.at \notin {"run", "verdict"},
         o.at = "update" => UpdatePending(o.tbl)
  PROVE  Steady
<1>1. op'[TblTask] = op[TblTask] /\ op'[p] = o /\ \A a \in Apps : a # p => op'[a] = op[a]
  BY GotoFacts, TaskFacts
<1>2. \A a \in Apps : SteadyOwner(a)  BY <1>1 DEF SteadyOwner
<1>3. SteadyTask  BY <1>1 DEF SteadyTask
<1> QED BY <1>2, <1>3, SteadyIs

(* one of the table task,                                                  *)
LEMMA SteadyByTask ==
  ASSUME TypeInv, SteadyData, NEW o, Goto(TblTask, o),
         op[TblTask].at # "idle" \/ \A v \in Vals : Val[v].State = "FREE",
         o.at \notin {"abort", "open"},
         o.at \in {"read", "header"} =>
           /\ op[TblTask].at \in {"open", "read"} /\ o.tbl = op[TblTask].tbl
           /\ o.at = "read" => o.buf = Slot(Next[op[TblTask].tbl])
  PROVE  Steady
<1>1. op'[TblTask] = o /\ \A a \in Apps : op'[a] = op[a]  BY GotoFacts, TaskFacts
<1>2. \A a \in Apps : SteadyOwner(a)  BY <1>1 DEF SteadyOwner
<1>3. SteadyTask  BY <1>1 DEF SteadyTask
<1> QED BY <1>2, <1>3, SteadyIs

(* and one that moves no task.                                             *)
LEMMA SteadyByNone ==
  ASSUME SteadyData, op' = op
  PROVE  Steady
<1>1. (\A a \in Apps : SteadyOwner(a)) /\ SteadyTask  BY DEF SteadyOwner, SteadyTask
<1> QED BY <1>1, SteadyIs

(* A step that writes to a buffer of no such table, or to none.            *)
LEMMA WriteNotHad ==
  ASSUME TypeInv, PlaceInv, NEW s0, \A s \in Slots : s # s0 => Buffers'[s].Content = Buffers[s].Content,
         \/ s0 \notin SharedSlots /\ s0[1] \in DumpOnly
         \/ \E b \in Blocks : s0 \in SharedSlots /\ DumpHas(b, s0)
  PROVE  Untouched
<1> SUFFICES ASSUME NEW t \in Tables \ DumpOnly, Has(t, s0) \/ s0[1] = t PROVE FALSE  BY DEF Untouched
<1>1. s0 \in SharedSlots => s0[1] # t  BY SlotParts
<1> QED BY <1>1, HasOwn

(* A step that writes no image.                                            *)
LEMMA WriteNone ==
  ASSUME TypeInv, PlaceInv, \A s \in Slots : Buffers'[s].Content = Buffers[s].Content
  PROVE  Untouched
BY DEF Untouched

(* CFE_TBL_Manage looks at the status of the table, and goes to an update  *)
(* only if one is due.                                                     *)
LEMMA SteadyManage ==
  ASSUME TypeInv, PlaceInv, NEW a \in Apps, ManageAgain(a) \/ \E t \in Tables : Manage(a, t)
  PROVE  Steady /\ Untouched
<1>1. Buffers' = Buffers /\ SteadyData
  <2>1. UNCHANGED <<Active, Prev, Next, PendingVal>> /\ Buffers' = Buffers /\ Val' = Val  BY DEF ManageAgain, Manage, regVars
  <2> QED BY <2>1, Fields DEF SteadyData
<1>2. op[a].at \notin {"run", "verdict"}  BY DEF ManageAgain, Manage, IsAt
<1>3. ASSUME NEW t, TableStatus(t) # "SUCCESS", ManageNext(a, t)
      PROVE  \E o : Goto(a, o) /\ o.at \notin {"run", "verdict"} /\ (o.at = "update" => UpdatePending(o.tbl))
  <2>1. TableStatus(t) \in {"VALIDATION_PENDING", "UPDATE_PENDING", "DUMP_PENDING"}
        /\ (TableStatus(t) = "UPDATE_PENDING" => UpdatePending(t))
    BY <1>3 DEF TableStatus
  <2>2. PICK w : w = CASE TableStatus(t) = "VALIDATION_PENDING" -> "validate"
                       [] TableStatus(t) = "UPDATE_PENDING" -> "update"
                       [] TableStatus(t) = "DUMP_PENDING" -> "take"
    OBVIOUS
  <2>3. w \in {"validate", "update", "take"} /\ (w = "update" => UpdatePending(t))  BY <2>1, <2>2
  <2>4. PICK o : o = [Idle EXCEPT !.tbl = t, !.at = w]  OBVIOUS
  <2>5. o.at = w /\ o.tbl = t  BY <2>4 DEF Idle
  <2>6. Goto(a, o)  BY <1>3, <2>2, <2>4 DEF ManageNext
  <2> QED BY <2>3, <2>5, <2>6
<1>4. \E o : Goto(a, o) /\ o.at \notin {"run", "verdict"} /\ (o.at = "update" => UpdatePending(o.tbl))
  <2>1. CASE \E t \in Tables : Manage(a, t)  BY <1>3, <2>1 DEF Manage
  <2>2. CASE ManageAgain(a) /\ TableStatus(op[a].tbl) # "SUCCESS"  BY <1>3, <2>2 DEF ManageAgain
  <2>3. CASE ManageAgain(a) /\ TableStatus(op[a].tbl) = "SUCCESS"
    <3>1. Goto(a, Idle) /\ Idle.at = "idle"  BY <2>3 DEF ManageAgain, Idle
    <3> QED BY <3>1
  <2> QED BY <2>1, <2>2, <2>3
<1>5. Steady  BY <1>1, <1>2, <1>4, SteadyByApp
<1>6. Untouched  BY <1>1, WriteNone
<1> QED BY <1>5, <1>6

(* CFE_TBL_GetAddress, CFE_TBL_ReleaseAddress, and the owner of a dump-    *)
(* only table beginning to change it.                                      *)
LEMMA SteadyUser ==
  ASSUME TypeInv, PlaceInv, NEW a \in Apps, NEW t \in Tables,
         GetAddress(a, t) \/ ReleaseAddress(a, t) \/ Modify(a, t)
  PROVE  Steady /\ Untouched
<1>1. CASE GetAddress(a, t) \/ ReleaseAddress(a, t)
  <2>1. UNCHANGED <<Active, Prev, Next, PendingVal>> /\ Buffers' = Buffers /\ Val' = Val /\ op' = op
    BY <1>1 DEF GetAddress, ReleaseAddress, regVars
  <2>2. SteadyData  BY <2>1, Fields DEF SteadyData
  <2> QED BY <2>1, <2>2, SteadyByNone, WriteNone
<1>2. CASE Modify(a, t)
  <2>1. t \in DumpOnly /\ op[a].at = "idle"  BY <1>2 DEF Modify, IsAt
  <2>2. Slot(Active[t]) = <<t, 0>> /\ <<t, 0>> \notin SharedSlots  BY <2>1, DumpOnlyIs
  <2>3. /\ UNCHANGED <<Active, Prev, Next, PendingVal>> /\ Val' = Val
        /\ Buffers' = [Buffers EXCEPT ![<<t, 0>>].Content = Junk]
        /\ Goto(a, [Idle EXCEPT !.at = "modify", !.tbl = t])
    BY <1>2, <2>2 DEF Modify, regVars
  <2>4. SteadyData  BY <2>3, Fields DEF SteadyData
  <2>5. [Idle EXCEPT !.at = "modify", !.tbl = t].at = "modify"  BY DEF Idle
  <2>6. Steady  BY <2>1, <2>3, <2>4, <2>5, SteadyByApp
  <2>7. \A s \in Slots : s # <<t, 0>> => Buffers'[s].Content = Buffers[s].Content  BY <2>3, Fields
  <2>8. <<t, 0>>[1] \in DumpOnly  BY <2>1
  <2>9. Untouched  BY <2>2, <2>7, <2>8, WriteNotHad
  <2> QED BY <2>6, <2>9
<1> QED BY <1>1, <1>2

(* CFE_TBL_DumpToBuffer, and CFE_TBL_Modified of a dump-only table.        *)
LEMMA SteadyOwnerSteps ==
  ASSUME TypeInv, PlaceInv, NEW a \in Apps, DumpToBuffer(a) \/ \E i \in Images : Modified(a, i)
  PROVE  Steady /\ Untouched
<1>1. Idle.at = "idle" /\ CallTyped(op[a])  BY TaskFacts DEF Idle, TypeInv, CallsTyped
<1>2. CASE \E i \in Images : Modified(a, i)
  <2>1. PICK t \in DumpOnly : t = op[a].tbl /\ op[a].at = "modify"
    BY <1>1, <1>2, TaskFacts DEF PlaceInv, CallsPlaced, Modified, IsAt
  <2>2. Slot(Active[t]) = <<t, 0>> /\ <<t, 0>> \notin SharedSlots  BY DumpOnlyIs
  <2>3. PICK i \in Images : Modified(a, i)  BY <1>2
  <2>4. /\ UNCHANGED <<Active, Prev, Next, PendingVal>> /\ Val' = Val
        /\ Buffers' = [Buffers EXCEPT ![<<t, 0>>].Content = i]
        /\ Goto(a, Idle)
    BY <2>1, <2>2, <2>3 DEF Modified, regVars
  <2>5. SteadyData  BY <2>4, Fields DEF SteadyData
  <2>6. Steady  BY <1>1, <2>1, <2>4, <2>5, SteadyByApp
  <2>7. \A s \in Slots : s # <<t, 0>> => Buffers'[s].Content = Buffers[s].Content  BY <2>4, Fields
  <2>8. <<t, 0>>[1] \in DumpOnly  BY <2>1
  <2>9. Untouched  BY <2>2, <2>7, <2>8, WriteNotHad
  <2> QED BY <2>6, <2>9
<1>3. CASE DumpToBuffer(a)
  <2>1. op[a].at = "take" /\ op[a].tbl \in Tables  BY Zenon, <1>1, <1>3 DEF DumpToBuffer, IsAt, CallTyped
  <2>2. PICK t \in Tables : t = op[a].tbl  BY <2>1
  <2>3. PICK d : d = DumpControlId[t]  OBVIOUS
  <2>4. PICK b0 : b0 = Block(d)  OBVIOUS
  <2>5. UNCHANGED <<Active, Prev, Next, PendingVal>> /\ Val' = Val /\ Goto(a, Idle)  BY Zenon, <1>3 DEF DumpToBuffer, regVars
  <2>6. CASE BlockMatches(d) /\ SourceThere(DumpControlBlocks[b0])
    <3>1. b0 \in Blocks /\ DumpControlBlocks[b0].Id # NoDump
      BY <2>3, <2>4, <2>6, BlockTyped DEF BlockMatches
    <3>2. DumpControlBlocks[b0].State # "FREE"
      BY <2>3, <2>4, <2>6 DEF PlaceInv, DumpsLinked, LinkSound
    <3>3. PICK s0 : s0 = DumpControlBlocks[b0].Buf  OBVIOUS
    <3>4. s0 \in SharedSlots /\ DumpHas(b0, s0)
      BY <3>1, <3>2, <3>3 DEF PlaceInv, BlocksSound, BlockSound, DumpHas
    <3>5. PICK v : v = Buffers[Slot(DumpControlBlocks[b0].Source)].Content  OBVIOUS
    <3>6. Buffers' = [Buffers EXCEPT ![s0].Content = v]
      BY Zenon, <1>3, <2>2, <2>3, <2>4, <2>6, <3>3, <3>5 DEF DumpToBuffer
    <3>7. SteadyData  BY <2>5, <3>6, Fields DEF SteadyData
    <3>8. \A s \in Slots : s # s0 => Buffers'[s].Content = Buffers[s].Content  BY <3>6, Fields
    <3>9. Untouched  BY <3>1, <3>4, <3>8, WriteNotHad
    <3> QED BY <1>1, <2>1, <2>5, <3>7, <3>9, SteadyByApp
  <2>7. CASE ~(BlockMatches(d) /\ SourceThere(DumpControlBlocks[b0]))
    <3>1. Buffers' = Buffers  BY Zenon, <1>3, <2>2, <2>3, <2>4, <2>7 DEF DumpToBuffer
    <3>2. SteadyData  BY <2>5, <3>1, Fields DEF SteadyData
    <3> QED BY <1>1, <2>1, <2>5, <3>1, <3>2, SteadyByApp, WriteNone
  <2> QED BY <2>6, <2>7
<1> QED BY <1>2, <1>3

(* CFE_TBL_SendHkCmd reports the results of validations and writes         *)
(* finished snapshots.                                                     *)
LEMMA SteadyHk ==
  ASSUME TypeInv, PlaceInv, SendHkCmd
  PROVE  Steady /\ Untouched
<1>1. Buffers \in [Slots -> LoadBuff] /\ Val \in [Vals -> ValResult]  BY DEF TypeInv, TypeOK
<1>2. PICK W : Buffers' = [s \in Slots |-> IF s \in W THEN [Buffers[s] EXCEPT !.Id = NoId] ELSE Buffers[s]]
  BY DEF SendHkCmd
<1>3. \A s \in Slots : SameFlags(s) /\ Buffers'[s].Content = Buffers[s].Content
  BY <1>1, <1>2 DEF LoadBuff, SameFlags
<1>4. UNCHANGED <<Active, Prev, Next, PendingVal>> /\ op' = op /\ GetHkData  BY DEF SendHkCmd, regVars
<1>5. \A v \in Vals : Val'[v] = Val[v] \/ (Val[v].State = "PERFORMED" /\ Val'[v].State = "FREE")
  BY <1>1, <1>4 DEF GetHkData, Finished
<1>6. SteadyData  BY <1>3, <1>4, <1>5 DEF SteadyData
<1> QED BY <1>3, <1>4, <1>6, SteadyByNone, WriteNone

(* CFE_TBL_DumpCmd.                                                        *)
LEMMA SteadyDump ==
  ASSUME TypeInv, PlaceInv, Waits, NEW t \in Tables, NEW select \in {"INACTIVE", "ACTIVE"}, DumpCmd(t, select)
  PROVE  Steady /\ Untouched
<1>1. UNCHANGED <<Active, Prev, PendingVal>> /\ Buffers' = Buffers /\ Val' = Val  BY DEF DumpCmd
<1>2. Next' = Next  BY RecordFacts DEF PlaceInv, DumpCmd, AllocateDumpCtrlBlock
<1>3. SteadyData  BY <1>1, <1>2, Fields DEF SteadyData
<1>4. \A v \in Vals : Val[v].State = "FREE"  BY DEF DumpCmd, Command, Waits
<1>5. PICK o : o = [Idle EXCEPT !.at = "dump", !.tbl = t, !.dump = NextBlock]  OBVIOUS
<1>6. Goto(TblTask, o) /\ o.at = "dump"  BY <1>5 DEF DumpCmd, Idle
<1>7. Steady  BY <1>3, <1>4, <1>6, SteadyByTask
<1> QED BY <1>1, <1>7, Fields, WriteNone

(* CFE_TBL_PrepareDumpSnapshotBuffer.                                      *)
LEMMA SteadyPrepare ==
  ASSUME TypeInv, PlaceInv, PrepareDump \/ SnapshotBegin
  PROVE  Steady /\ Untouched
<1>1. /\ UNCHANGED <<Active, Prev, Next, PendingVal>> /\ Val' = Val
      /\ Buffers' = Buffers \/ \E s, v : Buffers' = [Buffers EXCEPT ![s].Id = v]
  BY DEF PrepareDump, SnapshotBegin, regVars
<1>2. SteadyData
  <2>1. ASSUME NEW x \in Slots PROVE SameFlags(x)
    <3>1. CASE Buffers' = Buffers  BY <3>1, Fields
    <3>2. CASE \E s, v : Buffers' = [Buffers EXCEPT ![s].Id = v]
      <4>1. PICK s, v : Buffers' = [Buffers EXCEPT ![s].Id = v]  BY <3>2
      <4> QED BY <4>1, Fields
    <3> QED BY <1>1, <3>1, <3>2
  <2> QED BY <1>1, <2>1 DEF SteadyData
<1>3. \A x \in Slots : Buffers'[x].Content = Buffers[x].Content
  <2>1. CASE Buffers' = Buffers  BY <2>1
  <2>2. CASE \E s, v : Buffers' = [Buffers EXCEPT ![s].Id = v]
    <3>1. PICK s, v : Buffers' = [Buffers EXCEPT ![s].Id = v]  BY <2>2
    <3> QED BY <3>1, Fields
  <2> QED BY <1>1, <2>1, <2>2
<1>4. op[TblTask] \in Op /\ op[TblTask].at \in {"dump", "snapshot"}
  BY TaskFacts DEF TypeInv, TypeOK, PrepareDump, SnapshotBegin, IsAt
<1>5. \E o : Goto(TblTask, o) /\ o.at \in {"idle", "snapshot", "copy"}
  <2>1. Idle.at = "idle"  BY DEF Idle
  <2>2. [op[TblTask] EXCEPT !.at = "snapshot"].at = "snapshot"
        /\ \A b, i : [op[TblTask] EXCEPT !.at = "copy", !.buf = b, !.img = i].at = "copy"
    BY <1>4 DEF Op
  <2>3. CASE PrepareDump
    <3>1. Goto(TblTask, Idle) \/ Goto(TblTask, [op[TblTask] EXCEPT !.at = "snapshot"])  BY SMTT(20), <2>3 DEF PrepareDump
    <3> QED BY Zenon, <2>1, <2>2, <3>1
  <2>4. CASE SnapshotBegin
    <3>1. CASE Goto(TblTask, Idle)  BY <2>1, <3>1
    <3>2. CASE \E b, i : Goto(TblTask, [op[TblTask] EXCEPT !.at = "copy", !.buf = b, !.img = i])
      <4>1. PICK b, i : Goto(TblTask, [op[TblTask] EXCEPT !.at = "copy", !.buf = b, !.img = i])  BY <3>2
      <4>2. PICK o : o = [op[TblTask] EXCEPT !.at = "copy", !.buf = b, !.img = i]  OBVIOUS
      <4>3. Goto(TblTask, o) /\ o.at = "copy"  BY <2>2, <4>1, <4>2
      <4> QED BY <4>3
    <3> QED BY ZenonT(30), <2>4, <3>1, <3>2 DEF SnapshotBegin
  <2> QED BY <2>3, <2>4
<1>6. Steady  BY <1>2, <1>4, <1>5, SteadyByTask
<1> QED BY <1>3, <1>6, WriteNone

(* The snapshot is taken into a shared buffer that no load has.            *)
LEMMA SteadySnapshotEnd ==
  ASSUME TypeInv, PlaceInv, SnapshotEnd
  PROVE  Steady /\ Untouched
<1>1. op[TblTask].at = "copy"  BY DEF SnapshotEnd, IsAt
<1>2. PICK b0 \in Blocks : b0 = Block(op[TblTask].dump)  BY <1>1, BlockTyped
<1>3. PICK s0 : s0 = DumpControlBlocks[b0].Buf  OBVIOUS
<1>4. s0 \in SharedSlots /\ DumpControlBlocks[b0].Id # NoDump
  BY <1>1, <1>2, <1>3, BlockTyped DEF PlaceInv, DumpSound
<1>5. DumpHas(b0, s0)  BY <1>1, <1>2, <1>3, <1>4 DEF DumpHas
<1>6. /\ UNCHANGED <<Active, Prev, Next, PendingVal>> /\ Val' = Val /\ Goto(TblTask, Idle)
      /\ \E v : Buffers' = [Buffers EXCEPT ![s0].Content = v]
  BY <1>2, <1>3 DEF SnapshotEnd, regVars
<1>7. SteadyData  BY ZenonT(30), <1>6, Fields DEF SteadyData
<1>8. Idle.at = "idle"  BY DEF Idle
<1>9. \A s \in Slots : s # s0 => Buffers'[s].Content = Buffers[s].Content  BY <1>6, Fields
<1>10. Untouched  BY <1>4, <1>5, <1>9, WriteNotHad
<1> QED BY <1>1, <1>6, <1>7, <1>8, <1>10, SteadyByTask

(* While the table task reads a file, the load is in progress.             *)
ReadsLoad ==
  LET o == op[TblTask] IN o.at = "read" => Next[o.tbl] # NoId /\ o.buf = Slot(Next[o.tbl])

(* A file is read into the buffer of its own load.                         *)
LEMMA SteadyRead ==
  ASSUME TypeInv, PlaceInv, ReadsLoad, ReadBegin(TblTask) \/ ReadEnd(TblTask) \/ ReadFail(TblTask)
  PROVE  Steady /\ Untouched
<1>1. /\ op[TblTask].at \in {"open", "read"} /\ op[TblTask].tbl \in Tables \ DumpOnly /\ op[TblTask].cmd
      /\ op[TblTask] \in Op
  BY TaskFacts DEF TypeInv, TypeOK, PlaceInv, CallsPlaced, CallsTyped, CallTyped, ReadBegin, ReadEnd, ReadFail, IsAt
<1>2. PICK t \in Tables \ DumpOnly : t = op[TblTask].tbl  BY <1>1
<1>3. LoadBuf(t) = Slot(Next[t]) /\ (ClearStale(t) => Next' = Next)  BY RecordFacts DEF PlaceInv
<1>4. Idle.at = "idle"  BY DEF Idle
<1>5. ASSUME NEW s0, s0 = Slot(Next[t]), s0 # NoSlot, s0 \in Slots,
             s0 \notin SharedSlots => s0[1] = t, s0 \in SharedSlots => LoadHas(t, s0),
             NEW v, Buffers' = [Buffers EXCEPT ![s0].Content = v]
      PROVE  Untouched
  <2>1. \A s \in Slots : s # s0 => Buffers'[s].Content = Buffers[s].Content  BY <1>5, Fields
  <2>2. ASSUME NEW u \in Tables \ DumpOnly, Has(u, s0) \/ s0[1] = u PROVE u = t
    <3>1. s0 \in SharedSlots => LoadHas(u, s0) /\ s0[1] # u  BY ZenonT(30), <2>2, HasOwn, SlotParts
    <3>2. s0 \notin SharedSlots => s0[1] = u  BY <2>2, HasOwn
    <3>3. HeldOnce(s0) \/ s0 \notin SharedSlots  BY DEF PlaceInv, OneHolder
    <3> QED BY <1>5, <3>1, <3>2, <3>3 DEF HeldOnce
  <2>3. ASSUME NEW u \in Tables \ DumpOnly, NEW s \in Slots, Has(u, s) \/ s[1] = u, Buffers'[s].Content # Buffers[s].Content
        PROVE  Reading(TblTask) /\ op[TblTask].tbl = u /\ s = Slot(Next[u])
    <3>1. s = s0  BY <2>1, <2>3
    <3>2. u = t  BY <2>2, <2>3, <3>1
    <3> QED BY <1>1, <1>2, <1>5, <3>1, <3>2 DEF Reading
  <2> QED BY <2>3 DEF Untouched
<1>6. CASE ReadFail(TblTask)
  <2>1. /\ UNCHANGED <<Active, Prev, Next, PendingVal>> /\ Val' = Val /\ Buffers' = Buffers /\ Goto(TblTask, Idle)
    BY <1>1, <1>6 DEF ReadFail, regVars
  <2>2. SteadyData  BY <2>1, Fields DEF SteadyData
  <2> QED BY <1>1, <1>4, <2>1, <2>2, SteadyByTask, WriteNone
<1>7. CASE ReadBegin(TblTask)
  <2>0. op[TblTask].at = "open"  BY <1>7 DEF ReadBegin, IsAt
  <2>1. UNCHANGED <<Active, Prev, Next, PendingVal>> /\ Val' = Val  BY <1>2, <1>3, <1>7 DEF ReadBegin
  <2>2. CASE LoadBuf(t) = NoSlot
    <3>1. Buffers' = Buffers /\ Goto(TblTask, Idle)  BY <1>1, <1>2, <1>7, <2>2 DEF ReadBegin
    <3>2. SteadyData  BY <2>1, <3>1, Fields DEF SteadyData
    <3> QED BY <1>1, <1>4, <3>1, <3>2, SteadyByTask, WriteNone
  <2>3. CASE LoadBuf(t) # NoSlot
    <3>1. PICK s0 : s0 = Slot(Next[t])  OBVIOUS
    <3>2. Next[t] # NoId  BY <1>3, <2>3, SlotParts
    <3>3. Has(t, s0)  BY <3>1, <3>2 DEF Has
    <3>4. s0 \in Slots /\ (s0 \notin SharedSlots => s0[1] = t) /\ (s0 \in SharedSlots => LoadHas(t, s0))
      BY <3>3, HasOwn
    <3>5. /\ Buffers' = [Buffers EXCEPT ![s0].Content = Junk]
          /\ Goto(TblTask, [op[TblTask] EXCEPT !.at = "read", !.buf = s0])
      BY <1>2, <1>3, <1>7, <2>3, <3>1 DEF ReadBegin
    <3>6. PICK o : o = [op[TblTask] EXCEPT !.at = "read", !.buf = s0]  OBVIOUS
    <3>7. o.at = "read" /\ o.buf = s0 /\ o.tbl = op[TblTask].tbl  BY <1>1, <3>6 DEF Op
    <3>8. SteadyData  BY <2>1, <3>5, Fields DEF SteadyData
    <3>9. Steady  BY <1>2, <2>0, <3>1, <3>5, <3>6, <3>7, <3>8, SteadyByTask
    <3> QED BY <1>3, <1>5, <2>3, <3>1, <3>4, <3>5, <3>9
  <2> QED BY <2>2, <2>3
<1>8. CASE ReadEnd(TblTask)
  <2>1. op[TblTask].at = "read" /\ UNCHANGED <<Active, Prev, Next, PendingVal>> /\ Val' = Val
    BY <1>2, <1>3, <1>8 DEF ReadEnd, IsAt
  <2>2. PICK s0 : s0 = op[TblTask].buf  OBVIOUS
  <2>3. s0 = Slot(Next[t]) /\ Has(t, s0)  BY <1>2, <2>1, <2>2 DEF ReadsLoad, Has
  <2>4. s0 \in Slots /\ s0 # NoSlot /\ (s0 \notin SharedSlots => s0[1] = t) /\ (s0 \in SharedSlots => LoadHas(t, s0))
    BY <2>3, HasOwn, SlotParts
  <2>5. Buffers' = [Buffers EXCEPT ![s0].Content = op[TblTask].img]
    <3>1. Buffers' = [s \in Slots |-> IF s = s0 THEN [Buffers[s] EXCEPT !.Content = op[TblTask].img] ELSE Buffers[s]]
      BY <1>2, <1>3, <1>8, <2>2, <2>3 DEF ReadEnd
    <3> QED BY <2>4, <3>1 DEF TypeInv, TypeOK
  <2>6. SteadyData  BY <2>1, <2>5, Fields DEF SteadyData
  <2>7. PICK o : o = [op[TblTask] EXCEPT !.at = "header", !.buf = NoSlot]  OBVIOUS
  <2>8. o.at = "header" /\ o.tbl = op[TblTask].tbl  BY <1>1, <2>7 DEF Op
  <2>9. Goto(TblTask, o)  BY <1>1, <1>8, <2>7 DEF ReadEnd
  <2>10. Steady  BY <2>1, <2>6, <2>8, <2>9, SteadyByTask
  <2> QED BY <1>5, <2>3, <2>4, <2>5, <2>10
<1> QED BY <1>6, <1>7, <1>8

(* The file's header sets the flags of the load's buffer, and no other.    *)
LEMMA HeaderEffect ==
  ASSUME TypeInv, PlaceInv, SetMetaDataFromFileHeader(TblTask)
  PROVE  LET t == op[TblTask].tbl IN
         /\ t \in Tables \ DumpOnly /\ op[TblTask].at = "header" /\ Goto(TblTask, Idle)
         /\ UNCHANGED <<Active, Prev, Next, PendingVal>> /\ Val' = Val
         /\ \A s \in Slots : /\ Buffers'[s].Content = Buffers[s].Content
                             /\ s # Slot(Next[t]) => SameFlags(s)
                             /\ s = Slot(Next[t]) => Buffers'[s].IsValid = (t \notin Validated)
<1>1. /\ op[TblTask].at = "header" /\ op[TblTask].tbl \in Tables \ DumpOnly /\ op[TblTask].cmd
  BY TaskFacts DEF TypeInv, PlaceInv, CallsPlaced, CallsTyped, CallTyped, SetMetaDataFromFileHeader, IsAt
<1>2. PICK t \in Tables \ DumpOnly : t = op[TblTask].tbl  BY <1>1
<1>3. LoadBuf(t) = Slot(Next[t]) /\ (ClearStale(t) => Next' = Next)  BY RecordFacts DEF PlaceInv
<1>4. UNCHANGED <<Active, Prev, Next, PendingVal>> /\ Val' = Val /\ Goto(TblTask, Idle)
  BY <1>1, <1>2, <1>3 DEF SetMetaDataFromFileHeader
<1>5. PICK s0, v : s0 = Slot(Next[t]) /\ v = (t \notin Validated)  OBVIOUS
<1>6. Buffers' = IF s0 = NoSlot THEN Buffers ELSE [Buffers EXCEPT ![s0].IsValid = v, ![s0].ActivateReq = FALSE]
  BY <1>2, <1>3, <1>5 DEF SetMetaDataFromFileHeader
<1>7. Buffers \in [Slots -> LoadBuff] /\ NoSlot \notin Slots  BY SlotParts DEF TypeInv, TypeOK
<1>8. ASSUME NEW s \in Slots
      PROVE  /\ Buffers'[s].Content = Buffers[s].Content
             /\ s # s0 => SameFlags(s)
             /\ s = s0 => Buffers'[s].IsValid = v
  <2>1. CASE s # s0  BY <1>6, <1>7, <2>1 DEF SameFlags
  <2>2. CASE s = s0
    <3>1. Buffers'[s] = [Buffers[s] EXCEPT !.IsValid = v, !.ActivateReq = FALSE]  BY <1>6, <1>7, <2>2
    <3> QED BY <1>7, <2>2, <3>1 DEF LoadBuff
  <2> QED BY <2>1, <2>2
<1> QED BY <1>1, <1>2, <1>4, <1>5, <1>8

(* The steps that change what a load is worth.                             *)
Ruling(a) ==
  /\ op[a].tbl \in Tables /\ Owner[op[a].tbl] = a
  /\ ManageUpdate(a) \/ Validate(a) \/ ValidationFunc(a) \/ ValidateDone(a)
Quiet == Steady /\ Untouched

(* Ground commands that rule on a load are load, activation and            *)
(* validation.                                                             *)
LEMMA WaitCommands ==
  ASSUME TypeInv, PlaceInv, Waits, NEW t \in Tables, GroundCommand(t)
  PROVE  \/ Quiet \/ ActivateCmd(t)
         \/ \E i \in Images : LoadCmd(t, i)
         \/ \E v \in Vals, select \in {"INACTIVE", "ACTIVE"} : ValidateCmd(t, select, v)
<1>1. ~AbortLoadCmd(t)  BY DEF AbortLoadCmd, Command, Waits
<1>2. ASSUME NEW select \in {"INACTIVE", "ACTIVE"}, DumpCmd(t, select) PROVE Quiet
  BY <1>2, SteadyDump DEF Quiet
<1> QED BY <1>1, <1>2 DEF GroundCommand

(* The calls of applications begin nothing of that kind.                   *)
LEMMA WaitCalls ==
  ASSUME TypeInv, PlaceInv, Waits, NEW t \in Tables, NEW a \in Apps, Call(a, t)
  PROVE  Quiet
<1>1. ~Update(a, t) /\ \A i \in Images : ~Load(a, t, i)  BY DEF Update, Load, Waits
<1>2. CASE Manage(a, t)  BY <1>2, SteadyManage DEF Quiet
<1>3. CASE GetAddress(a, t) \/ ReleaseAddress(a, t) \/ Modify(a, t)  BY <1>3, SteadyUser DEF Quiet
<1> QED BY <1>1, <1>2, <1>3 DEF Call

(* Of the steps within calls, those of the owner do: validation and        *)
(* update.                                                                 *)
LEMMA WaitContinue ==
  ASSUME TypeInv, PlaceInv, ReadsLoad, op[TblTask].at # "abort", NEW p \in Procs, Continue(p)
  PROVE  Quiet \/ SetMetaDataFromFileHeader(TblTask) \/ \E a \in Apps : Ruling(a)
<1>0. CallTyped(op[p])  BY DEF TypeInv, CallsTyped
<1>1. CASE ReadBegin(p) \/ ReadEnd(p) \/ ReadFail(p)
  <2>1. p = TblTask  BY <1>1 DEF PlaceInv, CallsPlaced, ReadBegin, ReadEnd, ReadFail, IsAt
  <2> QED BY <1>1, <2>1, SteadyRead DEF Quiet
<1>7. CASE SetMetaDataFromFileHeader(p)
  <2>1. op[p].at = "header"  BY <1>7 DEF SetMetaDataFromFileHeader, IsAt
  <2>2. p = TblTask  BY <2>1 DEF PlaceInv, CallsPlaced
  <2> QED BY <1>7, <2>2
<1>2. ~(LoadReserve(p) \/ LoadNoBuffer(p) \/ ValidateLoad(p) \/ LoadDrop(p) \/ LoadFinish(p) \/ LoadCommit(p))
  BY DEF PlaceInv, CallsPlaced, LoadReserve, LoadNoBuffer, ValidateLoad, LoadDrop, LoadFinish, LoadCommit, IsAt
<1>3. ~AbortLoad  BY DEF AbortLoad, IsAt
<1>4. CASE ManageUpdate(p) \/ Validate(p) \/ ValidationFunc(p) \/ ValidateDone(p)
  <2>1. op[p].at \in {"update", "validate", "run", "verdict"}
    BY <1>4 DEF ManageUpdate, Validate, ValidationFunc, ValidateDone, IsAt
  <2>2. p \in Apps /\ op[p].tbl \in Tables /\ Owner[op[p].tbl] = p
    BY <1>0, <2>1 DEF PlaceInv, CallsPlaced, CallTyped
  <2> QED BY <1>4, <2>2 DEF Ruling
<1>5. CASE ManageAgain(p) \/ DumpToBuffer(p) \/ \E i \in Images : Modified(p, i)
  <2>1. op[p].at \in {"manage", "take", "modify"}  BY <1>5 DEF ManageAgain, DumpToBuffer, Modified, IsAt
  <2>2. p \in Apps  BY <2>1 DEF PlaceInv, CallsPlaced
  <2> QED BY <1>5, <2>2, SteadyManage, SteadyOwnerSteps DEF Quiet
<1>6. CASE PrepareDump \/ SnapshotBegin \/ SnapshotEnd
  BY <1>6, SteadyPrepare, SteadySnapshotEnd DEF Quiet
<1> QED BY <1>1, <1>2, <1>3, <1>4, <1>5, <1>6, <1>7 DEF Continue

(* Any step is quiet, or one of those.                                     *)
LEMMA WaitSteps ==
  ASSUME TypeInv, PlaceInv, ReadsLoad, Waits, op[TblTask].at # "abort", NextStep
  PROVE  \/ Quiet \/ SetMetaDataFromFileHeader(TblTask)
         \/ \E t \in Tables : \/ ActivateCmd(t)
                              \/ \E i \in Images : LoadCmd(t, i)
                              \/ \E v \in Vals, select \in {"INACTIVE", "ACTIVE"} : ValidateCmd(t, select, v)
         \/ \E a \in Apps : Ruling(a)
<1>1. CASE SendHkCmd  BY <1>1, SteadyHk DEF Quiet
<1>2. CASE \E t \in Tables : GroundCommand(t)  BY <1>2, WaitCommands
<1>3. CASE \E t \in Tables, a \in Apps : Call(a, t)  BY <1>3, WaitCalls
<1>4. CASE \E p \in Procs : Continue(p)  BY <1>4, WaitContinue
<1> QED BY <1>1, <1>2, <1>3, <1>4 DEF NextStep

(* CFE_TBL_TxnGetTableStatus says that an update is pending exactly if the *)
(* load in progress is to become active.                                   *)
LEMMA DueIs ==
  ASSUME TypeInv, PlaceInv, NEW t \in Tables
  PROVE  UpdatePending(t) <=> Due(t)
BY RecordFacts, SlotParts DEF UpdatePending, Due, ValidLoad, PlaceInv

(* A table with a validation function can be loaded.                       *)
LEMMA ValidTables ==
  Validated \subseteq Tables \ DumpOnly
BY TableAssumption

(* Validations and updates are made by the owner.                          *)
LEMMA CallOf ==
  ASSUME TypeInv, PlaceInv, NEW a \in Apps, op[a].at \in {"validate", "run", "verdict", "update"}
  PROVE  op[a].tbl \in Tables /\ Owner[op[a].tbl] = a
BY TaskFacts DEF TypeInv, CallsTyped, CallTyped, PlaceInv, CallsPlaced

(* A quiet step.                                                           *)
LEMMA QuietRequests ==
  ASSUME TypeInv, PlaceInv, WaitInv, Quiet
  PROVE  TaskWaits' /\ OneRequest'
<1>1. Steady /\ TaskWaits /\ OneRequest  BY DEF Quiet, WaitInv
<1>2. TaskWaits'  BY <1>1 DEF Steady, TaskWaits
<1>3. \A v \in Vals : Val[v].State = "PENDING" => Val'[v].State = "PENDING"  BY <1>1 DEF Steady
<1>4. \A a \in Apps : (Validating(a)' <=> Validating(a)) /\ (Validating(a) => op'[a] = op[a])
  BY <1>1 DEF Steady, Validating
<1>5. PendingVal' = PendingVal /\ \A t, s : Has(t, s)' <=> Has(t, s)  BY <1>1 DEF Steady, Has
<1>6. OneRequest'  BY <1>1, <1>3, <1>4, <1>5 DEF OneRequest
<1> QED BY <1>2, <1>6

(* Quiet steps keep what is known of loads,                                *)
LEMMA QuietLoads ==
  ASSUME TypeInv, PlaceInv, TypeInv', PlaceInv', WaitInv, Quiet
  PROVE  LoadsSound'
<1>1. Steady /\ LoadsSound  BY DEF Quiet, WaitInv
<1>2. /\ \A t \in Tables : Next[t] # NoId => Slot(Next[t]) \in Slots
      /\ \A t \in Tables : Slot(NextLocal(t)) \in Slots
  BY RecordFacts DEF PlaceInv
<1>3. /\ Active' = Active /\ Prev' = Prev /\ Next' = Next
      /\ \A t : NextLocal(t)' = NextLocal(t)
      /\ \A s \in Slots : SameFlags(s)
  BY <1>1 DEF Steady, NextLocal
<1>4. \A t \in Tables : NeverActive(t)'  BY <1>1, <1>2, <1>3 DEF LoadsSound, NeverActive, SameFlags
<1>5. \A t \in Tables : Due(t)' <=> Due(t)  BY <1>2, <1>3 DEF Due, ValidLoad, SameFlags
<1>6. ASSUME NEW a \in Apps, op'[a].at = "update" PROVE Due(op[a].tbl)'
  <2>0. PICK u \in Tables : u = op'[a].tbl  BY <1>6, TaskFacts DEF TypeInv, CallsTyped, CallTyped
  <2>1. Due(u)
    <3>1. CASE op'[a] = op[a]  BY <1>1, <1>6, <2>0, <3>1 DEF LoadsSound
    <3>2. CASE op'[a] # op[a]
      <4>1. UpdatePending(u)  BY <1>1, <1>6, <2>0, <3>2 DEF Steady
      <4> QED BY <4>1, DueIs
    <3> QED BY <3>1, <3>2
  <2>2. Due(u)'  BY <1>5, <2>1
  <2> QED BY <2>0, <2>2 DEF Due, ValidLoad
<1>7. Reading(TblTask)' => LET o == op'[TblTask] IN
        /\ Next'[o.tbl] # NoId /\ ~Buffers'[Slot(Next'[o.tbl])].IsValid
        /\ o.at = "read" => o.buf = Slot(Next'[o.tbl])
  <2> SUFFICES ASSUME Reading(TblTask)'
               PROVE  LET o == op'[TblTask] IN
                      /\ Next'[o.tbl] # NoId /\ ~Buffers'[Slot(Next'[o.tbl])].IsValid
                      /\ o.at = "read" => o.buf = Slot(Next'[o.tbl])
    OBVIOUS
  <2>1. op'[TblTask].tbl = op[TblTask].tbl /\ Reading(TblTask)
        /\ (op'[TblTask].at = "read" => op'[TblTask].buf = Slot(Next[op[TblTask].tbl]))
    BY <1>1 DEF Steady, Reading, LoadsSound
  <2>2. op[TblTask].tbl \in Tables  BY <2>1, TaskFacts DEF Reading, TypeInv, CallsTyped, CallTyped
  <2> QED BY <1>1, <1>2, <1>3, <2>1, <2>2 DEF LoadsSound, SameFlags
<1> QED BY <1>4, <1>6, <1>7 DEF LoadsSound

(* and of images.                                                          *)
LEMMA QuietValid ==
  ASSUME TypeInv, PlaceInv, WaitInv, Quiet
  PROVE  ValidSound'
<1>1. Steady /\ Untouched /\ TaskWaits /\ OneRequest /\ LoadsSound /\ ValidSound  BY DEF Quiet, WaitInv
<1>2. Active' = Active /\ Next' = Next /\ \A s \in Slots : SameFlags(s)  BY <1>1 DEF Steady
<1>3. ASSUME NEW t \in Validated PROVE t \in Tables \ DumpOnly  BY ValidTables
<1>4. OnlyValidActive'
  <2> SUFFICES ASSUME NEW t \in Validated, Active[t] # NoId PROVE Buffers'[Slot(Active[t])].Content \in Good
    BY <1>2 DEF OnlyValidActive
  <2>1. Has(t, Slot(Active[t])) /\ Buffers[Slot(Active[t])].Content \in Good  BY <1>1 DEF Has, ValidSound, OnlyValidActive
  <2>2. Next[t] # NoId => Slot(Next[t]) # Slot(Active[t])  BY <1>3, NextNotActive
  <2>3. Reading(TblTask) /\ op[TblTask].tbl = t => Next[t] # NoId  BY <1>1 DEF LoadsSound
  <2>4. Buffers'[Slot(Active[t])].Content = Buffers[Slot(Active[t])].Content
    BY <1>1, <1>3, <2>1, <2>2, <2>3, HasOwn DEF Untouched
  <2> QED BY <2>1, <2>4
<1>5. ASSUME NEW t \in Validated, ValidLoad(t)' PROVE Buffers'[Slot(Next'[t])].Content \in Good
  <2>1. Next[t] # NoId /\ Slot(Next[t]) \in Slots  BY <1>2, <1>3, <1>5, RecordFacts DEF ValidLoad, PlaceInv
  <2>2. Has(t, Slot(Next[t])) /\ ValidLoad(t)  BY <1>2, <1>5, <2>1 DEF Has, ValidLoad, SameFlags
  <2>3. ~(Reading(TblTask) /\ op[TblTask].tbl = t)  BY <1>1, <2>2 DEF LoadsSound, ValidLoad
  <2>4. Buffers'[Slot(Next[t])].Content = Buffers[Slot(Next[t])].Content
    BY <1>1, <1>3, <2>2, <2>3, HasOwn DEF Untouched
  <2> QED BY <1>1, <1>2, <2>2, <2>4 DEF ValidSound
<1>6. ASSUME NEW a \in Apps, op'[a].at = "verdict", op'[a].ok, op'[a].buf # NoSlot, op'[a].tbl \in Validated
      PROVE  Buffers'[op'[a].buf].Content \in Good
  <2>1. op'[a] = op[a] /\ Validating(a)  BY <1>1, <1>6 DEF Steady, Validating
  <2>2. op[TblTask].at = "idle" /\ Has(op[a].tbl, op[a].buf)
    BY <1>1, <1>6, <2>1 DEF OneRequest, TaskWaits
  <2>3. ~Reading(TblTask)  BY <2>2 DEF Reading
  <2>4. Buffers'[op[a].buf].Content = Buffers[op[a].buf].Content
    BY <1>1, <1>3, <1>6, <2>1, <2>2, <2>3, HasOwn DEF Untouched
  <2> QED BY <1>1, <1>6, <2>1, <2>4 DEF ValidSound
<1> QED BY <1>4, <1>5, <1>6 DEF ValidSound

(* A patient ground sends a command when nothing is asked for.             *)
LEMMA CommandFree ==
  ASSUME TypeInv, WaitInv, Waits, NEW c, Command(c)
  PROVE  /\ op[TblTask].at = "idle" /\ \A v \in Vals : Val[v].State = "FREE"
         /\ \A t \in Tables : PendingVal[t] = NoVal
         /\ \A a \in Apps : ~Validating(a)
BY DEF Command, IsAt, Waits, WaitInv, OneRequest

(* What stays when records, calls and requests do.                         *)
LEMMA SameRequests ==
  ASSUME WaitInv, op' = op, Val' = Val, PendingVal' = PendingVal, UNCHANGED <<Active, Next>>
  PROVE  TaskWaits' /\ OneRequest'
<1>1. \A t, s : Has(t, s)' <=> Has(t, s)  BY DEF Has
<1>2. \A a : Validating(a)' <=> Validating(a)  BY DEF Validating
<1> QED BY <1>1, <1>2 DEF WaitInv, TaskWaits, OneRequest

(* Flags of a buffer s0 are raised.                                        *)
LEMMA Raised ==
  ASSUME TypeInv, PlaceInv, WaitInv, op' = op, UNCHANGED <<Active, Prev, Next>>,
         op[TblTask].at = "idle",
         \A s \in Slots : /\ Buffers[s].IsValid => Buffers'[s].IsValid
                          /\ Buffers[s].ActivateReq => Buffers'[s].ActivateReq
                          /\ Buffers'[s].Content = Buffers[s].Content,
         \A t \in Tables : NeverActive(t)', \A t \in Validated : ValidLoad(t)' => ValidLoad(t)
  PROVE  LoadsSound' /\ ValidSound'
<1>1. /\ \A t \in Tables : Next[t] # NoId => Slot(Next[t]) \in Slots
      /\ \A t \in Tables : Active[t] # NoId => Slot(Active[t]) \in Slots
  BY RecordFacts DEF PlaceInv
<1>2. \A t \in Tables : Due(t) => Due(t)'  BY <1>1 DEF Due, ValidLoad
<1>3. ASSUME NEW a \in Apps, op[a].at = "update" PROVE Due(op[a].tbl)'
  <2>1. op[a].tbl \in Tables /\ Due(op[a].tbl)  BY <1>3, CallOf DEF WaitInv, LoadsSound
  <2>2. PICK u \in Tables : u = op[a].tbl  BY <2>1
  <2>3. Due(u)'  BY <1>2, <2>1, <2>2
  <2> QED BY <2>2, <2>3 DEF Due, ValidLoad
<1>4. LoadsSound'  BY <1>3 DEF LoadsSound, Reading
<1>5. OnlyValidActive'  BY <1>1, ValidTables DEF WaitInv, ValidSound, OnlyValidActive
<1>6. ASSUME NEW t \in Validated, ValidLoad(t)' PROVE Buffers'[Slot(Next'[t])].Content \in Good
  BY <1>1, <1>6, ValidTables DEF WaitInv, ValidSound, ValidLoad
<1>7. ASSUME NEW a \in Apps, op[a].at = "verdict", op[a].ok, op[a].buf # NoSlot, op[a].tbl \in Validated
      PROVE  Buffers'[op[a].buf].Content \in Good
  <2>1. Validating(a)  BY <1>7 DEF Validating
  <2>2. Has(op[a].tbl, op[a].buf)  BY <1>7, <2>1 DEF WaitInv, OneRequest
  <2>3. op[a].buf \in Slots  BY <1>7, <2>2, HasOwn, ValidTables
  <2> QED BY <1>7, <2>3 DEF WaitInv, ValidSound
<1> QED BY <1>4, <1>5, <1>6, <1>7 DEF ValidSound

(* CFE_TBL_ActivateCmd marks a valid image only.                           *)
LEMMA WaitActivate ==
  ASSUME TypeInv, PlaceInv, WaitInv, Waits, NEW t \in Tables, ActivateCmd(t)
  PROVE  WaitInv'
<1>1. op[TblTask].at = "idle"  BY DEF ActivateCmd, Command, IsAt
<1>2. /\ op' = op /\ Val' = Val /\ PendingVal' = PendingVal /\ UNCHANGED <<Active, Prev, Next>>
      /\ Buffers' = Buffers \/ Buffers' = [Buffers EXCEPT ![LoadBuf(t)].ActivateReq = TRUE]
  BY RecordFacts DEF ActivateCmd, PlaceInv
<1>3. \A s \in Slots : /\ Buffers'[s].IsValid = Buffers[s].IsValid
                       /\ Buffers[s].ActivateReq => Buffers'[s].ActivateReq
                       /\ Buffers'[s].Content = Buffers[s].Content
  <2>1. CASE Buffers' = Buffers  BY <2>1
  <2>2. CASE Buffers' = [Buffers EXCEPT ![LoadBuf(t)].ActivateReq = TRUE]  BY <2>2, Fields
  <2> QED BY <1>2, <2>1, <2>2
<1>4. ASSUME NEW u \in Tables PROVE NeverActive(u)' /\ (ValidLoad(u)' => ValidLoad(u))
  <2>1. Slot(NextLocal(u)) \in Slots /\ (Next[u] # NoId => Slot(Next[u]) \in Slots)  BY RecordFacts DEF PlaceInv
  <2>2. NextLocal(u)' = NextLocal(u)  BY <1>2 DEF NextLocal
  <2>3. NeverActive(u)  BY DEF WaitInv, LoadsSound
  <2> QED BY <1>2, <1>3, <2>1, <2>2, <2>3 DEF NeverActive, ValidLoad
<1>5. LoadsSound' /\ ValidSound'  BY <1>1, <1>2, <1>3, <1>4, ValidTables, Raised
<1> QED BY <1>2, <1>5, SameRequests DEF WaitInv

(* The buffer that a validation selects is the table's own, or its load's. *)
LEMMA SelectedIs ==
  ASSUME TypeInv, PlaceInv, WaitInv, NEW t \in Tables, NEW select, SelectedBuffer(t, select) # NoSlot
  PROVE  LET s == SelectedBuffer(t, select) IN
         /\ s \in Slots /\ (s \notin SharedSlots => s[1] = t) /\ (s \in SharedSlots => LoadHas(t, s))
         /\ Active[t] # NoId \/ Next[t] # NoId
<1>1. LoadBuf(t) = Slot(Next[t]) /\ RecordsSound  BY RecordFacts DEF PlaceInv
<1>2. PICK s : s = SelectedBuffer(t, select)  OBVIOUS
<1>3. CASE s = Slot(Active[t]) /\ Active[t] # NoId
  <2>1. Has(t, s)  BY <1>3 DEF Has
  <2> QED BY <1>2, <1>3, <2>1, HasOwn
<1>4. CASE s = Slot(Next[t]) /\ Next[t] # NoId
  <2>1. Has(t, s)  BY <1>4 DEF Has
  <2> QED BY <1>2, <1>4, <2>1, HasOwn
<1>5. CASE s = Slot(Prev[t]) /\ Prev[t] # NoId
  <2>1. Prev[t] \in LocalIds /\ Prev[t][1] = t  BY <1>1, <1>5, RecordFacts DEF RecordsSound, RecordSound
  <2>2. s \in Slots \ SharedSlots /\ s[1] = t  BY <1>5, <2>1, SlotKinds
  <2>3. Active[t] # NoId  BY <1>5 DEF WaitInv, LoadsSound, NeverActive
  <2> QED BY <1>2, <2>2, <2>3
<1> QED BY <1>1, <1>2, <1>3, <1>4, <1>5, SlotParts DEF SelectedBuffer

(* CFE_TBL_ValidateCmd asks for a validation when none is under way.       *)
LEMMA WaitValidate ==
  ASSUME TypeInv, PlaceInv, WaitInv, Waits, NEW t \in Tables, NEW v \in Vals, NEW select \in {"INACTIVE", "ACTIVE"},
         ValidateCmd(t, select, v)
  PROVE  WaitInv'
<1>1. /\ op[TblTask].at = "idle" /\ \A w \in Vals : Val[w].State = "FREE"
      /\ \A u \in Tables : PendingVal[u] = NoVal
      /\ \A a \in Apps : ~Validating(a)
  BY CommandFree DEF ValidateCmd
<1>2. op' = op /\ UNCHANGED <<Active, Prev, Next>>  BY RecordFacts DEF ValidateCmd, PlaceInv
<1>3. \A u \in Tables : /\ Slot(NextLocal(u)) \in Slots \ SharedSlots /\ Slot(NextLocal(u))[1] = u
                        /\ Next[u] # NoId => Slot(Next[u]) \in Slots
                        /\ NextLocal(u)' = NextLocal(u)
  BY <1>2, RecordFacts DEF PlaceInv, NextLocal
<1>4. CASE t \in Validated
  <2>1. /\ Val' = [Val EXCEPT ![v] = [State |-> "PENDING", Select |-> select]]
        /\ PendingVal' = [PendingVal EXCEPT ![t] = v] /\ Buffers' = Buffers
    BY <1>4 DEF ValidateCmd
  <2>2. Val \in [Vals -> ValResult] /\ PendingVal \in [Tables -> Vals \cup {NoVal}]  BY DEF TypeInv, TypeOK
  <2>3. TaskWaits'  BY <1>1, <1>2 DEF TaskWaits
  <2>4. \A a \in Apps : ~Validating(a)'  BY <1>1, <1>2 DEF Validating
  <2>5. \A u \in Tables : PendingVal'[u] # NoVal => u = t  BY <1>1, <2>1, <2>2
  <2>6. PendingVal'[t] = v /\ Val'[v].State = "PENDING"  BY <2>1, <2>2
  <2>7. OneRequest'  BY <2>4, <2>5, <2>6 DEF OneRequest
  <2>8. \A u \in Tables : NeverActive(u)' /\ (ValidLoad(u)' => ValidLoad(u))
    BY <1>2, <1>3, <2>1 DEF NeverActive, ValidLoad, WaitInv, LoadsSound
  <2>9. LoadsSound' /\ ValidSound'  BY <1>1, <1>2, <2>1, <2>8, ValidTables, Raised
  <2> QED BY <2>3, <2>7, <2>9 DEF WaitInv
<1>5. CASE t \notin Validated
  <2>1. PICK s0 : s0 = SelectedBuffer(t, select)  OBVIOUS
  <2>2. /\ Val' = Val /\ PendingVal' = PendingVal
        /\ Buffers' = [Buffers EXCEPT ![s0].IsValid = TRUE] /\ s0 # NoSlot
    BY <1>5, <2>1 DEF ValidateCmd
  <2>3. /\ s0 \in Slots /\ (s0 \notin SharedSlots => s0[1] = t) /\ (s0 \in SharedSlots => LoadHas(t, s0))
        /\ Active[t] # NoId \/ Next[t] # NoId
    BY <2>1, <2>2, SelectedIs
  <2>4. \A s \in Slots : /\ Buffers[s].IsValid => Buffers'[s].IsValid
                         /\ s # s0 => Buffers'[s].IsValid = Buffers[s].IsValid
                         /\ Buffers'[s].ActivateReq = Buffers[s].ActivateReq
                         /\ Buffers'[s].Content = Buffers[s].Content
    <3> SUFFICES ASSUME NEW s \in Slots
                 PROVE  /\ Buffers[s].IsValid => Buffers'[s].IsValid
                        /\ s # s0 => Buffers'[s].IsValid = Buffers[s].IsValid
                        /\ Buffers'[s].ActivateReq = Buffers[s].ActivateReq
                        /\ Buffers'[s].Content = Buffers[s].Content
      OBVIOUS
    <3>1. Buffers \in [Slots -> LoadBuff] /\ Buffers[s] \in LoadBuff  BY DEF TypeInv, TypeOK
    <3>2. Buffers'[s] = IF s = s0 THEN [Buffers[s] EXCEPT !.IsValid = TRUE] ELSE Buffers[s]  BY <2>2, <3>1
    <3> QED BY <3>1, <3>2 DEF LoadBuff
  <2>5. ASSUME NEW u \in Tables PROVE NeverActive(u)'
    <3>1. CASE u = t /\ Active[t] # NoId  BY <1>2, <3>1 DEF NeverActive
    <3>2. CASE u = t /\ Next[t] # NoId
      BY <1>2, <3>2 DEF NeverActive, WaitInv, LoadsSound
    <3>3. CASE u # t
      <4>1. Slot(NextLocal(u)) # s0  BY <1>3, <2>3, <3>3
      <4> QED BY <1>2, <1>3, <2>4, <4>1 DEF NeverActive, WaitInv, LoadsSound
    <3> QED BY <2>3, <3>1, <3>2, <3>3
  <2>6. ASSUME NEW u \in Validated, ValidLoad(u)' PROVE ValidLoad(u)
    <3>1. u # t /\ u \in Tables /\ Next[u] # NoId  BY <1>2, <1>5, <2>6, ValidTables DEF ValidLoad
    <3>2. Has(u, Slot(Next[u]))  BY <3>1 DEF Has
    <3>3. Slot(Next[u]) # s0
      <4>1. s0 \in SharedSlots => ~LoadHas(u, s0)
        BY <2>3, <3>1 DEF PlaceInv, OneHolder, HeldOnce
      <4> QED BY <2>3, <3>1, <3>2, <4>1, HasOwn
    <3> QED BY <1>2, <1>3, <2>4, <2>6, <3>1, <3>3 DEF ValidLoad
  <2>7. LoadsSound' /\ ValidSound'  BY <1>1, <1>2, <2>4, <2>5, <2>6, Raised
  <2> QED BY <1>2, <2>2, <2>7, SameRequests DEF WaitInv
<1> QED BY <1>4, <1>5

(* CFE_TBL_LoadCmd begins with an image that is not valid, so that what    *)
(* was found valid before does not count for it.                           *)
LEMMA WaitLoad ==
  ASSUME TypeInv, PlaceInv, WaitInv, Waits, NEW t \in Tables, NEW i \in Images, LoadCmd(t, i)
  PROVE  WaitInv'
<1>1. /\ op[TblTask].at = "idle" /\ \A w \in Vals : Val[w].State = "FREE"
      /\ \A u \in Tables : PendingVal[u] = NoVal
      /\ \A a \in Apps : ~Validating(a)
  BY CommandFree DEF LoadCmd
<1>2. /\ Next[t] = NoId /\ GetWorkingBuffer(t)
      /\ Goto(TblTask, [Idle EXCEPT !.at = "open", !.cmd = TRUE, !.tbl = t, !.img = i])
      /\ UNCHANGED <<Active, Prev, PendingVal, Val>>
  BY DEF LoadCmd
<1>3. PICK id \in BufferIds, b \in LoadBuff : Reserved(t, id, b)  BY <1>2, Reserves DEF TypeInv
<1>4. PICK s0 : s0 = Slot(id)  OBVIOUS
<1>5. /\ Next' = [Next EXCEPT ![t] = id] /\ Buffers' = [Buffers EXCEPT ![s0] = b]
      /\ Buffers \in [Slots -> LoadBuff] /\ Next \in [Tables -> BufferIds \cup {NoId}]
      /\ s0 \in Slots /\ id # NoId
  BY <1>3, <1>4, IdSlots DEF Reserved, TypeInv, TypeOK
<1>6. op'[TblTask].at = "open" /\ op'[TblTask].tbl = t /\ \A a \in Apps : op'[a] = op[a]
  <2>1. PICK o : o = [Idle EXCEPT !.at = "open", !.cmd = TRUE, !.tbl = t, !.img = i]  OBVIOUS
  <2>2. o.at = "open" /\ o.tbl = t  BY <2>1 DEF Idle
  <2>3. Goto(TblTask, o)  BY <1>2, <2>1
  <2> QED BY <2>2, <2>3, GotoFacts, TaskFacts
<1>7. /\ \A s \in Slots : s # s0 => Buffers'[s] = Buffers[s]
      /\ Buffers'[s0] = b /\ Next'[t] = id /\ \A u \in Tables : u # t => Next'[u] = Next[u]
      /\ \A u : NextLocal(u)' = NextLocal(u)
  BY <1>2, <1>5 DEF NextLocal
<1>8. /\ s0 \in SharedSlots => Buffers[s0].Id = NoId
      /\ s0 \notin SharedSlots => s0 = Slot(NextLocal(t)) /\ s0[1] = t /\ (t \in DoubleBuffered \/ Active[t] = NoId)
      /\ IF Active[t] = NoId THEN s0 = Slot(NextLocal(t)) /\ b.IsValid = Buffers[s0].IsValid ELSE ~b.IsValid
  <2>1. id \in SharedIds => s0 \in SharedSlots  BY <1>4, SlotKinds
  <2>2. Slot(NextLocal(t)) \in Slots \ SharedSlots /\ Slot(NextLocal(t))[1] = t  BY RecordFacts DEF PlaceInv
  <2>3. Buffers[s0] \in LoadBuff  BY <1>5
  <2>4. IF Active[t] = NoId THEN b = [Buffers[s0] EXCEPT !.Id = id] ELSE ~b.IsValid
    BY <1>3, <1>4 DEF Reserved
  <2>5. Active[t] = NoId => b.IsValid = Buffers[s0].IsValid  BY <2>3, <2>4 DEF LoadBuff
  <2> QED BY <1>3, <1>4, <2>1, <2>2, <2>4, <2>5 DEF Reserved
<1>9. ~b.IsValid  BY <1>2, <1>8 DEF WaitInv, LoadsSound, NeverActive
<1>10. ASSUME NEW u \in Tables, NEW s, Has(u, s) PROVE s \in Slots /\ s # s0
  <2>1. s \in Slots /\ (s \notin SharedSlots => s[1] = u) /\ (s \in SharedSlots => LoadHas(u, s))  BY <1>10, HasOwn
  <2>2. CASE s0 \in SharedSlots  BY <1>8, <2>1, <2>2, FreeSlot DEF PlaceInv
  <2>3. CASE s0 \notin SharedSlots
    <3>1. u = t /\ s = s0 => s = Slot(Active[t]) /\ Active[t] # NoId  BY <1>2, <1>10 DEF Has
    <3>2. t \in DoubleBuffered => Slot(NextLocal(t)) # Slot(Active[t])  BY RecordFacts DEF PlaceInv
    <3> QED BY <1>8, <2>1, <2>3, <3>1, <3>2
  <2> QED BY <2>1, <2>2, <2>3
<1>11. TaskWaits'  BY <1>1, <1>2, <1>6 DEF TaskWaits
<1>12. \A a \in Apps : ~Validating(a)'  BY <1>1, <1>6 DEF Validating
<1>13. OneRequest'  BY <1>1, <1>2, <1>12 DEF OneRequest
<1>14. \A u \in Tables : Next[u] # NoId => u # t /\ Next'[u] = Next[u] /\ Buffers'[Slot(Next[u])] = Buffers[Slot(Next[u])]
  BY <1>2, <1>7, <1>10 DEF Has
<1>15. ASSUME NEW u \in Tables PROVE NeverActive(u)'
  <2>1. CASE u = t  BY <1>2, <1>5, <1>7, <2>1 DEF NeverActive, WaitInv, LoadsSound
  <2>2. CASE u # t
    <3>1. Slot(NextLocal(u)) \in Slots \ SharedSlots /\ Slot(NextLocal(u))[1] = u  BY RecordFacts DEF PlaceInv
    <3>2. Slot(NextLocal(u)) # s0  BY <1>8, <2>2, <3>1
    <3> QED BY <1>2, <1>7, <2>2, <3>1, <3>2 DEF NeverActive, WaitInv, LoadsSound
  <2> QED BY <2>1, <2>2
<1>16. ASSUME NEW a \in Apps, op[a].at = "update" PROVE Due(op[a].tbl)'
  <2>1. PICK u \in Tables : u = op[a].tbl  BY <1>16, CallOf
  <2>2. Due(u)  BY <1>16, <2>1 DEF WaitInv, LoadsSound
  <2>3. Due(u)'  BY <1>14, <2>2 DEF Due, ValidLoad
  <2> QED BY <1>6, <2>1, <2>3 DEF Due, ValidLoad
<1>17. LoadsSound'  BY <1>4, <1>5, <1>6, <1>7, <1>9, <1>15, <1>16 DEF LoadsSound
<1>18. OnlyValidActive'
  <2> SUFFICES ASSUME NEW u \in Validated, Active[u] # NoId PROVE Buffers'[Slot(Active[u])].Content \in Good
    BY <1>2 DEF OnlyValidActive
  <2>1. Has(u, Slot(Active[u])) /\ u \in Tables  BY ValidTables DEF Has
  <2> QED BY <1>7, <1>10, <2>1 DEF WaitInv, ValidSound, OnlyValidActive
<1>19. ASSUME NEW u \in Validated, ValidLoad(u)' PROVE Buffers'[Slot(Next'[u])].Content \in Good
  <2>1. u # t /\ u \in Tables  BY <1>4, <1>7, <1>9, <1>19, ValidTables DEF ValidLoad
  <2>2. Next[u] # NoId  BY <1>7, <1>19, <2>1 DEF ValidLoad
  <2> QED BY <1>14, <1>19, <2>1, <2>2 DEF ValidLoad, WaitInv, ValidSound
<1>20. ValidSound'  BY <1>12, <1>18, <1>19 DEF ValidSound, Validating
<1> QED BY <1>11, <1>13, <1>17, <1>20 DEF WaitInv

(* The owner takes the request and selects the buffer,                     *)
LEMMA WaitTaken ==
  ASSUME TypeInv, PlaceInv, WaitInv, NEW a \in Apps, op[a].tbl \in Tables, Validate(a)
  PROVE  WaitInv'
<1>1. PICK t \in Tables : t = op[a].tbl  OBVIOUS
<1>2. PICK v : v = PendingVal[t]  OBVIOUS
<1>3. PICK s0 : s0 = IF Val[v].Select = "ACTIVE" THEN Slot(Active[t]) ELSE LoadBuf(t)  OBVIOUS
<1>4. /\ op[a].at = "validate" /\ v # NoVal
      /\ PendingVal' = [PendingVal EXCEPT ![t] = NoVal]
      /\ Goto(a, [op[a] EXCEPT !.at = "run", !.val = v, !.buf = s0])
      /\ UNCHANGED <<Active, Prev, Buffers, Val>>
  BY <1>1, <1>2, <1>3 DEF Validate, IsAt
<1>5. Next' = Next /\ LoadBuf(t) = Slot(Next[t])  BY <1>1, RecordFacts DEF Validate, PlaceInv
<1>6. /\ v \in Vals /\ Val[v].State = "PENDING"
      /\ \A u \in Tables : PendingVal[u] # NoVal => u = t
      /\ \A c \in Apps : ~Validating(c)
  BY <1>2, <1>4 DEF WaitInv, OneRequest
<1>7. /\ op'[a].at = "run" /\ op'[a].val = v /\ op'[a].buf = s0 /\ op'[a].tbl = t
      /\ op'[TblTask] = op[TblTask] /\ \A c \in Apps : c # a => op'[c] = op[c]
  <2>1. op[a] \in Op  BY TaskFacts DEF TypeInv, TypeOK
  <2>2. PICK o : o = [op[a] EXCEPT !.at = "run", !.val = v, !.buf = s0]  OBVIOUS
  <2>3. o.at = "run" /\ o.val = v /\ o.buf = s0 /\ o.tbl = t  BY <1>1, <2>1, <2>2 DEF Op
  <2>4. Goto(a, o)  BY <1>4, <2>2
  <2> QED BY <2>3, <2>4, GotoFacts, TaskFacts
<1>8. TaskWaits'  BY <1>4, <1>7 DEF WaitInv, TaskWaits
<1>9. s0 = NoSlot \/ Has(t, s0)  BY <1>3, <1>5, SlotParts DEF Has
<1>10. PendingVal \in [Tables -> Vals \cup {NoVal}]  BY DEF TypeInv, TypeOK
<1>11. \A u \in Tables : PendingVal'[u] = NoVal  BY <1>4, <1>6, <1>10
<1>12. \A c \in Apps : c # a => ~Validating(c)'  BY <1>6, <1>7 DEF Validating
<1>13. (op[a].buf = NoSlot \/ Has(op[a].tbl, op[a].buf))'  BY <1>4, <1>5, <1>7, <1>9 DEF Has
<1>14. OneRequest'  BY <1>4, <1>6, <1>7, <1>11, <1>12, <1>13 DEF OneRequest
<1>15. \A u : (NeverActive(u)' <=> NeverActive(u)) /\ (Due(u)' <=> Due(u)) /\ (ValidLoad(u)' <=> ValidLoad(u))
  BY <1>4, <1>5 DEF NeverActive, Due, ValidLoad, NextLocal
<1>16. ASSUME NEW c \in Apps, op'[c].at = "update" PROVE Due(op[c].tbl)'
  <2>1. op'[c] = op[c]  BY <1>7, <1>16
  <2>2. Due(op[c].tbl)  BY <1>16, <2>1 DEF WaitInv, LoadsSound
  <2> QED BY <1>4, <1>5, <2>1, <2>2 DEF Due, ValidLoad
<1>17. LoadsSound'  BY <1>4, <1>5, <1>7, <1>15, <1>16 DEF WaitInv, LoadsSound, Reading
<1>18. ValidSound'  BY <1>4, <1>5, <1>7, <1>12, <1>15 DEF WaitInv, ValidSound, OnlyValidActive, Validating
<1> QED BY <1>8, <1>14, <1>17, <1>18 DEF WaitInv

(* its validation function looks at the image,                             *)
LEMMA WaitFunc ==
  ASSUME TypeInv, PlaceInv, WaitInv, NEW a \in Apps, op[a].tbl \in Tables, ValidationFunc(a)
  PROVE  WaitInv'
<1>1. PICK k : k = (op[a].buf # NoSlot /\ Accepts(op[a].tbl, Buffers[op[a].buf].Content))  OBVIOUS
<1>2. /\ op[a].at = "run" /\ Goto(a, [op[a] EXCEPT !.at = "verdict", !.ok = k])
      /\ UNCHANGED <<Active, Prev, Next, PendingVal, Buffers, Val>>
  BY <1>1 DEF ValidationFunc, IsAt, regVars
<1>3. /\ op'[a].at = "verdict" /\ op'[a].val = op[a].val /\ op'[a].buf = op[a].buf /\ op'[a].tbl = op[a].tbl
      /\ op'[a].ok = k
      /\ op'[TblTask] = op[TblTask] /\ \A c \in Apps : c # a => op'[c] = op[c]
  <2>1. op[a] \in Op  BY TaskFacts DEF TypeInv, TypeOK
  <2>2. PICK o : o = [op[a] EXCEPT !.at = "verdict", !.ok = k]  OBVIOUS
  <2>3. o.at = "verdict" /\ o.val = op[a].val /\ o.buf = op[a].buf /\ o.tbl = op[a].tbl /\ o.ok = k
    BY <2>1, <2>2 DEF Op
  <2>4. Goto(a, o)  BY <1>2, <2>2
  <2> QED BY <2>3, <2>4, GotoFacts, TaskFacts
<1>4. TaskWaits'  BY <1>2, <1>3 DEF WaitInv, TaskWaits
<1>5. \A c \in Apps : Validating(c)' <=> Validating(c)  BY <1>2, <1>3 DEF Validating
<1>6. \A t, s : Has(t, s)' <=> Has(t, s)  BY <1>2 DEF Has
<1>7. \A c \in Apps : op'[c].val = op[c].val /\ op'[c].buf = op[c].buf /\ op'[c].tbl = op[c].tbl  BY <1>3
<1>8. OneRequest'  BY <1>2, <1>5, <1>6, <1>7 DEF WaitInv, OneRequest
<1>9. \A u : (NeverActive(u)' <=> NeverActive(u)) /\ (Due(u)' <=> Due(u)) /\ (ValidLoad(u)' <=> ValidLoad(u))
  BY <1>2 DEF NeverActive, Due, ValidLoad, NextLocal
<1>10. ASSUME NEW c \in Apps, op'[c].at = "update" PROVE Due(op[c].tbl)'
  <2>1. op'[c] = op[c]  BY <1>3, <1>10
  <2>2. Due(op[c].tbl)  BY <1>10, <2>1 DEF WaitInv, LoadsSound
  <2> QED BY <1>2, <2>1, <2>2 DEF Due, ValidLoad
<1>11. LoadsSound'  BY <1>2, <1>3, <1>9, <1>10 DEF WaitInv, LoadsSound, Reading
<1>12. ASSUME NEW c \in Apps, op'[c].at = "verdict", op'[c].ok, op'[c].buf # NoSlot, op'[c].tbl \in Validated
       PROVE  Buffers[op'[c].buf].Content \in Good
  <2>1. CASE c # a  BY <1>3, <1>12, <2>1 DEF WaitInv, ValidSound
  <2>2. CASE c = a  BY <1>1, <1>3, <1>12, <2>2 DEF Accepts
  <2> QED BY <2>1, <2>2
<1>13. ValidSound'  BY <1>2, <1>9, <1>12 DEF WaitInv, ValidSound, OnlyValidActive
<1> QED BY <1>4, <1>8, <1>11, <1>13 DEF WaitInv

(* and the image it has looked at is marked: it was not replaced in        *)
(* between.                                                                *)
LEMMA WaitVerdict ==
  ASSUME TypeInv, PlaceInv, WaitInv, NEW a \in Apps, op[a].tbl \in Tables, Owner[op[a].tbl] = a, ValidateDone(a)
  PROVE  WaitInv'
<1>1. PICK t \in Tables : t = op[a].tbl  OBVIOUS
<1>2. PICK s0 : s0 = op[a].buf  OBVIOUS
<1>3. /\ op[a].at = "verdict" /\ Goto(a, [Idle EXCEPT !.at = "manage", !.tbl = t])
      /\ Buffers' = IF s0 = NoSlot THEN Buffers ELSE [Buffers EXCEPT ![s0].IsValid = op[a].ok]
      /\ Val' = [Val EXCEPT ![op[a].val].State = "PERFORMED"]
      /\ UNCHANGED <<Active, Prev, Next, PendingVal>>
  BY <1>1, <1>2 DEF ValidateDone, IsAt, regVars
<1>4. /\ op'[a].at = "manage" /\ op'[TblTask] = op[TblTask] /\ \A c \in Apps : c # a => op'[c] = op[c]
  <2>1. PICK o : o = [Idle EXCEPT !.at = "manage", !.tbl = t]  OBVIOUS
  <2>2. o.at = "manage"  BY <2>1 DEF Idle
  <2>3. Goto(a, o)  BY <1>3, <2>1
  <2> QED BY <2>2, <2>3, GotoFacts, TaskFacts
<1>5. Validating(a)  BY <1>3 DEF Validating
<1>6. /\ op[a].val \in Vals /\ Val[op[a].val].State = "PENDING" /\ op[TblTask].at = "idle"
      /\ s0 = NoSlot \/ Has(t, s0)
      /\ \A c \in Apps : Validating(c) => c = a
      /\ \A u \in Tables : PendingVal[u] = NoVal
  BY <1>1, <1>2, <1>5 DEF WaitInv, OneRequest, TaskWaits
<1>7. TaskWaits'  BY <1>4, <1>6 DEF TaskWaits
<1>8. \A c \in Apps : ~Validating(c)'  BY <1>4, <1>6 DEF Validating
<1>9. OneRequest'  BY <1>3, <1>6, <1>8 DEF OneRequest
<1>10. \A s \in Slots : /\ Buffers'[s].ActivateReq = Buffers[s].ActivateReq
                        /\ Buffers'[s].Content = Buffers[s].Content
                        /\ s # s0 => Buffers'[s].IsValid = Buffers[s].IsValid
                        /\ s = s0 => Buffers'[s].IsValid = op[a].ok
  <2> SUFFICES ASSUME NEW s \in Slots
               PROVE  /\ Buffers'[s].ActivateReq = Buffers[s].ActivateReq
                      /\ Buffers'[s].Content = Buffers[s].Content
                      /\ s # s0 => Buffers'[s].IsValid = Buffers[s].IsValid
                      /\ s = s0 => Buffers'[s].IsValid = op[a].ok
    OBVIOUS
  <2>1. Buffers \in [Slots -> LoadBuff] /\ Buffers[s] \in LoadBuff /\ s # NoSlot  BY SlotParts DEF TypeInv, TypeOK
  <2>2. Buffers'[s] = IF s = s0 THEN [Buffers[s] EXCEPT !.IsValid = op[a].ok] ELSE Buffers[s]  BY <1>3, <2>1
  <2> QED BY <2>1, <2>2 DEF LoadBuff
<1>11. \A u \in Tables : Next[u] # NoId => Has(u, Slot(Next[u])) /\ Slot(Next[u]) \in Slots
  BY HasOwn DEF Has
<1>12. ASSUME NEW u \in Tables PROVE NeverActive(u)'
  <2>1. NextLocal(u)' = NextLocal(u)  BY <1>3 DEF NextLocal
  <2>2. Slot(NextLocal(u)) \in Slots \ SharedSlots /\ Slot(NextLocal(u))[1] = u  BY RecordFacts DEF PlaceInv
  <2>3. Active[u] = NoId /\ Next[u] = NoId => Slot(NextLocal(u)) # s0
    <3>1. CASE s0 = NoSlot  BY <2>2, <3>1, SlotParts
    <3>2. CASE Has(t, s0) /\ u # t
      <4>1. s0 \notin SharedSlots => s0[1] = t  BY <3>2, HasOwn
      <4> QED BY <2>2, <3>2, <4>1
    <3>3. CASE Has(t, s0) /\ u = t  BY <3>3 DEF Has
    <3> QED BY <1>6, <3>1, <3>2, <3>3
  <2> QED BY <1>3, <1>10, <2>1, <2>2, <2>3 DEF NeverActive, WaitInv, LoadsSound
<1>13. ASSUME NEW c \in Apps, op'[c].at = "update" PROVE Due(op[c].tbl)'
  <2>1. c # a /\ op'[c] = op[c]  BY <1>4, <1>13
  <2>2. PICK u \in Tables : u = op[c].tbl /\ Owner[u] = c  BY <1>13, <2>1, CallOf
  <2>3. Due(u) /\ u # t  BY <1>1, <1>13, <2>1, <2>2 DEF WaitInv, LoadsSound
  <2>4. Slot(Next[u]) # s0 /\ Slot(Next[u]) \in Slots
    BY <1>6, <1>11, <2>3, HasOwn, SlotParts DEF Due, ValidLoad
  <2>5. Due(u)'  BY <1>3, <1>10, <2>3, <2>4 DEF Due, ValidLoad
  <2> QED BY <2>1, <2>2, <2>5 DEF Due, ValidLoad
<1>14. LoadsSound'  BY <1>4, <1>6, <1>12, <1>13 DEF LoadsSound, Reading
<1>15. OnlyValidActive'
  <2> SUFFICES ASSUME NEW u \in Validated, Active[u] # NoId PROVE Buffers'[Slot(Active[u])].Content \in Good
    BY <1>3 DEF OnlyValidActive
  <2>1. Slot(Active[u]) \in Slots  BY ValidTables, HasOwn DEF Has
  <2> QED BY <1>10, <2>1 DEF WaitInv, ValidSound, OnlyValidActive
<1>16. ASSUME NEW u \in Validated, ValidLoad(u)' PROVE Buffers'[Slot(Next'[u])].Content \in Good
  <2>1. u \in Tables /\ Next[u] # NoId /\ Slot(Next[u]) \in Slots
    BY <1>3, <1>11, <1>16, ValidTables DEF ValidLoad
  <2>2. CASE Slot(Next[u]) # s0
    <3>1. ValidLoad(u)  BY <1>3, <1>10, <1>16, <2>1, <2>2 DEF ValidLoad
    <3> QED BY <1>3, <1>10, <2>1, <3>1 DEF WaitInv, ValidSound
  <2>3. CASE Slot(Next[u]) = s0
    <3>1. s0 # NoSlot /\ Has(t, s0) /\ Has(u, s0)  BY <1>6, <1>11, <2>1, <2>3, SlotParts
    <3>2. u = t  BY <2>1, <3>1, HasOwn
    <3>3. op[a].ok  BY <1>3, <1>10, <1>16, <2>1, <2>3 DEF ValidLoad
    <3>4. Buffers[s0].Content \in Good  BY <1>1, <1>2, <1>3, <3>1, <3>2, <3>3 DEF WaitInv, ValidSound
    <3> QED BY <1>3, <1>10, <2>1, <2>3, <3>4
  <2> QED BY <2>2, <2>3
<1>17. ValidSound'  BY <1>8, <1>15, <1>16 DEF ValidSound, Validating
<1> QED BY <1>7, <1>9, <1>14, <1>17 DEF WaitInv

(* A commit touches the images of its own table only.                      *)
LEMMA CommitApart ==
  ASSUME TypeInv, PlaceInv, NEW t \in Tables, Committed(t), NEW u \in Tables, u # t
  PROVE  /\ Active'[u] = Active[u] /\ Prev'[u] = Prev[u] /\ Next'[u] = Next[u] /\ NextLocal(u)' = NextLocal(u)
         /\ \A s : Has(u, s)' <=> Has(u, s)
         /\ \A s : Has(u, s) => s \in Slots /\ Buffers'[s].Content = Buffers[s].Content
<1>1. Active'[u] = Active[u] /\ Prev'[u] = Prev[u] /\ Next'[u] = Next[u]
  BY DEF Committed, TypeInv, TypeOK
<1>2. ASSUME NEW s, Has(u, s) PROVE s \in Slots /\ s # Slot(NextLocal(t))
  <2>1. s \in Slots /\ (s \notin SharedSlots => s[1] = u)  BY <1>2, HasOwn
  <2>2. Slot(NextLocal(t)) \in Slots \ SharedSlots /\ Slot(NextLocal(t))[1] = t  BY RecordFacts DEF PlaceInv
  <2> QED BY <2>1, <2>2
<1>3. \A s : Has(u, s) => s \in Slots /\ Buffers'[s].Content = Buffers[s].Content  BY <1>2 DEF Committed
<1> QED BY <1>1, <1>3 DEF Has, NextLocal

(* CFE_TBL_UpdateInternal makes an image active that was found valid.      *)
LEMMA WaitUpdate ==
  ASSUME TypeInv, PlaceInv, WaitInv, NEW a \in Apps, op[a].tbl \in Tables, Owner[op[a].tbl] = a, ManageUpdate(a)
  PROVE  WaitInv'
<1>1. PICK t \in Tables : t = op[a].tbl  OBVIOUS
<1>2. op[a].at = "update" /\ UpdateInternal(t) /\ Goto(a, Idle) /\ PendingVal' = PendingVal /\ Val' = Val
  BY <1>1 DEF ManageUpdate, IsAt
<1>3. op'[a].at = "idle" /\ op'[TblTask] = op[TblTask] /\ \A c \in Apps : c # a => op'[c] = op[c]
  BY <1>2, GotoFacts, TaskFacts DEF Idle
<1>4. TaskWaits'  BY <1>2, <1>3 DEF WaitInv, TaskWaits
<1>5. Due(t)  BY <1>1, <1>2 DEF WaitInv, LoadsSound
<1>6. \A c \in Apps : Validating(c)' <=> Validating(c)  BY <1>2, <1>3 DEF Validating
<1>7. \A c \in Apps : Validating(c) => c # a /\ op[c].tbl \in Tables /\ op[c].tbl # t
  BY <1>1, <1>2, CallOf DEF Validating
<1>8. \A c \in Apps : c # a /\ op[c].at = "update" => op[c].tbl \in Tables /\ op[c].tbl # t
  BY <1>1, CallOf
<1>9. ~(Reading(TblTask) /\ op[TblTask].tbl = t)  BY <1>5 DEF WaitInv, LoadsSound, Due, ValidLoad
<1>10. Reading(TblTask) => op[TblTask].tbl \in Tables  BY TaskFacts DEF Reading, TypeInv, CallsTyped, CallTyped
<1>11. CASE UNCHANGED <<Active, Prev, Next, Buffers, Acc>>
  <2>1. \A u, s : Has(u, s)' <=> Has(u, s)  BY <1>11 DEF Has
  <2>2. OneRequest'  BY <1>2, <1>3, <1>6, <1>7, <2>1 DEF WaitInv, OneRequest
  <2>3. \A u : (NeverActive(u)' <=> NeverActive(u)) /\ (ValidLoad(u)' <=> ValidLoad(u))
    BY <1>11 DEF NeverActive, ValidLoad, NextLocal
  <2>4. ASSUME NEW c \in Apps, op'[c].at = "update" PROVE Due(op[c].tbl)'
    <3>1. op'[c] = op[c]  BY <1>3, <2>4
    <3>2. Due(op[c].tbl)  BY <2>4, <3>1 DEF WaitInv, LoadsSound
    <3> QED BY <1>11, <3>1, <3>2 DEF Due, ValidLoad
  <2>5. LoadsSound'  BY <1>3, <1>11, <2>3, <2>4 DEF WaitInv, LoadsSound, Reading
  <2>6. ValidSound'  BY <1>3, <1>11, <2>3 DEF WaitInv, ValidSound, OnlyValidActive
  <2> QED BY <1>4, <2>2, <2>5, <2>6 DEF WaitInv
<1>12. CASE Committed(t)
  <2>1. \A s \in Slots : /\ Buffers'[s].IsValid = Buffers[s].IsValid
                         /\ Buffers'[s].ActivateReq = Buffers[s].ActivateReq
    BY <1>12 DEF Committed
  <2>2. Active'[t] = NextLocal(t) /\ NextLocal(t) # NoId /\ Next'[t] = NoId
        /\ Buffers'[Slot(NextLocal(t))].Content = Buffers[Slot(Next[t])].Content
    <3>1. NextLocal(t) \in LocalIds /\ NextLocal(t) # NoId /\ Slot(NextLocal(t)) \in Slots
      BY RecordFacts, IdSlots DEF PlaceInv
    <3> QED BY <1>12, <3>1 DEF Committed, TypeInv, TypeOK
  <2>3. ASSUME NEW c \in Apps, Validating(c) PROVE (op[c].buf = NoSlot \/ Has(op[c].tbl, op[c].buf))'
    <3>1. PICK u \in Tables : u = op[c].tbl /\ u # t  BY <1>7, <2>3
    <3>2. op'[c] = op[c]  BY <1>3, <1>7, <2>3
    <3>3. PICK s0 : s0 = op[c].buf  OBVIOUS
    <3>4. s0 = NoSlot \/ Has(u, s0)  BY <2>3, <3>1, <3>3 DEF WaitInv, OneRequest
    <3>5. s0 = NoSlot \/ Has(u, s0)'  BY <1>12, <3>1, <3>4, CommitApart
    <3> QED BY <3>1, <3>2, <3>3, <3>5 DEF Has
  <2>4. OneRequest'
    <3>1. \A c \in Apps : Validating(c) => op'[c] = op[c]  BY <1>3, <1>7
    <3> QED BY <1>2, <1>6, <2>3, <3>1 DEF WaitInv, OneRequest
  <2>5. ASSUME NEW u \in Tables, u # t PROVE (NeverActive(u)' <=> NeverActive(u)) /\ (Due(u)' <=> Due(u)) /\ (ValidLoad(u)' <=> ValidLoad(u))
    <3>1. Active'[u] = Active[u] /\ Prev'[u] = Prev[u] /\ Next'[u] = Next[u] /\ NextLocal(u)' = NextLocal(u)
      BY <1>12, <2>5, CommitApart
    <3>2. Slot(NextLocal(u)) \in Slots /\ (Next[u] # NoId => Slot(Next[u]) \in Slots)  BY RecordFacts DEF PlaceInv
    <3> QED BY <2>1, <3>1, <3>2 DEF NeverActive, Due, ValidLoad
  <2>6. \A u \in Tables : NeverActive(u)'  BY <2>2, <2>5 DEF NeverActive, WaitInv, LoadsSound
  <2>7. ASSUME NEW c \in Apps, op'[c].at = "update" PROVE Due(op[c].tbl)'
    <3>1. c # a /\ op'[c] = op[c]  BY <1>3, <2>7
    <3>2. PICK u \in Tables : u = op[c].tbl /\ u # t  BY <1>8, <2>7, <3>1
    <3>3. Due(u)  BY <2>7, <3>1, <3>2 DEF WaitInv, LoadsSound
    <3>4. Due(u)'  BY <2>5, <3>2, <3>3
    <3> QED BY <3>1, <3>2, <3>4 DEF Due, ValidLoad
  <2>8. ASSUME Reading(TblTask)
        PROVE  LET o == op[TblTask] IN
               /\ Next'[o.tbl] # NoId /\ ~Buffers'[Slot(Next'[o.tbl])].IsValid
               /\ o.at = "read" => o.buf = Slot(Next'[o.tbl])
    <3>1. PICK u \in Tables : u = op[TblTask].tbl /\ u # t  BY <1>9, <1>10, <2>8
    <3>2. Next'[u] = Next[u]  BY <1>12, <3>1, CommitApart
    <3>3. /\ Next[u] # NoId /\ ~Buffers[Slot(Next[u])].IsValid
          /\ op[TblTask].at = "read" => op[TblTask].buf = Slot(Next[u])
      BY <2>8, <3>1 DEF WaitInv, LoadsSound
    <3>4. Slot(Next[u]) \in Slots  BY <3>3, RecordFacts DEF PlaceInv
    <3> QED BY <2>1, <3>1, <3>2, <3>3, <3>4
  <2>9. LoadsSound'  BY <1>3, <2>6, <2>7, <2>8 DEF LoadsSound, Reading
  <2>10. ASSUME NEW u \in Validated, Active'[u] # NoId PROVE Buffers'[Slot(Active'[u])].Content \in Good
    <3>1. CASE u = t  BY <1>5, <2>2, <2>10, <3>1 DEF Due, WaitInv, ValidSound
    <3>2. CASE u # t
      <4>1. u \in Tables  BY ValidTables
      <4>2. Active'[u] = Active[u]  BY <1>12, <3>2, <4>1, CommitApart
      <4>3. Has(u, Slot(Active[u])) /\ Buffers[Slot(Active[u])].Content \in Good
        BY <2>10, <4>2 DEF Has, WaitInv, ValidSound, OnlyValidActive
      <4> QED BY <1>12, <3>2, <4>1, <4>2, <4>3, CommitApart
    <3> QED BY <3>1, <3>2
  <2>11. ASSUME NEW u \in Validated, ValidLoad(u)' PROVE Buffers'[Slot(Next'[u])].Content \in Good
    <3>1. u \in Tables /\ u # t  BY <2>2, <2>11, ValidTables DEF ValidLoad
    <3>2. Next'[u] = Next[u] /\ ValidLoad(u)  BY <1>12, <2>5, <2>11, <3>1, CommitApart
    <3>3. Has(u, Slot(Next[u]))  BY <3>2 DEF ValidLoad, Has
    <3>4. Buffers'[Slot(Next[u])].Content = Buffers[Slot(Next[u])].Content  BY <1>12, <3>1, <3>3, CommitApart
    <3> QED BY <3>2, <3>4 DEF WaitInv, ValidSound
  <2>12. ASSUME NEW c \in Apps, op'[c].at = "verdict", op'[c].ok, op'[c].buf # NoSlot, op'[c].tbl \in Validated
         PROVE  Buffers'[op'[c].buf].Content \in Good
    <3>1. op'[c] = op[c] /\ Validating(c)  BY <1>3, <2>12 DEF Validating
    <3>2. PICK u \in Tables : u = op[c].tbl /\ u # t  BY <1>7, <3>1
    <3>3. Has(u, op[c].buf) /\ Buffers[op[c].buf].Content \in Good
      BY <2>12, <3>1, <3>2 DEF WaitInv, OneRequest, ValidSound
    <3>4. Buffers'[op[c].buf].Content = Buffers[op[c].buf].Content  BY <1>12, <3>2, <3>3, CommitApart
    <3> QED BY <3>1, <3>3, <3>4
  <2>13. ValidSound'  BY <2>10, <2>11, <2>12 DEF ValidSound, OnlyValidActive
  <2> QED BY <1>4, <2>4, <2>9, <2>13 DEF WaitInv
<1> QED BY <1>2, <1>11, <1>12, UpdateEffect DEF PlaceInv

(* The header of its file makes a load valid only if the table has no      *)
(* validation function; the load was not due.                              *)
LEMMA WaitHeader ==
  ASSUME TypeInv, PlaceInv, WaitInv, SetMetaDataFromFileHeader(TblTask)
  PROVE  WaitInv'
<1>1. PICK t \in Tables \ DumpOnly : t = op[TblTask].tbl  BY HeaderEffect
<1>2. /\ op[TblTask].at = "header" /\ Goto(TblTask, Idle)
      /\ UNCHANGED <<Active, Prev, Next, PendingVal>> /\ Val' = Val
      /\ \A s \in Slots : /\ Buffers'[s].Content = Buffers[s].Content
                          /\ s # Slot(Next[t]) => SameFlags(s)
                          /\ s = Slot(Next[t]) => Buffers'[s].IsValid = (t \notin Validated)
  BY <1>1, HeaderEffect
<1>3. /\ op'[TblTask].at = "idle"
      /\ \A a \in Apps : op'[a] = op[a]
  BY <1>2, GotoFacts, TaskFacts DEF Idle
<1>4. Next[t] # NoId /\ ~Buffers[Slot(Next[t])].IsValid
  BY <1>1, <1>2 DEF WaitInv, LoadsSound, Reading
<1>5. /\ \A u \in Tables : Next[u] # NoId => Slot(Next[u]) \in Slots
      /\ \A u \in Tables : Active[u] # NoId => Slot(Active[u]) \in Slots
      /\ \A u \in Tables : Slot(NextLocal(u)) \in Slots \ SharedSlots /\ Slot(NextLocal(u))[1] = u
      /\ \A u \in Tables : NextLocal(u)' = NextLocal(u)
  BY <1>2, RecordFacts DEF PlaceInv, NextLocal
<1>6. TaskWaits' /\ OneRequest'
  <2>1. TaskWaits'  BY <1>3 DEF TaskWaits
  <2>2. \A a \in Apps : (Validating(a)' <=> Validating(a)) /\ op'[a] = op[a]  BY <1>3 DEF Validating
  <2>3. \A u, s : Has(u, s)' <=> Has(u, s)  BY <1>2 DEF Has
  <2>4. OneRequest'  BY <1>2, <2>2, <2>3 DEF WaitInv, OneRequest
  <2> QED BY <2>1, <2>4
<1>7. ASSUME NEW u \in Tables, u # t, Next[u] # NoId PROVE Slot(Next[u]) # Slot(Next[t])
  <2>1. PICK s : s = Slot(Next[t])  OBVIOUS
  <2>2. Has(t, s)  BY <1>4, <2>1 DEF Has
  <2>3. s \in SharedSlots \/ s[1] = t  BY <2>2, HasOwn
  <2>4. CASE s \in SharedSlots
    BY <1>7, <2>1, <2>4 DEF PlaceInv, OneHolder, HeldOnce, LoadHas
  <2>5. CASE s \notin SharedSlots
    <3>1. Slot(Next[u]) = s => Slot(NextLocal(u)) = s  BY <1>7, <2>5, RecordFacts DEF PlaceInv
    <3> QED BY <1>5, <1>7, <2>1, <2>3, <2>5, <3>1
  <2> QED BY <2>4, <2>5
<1>8. ASSUME NEW u \in Tables, Next[u] = NoId PROVE SameFlags(Slot(NextLocal(u)))
  <2>1. PICK s : s = Slot(Next[t])  OBVIOUS
  <2>2. Has(t, s)  BY <1>4, <2>1 DEF Has
  <2>3. s \in SharedSlots \/ s[1] = t  BY <2>2, HasOwn
  <2>4. u # t  BY <1>4, <1>8
  <2> QED BY <1>2, <1>5, <2>1, <2>3, <2>4
<1>9. LoadsSound'
  <2>1. ASSUME NEW u \in Tables PROVE NeverActive(u)'
    <3>1. NeverActive(u)  BY DEF WaitInv, LoadsSound
    <3> QED BY <1>2, <1>5, <1>8, <3>1 DEF NeverActive, SameFlags
  <2>2. ASSUME NEW a \in Apps, op[a].at = "update" PROVE Due(op[a].tbl)'
    <3>1. PICK u \in Tables : u = op[a].tbl  BY <2>2, CallOf
    <3>2. Due(u)  BY <2>2, <3>1 DEF WaitInv, LoadsSound
    <3>3. u # t  BY <1>4, <3>2 DEF Due, ValidLoad
    <3>4. Next[u] # NoId  BY <3>2 DEF Due, ValidLoad
    <3>5. PICK s : s = Slot(Next[u])  OBVIOUS
    <3>6. s \in Slots /\ s # Slot(Next[t])  BY <1>5, <1>7, <3>3, <3>4, <3>5
    <3>7. SameFlags(s)  BY <1>2, <3>6
    <3>8. Next'[u] = Next[u]  BY <1>2
    <3>9. Due(u)'  BY <3>2, <3>5, <3>7, <3>8 DEF Due, ValidLoad, SameFlags
    <3> QED BY <1>3, <3>1, <3>9 DEF Due, ValidLoad
  <2> QED BY <1>3, <2>1, <2>2 DEF LoadsSound, Reading
<1>10. ValidSound'
  <2>1. OnlyValidActive'  BY <1>2, <1>5, ValidTables DEF WaitInv, ValidSound, OnlyValidActive
  <2>2. ASSUME NEW u \in Validated, ValidLoad(u)' PROVE Buffers'[Slot(Next'[u])].Content \in Good
    <3>1. u \in Tables /\ Next[u] # NoId  BY <1>2, <2>2, ValidTables DEF ValidLoad
    <3>2. u # t  BY <1>2, <1>4, <1>5, <2>2, <3>1 DEF ValidLoad
    <3>3. ValidLoad(u)  BY <1>2, <1>5, <1>7, <2>2, <3>1, <3>2 DEF ValidLoad, SameFlags
    <3> QED BY <1>2, <1>5, <3>1, <3>3 DEF WaitInv, ValidSound
  <2>3. ASSUME NEW a \in Apps, op[a].at = "verdict", op[a].ok, op[a].buf # NoSlot, op[a].tbl \in Validated
        PROVE  Buffers'[op[a].buf].Content \in Good
    <3>1. Validating(a)  BY <2>3 DEF Validating
    <3>2. Has(op[a].tbl, op[a].buf)  BY <2>3, <3>1 DEF WaitInv, OneRequest
    <3>3. op[a].buf \in Slots  BY <2>3, <3>2, HasOwn, ValidTables
    <3> QED BY <1>2, <2>3, <3>3 DEF WaitInv, ValidSound
  <2> QED BY <1>3, <2>1, <2>2, <2>3 DEF ValidSound
<1> QED BY <1>6, <1>9, <1>10 DEF WaitInv

(* Every step keeps WaitInv,                                               *)
LEMMA WaitStep ==
  ASSUME TypeInv, PlaceInv, WaitInv, Waits, [NextStep]_vars, TypeInv', PlaceInv'
  PROVE  WaitInv'
<1>1. CASE UNCHANGED vars
  <2>1. /\ UNCHANGED <<Active, Prev, Next, PendingVal, Buffers, Val, op>>  BY <1>1 DEF vars, regVars
  <2>2. TaskWaits' /\ OneRequest'  BY <2>1, SameRequests
  <2>3. \A u : (NeverActive(u)' <=> NeverActive(u)) /\ (ValidLoad(u)' <=> ValidLoad(u)) /\ (Due(u)' <=> Due(u))
    BY <2>1 DEF NeverActive, ValidLoad, Due, NextLocal
  <2>4. ASSUME NEW c \in Apps, op[c].at = "update" PROVE Due(op[c].tbl)'
    <3>1. Due(op[c].tbl)  BY <2>4 DEF WaitInv, LoadsSound
    <3> QED BY <2>1, <3>1 DEF Due, ValidLoad
  <2>5. LoadsSound'  BY <2>1, <2>3, <2>4 DEF WaitInv, LoadsSound, Reading
  <2>6. ValidSound'  BY <2>1, <2>3 DEF WaitInv, ValidSound, OnlyValidActive
  <2> QED BY <2>2, <2>5, <2>6 DEF WaitInv
<1>2. CASE NextStep
  <2>1. ReadsLoad /\ op[TblTask].at # "abort"
    BY DEF WaitInv, LoadsSound, Reading, ReadsLoad, TaskWaits
  <2>2. CASE Quiet  BY <2>2, QuietRequests, QuietLoads, QuietValid DEF WaitInv
  <2>3. ASSUME NEW a \in Apps, Ruling(a) PROVE WaitInv'
    BY <2>3, WaitUpdate, WaitTaken, WaitFunc, WaitVerdict DEF Ruling
  <2> QED BY <1>2, <2>1, <2>2, <2>3, WaitSteps, WaitHeader, WaitActivate, WaitLoad, WaitValidate
<1> QED BY <1>1, <1>2

(* which holds at first.                                                   *)
LEMMA WaitInit ==
  Init => WaitInv
<1> SUFFICES ASSUME Init PROVE WaitInv  OBVIOUS
<1>1. PICK i \in Good : Buffers = [s \in Slots |-> InitBuff(s, i)]  BY DEF Init
<1>2. /\ \A p \in Procs : op[p] = Idle
      /\ \A t \in Tables : PendingVal[t] = NoVal /\ Next[t] = NoId
      /\ \A v \in Vals : Val[v].State = "FREE"
      /\ \A t \in Tables : Active[t] = IF t \in Loaded THEN LastLoad(t) ELSE IF t \in DumpOnly THEN FirstLoad(t) ELSE NoId
      /\ \A t \in Tables : Prev[t] = IF t \in Reloaded THEN FirstLoad(t) ELSE NoId
  BY DEF Init
<1>3. \A p \in Procs : op[p].at = "idle"  BY <1>2 DEF Idle
<1>4. \A a \in Apps : op[a].at = "idle" /\ op[TblTask].at = "idle"  BY <1>3, TaskFacts
<1>5. op[TblTask].at = "idle"  BY <1>3, TaskFacts
<1>6. TaskWaits  BY <1>2, <1>5 DEF TaskWaits
<1>7. OneRequest  BY <1>2, <1>4 DEF OneRequest, Validating
<1>8. ASSUME NEW t \in Tables PROVE NeverActive(t)
  <2> SUFFICES ASSUME Active[t] = NoId PROVE Prev[t] = NoId /\ ~Buffers[Slot(NextLocal(t))].IsValid
    BY DEF NeverActive
  <2>1. TypeInv /\ RecordsSound  BY TypeInit, PlaceInit DEF PlaceInv
  <2>2. Slot(NextLocal(t)) \in Slots /\ Slot(NextLocal(t))[1] = t  BY <2>1, RecordFacts
  <2>3. LastLoad(t) # NoId /\ FirstLoad(t) # NoId
    <3>1. LastLoad(t) \in LocalIds /\ FirstLoad(t) \in LocalIds  BY Sizes DEF LocalIds, LastLoad, FirstLoad
    <3> QED BY <3>1, IdParts
  <2>4. t \notin Loaded /\ t \notin DumpOnly /\ t \notin Reloaded  BY <1>2, <2>3, TableAssumption
  <2>5. Prev[t] = NoId  BY <1>2, <2>4
  <2>6. Buffers[Slot(NextLocal(t))] = FreeBuff  BY <1>1, <2>2, <2>4 DEF InitBuff
  <2> QED BY <2>5, <2>6 DEF FreeBuff
<1>9. LoadsSound  BY <1>4, <1>5, <1>8 DEF LoadsSound, Reading
<1>10. ASSUME NEW t \in Validated, Active[t] # NoId PROVE Buffers[Slot(Active[t])].Content \in Good
  <2>1. t \in Tables \ DumpOnly  BY ValidTables
  <2>2. t \in Loaded /\ Active[t] = LastLoad(t)  BY <1>2, <1>10, <2>1
  <2>3. Slot(LastLoad(t)) \in Slots /\ Slot(LastLoad(t))[1] = t
    <3>1. LastLoad(t) \in LocalIds /\ LastLoad(t)[1] = t  BY <2>1, Sizes DEF LocalIds, LastLoad
    <3> QED BY <3>1, SlotKinds
  <2>4. PICK s : s = Slot(LastLoad(t))  OBVIOUS
  <2>5. s \in Slots /\ s[1] = t  BY <2>3, <2>4
  <2>6. Buffers[s] = [Id |-> IF t \in DoubleBuffered \cup Reloaded THEN LastLoad(t) ELSE NoId,
                      IsValid |-> TRUE, ActivateReq |-> TRUE, Content |-> i]
    BY <1>1, <2>1, <2>2, <2>4, <2>5 DEF InitBuff
  <2>7. Buffers[s].Content = i  BY <2>6
  <2> QED BY <2>2, <2>4, <2>7
<1>11. ValidSound  BY <1>2, <1>4, <1>10, ValidTables DEF ValidSound, OnlyValidActive, ValidLoad
<1> QED BY <1>6, <1>7, <1>9, <1>11 DEF WaitInv

(* An image that is to become active stays while it is in progress.        *)
LEMMA DueStays ==
  ASSUME TypeInv, PlaceInv, WaitInv, Waits, NextStep, NEW t \in Tables, Due(t), Next'[t] = Next[t]
  PROVE  Buffers'[Slot(Next[t])].Content = Buffers[Slot(Next[t])].Content
<1>1. Next[t] # NoId /\ t \notin DumpOnly  BY DumpOnlyIs DEF Due, ValidLoad
<1>2. PICK s : s = Slot(Next[t])  OBVIOUS
<1>3. Has(t, s) /\ s \in Slots  BY <1>1, <1>2, HasOwn DEF Has
<1>4. SUFFICES Buffers'[s].Content = Buffers[s].Content  BY <1>2
<1>5. CASE Quiet
  <2>1. ~(Reading(TblTask) /\ op[TblTask].tbl = t)  BY DEF WaitInv, LoadsSound, Due, ValidLoad
  <2> QED BY <1>1, <1>3, <1>5, <2>1 DEF Quiet, Untouched
<1>6. ASSUME NEW u \in Tables, ActivateCmd(u) PROVE Buffers'[s].Content = Buffers[s].Content
  <2>1. Buffers' = Buffers \/ Buffers' = [Buffers EXCEPT ![LoadBuf(u)].ActivateReq = TRUE]  BY <1>6 DEF ActivateCmd
  <2>2. CASE Buffers' = Buffers  BY <2>2
  <2>3. CASE Buffers' = [Buffers EXCEPT ![LoadBuf(u)].ActivateReq = TRUE]  BY <1>3, <2>3, Fields
  <2> QED BY <2>1, <2>2, <2>3
<1>7. ASSUME NEW b, NEW s0, Buffers' = Buffers \/ Buffers' = [Buffers EXCEPT ![s0].IsValid = b]
      PROVE  Buffers'[s].Content = Buffers[s].Content
  <2>1. Buffers[s] \in LoadBuff /\ Buffers \in [Slots -> LoadBuff]  BY <1>3 DEF TypeInv, TypeOK
  <2>2. Buffers'[s] \in {Buffers[s], [Buffers[s] EXCEPT !.IsValid = b]}  BY <1>3, <1>7, <2>1
  <2> QED BY <2>1, <2>2 DEF LoadBuff
<1>8. ASSUME NEW u \in Tables, NEW v \in Vals, NEW select \in {"INACTIVE", "ACTIVE"}, ValidateCmd(u, select, v)
      PROVE  Buffers'[s].Content = Buffers[s].Content
  <2>1. Buffers' = Buffers \/ Buffers' = [Buffers EXCEPT ![SelectedBuffer(u, select)].IsValid = TRUE]
    BY <1>8 DEF ValidateCmd
  <2> QED BY <1>7, <2>1
<1>9. ASSUME NEW u \in Tables, NEW i \in Images, LoadCmd(u, i) PROVE Buffers'[s].Content = Buffers[s].Content
  <2>1. Next[u] = NoId /\ GetWorkingBuffer(u)  BY <1>9 DEF LoadCmd
  <2>2. PICK id \in BufferIds, b \in LoadBuff : Reserved(u, id, b)  BY <2>1, Reserves DEF TypeInv
  <2>3. u # t  BY <1>1, <2>1
  <2>4. s # Slot(id)
    <3>1. CASE id \in SharedIds
      <4>1. Slot(id) \in SharedSlots /\ Buffers[Slot(id)].Id = NoId
        BY <2>2, <3>1, SlotKinds, RecordFacts, IdParts DEF Reserved, PlaceInv
      <4> QED BY <1>3, <4>1, HasOwn, FreeSlot DEF PlaceInv
    <3>2. CASE id = NextLocal(u)
      <4>1. Slot(id) \notin SharedSlots /\ Slot(id)[1] = u  BY <3>2, RecordFacts DEF PlaceInv
      <4> QED BY <1>3, <2>3, <4>1, HasOwn
    <3> QED BY <2>2, <3>1, <3>2 DEF Reserved
  <2>5. Buffers \in [Slots -> LoadBuff] /\ Buffers' = [Buffers EXCEPT ![Slot(id)] = b]
    BY <2>2 DEF Reserved, TypeInv, TypeOK
  <2> QED BY <1>3, <2>4, <2>5
<1>10. ASSUME NEW a \in Apps, Ruling(a) PROVE Buffers'[s].Content = Buffers[s].Content
  <2>1. CASE Validate(a) \/ ValidationFunc(a)  BY <2>1 DEF Validate, ValidationFunc
  <2>2. CASE ValidateDone(a)
    <3>1. PICK b, s0 : b = op[a].ok /\ s0 = op[a].buf  OBVIOUS
    <3>2. Buffers' = Buffers \/ Buffers' = [Buffers EXCEPT ![s0].IsValid = b]  BY <2>2, <3>1 DEF ValidateDone
    <3> QED BY <1>7, <3>2
  <2>3. CASE ManageUpdate(a)
    <3>1. PICK u \in Tables : u = op[a].tbl /\ UpdateInternal(u)  BY <1>10, <2>3 DEF Ruling, ManageUpdate
    <3>2. CASE Committed(u)
      <4>1. u # t
        <5>1. Next' = [Next EXCEPT ![u] = NoId] /\ Next \in [Tables -> BufferIds \cup {NoId}]
          BY <3>2 DEF Committed, TypeInv, TypeOK
        <5> QED BY <1>1, <5>1
      <4> QED BY <1>3, <3>2, <4>1, CommitApart
    <3> QED BY <3>1, <3>2, UpdateEffect DEF PlaceInv
  <2> QED BY <1>10, <2>1, <2>2, <2>3 DEF Ruling
<1>11. ReadsLoad /\ op[TblTask].at # "abort"
  BY DEF WaitInv, LoadsSound, Reading, ReadsLoad, TaskWaits
<1>12. CASE SetMetaDataFromFileHeader(TblTask)  BY <1>3, <1>12, HeaderEffect
<1> QED BY <1>5, <1>6, <1>8, <1>9, <1>10, <1>11, <1>12, WaitSteps

(* OnlyValidActive: no image becomes active that the validation function   *)
(* of its table rejects (CFE_TBL_ValidateCmd, CFE_TBL_ActivateCmd,         *)
(* CFE_TBL_Validate, CFE_TBL_UpdateInternal), as long as the ground waits  *)
(* for the results of validations and aborts no load, and owners do not    *)
(* load tables themselves.                                                 *)
THEOREM ActiveValid ==
  ASSUME Waits
  PROVE  Spec => []OnlyValidActive
<1> DEFINE IInv == TypeInv /\ PlaceInv /\ WaitInv
<1>0. NoLoad  BY DEF Waits, NoLoad
<1>1. Init => IInv  BY TypeInit, PlaceInit, WaitInit
<1>2. IInv /\ [NextStep]_vars => IInv'  BY <1>0, TypeStep, PlaceStep, WaitStep
<1>3. IInv => OnlyValidActive  BY DEF WaitInv, ValidSound
<1> QED BY <1>1, <1>2, <1>3, PTL DEF Spec

(* PendingImageStable: between its activation by command and the update by *)
(* its owner (CFE_TBL_Manage) nobody writes to the image that is to become *)
(* active, under the same conditions.                                      *)
THEOREM PendingKept ==
  ASSUME Waits
  PROVE  Spec => PendingImageStable
<1> DEFINE IInv == TypeInv /\ PlaceInv /\ WaitInv
           Step == \A t \in Tables : UpdatePending(t) /\ Next'[t] = Next[t]
                     => Buffers'[Slot(Next[t])].Content = Buffers[Slot(Next[t])].Content
<1>0. NoLoad  BY DEF Waits, NoLoad
<1>1. Init => IInv  BY TypeInit, PlaceInit, WaitInit
<1>2. IInv /\ [NextStep]_vars => IInv'  BY <1>0, TypeStep, PlaceStep, WaitStep
<1>3. IInv /\ [NextStep]_vars => [Step]_vars
  <2> SUFFICES ASSUME IInv, NextStep PROVE Step  OBVIOUS
  <2> QED BY DueIs, DueStays
<1>4. Spec => [][Step]_vars  BY <1>1, <1>2, <1>3, PTL DEF Spec
<1> QED BY <1>4 DEF PendingImageStable

(* A step that leaves addresses, locks, records and the IDs of tables'     *)
(* buffers alone.                                                          *)
OwnIds  == \A s \in Slots \ SharedSlots : Buffers'[s].Id = Buffers[s].Id
Lending ==
  /\ UNCHANGED <<Active, Next, ptr>> /\ OwnIds
  /\ \A a \in Apps, t \in Tables \ DumpOnly :
       Acc'[a][t].LockFlag = Acc[a][t].LockFlag /\ Acc'[a][t].BufferIndex = Acc[a][t].BufferIndex

(* A slot of a table is not a shared one.                                  *)
LEMMA OwnSlots ==
  ASSUME NEW s \in Slots, NEW t \in Tables, s[1] = t
  PROVE  s \notin SharedSlots
BY SlotParts

(* Such a step keeps what readers rely on.                                 *)
LEMMA ReadersLend ==
  ASSUME TypeInv, PlaceInv, ReadersInv, Lending
  PROVE  ReadersInv'
<1> SUFFICES ASSUME NEW t \in Tables \ DumpOnly PROVE ActiveSound(t)' /\ \A a \in Apps : ReaderSound(a, t)'
  BY DEF ReadersInv
<1>1. ActiveSound(t) /\ \A a \in Apps : ReaderSound(a, t)  BY DEF ReadersInv
<1>2. Active[t] # NoId => Slot(Active[t]) \in Slots \ SharedSlots  BY RecordFacts DEF PlaceInv
<1>3. ActiveSound(t)'  BY <1>1, <1>2 DEF ActiveSound, Lending, OwnIds
<1>4. NextLocal(t)' = NextLocal(t)  BY DEF Lending, NextLocal
<1>5. ASSUME NEW a \in Apps PROVE ReaderSound(a, t)'
  <2>1. ptr[a][t] # NoSlot => ptr[a][t] \in Slots \ SharedSlots  BY <1>1, OwnSlots DEF ReaderSound
  <2> QED BY <1>1, <1>4, <2>1 DEF ReaderSound, Lending, OwnIds
<1> QED BY <1>3, <1>5

(* Which buffers get or lose an ID.                                        *)
LEMMA LendByField ==
  ASSUME TypeInv, PlaceInv,
         \/ Buffers' = Buffers
         \/ \E s, v : \/ Buffers' = [Buffers EXCEPT ![s].Content = v]
                      \/ Buffers' = [Buffers EXCEPT ![s].IsValid = v]
                      \/ Buffers' = [Buffers EXCEPT ![s].ActivateReq = v]
         \/ \E s \in SharedSlots : \E v : Buffers' = [Buffers EXCEPT ![s].Id = v]
  PROVE  OwnIds
<1>1. Buffers \in [Slots -> LoadBuff]  BY DEF TypeInv, TypeOK
<1>2. CASE \E s \in SharedSlots : \E v : Buffers' = [Buffers EXCEPT ![s].Id = v]
  <2>1. PICK s \in SharedSlots : \E v : Buffers' = [Buffers EXCEPT ![s].Id = v]  BY <1>2
  <2> QED BY <1>1, <2>1 DEF OwnIds
<1>3. CASE Buffers' = Buffers  BY <1>3 DEF OwnIds
<1>4. CASE \E s, v : \/ Buffers' = [Buffers EXCEPT ![s].Content = v]
                     \/ Buffers' = [Buffers EXCEPT ![s].IsValid = v]
                     \/ Buffers' = [Buffers EXCEPT ![s].ActivateReq = v]
  <2>1. \A x \in Slots : Buffers'[x].Id = Buffers[x].Id  BY <1>1, <1>4, FieldIds
  <2> QED BY <2>1 DEF OwnIds
<1> QED BY <1>2, <1>3, <1>4

(* A step that leaves records, addresses and descriptors alone lends.      *)
LEMMA LendSame ==
  ASSUME UNCHANGED <<Active, Next, ptr, Acc>>, OwnIds
  PROVE  Lending
BY DEF Lending

(* Ground commands other than a load,                                      *)
LEMMA LendCommands ==
  ASSUME TypeInv, PlaceInv, Waits, NEW t \in Tables, GroundCommand(t), \A i \in Images : ~LoadCmd(t, i)
  PROVE  Lending
<1>1. CASE ActivateCmd(t)
  <2>1. /\ UNCHANGED <<Active, Next, ptr, Acc>>
        /\ Buffers' = Buffers \/ \E s, v : Buffers' = [Buffers EXCEPT ![s].ActivateReq = v]
    BY <1>1, RecordFacts DEF ActivateCmd, PlaceInv
  <2> QED BY <2>1, LendByField, LendSame
<1>2. ASSUME NEW v \in Vals, NEW select \in {"INACTIVE", "ACTIVE"}, ValidateCmd(t, select, v) PROVE Lending
  <2>1. /\ UNCHANGED <<Active, Next, ptr, Acc>>
        /\ Buffers' = Buffers \/ \E s, w : Buffers' = [Buffers EXCEPT ![s].IsValid = w]
    BY <1>2, RecordFacts DEF ValidateCmd, PlaceInv
  <2> QED BY <2>1, LendByField, LendSame
<1>3. ASSUME NEW select \in {"INACTIVE", "ACTIVE"}, DumpCmd(t, select) PROVE Lending
  <2>1. UNCHANGED <<Active, Next, ptr, Acc, Buffers>>
    BY <1>3, RecordFacts DEF DumpCmd, AllocateDumpCtrlBlock, PlaceInv
  <2> QED BY <2>1, LendByField, LendSame
<1>4. ~AbortLoadCmd(t)  BY DEF AbortLoadCmd, Command, Waits
<1> QED BY <1>1, <1>2, <1>3, <1>4 DEF GroundCommand

(* dumps and housekeeping,                                                 *)
LEMMA LendDumps ==
  ASSUME TypeInv, PlaceInv, PrepareDump \/ SnapshotBegin \/ SnapshotEnd \/ SendHkCmd
  PROVE  Lending
<1>1. UNCHANGED <<Active, Next, ptr, Acc>>
  BY ZenonT(30) DEF PrepareDump, SnapshotBegin, SnapshotEnd, SendHkCmd, regVars
<1>2. CASE PrepareDump
  <2>1. CASE FreeShared = {}
    <3>1. Buffers' = Buffers  BY <1>2, <2>1 DEF PrepareDump
    <3> QED BY <1>1, <3>1, LendByField, LendSame
  <2>2. CASE FreeShared # {}
    <3>1. LastLoadBuffId \in 0..(NumShared * Wrap - 1)  BY DEF TypeInv, TypeOK
    <3>2. Slot(NextShared) \in SharedSlots  BY <2>2, <3>1, NextSharedFree, SlotKinds
    <3>3. Buffers' = [Buffers EXCEPT ![Slot(NextShared)].Id = NextShared]  BY <1>2, <2>2 DEF PrepareDump
    <3> QED BY <1>1, <3>2, <3>3, LendByField, LendSame
  <2> QED BY <2>1, <2>2
<1>3. CASE SnapshotBegin
  <2>1. op[TblTask].at = "snapshot"  BY <1>3 DEF SnapshotBegin, IsAt
  <2>2. PICK s : s = DumpControlBlocks[Block(op[TblTask].dump)].Buf  OBVIOUS
  <2>3. s \in SharedSlots  BY <2>1, <2>2 DEF PlaceInv, DumpSound
  <2>4. Buffers' = Buffers \/ Buffers' = [Buffers EXCEPT ![s].Id = NoId]  BY <1>3, <2>2 DEF SnapshotBegin
  <2> QED BY <1>1, <2>3, <2>4, LendByField, LendSame
<1>4. CASE SnapshotEnd
  <2>1. \E s, v : Buffers' = [Buffers EXCEPT ![s].Content = v]  BY <1>4 DEF SnapshotEnd
  <2> QED BY <1>1, <2>1, LendByField, LendSame
<1>5. CASE SendHkCmd
  <2>1. PICK W : W = {DumpControlBlocks[b].Buf : b \in Taken}  OBVIOUS
  <2>2. Buffers' = [s \in Slots |-> IF s \in W THEN [Buffers[s] EXCEPT !.Id = NoId] ELSE Buffers[s]]
    BY <1>5, <2>1 DEF SendHkCmd
  <2>3. \A b \in Taken : DumpControlBlocks[b].Buf \in SharedSlots  BY TakenIs, BlockTyped DEF Taken
  <2>4. W \subseteq SharedSlots  BY <2>1, <2>3
  <2>5. OwnIds  BY <2>2, <2>4 DEF OwnIds
  <2> QED BY <1>1, <2>5, LendSame
<1> QED BY SMTT(20), <1>2, <1>3, <1>4, <1>5

(* the reading of a file into a load,                                      *)
LEMMA LendReading ==
  ASSUME TypeInv, PlaceInv, NEW p \in Procs,
         ReadBegin(p) \/ ReadEnd(p) \/ SetMetaDataFromFileHeader(p) \/ ReadFail(p)
  PROVE  Lending
<1>1. op[p].at \in {"open", "read", "header"} /\ op[p].tbl \in Tables
  BY DEF TypeInv, CallsTyped, CallTyped, ReadBegin, ReadEnd, SetMetaDataFromFileHeader, ReadFail, IsAt
<1>2. PICK t \in Tables : t = op[p].tbl  BY <1>1
<1>3. ClearStale(t) => Next' = Next  BY RecordFacts DEF PlaceInv
<1>4. UNCHANGED <<Active, Next, ptr, Acc>>
  BY <1>2, <1>3 DEF ReadBegin, ReadEnd, SetMetaDataFromFileHeader, ReadFail, regVars
<1>5. Buffers \in [Slots -> LoadBuff]  BY DEF TypeInv, TypeOK
<1>6. CASE ReadBegin(p) \/ ReadFail(p)
  <2>1. Buffers' = Buffers \/ \E s, v : Buffers' = [Buffers EXCEPT ![s].Content = v]
    BY <1>6 DEF ReadBegin, ReadFail
  <2> QED BY <1>4, <2>1, LendByField, LendSame
<1>7. CASE ReadEnd(p)
  <2>1. PICK W, i : Buffers' = [s \in Slots |-> IF s \in W THEN [Buffers[s] EXCEPT !.Content = i] ELSE Buffers[s]]
    BY <1>7 DEF ReadEnd
  <2>2. OwnIds  BY <1>5, <2>1 DEF OwnIds, LoadBuff
  <2> QED BY <1>4, <2>2, LendSame
<1>8. CASE SetMetaDataFromFileHeader(p)
  <2>1. OwnIds  BY <1>8, HeaderKeeps DEF OwnIds
  <2> QED BY <1>4, <2>1, LendSame
<1> QED BY <1>6, <1>7, <1>8

(* the steps of an owner other than an update,                             *)
LEMMA LendOwner ==
  ASSUME TypeInv, PlaceInv, NEW a \in Apps, op[a].tbl \in Tables,
         \/ ManageAgain(a) \/ Validate(a) \/ ValidationFunc(a) \/ ValidateDone(a) \/ DumpToBuffer(a)
  PROVE  Lending
<1>1. PICK t \in Tables : t = op[a].tbl  OBVIOUS
<1>2. ClearStale(t) => Next' = Next  BY RecordFacts DEF PlaceInv
<1>3. UNCHANGED <<Active, Next, ptr, Acc>>
  BY ZenonT(30), <1>1, <1>2 DEF ManageAgain, Validate, ValidationFunc, ValidateDone, DumpToBuffer, regVars
<1>4. \/ Buffers' = Buffers
      \/ \E s, v : Buffers' = [Buffers EXCEPT ![s].Content = v]
      \/ \E s, v : Buffers' = [Buffers EXCEPT ![s].IsValid = v]
  BY Zenon DEF ManageAgain, Validate, ValidationFunc, ValidateDone, DumpToBuffer
<1> QED BY <1>3, <1>4, LendByField, LendSame

(* CFE_TBL_Modified tells the readers of a dump-only table.                *)
LEMMA LendModified ==
  ASSUME TypeInv, PlaceInv, NEW a \in Apps, NEW i \in Images, Modified(a, i)
  PROVE  Lending
<1>1. op[a].at = "modify" /\ op[a].tbl \in DumpOnly
  BY TaskFacts DEF Modified, IsAt, PlaceInv, CallsPlaced
<1>2. PICK u \in DumpOnly : u = op[a].tbl  BY <1>1
<1>3. /\ UNCHANGED <<Active, Next, ptr>> /\ \E s, v : Buffers' = [Buffers EXCEPT ![s].Content = v]
      /\ Acc' = [b \in Apps |-> IF b \in Accessors[u] \ {a} THEN [Acc[b] EXCEPT ![u].Updated = TRUE] ELSE Acc[b]]
  BY <1>2 DEF Modified, regVars
<1>4. Acc \in [Apps -> [Tables -> AccessDesc]]  BY DEF TypeInv, TypeOK
<1>5. \A b \in Apps, t \in Tables \ DumpOnly : Acc'[b][t] = Acc[b][t]  BY <1>2, <1>3, <1>4
<1>6. OwnIds  BY <1>3, LendByField
<1> QED BY <1>3, <1>5, <1>6 DEF Lending

(* and the calls that begin them.                                          *)
LEMMA LendCalls ==
  ASSUME TypeInv, PlaceInv, NEW a \in Apps, NEW t \in Tables, Manage(a, t) \/ Modify(a, t)
  PROVE  Lending
<1>1. UNCHANGED <<Active, Next, ptr, Acc>>  BY DEF Manage, Modify, regVars
<1>2. Buffers' = Buffers \/ \E s, v : Buffers' = [Buffers EXCEPT ![s].Content = v]  BY DEF Manage, Modify
<1> QED BY <1>1, <1>2, LendByField, LendSame

(* The steps that are not of this kind.                                    *)
LEMMA LendSteps ==
  ASSUME TypeInv, PlaceInv, Waits, op[TblTask].at # "abort", NextStep
  PROVE  \/ Lending
         \/ \E t \in Tables, i \in Images : LoadCmd(t, i)
         \/ \E t \in Tables, a \in Apps : GetAddress(a, t) \/ ReleaseAddress(a, t)
         \/ \E a \in Apps : op[a].tbl \in Tables /\ Owner[op[a].tbl] = a /\ ManageUpdate(a)
<1>1. ASSUME NEW t \in Tables, GroundCommand(t), ~\E i \in Images : LoadCmd(t, i) PROVE Lending
  BY <1>1, LendCommands
<1>2. ASSUME NEW t \in Tables, NEW a \in Apps, Call(a, t), ~GetAddress(a, t), ~ReleaseAddress(a, t) PROVE Lending
  <2>1. ~Update(a, t) /\ \A i \in Images : ~Load(a, t, i)  BY DEF Update, Load, Waits
  <2> QED BY <1>2, <2>1, LendCalls DEF Call
<1>3. CASE SendHkCmd  BY <1>3, LendDumps
<1>4. ASSUME NEW p \in Procs, Continue(p),
             ~\E a \in Apps : op[a].tbl \in Tables /\ Owner[op[a].tbl] = a /\ ManageUpdate(a)
      PROVE  Lending
  <2>0. CallTyped(op[p])  BY DEF TypeInv, CallsTyped
  <2>1. CASE ReadBegin(p) \/ ReadEnd(p) \/ SetMetaDataFromFileHeader(p) \/ ReadFail(p)  BY <2>1, LendReading
  <2>2. ~(LoadReserve(p) \/ LoadNoBuffer(p) \/ ValidateLoad(p) \/ LoadDrop(p) \/ LoadFinish(p) \/ LoadCommit(p))
    BY DEF PlaceInv, CallsPlaced, LoadReserve, LoadNoBuffer, ValidateLoad, LoadDrop, LoadFinish, LoadCommit, IsAt
  <2>3. ~AbortLoad  BY DEF AbortLoad, IsAt
  <2>4. CASE PrepareDump \/ SnapshotBegin \/ SnapshotEnd  BY <2>4, LendDumps
  <2>5. CASE \/ ManageAgain(p) \/ ManageUpdate(p) \/ Validate(p) \/ ValidationFunc(p) \/ ValidateDone(p)
             \/ DumpToBuffer(p) \/ \E i \in Images : Modified(p, i)
    <3>1. op[p].at \in {"manage", "update", "validate", "run", "verdict", "take", "modify"}
      BY Zenon, <2>5 DEF ManageAgain, ManageUpdate, Validate, ValidationFunc, ValidateDone, DumpToBuffer, Modified, IsAt
    <3>2. p \in Apps /\ op[p].tbl \in Tables /\ Owner[op[p].tbl] = p
      BY <2>0, <3>1 DEF PlaceInv, CallsPlaced, CallTyped
    <3>3. ~ManageUpdate(p)  BY <1>4, <3>2
    <3> QED BY <2>5, <3>2, <3>3, LendOwner, LendModified
  <2> QED BY <1>4, <2>1, <2>2, <2>3, <2>4, <2>5 DEF Continue
<1> QED BY <1>1, <1>2, <1>3, <1>4 DEF NextStep

(* A buffer that CFE_TBL_GetInactiveBufferExclusive grants has no reader.  *)
LEMMA NotRead ==
  ASSUME NEW a \in Apps, NEW t \in Tables, ReaderSound(a, t), ptr[a][t] # NoSlot, Available(t)
  PROVE  ptr[a][t] # Slot(NextLocal(t))
BY DEF ReaderSound, Available, Locked

(* A reader's address is one of the two buffers of the table, or its only  *)
(* one.                                                                    *)
LEMMA ReaderSlot ==
  ASSUME TypeInv, PlaceInv, NEW a \in Apps, NEW t \in Tables, ReaderSound(a, t), ptr[a][t] # NoSlot
  PROVE  /\ ptr[a][t] \in Slots \ SharedSlots /\ ptr[a][t] \in {<<t, 0>>, <<t, 1>>}
         /\ t \notin DoubleBuffered => ptr[a][t] = <<t, 0>>
<1>1. PICK p : p = ptr[a][t]  OBVIOUS
<1>2. p \in Slots /\ p[1] = t /\ p \notin SharedSlots  BY <1>1, OwnSlots DEF ReaderSound
<1>3. p \in Tables \X {0, 1}  BY <1>2 DEF Slots, SharedSlots
<1>4. p \in {<<t, 0>>, <<t, 1>>}  BY <1>2, <1>3
<1>5. PICK id : id = Acc[a][t].BufferIndex  OBVIOUS
<1>6. id \in BufferIds \cup {NoId}
  <2>1. Acc[a][t] \in AccessDesc  BY DEF TypeInv, TypeOK
  <2> QED BY <1>5, <2>1 DEF AccessDesc
<1>7. Slot(id) = p  BY <1>1, <1>5 DEF ReaderSound
<1>8. id \in LocalIds  BY <1>2, <1>6, <1>7, IdSlots, SlotKinds, SlotParts
<1>9. t \notin DoubleBuffered => p = <<t, 0>>  BY <1>2, <1>7, <1>8, SlotKinds
<1> QED BY <1>1, <1>2, <1>4, <1>9

(* CFE_TBL_LoadCmd takes no buffer that a reader has locked, and writes to *)
(* none.                                                                   *)
LEMMA ReadersLoad ==
  ASSUME TypeInv, PlaceInv, ReadersInv, NEW t \in Tables, NEW i \in Images, LoadCmd(t, i)
  PROVE  /\ ReadersInv'
         /\ \A a \in Apps, u \in Tables \ DumpOnly :
              ptr[a][u] # NoSlot => Buffers'[ptr[a][u]].Content = Buffers[ptr[a][u]].Content
<1>1. Next[t] = NoId /\ GetWorkingBuffer(t) /\ t \in Tables \ DumpOnly
      /\ UNCHANGED <<Active, ptr, Acc>>
  BY DEF LoadCmd
<1>2. PICK id \in BufferIds, b \in LoadBuff : Reserved(t, id, b)  BY <1>1, Reserves DEF TypeInv
<1>3. PICK s0 : s0 = Slot(id)  OBVIOUS
<1>4. /\ Next' = [Next EXCEPT ![t] = id] /\ Buffers' = [Buffers EXCEPT ![s0] = b]
      /\ Buffers \in [Slots -> LoadBuff] /\ Next \in [Tables -> BufferIds \cup {NoId}]
  BY <1>2, <1>3 DEF Reserved, TypeInv, TypeOK
<1>5. \/ s0 \in SharedSlots
      \/ /\ s0 = Slot(NextLocal(t)) /\ s0 \notin SharedSlots /\ s0[1] = t /\ Available(t)
         /\ t \in DoubleBuffered \/ Active[t] = NoId
  BY <1>2, <1>3, SlotKinds, RecordFacts DEF Reserved, PlaceInv
<1>6. ASSUME NEW u \in Tables \ DumpOnly PROVE ActiveSound(u)' /\ \A a \in Apps : ReaderSound(a, u)'
  <2>1. ActiveSound(u) /\ \A a \in Apps : ReaderSound(a, u)  BY DEF ReadersInv
  <2>2. /\ Active[u] # NoId => Slot(Active[u]) \in Slots \ SharedSlots /\ Slot(Active[u])[1] = u
        /\ u \in DoubleBuffered => Slot(NextLocal(u)) # Slot(Active[u])
        /\ NextLocal(u)' = NextLocal(u)
    BY <1>1, RecordFacts DEF PlaceInv, NextLocal
  <2>3. Active[u] # NoId => Slot(Active[u]) # s0  BY <1>5, <2>2
  <2>4. ActiveSound(u)'  BY <1>1, <1>4, <2>1, <2>2, <2>3 DEF ActiveSound
  <2>5. ASSUME NEW a \in Apps, ptr[a][u] # NoSlot PROVE ReaderSound(a, u)'
    <3>1. ptr[a][u] \in Slots \ SharedSlots /\ ptr[a][u][1] = u /\ ReaderSound(a, u)
      BY <2>1, <2>5, ReaderSlot DEF ReaderSound
    <3>2. ptr[a][u] # s0  BY <1>5, <2>5, <3>1, NotRead
    <3>3. Buffers'[ptr[a][u]] = Buffers[ptr[a][u]]  BY <1>4, <3>1, <3>2
    <3>4. Slot(Next'[u]) # ptr[a][u]  BY <1>3, <1>4, <2>5, <3>1, <3>2 DEF ReaderSound
    <3> QED BY <1>1, <2>2, <2>5, <3>1, <3>3, <3>4 DEF ReaderSound
  <2>6. ASSUME NEW a \in Apps, ptr[a][u] = NoSlot PROVE ReaderSound(a, u)'
    BY <1>1, <2>6 DEF ReaderSound
  <2> QED BY <2>4, <2>5, <2>6
<1>7. ASSUME NEW a \in Apps, NEW u \in Tables \ DumpOnly, ptr[a][u] # NoSlot
      PROVE  Buffers'[ptr[a][u]].Content = Buffers[ptr[a][u]].Content
  <2>1. ReaderSound(a, u)  BY DEF ReadersInv
  <2>2. ptr[a][u] \in Slots \ SharedSlots /\ ptr[a][u][1] = u  BY <1>7, <2>1, ReaderSlot DEF ReaderSound
  <2>3. ptr[a][u] # s0  BY <1>5, <1>7, <2>1, <2>2, NotRead
  <2> QED BY <1>4, <2>2, <2>3
<1> QED BY <1>6, <1>7 DEF ReadersInv

(* CFE_TBL_GetAddress locks the buffer that it gives the address of,       *)
(* CFE_TBL_ReleaseAddress gives it up.                                     *)
LEMMA ReadersCalls ==
  ASSUME TypeInv, PlaceInv, ReadersInv, NEW t \in Tables, NEW a \in Apps, GetAddress(a, t) \/ ReleaseAddress(a, t)
  PROVE  ReadersInv'
<1>1. UNCHANGED <<Active, Next, Buffers>>  BY DEF GetAddress, ReleaseAddress, regVars
<1>2. Acc \in [Apps -> [Tables -> AccessDesc]] /\ ptr \in [Apps -> [Tables -> Slots \cup {NoSlot}]]
  BY DEF TypeInv, TypeOK
<1>3. SUFFICES ASSUME NEW u \in Tables \ DumpOnly PROVE ActiveSound(u)' /\ \A c \in Apps : ReaderSound(c, u)'
  BY DEF ReadersInv
<1>4. ActiveSound(u) /\ \A c \in Apps : ReaderSound(c, u)  BY DEF ReadersInv
<1>5. ActiveSound(u)' /\ NextLocal(u)' = NextLocal(u)  BY <1>1, <1>4 DEF ActiveSound, NextLocal
<1>6. ASSUME NEW c \in Apps, c # a \/ u # t PROVE ReaderSound(c, u)'
  <2>1. ptr'[c][u] = ptr[c][u]  BY <1>2, <1>6 DEF GetAddress, ReleaseAddress
  <2>2. Acc'[c][u] = Acc[c][u]  BY <1>2, <1>6 DEF GetAddress, ReleaseAddress
  <2> QED BY <1>1, <1>4, <1>5, <2>1, <2>2 DEF ReaderSound
<1>7. ASSUME u = t PROVE ReaderSound(a, u)'
  <2>1. CASE ReleaseAddress(a, t)
    <3>1. ptr'[a][t] = NoSlot  BY <1>2, <2>1 DEF ReleaseAddress
    <3> QED BY <1>7, <3>1 DEF ReaderSound
  <2>2. CASE GetAddress(a, t)
    <3>1. PICK s : s = Slot(Active[t])  OBVIOUS
    <3>2. a \in Accessors[t] /\ Active[t] # NoId /\ ptr'[a][t] = s
          /\ Acc'[a][t] = [LockFlag |-> TRUE, BufferIndex |-> Buffers[s].Id, Updated |-> FALSE]
      BY <1>2, <2>2, <3>1 DEF GetAddress
    <3>3. s \in Slots /\ s[1] = t /\ Active[t] # NextLocal(t)  BY <3>1, <3>2, RecordFacts DEF PlaceInv
    <3>4. Buffers[s].Id = Active[t]  BY <1>4, <1>7, <3>1, <3>2 DEF ActiveSound
    <3>5. Slot(Next[t]) # s
      <4>1. CASE Next[t] = NoId  BY <3>3, <4>1, SlotParts
      <4>2. CASE Next[t] # NoId  BY <3>1, <3>2, <4>2, NextNotActive
      <4> QED BY <4>1, <4>2
    <3>6. Acc'[a][t].LockFlag /\ Slot(Acc'[a][t].BufferIndex) = s  BY <3>1, <3>2, <3>4
    <3> QED BY <1>1, <1>5, <1>7, <3>2, <3>3, <3>4, <3>5, <3>6 DEF ReaderSound
  <2> QED BY <2>1, <2>2
<1> QED BY <1>5, <1>6, <1>7

(* CFE_TBL_UpdateInternal keeps what readers rely on, and what they read.  *)
LEMMA ReadersUpdate ==
  ASSUME TypeInv, PlaceInv, ReadersInv, NEW t \in Tables, UpdateInternal(t), UNCHANGED ptr
  PROVE  /\ ReadersInv'
         /\ \A a \in Apps, u \in Tables \ DumpOnly :
              ptr[a][u] # NoSlot => Buffers'[ptr[a][u]].Content = Buffers[ptr[a][u]].Content
<1>1. CASE UNCHANGED <<Active, Prev, Next, Buffers, Acc>>
  <2>1. Lending  BY <1>1 DEF Lending, OwnIds
  <2> QED BY <1>1, <2>1, ReadersLend
<1>2. CASE Committed(t)
  <2> DEFINE n == NextLocal(t)
  <2>1. /\ n \in LocalIds /\ n # NoId /\ Slot(n) \in Slots \ SharedSlots /\ Slot(n)[1] = t
        /\ Next[t] # NoId /\ t \in Tables \ DumpOnly
        /\ Slot(Next[t]) \in SharedSlots \/ Next[t] = n
    BY <1>2, RecordFacts, IdParts DEF PlaceInv, Committed
  <2>2. /\ Active'[t] = n /\ Next'[t] = NoId /\ Slot(Next'[t]) = NoSlot
    BY <1>2, SlotParts DEF Committed, TypeInv, TypeOK
  <2>3. \A a \in Apps, u \in Tables : Acc'[a][u].LockFlag = Acc[a][u].LockFlag
                                     /\ Acc'[a][u].BufferIndex = Acc[a][u].BufferIndex
    <3> SUFFICES ASSUME NEW a \in Apps, NEW u \in Tables
                 PROVE  Acc'[a][u].LockFlag = Acc[a][u].LockFlag /\ Acc'[a][u].BufferIndex = Acc[a][u].BufferIndex
      OBVIOUS
    <3>1. Acc[a] \in [Tables -> AccessDesc] /\ Acc[a][u] \in AccessDesc  BY DEF TypeInv, TypeOK
    <3>2. Acc'[a] \in {Acc[a], [Acc[a] EXCEPT ![t].Updated = TRUE]}  BY <1>2 DEF Committed
    <3>3. Acc'[a][u] \in {Acc[a][u], [Acc[a][u] EXCEPT !.Updated = TRUE]}  BY <3>1, <3>2
    <3> QED BY <3>1, <3>3 DEF AccessDesc
  <2>4. \A s \in Slots \ SharedSlots : s # Slot(n) => Buffers'[s].Id = Buffers[s].Id /\ Buffers'[s].Content = Buffers[s].Content
    BY <1>2, <2>1 DEF Committed
  <2>5. ASSUME NEW u \in Tables \ DumpOnly, u # t
        PROVE  ActiveSound(u)' /\ \A a \in Apps : ReaderSound(a, u)'
    <3>1. ActiveSound(u) /\ \A a \in Apps : ReaderSound(a, u)  BY DEF ReadersInv
    <3>2. Active'[u] = Active[u] /\ Next'[u] = Next[u] /\ NextLocal(u)' = NextLocal(u)  BY <1>2, <2>5, CommitApart
    <3>3. Active[u] # NoId => Slot(Active[u]) \in Slots \ SharedSlots /\ Slot(Active[u])[1] = u
      BY RecordFacts DEF PlaceInv
    <3>4. ActiveSound(u)'  BY <2>1, <2>4, <2>5, <3>1, <3>2, <3>3 DEF ActiveSound
    <3>5. ASSUME NEW a \in Apps PROVE ReaderSound(a, u)'
      <4>1. ptr[a][u] # NoSlot => ptr[a][u] \in Slots \ SharedSlots /\ ptr[a][u][1] = u
        BY <3>1, OwnSlots DEF ReaderSound
      <4>2. ptr[a][u] # NoSlot => Buffers'[ptr[a][u]].Id = Buffers[ptr[a][u]].Id  BY <2>1, <2>4, <2>5, <4>1
      <4> QED BY <2>3, <3>1, <3>2, <4>2 DEF ReaderSound
    <3> QED BY <3>4, <3>5
  <2>6. ActiveSound(t)'
    <3>1. ActiveSound(t) /\ RecordSound(t)  BY <2>1 DEF ReadersInv, PlaceInv, RecordsSound
    <3>2. t \notin DoubleBuffered => Slot(Next[t]) \in SharedSlots
      BY <2>1, <3>1, SlotKinds DEF ActiveSound, RecordSound
    <3>3. Buffers'[Slot(n)].Id = n  BY <1>2, <2>1, <3>2 DEF Committed
    <3> QED BY <2>1, <2>2, <3>3 DEF ActiveSound
  <2>7. ASSUME NEW a \in Apps, ptr[a][t] # NoSlot
        PROVE  ptr[a][t] # Slot(n) /\ ReaderSound(a, t)'
    <3>1. ReaderSound(a, t) /\ ActiveSound(t)  BY <2>1 DEF ReadersInv
    <3>2. ptr[a][t] # Slot(n)  BY <1>2, <2>7, <3>1, NotRead DEF Committed, ReaderSound
    <3>3. PICK p : p = ptr[a][t]  OBVIOUS
    <3>4. p \in Slots \ SharedSlots /\ p \in {<<t, 0>>, <<t, 1>>} /\ t \in DoubleBuffered
      BY <2>7, <3>1, <3>2, <3>3, ReaderSlot, RecordFacts DEF PlaceInv
    <3>5. Active[t] # NoId /\ Active[t] \in LocalIds /\ Active[t][1] = t  BY <2>7, <3>1, RecordFacts DEF PlaceInv, RecordsSound, RecordSound, ReaderSound
    <3>6. p = Slot(Active[t])
      <4>1. Slot(n) # Slot(Active[t])  BY <3>4, RecordFacts DEF PlaceInv
      <4>2. Slot(n) \in {<<t, 0>>, <<t, 1>>} /\ Slot(Active[t]) \in {<<t, 0>>, <<t, 1>>}
        <5>1. \A id \in LocalIds : id[1] = t => Slot(id) \in {<<t, 0>>, <<t, 1>>}
          <6> SUFFICES ASSUME NEW id \in LocalIds, id[1] = t PROVE Slot(id) \in {<<t, 0>>, <<t, 1>>}  OBVIOUS
          <6>1. Slot(id) = <<t, id[2] % 2>> /\ id[2] \in Nat  BY <3>4, SlotKinds, IdParts, Sizes
          <6>2. id[2] % 2 \in {0, 1}  BY <6>1
          <6> QED BY <6>1, <6>2
        <5>2. n[1] = t  BY RecordFacts DEF PlaceInv
        <5> QED BY <2>1, <3>5, <5>1, <5>2
      <4> HIDE DEF n
      <4> QED BY <3>2, <3>3, <3>4, <4>1, <4>2
    <3>7. Buffers'[p].Id = Active[t]  BY <2>4, <3>1, <3>2, <3>3, <3>4, <3>5, <3>6 DEF ActiveSound
    <3>8. NextLocal(t)' # Active[t]
      <4>1. PICK k : k = Active[t][2]  OBVIOUS
      <4>2. Active[t] = <<t, k>> /\ k \in 0..(2 * Wrap - 1)  BY <3>5, <4>1, IdParts
      <4>3. n = <<t, (k + 1) % (2 * Wrap)>>  BY <3>5, <4>1 DEF NextLocal
      <4>4. n[2] = (k + 1) % (2 * Wrap)  BY <4>3
      <4>5. NextLocal(t)' = <<t, (n[2] + 1) % (2 * Wrap)>>
        <5> HIDE DEF n
        <5> QED BY <2>1, <2>2 DEF NextLocal
      <4>6. (((k + 1) % (2 * Wrap)) + 1) % (2 * Wrap) # k  BY <4>2, Turns
      <4>7. NextLocal(t)' = <<t, (((k + 1) % (2 * Wrap)) + 1) % (2 * Wrap)>>  BY <4>4, <4>5
      <4> HIDE DEF n
      <4> QED BY <4>2, <4>6, <4>7
    <3>9. Buffers'[p].Id \notin {NoId, NextLocal(t)'} /\ Slot(Next'[t]) # p
      BY <2>2, <3>4, <3>5, <3>7, <3>8, SlotParts
    <3>10. ptr'[a][t] = p  BY <3>3
    <3> QED BY <2>1, <2>2, <2>3, <3>1, <3>2, <3>3, <3>9, <3>10 DEF ReaderSound
  <2>8. ASSUME NEW a \in Apps, ptr[a][t] = NoSlot PROVE ReaderSound(a, t)'
    BY <2>8 DEF ReaderSound
  <2>9. ReadersInv'  BY <2>5, <2>6, <2>7, <2>8 DEF ReadersInv
  <2>10. ASSUME NEW a \in Apps, NEW u \in Tables \ DumpOnly, ptr[a][u] # NoSlot
         PROVE  Buffers'[ptr[a][u]].Content = Buffers[ptr[a][u]].Content
    <3>1. ReaderSound(a, u)  BY DEF ReadersInv
    <3>2. ptr[a][u] \in Slots \ SharedSlots /\ ptr[a][u][1] = u  BY <2>10, <3>1, OwnSlots DEF ReaderSound
    <3>3. ptr[a][u] # Slot(n)  BY <2>1, <2>7, <2>10, <3>2
    <3> QED BY <2>4, <3>2, <3>3
  <2> QED BY <2>9, <2>10
<1> QED BY <1>1, <1>2, UpdateEffect DEF PlaceInv

(* At first there are no readers, and the buffer of a loaded table has the *)
(* ID of its image.                                                        *)
LEMMA ReadersInit ==
  ASSUME LoadedTwice, Init
  PROVE  ReadersInv
<1> SUFFICES ASSUME NEW t \in Tables \ DumpOnly PROVE ActiveSound(t) /\ \A a \in Apps : ReaderSound(a, t)
  BY DEF ReadersInv
<1>1. PICK i \in Good : Buffers = [s \in Slots |-> InitBuff(s, i)]  BY DEF Init
<1>2. /\ Active[t] = IF t \in Loaded THEN LastLoad(t) ELSE NoId
      /\ \A a \in Apps : ptr[a][t] = NoSlot
  BY DEF Init
<1>3. LastLoad(t) \in LocalIds /\ LastLoad(t)[1] = t  BY Sizes DEF LocalIds, LastLoad
<1>4. LastLoad(t) # NoId /\ Slot(LastLoad(t)) \in Slots /\ Slot(LastLoad(t))[1] = t
  BY <1>3, IdParts, SlotKinds
<1>5. t \in DoubleBuffered \cup Reloaded  BY DEF LoadedTwice
<1>6. t \notin DoubleBuffered => Active[t] # NoId  BY <1>2, <1>4, <1>5, TableAssumption
<1>7. ASSUME Active[t] # NoId PROVE Buffers[Slot(Active[t])].Id = Active[t]
  <2>1. t \in Loaded /\ Active[t] = LastLoad(t)  BY <1>2, <1>7
  <2>2. PICK s : s = Slot(LastLoad(t))  OBVIOUS
  <2>3. s \in Slots /\ s[1] = t  BY <1>4, <2>2
  <2>4. Buffers[s] = [Id |-> LastLoad(t), IsValid |-> TRUE, ActivateReq |-> TRUE, Content |-> i]
    BY <1>1, <1>5, <2>1, <2>2, <2>3 DEF InitBuff
  <2> QED BY <2>1, <2>2, <2>4
<1> QED BY <1>2, <1>6, <1>7 DEF ActiveSound, ReaderSound

(* Every step keeps what readers rely on.                                  *)
LEMMA ReadersStep ==
  ASSUME TypeInv, PlaceInv, WaitInv, ReadersInv, Waits, [NextStep]_vars
  PROVE  ReadersInv'
<1>1. CASE UNCHANGED vars
  <2>1. Lending  BY <1>1 DEF vars, regVars, Lending, OwnIds
  <2> QED BY <2>1, ReadersLend
<1>2. CASE NextStep
  <2>1. op[TblTask].at # "abort"  BY DEF WaitInv, TaskWaits
  <2>2. ASSUME NEW a \in Apps, op[a].tbl \in Tables, ManageUpdate(a) PROVE ReadersInv'
    <3>1. PICK t \in Tables : t = op[a].tbl  BY <2>2
    <3>2. UpdateInternal(t) /\ UNCHANGED ptr  BY <2>2, <3>1 DEF ManageUpdate
    <3> QED BY <3>2, ReadersUpdate
  <2> QED BY <1>2, <2>1, <2>2, LendSteps, ReadersLend, ReadersLoad, ReadersCalls
<1> QED BY <1>1, <1>2

(* What a reader reads stays as it is.                                     *)
LEMMA ReadStays ==
  ASSUME TypeInv, PlaceInv, WaitInv, ReadersInv, Waits, NextStep,
         NEW a \in Apps, NEW t \in Tables \ DumpOnly, ptr[a][t] # NoSlot
  PROVE  Buffers'[ptr[a][t]].Content = Buffers[ptr[a][t]].Content
<1>1. ReaderSound(a, t)  BY DEF ReadersInv
<1>2. PICK s : s = ptr[a][t]  OBVIOUS
<1>3. s \in Slots /\ s[1] = t /\ Slot(Next[t]) # s  BY <1>1, <1>2 DEF ReaderSound
<1>4. SUFFICES Buffers'[s].Content = Buffers[s].Content  BY <1>2
<1>5. CASE Quiet  BY <1>3, <1>5 DEF Quiet, Untouched
<1>6. ASSUME NEW b, NEW s0,
             \/ Buffers' = Buffers
             \/ Buffers' = [Buffers EXCEPT ![s0].IsValid = b]
             \/ Buffers' = [Buffers EXCEPT ![s0].ActivateReq = b]
      PROVE  Buffers'[s].Content = Buffers[s].Content
  BY <1>3, <1>6, Fields
<1>7. ASSUME NEW u \in Tables, ActivateCmd(u) PROVE Buffers'[s].Content = Buffers[s].Content
  <2>1. Buffers' = Buffers \/ Buffers' = [Buffers EXCEPT ![LoadBuf(u)].ActivateReq = TRUE]  BY <1>7 DEF ActivateCmd
  <2> QED BY <1>6, <2>1
<1>8. ASSUME NEW u \in Tables, NEW v \in Vals, NEW select \in {"INACTIVE", "ACTIVE"}, ValidateCmd(u, select, v)
      PROVE  Buffers'[s].Content = Buffers[s].Content
  <2>1. Buffers' = Buffers \/ Buffers' = [Buffers EXCEPT ![SelectedBuffer(u, select)].IsValid = TRUE]
    BY <1>8 DEF ValidateCmd
  <2> QED BY <1>6, <2>1
<1>9. ASSUME NEW u \in Tables, NEW i \in Images, LoadCmd(u, i) PROVE Buffers'[s].Content = Buffers[s].Content
  BY <1>2, <1>9, ReadersLoad
<1>10. ASSUME NEW c \in Apps, Ruling(c) PROVE Buffers'[s].Content = Buffers[s].Content
  <2>1. CASE Validate(c) \/ ValidationFunc(c)  BY <2>1 DEF Validate, ValidationFunc
  <2>2. CASE ValidateDone(c)
    <3>1. PICK b, s0 : b = op[c].ok /\ s0 = op[c].buf  OBVIOUS
    <3>2. Buffers' = Buffers \/ Buffers' = [Buffers EXCEPT ![s0].IsValid = b]  BY <2>2, <3>1 DEF ValidateDone
    <3> QED BY <1>6, <3>2
  <2>3. CASE ManageUpdate(c)
    <3>1. PICK u \in Tables : u = op[c].tbl  BY <1>10 DEF Ruling
    <3>2. UpdateInternal(u) /\ UNCHANGED ptr  BY <2>3, <3>1 DEF ManageUpdate
    <3> QED BY <1>2, <3>2, ReadersUpdate
  <2> QED BY <1>10, <2>1, <2>2, <2>3 DEF Ruling
<1>11. ReadsLoad /\ op[TblTask].at # "abort"
  BY DEF WaitInv, LoadsSound, Reading, ReadsLoad, TaskWaits
<1>12. CASE SetMetaDataFromFileHeader(TblTask)  BY <1>3, <1>12, HeaderEffect
<1> QED BY <1>5, <1>7, <1>8, <1>9, <1>10, <1>11, <1>12, WaitSteps

(* ReaderStable: from CFE_TBL_GetAddress to CFE_TBL_ReleaseAddress a       *)
(* reader sees one image (CFE_TBL_GetInactiveBufferExclusive), as long as  *)
(* the ground waits for validations and aborts nothing, owners do not load *)
(* tables themselves, and every table that can be loaded was loaded twice  *)
(* or has two buffers: after its first load the buffer of a single         *)
(* buffered table has no ID, and locks on it do not count.                 *)
THEOREM ReadersStable ==
  ASSUME Waits, LoadedTwice
  PROVE  Spec => ReaderStable
<1> DEFINE IInv == TypeInv /\ PlaceInv /\ WaitInv /\ ReadersInv
           Step == \A a \in Apps, t \in Tables \ DumpOnly :
                     ptr[a][t] # NoSlot /\ ptr'[a][t] = ptr[a][t]
                       => Buffers'[ptr[a][t]].Content = Buffers[ptr[a][t]].Content
<1>0. NoLoad  BY DEF Waits, NoLoad
<1>1. Init => IInv  BY TypeInit, PlaceInit, WaitInit, ReadersInit
<1>2. IInv /\ [NextStep]_vars => IInv'  BY <1>0, TypeStep, PlaceStep, WaitStep, ReadersStep
<1>3. IInv /\ [NextStep]_vars => [Step]_vars
  <2> SUFFICES ASSUME IInv, NextStep PROVE Step  OBVIOUS
  <2> QED BY ReadStays
<1>4. Spec => [][Step]_vars  BY <1>1, <1>2, <1>3, PTL DEF Spec
<1> QED BY <1>4 DEF ReaderStable
=============================================================================
