----------------------- MODULE CriticalDataStoreProofs -----------------------
(***************************************************************************)
(* Proofs about CriticalDataStore, for every value of its constants.       *)
(***************************************************************************)
EXTENDS CriticalDataStoreInv, FiniteSetTheorems, TLAPS

-----------------------------------------------------------------------------
(* The pool *)

(* A set of numbers that is not empty has a least one.                     *)
LEMMA Smallest ==
  ASSUME NEW S, S \subseteq Nat, S # {}
  PROVE  \E k \in S : \A j \in S : k <= j
<1> DEFINE Less == {p \in Nat \X Nat : p[1] < p[2]}
<1>1. IsWellFoundedOn(Less, Nat)
  <2>1. Less = OpToRel(<, Nat)  BY Zenon DEF OpToRel
  <2> QED BY <2>1, NatLessThanWellFounded, Zenon
<1>2. PICK k \in S : \A j \in S : <<j, k>> \notin Less
  <2> HIDE DEF Less
  <2> QED BY <1>1, WFMin, Zenon
<1>3. \A i, j \in Nat : i < j => <<i, j>> \in Less  OBVIOUS
<1>4. \A j \in S : k <= j
  <2> HIDE DEF Less
  <2> SUFFICES ASSUME NEW j \in S PROVE k <= j  OBVIOUS
  <2>1. j \in Nat /\ k \in Nat  OBVIOUS
  <2>2. ~(j < k)  BY <1>2, <1>3, <2>1, Zenon
  <2> QED BY <2>1, <2>2
<1> QED BY <1>4

(* A size that fits in some block size has a bucket.                       *)
LEMMA BucketFits ==
  ASSUME NEW size \in Nat, Fits(size) # {}
  PROVE  Bucket(size) \in Buckets /\ Bucket(size) \in Nat \ {0} /\ size <= Bucket(size)
<1>1. Fits(size) \subseteq Nat  BY PoolAssumption DEF Fits
<1>2. \E k \in Fits(size) : \A j \in Fits(size) : k <= j  BY <1>1, Smallest
<1>3. Bucket(size) \in Fits(size)  BY <1>2 DEF Bucket
<1> QED BY <1>3, PoolAssumption DEF Fits

(* What the pool writes to a descriptor is one, and stays inside the pool. *)
LEMMA AllocateType ==
  ASSUME TypeOK, Fit, NEW b \in Offsets, NEW size \in Sizes, Fits(size) # {},
         b + Bucket(size) <= PoolSize, Allocate(b, size)
  PROVE  Desc' \in [Offsets -> BD] /\ Fit'
<1>1. size \in Nat  BY PoolAssumption
<1>2. Bucket(size) \in Buckets  BY <1>1, BucketFits
<1>3. [bucket |-> Bucket(size), allocated |-> TRUE, size |-> size, next |-> 0] \in BD
  BY <1>2, PoolAssumption DEF BD
<1> QED BY <1>3 DEF Allocate, TypeOK, Fit

(* Freeing a block keeps descriptors, lists and the bounds of blocks.       *)
LEMMA PutBlockType ==
  ASSUME TypeOK, NEW b \in 0..PoolSize, PutBlock(b)
  PROVE  /\ Desc' \in [Offsets -> BD]
         /\ FirstOffset' \in [Buckets -> 0..PoolSize]
         /\ Fit => Fit'
<1> DEFINE k == Desc[b].bucket
<1>1. b \in Offsets /\ k \in Buckets  BY PoolAssumption DEF PutBlock, IsAllocated, Offsets, TypeOK
<1>2. [Desc[b] EXCEPT !.allocated = FALSE, !.next = FirstOffset[k]] \in BD
  BY ZenonT(40), <1>1 DEF TypeOK, BD
<1>3. Desc' = [Desc EXCEPT ![b] = [Desc[b] EXCEPT !.allocated = FALSE, !.next = FirstOffset[k]]]
  BY DEF PutBlock
<1>4. Desc' \in [Offsets -> BD]  BY <1>2, <1>3 DEF TypeOK
<1>5. FirstOffset' \in [Buckets -> 0..PoolSize]  BY <1>1 DEF PutBlock, TypeOK, Offsets
<1>6. \A a \in Offsets : Desc'[a].bucket = Desc[a].bucket  BY <1>1, <1>3 DEF TypeOK, BD
<1> QED BY <1>4, <1>5, <1>6 DEF Fit

-----------------------------------------------------------------------------
(* Type correctness *)

(* The types, and blocks inside the pool, hold at the start and in each step. *)
LEMMA TypeInit == Init => TypeInv
<1> SUFFICES ASSUME Init PROVE TypeInv  OBVIOUS
<1>1. NoDesc \in BD /\ Blank \in Content /\ NoRec \in RegRec
  BY PoolAssumption DEF NoDesc, BD, Blank, Content, NoRec, RegRec
<1>2. Desc \in [Offsets -> BD]
  <2>1. PICK d \in {NoDesc} \cup [bucket : Buckets, allocated : {TRUE}, size : Sizes, next : {0}] :
          Desc = [[b \in Offsets |-> NoDesc] EXCEPT ![1] = d]
    BY DEF Init
  <2>2. d \in BD
    <3>1. 0 \in 0..PoolSize  BY PoolAssumption
    <3>2. [bucket : Buckets, allocated : {TRUE}, size : Sizes, next : {0}] \subseteq BD
      BY <3>1 DEF BD
    <3> QED BY <1>1, <2>1, <3>2
  <2> QED BY <1>1, <2>1, <2>2, PoolAssumption DEF Offsets
<1>3. TypeOK
  BY <1>1, <1>2, PoolAssumption DEF Init, TypeOK, At, Idle, BootSteps, CallSteps, NotCopied
<1>4. op.at = "Validate" /\ "Size" \notin Marks
  BY DEF Init, At, Idle
<1>5. CallLocals /\ BlocksFit
  BY <1>4 DEF CallLocals, BlocksFit, CallSteps
<1> QED BY <1>3, <1>5 DEF TypeInv

LEMMA TypeStep == TypeInv /\ [Next]_vars => TypeInv'
<1> SUFFICES ASSUME TypeOK, CallLocals, BlocksFit, [Next]_vars
             PROVE  TypeOK' /\ CallLocals' /\ BlocksFit'
  BY DEF TypeInv
<1> USE DEF BootSteps, CallSteps
<1>a. NoDesc \in BD /\ Blank \in Content /\ NoRec \in RegRec /\ NotCopied \in [val : Vals \cup {NoVal}, done : BOOLEAN]
  BY PoolAssumption DEF NoDesc, BD, Blank, Content, NoRec, RegRec, NotCopied
<1>b. \A s \in BootSteps \cup {"Idle", "Down"} :
        At(s) \in [at : BootSteps \cup CallSteps \cup {"Idle", "Down"}, name : Names \cup {NoName},
                   size : Sizes \cup {0}, val : Vals \cup {NoVal}]
        /\ At(s).at = s
  BY DEF At, Idle
<1>c. Idle = At("Idle")  BY DEF At, Idle
<1>d. \A n \in Names : Registry[n].offset \in 0..PoolSize  BY DEF TypeOK, RegRec
<1>e. \A b \in Offsets : Desc[b].bucket \in Buckets \cup {0} /\ Desc[b].bucket \in Nat
  <2> SUFFICES ASSUME NEW b \in Offsets
               PROVE  Desc[b].bucket \in Buckets \cup {0} /\ Desc[b].bucket \in Nat
    OBVIOUS
  <2>1. Desc[b] \in BD  BY DEF TypeOK
  <2>2. Desc[b].bucket \in Buckets \cup {0}  BY <2>1 DEF BD
  <2>3. \A k \in Buckets \cup {0} : k \in Nat  BY PoolAssumption
  <2> QED BY <2>2, <2>3, Zenon
<1>1. CASE ValidateCDS
  <2>1. TypeOK'  BY <1>1, <1>b DEF ValidateCDS, TypeOK, psp
  <2>2. CallLocals' /\ BlocksFit'
    BY <1>1, <1>b DEF ValidateCDS, CallLocals, BlocksFit, Fit, psp
  <2> QED BY <2>1, <2>2
<1>2. CASE ClearCDS
  <2>1. TypeOK'
    <3>1. SavedRegistry' = SavedRegistry \/ SavedRegistry' = [n \in Names |-> NoRec]
      BY <1>2 DEF ClearCDS
    <3>2. /\ Desc' = Desc \/ Desc' = [b \in Offsets |-> NoDesc]
          /\ Crc' = Crc \/ Crc' = [b \in Offsets |-> Blank]
          /\ Data' = Data \/ Data' = [b \in Offsets |-> Blank]
      BY <1>2 DEF ClearCDS
    <3>3. Marks' \subseteq Marks /\ \E step \in BootSteps : op' = At(step)
      BY <1>2 DEF ClearCDS
    <3>4. SavedRegistry' \in [Names -> RegRec]  BY <3>1, <1>a DEF TypeOK
    <3>5. Desc' \in [Offsets -> BD] /\ Crc' \in [Offsets -> Content] /\ Data' \in [Offsets -> Content]
      BY <3>2, <1>a DEF TypeOK
    <3> QED BY <1>2, <1>b, <3>3, <3>4, <3>5 DEF ClearCDS, TypeOK, ram
  <2>2. CallLocals'  BY <1>2, <1>b DEF ClearCDS, CallLocals
  <2>3. BlocksFit'
    <3>1. CASE op.at = "ClearHeader"
      BY <1>2, <3>1, <1>b DEF ClearCDS, BlocksFit, Fit
    <3>2. CASE op.at = "ClearPool"
      <4>1. Fit'  BY <1>2, <3>2 DEF ClearCDS, Fit, NoDesc
      <4> QED BY <4>1 DEF BlocksFit
    <3>3. CASE op.at = "ClearTrailer"
      BY <1>2, <3>3, <1>b DEF ClearCDS, BlocksFit, Fit
    <3> QED BY <1>2, <3>1, <3>2, <3>3 DEF ClearCDS
  <2> QED BY <2>1, <2>2, <2>3
<1>3. CASE Mark
  <2>1. Marks' \subseteq {"Begin", "Size", "End"} /\ \E step \in BootSteps : op' = At(step)
    BY <1>3 DEF Mark, TypeOK
  <2>2. TypeOK'  BY <1>3, <1>b, <2>1 DEF Mark, TypeOK, ram
  <2>3. CallLocals' /\ BlocksFit'  BY <1>3, <1>b DEF Mark, CallLocals, BlocksFit, Fit
  <2> QED BY <2>2, <2>3
<1>4. CASE InitCDSRegistry
  <2>1. TypeOK'  BY <1>4, <1>a, <1>b, <1>c DEF InitCDSRegistry, TypeOK
  <2>2. CallLocals' /\ BlocksFit'
    BY <1>4, <1>b, <1>c DEF InitCDSRegistry, CallLocals, BlocksFit, Fit
  <2> QED BY <2>1, <2>2
<1>5. CASE RebuildBlock
  <2> DEFINE b == TailPosition + 1
             k == Desc[b].bucket
  <2>1. b \in Offsets /\ k \in Buckets /\ k \in Nat /\ b + k <= PoolSize
    BY <1>5, <1>e, PoolAssumption DEF RebuildBlock, IsBlock, BlocksFit, Fit
  <2>2. TailPosition' \in 0..PoolSize  BY <1>5, <2>1 DEF RebuildBlock, TypeOK
  <2>3. [Desc[b] EXCEPT !.next = FirstOffset[k]] \in BD  BY <2>1 DEF TypeOK, BD
  <2>4. Desc' = Desc \/ Desc' = [Desc EXCEPT ![b] = [Desc[b] EXCEPT !.next = FirstOffset[k]]]
    BY <1>5 DEF RebuildBlock
  <2>5. Desc' \in [Offsets -> BD]  BY <2>3, <2>4 DEF TypeOK
  <2>6. FirstOffset' \in [Buckets -> 0..PoolSize]
    <3>1. FirstOffset' = FirstOffset \/ FirstOffset' = [FirstOffset EXCEPT ![k] = b]
      BY <1>5 DEF RebuildBlock
    <3>2. b \in 0..PoolSize  BY <2>1 DEF Offsets
    <3> HIDE DEF b, k
    <3> QED BY <3>1, <3>2 DEF TypeOK
  <2>7. TypeOK'  BY <1>5, <2>2, <2>5, <2>6 DEF RebuildBlock, TypeOK
  <2>8. \A a \in Offsets : Desc'[a].bucket = Desc[a].bucket  BY <2>1, <2>4 DEF TypeOK, BD
  <2>9. CallLocals' /\ BlocksFit'
    BY <1>5, <2>8 DEF RebuildBlock, CallLocals, BlocksFit, Fit
  <2> QED BY <2>7, <2>9
<1>6. CASE RebuildDone
  <2>1. TypeOK'  BY <1>6, <1>b, <1>c DEF RebuildDone, TypeOK, psp, ram
  <2>2. CallLocals' /\ BlocksFit'
    BY <1>6, <1>b, <1>c DEF RebuildDone, CallLocals, BlocksFit, Fit, psp
  <2> QED BY <2>1, <2>2
<1>7. CASE BootFails
  <2>1. TypeOK'  BY <1>7, <1>b DEF BootFails, TypeOK, psp, ram
  <2>2. CallLocals' /\ BlocksFit'
    BY <1>7, <1>b DEF BootFails, CallLocals, BlocksFit, Fit, psp
  <2> QED BY <2>1, <2>2
<1>8. ASSUME NEW n \in Names, NEW size \in Sizes, Register(n, size) PROVE TypeOK' /\ CallLocals' /\ BlocksFit'
  <2>1. TypeOK'  BY <1>8, <1>a DEF Register, TypeOK, Call, psp, ram
  <2>2. CallLocals' /\ BlocksFit'
    BY <1>8 DEF Register, CallLocals, BlocksFit, Fit, Call, Idle, psp
  <2> QED BY <2>1, <2>2
<1>9. ASSUME NEW n \in Names, NEW size \in Sizes, Resize(n, size) PROVE TypeOK' /\ CallLocals' /\ BlocksFit'
  <2>1. /\ Desc' \in [Offsets -> BD]
        /\ FirstOffset' \in [Buckets -> 0..PoolSize]
        /\ Fit => Fit'
    BY <1>9, <1>d, PutBlockType DEF Resize
  <2>2. [Registry[n] EXCEPT !.offset = 0, !.size = 0] \in RegRec
    <3>1. Registry[n] \in RegRec /\ 0 \in 0..PoolSize  BY PoolAssumption DEF TypeOK
    <3> QED BY <3>1 DEF RegRec
  <2>3. Registry' = [Registry EXCEPT ![n] = [Registry[n] EXCEPT !.offset = 0, !.size = 0]]
    BY <1>9 DEF Resize
  <2>4. TypeOK'  BY <1>9, <1>a, <2>1, <2>2, <2>3 DEF Resize, TypeOK, Call
  <2>5. CallLocals' /\ BlocksFit'
    BY <1>9, <2>1 DEF Resize, CallLocals, BlocksFit, Call, Idle
  <2> QED BY <2>4, <2>5
<1>10. CASE RecyclePoolBlock
  <2> DEFINE k == Bucket(op.size)
             b == FirstOffset[k]
  <2>1. op.at = "Get" /\ op.name \in Names /\ op.size \in Sizes /\ op.size \in Nat /\ Fits(op.size) # {}
    BY <1>10, PoolAssumption DEF RecyclePoolBlock, CallLocals
  <2>2. k \in Buckets /\ k # 0  BY <2>1, BucketFits
  <2>3. b \in Offsets /\ Desc[b].bucket = k
    BY <1>10, <2>2 DEF RecyclePoolBlock, Recyclable, TypeOK, Offsets
  <2>4. Fit  BY <2>1 DEF BlocksFit
  <2>5. b + k <= PoolSize  BY <2>2, <2>3, <2>4 DEF Fit
  <2>6. CASE Allocate(b, op.size) /\ FirstOffset' = [FirstOffset EXCEPT ![k] = Desc[b].next] /\ Hold(b)
    <3>1. Desc' \in [Offsets -> BD] /\ Fit'  BY <2>1, <2>3, <2>4, <2>5, <2>6, AllocateType
    <3>2. FirstOffset' \in [Buckets -> 0..PoolSize]  BY <2>2, <2>3, <2>6 DEF TypeOK, BD
    <3>3. Registry' \in [Names -> RegRec]  BY <2>1, <2>3, <2>6 DEF Hold, RegRec, TypeOK, Offsets
    <3>4. op' = [op EXCEPT !.at = "Save"] /\ op'.at = "Save" /\ op'.name = op.name  BY <2>6 DEF Hold, TypeOK
    <3>5. TypeOK'  BY <1>10, <3>1, <3>2, <3>3, <3>4 DEF RecyclePoolBlock, TypeOK
    <3>6. CallLocals' /\ BlocksFit'  BY <2>1, <3>1, <3>4 DEF CallLocals, BlocksFit
    <3> QED BY <3>5, <3>6
  <2>7. CASE op' = [op EXCEPT !.at = "Create"] /\ UNCHANGED <<Desc, FirstOffset, Registry>>
    <3>1. op'.at = "Create" /\ op'.name = op.name /\ op'.size = op.size  BY <2>7 DEF TypeOK
    <3>2. TypeOK'  BY <1>10, <2>7 DEF RecyclePoolBlock, TypeOK
    <3>3. CallLocals' /\ BlocksFit'
      BY <1>10, <2>1, <2>4, <2>7, <3>1 DEF RecyclePoolBlock, CallLocals, BlocksFit, Fit, Fits
    <3> QED BY <3>2, <3>3
  <2> QED BY <1>10, <2>6, <2>7 DEF RecyclePoolBlock
<1>11. CASE CreatePoolBlock
  <2> DEFINE b == TailPosition + 1
             k == Bucket(op.size)
  <2>1. op.name \in Names /\ op.size \in Sizes /\ op.size \in Nat /\ Fits(op.size) # {} /\ Fit
    BY <1>11, PoolAssumption DEF CreatePoolBlock, Grows, CallLocals, BlocksFit
  <2>2. k \in Buckets /\ k \in Nat \ {0}  BY <2>1, BucketFits
  <2>3. b \in Offsets /\ b + k \in 0..PoolSize /\ b \in 0..PoolSize
    BY <1>11, <2>2, PoolAssumption DEF CreatePoolBlock, Room, TypeOK, Offsets
  <2>4. Desc' \in [Offsets -> BD] /\ Fit'
    BY <1>11, <2>1, <2>3, AllocateType DEF CreatePoolBlock
  <2>5. Registry' \in [Names -> RegRec]
    BY <1>11, <2>1, <2>3 DEF CreatePoolBlock, Hold, RegRec, TypeOK
  <2>6. op' = [op EXCEPT !.at = "Save"] /\ op'.at = "Save" /\ op'.name = op.name
    BY <1>11 DEF CreatePoolBlock, Hold, TypeOK
  <2>7. TypeOK'  BY <1>11, <2>3, <2>4, <2>5, <2>6 DEF CreatePoolBlock, TypeOK
  <2>8. CallLocals' /\ BlocksFit'  BY <2>1, <2>4, <2>6 DEF CallLocals, BlocksFit
  <2> QED BY <2>7, <2>8
<1>12. CASE GetBlockFails
  <2>1. TypeOK'  BY <1>12, <1>b, <1>c DEF GetBlockFails, TypeOK, psp, ram
  <2>2. CallLocals' /\ BlocksFit'
    BY <1>12, <1>b, <1>c DEF GetBlockFails, Grows, CallLocals, BlocksFit, Fit, psp
  <2> QED BY <2>1, <2>2
<1>13. CASE UpdateCDSRegistry \/ DeleteSaved
  <2>1. TypeOK'  BY ZenonT(40), <1>13, <1>b, <1>c DEF UpdateCDSRegistry, DeleteSaved, TypeOK, ram
  <2>2. CallLocals' /\ BlocksFit'
    BY <1>13, <1>b, <1>c DEF UpdateCDSRegistry, DeleteSaved, CallLocals, BlocksFit, Fit
  <2> QED BY <2>1, <2>2
<1>14. ASSUME NEW n \in Names, DeleteCDS(n) PROVE TypeOK' /\ CallLocals' /\ BlocksFit'
  <2>1. /\ Desc' \in [Offsets -> BD]
        /\ FirstOffset' \in [Buckets -> 0..PoolSize]
        /\ Fit => Fit'
    BY <1>14, <1>d, PutBlockType DEF DeleteCDS
  <2>2. TypeOK'  BY <1>14, <1>a, <2>1 DEF DeleteCDS, TypeOK, Call
  <2>3. CallLocals' /\ BlocksFit'
    BY <1>14, <2>1 DEF DeleteCDS, CallLocals, BlocksFit, Call, Idle
  <2> QED BY <2>2, <2>3
<1>15. ASSUME NEW n \in Names, NEW v \in Vals, CopyHeader(n, v) PROVE TypeOK' /\ CallLocals' /\ BlocksFit'
  <2>1. [val |-> v, size |-> Registry[n].size] \in Content  BY DEF TypeOK, RegRec, Content
  <2>2. TypeOK'  BY <1>15, <2>1 DEF CopyHeader, TypeOK, Call, ram
  <2>3. CallLocals' /\ BlocksFit'
    BY <1>15 DEF CopyHeader, CallLocals, BlocksFit, Fit, Call, Idle
  <2> QED BY <2>2, <2>3
<1>16. CASE CopyData
  <2>1. op.name \in Names  BY <1>16 DEF CopyData, CallLocals
  <2>2. [val |-> op.val, size |-> Registry[op.name].size] \in Content
    BY <2>1 DEF TypeOK, RegRec, Content
  <2>3. [copied[op.name] EXCEPT !.done = TRUE] \in [val : Vals \cup {NoVal}, done : BOOLEAN]
    BY <2>1 DEF TypeOK
  <2>4. copied' = copied \/ copied' = [copied EXCEPT ![op.name] = [copied[op.name] EXCEPT !.done = TRUE]]
    BY <1>16 DEF CopyData
  <2>5. copied' \in [Names -> [val : Vals \cup {NoVal}, done : BOOLEAN]]
    BY <2>3, <2>4 DEF TypeOK
  <2>6. Data' \in [Offsets -> Content]  BY <1>16, <2>2 DEF CopyData, TypeOK
  <2>7. TypeOK'  BY <1>16, <1>b, <1>c, <2>5, <2>6 DEF CopyData, TypeOK, ram
  <2>8. CallLocals' /\ BlocksFit'
    BY <1>16, <1>b, <1>c DEF CopyData, CallLocals, BlocksFit, Fit
  <2> QED BY <2>7, <2>8
<1>17. ASSUME NEW n \in Names, AppStart(n) \/ AppExit(n) PROVE TypeOK' /\ CallLocals' /\ BlocksFit'
  <2>1. TypeOK'  BY <1>17 DEF AppStart, AppExit, TypeOK, psp, ram
  <2>2. CallLocals' /\ BlocksFit'
    BY <1>17 DEF AppStart, AppExit, CallLocals, BlocksFit, Fit, psp, ram
  <2> QED BY <2>1, <2>2
<1>18. CASE Reset
  <2>1. SavedRegistry' \in [Names -> RegRec] /\ Data' \in [Offsets -> Content]
    <3>1. CASE UNCHANGED <<SavedRegistry, Data>>  BY <3>1 DEF TypeOK
    <3>2. CASE /\ op.at = "CopyData"
               /\ Data' = [Data EXCEPT ![Registry[op.name].offset] =
                             [val |-> Torn, size |-> Registry[op.name].size]]
               /\ UNCHANGED SavedRegistry
      <4>1. [val |-> Torn, size |-> Registry[op.name].size] \in Content
        BY <3>2 DEF CallLocals, TypeOK, RegRec, Content
      <4> QED BY <3>2, <4>1 DEF TypeOK
    <3>3. ASSUME NEW new \in SUBSET Names, UNCHANGED Data,
                 SavedRegistry' = [n \in Names |-> IF n \in new THEN Registry[n] ELSE SavedRegistry[n]]
          PROVE  SavedRegistry' \in [Names -> RegRec] /\ Data' \in [Offsets -> Content]
      BY <3>3 DEF TypeOK
    <3> QED BY <1>18, <3>1, <3>2, <3>3 DEF Reset, HalfWritten
  <2>2. TypeOK'  BY <1>18, <1>a, <1>b, <2>1, PoolAssumption DEF Reset, TypeOK
  <2>3. CallLocals' /\ BlocksFit'
    BY <1>18, <1>b DEF Reset, CallLocals, BlocksFit, Fit
  <2> QED BY <2>2, <2>3
<1>19. CASE UNCHANGED vars
  BY <1>19 DEF vars, psp, ram, TypeOK, CallLocals, BlocksFit, Fit
<1> QED BY <1>1, <1>2, <1>3, <1>4, <1>5, <1>6, <1>7, <1>8, <1>9, <1>10, <1>11, <1>12, <1>13,
           <1>14, <1>15, <1>16, <1>17, <1>18, <1>19 DEF Next

(* Every variable of the store keeps its type, the tail of the pool its     *)
(* bound, and a rebuilt pool never reaches beyond its memory, whatever      *)
(* calls, failed writes and resets come, for every set of stores, sizes and *)
(* buckets (cfe_es_generic_pool.c:502-580 trusts the size bits it reads).   *)
THEOREM TypeCorrect == Spec => []TypeOK
<1>1. Spec => []TypeInv  BY TypeInit, TypeStep, PTL DEF Spec
<1> QED BY <1>1, PTL DEF TypeInv

-----------------------------------------------------------------------------
(* The saved registry, when no write of it fails *)

(* The saved registry agrees at the start, and after each step. *)
LEMMA SavedInit == Init => SavedInv
BY DEF Init, SavedInv, At, Idle

LEMMA SavedStep == Fails \cap {"Save", "Drop"} = {} /\ TypeInv /\ SavedInv /\ [Next]_vars => SavedInv'
<1> SUFFICES ASSUME Fails \cap {"Save", "Drop"} = {}, TypeInv, SavedInv, [Next]_vars
             PROVE  SavedInv'
  OBVIOUS
<1>a. Idle.at = "Idle" /\ \A step : At(step).at = step  BY DEF Idle, At
<1>1. CASE ValidateCDS
  BY <1>1, <1>a DEF ValidateCDS, SavedInv, Agree, psp
<1>2. CASE ClearCDS \/ Mark
  <2>1. op'.at \in {"ClearPool", "ClearTrailer", "MarkBegin", "MarkEnd", "MarkSize", "InitRegistry"}
    BY <1>2, <1>a DEF ClearCDS, Mark
  <2> QED BY <2>1 DEF SavedInv
<1>3. CASE InitCDSRegistry \/ UpdateCDSRegistry \/ DeleteSaved
  \* these write the whole registry
  <2>1. SavedRegistry' = Registry'
    BY <1>3 DEF InitCDSRegistry, UpdateCDSRegistry, DeleteSaved, WriteFails, ram
  <2> QED BY <2>1 DEF SavedInv, Agree
<1>4. CASE RebuildBlock \/ RebuildDone \/ GetBlockFails
  BY <1>4, <1>a DEF RebuildBlock, RebuildDone, GetBlockFails, Grows, SavedInv, Agree, psp, ram
<1>5. CASE BootFails
  BY <1>5, <1>a DEF BootFails, SavedInv
<1>6. ASSUME NEW n \in Names, NEW size \in Sizes, Register(n, size) PROVE SavedInv'
  BY <1>6, <1>a DEF Register, SavedInv, Agree, psp, ram
<1>7. ASSUME NEW n \in Names, NEW size \in Sizes, Resize(n, size) PROVE SavedInv'
  \* the record is in use without a block
  <2>1. Registry[n].used /\ \A m \in Names : Agree(m)
    BY <1>7, <1>a DEF Resize, SavedInv
  <2>2. Registry'[n].used /\ Registry'[n].offset = 0
    BY <1>7, <2>1 DEF Resize, TypeInv, TypeOK, RegRec
  <2>3. \A m \in Names \ {n} : Registry'[m] = Registry[m]
    BY <1>7 DEF Resize, TypeInv, TypeOK
  <2>4. SavedRegistry' = SavedRegistry  BY <1>7 DEF Resize
  <2> QED BY <2>1, <2>2, <2>3, <2>4 DEF SavedInv, Agree
<1>8. CASE RecyclePoolBlock \/ CreatePoolBlock
  \* both hold a block, and save it next, but for a failed write
  <2>1. CASE op' = [op EXCEPT !.at = "Save"]
    <3>1. op'.at = "Save"  BY <2>1 DEF TypeInv, TypeOK
    <3> QED BY <3>1 DEF SavedInv
  <2>2. CASE RecyclePoolBlock /\ Registry' = Registry
    BY <2>2 DEF RecyclePoolBlock, SavedInv, Agree
  <2> QED BY <1>8, <2>1, <2>2 DEF RecyclePoolBlock, CreatePoolBlock, Hold
<1>9. ASSUME NEW n \in Names, DeleteCDS(n) PROVE SavedInv'
  BY <1>9 DEF DeleteCDS, Call, SavedInv
<1>10. ASSUME NEW n \in Names, NEW v \in Vals, CopyHeader(n, v) PROVE SavedInv'
  BY <1>10, <1>a DEF CopyHeader, SavedInv, Agree, ram
<1>11. CASE CopyData
  BY <1>11, <1>a DEF CopyData, SavedInv, Agree, ram
<1>12. ASSUME NEW n \in Names, AppStart(n) \/ AppExit(n) PROVE SavedInv'
  BY <1>12 DEF AppStart, AppExit, SavedInv, Agree, psp, ram
<1>13. CASE Reset
  BY <1>13, <1>a DEF Reset, SavedInv
<1>14. CASE UNCHANGED vars
  BY <1>14 DEF vars, psp, ram, SavedInv, Agree
<1> QED BY <1>1, <1>2, <1>3, <1>4, <1>5, <1>6, <1>7, <1>8, <1>9, <1>10, <1>11, <1>12, <1>13,
           <1>14 DEF Next

(* As long as no write of it fails, the registry in the persistent memory   *)
(* holds between calls every store that has a block and no store that was   *)
(* deleted, however many resets and other failures cut calls, boots and     *)
(* writes of the registry short: CFE_ES_UpdateCDSRegistry after each change, and the copy that     *)
(* CFE_ES_RebuildCDS reads back, are enough (cfe_es_cds.c:444, 637 and 790-834). *)
THEOREM RegistryKept ==
  ASSUME Fails \cap {"Save", "Drop"} = {}
  PROVE  Spec => []RegistrySaved
<1>1. SavedInv => RegistrySaved  BY DEF SavedInv, RegistrySaved, Agree, Idle
<1>2. Init => TypeInv /\ SavedInv  BY TypeInit, SavedInit
<1>3. TypeInv /\ SavedInv /\ [Next]_vars => TypeInv' /\ SavedInv'  BY TypeStep, SavedStep
<1> QED BY <1>1, <1>2, <1>3, PTL DEF Spec


-----------------------------------------------------------------------------
(* The pool as its descriptors give it *)

(* What a descriptor says.                                                 *)
LEMMA DescFacts ==
  ASSUME TypeOK
  PROVE  /\ \A b \in Offsets : /\ Desc[b].bucket \in Buckets \cup {0} /\ Desc[b].bucket \in Nat
                               /\ Desc[b].allocated \in BOOLEAN
                               /\ Desc[b].size \in Nat /\ Desc[b].next \in 0..PoolSize
         /\ Described \subseteq Offsets /\ Offsets \subseteq Nat /\ 0 \notin Offsets
         /\ \A b \in Described : /\ Desc[b].bucket \in Buckets
                                 /\ Desc[b].bucket > 0 /\ After(b) \in Nat /\ After(b) > b + 1
         /\ TailPosition \in Nat /\ PoolSize \in Nat
         /\ \A b : IsBlock(b) => b \in Described
<1>1. Offsets \subseteq Nat /\ 0 \notin Offsets /\ PoolSize \in Nat /\ Buckets \subseteq Nat \ {0}
  BY PoolAssumption DEF Offsets
<1>2. \A b \in Offsets : /\ Desc[b].bucket \in Buckets \cup {0}
                         /\ Desc[b].allocated \in BOOLEAN
                         /\ Desc[b].size \in Sizes \cup {0} /\ Desc[b].next \in 0..PoolSize
  BY DEF TypeOK, BD
<1>3. \A b \in Offsets : Desc[b].bucket \in Nat /\ Desc[b].size \in Nat
  <2>1. (\A k \in Buckets \cup {0} : k \in Nat) /\ (\A k \in Sizes \cup {0} : k \in Nat)
    BY PoolAssumption
  <2> QED BY <1>2, <2>1, Zenon
<1>4. Described \subseteq Offsets  BY DEF Described
<1>5. \A b \in Described : Desc[b].bucket \in Buckets /\ Desc[b].bucket > 0
  <2> SUFFICES ASSUME NEW b \in Described PROVE Desc[b].bucket \in Buckets /\ Desc[b].bucket > 0  OBVIOUS
  <2>1. b \in Offsets /\ Desc[b].bucket # 0  BY DEF Described
  <2>2. Desc[b].bucket \in Buckets  BY <1>2, <2>1
  <2>3. Desc[b].bucket \in Nat /\ Desc[b].bucket # 0  BY <1>1, <2>2
  <2> QED BY <2>2, <2>3
<1>6. \A b \in Described : After(b) \in Nat /\ After(b) > b + 1
  <2> SUFFICES ASSUME NEW b \in Described PROVE After(b) \in Nat /\ After(b) > b + 1  OBVIOUS
  <2>1. b \in Nat /\ Desc[b].bucket \in Nat  BY <1>1, <1>3, <1>4
  <2> QED BY <1>5, <2>1 DEF After
<1>7. \A b : IsBlock(b) => b \in Described
  <2> SUFFICES ASSUME NEW b, IsBlock(b) PROVE b \in Described  OBVIOUS
  <2>1. b \in Offsets /\ Desc[b].bucket \in Buckets  BY DEF IsBlock
  <2>2. Desc[b].bucket # 0  BY <1>1, <2>1
  <2> QED BY <2>1, <2>2 DEF Described
<1>8. TailPosition \in Nat  BY <1>1 DEF TypeOK
<1> QED BY <1>1, <1>2, <1>3, <1>4, <1>5, <1>6, <1>7, <1>8

(* If there are blocks, one is at the first unit of the pool.              *)
LEMMA FirstTile ==
  ASSUME TypeOK, Tiled, Described # {}
  PROVE  1 \in Described
<1>1. Described \subseteq Nat  BY DescFacts
<1>2. PICK b \in Described : \A c \in Described : b <= c  BY <1>1, Smallest
<1>3. CASE b = 1  BY <1>3
<1>4. ASSUME NEW a \in Described, b = After(a) PROVE FALSE
  <2>1. a \in Nat /\ After(a) > a + 1 /\ After(a) \in Nat /\ b <= a  BY <1>1, <1>2, DescFacts
  <2> QED BY <1>4, <2>1
<1> QED BY <1>3, <1>4 DEF Tiled

(* Behind each block but the last there is one.                            *)
LEMMA NextTile ==
  ASSUME TypeOK, Tiled, NEW a \in Described, NEW e \in Described, a < e
  PROVE  After(a) \in Described
<1> DEFINE S == {x \in Described : a < x}
<1>1. Described \subseteq Nat  BY DescFacts
<1>2. PICK c \in S : \A x \in S : c <= x
  <2>1. S \subseteq Nat /\ S # {}  BY <1>1
  <2> HIDE DEF S
  <2> QED BY <2>1, Smallest
<1>3. c \in Described /\ c \in Nat /\ a \in Nat /\ a < c  BY <1>1
<1>4. c # 1
  <2>1. a # 0  BY DescFacts
  <2> QED BY <1>3, <2>1
<1>5. PICK d \in Described : c = After(d)  BY <1>3, <1>4 DEF Tiled
<1>6. d \in Nat /\ d < c  
  <2>1. d \in Nat /\ After(d) \in Nat /\ After(d) > d + 1  BY <1>1, DescFacts
  <2> QED BY <1>5, <2>1
<1>7. d <= a
  <2> SUFFICES ASSUME a < d PROVE FALSE  BY <1>3, <1>6
  <2>1. c <= d  BY <1>2
  <2> QED BY <1>3, <1>6, <2>1
<1>8. ~(d < a)
  <2> SUFFICES ASSUME d < a PROVE FALSE  OBVIOUS
  <2>1. After(d) <= a  BY DEF Tiled
  <2> QED BY <1>3, <1>5, <2>1
<1>9. d = a  BY <1>3, <1>6, <1>7, <1>8
<1> QED BY <1>3, <1>5, <1>9

(* The offsets at which blocks start are 1 and those behind a block: what  *)
(* the definition of Blocks computes along the pool.                       *)
LEMMA Starts ==
  ASSUME TypeOK, Tiled
  PROVE  Blocks = {b \in 1..TailPosition : b = 1 \/ \E a \in Described : b = After(a)}
<1> DEFINE Dom     == 1..(PoolSize + 1)
           Def(f)  == f = [b \in Dom |-> \/ b = 1
                                         \/ \E a \in 1..(b - 1) : f[a] /\ IsBlock(a) /\ b = a + 1 + Desc[a].bucket]
           Start   == CHOOSE f : Def(f)
           S       == [b \in Dom |-> b = 1 \/ \E a \in Described : b = After(a)]
<1>1. Blocks = {b \in 1..TailPosition : Start[b]}  BY DEF Blocks
<1>t. /\ Described \subseteq Offsets /\ PoolSize \in Nat
      /\ \A b : IsBlock(b) => b \in Described
      /\ \A b \in Described : b \in Nat /\ b >= 1 /\ b <= PoolSize /\ After(b) \in Nat /\ After(b) > b + 1
      /\ \A b \in Described : IsBlock(b)
  <2>1. \A b \in Described : IsBlock(b)  BY DescFacts DEF Tiled, IsBlock
  <2>2. \A b \in Offsets : b \in Nat /\ b >= 1 /\ b <= PoolSize  BY DescFacts DEF Offsets
  <2> QED BY <2>1, <2>2, DescFacts
<1>2. Def(S)
  <2> SUFFICES ASSUME NEW b \in Dom
               PROVE  (b = 1 \/ \E a \in Described : b = After(a))
                      = (b = 1 \/ \E a \in 1..(b - 1) : S[a] /\ IsBlock(a) /\ b = a + 1 + Desc[a].bucket)
    OBVIOUS
  <2>1. ASSUME NEW a \in Described, b = After(a)
        PROVE  a \in 1..(b - 1) /\ S[a] /\ IsBlock(a) /\ b = a + 1 + Desc[a].bucket
    <3>1. a \in 1..(b - 1) /\ a \in Dom  BY <1>t, <2>1
    <3>2. S[a]  BY <3>1 DEF Tiled
    <3> QED BY <1>t, <2>1, <3>1, <3>2 DEF After
  <2>2. ASSUME NEW a \in 1..(b - 1), IsBlock(a), b = a + 1 + Desc[a].bucket
        PROVE  a \in Described /\ b = After(a)
    BY <1>t, <2>2 DEF After
  <2> QED BY <2>1, <2>2, Zenon
<1>3. Def(Start)
  <2> HIDE DEF Def, S
  <2> QED BY <1>2, Zenon
<1>4. \A b \in Dom : Start[b] = S[b]
  <2> DEFINE T == {b \in Dom : Start[b] # S[b]}
  <2> SUFFICES ASSUME T # {} PROVE FALSE  OBVIOUS
  <2> HIDE DEF Start, S
  <2>1. PICK b \in T : \A c \in T : b <= c
    <3>1. T \subseteq Nat  BY <1>t
    <3> HIDE DEF T
    <3> QED BY <3>1, Smallest
  <2>2. \A a \in 1..(b - 1) : Start[a] = S[a]  BY <2>1, <1>t
  <2>3. Start[b] = (b = 1 \/ \E a \in 1..(b - 1) : Start[a] /\ IsBlock(a) /\ b = a + 1 + Desc[a].bucket)
    BY <1>3, <2>1, Zenon
  <2>4. S[b] = (b = 1 \/ \E a \in 1..(b - 1) : S[a] /\ IsBlock(a) /\ b = a + 1 + Desc[a].bucket)
    BY <1>2, <2>1, Zenon
  <2>5. Start[b] = S[b]  BY <2>2, <2>3, <2>4, Zenon
  <2> QED BY <2>1, <2>5
<1>5. 1..TailPosition \subseteq Dom
  <2>1. TailPosition \in Nat /\ TailPosition <= PoolSize  BY <1>t DEF TypeOK
  <2> HIDE DEF Start, S
  <2> QED BY <1>t, <2>1
<1> HIDE DEF Start
<1> QED BY <1>1, <1>4, <1>5

(* When all descriptors were counted, they are those of the blocks.        *)
LEMMA BlocksAre ==
  ASSUME TypeOK, Tiled, Described \subseteq 1..TailPosition,
         TailPosition = 0 \/ \E b \in Described : After(b) = TailPosition + 1
  PROVE  Blocks = Described
<1>t. /\ TailPosition \in Nat /\ Described \subseteq Nat
      /\ \A b \in Described : b \in Nat /\ After(b) \in Nat /\ After(b) > b + 1
  BY DescFacts
<1>1. ASSUME NEW b \in Described
      PROVE  b \in 1..TailPosition /\ (b = 1 \/ \E a \in Described : b = After(a))
  BY DEF Tiled
<1>2. ASSUME NEW b \in 1..TailPosition, b = 1 \/ \E a \in Described : b = After(a)
      PROVE  b \in Described
  <2>1. PICK e \in Described : After(e) = TailPosition + 1  BY <1>t
  <2>2. CASE b = 1  BY <2>1, <2>2, FirstTile
  <2>3. ASSUME NEW a \in Described, b = After(a) PROVE b \in Described
    <3>1. a # e  BY <1>t, <2>1, <2>3
    <3>2. ~(e < a)
      <4> SUFFICES ASSUME e < a PROVE FALSE  OBVIOUS
      <4>1. After(e) <= a  BY DEF Tiled
      <4> QED BY <1>t, <2>1, <2>3, <4>1
    <3>3. a < e  BY <1>t, <3>1, <3>2
    <3> QED BY <2>3, <3>3, NextTile
  <2> QED BY <1>2, <2>2, <2>3
<1>3. Blocks = {b \in 1..TailPosition : b = 1 \/ \E a \in Described : b = After(a)}  BY Starts
<1> QED BY <1>1, <1>2, <1>3, Zenon

(* A walk along the list of a bucket meets its blocks in their order, and  *)
(* then nothing.                                                           *)
LEMMA Walks ==
  ASSUME TypeOK, NEW k \in Buckets, Linked(k)
  PROVE  Listed(k) = FreeBlocks(k) /\ Walk(k)[PoolSize] = 0
<1>1. PICK n \in 0..PoolSize : \E f \in [1..n -> FreeBlocks(k)] : IsList(k, n, f)  BY DEF Linked
<1>p. PICK f \in [1..n -> FreeBlocks(k)] : IsList(k, n, f)  BY <1>1
<1>2. /\ \A b \in FreeBlocks(k) : \E i \in 1..n : f[i] = b
      /\ FirstOffset[k] = IF n = 0 THEN 0 ELSE f[1]
      /\ \A i \in 1..n : Desc[f[i]].next = IF i = n THEN 0 ELSE f[i + 1]
  BY <1>p DEF IsList
<1>3. PoolSize \in Nat /\ n \in Nat /\ n <= PoolSize  BY PoolAssumption
<1>4. \A i \in 1..n : f[i] \in FreeBlocks(k) /\ f[i] # 0
  <2>1. 0 \notin Described  BY DescFacts
  <2> QED BY <2>1 DEF FreeBlocks
<1> DEFINE g == [i \in Nat |-> IF i < n THEN f[i + 1] ELSE 0]
<1>5. g[0] = FirstOffset[k]  BY <1>2, <1>3
<1>6. \A j \in Nat \ {0} : g[j] = IF g[j - 1] = 0 THEN 0 ELSE Desc[g[j - 1]].next
  <2> SUFFICES ASSUME NEW j \in Nat \ {0} PROVE g[j] = IF g[j - 1] = 0 THEN 0 ELSE Desc[g[j - 1]].next
    OBVIOUS
  <2>1. j - 1 \in Nat /\ j \in Nat  OBVIOUS
  <2>2. CASE j - 1 < n
    <3>1. j \in 1..n /\ g[j - 1] = f[j] /\ f[j] # 0  BY <1>3, <1>4, <2>1, <2>2
    <3>2. Desc[f[j]].next = IF j = n THEN 0 ELSE f[j + 1]  BY <1>2, <3>1
    <3>3. g[j] = IF j = n THEN 0 ELSE f[j + 1]  BY <1>3, <2>2
    <3> QED BY <3>1, <3>2, <3>3, Zenon
  <2>3. CASE ~(j - 1 < n)
    <3>1. g[j - 1] = 0 /\ g[j] = 0  BY <1>3, <2>1, <2>3
    <3> QED BY <3>1
  <2> QED BY <2>2, <2>3
<1>7. Walk(k) = [i \in 0..PoolSize |-> g[i]]
  <2> DEFINE Def(i, h) == h = [j \in 0..i |-> IF j = 0 THEN FirstOffset[k]
                                              ELSE IF h[j - 1] = 0 THEN 0 ELSE Desc[h[j - 1]].next]
             Hop(i) == CHOOSE h : Def(i, h)
  <2> HIDE DEF g
  <2>1. Walk(k) = [i \in 0..PoolSize |-> Hop(i)[i]]  BY DEF Walk
  <2>2. ASSUME NEW i \in 0..PoolSize PROVE Hop(i)[i] = g[i]
    <3> DEFINE G == [j \in 0..i |-> g[j]]
    <3>1. Def(i, G)
      <4> SUFFICES ASSUME NEW j \in 0..i
                   PROVE  g[j] = IF j = 0 THEN FirstOffset[k]
                                 ELSE IF G[j - 1] = 0 THEN 0 ELSE Desc[G[j - 1]].next
        OBVIOUS
      <4>1. CASE j = 0  BY <1>5, <4>1
      <4>2. CASE j # 0
        <5>1. j \in Nat \ {0} /\ j - 1 \in 0..i  BY <4>2
        <5>2. G[j - 1] = g[j - 1]  BY <5>1
        <5> QED BY <1>6, <4>2, <5>1, <5>2
      <4> QED BY <4>1, <4>2
    <3>2. Def(i, Hop(i))
      <4> HIDE DEF Def, G
      <4> QED BY <3>1, Zenon
    <3> DEFINE T == {j \in 0..i : Hop(i)[j] # g[j]}
    <3>3. T = {}
      <4> SUFFICES ASSUME T # {} PROVE FALSE  OBVIOUS
      <4> HIDE DEF Hop
      <4>1. PICK j \in T : \A c \in T : j <= c
        <5>1. T \subseteq Nat  OBVIOUS
        <5> HIDE DEF T
        <5> QED BY <5>1, Smallest
      <4>2. Hop(i)[j] = IF j = 0 THEN FirstOffset[k]
                        ELSE IF Hop(i)[j - 1] = 0 THEN 0 ELSE Desc[Hop(i)[j - 1]].next
        BY <3>2, <4>1, Zenon
      <4>3. CASE j = 0  BY <1>5, <4>1, <4>2, <4>3
      <4>4. CASE j # 0
        <5>1. j \in Nat \ {0} /\ j - 1 \in 0..i /\ j - 1 < j  BY <4>1, <4>4
        <5>2. Hop(i)[j - 1] = g[j - 1]  BY <4>1, <5>1
        <5>3. Hop(i)[j] = IF g[j - 1] = 0 THEN 0 ELSE Desc[g[j - 1]].next  BY <4>2, <4>4, <5>2, Zenon
        <5> QED BY <1>6, <4>1, <5>1, <5>3
      <4> QED BY <4>3, <4>4
    <3>4. i \in 0..i  BY <1>3
    <3> HIDE DEF Hop
    <3> QED BY <3>3, <3>4
  <2> HIDE DEF Hop
  <2> QED BY <2>1, <2>2
<1>8. Walk(k)[PoolSize] = 0  BY <1>3, <1>7
<1>9. Listed(k) = FreeBlocks(k)
  <2>1. \A i \in 0..PoolSize : Walk(k)[i] = IF i < n THEN f[i + 1] ELSE 0  BY <1>3, <1>7
  <2>2. ASSUME NEW b \in Listed(k) PROVE b \in FreeBlocks(k)
    <3>1. PICK i \in 0..PoolSize : Walk(k)[i] = b /\ b # 0  BY DEF Listed
    <3>2. i < n /\ b = f[i + 1]  BY <2>1, <3>1
    <3>3. i + 1 \in 1..n  BY <1>3, <3>2
    <3> QED BY <1>4, <3>2, <3>3
  <2>3. ASSUME NEW b \in FreeBlocks(k) PROVE b \in Listed(k)
    <3>1. PICK i \in 1..n : f[i] = b  BY <1>2
    <3>2. i - 1 \in 0..PoolSize /\ i - 1 < n /\ (i - 1) + 1 = i  BY <1>3
    <3>3. Walk(k)[i - 1] = b  BY <2>1, <3>1, <3>2
    <3>4. b # 0  BY <1>4, <3>1
    <3> QED BY <3>2, <3>3, <3>4 DEF Listed
  <2> QED BY <2>2, <2>3
<1> QED BY <1>8, <1>9

(* The pool as the proofs see it is the pool as a walk finds it.           *)
LEMMA PoolMeans == PoolInv => PoolSound
<1> SUFFICES ASSUME PoolInv, op.at \in CallSteps \cup {"Idle"}
             PROVE  /\ \A b \in Blocks : IsBlock(b) /\ b + Desc[b].bucket <= TailPosition
                    /\ \E b \in Blocks \cup {0} :
                         TailPosition = (IF b = 0 THEN 0 ELSE b + Desc[b].bucket)
                    /\ \A k \in Buckets : Listed(k) = Free(k) /\ Walk(k)[PoolSize] = 0
  BY DEF PoolSound
<1>1. /\ TypeOK /\ Tiled /\ Described \subseteq 1..TailPosition
      /\ TailPosition = 0 \/ \E b \in Described : After(b) = TailPosition + 1
      /\ \A k \in Buckets : Linked(k)
  BY DEF PoolInv, TypeInv, TilesInv, TailInv, ListsInv, CallSteps
<1>2. Blocks = Described  BY <1>1, BlocksAre
<1>t. /\ TailPosition \in Nat /\ Described \subseteq Offsets
      /\ \A b \in Described : /\ b \in Nat /\ b # 0 /\ Desc[b].bucket \in Nat /\ Desc[b].bucket \in Buckets
                              /\ After(b) \in Nat /\ After(b) > b + 1
  BY <1>1, DescFacts
<1>3. ASSUME NEW b \in Blocks PROVE IsBlock(b) /\ b + Desc[b].bucket <= TailPosition
  <2>1. b \in Described /\ b <= TailPosition /\ b # 0  BY <1>1, <1>2, <1>3, <1>t
  <2>2. IsBlock(b)  BY <1>1, <1>t, <2>1 DEF IsBlock, Tiled
  <2>3. PICK e \in Described : After(e) = TailPosition + 1  BY <1>1, <1>t, <2>1
  <2>4. After(b) <= After(e)
    <3>1. CASE b = e  BY <1>t, <3>1
    <3>2. CASE b < e
      <4>1. After(b) <= e  BY <1>1, <2>1, <3>2 DEF Tiled
      <4> QED BY <1>t, <2>1, <4>1
    <3>3. CASE e < b
      <4>1. After(e) <= b  BY <1>1, <2>1, <3>3 DEF Tiled
      <4> QED BY <1>t, <2>1, <2>3, <4>1
    <3> QED BY <1>t, <2>1, <3>1, <3>2, <3>3
  <2>5. b + Desc[b].bucket + 1 = After(b)  BY <1>t, <2>1 DEF After
  <2> QED BY <1>t, <2>1, <2>2, <2>3, <2>4, <2>5
<1>4. \E b \in Blocks \cup {0} : TailPosition = (IF b = 0 THEN 0 ELSE b + Desc[b].bucket)
  <2>1. CASE TailPosition = 0  BY <2>1
  <2>2. ASSUME NEW b \in Described, After(b) = TailPosition + 1
        PROVE  b \in Blocks /\ b # 0 /\ TailPosition = b + Desc[b].bucket
    BY <1>2, <1>t, <2>2 DEF After
  <2> QED BY <1>1, <2>1, <2>2
<1>5. ASSUME NEW k \in Buckets PROVE Listed(k) = Free(k) /\ Walk(k)[PoolSize] = 0
  <2>1. \A b \in Described : b <= TailPosition  BY <1>1
  <2>2. FreeBlocks(k) = Free(k)  BY <1>2, <2>1, Zenon DEF FreeBlocks, Free
  <2> QED BY <1>1, <2>2, Walks
<1> QED BY <1>3, <1>4, <1>5

-----------------------------------------------------------------------------
(* What a step does to blocks and lists *)

(* A step that keeps what descriptors say of block sizes keeps the tiles.  *)
LEMMA SameTiles ==
  ASSUME TypeOK, TypeOK', Tiled,
         \A b \in Offsets : Desc'[b].bucket = Desc[b].bucket,
         \A b \in Described : Desc'[b].size <= Desc[b].bucket
  PROVE  Described' = Described /\ (\A b \in Described : After(b)' = After(b)) /\ Tiled'
<1>1. Described' = Described  BY DEF Described
<1>2. \A b \in Described : After(b)' = After(b) /\ Desc'[b].bucket = Desc[b].bucket
  BY DEF Described, After
<1>3. Tiled'
  <2>1. ASSUME NEW b \in Described
        PROVE  /\ Desc'[b].size <= Desc'[b].bucket
               /\ b = 1 \/ \E a \in Described : b = After(a)'
    BY <1>2 DEF Tiled
  <2>2. ASSUME NEW a \in Described, NEW b \in Described, a < b PROVE After(a)' <= b
    BY <1>2, <2>2 DEF Tiled
  <2> QED BY <1>1, <2>1, <2>2 DEF Tiled
<1> QED BY <1>1, <1>2, <1>3

-----------------------------------------------------------------------------
(* A bucket without free blocks has an empty list.                         *)
LEMMA LinkEmpty ==
  ASSUME NEW k, FreeBlocks(k)' = {}, FirstOffset'[k] = 0
  PROVE  Linked(k)'
<1> DEFINE f == [i \in 1..0 |-> 0]
<1>1. 1..0 = {} /\ 0 \in 0..PoolSize  BY PoolAssumption
<1>2. f \in [1..0 -> FreeBlocks(k)']  BY <1>1
<1> HIDE DEF f
<1>3. IsList(k, 0, f)'  BY <1>1 DEF IsList
<1> QED BY <1>1, <1>2, <1>3 DEF Linked

(* A list stays one when its head and its links do.                        *)
LEMMA LinkKept ==
  ASSUME NEW k, Linked(k), FreeBlocks(k)' = FreeBlocks(k), FirstOffset'[k] = FirstOffset[k],
         \A b \in FreeBlocks(k) : Desc'[b].next = Desc[b].next
  PROVE  Linked(k)'
<1>p. PICK n \in 0..PoolSize : \E f \in [1..n -> FreeBlocks(k)] : IsList(k, n, f)  BY DEF Linked
<1>q. PICK f \in [1..n -> FreeBlocks(k)] : IsList(k, n, f)  BY <1>p
<1>1. /\ \A i, j \in 1..n : f[i] = f[j] => i = j
      /\ \A b \in FreeBlocks(k) : \E i \in 1..n : f[i] = b
      /\ FirstOffset[k] = IF n = 0 THEN 0 ELSE f[1]
      /\ \A i \in 1..n : Desc[f[i]].next = IF i = n THEN 0 ELSE f[i + 1]
  BY <1>q DEF IsList
<1>2. \A i \in 1..n : Desc'[f[i]].next = IF i = n THEN 0 ELSE f[i + 1]  BY <1>1
<1>3. IsList(k, n, f)'  BY <1>1, <1>2 DEF IsList
<1> QED BY <1>3 DEF Linked

(* A list is not longer than the pool.                                     *)
LEMMA Short ==
  ASSUME NEW n \in Nat, NEW S, S \subseteq Offsets, NEW f \in [1..n -> S],
         \A i, j \in 1..n : f[i] = f[j] => i = j
  PROVE  n \in 0..PoolSize
<1>1. PoolSize \in Nat /\ 0 \in Int /\ 1 \in Int /\ n \in Int /\ PoolSize \in Int  BY PoolAssumption
<1>2. IsFiniteSet(1..n) /\ Cardinality(1..n) = IF 1 > n THEN 0 ELSE n - 1 + 1  BY <1>1, FS_Interval
<1>3. /\ IsFiniteSet(Offsets)
      /\ Cardinality(Offsets) = IF 1 > PoolSize THEN 0 ELSE PoolSize - 1 + 1
  BY <1>1, FS_Interval DEF Offsets
<1>4. Cardinality(1..n) = n /\ Cardinality(Offsets) = PoolSize  BY <1>1, <1>2, <1>3
<1>5. f \in [1..n -> Offsets]  OBVIOUS
<1>6. ~(PoolSize < n)
  <2> SUFFICES ASSUME PoolSize < n PROVE FALSE  OBVIOUS
  <2>1. PICK x, y \in 1..n : x # y /\ f[x] = f[y]
    BY <1>2, <1>3, <1>4, <1>5, FS_PigeonHole
  <2> QED BY <2>1
<1> QED BY <1>1, <1>6

(* A block that is freed becomes the first of its list.                    *)
LEMMA LinkPut ==
  ASSUME TypeOK, TypeOK', NEW k, Linked(k), NEW b \in Offsets, b \notin FreeBlocks(k),
         FreeBlocks(k)' = FreeBlocks(k) \cup {b}, FirstOffset'[k] = b, Desc'[b].next = FirstOffset[k],
         \A c \in FreeBlocks(k) : Desc'[c].next = Desc[c].next
  PROVE  Linked(k)'
<1>p. PICK n \in 0..PoolSize : \E f \in [1..n -> FreeBlocks(k)] : IsList(k, n, f)  BY DEF Linked
<1>q. PICK f \in [1..n -> FreeBlocks(k)] : IsList(k, n, f)  BY <1>p
<1>1. /\ \A i, j \in 1..n : f[i] = f[j] => i = j
      /\ \A c \in FreeBlocks(k) : \E i \in 1..n : f[i] = c
      /\ FirstOffset[k] = IF n = 0 THEN 0 ELSE f[1]
      /\ \A i \in 1..n : Desc[f[i]].next = IF i = n THEN 0 ELSE f[i + 1]
  BY <1>q DEF IsList
<1>2. PoolSize \in Nat /\ n \in Nat  BY PoolAssumption
<1> DEFINE m == n + 1
           g == [i \in 1..m |-> IF i = 1 THEN b ELSE f[i - 1]]
<1>3. \A i \in 1..m : i # 1 => i - 1 \in 1..n /\ g[i] = f[i - 1] /\ f[i - 1] \in FreeBlocks(k)
  BY <1>2
<1>4. 1 \in 1..m /\ g[1] = b /\ m \in Nat /\ m # 0  BY <1>2
<1>5. g \in [1..m -> FreeBlocks(k)']
  <2>1. \A i \in 1..m : g[i] \in FreeBlocks(k)'  BY <1>3, <1>4
  <2> QED BY <2>1
<1>6. \A i, j \in 1..m : g[i] = g[j] => i = j
  <2> SUFFICES ASSUME NEW i \in 1..m, NEW j \in 1..m, g[i] = g[j] PROVE i = j  OBVIOUS
  <2> HIDE DEF g
  <2>1. CASE i = 1 /\ j = 1  BY <2>1
  <2>2. CASE i = 1 /\ j # 1  BY <1>3, <1>4, <2>2
  <2>3. CASE i # 1 /\ j = 1  BY <1>3, <1>4, <2>3
  <2>4. CASE i # 1 /\ j # 1
    <3>1. f[i - 1] = f[j - 1] /\ i - 1 \in 1..n /\ j - 1 \in 1..n  BY <1>3, <2>4
    <3>2. i - 1 = j - 1  BY <1>1, <3>1
    <3> QED BY <1>2, <3>2
  <2> QED BY <2>1, <2>2, <2>3, <2>4
<1>7. \A c \in FreeBlocks(k)' : \E i \in 1..m : g[i] = c
  <2> SUFFICES ASSUME NEW c \in FreeBlocks(k) PROVE \E i \in 1..m : g[i] = c  BY <1>4
  <2>1. PICK i \in 1..n : f[i] = c  BY <1>1
  <2>2. i + 1 \in 1..m /\ i + 1 # 1 /\ (i + 1) - 1 = i  BY <1>2
  <2> HIDE DEF g, m
  <2> QED BY <1>3, <2>1, <2>2
<1>8. \A i \in 1..m : Desc'[g[i]].next = IF i = m THEN 0 ELSE g[i + 1]
  <2> SUFFICES ASSUME NEW i \in 1..m PROVE Desc'[g[i]].next = IF i = m THEN 0 ELSE g[i + 1]  OBVIOUS
  <2>1. i # m => i + 1 \in 1..m /\ g[i + 1] = f[i]  BY <1>2
  <2>2. CASE i = 1
    <3>1. Desc'[g[i]].next = FirstOffset[k]  BY <1>4, <2>2
    <3>2. FirstOffset[k] = IF n = 0 THEN 0 ELSE f[1]  BY <1>1
    <3>3. i = m <=> n = 0  BY <1>2, <2>2
    <3> HIDE DEF g, m
    <3> QED BY <2>1, <2>2, <3>1, <3>2, <3>3
  <2>3. CASE i # 1
    <3>1. i - 1 \in 1..n /\ g[i] = f[i - 1] /\ f[i - 1] \in FreeBlocks(k)  BY <1>3, <2>3
    <3>2. Desc'[g[i]].next = IF i - 1 = n THEN 0 ELSE f[(i - 1) + 1]  BY <1>1, <3>1
    <3>3. (i - 1 = n <=> i = m) /\ (i - 1) + 1 = i  BY <1>2
    <3> HIDE DEF g, m
    <3> QED BY <2>1, <3>2, <3>3
  <2> QED BY <2>2, <2>3
<1>9. m \in 0..PoolSize
  <2>1. FreeBlocks(k)' \subseteq Offsets  BY DEF FreeBlocks, Described
  <2>2. m \in Nat  BY <1>4
  <2> HIDE DEF g, m
  <2> QED BY <1>5, <1>6, <2>1, <2>2, Short
<1>10. FirstOffset'[k] = IF m = 0 THEN 0 ELSE g[1]  BY <1>4
<1> HIDE DEF g, m
<1>11. IsList(k, m, g)'  BY <1>6, <1>7, <1>8, <1>10 DEF IsList
<1> QED BY <1>5, <1>9, <1>11 DEF Linked

(* The first of a list is a free block of its bucket; when it is taken the *)
(* rest is the list.                                                       *)
LEMMA LinkHead ==
  ASSUME NEW k, Linked(k), FirstOffset[k] # 0
  PROVE  FirstOffset[k] \in FreeBlocks(k)
<1>p. PICK n \in 0..PoolSize : \E f \in [1..n -> FreeBlocks(k)] : IsList(k, n, f)  BY DEF Linked
<1>1. PICK f \in [1..n -> FreeBlocks(k)] : FirstOffset[k] = IF n = 0 THEN 0 ELSE f[1]
  BY <1>p DEF IsList
<1>2. 1 \in 1..n  BY <1>1, PoolAssumption
<1> QED BY <1>1, <1>2

LEMMA LinkGet ==
  ASSUME NEW k, Linked(k), NEW b, b = FirstOffset[k], b # 0,
         FreeBlocks(k)' = FreeBlocks(k) \ {b}, FirstOffset'[k] = Desc[b].next,
         \A c \in FreeBlocks(k) \ {b} : Desc'[c].next = Desc[c].next
  PROVE  Linked(k)'
<1>p. PICK n \in 0..PoolSize : \E f \in [1..n -> FreeBlocks(k)] : IsList(k, n, f)  BY DEF Linked
<1>q. PICK f \in [1..n -> FreeBlocks(k)] : IsList(k, n, f)  BY <1>p
<1>1. /\ \A i, j \in 1..n : f[i] = f[j] => i = j
      /\ \A c \in FreeBlocks(k) : \E i \in 1..n : f[i] = c
      /\ FirstOffset[k] = IF n = 0 THEN 0 ELSE f[1]
      /\ \A i \in 1..n : Desc[f[i]].next = IF i = n THEN 0 ELSE f[i + 1]
  BY <1>q DEF IsList
<1>2. PoolSize \in Nat /\ n \in Nat /\ n # 0 /\ 1 \in 1..n /\ f[1] = b  BY <1>1, PoolAssumption
<1> DEFINE m == n - 1
           g == [i \in 1..m |-> f[i + 1]]
<1>3. m \in 0..PoolSize  BY <1>2
<1>4. \A i \in 1..m : i + 1 \in 1..n /\ i + 1 # 1 /\ g[i] = f[i + 1] /\ f[i + 1] \in FreeBlocks(k) \ {b}
  <2> SUFFICES ASSUME NEW i \in 1..m
               PROVE  i + 1 \in 1..n /\ i + 1 # 1 /\ f[i + 1] \in FreeBlocks(k) \ {b}
    OBVIOUS
  <2>1. i + 1 \in 1..n /\ i + 1 # 1  BY <1>2
  <2>2. f[i + 1] # b  BY <1>1, <1>2, <2>1
  <2> QED BY <2>1, <2>2
<1>5. g \in [1..m -> FreeBlocks(k)']  BY <1>4
<1>6. \A i, j \in 1..m : g[i] = g[j] => i = j
  <2> SUFFICES ASSUME NEW i \in 1..m, NEW j \in 1..m, g[i] = g[j] PROVE i = j  OBVIOUS
  <2>1. i + 1 = j + 1  BY <1>1, <1>4
  <2> QED BY <1>2, <2>1
<1>7. \A c \in FreeBlocks(k)' : \E i \in 1..m : g[i] = c
  <2> SUFFICES ASSUME NEW c \in FreeBlocks(k), c # b PROVE \E i \in 1..m : g[i] = c  OBVIOUS
  <2>1. PICK i \in 1..n : f[i] = c  BY <1>1
  <2>2. i # 1  BY <1>2, <2>1
  <2>3. i - 1 \in 1..m /\ (i - 1) + 1 = i  BY <1>2, <2>2
  <2> HIDE DEF g, m
  <2> QED BY <1>4, <2>1, <2>3
<1>8. \A i \in 1..m : Desc'[g[i]].next = IF i = m THEN 0 ELSE g[i + 1]
  <2> SUFFICES ASSUME NEW i \in 1..m PROVE Desc'[g[i]].next = IF i = m THEN 0 ELSE g[i + 1]  OBVIOUS
  <2>1. Desc'[g[i]].next = IF i + 1 = n THEN 0 ELSE f[(i + 1) + 1]  BY <1>1, <1>4
  <2>2. i + 1 = n <=> i = m  BY <1>2
  <2>3. i # m => i + 1 \in 1..m  BY <1>2
  <2>4. i # m => g[i + 1] = f[(i + 1) + 1]  BY <1>4, <2>3
  <2> HIDE DEF g, m
  <2> QED BY <2>1, <2>2, <2>4
<1>9. FirstOffset'[k] = IF m = 0 THEN 0 ELSE g[1]
  <2>1. FirstOffset'[k] = IF 1 = n THEN 0 ELSE f[1 + 1]  BY <1>1, <1>2
  <2>2. m = 0 <=> 1 = n  BY <1>2
  <2>3. m # 0 => 1 \in 1..m /\ g[1] = f[1 + 1]  BY <1>2
  <2> HIDE DEF g, m
  <2> QED BY <2>1, <2>2, <2>3
<1> HIDE DEF g, m
<1>10. IsList(k, m, g)'  BY <1>6, <1>7, <1>8, <1>9 DEF IsList
<1> QED BY <1>3, <1>5, <1>10 DEF Linked

\* The steps of calls, and none
Serving == CallSteps \cup {"Idle"}

(* A step that leaves the pool alone keeps what is said of it, as long as  *)
(* the next one is not another part of a boot.                             *)
LEMMA PoolFrame ==
  ASSUME TypeOK, TilesInv, TailInv, ListsInv, UNCHANGED <<Desc, TailPosition, FirstOffset, Marks>>,
         op'.at = op.at \/ op'.at = "Down" \/ (op.at \in Serving /\ op'.at \in Serving)
  PROVE  TilesInv' /\ TailInv' /\ ListsInv'
<1>1. Described' = Described /\ (Tiled => Tiled') /\ \A b : After(b)' = After(b)
  BY DEF Described, After, Tiled
<1>2. \A k : Linked(k) => Linked(k)'
  <2>1. \A k : FreeBlocks(k)' = FreeBlocks(k)  BY DEF FreeBlocks, Described
  <2> QED BY <2>1, LinkKept
<1> USE DEF Serving, CallSteps, BootSteps
<1>3. TilesInv'  BY <1>1 DEF TilesInv
<1>4. TailInv'  BY <1>1 DEF TailInv
<1>5. ListsInv'  BY <1>2 DEF ListsInv
<1> QED BY <1>3, <1>4, <1>5

(* Freeing a block keeps the tiles and puts it on the list of its bucket.  *)
LEMMA PutBlockPool ==
  ASSUME TypeOK, TypeOK', TilesInv, TailInv, ListsInv, op.at = "Idle", NEW b, PutBlock(b),
         UNCHANGED <<TailPosition, Marks>>, op'.at \in Serving
  PROVE  TilesInv' /\ TailInv' /\ ListsInv' /\ Described' = Described
<1> USE DEF CallSteps, BootSteps
<1>k. PICK k : k = Desc[b].bucket  OBVIOUS
<1>1. b \in Described /\ b <= TailPosition /\ b \in Offsets /\ k \in Buckets /\ Desc[b].allocated
  <2>1. b \in 1..TailPosition /\ k \in Buckets /\ Desc[b].allocated  BY <1>k DEF PutBlock, IsAllocated
  <2>2. TailPosition \in Nat /\ TailPosition <= PoolSize /\ PoolSize \in Nat  BY PoolAssumption DEF TypeOK
  <2>3. b \in Offsets /\ b <= TailPosition  BY <2>1, <2>2 DEF Offsets
  <2>4. k # 0  BY <2>1, PoolAssumption
  <2> QED BY <1>k, <2>1, <2>3, <2>4 DEF Described
<1>2. Desc' = [Desc EXCEPT ![b] = [Desc[b] EXCEPT !.allocated = FALSE, !.next = FirstOffset[k]]]
  BY <1>k DEF PutBlock
<1>3. /\ \A c \in Offsets \ {b} : Desc'[c] = Desc[c]
      /\ Desc'[b] = [Desc[b] EXCEPT !.allocated = FALSE, !.next = FirstOffset[k]]
  BY <1>1, <1>2 DEF TypeOK
<1>4. /\ Desc'[b].bucket = k /\ Desc'[b].size = Desc[b].size
      /\ ~Desc'[b].allocated /\ Desc'[b].next = FirstOffset[k]
  BY <1>k, <1>1, <1>3 DEF TypeOK, BD
<1>5. /\ \A c \in Offsets : Desc'[c].bucket = Desc[c].bucket
      /\ \A c \in Described : Desc'[c].size = Desc[c].size
  BY <1>k, <1>3, <1>4 DEF Described
<1>6. Tiled  BY DEF TilesInv
<1>7. Described' = Described /\ (\A c \in Described : After(c)' = After(c)) /\ Tiled'
  <2>1. \A c \in Described : Desc'[c].size <= Desc[c].bucket  BY <1>5, <1>6 DEF Tiled
  <2> QED BY <1>5, <1>6, <2>1, SameTiles
<1>8. FirstOffset' = [FirstOffset EXCEPT ![k] = b]  BY <1>k DEF PutBlock
<1>9. ASSUME NEW j \in Buckets PROVE Linked(j)'
  <2>1. Linked(j)  BY DEF ListsInv
  <2>2. CASE j = k
    <3>1. FreeBlocks(j)' = FreeBlocks(j) \cup {b} /\ b \notin FreeBlocks(j)
      BY <1>1, <1>3, <1>4, <1>7, <2>2 DEF FreeBlocks, Described
    <3>2. FirstOffset'[j] = b /\ Desc'[b].next = FirstOffset[j]  BY <1>1, <1>4, <1>8, <2>2 DEF TypeOK
    <3>3. \A c \in FreeBlocks(j) : Desc'[c].next = Desc[c].next
      BY <1>1, <1>3 DEF FreeBlocks, Described
    <3> QED BY <1>1, <2>1, <3>1, <3>2, <3>3, LinkPut
  <2>3. CASE j # k
    <3>1. FreeBlocks(j)' = FreeBlocks(j)
      BY <1>k, <1>1, <1>3, <1>4, <1>7, <2>3 DEF FreeBlocks, Described
    <3>2. FirstOffset'[j] = FirstOffset[j]  BY <1>8, <2>3 DEF TypeOK
    <3>3. \A c \in FreeBlocks(j) : Desc'[c].next = Desc[c].next
      BY <1>k, <1>1, <1>3, <2>3 DEF FreeBlocks, Described
    <3> QED BY <2>1, <3>1, <3>2, <3>3, LinkKept
  <2> QED BY <2>2, <2>3
<1>10. TilesInv' /\ ListsInv'  BY <1>7, <1>9 DEF TilesInv, ListsInv, Serving
<1>11. TailInv'
  <2>1. TailPosition = 0 \/ \E c \in Described : After(c) = TailPosition + 1  BY DEF TailInv
  <2>2. Described \subseteq 1..TailPosition  BY DEF TailInv
  <2> QED BY <1>7, <2>1, <2>2 DEF TailInv, Serving
<1> QED BY <1>7, <1>10, <1>11

(* A block of the list is taken, for as many or fewer bytes.               *)
LEMMA RecyclePool ==
  ASSUME TypeInv, TypeOK', TilesInv, TailInv, ListsInv, RecyclePoolBlock
  PROVE  TilesInv' /\ TailInv' /\ ListsInv' /\ Described' = Described
<1> USE DEF CallSteps, BootSteps
<1>0. TypeOK /\ CallLocals  BY DEF TypeInv
<1>k. PICK k : k = Bucket(op.size)  OBVIOUS
<1>b. PICK b : b = FirstOffset[k]  OBVIOUS
<1>1. op.at = "Get" /\ op.size \in Nat /\ Fits(op.size) # {}
  BY <1>0, PoolAssumption DEF RecyclePoolBlock, CallLocals
<1>2. k \in Buckets /\ k \in Nat \ {0} /\ op.size <= k  BY <1>k, <1>1, BucketFits
<1>3. UNCHANGED <<TailPosition, Marks>>  BY DEF RecyclePoolBlock
<1>4. CASE op' = [op EXCEPT !.at = "Create"] /\ UNCHANGED <<Desc, FirstOffset, Registry>>
  <2>1. op'.at = "Create"  BY <1>0, <1>4 DEF TypeOK
  <2>2. Described' = Described  BY <1>4 DEF Described
  <2> QED BY <1>0, <1>1, <1>3, <1>4, <2>1, <2>2, PoolFrame DEF Serving
<1>5. CASE Allocate(b, op.size) /\ FirstOffset' = [FirstOffset EXCEPT ![k] = Desc[b].next] /\ Hold(b)
  <2>1. Recyclable(k)  BY <1>k DEF RecyclePoolBlock
  <2>2. Linked(k) /\ Tiled  BY <1>1, <1>2 DEF ListsInv, TilesInv
  <2>3. b \in FreeBlocks(k) /\ b # 0  BY <1>b, <2>1, <2>2, LinkHead DEF Recyclable
  <2>4. b \in Described /\ b <= TailPosition /\ b \in Offsets /\ Desc[b].bucket = k
    BY <2>3 DEF FreeBlocks, Described
  <2>5. Desc' = [Desc EXCEPT ![b] = [bucket |-> k, allocated |-> TRUE, size |-> op.size, next |-> 0]]
    BY <1>k, <1>5 DEF Allocate
  <2>6. /\ \A c \in Offsets \ {b} : Desc'[c] = Desc[c]
        /\ Desc'[b] = [bucket |-> k, allocated |-> TRUE, size |-> op.size, next |-> 0]
    BY <1>0, <2>4, <2>5 DEF TypeOK
  <2>7. Desc'[b].bucket = k /\ Desc'[b].size = op.size /\ Desc'[b].allocated  BY <2>6
  <2>8. /\ \A c \in Offsets : Desc'[c].bucket = Desc[c].bucket
        /\ \A c \in Described : Desc'[c].size <= Desc[c].bucket
    <3>1. \A c \in Described : Desc[c].size <= Desc[c].bucket /\ c \in Offsets  BY <2>2 DEF Tiled, Described
    <3> QED BY <1>2, <2>4, <2>6, <2>7, <3>1
  <2>9. Described' = Described /\ (\A c \in Described : After(c)' = After(c)) /\ Tiled'
    BY <1>0, <2>2, <2>8, SameTiles
  <2>10. ASSUME NEW j \in Buckets PROVE Linked(j)'
    <3>1. Linked(j)  BY <1>1 DEF ListsInv
    <3>2. CASE j = k
      <4>1. FreeBlocks(j)' = FreeBlocks(j) \ {b}
        BY <1>3, <2>4, <2>6, <2>7, <2>9, <3>2 DEF FreeBlocks, Described
      <4>2. FirstOffset'[j] = Desc[b].next /\ b = FirstOffset[j]
        BY <1>0, <1>2, <1>5, <1>b, <3>2 DEF TypeOK
      <4>3. \A c \in FreeBlocks(j) \ {b} : Desc'[c].next = Desc[c].next
        BY <2>6 DEF FreeBlocks, Described
      <4> QED BY <2>3, <3>1, <4>1, <4>2, <4>3, LinkGet
    <3>3. CASE j # k
      <4>1. FreeBlocks(j)' = FreeBlocks(j)
        BY <1>3, <2>4, <2>6, <2>7, <2>9, <3>3 DEF FreeBlocks, Described
      <4>2. FirstOffset'[j] = FirstOffset[j]  BY <1>0, <1>5, <3>3 DEF TypeOK
      <4>3. \A c \in FreeBlocks(j) : Desc'[c].next = Desc[c].next
        BY <2>4, <2>6, <3>3 DEF FreeBlocks, Described
      <4> QED BY <3>1, <4>1, <4>2, <4>3, LinkKept
    <3> QED BY <3>2, <3>3
  <2>11. op'.at = "Save"  BY <1>0, <1>5 DEF Hold, TypeOK
  <2>12. TilesInv' /\ ListsInv'  BY <2>9, <2>10, <2>11 DEF TilesInv, ListsInv
  <2>13. TailInv'
    <3>1. TailPosition = 0 \/ \E c \in Described : After(c) = TailPosition + 1  BY <1>1 DEF TailInv
    <3>2. Described \subseteq 1..TailPosition  BY <1>1 DEF TailInv
    <3> QED BY <1>3, <2>9, <2>11, <3>1, <3>2 DEF TailInv
  <2> QED BY <2>9, <2>12, <2>13
<1> QED BY <1>k, <1>b, <1>4, <1>5 DEF RecyclePoolBlock

(* Blocks that were counted end with the tail.                             *)
LEMMA TailEnd ==
  ASSUME TypeOK, Tiled, TailPosition = 0 \/ \E e \in Described : After(e) = TailPosition + 1,
         NEW a \in Described, a <= TailPosition
  PROVE  After(a) <= TailPosition + 1
<1>t. /\ TailPosition \in Nat
      /\ \A c \in Described : c \in Nat /\ c # 0 /\ After(c) \in Nat /\ After(c) > c + 1
  <2>1. \A c \in Described : c \in Nat /\ c # 0  BY DescFacts
  <2> QED BY <2>1, DescFacts
<1>1. PICK e \in Described : After(e) = TailPosition + 1  BY <1>t
<1>2. CASE a = e  BY <1>t, <1>1, <1>2
<1>3. CASE a < e
  <2>1. After(a) <= e  BY <1>3 DEF Tiled
  <2> QED BY <1>t, <1>1, <2>1
<1>4. CASE e < a
  <2>1. After(e) <= a  BY <1>4 DEF Tiled
  <2> QED BY <1>t, <1>1, <2>1
<1> QED BY <1>t, <1>2, <1>3, <1>4

(* A new block goes behind the last one.                                   *)
LEMMA CreatePool ==
  ASSUME TypeInv, TypeOK', TilesInv, TailInv, ListsInv, CreatePoolBlock
  PROVE  /\ TilesInv' /\ TailInv' /\ ListsInv'
         /\ TailPosition + 1 \notin Described /\ Described' = Described \cup {TailPosition + 1}
<1> USE DEF CallSteps, BootSteps
<1>0. TypeOK /\ CallLocals  BY DEF TypeInv
<1>k. PICK k : k = Bucket(op.size)  OBVIOUS
<1>b. PICK b : b = TailPosition + 1  OBVIOUS
<1>1. op.at \in {"Get", "Create"} /\ op.size \in Nat /\ Fits(op.size) # {}
  BY <1>0, PoolAssumption DEF CreatePoolBlock, Grows, CallLocals
<1>2. k \in Buckets /\ k \in Nat \ {0} /\ op.size <= k  BY <1>k, <1>1, BucketFits
<1>3. /\ Tiled /\ Described \subseteq 1..TailPosition
      /\ (TailPosition = 0 \/ \E e \in Described : After(e) = TailPosition + 1)
  BY <1>1 DEF TilesInv, TailInv
<1>t. /\ TailPosition \in Nat /\ PoolSize \in Nat
      /\ \A c \in Described : c \in Nat /\ c # 0 /\ After(c) \in Nat /\ After(c) > c + 1 /\ c \in Offsets
  <2>1. \A c \in Described : c \in Nat /\ c # 0 /\ c \in Offsets  BY <1>0, DescFacts
  <2> QED BY <1>0, <2>1, DescFacts
<1>4. b \in Nat /\ b \in Offsets /\ b \notin Described /\ b + k <= PoolSize
  BY <1>b, <1>k, <1>2, <1>3, <1>t DEF CreatePoolBlock, Room, Offsets
<1>5. /\ \A c \in Offsets \ {b} : Desc'[c] = Desc[c]
      /\ Desc'[b].bucket = k /\ Desc'[b].size = op.size /\ Desc'[b].allocated
  <2>1. Desc' = [Desc EXCEPT ![b] = [bucket |-> k, allocated |-> TRUE, size |-> op.size, next |-> 0]]
    BY <1>b, <1>k DEF CreatePoolBlock, Allocate
  <2> QED BY <1>0, <1>4, <2>1 DEF TypeOK
<1>6. Described' = Described \cup {b}
  <2>1. k # 0  BY <1>2
  <2> QED BY <1>4, <1>5, <2>1 DEF Described
<1>7. (\A c \in Described : After(c)' = After(c)) /\ After(b)' = b + 1 + k
  BY <1>4, <1>5, <1>t DEF After
<1>8. TailPosition' = b + k  BY <1>b, <1>k, <1>2, <1>t DEF CreatePoolBlock
<1>9. Tiled'
  <2>1. ASSUME NEW c \in Described'
        PROVE  Desc'[c].size <= Desc'[c].bucket /\ (c = 1 \/ \E a \in Described' : c = After(a)')
    <3>1. CASE c = b
      <4>1. Desc'[c].size <= Desc'[c].bucket  BY <1>2, <1>5, <3>1
      <4>2. CASE TailPosition = 0  BY <1>b, <3>1, <4>1, <4>2
      <4>3. ASSUME NEW e \in Described, After(e) = TailPosition + 1
            PROVE  e \in Described' /\ c = After(e)'
        BY <1>b, <1>6, <1>7, <3>1, <4>3
      <4> QED BY <1>3, <4>1, <4>2, <4>3
    <3>2. CASE c \in Described
      <4>1. Desc'[c] = Desc[c] /\ Desc[c].size <= Desc[c].bucket  BY <1>3, <1>4, <1>5, <1>t, <3>2 DEF Tiled
      <4>2. c = 1 \/ \E a \in Described : c = After(a)  BY <1>3, <3>2 DEF Tiled
      <4> QED BY <1>6, <1>7, <4>1, <4>2
    <3> QED BY <1>6, <3>1, <3>2
  <2>2. ASSUME NEW a \in Described', NEW c \in Described', a < c PROVE After(a)' <= c
    <3>1. CASE a \in Described /\ c \in Described
      <4>1. After(a) <= c  BY <1>3, <2>2, <3>1 DEF Tiled
      <4> QED BY <1>7, <3>1, <4>1
    <3>2. CASE a \in Described /\ c = b
      <4>1. a <= TailPosition  BY <1>3, <3>2
      <4>2. After(a) <= TailPosition + 1  BY <1>0, <1>3, <3>2, <4>1, TailEnd
      <4> QED BY <1>b, <1>7, <3>2, <4>2
    <3>3. CASE a = b
      <4>0. c \in Described  BY <1>4, <1>6, <2>2, <3>3
      <4>1. c \in Described /\ c <= TailPosition  BY <1>3, <1>t, <4>0
      <4> QED BY <1>b, <1>t, <2>2, <3>3, <4>1
    <3> QED BY <1>6, <3>1, <3>2, <3>3
  <2> QED BY <2>1, <2>2 DEF Tiled
<1>10. ASSUME NEW j \in Buckets PROVE Linked(j)'
  <2>1. Linked(j)  BY <1>1 DEF ListsInv
  <2>2. FreeBlocks(j)' = FreeBlocks(j)
    <3>1. \A c \in Described : /\ c <= TailPosition /\ c <= TailPosition' /\ Desc'[c] = Desc[c]
      BY <1>b, <1>2, <1>3, <1>4, <1>5, <1>8, <1>t
    <3> QED BY <1>5, <1>6, <3>1 DEF FreeBlocks
  <2>3. FirstOffset'[j] = FirstOffset[j]  BY DEF CreatePoolBlock
  <2>4. \A c \in FreeBlocks(j) : Desc'[c].next = Desc[c].next  BY <1>4, <1>5, <1>t DEF FreeBlocks
  <2> QED BY <2>1, <2>2, <2>3, <2>4, LinkKept
<1>11. op'.at = "Save"  BY <1>0 DEF CreatePoolBlock, Hold, TypeOK
<1>12. TilesInv' /\ ListsInv'  BY <1>9, <1>10, <1>11 DEF TilesInv, ListsInv
<1>13. TailInv'
  <2>1. b \in Described' /\ After(b)' = TailPosition' + 1  BY <1>6, <1>7, <1>8, <1>4, <1>2
  <2>2. Described' \subseteq 1..TailPosition'  BY <1>b, <1>2, <1>3, <1>4, <1>6, <1>8, <1>t
  <2> QED BY <1>11, <2>1, <2>2 DEF TailInv
<1> QED BY <1>b, <1>4, <1>6, <1>12, <1>13

(* A turn of the rebuild counts the next block, and links it if it is free. *)
LEMMA RebuildPool ==
  ASSUME TypeOK, TypeOK', TilesInv, TailInv, ListsInv, RebuildBlock
  PROVE  TilesInv' /\ TailInv' /\ ListsInv' /\ Described' = Described
<1> USE DEF CallSteps, BootSteps
<1>b. PICK b : b = TailPosition + 1  OBVIOUS
<1>k. PICK k : k = Desc[b].bucket  OBVIOUS
<1>1. op.at = "Rebuild" /\ op' = op /\ Marks' = Marks  BY DEF RebuildBlock
<1>2. Tiled /\ (TailPosition = 0 \/ \E e \in Described : After(e) = TailPosition + 1)
  BY <1>1 DEF TilesInv, TailInv
<1>t. /\ TailPosition \in Nat /\ PoolSize \in Nat
      /\ \A c \in Described : /\ c \in Nat /\ c # 0 /\ After(c) \in Nat /\ After(c) > c + 1 /\ c \in Offsets
                              /\ Desc[c].bucket \in Buckets /\ Desc[c].bucket \in Nat
  <2>1. \A c \in Described : c \in Nat /\ c # 0 /\ c \in Offsets  BY DescFacts
  <2> QED BY <2>1, DescFacts
<1>3. IsBlock(b) /\ b \in Described  BY <1>b, DescFacts DEF RebuildBlock
<1>4. k \in Buckets /\ k \in Nat /\ b \in Offsets /\ b \in Nat  BY <1>k, <1>3, <1>t
<1>5. TailPosition' = b + k /\ After(b) = TailPosition' + 1
  BY <1>b, <1>k, <1>3, <1>t DEF RebuildBlock, After
<1>6. /\ \A c \in Offsets \ {b} : Desc'[c] = Desc[c]
      /\ Desc'[b].bucket = k /\ Desc'[b].size = Desc[b].size /\ Desc'[b].allocated = Desc[b].allocated
      /\ Desc[b].allocated => Desc' = Desc /\ FirstOffset' = FirstOffset
      /\ ~Desc[b].allocated => /\ Desc'[b].next = FirstOffset[k]
                               /\ FirstOffset' = [FirstOffset EXCEPT ![k] = b]
  <2>1. CASE Desc[b].allocated
    <3>1. Desc' = Desc /\ FirstOffset' = FirstOffset  BY <1>b, <1>k, <2>1 DEF RebuildBlock
    <3> QED BY <1>k, <2>1, <3>1
  <2>2. CASE ~Desc[b].allocated
    <3>1. /\ Desc' = [Desc EXCEPT ![b] = [Desc[b] EXCEPT !.next = FirstOffset[k]]]
          /\ FirstOffset' = [FirstOffset EXCEPT ![k] = b]
      BY <1>b, <1>k, <2>2 DEF RebuildBlock
    <3>2. Desc[b] \in BD  BY <1>4 DEF TypeOK
    <3>3. /\ \A c \in Offsets \ {b} : Desc'[c] = Desc[c]
          /\ Desc'[b] = [Desc[b] EXCEPT !.next = FirstOffset[k]]
      BY <1>4, <3>1 DEF TypeOK
    <3>4. /\ Desc'[b].bucket = k /\ Desc'[b].size = Desc[b].size /\ Desc'[b].allocated = Desc[b].allocated
          /\ Desc'[b].next = FirstOffset[k]
      BY <1>k, <3>2, <3>3 DEF BD
    <3> QED BY <2>2, <3>1, <3>3, <3>4
  <2> QED BY <2>1, <2>2
<1>7. Described' = Described /\ (\A c \in Described : After(c)' = After(c)) /\ Tiled'
  <2>1. \A c \in Offsets : Desc'[c].bucket = Desc[c].bucket /\ Desc'[c].size = Desc[c].size
    BY <1>k, <1>6
  <2>2. \A c \in Described : Desc'[c].size <= Desc[c].bucket  BY <1>2, <1>t, <2>1 DEF Tiled
  <2> QED BY <1>2, <2>1, <2>2, SameTiles
<1>8. \A c \in Described : c <= TailPosition' <=> (c <= TailPosition \/ c = b)
  <2> SUFFICES ASSUME NEW c \in Described PROVE c <= TailPosition' <=> (c <= TailPosition \/ c = b)  OBVIOUS
  <2>1. CASE c < b  BY <1>b, <1>4, <1>5, <1>t, <2>1
  <2>2. CASE c = b  BY <1>4, <1>5, <2>2
  <2>3. CASE b < c
    <3>1. After(b) <= c  BY <1>2, <1>3, <2>3 DEF Tiled
    <3> QED BY <1>b, <1>4, <1>5, <1>t, <2>3, <3>1
  <2> QED BY <1>4, <1>t, <2>1, <2>2, <2>3
<1>9. ASSUME NEW j \in Buckets PROVE Linked(j)'
  <2>1. Linked(j)  BY <1>1 DEF ListsInv
  <2>2. b \notin FreeBlocks(j)  BY <1>b, <1>t DEF FreeBlocks
  <2>3. CASE j = k /\ ~Desc[b].allocated
    <3>1. FreeBlocks(j)' = FreeBlocks(j) \cup {b}
      BY <1>3, <1>6, <1>7, <1>8, <1>t, <2>3 DEF FreeBlocks
    <3>2. FirstOffset'[j] = b /\ Desc'[b].next = FirstOffset[j]  BY <1>4, <1>6, <2>3 DEF TypeOK
    <3>3. \A c \in FreeBlocks(j) : Desc'[c].next = Desc[c].next  BY <1>6, <1>t, <2>2 DEF FreeBlocks
    <3> QED BY <1>4, <2>1, <2>2, <3>1, <3>2, <3>3, LinkPut
  <2>4. CASE j # k \/ Desc[b].allocated
    <3>1. FreeBlocks(j)' = FreeBlocks(j)
      BY <1>k, <1>3, <1>6, <1>7, <1>8, <1>t, <2>4 DEF FreeBlocks
    <3>2. FirstOffset'[j] = FirstOffset[j]  BY <1>4, <1>6, <2>4 DEF TypeOK
    <3>3. \A c \in FreeBlocks(j) : Desc'[c].next = Desc[c].next  BY <1>6, <1>t, <2>2 DEF FreeBlocks
    <3> QED BY <2>1, <3>1, <3>2, <3>3, LinkKept
  <2> QED BY <2>3, <2>4
<1>10. TilesInv' /\ ListsInv'  BY <1>1, <1>7, <1>9 DEF TilesInv, ListsInv
<1>11. TailInv'  BY <1>1, <1>3, <1>5, <1>7 DEF TailInv
<1> QED BY <1>7, <1>10, <1>11

(* When the rebuild finds no further block it has met all of them.         *)
LEMMA AllMet ==
  ASSUME TypeOK, Tiled, TailPosition = 0 \/ \E e \in Described : After(e) = TailPosition + 1,
         ~IsBlock(TailPosition + 1)
  PROVE  Described \subseteq 1..TailPosition
<1>t. /\ TailPosition \in Nat
      /\ \A c \in Described : /\ c \in Nat /\ c # 0 /\ After(c) \in Nat /\ After(c) > c + 1 /\ IsBlock(c)
  <2>1. \A c \in Described : c \in Nat /\ c # 0 /\ c \in Offsets  BY DescFacts
  <2>2. \A c \in Described : IsBlock(c)  BY <2>1, DescFacts DEF Tiled, IsBlock
  <2> QED BY <2>1, <2>2, DescFacts
<1> DEFINE S == {c \in Described : TailPosition < c}
<1>1. S = {}
  <2> SUFFICES ASSUME S # {} PROVE FALSE  OBVIOUS
  <2>1. PICK b \in S : \A c \in S : b <= c
    <3>1. S \subseteq Nat  BY <1>t
    <3> HIDE DEF S
    <3> QED BY <3>1, Smallest
  <2>2. b \in Described /\ TailPosition < b /\ b # TailPosition + 1  BY <1>t
  <2>3. CASE b = 1  BY <1>t, <2>2, <2>3
  <2>4. ASSUME NEW a \in Described, b = After(a) PROVE FALSE
    <3>1. a <= TailPosition
      <4> SUFFICES ASSUME TailPosition < a PROVE FALSE  BY <1>t
      <4>1. b <= a  BY <2>1
      <4> QED BY <1>t, <2>4, <4>1
    <3>2. After(a) <= TailPosition + 1  BY <3>1, TailEnd
    <3> QED BY <1>t, <2>2, <2>4, <3>2
  <2> QED BY <2>2, <2>3, <2>4 DEF Tiled
<1>2. \A c \in Described : c \in 1..TailPosition  BY <1>1, <1>t
<1> QED BY <1>2

(* The pool is in order at the start, and after each step.                 *)
LEMMA PoolInit == Init => TilesInv /\ TailInv /\ ListsInv
<1> SUFFICES ASSUME Init PROVE TilesInv /\ TailInv /\ ListsInv  OBVIOUS
<1>1. op.at = "Validate" /\ "Size" \notin Marks /\ TailPosition = 0 /\ FirstOffset = [k \in Buckets |-> 0]
  BY DEF Init, At, Idle
<1> QED BY <1>1 DEF TilesInv, TailInv, ListsInv, CallSteps

LEMMA PoolStep == PoolInv /\ [Next]_vars => TilesInv' /\ TailInv' /\ ListsInv'
<1> SUFFICES ASSUME TypeInv, TilesInv, TailInv, ListsInv, [Next]_vars
             PROVE  TilesInv' /\ TailInv' /\ ListsInv'
  BY DEF PoolInv
<1>0. TypeOK /\ TypeOK' /\ CallLocals  BY TypeStep DEF TypeInv
<1>a. Idle.at = "Idle" /\ \A step : At(step).at = step  BY DEF Idle, At
<1> DEFINE Goal == TilesInv' /\ TailInv' /\ ListsInv'
<1>1. CASE ValidateCDS
  <2>1. /\ UNCHANGED <<Desc, TailPosition, FirstOffset, Marks>> /\ TailPosition = 0
        /\ \A k \in Buckets : FirstOffset[k] = 0
        /\ op.at = "Validate"
        /\ op'.at = "ClearHeader" \/ (op'.at = "Rebuild" /\ Marks = {"Begin", "Size", "End"})
    BY <1>1, <1>a DEF ValidateCDS, psp, TailInv, BootSteps
  <2>2. Described' = Described /\ (Tiled => Tiled')  BY <2>1 DEF Described, Tiled, After
  <2>3. TilesInv' /\ TailInv'  BY <2>1, <2>2 DEF TilesInv, TailInv, CallSteps
  <2>4. ASSUME NEW k \in Buckets PROVE Linked(k)'
    <3>1. \A b \in Described' : ~(b <= TailPosition')  BY <1>0, <2>1, <2>2, DescFacts
    <3>2. FreeBlocks(k)' = {}  BY <3>1 DEF FreeBlocks
    <3>3. FirstOffset'[k] = 0  BY <2>1
    <3> QED BY <3>2, <3>3, LinkEmpty
  <2> QED BY <2>3, <2>4 DEF ListsInv
<1>2. CASE ClearCDS \/ Mark
  <2>1. /\ UNCHANGED <<TailPosition, FirstOffset>>
        /\ op.at \in BootSteps \ {"Rebuild"}
        /\ op'.at \in {"ClearPool", "ClearTrailer", "MarkBegin", "MarkEnd", "MarkSize", "InitRegistry"}
    BY <1>2, <1>a DEF ClearCDS, Mark, ram, BootSteps
  <2>2. TailInv' /\ ListsInv'  BY <2>1 DEF TailInv, ListsInv, CallSteps, BootSteps
  <2>3. CASE op.at = "ClearHeader"
    <3>1. op'.at = "ClearPool" /\ "Begin" \notin Marks'  BY <1>2, <1>a, <2>3 DEF ClearCDS, Mark
    <3> QED BY <2>2, <3>1 DEF TilesInv
  <2>4. CASE op.at = "ClearPool"
    <3>1. Desc' = [b \in Offsets |-> NoDesc]  BY <1>2, <2>4 DEF ClearCDS, Mark
    <3>2. Described' = {}  BY <3>1 DEF Described, NoDesc
    <3>3. Tiled'  BY <3>2 DEF Tiled
    <3> QED BY <2>2, <3>2, <3>3 DEF TilesInv
  <2>5. CASE op.at \in {"ClearTrailer", "MarkBegin", "MarkEnd", "MarkSize"}
    <3>1. Desc' = Desc /\ Described = {}  BY <1>2, <2>5 DEF ClearCDS, Mark, TilesInv
    <3>2. Described' = {}  BY <3>1 DEF Described
    <3>3. Tiled'  BY <3>2 DEF Tiled
    <3> QED BY <2>2, <3>2, <3>3 DEF TilesInv
  <2> QED BY <1>2, <2>3, <2>4, <2>5 DEF ClearCDS, Mark
<1>3. CASE InitCDSRegistry
  <2>1. /\ UNCHANGED <<Desc, TailPosition, FirstOffset, Marks>> /\ op'.at = "Idle"
        /\ TailPosition = 0 /\ (\A k \in Buckets : FirstOffset[k] = 0) /\ Described = {} /\ Tiled
    BY <1>3, <1>a DEF InitCDSRegistry, TailInv, TilesInv, BootSteps
  <2>2. Described' = {} /\ Tiled'  BY <2>1 DEF Described, Tiled
  <2>3. TilesInv' /\ TailInv'  BY <2>1, <2>2 DEF TilesInv, TailInv, BootSteps
  <2>4. ASSUME NEW k \in Buckets PROVE Linked(k)'
    <3>1. FreeBlocks(k)' = {} /\ FirstOffset'[k] = 0  BY <2>1, <2>2 DEF FreeBlocks
    <3> QED BY <3>1, LinkEmpty
  <2> QED BY <2>3, <2>4 DEF ListsInv
<1>4. CASE RebuildBlock  BY <1>0, <1>4, RebuildPool
<1>5. CASE RebuildDone
  <2>1. /\ UNCHANGED <<Desc, TailPosition, FirstOffset, Marks>> /\ op.at = "Rebuild" /\ op'.at = "Idle"
        /\ ~IsBlock(TailPosition + 1)
    BY <1>5, <1>a DEF RebuildDone, psp, ram
  <2>2. Tiled /\ (TailPosition = 0 \/ \E b \in Described : After(b) = TailPosition + 1)
    BY <2>1 DEF TilesInv, TailInv, CallSteps
  <2>3. Described \subseteq 1..TailPosition  BY <1>0, <2>1, <2>2, AllMet
  <2>4. Described' = Described /\ (Tiled => Tiled') /\ \A b : After(b)' = After(b)
    BY <2>1 DEF Described, After, Tiled
  <2>5. TilesInv' /\ TailInv'  BY <2>1, <2>2, <2>3, <2>4 DEF TilesInv, TailInv, BootSteps
  <2>6. ASSUME NEW k \in Buckets PROVE Linked(k)'
    <3>1. Linked(k)  BY <2>1 DEF ListsInv
    <3>2. FreeBlocks(k)' = FreeBlocks(k)  BY <2>1, <2>4 DEF FreeBlocks
    <3> QED BY <2>1, <3>1, <3>2, LinkKept
  <2> QED BY <2>5, <2>6 DEF ListsInv
<1>6. CASE BootFails
  BY <1>0, <1>6, <1>a, PoolFrame DEF BootFails, psp, ram
<1>7. CASE \/ \E n \in Names, size \in Sizes : Register(n, size)
           \/ GetBlockFails \/ UpdateCDSRegistry \/ DeleteSaved \/ CopyData
           \/ \E n \in Names, v \in Vals : CopyHeader(n, v)
           \/ \E n \in Names : AppStart(n) \/ AppExit(n)
  <2>1. UNCHANGED <<Desc, TailPosition, FirstOffset, Marks>>
    BY <1>7 DEF Register, GetBlockFails, UpdateCDSRegistry, DeleteSaved, CopyData, CopyHeader, AppStart, AppExit,
                psp, ram
  <2>2. op.at \in Serving
    BY <1>7, <1>a DEF Register, GetBlockFails, Grows, UpdateCDSRegistry, DeleteSaved, CopyData, CopyHeader,
                      AppStart, AppExit, Serving, CallSteps
  <2>3. op'.at \in Serving
    <3>1. CASE \E n \in Names, size \in Sizes : Register(n, size)
      BY <3>1 DEF Register, Call, Serving, CallSteps
    <3>2. CASE \E n \in Names, v \in Vals : CopyHeader(n, v)
      BY <3>2 DEF CopyHeader, Call, Serving, CallSteps
    <3>3. CASE \E n \in Names : AppStart(n) \/ AppExit(n)
      BY <3>3, <2>2 DEF AppStart, AppExit
    <3>4. CASE GetBlockFails \/ UpdateCDSRegistry \/ DeleteSaved \/ CopyData
      BY <3>4, <1>a DEF GetBlockFails, UpdateCDSRegistry, DeleteSaved, CopyData, Serving
    <3> QED BY <1>7, <3>1, <3>2, <3>3, <3>4
  <2> QED BY <1>0, <2>1, <2>2, <2>3, PoolFrame
<1>8. ASSUME NEW n \in Names, (\E size \in Sizes : Resize(n, size)) \/ DeleteCDS(n) PROVE Goal
  <2>1. PICK b : b = Registry[n].offset  OBVIOUS
  <2>2. PutBlock(b)  BY <1>8, <2>1 DEF Resize, DeleteCDS
  <2>3. op.at = "Idle" /\ op'.at \in Serving /\ UNCHANGED <<TailPosition, Marks>>
    BY <1>8, <1>a DEF Resize, DeleteCDS, Call, Serving, CallSteps
  <2> QED BY <1>0, <2>2, <2>3, PutBlockPool
<1>9. CASE RecyclePoolBlock  BY <1>0, <1>9, RecyclePool
<1>10. CASE CreatePoolBlock  BY <1>0, <1>10, CreatePool
<1>11. CASE Reset
  <2>1. /\ Marks' = Marks /\ Desc' = Desc /\ op'.at = "Validate" /\ TailPosition' = 0
        /\ FirstOffset' = [k \in Buckets |-> 0]
    BY <1>11, <1>a DEF Reset
  <2>2. Described' = Described /\ (Tiled => Tiled')  BY <2>1 DEF Described, Tiled, After
  <2> QED BY <2>1, <2>2 DEF TilesInv, TailInv, ListsInv, CallSteps
<1>12. CASE UNCHANGED vars
  BY <1>0, <1>12, PoolFrame DEF vars, psp, ram
<1> QED BY <1>1, <1>2, <1>3, <1>4, <1>5, <1>6, <1>7, <1>8, <1>9, <1>10, <1>11, <1>12 DEF Next

(* A block of the pool is never handed out twice and a freed one never lost, *)
(* for any buckets, sizes and size of the pool: whatever registrations,    *)
(* resizes, deletions, failed writes and resets came before, blocks lie side *)
(* by side up to the tail and the list of each bucket leads through its free *)
(* blocks, all of them and each once, and ends (CFE_ES_GenPoolRebuild,     *)
(* cfe_es_generic_pool.c:502-601, links them again after a reset).         *)
THEOREM PoolHolds == Spec => []PoolSound
<1>1. Init => PoolInv  BY TypeInit, PoolInit DEF PoolInv
<1>2. PoolInv /\ [Next]_vars => PoolInv'  BY TypeStep, PoolStep DEF PoolInv
<1> QED BY <1>1, <1>2, PoolMeans, PTL DEF Spec

-----------------------------------------------------------------------------
(* Blocks, records and copies *)

(* What a call that has no store is called by.                             *)
LEMMA StepNames == Idle.at = "Idle" /\ \A step : At(step).at = step
BY DEF Idle, At

(* Signatures are there from the end of the first formatting on.           *)
LEMMA SignedInit == Init => SignedInv
<1> SUFFICES ASSUME Init PROVE SignedInv  OBVIOUS
<1>1. op.at = "Validate" /\ "Size" \notin Marks  BY DEF Init, At, Idle
<1>2. \A n \in Names : SavedRegistry[n] = NoRec /\ copied[n] = NotCopied  BY DEF Init
<1> QED BY <1>1, <1>2 DEF SignedInv, Signed, CallSteps

LEMMA SignedStep == TypeInv /\ SignedInv /\ [Next]_vars => SignedInv'
<1> SUFFICES ASSUME TypeOK, CallLocals, SignedInv, [Next]_vars PROVE SignedInv'
  BY DEF TypeInv
<1> USE StepNames DEF CallSteps
<1>1. CASE ValidateCDS
  <2>1. /\ UNCHANGED <<Marks, SavedRegistry, copied>> /\ op.at = "Validate"
        /\ (op'.at = "Rebuild" /\ Signed) \/ (op'.at = "ClearHeader" /\ ~Signed)
    BY <1>1 DEF ValidateCDS, psp, Signed
  <2> QED BY <2>1 DEF SignedInv, Signed
<1>2. CASE ClearCDS
  <2>1. /\ op.at \in {"ClearHeader", "ClearPool", "ClearTrailer"}
        /\ op'.at \in {"ClearPool", "ClearTrailer", "MarkBegin"}
        /\ Marks' \subseteq Marks /\ copied' = copied
        /\ SavedRegistry' = SavedRegistry \/ SavedRegistry' = [n \in Names |-> NoRec]
    BY <1>2 DEF ClearCDS
  <2>2. "Size" \notin Marks /\ \A n \in Names : SavedRegistry[n] = NoRec /\ copied[n] = NotCopied
    BY <2>1 DEF SignedInv
  <2>3. "Size" \notin Marks' /\ \A n \in Names : SavedRegistry'[n] = NoRec /\ copied'[n] = NotCopied
    BY <2>1, <2>2
  <2> QED BY <2>1, <2>3 DEF SignedInv, Signed
<1>3. CASE Mark
  <2>1. /\ op.at \in {"MarkBegin", "MarkEnd", "MarkSize"} /\ UNCHANGED <<SavedRegistry, copied>>
        /\ \/ op.at = "MarkBegin" /\ Marks' = Marks \cup {"Begin"} /\ op'.at = "MarkEnd"
           \/ op.at = "MarkEnd" /\ Marks' = Marks \cup {"End"} /\ op'.at = "MarkSize"
           \/ op.at = "MarkSize" /\ Marks' = Marks \cup {"Size"} /\ op'.at = "InitRegistry"
    BY <1>3 DEF Mark
  <2>2. "Size" \notin Marks /\ \A n \in Names : SavedRegistry[n] = NoRec /\ copied[n] = NotCopied
    BY <2>1 DEF SignedInv
  <2>3. CASE op'.at # "InitRegistry"
    <3>1. "Size" \notin Marks'  BY <2>1, <2>2, <2>3
    <3> QED BY <2>1, <2>2, <3>1 DEF SignedInv, Signed
  <2>4. CASE op'.at = "InitRegistry"
    <3>1. Marks' = {"Begin", "Size", "End"}  BY <2>1, <2>4 DEF SignedInv, TypeOK
    <3> QED BY <2>1, <2>2, <2>4, <3>1 DEF SignedInv, Signed
  <2> QED BY <2>3, <2>4
<1>4. CASE InitCDSRegistry
  <2>1. op'.at = "Idle" /\ Marks' = Marks /\ Signed  BY <1>4 DEF InitCDSRegistry, SignedInv
  <2> QED BY <2>1 DEF SignedInv, Signed
<1>5. CASE Marks' = Marks /\ SavedRegistry' = SavedRegistry /\ copied' = copied /\ op' = op
  BY <1>5 DEF SignedInv, Signed
<1>6. CASE Marks' = Marks /\ Signed /\ op'.at \in CallSteps \cup {"Idle", "Rebuild", "Down"}
  BY <1>6 DEF SignedInv, Signed
<1>7. CASE BootFails
  <2>1. UNCHANGED <<Marks, SavedRegistry, copied>> /\ op'.at = "Down"  BY <1>7 DEF BootFails, psp
  <2> QED BY <2>1 DEF SignedInv, Signed
<1>8. CASE Reset
  <2>1. Marks' = Marks /\ copied' = copied /\ op'.at = "Validate"  BY <1>8 DEF Reset
  <2>2. CASE Signed  BY <2>1, <2>2 DEF SignedInv, Signed
  <2>3. CASE ~Signed
    <3>1. SavedRegistry' = SavedRegistry
      BY <1>8, <2>3 DEF Reset, HalfWritten, SignedInv
    <3> QED BY <2>1, <2>3, <3>1 DEF SignedInv, Signed
  <2> QED BY <2>2, <2>3
<1>9. CASE RebuildBlock \/ (\E n \in Names : AppStart(n) \/ AppExit(n)) \/ UNCHANGED vars
  BY <1>5, <1>9 DEF RebuildBlock, AppStart, AppExit, vars, psp
<1>10. CASE RebuildDone \/ GetBlockFails \/ UpdateCDSRegistry \/ DeleteSaved \/ CopyData
  <2>1. Marks' = Marks /\ op'.at = "Idle"
    BY <1>10 DEF RebuildDone, GetBlockFails, UpdateCDSRegistry, DeleteSaved, CopyData, psp
  <2>2. op.at \in CallSteps \cup {"Rebuild"}
    BY <1>10 DEF RebuildDone, GetBlockFails, Grows, UpdateCDSRegistry, DeleteSaved, CopyData
  <2> QED BY <1>6, <2>1, <2>2 DEF SignedInv
<1>11. ASSUME NEW n \in Names, \/ \E size \in Sizes : Register(n, size) \/ Resize(n, size)
                               \/ DeleteCDS(n) \/ \E v \in Vals : CopyHeader(n, v)
       PROVE  SignedInv'
  <2>1. Marks' = Marks /\ op.at = "Idle"  BY <1>11 DEF Register, Resize, DeleteCDS, CopyHeader, psp
  <2>2. op'.at \in CallSteps
    <3>1. CASE \E size \in Sizes : Register(n, size) \/ Resize(n, size)
      BY <3>1 DEF Register, Resize, Call
    <3>2. CASE DeleteCDS(n)  BY <3>2 DEF DeleteCDS, Call
    <3>3. CASE \E v \in Vals : CopyHeader(n, v)  BY <3>3 DEF CopyHeader, Call
    <3> QED BY <1>11, <3>1, <3>2, <3>3
  <2> QED BY <1>6, <2>1, <2>2 DEF SignedInv
<1>12. CASE RecyclePoolBlock \/ CreatePoolBlock
  <2>1. Marks' = Marks /\ op.at \in CallSteps  BY <1>12 DEF RecyclePoolBlock, CreatePoolBlock, Grows
  <2>2. op'.at \in CallSteps  BY <1>12 DEF RecyclePoolBlock, CreatePoolBlock, Hold, TypeOK
  <2> QED BY <1>6, <2>1, <2>2 DEF SignedInv
<1> QED BY <1>1, <1>2, <1>3, <1>4, <1>7, <1>8, <1>9, <1>10, <1>11, <1>12 DEF Next

-----------------------------------------------------------------------------

(* Between calls, and while a boot rebuilds, the saved registry is the working one. *)
LEMMA SavedSame ==
  ASSUME TypeOK, SavedInv, SignedInv, OwnInv, op.at \in {"Idle", "Rebuild", "CopyData"}
  PROVE  SavedRegistry = Registry
<1>1. Signed /\ Records = Registry  BY DEF SignedInv, Records, CallSteps
<1>2. ASSUME NEW n \in Names PROVE SavedRegistry[n] = Registry[n]
  <2>1. ~(Registry[n].used /\ Registry[n].offset = 0)  BY <1>1 DEF OwnInv
  <2>2. Agree(n)  BY DEF SavedInv
  <2> QED BY <2>1, <2>2 DEF Agree
<1> QED BY <1>2 DEF TypeOK

(* Blocks and records stay together in a step that leaves both alone.      *)
LEMMA OwnFrame ==
  ASSUME OwnInv, Signed' => Signed, Records' = Records, Described' = Described,
         \A b \in Described : Desc'[b].allocated = Desc[b].allocated /\ Desc'[b].size = Desc[b].size,
         op'.at \in {"Get", "Create"} <=> op.at \in {"Get", "Create"},
         op.at \in {"Get", "Create"} => op'.name = op.name
  PROVE  OwnInv'
BY DEF OwnInv

(* Copies stay what they are in a step that leaves them alone.             *)
LEMMA CopyFrame ==
  ASSUME CopyInv, Signed' => Signed, Records' = Records, UNCHANGED <<Crc, Data, copied>>,
         op'.at = "CopyData" => op' = op
  PROVE  CopyInv'
BY DEF CopyInv, Restorable, Copied

(* A store gives its block back. *)
LEMMA OwnPut ==
  ASSUME TypeOK, TypeOK', OwnInv, Signed, NEW n \in Names, NEW b, b = Records[n].offset, b # 0,
         op.at = "Idle", op'.at \in {"Get", "Drop"}, op'.name = n,
         \A m \in Names \ {n} : Records'[m] = Records[m],
         Records'[n].offset = 0, op'.at = "Drop" => ~Records'[n].used,
         Described' = Described, \A c \in Offsets \ {b} : Desc'[c] = Desc[c], ~Desc'[b].allocated
  PROVE  OwnInv'
<1>1. /\ \A m \in Names : Records[m].offset # 0 =>
           /\ Records[m].used /\ Records[m].offset \in Described
           /\ Desc[Records[m].offset].allocated
           /\ Desc[Records[m].offset].size = Records[m].size /\ Records[m].size # 0
      /\ \A m, l \in Names : Records[m].offset = Records[l].offset /\ Records[l].offset # 0 => m = l
      /\ \A c \in Described : Desc[c].allocated => \E m \in Names : Records[m].offset = c
      /\ \A m \in Names : ~(Records[m].used /\ Records[m].offset = 0)
  BY DEF OwnInv
<1>2. Described \subseteq Offsets  BY DEF Described
<1>3. \A m \in Names \ {n} : Records[m].offset # b  BY <1>1
<1>4. \A m \in Names : Records'[m].offset # 0 => m # n /\ Records'[m] = Records[m]  OBVIOUS
<1>5. ASSUME NEW m \in Names, Records'[m].offset # 0
      PROVE  /\ Records'[m].used /\ Records'[m].offset \in Described
             /\ Desc'[Records'[m].offset].allocated
             /\ Desc'[Records'[m].offset].size = Records'[m].size /\ Records'[m].size # 0
  <2>1. m # n /\ Records'[m] = Records[m] /\ Records[m].offset # b  BY <1>3, <1>4, <1>5
  <2>2. Desc'[Records[m].offset] = Desc[Records[m].offset]  BY <1>1, <1>2, <1>5, <2>1
  <2> QED BY <1>1, <1>5, <2>1, <2>2
<1>6. ASSUME NEW m \in Names, NEW l \in Names, Records'[m].offset = Records'[l].offset, Records'[l].offset # 0
      PROVE  m = l
  BY <1>1, <1>4, <1>6
<1>7. ASSUME NEW c \in Described, Desc'[c].allocated PROVE \E m \in Names : Records'[m].offset = c
  <2>1. c # b /\ Desc[c].allocated  BY <1>2, <1>7
  <2>2. PICK m \in Names : Records[m].offset = c  BY <1>1, <2>1
  <2> QED BY <2>1, <2>2
<1>8. ASSUME NEW m \in Names, Records'[m].used, Records'[m].offset = 0
      PROVE  op'.at \in {"Get", "Create"} /\ m = op'.name
  <2>1. m = n  BY <1>1, <1>8
  <2> QED BY <1>8, <2>1
<1> QED BY <1>5, <1>6, <1>7, <1>8 DEF OwnInv

(* The store of the call gets a block that nobody had. *)
LEMMA OwnHold ==
  ASSUME TypeOK, TypeOK', OwnInv, Signed, op.at \in {"Get", "Create"}, op.name \in Names, op.size \in Nat \ {0},
         NEW b \in Offsets, b \notin Described \/ ~Desc[b].allocated,
         \A m \in Names \ {op.name} : Records'[m] = Records[m],
         Records'[op.name] = [used |-> TRUE, offset |-> b, size |-> op.size], op'.at = "Save",
         Described' = Described \cup {b}, \A c \in Offsets \ {b} : Desc'[c] = Desc[c],
         Desc'[b].allocated, Desc'[b].size = op.size
  PROVE  OwnInv'
<1> DEFINE n == op.name
<1>1. /\ \A m \in Names : Records[m].offset # 0 =>
           /\ Records[m].used /\ Records[m].offset \in Described
           /\ Desc[Records[m].offset].allocated
           /\ Desc[Records[m].offset].size = Records[m].size /\ Records[m].size # 0
      /\ \A m, l \in Names : Records[m].offset = Records[l].offset /\ Records[l].offset # 0 => m = l
      /\ \A c \in Described : Desc[c].allocated => \E m \in Names : Records[m].offset = c
      /\ \A m \in Names : Records[m].used /\ Records[m].offset = 0 => m = n
      /\ Records[n].offset = 0
  BY DEF OwnInv
<1>2. Described \subseteq Offsets /\ b # 0  BY DescFacts DEF Described
<1>3. \A m \in Names : Records[m].offset # b  BY <1>1, <1>2
<1>4. Records'[n].offset = b /\ Records'[n].used /\ Records'[n].size = op.size  OBVIOUS
<1> HIDE DEF n
<1>h. \A m \in Names : m # n => Records'[m] = Records[m]  BY DEF n
<1>5. ASSUME NEW m \in Names, Records'[m].offset # 0
      PROVE  /\ Records'[m].used /\ Records'[m].offset \in Described'
             /\ Desc'[Records'[m].offset].allocated
             /\ Desc'[Records'[m].offset].size = Records'[m].size /\ Records'[m].size # 0
  <2>1. CASE m = n  BY <1>4, <2>1
  <2>2. CASE m # n
    <3>1. Records'[m] = Records[m] /\ Records[m].offset # b  BY <1>3, <1>h, <2>2
    <3>2. Desc'[Records[m].offset] = Desc[Records[m].offset]  BY <1>1, <1>2, <1>5, <3>1
    <3> QED BY <1>1, <1>5, <3>1, <3>2
  <2> QED BY <2>1, <2>2
<1>6. ASSUME NEW m \in Names, NEW l \in Names, Records'[m].offset = Records'[l].offset, Records'[l].offset # 0
      PROVE  m = l
  BY <1>1, <1>3, <1>4, <1>6, <1>h
<1>7. ASSUME NEW c \in Described', Desc'[c].allocated PROVE \E m \in Names : Records'[m].offset = c
  <2>1. CASE c = b  BY <1>4, <2>1 DEF n
  <2>2. CASE c # b
    <3>1. c \in Described /\ Desc[c].allocated  BY <1>2, <1>7, <2>2
    <3>2. PICK m \in Names : Records[m].offset = c  BY <1>1, <3>1
    <3>3. m # n  BY <1>1, <1>2, <3>1, <3>2, DescFacts
    <3> QED BY <1>h, <3>2, <3>3
  <2> QED BY <2>1, <2>2
<1>8. \A m \in Names : ~(Records'[m].used /\ Records'[m].offset = 0)  BY <1>1, <1>2, <1>4, <1>h
<1> QED BY <1>5, <1>6, <1>7, <1>8 DEF OwnInv

(* Steps that change neither the registry that counts nor who has a block. *)
Still ==
  \/ ValidateCDS \/ InitCDSRegistry \/ RebuildBlock \/ RebuildDone \/ BootFails
  \/ \E n \in Names, size \in Sizes : Register(n, size)
  \/ UpdateCDSRegistry \/ DeleteSaved \/ CopyData
  \/ \E n \in Names, v \in Vals : CopyHeader(n, v)
  \/ \E n \in Names : AppStart(n) \/ AppExit(n)
  \/ Reset /\ ~CutShort
  \/ UNCHANGED vars

(* The registry that counts is the same before and after such a step.      *)
LEMMA RecordsKept ==
  ASSUME Fails \cap {"Save", "Drop"} = {}, TypeOK, TypeOK', SavedInv, SignedInv, OwnInv, Still
  PROVE  Records' = Records
<1> USE StepNames DEF Records, CallSteps
<1>1. CASE ValidateCDS \/ InitCDSRegistry
  <2>1. CASE ValidateCDS
    <3>1. op.at = "Validate" /\ SavedRegistry' = SavedRegistry
          /\ ((op'.at = "Rebuild" /\ Registry' = SavedRegistry) \/ op'.at = "ClearHeader")
      BY <2>1 DEF ValidateCDS, psp
    <3> QED BY <3>1
  <2>2. CASE InitCDSRegistry
    <3>1. op.at = "InitRegistry" /\ op'.at = "Idle" /\ Registry' = [n \in Names |-> NoRec]
      BY <2>2 DEF InitCDSRegistry
    <3>2. SavedRegistry = [n \in Names |-> NoRec]  BY <3>1 DEF SignedInv, TypeOK
    <3> QED BY <3>1, <3>2
  <2> QED BY <1>1, <2>1, <2>2
<1>2. CASE op'.at = op.at /\ UNCHANGED <<Registry, SavedRegistry>>  BY <1>2
<1>3. CASE RebuildBlock \/ (\E n \in Names : AppStart(n) \/ AppExit(n)) \/ UNCHANGED vars
  BY <1>2, <1>3 DEF RebuildBlock, AppStart, AppExit, vars, psp, ram
<1>4. CASE /\ op.at \in CallSteps \cup {"Idle", "Rebuild"} /\ op'.at \in CallSteps \cup {"Idle"}
           /\ Registry' = Registry
  BY <1>4
<1>5. CASE RebuildDone  BY <1>4, <1>5 DEF RebuildDone, ram
<1>6. CASE BootFails
  <2>1. op'.at = "Down" /\ op.at \in BootSteps /\ UNCHANGED <<Registry, SavedRegistry>>
    BY <1>6 DEF BootFails, psp, ram
  <2>2. op.at = "Rebuild" => SavedRegistry = Registry  BY SavedSame
  <2> QED BY <2>1, <2>2 DEF BootSteps
<1>7. CASE \E n \in Names, size \in Sizes : Register(n, size)
  BY <1>4, <1>7 DEF Register, Call, ram
<1>8. CASE UpdateCDSRegistry \/ DeleteSaved
  BY <1>4, <1>8 DEF UpdateCDSRegistry, DeleteSaved, ram
<1>9. CASE CopyData  BY <1>4, <1>9 DEF CopyData, ram
<1>10. CASE \E n \in Names, v \in Vals : CopyHeader(n, v)
  BY <1>4, <1>10 DEF CopyHeader, Call, ram
<1>11. CASE Reset /\ ~CutShort
  <2>1. op'.at = "Validate" /\ op.at \notin {"Get", "Create", "Save", "Drop"}
    BY <1>11 DEF Reset, CutShort
  <2>2. SavedRegistry' = SavedRegistry  BY <1>11, <2>1 DEF Reset, HalfWritten
  <2>3. op.at \in {"Idle", "Rebuild", "CopyData"} => SavedRegistry = Registry  BY SavedSame
  <2> QED BY <2>1, <2>2, <2>3
<1> QED BY <1>1, <1>3, <1>5, <1>6, <1>7, <1>8, <1>9, <1>10, <1>11 DEF Still

(* Each record keeps a block of its own, whatever step comes, but one that *)
(* cuts a registration, a resize or a deletion short.                      *)
LEMMA OwnStep ==
  ASSUME Fails \cap {"Save", "Drop"} = {}, PoolInv, SavedInv, SignedInv, OwnInv, [Next]_vars, ~CutShort
  PROVE  OwnInv'
<1> USE StepNames
<1>0. /\ TypeInv /\ TypeOK /\ TypeOK' /\ CallLocals /\ TilesInv /\ TailInv /\ ListsInv /\ SignedInv'
  BY TypeStep, SignedStep DEF PoolInv, TypeInv
<1>1. CASE ClearCDS
  <2>1. op'.at \in {"ClearPool", "ClearTrailer", "MarkBegin"}  BY <1>1 DEF ClearCDS
  <2> QED BY <1>0, <2>1 DEF OwnInv, SignedInv
<1>2. CASE Mark
  <2>1. op'.at \in {"MarkEnd", "MarkSize"} \/ (op'.at = "InitRegistry" /\ op.at = "MarkSize" /\ Desc' = Desc)
    BY <1>2 DEF Mark
  <2>2. CASE op'.at \in {"MarkEnd", "MarkSize"}  BY <1>0, <2>2 DEF OwnInv, SignedInv
  <2>3. CASE op'.at = "InitRegistry" /\ op.at = "MarkSize" /\ Desc' = Desc
    <3>1. Described' = {}  BY <1>0, <2>3 DEF TilesInv, Described
    <3>2. \A n \in Names : SavedRegistry'[n] = NoRec  BY <1>0, <2>3 DEF SignedInv
    <3>3. Records' = SavedRegistry'  BY <2>3 DEF Records, CallSteps
    <3>4. \A n \in Names : Records'[n].offset = 0 /\ ~Records'[n].used  BY <3>2, <3>3 DEF NoRec
    <3> QED BY <2>3, <3>1, <3>4 DEF OwnInv
  <2> QED BY <2>1, <2>2, <2>3
<1>3. CASE Still
  <2>1. Records' = Records  BY <1>0, <1>3, RecordsKept
  <2>2. /\ Described' = Described
        /\ \A b \in Described : Desc'[b].allocated = Desc[b].allocated /\ Desc'[b].size = Desc[b].size
    <3>1. CASE Desc' = Desc  BY <3>1 DEF Described
    <3>2. CASE RebuildBlock
      <4>1. Described' = Described  BY <1>0, <3>2, RebuildPool
      <4>2. PICK c : c = TailPosition + 1  OBVIOUS
      <4>3. PICK x : Desc' = Desc \/ Desc' = [Desc EXCEPT ![c] = [Desc[c] EXCEPT !.next = x]]
        BY <3>2, <4>2 DEF RebuildBlock
      <4>4. CASE Desc' = [Desc EXCEPT ![c] = [Desc[c] EXCEPT !.next = x]]
        <5>1. c \in Offsets  BY <3>2, <4>2 DEF RebuildBlock, IsBlock
        <5>2. (\A b \in Offsets \ {c} : Desc'[b] = Desc[b]) /\ Desc'[c] = [Desc[c] EXCEPT !.next = x]
          BY <1>0, <4>4, <5>1 DEF TypeOK
        <5>3. Desc[c] \in BD  BY <1>0, <5>1 DEF TypeOK
        <5>4. Desc'[c].allocated = Desc[c].allocated /\ Desc'[c].size = Desc[c].size
          BY <5>2, <5>3 DEF BD
        <5>5. Described \subseteq Offsets  BY DEF Described
        <5> QED BY <4>1, <5>2, <5>4, <5>5
      <4> QED BY <3>1, <4>3, <4>4
    <3>3. ~RebuildBlock => Desc' = Desc
      BY <1>3 DEF Still, ValidateCDS, InitCDSRegistry, RebuildDone, BootFails, Register, UpdateCDSRegistry,
                  DeleteSaved, CopyData, CopyHeader, AppStart, AppExit, Reset, vars, psp
    <3> QED BY <3>1, <3>2, <3>3
  <2>3. CASE \E n \in Names, size \in Sizes : Register(n, size)
    <3>1. PICK n \in Names, size \in Sizes : Register(n, size)  BY <2>3
    <3>2. /\ op.at = "Idle" /\ op'.at = "Get" /\ op'.name = n /\ Marks' = Marks
          /\ ~Registry[n].used \/ Registry[n].offset = 0
      BY <3>1 DEF Register, Call, psp
    <3>3. Records = Registry /\ Signed /\ Signed'  BY <3>2 DEF Records, SignedInv, Signed, CallSteps
    <3>4. Records[n].offset = 0  BY <3>2, <3>3 DEF OwnInv
    <3>5. \A m \in Names : ~(Records[m].used /\ Records[m].offset = 0)  BY <3>2, <3>3 DEF OwnInv
    <3> QED BY <2>1, <2>2, <3>2, <3>3, <3>4, <3>5 DEF OwnInv
  <2>4. CASE ~ \E n \in Names, size \in Sizes : Register(n, size)
    <3>1. Signed' => Signed
      BY <1>3 DEF Still, ValidateCDS, InitCDSRegistry, RebuildBlock, RebuildDone, BootFails, Register,
                  UpdateCDSRegistry, DeleteSaved, CopyData, CopyHeader, AppStart, AppExit, Reset, vars, psp, Signed
    <3>2. op' = op \/ (op.at \notin {"Get", "Create"} /\ op'.at \notin {"Get", "Create"})
      <4>1. CASE ValidateCDS \/ InitCDSRegistry \/ RebuildBlock \/ RebuildDone \/ BootFails
        BY <4>1 DEF ValidateCDS, InitCDSRegistry, RebuildBlock, RebuildDone, BootFails, BootSteps
      <4>2. CASE UpdateCDSRegistry \/ DeleteSaved \/ CopyData
        BY <4>2 DEF UpdateCDSRegistry, DeleteSaved, CopyData
      <4>3. CASE \E n \in Names, v \in Vals : CopyHeader(n, v)  BY <4>3 DEF CopyHeader, Call
      <4>4. CASE (\E n \in Names : AppStart(n) \/ AppExit(n)) \/ UNCHANGED vars
        BY <4>4 DEF AppStart, AppExit, vars
      <4>5. CASE Reset /\ ~CutShort  BY <4>5 DEF Reset, CutShort
      <4> QED BY <1>3, <2>4, <4>1, <4>2, <4>3, <4>4, <4>5 DEF Still
    <3> QED BY <2>1, <2>2, <3>1, <3>2, OwnFrame
  <2> QED BY <2>3, <2>4
<1>4. ASSUME NEW n \in Names, (\E size \in Sizes : Resize(n, size)) \/ DeleteCDS(n) PROVE OwnInv'
  <2>1. PICK b : b = Registry[n].offset  OBVIOUS
  <2>2. PutBlock(b) /\ op.at = "Idle" /\ UNCHANGED <<TailPosition, Marks>>
    BY <1>4, <2>1 DEF Resize, DeleteCDS
  <2>3. op'.name = n /\ op'.at \in {"Get", "Drop"}
    BY <1>4 DEF Resize, DeleteCDS, Call
  <2>4. Described' = Described  BY <1>0, <2>2, <2>3, PutBlockPool DEF Serving, CallSteps
  <2>5. Records = Registry /\ Records' = Registry' /\ Signed  BY <2>2, <2>3 DEF Records, SignedInv, CallSteps
  <2>6. b \in 1..TailPosition /\ b # 0 /\ b \in Offsets
    <3>1. b \in 1..TailPosition  BY <2>2 DEF PutBlock, IsAllocated
    <3>2. TailPosition \in Nat /\ TailPosition <= PoolSize /\ PoolSize \in Nat
      BY <1>0, PoolAssumption DEF TypeOK
    <3> QED BY <3>1, <3>2 DEF Offsets
  <2>7. (\A c \in Offsets \ {b} : Desc'[c] = Desc[c]) /\ ~Desc'[b].allocated
    <3>1. PICK x : x = FirstOffset[Desc[b].bucket]  OBVIOUS
    <3>2. Desc' = [Desc EXCEPT ![b] = [Desc[b] EXCEPT !.allocated = FALSE, !.next = x]]
      BY <2>2, <3>1 DEF PutBlock
    <3>3. Desc'[b] = [Desc[b] EXCEPT !.allocated = FALSE, !.next = x]  BY <1>0, <2>6, <3>2 DEF TypeOK
    <3> QED BY <1>0, <2>6, <3>2, <3>3 DEF TypeOK, BD
  <2>8. /\ \A m \in Names \ {n} : Records'[m] = Records[m]
        /\ Records'[n].offset = 0 /\ (op'.at = "Drop" => ~Records'[n].used)
    <3>1. CASE \E size \in Sizes : Resize(n, size)
      <4>1. Registry' = [Registry EXCEPT ![n] = [Registry[n] EXCEPT !.offset = 0, !.size = 0]] /\ op'.at = "Get"
        <5>1. Registry' = [Registry EXCEPT ![n] = [Registry[n] EXCEPT !.offset = 0, !.size = 0]]
          BY <3>1 DEF Resize
        <5>2. op'.at = "Get"  BY <3>1 DEF Resize, Call
        <5> QED BY <5>1, <5>2
      <4>2. Registry'[n] = [Registry[n] EXCEPT !.offset = 0, !.size = 0]  BY <1>0, <4>1 DEF TypeOK
      <4>3. Registry'[n].offset = 0  BY <1>0, <4>2 DEF TypeOK, RegRec
      <4> QED BY <1>0, <2>5, <4>1, <4>3 DEF TypeOK
    <3>2. CASE DeleteCDS(n)
      <4>1. Registry' = [Registry EXCEPT ![n] = NoRec]  BY <3>2 DEF DeleteCDS
      <4> QED BY <1>0, <2>5, <4>1 DEF TypeOK, NoRec
    <3> QED BY <1>4, <3>1, <3>2
  <2> QED BY <1>0, <2>1, <2>2, <2>3, <2>4, <2>5, <2>6, <2>7, <2>8, OwnPut
<1>5. CASE RecyclePoolBlock \/ CreatePoolBlock
  <2>1. op.at \in {"Get", "Create"} /\ op.name \in Names /\ op.size \in Nat \ {0}
    BY <1>0, <1>5, PoolAssumption DEF RecyclePoolBlock, CreatePoolBlock, Grows, CallLocals, CallSteps
  <2>2. Signed /\ Records = Registry  BY <2>1 DEF SignedInv, Records, CallSteps
  <2>3. CASE op' = [op EXCEPT !.at = "Create"] /\ UNCHANGED <<Marks, Desc, FirstOffset, Registry>>
    <3>1. op'.at = "Create" /\ op'.name = op.name  BY <1>0, <2>3 DEF TypeOK
    <3>2. Records' = Records /\ Described' = Described /\ (Signed' => Signed)
      BY <2>2, <2>3, <3>1 DEF Records, Described, Signed, CallSteps
    <3> QED BY <2>1, <2>3, <3>1, <3>2, OwnFrame
  <2>4. ASSUME NEW b, Allocate(b, op.size), Hold(b), b \in Offsets, b \notin Described \/ ~Desc[b].allocated,
               Described' = Described \cup {b}
        PROVE  OwnInv'
    <3>1. /\ Registry' = [Registry EXCEPT ![op.name] = [used |-> TRUE, offset |-> b, size |-> op.size]]
          /\ op'.at = "Save"
      BY <1>0, <2>4 DEF Hold, TypeOK
    <3>2. Records' = Registry'  BY <3>1 DEF Records, CallSteps
    <3>3. /\ \A m \in Names \ {op.name} : Records'[m] = Records[m]
          /\ Records'[op.name] = [used |-> TRUE, offset |-> b, size |-> op.size]
      BY <1>0, <2>1, <2>2, <3>1, <3>2 DEF TypeOK
    <3>4. PICK k : k = Bucket(op.size)  OBVIOUS
    <3>5. Desc' = [Desc EXCEPT ![b] = [bucket |-> k, allocated |-> TRUE, size |-> op.size, next |-> 0]]
      BY <2>4, <3>4 DEF Allocate
    <3>6. (\A c \in Offsets \ {b} : Desc'[c] = Desc[c]) /\ Desc'[b].allocated /\ Desc'[b].size = op.size
      BY <1>0, <2>4, <3>5 DEF TypeOK
    <3> QED BY <1>0, <2>1, <2>2, <2>4, <3>1, <3>3, <3>6, OwnHold
  <2>5. CASE RecyclePoolBlock
    <3>1. Described' = Described  BY <1>0, <2>5, RecyclePool
    <3>2. PICK k : k = Bucket(op.size)  OBVIOUS
    <3>3. PICK b : b = FirstOffset[k]  OBVIOUS
    <3>4. op.at = "Get" /\ Recyclable(k) /\ k \in Buckets
      BY <1>0, <2>5, <3>2, BucketFits, PoolAssumption DEF RecyclePoolBlock, CallLocals
    <3>5. b \in FreeBlocks(k)
      BY <1>0, <3>3, <3>4, LinkHead DEF Recyclable, ListsInv, CallSteps
    <3>6. b \in Described /\ b \in Offsets /\ ~Desc[b].allocated  BY <3>5 DEF FreeBlocks, Described
    <3>7. \/ Allocate(b, op.size) /\ Hold(b)
          \/ op' = [op EXCEPT !.at = "Create"] /\ UNCHANGED <<Marks, Desc, FirstOffset, Registry>>
      BY <2>5, <3>2, <3>3 DEF RecyclePoolBlock
    <3> QED BY <2>3, <2>4, <3>1, <3>6, <3>7
  <2>6. CASE CreatePoolBlock
    <3>1. PICK b : b = TailPosition + 1  OBVIOUS
    <3>2. b \notin Described /\ Described' = Described \cup {b}
      BY <1>0, <2>6, <3>1, CreatePool
    <3>3. Allocate(b, op.size) /\ Hold(b)  BY <2>6, <3>1 DEF CreatePoolBlock
    <3>4. b \in Offsets  BY <3>2, <1>0 DEF Described
    <3> QED BY <2>4, <3>2, <3>3, <3>4
  <2> QED BY <1>5, <2>5, <2>6
<1>6. CASE GetBlockFails  BY <1>6 DEF CutShort
<1>7. CASE Reset  BY <1>3, <1>7 DEF Still
<1>8. CASE Still \/ ClearCDS \/ Mark
  BY <1>1, <1>2, <1>3, <1>8
<1> QED BY <1>1, <1>2, <1>3, <1>4, <1>5, <1>6, <1>7 DEF Next, Still

(* A store whose record, header and data a step leaves alone stays as it is. *)
LEMMA RestorableKept ==
  ASSUME NEW n, Restorable(n), Records'[n] = Records[n], copied'[n] = copied[n],
         \A b : b = Records[n].offset /\ b # 0 => Crc'[b] = Crc[b] /\ Data'[b] = Data[b]
  PROVE  Restorable(n)'
BY DEF Restorable, Copied

(* A store that nothing was copied to promises nothing.                    *)
LEMMA NothingCopied ==
  ASSUME NEW n, copied'[n] = NotCopied
  PROVE  Restorable(n)'
BY DEF Restorable, Copied, NotCopied

(* A copy begins: the header of its block, and of no other, is written.    *)
LEMMA CopyHeaderStep ==
  ASSUME TypeOK, SignedInv, OwnInv, CopyInv, NEW n \in Names, NEW v \in Vals, CopyHeader(n, v),
         Records' = Records
  PROVE  CopyInv'
<1> USE StepNames
<1>b. PICK b : b = Registry[n].offset  OBVIOUS
<1>1. /\ op.at = "Idle" /\ op'.at = "CopyData" /\ op'.name = n /\ op'.val = v /\ Data' = Data
      /\ Crc' = [Crc EXCEPT ![b] = [val |-> v, size |-> Registry[n].size]]
      /\ copied' = [copied EXCEPT ![n] = [val |-> v, done |-> FALSE]]
  BY <1>b DEF CopyHeader, Call
<1>2. Signed /\ Records = Registry  BY <1>1 DEF SignedInv, Records, CallSteps
<1>3. b \in Offsets /\ b # 0
  <2>1. b \in 1..TailPosition  BY <1>b DEF CopyHeader, Backed, IsAllocated
  <2>2. TailPosition \in Nat /\ TailPosition <= PoolSize /\ PoolSize \in Nat  BY PoolAssumption DEF TypeOK
  <2> QED BY <2>1, <2>2 DEF Offsets
<1>4. copied'[n] = [val |-> v, done |-> FALSE] /\ \A m \in Names \ {n} : copied'[m] = copied[m]
  BY <1>1 DEF TypeOK
<1>5. Copied(n)' /\ ~copied'[n].done /\ copied'[n].val = v  BY <1>4, ValueAssumption DEF Copied
<1>6. Crc'[b] = [val |-> v, size |-> Registry[n].size] /\ \A c \in Offsets \ {b} : Crc'[c] = Crc[c]
  BY <1>1, <1>3 DEF TypeOK
<1>7. Restorable(n)'  BY <1>b, <1>2, <1>3, <1>5, <1>6 DEF Restorable
<1>8. ASSUME NEW m \in Names, m # n PROVE Restorable(m)'
  <2>1. Restorable(m)  BY <1>2 DEF CopyInv
  <2>2. Records[m].offset # 0 => Records[m].offset \in Offsets /\ Records[m].offset # b
    BY <1>b, <1>2, <1>3, <1>8 DEF OwnInv, Described
  <2> QED BY <1>1, <1>4, <1>6, <1>8, <2>1, <2>2, RestorableKept
<1> QED BY <1>1, <1>5, <1>7, <1>8 DEF CopyInv

(* The data of one copy are written, or half written.                      *)
LEMMA CopyDataStep ==
  ASSUME TypeOK, CallLocals, SignedInv, OwnInv, CopyInv, op.at = "CopyData", op'.at # "CopyData",
         Records' = Records, Crc' = Crc, NEW b, b = Registry[op.name].offset, NEW x, Data' = [Data EXCEPT ![b] = x],
         \/ copied' = copied
         \/ /\ copied' = [copied EXCEPT ![op.name].done = TRUE]
            /\ x = [val |-> op.val, size |-> Registry[op.name].size]
  PROVE  CopyInv'
<1>n. PICK n \in Names : n = op.name  BY DEF CallLocals, CallSteps
<1>1. Signed /\ Records = Registry  BY DEF SignedInv, Records, CallSteps
<1>2. Copied(n) /\ op.val = copied[n].val /\ ~copied[n].done /\ Restorable(n)  BY <1>n, <1>1 DEF CopyInv
<1>3. b # 0 /\ Crc[b] = [val |-> copied[n].val, size |-> Records[n].size]
  BY <1>n, <1>1, <1>2 DEF Restorable
<1>4. b \in Offsets  BY <1>n, <1>1, <1>3 DEF OwnInv, Described
<1>5. Data'[b] = x /\ \A c \in Offsets \ {b} : Data'[c] = Data[c]  BY <1>4 DEF TypeOK
<1>6. Restorable(n)'
  <2>1. CASE copied' = copied  BY <1>n, <1>1, <1>2, <1>3, <2>1 DEF Restorable, Copied
  <2>2. CASE copied' # copied
    <3>1. copied' = [copied EXCEPT ![n] = [copied[n] EXCEPT !.done = TRUE]]  BY <1>n, <2>2
    <3>2. copied'[n] = [copied[n] EXCEPT !.done = TRUE]  BY <3>1 DEF TypeOK
    <3>3. copied'[n].val = copied[n].val  BY <3>2 DEF TypeOK
    <3>4. x = [val |-> copied[n].val, size |-> Records[n].size]  BY <1>n, <1>1, <1>2, <2>2
    <3> QED BY <1>n, <1>1, <1>2, <1>3, <1>5, <3>3, <3>4 DEF Restorable, Copied
  <2> QED BY <2>1, <2>2
<1>7. ASSUME NEW m \in Names, m # n PROVE Restorable(m)'
  <2>1. Restorable(m)  BY <1>1 DEF CopyInv
  <2>2. Records[m].offset # 0 => Records[m].offset \in Offsets /\ Records[m].offset # b
    BY <1>n, <1>1, <1>3, <1>7 DEF OwnInv, Described
  <2>3. copied'[m] = copied[m]
    <3>1. copied' = copied \/ copied' = [copied EXCEPT ![n] = [copied[n] EXCEPT !.done = TRUE]]  BY <1>n
    <3> QED BY <1>7, <3>1 DEF TypeOK
  <2> QED BY <1>5, <2>1, <2>2, <2>3, RestorableKept
<1> QED BY <1>6, <1>7 DEF CopyInv

(* What was copied stays what a restore gives.                             *)
LEMMA CopyStep ==
  ASSUME Fails \cap {"Save", "Drop"} = {}, TypeInv, SavedInv, SignedInv, OwnInv, CopyInv, [Next]_vars, ~CutShort
  PROVE  CopyInv'
<1> USE StepNames
<1>0. TypeOK /\ TypeOK' /\ CallLocals /\ SignedInv'  BY TypeStep, SignedStep DEF TypeInv
<1>1. CASE ClearCDS
  <2>1. op'.at \in {"ClearPool", "ClearTrailer", "MarkBegin"}  BY <1>1 DEF ClearCDS
  <2> QED BY <1>0, <2>1 DEF CopyInv, SignedInv
<1>2. CASE Mark
  <2>1. op'.at \in {"MarkEnd", "MarkSize", "InitRegistry"}  BY <1>2 DEF Mark
  <2>2. Signed' => \A n \in Names : copied'[n] = NotCopied  BY <1>0, <2>1 DEF SignedInv
  <2> QED BY <2>1, <2>2, NothingCopied DEF CopyInv
<1>3. CASE Still
  <2>1. Records' = Records  BY <1>0, <1>3, RecordsKept
  <2>2. Signed' => Signed
    BY <1>3 DEF Still, ValidateCDS, InitCDSRegistry, RebuildBlock, RebuildDone, BootFails, Register,
                UpdateCDSRegistry, DeleteSaved, CopyData, CopyHeader, AppStart, AppExit, Reset, vars, psp, Signed
  <2>3. CASE /\ UNCHANGED <<Crc, Data, copied>>
             /\ op'.at = "CopyData" => op' = op
    BY <2>1, <2>2, <2>3, CopyFrame
  <2>4. CASE \/ ValidateCDS \/ InitCDSRegistry \/ RebuildBlock \/ RebuildDone \/ BootFails
             \/ UpdateCDSRegistry \/ DeleteSaved
    BY <2>3, <2>4 DEF ValidateCDS, InitCDSRegistry, RebuildBlock, RebuildDone, BootFails, UpdateCDSRegistry,
                      DeleteSaved, psp
  <2>5. CASE (\E n \in Names : AppStart(n) \/ AppExit(n)) \/ UNCHANGED vars
    BY <2>3, <2>5 DEF AppStart, AppExit, vars, psp
  <2>6. ASSUME NEW n \in Names, NEW size \in Sizes, Register(n, size) PROVE CopyInv'
    <3>1. /\ op'.at = "Get" /\ UNCHANGED <<Crc, Data>> /\ copied' = [copied EXCEPT ![n] = NotCopied]
      BY <2>6 DEF Register, Call, psp
    <3>2. copied'[n] = NotCopied /\ \A m \in Names \ {n} : copied'[m] = copied[m]  BY <1>0, <3>1 DEF TypeOK
    <3>3. ASSUME NEW m \in Names, Signed' PROVE Restorable(m)'
      <4>1. Restorable(m)  BY <2>2, <3>3 DEF CopyInv
      <4> QED BY <2>1, <3>1, <3>2, <4>1, NothingCopied, RestorableKept
    <3> QED BY <3>1, <3>3 DEF CopyInv
  <2>7. CASE CopyData
    <3>1. op.at = "CopyData" /\ op'.at = "Idle" /\ Crc' = Crc  BY <2>7 DEF CopyData
    <3>2. CASE UNCHANGED <<Data, copied>>  BY <2>3, <3>1, <3>2
    <3>3. CASE ~UNCHANGED <<Data, copied>>
      <4>1. PICK b : b = Registry[op.name].offset  OBVIOUS
      <4>2. PICK x : x = [val |-> op.val, size |-> Registry[op.name].size]  OBVIOUS
      <4>3. Data' = [Data EXCEPT ![b] = x] /\ copied' = [copied EXCEPT ![op.name].done = TRUE]
        BY <2>7, <3>3, <4>1, <4>2 DEF CopyData
      <4> QED BY <1>0, <2>1, <3>1, <4>1, <4>2, <4>3, CopyDataStep
    <3> QED BY <3>2, <3>3
  <2>8. ASSUME NEW n \in Names, NEW v \in Vals, CopyHeader(n, v) PROVE CopyInv'
    BY <1>0, <2>1, <2>8, CopyHeaderStep
  <2>9. CASE Reset /\ ~CutShort
    <3>1. op'.at = "Validate" /\ UNCHANGED <<Crc, copied>> /\ op.at \notin {"Save", "Drop"}
      BY <2>9 DEF Reset, CutShort
    <3>2. CASE Data' = Data  BY <2>3, <3>1, <3>2
    <3>3. CASE Data' # Data
      <4>1. PICK b : b = Registry[op.name].offset  OBVIOUS
      <4>2. PICK x : x = [val |-> Torn, size |-> Registry[op.name].size]  OBVIOUS
      <4>3. op.at = "CopyData" /\ Data' = [Data EXCEPT ![b] = x]
        BY <2>9, <3>1, <3>3, <4>1, <4>2 DEF Reset, HalfWritten
      <4> QED BY <1>0, <2>1, <3>1, <4>1, <4>3, CopyDataStep
    <3> QED BY <3>2, <3>3
  <2> QED BY <1>3, <2>4, <2>5, <2>6, <2>7, <2>8, <2>9 DEF Still
<1>4. ASSUME NEW n \in Names, (\E size \in Sizes : Resize(n, size)) \/ DeleteCDS(n) PROVE CopyInv'
  <2>1. /\ op.at = "Idle" /\ op'.at \in {"Get", "Drop"} /\ UNCHANGED <<Crc, Data>>
        /\ copied' = [copied EXCEPT ![n] = NotCopied]
    BY <1>4 DEF Resize, DeleteCDS, Call
  <2>2. copied'[n] = NotCopied /\ \A m \in Names \ {n} : copied'[m] = copied[m]  BY <1>0, <2>1 DEF TypeOK
  <2>3. Signed /\ Records = Registry /\ Records' = Registry'  BY <2>1 DEF SignedInv, Records, CallSteps
  <2>4. \A m \in Names \ {n} : Registry'[m] = Registry[m]
    <3>1. PICK r : Registry' = [Registry EXCEPT ![n] = r]
      <4>1. CASE \E size \in Sizes : Resize(n, size)
        <5>1. Registry' = [Registry EXCEPT ![n] = [Registry[n] EXCEPT !.offset = 0, !.size = 0]]
          BY <4>1 DEF Resize
        <5> QED BY <5>1
      <4>2. CASE DeleteCDS(n)  BY <4>2 DEF DeleteCDS
      <4> QED BY <1>4, <4>1, <4>2
    <3> QED BY <1>0, <3>1 DEF TypeOK
  <2>5. ASSUME NEW m \in Names PROVE Restorable(m)'
    <3>1. Restorable(m)  BY <2>3 DEF CopyInv
    <3> QED BY <2>1, <2>2, <2>3, <2>4, <3>1, NothingCopied, RestorableKept
  <2> QED BY <2>1, <2>5 DEF CopyInv
<1>5. CASE RecyclePoolBlock \/ CreatePoolBlock
  <2>1. op.at \in {"Get", "Create"} /\ op.name \in Names /\ UNCHANGED <<Crc, Data, copied>>
    BY <1>0, <1>5 DEF RecyclePoolBlock, CreatePoolBlock, Grows, CallLocals, CallSteps
  <2>2. op'.at \in {"Create", "Save"}  BY <1>0, <1>5 DEF RecyclePoolBlock, CreatePoolBlock, Hold, TypeOK
  <2>3. Signed /\ Records = Registry /\ Records' = Registry'  BY <2>1, <2>2 DEF SignedInv, Records, CallSteps
  <2>4. \A m \in Names \ {op.name} : Registry'[m] = Registry[m]
    <3>1. PICK r : Registry' = [Registry EXCEPT ![op.name] = r] \/ Registry' = Registry
      BY <1>5 DEF RecyclePoolBlock, CreatePoolBlock, Hold
    <3> QED BY <1>0, <3>1 DEF TypeOK
  <2>5. ASSUME NEW m \in Names PROVE Restorable(m)'
    <3>1. Restorable(m)  BY <2>3 DEF CopyInv
    <3>2. CASE m # op.name  BY <2>1, <2>3, <2>4, <3>1, <3>2, RestorableKept
    <3>3. CASE m = op.name
      <4>1. Records[m].offset = 0  BY <2>1, <2>3, <3>3 DEF OwnInv
      <4>2. ~Copied(m) /\ ~copied[m].done  BY <3>1, <4>1 DEF Restorable
      <4> QED BY <2>1, <4>2 DEF Restorable, Copied
    <3> QED BY <3>2, <3>3
  <2> QED BY <2>2, <2>5 DEF CopyInv
<1>6. CASE GetBlockFails  BY <1>6 DEF CutShort
<1>7. CASE Reset  BY <1>3, <1>7 DEF Still
<1> QED BY <1>1, <1>2, <1>3, <1>4, <1>5, <1>6, <1>7 DEF Next, Still

(* Records, blocks and copies are what calls find.                         *)
LEMMA WholeMeans ==
  ASSUME PoolInv, SavedInv, WholeInv
  PROVE  WholeBlocksOwned /\ WholeCopyRecovered
<1> SUFFICES ASSUME whole, op = Idle PROVE BlocksOwned /\ CopyRecovered
  BY DEF WholeBlocksOwned, WholeCopyRecovered, BlocksOwned, CopyRecovered
<1>1. TypeOK /\ op.at = "Idle" /\ OwnInv /\ CopyInv /\ Signed /\ Records = Registry
  BY StepNames DEF PoolInv, TypeInv, WholeInv, SignedInv, Records, CallSteps
<1>2. /\ Tiled /\ Described \subseteq 1..TailPosition
      /\ TailPosition = 0 \/ \E b \in Described : After(b) = TailPosition + 1
  BY <1>1 DEF PoolInv, TilesInv, TailInv, CallSteps
<1>3. Blocks = Described  BY <1>1, <1>2, BlocksAre
<1>4. ASSUME NEW n \in Names, Registry[n].offset # 0
      PROVE  Backed(n) /\ Registry[n].used
  <2>1. PICK b : b = Registry[n].offset  OBVIOUS
  <2>2. /\ Registry[n].used /\ b \in Described /\ Desc[b].allocated
        /\ Desc[b].size = Registry[n].size /\ Registry[n].size # 0
    BY <1>1, <1>4, <2>1 DEF OwnInv
  <2>3. b \in 1..TailPosition /\ Desc[b].bucket \in Buckets /\ Desc[b].size <= Desc[b].bucket
    BY <1>1, <1>2, <2>2, DescFacts DEF Tiled
  <2>4. Desc[b].size \in Nat /\ Desc[b].bucket \in Nat  BY <1>1, <2>2, DescFacts
  <2> QED BY <2>1, <2>2, <2>3, <2>4 DEF Backed, IsAllocated
<1>5. ASSUME NEW b \in Blocks, Desc[b].allocated
      PROVE  Cardinality({n \in Used : Registry[n].offset = b}) = 1
  <2>1. b # 0  BY <1>1, <1>3, DescFacts
  <2>2. PICK n \in Names : Registry[n].offset = b  BY <1>1, <1>3, <1>5 DEF OwnInv
  <2>3. {m \in Used : Registry[m].offset = b} = {n}
    BY <1>1, <1>4, <2>1, <2>2 DEF OwnInv, Used
  <2> QED BY <2>3, FS_Singleton
<1>6. BlocksOwned  BY <1>4, <1>5 DEF BlocksOwned, Used
<1>7. ASSUME NEW n \in Names
      PROVE  /\ copied[n].done => Registry[n].used /\ Restores(n)
             /\ Registry[n].used /\ Copied(n) /\ Restores(n) => Restored(n) = copied[n].val
  <2>1. Restorable(n)  BY <1>1 DEF CopyInv
  <2>2. PICK b : b = Registry[n].offset  OBVIOUS
  <2>3. Copied(n) => /\ b # 0 /\ Crc[b] = [val |-> copied[n].val, size |-> Registry[n].size]
                     /\ copied[n].done => Data[b] = Crc[b]
    BY <1>1, <2>1, <2>2 DEF Restorable
  <2>4. copied[n].done => Copied(n)  BY <2>1 DEF Restorable
  <2>5. copied[n].done => Registry[n].used /\ Restores(n)
    BY <1>4, <2>2, <2>3, <2>4 DEF Restores
  <2>6. Copied(n) /\ Restores(n) => Restored(n) = copied[n].val
    BY <2>2, <2>3 DEF Restores, Restored
  <2> QED BY <2>5, <2>6
<1> QED BY <1>6, <1>7 DEF CopyRecovered

(* The invariant holds at the start, and after each step.                  *)
LEMMA WholeInitOK == WholeInit => PoolInv /\ SavedInv /\ WholeInv
<1> SUFFICES ASSUME Init, whole = TRUE PROVE PoolInv /\ SavedInv /\ WholeInv  BY DEF WholeInit
<1>1. PoolInv /\ SavedInv /\ SignedInv  BY TypeInit, PoolInit, SavedInit, SignedInit DEF PoolInv
<1>2. ~Signed  BY DEF Init, Signed
<1> QED BY <1>1, <1>2 DEF WholeInv, OwnInv, CopyInv

LEMMA WholeStep ==
  ASSUME Fails \cap {"Save", "Drop"} = {}, PoolInv, SavedInv, WholeInv, [WholeNext]_<<vars, whole>>
  PROVE  PoolInv' /\ SavedInv' /\ WholeInv'
<1>1. [Next]_vars  BY DEF WholeNext
<1>2. TypeInv /\ SignedInv  BY DEF PoolInv, WholeInv
<1>3. PoolInv' /\ SavedInv' /\ SignedInv'
  BY <1>1, <1>2, TypeStep, PoolStep, SavedStep, SignedStep DEF PoolInv
<1>4. ASSUME whole' PROVE OwnInv' /\ CopyInv'
  <2>1. whole /\ (~CutShort \/ UNCHANGED vars)  BY <1>4 DEF WholeNext
  <2>2. OwnInv /\ CopyInv  BY <2>1 DEF WholeInv
  <2>3. CASE ~CutShort  BY <1>1, <1>2, <2>2, <2>3, OwnStep, CopyStep
  <2>4. CASE UNCHANGED vars
    <3>1. UNCHANGED <<op, Marks, Registry, SavedRegistry, Desc, Crc, Data, copied>>  BY <2>4 DEF vars, psp, ram
    <3>2. Records' = Records /\ Described' = Described /\ (Signed' => Signed)
      BY <3>1 DEF Records, Described, Signed
    <3> QED BY <2>2, <3>1, <3>2, OwnFrame, CopyFrame
  <2> QED BY <2>1, <2>3, <2>4
<1> QED BY <1>3, <1>4 DEF WholeInv

(* As long as no write of the registry fails and no registration, resize or *)
(* deletion is cut short, each store that has a block has one of its own, of *)
(* its size, and each allocated block has a store, whatever resets fall into *)
(* boots and copies: the registry that CFE_ES_RebuildCDS reads back        *)
(* (cfe_es_cds.c:790-834) and the blocks that CFE_ES_GenPoolRebuild counts *)
(* still belong together, for any number of stores.                        *)
THEOREM BlocksHold ==
  ASSUME Fails \cap {"Save", "Drop"} = {}
  PROVE  WholeSpec => []WholeBlocksOwned
<1>1. PoolInv /\ SavedInv /\ WholeInv /\ [WholeNext]_<<vars, whole>> => (PoolInv /\ SavedInv /\ WholeInv)'
  BY WholeStep
<1>2. PoolInv /\ SavedInv /\ WholeInv => WholeBlocksOwned  BY WholeMeans
<1> QED BY <1>1, <1>2, WholeInitOK, PTL DEF WholeSpec

(* Under the same conditions an app restores what it copied last, after any *)
(* resets; when the copy was cut short it restores that data or gets an    *)
(* error, since the CRC that CFE_ES_CDSBlockWrite put into the header first *)
(* (cfe_es_cds_mempool.c:205-253) is that of the new data.                 *)
THEOREM CopiesHold ==
  ASSUME Fails \cap {"Save", "Drop"} = {}
  PROVE  WholeSpec => []WholeCopyRecovered
<1>1. PoolInv /\ SavedInv /\ WholeInv /\ [WholeNext]_<<vars, whole>> => (PoolInv /\ SavedInv /\ WholeInv)'
  BY WholeStep
<1>2. PoolInv /\ SavedInv /\ WholeInv => WholeCopyRecovered  BY WholeMeans
<1> QED BY <1>1, <1>2, WholeInitOK, PTL DEF WholeSpec

=============================================================================
