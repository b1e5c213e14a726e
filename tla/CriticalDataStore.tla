-------------------------- MODULE CriticalDataStore --------------------------
(***************************************************************************)
(* The Critical Data Store of Executive Services: named blocks of a memory *)
(* that a processor reset does not clear (cfe_es_cds.c,                    *)
(* cfe_es_cds_mempool.c), allocated from a generic pool whose descriptors  *)
(* live in that memory too (cfe_es_generic_pool.c).                        *)
(*                                                                         *)
(* A mutex serialises the calls, so nothing but a reset comes between the  *)
(* steps of one.  An action ends with one write to the memory, or with     *)
(* none: op says which write is the next one, and a reset in between, or   *)
(* in the middle of a long write, loses whatever is in RAM.                *)
(***************************************************************************)
EXTENDS Integers, FiniteSets

CONSTANTS
  Names,       \* full names of the stores ("AppName.CDSName"), one an app
  MaxEntries,  \* CFE_PLATFORM_ES_CDS_MAX_NUM_ENTRIES
  Buckets,     \* the block sizes of the pool
  PoolSize,    \* units of memory in the pool; a descriptor takes one unit
  Sizes,       \* the sizes apps ask for, block header included
  Vals,        \* the data apps copy to a store
  NoVal,       \* the data of a block that was cleared
  Torn,        \* data of which a reset cut the write short
  NoName,
  Resets,      \* the steps of boots and calls at which a reset may strike;
               \* it always may between calls
  Fails,       \* the steps whose write to the memory may fail, which leaves
               \* the memory as it was
  Deletes      \* stores are deleted

ASSUME PoolAssumption == /\ Buckets \subseteq Nat \ {0}
                         /\ IsFiniteSet(Buckets)
                         /\ PoolSize \in Nat \ {0}
                         /\ Sizes \subseteq Nat \ {0}
ASSUME EntryAssumption == MaxEntries \in Nat \ {0} /\ IsFiniteSet(Names)
ASSUME ValueAssumption == /\ NoVal \notin Vals /\ Torn \notin Vals /\ NoVal # Torn
                          /\ NoName \notin Names
ASSUME ScopeAssumption == Deletes \in BOOLEAN

VARIABLES
  \* in the persistent memory
  Marks,         \* what of the signatures and of the registry size is valid
  SavedRegistry, \* the image of the registry
  Desc,          \* block descriptors, by the offset of their block
  Crc, Data,     \* what each block was last written with, and its header
  \* in RAM
  Registry,      \* the working copy of the registry
  TailPosition,  \* units of the pool that blocks take
  FirstOffset,   \* the head of each bucket's list of free blocks
  op,            \* the call or boot step in progress
  \* outside
  Active,        \* the stores whose app runs
  copied         \* history: the last data an app began to copy to its
                 \* store since it was reserved, and whether the call ended

ram  == <<Registry, TailPosition, FirstOffset>>
psp  == <<Marks, SavedRegistry, Desc, Crc, Data>>
vars == <<psp, ram, op, Active, copied>>

-----------------------------------------------------------------------------
(* Records, descriptors and calls *)

Offsets == 1..PoolSize

\* CFE_ES_CDS_RegRec_t; offset 0 when a record has no block
RegRec == [used : BOOLEAN, offset : 0..PoolSize, size : Sizes \cup {0}]
NoRec  == [used |-> FALSE, offset |-> 0, size |-> 0]

\* CFE_ES_GenPoolBD_t; bucket 0 stands for a descriptor without check bits
BD     == [bucket : Buckets \cup {0}, allocated : BOOLEAN,
           size : Sizes \cup {0}, next : 0..PoolSize]
NoDesc == [bucket |-> 0, allocated |-> FALSE, size |-> 0, next |-> 0]

\* What a block or its CRC was made from: the CRC of other data, or of as
\* many bytes as it was not written with, does not match
Content == [val : Vals \cup {NoVal, Torn}, size : Sizes \cup {0}]
Blank   == [val |-> NoVal, size |-> 0]

Idle     == [at |-> "Idle", name |-> NoName, size |-> 0, val |-> NoVal]
Call(step, n, size, v) == [at |-> step, name |-> n, size |-> size, val |-> v]
At(step) == [Idle EXCEPT !.at = step]
BootSteps == {"Validate", "ClearHeader", "ClearPool", "ClearTrailer", "MarkBegin",
              "MarkEnd", "MarkSize", "InitRegistry", "Rebuild"}
CallSteps == {"Get", "Create", "Save", "Drop", "CopyData"}

WriteFails == op.at \in Fails

Used     == {n \in Names : Registry[n].used}
Copied(n) == copied[n].val # NoVal
NotCopied == [val |-> NoVal, done |-> FALSE]

-----------------------------------------------------------------------------
(* Memory before power on: without signatures, or the store of another     *)
(* build, whose registry has another size and whose pool holds blocks.     *)

Init ==
  /\ Marks \in SUBSET {"Begin", "End"}
  /\ SavedRegistry = [n \in Names |-> NoRec]
  /\ \E d \in {NoDesc} \cup [bucket : Buckets, allocated : {TRUE}, size : Sizes, next : {0}] :
       Desc = [[b \in Offsets |-> NoDesc] EXCEPT ![1] = d]
  /\ Crc = [b \in Offsets |-> Blank]
  /\ Data = [b \in Offsets |-> Blank]
  /\ Registry = [n \in Names |-> NoRec]
  /\ TailPosition = 0
  /\ FirstOffset = [k \in Buckets |-> 0]
  /\ op = At("Validate")
  /\ Active = {}
  /\ copied = [n \in Names |-> NotCopied]

-----------------------------------------------------------------------------
(* The generic pool *)

\* CFE_ES_GenPoolFindBucket: the smallest block size that is large enough
Fits(size)   == {k \in Buckets : size <= k}
Bucket(size) == CHOOSE k \in Fits(size) : \A j \in Fits(size) : k <= j

\* The checks of CFE_ES_GenPoolPutBlock and CFE_ES_GenPoolGetBlockSize
IsAllocated(b) == /\ b \in 1..TailPosition
                  /\ Desc[b].bucket \in Buckets /\ Desc[b].allocated
                  /\ Desc[b].size \in 1..Desc[b].bucket

\* A descriptor that CFE_ES_GenPoolRebuild accepts
IsBlock(b) == b \in Offsets /\ Desc[b].bucket \in Buckets /\ Desc[b].size <= Desc[b].bucket

\* The head of the bucket's list, when it is a free block of that bucket
Recyclable(k) == /\ FirstOffset[k] # 0
                 /\ Desc[FirstOffset[k]].bucket = k /\ ~Desc[FirstOffset[k]].allocated

\* CFE_ES_GenPoolPutBlock.  When its write fails, or the block is not
\* allocated, the caller returns without any change of state.
PutBlock(b) ==
  LET k == Desc[b].bucket
  IN  /\ IsAllocated(b)
      /\ Desc' = [Desc EXCEPT ![b].allocated = FALSE, ![b].next = FirstOffset[k]]
      /\ FirstOffset' = [FirstOffset EXCEPT ![k] = b]

\* The block of the record is allocated, with the size of the record
Backed(n) == /\ IsAllocated(Registry[n].offset)
             /\ Desc[Registry[n].offset].size = Registry[n].size

-----------------------------------------------------------------------------
(* Errors a change of the code could make; the model does not use them,    *)
(* they show that the properties notice.                                   *)

\* The blocks of another build's store survive the formatting.
ClearCDSHeader ==
  /\ \/ op.at = "ClearHeader" /\ Marks' = Marks \ {"Begin", "Size"} /\ op' = At("ClearTrailer")
     \/ op.at = "ClearTrailer" /\ Marks' = Marks \ {"End"} /\ op' = At("MarkBegin")
  /\ UNCHANGED <<SavedRegistry, Desc, Crc, Data, ram, Active, copied>>
\* A free block keeps the link it had before the reset.
RebuildBlockKeepsLink ==
  LET b == TailPosition + 1
      k == Desc[b].bucket
  IN  /\ op.at = "Rebuild" /\ IsBlock(b)
      /\ TailPosition' = b + k
      /\ FirstOffset' = IF Desc[b].allocated THEN FirstOffset ELSE [FirstOffset EXCEPT ![k] = b]
      /\ UNCHANGED <<psp, Registry, op, Active, copied>>
\* The registry is saved for new records only.
UpdateCDSRegistryIfNew ==
  /\ op.at = "Save"
  /\ SavedRegistry' = IF SavedRegistry[op.name].used THEN SavedRegistry ELSE Registry
  /\ op' = Idle
  /\ UNCHANGED <<Marks, Desc, Crc, Data, ram, Active, copied>>
\* The CRC is not compared.
RestoresAny(n) == Backed(n)

-----------------------------------------------------------------------------
(* What a new block is told by its descriptor *)

Allocate(b, size) ==
  Desc' = [Desc EXCEPT ![b] = [bucket |-> Bucket(size), allocated |-> TRUE,
                               size |-> size, next |-> 0]]

-----------------------------------------------------------------------------
(* Boot: CFE_ES_CDS_EarlyInit *)

\* CFE_ES_ValidateCDS and the first half of CFE_ES_RebuildCDS: the store is
\* formatted again unless the signatures and the size of the registry fit
ValidateCDS ==
  /\ op.at = "Validate"
  /\ IF Marks = {"Begin", "Size", "End"}
       THEN Registry' = SavedRegistry /\ op' = At("Rebuild")
       ELSE UNCHANGED Registry /\ op' = At("ClearHeader")
  /\ UNCHANGED <<psp, TailPosition, FirstOffset, Active, copied>>

\* CFE_ES_ClearCDS: from the first byte, where the first signature is
ClearCDS ==
  /\ \/ /\ op.at = "ClearHeader"
        /\ Marks' = Marks \ {"Begin", "Size"}
        /\ SavedRegistry' = [n \in Names |-> NoRec]
        /\ op' = At("ClearPool")
        /\ UNCHANGED <<Desc, Crc, Data>>
     \/ /\ op.at = "ClearPool"
        /\ Desc' = [b \in Offsets |-> NoDesc]
        /\ Crc'  = [b \in Offsets |-> Blank]
        /\ Data' = [b \in Offsets |-> Blank]
        /\ op' = At("ClearTrailer")
        /\ UNCHANGED <<Marks, SavedRegistry>>
     \/ /\ op.at = "ClearTrailer"
        /\ Marks' = Marks \ {"End"}
        /\ op' = At("MarkBegin")
        /\ UNCHANGED <<SavedRegistry, Desc, Crc, Data>>
  /\ UNCHANGED <<ram, Active, copied>>

\* CFE_ES_InitCDSSignatures, then the size written by CFE_ES_InitCDSRegistry
Mark ==
  /\ \/ op.at = "MarkBegin" /\ Marks' = Marks \cup {"Begin"} /\ op' = At("MarkEnd")
     \/ op.at = "MarkEnd" /\ Marks' = Marks \cup {"End"} /\ op' = At("MarkSize")
     \/ op.at = "MarkSize" /\ Marks' = Marks \cup {"Size"} /\ op' = At("InitRegistry")
  /\ UNCHANGED <<SavedRegistry, Desc, Crc, Data, ram, Active, copied>>

\* The empty registry; the pool was created in between, in RAM
InitCDSRegistry ==
  /\ op.at = "InitRegistry"
  /\ Registry' = [n \in Names |-> NoRec]
  /\ SavedRegistry' = Registry'
  /\ op' = Idle
  /\ UNCHANGED <<Marks, Desc, Crc, Data, TailPosition, FirstOffset, Active, copied>>

\* One turn of the loop of CFE_ES_GenPoolRebuild: the next block is counted,
\* and put on its bucket's list when it is free
RebuildBlock ==
  LET b == TailPosition + 1
      k == Desc[b].bucket
  IN  /\ op.at = "Rebuild" /\ IsBlock(b)
      /\ TailPosition' = b + k
      /\ IF Desc[b].allocated
           THEN UNCHANGED <<Desc, FirstOffset>>
           ELSE /\ Desc' = [Desc EXCEPT ![b].next = FirstOffset[k]]
                /\ FirstOffset' = [FirstOffset EXCEPT ![k] = b]
      /\ UNCHANGED <<Marks, SavedRegistry, Crc, Data, Registry, op, Active, copied>>

\* The loop ends at the first descriptor that is none, or with the pool
RebuildDone ==
  /\ op.at = "Rebuild" /\ ~IsBlock(TailPosition + 1)
  /\ op' = Idle
  /\ UNCHANGED <<psp, ram, Active, copied>>

\* A write of the boot fails: the store stays unavailable until a reset
BootFails ==
  /\ op.at \in BootSteps \ {"Validate"} /\ WriteFails
  /\ op.at = "Rebuild" => /\ IsBlock(TailPosition + 1)
                          /\ ~Desc[TailPosition + 1].allocated
  /\ op' = At("Down")
  /\ UNCHANGED <<psp, ram, Active, copied>>

-----------------------------------------------------------------------------
(* CFE_ES_RegisterCDSEx.  A store of the same size is found again without  *)
(* any change of state, and so is a full registry.                         *)

\* The record is new, or has no block
Register(n, size) ==
  /\ op = Idle /\ n \in Active
  /\ \/ ~Registry[n].used /\ Cardinality(Used) < MaxEntries
     \/ Registry[n].used /\ Registry[n].offset = 0
  /\ op' = Call("Get", n, size, NoVal)
  /\ copied' = [copied EXCEPT ![n] = NotCopied]
  /\ UNCHANGED <<psp, ram, Active>>

\* The record has a block of another size, which is freed first
Resize(n, size) ==
  /\ op = Idle /\ n \in Active
  /\ Registry[n].used /\ Registry[n].offset # 0 /\ Registry[n].size # size
  /\ PutBlock(Registry[n].offset)
  /\ Registry' = [Registry EXCEPT ![n].offset = 0, ![n].size = 0]
  /\ op' = Call("Get", n, size, NoVal)
  /\ copied' = [copied EXCEPT ![n] = NotCopied]
  /\ UNCHANGED <<Marks, SavedRegistry, Crc, Data, TailPosition, Active>>

\* The record of the call in progress gets block b
Hold(b) ==
  /\ Registry' = [Registry EXCEPT ![op.name] = [used |-> TRUE, offset |-> b, size |-> op.size]]
  /\ op' = [op EXCEPT !.at = "Save"]

\* CFE_ES_GenPoolRecyclePoolBlock; when its write fails the pool grows
RecyclePoolBlock ==
  /\ op.at = "Get" /\ Fits(op.size) # {}
  /\ LET k == Bucket(op.size)
         b == FirstOffset[k]
     IN  /\ Recyclable(k)
         /\ \/ /\ Allocate(b, op.size)
               /\ FirstOffset' = [FirstOffset EXCEPT ![k] = Desc[b].next]
               /\ Hold(b)
            \/ /\ WriteFails
               /\ op' = [op EXCEPT !.at = "Create"]
               /\ UNCHANGED <<Desc, FirstOffset, Registry>>
  /\ UNCHANGED <<Marks, SavedRegistry, Crc, Data, TailPosition, Active, copied>>

Grows == \/ op.at = "Get" /\ Fits(op.size) # {} /\ ~Recyclable(Bucket(op.size))
         \/ op.at = "Create"
Room  == TailPosition + 1 + Bucket(op.size) <= PoolSize

\* CFE_ES_GenPoolCreatePoolBlock
CreatePoolBlock ==
  /\ Grows /\ Room
  /\ Allocate(TailPosition + 1, op.size)
  /\ TailPosition' = TailPosition + 1 + Bucket(op.size)
  /\ Hold(TailPosition + 1)
  /\ UNCHANGED <<Marks, SavedRegistry, Crc, Data, FirstOffset, Active, copied>>

\* No block: the size is larger than any, the pool is full, or the write
\* failed.  The call returns; a record that lost its block keeps none.
GetBlockFails ==
  /\ \/ op.at = "Get" /\ Fits(op.size) = {}
     \/ Grows /\ (Room => WriteFails)
  /\ op' = Idle
  /\ UNCHANGED <<psp, ram, Active, copied>>

\* CFE_ES_UpdateCDSRegistry writes the whole registry
UpdateCDSRegistry ==
  /\ op.at = "Save"
  /\ SavedRegistry' \in {Registry} \cup (IF WriteFails THEN {SavedRegistry} ELSE {})
  /\ op' = Idle
  /\ UNCHANGED <<Marks, Desc, Crc, Data, ram, Active, copied>>

-----------------------------------------------------------------------------
(* CFE_ES_DeleteCDS, refused while the app of the store is active *)

DeleteCDS(n) ==
  /\ Deletes
  /\ op = Idle /\ n \notin Active
  /\ Registry[n].used
  /\ PutBlock(Registry[n].offset)
  /\ Registry' = [Registry EXCEPT ![n] = NoRec]
  /\ op' = Call("Drop", n, 0, NoVal)
  /\ copied' = [copied EXCEPT ![n] = NotCopied]
  /\ UNCHANGED <<Marks, SavedRegistry, Crc, Data, TailPosition, Active>>

DeleteSaved ==
  /\ op.at = "Drop"
  /\ SavedRegistry' \in {Registry} \cup (IF WriteFails THEN {SavedRegistry} ELSE {})
  /\ op' = Idle
  /\ UNCHANGED <<Marks, Desc, Crc, Data, ram, Active, copied>>

-----------------------------------------------------------------------------
(* CFE_ES_CDSBlockWrite and CFE_ES_CDSBlockRead *)

\* The header, with the CRC of the new data
CopyHeader(n, v) ==
  /\ op = Idle /\ n \in Active
  /\ Registry[n].used /\ Backed(n)
  /\ Crc' = [Crc EXCEPT ![Registry[n].offset] = [val |-> v, size |-> Registry[n].size]]
  /\ copied' = [copied EXCEPT ![n] = [val |-> v, done |-> FALSE]]
  /\ op' = Call("CopyData", n, 0, v)
  /\ UNCHANGED <<Marks, SavedRegistry, Desc, Data, ram, Active>>

\* The data; the call fails when the write does
CopyData ==
  LET r == Registry[op.name]
  IN  /\ op.at = "CopyData"
      /\ \/ /\ Data' = [Data EXCEPT ![r.offset] = [val |-> op.val, size |-> r.size]]
            /\ copied' = [copied EXCEPT ![op.name].done = TRUE]
         \/ WriteFails /\ UNCHANGED <<Data, copied>>
      /\ op' = Idle
      /\ UNCHANGED <<Marks, SavedRegistry, Desc, Crc, ram, Active>>

\* What CFE_ES_RestoreFromCDS returns: success only when the sizes agree and
\* the CRC in the header is the CRC of the data; cleared memory passes too
Restores(n) == LET r == Registry[n]
               IN  /\ Backed(n)
                   /\ Crc[r.offset] = Data[r.offset]
                   /\ Data[r.offset].size \in {r.size, 0}
Restored(n) == Data[Registry[n].offset].val

-----------------------------------------------------------------------------
(* Apps, and the processor reset *)

AppStart(n) ==
  /\ op = Idle /\ n \notin Active
  /\ Active' = Active \cup {n}
  /\ UNCHANGED <<psp, ram, op, copied>>

\* An app ends outside its calls
AppExit(n) ==
  /\ op = Idle /\ n \in Active
  /\ Active' = Active \ {n}
  /\ UNCHANGED <<psp, ram, op, copied>>

\* A write that the reset interrupts leaves the memory half written: the
\* data of a block, or some records of the registry (a record, a header and
\* a descriptor are taken to be written whole)
HalfWritten ==
  \/ /\ op.at = "CopyData"
     /\ Data' = [Data EXCEPT ![Registry[op.name].offset] =
                   [val |-> Torn, size |-> Registry[op.name].size]]
     /\ UNCHANGED SavedRegistry
  \/ /\ op.at \in {"Save", "Drop"}
     /\ \E new \in SUBSET Names :
          SavedRegistry' = [n \in Names |-> IF n \in new THEN Registry[n] ELSE SavedRegistry[n]]
     /\ UNCHANGED Data

Reset ==
  /\ op.at \in {"Idle", "Down"} \cup Resets
  /\ HalfWritten \/ UNCHANGED <<SavedRegistry, Data>>
  /\ Registry' = [n \in Names |-> NoRec]
  /\ TailPosition' = 0
  /\ FirstOffset' = [k \in Buckets |-> 0]
  /\ op' = At("Validate")
  /\ Active' = {}
  /\ UNCHANGED <<Marks, Desc, Crc, copied>>

-----------------------------------------------------------------------------

Next ==
  \/ ValidateCDS \/ ClearCDS \/ Mark \/ InitCDSRegistry
  \/ RebuildBlock \/ RebuildDone \/ BootFails
  \/ \E n \in Names, size \in Sizes : Register(n, size) \/ Resize(n, size)
  \/ RecyclePoolBlock \/ CreatePoolBlock \/ GetBlockFails \/ UpdateCDSRegistry
  \/ \E n \in Names : DeleteCDS(n)
  \/ DeleteSaved
  \/ \E n \in Names, v \in Vals : CopyHeader(n, v)
  \/ CopyData
  \/ \E n \in Names : AppStart(n) \/ AppExit(n)
  \/ Reset

Spec == Init /\ [][Next]_vars

-----------------------------------------------------------------------------
(* Type invariant *)

\* Every variable of the store, in the memory and in RAM, has its type.
TypeOK ==
  /\ Marks \subseteq {"Begin", "Size", "End"}
  /\ SavedRegistry \in [Names -> RegRec]
  /\ Registry \in [Names -> RegRec]
  /\ Desc \in [Offsets -> BD]
  /\ Crc \in [Offsets -> Content] /\ Data \in [Offsets -> Content]
  /\ TailPosition \in 0..PoolSize
  /\ FirstOffset \in [Buckets -> 0..PoolSize]
  /\ op \in [at : BootSteps \cup CallSteps \cup {"Idle", "Down"},
             name : Names \cup {NoName}, size : Sizes \cup {0}, val : Vals \cup {NoVal}]
  /\ Active \subseteq Names
  /\ copied \in [Names -> [val : Vals \cup {NoVal}, done : BOOLEAN]]

-----------------------------------------------------------------------------
(* Safety *)

\* The offsets that blocks start at, up to the tail of the pool
Blocks == LET start[b \in 1..(PoolSize + 1)] ==
                \/ b = 1
                \/ \E a \in 1..(b - 1) : start[a] /\ IsBlock(a) /\ b = a + 1 + Desc[a].bucket
          IN  {b \in 1..TailPosition : start[b]}
Free(k) == {b \in Blocks : Desc[b].bucket = k /\ ~Desc[b].allocated}

\* What a walk along the list of bucket k meets in PoolSize steps
Walk(k) == [i \in 0..PoolSize |->
              LET hop[j \in 0..i] == IF j = 0 THEN FirstOffset[k]
                                    ELSE IF hop[j - 1] = 0 THEN 0 ELSE Desc[hop[j - 1]].next
              IN  hop[i]]
Listed(k) == {Walk(k)[i] : i \in 0..PoolSize} \ {0}

\* The blocks lie side by side up to the tail, each allocated or free, and
\* the list of a bucket leads through its free blocks, all of them, and ends:
\* a block is never handed out twice and a freed one never lost, whichever
\* calls, failed writes and resets, the rebuild after one included, came
\* before (CFE_ES_GenPoolRebuild, PutBlock and GetBlock agree).
PoolSound ==
  op.at \in CallSteps \cup {"Idle"} =>
    /\ \A b \in Blocks : IsBlock(b) /\ b + Desc[b].bucket <= TailPosition
    /\ \E b \in Blocks \cup {0} :
         TailPosition = (IF b = 0 THEN 0 ELSE b + Desc[b].bucket)
    /\ \A k \in Buckets : Listed(k) = Free(k) /\ Walk(k)[PoolSize] = 0

\* Between calls the allocated blocks and the stores that have one belong
\* together, one to one, and the descriptor of a block agrees with the record
\* of its store: no two stores have the same block, none is lost for good,
\* and copies, restores, resizes and deletions find theirs
\* (CFE_ES_RegisterCDSEx, CFE_ES_DeleteCDS, CFE_ES_RebuildCDSPool).
BlocksOwned ==
  op = Idle =>
    /\ \A n \in Used : Registry[n].offset # 0 => Backed(n)
    /\ \A b \in Blocks : Desc[b].allocated =>
         Cardinality({n \in Used : Registry[n].offset = b}) = 1

\* What the app last copied to its store is what it restores, resets or not;
\* when the copy was cut short the restore gives either that data or an
\* error, never a mixture and never what an other store holds; and a store
\* with a completed copy is in the registry after any reset.
CopyRecovered ==
  op = Idle => \A n \in Names :
    /\ copied[n].done => Registry[n].used /\ Restores(n)
    /\ Registry[n].used /\ Copied(n) /\ Restores(n) => Restored(n) = copied[n].val

\* Between calls the saved registry is what a reset must find: it holds every
\* store that has a block, and no store that was deleted.
RegistrySaved ==
  op = Idle => \A n \in Names :
    Registry[n].offset # 0 \/ ~Registry[n].used => SavedRegistry[n] = Registry[n]

=============================================================================
