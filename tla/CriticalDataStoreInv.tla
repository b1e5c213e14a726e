------------------------ MODULE CriticalDataStoreInv ------------------------
(***************************************************************************)
(* The inductive invariants behind the theorems of CriticalDataStoreProofs.*)
(***************************************************************************)
EXTENDS CriticalDataStore

\* The call in progress knows its store, and a size that has a bucket before
\* it asks for a new block.
CallLocals ==
  /\ op.at \in CallSteps => op.name \in Names
  /\ op.at \in {"Get", "Create"} => op.size \in Sizes
  /\ op.at = "Create" => Fits(op.size) # {}

\* Every descriptor with check bits describes a block inside the pool, from
\* the moment the pool was cleared and in any store that a boot will accept.
Fit == \A b \in Offsets : Desc[b].bucket # 0 => b + Desc[b].bucket <= PoolSize
BlocksFit ==
  /\ Marks = {"Begin", "Size", "End"} => Fit
  /\ op.at \notin {"Validate", "ClearHeader", "ClearPool", "Down"} => Fit

TypeInv == TypeOK /\ CallLocals /\ BlocksFit

\* The saved record of a store is its record, unless the store is in use and
\* has no block.
Agree(n) == Registry[n].offset # 0 \/ ~Registry[n].used => SavedRegistry[n] = Registry[n]

\* Steps that end the call without writing the registry find it saved.
\* (When no write of the registry fails.)
SavedInv == op.at \in {"Idle", "Rebuild", "Get", "Create", "CopyData"} => \A n \in Names : Agree(n)

-----------------------------------------------------------------------------
(* The pool *)

\* The offsets with a descriptor, and the one behind the block of b
Described == {b \in Offsets : Desc[b].bucket # 0}
After(b)  == b + 1 + Desc[b].bucket

\* Blocks lie side by side from the first unit of the pool on.
Tiled ==
  /\ \A b \in Described : /\ Desc[b].size <= Desc[b].bucket
                          /\ b = 1 \/ \E a \in Described : b = After(a)
  /\ \A a, b \in Described : a < b => After(a) <= b

(* A store that a boot will accept is tiled, and so is the pool from the   *)
(* moment it was cleared.                                                  *)
TilesInv ==
  /\ Marks = {"Begin", "Size", "End"} => Tiled
  /\ op.at \notin {"Validate", "ClearHeader", "ClearPool", "Down"} => Tiled
  /\ op.at \in {"ClearTrailer", "MarkBegin", "MarkEnd", "MarkSize", "InitRegistry"} => Described = {}

\* A boot counts blocks from the first one, and has met all of them when it is done.
TailInv ==
  /\ op.at \in BootSteps \ {"Rebuild"} => TailPosition = 0 /\ \A k \in Buckets : FirstOffset[k] = 0
  /\ op.at \in CallSteps \cup {"Idle", "Rebuild"} =>
       TailPosition = 0 \/ \E b \in Described : After(b) = TailPosition + 1
  /\ op.at \in CallSteps \cup {"Idle"} => Described \subseteq 1..TailPosition

(* The list of a bucket has its free blocks that were counted, each once,  *)
(* in some order.                                                          *)
FreeBlocks(k) == {b \in Described : b <= TailPosition /\ Desc[b].bucket = k /\ ~Desc[b].allocated}
IsList(k, n, f) ==
  /\ \A i, j \in 1..n : f[i] = f[j] => i = j
  /\ \A b \in FreeBlocks(k) : \E i \in 1..n : f[i] = b
  /\ FirstOffset[k] = IF n = 0 THEN 0 ELSE f[1]
  /\ \A i \in 1..n : Desc[f[i]].next = IF i = n THEN 0 ELSE f[i + 1]
Linked(k) == \E n \in 0..PoolSize : \E f \in [1..n -> FreeBlocks(k)] : IsList(k, n, f)
ListsInv == op.at \in CallSteps \cup {"Idle", "Rebuild"} => \A k \in Buckets : Linked(k)

PoolInv == TypeInv /\ TilesInv /\ TailInv /\ ListsInv

-----------------------------------------------------------------------------
(* Blocks and copies.  What becomes of them is promised until a reset      *)
(* falls into a registration, resize or deletion, or one of them finds no  *)
(* block (the registry is then saved too late or not at all); what becomes *)
(* of the pool and of the registry is promised always.                     *)

VARIABLE whole  \* history: no registration, resize or deletion was cut short

CutShort == (Reset /\ op.at \in {"Get", "Create", "Save", "Drop"}) \/ GetBlockFails

WholeInit == Init /\ whole = TRUE

WholeNext == Next /\ whole' = (whole /\ ~CutShort)

WholeSpec == WholeInit /\ [][WholeNext]_<<vars, whole>>

\* Blocks and stores belong together one to one (BlocksOwned), as long as no
\* registration, resize or deletion was cut short, whatever resets fell into
\* boots and copies (CFE_ES_RebuildCDS).
WholeBlocksOwned == whole => BlocksOwned

\* What was copied is what is restored (CopyRecovered), as long as no
\* registration, resize or deletion was cut short (CFE_ES_CDSBlockRead).
WholeCopyRecovered == whole => CopyRecovered

(* Signatures and size are there from the end of the first formatting on;  *)
(* up to then there is no record and no copy.                              *)
Signed == Marks = {"Begin", "Size", "End"}
SignedInv ==
  /\ Signed <=> "Size" \in Marks
  /\ op.at \in CallSteps \cup {"Idle", "Rebuild", "InitRegistry"} => Signed
  /\ op.at \in {"ClearHeader", "ClearPool", "ClearTrailer", "MarkBegin", "MarkEnd", "MarkSize"} => ~Signed
  /\ op.at \in {"MarkEnd", "MarkSize"} => "Begin" \in Marks
  /\ op.at = "MarkSize" => "End" \in Marks
  /\ ~Signed \/ op.at = "InitRegistry" =>
       \A n \in Names : SavedRegistry[n] = NoRec /\ copied[n] = NotCopied

\* The registry that counts: the saved one until a boot has read it
Records == IF op.at \in CallSteps \cup {"Idle", "Rebuild"} THEN Registry ELSE SavedRegistry

(* Each record but that of the call in progress has a block of its own,    *)
(* with its size, and each allocated block a record.                       *)
OwnInv ==
  Signed =>
    /\ \A n \in Names : Records[n].offset # 0 =>
         /\ Records[n].used /\ Records[n].offset \in Described
         /\ Desc[Records[n].offset].allocated
         /\ Desc[Records[n].offset].size = Records[n].size /\ Records[n].size # 0
    /\ \A m, n \in Names : Records[m].offset = Records[n].offset /\ Records[n].offset # 0 => m = n
    /\ \A b \in Described : Desc[b].allocated => \E n \in Names : Records[n].offset = b
    /\ \A n \in Names : Records[n].used /\ Records[n].offset = 0 =>
         op.at \in {"Get", "Create"} /\ n = op.name
    /\ op.at \in {"Get", "Create"} => Records[op.name].offset = 0

(* The header of a store is that of the last copy, and so are the data if  *)
(* the copy was completed.                                                 *)
Restorable(n) ==
  /\ copied[n].done => Copied(n)
  /\ Copied(n) =>
       LET b    == Records[n].offset
           last == [val |-> copied[n].val, size |-> Records[n].size]
       IN  b # 0 /\ Crc[b] = last /\ (copied[n].done => Data[b] = last)
CopyInv ==
  Signed =>
    /\ \A n \in Names : Restorable(n)
    /\ op.at = "CopyData" => /\ Copied(op.name) /\ op.val = copied[op.name].val
                             /\ ~copied[op.name].done

WholeInv == SignedInv /\ (whole => OwnInv /\ CopyInv)

=============================================================================
