------------------------- MODULE BackgroundTaskProofs -------------------------
(***************************************************************************)
(* Proofs about BackgroundTask, for every value of its constants: the      *)
(* ring of file requests, and the dump of the performance log.             *)
(***************************************************************************)
EXTENDS BackgroundTask, FiniteSetTheorems, SequenceTheorems, TLAPS

-----------------------------------------------------------------------------
(* The inductive invariant of FileDump.                                    *)

\* Requests in the ring, and the slot of one of them.
Used     == (RequestCount - CompleteCount) % CountMod
Place(i) == (CompleteCount + i) % Slots

FileType ==
  /\ Entries \in [0..(Slots - 1) -> Metas \cup {NoMeta}]
  /\ RequestCount \in 0..(CountMod - 1) /\ CompleteCount \in 0..(CountMod - 1)
  /\ IsPending \in [Metas -> BOOLEAN]

(* The ring holds objects that are pending, each once, and all of them;    *)
(* one entry stays free.                                                   *)
RingInv ==
  /\ Used <= Slots - 1
  /\ \A i \in 0..(Used - 1) : Entries[Place(i)] \in Metas /\ IsPending[Entries[Place(i)]]
  /\ \A i, j \in 0..(Used - 1) : Entries[Place(i)] = Entries[Place(j)] => i = j
  /\ \A m \in Metas : IsPending[m] => \E i \in 0..(Used - 1) : Entries[Place(i)] = m
FileOpen == Fd => Requested /\ fileOf = Oldest

FileInv == FileType /\ RingInv /\ FileOpen

-----------------------------------------------------------------------------
(* The inductive invariant of PerfLog.                                     *)

States    == {"IDLE", "WAITING", "TRIGGERED"}
DumpNames == {"IDLE", "INIT", "OPEN_FILE", "DELAY", "LOCK_DATA", "WRITE_FS_HDR", "WRITE_PERF_METADATA",
              "WRITE_PERF_ENTRIES", "CLEANUP", "UNLOCK_DATA", "CLOSE_FILE"}

LogType     == [State : States, Mode : Modes, TriggerCount : Nat, DataStart : 0..(BufferSize - 1),
                DataEnd : 0..(BufferSize - 1), DataCount : 0..BufferSize]
DumpType    == [CurrentState : DumpNames, PendingState : DumpNames, StateCounter : Nat,
                DataPos : 0..(BufferSize - 1), FileDesc : BOOLEAN]
FileRec     == [entries : Seq(Nat), ok : BOOLEAN]
CaptureType == [count : Nat, trigger : Nat, stoppedItself : BOOLEAN, cut : BOOLEAN]

PerfType ==
  /\ MetaData \in LogType
  /\ DataBuffer \in [0..(BufferSize - 1) -> Nat]
  /\ adding \in [Tasks -> {"none", "taking", "trigger", "count"}]
  /\ dump \in DumpType /\ file \in FileRec /\ capture \in CaptureType

(* Who adds an entry holds the mutex, and so does the dump while it reads  *)
(* the log.                                                                *)
HoldingStates == {"LOCK_DATA", "WRITE_FS_HDR", "WRITE_PERF_METADATA", "WRITE_PERF_ENTRIES", "CLEANUP"}
Adding(t) == adding[t] \in {"trigger", "count"}
MutexHeld ==
  /\ \A t \in Tasks : Adding(t) => PerfDataMutex = t
  /\ dump.CurrentState \in HoldingStates <=> PerfDataMutex = "dump"

\* Nobody adds to the log before it is started again.
Halted == MetaData.State = "IDLE" /\ \A t \in Tasks : adding[t] = "none"

\* How many entries of the capture are still in the ring.
Kept == IF capture.count < BufferSize THEN capture.count ELSE BufferSize

(* The ring has the last entries of the capture, and its counters say      *)
(* where they are.                                                         *)
RingExact ==
  /\ MetaData.DataCount = Kept
  /\ MetaData.DataStart = IF capture.cut THEN (capture.count - 1) % BufferSize
                          ELSE IF capture.count < BufferSize THEN 0 ELSE capture.count % BufferSize
  /\ MetaData.DataEnd = capture.count % BufferSize \/ Halted
  /\ \A k \in 1..capture.count : k > capture.count - Kept => DataBuffer[(k - 1) % BufferSize] = k
  /\ capture.cut => Halted /\ capture.count > BufferSize

(* The entries after the trigger are counted, until there are enough.      *)
TriggerExact ==
  /\ MetaData.State = "WAITING" => MetaData.TriggerCount = 0 /\ ~capture.stoppedItself
  /\ \A t \in Tasks : adding[t] = "trigger" =>
       /\ MetaData.State # "TRIGGERED" /\ MetaData.TriggerCount = 0
       /\ ~capture.stoppedItself /\ capture.count > 0
  /\ MetaData.State = "TRIGGERED" =>
       /\ ~capture.stoppedItself /\ capture.trigger > 0
       /\ MetaData.TriggerCount < EntriesWanted(MetaData.Mode)
       /\ capture.count + (IF \E t \in Tasks : adding[t] = "count" THEN 0 ELSE 1) =
            capture.trigger + MetaData.TriggerCount
  /\ capture.stoppedItself =>
       /\ MetaData.State = "IDLE" /\ ~capture.cut /\ capture.trigger > 0
       /\ capture.count + 1 = capture.trigger + EntriesWanted(MetaData.Mode)

(* The states of the dump follow each other, but for the ways out of it.   *)
WriteStates == {"WRITE_FS_HDR", "WRITE_PERF_METADATA", "WRITE_PERF_ENTRIES"}
Ordered ==
  /\ \/ dump.PendingState = dump.CurrentState
     \/ dump.PendingState = StateAfter(dump.CurrentState)
     \/ dump.CurrentState = "OPEN_FILE" /\ dump.PendingState = "IDLE"
     \/ dump.CurrentState \in WriteStates /\ dump.PendingState = "CLEANUP" /\ ~file.ok
  /\ dump.StateCounter > 0 => dump.CurrentState \in WriteStates

\* What a whole file has.
Wanted == IF capture.cut THEN <<capture.count>> \o SubSeq(Window, 1, BufferSize - 1) ELSE Window

(* What has been written is the beginning of it.                           *)
Written ==
  /\ dump.CurrentState \in {"OPEN_FILE", "DELAY", "LOCK_DATA", "WRITE_FS_HDR", "WRITE_PERF_METADATA"} =>
       file.entries = <<>>
  /\ dump.CurrentState \in {"WRITE_PERF_ENTRIES", "CLEANUP"} /\ file.ok =>
       /\ Len(file.entries) <= Len(Wanted)
       /\ \A i \in 1..Len(file.entries) : file.entries[i] = Wanted[i]
  /\ dump.CurrentState = "WRITE_PERF_ENTRIES" /\ file.ok =>
       /\ Len(file.entries) + dump.StateCounter = Len(Wanted)
       /\ dump.DataPos = (MetaData.DataStart + Len(file.entries)) % BufferSize
       /\ dump.PendingState = "CLEANUP" => dump.StateCounter = 0
  /\ dump.CurrentState = "CLEANUP" /\ file.ok => Len(file.entries) = Len(Wanted)

PerfInv == PerfType /\ MutexHeld /\ RingExact /\ TriggerExact /\ Ordered /\ Written

-----------------------------------------------------------------------------
(* Rings.                                                                  *)

(* Quotient and remainder.                                                 *)
LEMMA ModDef ==
  ASSUME NEW n \in Nat \ {0}, NEW a \in Nat
  PROVE  a % n \in 0..(n - 1) /\ \E q \in Nat : a = n * q + (a % n)
<1> DEFINE q == a \div n
<1>1. a % n \in 0..(n - 1) /\ q \in Nat /\ a = n * q + (a % n)  OBVIOUS
<1> HIDE DEF q
<1> QED BY <1>1

(* A multiple of n that is less than n away from 0 is 0.                   *)
LEMMA SmallMultiple ==
  ASSUME NEW n \in Nat \ {0}, NEW k \in Int, -n < n * k, n * k < n
  PROVE  k = 0
<1>1. CASE k >= 1
  <2> PICK j \in Nat : k = j + 1  BY <1>1
  <2>1. n * k = n * j + n /\ n * j >= 0  OBVIOUS
  <2> QED BY <2>1
<1>2. CASE k <= -1
  <2> PICK j \in Nat : k = -(j + 1)  BY <1>2
  <2>1. n * k = -(n * j) - n /\ n * j >= 0  OBVIOUS
  <2> QED BY <2>1
<1> QED BY <1>1, <1>2

(* The remainder is the only one.                                          *)
LEMMA ModUnique ==
  ASSUME NEW n \in Nat \ {0}, NEW a \in Int, NEW q \in Int, NEW r \in 0..(n - 1), a = n * q + r
  PROVE  a % n = r
<1> DEFINE p == a \div n
<1>1. p \in Int /\ a = n * p + (a % n) /\ a % n \in 0..(n - 1)  OBVIOUS
<1> HIDE DEF p
<1>2. n * p - n * q = n * (p - q)  BY <1>1
<1>3. n * (p - q) = r - (a % n)  BY <1>1, <1>2
<1>4. p - q = 0  BY <1>1, <1>3, SmallMultiple
<1>5. n * (p - q) = 0  BY <1>4
<1> QED BY <1>1, <1>3, <1>5

LEMMA ModSmall ==
  ASSUME NEW n \in Nat \ {0}, NEW a \in 0..(n - 1)
  PROVE  a % n = a
<1>1. a = n * 0 + a  OBVIOUS
<1> QED BY <1>1, ModUnique

(* Adding a multiple changes nothing, and remainders may be taken first.   *)
LEMMA ModShift ==
  ASSUME NEW n \in Nat \ {0}, NEW a \in Nat, NEW b \in Nat, NEW k \in Int, b = a + n * k
  PROVE  b % n = a % n
<1> PICK q \in Nat : a = n * q + (a % n)  BY ModDef
<1>1. a % n \in 0..(n - 1)  BY ModDef
<1> PICK j \in Int : j = q + k  OBVIOUS
<1>2. n * j = n * q + n * k  OBVIOUS
<1>3. b = n * j + (a % n)  BY <1>1, <1>2
<1>4. b \in Int  OBVIOUS
<1> QED BY <1>1, <1>3, <1>4, ModUnique, Zenon

LEMMA ModFirst ==
  ASSUME NEW n \in Nat \ {0}, NEW a \in Nat, NEW k \in Int, a + k \in Nat, (a % n) + k \in Nat
  PROVE  (a + k) % n = ((a % n) + k) % n
<1> PICK q \in Nat : a = n * q + (a % n)  BY ModDef
<1> DEFINE r == a % n
<1>1. r \in 0..(n - 1)  BY ModDef
<1>2. a = n * q + r /\ r + k \in Nat  OBVIOUS
<1> HIDE DEF r
<1>3. a + k = (r + k) + n * q  BY <1>1, <1>2
<1> PICK x \in Nat, y \in Nat : x = a + k /\ y = r + k  BY <1>2
<1>4. x = y + n * q  BY <1>3
<1>5. q \in Int  OBVIOUS
<1>6. x % n = y % n  BY <1>4, <1>5, ModShift, Zenon
<1> QED BY <1>6 DEF r

LEMMA ModPlus ==
  ASSUME NEW n \in Nat \ {0}, NEW a \in Nat
  PROVE  (a + n) % n = a % n
<1> PICK c \in Nat : c = a + n  OBVIOUS
<1>1. c = a + n * 1 /\ 1 \in Int  OBVIOUS
<1>2. c % n = a % n  BY <1>1, ModShift, Zenon
<1> QED BY <1>2

(* Less than n steps apart is not the same place.                          *)
LEMMA ModApart ==
  ASSUME NEW n \in Nat \ {0}, NEW a \in Nat, NEW b \in Nat, -n < b - a, b - a < n, a % n = b % n
  PROVE  a = b
<1> PICK p \in Nat : a = n * p + (a % n)  BY ModDef
<1> PICK q \in Nat : b = n * q + (b % n)  BY ModDef
<1>1. a % n \in 0..(n - 1)  BY ModDef
<1>2. n * q - n * p = n * (q - p)  OBVIOUS
<1>3. n * (q - p) = b - a  BY <1>1, <1>2
<1>4. q - p = 0  BY <1>3, SmallMultiple
<1>5. n * (q - p) = 0  BY <1>4
<1> QED BY <1>3, <1>5

-----------------------------------------------------------------------------
(* FileDump: the ring of requests.                                         *)

(* How far apart two counts are that come round, and how that changes.     *)
LEMMA Distance ==
  ASSUME NEW r \in 0..(CountMod - 1), NEW c \in 0..(CountMod - 1)
  PROVE  (r - c) % CountMod = IF r >= c THEN r - c ELSE (r - c) + CountMod
<1>1. CountMod \in Nat \ {0}  BY FileAssumption
<1>2. CASE r >= c
  <2>1. r - c = CountMod * 0 + (r - c) /\ r - c \in 0..(CountMod - 1) /\ 0 \in Int /\ r - c \in Int
    BY <1>1, <1>2
  <2>2. (r - c) % CountMod = r - c  BY <1>1, <2>1, ModUnique, Zenon
  <2> QED BY <1>2, <2>2
<1>3. CASE r < c
  <2>1. /\ r - c = CountMod * (-1) + ((r - c) + CountMod) /\ (r - c) + CountMod \in 0..(CountMod - 1)
        /\ -1 \in Int /\ r - c \in Int
    BY <1>1, <1>3
  <2>2. (r - c) % CountMod = (r - c) + CountMod  BY <1>1, <2>1, ModUnique, Zenon
  <2> QED BY <1>3, <2>2
<1> QED BY <1>2, <1>3

LEMMA NextCount ==
  ASSUME NEW r \in 0..(CountMod - 1)
  PROVE  /\ (r + 1) % CountMod = IF r + 1 = CountMod THEN 0 ELSE r + 1
         /\ (r + 1) % CountMod \in 0..(CountMod - 1)
<1>1. CountMod \in Nat \ {0}  BY FileAssumption
<1>2. CASE r + 1 = CountMod
  <2>1. r + 1 = CountMod * 1 + 0 /\ 0 \in 0..(CountMod - 1) /\ 1 \in Int /\ r + 1 \in Int  BY <1>1, <1>2
  <2>2. (r + 1) % CountMod = 0  BY <1>1, <2>1, ModUnique, Zenon
  <2> QED BY <1>1, <1>2, <2>2
<1>3. CASE r + 1 # CountMod
  <2>1. r + 1 \in 0..(CountMod - 1)  BY <1>1, <1>3
  <2>2. (r + 1) % CountMod = r + 1  BY <1>1, <2>1, ModSmall
  <2> QED BY <1>3, <2>1, <2>2
<1> QED BY <1>2, <1>3

LEMMA Advance ==
  ASSUME NEW r \in 0..(CountMod - 1), NEW c \in 0..(CountMod - 1)
  PROVE  /\ (r - c) % CountMod \in 0..(CountMod - 1)
         /\ ((r - c) % CountMod) + 1 < CountMod =>
              (((r + 1) % CountMod) - c) % CountMod = ((r - c) % CountMod) + 1
         /\ r # c => /\ (r - c) % CountMod >= 1
                     /\ (r - ((c + 1) % CountMod)) % CountMod = ((r - c) % CountMod) - 1
<1>1. CountMod \in Nat \ {0}  BY FileAssumption
<1> PICK u \in Int : u = (r - c) % CountMod  BY <1>1
<1>2. u = IF r >= c THEN r - c ELSE (r - c) + CountMod  BY Distance
<1>3. u \in 0..(CountMod - 1)  BY <1>1, <1>2
<1>4. ASSUME u + 1 < CountMod PROVE (((r + 1) % CountMod) - c) % CountMod = u + 1
  <2> PICK s \in 0..(CountMod - 1) : s = (r + 1) % CountMod  BY NextCount
  <2>1. s = IF r + 1 = CountMod THEN 0 ELSE r + 1  BY NextCount
  <2>2. (s - c) % CountMod = IF s >= c THEN s - c ELSE (s - c) + CountMod  BY Distance
  <2> QED BY <1>1, <1>2, <1>4, <2>1, <2>2
<1>5. ASSUME r # c PROVE u >= 1 /\ (r - ((c + 1) % CountMod)) % CountMod = u - 1
  <2> PICK d \in 0..(CountMod - 1) : d = (c + 1) % CountMod  BY NextCount
  <2>1. d = IF c + 1 = CountMod THEN 0 ELSE c + 1  BY NextCount
  <2>2. (r - d) % CountMod = IF r >= d THEN r - d ELSE (r - d) + CountMod  BY Distance
  <2> QED BY <1>1, <1>2, <1>5, <2>1, <2>2
<1> QED BY <1>3, <1>4, <1>5

(* The counts come round together with the slots.                          *)
LEMMA Rounds == \E w \in Nat : CountMod = Slots * w
<1>1. Slots \in Nat \ {0} /\ CountMod \in Nat /\ CountMod % Slots = 0  BY FileAssumption
<1> PICK q \in Nat : CountMod = Slots * q + (CountMod % Slots)  BY <1>1, ModDef
<1> PICK x \in Nat : x = Slots * q  BY <1>1
<1>2. CountMod = x  BY <1>1
<1> QED BY <1>2

(* The slot of the next request is the one after those in the ring.        *)
LEMMA NextRequest ==
  ASSUME NEW r \in 0..(CountMod - 1), NEW c \in 0..(CountMod - 1)
  PROVE  r % Slots = (c + ((r - c) % CountMod)) % Slots
<1>1. Slots \in Nat \ {0} /\ CountMod \in Nat \ {0}  BY FileAssumption
<1> PICK u \in Int : u = (r - c) % CountMod  BY <1>1
<1>2. u = IF r >= c THEN r - c ELSE (r - c) + CountMod  BY Distance
<1>3. CASE r >= c
  <2>1. c + u = r  BY <1>1, <1>2, <1>3
  <2>2. c + ((r - c) % CountMod) = r  BY <2>1, Zenon
  <2> QED BY <2>2, Zenon
<1>4. CASE r < c
  <2> PICK w \in Nat : CountMod = Slots * w  BY Rounds
  <2>a. c + u = r + CountMod  BY <1>1, <1>2, <1>4
  <2> PICK x \in Nat : x = c + u  BY <1>1, <2>a
  <2>1. x = r + Slots * w /\ r \in Nat /\ w \in Int  BY <1>1, <2>a
  <2>2. x % Slots = r % Slots  BY <1>1, <2>1, ModShift, Zenon
  <2> QED BY <2>2
<1> QED BY <1>3, <1>4

(* The ring seen from the next request on.                                 *)
LEMMA NextPlace ==
  ASSUME NEW c \in 0..(CountMod - 1), NEW i \in Nat
  PROVE  (((c + 1) % CountMod) + i) % Slots = (c + (i + 1)) % Slots
<1>1. Slots \in Nat \ {0} /\ CountMod \in Nat \ {0}  BY FileAssumption
<1> PICK d \in 0..(CountMod - 1) : d = (c + 1) % CountMod  BY NextCount
<1>2. d = IF c + 1 = CountMod THEN 0 ELSE c + 1  BY NextCount
<1>3. CASE c + 1 # CountMod
  <2>1. d + i = c + (i + 1)  BY <1>2, <1>3
  <2> QED BY <2>1
<1>4. CASE c + 1 = CountMod
  <2> PICK w \in Nat : CountMod = Slots * w  BY Rounds
  <2> PICK x \in Nat : x = c + (i + 1)  OBVIOUS
  <2>1. x = (d + i) + Slots * w /\ d + i \in Nat /\ w \in Int  BY <1>1, <1>2, <1>4
  <2>2. x % Slots = (d + i) % Slots  BY <1>1, <2>1, ModShift, Zenon
  <2> QED BY <2>2
<1> QED BY <1>3, <1>4

(* The requests in the ring are in slots of their own.                     *)
LEMMA PlacesApart ==
  ASSUME NEW c \in Nat
  PROVE  /\ \A i \in Nat : (c + i) % Slots \in 0..(Slots - 1)
         /\ \A i, j \in 0..(Slots - 1) : (c + i) % Slots = (c + j) % Slots => i = j
<1>1. Slots \in Nat \ {0}  BY FileAssumption
<1>2. ASSUME NEW i \in 0..(Slots - 1), NEW j \in 0..(Slots - 1), (c + i) % Slots = (c + j) % Slots
      PROVE  i = j
  <2> PICK x \in Nat, y \in Nat : x = c + i /\ y = c + j  BY <1>1
  <2>1. -Slots < y - x /\ y - x < Slots /\ x % Slots = y % Slots  BY <1>1, <1>2
  <2>2. x = y  BY <1>1, <2>1, ModApart, Zenon
  <2> QED BY <2>2
<1>3. \A i \in Nat : (c + i) % Slots \in 0..(Slots - 1)
  <2> TAKE i \in Nat
  <2> PICK x \in Nat : x = c + i  OBVIOUS
  <2> QED BY <1>1, ModDef
<1> QED BY <1>2, <1>3

(* There is room for a request that is taken.                              *)
LEMMA Room ==
  ASSUME FileType, Used <= Slots - 1, ~QueueFull
  PROVE  Used + 1 <= Slots - 1
<1>1. /\ Slots \in Nat \ {0, 1} /\ CountMod \in Nat \ {0} /\ Slots < CountMod
      /\ RequestCount \in 0..(CountMod - 1) /\ CompleteCount \in 0..(CountMod - 1)
  BY FileAssumption DEF FileType
<1> PICK u \in Int : u = Used  BY <1>1 DEF Used
<1>2. u = IF RequestCount >= CompleteCount THEN RequestCount - CompleteCount
          ELSE (RequestCount - CompleteCount) + CountMod
  BY <1>1, Distance DEF Used
<1>3. ASSUME u = Slots - 1 PROVE FALSE
  <2>1. CASE RequestCount >= CompleteCount
    <3>1. RequestCount + 1 = CompleteCount + Slots  BY <1>1, <1>2, <1>3, <2>1
    <3> QED BY <3>1 DEF QueueFull
  <2>2. CASE RequestCount < CompleteCount
    <3> PICK x \in Nat, y \in Nat : x = RequestCount + 1 /\ y = CompleteCount + Slots  BY <1>1
    <3>1. y = x + CountMod * 1 /\ 1 \in Int  BY <1>1, <1>2, <1>3, <2>2
    <3>2. y % CountMod = x % CountMod  BY <1>1, <3>1, ModShift, Zenon
    <3> QED BY <3>2 DEF QueueFull
  <2> QED BY <1>1, <2>1, <2>2
<1> QED BY <1>1, <1>3

(* The same of the ring as it is.                                          *)
LEMMA PlaceFacts ==
  ASSUME FileType
  PROVE  /\ \A i \in Nat : Place(i) \in 0..(Slots - 1)
         /\ \A i, j \in 0..(Slots - 1) : Place(i) = Place(j) => i = j
         /\ RequestCount % Slots = Place(Used)
         /\ Place(0) = CompleteCount % Slots
<1>1. /\ RequestCount \in 0..(CountMod - 1) /\ CompleteCount \in 0..(CountMod - 1)
      /\ CompleteCount \in Nat /\ CompleteCount + 0 = CompleteCount
  BY FileAssumption DEF FileType
<1>2. RequestCount % Slots = Place(Used)  BY <1>1, NextRequest, Zenon DEF Used, Place
<1>3. /\ \A i \in Nat : Place(i) \in 0..(Slots - 1)
      /\ \A i, j \in 0..(Slots - 1) : Place(i) = Place(j) => i = j
  BY <1>1, PlacesApart, Zenon DEF Place
<1> QED BY <1>1, <1>2, <1>3 DEF Place

FileStep ==
  \/ \E m \in Metas : BackgroundFileDumpRequest(m)
  \/ OpenFile
  \/ Requested /\ Complete
  \/ FileReset

(* A request goes behind the others.                                       *)
LEMMA RequestKeeps ==
  ASSUME FileInv, NEW m \in Metas, BackgroundFileDumpRequest(m)
  PROVE  FileInv'
<1>1. /\ Slots \in Nat \ {0, 1} /\ CountMod \in Nat \ {0} /\ Slots < CountMod
      /\ RequestCount \in 0..(CountMod - 1) /\ CompleteCount \in 0..(CountMod - 1) /\ CompleteCount \in Nat
      /\ Entries \in [0..(Slots - 1) -> Metas \cup {NoMeta}] /\ IsPending \in [Metas -> BOOLEAN]
  BY FileAssumption DEF FileInv, FileType
<1> PICK s : s = RequestCount % Slots  OBVIOUS
<1>2. /\ Entries' = [Entries EXCEPT ![s] = m] /\ IsPending' = [IsPending EXCEPT ![m] = TRUE]
      /\ RequestCount' = (RequestCount + 1) % CountMod
      /\ ~IsPending[m] /\ UNCHANGED <<CompleteCount, Fd, fileOf>>
  BY DEF BackgroundFileDumpRequest
<1>3. Used \in 0..(Slots - 1) /\ Used + 1 <= Slots - 1 /\ Used' = Used + 1
  <2>1. Used \in 0..(CountMod - 1)  BY <1>1, Advance DEF Used
  <2>2. Used + 1 <= Slots - 1  BY <1>1, Room DEF FileInv, RingInv, BackgroundFileDumpRequest
  <2>3. Used + 1 < CountMod  BY <1>1, <2>1, <2>2
  <2>4. Used' = Used + 1  BY <1>1, <1>2, <2>3, Advance DEF Used
  <2> QED BY <1>1, <2>1, <2>2, <2>4
<1> PICK u \in 0..(Slots - 2) : u = Used  BY <1>1, <1>3
<1>4. s = Place(u)  BY PlaceFacts DEF FileInv
<1>5. /\ \A i \in 0..u : Place(i)' = Place(i) /\ Place(i) \in 0..(Slots - 1)
      /\ \A i \in 0..(u - 1) : Place(i) # s
  <2>1. \A i \in 0..u : i \in Nat /\ i \in 0..(Slots - 1)  BY <1>1
  <2>2. \A i \in 0..(u - 1) : i \in 0..u /\ i # u /\ u \in 0..u  BY <1>1
  <2>3. \A i \in 0..u : Place(i)' = Place(i)  BY <1>2 DEF Place
  <2> QED BY <1>4, <2>1, <2>2, <2>3, PlaceFacts DEF FileInv
<1>6. /\ \A i \in 0..(u - 1) : Entries'[Place(i)'] = Entries[Place(i)]
      /\ Entries'[Place(u)'] = m
  BY <1>1, <1>2, <1>4, <1>5
<1>7. /\ \A i \in 0..(u - 1) : Entries[Place(i)] \in Metas /\ IsPending[Entries[Place(i)]]
      /\ \A i, j \in 0..(u - 1) : Entries[Place(i)] = Entries[Place(j)] => i = j
      /\ \A n \in Metas : IsPending[n] => \E i \in 0..(u - 1) : Entries[Place(i)] = n
  BY DEF FileInv, RingInv
<1>8. Used' - 1 = u /\ Used' <= Slots - 1  BY <1>1, <1>3
<1>9. FileType'
  BY <1>1, <1>2, NextCount DEF FileType
<1>10. RingInv'
  <2>1. \A i \in 0..u : i \in 0..(u - 1) \/ i = u  BY <1>1
  <2>2. \A i \in 0..u : Entries'[Place(i)'] \in Metas /\ IsPending'[Entries'[Place(i)']]
    BY <1>1, <1>2, <1>6, <1>7, <2>1
  <2>3. \A i, j \in 0..u : Entries'[Place(i)'] = Entries'[Place(j)'] => i = j
    BY <1>2, <1>6, <1>7, <2>1
  <2>4. ASSUME NEW n \in Metas, IsPending'[n] PROVE \E i \in 0..u : Entries'[Place(i)'] = n
    <3>1. CASE n = m  BY <1>1, <1>6, <3>1
    <3>2. CASE n # m
      <4>1. IsPending[n]  BY <1>1, <1>2, <2>4, <3>2
      <4>2. PICK i \in 0..(u - 1) : Entries[Place(i)] = n  BY <1>7, <4>1
      <4> QED BY <1>1, <1>6, <4>2
    <3> QED BY <3>1, <3>2
  <2> QED BY <1>8, <2>2, <2>3, <2>4 DEF RingInv
<1>11. FileOpen'
  <2> SUFFICES ASSUME Fd' PROVE Requested' /\ fileOf' = Oldest'  BY DEF FileOpen
  <2>1. Requested /\ fileOf = Oldest  BY <1>2 DEF FileInv, FileOpen
  <2>2. u >= 1 /\ Requested'
    <3>1. u >= 1  BY <1>1, <2>1, Advance DEF Requested, Used
    <3>2. RequestCount' # CompleteCount'
      <4> SUFFICES ASSUME RequestCount' = CompleteCount' PROVE FALSE  OBVIOUS
      <4>1. Used' = 0  BY <1>1, <1>2, Distance DEF Used
      <4> QED BY <1>1, <1>3, <4>1
    <3> QED BY <3>1, <3>2 DEF Requested
  <2>3. Place(0) = CompleteCount % Slots  BY <1>1 DEF Place
  <2>4. Oldest = Entries[Place(0)] /\ Oldest' = Entries'[Place(0)]  BY <1>2, <2>3 DEF Oldest
  <2>5. 0 \in 0..(u - 1)  BY <2>2
  <2> QED BY <1>2, <1>5, <1>6, <2>1, <2>2, <2>4, <2>5
<1> QED BY <1>9, <1>10, <1>11 DEF FileInv

(* The oldest request leaves, and the others move up.                      *)
LEMMA CompleteKeeps ==
  ASSUME FileInv, Requested, Complete
  PROVE  FileInv'
<1>1. /\ Slots \in Nat \ {0, 1} /\ CountMod \in Nat \ {0} /\ Slots < CountMod
      /\ RequestCount \in 0..(CountMod - 1) /\ CompleteCount \in 0..(CountMod - 1) /\ CompleteCount \in Nat
      /\ Entries \in [0..(Slots - 1) -> Metas \cup {NoMeta}] /\ IsPending \in [Metas -> BOOLEAN]
  BY FileAssumption DEF FileInv, FileType
<1> PICK s : s = CompleteCount % Slots  OBVIOUS
<1> PICK old : old = Oldest  OBVIOUS
<1>2. /\ Entries' = [Entries EXCEPT ![s] = NoMeta] /\ IsPending' = [IsPending EXCEPT ![old] = FALSE]
      /\ CompleteCount' = (CompleteCount + 1) % CountMod /\ RequestCount' = RequestCount
      /\ Fd' = FALSE
  BY DEF Complete
<1>3. Used \in 1..(Slots - 1) /\ Used' = Used - 1
  <2>1. Used \in 0..(CountMod - 1) /\ Used >= 1  BY <1>1, Advance DEF Used, Requested
  <2>2. (RequestCount - ((CompleteCount + 1) % CountMod)) % CountMod = Used - 1
    BY <1>1, Advance DEF Used, Requested
  <2>3. Used' = Used - 1  BY <1>2, <2>2 DEF Used
  <2> QED BY <1>1, <2>1, <2>3 DEF FileInv, RingInv
<1> PICK u \in 0..(Slots - 2) : u + 1 = Used
  <2>1. Used - 1 \in 0..(Slots - 2) /\ (Used - 1) + 1 = Used  BY <1>1, <1>3
  <2> QED BY <2>1
<1>4. s = Place(0) /\ old = Entries[Place(0)]  BY <1>1 DEF Place, Oldest
<1>5. /\ \A i \in 0..u : Place(i) \in 0..(Slots - 1)
      /\ \A i \in 0..(u - 1) : Place(i)' = Place(i + 1) /\ Place(i + 1) # s
  <2>1. \A i \in 0..(u - 1) : Place(i)' = Place(i + 1)  BY <1>1, <1>2, NextPlace DEF Place
  <2>2. \A i \in 0..u : Place(i) \in 0..(Slots - 1)
    <3>1. \A i \in 0..u : i \in Nat  BY <1>1
    <3> QED BY <3>1, PlaceFacts DEF FileInv
  <2>3. \A i \in 0..(u - 1) : Place(i + 1) # s
    <3> TAKE i \in 0..(u - 1)
    <3>1. i + 1 \in 0..(Slots - 1) /\ 0 \in 0..(Slots - 1) /\ i + 1 # 0  BY <1>1
    <3> QED BY <1>4, <3>1, PlaceFacts DEF FileInv
  <2> QED BY <2>1, <2>2, <2>3
<1>6. \A i \in 0..(u - 1) : Entries'[Place(i)'] = Entries[Place(i + 1)]
  <2> TAKE i \in 0..(u - 1)
  <2>1. Place(i + 1) \in 0..(Slots - 1) /\ Place(i + 1) # s /\ Place(i)' = Place(i + 1)
    <3>1. i + 1 \in 0..u  BY <1>1
    <3> QED BY <1>5, <3>1
  <2> QED BY <1>1, <1>2, <2>1
<1>7. /\ \A i \in 0..u : Entries[Place(i)] \in Metas /\ IsPending[Entries[Place(i)]]
      /\ \A i, j \in 0..u : Entries[Place(i)] = Entries[Place(j)] => i = j
      /\ \A n \in Metas : IsPending[n] => \E i \in 0..u : Entries[Place(i)] = n
  <2>1. Used - 1 = u  BY <1>1
  <2> QED BY <2>1 DEF FileInv, RingInv
<1>8. Used' - 1 = u - 1 /\ Used' <= Slots - 1  BY <1>1, <1>3
<1>9. FileType'
  BY <1>1, <1>2, NextCount DEF FileType
<1>10. RingInv'
  <2>1. \A i \in 0..(u - 1) : i + 1 \in 0..u /\ i + 1 # 0 /\ 0 \in 0..u  BY <1>1
  <2>2. \A i \in 0..(u - 1) : Entries'[Place(i)'] \in Metas /\ IsPending'[Entries'[Place(i)']]
    <3> TAKE i \in 0..(u - 1)
    <3>1. Entries'[Place(i)'] \in Metas /\ Entries'[Place(i)'] # old /\ IsPending[Entries'[Place(i)']]
      BY <1>4, <1>6, <1>7, <2>1
    <3> QED BY <1>1, <1>2, <3>1
  <2>3. \A i, j \in 0..(u - 1) : Entries'[Place(i)'] = Entries'[Place(j)'] => i = j
    <3> TAKE i, j \in 0..(u - 1)
    <3>1. Entries'[Place(i)'] = Entries'[Place(j)'] => i + 1 = j + 1  BY <1>6, <1>7, <2>1
    <3> QED BY <3>1
  <2>4. ASSUME NEW n \in Metas, IsPending'[n] PROVE \E i \in 0..(u - 1) : Entries'[Place(i)'] = n
    <3>1. old \in Metas /\ n # old /\ IsPending[n]  BY <1>1, <1>2, <1>4, <1>7, <2>4
    <3>2. PICK i \in 0..u : Entries[Place(i)] = n  BY <1>7, <3>1
    <3>3. i # 0  BY <1>4, <3>1, <3>2
    <3> PICK j \in 0..(u - 1) : j + 1 = i
      <4>1. i - 1 \in 0..(u - 1) /\ (i - 1) + 1 = i  BY <3>3
      <4> QED BY <4>1
    <3> QED BY <1>6, <3>2
  <2> QED BY <1>8, <2>2, <2>3, <2>4 DEF RingInv
<1>11. FileOpen'  BY <1>2 DEF FileOpen
<1> QED BY <1>9, <1>10, <1>11 DEF FileInv

(* The empty ring, at the start and after a reset.                         *)
LEMMA EmptyRing == FileInit => FileInv
<1> SUFFICES ASSUME FileInit PROVE FileInv  OBVIOUS
<1>1. Slots \in Nat \ {0, 1} /\ CountMod \in Nat \ {0}  BY FileAssumption
<1>2. RequestCount = 0 /\ CompleteCount = 0 /\ 0 \in 0..(CountMod - 1)  BY <1>1 DEF FileInit
<1>3. Used = 0
  <2>1. (0 - 0) % CountMod = 0 - 0  BY <1>2, Distance
  <2> QED BY <1>2, <2>1 DEF Used
<1>4. FileType  BY <1>1, <1>2 DEF FileInit, FileType
<1>5. RingInv
  <2>1. 0..(Used - 1) = {}  BY <1>3
  <2>2. Used <= Slots - 1  BY <1>1, <1>3
  <2>3. \A m \in Metas : ~IsPending[m]  BY DEF FileInit
  <2> QED BY <2>1, <2>2, <2>3 DEF RingInv
<1>6. FileOpen  BY DEF FileInit, FileOpen
<1> QED BY <1>4, <1>5, <1>6 DEF FileInv

LEMMA EmptiedRing == FileInit' => FileInv'
BY EmptyRing, PTL

LEMMA FileInvInit == Init => FileInv
BY EmptyRing DEF Init

LEMMA FileInvStep == FileInv /\ [Next]_vars => FileInv'
<1> SUFFICES ASSUME FileInv, [Next]_vars PROVE FileInv'  OBVIOUS
<1>1. CASE UNCHANGED fileVars
  BY <1>1 DEF fileVars, FileInv, FileType, RingInv, FileOpen, Used, Place, Requested, Oldest
<1>2. CASE \E m \in Metas : BackgroundFileDumpRequest(m)  BY <1>2, RequestKeeps
<1>3. CASE OpenFile
  BY <1>3 DEF OpenFile, queueVars, FileInv, FileType, RingInv, FileOpen, Used, Place, Requested, Oldest
<1>4. CASE Requested /\ Complete  BY <1>4, CompleteKeeps
<1>5. CASE FileReset
  <2>1. FileInit'  BY <1>5 DEF FileReset, FileInit
  <2> QED BY <2>1, EmptiedRing
<1> QED
  BY <1>1, <1>2, <1>3, <1>4, <1>5 DEF Next, vars, fileVars, RunPerfLogDump, LeavePerfLogDump, RunFileDump,
     LeaveFileDump, SkipFile, EndFile, OutOfCredit, NothingToDo, Command, AddEntry, FinishEntry,
     RequestFile, ProcessorReset

(* An object is pending exactly if it waits in the ring, once, and the     *)
(* open file is that of the oldest request, whatever the counts are when   *)
(* they come round (CFE_FS_BackgroundFileDumpRequest and                   *)
(* CFE_FS_RunBackgroundFileDump).                                          *)
THEOREM RequestsHold == Spec => []PendingExact
<1>1. ASSUME FileInv PROVE PendingExact
  <2>1. Slots \in Nat \ {0, 1} /\ CountMod \in Nat \ {0}
        /\ RequestCount \in 0..(CountMod - 1) /\ CompleteCount \in 0..(CountMod - 1)
    BY <1>1, FileAssumption DEF FileInv, FileType
  <2>2. Used \in 0..(Slots - 1)
    BY <1>1, <2>1, Advance DEF FileInv, RingInv, Used
  <2>3. Waiting = 0..(Used - 1)  BY <2>1, <2>2 DEF Waiting, Used
  <2>4. ASSUME NEW m \in Metas
        PROVE  Cardinality(PlacesOf(m)) = IF IsPending[m] THEN 1 ELSE 0
    <3>1. CASE IsPending[m]
      <4>1. PICK i \in 0..(Used - 1) : Entries[Place(i)] = m  BY <1>1, <3>1 DEF FileInv, RingInv
      <4>2. PlacesOf(m) = {i}  BY <1>1, <2>3, <4>1 DEF FileInv, RingInv, PlacesOf, Place
      <4>3. Cardinality({i}) = 1  BY FS_Singleton
      <4> QED BY <3>1, <4>2, <4>3
    <3>2. CASE ~IsPending[m]
      <4>1. PlacesOf(m) = {}  BY <1>1, <2>3, <3>2 DEF FileInv, RingInv, PlacesOf, Place
      <4> QED BY <3>2, <4>1, FS_EmptySet
    <3> QED BY <3>1, <3>2
  <2> QED BY <1>1, <2>4 DEF PendingExact, FileInv, FileOpen
<1> QED BY FileInvInit, FileInvStep, <1>1, PTL DEF Spec

-----------------------------------------------------------------------------
(* PerfLog: types, and the order of the states of the dump.                *)

(* The steps that change the log.                                          *)
PerfStep ==
  \/ \E mode \in Modes : StartPerfDataCmd(mode)
  \/ \E named \in BOOLEAN : StopPerfDataCmd(named)
  \/ \E t \in Tasks : \/ PerfLogAdd(t)
                      \/ \E isTrigger \in BOOLEAN : Record(t, isTrigger)
                      \/ RecordNothing(t)
                      \/ StoreTriggered(t)
                      \/ CountEntry(t)
  \/ DumpStep
  \/ PerfReset
  \/ PerfResetInRecord
  \/ UNCHANGED perfVars

LEMMA PerfSteps == [Next]_vars => PerfStep
BY DEF Next, vars, perfVars, PerfStep, RunPerfLogDump, LeavePerfLogDump, RunFileDump,
       LeaveFileDump, Command, AddEntry, FinishEntry, RequestFile, ProcessorReset

(* The states in order.                                                    *)
LEMMA StateAfterAt ==
  ASSUME NEW i \in 1..11
  PROVE  StateAfter(DumpStates[i]) = IF i = 11 THEN "IDLE" ELSE DumpStates[i + 1]
<1>1. DOMAIN DumpStates = 1..11 /\ Len(DumpStates) = 11  BY DEF DumpStates
<1>2. \A j, k \in 1..11 : DumpStates[j] = DumpStates[k] => j = k  BY DEF DumpStates
<1>3. (CHOOSE j \in DOMAIN DumpStates : DumpStates[j] = DumpStates[i]) = i  BY <1>1, <1>2
<1> QED BY <1>1, <1>3 DEF StateAfter

LEMMA StateAfterIs ==
  /\ StateAfter("IDLE") = "INIT" /\ StateAfter("INIT") = "OPEN_FILE" /\ StateAfter("OPEN_FILE") = "DELAY"
  /\ StateAfter("DELAY") = "LOCK_DATA" /\ StateAfter("LOCK_DATA") = "WRITE_FS_HDR"
  /\ StateAfter("WRITE_FS_HDR") = "WRITE_PERF_METADATA"
  /\ StateAfter("WRITE_PERF_METADATA") = "WRITE_PERF_ENTRIES"
  /\ StateAfter("WRITE_PERF_ENTRIES") = "CLEANUP" /\ StateAfter("CLEANUP") = "UNLOCK_DATA"
  /\ StateAfter("UNLOCK_DATA") = "CLOSE_FILE" /\ StateAfter("CLOSE_FILE") = "IDLE"
<1>1. /\ DumpStates[1] = "IDLE" /\ DumpStates[2] = "INIT" /\ DumpStates[3] = "OPEN_FILE"
      /\ DumpStates[4] = "DELAY" /\ DumpStates[5] = "LOCK_DATA" /\ DumpStates[6] = "WRITE_FS_HDR"
      /\ DumpStates[7] = "WRITE_PERF_METADATA" /\ DumpStates[8] = "WRITE_PERF_ENTRIES"
      /\ DumpStates[9] = "CLEANUP" /\ DumpStates[10] = "UNLOCK_DATA" /\ DumpStates[11] = "CLOSE_FILE"
  BY DEF DumpStates
<1>2. \A i \in 1..10 : StateAfter(DumpStates[i]) = DumpStates[i + 1]  BY StateAfterAt
<1>3. StateAfter(DumpStates[11]) = "IDLE"  BY StateAfterAt
<1>4. StateAfter("IDLE") = "INIT" /\ StateAfter("INIT") = "OPEN_FILE" /\ StateAfter("OPEN_FILE") = "DELAY"
  BY <1>1, <1>2
<1>5. /\ StateAfter("DELAY") = "LOCK_DATA" /\ StateAfter("LOCK_DATA") = "WRITE_FS_HDR"
      /\ StateAfter("WRITE_FS_HDR") = "WRITE_PERF_METADATA"
  BY <1>1, <1>2
<1>6. /\ StateAfter("WRITE_PERF_METADATA") = "WRITE_PERF_ENTRIES"
      /\ StateAfter("WRITE_PERF_ENTRIES") = "CLEANUP"
  BY <1>1, <1>2
<1>7. StateAfter("CLEANUP") = "UNLOCK_DATA" /\ StateAfter("UNLOCK_DATA") = "CLOSE_FILE"
  BY <1>1, <1>2
<1> QED BY <1>1, <1>3, <1>4, <1>5, <1>6, <1>7

LEMMA StateAfterType == \A s \in DumpNames : StateAfter(s) \in DumpNames
BY StateAfterIs DEF DumpNames

(* Where an iteration of the dump begins.                                  *)
LEMMA EnteredIs ==
  ASSUME PerfType
  PROVE  /\ Entered \in DumpType
         /\ Entered.CurrentState = dump.PendingState /\ Entered.PendingState = dump.PendingState
         /\ Entered.FileDesc = dump.FileDesc
         /\ dump.PendingState = dump.CurrentState => Entered = dump
         /\ dump.PendingState # dump.CurrentState =>
              /\ Entered.StateCounter = Blocks(dump.PendingState)
              /\ Entered.DataPos = IF dump.PendingState = "WRITE_PERF_ENTRIES" THEN MetaData.DataStart
                                   ELSE dump.DataPos
<1>1. dump \in DumpType /\ MetaData.DataStart \in 0..(BufferSize - 1) /\ MetaData.DataCount \in Nat
  BY PerfAssumption DEF PerfType, LogType
<1>2. Blocks(dump.PendingState) \in Nat  BY <1>1 DEF Blocks
<1> PICK n \in Nat : n = Blocks(dump.PendingState)  BY <1>2
<1> PICK p \in 0..(BufferSize - 1) : p = IF dump.PendingState = "WRITE_PERF_ENTRIES" THEN MetaData.DataStart
                                         ELSE dump.DataPos
  BY <1>1 DEF DumpType
<1>3. Entered = IF dump.PendingState = dump.CurrentState THEN dump
                ELSE [dump EXCEPT !.CurrentState = dump.PendingState, !.StateCounter = n, !.DataPos = p]
  BY DEF Entered
<1> QED BY <1>1, <1>3 DEF DumpType

(* Ring positions.                                                         *)
LEMMA RingPositions ==
  /\ BufferSize \in Nat \ {0} /\ \A i \in Int : i % BufferSize \in 0..(BufferSize - 1)
  /\ \A i \in 0..(BufferSize - 1) : NextSlot(i) \in 0..(BufferSize - 1)
BY PerfAssumption DEF NextSlot

LEMMA WantedType == \A mode \in Modes : EntriesWanted(mode) \in 1..BufferSize
<1>1. BufferSize \in Nat \ {0, 1} /\ BufferSize \div 2 \in 1..BufferSize  BY PerfAssumption
<1> PICK h \in 1..BufferSize : h = BufferSize \div 2  BY <1>1
<1>2. 1 \in 1..BufferSize /\ BufferSize \in 1..BufferSize  BY <1>1
<1>3. /\ EntriesWanted("START") = BufferSize /\ EntriesWanted("CENTER") = h /\ EntriesWanted("END") = 1
  BY DEF EntriesWanted
<1> QED BY <1>2, <1>3 DEF Modes

LEMMA PerfTypeInit == Init => PerfType
<1>1. <<>> \in Seq(Nat) /\ 0 \in 0..(BufferSize - 1) /\ 0 \in 0..BufferSize  BY RingPositions
<1> QED BY <1>1 DEF Init, PerfInit, PerfType, EmptyLog, LogType, States, Modes, IdleDump, DumpType, DumpNames,
     NoFile, FileRec, EmptyCapture, CaptureType

LEMMA PerfTypeStep == PerfType /\ PerfStep => PerfType'
<1> SUFFICES ASSUME PerfType, PerfStep PROVE PerfType'  OBVIOUS
<1>a. /\ MetaData \in LogType /\ DataBuffer \in [0..(BufferSize - 1) -> Nat]
      /\ adding \in [Tasks -> {"none", "taking", "trigger", "count"}]
      /\ dump \in DumpType /\ file \in FileRec /\ capture \in CaptureType
  BY DEF PerfType
<1>b. /\ 0 \in 0..(BufferSize - 1) /\ 0 \in 0..BufferSize /\ BufferSize \in Nat \ {0}
      /\ IdleDump \in DumpType /\ NoFile \in FileRec /\ EmptyCapture \in CaptureType
      /\ \A ok \in BOOLEAN : [NoFile EXCEPT !.ok = ok] \in FileRec
      /\ DOMAIN DataBuffer = 0..(BufferSize - 1)
  <2>1. 0 \in 0..(BufferSize - 1) /\ 0 \in 0..BufferSize /\ BufferSize \in Nat \ {0}  BY RingPositions
  <2>2. IdleDump \in DumpType  BY <2>1 DEF IdleDump, DumpType, DumpNames
  <2>3. <<>> \in Seq(Nat)  OBVIOUS
  <2>4. NoFile \in FileRec /\ \A ok \in BOOLEAN : [NoFile EXCEPT !.ok = ok] \in FileRec
    BY <2>3 DEF NoFile, FileRec
  <2>5. EmptyCapture \in CaptureType  BY DEF EmptyCapture, CaptureType
  <2>6. DOMAIN DataBuffer = 0..(BufferSize - 1)  BY <1>a
  <2> QED BY <2>1, <2>2, <2>4, <2>5, <2>6
<1>1. ASSUME NEW mode \in Modes, StartPerfDataCmd(mode) PROVE PerfType'
  BY <1>1, <1>a, <1>b DEF StartPerfDataCmd, EmptyLog, LogType, States, PerfType, dumpVars
<1>2. ASSUME NEW named \in BOOLEAN, StopPerfDataCmd(named) PROVE PerfType'
  BY <1>2, <1>a, <1>b DEF StopPerfDataCmd, LogType, States, PerfType, DumpType, DumpNames
<1>3. ASSUME NEW t \in Tasks, PerfLogAdd(t) PROVE PerfType'
  BY <1>3, <1>a DEF PerfLogAdd, PerfType, logVars, dumpVars
<1>4. ASSUME NEW t \in Tasks, NEW isTrigger \in BOOLEAN, Record(t, isTrigger) PROVE PerfType'
  <2>1. MetaData' \in LogType
    <3>1. NextSlot(MetaData.DataEnd) \in 0..(BufferSize - 1)  BY <1>a, RingPositions DEF LogType
    <3> PICK end \in 0..(BufferSize - 1) : end = NextSlot(MetaData.DataEnd)  BY <3>1
    <3>2. MetaData' = IF MetaData.DataCount < BufferSize
                      THEN [MetaData EXCEPT !.DataEnd = end, !.DataCount = @ + 1]
                      ELSE [MetaData EXCEPT !.DataEnd = end, !.DataStart = end]
      BY <1>4 DEF Record, Added
    <3>3. MetaData.DataCount < BufferSize => MetaData.DataCount + 1 \in 0..BufferSize
      BY <1>a, <1>b DEF LogType
    <3>4. CASE MetaData.DataCount < BufferSize
      <4> PICK n \in 0..BufferSize : n = MetaData.DataCount + 1  BY <3>3, <3>4
      <4>1. MetaData' = [MetaData EXCEPT !.DataEnd = end, !.DataCount = n]  BY <3>2, <3>4
      <4> QED BY <1>a, <4>1 DEF LogType
    <3>5. CASE ~(MetaData.DataCount < BufferSize)
      <4>1. MetaData' = [MetaData EXCEPT !.DataEnd = end, !.DataStart = end]  BY <3>2, <3>5
      <4> QED BY <1>a, <4>1 DEF LogType
    <3> QED BY <3>4, <3>5
  <2>2. DataBuffer' \in [0..(BufferSize - 1) -> Nat] /\ capture' \in CaptureType
    BY <1>4, <1>a DEF Record, LogType, CaptureType
  <2> QED BY <1>4, <1>a, <2>1, <2>2 DEF Record, PerfType, dumpVars
<1>5. ASSUME NEW t \in Tasks, RecordNothing(t) PROVE PerfType'
  BY <1>5, <1>a DEF RecordNothing, PerfType, logVars, dumpVars
<1>6. ASSUME NEW t \in Tasks, StoreTriggered(t) PROVE PerfType'
  BY <1>6, <1>a DEF StoreTriggered, PerfType, LogType, States, CaptureType, dumpVars
<1>7. ASSUME NEW t \in Tasks, CountEntry(t) PROVE PerfType'
  <2> DEFINE stops == MetaData.TriggerCount + 1 >= EntriesWanted(MetaData.Mode)
  <2> PICK n \in Nat : n = MetaData.TriggerCount + 1  BY <1>a DEF LogType
  <2> PICK s \in States : s = IF stops THEN "IDLE" ELSE MetaData.State  BY <1>a DEF LogType, States
  <2>1. \/ /\ MetaData' = [MetaData EXCEPT !.TriggerCount = n, !.State = s]
           /\ capture' = [capture EXCEPT !.stoppedItself = stops]
        \/ UNCHANGED <<MetaData, capture>>
    BY <1>7 DEF CountEntry
  <2>a. stops \in BOOLEAN  OBVIOUS
  <2> HIDE DEF stops
  <2>2. MetaData' \in LogType  BY <1>a, <2>1 DEF LogType
  <2>3. capture' \in CaptureType  BY <1>a, <2>1, <2>a DEF CaptureType
  <2> QED BY <1>7, <1>a, <2>2, <2>3 DEF CountEntry, PerfType, dumpVars
<1>8. ASSUME NEW opened \in BOOLEAN, FinishState(opened) PROVE PerfType'
  <2> PICK e \in DumpType : e = Entered  BY EnteredIs
  <2> PICK fd \in BOOLEAN : fd = IF Entering("OPEN_FILE") THEN opened ELSE e.FileDesc /\ ~Entering("CLOSE_FILE")
    BY DEF DumpType
  <2> PICK d \in DumpType : d = [e EXCEPT !.FileDesc = fd]  BY DEF DumpType
  <2>1. dump' = [d EXCEPT !.PendingState = PendingAfter(d)]  BY <1>8 DEF FinishState
  <2>2. PendingAfter(d) \in DumpNames  BY StateAfterType DEF PendingAfter, DumpType, DumpNames
  <2>3. dump' \in DumpType  BY <2>1, <2>2 DEF DumpType
  <2>4. file' \in FileRec  BY <1>8, <1>a, <1>b DEF FinishState, NoFile, FileRec
  <2> QED BY <1>8, <1>a, <2>3, <2>4 DEF FinishState, PerfType, logVars
<1>9. ASSUME NEW written \in BOOLEAN, WriteBlock(written) PROVE PerfType'
  <2> PICK e \in DumpType : e = Entered  BY EnteredIs
  <2>1. NextSlot(e.DataPos) \in 0..(BufferSize - 1)  BY RingPositions DEF DumpType
  <2>2. /\ e.StateCounter > 0
        /\ dump' = [e EXCEPT !.StateCounter = @ - 1,
                             !.DataPos = IF e.CurrentState = "WRITE_PERF_ENTRIES" THEN NextSlot(@) ELSE @,
                             !.PendingState = IF written THEN @ ELSE "CLEANUP"]
    BY <1>9 DEF WriteBlock
  <2>3. dump' \in DumpType
    <3> PICK n \in Nat : n = e.StateCounter - 1  BY <2>2 DEF DumpType
    <3> PICK p \in 0..(BufferSize - 1) :
          p = IF e.CurrentState = "WRITE_PERF_ENTRIES" THEN NextSlot(e.DataPos) ELSE e.DataPos
      BY <2>1 DEF DumpType
    <3> PICK s \in DumpNames : s = IF written THEN e.PendingState ELSE "CLEANUP"
      BY DEF DumpType, DumpNames
    <3>1. dump' = [e EXCEPT !.StateCounter = n, !.DataPos = p, !.PendingState = s]  BY <2>2
    <3> QED BY <3>1 DEF DumpType
  <2>4. file' \in FileRec
    <3>1. DataBuffer[e.DataPos] \in Nat  BY <1>a DEF DumpType
    <3>2. Append(file.entries, DataBuffer[e.DataPos]) \in Seq(Nat)  BY <1>a, <3>1 DEF FileRec
    <3>3. file' = [entries |-> IF e.CurrentState = "WRITE_PERF_ENTRIES" /\ written
                               THEN Append(file.entries, DataBuffer[e.DataPos]) ELSE file.entries,
                   ok |-> file.ok /\ written]
      BY <1>9 DEF WriteBlock
    <3> QED BY <1>a, <3>2, <3>3 DEF FileRec
  <2> QED BY <1>9, <1>a, <2>3, <2>4 DEF WriteBlock, PerfType, logVars
<1>10. CASE BecomeIdle
  BY <1>10, <1>a, <1>b DEF BecomeIdle, PerfType, logVars
<1>11. CASE PerfReset
  BY <1>11, <1>a, <1>b DEF PerfReset, PerfRestart, PerfType, LogType, States
<1>12. CASE PerfResetInRecord
  <2>1. NextSlot(MetaData.DataEnd) \in 0..(BufferSize - 1)  BY <1>a, RingPositions DEF LogType
  <2>2. MetaData' \in LogType  BY <1>12, <1>a, <2>1 DEF PerfResetInRecord, LogType, States
  <2>3. capture.count + 1 \in Nat  BY <1>a DEF CaptureType
  <2>4. DataBuffer' \in [0..(BufferSize - 1) -> Nat]  BY <1>12, <1>a, <2>3 DEF PerfResetInRecord, LogType
  <2>5. capture' \in CaptureType
    <3> PICK n \in Nat : n = capture.count + 1  BY <2>3
    <3>1. capture' = capture \/ capture' = [capture EXCEPT !.count = n, !.cut = TRUE]
      BY <1>12 DEF PerfResetInRecord
    <3> QED BY <1>a, <3>1 DEF CaptureType
  <2> QED BY <1>12, <1>a, <1>b, <2>2, <2>4, <2>5 DEF PerfResetInRecord, PerfRestart, PerfType
<1>13. CASE UNCHANGED perfVars
  BY <1>13, <1>a DEF perfVars, PerfType
<1> QED
  BY <1>1, <1>2, <1>3, <1>4, <1>5, <1>6, <1>7, <1>8, <1>9, <1>10, <1>11, <1>12, <1>13 DEF PerfStep, DumpStep

(* What an iteration that finishes a state does to the job.                *)
LEMMA FinishFacts ==
  ASSUME PerfType, NEW opened \in BOOLEAN, FinishState(opened)
  PROVE  /\ dump.PendingState # "IDLE" /\ Entered.StateCounter = 0
         /\ dump'.CurrentState = dump.PendingState /\ dump'.StateCounter = 0
         /\ dump'.DataPos = Entered.DataPos
         /\ \/ dump'.PendingState = StateAfter(dump.PendingState)
            \/ dump.PendingState = "OPEN_FILE" /\ dump'.PendingState = "IDLE"
         /\ UNCHANGED <<logVars, adding>>
<1> PICK e \in DumpType : e = Entered  BY EnteredIs
<1> PICK fd \in BOOLEAN : fd = IF Entering("OPEN_FILE") THEN opened ELSE e.FileDesc /\ ~Entering("CLOSE_FILE")
  BY DEF DumpType
<1> PICK d \in DumpType : d = [e EXCEPT !.FileDesc = fd]  BY DEF DumpType
<1>1. /\ d.CurrentState # "IDLE" /\ d.StateCounter = 0
      /\ dump' = [d EXCEPT !.PendingState = PendingAfter(d)]
      /\ UNCHANGED <<logVars, adding>>
  BY DEF FinishState
<1>2. /\ d.CurrentState = e.CurrentState /\ d.StateCounter = e.StateCounter /\ d.DataPos = e.DataPos
  BY DEF DumpType
<1>3. e.CurrentState = dump.PendingState  BY EnteredIs
<1>4. /\ dump'.CurrentState = d.CurrentState /\ dump'.StateCounter = d.StateCounter
      /\ dump'.DataPos = d.DataPos /\ dump'.PendingState = PendingAfter(d)
  BY <1>1 DEF DumpType
<1>5. \/ PendingAfter(d) = StateAfter(d.CurrentState)
      \/ d.CurrentState = "OPEN_FILE" /\ PendingAfter(d) = "IDLE"
  BY DEF PendingAfter
<1> QED BY <1>1, <1>2, <1>3, <1>4, <1>5

(* And one that writes a block.                                            *)
LEMMA WriteFacts ==
  ASSUME PerfType, NEW written \in BOOLEAN, WriteBlock(written)
  PROVE  /\ Entered.StateCounter > 0 /\ dump'.CurrentState = dump.PendingState
         /\ dump'.StateCounter = Entered.StateCounter - 1
         /\ dump'.DataPos = IF dump.PendingState = "WRITE_PERF_ENTRIES" THEN NextSlot(Entered.DataPos)
                            ELSE Entered.DataPos
         /\ dump'.PendingState = IF written THEN dump.PendingState ELSE "CLEANUP"
         /\ file' = [entries |-> IF dump.PendingState = "WRITE_PERF_ENTRIES" /\ written
                                 THEN Append(file.entries, DataBuffer[Entered.DataPos]) ELSE file.entries,
                     ok |-> file.ok /\ written]
         /\ UNCHANGED <<logVars, PerfDataMutex, adding>>
<1> PICK e \in DumpType : e = Entered  BY EnteredIs
<1>1. e.CurrentState = dump.PendingState /\ e.PendingState = dump.PendingState  BY EnteredIs
<1> PICK n : n = e.StateCounter - 1  OBVIOUS
<1> PICK p : p = IF e.CurrentState = "WRITE_PERF_ENTRIES" THEN NextSlot(e.DataPos) ELSE e.DataPos  OBVIOUS
<1> PICK s : s = IF written THEN e.PendingState ELSE "CLEANUP"  OBVIOUS
<1>2. /\ e.StateCounter > 0
      /\ dump' = [e EXCEPT !.StateCounter = n, !.DataPos = p, !.PendingState = s]
      /\ UNCHANGED <<logVars, PerfDataMutex, adding>>
  BY DEF WriteBlock
<1>3. file' = [entries |-> IF e.CurrentState = "WRITE_PERF_ENTRIES" /\ written
                           THEN Append(file.entries, DataBuffer[e.DataPos]) ELSE file.entries,
               ok |-> file.ok /\ written]
  BY DEF WriteBlock
<1>4. /\ dump'.CurrentState = e.CurrentState /\ dump'.StateCounter = n
      /\ dump'.DataPos = p /\ dump'.PendingState = s
  BY <1>2 DEF DumpType
<1> QED BY <1>1, <1>2, <1>3, <1>4

(* Blocks are written in the states of the file only.                      *)
LEMMA WriteStateOnly ==
  ASSUME PerfType, Ordered, Entered.StateCounter > 0
  PROVE  dump.PendingState \in WriteStates
<1>1. CASE dump.PendingState = dump.CurrentState
  BY <1>1, EnteredIs DEF Ordered
<1>2. CASE dump.PendingState # dump.CurrentState
  <2>1. Blocks(dump.PendingState) > 0  BY <1>2, EnteredIs
  <2>2. dump.PendingState \notin WriteStates => Blocks(dump.PendingState) = 0  BY DEF Blocks, WriteStates
  <2> QED BY <2>1, <2>2
<1> QED BY <1>1, <1>2

LEMMA OrderedStep == PerfType /\ Ordered /\ PerfStep => Ordered'
<1> SUFFICES ASSUME PerfType, Ordered, PerfStep PROVE Ordered'  OBVIOUS
<1>a. dump \in DumpType  BY DEF PerfType
<1>b. ASSUME dump' = dump, file' = file PROVE Ordered'  BY <1>b DEF Ordered
<1>1. ASSUME NEW mode \in Modes, StartPerfDataCmd(mode) PROVE Ordered'
  BY <1>1, <1>b DEF StartPerfDataCmd, dumpVars
<1>2. ASSUME NEW named \in BOOLEAN, StopPerfDataCmd(named) PROVE Ordered'
  <2>1. CASE ~named  BY <1>2, <1>b, <2>1 DEF StopPerfDataCmd
  <2>2. CASE named
    <3>1. dump' = [dump EXCEPT !.PendingState = "INIT"] /\ dump.CurrentState = "IDLE"
      BY <1>2, <2>2 DEF StopPerfDataCmd, DumpIdle
    <3>2. dump'.PendingState = "INIT" /\ dump'.CurrentState = "IDLE" /\ dump'.StateCounter = dump.StateCounter
      BY <3>1, <1>a DEF DumpType
    <3> QED BY <3>1, <3>2, StateAfterIs DEF Ordered, WriteStates
  <2> QED BY <2>1, <2>2
<1>3. ASSUME NEW t \in Tasks, PerfLogAdd(t) PROVE Ordered'  BY <1>3, <1>b DEF PerfLogAdd, dumpVars
<1>4. ASSUME NEW t \in Tasks, NEW isTrigger \in BOOLEAN, Record(t, isTrigger) PROVE Ordered'
  BY <1>4, <1>b DEF Record, dumpVars
<1>5. ASSUME NEW t \in Tasks, RecordNothing(t) PROVE Ordered'  BY <1>5, <1>b DEF RecordNothing, dumpVars
<1>6. ASSUME NEW t \in Tasks, StoreTriggered(t) PROVE Ordered'  BY <1>6, <1>b DEF StoreTriggered, dumpVars
<1>7. ASSUME NEW t \in Tasks, CountEntry(t) PROVE Ordered'  BY <1>7, <1>b DEF CountEntry, dumpVars
<1>8. ASSUME NEW opened \in BOOLEAN, FinishState(opened) PROVE Ordered'
  BY <1>8, FinishFacts DEF Ordered
<1>9. ASSUME NEW written \in BOOLEAN, WriteBlock(written) PROVE Ordered'
  <2>1. dump'.CurrentState \in WriteStates  BY <1>9, WriteFacts, WriteStateOnly
  <2>2. written \/ ~file'.ok  BY <1>9, WriteFacts
  <2>3. /\ dump'.CurrentState = dump.PendingState
        /\ dump'.PendingState = IF written THEN dump.PendingState ELSE "CLEANUP"
    BY <1>9, WriteFacts
  <2> QED BY <2>1, <2>2, <2>3 DEF Ordered
<1>10. ASSUME dump' = IdleDump PROVE Ordered'  BY <1>10 DEF Ordered, IdleDump
<1>11. CASE BecomeIdle  BY <1>10, <1>11 DEF BecomeIdle
<1>12. CASE PerfReset  BY <1>10, <1>12 DEF PerfReset, PerfRestart
<1>13. CASE PerfResetInRecord  BY <1>10, <1>13 DEF PerfResetInRecord, PerfRestart
<1>14. CASE UNCHANGED perfVars  BY <1>14, <1>b DEF perfVars, dumpVars
<1> QED
  BY <1>1, <1>2, <1>3, <1>4, <1>5, <1>6, <1>7, <1>8, <1>9, <1>11, <1>12, <1>13, <1>14 DEF PerfStep, DumpStep

(* The mutex of the log has one holder.                                    *)
LEMMA MutexStep == PerfType /\ Ordered /\ MutexHeld /\ PerfStep => MutexHeld'
<1> SUFFICES ASSUME PerfType, Ordered, MutexHeld, PerfStep PROVE MutexHeld'  OBVIOUS
<1>a. /\ dump \in DumpType /\ adding \in [Tasks -> {"none", "taking", "trigger", "count"}]
      /\ "dump" \notin Tasks /\ NoTask \notin Tasks /\ NoTask # "dump"
  BY PerfAssumption DEF PerfType
<1>b. ASSUME \A t \in Tasks : Adding(t)' => Adding(t), PerfDataMutex' = PerfDataMutex, dump' = dump
      PROVE  MutexHeld'
  BY <1>b DEF MutexHeld
<1>1. ASSUME NEW mode \in Modes, StartPerfDataCmd(mode) PROVE MutexHeld'
  BY <1>1, <1>b DEF StartPerfDataCmd, dumpVars, Adding
<1>2. ASSUME NEW named \in BOOLEAN, StopPerfDataCmd(named) PROVE MutexHeld'
  <2>1. dump'.CurrentState = dump.CurrentState  BY <1>2, <1>a DEF StopPerfDataCmd, DumpType
  <2> QED BY <1>2, <2>1 DEF StopPerfDataCmd, MutexHeld, Adding
<1>3. ASSUME NEW t \in Tasks, PerfLogAdd(t) PROVE MutexHeld'
  BY <1>3, <1>a, <1>b DEF PerfLogAdd, dumpVars, Adding
<1>4. ASSUME NEW t \in Tasks, NEW isTrigger \in BOOLEAN, Record(t, isTrigger) PROVE MutexHeld'
  <2>1. /\ PerfDataMutex = NoTask /\ PerfDataMutex' = t /\ dump' = dump
        /\ \A u \in Tasks \ {t} : adding'[u] = adding[u]
    BY <1>4, <1>a DEF Record, dumpVars
  <2>2. \A u \in Tasks : ~Adding(u)  BY <1>a, <2>1 DEF MutexHeld
  <2>3. \A u \in Tasks \ {t} : ~Adding(u)'  BY <2>1, <2>2 DEF Adding
  <2> QED BY <1>a, <2>1, <2>3 DEF MutexHeld
<1>5. ASSUME NEW t \in Tasks, RecordNothing(t) PROVE MutexHeld'
  BY <1>5, <1>a, <1>b DEF RecordNothing, dumpVars, Adding
<1>6. ASSUME NEW t \in Tasks, StoreTriggered(t) PROVE MutexHeld'
  BY <1>6, <1>a, <1>b DEF StoreTriggered, dumpVars, Adding
<1>7. ASSUME NEW t \in Tasks, CountEntry(t) PROVE MutexHeld'
  <2>1. /\ PerfDataMutex = t /\ PerfDataMutex' = NoTask /\ dump' = dump
        /\ adding'[t] = "none" /\ \A u \in Tasks \ {t} : adding'[u] = adding[u]
    BY <1>7, <1>a DEF CountEntry, dumpVars, MutexHeld, Adding
  <2>2. \A u \in Tasks : ~Adding(u)'  BY <2>1 DEF MutexHeld, Adding
  <2> QED BY <1>a, <2>1, <2>2 DEF MutexHeld
<1>8. ASSUME NEW opened \in BOOLEAN, FinishState(opened) PROVE MutexHeld'
  <2>1. /\ dump'.CurrentState = dump.PendingState /\ adding' = adding
    BY <1>8, FinishFacts DEF logVars
  <2>2. LockOrUnlock  BY <1>8 DEF FinishState
  <2>3. CASE Entering("LOCK_DATA")
    <3>1. PerfDataMutex = NoTask /\ PerfDataMutex' = "dump" /\ dump'.CurrentState = "LOCK_DATA"
      BY <2>1, <2>2, <2>3 DEF LockOrUnlock, Entering
    <3>2. \A u \in Tasks : ~Adding(u)  BY <1>a, <3>1 DEF MutexHeld
    <3> QED BY <2>1, <3>1, <3>2 DEF MutexHeld, Adding, HoldingStates
  <2>4. CASE Entering("UNLOCK_DATA")
    <3>1. PerfDataMutex' = NoTask /\ dump'.CurrentState = "UNLOCK_DATA"
      BY <2>1, <2>2, <2>4 DEF LockOrUnlock, Entering
    <3>2. dump.CurrentState = "CLEANUP"
      BY <2>4, <1>a, StateAfterIs DEF Entering, Ordered, DumpType, DumpNames
    <3>3. PerfDataMutex = "dump"  BY <3>2 DEF MutexHeld, HoldingStates
    <3>4. \A u \in Tasks : ~Adding(u)  BY <1>a, <3>3 DEF MutexHeld
    <3> QED BY <1>a, <2>1, <3>1, <3>4 DEF MutexHeld, Adding, HoldingStates
  <2>5. CASE ~Entering("LOCK_DATA") /\ ~Entering("UNLOCK_DATA")
    <3>1. PerfDataMutex' = PerfDataMutex  BY <2>2, <2>5 DEF LockOrUnlock
    <3>2. dump'.CurrentState \in HoldingStates <=> dump.CurrentState \in HoldingStates
      <4>1. CASE dump.PendingState = dump.CurrentState  BY <2>1, <4>1
      <4>2. CASE dump.PendingState = StateAfter(dump.CurrentState)
        BY <1>a, <2>1, <2>5, <4>2, StateAfterIs DEF Entering, HoldingStates, DumpType, DumpNames
      <4>3. CASE dump.CurrentState = "OPEN_FILE" /\ dump.PendingState = "IDLE"
        BY <2>1, <4>3 DEF HoldingStates
      <4>4. CASE dump.CurrentState \in WriteStates /\ dump.PendingState = "CLEANUP"
        BY <2>1, <4>4 DEF HoldingStates, WriteStates
      <4> QED BY <4>1, <4>2, <4>3, <4>4 DEF Ordered
    <3> QED BY <2>1, <3>1, <3>2 DEF MutexHeld, Adding
  <2> QED BY <2>3, <2>4, <2>5
<1>9. ASSUME NEW written \in BOOLEAN, WriteBlock(written) PROVE MutexHeld'
  <2>1. /\ dump'.CurrentState = dump.PendingState /\ adding' = adding /\ PerfDataMutex' = PerfDataMutex
        /\ dump.PendingState \in WriteStates
    BY <1>9, WriteFacts, WriteStateOnly
  <2>2. dump.CurrentState \in HoldingStates
    BY <1>a, <2>1, StateAfterIs DEF Ordered, WriteStates, HoldingStates, DumpType, DumpNames
  <2>3. dump'.CurrentState \in HoldingStates  BY <2>1 DEF WriteStates, HoldingStates
  <2> QED BY <2>1, <2>2, <2>3 DEF MutexHeld, Adding
<1>10. CASE BecomeIdle
  <2>1. dump.CurrentState \notin HoldingStates
    BY <1>10, <1>a, StateAfterIs DEF BecomeIdle, Entering, Ordered, WriteStates, HoldingStates, DumpType, DumpNames
  <2>2. dump'.CurrentState = "IDLE" /\ adding' = adding /\ PerfDataMutex' = PerfDataMutex
    BY <1>10 DEF BecomeIdle, IdleDump
  <2> QED BY <2>1, <2>2 DEF MutexHeld, Adding, HoldingStates
<1>11. ASSUME PerfRestart PROVE MutexHeld'
  <2>1. PerfDataMutex' = NoTask /\ dump'.CurrentState = "IDLE" /\ \A t \in Tasks : adding'[t] = "none"
    BY <1>11 DEF PerfRestart, IdleDump
  <2> QED BY <1>a, <2>1 DEF MutexHeld, Adding, HoldingStates
<1>12. CASE PerfReset  BY <1>11, <1>12 DEF PerfReset
<1>13. CASE PerfResetInRecord  BY <1>11, <1>13 DEF PerfResetInRecord
<1>14. CASE UNCHANGED perfVars  BY <1>14, <1>b DEF perfVars, Adding
<1> QED
  BY <1>1, <1>2, <1>3, <1>4, <1>5, <1>6, <1>7, <1>8, <1>9, <1>10, <1>12, <1>13, <1>14 DEF PerfStep, DumpStep

-----------------------------------------------------------------------------
(* PerfLog: the ring and the trigger.                                      *)

\* The counters of the trigger, the ring and the capture are left alone, and nobody adds anything.
LogKept ==
  /\ UNCHANGED <<MetaData, DataBuffer, capture>>
  /\ \A t \in Tasks : adding'[t] = adding[t] \/ {adding[t], adding'[t]} = {"none", "taking"}
  /\ Halted => Halted'

(* What an entry does to the counters.                                     *)
LEMMA AddedFacts ==
  ASSUME PerfType, MetaData' = Added(MetaData)
  PROVE  /\ MetaData'.State = MetaData.State /\ MetaData'.Mode = MetaData.Mode
         /\ MetaData'.TriggerCount = MetaData.TriggerCount
         /\ MetaData'.DataEnd = NextSlot(MetaData.DataEnd)
         /\ MetaData'.DataCount = IF MetaData.DataCount < BufferSize THEN MetaData.DataCount + 1
                                  ELSE MetaData.DataCount
         /\ MetaData'.DataStart = IF MetaData.DataCount < BufferSize THEN MetaData.DataStart
                                  ELSE NextSlot(MetaData.DataEnd)
<1>a. MetaData \in LogType  BY DEF PerfType
<1> PICK end : end = NextSlot(MetaData.DataEnd)  OBVIOUS
<1> PICK n : n = MetaData.DataCount + 1  OBVIOUS
<1>1. CASE MetaData.DataCount < BufferSize
  <2>1. MetaData' = [MetaData EXCEPT !.DataEnd = end, !.DataCount = n]  BY <1>1 DEF Added
  <2> QED BY <1>a, <1>1, <2>1 DEF LogType
<1>2. CASE ~(MetaData.DataCount < BufferSize)
  <2>1. MetaData' = [MetaData EXCEPT !.DataEnd = end, !.DataStart = end]  BY <1>2 DEF Added
  <2> QED BY <1>a, <1>2, <2>1 DEF LogType
<1> QED BY <1>1, <1>2

(* A new entry overwrites nothing but what leaves the ring.                *)
LEMMA Overwrite ==
  ASSUME PerfType, RingExact, MetaData.DataEnd = capture.count % BufferSize,
         DataBuffer' = [DataBuffer EXCEPT ![MetaData.DataEnd] = capture.count + 1]
  PROVE  \A k \in 1..(capture.count + 1) :
           k > (capture.count + 1) - BufferSize => DataBuffer'[(k - 1) % BufferSize] = k
<1>a. /\ BufferSize \in Nat \ {0} /\ capture.count \in Nat
      /\ DataBuffer \in [0..(BufferSize - 1) -> Nat]
  BY RingPositions DEF PerfType, CaptureType
<1> PICK n \in Nat : n = capture.count  BY <1>a
<1> SUFFICES ASSUME NEW k \in Nat, k >= 1, k <= n + 1, k > (n + 1) - BufferSize
             PROVE  DataBuffer'[(k - 1) % BufferSize] = k
  OBVIOUS
<1> PICK x \in Nat : x = k - 1  OBVIOUS
<1>b. /\ x % BufferSize \in 0..(BufferSize - 1) /\ MetaData.DataEnd = n % BufferSize
      /\ n % BufferSize \in 0..(BufferSize - 1)
      /\ DataBuffer' = [DataBuffer EXCEPT ![n % BufferSize] = n + 1]
  BY <1>a, ModDef
<1>1. CASE k = n + 1
  <2>1. x = n  BY <1>1
  <2>2. DataBuffer'[n % BufferSize] = n + 1  BY <1>a, <1>b
  <2> QED BY <1>1, <2>1, <2>2
<1>2. CASE k # n + 1
  <2>1. k \in 1..capture.count  BY <1>2
  <2>2. Kept = IF n < BufferSize THEN n ELSE BufferSize  BY DEF Kept
  <2>3. k > capture.count - Kept  BY <1>a, <1>2, <2>2
  <2>4. DataBuffer[(k - 1) % BufferSize] = k  BY <2>1, <2>3 DEF RingExact
  <2> PICK b \in Nat \ {0} : b = BufferSize  BY <1>a
  <2>5. -BufferSize < n - x /\ n - x < BufferSize /\ x # n
    <3>1. x # n  BY <1>2
    <3>2. -b < n - x  OBVIOUS
    <3>3. n - x < b  OBVIOUS
    <3> QED BY <3>1, <3>2, <3>3
  <2>6. x % BufferSize # n % BufferSize  BY <1>a, <2>5, ModApart, Zenon
  <2>7. DataBuffer[x % BufferSize] = k  BY <2>4
  <2>8. DataBuffer'[x % BufferSize] = DataBuffer[x % BufferSize]  BY <1>a, <1>b, <2>6
  <2> QED BY <2>7, <2>8
<1> QED BY <1>1, <1>2

LEMMA RingStep == PerfType /\ RingExact /\ PerfStep => RingExact'
<1> SUFFICES ASSUME PerfType, RingExact, PerfStep PROVE RingExact'  OBVIOUS
<1>a. /\ MetaData \in LogType /\ capture \in CaptureType /\ capture.count \in Nat
      /\ BufferSize \in Nat \ {0}
      /\ adding \in [Tasks -> {"none", "taking", "trigger", "count"}]
  BY RingPositions DEF PerfType, CaptureType
<1>b. /\ MetaData.DataCount = Kept
      /\ MetaData.DataStart = IF capture.cut THEN (capture.count - 1) % BufferSize
                              ELSE IF capture.count < BufferSize THEN 0 ELSE capture.count % BufferSize
      /\ MetaData.DataEnd = capture.count % BufferSize \/ Halted
      /\ capture.cut => Halted /\ capture.count > BufferSize
  BY DEF RingExact
<1>c. ASSUME LogKept PROVE RingExact'
  BY <1>c DEF LogKept, RingExact, Kept
<1>1. ASSUME NEW mode \in Modes, StartPerfDataCmd(mode) PROVE RingExact'
  <2>1. MetaData' = EmptyLog("WAITING", mode) /\ capture' = EmptyCapture  BY <1>1 DEF StartPerfDataCmd
  <2>2. /\ MetaData'.DataCount = 0 /\ MetaData'.DataStart = 0 /\ MetaData'.DataEnd = 0
        /\ capture'.count = 0 /\ capture'.cut = FALSE
    BY <2>1 DEF EmptyLog, EmptyCapture
  <2>3. 0 % BufferSize = 0 /\ 0 < BufferSize /\ 1..0 = {}  BY <1>a, ModSmall
  <2> QED BY <2>2, <2>3 DEF RingExact, Kept
<1>2. ASSUME NEW named \in BOOLEAN, StopPerfDataCmd(named) PROVE RingExact'
  <2>1. /\ MetaData'.DataCount = MetaData.DataCount /\ MetaData'.DataStart = MetaData.DataStart
        /\ MetaData'.DataEnd = MetaData.DataEnd /\ MetaData'.State = "IDLE"
        /\ UNCHANGED <<DataBuffer, adding, capture>>
    BY <1>2, <1>a DEF StopPerfDataCmd, LogType
  <2> QED BY <2>1 DEF RingExact, Kept, Halted
<1>3. ASSUME NEW t \in Tasks, PerfLogAdd(t) PROVE RingExact'
  <2>1. LogKept  BY <1>3, <1>a DEF PerfLogAdd, LogKept, logVars, Halted
  <2> QED BY <2>1, <1>c
<1>4. ASSUME NEW t \in Tasks, NEW isTrigger \in BOOLEAN, Record(t, isTrigger) PROVE RingExact'
  <2>1. /\ MetaData.State # "IDLE" /\ MetaData' = Added(MetaData)
        /\ DataBuffer' = [DataBuffer EXCEPT ![MetaData.DataEnd] = capture.count + 1]
        /\ capture' = [capture EXCEPT !.count = @ + 1]
    BY <1>4 DEF Record
  <2>2. capture'.count = capture.count + 1 /\ capture'.cut = capture.cut  BY <1>a, <2>1 DEF CaptureType
  <2>3. MetaData.DataEnd = capture.count % BufferSize /\ ~capture.cut  BY <1>b, <2>1 DEF Halted
  <2>4. \A k \in 1..capture'.count : k > capture'.count - BufferSize => DataBuffer'[(k - 1) % BufferSize] = k
    BY <2>1, <2>2, <2>3, Overwrite
  <2>5. Kept' = (IF capture.count + 1 < BufferSize THEN capture.count + 1 ELSE BufferSize)
    BY <2>2 DEF Kept
  <2>6. \A k \in 1..capture'.count : k > capture'.count - Kept' => k > capture'.count - BufferSize
    BY <1>a, <2>2, <2>5
  <2>7. NextSlot(MetaData.DataEnd) = (capture.count + 1) % BufferSize
    <3> PICK n \in Nat : n = capture.count  BY <1>a
    <3>1. n % BufferSize \in 0..(BufferSize - 1)  BY <1>a, ModDef
    <3>2. 1 \in Int /\ n + 1 \in Nat /\ (n % BufferSize) + 1 \in Nat  BY <1>a, <3>1
    <3>3. (n + 1) % BufferSize = ((n % BufferSize) + 1) % BufferSize  BY <1>a, <3>2, ModFirst, Zenon
    <3> QED BY <2>3, <3>3 DEF NextSlot
  <2>8. MetaData.DataCount < BufferSize <=> capture.count < BufferSize  BY <1>a, <1>b DEF Kept
  <2>9. MetaData'.DataCount = Kept'  BY <1>a, <1>b, <2>1, <2>5, <2>8, AddedFacts DEF Kept
  <2>10. MetaData'.DataEnd = capture'.count % BufferSize  BY <2>1, <2>2, <2>7, AddedFacts
  <2>11. MetaData'.DataStart = IF capture'.count < BufferSize THEN 0 ELSE capture'.count % BufferSize
    <3>1. CASE capture.count + 1 < BufferSize
      BY <1>a, <1>b, <2>1, <2>2, <2>3, <2>8, <3>1, AddedFacts
    <3>2. CASE capture.count + 1 = BufferSize
      <4>1. BufferSize % BufferSize = 0
        <5>1. 0 % BufferSize = 0  BY <1>a, ModSmall
        <5>2. BufferSize = 0 + BufferSize * 1 /\ 0 \in Nat /\ 1 \in Int  BY <1>a
        <5>3. BufferSize \in Nat /\ BufferSize \in Nat \ {0}  BY <1>a
        <5> QED BY <5>1, <5>2, <5>3, ModShift, Zenon
      <4>2. capture.count < BufferSize  BY <1>a, <3>2
      <4>3. MetaData'.DataStart = 0  BY <1>b, <2>1, <2>3, <2>8, <4>2, AddedFacts
      <4> QED BY <1>a, <2>2, <3>2, <4>1, <4>3
    <3>3. CASE capture.count >= BufferSize
      BY <1>a, <2>1, <2>2, <2>7, <2>8, <3>3, AddedFacts
    <3> QED BY <1>a, <3>1, <3>2, <3>3
  <2> QED BY <2>2, <2>3, <2>4, <2>6, <2>9, <2>10, <2>11 DEF RingExact
<1>5. ASSUME NEW t \in Tasks, RecordNothing(t) PROVE RingExact'
  <2>1. LogKept  BY <1>5, <1>a DEF RecordNothing, LogKept, logVars, Halted
  <2> QED BY <2>1, <1>c
<1>6. ASSUME NEW t \in Tasks, StoreTriggered(t) PROVE RingExact'
  <2>1. /\ MetaData'.DataCount = MetaData.DataCount /\ MetaData'.DataStart = MetaData.DataStart
        /\ MetaData'.DataEnd = MetaData.DataEnd /\ adding[t] = "trigger"
        /\ capture'.count = capture.count /\ capture'.cut = capture.cut /\ DataBuffer' = DataBuffer
    BY <1>6, <1>a DEF StoreTriggered, LogType, CaptureType
  <2>2. ~Halted  BY <2>1 DEF Halted
  <2> QED BY <1>b, <2>1, <2>2 DEF RingExact, Kept
<1>7. ASSUME NEW t \in Tasks, CountEntry(t) PROVE RingExact'
  <2>1. MetaData' = MetaData \/ \E n, s : MetaData' = [MetaData EXCEPT !.TriggerCount = n, !.State = s]
    BY <1>7 DEF CountEntry
  <2>2. capture' = capture \/ \E s : capture' = [capture EXCEPT !.stoppedItself = s]
    BY <1>7 DEF CountEntry
  <2>3. /\ MetaData'.DataCount = MetaData.DataCount /\ MetaData'.DataStart = MetaData.DataStart
        /\ MetaData'.DataEnd = MetaData.DataEnd
    BY <1>a, <2>1 DEF LogType
  <2>4. capture'.count = capture.count /\ capture'.cut = capture.cut  BY <1>a, <2>2 DEF CaptureType
  <2>5. ~Halted /\ DataBuffer' = DataBuffer  BY <1>7 DEF Halted, CountEntry
  <2> QED BY <1>b, <2>3, <2>4, <2>5 DEF RingExact, Kept
<1>8. ASSUME NEW opened \in BOOLEAN, FinishState(opened) PROVE RingExact'
  BY <1>8, <1>c DEF FinishState, LogKept, logVars, Halted
<1>9. ASSUME NEW written \in BOOLEAN, WriteBlock(written) PROVE RingExact'
  BY <1>9, <1>c DEF WriteBlock, LogKept, logVars, Halted
<1>10. CASE BecomeIdle  BY <1>10, <1>c DEF BecomeIdle, LogKept, logVars, Halted
<1>11. CASE PerfReset
  <2>1. /\ MetaData'.DataCount = MetaData.DataCount /\ MetaData'.DataStart = MetaData.DataStart
        /\ MetaData'.State = "IDLE" /\ \A t \in Tasks : adding'[t] = "none"
        /\ UNCHANGED <<DataBuffer, capture>>
    BY <1>11, <1>a DEF PerfReset, PerfRestart, LogType
  <2> QED BY <2>1 DEF RingExact, Kept, Halted
<1>12. CASE PerfResetInRecord
  <2>1. /\ MetaData'.DataCount = MetaData.DataCount /\ MetaData'.DataStart = MetaData.DataStart
        /\ MetaData'.State = "IDLE" /\ \A t \in Tasks : adding'[t] = "none"
        /\ MetaData.State # "IDLE"
    BY <1>12, <1>a DEF PerfResetInRecord, PerfRestart, LogType
  <2>2. Halted' /\ ~Halted  BY <2>1 DEF Halted
  <2>3. /\ MetaData.DataEnd = capture.count % BufferSize /\ ~capture.cut
        /\ DataBuffer' = [DataBuffer EXCEPT ![MetaData.DataEnd] = capture.count + 1]
    BY <1>12, <1>b, <2>2 DEF PerfResetInRecord
  <2>4. \A k \in 1..(capture.count + 1) :
          k > (capture.count + 1) - BufferSize => DataBuffer'[(k - 1) % BufferSize] = k
    BY <2>3, Overwrite
  <2>5. CASE capture.count < BufferSize
    <3>1. capture' = capture  BY <1>12, <1>a, <1>b, <2>5 DEF PerfResetInRecord, Kept
    <3>2. Kept' = Kept /\ Kept = capture.count  BY <2>5, <3>1 DEF Kept
    <3>3. \A k \in 1..capture.count : k \in 1..(capture.count + 1) /\ k > (capture.count + 1) - BufferSize
      BY <1>a, <2>5
    <3> QED BY <1>b, <2>1, <2>2, <2>3, <2>4, <3>1, <3>2, <3>3 DEF RingExact
  <2>6. CASE capture.count >= BufferSize
    <3>1. capture'.count = capture.count + 1 /\ capture'.cut = TRUE
      <4>1. ~(MetaData.DataCount < BufferSize)  BY <1>a, <1>b, <2>6 DEF Kept
      <4>2. capture' = [capture EXCEPT !.count = @ + 1, !.cut = TRUE]
        BY <1>12, <4>1 DEF PerfResetInRecord
      <4> QED BY <1>a, <4>2 DEF CaptureType
    <3>2. Kept' = BufferSize /\ Kept = BufferSize  BY <1>a, <2>6, <3>1 DEF Kept
    <3>3. MetaData'.DataStart = (capture'.count - 1) % BufferSize
      <4>1. capture'.count - 1 = capture.count  BY <1>a, <3>1
      <4>2. ~(capture.count < BufferSize)  BY <1>a, <2>6
      <4> QED BY <1>b, <2>1, <2>3, <4>1, <4>2
    <3>4. capture'.count > BufferSize  BY <1>a, <2>6, <3>1
    <3> QED BY <1>b, <2>1, <2>2, <2>4, <3>1, <3>2, <3>3, <3>4 DEF RingExact
  <2> QED BY <1>a, <2>5, <2>6
<1>13. CASE UNCHANGED perfVars  BY <1>13, <1>c DEF perfVars, LogKept, Halted
<1> QED
  BY <1>1, <1>2, <1>3, <1>4, <1>5, <1>6, <1>7, <1>8, <1>9, <1>10, <1>11, <1>12, <1>13 DEF PerfStep, DumpStep

(* Who is adding an entry is the only one.                                 *)
LEMMA OneAdder ==
  ASSUME MutexHeld
  PROVE  /\ \A t, u \in Tasks : Adding(t) /\ Adding(u) => t = u
         /\ PerfDataMutex = NoTask => \A t \in Tasks : ~Adding(t)
BY PerfAssumption DEF MutexHeld

LEMMA TriggerStep == PerfType /\ MutexHeld /\ RingExact /\ TriggerExact /\ PerfStep => TriggerExact'
<1> SUFFICES ASSUME PerfType, MutexHeld, RingExact, TriggerExact, PerfStep PROVE TriggerExact'  OBVIOUS
<1>a. /\ MetaData \in LogType /\ capture \in CaptureType /\ capture.count \in Nat /\ capture.trigger \in Nat
      /\ MetaData.TriggerCount \in Nat /\ EntriesWanted(MetaData.Mode) \in 1..BufferSize
      /\ BufferSize \in Nat
      /\ adding \in [Tasks -> {"none", "taking", "trigger", "count"}]
  BY RingPositions, WantedType DEF PerfType, CaptureType, LogType
<1>b. /\ MetaData.State = "WAITING" => MetaData.TriggerCount = 0 /\ ~capture.stoppedItself
      /\ \A t \in Tasks : adding[t] = "trigger" =>
           /\ MetaData.State # "TRIGGERED" /\ MetaData.TriggerCount = 0
           /\ ~capture.stoppedItself /\ capture.count > 0
      /\ MetaData.State = "TRIGGERED" =>
           /\ ~capture.stoppedItself /\ capture.trigger > 0
           /\ MetaData.TriggerCount < EntriesWanted(MetaData.Mode)
           /\ capture.count + (IF \E t \in Tasks : adding[t] = "count" THEN 0 ELSE 1) =
                capture.trigger + MetaData.TriggerCount
      /\ capture.stoppedItself =>
           /\ MetaData.State = "IDLE" /\ ~capture.cut /\ capture.trigger > 0
           /\ capture.count + 1 = capture.trigger + EntriesWanted(MetaData.Mode)
  BY DEF TriggerExact
<1>c. ASSUME LogKept PROVE TriggerExact'
  <2>1. \A t \in Tasks : (adding'[t] = "count" <=> adding[t] = "count") /\ (adding'[t] = "trigger" <=> adding[t] = "trigger")
    <3> TAKE t \in Tasks
    <3>1. adding'[t] = adding[t] \/ {adding[t], adding'[t]} = {"none", "taking"}  BY <1>c DEF LogKept
    <3>2. adding'[t] = adding[t] \/ (adding[t] \in {"none", "taking"} /\ adding'[t] \in {"none", "taking"})
      BY <3>1, Zenon
    <3> QED BY <3>2
  <2>2. (\E t \in Tasks : adding'[t] = "count") <=> (\E t \in Tasks : adding[t] = "count")  BY <2>1
  <2>3. MetaData' = MetaData /\ capture' = capture  BY <1>c DEF LogKept
  <2> QED BY <1>b, <2>1, <2>2, <2>3 DEF TriggerExact
<1>1. ASSUME NEW mode \in Modes, StartPerfDataCmd(mode) PROVE TriggerExact'
  <2>1. MetaData' = EmptyLog("WAITING", mode) /\ capture' = EmptyCapture /\ PerfDataMutex = NoTask /\ adding' = adding
    BY <1>1 DEF StartPerfDataCmd
  <2>2. /\ MetaData'.State = "WAITING" /\ MetaData'.TriggerCount = 0 /\ capture'.stoppedItself = FALSE
    BY <2>1 DEF EmptyLog, EmptyCapture
  <2>3. \A t \in Tasks : adding'[t] # "trigger"  BY <2>1, OneAdder DEF Adding
  <2> QED BY <2>2, <2>3 DEF TriggerExact
<1>2. ASSUME NEW named \in BOOLEAN, StopPerfDataCmd(named) PROVE TriggerExact'
  <2>1. /\ MetaData'.TriggerCount = MetaData.TriggerCount /\ MetaData'.Mode = MetaData.Mode
        /\ MetaData'.State = "IDLE" /\ UNCHANGED <<adding, capture>>
    BY <1>2, <1>a DEF StopPerfDataCmd, LogType
  <2> QED BY <1>b, <2>1 DEF TriggerExact
<1>3. ASSUME NEW t \in Tasks, PerfLogAdd(t) PROVE TriggerExact'
  <2>1. LogKept  BY <1>3, <1>a DEF PerfLogAdd, LogKept, logVars, Halted
  <2> QED BY <2>1, <1>c
<1>4. ASSUME NEW t \in Tasks, NEW isTrigger \in BOOLEAN, Record(t, isTrigger) PROVE TriggerExact'
  <2>1. /\ MetaData.State # "IDLE" /\ MetaData' = Added(MetaData) /\ PerfDataMutex = NoTask
        /\ capture' = [capture EXCEPT !.count = @ + 1]
        /\ adding' = [adding EXCEPT ![t] = IF MetaData.State = "WAITING" /\ isTrigger THEN "trigger" ELSE "count"]
    BY <1>4 DEF Record
  <2>2. /\ capture'.count = capture.count + 1 /\ capture'.trigger = capture.trigger
        /\ capture'.stoppedItself = capture.stoppedItself
    BY <1>a, <2>1 DEF CaptureType
  <2>3. /\ MetaData'.State = MetaData.State /\ MetaData'.Mode = MetaData.Mode
        /\ MetaData'.TriggerCount = MetaData.TriggerCount
    BY <2>1, AddedFacts
  <2>4. \A u \in Tasks : adding[u] \notin {"trigger", "count"}  BY <2>1, OneAdder DEF Adding
  <2>5. \A u \in Tasks : u # t => adding'[u] = adding[u]  BY <1>a, <2>1
  <2>6. adding'[t] = IF MetaData.State = "WAITING" /\ isTrigger THEN "trigger" ELSE "count"  BY <1>a, <2>1
  <2>7. ~capture.stoppedItself  BY <1>b, <2>1
  <2>8. \A u \in Tasks : adding'[u] = "trigger" => MetaData.State = "WAITING"  BY <2>4, <2>5, <2>6
  <2>9. MetaData.State = "TRIGGERED" =>
          /\ \E u \in Tasks : adding'[u] = "count"
          /\ capture.count + 1 = capture.trigger + MetaData.TriggerCount
    <3>1. ~\E u \in Tasks : adding[u] = "count"  BY <2>4
    <3> QED BY <1>b, <2>6, <3>1
  <2>10. capture'.count > 0  BY <1>a, <2>2
  <2>11. capture.count + 1 + 0 = capture.count + 1  BY <1>a
  <2> QED BY <1>a, <1>b, <2>2, <2>3, <2>7, <2>8, <2>9, <2>10, <2>11 DEF TriggerExact
<1>5. ASSUME NEW t \in Tasks, RecordNothing(t) PROVE TriggerExact'
  <2>1. LogKept  BY <1>5, <1>a DEF RecordNothing, LogKept, logVars, Halted
  <2> QED BY <2>1, <1>c
<1>6. ASSUME NEW t \in Tasks, StoreTriggered(t) PROVE TriggerExact'
  <2>1. /\ MetaData'.State = "TRIGGERED" /\ MetaData'.Mode = MetaData.Mode
        /\ MetaData'.TriggerCount = MetaData.TriggerCount
        /\ capture'.count = capture.count /\ capture'.trigger = capture.count
        /\ capture'.stoppedItself = capture.stoppedItself
        /\ adding[t] = "trigger" /\ adding' = [adding EXCEPT ![t] = "count"]
    BY <1>6, <1>a DEF StoreTriggered, LogType, CaptureType
  <2>2. MetaData.TriggerCount = 0 /\ ~capture.stoppedItself /\ capture.count > 0  BY <1>b, <2>1
  <2>3. \A u \in Tasks : adding'[u] # "trigger"  BY <1>a, <2>1, OneAdder DEF Adding
  <2>4. \E u \in Tasks : adding'[u] = "count"  BY <1>a, <2>1
  <2>5. capture.count + 0 = capture.count  BY <1>a
  <2>6. 0 < EntriesWanted(MetaData.Mode)  BY <1>a
  <2> QED BY <2>1, <2>2, <2>3, <2>4, <2>5, <2>6 DEF TriggerExact
<1>7. ASSUME NEW t \in Tasks, CountEntry(t) PROVE TriggerExact'
  <2>1. adding[t] = "count" /\ adding' = [adding EXCEPT ![t] = "none"]  BY <1>7 DEF CountEntry
  <2>2. \A u \in Tasks : adding'[u] \notin {"trigger", "count"}  BY <1>a, <2>1, OneAdder DEF Adding
  <2>3. CASE MetaData.State # "TRIGGERED"
    <3>1. MetaData' = MetaData /\ capture' = capture  BY <1>7, <2>3 DEF CountEntry
    <3> QED BY <1>b, <2>2, <2>3, <3>1 DEF TriggerExact
  <2>4. CASE MetaData.State = "TRIGGERED"
    <3> DEFINE stops == MetaData.TriggerCount + 1 >= EntriesWanted(MetaData.Mode)
    <3> PICK n \in Nat : n = MetaData.TriggerCount + 1  BY <1>a
    <3> PICK s : s = IF stops THEN "IDLE" ELSE "TRIGGERED"  OBVIOUS
    <3>1. /\ MetaData' = [MetaData EXCEPT !.TriggerCount = n, !.State = s]
          /\ capture' = [capture EXCEPT !.stoppedItself = stops]
      BY <1>7, <2>4 DEF CountEntry
    <3>2. stops \in BOOLEAN  OBVIOUS
    <3>3. stops <=> n >= EntriesWanted(MetaData.Mode)  BY <1>a
    <3> HIDE DEF stops
    <3>4. /\ MetaData'.TriggerCount = n /\ MetaData'.State = s /\ MetaData'.Mode = MetaData.Mode
      BY <1>a, <3>1 DEF LogType
    <3>5. /\ capture'.count = capture.count /\ capture'.trigger = capture.trigger
          /\ capture'.cut = capture.cut /\ capture'.stoppedItself = stops
      BY <1>a, <3>1, <3>2 DEF CaptureType
    <3>6. capture.count = capture.trigger + MetaData.TriggerCount /\ capture.trigger > 0
      <4>1. \E u \in Tasks : adding[u] = "count"  BY <2>1
      <4>2. capture.count + 0 = capture.trigger + MetaData.TriggerCount  BY <1>b, <2>4, <4>1
      <4> QED BY <1>a, <1>b, <2>4, <4>2
    <3>7. capture.count + 1 = capture.trigger + n  BY <1>a, <3>6
    <3>8. MetaData.TriggerCount < EntriesWanted(MetaData.Mode)  BY <1>b, <2>4
    <3>9. n <= EntriesWanted(MetaData.Mode)  BY <1>a, <3>8
    <3>10. ~capture.cut  BY <2>4 DEF RingExact, Halted
    <3>11. CASE stops
      <4>1. n = EntriesWanted(MetaData.Mode)  BY <1>a, <3>3, <3>9, <3>11
      <4> QED BY <2>2, <3>4, <3>5, <3>6, <3>7, <3>10, <3>11, <4>1 DEF TriggerExact
    <3>12. CASE ~stops
      <4>1. n < EntriesWanted(MetaData.Mode)  BY <1>a, <3>3, <3>12
      <4>2. ~\E u \in Tasks : adding'[u] = "count"  BY <2>2
      <4> QED BY <2>2, <3>4, <3>5, <3>6, <3>7, <3>12, <4>1, <4>2 DEF TriggerExact
    <3> QED BY <3>11, <3>12
  <2> QED BY <2>3, <2>4
<1>8. ASSUME NEW opened \in BOOLEAN, FinishState(opened) PROVE TriggerExact'
  BY <1>8, <1>c DEF FinishState, LogKept, logVars, Halted
<1>9. ASSUME NEW written \in BOOLEAN, WriteBlock(written) PROVE TriggerExact'
  BY <1>9, <1>c DEF WriteBlock, LogKept, logVars, Halted
<1>10. CASE BecomeIdle  BY <1>10, <1>c DEF BecomeIdle, LogKept, logVars, Halted
<1>11. CASE PerfReset
  <2>1. /\ MetaData'.State = "IDLE" /\ MetaData'.Mode = MetaData.Mode
        /\ \A t \in Tasks : adding'[t] = "none"
        /\ capture' = capture
    BY <1>11, <1>a DEF PerfReset, PerfRestart, LogType
  <2> QED BY <1>b, <2>1 DEF TriggerExact
<1>12. CASE PerfResetInRecord
  <2>1. /\ MetaData.State # "IDLE" /\ MetaData'.State = "IDLE"
        /\ \A t \in Tasks : adding'[t] = "none"
    BY <1>12, <1>a DEF PerfResetInRecord, PerfRestart, LogType
  <2> PICK n : n = capture.count + 1  OBVIOUS
  <2>2. capture' = capture \/ capture' = [capture EXCEPT !.count = n, !.cut = TRUE]
    BY <1>12 DEF PerfResetInRecord
  <2>3. capture'.stoppedItself = capture.stoppedItself  BY <1>a, <2>2 DEF CaptureType
  <2>4. ~capture.stoppedItself  BY <1>b, <2>1
  <2> QED BY <2>1, <2>3, <2>4 DEF TriggerExact
<1>13. CASE UNCHANGED perfVars  BY <1>13, <1>c DEF perfVars, LogKept, Halted
<1> QED
  BY <1>1, <1>2, <1>3, <1>4, <1>5, <1>6, <1>7, <1>8, <1>9, <1>10, <1>11, <1>12, <1>13 DEF PerfStep, DumpStep

-----------------------------------------------------------------------------
(* PerfLog: the file of a dump.                                            *)

(* Where the entries that a whole file has are in the ring.                *)
LEMMA WantedFacts ==
  ASSUME PerfType, RingExact
  PROVE  /\ Wanted \in Seq(Nat) /\ Len(Wanted) = MetaData.DataCount
         /\ Kept \in Nat
         /\ ~capture.cut => Wanted = Window /\ Len(Wanted) = Kept
         /\ ~capture.cut => \A i \in 1..Kept : Wanted[i] = capture.count - Kept + i
         /\ \A i \in 1..Len(Wanted) : Wanted[i] = DataBuffer[(MetaData.DataStart + (i - 1)) % BufferSize]
<1>a. BufferSize \in Nat \ {0} /\ capture.count \in Nat  BY RingPositions DEF PerfType, CaptureType
<1> PICK n \in Nat, b \in Nat \ {0} : n = capture.count /\ b = BufferSize  BY <1>a
<1> PICK m \in Nat : m = IF n < b THEN n ELSE b  OBVIOUS
<1>b. /\ MetaData.DataCount = m /\ Kept = m
      /\ \A k \in 1..n : k > n - m => DataBuffer[(k - 1) % b] = k
      /\ MetaData.DataStart = IF capture.cut THEN (n - 1) % b ELSE IF n < b THEN 0 ELSE n % b
      /\ capture.cut => n > b
  BY DEF RingExact, Kept
<1>c. Window = [i \in 1..m |-> n - m + i]  BY DEF Window
<1>d. Window \in Seq(Nat) /\ Len(Window) = m /\ \A i \in 1..m : Window[i] = n - m + i
  <2>1. \A i \in 1..m : n - m + i \in Nat  OBVIOUS
  <2>2. Window \in [1..m -> Nat]  BY <1>c, <2>1
  <2>3. Window \in Seq(Nat)  BY <2>2
  <2>4. Len(Window) = m  BY <2>2, <2>3
  <2> QED BY <1>c, <2>3, <2>4
<1>1. CASE ~capture.cut
  <2>1. Wanted = Window  BY <1>1 DEF Wanted
  <2>2. ASSUME NEW i \in 1..m PROVE Window[i] = DataBuffer[(MetaData.DataStart + (i - 1)) % BufferSize]
    <3> PICK k \in Nat : k = n - m + i /\ k \in 1..n /\ k > n - m  OBVIOUS
    <3>1. Window[i] = k /\ DataBuffer[(k - 1) % b] = k  BY <1>b, <1>d
    <3>2. (MetaData.DataStart + (i - 1)) % b = (k - 1) % b
      <4>1. CASE n < b
        <5>1. MetaData.DataStart + (i - 1) = k - 1  BY <1>1, <1>b, <4>1
        <5> QED BY <5>1
      <4>2. CASE n >= b
        <5> PICK j \in Nat : j = i - 1  OBVIOUS
        <5>1. MetaData.DataStart = n % b /\ n % b \in 0..(b - 1)
          <6>1. ~(n < b)  BY <4>2
          <6>2. MetaData.DataStart = n % b  BY <1>1, <1>b, <6>1
          <6> QED BY <6>2, ModDef
        <5>2. j \in Int /\ n + j \in Nat /\ (n % b) + j \in Nat  BY <5>1
        <5>3. (n + j) % b = ((n % b) + j) % b  BY <5>2, ModFirst, Zenon
        <5> PICK x \in Nat, y \in Nat : x = k - 1 /\ y = n + j  OBVIOUS
        <5>4. y = x + b  BY <4>2
        <5>5. y % b = x % b  BY <5>4, ModPlus
        <5> QED BY <5>1, <5>3, <5>5
      <4> QED BY <4>1, <4>2
    <3> QED BY <3>1, <3>2
  <2> QED BY <1>1, <1>b, <1>d, <2>1, <2>2
<1>2. CASE capture.cut
  <2>1. n > b /\ m = b  BY <1>2, <1>b
  <2> DEFINE s == SubSeq(Window, 1, b - 1)
  <2>2. /\ s \in Seq(Nat) /\ Len(s) = b - 1 /\ \A i \in 1..(b - 1) : s[i] = n - b + i
    BY <1>d, <2>1
  <2> HIDE DEF s
  <2>3. Wanted = <<n>> \o s  BY <1>2 DEF Wanted, s
  <2>4. <<n>> \in Seq(Nat) /\ Len(<<n>>) = 1 /\ <<n>>[1] = n  OBVIOUS
  <2>5. /\ Wanted \in Seq(Nat) /\ Len(Wanted) = b /\ Wanted[1] = n
        /\ \A i \in 2..b : Wanted[i] = s[i - 1]
    BY <2>2, <2>3, <2>4
  <2>6. ASSUME NEW i \in 1..b PROVE Wanted[i] = DataBuffer[(MetaData.DataStart + (i - 1)) % BufferSize]
    <3> PICK c \in Nat, j \in Nat : c = n - 1 /\ j = i - 1  BY <2>1
    <3>1. MetaData.DataStart = c % b /\ c % b \in 0..(b - 1)  BY <1>2, <1>b, ModDef
    <3>2. j \in Int /\ c + j \in Nat /\ (c % b) + j \in Nat  BY <3>1
    <3>3. (c + j) % b = ((c % b) + j) % b  BY <3>2, ModFirst, Zenon
    <3>4. CASE i = 1
      <4>1. c + j = n - 1 /\ n \in 1..n /\ n > n - m  BY <2>1, <3>4
      <4>2. DataBuffer[(c + j) % b] = n  BY <1>b, <4>1
      <4> QED BY <2>5, <3>1, <3>3, <3>4, <4>2
    <3>5. CASE i # 1
      <4> PICK k \in Nat : k = n - b + (i - 1) /\ k \in 1..n /\ k > n - m  BY <2>1, <3>5
      <4>1. Wanted[i] = k  BY <2>2, <2>5, <3>5
      <4>2. DataBuffer[(k - 1) % b] = k  BY <1>b
      <4> PICK x \in Nat, y \in Nat : x = k - 1 /\ y = c + j  BY <2>1
      <4>3. y = x + b  OBVIOUS
      <4>4. y % b = x % b  BY <4>3, ModPlus
      <4> QED BY <3>1, <3>3, <4>1, <4>2, <4>4
    <3> QED BY <3>4, <3>5
  <2> QED BY <1>2, <1>b, <2>1, <2>5, <2>6
<1> QED BY <1>1, <1>2

(* Where the dump is when the next entry is to be written.                 *)
LEMMA Writing ==
  ASSUME PerfType, RingExact, Ordered, Written, dump.PendingState = "WRITE_PERF_ENTRIES", file.ok
  PROVE  /\ Len(file.entries) + Entered.StateCounter = Len(Wanted)
         /\ Entered.DataPos = (MetaData.DataStart + Len(file.entries)) % BufferSize
         /\ Len(file.entries) <= Len(Wanted)
         /\ \A i \in 1..Len(file.entries) : file.entries[i] = Wanted[i]
<1>a. dump \in DumpType /\ MetaData.DataStart \in 0..(BufferSize - 1) /\ BufferSize \in Nat \ {0}
  BY RingPositions DEF PerfType, LogType
<1>1. CASE dump.CurrentState = "WRITE_PERF_ENTRIES"
  BY <1>1, EnteredIs DEF Written
<1>2. CASE dump.CurrentState # "WRITE_PERF_ENTRIES"
  <2>1. dump.CurrentState = "WRITE_PERF_METADATA"
    BY <1>2, <1>a, StateAfterIs DEF Ordered, WriteStates, DumpType, DumpNames
  <2>2. file.entries = <<>>  BY <2>1 DEF Written
  <2>3. Entered.StateCounter = MetaData.DataCount /\ Entered.DataPos = MetaData.DataStart
    BY <1>2, EnteredIs DEF Blocks
  <2>4. (MetaData.DataStart + 0) % BufferSize = MetaData.DataStart  BY <1>a, ModSmall
  <2>5. Len(file.entries) = 0 /\ Len(Wanted) = MetaData.DataCount /\ Len(Wanted) \in Nat
    BY <2>2, WantedFacts
  <2> QED BY <2>3, <2>4, <2>5
<1> QED BY <1>1, <1>2

LEMMA WrittenStep == PerfType /\ MutexHeld /\ RingExact /\ Ordered /\ Written /\ PerfStep => Written'
<1> SUFFICES ASSUME PerfType, MutexHeld, RingExact, Ordered, Written, PerfStep PROVE Written'  OBVIOUS
<1>a. /\ dump \in DumpType /\ file \in FileRec /\ DataBuffer \in [0..(BufferSize - 1) -> Nat]
      /\ MetaData \in LogType /\ capture \in CaptureType /\ file.entries \in Seq(Nat)
      /\ BufferSize \in Nat \ {0}
  BY RingPositions DEF PerfType, FileRec
<1>b. ASSUME UNCHANGED <<MetaData, capture, dump, file>> PROVE Written'
  <2>1. MetaData' = MetaData /\ capture' = capture /\ dump' = dump /\ file' = file  BY <1>b
  <2>2. Wanted' = Wanted  BY <2>1 DEF Wanted, Window
  <2> QED BY <2>1, <2>2 DEF Written
<1>c. ASSUME UNCHANGED <<dump, file>>, PerfDataMutex # "dump" PROVE Written'
  BY <1>c DEF Written, MutexHeld, HoldingStates
<1>d. ASSUME dump'.CurrentState = "IDLE" PROVE Written'
  BY <1>d DEF Written
<1>1. ASSUME NEW mode \in Modes, StartPerfDataCmd(mode) PROVE Written'
  BY <1>1, <1>d DEF StartPerfDataCmd, DumpIdle, dumpVars
<1>2. ASSUME NEW named \in BOOLEAN, StopPerfDataCmd(named) PROVE Written'
  <2>1. dump' = [dump EXCEPT !.PendingState = "INIT"] \/ dump' = dump  BY <1>2 DEF StopPerfDataCmd
  <2>2. dump'.CurrentState = "IDLE"  BY <1>2, <1>a, <2>1 DEF StopPerfDataCmd, DumpIdle, DumpType
  <2> QED BY <2>2, <1>d
<1>3. ASSUME NEW t \in Tasks, PerfLogAdd(t) PROVE Written'
  BY <1>3, <1>b DEF PerfLogAdd, logVars, dumpVars
<1>4. ASSUME NEW t \in Tasks, NEW isTrigger \in BOOLEAN, Record(t, isTrigger) PROVE Written'
  BY <1>4, <1>c, PerfAssumption DEF Record, dumpVars
<1>5. ASSUME NEW t \in Tasks, RecordNothing(t) PROVE Written'
  BY <1>5, <1>b DEF RecordNothing, logVars, dumpVars
<1>6. ASSUME NEW t \in Tasks, StoreTriggered(t) PROVE Written'
  <2>1. PerfDataMutex # "dump"  BY <1>6, PerfAssumption DEF StoreTriggered, MutexHeld, Adding
  <2> QED BY <1>6, <1>c, <2>1 DEF StoreTriggered, dumpVars
<1>7. ASSUME NEW t \in Tasks, CountEntry(t) PROVE Written'
  <2>1. PerfDataMutex # "dump"  BY <1>7, PerfAssumption DEF CountEntry, MutexHeld, Adding
  <2> QED BY <1>7, <1>c, <2>1 DEF CountEntry, dumpVars
<1>8. ASSUME NEW opened \in BOOLEAN, FinishState(opened) PROVE Written'
  <2>1. /\ Entered.StateCounter = 0 /\ dump'.CurrentState = dump.PendingState
        /\ dump'.StateCounter = 0 /\ dump'.DataPos = Entered.DataPos
        /\ MetaData' = MetaData /\ capture' = capture
    BY <1>8, FinishFacts DEF logVars
  <2>2. Wanted' = Wanted  BY <2>1 DEF Wanted, Window
  <2>3. file' = IF Entering("OPEN_FILE") THEN [NoFile EXCEPT !.ok = opened]
                ELSE IF Entering("UNLOCK_DATA") THEN NoFile ELSE file
    BY <1>8 DEF FinishState
  <2>4. dump'.CurrentState \in {"OPEN_FILE", "DELAY", "LOCK_DATA", "WRITE_FS_HDR", "WRITE_PERF_METADATA"} =>
          file'.entries = <<>>
    <3>1. CASE Entering("OPEN_FILE")  BY <2>3, <3>1 DEF NoFile
    <3>2. CASE ~Entering("OPEN_FILE")
      <4> SUFFICES ASSUME dump.PendingState \in
                            {"OPEN_FILE", "DELAY", "LOCK_DATA", "WRITE_FS_HDR", "WRITE_PERF_METADATA"}
                   PROVE  file'.entries = <<>>
        BY <2>1
      <4>1. file' = file  BY <2>3, <3>2 DEF Entering
      <4>2. dump.CurrentState \in {"OPEN_FILE", "DELAY", "LOCK_DATA", "WRITE_FS_HDR", "WRITE_PERF_METADATA"}
        BY <1>a, <3>2, StateAfterIs DEF Ordered, Entering, WriteStates, DumpType, DumpNames
      <4> QED BY <4>1, <4>2 DEF Written
    <3> QED BY <3>1, <3>2
  <2>5. ASSUME dump'.CurrentState = "WRITE_PERF_ENTRIES", file'.ok
        PROVE  /\ Len(file'.entries) = Len(Wanted) /\ Len(file'.entries) + dump'.StateCounter = Len(Wanted)
               /\ dump'.DataPos = (MetaData.DataStart + Len(file'.entries)) % BufferSize
               /\ \A i \in 1..Len(file'.entries) : file'.entries[i] = Wanted[i]
    <3>1. dump.PendingState = "WRITE_PERF_ENTRIES" /\ file' = file
      BY <2>1, <2>3, <2>5 DEF Entering
    <3>2. file.ok  BY <2>5, <3>1
    <3>3. Len(file.entries) \in Nat  BY <1>a
    <3>4. /\ Len(file.entries) + 0 = Len(Wanted)
          /\ Entered.DataPos = (MetaData.DataStart + Len(file.entries)) % BufferSize
          /\ \A i \in 1..Len(file.entries) : file.entries[i] = Wanted[i]
      BY <2>1, <3>1, <3>2, Writing
    <3> QED BY <2>1, <3>1, <3>3, <3>4
  <2>6. ASSUME dump'.CurrentState = "CLEANUP", file'.ok
        PROVE  /\ Len(file'.entries) = Len(Wanted)
               /\ \A i \in 1..Len(file'.entries) : file'.entries[i] = Wanted[i]
    <3>1. dump.PendingState = "CLEANUP" /\ file' = file /\ file.ok  BY <2>1, <2>3, <2>6 DEF Entering
    <3>2. dump.CurrentState \in {"WRITE_PERF_ENTRIES", "CLEANUP"}
      BY <1>a, <3>1, StateAfterIs DEF Ordered, WriteStates, DumpType, DumpNames
    <3>3. Len(file.entries) \in Nat  BY <1>a
    <3>4. CASE dump.CurrentState = "CLEANUP"  BY <3>1, <3>4 DEF Written
    <3>5. CASE dump.CurrentState = "WRITE_PERF_ENTRIES"
      <4>1. dump.StateCounter = 0 /\ Len(file.entries) + dump.StateCounter = Len(Wanted)
        BY <3>1, <3>5 DEF Written
      <4> QED BY <3>1, <3>3, <3>5, <4>1 DEF Written
    <3> QED BY <3>2, <3>4, <3>5
  <2>7. Len(Wanted) \in Nat  BY WantedFacts
  <2>8. MetaData'.DataStart = MetaData.DataStart  BY <2>1
  <2> QED BY <2>1, <2>2, <2>4, <2>5, <2>6, <2>7, <2>8 DEF Written
<1>9. ASSUME NEW written \in BOOLEAN, WriteBlock(written) PROVE Written'
  <2>1. /\ dump'.CurrentState = dump.PendingState /\ dump'.StateCounter = Entered.StateCounter - 1
        /\ dump'.DataPos = IF dump.PendingState = "WRITE_PERF_ENTRIES" THEN NextSlot(Entered.DataPos)
                           ELSE Entered.DataPos
        /\ dump'.PendingState = IF written THEN dump.PendingState ELSE "CLEANUP"
        /\ MetaData' = MetaData /\ capture' = capture /\ Entered.StateCounter > 0
    BY <1>9, WriteFacts DEF logVars
  <2>2. file' = [entries |-> IF dump.PendingState = "WRITE_PERF_ENTRIES" /\ written
                             THEN Append(file.entries, DataBuffer[Entered.DataPos]) ELSE file.entries,
                 ok |-> file.ok /\ written]
    BY <1>9, WriteFacts
  <2>3. Wanted' = Wanted /\ dump.PendingState \in WriteStates
    BY <1>9, <2>1, WriteStateOnly DEF Wanted, Window
  <2>4. CASE dump.PendingState \in {"WRITE_FS_HDR", "WRITE_PERF_METADATA"}
    <3>1. dump.CurrentState \in {"LOCK_DATA", "WRITE_FS_HDR", "WRITE_PERF_METADATA"}
      BY <1>a, <2>4, StateAfterIs DEF Ordered, WriteStates, DumpType, DumpNames
    <3>2. file'.entries = file.entries /\ file.entries = <<>>  BY <2>2, <2>4, <3>1 DEF Written
    <3> QED BY <2>1, <2>4, <3>2 DEF Written
  <2>5. CASE dump.PendingState = "WRITE_PERF_ENTRIES"
    <3>1. dump'.CurrentState = "WRITE_PERF_ENTRIES"  BY <2>1, <2>5
    <3>2. ASSUME file'.ok
          PROVE  /\ Len(file'.entries) <= Len(Wanted)
                 /\ \A i \in 1..Len(file'.entries) : file'.entries[i] = Wanted[i]
                 /\ Len(file'.entries) + dump'.StateCounter = Len(Wanted)
                 /\ dump'.DataPos = (MetaData.DataStart + Len(file'.entries)) % BufferSize
                 /\ dump'.PendingState # "CLEANUP"
      <4>1. file.ok /\ written
        <5> DEFINE ok == file.ok /\ written
        <5>1. file'.ok = ok  BY <2>2
        <5> QED BY <3>2, <5>1
      <4>2. file'.entries = Append(file.entries, DataBuffer[Entered.DataPos])  BY <2>2, <2>5, <4>1
      <4> PICK n \in Nat : n = Len(file.entries)  BY <1>a
      <4>3. /\ n + Entered.StateCounter = Len(Wanted) /\ n <= Len(Wanted)
            /\ Entered.DataPos = (MetaData.DataStart + n) % BufferSize
            /\ \A i \in 1..n : file.entries[i] = Wanted[i]
        BY <2>5, <4>1, Writing
      <4>4. Entered.StateCounter \in Nat /\ Len(Wanted) \in Nat /\ MetaData.DataStart \in Nat
        BY <1>a, EnteredIs, WantedFacts DEF DumpType, LogType
      <4>5. n + 1 \in 1..Len(Wanted)  BY <2>1, <4>3, <4>4
      <4>6. Wanted[n + 1] = DataBuffer[(MetaData.DataStart + n) % BufferSize]
        <5>1. Wanted[n + 1] = DataBuffer[(MetaData.DataStart + ((n + 1) - 1)) % BufferSize]
          BY <4>5, WantedFacts
        <5>2. (n + 1) - 1 = n  OBVIOUS
        <5> QED BY <5>1, <5>2
      <4>7. DataBuffer[Entered.DataPos] \in Nat  BY <1>a, EnteredIs DEF DumpType
      <4>8. Len(file'.entries) = n + 1 /\ file'.entries[n + 1] = DataBuffer[Entered.DataPos]
        BY <1>a, <4>2, <4>7
      <4>9. \A i \in 1..n : file'.entries[i] = file.entries[i]  BY <1>a, <4>2, <4>7
      <4>10. \A i \in 1..(n + 1) : file'.entries[i] = Wanted[i]
        BY <4>3, <4>6, <4>8, <4>9
      <4>11. NextSlot(Entered.DataPos) = (MetaData.DataStart + (n + 1)) % BufferSize
        <5> PICK x \in Nat : x = MetaData.DataStart + n  BY <4>4
        <5>1. x % BufferSize \in 0..(BufferSize - 1)  BY <1>a, ModDef
        <5>2. 1 \in Int /\ x + 1 \in Nat /\ (x % BufferSize) + 1 \in Nat  BY <5>1, <1>a
        <5>3. (x + 1) % BufferSize = ((x % BufferSize) + 1) % BufferSize  BY <1>a, <5>2, ModFirst, Zenon
        <5>4. MetaData.DataStart + (n + 1) = x + 1  BY <4>4
        <5> QED BY <4>3, <5>3, <5>4 DEF NextSlot
      <4>12. (n + 1) + dump'.StateCounter = Len(Wanted)  BY <2>1, <4>3, <4>4
      <4>13. dump'.DataPos = (MetaData.DataStart + (n + 1)) % BufferSize  BY <2>1, <2>5, <4>11
      <4>14. dump'.PendingState # "CLEANUP"  BY <2>1, <2>5, <4>1
      <4> QED BY <4>4, <4>5, <4>8, <4>10, <4>12, <4>13, <4>14
    <3>3. MetaData'.DataStart = MetaData.DataStart  BY <2>1
    <3> QED BY <2>3, <3>1, <3>2, <3>3 DEF Written
  <2> QED BY <2>3, <2>4, <2>5 DEF WriteStates
<1>10. CASE BecomeIdle  BY <1>10, <1>d DEF BecomeIdle, IdleDump
<1>11. CASE PerfReset  BY <1>11, <1>d DEF PerfReset, PerfRestart, IdleDump
<1>12. CASE PerfResetInRecord  BY <1>12, <1>d DEF PerfResetInRecord, PerfRestart, IdleDump
<1>13. CASE UNCHANGED perfVars  BY <1>13, <1>b DEF perfVars
<1> QED
  BY <1>1, <1>2, <1>3, <1>4, <1>5, <1>6, <1>7, <1>8, <1>9, <1>10, <1>11, <1>12, <1>13 DEF PerfStep, DumpStep

-----------------------------------------------------------------------------
LEMMA PerfInvInit == Init => PerfInv
<1> SUFFICES ASSUME Init PROVE PerfInv  OBVIOUS
<1>1. /\ MetaData = EmptyLog("IDLE", "START") /\ PerfDataMutex = NoTask
      /\ adding = [t \in Tasks |-> "none"] /\ dump = IdleDump /\ file = NoFile /\ capture = EmptyCapture
  BY DEF Init, PerfInit
<1>2. /\ MetaData.State = "IDLE" /\ MetaData.DataStart = 0 /\ MetaData.DataEnd = 0 /\ MetaData.DataCount = 0
      /\ capture.count = 0 /\ capture.cut = FALSE /\ capture.stoppedItself = FALSE
  BY <1>1 DEF EmptyLog, EmptyCapture
<1>3. dump.CurrentState = "IDLE" /\ dump.PendingState = "IDLE" /\ dump.StateCounter = 0
  BY <1>1 DEF IdleDump
<1>4. \A t \in Tasks : adding[t] = "none"  BY <1>1
<1>5. MutexHeld  BY <1>1, <1>3, <1>4, PerfAssumption DEF MutexHeld, Adding, HoldingStates
<1>6. RingExact
  <2>1. 0 % BufferSize = 0 /\ 0 < BufferSize /\ 1..0 = {}  BY RingPositions, ModSmall
  <2> QED BY <1>2, <2>1 DEF RingExact, Kept
<1>7. TriggerExact  BY <1>2, <1>4 DEF TriggerExact
<1>8. Ordered /\ Written  BY <1>3 DEF Ordered, Written
<1> QED BY <1>5, <1>6, <1>7, <1>8, PerfTypeInit DEF PerfInv

LEMMA PerfInvStep == PerfInv /\ [Next]_vars => PerfInv'
BY PerfSteps, PerfTypeStep, MutexStep, RingStep, TriggerStep, OrderedStep, WrittenStep DEF PerfInv

(* A whole dump file is the last entries of the capture, each once and in  *)
(* order, whatever came between the turns of the dump; of a log that       *)
(* stopped itself, the trigger is where the mode puts it                   *)
(* (CFE_ES_PerfLogAdd and CFE_ES_RunPerfLogDump).                          *)
THEOREM DumpsHold == Spec => []DumpIsWindow
<1>1. ASSUME PerfInv PROVE DumpIsWindow
  <2> SUFFICES ASSUME dump.CurrentState = "CLEANUP", file.ok
               PROVE  /\ file.entries = Wanted
                      /\ capture.stoppedItself =>
                           file.entries[Len(file.entries) + 1 - EntriesWanted(MetaData.Mode)] = capture.trigger
    BY DEF DumpIsWindow, DumpWhole, Wanted
  <2>a. PerfType /\ RingExact /\ TriggerExact /\ Written  BY <1>1 DEF PerfInv
  <2>b. /\ file.entries \in Seq(Nat) /\ capture.count \in Nat /\ capture.trigger \in Nat
        /\ EntriesWanted(MetaData.Mode) \in 1..BufferSize /\ BufferSize \in Nat
    BY <2>a, RingPositions, WantedType DEF PerfType, FileRec, CaptureType, LogType
  <2>1. file.entries = Wanted
    <3>1. Len(file.entries) = Len(Wanted) /\ \A i \in 1..Len(file.entries) : file.entries[i] = Wanted[i]
      BY <2>a DEF Written
    <3>2. Wanted \in Seq(Nat)  BY <2>a, WantedFacts
    <3> PICK w \in Seq(Nat) : w = Wanted  BY <3>2
    <3> QED BY <2>b, <3>1, SeqEqual, Zenon
  <2>2. ASSUME capture.stoppedItself
        PROVE  file.entries[Len(file.entries) + 1 - EntriesWanted(MetaData.Mode)] = capture.trigger
    <3> PICK w \in 1..BufferSize : w = EntriesWanted(MetaData.Mode)  BY <2>b
    <3>1. ~capture.cut /\ capture.trigger > 0 /\ capture.count + 1 = capture.trigger + w
      BY <2>a, <2>2 DEF TriggerExact
    <3>2. /\ Wanted = Window /\ Len(Wanted) = Kept /\ Kept \in Nat
          /\ \A i \in 1..Kept : Wanted[i] = capture.count - Kept + i
      BY <2>a, <3>1, WantedFacts
    <3>3. w <= Kept  BY <2>b, <3>1 DEF Kept
    <3> PICK i \in 1..Kept : i = Kept + 1 - w  BY <2>b, <3>2, <3>3
    <3>4. Wanted[i] = capture.count - Kept + i  BY <3>2
    <3> PICK n \in Nat, m \in Nat, g \in Nat : n = capture.count /\ m = Kept /\ g = capture.trigger
      BY <2>b, <3>2
    <3>a. w \in Nat /\ i = m + 1 - w /\ n + 1 = g + w  BY <2>b, <3>1
    <3>b. n - m + i = g  BY <3>a
    <3>5. capture.count - Kept + i = capture.trigger  BY <3>b
    <3> QED BY <2>1, <3>2, <3>4, <3>5
  <2> QED BY <2>1, <2>2
<1> QED BY PerfInvInit, PerfInvStep, <1>1, PTL DEF Spec
=============================================================================
