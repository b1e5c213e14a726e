------------------------------ MODULE TimeProofs ------------------------------
(***************************************************************************)
(* Proofs about Time Services, for every value of the constants: first of  *)
(* the reference data that are read without a lock (TimeReference), then   *)
(* of the time at the tone (TimeTone).                                     *)
(***************************************************************************)
EXTENDS TimeReference, TimeTone, SequenceTheorems, TLAPS

-----------------------------------------------------------------------------
(* The inductive invariant *)

Updating == update # NoUpdate

(* The TIME task works on the buffer after the one last published.         *)
UpdateInv ==
  /\ Updating => /\ update.version = LastVersionCounter + 1
                 /\ LastVersionCounter < MaxVersion
                 /\ ReferenceState[Slot(update.version)].version = update.version
  /\ ~Updating => update.todo = << >>

(* As many versions as there are buffers are kept; an update under way     *)
(* takes the oldest of them.                                               *)
Oldest == LastVersionCounter + (IF Updating THEN 2 ELSE 1) - Depth

VersionsKept ==
  \A v \in 2..LastVersionCounter : v >= Oldest => ReferenceState[Slot(v)].version = v

(* No tone of the future is in a buffer, or on its way to one.             *)
LatchesPast ==
  /\ \A s \in 0..(Depth - 1) : ReferenceState[s].word["AtToneLatch"] <= localClock
  /\ \A i \in 1..Len(update.todo) :
       update.todo[i].word = "AtToneLatch" => update.todo[i].value <= localClock

\* The version that was the last one when a call began, and the value of one since then.
First(r) == LastVersionCounter + 1 - Len(during[r])
ValueOf(r, v) == during[r][v + 1 - First(r)]

(* A buffer which still has a version that was published during the call   *)
(* has its value.                                                          *)
BuffersTrue(r) ==
  \A v \in First(r)..LastVersionCounter :
    ReferenceState[Slot(v)].version = v => ReferenceState[Slot(v)].word = ValueOf(r, v)

\* What the attempts that failed tell about the publications meanwhile.
Failed(r) == (Retries - read[r].retry) * (Depth - 1)

AttemptsPaid(r) ==
  IF read[r].at = "again" THEN LastVersionCounter >= First(r) + Failed(r)
  ELSE read[r].version >= First(r) + Failed(r)

\* What has been copied is of the version, if it is still there.
CopyTrue(r) ==
  \A w \in Words :
    (\A i \in 1..Len(read[r].todo) : read[r].todo[i] # w)
      => (Whole(r) => read[r].word[w] = ValueOf(r, read[r].version)[w])

ReaderInv(r) ==
  /\ read[r].at = "none" <=> during[r] = << >>
  /\ read[r].at # "copy" => read[r].todo = << >>
  /\ read[r].at # "none" =>
       /\ First(r) >= 2
       /\ read[r].version \in First(r)..LastVersionCounter
       /\ BuffersTrue(r)
       /\ \A i \in 1..Len(during[r]) : during[r][i]["AtToneLatch"] <= localClock
       /\ AttemptsPaid(r)
  /\ read[r].at = "copy" =>
       /\ ValueOf(r, read[r].version)["AtToneLatch"] <= read[r].latch
       /\ CopyTrue(r)

RefInv ==
  /\ TypeOK
  /\ UpdateInv
  /\ VersionsKept
  /\ LatchesPast
  /\ \A r \in Readers : ReaderInv(r)

-----------------------------------------------------------------------------
(* Type correctness *)

LEMMA SlotType == \A v \in Nat : Slot(v) \in 0..(Depth - 1)
BY DepthAssumption DEF Slot

(* Versions less than the number of buffers apart have buffers of their own. *)
LEMMA SlotsApart ==
  ASSUME NEW v \in Nat, NEW u \in Nat, v < u, u < v + Depth
  PROVE  Slot(v) # Slot(u)
<1>1. Depth \in Nat \ {0}  BY DepthAssumption
<1> DEFINE p == v \div Depth
           q == u \div Depth
<1>2. p \in Nat /\ v = Depth * p + (v % Depth)  BY <1>1
<1>3. q \in Nat /\ u = Depth * q + (u % Depth)  BY <1>1
<1> HIDE DEF p, q
<1> SUFFICES ASSUME v % Depth = u % Depth PROVE FALSE  BY DEF Slot
<1>4. v % Depth \in Nat  BY <1>1
<1>5. u - v = Depth * q - Depth * p  BY <1>1, <1>2, <1>3, <1>4
<1>6. Depth * q - Depth * p = Depth * (q - p)  BY <1>1, <1>2, <1>3
<1>7. u - v = Depth * (q - p)  BY <1>5, <1>6
<1>8. CASE q - p <= 0
  <2>1. Depth * (q - p) <= 0  BY <1>1, <1>2, <1>3, <1>8
  <2> QED BY <1>7, <2>1
<1>9. CASE q - p >= 1
  <2>1. Depth * (q - p) >= Depth  BY <1>1, <1>2, <1>3, <1>9
  <2> QED BY <1>1, <1>7, <2>1
<1> QED BY <1>2, <1>3, <1>8, <1>9

Write == [word : Words, value : Nat]

LEMMA ZeroedType == Zeroed \in Value
BY DEF Zeroed, Value

LEMMA WritesType ==
  ASSUME NEW change \in Changes, NEW word \in Value
  PROVE  /\ Writes(change, word) \in Seq(Write)
         /\ Everything \in Changes
<1>1. /\ Everything \in [1..3 -> Words]
      /\ <<"AtToneMET", "AtToneLatch">> \in [1..2 -> Words]
      /\ <<"ClockState">> \in [1..1 -> Words]
  BY DEF Everything, Words
<1>2. PICK n \in {1, 2, 3} : change \in [1..n -> Words]  BY <1>1 DEF Changes
<1>3. \A i \in 1..n : [word |-> change[i], value |-> word[change[i]]] \in Write
  BY <1>2 DEF Write, Value
<1>4. Writes(change, word) \in [1..n -> Write]  BY <1>2, <1>3 DEF Writes
<1>5. n \in Nat  OBVIOUS
<1>6. Writes(change, word) \in Seq(Write)  BY <1>4, <1>5, SeqDef
<1> QED BY <1>6 DEF Changes

LEMMA TypeInit == Init => TypeOK
<1> SUFFICES ASSUME Init PROVE TypeOK  OBVIOUS
<1>1. ReferenceState \in [0..(Depth - 1) -> [version : Nat, word : Value]]
  <2>1. NoVersion \in Nat  BY BoundAssumption DEF NoVersion
  <2> QED BY <2>1, ZeroedType DEF Init
<1>2. << >> \in Seq(Write) /\ << >> \in Seq(Words) /\ << >> \in Seq(Value)  BY EmptySeq
<1>3. update \in [version : Nat, todo : Seq(Write)]
  <2> QED BY <1>2 DEF Init, NoUpdate
<1>4. 0 \in 0..Retries /\ 0 \in 0..localClock /\ localClock \in 0..MaxClock /\ LastVersionCounter \in 2..MaxVersion
  BY BoundAssumption, RetriesAssumption DEF Init
<1>5. NoRead \in [at : {"none", "again", "latch", "copy"}, version : Nat, retry : 0..Retries,
                  latch : 0..localClock, todo : Seq(Words), word : Value]
  BY <1>2, <1>4, ZeroedType DEF NoRead
<1> QED BY <1>1, <1>2, <1>3, <1>4, <1>5, ZeroedType DEF Init, TypeOK, Write

LEMMA TypeStep == TypeOK /\ UpdateInv /\ [Next]_vars => TypeOK'
<1> SUFFICES ASSUME TypeOK, UpdateInv, [Next]_vars PROVE TypeOK'  OBVIOUS
<1> DEFINE Slots == 0..(Depth - 1)
           Read(clock) == [at : {"none", "again", "latch", "copy"}, version : Nat, retry : 0..Retries,
                           latch : 0..clock, todo : Seq(Words), word : Value]
<1>a. /\ ReferenceState \in [Slots -> [version : Nat, word : Value]]
      /\ LastVersionCounter \in 2..MaxVersion /\ LastVersionCounter \in Nat
      /\ localClock \in 0..MaxClock
      /\ update \in [version : Nat, todo : Seq(Write)]
      /\ read \in [Readers -> Read(localClock)]
      /\ during \in [Readers -> Seq(Value)]
      /\ answer \in [Readers -> Value]
  BY BoundAssumption DEF TypeOK, Write
<1>b. << >> \in Seq(Write) /\ << >> \in Seq(Words) /\ << >> \in Seq(Value)  BY EmptySeq
<1>c. \A v \in Nat : Slot(v) \in Slots  BY SlotType
<1>d. Published \in Value  BY <1>a, <1>c DEF Published
<1>e. NoRead \in Read(localClock)
  <2>1. 0 \in 0..Retries /\ 0 \in 0..localClock  BY <1>a, BoundAssumption, RetriesAssumption
  <2> QED BY <1>b, <2>1, ZeroedType DEF NoRead
<1>f. ReadOrder \in Seq(Words)
  <2>1. ReadOrder \in [1..3 -> Words]  BY DEF ReadOrder, Words
  <2> QED BY <2>1, SeqDef
<1>g. \A v \in Words : \A s \in Seq(Words) : s # << >> => Head(s) \in Words /\ Tail(s) \in Seq(Words)
  BY HeadTailProperties
<1>1. CASE Tick
  <2>1. localClock' \in 0..MaxClock /\ \A l \in 0..localClock : l \in 0..localClock'
    BY <1>1, <1>a, BoundAssumption DEF Tick
  <2>2. \A x \in Read(localClock) : x \in Read(localClock')  BY <2>1
  <2>3. read' \in [Readers -> Read(localClock')]
    <3> HIDE DEF Read
    <3> QED BY <1>1, <1>a, <2>2 DEF Tick
  <2> QED BY <1>1, <1>a, <2>1, <2>3 DEF Tick, TypeOK, Write
<1>2. ASSUME NEW change \in Changes, NEW latch \in 0..MaxClock, StartReferenceUpdate(change, latch)
      PROVE  TypeOK'
  <2> DEFINE version == LastVersionCounter + 1
             new == [w \in Words |-> IF w = "AtToneLatch" THEN latch ELSE version]
  <2>1. version \in Nat /\ new \in Value  BY <1>a DEF Value
  <2>2. Writes(Everything, Published) \o Writes(change, new) \in Seq(Write)
    <3> HIDE DEF new
    <3>1. Writes(Everything, Published) \in Seq(Write) /\ Writes(change, new) \in Seq(Write)
      BY <1>d, <2>1, WritesType
    <3> QED BY <3>1, ConcatProperties
  <2>3. update' \in [version : Nat, todo : Seq(Write)]
    <3> QED BY <1>2, <2>1, <2>2 DEF StartReferenceUpdate
  <2>4. ReferenceState' \in [Slots -> [version : Nat, word : Value]]
    BY <1>2, <1>a, <2>1 DEF StartReferenceUpdate
  <2> QED BY <1>2, <1>a, <2>3, <2>4 DEF StartReferenceUpdate, TypeOK, Write
<1>3. CASE WriteWord
  <2>1. Head(update.todo) \in Write /\ Tail(update.todo) \in Seq(Write)
    <3> QED BY <1>3, <1>a, HeadTailProperties DEF WriteWord
  <2>2. update' \in [version : Nat, todo : Seq(Write)]
    <3> QED BY <1>3, <1>a, <2>1 DEF WriteWord
  <2>3. Head(update.todo).word \in Words /\ Head(update.todo).value \in Nat  BY <2>1 DEF Write
  <2>4. ReferenceState' \in [Slots -> [version : Nat, word : Value]]
    <3> DEFINE x == Head(update.todo)
    <3>1. ReferenceState' = [ReferenceState EXCEPT ![Slot(update.version)].word[x.word] = x.value]
      BY <1>3 DEF WriteWord
    <3> HIDE DEF x
    <3> QED BY <1>a, <2>3, <3>1 DEF x, Value
  <2> QED BY <1>3, <1>a, <2>2, <2>4 DEF WriteWord, TypeOK, Write
<1>4. CASE FinishReferenceUpdate
  <2> DEFINE value == ReferenceState[Slot(update.version)].word
  <2>1. update.version \in Nat  BY <1>a
  <2>2. value \in Value  BY <1>a, <1>c, <2>1
  <2>3. during' \in [Readers -> Seq(Value)]
    <3> HIDE DEF value
    <3>1. \A s \in Seq(Value) : Append(s, value) \in Seq(Value)  BY <2>2
    <3> QED BY <1>4, <1>a, <1>b, <3>1 DEF FinishReferenceUpdate, value
  <2>4. update.version \in 2..MaxVersion
    BY <1>4, <1>a, BoundAssumption DEF FinishReferenceUpdate, UpdateInv, Updating
  <2>5. update' \in [version : Nat, todo : Seq(Write)]
    <3> QED BY <1>4, <1>b DEF FinishReferenceUpdate, NoUpdate
  <2> QED BY <1>4, <1>a, <2>3, <2>4, <2>5 DEF FinishReferenceUpdate, TypeOK, Write
<1>h. ASSUME NEW r \in Readers, NEW x \in Read(localClock), read' = [read EXCEPT ![r] = x],
             localClock' = localClock
      PROVE  read' \in [Readers -> Read(localClock')]
  <2> HIDE DEF Read
  <2> QED BY <1>a, <1>h
<1>5. ASSUME NEW r \in Readers, GetReference(r) PROVE TypeOK'
  <2>1. [NoRead EXCEPT !.at = "latch", !.retry = Retries, !.version = LastVersionCounter] \in Read(localClock)
    <3>1. \A x \in Read(localClock), v \in Nat, n \in 0..Retries :
            [x EXCEPT !.at = "latch", !.retry = n, !.version = v] \in Read(localClock)
      OBVIOUS
    <3>2. Retries \in 0..Retries  BY RetriesAssumption
    <3> HIDE DEF Read
    <3> QED BY <1>a, <1>e, <3>1, <3>2
  <2>2. read' \in [Readers -> Read(localClock')]  BY <1>5, <1>h, <2>1 DEF GetReference
  <2>3. <<Published>> \in Seq(Value)  BY <1>d
  <2>4. during' \in [Readers -> Seq(Value)]  BY <1>5, <1>a, <2>3 DEF GetReference
  <2>5. answer' \in [Readers -> Value]  BY <1>5, <1>a, ZeroedType DEF GetReference
  <2> QED BY <1>5, <1>a, <2>2, <2>4, <2>5 DEF GetReference, TypeOK, Write
<1>6. ASSUME NEW r \in Readers, GetReferenceAgain(r) \/ LatchClock(r) \/ ReadWord(r) \/ Retry(r)
      PROVE  TypeOK'
  <2>1. read[r] \in Read(localClock)  BY <1>a
  <2>2. CASE GetReferenceAgain(r)
    <3>1. [read[r] EXCEPT !.at = "latch", !.version = LastVersionCounter] \in Read(localClock)
      BY <1>a, <2>1
    <3>2. read' \in [Readers -> Read(localClock')]
      <4>1. read' = [read EXCEPT ![r] = [read[r] EXCEPT !.at = "latch", !.version = LastVersionCounter]]
            /\ localClock' = localClock
        BY <2>2 DEF GetReferenceAgain
      <4> HIDE DEF Read
      <4> QED BY <1>h, <3>1, <4>1
    <3> QED BY <2>2, <1>a, <3>2 DEF GetReferenceAgain, TypeOK, Write
  <2>3. CASE LatchClock(r)
    <3>1. localClock \in 0..localClock  BY <1>a, BoundAssumption
    <3>2. [read[r] EXCEPT !.at = "copy", !.latch = localClock, !.todo = ReadOrder] \in Read(localClock)
      BY <1>f, <2>1, <3>1
    <3>3. read' \in [Readers -> Read(localClock')]
      <4>1. read' = [read EXCEPT ![r] = [read[r] EXCEPT !.at = "copy", !.latch = localClock, !.todo = ReadOrder]]
            /\ localClock' = localClock
        BY <2>3 DEF LatchClock
      <4> HIDE DEF Read
      <4> QED BY <1>h, <3>2, <4>1
    <3> QED BY <2>3, <1>a, <3>3 DEF LatchClock, TypeOK, Write
  <2>4. CASE ReadWord(r)
    <3> DEFINE w == Head(read[r].todo)
               val == ReferenceState[Slot(read[r].version)].word[w]
    <3>1. w \in Words /\ Tail(read[r].todo) \in Seq(Words)  BY <2>4, <1>g, <2>1 DEF ReadWord, Words
    <3>2. ReferenceState[Slot(read[r].version)].word \in Value  BY <1>a, <1>c, <2>1
    <3>3. val \in Nat  BY <3>1, <3>2 DEF Value
    <3>4. \A t \in Seq(Words), u \in Words, n \in Nat :
            [read[r] EXCEPT !.todo = t, !.word[u] = n] \in Read(localClock)
      BY <2>1 DEF Value
    <3>5. read' = [read EXCEPT ![r] = [read[r] EXCEPT !.todo = Tail(read[r].todo), !.word[w] = val]]
      BY <2>4, <1>a DEF ReadWord
    <3> HIDE DEF w, val
    <3>6. [read[r] EXCEPT !.todo = Tail(read[r].todo), !.word[w] = val] \in Read(localClock)
      BY <3>1, <3>3, <3>4
    <3>7. read' \in [Readers -> Read(localClock')]
      <4>1. localClock' = localClock  BY <2>4 DEF ReadWord
      <4> HIDE DEF Read
      <4> QED BY <1>h, <3>5, <3>6, <4>1
    <3> QED BY <2>4, <1>a, <3>7 DEF ReadWord, TypeOK, Write
  <2>5. CASE Retry(r)
    <3>1. read[r].retry - 1 \in 0..Retries  BY <2>1, <2>5, RetriesAssumption DEF Retry
    <3>2. [read[r] EXCEPT !.at = "again", !.retry = @ - 1] \in Read(localClock)  BY <2>1, <3>1
    <3>3. read' \in [Readers -> Read(localClock')]
      <4>1. read' = [read EXCEPT ![r] = [read[r] EXCEPT !.at = "again", !.retry = @ - 1]]
            /\ localClock' = localClock
        BY <2>5 DEF Retry
      <4> HIDE DEF Read
      <4> QED BY <1>h, <3>2, <4>1
    <3> QED BY <2>5, <1>a, <3>3 DEF Retry, TypeOK, Write
  <2> QED BY <1>6, <2>2, <2>3, <2>4, <2>5
<1>7. ASSUME NEW r \in Readers, ReturnReference(r) \/ GetReferenceFail(r) PROVE TypeOK'
  <2>1. read[r].word \in Value  BY <1>a
  <2>2. read' = [read EXCEPT ![r] = NoRead] /\ localClock' = localClock
        /\ during' = [during EXCEPT ![r] = << >>]
    BY <1>7 DEF ReturnReference, GetReferenceFail
  <2>3. read' \in [Readers -> Read(localClock')]  BY <1>h, <1>e, <2>2
  <2>4. during' \in [Readers -> Seq(Value)]  BY <1>a, <1>b, <2>2
  <2>5. answer' \in [Readers -> Value]  BY <1>7, <1>a, <2>1 DEF ReturnReference, GetReferenceFail
  <2> QED BY <1>7, <1>a, <2>3, <2>4, <2>5 DEF ReturnReference, GetReferenceFail, TypeOK, Write
<1>8. CASE UNCHANGED vars
  BY <1>8, <1>a DEF vars, TypeOK, Write
<1> QED BY <1>1, <1>2, <1>3, <1>4, <1>5, <1>6, <1>7, <1>8 DEF Next

-----------------------------------------------------------------------------
(* The TIME task *)

LEMMA Bounds ==
  ASSUME TypeOK
  PROVE  /\ LastVersionCounter \in Nat /\ LastVersionCounter >= 2
         /\ localClock \in Nat /\ Depth \in Nat /\ Depth >= 2
         /\ Oldest \in Int /\ Oldest <= LastVersionCounter
BY BoundAssumption, DepthAssumption DEF TypeOK, Oldest

(* The buffer being changed has no version that was published.             *)
LEMMA NextSlot ==
  ASSUME TypeOK
  PROVE  /\ LastVersionCounter + 1 \in Nat
         /\ Slot(LastVersionCounter + 1) \in 0..(Depth - 1)
         /\ Slot(LastVersionCounter) \in 0..(Depth - 1)
         /\ Slot(LastVersionCounter) # Slot(LastVersionCounter + 1)
<1>1. LastVersionCounter \in Nat /\ LastVersionCounter + 1 \in Nat  BY Bounds
<1>2. LastVersionCounter < LastVersionCounter + 1 /\ LastVersionCounter + 1 < LastVersionCounter + Depth
  BY Bounds
<1> QED BY <1>1, <1>2, SlotType, SlotsApart

LEMMA WriterInit == Init => UpdateInv /\ VersionsKept /\ LatchesPast
<1> SUFFICES ASSUME Init PROVE UpdateInv /\ VersionsKept /\ LatchesPast  OBVIOUS
<1>1. UpdateInv  BY DEF Init, UpdateInv, Updating, NoUpdate
<1>2. VersionsKept
  <2>1. Slot(2) \in 0..(Depth - 1)  BY SlotType
  <2>2. ReferenceState[Slot(2)].version = 2  BY <2>1 DEF Init
  <2> QED BY <2>2 DEF Init, VersionsKept
<1>3. LatchesPast
  <2>1. update.todo = << >>  BY DEF Init, NoUpdate
  <2> QED BY <2>1 DEF Init, LatchesPast, Zeroed, Words
<1> QED BY <1>1, <1>2, <1>3

LEMMA StartWriter ==
  ASSUME TypeOK, TypeOK', UpdateInv, VersionsKept, LatchesPast,
         NEW change \in Changes, NEW latch \in 0..MaxClock, StartReferenceUpdate(change, latch)
  PROVE  UpdateInv' /\ VersionsKept' /\ LatchesPast'
<1> DEFINE version == LastVersionCounter + 1
           new == [w \in Words |-> IF w = "AtToneLatch" THEN latch ELSE version]
           Slots == 0..(Depth - 1)
<1>1. /\ ReferenceState' = [ReferenceState EXCEPT ![Slot(version)].version = version]
      /\ update' = [version |-> version, todo |-> Writes(Everything, Published) \o Writes(change, new)]
      /\ LastVersionCounter' = LastVersionCounter /\ localClock' = localClock
      /\ update = NoUpdate /\ LastVersionCounter < MaxVersion /\ latch <= localClock
  BY DEF StartReferenceUpdate
<1>2. ReferenceState \in [Slots -> [version : Nat, word : Value]]  BY DEF TypeOK
<1>3. version \in Nat /\ Slot(version) \in Slots  BY NextSlot
<1>4. \A s \in Slots : /\ ReferenceState'[s].word = ReferenceState[s].word
                       /\ ReferenceState'[s].version =
                            IF s = Slot(version) THEN version ELSE ReferenceState[s].version
  BY <1>1, <1>2
<1>5. update'.version = version /\ Updating' /\ ~Updating
  BY <1>1, Bounds DEF Updating, NoUpdate
<1>6. UpdateInv'  BY <1>1, <1>3, <1>4, <1>5 DEF UpdateInv
<1>7. VersionsKept'
  <2> SUFFICES ASSUME NEW v \in 2..LastVersionCounter, v >= LastVersionCounter + 2 - Depth
               PROVE  ReferenceState'[Slot(v)].version = v
    BY <1>1, <1>5 DEF VersionsKept, Oldest
  <2>1. v \in Nat /\ v < version /\ version < v + Depth /\ v >= LastVersionCounter + 1 - Depth
    BY Bounds
  <2>2. Slot(v) # Slot(version) /\ Slot(v) \in Slots  BY <1>3, <2>1, SlotsApart, SlotType
  <2>3. ReferenceState[Slot(v)].version = v  BY <1>5, <2>1 DEF VersionsKept, Oldest
  <2> QED BY <1>4, <2>2, <2>3
<1>8. LatchesPast'
  <2>1. \A s \in Slots : ReferenceState'[s].word["AtToneLatch"] <= localClock'
    BY <1>1, <1>4 DEF LatchesPast
  <2>2. Published \in Value /\ Published["AtToneLatch"] <= localClock
    BY <1>2, NextSlot DEF Published, LatchesPast
  <2>3. new \in Value /\ new["AtToneLatch"] <= localClock  BY <1>1, <1>3 DEF Value, Words
  <2>4. ASSUME NEW c \in Changes, NEW word \in Value, word["AtToneLatch"] <= localClock,
               NEW i \in 1..Len(Writes(c, word)), Writes(c, word)[i].word = "AtToneLatch"
        PROVE  Writes(c, word)[i].value <= localClock
    <3>1. DOMAIN Writes(c, word) = 1..Len(Writes(c, word))
      BY WritesType, LenProperties
    <3>2. Writes(c, word)[i] = [word |-> c[i], value |-> word[c[i]]]  BY <3>1 DEF Writes
    <3>3. c[i] = "AtToneLatch"  BY <2>4, <3>2
    <3> QED BY <2>4, <3>2, <3>3
  <2>5. ASSUME NEW i \in 1..Len(update'.todo), update'.todo[i].word = "AtToneLatch"
        PROVE  update'.todo[i].value <= localClock
    <3> DEFINE a == Writes(Everything, Published)
               b == Writes(change, new)
    <3>1. Everything \in Changes  BY DEF Changes
    <3>2. a \in Seq(Write) /\ b \in Seq(Write)  BY <2>2, <2>3, <3>1, WritesType
    <3>3. update'.todo = a \o b  BY <1>1
    <3> HIDE DEF a, b
    <3>4. Len(a) \in Nat /\ Len(b) \in Nat  BY <3>2, LenProperties
    <3>5. /\ Len(a \o b) = Len(a) + Len(b)
          /\ i \in 1..(Len(a) + Len(b))
          /\ (a \o b)[i] = IF i <= Len(a) THEN a[i] ELSE b[i - Len(a)]
      BY <3>2, <3>3, ConcatProperties
    <3>6. CASE i <= Len(a)
      <4>1. i \in 1..Len(a) /\ update'.todo[i] = a[i]  BY <3>3, <3>4, <3>5, <3>6
      <4> QED BY <2>2, <2>4, <2>5, <3>1, <4>1 DEF a
    <3>7. CASE ~(i <= Len(a))
      <4>1. i - Len(a) \in 1..Len(b) /\ update'.todo[i] = b[i - Len(a)]
        BY <3>3, <3>4, <3>5, <3>7
      <4> QED BY <2>3, <2>4, <2>5, <4>1 DEF b
    <3> QED BY <3>6, <3>7
  <2> QED BY <1>1, <2>1, <2>5 DEF LatchesPast
<1> QED BY <1>6, <1>7, <1>8

LEMMA WriteWriter ==
  ASSUME TypeOK, TypeOK', UpdateInv, VersionsKept, LatchesPast, WriteWord
  PROVE  /\ UpdateInv' /\ VersionsKept' /\ LatchesPast'
         /\ \A s \in 0..(Depth - 1) :
              /\ ReferenceState'[s].version = ReferenceState[s].version
              /\ s # Slot(LastVersionCounter + 1) => ReferenceState'[s] = ReferenceState[s]
         /\ ReferenceState[Slot(LastVersionCounter + 1)].version = LastVersionCounter + 1
<1> DEFINE x == Head(update.todo)
           Slots == 0..(Depth - 1)
<1>1. /\ ReferenceState' = [ReferenceState EXCEPT ![Slot(update.version)].word[x.word] = x.value]
      /\ update' = [update EXCEPT !.todo = Tail(update.todo)]
      /\ LastVersionCounter' = LastVersionCounter /\ localClock' = localClock
      /\ update.todo # << >>
  BY DEF WriteWord
<1>2. Updating /\ update.version = LastVersionCounter + 1 /\ LastVersionCounter < MaxVersion
      /\ ReferenceState[Slot(update.version)].version = update.version
  BY <1>1 DEF UpdateInv, Updating, NoUpdate
<1>3. /\ ReferenceState \in [Slots -> [version : Nat, word : Value]]
      /\ update \in [version : Nat, todo : Seq(Write)]
  BY DEF TypeOK, Write
<1>4. /\ x \in Write /\ Tail(update.todo) \in Seq(Write)
      /\ Len(Tail(update.todo)) = Len(update.todo) - 1
      /\ \A i \in 1..Len(Tail(update.todo)) : Tail(update.todo)[i] = update.todo[i + 1]
      /\ Len(update.todo) \in Nat \ {0} /\ x = update.todo[1]
  <2>1. update.todo \in Seq(Write)  BY <1>3
  <2> QED BY <1>1, <2>1, HeadTailProperties, EmptySeq
<1>5. update'.version = update.version /\ update'.todo = Tail(update.todo)  BY <1>1, <1>3
<1>6. Updating'  BY <1>2, <1>5, Bounds DEF Updating, NoUpdate
<1> HIDE DEF x
<1>7. \A s \in Slots :
        /\ ReferenceState'[s].version = ReferenceState[s].version
        /\ s # Slot(LastVersionCounter + 1) => ReferenceState'[s] = ReferenceState[s]
  BY <1>1, <1>2, <1>3
<1>8. UpdateInv'
  <2>1. Slot(update.version) \in Slots  BY <1>3, SlotType
  <2> QED BY <1>1, <1>2, <1>5, <1>6, <1>7, <2>1 DEF UpdateInv
<1>9. VersionsKept'
  <2> SUFFICES ASSUME NEW v \in 2..LastVersionCounter, v >= Oldest
               PROVE  ReferenceState'[Slot(v)].version = v
    BY <1>1, <1>2, <1>6 DEF VersionsKept, Oldest
  <2>1. Slot(v) \in Slots  BY SlotType
  <2> QED BY <1>7, <2>1 DEF VersionsKept
<1>10. LatchesPast'
  <2>1. x.word = "AtToneLatch" => x.value <= localClock
    BY <1>4 DEF LatchesPast
  <2>2. ASSUME NEW s \in Slots PROVE ReferenceState'[s].word["AtToneLatch"] <= localClock
    <3>1. x.word \in Words /\ "AtToneLatch" \in Words  BY <1>4 DEF Write, Words
    <3>2. ReferenceState[s].word \in [Words -> Nat]  BY <1>3 DEF Value
    <3>3. CASE s = Slot(update.version)
      <4>1. ReferenceState'[s].word = [ReferenceState[s].word EXCEPT ![x.word] = x.value]
        BY <1>1, <1>3, <3>3
      <4> QED BY <2>1, <3>1, <3>2, <4>1 DEF LatchesPast
    <3>4. CASE s # Slot(update.version)
      BY <1>2, <1>7, <3>4 DEF LatchesPast
    <3> QED BY <3>3, <3>4
  <2>3. ASSUME NEW i \in 1..Len(update'.todo), update'.todo[i].word = "AtToneLatch"
        PROVE  update'.todo[i].value <= localClock
    <3>1. i + 1 \in 1..Len(update.todo) /\ update'.todo[i] = update.todo[i + 1]
      BY <1>4, <1>5
    <3> QED BY <2>3, <3>1 DEF LatchesPast
  <2> QED BY <1>1, <2>2, <2>3 DEF LatchesPast
<1> QED BY <1>2, <1>7, <1>8, <1>9, <1>10

LEMMA FinishWriter ==
  ASSUME TypeOK, TypeOK', UpdateInv, VersionsKept, LatchesPast, FinishReferenceUpdate
  PROVE  /\ UpdateInv' /\ VersionsKept' /\ LatchesPast'
         /\ LastVersionCounter' = LastVersionCounter + 1
<1>1. /\ LastVersionCounter' = LastVersionCounter + 1 /\ Updating /\ update' = NoUpdate
      /\ ReferenceState' = ReferenceState /\ localClock' = localClock
      /\ ReferenceState[Slot(LastVersionCounter + 1)].version = LastVersionCounter + 1
  BY DEF FinishReferenceUpdate, UpdateInv, Updating
<1>2. ~Updating' /\ update'.todo = << >>  BY <1>1 DEF Updating, NoUpdate
<1>3. UpdateInv'  BY <1>2 DEF UpdateInv
<1>4. VersionsKept'
  <2> SUFFICES ASSUME NEW v \in 2..(LastVersionCounter + 1), v >= LastVersionCounter + 2 - Depth
               PROVE  ReferenceState[Slot(v)].version = v
    <3>1. Oldest' = LastVersionCounter + 2 - Depth  BY <1>1, <1>2, Bounds DEF Oldest
    <3> QED BY <1>1, <3>1 DEF VersionsKept
  <2>1. CASE v = LastVersionCounter + 1
    BY <1>1, <2>1
  <2>2. CASE v # LastVersionCounter + 1
    <3>1. v \in 2..LastVersionCounter  BY <2>2, Bounds
    <3> QED BY <1>1, <3>1 DEF VersionsKept, Oldest
  <2> QED BY <2>1, <2>2
<1>5. LatchesPast'
  <2>1. \A i \in 1..Len(update'.todo) : FALSE  BY <1>2
  <2> QED BY <1>1, <2>1 DEF LatchesPast
<1> QED BY <1>1, <1>3, <1>4, <1>5

(* Whatever else happens leaves what the TIME task does alone.             *)
LEMMA OtherWriter ==
  ASSUME TypeOK, TypeOK', UpdateInv, VersionsKept, LatchesPast,
         UNCHANGED <<ReferenceState, LastVersionCounter, update>>, localClock <= localClock'
  PROVE  UpdateInv' /\ VersionsKept' /\ LatchesPast'
<1>1. UpdateInv'  BY DEF UpdateInv, Updating
<1>2. VersionsKept'  BY DEF VersionsKept, Oldest, Updating
<1>3. LatchesPast'
  <2>1. localClock \in Nat /\ localClock' \in Nat  BY BoundAssumption DEF TypeOK
  <2>2. ASSUME NEW s \in 0..(Depth - 1) PROVE ReferenceState[s].word["AtToneLatch"] <= localClock'
    <3>1. ReferenceState[s].word["AtToneLatch"] \in Nat  BY DEF TypeOK, Value, Words
    <3> QED BY <2>1, <3>1 DEF LatchesPast
  <2>3. ASSUME NEW i \in 1..Len(update.todo), update.todo[i].word = "AtToneLatch"
        PROVE  update.todo[i].value <= localClock'
    <3>1. update.todo[i] \in Write  BY ElementOfSeq DEF TypeOK, Write
    <3>2. update.todo[i].value \in Nat  BY <3>1 DEF Write
    <3> QED BY <2>1, <2>3, <3>2 DEF LatchesPast
  <2> QED BY <2>2, <2>3 DEF LatchesPast
<1> QED BY <1>1, <1>2, <1>3

-----------------------------------------------------------------------------
(* The readers *)

\* What a call in progress relies on.
LEMMA ReaderTypes ==
  ASSUME TypeOK, NEW r \in Readers
  PROVE  /\ read[r].at \in {"none", "again", "latch", "copy"}
         /\ read[r].version \in Nat /\ read[r].retry \in 0..Retries /\ read[r].latch \in Nat
         /\ read[r].todo \in Seq(Words) /\ read[r].word \in Value
         /\ during[r] \in Seq(Value) /\ Len(during[r]) \in Nat
         /\ First(r) \in Int /\ First(r) <= LastVersionCounter + 1
<1>1. during[r] \in Seq(Value)  BY DEF TypeOK
<1>2. Len(during[r]) \in Nat  BY <1>1, LenProperties
<1>3. read[r] \in [at : {"none", "again", "latch", "copy"}, version : Nat, retry : 0..Retries,
                   latch : 0..localClock, todo : Seq(Words), word : Value]
  BY DEF TypeOK
<1>4. First(r) \in Int /\ First(r) <= LastVersionCounter + 1  BY <1>2, Bounds DEF First
<1> QED BY <1>1, <1>2, <1>3, <1>4, Bounds

LEMMA ReaderInit == Init => \A r \in Readers : ReaderInv(r)
<1> SUFFICES ASSUME Init, NEW r \in Readers PROVE ReaderInv(r)  OBVIOUS
<1>1. read[r].at = "none" /\ read[r].todo = << >> /\ during[r] = << >>  BY DEF Init, NoRead
<1> QED BY <1>1 DEF ReaderInv

(* A call goes on as before while other tasks only change buffers that no  *)
(* longer have the version they had.                                       *)
LEMMA OthersReader ==
  ASSUME TypeOK, TypeOK', NEW r \in Readers, ReaderInv(r),
         LastVersionCounter' = LastVersionCounter, localClock <= localClock',
         read'[r] = read[r], during'[r] = during[r],
         \A v \in 2..LastVersionCounter :
           ReferenceState'[Slot(v)].version = v => ReferenceState'[Slot(v)] = ReferenceState[Slot(v)]
  PROVE  ReaderInv(r)'
<1>1. First(r)' = First(r)  BY DEF First
<1>2. \A v : ValueOf(r, v)' = ValueOf(r, v)  BY <1>1 DEF ValueOf
<1>3. AttemptsPaid(r)' <=> AttemptsPaid(r)  BY <1>1 DEF AttemptsPaid, Failed
<1>4. ASSUME read[r].at # "none"
      PROVE  /\ BuffersTrue(r)'
             /\ \A i \in 1..Len(during[r]) : during[r][i]["AtToneLatch"] <= localClock'
             /\ Whole(r)' => Whole(r)
  <2>1. First(r) >= 2 /\ First(r) \in Int /\ read[r].version \in First(r)..LastVersionCounter
        /\ BuffersTrue(r)
    BY <1>4, ReaderTypes DEF ReaderInv
  <2>2. \A v \in First(r)..LastVersionCounter : v \in 2..LastVersionCounter  BY <2>1, Bounds
  <2>3. BuffersTrue(r)'
    <3> SUFFICES ASSUME NEW v \in First(r)..LastVersionCounter, ReferenceState'[Slot(v)].version = v
                 PROVE  ReferenceState'[Slot(v)].word = ValueOf(r, v)
      BY <1>1, <1>2 DEF BuffersTrue
    <3>1. ReferenceState'[Slot(v)] = ReferenceState[Slot(v)]  BY <2>2
    <3> QED BY <2>1, <3>1 DEF BuffersTrue
  <2>4. ASSUME NEW i \in 1..Len(during[r])
        PROVE  during[r][i]["AtToneLatch"] <= localClock'
    <3>1. during[r][i] \in Value  BY ReaderTypes, ElementOfSeq
    <3>2. during[r][i]["AtToneLatch"] \in Nat  BY <3>1 DEF Value, Words
    <3>3. localClock \in Nat /\ localClock' \in Nat  BY BoundAssumption DEF TypeOK
    <3>4. during[r][i]["AtToneLatch"] <= localClock  BY <1>4 DEF ReaderInv
    <3> QED BY <3>2, <3>3, <3>4
  <2>5. Whole(r)' => Whole(r)  BY <2>1, <2>2 DEF Whole
  <2> QED BY <2>3, <2>4, <2>5
<1>5. ASSUME read[r].at = "copy" PROVE CopyTrue(r)'
  <2>1. CopyTrue(r)  BY <1>5 DEF ReaderInv
  <2> QED BY <1>2, <1>4, <1>5, <2>1 DEF CopyTrue
<1> QED BY <1>1, <1>2, <1>3, <1>4, <1>5 DEF ReaderInv

LEMMA StartReader ==
  ASSUME TypeOK, TypeOK', NEW r \in Readers, ReaderInv(r),
         NEW change \in Changes, NEW latch \in 0..MaxClock, StartReferenceUpdate(change, latch)
  PROVE  ReaderInv(r)'
<1> DEFINE version == LastVersionCounter + 1
<1>1. /\ ReferenceState' = [ReferenceState EXCEPT ![Slot(version)].version = version]
      /\ UNCHANGED <<LastVersionCounter, localClock, read, during>>
  BY DEF StartReferenceUpdate
<1>2. ASSUME NEW v \in 2..LastVersionCounter, ReferenceState'[Slot(v)].version = v
      PROVE  ReferenceState'[Slot(v)] = ReferenceState[Slot(v)]
  <2>1. Slot(v) \in 0..(Depth - 1) /\ v # version  BY SlotType, Bounds
  <2>2. Slot(v) # Slot(version)  BY <1>1, <1>2, <2>1 DEF TypeOK
  <2> QED BY <1>1, <2>2
<1>3. localClock <= localClock'  BY <1>1, Bounds
<1> QED BY <1>1, <1>2, <1>3, OthersReader

LEMMA WriteReader ==
  ASSUME TypeOK, TypeOK', UpdateInv, VersionsKept, LatchesPast, NEW r \in Readers, ReaderInv(r), WriteWord
  PROVE  ReaderInv(r)'
<1>1. UNCHANGED <<LastVersionCounter, localClock, read, during>>  BY DEF WriteWord
<1>2. ASSUME NEW v \in 2..LastVersionCounter, ReferenceState'[Slot(v)].version = v
      PROVE  ReferenceState'[Slot(v)] = ReferenceState[Slot(v)]
  <2>1. Slot(v) \in 0..(Depth - 1) /\ v # LastVersionCounter + 1  BY SlotType, Bounds
  <2> QED BY <1>2, <2>1, WriteWriter
<1>3. localClock <= localClock'  BY <1>1, Bounds
<1> QED BY <1>1, <1>2, <1>3, OthersReader

LEMMA FinishReader ==
  ASSUME TypeOK, TypeOK', UpdateInv, LatchesPast, NEW r \in Readers, ReaderInv(r), FinishReferenceUpdate
  PROVE  ReaderInv(r)'
<1> DEFINE value == ReferenceState[Slot(LastVersionCounter + 1)].word
<1>1. /\ update.version = LastVersionCounter + 1 /\ LastVersionCounter' = LastVersionCounter + 1
      /\ UNCHANGED <<ReferenceState, localClock, read>>
      /\ during'[r] = IF during[r] = << >> THEN << >> ELSE Append(during[r], value)
  BY DEF FinishReferenceUpdate, UpdateInv, Updating
<1>2. CASE during[r] = << >>
  BY <1>1, <1>2 DEF ReaderInv
<1>3. CASE during[r] # << >>
  <2> DEFINE d == during[r]
             n == Len(during[r])
  <2>1. /\ read[r].at # "none" /\ First(r) >= 2 /\ First(r) \in Int
        /\ read[r].version \in First(r)..LastVersionCounter /\ BuffersTrue(r) /\ AttemptsPaid(r)
        /\ \A i \in 1..n : d[i]["AtToneLatch"] <= localClock
    BY <1>3, ReaderTypes DEF ReaderInv
  <2>2. value \in Value /\ value["AtToneLatch"] <= localClock
    BY NextSlot DEF TypeOK, LatchesPast
  <2>3. d \in Seq(Value) /\ n \in Nat  BY ReaderTypes
  <2> HIDE DEF value, d, n
  <2>4. /\ during'[r] = Append(d, value) /\ Append(d, value) # << >>
        /\ Len(during'[r]) = n + 1 /\ during'[r][n + 1] = value
        /\ \A i \in 1..n : during'[r][i] = d[i]
    BY <1>1, <1>3, <2>2, <2>3 DEF d, n
  <2>5. First(r)' = First(r) /\ First(r) = LastVersionCounter + 1 - n
    <3>1. First(r) = LastVersionCounter + 1 - n  BY DEF First, n
    <3>2. First(r)' = LastVersionCounter' + 1 - Len(during'[r])  BY DEF First
    <3>3. First(r)' = (LastVersionCounter + 1) + 1 - (n + 1)  BY <1>1, <2>4, <3>2
    <3> QED BY <2>3, <3>1, <3>3, Bounds
  <2>6. ASSUME NEW v \in First(r)..LastVersionCounter PROVE ValueOf(r, v)' = ValueOf(r, v)
    <3>1. v + 1 - First(r) \in 1..n  BY <2>1, <2>3, <2>5, Bounds
    <3>2. ValueOf(r, v) = d[v + 1 - First(r)]  BY DEF ValueOf, d
    <3>3. ValueOf(r, v)' = during'[r][v + 1 - First(r)]  BY <2>5 DEF ValueOf
    <3> QED BY <2>4, <3>1, <3>2, <3>3
  <2>7. ASSUME NEW v, v = LastVersionCounter + 1 PROVE ValueOf(r, v)' = value
    <3>1. v + 1 - First(r) = n + 1  BY <2>3, <2>5, <2>7, Bounds
    <3>2. ValueOf(r, v)' = during'[r][v + 1 - First(r)]  BY <2>5 DEF ValueOf
    <3> QED BY <2>4, <3>1, <3>2
  <2>8. BuffersTrue(r)'
    <3> SUFFICES ASSUME NEW v \in First(r)..(LastVersionCounter + 1), ReferenceState[Slot(v)].version = v
                 PROVE  ReferenceState[Slot(v)].word = ValueOf(r, v)'
      BY <1>1, <2>5 DEF BuffersTrue
    <3>1. CASE v = LastVersionCounter + 1
      BY <2>7, <3>1 DEF value
    <3>2. CASE v # LastVersionCounter + 1
      <4>1. v \in First(r)..LastVersionCounter  BY <2>1, <3>2, Bounds
      <4> QED BY <2>1, <2>6, <4>1 DEF BuffersTrue
    <3> QED BY <3>1, <3>2
  <2>9. \A i \in 1..Len(during'[r]) : during'[r][i]["AtToneLatch"] <= localClock'
    <3> SUFFICES ASSUME NEW i \in 1..(n + 1) PROVE during'[r][i]["AtToneLatch"] <= localClock
      BY <1>1, <2>4
    <3>1. i = n + 1 \/ i \in 1..n  BY <2>3
    <3> QED BY <2>1, <2>2, <2>4, <3>1
  <2>10. AttemptsPaid(r)'
    <3>1. Failed(r)' = Failed(r)  BY <1>1 DEF Failed
    <3>2. Failed(r) \in Int
      <4>1. Retries - read[r].retry \in Int /\ Depth - 1 \in Int
        BY ReaderTypes, RetriesAssumption, DepthAssumption
      <4> QED BY <4>1 DEF Failed
    <3> QED BY <1>1, <2>1, <2>5, <3>1, <3>2, Bounds DEF AttemptsPaid
  <2>11. read[r].version \in First(r)..(LastVersionCounter + 1)  BY <2>1, Bounds
  <2>12. ValueOf(r, read[r].version)' = ValueOf(r, read[r].version)  BY <1>1, <2>1, <2>6
  <2>13. Whole(r)' <=> Whole(r)  BY <1>1 DEF Whole
  <2>14. CopyTrue(r)' <=> CopyTrue(r)  BY <1>1, <2>12, <2>13 DEF CopyTrue
  <2> QED BY <1>1, <2>1, <2>4, <2>5, <2>8, <2>9, <2>10, <2>11, <2>12, <2>14 DEF ReaderInv
<1> QED BY <1>2, <1>3

(* The steps of a call.                                                    *)
LEMMA BeginReader ==
  ASSUME TypeOK, TypeOK', VersionsKept, LatchesPast, NEW r \in Readers, GetReference(r)
  PROVE  ReaderInv(r)'
<1>1. /\ UNCHANGED <<ReferenceState, LastVersionCounter, localClock>>
      /\ read'[r] = [NoRead EXCEPT !.at = "latch", !.retry = Retries, !.version = LastVersionCounter]
      /\ during'[r] = <<Published>>
  BY DEF GetReference, TypeOK
<1>2. read'[r].at = "latch" /\ read'[r].todo = << >> /\ read'[r].retry = Retries
      /\ read'[r].version = LastVersionCounter
  BY <1>1 DEF NoRead
<1>3. First(r)' = LastVersionCounter  BY <1>1, Bounds DEF First
<1>4. BuffersTrue(r)'
  <2> SUFFICES ASSUME NEW v, v = LastVersionCounter
               PROVE  ReferenceState[Slot(v)].word = ValueOf(r, v)'
    BY <1>1, <1>3, Bounds DEF BuffersTrue
  <2>1. v + 1 - First(r)' = 1  BY <1>3, Bounds
  <2>2. ValueOf(r, v)' = during'[r][1]  BY <2>1 DEF ValueOf
  <2> QED BY <1>1, <2>2 DEF Published
<1>5. \A i \in 1..Len(during'[r]) : during'[r][i]["AtToneLatch"] <= localClock'
  <2>1. Published["AtToneLatch"] <= localClock  BY NextSlot DEF Published, LatchesPast
  <2> QED BY <1>1, <2>1
<1>6. AttemptsPaid(r)'
  <2>1. Failed(r)' = 0
    <3>1. Failed(r)' = (Retries - Retries) * (Depth - 1)  BY <1>2 DEF Failed
    <3> QED BY <3>1, RetriesAssumption, DepthAssumption
  <2> QED BY <1>2, <1>3, <2>1, Bounds DEF AttemptsPaid
<1> QED BY <1>1, <1>2, <1>3, <1>4, <1>5, <1>6, Bounds DEF ReaderInv

(* What only a step of the call itself changes.                            *)
LEMMA OwnReader ==
  ASSUME NEW r \in Readers,
         UNCHANGED <<ReferenceState, LastVersionCounter, localClock, during>>
  PROVE  /\ First(r)' = First(r)
         /\ BuffersTrue(r)' <=> BuffersTrue(r)
         /\ \A v : ValueOf(r, v)' = ValueOf(r, v)
         /\ read'[r].version = read[r].version => (Whole(r)' <=> Whole(r))
<1>1. First(r)' = First(r)  BY DEF First
<1>2. \A v : ValueOf(r, v)' = ValueOf(r, v)  BY <1>1 DEF ValueOf
<1>3. BuffersTrue(r)' <=> BuffersTrue(r)  BY <1>1, <1>2 DEF BuffersTrue
<1>4. read'[r].version = read[r].version => (Whole(r)' <=> Whole(r))  BY DEF Whole
<1> QED BY <1>1, <1>2, <1>3, <1>4

LEMMA AgainReader ==
  ASSUME TypeOK, TypeOK', NEW r \in Readers, ReaderInv(r), GetReferenceAgain(r)
  PROVE  ReaderInv(r)'
<1>1. /\ UNCHANGED <<ReferenceState, LastVersionCounter, localClock, during>>
      /\ read[r].at = "again" /\ read'[r].at = "latch" /\ read'[r].version = LastVersionCounter
      /\ read'[r].retry = read[r].retry /\ read'[r].todo = read[r].todo
  BY DEF GetReferenceAgain, TypeOK
<1>2. AttemptsPaid(r)'
  <2>1. LastVersionCounter >= First(r) + Failed(r)  BY <1>1 DEF ReaderInv, AttemptsPaid
  <2>2. Failed(r)' = Failed(r)  BY <1>1 DEF Failed
  <2> QED BY <1>1, <2>1, <2>2, OwnReader DEF AttemptsPaid
<1>3. LastVersionCounter \in First(r)..LastVersionCounter
  BY <1>1, ReaderTypes, Bounds DEF ReaderInv
<1> QED BY <1>1, <1>2, <1>3, OwnReader DEF ReaderInv

LEMMA LatchReader ==
  ASSUME TypeOK, TypeOK', NEW r \in Readers, ReaderInv(r), LatchClock(r)
  PROVE  ReaderInv(r)'
<1>1. /\ UNCHANGED <<ReferenceState, LastVersionCounter, localClock, during>>
      /\ read[r].at = "latch" /\ read'[r].at = "copy" /\ read'[r].version = read[r].version
      /\ read'[r].retry = read[r].retry /\ read'[r].todo = ReadOrder /\ read'[r].latch = localClock
  BY DEF LatchClock, TypeOK
<1>2. AttemptsPaid(r)'
  <2>1. read[r].version >= First(r) + Failed(r)  BY <1>1 DEF ReaderInv, AttemptsPaid
  <2>2. Failed(r)' = Failed(r)  BY <1>1 DEF Failed
  <2> QED BY <1>1, <2>1, <2>2, OwnReader DEF AttemptsPaid
<1>3. ValueOf(r, read[r].version)["AtToneLatch"] <= localClock
  <2>1. read[r].version \in First(r)..LastVersionCounter
        /\ \A i \in 1..Len(during[r]) : during[r][i]["AtToneLatch"] <= localClock
    BY <1>1 DEF ReaderInv
  <2>2. read[r].version + 1 - First(r) \in 1..Len(during[r])
    <3> DEFINE n == Len(during[r])
               v == read[r].version
    <3>1. First(r) = LastVersionCounter + 1 - n /\ n \in Nat /\ v \in Nat /\ LastVersionCounter \in Nat
      BY ReaderTypes, Bounds DEF First
    <3>2. v \in First(r)..LastVersionCounter  BY <2>1
    <3> HIDE DEF n, v
    <3>3. v + 1 - First(r) \in 1..n  BY <3>1, <3>2
    <3> QED BY <3>3 DEF n, v
  <2> QED BY <2>1, <2>2 DEF ValueOf
<1>4. CopyTrue(r)'
  <2>1. \A w \in Words : \E i \in 1..Len(ReadOrder) : ReadOrder[i] = w
    <3>1. Len(ReadOrder) = 3 /\ ReadOrder[1] = "AtToneMET" /\ ReadOrder[2] = "AtToneLatch"
          /\ ReadOrder[3] = "ClockState"
      BY DEF ReadOrder
    <3>2. 1 \in 1..3 /\ 2 \in 1..3 /\ 3 \in 1..3  OBVIOUS
    <3> QED BY <3>1, <3>2 DEF Words
  <2> QED BY <1>1, <2>1 DEF CopyTrue
<1> QED BY <1>1, <1>2, <1>3, <1>4, OwnReader DEF ReaderInv

LEMMA WordReader ==
  ASSUME TypeOK, TypeOK', NEW r \in Readers, ReaderInv(r), ReadWord(r)
  PROVE  ReaderInv(r)'
<1> DEFINE todo == read[r].todo
           x == ReferenceState[Slot(read[r].version)].word[Head(todo)]
<1>1. /\ UNCHANGED <<ReferenceState, LastVersionCounter, localClock, during>>
      /\ read'[r] = [read[r] EXCEPT !.todo = Tail(todo), !.word[Head(todo)] = x]
      /\ todo # << >>
  BY DEF ReadWord, TypeOK
<1>2. read[r].at = "copy"  BY <1>1 DEF ReaderInv
<1>3. /\ read'[r].at = "copy" /\ read'[r].version = read[r].version /\ read'[r].retry = read[r].retry
      /\ read'[r].latch = read[r].latch /\ read'[r].todo = Tail(todo)
      /\ read'[r].word = [read[r].word EXCEPT ![Head(todo)] = x]
  <2>1. read[r] \in [at : {"none", "again", "latch", "copy"}, version : Nat, retry : 0..Retries,
                     latch : 0..localClock, todo : Seq(Words), word : Value]
    BY DEF TypeOK
  <2> HIDE DEF x, todo
  <2> QED BY <1>1, <1>2, <2>1
<1>4. /\ todo \in Seq(Words) /\ Len(todo) \in Nat \ {0} /\ Head(todo) = todo[1] /\ Head(todo) \in Words
      /\ Len(Tail(todo)) = Len(todo) - 1
      /\ \A i \in 1..Len(Tail(todo)) : Tail(todo)[i] = todo[i + 1]
  <2>1. todo \in Seq(Words)  BY ReaderTypes
  <2> QED BY <1>1, <2>1, HeadTailProperties, EmptySeq
<1> HIDE DEF todo
<1>5. AttemptsPaid(r)'
  <2>1. read[r].version >= First(r) + Failed(r)  BY <1>2 DEF ReaderInv, AttemptsPaid
  <2>2. Failed(r)' = Failed(r)  BY <1>3 DEF Failed
  <2> QED BY <1>1, <1>3, <2>1, <2>2, OwnReader DEF AttemptsPaid
<1>6. CopyTrue(r)'
  <2> SUFFICES ASSUME NEW w \in Words, \A i \in 1..Len(Tail(todo)) : Tail(todo)[i] # w, Whole(r)
               PROVE  read'[r].word[w] = ValueOf(r, read[r].version)[w]
    <3>1. ValueOf(r, read[r].version)' = ValueOf(r, read[r].version)
      BY <1>1, <1>3, OwnReader DEF ValueOf
    <3>2. Whole(r)' <=> Whole(r)  BY <1>1, <1>3, OwnReader
    <3> QED BY <1>3, <3>1, <3>2 DEF CopyTrue
  <2>1. BuffersTrue(r) /\ read[r].version \in First(r)..LastVersionCounter /\ CopyTrue(r)
    BY <1>2 DEF ReaderInv
  <2>2. read[r].word \in [Words -> Nat]  BY ReaderTypes DEF Value
  <2>3. CASE w = Head(todo)
    <3>1. read'[r].word[w] = x  BY <1>3, <1>4, <2>2, <2>3
    <3>2. ReferenceState[Slot(read[r].version)].word = ValueOf(r, read[r].version)
      BY <2>1 DEF Whole, BuffersTrue
    <3> QED BY <2>3, <3>1, <3>2
  <2>4. CASE w # Head(todo)
    <3>1. read'[r].word[w] = read[r].word[w]  BY <1>3, <1>4, <2>2, <2>4
    <3>2. ASSUME NEW i \in 1..Len(todo) PROVE todo[i] # w
      <4>1. CASE i = 1
        BY <1>4, <2>4, <4>1
      <4>2. CASE i # 1
        <5>1. i - 1 \in 1..Len(Tail(todo)) /\ (i - 1) + 1 = i  BY <1>4, <4>2
        <5>2. Tail(todo)[i - 1] = todo[i]  BY <1>4, <5>1
        <5> QED BY <5>1, <5>2
      <4> QED BY <4>1, <4>2
    <3> QED BY <2>1, <3>1, <3>2 DEF CopyTrue, todo
  <2> QED BY <2>3, <2>4
<1> QED BY <1>1, <1>2, <1>3, <1>5, <1>6, OwnReader DEF ReaderInv

(* An attempt that failed has seen all other buffers published meanwhile.  *)
LEMMA RetryReader ==
  ASSUME TypeOK, TypeOK', VersionsKept, NEW r \in Readers, ReaderInv(r), Retry(r)
  PROVE  ReaderInv(r)'
<1>1. /\ UNCHANGED <<ReferenceState, LastVersionCounter, localClock, during>>
      /\ read[r].at = "copy" /\ read[r].todo = << >> /\ ~Whole(r) /\ read[r].retry # 0
      /\ read'[r].at = "again" /\ read'[r].version = read[r].version
      /\ read'[r].retry = read[r].retry - 1 /\ read'[r].todo = read[r].todo
  BY DEF Retry, Copied, TypeOK
<1>2. /\ First(r) >= 2 /\ read[r].version \in First(r)..LastVersionCounter
      /\ read[r].version >= First(r) + Failed(r)
  BY <1>1 DEF ReaderInv, AttemptsPaid
<1>3. LastVersionCounter >= read[r].version + (Depth - 1)
  <2>1. read[r].version \in 2..LastVersionCounter  BY <1>2, ReaderTypes, Bounds
  <2>2. ~(read[r].version >= Oldest)  BY <1>1, <2>1 DEF VersionsKept, Whole
  <2>3. Oldest <= LastVersionCounter + 2 - Depth  BY Bounds DEF Oldest
  <2> QED BY <2>1, <2>2, <2>3, Bounds
<1>4. Failed(r)' = Failed(r) + (Depth - 1) /\ Failed(r) \in Int
  <2> DEFINE f == Retries - read[r].retry
             d == Depth - 1
  <2>1. f \in Int /\ d \in Int /\ Retries - (read[r].retry - 1) = f + 1
    BY ReaderTypes, RetriesAssumption, DepthAssumption
  <2>2. Failed(r) = f * d /\ Failed(r)' = (Retries - (read[r].retry - 1)) * d
    BY <1>1 DEF Failed
  <2> HIDE DEF f, d
  <2>3. (f + 1) * d = f * d + d /\ f * d \in Int  BY <2>1
  <2> QED BY <2>1, <2>2, <2>3 DEF d
<1>5. AttemptsPaid(r)'
  <2>1. LastVersionCounter >= First(r) + (Failed(r) + (Depth - 1))
    BY <1>2, <1>3, <1>4, ReaderTypes, Bounds
  <2> QED BY <1>1, <1>4, <2>1, OwnReader DEF AttemptsPaid
<1> QED BY <1>1, <1>5, OwnReader DEF ReaderInv

LEMMA EndReader ==
  ASSUME TypeOK, NEW r \in Readers, ReturnReference(r) \/ GetReferenceFail(r)
  PROVE  ReaderInv(r)'
<1>1. read'[r] = NoRead /\ during'[r] = << >>
  BY DEF ReturnReference, GetReferenceFail, TypeOK
<1>2. read'[r].at = "none" /\ read'[r].todo = << >>  BY <1>1 DEF NoRead
<1> QED BY <1>1, <1>2 DEF ReaderInv

-----------------------------------------------------------------------------
(* The invariant, and what it means *)

LEMMA RefInit == Init => RefInv
BY TypeInit, WriterInit, ReaderInit DEF RefInv

LEMMA RefStep == RefInv /\ [Next]_vars => RefInv'
<1> SUFFICES ASSUME TypeOK, UpdateInv, VersionsKept, LatchesPast,
                    \A r \in Readers : ReaderInv(r), [Next]_vars
             PROVE  RefInv'
  BY DEF RefInv
<1>a. TypeOK'  BY TypeStep
<1>b. ASSUME UNCHANGED <<ReferenceState, LastVersionCounter, update>>, localClock <= localClock'
      PROVE  UpdateInv' /\ VersionsKept' /\ LatchesPast'
  BY <1>a, <1>b, OtherWriter
<1>c. ASSUME UNCHANGED <<ReferenceState, LastVersionCounter>>, localClock <= localClock',
             NEW r \in Readers, read'[r] = read[r], during'[r] = during[r]
      PROVE  ReaderInv(r)'
  BY <1>a, <1>c, OthersReader
<1>d. localClock <= localClock + 1 /\ localClock <= localClock  BY Bounds
<1>1. CASE Tick
  BY <1>1, <1>a, <1>b, <1>c, <1>d DEF Tick, RefInv
<1>2. ASSUME NEW change \in Changes, NEW latch \in 0..MaxClock, StartReferenceUpdate(change, latch)
      PROVE  RefInv'
  BY <1>2, <1>a, StartWriter, StartReader DEF RefInv
<1>3. CASE WriteWord
  BY <1>3, <1>a, WriteWriter, WriteReader DEF RefInv
<1>4. CASE FinishReferenceUpdate
  BY <1>4, <1>a, FinishWriter, FinishReader DEF RefInv
<1>5. ASSUME NEW r \in Readers,
             \/ GetReference(r) \/ GetReferenceAgain(r) \/ LatchClock(r) \/ ReadWord(r)
             \/ ReturnReference(r) \/ GetReferenceFail(r) \/ Retry(r)
      PROVE  RefInv'
  <2>1. UNCHANGED <<ReferenceState, LastVersionCounter, localClock, update>>
    BY <1>5 DEF GetReference, GetReferenceAgain, LatchClock, ReadWord, ReturnReference,
                GetReferenceFail, Retry
  <2>2. UpdateInv' /\ VersionsKept' /\ LatchesPast'  BY <1>b, <1>d, <2>1
  <2>3. ReaderInv(r)'
    BY <1>5, <1>a, BeginReader, AgainReader, LatchReader, WordReader, RetryReader, EndReader
  <2>4. ASSUME NEW q \in Readers, q # r PROVE ReaderInv(q)'
    <3>1. read'[q] = read[q] /\ during'[q] = during[q]
      BY <1>5, <2>4 DEF GetReference, GetReferenceAgain, LatchClock, ReadWord, ReturnReference,
                        GetReferenceFail, Retry, TypeOK
    <3> QED BY <1>c, <1>d, <2>1, <3>1
  <2> QED BY <1>a, <2>2, <2>3, <2>4 DEF RefInv
<1>6. CASE UNCHANGED vars
  BY <1>6, <1>a, <1>b, <1>c, <1>d DEF vars, RefInv
<1> QED BY <1>1, <1>2, <1>3, <1>4, <1>5, <1>6 DEF Next

(* The clock of a whole copy is not of a time before its tone, for any     *)
(* number of buffers and of attempts (CFE_TIME_GetReference).              *)
THEOREM LatchHolds == Spec => []LatchAfterTone
<1>1. RefInv => LatchAfterTone
  <2> SUFFICES ASSUME RefInv, NEW r \in Readers, Copied(r), Whole(r)
               PROVE  read[r].word["AtToneLatch"] <= read[r].latch
    BY DEF LatchAfterTone
  <2>1. /\ ValueOf(r, read[r].version)["AtToneLatch"] <= read[r].latch
        /\ CopyTrue(r) /\ read[r].todo = << >>
    BY DEF RefInv, ReaderInv, Copied
  <2>2. read[r].word["AtToneLatch"] = ValueOf(r, read[r].version)["AtToneLatch"]
    <3>1. "AtToneLatch" \in Words /\ \A i \in 1..Len(read[r].todo) : FALSE  BY <2>1 DEF Words
    <3> QED BY <2>1, <3>1 DEF CopyTrue
  <2> QED BY <2>1, <2>2
<1> QED BY <1>1, RefInit, RefStep, PTL DEF Spec

(* What a call returns is one of the values published during it.           *)
LEMMA ReturnsValue ==
  ASSUME RefInv, NEW r \in Readers, ReturnReference(r)
  PROVE  Register!Return(r)
<1> DEFINE v == read[r].version
<1>1. /\ read[r].at = "copy" /\ read[r].todo = << >> /\ Whole(r)
      /\ answer' = [answer EXCEPT ![r] = read[r].word] /\ during' = [during EXCEPT ![r] = << >>]
      /\ UNCHANGED <<ReferenceState, LastVersionCounter>>
  BY DEF ReturnReference, Copied
<1>2. TypeOK /\ v \in First(r)..LastVersionCounter /\ CopyTrue(r) /\ BuffersTrue(r)
  BY <1>1 DEF RefInv, ReaderInv
<1>3. read[r].word = ValueOf(r, v)
  <2>1. \A w \in Words : read[r].word[w] = ValueOf(r, v)[w]
    <3>1. \A i \in 1..Len(read[r].todo) : FALSE  BY <1>1
    <3> QED BY <1>1, <1>2, <3>1 DEF CopyTrue
  <2>2. ValueOf(r, v) = ReferenceState[Slot(v)].word  BY <1>1, <1>2 DEF BuffersTrue, Whole
  <2>3. ReferenceState[Slot(v)].word \in Value /\ read[r].word \in Value
    BY <1>2, ReaderTypes, SlotType DEF TypeOK
  <2> QED BY <2>1, <2>2, <2>3 DEF Value
<1>4. v + 1 - First(r) \in DOMAIN during[r]
  <2> DEFINE n == Len(during[r])
  <2>1. First(r) = LastVersionCounter + 1 - n /\ n \in Nat /\ v \in Nat /\ LastVersionCounter \in Nat
        /\ DOMAIN during[r] = 1..n
    BY <1>2, ReaderTypes, Bounds, LenProperties DEF First
  <2> HIDE DEF n, v
  <2> QED BY <1>2, <2>1
<1>5. Published' = Published  BY <1>1 DEF Published
<1> QED BY <1>1, <1>3, <1>4, <1>5 DEF Register!Return, ValueOf

(* A call that gives up has seen so many publications.                     *)
LEMMA GivesUpLate ==
  ASSUME RefInv, NEW r \in Readers, GetReferenceFail(r)
  PROVE  Register!GiveUp(r)
<1>1. /\ read[r].at = "copy" /\ read[r].retry = 0
      /\ during' = [during EXCEPT ![r] = << >>]
      /\ UNCHANGED <<ReferenceState, LastVersionCounter, answer>>
  BY DEF GetReferenceFail, Copied
<1>2. TypeOK /\ read[r].version \in First(r)..LastVersionCounter
      /\ read[r].version >= First(r) + Failed(r)
  BY <1>1 DEF RefInv, ReaderInv, AttemptsPaid
<1>3. Failed(r) = Retries * (Depth - 1) /\ Retries * (Depth - 1) \in Nat
  <2>1. Retries - 0 = Retries /\ Retries \in Nat /\ Depth - 1 \in Nat
    BY RetriesAssumption, DepthAssumption
  <2> QED BY <1>1, <2>1 DEF Failed
<1>4. Len(during[r]) > Retries * (Depth - 1)
  <2> DEFINE n == Len(during[r])
              v == read[r].version
              t == Retries * (Depth - 1)
  <2>1. First(r) = LastVersionCounter + 1 - n /\ n \in Nat /\ v \in Nat
        /\ LastVersionCounter \in Nat /\ t \in Nat
    BY <1>2, <1>3, ReaderTypes, Bounds DEF First
  <2>2. v <= LastVersionCounter /\ v >= First(r) + t
    <3>1. v \in First(r)..LastVersionCounter /\ First(r) \in Int
      <4>1. v \in First(r)..LastVersionCounter  BY <1>2
      <4>2. First(r) \in Int
        <5> HIDE DEF n, v, t
        <5> QED BY <2>1
      <4> QED BY <4>1, <4>2
    <3>2. v >= First(r) + t  BY <1>2, <1>3
    <3> HIDE DEF v, t
    <3> QED BY <3>1, <3>2, <2>1
  <2>3. n > t
    <3> HIDE DEF n, v, t
    <3> QED BY <2>1, <2>2
  <2> QED BY <2>3
<1>5. Published' = Published  BY <1>1 DEF Published
<1> QED BY <1>1, <1>4, <1>5 DEF Register!GiveUp

LEMMA RegisterStep ==
  RefInv /\ RefInv' /\ [Next]_vars => [Register!Next]_(Register!vars)
<1> SUFFICES ASSUME RefInv, RefInv', [Next]_vars PROVE [Register!Next]_(Register!vars)
  OBVIOUS
<1>a. TypeOK /\ UpdateInv  BY DEF RefInv
<1>b. ASSUME Published' = Published, UNCHANGED <<during, answer>>
      PROVE  [Register!Next]_(Register!vars)
  BY <1>b DEF Register!vars
<1>c. ASSUME UNCHANGED <<ReferenceState, LastVersionCounter>> PROVE Published' = Published
  BY <1>c DEF Published
<1>d. Published \in Value  BY <1>a, NextSlot DEF Published, TypeOK
<1>1. CASE Tick
  BY <1>1, <1>b, <1>c DEF Tick
<1>2. ASSUME NEW change \in Changes, NEW latch \in 0..MaxClock, StartReferenceUpdate(change, latch)
      PROVE  [Register!Next]_(Register!vars)
  <2>1. Published' = Published
    BY <1>2, <1>a, NextSlot DEF StartReferenceUpdate, Published, TypeOK
  <2> QED BY <1>2, <1>b, <2>1 DEF StartReferenceUpdate
<1>3. CASE WriteWord
  <2>1. Published' = Published
    <3>1. LastVersionCounter' = LastVersionCounter  BY <1>3 DEF WriteWord
    <3>2. ReferenceState'[Slot(LastVersionCounter)] = ReferenceState[Slot(LastVersionCounter)]
      BY <1>3, NextSlot, WriteWriter DEF RefInv
    <3> QED BY <3>1, <3>2 DEF Published
  <2> QED BY <1>3, <1>b, <2>1 DEF WriteWord
<1>4. CASE FinishReferenceUpdate
  <2>2. Published' = ReferenceState[Slot(update.version)].word
    BY <1>4 DEF FinishReferenceUpdate, Published
  <2>1. Published' \in Value
    <3>1. update.version \in Nat /\ ReferenceState \in [0..(Depth - 1) -> [version : Nat, word : Value]]
      BY <1>a DEF TypeOK
    <3> QED BY <3>1, <2>2, SlotType
  <2>3. Register!Write  BY <1>4, <2>1, <2>2 DEF FinishReferenceUpdate, Register!Write
  <2> QED BY <2>3 DEF Register!Next
<1>5. ASSUME NEW r \in Readers, GetReference(r) PROVE [Register!Next]_(Register!vars)
  <2>1. during[r] = << >>  BY <1>5 DEF GetReference, RefInv, ReaderInv
  <2>2. Published' = Published  BY <1>5, <1>c DEF GetReference
  <2>3. Register!Begin(r)  BY <1>5, <2>1, <2>2 DEF GetReference, Register!Begin
  <2> QED BY <2>3 DEF Register!Next
<1>6. ASSUME NEW r \in Readers, GetReferenceAgain(r) \/ LatchClock(r) \/ ReadWord(r) \/ Retry(r)
      PROVE  [Register!Next]_(Register!vars)
  BY <1>6, <1>b, <1>c DEF GetReferenceAgain, LatchClock, ReadWord, Retry
<1>7. ASSUME NEW r \in Readers, ReturnReference(r) \/ GetReferenceFail(r)
      PROVE  [Register!Next]_(Register!vars)
  BY <1>7, ReturnsValue, GivesUpLate DEF Register!Next
<1>8. CASE UNCHANGED vars
  BY <1>8, <1>b, <1>c DEF vars
<1> QED BY <1>1, <1>2, <1>3, <1>4, <1>5, <1>6, <1>7, <1>8 DEF Next

(* To the tasks that ask for the time the versioned buffers without a lock *)
(* are one register, for any number of buffers, attempts and readers; and  *)
(* a call gives up only after Retries * (Depth - 1) publications.          *)
THEOREM ReferenceIsRegister == Spec => ActsAsRegister
<1>1. Init => Register!Init
  <2> SUFFICES ASSUME Init PROVE Register!Init  OBVIOUS
  <2>1. TypeOK  BY TypeInit
  <2>2. Published \in Value  BY <2>1, NextSlot DEF Published, TypeOK
  <2> QED BY <2>2 DEF Init, Register!Init
<1> QED BY <1>1, RefInit, RefStep, RegisterStep, PTL DEF Spec, ActsAsRegister, Register!Spec

-----------------------------------------------------------------------------
(* The inductive invariant *)

\* How far into its second the true time is, and how long ago and when the last tone was taken.
Sec       == now % Second
SinceTone == Elapsed(tone.latch, LocalTime)
ToneTime  == now - SinceTone

\* How long it is to the next 1Hz message that is handled.
ToOneHz == IF phase > Sec THEN phase - Sec ELSE phase + Second - Sec
Rest    == IF "onehz" \in due THEN 0 ELSE ToOneHz

(* The latch of the tone tells the second it struck, before the local      *)
(* clock comes round to it; with no tone missed, that is the last one, and *)
(* a server has counted it.                                                *)
ToneInv ==
  /\ ToneTime \in Nat /\ ToneTime % Second = 0
  /\ "tone" \notin due => SinceTone + (Second - Sec) < MaxLocal
  /\ ~missed => SinceTone = IF "tone" \in due /\ now # 0 THEN Second ELSE Sec
  /\ role = "server" /\ ~missed => Second * VirtualMET = ToneTime

(* The latch of the reference is moved before the local clock comes round  *)
(* to it: by a pair or, when there is none, by a 1Hz message.              *)
LatchInv ==
  /\ ~ref.fly => TimeSinceTone + Rest < (StartFly + 1) * Second
  /\ ref.fly => TimeSinceTone + Rest < MaxLocal

(* A packet is of a second, not too long ago, and tells which one.         *)
PacketInv ==
  \A p \in packets :
    /\ p.sent <= now /\ now - p.sent <= MaxDelay /\ p.sent % Second = 0
    /\ role = "client" => p.met = p.sent
    /\ role = "server" /\ ~missed => p.met = Second * Seconds(p.sent)

TimeInv ==
  /\ ToneTypeOK
  /\ due \subseteq Due(now)
  /\ ToneInv /\ LatchInv /\ PacketInv
  /\ role = "server" => synced
  /\ Informed => CurrentMET = now

-----------------------------------------------------------------------------
(* Seconds, and the local clock.                                           *)

(* Quotient and remainder.                                                 *)
LEMMA ModDef ==
  ASSUME NEW n \in Nat \ {0}, NEW a \in Nat
  PROVE  a % n \in 0..(n - 1) /\ \E q \in Nat : a = n * q + (a % n)
<1> DEFINE q == a \div n
<1>1. a % n \in 0..(n - 1) /\ q \in Nat /\ a = n * q + (a % n)  OBVIOUS
<1> HIDE DEF q
<1> QED BY <1>1

(* A multiple of n that is less than n away from 0 is 0.                   *)
LEMMA SmallMultiple ==
  ASSUME NEW n \in Nat \ {0}, NEW k \in Int, -n < n * k, n * k < n
  PROVE  k = 0
<1>1. CASE k >= 1
  <2> PICK j \in Nat : k = j + 1  BY <1>1
  <2>1. n * k = n * j + n /\ n * j >= 0  OBVIOUS
  <2> QED BY <2>1
<1>2. CASE k <= -1
  <2> PICK j \in Nat : k = -(j + 1)  BY <1>2
  <2>1. n * k = -(n * j) - n /\ n * j >= 0  OBVIOUS
  <2> QED BY <2>1
<1> QED BY <1>1, <1>2

(* The remainder is the only one.                                          *)
LEMMA ModUnique ==
  ASSUME NEW n \in Nat \ {0}, NEW a \in Int, NEW q \in Int, NEW r \in 0..(n - 1), a = n * q + r
  PROVE  a % n = r
<1> DEFINE p == a \div n
<1>1. p \in Int /\ a = n * p + (a % n) /\ a % n \in 0..(n - 1)  OBVIOUS
<1> HIDE DEF p
<1>2. n * p - n * q = n * (p - q)  BY <1>1
<1>3. n * (p - q) = r - (a % n)  BY <1>1, <1>2
<1>4. p - q = 0  BY <1>1, <1>3, SmallMultiple
<1>5. n * (p - q) = 0  BY <1>4
<1> QED BY <1>1, <1>3, <1>5

(* What the next number leaves.                                            *)
LEMMA ModNext ==
  ASSUME NEW n \in Nat \ {0}, NEW a \in Nat
  PROVE  (a + 1) % n = IF (a % n) + 1 = n THEN 0 ELSE (a % n) + 1
<1> PICK q \in Nat : a = n * q + (a % n)  BY ModDef
<1> PICK r \in 0..(n - 1) : r = a % n  BY ModDef
<1> PICK b \in Nat : b = a + 1  OBVIOUS
<1>1. CASE r + 1 = n
  <2> PICK k \in Nat : k = q + 1  OBVIOUS
  <2>1. n * k = n * q + n  OBVIOUS
  <2>2. b = n * k + 0 /\ 0 \in 0..(n - 1) /\ k \in Int /\ b \in Int  BY <1>1, <2>1
  <2>3. b % n = 0  BY <2>2, ModUnique, Zenon
  <2> QED BY <1>1, <2>3
<1>2. CASE r + 1 # n
  <2> PICK s \in 0..(n - 1) : s = r + 1  BY <1>2
  <2> PICK m \in Nat : m = n * q  OBVIOUS
  <2>0. a = m + r  OBVIOUS
  <2>1. b = n * q + s /\ q \in Int /\ b \in Int  BY <2>0
  <2>2. b % n = s  BY <2>1, ModUnique, Zenon
  <2> QED BY <1>2, <2>2
<1> QED BY <1>1, <1>2

(* The last multiple of n is the only one less than n ago.                 *)
LEMMA LastMultiple ==
  ASSUME NEW n \in Nat \ {0}, NEW x \in Nat, NEW a \in Nat, a % n = 0, a <= x, x - a < n
  PROVE  a = x - (x % n)
<1> PICK q \in Nat : a = n * q + (a % n)  BY ModDef
<1> PICK r \in 0..(n - 1) : r = x - a  OBVIOUS
<1>1. x = n * q + r /\ q \in Int /\ x \in Int  OBVIOUS
<1>2. x % n = r  BY <1>1, ModUnique, Zenon
<1> QED BY <1>2

(* Whole seconds.                                                          *)
LEMMA SecondsFacts ==
  ASSUME NEW t \in Nat
  PROVE  /\ Seconds(t) \in Nat /\ Second * Seconds(t) = t - (t % Second)
         /\ \A s \in Nat : Seconds(t) < s => t < s * Second
<1>1. Second \in Nat \ {0}  BY UnitsAssumption
<1> DEFINE q == t \div Second
<1>2. t % Second \in 0..(Second - 1) /\ q \in Nat /\ t = Second * q + (t % Second)  BY <1>1
<1>3. Seconds(t) = q  BY DEF Seconds
<1> HIDE DEF q
<1>4. Second * q = t - (t % Second)  BY <1>1, <1>2
<1>5. ASSUME NEW s \in Nat, q < s PROVE t < s * Second
  <2> PICK j \in Nat : s = q + 1 + j  BY <1>2, <1>5
  <2>1. (q + 1 + j) * Second = Second * q + Second + j * Second /\ j * Second >= 0  BY <1>1, <1>2
  <2> QED BY <1>1, <1>2, <2>1
<1> QED BY <1>2, <1>3, <1>4, <1>5

(* The bounds of RollOverAssumption in units.                              *)
LEMMA ToneBounds ==
  /\ Second \in Nat \ {0} /\ MaxLocal \in Nat \ {0} /\ Second < MaxLocal
  /\ (StartFly + 1) * Second \in Nat /\ 2 * Second <= (StartFly + 1) * Second
  /\ (StartFly + 1) * Second + Second < MaxLocal
  /\ LatchFly * Second \in Nat /\ LatchFly * Second + Second < MaxLocal
  /\ StartFly * Second + Second = (StartFly + 1) * Second
  /\ StartFly \in Nat /\ LatchFly \in Nat
<1>1. /\ Second \in Nat \ {0} /\ MaxLocal \in Nat /\ StartFly \in Nat \ {0} /\ LatchFly \in Nat \ {0}
      /\ MaxLocal > (StartFly + 2) * Second /\ MaxLocal > (LatchFly + 2) * Second
  BY UnitsAssumption, RollOverAssumption
<1> PICK i \in Nat, j \in Nat : StartFly = i + 1 /\ LatchFly = j + 1  BY <1>1
<1> PICK x \in Nat, y \in Nat : x = i * Second /\ y = j * Second  BY <1>1
<1>2. /\ StartFly * Second = x + Second /\ LatchFly * Second = y + Second
      /\ (StartFly + 1) * Second = x + 2 * Second
      /\ (StartFly + 2) * Second = x + 3 * Second /\ (LatchFly + 2) * Second = y + 3 * Second
  BY <1>1
<1> QED BY <1>1, <1>2

(* The local clock.                                                        *)
LEMMA LocalClock ==
  ASSUME now \in Nat
  PROVE  /\ LocalTime \in 0..(MaxLocal - 1)
         /\ \A from \in 0..(MaxLocal - 1) : Elapsed(from, LocalTime) \in 0..(MaxLocal - 1)
         /\ Elapsed(LocalTime, LocalTime) = 0
         /\ Sec \in 0..(Second - 1)
<1>1. LocalTime \in 0..(MaxLocal - 1)  BY ToneBounds, ModDef DEF LocalTime
<1>2. Sec \in 0..(Second - 1)  BY ToneBounds, ModDef DEF Sec
<1> QED BY <1>1, <1>2, ToneBounds DEF Elapsed

(* Time goes on on it, unless it comes round.                              *)
LEMMA ClockTick ==
  ASSUME now \in Nat, now' = now + 1, NEW from \in 0..(MaxLocal - 1), Elapsed(from, LocalTime) + 1 < MaxLocal
  PROVE  Elapsed(from, LocalTime') = Elapsed(from, LocalTime) + 1
<1>1. LocalTime \in 0..(MaxLocal - 1)  BY LocalClock
<1>2. LocalTime' = IF LocalTime + 1 = MaxLocal THEN 0 ELSE LocalTime + 1
  BY ToneBounds, ModNext DEF LocalTime
<1> QED BY <1>1, <1>2, ToneBounds DEF Elapsed

-----------------------------------------------------------------------------
(* The initial state, and time.                                            *)

LEMMA InvInit == ToneInit => TimeInv
<1> SUFFICES ASSUME ToneInit PROVE TimeInv  OBVIOUS
<1>1. /\ now = 0 /\ role \in {"server", "client"} /\ phase \in 0..(Second - 1) /\ due = Due(0)
      /\ ref = [met |-> 0, latch |-> 0, set |-> FALSE, fly |-> TRUE]
      /\ tone = [latch |-> 0, good |-> FALSE] /\ prev = [tone |-> 0, data |-> 0]
      /\ VirtualMET = 0 /\ Forced2Fly = FALSE /\ ServerFly = TRUE /\ packets = {}
      /\ synced = (role = "server") /\ missed = FALSE
  BY DEF ToneInit
<1>2. 0 \in 0..MaxNow /\ 0 \in 0..(MaxLocal - 1)  BY ToneBounds, DelayAssumption
<1>3. 0 % MaxLocal = 0 /\ 0 % Second = 0
  <2>1. 0 = MaxLocal * 0 + 0 /\ 0 = Second * 0 + 0 /\ 0 \in 0..(Second - 1)  BY ToneBounds
  <2> QED BY <1>2, <2>1, ToneBounds, ModUnique
<1>4. LocalTime = 0 /\ SinceTone = 0 /\ TimeSinceTone = 0 /\ ToneTime = 0 /\ Sec = 0
  BY <1>1, <1>3 DEF LocalTime, SinceTone, TimeSinceTone, ToneTime, Elapsed, Sec
<1>5. due \subseteq {"tone", "data", "onehz"} /\ synced \in BOOLEAN  BY <1>1 DEF Due
<1>6. ToneTypeOK
  <2>1. ref \in [met : Int, latch : 0..(MaxLocal - 1), set : BOOLEAN, fly : BOOLEAN]  BY <1>1, <1>2
  <2>2. /\ tone \in [latch : 0..(MaxLocal - 1), good : BOOLEAN]
        /\ prev \in [tone : 0..(MaxLocal - 1), data : 0..(MaxLocal - 1)]
    BY <1>1, <1>2
  <2> QED BY <1>1, <1>2, <1>5, <2>1, <2>2 DEF ToneTypeOK
<1>7. ToneInv
  <2>1. Second * 0 = 0  BY ToneBounds
  <2> QED BY <1>1, <1>3, <1>4, <2>1, ToneBounds DEF ToneInv
<1>8. Rest \in 0..Second  BY <1>1, <1>4, ToneBounds DEF Rest, ToOneHz
<1>9. LatchInv  BY <1>1, <1>4, <1>8, ToneBounds DEF LatchInv
<1>10. PacketInv  BY <1>1 DEF PacketInv
<1>11. CurrentMET = now  BY <1>1, <1>4 DEF CurrentMET
<1> QED BY <1>1, <1>6, <1>7, <1>9, <1>10, <1>11 DEF TimeInv

(* What the invariant says of the sizes of things.                         *)
LEMMA Sizes ==
  ASSUME TimeInv
  PROVE  /\ now \in Nat /\ Second \in Nat \ {0} /\ MaxLocal \in Nat /\ phase \in 0..(Second - 1)
         /\ ref.met \in Int /\ ref.latch \in 0..(MaxLocal - 1) /\ tone.latch \in 0..(MaxLocal - 1)
         /\ ref.fly \in BOOLEAN /\ VirtualMET \in Int
         /\ LocalTime \in 0..(MaxLocal - 1) /\ Sec \in 0..(Second - 1)
         /\ SinceTone \in 0..(MaxLocal - 1) /\ TimeSinceTone \in 0..(MaxLocal - 1)
         /\ ToOneHz \in 1..Second /\ Rest \in 0..Second
         /\ role \in {"server", "client"}
         /\ "tone" \in due \/ "data" \in due => Sec = 0
         /\ "onehz" \in due => Sec = phase
<1>1. /\ now \in Nat /\ phase \in 0..(Second - 1) /\ ref.met \in Int /\ ref.latch \in 0..(MaxLocal - 1)
      /\ ref.fly \in BOOLEAN /\ tone.latch \in 0..(MaxLocal - 1) /\ VirtualMET \in Int
      /\ role \in {"server", "client"}
  BY DEF TimeInv, ToneTypeOK
<1>2. LocalTime \in 0..(MaxLocal - 1) /\ Sec \in 0..(Second - 1)  BY <1>1, LocalClock
<1>3. SinceTone \in 0..(MaxLocal - 1) /\ TimeSinceTone \in 0..(MaxLocal - 1)
  BY <1>1, LocalClock DEF SinceTone, TimeSinceTone
<1>4. ToOneHz \in 1..Second  BY <1>1, <1>2, ToneBounds DEF ToOneHz
<1>5. Rest \in 0..Second  BY <1>4, ToneBounds DEF Rest
<1>6. ("tone" \in due \/ "data" \in due => Sec = 0) /\ ("onehz" \in due => Sec = phase)
  BY DEF TimeInv, Due, Sec
<1> QED BY <1>1, <1>2, <1>3, <1>4, <1>5, <1>6, ToneBounds

LEMMA TickStep == TimeInv /\ UnitPasses => TimeInv'
<1> SUFFICES ASSUME TimeInv, UnitPasses PROVE TimeInv'  OBVIOUS
<1>1. /\ now < MaxNow /\ due = {} /\ now' = now + 1 /\ due' = Due(now + 1)
      /\ \A p \in packets : now - p.sent < MaxDelay
      /\ UNCHANGED <<role, phase, ref, tone, prev, VirtualMET, Forced2Fly, ServerFly, packets, synced, missed>>
  BY DEF UnitPasses
<1>a. ToneTypeOK /\ ToneInv /\ LatchInv /\ PacketInv /\ (role = "server" => synced) /\ (Informed => CurrentMET = now)
  BY DEF TimeInv
<1>2. SinceTone + 1 < MaxLocal
  <2>1. SinceTone + (Second - Sec) < MaxLocal /\ Second - Sec >= 1  BY <1>1, <1>a, Sizes DEF ToneInv
  <2> QED BY <2>1, Sizes
<1>3. TimeSinceTone + Rest < MaxLocal /\ Rest = ToOneHz
  <2>1. Rest = ToOneHz  BY <1>1 DEF Rest
  <2>2. CASE ref.fly  BY <1>a, <2>1, <2>2 DEF LatchInv
  <2>3. CASE ~ref.fly
    <3>1. TimeSinceTone + Rest < (StartFly + 1) * Second  BY <1>a, <2>3 DEF LatchInv
    <3> QED BY <2>1, <3>1, ToneBounds, Sizes
  <2> QED BY <2>2, <2>3
<1>4. TimeSinceTone + 1 < MaxLocal  BY <1>3, Sizes
<1>5. SinceTone' = SinceTone + 1
  <2>1. Elapsed(tone.latch, LocalTime') = Elapsed(tone.latch, LocalTime) + 1
    BY <1>1, <1>2, Sizes, ClockTick DEF SinceTone
  <2> QED BY <1>1, <2>1 DEF SinceTone
<1>6. TimeSinceTone' = TimeSinceTone + 1
  <2>1. Elapsed(ref.latch, LocalTime') = Elapsed(ref.latch, LocalTime) + 1
    BY <1>1, <1>4, Sizes, ClockTick DEF TimeSinceTone
  <2> QED BY <1>1, <2>1 DEF TimeSinceTone
<1>7. Sec' = IF Sec + 1 = Second THEN 0 ELSE Sec + 1  BY <1>1, Sizes, ModNext DEF Sec
<1>8. /\ due' \subseteq {"tone", "data", "onehz"}
      /\ "tone" \in due' <=> Sec' = 0
      /\ "onehz" \in due' <=> Sec' = phase
  BY <1>1 DEF Due, Sec
<1>9. Rest' = Rest - 1
  <2>1. Rest' = IF Sec' = phase THEN 0 ELSE ToOneHz'  BY <1>8 DEF Rest
  <2>2. ToOneHz' = IF phase > Sec' THEN phase - Sec' ELSE phase + Second - Sec'  BY <1>1 DEF ToOneHz
  <2> QED BY <1>3, <1>7, <2>1, <2>2, Sizes DEF ToOneHz
<1>10. ToneTypeOK'
  <2>1. now' \in 0..MaxNow  BY <1>1, Sizes, DelayAssumption
  <2> QED BY <1>1, <1>8, <1>a, <2>1 DEF ToneTypeOK
<1>11. (due \subseteq Due(now))'  BY <1>1 DEF Due
<1>12. ToneInv'
  <2>1. ToneTime' = ToneTime  BY <1>1, <1>5, Sizes DEF ToneTime
  <2>2. "tone" \notin due' => SinceTone' + (Second - Sec') < MaxLocal
    <3> SUFFICES ASSUME "tone" \notin due' PROVE SinceTone' + (Second - Sec') < MaxLocal  OBVIOUS
    <3>1. Sec' = Sec + 1  BY <1>7, <1>8
    <3>2. SinceTone + (Second - Sec) < MaxLocal  BY <1>1, <1>a DEF ToneInv
    <3> QED BY <1>5, <3>1, <3>2, Sizes
  <2>3. ~missed' => SinceTone' = IF "tone" \in due' /\ now' # 0 THEN Second ELSE Sec'
    <3> SUFFICES ASSUME ~missed PROVE SinceTone' = IF "tone" \in due' /\ now' # 0 THEN Second ELSE Sec'
      BY <1>1
    <3>1. SinceTone = Sec /\ now' # 0  BY <1>1, <1>a, Sizes DEF ToneInv
    <3> QED BY <1>5, <1>7, <1>8, <3>1, Sizes
  <2> QED BY <1>1, <1>a, <2>1, <2>2, <2>3 DEF ToneInv
<1>13. LatchInv'
  <2>1. TimeSinceTone' + Rest' = TimeSinceTone + Rest  BY <1>6, <1>9, Sizes
  <2> QED BY <1>1, <1>a, <2>1 DEF LatchInv
<1>14. PacketInv'
  <2> SUFFICES ASSUME NEW p \in packets
               PROVE  /\ p.sent <= now' /\ now' - p.sent <= MaxDelay /\ p.sent % Second = 0
                      /\ role = "client" => p.met = p.sent
                      /\ role = "server" /\ ~missed => p.met = Second * Seconds(p.sent)
    BY <1>1 DEF PacketInv
  <2>1. p.sent \in Nat  BY <1>a, DelayAssumption DEF ToneTypeOK
  <2>2. p.sent <= now' /\ now' - p.sent <= MaxDelay
    BY <1>1, <1>a, <2>1, Sizes, DelayAssumption DEF PacketInv
  <2> QED BY <1>a, <2>2 DEF PacketInv
<1>15. (Informed => CurrentMET = now)'
  BY <1>1, <1>a, <1>6, Sizes DEF Informed, CurrentMET
<1> QED BY <1>1, <1>a, <1>10, <1>11, <1>12, <1>13, <1>14, <1>15 DEF TimeInv

-----------------------------------------------------------------------------
(* What a step at one instant leaves as it is.                             *)

LEMMA ClockKept == now' = now => LocalTime' = LocalTime /\ Sec' = Sec
BY DEF LocalTime, Sec

LEMMA ToneKept ==
  ASSUME ToneInv, now' = now, tone' = tone, missed' = missed, role' = role, VirtualMET' = VirtualMET,
         "tone" \in due' <=> "tone" \in due
  PROVE  ToneInv'
<1>1. Sec' = Sec /\ SinceTone' = SinceTone /\ ToneTime' = ToneTime
  BY ClockKept DEF SinceTone, ToneTime
<1> QED BY <1>1 DEF ToneInv

LEMMA RefKept ==
  ASSUME LatchInv, now' = now, phase' = phase, ref' = ref, "onehz" \in due' <=> "onehz" \in due
  PROVE  LatchInv'
<1>1. TimeSinceTone' = TimeSinceTone /\ Rest' = Rest
  BY ClockKept DEF TimeSinceTone, Rest, ToOneHz
<1> QED BY <1>1 DEF LatchInv

LEMMA PacketsKept ==
  ASSUME PacketInv, now' = now, role' = role, missed => missed', packets' \subseteq packets
  PROVE  PacketInv'
BY DEF PacketInv

LEMMA MetKept ==
  ASSUME Informed => CurrentMET = now, now' = now, ref' = ref, synced' = synced, role' = role,
         missed => missed'
  PROVE  (Informed => CurrentMET = now)'
<1>1. CurrentMET' = CurrentMET  BY ClockKept DEF CurrentMET, TimeSinceTone
<1> QED BY <1>1 DEF Informed

-----------------------------------------------------------------------------
(* The tone.                                                               *)

LEMMA ToneStep == TimeInv /\ Tone1HzISR => TimeInv'
<1> SUFFICES ASSUME TimeInv, Tone1HzISR PROVE TimeInv'  OBVIOUS
<1> DEFINE isGood == SinceTone = Second
<1>1. /\ "tone" \in due /\ due' = due \ {"tone"} /\ tone' = [latch |-> LocalTime, good |-> isGood]
      /\ VirtualMET' = (IF isGood THEN VirtualMET + 1 ELSE VirtualMET)
      /\ UNCHANGED <<now, role, phase, ref, prev, Forced2Fly, ServerFly, packets, synced, missed>>
  BY DEF Tone1HzISR, SinceTone
<1>a. ToneTypeOK /\ ToneInv /\ LatchInv /\ PacketInv /\ (role = "server" => synced) /\ (Informed => CurrentMET = now)
      /\ due \subseteq Due(now)
  BY DEF TimeInv
<1>b. isGood \in BOOLEAN  OBVIOUS
<1>c. isGood <=> SinceTone = Second  OBVIOUS
<1> HIDE DEF isGood
<1>2. tone'.latch = LocalTime  BY <1>1
<1>3. LocalTime' = LocalTime /\ Sec' = 0 /\ Sec = 0  BY <1>1, ClockKept, Sizes
<1>4. SinceTone' = 0  BY <1>2, <1>3, LocalClock, Sizes DEF SinceTone
<1>5. ToneTime' = now  BY <1>1, <1>4, Sizes DEF ToneTime
<1>6. ToneTypeOK'
  <2>1. VirtualMET' \in Int  BY <1>1, Sizes
  <2>2. tone' \in [latch : 0..(MaxLocal - 1), good : BOOLEAN]  BY <1>1, <1>b, Sizes
  <2> QED BY <1>1, <1>a, <2>1, <2>2 DEF ToneTypeOK
<1>7. ToneInv'
  <2>1. now % Second = 0  BY <1>3 DEF Sec
  <2>2. 0 + (Second - 0) < MaxLocal  BY ToneBounds
  <2>3. ASSUME role = "server", ~missed PROVE Second * VirtualMET' = now
    <3> PICK v \in Int, m \in Int : v = VirtualMET /\ m = Second * v  BY Sizes
    <3>1. m = now - SinceTone  BY <1>a, <2>3 DEF ToneInv, ToneTime
    <3>2. CASE isGood
      <4>1. Second * (v + 1) = m + Second  BY ToneBounds
      <4> QED BY <1>1, <1>c, <3>1, <3>2, <4>1, Sizes
    <3>3. CASE ~isGood
      <4>1. SinceTone = Sec  BY <1>1, <1>a, <1>c, <2>3, <3>3 DEF ToneInv
      <4> QED BY <1>1, <1>3, <3>1, <3>3, <4>1, Sizes
    <3> QED BY <3>2, <3>3
  <2> QED BY <1>1, <1>3, <1>4, <1>5, <2>1, <2>2, <2>3, Sizes DEF ToneInv
<1>8. LatchInv' /\ PacketInv' /\ (Informed => CurrentMET = now)'
  BY <1>1, <1>a, RefKept, PacketsKept, MetKept
<1>9. (due \subseteq Due(now))'  BY <1>1, <1>a DEF Due
<1> QED BY <1>1, <1>a, <1>6, <1>7, <1>8, <1>9 DEF TimeInv

LEMMA MissStep == TimeInv /\ ToneMissed => TimeInv'
<1> SUFFICES ASSUME TimeInv, ToneMissed PROVE TimeInv'  OBVIOUS
<1>1. /\ "tone" \in due /\ due' = due \ {"tone"} /\ missed' = TRUE
      /\ SinceTone + Second + Window < MaxLocal
      /\ UNCHANGED <<now, role, phase, ref, tone, prev, VirtualMET, Forced2Fly, ServerFly, packets, synced>>
  BY DEF ToneMissed, SinceTone
<1>a. ToneTypeOK /\ ToneInv /\ LatchInv /\ PacketInv /\ (role = "server" => synced) /\ (Informed => CurrentMET = now)
      /\ due \subseteq Due(now)
  BY DEF TimeInv
<1>2. ToneTypeOK'  BY <1>1, <1>a DEF ToneTypeOK
<1>3. ToneInv'
  <2>1. Sec' = 0 /\ SinceTone' = SinceTone /\ ToneTime' = ToneTime
    BY <1>1, ClockKept, Sizes DEF SinceTone, ToneTime
  <2>2. SinceTone + (Second - 0) < MaxLocal  BY <1>1, Sizes, UnitsAssumption
  <2> QED BY <1>1, <1>a, <2>1, <2>2 DEF ToneInv
<1>4. LatchInv' /\ PacketInv' /\ (Informed => CurrentMET = now)'
  BY <1>1, <1>a, RefKept, PacketsKept, MetKept
<1>5. (due \subseteq Due(now))'  BY <1>1, <1>a DEF Due
<1> QED BY <1>1, <1>a, <1>2, <1>3, <1>4, <1>5 DEF TimeInv

-----------------------------------------------------------------------------
(* The packets.                                                            *)

(* A server sends the second of the tone.                                  *)
LEMMA SendStep == TimeInv /\ ToneSend => TimeInv'
<1> SUFFICES ASSUME TimeInv, ToneSend PROVE TimeInv'  OBVIOUS
<1> DEFINE met == IF ref.fly THEN Seconds(CurrentMET) ELSE VirtualMET
<1> PICK p : p = [met |-> Second * met, state |-> CalculateState, sent |-> now]  OBVIOUS
<1>1. /\ role = "server" /\ "data" \in due /\ "tone" \notin due /\ due' = due \ {"data"}
      /\ packets' = packets \cup {p}
      /\ UNCHANGED <<now, role, phase, ref, tone, prev, VirtualMET, Forced2Fly, ServerFly, synced, missed>>
  BY DEF ToneSend
<1>a. ToneTypeOK /\ ToneInv /\ LatchInv /\ PacketInv /\ (role = "server" => synced) /\ (Informed => CurrentMET = now)
      /\ due \subseteq Due(now)
  BY DEF TimeInv
<1>2. Seconds(CurrentMET) \in Int
  <2>1. CurrentMET \in Int  BY Sizes DEF CurrentMET
  <2> QED BY <2>1, ToneBounds DEF Seconds
<1>3. met \in Int  BY <1>2, Sizes
<1>4. ASSUME ~missed PROVE Second * met = Second * Seconds(now)
  <2>1. CurrentMET = now  BY <1>1, <1>4, <1>a DEF Informed
  <2>2. CASE ref.fly  BY <2>1, <2>2
  <2>3. CASE ~ref.fly
    <3>1. SinceTone = Sec /\ Sec = 0  BY <1>1, <1>4, <1>a, Sizes DEF ToneInv
    <3>2. Second * VirtualMET = now - SinceTone  BY <1>1, <1>4, <1>a DEF ToneInv, ToneTime
    <3>3. Second * Seconds(now) = now - Sec  BY Sizes, SecondsFacts DEF Sec
    <3> QED BY <2>3, <3>1, <3>2, <3>3
  <2> QED BY <2>2, <2>3
<1>5. Second * met \in Int  BY <1>3, ToneBounds
<1> HIDE DEF met
<1>6. p.met = Second * met /\ p.sent = now /\ p \in [met : Int, state : ClockStates, sent : 0..MaxNow]
  <2>1. CalculateState \in ClockStates  BY DEF CalculateState, ClockStates
  <2>2. now \in 0..MaxNow  BY <1>a DEF ToneTypeOK
  <2> QED BY <1>5, <2>1, <2>2
<1>7. ToneTypeOK'  BY <1>1, <1>a, <1>6 DEF ToneTypeOK
<1>8. ToneInv' /\ LatchInv' /\ (Informed => CurrentMET = now)'
  BY <1>1, <1>a, ToneKept, RefKept, MetKept
<1>9. PacketInv'
  <2>1. now % Second = 0  BY <1>1, Sizes DEF Sec
  <2>2. now <= now /\ now - now <= MaxDelay  BY Sizes, DelayAssumption
  <2> QED BY <1>1, <1>4, <1>6, <1>a, <2>1, <2>2 DEF PacketInv
<1>10. (due \subseteq Due(now))'  BY <1>1, <1>a DEF Due
<1> QED BY <1>1, <1>a, <1>7, <1>8, <1>9, <1>10 DEF TimeInv

LEMMA ServerStep == TimeInv /\ ServerSends => TimeInv'
<1> SUFFICES ASSUME TimeInv, ServerSends PROVE TimeInv'  OBVIOUS
<1> PICK state \in ClockStates : packets' = packets \cup {[met |-> now, state |-> state, sent |-> now]}
  BY DEF ServerSends
<1> PICK p : p = [met |-> now, state |-> state, sent |-> now]  OBVIOUS
<1>1. /\ role = "client" /\ "data" \in due /\ due' = due \ {"data"} /\ packets' = packets \cup {p}
      /\ UNCHANGED <<now, role, phase, ref, tone, prev, VirtualMET, Forced2Fly, ServerFly, synced, missed>>
  BY DEF ServerSends
<1>a. ToneTypeOK /\ ToneInv /\ LatchInv /\ PacketInv /\ (role = "server" => synced) /\ (Informed => CurrentMET = now)
      /\ due \subseteq Due(now)
  BY DEF TimeInv
<1>2. p.met = now /\ p.sent = now /\ p \in [met : Int, state : ClockStates, sent : 0..MaxNow]
  <2>1. now \in 0..MaxNow /\ now \in Int  BY <1>a, Sizes DEF ToneTypeOK
  <2> QED BY <2>1
<1>3. ToneTypeOK'  BY <1>1, <1>a, <1>2 DEF ToneTypeOK
<1>4. ToneInv' /\ LatchInv' /\ (Informed => CurrentMET = now)'
  BY <1>1, <1>a, ToneKept, RefKept, MetKept
<1>5. PacketInv'
  <2>1. now % Second = 0  BY <1>1, Sizes DEF Sec
  <2>2. now <= now /\ now - now <= MaxDelay  BY Sizes, DelayAssumption
  <2> QED BY <1>1, <1>2, <1>a, <2>1, <2>2 DEF PacketInv
<1>6. (due \subseteq Due(now))'  BY <1>1, <1>a DEF Due
<1> QED BY <1>1, <1>a, <1>3, <1>4, <1>5, <1>6 DEF TimeInv

LEMMA LoseStep == TimeInv /\ LosePacket => TimeInv'
<1> SUFFICES ASSUME TimeInv, LosePacket PROVE TimeInv'  OBVIOUS
<1>1. /\ packets' \subseteq packets
      /\ UNCHANGED <<now, due, role, phase, ref, tone, prev, VirtualMET, Forced2Fly, ServerFly, synced, missed>>
  BY DEF LosePacket
<1>a. ToneTypeOK /\ ToneInv /\ LatchInv /\ PacketInv /\ (role = "server" => synced) /\ (Informed => CurrentMET = now)
      /\ due \subseteq Due(now)
  BY DEF TimeInv
<1>2. ToneTypeOK'  BY <1>1, <1>a DEF ToneTypeOK
<1>3. ToneInv' /\ LatchInv' /\ PacketInv' /\ (Informed => CurrentMET = now)'
  BY <1>1, <1>a, ToneKept, RefKept, PacketsKept, MetKept
<1> QED BY <1>1, <1>a, <1>2, <1>3 DEF TimeInv, Due

-----------------------------------------------------------------------------
(* The pair.                                                               *)

(* A tone within the window is of the current second, and so is a packet.  *)
LEMMA PairOfSecond ==
  ASSUME TimeInv, NEW p \in packets, SinceTone <= Window
  PROVE  SinceTone = Sec /\ ToneTime = now - Sec /\ p.sent = now - Sec
<1>1. ToneTime \in Nat /\ ToneTime % Second = 0 /\ ToneTime = now - SinceTone
  BY DEF TimeInv, ToneInv, ToneTime
<1>2. ToneTime <= now /\ now - ToneTime < Second  BY <1>1, Sizes, UnitsAssumption
<1>3. ToneTime = now - Sec  BY <1>1, <1>2, Sizes, LastMultiple DEF Sec
<1>4. p.sent \in Nat /\ p.sent % Second = 0 /\ p.sent <= now /\ now - p.sent <= MaxDelay
  BY DelayAssumption DEF TimeInv, ToneTypeOK, PacketInv
<1>5. now - p.sent < Second  BY <1>4, Sizes, DelayAssumption
<1>6. p.sent = now - Sec  BY <1>4, <1>5, Sizes, LastMultiple DEF Sec
<1>7. SinceTone = Sec
  <2>1. now - SinceTone = now - Sec  BY <1>1, <1>3
  <2> PICK x \in Nat, s \in Nat, c \in Nat : x = now /\ s = SinceTone /\ c = Sec  BY Sizes
  <2>2. x - s = x - c  BY <2>1
  <2>3. s = c  BY <2>2
  <2> QED BY <2>3
<1> QED BY <1>3, <1>6, <1>7

(* What an update makes of the reference.                                  *)
LEMMA UpdatedRef ==
  ASSUME TimeInv, now' = now, phase' = phase, due' = due, SinceTone <= Window,
         ref'.latch = tone.latch, ref'.fly = FALSE
  PROVE  LatchInv' /\ TimeSinceTone' = SinceTone
<1>1. TimeSinceTone' = SinceTone  BY ClockKept DEF TimeSinceTone, SinceTone
<1>2. Rest' = Rest  BY ClockKept DEF Rest, ToOneHz
<1>3. SinceTone + Rest < 2 * Second  BY Sizes, UnitsAssumption
<1>4. SinceTone + Rest < (StartFly + 1) * Second
  <2> PICK k \in Nat : k = (StartFly + 1) * Second  BY ToneBounds
  <2>1. 2 * Second <= k  BY ToneBounds
  <2> QED BY <1>3, <2>1, Sizes
<1> QED BY <1>1, <1>2, <1>4 DEF LatchInv

LEMMA ServerUpdateStep ==
  ASSUME TimeInv, NEW p \in packets, role = "server", SinceTone <= Window, ServerUpdate, synced' = TRUE,
         UNCHANGED <<now, due, role, phase, tone, missed>>
  PROVE  /\ ref' \in [met : Int, latch : 0..(MaxLocal - 1), set : BOOLEAN, fly : BOOLEAN]
         /\ VirtualMET' \in Int /\ ServerFly' \in BOOLEAN
         /\ ToneInv' /\ LatchInv' /\ (Informed => CurrentMET = now)'
<1> DEFINE met == IF ref.fly THEN Seconds(CurrentMET) ELSE VirtualMET
<1>1. /\ VirtualMET' = met
      /\ ref' = [ref EXCEPT !.met = Second * met, !.latch = tone.latch, !.fly = FALSE]
      /\ ServerFly' = (ServerFly /\ ~ref.fly)
  BY DEF ServerUpdate
<1>2. /\ now' = now /\ due' = due /\ role' = role /\ phase' = phase /\ tone' = tone /\ missed' = missed
  OBVIOUS
<1>a. ToneTypeOK /\ ToneInv /\ (Informed => CurrentMET = now)  BY DEF TimeInv
<1>3. met \in Int
  <2>1. CurrentMET \in Int  BY Sizes DEF CurrentMET
  <2>2. Seconds(CurrentMET) \in Int  BY <2>1, ToneBounds DEF Seconds
  <2> QED BY <2>2, Sizes
<1>4. ASSUME ~missed PROVE Second * met = ToneTime
  <2>0. role = "server" => synced  BY DEF TimeInv
  <2>1. CurrentMET = now  BY <1>4, <1>a, <2>0 DEF Informed
  <2>2. CASE ref.fly
    <3>1. Second * Seconds(now) = now - Sec  BY Sizes, SecondsFacts DEF Sec
    <3>2. met = Seconds(now)  BY <2>1, <2>2
    <3> QED BY <3>1, <3>2, PairOfSecond
  <2>3. CASE ~ref.fly
    <3>1. Second * VirtualMET = ToneTime  BY <1>4, <1>a DEF ToneInv
    <3> QED BY <2>3, <3>1
  <2> QED BY <2>2, <2>3
<1>5. Second * met \in Int  BY <1>3, ToneBounds
<1> HIDE DEF met
<1> PICK k \in Int : k = Second * met  BY <1>5
<1>6. ref' = [ref EXCEPT !.met = k, !.latch = tone.latch, !.fly = FALSE]  BY <1>1
<1>7. ref \in [met : Int, latch : 0..(MaxLocal - 1), set : BOOLEAN, fly : BOOLEAN]  BY <1>a DEF ToneTypeOK
<1>8. tone.latch \in 0..(MaxLocal - 1)  BY Sizes
<1>9. /\ ref' \in [met : Int, latch : 0..(MaxLocal - 1), set : BOOLEAN, fly : BOOLEAN]
      /\ ref'.met = k /\ ref'.latch = tone.latch /\ ref'.fly = FALSE
  BY <1>6, <1>7, <1>8
<1>10. ServerFly' \in BOOLEAN
  <2>1. ServerFly \in BOOLEAN  BY <1>a DEF ToneTypeOK
  <2> QED BY <1>1, <2>1
<1>11. LatchInv' /\ TimeSinceTone' = SinceTone  BY <1>2, <1>9, UpdatedRef
<1>12. SinceTone' = SinceTone /\ ToneTime' = ToneTime /\ Sec' = Sec
  BY <1>2, ClockKept DEF SinceTone, ToneTime
<1>13. ToneInv'
  <2>1. ~missed => Second * VirtualMET' = ToneTime  BY <1>1, <1>4
  <2> QED BY <1>2, <1>12, <1>a, <2>1 DEF ToneInv
<1>14. (Informed => CurrentMET = now)'
  <2> SUFFICES ASSUME ~missed PROVE CurrentMET' = now  BY <1>2 DEF Informed
  <2>1. CurrentMET' = k + SinceTone  BY <1>9, <1>11 DEF CurrentMET
  <2>2. k = now - SinceTone  BY <1>4 DEF ToneTime
  <2> QED BY <2>1, <2>2, Sizes
<1> QED BY <1>1, <1>3, <1>9, <1>10, <1>11, <1>13, <1>14

LEMMA ClientUpdateStep ==
  ASSUME TimeInv, NEW p \in packets, role = "client", SinceTone <= Window, ClientUpdate(p), synced' = TRUE,
         UNCHANGED <<now, due, role, phase, tone, missed>>
  PROVE  /\ ref' \in [met : Int, latch : 0..(MaxLocal - 1), set : BOOLEAN, fly : BOOLEAN]
         /\ VirtualMET' \in Int /\ ServerFly' \in BOOLEAN
         /\ ToneInv' /\ LatchInv' /\ (Informed => CurrentMET = now)'
<1> DEFINE valid == p.state # "INVALID"
           flies == p.state = "FLYWHEEL"
<1>1. /\ VirtualMET' = VirtualMET /\ ServerFly' = flies
      /\ ref' = [met |-> p.met, latch |-> tone.latch, set |-> valid, fly |-> FALSE]
  BY DEF ClientUpdate
<1>2. valid \in BOOLEAN /\ flies \in BOOLEAN  OBVIOUS
<1> HIDE DEF valid, flies
<1>3. now' = now /\ due' = due /\ role' = role /\ phase' = phase /\ tone' = tone /\ missed' = missed
  OBVIOUS
<1>a. ToneTypeOK /\ ToneInv /\ PacketInv  BY DEF TimeInv
<1>4. p.met \in Int /\ p.met = p.sent  BY <1>a DEF ToneTypeOK, PacketInv
<1>5. /\ ref' \in [met : Int, latch : 0..(MaxLocal - 1), set : BOOLEAN, fly : BOOLEAN]
      /\ ref'.met = p.met /\ ref'.latch = tone.latch /\ ref'.fly = FALSE
  BY <1>1, <1>2, <1>4, Sizes
<1>6. LatchInv' /\ TimeSinceTone' = SinceTone  BY <1>3, <1>5, UpdatedRef
<1>7. ToneInv'  BY <1>1, <1>3, <1>a, ToneKept
<1>8. CurrentMET' = now
  <2>1. CurrentMET' = p.met + SinceTone  BY <1>5, <1>6 DEF CurrentMET
  <2>2. SinceTone = Sec /\ p.sent = now - Sec  BY PairOfSecond
  <2> QED BY <1>4, <2>1, <2>2, Sizes
<1> QED BY <1>1, <1>2, <1>3, <1>5, <1>6, <1>7, <1>8, Sizes

LEMMA DataStep == ASSUME TimeInv, NEW p \in packets, ToneData(p) PROVE TimeInv'
<1>1. /\ packets' \subseteq packets /\ prev' = [tone |-> tone.latch, data |-> LocalTime]
      /\ now' = now /\ due' = due /\ role' = role /\ phase' = phase /\ tone' = tone
      /\ Forced2Fly' = Forced2Fly /\ missed' = missed
  BY DEF ToneData
<1>a. ToneTypeOK /\ ToneInv /\ LatchInv /\ PacketInv /\ (role = "server" => synced) /\ (Informed => CurrentMET = now)
      /\ due \subseteq Due(now)
  BY DEF TimeInv
<1>2. /\ ref' \in [met : Int, latch : 0..(MaxLocal - 1), set : BOOLEAN, fly : BOOLEAN]
      /\ VirtualMET' \in Int /\ ServerFly' \in BOOLEAN /\ synced' \in BOOLEAN /\ (synced => synced')
      /\ ToneInv' /\ LatchInv' /\ (Informed => CurrentMET = now)'
  <2>1. CASE ToneMatches /\ ~Forced2Fly
    <3>1. ToneUpdate(p)  BY <2>1 DEF ToneData
    <3>2. SinceTone <= Window  BY <2>1 DEF ToneMatches, SinceTone
    <3>3. synced' = TRUE  BY <3>1 DEF ToneUpdate
    <3>4. CASE role = "server"
      <4>1. ServerUpdate  BY <3>1, <3>4 DEF ToneUpdate
      <4> QED BY <1>1, <3>2, <3>3, <3>4, <4>1, ServerUpdateStep
    <3>5. CASE role = "client"
      <4>1. ClientUpdate(p)  BY <3>1, <3>5 DEF ToneUpdate
      <4> QED BY <1>1, <3>2, <3>3, <3>5, <4>1, ClientUpdateStep
    <3> QED BY <3>4, <3>5, Sizes
  <2>2. CASE ~(ToneMatches /\ ~Forced2Fly)
    <3>1. ref' = ref /\ VirtualMET' = VirtualMET /\ ServerFly' = ServerFly /\ synced' = synced
      BY <2>2 DEF ToneData
    <3>2. ToneInv' /\ LatchInv' /\ (Informed => CurrentMET = now)'
      BY <1>1, <1>a, <3>1, ToneKept, RefKept, MetKept
    <3> QED BY <1>a, <3>1, <3>2 DEF ToneTypeOK
  <2> QED BY <2>1, <2>2
<1>3. prev' \in [tone : 0..(MaxLocal - 1), data : 0..(MaxLocal - 1)]  BY <1>1, Sizes
<1>4. ToneTypeOK'  BY <1>1, <1>2, <1>3, <1>a DEF ToneTypeOK
<1>5. PacketInv'  BY <1>1, <1>a, PacketsKept
<1>6. (due \subseteq Due(now))'  BY <1>1, <1>a DEF Due
<1> QED BY <1>1, <1>2, <1>4, <1>5, <1>6, <1>a DEF TimeInv

-----------------------------------------------------------------------------
(* The local 1Hz message, and the command.                                 *)

(* The next message is a second away, and finds the latch moved.           *)
LEMMA OneHzStep == TimeInv /\ Local1HzStateMachine => TimeInv'
<1> SUFFICES ASSUME TimeInv, Local1HzStateMachine PROVE TimeInv'  OBVIOUS
<1> DEFINE starts == ~ref.fly /\ Seconds(TimeSinceTone) >= StartFly
           moves  == ref.fly /\ Seconds(TimeSinceTone) >= LatchFly
<1>1. /\ "onehz" \in due /\ due' = due \ {"onehz"}
      /\ ref' = IF starts THEN [ref EXCEPT !.fly = TRUE]
                ELSE IF moves THEN [ref EXCEPT !.met = CurrentMET, !.latch = LocalTime] ELSE ref
      /\ ServerFly' = IF starts THEN (ServerFly \/ role = "server") ELSE ServerFly
      /\ now' = now /\ role' = role /\ phase' = phase /\ tone' = tone /\ prev' = prev
      /\ VirtualMET' = VirtualMET /\ Forced2Fly' = Forced2Fly /\ packets' = packets
      /\ synced' = synced /\ missed' = missed
  BY DEF Local1HzStateMachine
<1>a. ToneTypeOK /\ ToneInv /\ LatchInv /\ PacketInv /\ (role = "server" => synced) /\ (Informed => CurrentMET = now)
      /\ due \subseteq Due(now)
  BY DEF TimeInv
<1>b. ref \in [met : Int, latch : 0..(MaxLocal - 1), set : BOOLEAN, fly : BOOLEAN]  BY <1>a DEF ToneTypeOK
<1>2. LocalTime' = LocalTime /\ Sec' = Sec  BY <1>1, ClockKept
<1>3. Rest' = Second /\ Rest = 0
  <2>1. Sec = phase  BY <1>1, Sizes
  <2>2. "onehz" \notin due'  BY <1>1
  <2> QED BY <1>1, <1>2, <2>1, <2>2, Sizes DEF Rest, ToOneHz
<1>4. /\ Seconds(TimeSinceTone) \in Nat
      /\ \A s \in Nat : Seconds(TimeSinceTone) < s => TimeSinceTone < s * Second
  BY SecondsFacts, Sizes
<1>5. CurrentMET \in Int  BY Sizes DEF CurrentMET
<1> PICK k \in Int : k = CurrentMET  BY <1>5
<1> PICK t \in Nat : t = TimeSinceTone  BY Sizes
<1>6. /\ ref' \in [met : Int, latch : 0..(MaxLocal - 1), set : BOOLEAN, fly : BOOLEAN]
      /\ LatchInv' /\ CurrentMET' = CurrentMET
  <2>1. CASE starts
    <3>1. ref' = [ref EXCEPT !.fly = TRUE]  BY <1>1, <2>1
    <3>2. /\ ref' \in [met : Int, latch : 0..(MaxLocal - 1), set : BOOLEAN, fly : BOOLEAN]
          /\ ref'.met = ref.met /\ ref'.latch = ref.latch /\ ref'.fly = TRUE
      BY <1>b, <3>1
    <3>3. TimeSinceTone' = TimeSinceTone  BY <1>2, <3>2 DEF TimeSinceTone
    <3>4. t < (StartFly + 1) * Second  BY <1>3, <1>a, <2>1 DEF LatchInv
    <3>5. t + Second < MaxLocal
      <4> PICK b \in Nat : b = (StartFly + 1) * Second  BY ToneBounds
      <4>1. b + Second < MaxLocal  BY ToneBounds
      <4> QED BY <3>4, <4>1, ToneBounds
    <3>6. LatchInv'  BY <1>3, <3>2, <3>3, <3>5 DEF LatchInv
    <3> QED BY <3>2, <3>3, <3>6 DEF CurrentMET
  <2>2. CASE ~starts /\ moves
    <3>1. ref' = [ref EXCEPT !.met = k, !.latch = LocalTime]  BY <1>1, <2>2
    <3>2. /\ ref' \in [met : Int, latch : 0..(MaxLocal - 1), set : BOOLEAN, fly : BOOLEAN]
          /\ ref'.met = k /\ ref'.latch = LocalTime /\ ref'.fly = ref.fly
      BY <1>b, <3>1, Sizes
    <3>3. TimeSinceTone' = 0  BY <1>2, <3>2, Sizes, LocalClock DEF TimeSinceTone
    <3>4. LatchInv'  BY <1>3, <2>2, <3>2, <3>3, ToneBounds DEF LatchInv
    <3> QED BY <3>2, <3>3, <3>4 DEF CurrentMET
  <2>3. CASE ~starts /\ ~moves
    <3>1. ref' = ref  BY <1>1, <2>3
    <3>2. TimeSinceTone' = TimeSinceTone  BY <1>2, <3>1 DEF TimeSinceTone
    <3>3. CASE ref.fly
      <4>1. Seconds(TimeSinceTone) < LatchFly  BY <1>4, <2>3, <3>3, ToneBounds
      <4>2. t < LatchFly * Second  BY <1>4, <4>1, ToneBounds
      <4> PICK b \in Nat : b = LatchFly * Second  BY ToneBounds
      <4>3. b + Second < MaxLocal  BY ToneBounds
      <4>4. t + Second < MaxLocal  BY <4>2, <4>3, ToneBounds
      <4>5. LatchInv'  BY <1>3, <3>1, <3>2, <3>3, <4>4 DEF LatchInv
      <4> QED BY <1>b, <3>1, <3>2, <4>5 DEF CurrentMET
    <3>4. CASE ~ref.fly
      <4>1. Seconds(TimeSinceTone) < StartFly  BY <1>4, <2>3, <3>4, ToneBounds
      <4>2. t < StartFly * Second  BY <1>4, <4>1, ToneBounds
      <4> PICK b \in Int : b = StartFly * Second  BY ToneBounds
      <4> PICK c \in Nat : c = (StartFly + 1) * Second  BY ToneBounds
      <4>3. b + Second = c  BY ToneBounds
      <4>4. t + Second < c  BY <4>2, <4>3, ToneBounds
      <4>5. LatchInv'  BY <1>3, <3>1, <3>2, <3>4, <4>4 DEF LatchInv
      <4> QED BY <1>b, <3>1, <3>2, <4>5 DEF CurrentMET
    <3> QED BY <3>3, <3>4
  <2> QED BY <2>1, <2>2, <2>3
<1>7. ServerFly' \in BOOLEAN
  <2>1. ServerFly \in BOOLEAN  BY <1>a DEF ToneTypeOK
  <2> QED BY <1>1, <2>1
<1>8. ToneTypeOK'  BY <1>1, <1>6, <1>7, <1>a DEF ToneTypeOK
<1>9. ToneInv' /\ PacketInv'  BY <1>1, <1>a, ToneKept, PacketsKept
<1>10. (Informed => CurrentMET = now)'  BY <1>1, <1>6, <1>a DEF Informed
<1>11. (due \subseteq Due(now))'  BY <1>1, <1>a DEF Due
<1> QED BY <1>1, <1>6, <1>8, <1>9, <1>10, <1>11, <1>a DEF TimeInv

(* A command leaves the reference's latch and MET.                         *)
LEMMA SetStep == ASSUME TimeInv, NEW state \in ClockStates, SetState(state) PROVE TimeInv'
<1> DEFINE flies == state = "FLYWHEEL"
           valid == state = "VALID"
<1>1. /\ Forced2Fly' = flies
      /\ ref' = IF flies THEN [ref EXCEPT !.fly = TRUE] ELSE [ref EXCEPT !.set = valid]
      /\ ServerFly' = (ServerFly \/ (role = "server" /\ flies))
      /\ now' = now /\ due' = due /\ role' = role /\ phase' = phase /\ tone' = tone /\ prev' = prev
      /\ VirtualMET' = VirtualMET /\ packets' = packets /\ synced' = synced /\ missed' = missed
  BY DEF SetState
<1>2. flies \in BOOLEAN /\ valid \in BOOLEAN  OBVIOUS
<1> HIDE DEF flies, valid
<1>a. ToneTypeOK /\ ToneInv /\ LatchInv /\ PacketInv /\ (role = "server" => synced) /\ (Informed => CurrentMET = now)
      /\ due \subseteq Due(now)
  BY DEF TimeInv
<1>b. ref \in [met : Int, latch : 0..(MaxLocal - 1), set : BOOLEAN, fly : BOOLEAN]  BY <1>a DEF ToneTypeOK
<1>3. /\ ref' \in [met : Int, latch : 0..(MaxLocal - 1), set : BOOLEAN, fly : BOOLEAN]
      /\ ref'.met = ref.met /\ ref'.latch = ref.latch /\ (ref'.fly = ref.fly \/ ref'.fly = TRUE)
  <2>1. CASE flies  BY <1>1, <1>b, <2>1
  <2>2. CASE ~flies  BY <1>1, <1>2, <1>b, <2>2
  <2> QED BY <2>1, <2>2
<1>4. TimeSinceTone' = TimeSinceTone /\ Rest' = Rest
  BY <1>1, <1>3, ClockKept DEF TimeSinceTone, Rest, ToOneHz
<1>5. LatchInv'
  <2> PICK t \in Nat, r \in Nat : t = TimeSinceTone /\ r = Rest  BY Sizes
  <2> PICK b \in Nat : b = (StartFly + 1) * Second  BY ToneBounds
  <2>1. (~ref.fly => t + r < b) /\ (ref.fly => t + r < MaxLocal)  BY <1>a DEF LatchInv
  <2>2. b < MaxLocal  BY ToneBounds
  <2>3. t + r < MaxLocal  BY <2>1, <2>2, ToneBounds
  <2>4. (~ref'.fly => t + r < b) /\ (ref'.fly => t + r < MaxLocal)  BY <1>3, <2>1, <2>3
  <2> QED BY <1>4, <2>4 DEF LatchInv
<1>6. ServerFly' \in BOOLEAN
  <2>1. ServerFly \in BOOLEAN  BY <1>a DEF ToneTypeOK
  <2> QED BY <1>1, <2>1
<1>7. ToneTypeOK'  BY <1>1, <1>2, <1>3, <1>6, <1>a DEF ToneTypeOK
<1>8. ToneInv' /\ PacketInv'  BY <1>1, <1>a, ToneKept, PacketsKept
<1>9. (Informed => CurrentMET = now)'  BY <1>1, <1>3, <1>4, <1>a DEF Informed, CurrentMET
<1>10. (due \subseteq Due(now))'  BY <1>1, <1>a DEF Due
<1> QED BY <1>1, <1>5, <1>7, <1>8, <1>9, <1>10, <1>a DEF TimeInv

-----------------------------------------------------------------------------
(* The theorems.                                                           *)

LEMMA IdleStep == TimeInv /\ UNCHANGED toneVars => TimeInv'
<1> SUFFICES ASSUME TimeInv, UNCHANGED toneVars PROVE TimeInv'  OBVIOUS
<1>1. /\ now' = now /\ due' = due /\ role' = role /\ phase' = phase /\ ref' = ref /\ tone' = tone
      /\ prev' = prev /\ VirtualMET' = VirtualMET /\ Forced2Fly' = Forced2Fly /\ ServerFly' = ServerFly
      /\ packets' = packets /\ synced' = synced /\ missed' = missed
  BY DEF toneVars
<1>a. ToneTypeOK /\ ToneInv /\ LatchInv /\ PacketInv /\ (role = "server" => synced) /\ (Informed => CurrentMET = now)
      /\ due \subseteq Due(now)
  BY DEF TimeInv
<1>2. ToneTypeOK' /\ (due \subseteq Due(now))'  BY <1>1, <1>a DEF ToneTypeOK, Due
<1>3. ToneInv' /\ LatchInv' /\ PacketInv' /\ (Informed => CurrentMET = now)'
  BY <1>1, <1>a, ToneKept, RefKept, PacketsKept, MetKept
<1> QED BY <1>1, <1>2, <1>3, <1>a DEF TimeInv

LEMMA InvStep == TimeInv /\ [ToneNext]_toneVars => TimeInv'
<1> SUFFICES ASSUME TimeInv, [ToneNext]_toneVars PROVE TimeInv'  OBVIOUS
<1>1. CASE UnitPasses  BY <1>1, TickStep
<1>2. CASE Tone1HzISR  BY <1>2, ToneStep
<1>3. CASE ToneMissed  BY <1>3, MissStep
<1>4. CASE ToneSend  BY <1>4, SendStep
<1>5. CASE ServerSends  BY <1>5, ServerStep
<1>6. CASE LosePacket  BY <1>6, LoseStep
<1>7. CASE \E p \in packets : ToneData(p)  BY <1>7, DataStep
<1>8. CASE Local1HzStateMachine  BY <1>8, OneHzStep
<1>9. CASE \E state \in ClockStates : SetState(state)  BY <1>9, SetStep
<1>10. CASE UNCHANGED toneVars  BY <1>10, IdleStep
<1> QED BY <1>1, <1>2, <1>3, <1>4, <1>5, <1>6, <1>7, <1>8, <1>9, <1>10 DEF ToneNext

(* The clock is right at every instant a node has been told enough, however *)
(* often the local clock rolled over, whatever tones and packets were lost, *)
(* late or doubled, however long it flew (CFE_TIME_ToneVerify,              *)
(* CFE_TIME_ToneUpdate, CFE_TIME_Local1HzStateMachine).                     *)
THEOREM MetHolds == ToneSpec => []MetTrue
<1>1. TimeInv => MetTrue
  <2>1. TimeInv => (Informed => CurrentMET = now)  BY DEF TimeInv
  <2>2. TimeInv /\ Informed /\ role = "server" => \A p \in packets : p.met = Second * Seconds(p.sent)
    BY DEF TimeInv, PacketInv, Informed
  <2> QED BY <2>1, <2>2 DEF MetTrue
<1> QED BY <1>1, InvInit, InvStep, PTL DEF ToneSpec

(* A clock that has had no pair for longer than the time after which it is  *)
(* to fly says that it flies, at the next local 1Hz message at the latest   *)
(* (CFE_TIME_Local1HzStateMachine).                                         *)
THEOREM FlywheelHolds == ToneSpec => []FlywheelSoon
<1>1. TimeInv => FlywheelSoon
  <2> SUFFICES ASSUME TimeInv, Informed, ~ref.fly PROVE now - ref.met <= (StartFly + 1) * Second
    BY DEF FlywheelSoon
  <2>1. CurrentMET = now  BY DEF TimeInv
  <2>2. TimeSinceTone + Rest < (StartFly + 1) * Second  BY DEF TimeInv, LatchInv
  <2>3. now - ref.met = TimeSinceTone  BY <2>1, Sizes DEF CurrentMET
  <2> PICK b \in Nat : b = (StartFly + 1) * Second  BY ToneBounds
  <2>4. TimeSinceTone <= b  BY <2>2, Sizes
  <2> QED BY <2>3, <2>4
<1> QED BY <1>1, InvInit, InvStep, PTL DEF ToneSpec
=============================================================================
