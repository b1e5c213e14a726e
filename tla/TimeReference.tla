---------------------------- MODULE TimeReference ----------------------------
(***************************************************************************)
(* The reference data of Time Services (cfe_time_utils.c): what the tasks  *)
(* of all applications read, without a lock, to compute the time, and the  *)
(* TIME task alone changes.  A change is made to the next of a few buffers *)
(* and published by raising LastVersionCounter; a reader copies the buffer *)
(* last published, then looks whether the buffer still bears the version   *)
(* it began with, and starts over if not.  Each step reads or writes one   *)
(* word of shared memory.                                                  *)
(***************************************************************************)
EXTENDS Naturals, Sequences

CONSTANTS
  Readers,      \* tasks that call CFE_TIME_GetReference
  Depth,        \* CFE_TIME_REFERENCE_BUF_DEPTH
  Retries,      \* the RetryCount a read starts with
  MaxVersion,   \* bound on LastVersionCounter
  MaxClock      \* bound on the local clock

ASSUME DepthAssumption == Depth \in Nat \ {0, 1}
ASSUME RetriesAssumption == Retries \in Nat \ {0}
ASSUME BoundAssumption == MaxVersion \in Nat \ {0, 1} /\ MaxClock \in Nat

VARIABLES
  ReferenceState,       \* by buffer: the StateVersion and the words
  LastVersionCounter,   \* the version last published
  localClock,           \* what CFE_TIME_LatchClock reads
  update,               \* what the TIME task is doing to the next buffer
  read,                 \* by reader: what its call of CFE_TIME_GetReference holds
  during,               \* by reader: what was published since its call began
  answer                \* by reader: what its last call gave

vars == <<ReferenceState, LastVersionCounter, localClock, update, read, during, answer>>

(* Of the words of the reference data, MET and latch belong together; the  *)
(* clock state stands for the others.                                      *)
Words == {"AtToneMET", "AtToneLatch", "ClockState"}
ReadOrder  == <<"AtToneMET", "AtToneLatch", "ClockState">>

Value  == [Words -> Nat]
Zeroed == [w \in Words |-> 0]
NoVersion == MaxVersion + 1

Slot(version) == version % Depth

\* The data that a reader which starts now is to find.
Published == ReferenceState[Slot(LastVersionCounter)].word

NoUpdate == [version |-> 0, todo |-> <<>>]
NoRead   == [at |-> "none", version |-> 0, retry |-> 0, latch |-> 0, todo |-> <<>>, word |-> Zeroed]

\* CFE_TIME_InitData has published twice: the reset variables, then the rest.
Init ==
  /\ ReferenceState = [s \in 0..(Depth - 1) |->
       [version |-> IF s = Slot(2) THEN 2 ELSE IF s = Slot(1) THEN 1 ELSE NoVersion,
        word |-> Zeroed]]
  /\ LastVersionCounter = 2
  /\ localClock = 0
  /\ update = NoUpdate
  /\ read = [r \in Readers |-> NoRead]
  /\ during = [r \in Readers |-> <<>>]
  /\ answer = [r \in Readers |-> Zeroed]

Tick ==
  /\ localClock < MaxClock
  /\ localClock' = localClock + 1
  /\ UNCHANGED <<ReferenceState, LastVersionCounter, update, read, during, answer>>

-----------------------------------------------------------------------------
(* The TIME task.                                                          *)

(* The words that a change writes, in order.  CFE_TIME_ToneUpdate changes  *)
(* everything; CFE_TIME_SetMET and the flywheel update of                  *)
(* CFE_TIME_Local1HzStateMachine change MET and latch; the commands that   *)
(* set STCF, leap seconds, state or delay, the 1Hz adjustment and the      *)
(* start of flywheeling change other words.                                *)
Everything == <<"ClockState", "AtToneMET", "AtToneLatch">>
Changes    == {Everything, <<"AtToneMET", "AtToneLatch">>, <<"ClockState">>}

Writes(change, word) == [i \in DOMAIN change |-> [word |-> change[i], value |-> word[change[i]]]]

(* The next buffer is marked, filled with the data published last, then    *)
(* changed.  The latch is of now or of an earlier tone; a new MET or clock *)
(* state is told from the others by the version that brings it.            *)
StartReferenceUpdate(change, latch) ==
  LET version == LastVersionCounter + 1
      new == [w \in Words |-> IF w = "AtToneLatch" THEN latch ELSE version]
  IN
  /\ update = NoUpdate
  /\ LastVersionCounter < MaxVersion
  /\ latch <= localClock
  /\ update' = [version |-> version,
                todo |-> Writes(Everything, Published) \o Writes(change, new)]
  /\ ReferenceState' = [ReferenceState EXCEPT ![Slot(version)].version = version]
  /\ UNCHANGED <<LastVersionCounter, localClock, read, during, answer>>

WriteWord ==
  /\ update.todo # <<>>
  /\ ReferenceState' = [ReferenceState EXCEPT
       ![Slot(update.version)].word[Head(update.todo).word] = Head(update.todo).value]
  /\ update' = [update EXCEPT !.todo = Tail(@)]
  /\ UNCHANGED <<LastVersionCounter, localClock, read, during, answer>>

FinishReferenceUpdate ==
  /\ update # NoUpdate
  /\ update.todo = <<>>
  /\ LastVersionCounter' = update.version
  /\ update' = NoUpdate
  /\ during' = [r \in Readers |-> IF during[r] = <<>> THEN <<>>
                                  ELSE Append(during[r], ReferenceState[Slot(update.version)].word)]
  /\ UNCHANGED <<ReferenceState, localClock, read, answer>>

-----------------------------------------------------------------------------
(* CFE_TIME_GetReference.                                                  *)

GetReference(r) ==
  /\ read[r].at = "none"
  /\ read' = [read EXCEPT ![r] = [NoRead EXCEPT !.at = "latch", !.retry = Retries,
                                                !.version = LastVersionCounter]]
  /\ during' = [during EXCEPT ![r] = <<Published>>]
  /\ answer' = [answer EXCEPT ![r] = Zeroed]
  /\ UNCHANGED <<ReferenceState, LastVersionCounter, localClock, update>>

(* Two plausible bugs of the retry, for the properties to tell.            *)
\* A retry looks at the buffer that was overwritten again.
RetrySameVersion(r) ==
  /\ read[r].at = "again"
  /\ read' = [read EXCEPT ![r].at = "latch"]
  /\ UNCHANGED <<ReferenceState, LastVersionCounter, localClock, update, during, answer>>

\* The clock is latched once, before the loop.
RetrySameLatch(r) ==
  /\ read[r].at = "again"
  /\ read' = [read EXCEPT ![r].at = "copy", ![r].version = LastVersionCounter, ![r].todo = ReadOrder]
  /\ UNCHANGED <<ReferenceState, LastVersionCounter, localClock, update, during, answer>>

GetReferenceAgain(r) ==
  /\ read[r].at = "again"
  /\ read' = [read EXCEPT ![r].at = "latch", ![r].version = LastVersionCounter]
  /\ UNCHANGED <<ReferenceState, LastVersionCounter, localClock, update, during, answer>>

LatchClock(r) ==
  /\ read[r].at = "latch"
  /\ read' = [read EXCEPT ![r].at = "copy", ![r].latch = localClock, ![r].todo = ReadOrder]
  /\ UNCHANGED <<ReferenceState, LastVersionCounter, localClock, update, during, answer>>

ReadWord(r) ==
  /\ read[r].todo # <<>>
  /\ read' = [read EXCEPT ![r].todo = Tail(@),
                          ![r].word[Head(read[r].todo)] =
                             ReferenceState[Slot(read[r].version)].word[Head(read[r].todo)]]
  /\ UNCHANGED <<ReferenceState, LastVersionCounter, localClock, update, during, answer>>

Whole(r) == ReferenceState[Slot(read[r].version)].version = read[r].version

Copied(r) == read[r].at = "copy" /\ read[r].todo = <<>>

(* A whole copy that the last of the attempts made is zeroed as well.      *)
ReturnReference(r) ==
  /\ Copied(r)
  /\ Whole(r)
  /\ read[r].retry # 0
  /\ answer' = [answer EXCEPT ![r] = read[r].word]
  /\ read' = [read EXCEPT ![r] = NoRead]
  /\ during' = [during EXCEPT ![r] = <<>>]
  /\ UNCHANGED <<ReferenceState, LastVersionCounter, localClock, update>>

GetReferenceFail(r) ==
  /\ Copied(r)
  /\ read[r].retry = 0
  /\ read' = [read EXCEPT ![r] = NoRead]
  /\ during' = [during EXCEPT ![r] = <<>>]
  /\ UNCHANGED <<ReferenceState, LastVersionCounter, localClock, update, answer>>

Retry(r) ==
  /\ Copied(r)
  /\ ~Whole(r)
  /\ read[r].retry # 0
  /\ read' = [read EXCEPT ![r].at = "again", ![r].retry = @ - 1]
  /\ UNCHANGED <<ReferenceState, LastVersionCounter, localClock, update, during, answer>>

Next ==
  \/ Tick
  \/ \E change \in Changes, latch \in 0..MaxClock : StartReferenceUpdate(change, latch)
  \/ WriteWord
  \/ FinishReferenceUpdate
  \/ \E r \in Readers :
       \/ GetReference(r) \/ GetReferenceAgain(r) \/ LatchClock(r) \/ ReadWord(r)
       \/ ReturnReference(r) \/ GetReferenceFail(r) \/ Retry(r)

Spec == Init /\ [][Next]_vars

-----------------------------------------------------------------------------

TypeOK ==
  /\ ReferenceState \in [0..(Depth - 1) -> [version : Nat, word : Value]]
  /\ LastVersionCounter \in 2..MaxVersion
  /\ localClock \in 0..MaxClock
  /\ update \in [version : Nat, todo : Seq([word : Words, value : Nat])]
  /\ read \in [Readers -> [at : {"none", "again", "latch", "copy"}, version : Nat, retry : 0..Retries,
                           latch : 0..localClock, todo : Seq(Words), word : Value]]
  /\ during \in [Readers -> Seq(Value)]
  /\ answer \in [Readers -> Value]

(***************************************************************************)
(* A read of the reference never mixes two updates, never gives data that  *)
(* were replaced before the call or are not published yet, and gives up    *)
(* only if the TIME task published Retries * (Depth - 1) times during the  *)
(* call: Depth - 1 publications at least for every attempt that failed.    *)
(***************************************************************************)
Register == INSTANCE TimeRegister WITH value <- Published, Tolerance <- Retries * (Depth - 1)
ActsAsRegister == Register!Spec

(***************************************************************************)
(* The clock that goes with a copy was latched no earlier than the tone    *)
(* that the copy speaks of.  CFE_TIME_GetReference takes the other order   *)
(* for a roll-over of the local clock, and would be off by the whole range *)
(* of that clock.                                                          *)
(***************************************************************************)
LatchAfterTone ==
  \A r \in Readers : Copied(r) /\ Whole(r) => read[r].word["AtToneLatch"] <= read[r].latch
=============================================================================
