------------------------- MODULE EventServicesProofs -------------------------
(***************************************************************************)
(* Proofs about EventServices, for every value of its constants.           *)
(***************************************************************************)
EXTENDS EventServices, SequenceTheorems, TLAPS

-----------------------------------------------------------------------------
(* The log *)

(* A log of which only Next may be out of the ring, by one.                *)
Left == [entry : [0..(LogMax - 1) -> Events \cup {Torn}], next : 0..LogMax, count : 0..LogMax,
         full : BOOLEAN, overflow : BOOLEAN, mode : Modes]

LEMMA LeftType ==
  /\ Log \subseteq Left
  /\ \A l \in Left : l.next < LogMax => l \in Log
<1>1. 0..(LogMax - 1) \subseteq 0..LogMax  BY LogAssumption
<1>2. \A k \in 0..LogMax : k < LogMax => k \in 0..(LogMax - 1)  BY LogAssumption
<1> QED BY <1>1, <1>2 DEF Log, Left

(* An addition cut short leaves such a log.                                *)
LEMMA AddUpToType ==
  ASSUME NEW l \in Log, NEW event \in Events, NEW n \in 0..LogWrites
  PROVE  AddLogUpTo(l, event, n) \in Left
<1> DEFINE m == AddLogUpTo(l, event, n)
<1>1. l.next \in 0..(LogMax - 1) /\ l.count \in 0..LogMax /\ LogMax \in Nat \ {0}
  BY LogAssumption DEF Log
<1>2. m.entry \in [0..(LogMax - 1) -> Events \cup {Torn}]
  <2>1. l.entry \in [0..(LogMax - 1) -> Events \cup {Torn}]  BY DEF Log
  <2> QED BY <1>1, <2>1 DEF AddLogUpTo
<1>3. m.next \in 0..LogMax  BY <1>1 DEF AddLogUpTo
<1>4. m.count \in 0..LogMax  BY <1>1 DEF AddLogUpTo
<1>5. m.full \in BOOLEAN /\ m.overflow \in BOOLEAN /\ m.mode \in Modes
  BY DEF AddLogUpTo, Log
<1>6. m = [entry |-> m.entry, next |-> m.next, count |-> m.count, full |-> m.full,
           overflow |-> m.overflow, mode |-> m.mode]
  BY DEF AddLogUpTo
<1> HIDE DEF m
<1>7. m \in Left  BY <1>2, <1>3, <1>4, <1>5, <1>6 DEF Left
<1> QED BY <1>7 DEF m

(* A full addition leaves Next in the ring.                                *)
LEMMA AddType ==
  ASSUME NEW l \in Log, NEW event \in Events
  PROVE  EVS_AddLog(l, event) \in Log
<1>1. LogWrites \in 0..LogWrites /\ LogWrites = 7  BY DEF LogWrites
<1>2. l.next \in 0..(LogMax - 1) /\ LogMax \in Nat \ {0}  BY LogAssumption DEF Log
<1>3. AddLogUpTo(l, event, LogWrites).next < LogMax  BY <1>1, <1>2 DEF AddLogUpTo
<1> QED BY <1>1, <1>3, AddUpToType, LeftType DEF EVS_AddLog

(* A clear brings Next into the ring with its first write.                 *)
LEMMA ClearUpToType ==
  ASSUME NEW l \in Left, NEW n \in 0..ClearWrites
  PROVE  LET m == ClearLogUpTo(l, n) IN
         /\ m \in Left
         /\ m.next = IF n >= 1 THEN 0 ELSE l.next
         /\ m.mode = l.mode
<1> DEFINE m == ClearLogUpTo(l, n)
<1>1. LogMax \in Nat \ {0}  BY LogAssumption
<1>2. m.entry \in [0..(LogMax - 1) -> Events \cup {Torn}]
  BY DEF ClearLogUpTo, Left
<1>3. m.next = (IF n >= 1 THEN 0 ELSE l.next) /\ m.mode = l.mode  BY DEF ClearLogUpTo
<1>4. m.next \in 0..LogMax /\ m.count \in 0..LogMax  BY <1>1 DEF ClearLogUpTo, Left
<1>5. m.full \in BOOLEAN /\ m.overflow \in BOOLEAN /\ m.mode \in Modes
  BY DEF ClearLogUpTo, Left
<1>6. m = [entry |-> m.entry, next |-> m.next, count |-> m.count, full |-> m.full,
           overflow |-> m.overflow, mode |-> m.mode]
  BY DEF ClearLogUpTo
<1> HIDE DEF m
<1>7. m \in Left  BY <1>2, <1>4, <1>5, <1>6 DEF Left
<1> QED BY <1>3, <1>7 DEF m

LEMMA ClearedType ==
  /\ NewLog \in Log /\ Emptied(NewLog)
  /\ \A l \in Log : EVS_ClearLog(l) \in Log /\ Emptied(EVS_ClearLog(l))
<1>1. 0 \in 0..(LogMax - 1) /\ 0 \in 0..LogMax  BY LogAssumption
<1>2. NewLog \in Log /\ Emptied(NewLog)  BY <1>1, LogAssumption DEF NewLog, Log, Emptied
<1>3. ASSUME NEW l \in Log PROVE EVS_ClearLog(l) \in Log /\ Emptied(EVS_ClearLog(l))
  <2> DEFINE m == EVS_ClearLog(l)
  <2>1. ClearWrites \in 0..ClearWrites /\ ClearWrites >= 4  BY LogAssumption DEF ClearWrites
  <2>2. m \in Left /\ m.next = 0
    BY <2>1, LeftType, ClearUpToType DEF EVS_ClearLog
  <2>3. m.count = 0 /\ ~m.full
    <3>1. m.count = 0  BY <2>1 DEF EVS_ClearLog, ClearLogUpTo
    <3>2. m.full = (ClearWrites < 3 /\ l.full)  BY DEF EVS_ClearLog, ClearLogUpTo
    <3>3. ~(ClearWrites < 3)  BY LogAssumption DEF ClearWrites
    <3> HIDE DEF m
    <3> QED BY <3>1, <3>2, <3>3
  <2> HIDE DEF m
  <2>4. m \in Log  BY <2>2, LeftType, LogAssumption
  <2> QED BY <2>2, <2>3, <2>4 DEF m, Emptied
<1> QED BY <1>2, <1>3

(* What a reset leaves, of the log as it was or cut short.                 *)
LEMMA CutShortType ==
  ASSUME TypeOK, NEW left \in CutShort \cup {log}
  PROVE  left \in Left /\ left.mode = log.mode
<1>1. log \in Log /\ log \in Left  BY LeftType DEF TypeOK
<1>2. UnderWay \subseteq Events
  BY DEF UnderWay, TypeOK, Call, Idle, Squelch, Events, Ids, OwnIds
<1>3. ASSUME NEW id \in UnderWay, NEW n \in 0..LogWrites, left = AddLogUpTo(log, id, n)
      PROVE  left \in Left /\ left.mode = log.mode
  BY <1>1, <1>2, <1>3, AddUpToType DEF AddLogUpTo
<1>4. ASSUME NEW n \in 0..ClearWrites, left = ClearLogUpTo(log, n)
      PROVE  left \in Left /\ left.mode = log.mode
  BY <1>1, <1>4, ClearUpToType
<1> QED BY <1>1, <1>3, <1>4 DEF CutShort

(* What Event Services makes of that: a log that is empty by its words or  *)
(* has the mode it had.                                                    *)
LEMMA RestoredType ==
  ASSUME TypeOK, NEW left \in CutShort \cup {log}, NEW m \in Restored(left)
  PROVE  m \in Log /\ (Emptied(m) \/ m.mode = log.mode)
<1>1. left \in Left /\ left.mode = log.mode  BY CutShortType
<1>2. CASE left.next < LogMax
  <2>1. ~(left.next >= LogMax)  BY <1>1, <1>2, LogAssumption DEF Left
  <2> QED BY <1>1, <1>2, <2>1, LeftType DEF Restored
<1>3. CASE ~(left.next < LogMax)
  <2>1. m = NewLog \/ \E n \in 1..ClearWrites : m = ClearLogUpTo(left, n)
    BY <1>1, <1>3, LogAssumption DEF Restored, Left
  <2>2. ASSUME NEW n \in 1..ClearWrites, m = ClearLogUpTo(left, n)
        PROVE  m \in Log /\ m.mode = log.mode
    <3>1. n \in 0..ClearWrites /\ n >= 1  BY LogAssumption DEF ClearWrites
    <3>2. m \in Left /\ m.next = 0 /\ m.mode = log.mode
      BY <1>1, <2>2, <3>1, ClearUpToType
    <3> QED BY <3>2, LeftType, LogAssumption
  <2> QED BY <2>1, <2>2, ClearedType
<1> QED BY <1>2, <1>3

-----------------------------------------------------------------------------
(* Type correctness *)

LEMMA TokenTypes ==
  /\ Upper \in Nat /\ Lower \in Int /\ Lower <= 0 /\ Cost <= Upper
  /\ Forever \in Nat /\ Grant \in Nat
<1>1. Upper \in Nat /\ Cost <= Upper  BY TokenAssumption DEF Upper
<1>2. (2 * Upper) \div Rate \in Nat  BY <1>1, TokenAssumption
<1> QED BY <1>1, <1>2, TokenAssumption DEF Lower, Forever, Grant

LEMMA AccountTypes ==
  /\ Cleared \in Account
  /\ \A listed \in BOOLEAN, mask \in Masks \cup {0} : Registered(listed, mask) \in Account
<1>1. 0 \in Lower..Upper /\ Upper \in Lower..Upper /\ Forever \in 0..Forever
  BY TokenTypes DEF Lower
<1>2. 0 \in 0..MaxFilterCount  BY AppAssumption
<1>3. \A used, active, listed \in BOOLEAN, types \in SUBSET Types, mask \in Masks \cup {0},
          tokens \in Lower..Upper :
        [used |-> used, unreg |-> FALSE, active |-> active, types |-> types, listed |-> listed,
         mask |-> mask, count |-> 0, tokens |-> tokens, elapsed |-> Forever] \in Account
  BY <1>1, <1>2 DEF Account
<1>4. Cleared \in Account  BY <1>1, <1>3 DEF Cleared
<1>5. ASSUME NEW listed \in BOOLEAN, NEW mask \in Masks \cup {0}
      PROVE  Registered(listed, mask) \in Account
  <2>1. \A on, act \in BOOLEAN, r \in Account :
          [r EXCEPT !.used = on, !.active = act, !.types = Types, !.tokens = Upper,
                    !.listed = listed, !.mask = mask] \in Account
    BY <1>1 DEF Account
  <2>2. TRUE \in BOOLEAN  OBVIOUS
  <2> QED BY <1>4, <2>1, <2>2, Zenon DEF Registered
<1> QED BY <1>4, <1>5

(* What commands and clean up write to an account.                         *)
LEMMA AccountChanges ==
  ASSUME NEW r \in Account, NEW mask \in Masks \cup {0}
  PROVE  /\ [r EXCEPT !.unreg = TRUE] \in Account
         /\ [r EXCEPT !.used = FALSE] \in Account
         /\ [r EXCEPT !.mask = mask] \in Account
         /\ [r EXCEPT !.listed = TRUE, !.mask = mask, !.count = 0] \in Account
         /\ [r EXCEPT !.listed = FALSE, !.mask = 0, !.count = 0] \in Account
<1>1. 0 \in 0..MaxFilterCount  BY AppAssumption
<1>2. \A on \in BOOLEAN : /\ [r EXCEPT !.unreg = on] \in Account
                          /\ [r EXCEPT !.used = on] \in Account
  BY DEF Account
<1>3. \A on \in BOOLEAN, k \in Masks \cup {0} :
        [r EXCEPT !.listed = on, !.mask = k, !.count = 0] \in Account
  BY <1>1 DEF Account
<1>4. [r EXCEPT !.mask = mask] \in Account  BY DEF Account
<1>5. TRUE \in BOOLEAN /\ FALSE \in BOOLEAN  OBVIOUS
<1> QED BY <1>2, <1>3, <1>4, <1>5, Zenon

(* The tokens after an event, squelched or not.                            *)
LEMMA ChargedType ==
  ASSUME NEW a \in Apps \cup {Evs}, data[a] \in Account
  PROVE  /\ Credit(a) \in Nat
         /\ Tokens(a) \in Lower..Upper
         /\ Charged(Tokens(a)) \in Lower..Upper
<1>1. data[a].tokens \in Lower..Upper /\ data[a].elapsed \in Nat
  BY TokenTypes DEF Account
<1>2. Credit(a) \in Nat  BY <1>1, TokenAssumption DEF Credit
<1>3. Tokens(a) \in Lower..Upper
  BY <1>1, <1>2, TokenTypes DEF Tokens, Lesser
<1> QED BY <1>2, <1>3, TokenTypes, TokenAssumption DEF Charged, Greater

LEMMA LoggedType ==
  ASSUME log \in Log, NEW caller, NEW id \in OwnIds
  PROVE  LoggedByEvs(caller, id) \in Log
BY AddType DEF LoggedByEvs, Events

LEMMA TypeInit == Init => TypeOK
<1> SUFFICES ASSUME Init PROVE TypeOK  OBVIOUS
<1>1. data \in [Apps \cup {Evs} -> Account]  BY AccountTypes DEF Init
<1>2. call \in [Tasks -> Call]  BY DEF Init, Call
<1>3. log \in Log  BY ClearedType DEF Init
<1>4. allowance \in [Apps \cup {Evs} -> Int] /\ squelching \in [Apps \cup {Evs} -> BOOLEAN]
  BY TokenTypes DEF Init
<1>5. writing = Idle /\ commands \in 0..MaxCommands  BY AppAssumption DEF Init
<1>6. spoilt \in BOOLEAN  BY Zenon DEF Init
<1> QED BY <1>1, <1>2, <1>3, <1>4, <1>5, <1>6 DEF TypeOK

LEMMA TypeStep == TypeOK /\ [Next]_vars => TypeOK'
<1> SUFFICES ASSUME TypeOK, [Next]_vars PROVE TypeOK'  OBVIOUS
<1> USE AppAssumption
<1> DEFINE Accounts == Apps \cup {Evs}
<1>a. DOMAIN data = Accounts /\ \A a \in Accounts : data[a] \in Account  BY DEF TypeOK
<1>b. Idle \in Call  BY DEF Call
<1>c. \A t \in Tasks : call[t] \in Call /\ AppOf[t] \in Accounts  BY DEF TypeOK
<1>d. ASSUME NEW t \in Tasks, NEW c \in Call, Goto(t, c) PROVE call' \in [Tasks -> Call]
  BY <1>d DEF Goto, TypeOK
<1>e. 0 \in 0..MaxFilterCount  OBVIOUS
<1>f. \A m \in Log : DOMAIN m = {"entry", "next", "count", "full", "overflow", "mode"}
  BY DEF Log
<1>g. ASSUME NEW a, NEW r \in Account, data' = [data EXCEPT ![a] = r]
      PROVE  data' \in [Accounts -> Account]
  BY <1>g DEF TypeOK
<1>1. CASE CFE_EVS_TaskInit
  <2>1. EVS_AddLog(log, "started") \in Log  BY AddType DEF TypeOK, Events, OwnIds
  <2>2. Grant \in Int  BY TokenTypes
  <2>3. data' \in [Accounts -> Account]  BY <1>1, <1>g, AccountTypes DEF CFE_EVS_TaskInit
  <2>4. allowance' \in [Accounts -> Int] /\ squelching' \in [Accounts -> BOOLEAN]
    BY <1>1, <2>2 DEF CFE_EVS_TaskInit, TypeOK
  <2> QED BY <1>1, <2>1, <2>3, <2>4 DEF CFE_EVS_TaskInit, TypeOK
<1>2. ASSUME NEW t \in Tasks, CFE_EVS_Register(t) PROVE TypeOK'
  <2>1. \E r \in Account : data' = [data EXCEPT ![AppOf[t]] = r]
    BY <1>2, AccountTypes DEF CFE_EVS_Register
  <2>2. Grant \in Int  BY TokenTypes
  <2> QED BY <1>2, <2>1, <2>2 DEF CFE_EVS_Register, TypeOK
<1>3. ASSUME NEW t \in Tasks, CFE_EVS_ResetFilter(t) PROVE TypeOK'
  BY <1>3, <1>c, <1>e DEF CFE_EVS_ResetFilter, TypeOK, Account, ghosts
<1>4. ASSUME NEW t \in Tasks, NEW app \in Senders, NEW id \in Ids, NEW type \in Types,
             CFE_EVS_SendEvent(t, app, id, type)
      PROVE  TypeOK'
  <2>1. [at |-> "filter", app |-> app] \in Call /\ [at |-> "squelch", app |-> app, id |-> id] \in Call
    BY DEF Call, Squelch
  <2> QED BY <1>4, <1>d, <2>1 DEF CFE_EVS_SendEvent, TypeOK, ghosts
<1>5. ASSUME NEW t \in Tasks, NEW app \in Senders, EVS_NotRegistered(t, app) PROVE TypeOK'
  <2>1. [at |-> "tell", id |-> "unregistered", then |-> Idle] \in Call  BY DEF Call, OwnIds
  <2>2. data' \in [Accounts -> Account]
    BY <1>5, <1>a, <1>g, AccountChanges DEF EVS_NotRegistered
  <2> QED BY <1>5, <1>d, <2>1, <2>2 DEF EVS_NotRegistered, TypeOK, ghosts
<1>6. ASSUME NEW t \in Tasks, EVS_IsFiltered(t) PROVE TypeOK'
  <2> DEFINE c == call[t]
  <2>1. c.app \in Senders  BY <1>6, <1>c DEF EVS_IsFiltered, Call, Squelch, Idle
  <2>2. data[c.app].count \in 0..MaxFilterCount  BY <1>a, <2>1 DEF Account
  <2>3. \A passes \in BOOLEAN : Passed(c, passes) \in Call
    BY <1>b, <2>1 DEF Passed, Call, Squelch, Ids
  <2>4. \A passes \in BOOLEAN :
          [at |-> "load", app |-> c.app, passes |-> passes, seen |-> data[c.app].count] \in Call
    BY <2>1, <2>2 DEF Call
  <2> QED BY <1>6, <1>d, <2>3, <2>4 DEF EVS_IsFiltered, TypeOK, ghosts
<1>7. ASSUME NEW t \in Tasks, LoadCount(t) PROVE TypeOK'
  <2> DEFINE c == call[t]
  <2>1. c \in [at : {"load", "store"}, app : Senders, passes : BOOLEAN, seen : 0..MaxFilterCount]
    BY <1>7, <1>c DEF LoadCount, Call, Squelch, Idle
  <2>2. data[c.app].count \in 0..MaxFilterCount  BY <1>a, <2>1 DEF Account
  <2>3. \A seen \in 0..MaxFilterCount : [c EXCEPT !.at = "store", !.seen = seen] \in Call
    BY <2>1 DEF Call
  <2>4. PICK seen \in 0..MaxFilterCount : Goto(t, [c EXCEPT !.at = "store", !.seen = seen])
    BY <1>7, <2>1, <2>2 DEF LoadCount
  <2>5. call' \in [Tasks -> Call]  BY <1>d, <2>3, <2>4
  <2> QED BY <1>7, <2>5 DEF LoadCount, TypeOK, ghosts
<1>8. ASSUME NEW t \in Tasks, StoreCount(t) PROVE TypeOK'
  <2> DEFINE c == call[t]
             raised == (c.seen + 1) % (MaxFilterCount + 1)
  <2>1. c \in [at : {"load", "store"}, app : Senders, passes : BOOLEAN, seen : 0..MaxFilterCount]
    BY <1>8, <1>c DEF StoreCount, Call, Squelch, Idle
  <2>2. raised \in 0..MaxFilterCount
    <3>1. c.seen \in Nat  BY <2>1
    <3> QED BY <3>1
  <2>3. Passed(c, c.passes) \in {Idle} \cup Squelch  BY <2>1 DEF Passed, Squelch, Ids
  <2>4. Passed(c, c.passes) \in Call
        /\ [at |-> "tell", id |-> "locked", then |-> Passed(c, c.passes)] \in Call
    BY <2>3 DEF Call, OwnIds
  <2>5. data' = [data EXCEPT ![c.app].count = raised]  BY <1>8 DEF StoreCount
  <2>6. data' \in [Accounts -> Account]
    <3> HIDE DEF raised
    <3> QED BY SMTT(30), <2>1, <2>2, <2>5 DEF TypeOK, Account
  <2> QED BY <1>8, <1>d, <2>4, <2>6 DEF StoreCount, TypeOK, ghosts
<1>9. ASSUME NEW t \in Tasks, EVS_CheckAndIncrementSquelchTokens(t) PROVE TypeOK'
  <2> DEFINE c == call[t]
             a == c.app
  <2>1. c \in Squelch  BY <1>9, <1>c DEF EVS_CheckAndIncrementSquelchTokens, Call, Squelch, Idle
  <2>2. a \in Senders /\ a \in Accounts /\ c.id \in Ids  BY <2>1 DEF Squelch
  <2>3. Charged(Tokens(a)) \in Lower..Upper  BY <1>a, <2>2, ChargedType
  <2>4. data' = [data EXCEPT ![a].tokens = Charged(Tokens(a)),
                             ![a].elapsed = IF Credited(a) THEN 0 ELSE @]
    BY <1>9 DEF EVS_CheckAndIncrementSquelchTokens
  <2>5. data' \in [Accounts -> Account]
    <3>1. 0 \in 0..Forever  BY TokenTypes
    <3> DEFINE e == IF Credited(a) THEN 0 ELSE data[a].elapsed
               r == [data[a] EXCEPT !.tokens = Charged(Tokens(a)), !.elapsed = e]
    <3>2. r \in Account
      <4>1. data[a] \in Account  BY <1>a, <2>2
      <4>2. e \in 0..Forever  BY <3>1, <4>1 DEF Account
      <4>3. \A k \in Lower..Upper, f \in 0..Forever :
              [data[a] EXCEPT !.tokens = k, !.elapsed = f] \in Account
        BY <4>1 DEF Account
      <4> QED BY <2>3, <4>2, <4>3
    <3>3. data' = [data EXCEPT ![a] = r]  BY <2>4
    <3> QED BY <1>g, <3>2, <3>3
  <2>6. [at |-> "log", app |-> a, id |-> c.id] \in Call
        /\ [at |-> "tell", id |-> "squelched", then |-> Idle] \in Call
    BY <2>2 DEF Call, OwnIds
  <2>7. allowance' \in [Accounts -> Int] /\ squelching' \in [Accounts -> BOOLEAN]
    <3> DEFINE sent == Tokens(a) > 0
    <3>1. allowance' = IF sent THEN [allowance EXCEPT ![a] = @ - Cost] ELSE allowance
      BY <1>9 DEF EVS_CheckAndIncrementSquelchTokens
    <3>2. squelching' = [squelching EXCEPT ![a] = ~sent]
      BY <1>9 DEF EVS_CheckAndIncrementSquelchTokens
    <3>3. (~sent) \in BOOLEAN  BY Zenon
    <3> HIDE DEF sent, a
    <3>4. allowance' \in [Accounts -> Int]
      <4>1. allowance[a] - Cost \in Int  BY <2>2, TokenAssumption DEF TypeOK
      <4> QED BY <3>1, <4>1 DEF TypeOK
    <3>5. squelching' \in [Accounts -> BOOLEAN]  BY <3>2, <3>3, Zenon DEF TypeOK
    <3> QED BY <3>4, <3>5
  <2> QED BY <1>9, <1>b, <1>d, <2>5, <2>6, <2>7
          DEF EVS_CheckAndIncrementSquelchTokens, TypeOK
<1>10. ASSUME NEW t \in Tasks, EVS_SendEvent(t) PROVE TypeOK'
  <2>1. call[t] \in [at : {"tell"}, id : OwnIds, then : {Idle} \cup Squelch]
    BY <1>10, <1>c DEF EVS_SendEvent, Call, Squelch, Idle
  <2>2. call[t].then \in Call /\ call[t].id \in OwnIds  BY <2>1 DEF Call
  <2> QED BY <1>10, <1>d, <2>2, LoggedType DEF EVS_SendEvent, TypeOK, ghosts
<1>11. ASSUME NEW t \in Tasks, EVS_GenerateEventTelemetry(t) PROVE TypeOK'
  <2>1. call[t].id \in Ids
    BY <1>11, <1>c DEF EVS_GenerateEventTelemetry, Call, Squelch, Idle
  <2>2. log' \in Log  BY <1>11, <2>1, AddType DEF EVS_GenerateEventTelemetry, TypeOK, Events
  <2> QED BY <1>11, <1>b, <1>d, <2>2 DEF EVS_GenerateEventTelemetry, TypeOK, ghosts
<1>12. CASE Tick
  <2>1. \A e \in 0..Forever : Lesser(e + 1, Forever) \in 0..Forever
    BY TokenTypes DEF Lesser
  <2>2. data' \in [Accounts -> Account]
    BY ZenonT(40), <1>12, <1>a, <2>1 DEF Tick, Account
  <2>3. allowance' \in [Accounts -> Int]
    BY <1>12, <1>a, TokenTypes, TokenAssumption DEF Tick, TypeOK, Lesser
  <2> QED BY <1>12, <2>2, <2>3 DEF Tick, TypeOK
<1>13. ASSUME NEW a \in Accounts,
              \/ \E type \in Types : SwitchAppEventType(a, type)
              \/ SwitchAppEvents(a)
              \/ ChangeFilter(a) \/ DeleteFilter(a) \/ ResetFilter(a)
       PROVE  TypeOK'
  <2>1. CASE \E type \in Types : SwitchAppEventType(a, type)
    BY <2>1 DEF SwitchAppEventType, Command, TypeOK, Account, ghosts
  <2>2. CASE SwitchAppEvents(a)
    BY SMTT(30), <2>2 DEF SwitchAppEvents, Command, TypeOK, Account, ghosts
  <2>3. CASE ChangeFilter(a)
    <3>1. PICK mask \in Masks :
            data' = [data EXCEPT ![a] =
              IF ~@.listed THEN [@ EXCEPT !.listed = TRUE, !.mask = mask, !.count = 0]
              ELSE [@ EXCEPT !.mask = mask]]
      BY <2>3 DEF ChangeFilter
    <3>2. data' \in [Accounts -> Account]  BY <3>1, <1>a, <1>g, AccountChanges
    <3> QED BY <2>3, <3>2 DEF ChangeFilter, Command, TypeOK, ghosts
  <2>4. CASE DeleteFilter(a)
    <3>1. data' \in [Accounts -> Account]
      BY <2>4, <1>a, <1>g, AccountChanges DEF DeleteFilter
    <3> QED BY <2>4, <3>1 DEF DeleteFilter, Command, TypeOK, ghosts
  <2>5. CASE ResetFilter(a)
    BY <2>5, <1>e DEF ResetFilter, Command, TypeOK, Account, ghosts
  <2> QED BY <1>13, <2>1, <2>2, <2>3, <2>4, <2>5
<1>14. ASSUME NEW type \in Types, SwitchEventType(type) PROVE TypeOK'
  <2>1. data' \in [Accounts -> Account]  BY <1>14, <1>a DEF SwitchEventType, Account
  <2> QED BY <1>14, <2>1 DEF SwitchEventType, Command, TypeOK, ghosts
<1>15. CASE CommandFails
  BY <1>15, LoggedType DEF CommandFails, Command, TypeOK, OwnIds, ghosts
<1>16. CASE ClearLog
  <2>1. log' \in Log  BY <1>16, ClearedType DEF ClearLog, TypeOK
  <2>2. spoilt' \in BOOLEAN  BY <1>16 DEF ClearLog
  <2> QED BY <1>16, <2>1, <2>2 DEF ClearLog, Command, TypeOK, ghosts
<1>17. CASE SetLogMode
  <2>1. log' \in Log  BY <1>17 DEF SetLogMode, TypeOK, Log
  <2> QED BY <1>17, <2>1 DEF SetLogMode, Command, TypeOK, ghosts
<1>18. CASE WriteLogDataFile
  <2>1. log.count \in 0..LogMax /\ LogMax \in Nat  BY LogAssumption DEF TypeOK, Log
  <2> QED BY <1>18, <2>1 DEF WriteLogDataFile, Command, TypeOK, ghosts
<1>19. CASE ReportLogDataFile
  BY <1>19, LoggedType DEF ReportLogDataFile, TypeOK, OwnIds, ghosts
<1>20. ASSUME NEW a \in Apps, CFE_EVS_CleanUpApp(a) PROVE TypeOK'
  <2>1. data' \in [Accounts -> Account]
    BY <1>20, <1>a, <1>g, AccountChanges DEF CFE_EVS_CleanUpApp
  <2> QED BY <1>20, <2>1 DEF CFE_EVS_CleanUpApp, TypeOK, ghosts
<1>21. CASE ProcessorReset
  <2>1. log' \in Log
    <3>1. PICK left \in CutShort \cup {log} : log' \in Restored(left)  BY <1>21 DEF ProcessorReset
    <3> QED BY <3>1, RestoredType
  <2>2. spoilt' \in BOOLEAN  BY <1>21 DEF ProcessorReset
  <2>3. Grant \in Int  BY TokenTypes
  <2> QED BY <1>21, <1>a, <1>b, <2>1, <2>2, <2>3, AccountTypes DEF ProcessorReset, TypeOK
<1>22. CASE UNCHANGED vars
  BY <1>22 DEF vars, TypeOK
<1> QED
  BY <1>a, <1>1, <1>2, <1>3, <1>4, <1>5, <1>6, <1>7, <1>8, <1>9, <1>10, <1>11, <1>12, <1>13,
     <1>14, <1>15, <1>16, <1>17, <1>18, <1>19, <1>20, <1>21, <1>22 DEF Next

(* Accounts, calls and the log keep their types; in particular no index    *)
(* leaves the ring of the log, although EVS_AddLog does not look and a     *)
(* reset may have cut it or EVS_ClearLog short at any of their writes.     *)
THEOREM TypeCorrect == Spec => []TypeOK
<1>1. Init => TypeOK  BY TypeInit
<1>2. TypeOK /\ [Next]_vars => TypeOK'  BY TypeStep
<1> QED BY <1>1, <1>2, PTL DEF Spec

-----------------------------------------------------------------------------
(* The rate of events *)

(* What an account holds and has coming, up to one event above its limit,  *)
(* the ideal bucket holds as well, and one event more.  Without the time   *)
(* not yet credited (elapsed) this is not inductive.                       *)
Covered(a) ==
  /\ allowance[a] \in 0..Grant
  /\ allowance[a] >= Lesser(data[a].tokens + data[a].elapsed * Rate, Upper + Cost) + Cost

RateInv == \A a \in Apps \cup {Evs} : Covered(a)

\* Nothing happened to an account.
Untouched(a) ==
  /\ data'[a].tokens = data[a].tokens /\ data'[a].elapsed = data[a].elapsed
  /\ allowance'[a] = allowance[a]

LEMMA UntouchedCovered ==
  ASSUME NEW a \in Apps \cup {Evs}, Covered(a), Untouched(a)
  PROVE  Covered(a)'
BY DEF Covered, Untouched

(* A new account is covered by a full bucket.                              *)
LEMMA FreshCovered ==
  ASSUME NEW a \in Apps \cup {Evs}, data'[a] \in Account, allowance'[a] = Grant
  PROVE  Covered(a)'
<1>1. data'[a].tokens \in Int /\ data'[a].elapsed * Rate \in Nat
  <2>1. data'[a].tokens \in Int /\ data'[a].elapsed \in Nat  BY TokenTypes DEF Account
  <2> QED BY <2>1, TokenAssumption
<1>2. Grant = Upper + Cost + Cost /\ Grant \in Nat  BY TokenTypes, TokenAssumption DEF Grant
<1> QED BY <1>1, <1>2, TokenTypes, TokenAssumption DEF Covered, Lesser

(* An event costs the bucket what it costs the account, if it is sent.     *)
LEMMA ChargedCovered ==
  ASSUME NEW a \in Apps \cup {Evs}, data[a] \in Account, Covered(a),
         data'[a].tokens = Charged(Tokens(a)),
         data'[a].elapsed = (IF Credited(a) THEN 0 ELSE data[a].elapsed),
         allowance'[a] = (IF Tokens(a) > 0 THEN allowance[a] - Cost ELSE allowance[a])
  PROVE  Covered(a)'
<1> DEFINE k == data[a].tokens
           r == data[a].elapsed * Rate
           x == allowance[a]
           T == Tokens(a)
<1>1. k \in Lower..Upper /\ r \in Nat
  <2>1. k \in Lower..Upper /\ data[a].elapsed \in Nat  BY TokenTypes DEF Account
  <2> QED BY <2>1, TokenAssumption
<1>2. T = IF r >= Cost THEN Lesser(k + r, Upper) ELSE k  BY DEF Tokens, Credited, Credit
<1>3. data'[a].elapsed * Rate = IF r >= Cost THEN 0 ELSE r
  BY TokenAssumption DEF Credited, Credit
<1>4. x \in 0..Grant /\ x >= Lesser(k + r, Upper + Cost) + Cost  BY DEF Covered
<1>5. data'[a].tokens = Greater(T - Cost, Lower)  BY DEF Charged
<1>6. Lower + Cost <= 0 /\ Lower = -Upper  BY TokenTypes, TokenAssumption DEF Lower
<1>7. allowance'[a] = IF T > 0 THEN x - Cost ELSE x  OBVIOUS
<1>8. Cost \in Nat \ {0} /\ Upper \in Nat /\ Lower \in Int /\ Grant \in Nat
  BY TokenTypes, TokenAssumption
<1> HIDE DEF k, r, x, T
<1>9. T \in Lower..Upper  BY <1>1, <1>2, <1>6, <1>8 DEF Lesser
<1>10. Lesser(T + (IF r >= Cost THEN 0 ELSE r), Upper + Cost) <= Lesser(k + r, Upper + Cost)
  BY <1>1, <1>2, <1>8, <1>9 DEF Lesser
<1>11. CASE T > 0
  <2>1. data'[a].tokens = T - Cost  BY <1>5, <1>6, <1>8, <1>9, <1>11 DEF Greater
  <2>2. T + (IF r >= Cost THEN 0 ELSE r) <= Upper + Cost  BY <1>1, <1>8, <1>9
  <2>3. x >= T + (IF r >= Cost THEN 0 ELSE r) + Cost
    BY <1>1, <1>4, <1>8, <1>9, <1>10, <2>2 DEF Lesser
  <2>4. x - Cost \in 0..Grant  BY <1>1, <1>4, <1>8, <1>9, <1>11, <2>3
  <2>5. x - Cost >= (T - Cost) + (IF r >= Cost THEN 0 ELSE r) + Cost
    BY <1>1, <1>4, <1>8, <1>9, <2>3
  <2> QED BY <1>1, <1>3, <1>7, <1>8, <1>9, <1>11, <2>1, <2>4, <2>5 DEF Covered, Lesser
<1>12. CASE ~(T > 0)
  <2>1. data'[a].tokens \in Int /\ data'[a].tokens <= T
    BY <1>5, <1>8, <1>9 DEF Greater
  <2>2. Lesser(data'[a].tokens + (IF r >= Cost THEN 0 ELSE r), Upper + Cost)
          <= Lesser(T + (IF r >= Cost THEN 0 ELSE r), Upper + Cost)
    BY <1>1, <1>8, <1>9, <2>1 DEF Lesser
  <2> QED BY <1>1, <1>3, <1>4, <1>7, <1>8, <1>9, <1>10, <1>12, <2>1, <2>2 DEF Covered, Lesser
<1> QED BY <1>11, <1>12

(* Time brings the bucket at least what it brings the account.             *)
LEMMA TickCovered ==
  ASSUME NEW a \in Apps \cup {Evs}, data[a] \in Account, Covered(a),
         data'[a].tokens = data[a].tokens,
         data'[a].elapsed = Lesser(data[a].elapsed + 1, Forever),
         allowance'[a] = Lesser(allowance[a] + Rate, Grant)
  PROVE  Covered(a)'
<1> DEFINE k == data[a].tokens
           e == data[a].elapsed
           x == allowance[a]
<1>1. k \in Int /\ e \in 0..Forever  BY TokenTypes DEF Account
<1>2. x \in 0..Grant /\ x >= Lesser(k + e * Rate, Upper + Cost) + Cost  BY DEF Covered
<1>3. Rate \in Nat /\ Cost \in Nat /\ Upper \in Nat /\ Grant = Upper + 2 * Cost /\ Forever \in Nat
  BY TokenTypes, TokenAssumption DEF Grant
<1>4. e * Rate \in Nat /\ (e + 1) * Rate = e * Rate + Rate  BY <1>1, <1>3
<1>5. data'[a].elapsed = e + 1 \/ data'[a].elapsed = e  BY <1>1, <1>3 DEF Lesser
<1>6. data'[a].elapsed * Rate = e * Rate + Rate \/ data'[a].elapsed * Rate = e * Rate
  BY <1>4, <1>5
<1> HIDE DEF k, e, x
<1>7. PICK s \in Nat : s = e * Rate  BY <1>4
<1>8. PICK u \in Nat : u = data'[a].elapsed * Rate /\ (u = s + Rate \/ u = s)
  BY <1>3, <1>6, <1>7
<1>9. data'[a].tokens = k /\ allowance'[a] = Lesser(x + Rate, Grant)  BY DEF k, x
<1>10. allowance'[a] \in 0..Grant  BY <1>2, <1>3, <1>9 DEF Lesser
<1>11. allowance'[a] >= Lesser(k + u, Upper + Cost) + Cost
  BY <1>1, <1>2, <1>3, <1>7, <1>8, <1>9 DEF Lesser
<1> QED BY <1>8, <1>9, <1>10, <1>11 DEF Covered

LEMMA RateInit == Init => RateInv
<1> SUFFICES ASSUME Init, NEW a \in Apps \cup {Evs} PROVE Covered(a)
  BY DEF RateInv
<1>1. data[a] \in Account /\ allowance[a] = Grant  BY AccountTypes DEF Init
<1>2. data[a].tokens \in Int /\ data[a].elapsed * Rate \in Nat
  <2>1. data[a].tokens \in Int /\ data[a].elapsed \in Nat  BY <1>1, TokenTypes DEF Account
  <2> QED BY <2>1, TokenAssumption
<1>3. Grant = Upper + Cost + Cost /\ Grant \in Nat  BY TokenTypes, TokenAssumption DEF Grant
<1> QED BY <1>1, <1>2, <1>3, TokenTypes, TokenAssumption DEF Covered, Lesser

LEMMA RateStep == TypeOK /\ TypeOK' /\ RateInv /\ [Next]_vars => RateInv'
<1> SUFFICES ASSUME TypeOK, TypeOK', RateInv, [Next]_vars, NEW a \in Apps \cup {Evs} PROVE Covered(a)'
  BY DEF RateInv
<1>a. data[a] \in Account /\ data'[a] \in Account  BY DEF TypeOK
<1>b. DOMAIN data[a] = {"used", "unreg", "active", "types", "listed", "mask", "count", "tokens", "elapsed"}
  BY <1>a DEF Account
<1>c. DOMAIN data = Apps \cup {Evs} /\ DOMAIN allowance = Apps \cup {Evs}  BY DEF TypeOK
<1>d. Covered(a)  BY DEF RateInv
<1>e. ASSUME Untouched(a) PROVE Covered(a)'  BY <1>d, <1>e, UntouchedCovered
<1>1. CASE CFE_EVS_TaskInit
  <2>1. CASE a = Evs
    BY <1>1, <1>a, <1>c, <2>1, FreshCovered DEF CFE_EVS_TaskInit
  <2>2. CASE a # Evs
    BY <1>1, <1>c, <1>e, <2>2 DEF CFE_EVS_TaskInit, Untouched
  <2> QED BY <2>1, <2>2
<1>2. ASSUME NEW t \in Tasks, CFE_EVS_Register(t) PROVE Covered(a)'
  <2>1. CASE AppOf[t] = a
    BY <1>2, <1>a, <1>c, <2>1, FreshCovered DEF CFE_EVS_Register
  <2>2. CASE AppOf[t] # a
    BY <1>2, <1>c, <1>e, <2>2 DEF CFE_EVS_Register, Untouched
  <2> QED BY <2>1, <2>2
<1>3. ASSUME NEW t \in Tasks, CFE_EVS_ResetFilter(t) PROVE Covered(a)'
  BY <1>3, <1>b, <1>c, <1>e DEF CFE_EVS_ResetFilter, Untouched, ghosts
<1>4. ASSUME NEW t \in Tasks, NEW app \in Senders, NEW id \in Ids, NEW type \in Types,
             CFE_EVS_SendEvent(t, app, id, type)
      PROVE  Covered(a)'
  BY <1>4, <1>e DEF CFE_EVS_SendEvent, Untouched, ghosts
<1>5. ASSUME NEW t \in Tasks, NEW app \in Senders, EVS_NotRegistered(t, app) PROVE Covered(a)'
  BY <1>5, <1>b, <1>c, <1>e DEF EVS_NotRegistered, Untouched, ghosts
<1>6. ASSUME NEW t \in Tasks, EVS_IsFiltered(t) \/ LoadCount(t) PROVE Covered(a)'
  BY <1>6, <1>e DEF EVS_IsFiltered, LoadCount, Untouched, ghosts
<1>7. ASSUME NEW t \in Tasks, StoreCount(t) PROVE Covered(a)'
  BY <1>7, <1>b, <1>c, <1>e DEF StoreCount, Untouched, ghosts
<1>8. ASSUME NEW t \in Tasks, EVS_CheckAndIncrementSquelchTokens(t) PROVE Covered(a)'
  <2> DEFINE b == call[t].app
  <2>1. /\ data' = [data EXCEPT ![b].tokens = Charged(Tokens(b)),
                                ![b].elapsed = IF Credited(b) THEN 0 ELSE @]
        /\ allowance' = IF Tokens(b) > 0 THEN [allowance EXCEPT ![b] = @ - Cost] ELSE allowance
    BY <1>8 DEF EVS_CheckAndIncrementSquelchTokens
  <2> HIDE DEF b
  <2>2. CASE b = a
    <3>1. data'[a].tokens = Charged(Tokens(a))
          /\ data'[a].elapsed = (IF Credited(a) THEN 0 ELSE data[a].elapsed)
      BY <1>b, <1>c, <2>1, <2>2
    <3>2. allowance'[a] = (IF Tokens(a) > 0 THEN allowance[a] - Cost ELSE allowance[a])
      BY <1>c, <2>1, <2>2
    <3> QED BY <1>a, <1>d, <3>1, <3>2, ChargedCovered
  <2>3. CASE b # a
    BY <1>c, <1>e, <2>1, <2>3 DEF Untouched
  <2> QED BY <2>2, <2>3
<1>9. ASSUME NEW t \in Tasks, EVS_SendEvent(t) \/ EVS_GenerateEventTelemetry(t) PROVE Covered(a)'
  BY <1>9, <1>e DEF EVS_SendEvent, EVS_GenerateEventTelemetry, Untouched, ghosts
<1>10. CASE Tick
  <2>1. data'[a] = [data[a] EXCEPT !.elapsed = Lesser(@ + 1, Forever)]
    BY <1>10, <1>c DEF Tick
  <2>2. allowance'[a] = Lesser(allowance[a] + Rate, Grant)  BY <1>10, <1>c DEF Tick
  <2> QED BY <1>a, <1>b, <1>d, <2>1, <2>2, TickCovered
<1>11. ASSUME NEW b \in DOMAIN data,
              \/ \E type \in Types : SwitchAppEventType(b, type)
              \/ SwitchAppEvents(b)
              \/ ChangeFilter(b) \/ DeleteFilter(b) \/ ResetFilter(b)
       PROVE  Covered(a)'
  <2>1. CASE \E type \in Types : SwitchAppEventType(b, type)
    BY <2>1, <1>b, <1>c, <1>e DEF SwitchAppEventType, Untouched, ghosts
  <2>2. CASE SwitchAppEvents(b)
    BY <2>2, <1>b, <1>c, <1>e DEF SwitchAppEvents, Untouched, ghosts
  <2>3. CASE ChangeFilter(b)
    BY <2>3, <1>b, <1>c, <1>e DEF ChangeFilter, Untouched, ghosts
  <2>4. CASE DeleteFilter(b)
    BY <2>4, <1>b, <1>c, <1>e DEF DeleteFilter, Untouched, ghosts
  <2>5. CASE ResetFilter(b)
    BY <2>5, <1>b, <1>c, <1>e DEF ResetFilter, Untouched, ghosts
  <2> QED BY <1>11, <2>1, <2>2, <2>3, <2>4, <2>5
<1>12. ASSUME NEW type \in Types, SwitchEventType(type) PROVE Covered(a)'
  BY <1>12, <1>b, <1>c, <1>e DEF SwitchEventType, Untouched, ghosts
<1>13. CASE CommandFails \/ ClearLog \/ SetLogMode \/ WriteLogDataFile \/ ReportLogDataFile
  BY <1>13, <1>e
  DEF CommandFails, ClearLog, SetLogMode, WriteLogDataFile, ReportLogDataFile, Untouched, ghosts
<1>14. ASSUME NEW b \in Apps, CFE_EVS_CleanUpApp(b) PROVE Covered(a)'
  BY <1>14, <1>b, <1>c, <1>e DEF CFE_EVS_CleanUpApp, Untouched, ghosts
<1>15. CASE ProcessorReset
  BY <1>15, <1>a, <1>c, FreshCovered DEF ProcessorReset
<1>16. CASE UNCHANGED vars
  BY <1>16, <1>e DEF vars, Untouched
<1> QED
  BY <1>1, <1>2, <1>3, <1>4, <1>5, <1>6, <1>7, <1>8, <1>9, <1>10, <1>11, <1>12, <1>13, <1>14,
     <1>15, <1>16 DEF Next

(* No application sends more than its burst, two events, and what the rate *)
(* grants for the time that passed, for any burst, cost of an event and    *)
(* rate, and however many tasks call EVS_CheckAndIncrementSquelchTokens.   *)
THEOREM RateHolds == Spec => []RateBounded
<1>1. Init => TypeOK /\ RateInv  BY TypeInit, RateInit
<1>2. TypeOK /\ RateInv /\ [Next]_vars => TypeOK' /\ RateInv'  BY TypeStep, RateStep
<1>3. TypeOK /\ RateInv => RateBounded
  BY TokenTypes DEF TypeOK, RateInv, Covered, RateBounded
<1> QED BY <1>1, <1>2, <1>3, PTL DEF Spec

-----------------------------------------------------------------------------
(* Squelching is announced once *)

(* The sign of an account tells whether the last event was squelched: it   *)
(* is not above the cost of one below 0 then, and above it otherwise.      *)
SquelchInv == \A a \in Apps \cup {Evs} : squelching[a] <=> data[a].tokens <= -Cost

LEMMA SquelchInit == Init => SquelchInv
<1> SUFFICES ASSUME Init, NEW a \in Apps \cup {Evs} PROVE squelching[a] <=> data[a].tokens <= -Cost
  BY DEF SquelchInv
<1>1. data[a].tokens = 0 /\ ~squelching[a]  BY DEF Init, Cleared
<1> QED BY <1>1, TokenAssumption

(* An account that an event is charged to.                                 *)
LEMMA ChargedSquelch ==
  ASSUME TypeOK, NEW a \in Apps \cup {Evs}
  PROVE  /\ Tokens(a) > 0 <=> ~(Charged(Tokens(a)) <= -Cost)
         /\ data[a].tokens <= -Cost /\ Announced(a) => FALSE
         /\ ~(data[a].tokens <= -Cost) /\ ~(Tokens(a) > 0) => Announced(a)
<1>1. data[a] \in Account  BY DEF TypeOK
<1>2. data[a].tokens \in Lower..Upper /\ data[a].elapsed \in Nat  BY <1>1, TokenTypes DEF Account
<1>3. Tokens(a) \in Lower..Upper  BY <1>1, ChargedType
<1>4. Cost \in Nat \ {0} /\ Upper \in Nat /\ Lower = -Upper /\ Cost <= Upper
  BY TokenTypes, TokenAssumption DEF Lower
<1> PICK k \in Int, r \in Nat : k = data[a].tokens /\ r = Credit(a)
  BY <1>1, <1>2, <1>4, ChargedType
<1> PICK m \in Int : m = Tokens(a)  BY <1>3, <1>4
<1>5. m = IF r >= Cost THEN Lesser(k + r, Upper) ELSE k  BY DEF Tokens, Credited
<1>6. Announced(a) <=> m > -Cost /\ ~(r >= Cost)  BY DEF Announced, Credited
<1>7. m > 0 <=> ~(Charged(m) <= -Cost)  BY <1>4 DEF Charged, Greater
<1>8. k <= -Cost /\ Announced(a) => FALSE  BY <1>4, <1>5, <1>6
<1>9. ~(k <= -Cost) /\ ~(m > 0) => Announced(a)  BY <1>4, <1>5, <1>6 DEF Lesser
<1> QED BY <1>7, <1>8, <1>9

LEMMA SquelchStep == TypeOK /\ SquelchInv /\ [Next]_vars => SquelchInv'
<1> SUFFICES ASSUME TypeOK, SquelchInv, [Next]_vars, NEW a \in Apps \cup {Evs}
             PROVE  squelching'[a] <=> data'[a].tokens <= -Cost
  BY DEF SquelchInv
<1> DEFINE Goal == squelching'[a] <=> data'[a].tokens <= -Cost
<1>a. data[a] \in Account /\ DOMAIN data = Apps \cup {Evs} /\ DOMAIN squelching = Apps \cup {Evs}
  BY DEF TypeOK
<1>b. DOMAIN data[a] = {"used", "unreg", "active", "types", "listed", "mask", "count", "tokens", "elapsed"}
  BY <1>a DEF Account
<1>c. Cost \in Nat \ {0} /\ Upper \in Nat  BY TokenTypes, TokenAssumption
<1>d. squelching[a] <=> data[a].tokens <= -Cost  BY DEF SquelchInv
<1>e. ASSUME squelching' = squelching, data'[a].tokens = data[a].tokens PROVE Goal  BY <1>d, <1>e
<1>f. ASSUME squelching'[a] = FALSE, data'[a].tokens \in {0, Upper} PROVE Goal  BY <1>c, <1>f
<1>g. \A listed, mask : Registered(listed, mask).tokens = Upper /\ Cleared.tokens = 0
  BY DEF Registered, Cleared
<1> HIDE DEF Goal
<1>1. CASE CFE_EVS_TaskInit
  <2>1. CASE a = Evs  BY <1>1, <1>a, <1>f, <1>g, <2>1 DEF CFE_EVS_TaskInit, Goal
  <2>2. CASE a # Evs
    <3>1. data'[a] = data[a] /\ squelching'[a] = squelching[a]  BY <1>1, <1>a, <2>2 DEF CFE_EVS_TaskInit
    <3> QED BY <1>d, <3>1 DEF Goal
  <2> QED BY <2>1, <2>2
<1>2. ASSUME NEW t \in Tasks, CFE_EVS_Register(t) PROVE Goal
  <2>1. CASE AppOf[t] = a
    <3>1. squelching'[a] = FALSE  BY <1>2, <1>a, <2>1 DEF CFE_EVS_Register
    <3>2. PICK r : data' = [data EXCEPT ![AppOf[t]] = r]
                   /\ (r = Cleared \/ \E listed, mask : r = Registered(listed, mask))
      BY <1>2 DEF CFE_EVS_Register
    <3>3. data'[a] = r  BY <1>a, <2>1, <3>2
    <3>4. data'[a].tokens \in {0, Upper}  BY <1>g, <3>2, <3>3
    <3> QED BY <1>f, <3>1, <3>4
  <2>2. CASE AppOf[t] # a
    <3>1. data'[a] = data[a] /\ squelching'[a] = squelching[a]  BY <1>2, <1>a, <2>2 DEF CFE_EVS_Register
    <3> QED BY <1>d, <3>1 DEF Goal
  <2> QED BY <2>1, <2>2
<1>3. ASSUME NEW t \in Tasks, CFE_EVS_ResetFilter(t) PROVE Goal
  BY <1>3, <1>a, <1>b, <1>e DEF CFE_EVS_ResetFilter, ghosts
<1>4. ASSUME NEW t \in Tasks, NEW app \in Senders, NEW id \in Ids, NEW type \in Types,
             CFE_EVS_SendEvent(t, app, id, type)
      PROVE  Goal
  BY <1>4, <1>e DEF CFE_EVS_SendEvent, ghosts
<1>5. ASSUME NEW t \in Tasks, NEW app \in Senders, EVS_NotRegistered(t, app) PROVE Goal
  BY <1>5, <1>a, <1>b, <1>e DEF EVS_NotRegistered, ghosts
<1>6. ASSUME NEW t \in Tasks, EVS_IsFiltered(t) \/ LoadCount(t) PROVE Goal
  BY <1>6, <1>e DEF EVS_IsFiltered, LoadCount, ghosts
<1>7. ASSUME NEW t \in Tasks, StoreCount(t) PROVE Goal
  BY <1>7, <1>a, <1>b, <1>e DEF StoreCount, ghosts
<1>8. ASSUME NEW t \in Tasks, EVS_CheckAndIncrementSquelchTokens(t) PROVE Goal
  <2> DEFINE b == call[t].app
             sent == Tokens(b) > 0
  <2>1. /\ data' = [data EXCEPT ![b].tokens = Charged(Tokens(b)),
                                ![b].elapsed = IF Credited(b) THEN 0 ELSE @]
        /\ squelching' = [squelching EXCEPT ![b] = ~sent]
    BY <1>8 DEF EVS_CheckAndIncrementSquelchTokens
  <2>2. sent <=> Tokens(b) > 0  OBVIOUS
  <2> HIDE DEF b, sent
  <2>3. CASE b = a
    <3>1. data'[a].tokens = Charged(Tokens(a))  BY <1>a, <1>b, <2>1, <2>3
    <3>2. squelching'[a] <=> ~sent  BY <1>a, <2>1, <2>3, Zenon
    <3> QED BY <2>2, <2>3, <3>1, <3>2, ChargedSquelch DEF Goal
  <2>4. CASE b # a
    <3>1. data'[a] = data[a] /\ squelching'[a] = squelching[a]  BY <1>a, <2>1, <2>4
    <3> QED BY <1>d, <3>1 DEF Goal
  <2> QED BY <2>3, <2>4
<1>9. ASSUME NEW t \in Tasks, EVS_SendEvent(t) \/ EVS_GenerateEventTelemetry(t) PROVE Goal
  BY <1>9, <1>e DEF EVS_SendEvent, EVS_GenerateEventTelemetry, ghosts
<1>10. CASE Tick
  <2>1. data'[a] = [data[a] EXCEPT !.elapsed = Lesser(@ + 1, Forever)] /\ squelching' = squelching
    BY <1>10, <1>a DEF Tick
  <2>2. data'[a].tokens = data[a].tokens  BY <1>b, <2>1
  <2> QED BY <1>e, <2>1, <2>2 DEF Goal
<1>11. ASSUME NEW b \in DOMAIN data,
              \/ \E type \in Types : SwitchAppEventType(b, type)
              \/ SwitchAppEvents(b)
              \/ ChangeFilter(b) \/ DeleteFilter(b) \/ ResetFilter(b)
       PROVE  Goal
  <2>1. CASE \E type \in Types : SwitchAppEventType(b, type)
    BY <2>1, <1>a, <1>b, <1>e DEF SwitchAppEventType, ghosts
  <2>2. CASE SwitchAppEvents(b)
    BY <2>2, <1>a, <1>b, <1>e DEF SwitchAppEvents, ghosts
  <2>3. CASE ChangeFilter(b)
    BY <2>3, <1>a, <1>b, <1>e DEF ChangeFilter, ghosts
  <2>4. CASE DeleteFilter(b)
    BY <2>4, <1>a, <1>b, <1>e DEF DeleteFilter, ghosts
  <2>5. CASE ResetFilter(b)
    BY <2>5, <1>a, <1>b, <1>e DEF ResetFilter, ghosts
  <2> QED BY <1>11, <2>1, <2>2, <2>3, <2>4, <2>5
<1>12. ASSUME NEW type \in Types, SwitchEventType(type) PROVE Goal
  BY <1>12, <1>a, <1>b, <1>e DEF SwitchEventType, ghosts
<1>13. CASE CommandFails \/ ClearLog \/ SetLogMode \/ WriteLogDataFile \/ ReportLogDataFile
  BY <1>13, <1>e
  DEF CommandFails, ClearLog, SetLogMode, WriteLogDataFile, ReportLogDataFile, ghosts, Goal
<1>14. ASSUME NEW b \in Apps, CFE_EVS_CleanUpApp(b) PROVE Goal
  BY <1>14, <1>a, <1>b, <1>e DEF CFE_EVS_CleanUpApp, ghosts
<1>15. CASE ProcessorReset
  BY <1>15, <1>a, <1>f, <1>g DEF ProcessorReset, Goal
<1>16. CASE UNCHANGED vars
  BY <1>16, <1>e DEF vars, Goal
<1>17. Goal
  BY <1>1, <1>2, <1>3, <1>4, <1>5, <1>6, <1>7, <1>8, <1>9, <1>10, <1>11, <1>12, <1>13, <1>14,
     <1>15, <1>16 DEF Next, Goal
<1> QED BY <1>17 DEF Goal

(* Of every run of squelched events the first is announced, and no other,  *)
(* for any burst, cost and rate, whichever tasks call and however far an   *)
(* account jumps (EVS_CheckAndIncrementSquelchTokens).                     *)
THEOREM SquelchHolds == Spec => SquelchAnnounced
<1> DEFINE Announces ==
      \A t \in Tasks : EVS_CheckAndIncrementSquelchTokens(t) =>
        LET a == call[t].app IN call'[t].at = "tell" <=> (squelching'[a] /\ ~squelching[a])
<1>1. TypeOK /\ SquelchInv => Announces
  <2> SUFFICES ASSUME TypeOK, SquelchInv, NEW t \in Tasks, EVS_CheckAndIncrementSquelchTokens(t)
               PROVE  LET a == call[t].app IN call'[t].at = "tell" <=> (squelching'[a] /\ ~squelching[a])
    OBVIOUS
  <2> PICK c : c = call[t]  OBVIOUS
  <2> PICK a : a = c.app  OBVIOUS
  <2> DEFINE sent == Tokens(a) > 0
  <2>1. /\ c.at = "squelch"
        /\ call' = [call EXCEPT ![t] =
             IF sent THEN [at |-> "log", app |-> a, id |-> c.id]
             ELSE IF Announced(a) THEN [at |-> "tell", id |-> "squelched", then |-> Idle]
             ELSE Idle]
        /\ squelching' = [squelching EXCEPT ![a] = ~sent]
    BY DEF EVS_CheckAndIncrementSquelchTokens, Goto
  <2>2. sent <=> Tokens(a) > 0  OBVIOUS
  <2> HIDE DEF sent
  <2>3. a \in Apps \cup {Evs}
    <3>1. c \in Call  BY DEF TypeOK
    <3>2. c \in Squelch  BY <2>1, <3>1 DEF Call, Squelch, Idle
    <3> QED BY <3>2, AppAssumption DEF Squelch
  <2>4. DOMAIN call = Tasks /\ DOMAIN squelching = Apps \cup {Evs}  BY DEF TypeOK
  <2>5. call'[t].at = "tell" <=> ~sent /\ Announced(a)
    <3>1. Idle.at # "tell"  BY DEF Idle
    <3> QED BY <2>1, <2>4, <3>1
  <2>6. squelching'[a] <=> ~sent  BY <2>1, <2>3, <2>4, Zenon
  <2>7. squelching[a] <=> data[a].tokens <= -Cost  BY <2>3 DEF SquelchInv
  <2>8. call'[t].at = "tell" <=> (squelching'[a] /\ ~squelching[a])
    BY <2>2, <2>3, <2>5, <2>6, <2>7, ChargedSquelch
  <2> QED BY <2>8
<1>2. Init => TypeOK /\ SquelchInv  BY TypeInit, SquelchInit
<1>3. TypeOK /\ SquelchInv /\ [Next]_vars => TypeOK' /\ SquelchInv'  BY TypeStep, SquelchStep
<1>4. TypeOK /\ SquelchInv /\ [Next]_vars => [Announces]_vars  BY <1>1
<1> QED BY <1>2, <1>3, <1>4, PTL DEF Spec, SquelchAnnounced

-----------------------------------------------------------------------------
(* Files of the log *)

(* A file that lacks entries keeps lacking some, since only a command or a *)
(* reset takes any out of the log.                                         *)
ReportInv == writing.at = "report" /\ ~writing.whole => writing.wrote < log.count

LEMMA AddCount ==
  ASSUME NEW l \in Log, NEW event
  PROVE  EVS_AddLog(l, event).count \in Nat /\ l.count \in Nat /\ l.count <= EVS_AddLog(l, event).count
<1>1. l.count \in 0..LogMax /\ LogMax \in Nat  BY LogAssumption DEF Log
<1>2. EVS_AddLog(l, event).count \in {l.count, l.count + 1}  BY DEF EVS_AddLog, AddLogUpTo
<1> QED BY <1>1, <1>2

LEMMA ReportStep == TypeOK /\ TypeOK' /\ ReportInv /\ [Next]_vars => ReportInv'
<1> SUFFICES ASSUME TypeOK, TypeOK', ReportInv, [Next]_vars PROVE ReportInv'  OBVIOUS
<1>a. log \in Log /\ log' \in Log  BY DEF TypeOK
<1>b. ASSUME writing' = Idle PROVE ReportInv'  BY <1>b DEF ReportInv, Idle
<1>c. ASSUME writing' = writing, log' = log PROVE ReportInv'  BY <1>c DEF ReportInv
<1>d. ASSUME NEW event, writing' = writing, log' \in {log, EVS_AddLog(log, event)} PROVE ReportInv'
  <2>1. CASE log' = log  BY <1>c, <1>d, <2>1
  <2>2. CASE log' = EVS_AddLog(log, event)
    <3> SUFFICES ASSUME writing.at = "report", ~writing.whole PROVE writing.wrote < log'.count
      BY <1>d DEF ReportInv
    <3>1. log'.count \in Nat /\ log.count \in Nat /\ log.count <= log'.count
      BY <1>a, <2>2, AddCount
    <3>2. writing.wrote < log.count  BY DEF ReportInv
    <3>3. writing.wrote \in Nat
      <4>1. writing \in [at : {"report"}, wrote : 0..LogMax, whole : BOOLEAN]  BY DEF TypeOK, Idle
      <4> QED BY <4>1, LogAssumption
    <3> QED BY <3>1, <3>2, <3>3
  <2> QED BY <1>d, <2>1, <2>2
<1>1. CASE CFE_EVS_TaskInit  BY <1>1, <1>d DEF CFE_EVS_TaskInit
<1>2. ASSUME NEW t \in Tasks,
             \/ CFE_EVS_Register(t) \/ CFE_EVS_ResetFilter(t)
             \/ \E app \in Senders :
                  \/ \E id \in Ids, type \in Types : CFE_EVS_SendEvent(t, app, id, type)
                  \/ EVS_NotRegistered(t, app)
             \/ EVS_IsFiltered(t) \/ LoadCount(t) \/ StoreCount(t)
             \/ EVS_CheckAndIncrementSquelchTokens(t)
      PROVE  ReportInv'
  <2>1. log' = log /\ writing' = writing
    BY <1>2 DEF CFE_EVS_Register, CFE_EVS_ResetFilter, CFE_EVS_SendEvent, EVS_NotRegistered,
                EVS_IsFiltered, LoadCount, StoreCount, EVS_CheckAndIncrementSquelchTokens
  <2> QED BY <1>c, <2>1
<1>3. ASSUME NEW t \in Tasks, EVS_SendEvent(t) PROVE ReportInv'
  BY <1>3, <1>d DEF EVS_SendEvent, LoggedByEvs
<1>4. ASSUME NEW t \in Tasks, EVS_GenerateEventTelemetry(t) PROVE ReportInv'
  BY <1>4, <1>d DEF EVS_GenerateEventTelemetry
<1>5. ASSUME NEW a,
             \/ Tick
             \/ \E type \in Types : SwitchAppEventType(a, type)
             \/ SwitchAppEvents(a)
             \/ ChangeFilter(a) \/ DeleteFilter(a) \/ ResetFilter(a)
             \/ \E type \in Types : SwitchEventType(type)
             \/ CFE_EVS_CleanUpApp(a)
      PROVE  ReportInv'
  <2>1. log' = log /\ writing' = writing
    BY <1>5 DEF Tick, SwitchAppEventType, SwitchAppEvents, ChangeFilter, DeleteFilter, ResetFilter,
                SwitchEventType, CFE_EVS_CleanUpApp
  <2> QED BY <1>c, <2>1
<1>6. CASE CommandFails \/ ClearLog \/ SetLogMode
  <2>1. writing' = Idle  BY <1>6 DEF CommandFails, ClearLog, SetLogMode, Command
  <2> QED BY <1>b, <2>1
<1>7. CASE WriteLogDataFile
  <2>1. PICK wrote \in 0..log.count :
          log' = log /\ writing' = [at |-> "report", wrote |-> wrote, whole |-> wrote = log.count]
    BY <1>7 DEF WriteLogDataFile
  <2> DEFINE whole == wrote = log.count
  <2>2. writing' = [at |-> "report", wrote |-> wrote, whole |-> whole]  BY <2>1
  <2>3. whole <=> wrote = log.count  OBVIOUS
  <2> HIDE DEF whole
  <2>4. writing'.wrote = wrote /\ writing'.whole = whole  BY <2>2
  <2>5. log.count \in Nat  BY <1>a, LogAssumption DEF Log
  <2>6. ~whole => wrote < log.count  BY <2>3, <2>5
  <2> QED BY <2>1, <2>4, <2>6 DEF ReportInv
<1>8. CASE ReportLogDataFile \/ ProcessorReset
  BY <1>8, <1>b DEF ReportLogDataFile, ProcessorReset
<1>9. CASE UNCHANGED vars
  BY <1>9, <1>c DEF vars
<1>10. CASE Next
  <2>1. DOMAIN data = Apps \cup {Evs}  BY DEF TypeOK
  <2> QED BY <1>1, <1>2, <1>3, <1>4, <1>5, <1>6, <1>7, <1>8, <1>10, <2>1 DEF Next
<1> QED BY <1>9, <1>10

(* A log file is reported written only if it holds every entry the log had *)
(* when it was written, although CFE_EVS_WriteLogDataFileCmd lets go of the *)
(* mutex before it compares, and whatever size the log has.                *)
THEOREM ReportHolds == Spec => []ReportedWhole
<1>1. Init => TypeOK /\ ReportInv  BY TypeInit DEF Init, ReportInv, Idle
<1>2. TypeOK /\ ReportInv /\ [Next]_vars => TypeOK' /\ ReportInv'  BY TypeStep, ReportStep
<1>3. TypeOK /\ ReportInv => ReportedWhole
  <2> SUFFICES ASSUME TypeOK, ReportInv, writing.at = "report", WroteAll PROVE writing.whole
    BY DEF ReportedWhole
  <2>1. writing.wrote = log.count /\ log.count \in Nat
    BY LogAssumption DEF WroteAll, TypeOK, Log
  <2> QED BY <2>1 DEF ReportInv
<1> QED BY <1>1, <1>2, <1>3, PTL DEF Spec

-----------------------------------------------------------------------------
(* The log is a bounded queue *)

(* A log that no reset spoilt is full when its flag says so, and has its   *)
(* entries from the start of the ring until then.                          *)
Ordered(l) == (l.full <=> l.count = LogMax) /\ (l.count < LogMax => l.next = l.count)

LogOrder == ~spoilt => Ordered(log)

LEMMA RingIndex ==
  /\ \A i \in 0..(LogMax - 1) : i % LogMax = i
  /\ \A i \in LogMax..(2 * LogMax - 1) : i % LogMax = i - LogMax
BY LogAssumption

(* The entries are as many events as the count says.                       *)
LEMMA EntriesSeq ==
  ASSUME NEW l \in Log
  PROVE  /\ Entries(l) \in Seq(Events \cup {Torn})
         /\ Len(Entries(l)) = l.count
         /\ \A i \in 1..l.count : Entries(l)[i] = l.entry[(Oldest(l) + i - 1) % LogMax]
<1>1. l.count \in 0..LogMax /\ LogMax \in Nat \ {0} /\ Oldest(l) \in 0..(LogMax - 1)
  BY LogAssumption DEF Log, Oldest
<1>2. ASSUME NEW i \in 1..l.count
      PROVE  l.entry[(Oldest(l) + i - 1) % LogMax] \in Events \cup {Torn}
  <2>1. (Oldest(l) + i - 1) % LogMax \in 0..(LogMax - 1)  BY <1>1
  <2> QED BY <2>1 DEF Log
<1>3. Entries(l) \in [1..l.count -> Events \cup {Torn}]  BY <1>2 DEF Entries
<1>4. Entries(l) \in Seq(Events \cup {Torn})  BY <1>1, <1>3, SeqDef
<1>5. Len(Entries(l)) = l.count  BY <1>1, <1>3, <1>4, LenProperties
<1> QED BY <1>4, <1>5 DEF Entries

(* An addition is the one that EventQueue promises.                        *)
LEMMA AddIsAdded ==
  ASSUME NEW l \in Log, Ordered(l), NEW event \in Events
  PROVE  LET m == EVS_AddLog(l, event)
             q == Entries(l)
         IN /\ Ordered(m) /\ m.mode = l.mode
            /\ Entries(m) = IF Len(q) < LogMax THEN Append(q, event)
                            ELSE IF l.mode = "OVERWRITE" THEN Append(Tail(q), event)
                            ELSE q
<1> DEFINE m == EVS_AddLog(l, event)
           q == Entries(l)
           S == Events \cup {Torn}
<1>1. m \in Log /\ event \in S  BY AddType
<1>2. /\ l.next \in 0..(LogMax - 1) /\ l.count \in 0..LogMax /\ LogMax \in Nat \ {0}
      /\ l.full \in BOOLEAN /\ l.entry \in [0..(LogMax - 1) -> S]
  BY LogAssumption DEF Log
<1>3. m.mode = l.mode  BY DEF EVS_AddLog, AddLogUpTo
<1>4. LogWrites = 7  BY DEF LogWrites
<1>5. CASE l.full /\ l.mode # "OVERWRITE"
  <2>1. m.entry = l.entry /\ m.next = l.next /\ m.count = l.count /\ m.full = l.full
    BY <1>2, <1>4, <1>5 DEF EVS_AddLog, AddLogUpTo, Ordered
  <2>2. Len(q) = LogMax  BY <1>5, EntriesSeq DEF Ordered
  <2> QED BY <1>2, <1>3, <1>5, <2>1, <2>2 DEF Ordered, Entries, Oldest
<1>6. CASE ~l.full \/ l.mode = "OVERWRITE"
  <2>1. /\ m.entry = [l.entry EXCEPT ![l.next] = event]
        /\ m.next = IF l.next + 1 = LogMax THEN 0 ELSE l.next + 1
        /\ m.count = IF l.count < LogMax THEN l.count + 1 ELSE l.count
        /\ m.full <=> l.full \/ (l.count < LogMax /\ l.count + 1 = LogMax)
    <3>1. m.entry = [l.entry EXCEPT ![l.next] = event]
      BY <1>4, <1>6 DEF EVS_AddLog, AddLogUpTo
    <3>2. m.next = IF l.next + 1 = LogMax THEN 0 ELSE l.next + 1
      BY <1>4, <1>6 DEF EVS_AddLog, AddLogUpTo
    <3>3. m.count = IF l.count < LogMax THEN l.count + 1 ELSE l.count
      BY <1>4, <1>6 DEF EVS_AddLog, AddLogUpTo
    <3>4. m.full <=> l.full \/ (l.count < LogMax /\ l.count + 1 = LogMax)
      <4>1. m.full = (l.full \/ ((((~l.full \/ l.mode = "OVERWRITE") /\ LogWrites >= 7)
                                 /\ l.count < LogMax) /\ l.count + 1 = LogMax))
        BY DEF EVS_AddLog, AddLogUpTo
      <4>2. LogWrites >= 7  BY <1>4
      <4> HIDE DEF m
      <4> QED BY <1>6, <4>1, <4>2
    <3> QED BY <3>1, <3>2, <3>3, <3>4
  <2>2. Ordered(m)  BY <1>2, <2>1 DEF Ordered
  <2>3. q \in Seq(S) /\ Len(q) = l.count /\ Entries(m) \in Seq(S) /\ Len(Entries(m)) = m.count
    BY <1>1, EntriesSeq
  <2>4. CASE l.count < LogMax
    <3>1. l.next = l.count /\ m.count = l.count + 1 /\ Oldest(l) = 0 /\ Oldest(m) = 0
      BY <1>2, <2>1, <2>4 DEF Ordered, Oldest
    <3>2. ASSUME NEW i \in 1..m.count PROVE Entries(m)[i] = Append(q, event)[i]
      <4>1. Entries(m)[i] = m.entry[i - 1]
        <5>1. Entries(m)[i] = m.entry[(0 + i - 1) % LogMax]  BY <1>1, <3>1, EntriesSeq
        <5>2. 0 + i - 1 = i - 1 /\ i - 1 \in 0..(LogMax - 1)  BY <1>2, <2>4, <3>1
        <5> HIDE DEF m
        <5> QED BY <5>1, <5>2, RingIndex
      <4>2. CASE i = m.count
        BY <1>2, <2>1, <2>3, <3>1, <4>1, <4>2
      <4>3. CASE i < m.count
        <5>1. i \in 1..l.count /\ i - 1 # l.next /\ i - 1 \in 0..(LogMax - 1)
          BY <1>2, <3>1, <4>3
        <5>2. q[i] = l.entry[i - 1]
          <6>1. q[i] = l.entry[(0 + i - 1) % LogMax]  BY <3>1, <5>1, EntriesSeq
          <6>2. 0 + i - 1 = i - 1  OBVIOUS
          <6> HIDE DEF q
          <6> QED BY <5>1, <6>1, <6>2, RingIndex
        <5>3. m.entry[i - 1] = l.entry[i - 1]  BY <1>2, <2>1, <5>1
        <5>4. Append(q, event)[i] = q[i]  BY <2>3, <5>1
        <5> QED BY <4>1, <5>2, <5>3, <5>4
      <4>4. i = m.count \/ i < m.count
        <5> HIDE DEF m
        <5> QED BY <1>2, <3>1
      <4> QED BY <4>2, <4>3, <4>4
    <3>3. Append(q, event) \in Seq(S) /\ Len(Append(q, event)) = m.count
      BY <1>1, <2>3, <3>1
    <3>4. Entries(m) = Append(q, event)
      <4> HIDE DEF m, q, S
      <4> QED BY <2>3, <3>2, <3>3, SeqEqual
    <3> QED BY <1>3, <2>2, <2>3, <2>4, <3>4
  <2>5. CASE l.count = LogMax
    <3>1. l.full /\ l.mode = "OVERWRITE"  BY <1>6, <2>5 DEF Ordered
    <3>2. m.count = LogMax /\ Oldest(l) = l.next /\ Oldest(m) = m.next
      BY <1>2, <2>1, <2>5 DEF Oldest
    <3>3. q # << >>  BY <1>2, <2>3, <2>5
    <3>4. /\ Tail(q) \in Seq(S) /\ Len(Tail(q)) = LogMax - 1
          /\ \A i \in 1..(LogMax - 1) : Tail(q)[i] = q[i + 1]
      BY <2>3, <2>5, <3>3, HeadTailProperties
    <3>5. ASSUME NEW i \in 1..LogMax PROVE Entries(m)[i] = Append(Tail(q), event)[i]
      <4>1. Entries(m)[i] = m.entry[(m.next + i - 1) % LogMax]
        BY <1>1, <3>2, EntriesSeq
      <4>2. CASE i = LogMax
        <5>1. (m.next + i - 1) % LogMax = l.next
          <6>1. CASE l.next + 1 = LogMax
            <7>1. m.next + i - 1 = LogMax - 1 /\ LogMax - 1 \in 0..(LogMax - 1) /\ l.next = LogMax - 1
              BY <1>2, <2>1, <4>2, <6>1
            <7> QED BY <7>1, RingIndex
          <6>2. CASE l.next + 1 # LogMax
            <7> DEFINE k == l.next + LogMax
            <7>1. m.next + i - 1 = k /\ k \in LogMax..(2 * LogMax - 1) /\ k - LogMax = l.next
              BY SMTT(30), <1>2, <2>1, <4>2, <6>2
            <7> HIDE DEF k, m
            <7>2. k % LogMax = k - LogMax  BY <7>1, RingIndex
            <7> QED BY <7>1, <7>2
          <6> QED BY <6>1, <6>2
        <5>2. Entries(m)[i] = event  BY <1>2, <2>1, <4>1, <5>1
        <5>3. Append(Tail(q), event)[i] = event
          <6> HIDE DEF q
          <6> QED BY <1>2, <3>4, <4>2
        <5> QED BY <5>2, <5>3
      <4>3. CASE i < LogMax
        <5>1. (m.next + i - 1) % LogMax = (l.next + (i + 1) - 1) % LogMax
          <6>1. CASE l.next + 1 = LogMax
            <7>1. (l.next + (i + 1) - 1) \in LogMax..(2 * LogMax - 1)
                  /\ m.next + i - 1 = i - 1 /\ i - 1 \in 0..(LogMax - 1)
              BY <1>2, <2>1, <4>3, <6>1
            <7>2. (l.next + (i + 1) - 1) - LogMax = i - 1  BY <1>2, <6>1
            <7>3. (i - 1) % LogMax = i - 1  BY <7>1, RingIndex
            <7>4. (l.next + (i + 1) - 1) % LogMax = (l.next + (i + 1) - 1) - LogMax
              BY <7>1, RingIndex
            <7> HIDE DEF m
            <7> QED BY <7>1, <7>2, <7>3, <7>4
          <6>2. CASE l.next + 1 # LogMax
            BY <1>2, <2>1, <6>2
          <6> QED BY <6>1, <6>2
        <5>2. (l.next + (i + 1) - 1) % LogMax # l.next
              /\ (l.next + (i + 1) - 1) % LogMax \in 0..(LogMax - 1)
          <6> DEFINE k == l.next + (i + 1) - 1
          <6>1. k \in 0..(LogMax - 1) \/ k \in LogMax..(2 * LogMax - 1)  BY <1>2, <4>3
          <6>2. k % LogMax = k \/ k % LogMax = k - LogMax  BY <6>1, RingIndex
          <6>3. k % LogMax \in 0..(LogMax - 1)  BY <1>2
          <6>4. k # l.next /\ k - LogMax # l.next  BY <1>2, <4>3
          <6> QED BY <6>2, <6>3, <6>4
        <5>3. i + 1 \in 1..l.count  BY <1>2, <2>5, <4>3
        <5>4. q[i + 1] = l.entry[(l.next + (i + 1) - 1) % LogMax]
          BY <3>2, <5>3, EntriesSeq
        <5>5. Append(Tail(q), event)[i] = q[i + 1]  BY <1>2, <3>4, <4>3
        <5> HIDE DEF q, m
        <5> QED BY <1>2, <2>1, <4>1, <5>1, <5>2, <5>4, <5>5
      <4>4. i = LogMax \/ i < LogMax  BY <1>2
      <4> QED BY <4>2, <4>3, <4>4
    <3>6. Append(Tail(q), event) \in Seq(S) /\ Len(Append(Tail(q), event)) = LogMax
      BY <1>1, <1>2, <3>4
    <3>7. Entries(m) = Append(Tail(q), event)
      <4> HIDE DEF m, q, S
      <4> QED BY <2>3, <3>2, <3>5, <3>6, SeqEqual
    <3> QED BY <1>2, <1>3, <2>2, <2>3, <2>5, <3>1, <3>7
  <2> QED BY <1>2, <2>4, <2>5
<1> QED BY <1>5, <1>6

(* A step that adds an event, one that clears, one that leaves the queue.  *)
LEMMA AddStep ==
  ASSUME TypeOK, TypeOK', LogOrder, NEW event \in Events,
         log' = EVS_AddLog(log, event), spoilt' = spoilt
  PROVE  LogOrder' /\ [Queue!Next]_(Queue!vars)
<1>1. log \in Log /\ log' \in Log /\ InBounds(log) /\ InBounds(log')
  BY DEF TypeOK, Log, InBounds
<1>2. CASE spoilt
  <2>1. log'.mode = log.mode  BY DEF EVS_AddLog, AddLogUpTo
  <2> QED BY <1>1, <1>2, <2>1 DEF LogOrder, Queue!vars
<1>3. CASE ~spoilt
  <2>1. Ordered(log)  BY <1>3 DEF LogOrder
  <2>2. /\ Ordered(log') /\ log'.mode = log.mode
        /\ Entries(log') = IF Len(Entries(log)) < LogMax THEN Append(Entries(log), event)
                           ELSE IF log.mode = "OVERWRITE" THEN Append(Tail(Entries(log)), event)
                           ELSE Entries(log)
    BY <1>1, <2>1, AddIsAdded
  <2>3. Entries(log) # Torn  BY <1>1, EntriesSeq, TornAssumption
  <2>4. Queue!Add(event)  BY <1>3, <2>2, <2>3 DEF Queue!Add, Queue!Added
  <2> QED BY <1>3, <2>2, <2>4 DEF LogOrder, Queue!Next
<1> QED BY <1>2, <1>3 DEF TypeOK

LEMMA EmptiedOrder ==
  ASSUME NEW l \in Log, Emptied(l)
  PROVE  Ordered(l) /\ Entries(l) = << >>
<1>1. l.count = 0 /\ l.next = 0 /\ ~l.full  BY DEF Emptied
<1>2. Ordered(l)  BY <1>1, LogAssumption DEF Ordered
<1>3. Entries(l) \in Seq(Events \cup {Torn}) /\ Len(Entries(l)) = 0  BY <1>1, EntriesSeq
<1> QED BY <1>2, <1>3, EmptySeq

LEMMA ClearStep ==
  ASSUME log' \in Log, Emptied(log'), ~spoilt'
  PROVE  LogOrder' /\ [Queue!Next]_(Queue!vars)
<1>1. Ordered(log') /\ Entries(log') = << >>  BY EmptiedOrder
<1>2. log'.mode \in Modes  BY DEF Log
<1> QED BY <1>1, <1>2 DEF LogOrder, Queue!Next, Queue!Clear

LEMMA SameStep ==
  ASSUME log' = log, spoilt' = spoilt, LogOrder
  PROVE  LogOrder' /\ [Queue!Next]_(Queue!vars)
BY DEF LogOrder, Queue!vars

LEMMA QueueInit == Init => LogOrder /\ Queue!Init
<1> SUFFICES ASSUME Init PROVE LogOrder /\ Queue!Init  OBVIOUS
<1>1. log \in Log /\ Emptied(log) /\ ~spoilt  BY ClearedType DEF Init
<1>2. Ordered(log) /\ Entries(log) = << >> /\ log.mode \in Modes  BY <1>1, EmptiedOrder DEF Log
<1> QED BY <1>1, <1>2 DEF LogOrder, Queue!Init

(* A reset leaves an empty log, an addition done or none, or spoils it.    *)
LEMMA ResetStep ==
  ASSUME TypeOK, TypeOK', LogOrder, ProcessorReset
  PROVE  LogOrder' /\ [Queue!Next]_(Queue!vars)
<1> DEFINE Whole == {log} \cup {EVS_AddLog(log, id) : id \in UnderWay}
<1>1. /\ \E left \in CutShort \cup {log} : log' \in Restored(left)
      /\ spoilt' = (~Emptied(log') /\ (spoilt \/ log' \notin Whole))
  BY DEF ProcessorReset
<1>2. UnderWay \subseteq Events
  BY DEF UnderWay, TypeOK, Call, Idle, Squelch, Events, Ids, OwnIds
<1>3. log' \in Log /\ (Emptied(log') \/ log'.mode = log.mode)  BY <1>1, RestoredType
<1>4. InBounds(log) /\ InBounds(log')  BY <1>3 DEF TypeOK, Log, InBounds
<1>5. CASE Emptied(log')
  <2>1. ~spoilt'  BY <1>1, <1>5
  <2> QED BY <1>3, <1>5, <2>1, ClearStep
<1>6. CASE ~Emptied(log') /\ spoilt
  BY <1>1, <1>3, <1>4, <1>6 DEF LogOrder, Queue!vars
<1>7. CASE ~Emptied(log') /\ ~spoilt /\ log' \notin Whole
  <2>1. spoilt'  BY <1>1, <1>7
  <2> QED BY <1>3, <1>4, <1>7, <2>1 DEF LogOrder, Queue!Next, Queue!Spoil
<1>8. CASE ~Emptied(log') /\ ~spoilt /\ log' \in Whole
  <2>1. spoilt' = spoilt
    <3>1. ~spoilt'  BY <1>1, <1>8
    <3>2. spoilt \in BOOLEAN /\ spoilt' \in BOOLEAN  BY DEF TypeOK
    <3> QED BY <1>8, <3>1, <3>2
  <2>2. CASE log' = log
    BY <2>1, <2>2, SameStep
  <2>3. ASSUME NEW id \in UnderWay, log' = EVS_AddLog(log, id)
        PROVE  LogOrder' /\ [Queue!Next]_(Queue!vars)
    BY <1>2, <2>1, <2>3, AddStep
  <2> QED BY <1>8, <2>2, <2>3
<1> QED BY <1>5, <1>6, <1>7, <1>8

LEMMA QueueStep ==
  TypeOK /\ TypeOK' /\ LogOrder /\ [Next]_vars => LogOrder' /\ [Queue!Next]_(Queue!vars)
<1> SUFFICES ASSUME TypeOK, TypeOK', LogOrder, [Next]_vars
             PROVE  LogOrder' /\ [Queue!Next]_(Queue!vars)
  OBVIOUS
<1> DEFINE Goal == LogOrder' /\ [Queue!Next]_(Queue!vars)
<1>a. ASSUME log' = log, spoilt' = spoilt PROVE Goal  BY <1>a, SameStep
<1>b. ASSUME NEW caller, NEW id \in OwnIds, log' = LoggedByEvs(caller, id), spoilt' = spoilt PROVE Goal
  <2>1. id \in Events  BY DEF Events
  <2> QED BY <1>b, <2>1, AddStep, SameStep DEF LoggedByEvs
<1>c. \A t \in Tasks : call[t] \in Call  BY DEF TypeOK
<1> HIDE DEF Goal
<1>1. CASE CFE_EVS_TaskInit
  <2>1. "started" \in Events  BY DEF Events, OwnIds
  <2>2. log' = EVS_AddLog(log, "started") /\ spoilt' = spoilt  BY <1>1 DEF CFE_EVS_TaskInit
  <2> QED BY <2>1, <2>2, AddStep DEF Goal
<1>2. ASSUME NEW t \in Tasks,
             \/ CFE_EVS_Register(t) \/ CFE_EVS_ResetFilter(t)
             \/ \E app \in Senders :
                  \/ \E id \in Ids, type \in Types : CFE_EVS_SendEvent(t, app, id, type)
                  \/ EVS_NotRegistered(t, app)
             \/ EVS_IsFiltered(t) \/ LoadCount(t) \/ StoreCount(t)
             \/ EVS_CheckAndIncrementSquelchTokens(t)
      PROVE  Goal
  <2>1. log' = log /\ spoilt' = spoilt
    BY <1>2 DEF CFE_EVS_Register, CFE_EVS_ResetFilter, CFE_EVS_SendEvent, EVS_NotRegistered,
                EVS_IsFiltered, LoadCount, StoreCount, EVS_CheckAndIncrementSquelchTokens
  <2> QED BY <1>a, <2>1
<1>3. ASSUME NEW t \in Tasks, EVS_SendEvent(t) PROVE Goal
  <2>1. call[t].id \in OwnIds  BY <1>3, <1>c DEF EVS_SendEvent, Call, Squelch, Idle
  <2> QED BY <1>3, <1>b, <2>1 DEF EVS_SendEvent
<1>4. ASSUME NEW t \in Tasks, EVS_GenerateEventTelemetry(t) PROVE Goal
  <2>1. call[t].id \in Events
    BY <1>4, <1>c DEF EVS_GenerateEventTelemetry, Call, Squelch, Idle, Events
  <2> QED BY <1>4, <2>1, AddStep DEF EVS_GenerateEventTelemetry, Goal
<1>5. ASSUME NEW a,
             \/ Tick
             \/ \E type \in Types : SwitchAppEventType(a, type)
             \/ SwitchAppEvents(a)
             \/ ChangeFilter(a) \/ DeleteFilter(a) \/ ResetFilter(a)
             \/ \E type \in Types : SwitchEventType(type)
             \/ WriteLogDataFile
             \/ CFE_EVS_CleanUpApp(a)
      PROVE  Goal
  <2>1. log' = log /\ spoilt' = spoilt
    BY <1>5 DEF Tick, SwitchAppEventType, SwitchAppEvents, ChangeFilter, DeleteFilter, ResetFilter,
                SwitchEventType, WriteLogDataFile, CFE_EVS_CleanUpApp
  <2> QED BY <1>a, <2>1
<1>6. CASE CommandFails
  <2>1. log' = LoggedByEvs(Evs, "failed") /\ spoilt' = spoilt  BY <1>6 DEF CommandFails
  <2>2. "failed" \in OwnIds  BY DEF OwnIds
  <2> QED BY <1>b, <2>1, <2>2 DEF Goal
<1>7. CASE ReportLogDataFile
  <2>1. (log' = log \/ log' = LoggedByEvs(Evs, "failed")) /\ spoilt' = spoilt
    BY <1>7 DEF ReportLogDataFile
  <2>2. "failed" \in OwnIds  BY DEF OwnIds
  <2> QED BY <1>a, <1>b, <2>1, <2>2 DEF Goal
<1>8. CASE ClearLog
  <2>1. log' = EVS_ClearLog(log) /\ ~spoilt'  BY <1>8 DEF ClearLog
  <2>2. log' \in Log /\ Emptied(log')  BY <2>1, ClearedType DEF TypeOK
  <2> QED BY <2>1, <2>2, ClearStep DEF Goal
<1>9. CASE SetLogMode
  <2>1. PICK mode \in Modes : log' = [log EXCEPT !.mode = mode] /\ spoilt' = spoilt
    BY <1>9 DEF SetLogMode
  <2>2. /\ log'.mode \in Modes /\ log'.entry = log.entry /\ log'.next = log.next
        /\ log'.count = log.count /\ log'.full = log.full
    BY <2>1 DEF TypeOK, Log
  <2>3. Entries(log') = Entries(log) /\ InBounds(log') = InBounds(log) /\ Ordered(log') = Ordered(log)
    BY <2>2 DEF Entries, Oldest, InBounds, Ordered
  <2>4. Queue!SetMode  BY <2>1, <2>2, <2>3 DEF Queue!SetMode
  <2> QED BY <2>1, <2>3, <2>4 DEF Goal, LogOrder, Queue!Next
<1>10. CASE ProcessorReset
  BY <1>10, ResetStep DEF Goal
<1>11. CASE UNCHANGED vars
  <2>1. log' = log /\ spoilt' = spoilt  BY <1>11 DEF vars
  <2> QED BY <1>a, <2>1 DEF Goal
<1>12. Goal
  <2>1. CASE Next
    <3>1. DOMAIN data = Apps \cup {Evs}  BY DEF TypeOK
    <3> QED BY <1>1, <1>2, <1>3, <1>4, <1>5, <1>6, <1>7, <1>8, <1>9, <1>10, <2>1 DEF Next, Goal
  <2> QED BY <1>11, <2>1 DEF Goal
<1> QED BY <1>12 DEF Goal

(* The ring in the reset area implements a bounded queue of events, for    *)
(* every size of it: additions by any tasks, changes of mode, clearing and *)
(* resets (cfe_evs_log.c, CFE_EVS_EarlyInit) are steps of the queue.  Of a *)
(* log that a reset left in the middle of an addition or of a clear only   *)
(* the bounds are promised, until it is cleared or restored empty.         *)
THEOREM LogImplementsQueue == Spec => LogIsQueue
<1>1. Init => TypeOK /\ LogOrder /\ Queue!Init  BY TypeInit, QueueInit
<1>2. TypeOK /\ LogOrder /\ [Next]_vars => TypeOK' /\ LogOrder' /\ [Queue!Next]_(Queue!vars)
  BY TypeStep, QueueStep
<1> QED BY <1>1, <1>2, PTL DEF Spec, LogIsQueue, Queue!Spec
=============================================================================
