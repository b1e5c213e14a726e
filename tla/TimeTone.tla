------------------------------- MODULE TimeTone -------------------------------
(***************************************************************************)
(* Time at the tone (cfe_time_tone.c): a hardware tone strikes once a      *)
(* second, and a data packet that follows it says which second it was.     *)
(* The TIME task pairs tone and packet by its local clock, which rolls     *)
(* over, and between pairs reckons the MET from that clock.  A server      *)
(* counts the tones and sends the packets, to itself and to clients; a     *)
(* client believes the packets.  Without pairs the clock "flywheels".      *)
(* Tones may be missed, packets lost, late or doubled.                     *)
(*                                                                         *)
(* One node is modelled, server or client; its tones come from hardware    *)
(* (CFE_MISSION_TIME_CFG_FAKE_TONE false), the packet follows the tone     *)
(* (CFE_MISSION_TIME_AT_TONE_WAS), the source is internal and the MET      *)
(* virtual.  An update of the reference is one step: see TimeReference.    *)
(* The unit of time is a fraction of a second, and the MET is counted in   *)
(* it too.                                                                 *)
(***************************************************************************)
EXTENDS Integers

CONSTANTS
  Second,       \* units in a second
  Window,       \* CFE_MISSION_TIME_MAX_ELAPSED, in units
  MaxLocal,     \* CFE_PLATFORM_TIME_MAX_LOCAL_SECS, in units
  StartFly,     \* CFE_PLATFORM_TIME_CFG_START_FLY, in seconds
  LatchFly,     \* CFE_PLATFORM_TIME_CFG_LATCH_FLY, in seconds
  MaxDelay,     \* bound on the time from a tone to the use of its packet
  MaxNow        \* bound on time

\* MaxElapsed is in subseconds, and so less than a second.
ASSUME UnitsAssumption == Second \in Nat \ {0} /\ Window \in Nat /\ Window < Second

\* A packet is used or lost before the next tone.
ASSUME DelayAssumption == MaxDelay \in Nat /\ MaxDelay < Second /\ MaxNow \in Nat

\* A clock that flies moves its latch before the local clock comes round to it.
ASSUME RollOverAssumption ==
  MaxLocal \in Nat /\ \A s \in {StartFly, LatchFly} : s \in Nat \ {0} /\ MaxLocal > (s + 2) * Second

VARIABLES
  now,          \* true time, which is the true MET
  due,          \* what is still to happen at this instant
  role,         \* "server" or "client"
  phase,        \* when in a second the local 1Hz message is handled
  ref,          \* the reference data: AtToneMET, AtToneLatch, ClockSetState, ClockFlyState
  tone,         \* ToneSignalLatch, IsToneGood
  prev,         \* PrevTime1 and PrevTime2 of CFE_TIME_ToneVerify
  VirtualMET,   \* tones counted
  Forced2Fly, ServerFly,
  packets,      \* data packets not handled yet
  synced,       \* a client has had a pair
  missed        \* a server has missed a tone

toneVars == <<now, due, role, phase, ref, tone, prev, VirtualMET, Forced2Fly, ServerFly, packets, synced, missed>>

ClockStates == {"VALID", "FLYWHEEL", "INVALID"}

LocalTime == now % MaxLocal
\* Faulty form: the roll-over of the local clock is forgotten.
ElapsedNoRollover(from, to) == to - from

\* Time on the local clock, which may have rolled over between the two.
Elapsed(from, to) == IF to < from THEN (MaxLocal - from) + to ELSE to - from

TimeSinceTone == Elapsed(ref.latch, LocalTime)
CurrentMET    == ref.met + TimeSinceTone
Seconds(t)    == t \div Second

CalculateState ==
  IF ~ref.set THEN "INVALID"
  ELSE IF ref.fly \/ (role = "client" /\ ServerFly) THEN "FLYWHEEL"
  ELSE "VALID"

\* What happens at an instant: the tone and then the packet, the 1Hz message.
Due(t) ==
  (IF t % Second = 0 THEN {"tone", "data"} ELSE {}) \cup (IF t % Second = phase THEN {"onehz"} ELSE {})

(* CFE_TIME_InitData, when the local clock starts and the first tone is    *)
(* about to strike, which a server takes for second 0; a client has no MET *)
(* until it has had a pair.                                                *)
ToneInit ==
  /\ now = 0
  /\ role \in {"server", "client"}
  /\ phase \in 0..(Second - 1)
  /\ due = Due(0)
  /\ ref = [met |-> 0, latch |-> 0, set |-> FALSE, fly |-> TRUE]
  /\ tone = [latch |-> 0, good |-> FALSE]
  /\ prev = [tone |-> 0, data |-> 0]
  /\ VirtualMET = 0
  /\ Forced2Fly = FALSE
  /\ ServerFly = TRUE
  /\ packets = {}
  /\ synced = (role = "server")
  /\ missed = FALSE

UnitPasses ==
  /\ now < MaxNow
  /\ due = {}
  /\ \A p \in packets : now - p.sent < MaxDelay
  /\ now' = now + 1
  /\ due' = Due(now + 1)
  /\ UNCHANGED <<role, phase, ref, tone, prev, VirtualMET, Forced2Fly, ServerFly, packets, synced, missed>>

-----------------------------------------------------------------------------
(* The tone.                                                               *)

\* CFE_TIME_Tone1HzISR: only a tone one second after the last is counted.
Tone1HzISR ==
  LET good == Elapsed(tone.latch, LocalTime) = Second IN
  /\ "tone" \in due
  /\ due' = due \ {"tone"}
  /\ tone' = [latch |-> LocalTime, good |-> good]
  /\ VirtualMET' = IF good THEN VirtualMET + 1 ELSE VirtualMET
  /\ UNCHANGED <<now, role, phase, ref, prev, Forced2Fly, ServerFly, packets, synced, missed>>

\* Tones are not missed for as long as the local clock takes to roll over.
ToneMissed ==
  /\ "tone" \in due
  /\ Elapsed(tone.latch, LocalTime) + Second + Window < MaxLocal
  /\ due' = due \ {"tone"}
  /\ missed' = TRUE
  /\ UNCHANGED <<now, role, phase, ref, tone, prev, VirtualMET, Forced2Fly, ServerFly, packets, synced>>

-----------------------------------------------------------------------------
(* The data packet.                                                        *)

\* CFE_TIME_ToneSend, asked for by the scheduler after the tone.
ToneSend ==
  /\ role = "server"
  /\ "data" \in due /\ "tone" \notin due
  /\ due' = due \ {"data"}
  /\ packets' = packets \cup
       {[met |-> Second * (IF ref.fly THEN Seconds(CurrentMET) ELSE VirtualMET),
         state |-> CalculateState, sent |-> now]}
  /\ UNCHANGED <<now, role, phase, ref, tone, prev, VirtualMET, Forced2Fly, ServerFly, synced, missed>>

\* The packet of a server whose MET is right comes to a client.
ServerSends ==
  /\ role = "client"
  /\ "data" \in due /\ "tone" \notin due
  /\ due' = due \ {"data"}
  /\ \E state \in ClockStates : packets' = packets \cup {[met |-> now, state |-> state, sent |-> now]}
  /\ UNCHANGED <<now, role, phase, ref, tone, prev, VirtualMET, Forced2Fly, ServerFly, synced, missed>>

LosePacket ==
  /\ \E p \in packets : packets' = packets \ {p}
  /\ UNCHANGED <<now, due, role, phase, ref, tone, prev, VirtualMET, Forced2Fly, ServerFly, synced, missed>>

(* CFE_TIME_ToneUpdate.  A server that flew has missed tones, and takes    *)
(* its count from the local clock.                                         *)
ServerUpdate ==
  LET met == IF ref.fly THEN Seconds(CurrentMET) ELSE VirtualMET IN
  /\ VirtualMET' = met
  /\ ref' = [ref EXCEPT !.met = Second * met, !.latch = tone.latch, !.fly = FALSE]
  /\ ServerFly' = (ServerFly /\ ~ref.fly)

ClientUpdate(p) ==
  /\ ref' = [met |-> p.met, latch |-> tone.latch, set |-> p.state # "INVALID", fly |-> FALSE]
  /\ ServerFly' = (p.state = "FLYWHEEL")
  /\ UNCHANGED VirtualMET

ToneUpdate(p) ==
  /\ IF role = "server" THEN ServerUpdate ELSE ClientUpdate(p)
  /\ synced' = TRUE

\* CFE_TIME_ToneVerify: a tone pairs with one packet, within the window.
ToneMatches ==
  /\ prev.tone # tone.latch
  /\ prev.data # LocalTime
  /\ Elapsed(tone.latch, LocalTime) <= Window

ToneData(p) ==
  /\ p \in packets
  /\ \E doubled \in BOOLEAN : packets' = IF doubled THEN packets ELSE packets \ {p}
  /\ prev' = [tone |-> tone.latch, data |-> LocalTime]
  /\ IF ToneMatches /\ ~Forced2Fly THEN ToneUpdate(p)
     ELSE UNCHANGED <<ref, VirtualMET, ServerFly, synced>>
  /\ UNCHANGED <<now, due, role, phase, tone, Forced2Fly, missed>>

-----------------------------------------------------------------------------
(* The local 1Hz message and the command that sets the clock state.        *)
\* Faulty form: the clock flies only after twice the time.
OneHzLate ==
  /\ "onehz" \in due
  /\ due' = due \ {"onehz"}
  /\ ref' = IF Seconds(TimeSinceTone) >= 2 * StartFly THEN [ref EXCEPT !.fly = TRUE] ELSE ref
  /\ UNCHANGED <<now, role, phase, tone, prev, VirtualMET, Forced2Fly, ServerFly, packets, synced, missed>>

\* A clock that starts to fly here has its latch moved a second later at best.
Local1HzStateMachine ==
  /\ "onehz" \in due
  /\ due' = due \ {"onehz"}
  /\ IF ~ref.fly /\ Seconds(TimeSinceTone) >= StartFly
     THEN /\ ref' = [ref EXCEPT !.fly = TRUE]
          /\ ServerFly' = (ServerFly \/ role = "server")
     ELSE /\ ref' = IF ref.fly /\ Seconds(TimeSinceTone) >= LatchFly
                    THEN [ref EXCEPT !.met = CurrentMET, !.latch = LocalTime] ELSE ref
          /\ UNCHANGED ServerFly
  /\ UNCHANGED <<now, role, phase, tone, prev, VirtualMET, Forced2Fly, packets, synced, missed>>

SetState(state) ==
  /\ Forced2Fly' = (state = "FLYWHEEL")
  /\ ref' = IF state = "FLYWHEEL" THEN [ref EXCEPT !.fly = TRUE]
            ELSE [ref EXCEPT !.set = (state = "VALID")]
  /\ ServerFly' = (ServerFly \/ (role = "server" /\ state = "FLYWHEEL"))
  /\ UNCHANGED <<now, due, role, phase, tone, prev, VirtualMET, packets, synced, missed>>

ToneNext ==
  \/ UnitPasses
  \/ Tone1HzISR \/ ToneMissed
  \/ ToneSend \/ ServerSends \/ LosePacket
  \/ \E p \in packets : ToneData(p)
  \/ Local1HzStateMachine
  \/ \E state \in ClockStates : SetState(state)

ToneSpec == ToneInit /\ [][ToneNext]_toneVars

-----------------------------------------------------------------------------
ToneTypeOK ==
  /\ now \in 0..MaxNow
  /\ due \subseteq {"tone", "data", "onehz"}
  /\ role \in {"server", "client"} /\ phase \in 0..(Second - 1)
  /\ ref \in [met : Int, latch : 0..(MaxLocal - 1), set : BOOLEAN, fly : BOOLEAN]
  /\ tone \in [latch : 0..(MaxLocal - 1), good : BOOLEAN]
  /\ prev \in [tone : 0..(MaxLocal - 1), data : 0..(MaxLocal - 1)]
  /\ VirtualMET \in Int
  /\ Forced2Fly \in BOOLEAN /\ ServerFly \in BOOLEAN /\ synced \in BOOLEAN /\ missed \in BOOLEAN
  /\ packets \subseteq [met : Int, state : ClockStates, sent : 0..MaxNow]

\* What the TIME task has been told suffices to know the MET.
Informed == synced /\ ~(role = "server" /\ missed)

(* The MET is right at every instant, whatever packets and (for a client)  *)
(* tones were lost, late or doubled, however long the clock flew, and over *)
(* every roll-over of the local clock; and a server hands it on            *)
(* (CFE_TIME_ToneVerify, CFE_TIME_ToneUpdate, CFE_TIME_Local1HzStateMachine).*)
MetTrue ==
  Informed =>
    /\ CurrentMET = now
    /\ role = "server" => \A p \in packets : p.met = Second * Seconds(p.sent)

(* A clock that has had no pair for so long says that it flies             *)
(* (CFE_TIME_Local1HzStateMachine), although the local clock rolled over.  *)
FlywheelSoon == Informed /\ ~ref.fly => now - ref.met <= (StartFly + 1) * Second
=============================================================================
