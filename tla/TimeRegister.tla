----------------------------- MODULE TimeRegister -----------------------------
(***************************************************************************)
(* What Time Services promises to whoever asks for the time: the reference *)
(* data behave as one register that the TIME task writes in one step, and  *)
(* a read gives some value that the register had while the read was        *)
(* running, or nothing at all, and nothing only if the register was        *)
(* written more than Tolerance times meanwhile.  CFE_TIME_GetReference     *)
(* returns the record of zeros for nothing.                                *)
(***************************************************************************)
EXTENDS Naturals, Sequences

CONSTANTS
  Readers,      \* tasks that ask for the time
  Value,        \* what the register can hold
  Zeroed,       \* the answer when there is none
  Tolerance     \* writes during a read that the read must survive

VARIABLES
  value,        \* the register
  during,       \* by reader: the values of the register since its read began
  answer        \* by reader: what its last read gave

vars == <<value, during, answer>>

Init ==
  /\ value \in Value
  /\ during = [r \in Readers |-> <<>>]
  /\ answer = [r \in Readers |-> Zeroed]

Write ==
  /\ value' \in Value
  /\ during' = [r \in Readers |-> IF during[r] = <<>> THEN <<>>
                                  ELSE Append(during[r], value')]
  /\ UNCHANGED answer

Begin(r) ==
  /\ during[r] = <<>>
  /\ during' = [during EXCEPT ![r] = <<value>>]
  /\ answer' = [answer EXCEPT ![r] = Zeroed]
  /\ UNCHANGED value

Return(r) ==
  /\ \E i \in DOMAIN during[r] : answer' = [answer EXCEPT ![r] = during[r][i]]
  /\ during' = [during EXCEPT ![r] = <<>>]
  /\ UNCHANGED value

GiveUp(r) ==
  /\ Len(during[r]) > Tolerance
  /\ during' = [during EXCEPT ![r] = <<>>]
  /\ UNCHANGED <<value, answer>>

Next == Write \/ \E r \in Readers : Begin(r) \/ Return(r) \/ GiveUp(r)

Spec == Init /\ [][Next]_vars
=============================================================================
