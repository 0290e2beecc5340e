-------------------------- MODULE RotateTokenProofs --------------------------
(* For any number of pipelines, any validity of the token and any position of *)
(* the schedule in it: whichever calls fail, the token does not expire and    *)
(* the variable holds it, if a lost token is replaced within the days that    *)
(* are between the threshold and the schedule.                                *)
EXTENDS RotateToken, TLAPS

(* A lost token is replaced so soon that the schedule, which is not moved     *)
(* then, still fires when the new token is to be rotated.                     *)
ReplacedInTime == Patience <= Threshold - Lead

Idle == \A p \in Pipelines : pc[p] = "idle"

(* The schedule belongs to the token: while there is no need to rotate, it    *)
(* fires in the days between the threshold and Lead days before the end;      *)
(* afterwards it is still to fire then, or its pipeline has been waiting      *)
(* since then, or a pipeline failed.                                          *)
ScheduleInv ==
  /\ left > 0
  /\ left > Threshold => left - next \in Lead .. Threshold
  /\ Idle /\ ~failed /\ left <= Threshold =>
       \/ left - next \in Lead .. Threshold
       \/ due /\ left + waited \in Lead .. Threshold /\ next + waited = Year

(* A pipeline that is going to rotate has the schedule moved; one that has    *)
(* rotated is alone with the new token; one that has lost it is known to have *)
(* failed, and no other is logged in.                                         *)
PipelineInv ==
  /\ \A p \in Pipelines :
       /\ pc[p] \in {"schedule", "rotate"} /\ cred[p] => left <= Threshold
       /\ pc[p] = "rotate" /\ cred[p] => next = Validity - Lead
       /\ pc[p] = "update" =>
            /\ ~var /\ left = Validity /\ left = next + Lead
            /\ \A q \in Pipelines : cred[q] \/ pc[q] = "update" => q = p
  /\ Lost =>
       /\ failed /\ left = next + Lead /\ Validity - left <= Patience
       /\ \A p \in Pipelines : cred[p] => pc[p] = "idle"

IInv == TypeOK /\ ScheduleInv /\ PipelineInv
-----------------------------------------------------------------------------
(* The first rotation leaves the schedule where the invariant wants it.       *)
LEMMA InitIInv == Init => IInv
<1> SUFFICES ASSUME Init PROVE IInv
  OBVIOUS
<1>1. /\ Validity \in Nat /\ Validity > 0 /\ Validity - Lead \in 1 .. Year
      /\ 0 \in 0 .. Delay
  BY RotationAssumption
<1>2. TypeOK
  <2>1. left \in 0 .. Validity /\ next \in 1 .. Year /\ waited \in 0 .. Delay
    BY <1>1 DEF Init
  <2>2. cred \in [Pipelines -> BOOLEAN]
    BY Zenon DEF Init
  <2> QED BY <2>1, <2>2 DEF Init, TypeOK
<1>3. ScheduleInv
  BY RotationAssumption DEF Init, ScheduleInv
<1>4. PipelineInv
  BY DEF Init, PipelineInv, Lost
<1> QED BY <1>2, <1>3, <1>4 DEF IInv

(* A pipeline that ends as failed leaves the invariant as it is.              *)
LEMMA AbortIInv ==
  ASSUME IInv, NEW p \in Pipelines, Abort(p), pc[p] # "update"
  PROVE  IInv'
<1>1. TypeOK'
  BY DEF IInv, TypeOK, Abort, Goto
<1>2. ScheduleInv'
  BY DEF IInv, ScheduleInv, Abort
<1>3. Lost' <=> Lost
  BY DEF Lost, Abort, Goto, IInv, TypeOK
<1>4. PipelineInv'
  BY <1>3 DEF IInv, TypeOK, PipelineInv, Abort, Goto
<1> QED BY <1>1, <1>2, <1>4 DEF IInv

(* A pipeline that starts, or is due and starts, is not idle.                 *)
LEMMA StartIInv ==
  ASSUME IInv, NEW p \in Pipelines, Start(p)
  PROVE  IInv'
<1>1. TypeOK'
  <2>1. cred' \in [Pipelines -> BOOLEAN]
    BY Zenon DEF IInv, TypeOK, Start
  <2>2. due' \in BOOLEAN /\ waited' \in 0 .. Delay
    <3>1. CASE due' = FALSE /\ waited' = 0
      <4>1. due' \in BOOLEAN
        BY <3>1, Zenon
      <4>2. waited' \in 0 .. Delay
        BY <3>1, RotationAssumption
      <4> QED BY <4>1, <4>2
    <3>2. CASE UNCHANGED <<due, waited>>
      BY <3>2 DEF IInv, TypeOK
    <3> QED BY <3>1, <3>2 DEF Start
  <2>3. /\ UNCHANGED <<left, next, var, failed>>
        /\ pc' = [pc EXCEPT ![p] = "check"]
    BY DEF Start, Goto
  <2> QED BY <2>1, <2>2, <2>3 DEF IInv, TypeOK
<1>2. ScheduleInv'
  BY DEF IInv, TypeOK, ScheduleInv, Start, Goto, Idle
<1>3. PipelineInv'
  <2>1. Lost' <=> Lost
    BY DEF Lost, Start, Goto, IInv, TypeOK
  <2>2. /\ pc' = [pc EXCEPT ![p] = "check"]
        /\ UNCHANGED <<left, next, var, failed>>
        /\ \A q \in Pipelines : cred'[q] = IF q = p THEN var ELSE cred[q]
    BY DEF Start, Goto, IInv, TypeOK
  <2> QED BY <2>1, <2>2 DEF IInv, TypeOK, PipelineInv, Lost
<1> QED BY <1>1, <1>2, <1>3 DEF IInv

(* The check ends a pipeline only while there is nothing to do.               *)
LEMMA CheckIInv ==
  ASSUME IInv, NEW p \in Pipelines, Check(p)
  PROVE  IInv'
<1>1. CASE Abort(p)
  BY <1>1, AbortIInv DEF Check
<1>2. CASE ~Abort(p)
  <2>1. TypeOK'
    BY <1>2 DEF IInv, TypeOK, Check, Goto
  <2>2. ScheduleInv'
    BY <1>2, RotationAssumption
    DEF IInv, TypeOK, ScheduleInv, Check, Goto, Idle
  <2>3. PipelineInv'
    <3>1. Lost' <=> Lost
      BY <1>2 DEF Lost, Check, Goto, IInv, TypeOK
    <3>2. ~Lost
      BY <1>2 DEF IInv, PipelineInv, Check, LoggedIn
    <3> QED BY <1>2, <3>1, <3>2 DEF IInv, TypeOK, PipelineInv, Check, Goto
  <2> QED BY <2>1, <2>2, <2>3 DEF IInv
<1> QED BY <1>1, <1>2

(* The schedule moves while the token is in its last days.                    *)
LEMMA ScheduleIInv ==
  ASSUME IInv, NEW p \in Pipelines, Schedule(p)
  PROVE  IInv'
<1>1. CASE Abort(p)
  BY <1>1, AbortIInv DEF Schedule
<1>2. CASE ~Abort(p)
  <2>1. TypeOK'
    BY <1>2, RotationAssumption DEF IInv, TypeOK, Schedule, Goto
  <2>2. ScheduleInv'
    BY <1>2, RotationAssumption
    DEF IInv, TypeOK, ScheduleInv, PipelineInv, Schedule, Goto, Idle, LoggedIn
  <2>3. PipelineInv'
    <3>1. Lost' <=> Lost
      BY <1>2 DEF Lost, Schedule, Goto, IInv, TypeOK
    <3>2. ~Lost /\ cred[p] /\ pc[p] = "schedule"
      BY <1>2 DEF IInv, PipelineInv, Schedule, LoggedIn
    <3>3. \A q \in Pipelines : pc[q] # "update"
      BY <3>2 DEF IInv, PipelineInv
    <3> QED
      BY <1>2, <3>1, <3>2, <3>3 DEF IInv, TypeOK, PipelineInv, Schedule, Goto
  <2> QED BY <2>1, <2>2, <2>3 DEF IInv
<1> QED BY <1>1, <1>2

(* The rotation takes the token away from every other pipeline.               *)
LEMMA RotateIInv ==
  ASSUME IInv, NEW p \in Pipelines, Rotate(p)
  PROVE  IInv'
<1>1. CASE Abort(p)
  BY <1>1, AbortIInv DEF Rotate
<1>2. CASE ~Abort(p)
  <2>1. TypeOK'
    <3>1. cred' = [q \in Pipelines |-> q = p]
      BY <1>2 DEF Rotate
    <3>2. cred' \in [Pipelines -> BOOLEAN]
      BY <3>1, Zenon
    <3>3. /\ left' = Validity /\ var' = FALSE
          /\ UNCHANGED <<next, due, waited, failed>>
          /\ pc' = [pc EXCEPT ![p] = "update"]
      BY <1>2 DEF Rotate, Goto
    <3>4. left' \in 0 .. Validity
      BY <3>3, RotationAssumption
    <3>5. var' \in BOOLEAN
      BY <3>3
    <3> QED BY <3>2, <3>3, <3>4, <3>5 DEF IInv, TypeOK
  <2>2. ScheduleInv'
    <3>1. cred[p] /\ pc[p] = "rotate" /\ left' = Validity /\ next' = next
      BY <1>2 DEF Rotate, LoggedIn
    <3>2. next = Validity - Lead
      BY <3>1 DEF IInv, PipelineInv
    <3> QED
      BY <3>1, <3>2, RotationAssumption DEF ScheduleInv
  <2>3. PipelineInv'
    <3>1. \A q \in Pipelines : pc[q] = "update" => q = p
      BY <1>2 DEF Rotate, LoggedIn, IInv, PipelineInv
    <3>2. /\ left' = Validity /\ ~var'
          /\ \A q \in Pipelines : cred'[q] => q = p
          /\ \A q \in Pipelines : pc'[q] = IF q = p THEN "update" ELSE pc[q]
      BY <1>2 DEF Rotate, Goto, IInv, TypeOK
    <3>3. next' = Validity - Lead /\ Validity = next' + Lead
      BY <1>2, RotationAssumption DEF Rotate, LoggedIn, IInv, PipelineInv
    <3>4. ~Lost'
      BY <3>2 DEF Lost
    <3> QED BY <3>1, <3>2, <3>3, <3>4 DEF PipelineInv
  <2> QED BY <2>1, <2>2, <2>3 DEF IInv
<1> QED BY <1>1, <1>2

(* The update ends the only pipeline that holds a new token, or loses it.     *)
LEMMA UpdateVarIInv ==
  ASSUME IInv, NEW p \in Pipelines, UpdateVar(p)
  PROVE  IInv'
<1>1. /\ pc[p] = "update" /\ ~var /\ left = Validity /\ left = next + Lead
      /\ \A q \in Pipelines : cred[q] \/ pc[q] = "update" => q = p
  BY DEF UpdateVar, IInv, PipelineInv
<1>2. /\ pc' = [pc EXCEPT ![p] = "idle"]
      /\ UNCHANGED <<left, next, due, waited, cred>>
  BY DEF UpdateVar, Abort, Goto
<1>3. \/ failed' = TRUE /\ var' = var
      \/ var' = TRUE /\ failed' = FALSE
  BY DEF UpdateVar, Abort
<1>4. TypeOK'
  <2>1. var' \in BOOLEAN /\ failed' \in BOOLEAN
    BY <1>3 DEF IInv, TypeOK
  <2> QED BY <1>2, <2>1 DEF IInv, TypeOK
<1>5. ScheduleInv'
  BY <1>1, <1>2, RotationAssumption DEF IInv, TypeOK, ScheduleInv
<1>6. PipelineInv'
  BY <1>1, <1>2, <1>3, RotationAssumption DEF IInv, TypeOK, PipelineInv, Lost
<1> QED BY <1>4, <1>5, <1>6 DEF IInv

(* The replacement of a lost token does not move the schedule: it fires as    *)
(* many days too early as the token was lost.                                 *)
LEMMA RenewByHandIInv ==
  ASSUME ReplacedInTime, IInv, RenewByHand
  PROVE  IInv'
<1>1. /\ Lost /\ left' = Validity /\ var' = TRUE /\ failed' = FALSE
      /\ cred' = [p \in Pipelines |-> FALSE]
      /\ UNCHANGED <<next, due, waited, pc>>
  BY DEF RenewByHand
<1>2. left = next + Lead /\ Validity - left <= Patience
  BY <1>1 DEF IInv, PipelineInv
<1>3. TypeOK'
  <2>1. cred' \in [Pipelines -> BOOLEAN]
    BY <1>1, Zenon
  <2>2. left' \in 0 .. Validity
    BY <1>1, RotationAssumption
  <2>3. var' \in BOOLEAN /\ failed' \in BOOLEAN
    BY <1>1
  <2> QED BY <1>1, <2>1, <2>2, <2>3 DEF IInv, TypeOK
<1>4. ScheduleInv'
  <2>1. left' - next' \in Lead .. Threshold
    BY <1>1, <1>2, RotationAssumption DEF ReplacedInTime, IInv, TypeOK
  <2> QED BY <1>1, <2>1, RotationAssumption DEF ScheduleInv
<1>5. PipelineInv'
  BY <1>1 DEF PipelineInv, Lost
<1> QED BY <1>3, <1>4, <1>5 DEF IInv

(* A day: the schedule fires in time, and its pipeline does not wait for so   *)
(* long that the token expires.                                               *)
LEMMA TickIInv ==
  ASSUME IInv, Tick
  PROVE  IInv'
<1>1. TypeOK'
  <2>1. left' \in 0 .. Validity
    BY RotationAssumption DEF IInv, TypeOK, Tick
  <2>2. next' \in 1 .. Year /\ waited' \in 0 .. Delay /\ due' \in BOOLEAN
    <3>1. CASE next = 1
      BY <3>1, RotationAssumption DEF IInv, TypeOK, Tick
    <3>2. CASE next # 1
      BY <3>2, RotationAssumption DEF IInv, TypeOK, Tick
    <3> QED BY <3>1, <3>2
  <2>3. UNCHANGED <<var, pc, cred, failed>>
    BY DEF Tick
  <2> QED BY <2>1, <2>2, <2>3 DEF IInv, TypeOK
<1>2. /\ left \in Nat /\ next \in Nat /\ waited \in Nat /\ next > 0
      /\ left' = left - 1 /\ UNCHANGED <<var, pc, cred, failed>>
      /\ Idle /\ left > 0 /\ due \in BOOLEAN
  BY RotationAssumption DEF IInv, TypeOK, Tick, Idle
<1>3. next = 1 => due' = TRUE /\ waited' = 0 /\ next' = Year
  BY DEF Tick
<1>4. next # 1 => next' = next - 1 /\ due' = due
  BY DEF Tick
<1>5. ScheduleInv'
  <2>1. CASE left - next \in Lead .. Threshold
    <3>1. CASE next = 1
      BY <1>2, <1>3, <2>1, <3>1, RotationAssumption DEF ScheduleInv
    <3>2. CASE next # 1
      BY <1>2, <1>4, <2>1, <3>2, RotationAssumption DEF ScheduleInv
    <3> QED BY <3>1, <3>2
  <2>2. CASE left <= Threshold /\ failed
    <3>1. left > 1
      BY <2>2 DEF Tick
    <3> QED BY <1>2, <2>2, <3>1, RotationAssumption DEF ScheduleInv
  <2>3. CASE /\ left <= Threshold /\ due
             /\ left + waited \in Lead .. Threshold /\ next + waited = Year
    <3>1. waited < Delay
      BY <2>3 DEF Tick
    <3>2. next # 1
      BY <1>2, <2>3, <3>1, RotationAssumption
    <3>3. next' = next - 1 /\ due' = due /\ waited' = waited + 1
      BY <2>3, <3>2 DEF Tick
    <3> QED
      BY <1>2, <2>3, <3>1, <3>3, RotationAssumption DEF ScheduleInv
  <2> QED
    BY <1>2, <2>1, <2>2, <2>3, RotationAssumption DEF IInv, ScheduleInv
<1>6. PipelineInv'
  <2>1. CASE Lost
    <3>1. /\ failed /\ left = next + Lead /\ Validity - left < Patience
          /\ \A p \in Pipelines : cred[p] => pc[p] = "idle"
      BY <2>1 DEF Tick, IInv, PipelineInv
    <3>2. next # 1
      BY <1>2, <3>1, RotationAssumption
    <3>3. left' = next' + Lead /\ Validity - left' <= Patience
      BY <1>2, <1>4, <3>1, <3>2, RotationAssumption
    <3> QED BY <1>2, <3>1, <3>3 DEF PipelineInv, Idle, Lost
  <2>2. CASE ~Lost
    BY <1>2, <2>2 DEF PipelineInv, Idle, Lost
  <2> QED BY <2>1, <2>2
<1> QED BY <1>1, <1>5, <1>6 DEF IInv

(* Every step preserves the invariant.                                        *)
LEMMA NextIInv ==
  ASSUME ReplacedInTime
  PROVE  IInv /\ [Next]_vars => IInv'
<1> SUFFICES ASSUME IInv, [Next]_vars PROVE IInv'
  OBVIOUS
<1>1. ASSUME NEW p \in Pipelines,
             Start(p) \/ Check(p) \/ Schedule(p) \/ Rotate(p) \/ UpdateVar(p)
      PROVE  IInv'
  BY <1>1, StartIInv, CheckIInv, ScheduleIInv, RotateIInv, UpdateVarIInv
<1>2. CASE Tick
  BY <1>2, TickIInv
<1>3. CASE RenewByHand
  BY <1>3, RenewByHandIInv
<1>4. CASE UNCHANGED vars
  BY <1>4
  DEF vars, IInv, TypeOK, ScheduleInv, PipelineInv, Idle, Lost
<1> QED BY <1>1, <1>2, <1>3, <1>4 DEF Next

(* The invariant holds in every behaviour.                                    *)
LEMMA AlwaysIInv ==
  ASSUME ReplacedInTime
  PROVE  Spec => []IInv
  BY InitIInv, NextIInv, PTL DEF Spec
-----------------------------------------------------------------------------
(* The variables keep their types.                                            *)
THEOREM RotationTypeCorrect ==
  ASSUME ReplacedInTime
  PROVE  Spec => []TypeOK
<1>1. IInv => TypeOK
  BY DEF IInv
<1> QED BY <1>1, AlwaysIInv, PTL

(* The token that automated processes use does not expire, whichever calls    *)
(* of main() fail, for every position of the schedule in its life.            *)
THEOREM TokenDoesNotExpire ==
  ASSUME ReplacedInTime
  PROVE  Spec => []CredentialsDoNotExpire
<1>1. IInv => CredentialsDoNotExpire
  BY DEF IInv, ScheduleInv, CredentialsDoNotExpire
<1> QED BY <1>1, AlwaysIInv, PTL

(* Pipelines that overlap leave the active token in the variable.             *)
THEOREM VariableIsCurrent ==
  ASSUME ReplacedInTime
  PROVE  Spec => []VariableHoldsActiveToken
<1>1. IInv => VariableHoldsActiveToken
  BY DEF IInv, PipelineInv, VariableHoldsActiveToken, Lost
<1> QED BY <1>1, AlwaysIInv, PTL

(* Two pipelines never hold a new token each.                                 *)
THEOREM NewTokenIsAlone ==
  ASSUME ReplacedInTime
  PROVE  Spec => []OneNewToken
<1>1. IInv => OneNewToken
  BY DEF IInv, PipelineInv, OneNewToken
<1> QED BY <1>1, AlwaysIInv, PTL
=============================================================================
