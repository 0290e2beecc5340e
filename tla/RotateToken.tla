----------------------------- MODULE RotateToken -----------------------------
(* Rotation of the GitLab project access token (rotate-gitlab-token.py): CI   *)
(* pipelines, started once a year by a schedule that they move themselves, or *)
(* by a person, renew the token that the CI variable holds.  Pipelines that   *)
(* run at the same time are not synchronised.                                 *)
(*                                                                            *)
(* A tick is a day.  A pipeline takes minutes, so no day passes within one; a *)
(* schedule that fires at 23:55 and waits for a runner starts a later day.    *)
EXTENDS Integers

CONSTANTS
  Pipelines,  \* CI pipelines that may run at the same time
  Validity,   \* a rotated token is valid for so many days (364)
  Year,       \* the schedule fires again after so many days
  Threshold,  \* DAYS_UNTIL_TOKEN_ROTATION
  Lead,       \* the schedule fires so many days before the token expires
  Delay,      \* a pipeline that is due waits for a runner for so many days
  Patience    \* a token that got lost is replaced within so many days

ASSUME RotationAssumption ==
  /\ Validity \in Nat /\ Year \in Nat /\ Threshold \in Nat /\ Lead \in Nat
  /\ Delay \in Nat /\ Patience \in Nat
  /\ Delay < Lead /\ Lead <= Threshold
  /\ Threshold + Patience < Validity /\ Validity <= Year

VARIABLES
  left,    \* days until the active token expires
  next,    \* days until the schedule fires
  due,     \* whether a pipeline of the schedule waits for a runner
  waited,  \* for how many days it has been waiting
  var,     \* whether the CI variable holds the active token
  pc,      \* [Pipelines -> where main() is]
  cred,    \* [Pipelines -> whether the token it logs in with is the active one]
  failed   \* whether a pipeline failed and none has succeeded since

vars == <<left, next, due, waited, var, pc, cred, failed>>

TypeOK ==
  /\ left \in 0 .. Validity /\ next \in 1 .. Year /\ waited \in 0 .. Delay
  /\ due \in BOOLEAN /\ var \in BOOLEAN /\ failed \in BOOLEAN
  /\ pc \in [Pipelines -> {"idle", "check", "schedule", "rotate", "update"}]
  /\ cred \in [Pipelines -> BOOLEAN]

(* The first rotation has been done and has set up the schedule.              *)
Init ==
  /\ left = Validity /\ next = Validity - Lead
  /\ due = FALSE /\ waited = 0 /\ var = TRUE /\ failed = FALSE
  /\ pc = [p \in Pipelines |-> "idle"]
  /\ cred = [p \in Pipelines |-> FALSE]
-----------------------------------------------------------------------------
Goto(p, step) == pc' = [pc EXCEPT ![p] = step]

(* GitLab accepts the token the pipeline was started with.  Any call may fail *)
(* nevertheless.                                                              *)
LoggedIn(p) == cred[p] /\ left > 0

(* An exception or exit(1) ends the pipeline: it fails.                       *)
Abort(p) ==
  /\ Goto(p, "idle") /\ failed' = TRUE
  /\ UNCHANGED <<left, next, due, waited, var, cred>>

(* The new token was never written to the variable, and nobody has it.        *)
Lost == ~var /\ \A p \in Pipelines : pc[p] # "update"

(* A pipeline starts, due or started by a person; the variable is part of its *)
(* environment from now on.                                                   *)
Start(p) ==
  /\ pc[p] = "idle"
  /\ \/ due /\ due' = FALSE /\ waited' = 0
     \/ UNCHANGED <<due, waited>>
  /\ cred' = [cred EXCEPT ![p] = var]
  /\ Goto(p, "check")
  /\ UNCHANGED <<left, next, var, failed>>

(* main: find the token by its name and look at the days that are left.       *)
Check(p) ==
  /\ pc[p] = "check"
  /\ \/ Abort(p)
     \/ /\ LoggedIn(p) /\ left <= Threshold
        /\ Goto(p, "schedule")
        /\ UNCHANGED <<left, next, due, waited, var, cred, failed>>
     \/ /\ LoggedIn(p) /\ left > Threshold
        /\ Goto(p, "idle") /\ failed' = FALSE
        /\ UNCHANGED <<left, next, due, waited, var, cred>>

(* Mutant of Schedule: the schedule is found, and left as it is.              *)
ScheduleUnmoved(p) ==
  /\ pc[p] = "schedule" /\ LoggedIn(p)
  /\ Goto(p, "rotate")
  /\ UNCHANGED <<left, next, due, waited, var, cred, failed>>

(* create_or_update_ci_pipeline: the schedule moves to the new expiry date    *)
(* before the token has it.                                                   *)
Schedule(p) ==
  /\ pc[p] = "schedule"
  /\ \/ Abort(p)
     \/ /\ LoggedIn(p)
        /\ next' = Validity - Lead
        /\ Goto(p, "rotate")
        /\ UNCHANGED <<left, due, waited, var, cred, failed>>

(* The token rotates itself: every copy of the old one is worthless.          *)
Rotate(p) ==
  /\ pc[p] = "rotate"
  /\ \/ Abort(p)
     \/ /\ LoggedIn(p)
        /\ left' = Validity /\ var' = FALSE
        /\ cred' = [q \in Pipelines |-> q = p]
        /\ Goto(p, "update")
        /\ UNCHANGED <<next, due, waited, failed>>

(* Mutant of UpdateVar: the variable is written with the token of the         *)
(* environment.                                                               *)
UpdateVarOld(p) ==
  /\ pc[p] = "update"
  /\ failed' = FALSE /\ Goto(p, "idle")
  /\ UNCHANGED <<left, next, due, waited, var, cred>>

(* update_ci_var: with the new token, which nobody else has.  When it fails,  *)
(* or the variable does not exist in the project, the new token is gone.      *)
UpdateVar(p) ==
  /\ pc[p] = "update"
  /\ \/ Abort(p)
     \/ /\ var' = TRUE /\ failed' = FALSE
        /\ Goto(p, "idle")
        /\ UNCHANGED <<left, next, due, waited, cred>>

(* Somebody replaces the lost token in the web interface and sets the         *)
(* variable.                                                                  *)
RenewByHand ==
  /\ Lost
  /\ left' = Validity /\ var' = TRUE /\ failed' = FALSE
  /\ cred' = [p \in Pipelines |-> FALSE]
  /\ UNCHANGED <<next, due, waited, pc>>

(* A day passes.  GitLab mails the owner of a pipeline that failed: it is run *)
(* again before the token expires, and a lost token is replaced in time.      *)
Tick ==
  /\ \A p \in Pipelines : pc[p] = "idle"
  /\ left > 0
  /\ failed => left > 1
  /\ Lost => Validity - left < Patience
  /\ due => waited < Delay
  /\ left' = left - 1
  /\ IF next = 1
     THEN next' = Year /\ due' = TRUE /\ waited' = 0
     ELSE /\ next' = next - 1 /\ UNCHANGED due
          /\ waited' = IF due THEN waited + 1 ELSE waited
  /\ UNCHANGED <<var, pc, cred, failed>>

Next ==
  \/ \E p \in Pipelines :
       Start(p) \/ Check(p) \/ Schedule(p) \/ Rotate(p) \/ UpdateVar(p)
  \/ RenewByHand
  \/ Tick

Spec == Init /\ [][Next]_vars
-----------------------------------------------------------------------------
(* "to ensure automated processes do not break due to expired credentials":   *)
(* the token does not expire, whichever calls fail, as long as a pipeline     *)
(* that failed is run again, and a lost token is replaced, in time.           *)
CredentialsDoNotExpire == left > 0

(* The variable holds the active token, or a pipeline is about to write it    *)
(* there, or has failed to: pipelines that overlap can not overwrite each     *)
(* other's token, or revoke one that was just written.                        *)
VariableHoldsActiveToken ==
  var \/ failed \/ \E p \in Pipelines : pc[p] = "update"

(* No two pipelines hold a new token that they are about to write.            *)
OneNewToken ==
  \A p, q \in Pipelines : pc[p] = "update" /\ pc[q] = "update" => p = q
=============================================================================
