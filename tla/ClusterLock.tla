---------------------------- MODULE ClusterLock ----------------------------
(***************************************************************************)
(* What sync_via_investigation_comment promises: a lock per job that runs  *)
(* of openqa-investigate meet on.  A run claims the job, and either gives  *)
(* the claim up, because its investigation failed, or keeps it, because it *)
(* is done.  A claim that is kept blocks the job until openQA deletes it.  *)
(***************************************************************************)
CONSTANTS Jobs, Runs

VARIABLES
  claims, \* pairs of a run and the job it has claimed
  kept    \* the claims that are never given up

Init == claims = {} /\ kept = {}

Acquire(r, j) ==
  /\ \A c \in claims : c[1] # r /\ c[2] # j
  /\ claims' = claims \union {<<r, j>>}
  /\ UNCHANGED kept

Keep(r, j) ==
  /\ <<r, j>> \in claims \ kept
  /\ kept' = kept \union {<<r, j>>}
  /\ UNCHANGED claims

GiveUp(r, j) ==
  /\ <<r, j>> \in claims \ kept
  /\ claims' = claims \ {<<r, j>>}
  /\ UNCHANGED kept

\* The job and with it every trace of its investigation is deleted.
Vanish(j) ==
  /\ claims' = {c \in claims : c[2] # j}
  /\ kept' = {c \in kept : c[2] # j}

Next ==
  \E j \in Jobs :
    \/ Vanish(j)
    \/ \E r \in Runs : Acquire(r, j) \/ Keep(r, j) \/ GiveUp(r, j)

Spec == Init /\ [][Next]_<<claims, kept>>
============================================================================
