----------------------------- MODULE Background -----------------------------
(***************************************************************************)
(* What the worker process does: its job loop, with the three handlers,    *)
(* and the cycle that sends push notifications.  They share no state but   *)
(* the process, so each behaviour exercises the one its workload names.    *)
(***************************************************************************)
EXTENDS Worker, Push

BackgroundInit == WorkInit /\ PushInit

BackgroundNext ==
  /\ IF "push" \in workload THEN UNCHANGED workVars ELSE WorkNext
  /\ IF "push" \in workload THEN PushNext ELSE UNCHANGED pushVars

BackgroundSpec ==
  BackgroundInit /\ [][BackgroundNext]_<<workVars, pushVars>> /\ WorkFairness /\ PushFairness
=============================================================================
