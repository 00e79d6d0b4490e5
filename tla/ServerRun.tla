------------------------------ MODULE ServerRun ------------------------------
(***************************************************************************)
(* What one supervised launch promises to the application, without the     *)
(* processes, channels and timers behind it: a game is started, perhaps    *)
(* with a generation of mods on trial; it serves only after the trial has  *)
(* been promoted, and the trial is dropped only after the game has stopped *)
(* and only if nothing was promoted.  Supervisor implements this.          *)
(***************************************************************************)
VARIABLES
  stage,   \* "starting", "serving", "stopped"
  trial    \* "none", "pending", "promoted", "inDoubt" or "dropped"

vars == <<stage, trial>>

Init == stage = "starting" /\ trial \in {"none", "pending"}

(* The promotion is durable, or it failed so late that it may be durable. *)
Decide(t) ==
  /\ stage = "starting" /\ trial = "pending" /\ t \in {"promoted", "inDoubt"}
  /\ trial' = t /\ UNCHANGED stage

Serve ==
  /\ stage = "starting" /\ trial \in {"none", "promoted"}
  /\ stage' = "serving" /\ UNCHANGED trial

Stop == stage # "stopped" /\ stage' = "stopped" /\ UNCHANGED trial

Drop == stage = "stopped" /\ trial = "pending" /\ trial' = "dropped" /\ UNCHANGED stage

Next == Decide("promoted") \/ Decide("inDoubt") \/ Serve \/ Stop \/ Drop

SafeSpec == Init /\ [][Next]_vars

(* A start is over in the end, and a trial is settled once the game is gone. *)
Spec == SafeSpec /\ WF_vars(Drop) /\ WF_vars(stage = "starting" /\ (Serve \/ Stop))

=============================================================================
