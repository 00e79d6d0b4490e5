----------------------------- MODULE ModUpdate ------------------------------
(***************************************************************************)
(* What the mod lifecycle of vrisingctl promises, without files, journals  *)
(* or crashes: one generation is installed; a fresh generation is put on   *)
(* trial, alone, and either takes the place of the installed one or is     *)
(* gone for good.  ModTransaction implements this specification.           *)
(***************************************************************************)
CONSTANTS Gen, None

VARIABLES
  fresh,       \* generations that have never been tried
  installed,   \* the generation a restart falls back to
  trial        \* the generation on trial

vars == <<fresh, installed, trial>>

Init == fresh = Gen /\ installed = None /\ trial = None

(* A staged generation is dropped before it has touched the server. *)
Withdraw(g) == g \in fresh /\ fresh' = fresh \ {g} /\ UNCHANGED <<installed, trial>>

Try(g) ==
  /\ g \in fresh /\ trial = None
  /\ trial' = g /\ fresh' = fresh \ {g} /\ UNCHANGED installed

(* The server became ready with the generation on trial. *)
Promote == trial # None /\ installed' = trial /\ trial' = None /\ UNCHANGED fresh

Abandon == trial # None /\ trial' = None /\ UNCHANGED <<fresh, installed>>

Next == Promote \/ Abandon \/ \E g \in Gen : Withdraw(g) \/ Try(g)

Spec == Init /\ [][Next]_vars

=============================================================================
