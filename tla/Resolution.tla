------------------------------ MODULE Resolution ------------------------------
(***************************************************************************)
(* What Thunderstore.Resolve promises to the staging of a mod set: either  *)
(* an order of exactly the packages the roots need, dependencies first,    *)
(* with one version of each; or a refusal that the packages justify; or no *)
(* answer because the registry gave none.                                  *)
(***************************************************************************)
EXTENDS Naturals, Sequences, Functions

CONSTANTS
  Package,    \* a package in one version: PackageRef
  NameOf      \* namespace and name of a package

VARIABLES
  deps,       \* the dependencies the registry tells
  roots,      \* the packages asked for
  outcome,
  answer      \* the packages in the order they are to be laid out

vars == <<deps, roots, outcome, answer>>

-----------------------------------------------------------------------------
Closed(S) == \A p \in S : deps[p] \subseteq S

(* What the roots need: the least set with them that is closed. *)
Needed == {p \in Package : \A S \in SUBSET Package : Closed(S) /\ Range(roots) \subseteq S => p \in S}

OneVersion(S) == \A p, q \in S : NameOf[p] = NameOf[q] => p = q

(* In every set of packages one depends on none of them. *)
Acyclic(S) == \A T \in SUBSET S : T # {} => \E p \in T : deps[p] \cap T = {}

WellFormed == OneVersion(Needed) /\ Acyclic(Needed)

DependenciesFirst ==
  \A i \in DOMAIN answer : \A d \in deps[answer[i]] : \E j \in 1 .. i - 1 : answer[j] = d

IsAnswer == Range(answer) = Needed /\ IsInjective(answer) /\ DependenciesFirst

-----------------------------------------------------------------------------
Init == outcome = "working" /\ answer = <<>> /\ roots = <<>>

(* The newest versions of the roots are looked up, or they were given. *)
Choose == outcome = "working" /\ UNCHANGED <<deps, outcome, answer>>

Resolve ==
  /\ outcome = "working" /\ outcome' = "resolved"
  /\ WellFormed /\ IsAnswer' /\ UNCHANGED <<deps, roots>>

Refuse ==
  /\ outcome = "working" /\ outcome' = "refused"
  /\ ~WellFormed /\ answer' = <<>> /\ UNCHANGED <<deps, roots>>

NoAnswer ==
  /\ outcome = "working" /\ outcome' = "unavailable"
  /\ answer' = <<>> /\ UNCHANGED <<deps, roots>>

Next == Choose \/ Resolve \/ Refuse \/ NoAnswer

SafeSpec == Init /\ [][Next]_vars

(* Resolve returns whatever the graph: no cycle is walked for ever. *)
Spec == SafeSpec /\ <>(outcome # "working")

=============================================================================
