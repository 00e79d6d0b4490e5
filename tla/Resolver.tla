------------------------------- MODULE Resolver -------------------------------
(***************************************************************************)
(* Thunderstore.Resolve (thunderstore.go): graphResolver.visit walks the   *)
(* dependencies of the two managed roots, one registry request per package;*)
(* canonicalPackageOrder walks what it collected a second time.  The call  *)
(* stack of a walk is a sequence of frames.                                *)
(***************************************************************************)
EXTENDS Naturals, Sequences, FiniteSets, Functions

CONSTANTS
  Package,      \* PackageRef: a package in one version
  NameOf,       \* its namespace and name
  Rank,         \* its place in comparePackageRefs
  RootName,     \* managedRootIdentities
  None,         \* no version seen
  MaxAttempts   \* requests for one piece of metadata

ASSUME NameAssumption == NameOf \in [Package -> {NameOf[p] : p \in Package}]
ASSUME RankAssumption == Rank \in [Package -> Nat] /\ IsInjective(Rank)
ASSUME RootAssumption == RootName \in Seq({NameOf[p] : p \in Package}) /\ IsInjective(RootName)
ASSUME NoneAssumption == None \notin Package
ASSUME FiniteAssumption == IsFiniteSet(Package) /\ MaxAttempts \in Nat

Name == {NameOf[p] : p \in Package}

VARIABLES
  deps,       \* what the registry tells of the dependencies of a package
  roots,      \* the resolved roots
  phase,      \* which walk
  next,       \* roots already visited in it
  stack,      \* frames: a package, and its dependencies yet to visit once they are known
  versions,   \* the version seen of a name
  visited,    \* packages that are finished, with their metadata
  ordered,    \* the order of the second walk
  failures,   \* requests that failed for the package on top
  outcome

vars == <<deps, roots, phase, next, stack, versions, visited, ordered, failures, outcome>>

Working == outcome = "working"
Top == stack[Len(stack)]
Below == SubSeq(stack, 1, Len(stack) - 1)
Visiting == {stack[i].ref : i \in DOMAIN stack}

(* A frame whose metadata is awaited, and one that goes through dependencies. *)
Asking(p) == [ref |-> p, known |-> FALSE, todo |-> {}]
Walking(p) == [ref |-> p, known |-> TRUE, todo |-> deps[p]]

-----------------------------------------------------------------------------
(* resolveRoot: the version that was asked for, or the newest of that name. *)
ResolveRoot ==
  /\ Working /\ phase = "roots" /\ Len(roots) < Len(RootName)
  /\ \E p \in Package : NameOf[p] = RootName[Len(roots) + 1] /\ roots' = Append(roots, p)
  /\ UNCHANGED <<deps, phase, next, stack, versions, visited, ordered, failures, outcome>>

RootUnavailable ==
  /\ Working /\ phase = "roots" /\ Len(roots) < Len(RootName)
  /\ outcome' = "unavailable"
  /\ UNCHANGED <<deps, roots, phase, next, stack, versions, visited, ordered, failures>>

StartVisits ==
  /\ Working /\ phase = "roots" /\ Len(roots) = Len(RootName) /\ phase' = "visit"
  /\ UNCHANGED <<deps, roots, next, stack, versions, visited, ordered, failures, outcome>>

-----------------------------------------------------------------------------
(* graphResolver.visit *)

(* Faulty variant: a package that was finished is taken for one in progress. *)
VisitOnce(p, frames) ==
  \/ /\ versions[NameOf[p]] \notin {None, p} \/ p \in Visiting \cup visited
     /\ outcome' = "refused" /\ stack' = frames /\ UNCHANGED versions
  \/ /\ versions[NameOf[p]] \in {None, p} /\ versions' = [versions EXCEPT ![NameOf[p]] = p]
     /\ p \notin visited \cup Visiting /\ stack' = Append(frames, Asking(p)) /\ UNCHANGED outcome

(* Another version of it was seen, it is in progress, or it is finished: else
   its metadata is asked for. *)
Visit(p, frames) ==
  \/ /\ versions[NameOf[p]] \notin {None, p}
     /\ outcome' = "refused" /\ stack' = frames /\ UNCHANGED versions
  \/ /\ versions[NameOf[p]] \in {None, p} /\ versions' = [versions EXCEPT ![NameOf[p]] = p]
     /\ \/ p \in Visiting /\ outcome' = "refused" /\ stack' = frames
        \/ p \in visited \ Visiting /\ stack' = frames /\ UNCHANGED outcome
        \/ p \notin visited \cup Visiting /\ stack' = Append(frames, Asking(p)) /\ UNCHANGED outcome

VisitRoot ==
  /\ Working /\ phase = "visit" /\ stack = <<>> /\ next < Len(roots)
  /\ Visit(roots[next + 1], stack) /\ next' = next + 1
  /\ UNCHANGED <<deps, roots, phase, visited, ordered, failures>>

(* Faulty variant: the count of requests starts again. *)
RetryForever ==
  /\ Working /\ phase = "visit" /\ stack # <<>> /\ ~Top.known
  /\ failures' = (failures + 1) % MaxAttempts
  /\ UNCHANGED <<deps, roots, phase, next, stack, versions, visited, ordered, outcome>>

(* getJSON: the registry is busy. *)
Retry ==
  /\ Working /\ phase = "visit" /\ stack # <<>> /\ ~Top.known
  /\ failures' = failures + 1 /\ failures' < MaxAttempts
  /\ UNCHANGED <<deps, roots, phase, next, stack, versions, visited, ordered, outcome>>

(* The last request failed, or validateMetadata or parseDependency refuses what came. *)
MetadataFails ==
  /\ Working /\ phase = "visit" /\ stack # <<>> /\ ~Top.known
  /\ outcome' = "unavailable"
  /\ UNCHANGED <<deps, roots, phase, next, stack, versions, visited, ordered, failures>>

Metadata ==
  /\ Working /\ phase = "visit" /\ stack # <<>> /\ ~Top.known
  /\ stack' = Append(Below, Walking(Top.ref)) /\ failures' = 0
  /\ UNCHANGED <<deps, roots, phase, next, versions, visited, ordered, outcome>>

(* sortPackageRefs *)
IsFirst(p, S) == p \in S /\ \A q \in S : Rank[p] <= Rank[q]

Without(p) == Append(Below, [Top EXCEPT !.todo = @ \ {p}])

VisitDependency ==
  /\ Working /\ phase = "visit" /\ stack # <<>> /\ Top.known
  /\ \E p \in Package : IsFirst(p, Top.todo) /\ Visit(p, Without(p))
  /\ UNCHANGED <<deps, roots, phase, next, visited, ordered, failures>>

Return ==
  /\ Working /\ phase = "visit" /\ stack # <<>> /\ Top.known /\ Top.todo = {}
  /\ stack' = Below /\ visited' = visited \cup {Top.ref}
  /\ UNCHANGED <<deps, roots, phase, next, versions, ordered, failures, outcome>>

StartOrder ==
  /\ Working /\ phase = "visit" /\ stack = <<>> /\ next = Len(roots)
  /\ phase' = "order" /\ next' = 0
  /\ UNCHANGED <<deps, roots, stack, versions, visited, ordered, failures, outcome>>

-----------------------------------------------------------------------------
(* canonicalPackageOrder *)

Order(p, frames) ==
  \/ p \in Visiting /\ outcome' = "refused" /\ stack' = frames
  \/ p \in Range(ordered) \ Visiting /\ stack' = frames /\ UNCHANGED outcome
  \/ p \notin visited \cup Visiting \cup Range(ordered) /\ outcome' = "refused" /\ stack' = frames
  \/ /\ p \in visited \ (Visiting \cup Range(ordered))
     /\ stack' = Append(frames, Walking(p)) /\ UNCHANGED outcome

OrderRoot ==
  /\ Working /\ phase = "order" /\ stack = <<>> /\ next < Len(roots)
  /\ Order(roots[next + 1], stack) /\ next' = next + 1
  /\ UNCHANGED <<deps, roots, phase, versions, visited, ordered, failures>>

OrderDependency ==
  /\ Working /\ phase = "order" /\ stack # <<>>
  /\ \E p \in Package : IsFirst(p, Top.todo) /\ Order(p, Without(p))
  /\ UNCHANGED <<deps, roots, phase, next, versions, visited, ordered, failures>>

OrderReturn ==
  /\ Working /\ phase = "order" /\ stack # <<>> /\ Top.todo = {}
  /\ stack' = Below /\ ordered' = Append(ordered, Top.ref)
  /\ UNCHANGED <<deps, roots, phase, next, versions, visited, failures, outcome>>

Finish ==
  /\ Working /\ phase = "order" /\ stack = <<>> /\ next = Len(roots)
  /\ outcome' = IF Len(ordered) = Cardinality(visited) THEN "resolved" ELSE "refused"
  /\ UNCHANGED <<deps, roots, phase, next, stack, versions, visited, ordered, failures>>

-----------------------------------------------------------------------------
Init ==
  /\ deps \in [Package -> SUBSET Package]
  /\ roots = <<>> /\ phase = "roots" /\ next = 0 /\ stack = <<>>
  /\ versions = [n \in Name |-> None] /\ visited = {} /\ ordered = <<>>
  /\ failures = 0 /\ outcome = "working"

Next ==
  \/ ResolveRoot \/ RootUnavailable \/ StartVisits
  \/ VisitRoot \/ Retry \/ MetadataFails \/ Metadata \/ VisitDependency \/ Return \/ StartOrder
  \/ OrderRoot \/ OrderDependency \/ OrderReturn \/ Finish

Spec == Init /\ [][Next]_vars /\ WF_vars(Next)

-----------------------------------------------------------------------------
Frame == [ref : Package, known : BOOLEAN, todo : SUBSET Package]

(* Every variable keeps to its values. *)
TypeOK ==
  /\ deps \in [Package -> SUBSET Package] /\ roots \in Seq(Package) /\ Len(roots) <= Len(RootName)
  /\ phase \in {"roots", "visit", "order"} /\ next \in 0 .. Len(roots) /\ stack \in Seq(Frame)
  /\ versions \in [Name -> Package \cup {None}] /\ visited \subseteq Package /\ ordered \in Seq(Package)
  /\ failures \in Nat /\ outcome \in {"working", "resolved", "refused", "unavailable"}

(* Once the first walk has accepted the packages, the second never refuses them:
   what canonicalPackageOrder takes for a cycle, a missing package or one outside
   the roots cannot come out of visit. *)
OrderNeverRefuses == phase = "order" => outcome # "refused"

(* The answer, only looked at when there is one *)
Promise == INSTANCE Resolution WITH answer <- IF outcome = "resolved" THEN ordered ELSE <<>>

(* The two walks together give what Resolution promises: exactly the packages the
   roots need, dependencies first and one version of each; they refuse only what
   has a cycle or two versions of a name, and end whatever the graph. *)
Promised == Promise!Spec

=============================================================================
