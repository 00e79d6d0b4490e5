------------------------------ MODULE MCResolver ------------------------------
(* Two roots and a library in two versions, with every graph over the four. *)
EXTENDS Resolver

MCPackage == {"a", "b", "c1", "c2"}
MCNameOf == [p \in MCPackage |-> IF p \in {"c1", "c2"} THEN "c" ELSE p]
MCRank == [p \in MCPackage |-> CASE p = "a" -> 1 [] p = "c1" -> 2 [] p = "c2" -> 3 [] p = "b" -> 4]
MCRootName == <<"a", "b">>

=============================================================================
