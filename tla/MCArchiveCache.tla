---------------------------- MODULE MCArchiveCache ----------------------------
(* A package of two chunks, the same published again, a longer one, and one that
   is no package. *)
EXTENDS ArchiveCache

MCBody == {"first", "again", "long", "bad"}
MCGood == {"first", "again", "long"}
MCLength == [b \in MCBody |-> IF b = "long" THEN 3 ELSE 2]

=============================================================================
