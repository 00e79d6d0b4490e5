------------------------------ MODULE MCBackup ------------------------------
(* Instances of Backup for TLC. *)
EXTENDS Backup, TLC

CONSTANTS saves, settings

Members == {saves, settings}

MemberSymmetry == Permutations(Members)

=============================================================================
