----------------------------- MODULE MCLifetime -----------------------------
(* Instances of Lifetime for TLC: the first container shares its data mount
   with the second and its server mount with the third. *)
EXTENDS Lifetime, TLC

CONSTANTS first, second, third, server1, server2, data1, data2, p1, p2

Containers == {first, second, third}
Mounts == {server1, server2, data1, data2}
ServerMounts == [c \in Container |-> IF c = second THEN server2 ELSE server1]
DataMounts == [c \in Container |-> IF c = third THEN data2 ELSE data1]
PIDs == {p1, p2}

(* Nothing tells one process ID from another. *)
PIDSymmetry == Permutations(PIDs)

=============================================================================
