----------------------------- MODULE MCReadiness -----------------------------
(* Small scenes for TLC: what the game does with its logs. *)
EXTENDS Readiness

CONSTANTS startup, loaded, fatal

MCLog == {"server", "bepinex"}
MCMarker == [s \in MCLog |-> IF s = "server" THEN {startup} ELSE {loaded}]

(* Replaced again and again, by an earlier log too. *)
Rotation == [sources |-> {"server"}, files |-> 3, lines |-> 3, cuts |-> 0, moves |-> 2, habits |-> {"returns"}]

(* Truncated and replaced. *)
Truncation == [sources |-> {"server"}, files |-> 2, lines |-> 2, cuts |-> 1, moves |-> 1, habits |-> {}]

(* Truncated after it was replaced. *)
LateTruncation == [sources |-> {"server"}, files |-> 2, lines |-> 2, cuts |-> 1, moves |-> 1, habits |-> {"cuts retired"}]

(* The two logs of a server with mods. *)
TwoLogs == [sources |-> MCLog, files |-> 1, lines |-> 3, cuts |-> 0, moves |-> 0, habits |-> {}]

MCScenes == {Rotation, Truncation, LateTruncation, TwoLogs}
MCLate == {LateTruncation}

=============================================================================
