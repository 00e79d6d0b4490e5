----------------------------- MODULE MCStartup ------------------------------
(* Instances of Startup for TLC, with the texts its Steam client reads. *)
EXTENDS Startup, MCSteamDocument

(* A generation for each start, and a build for each release *)
MCGen == 1 .. MaxStarts
MCBuild == 1 .. 1 + MaxReleases

(* Every combination of MODS_ENABLED, UPDATE_MODS and UPDATE_GAME; without mods the
   second is not looked at. *)
AllConfigs == {c \in [mods : BOOLEAN, updateMods : BOOLEAN, updateGame : BOOLEAN] : c.mods \/ c.updateMods}
DefaultConfig == {[mods |-> TRUE, updateMods |-> TRUE, updateGame |-> TRUE]}

=============================================================================
