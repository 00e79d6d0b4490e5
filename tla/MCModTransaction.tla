-------------------------- MODULE MCModTransaction --------------------------
(* Three generations over three paths: a path that stays, is replaced by
   equal content, is deleted and is new, for some pair of generations. *)
EXTENDS ModTransaction, ConsoleLogging

CONSTANTS g1, g2, g3, a, b, user, userQuiet, game

MCGen == {g1, g2, g3}
MCPath == 1 .. 3
MCHash == {a, b}
MCManifest ==
  [g \in MCGen |->
     CASE g = g1 -> <<a, b, Absent>>
       [] g = g2 -> <<a, Absent, b>>
       [] g = g3 -> <<b, b, a>>]

(* A configuration with console logging on and off, and another that has it off
   already: disabling it keeps the other settings. *)
MCCfg == {user, userQuiet, game}

Text ==
  [c \in MCCfg |->
     CASE c = user      -> <<"section", "on", "console", "other", "on">>
       [] c = userQuiet -> <<"section", "on", "console", "other", "off">>
       [] c = game      -> <<"console", "off", "blank", "section", "off">>]

MCDisable == [c \in MCCfg |-> CHOOSE d \in MCCfg : Text[d] = DisableConsoleLogging(Text[c])]

ASSUME TextClosed == \A c \in MCCfg : \E d \in MCCfg : Text[d] = DisableConsoleLogging(Text[c])

(* The function itself, over every file of up to MaxLines lines: what
   ModTransaction assumes of Disable, and what an administrator may expect. *)
MaxLines == 5
Texts == UNION {[1 .. n -> Line] : n \in 0 .. MaxLines}

ASSUME ConsoleIsOff == \A f \in Texts : ConsoleOff(DisableConsoleLogging(f))
ASSUME SettingsKept == \A f \in Texts : Settings(DisableConsoleLogging(f)) = Settings(f)
ASSUME Idempotent ==
  \A f \in Texts : LET quiet == DisableConsoleLogging(f) IN DisableConsoleLogging(quiet) = quiet
=============================================================================
