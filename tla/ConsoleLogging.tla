---------------------------- MODULE ConsoleLogging ----------------------------
(***************************************************************************)
(* disableConsoleLogging (mods.go): the text of BepInEx.cfg with console   *)
(* logging switched off.  A file is the sequence of its lines, and a line  *)
(* is what the function distinguishes: the header [Logging.Console],       *)
(* another header, the key Enabled with a true or a false value, any other *)
(* key or comment, an empty line.  Letter case, spaces, comments behind a  *)
(* value and line ends are left as they are by the code and left out here. *)
(***************************************************************************)
EXTENDS Naturals, Sequences
LOCAL INSTANCE SequencesExt

Line == {"console", "section", "on", "off", "other", "blank"}
Header == {"console", "section"}
Enabled == {"on", "off"}

(* The first line of f of the given kinds behind line i, or the line behind the
   last one. *)
NextLine(f, i, kinds) == Min({j \in (i + 1) .. Len(f) : f[j] \in kinds} \cup {Len(f) + 1})

(* Only the first console section is looked at: its first Enabled is set, or
   one is added at its end; a missing section is appended after an empty line. *)
DisableConsoleLogging(f) ==
  LET header == NextLine(f, 0, {"console"})
      end    == NextLine(f, header, Header)
      key    == NextLine(f, header, Enabled)
      gap    == IF f = <<>> \/ Last(f) = "blank" THEN <<>> ELSE <<"blank">>
  IN IF header > Len(f) THEN f \o gap \o <<"console", "off">>
     ELSE IF key < end THEN ReplaceAt(f, key, "off")
     ELSE InsertAt(f, end, "off")

-----------------------------------------------------------------------------
(* What a reader of the file sees. *)

(* The header line i stands under; 0 for the lines before the first one. *)
SectionOf(f, i) ==
  LET headers == {j \in 1 .. i : f[j] \in Header} IN IF headers = {} THEN 0 ELSE Max(headers)

(* The settings and comments of f in their order, each with the kind of its
   section; of the console section's Enabled keys only that they are there. *)
Settings(f) ==
  LET Section(i) == IF SectionOf(f, i) = 0 THEN "none" ELSE f[SectionOf(f, i)]
      Kept(i) == f[i] \notin Header \cup {"blank"} /\ ~(Section(i) = "console" /\ f[i] \in Enabled)
      lines == SetToSortSeq({i \in 1 .. Len(f) : Kept(i)}, <)
  IN [k \in 1 .. Len(lines) |-> <<Section(lines[k]), f[lines[k]]>>]

(* The first console section says once, at its first Enabled, that it is off. *)
ConsoleOff(f) ==
  \E i \in 1 .. Len(f) :
    /\ f[i] = "off" /\ SectionOf(f, i) # 0
    /\ SectionOf(f, i) = NextLine(f, 0, {"console"})
    /\ \A j \in 1 .. Len(f) : f[j] \in Enabled /\ SectionOf(f, j) = SectionOf(f, i) => i <= j
=============================================================================
