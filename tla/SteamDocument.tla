---------------------------- MODULE SteamDocument ----------------------------
(***************************************************************************)
(* What SteamClient (steam.go) takes from the text SteamCMD leaves or      *)
(* prints: the app manifest of the installed build, and app_info_print     *)
(* with the builds of all branches, embedded in console output.            *)
(*                                                                         *)
(* A text is a sequence of lines.  Console text is told apart by where the *)
(* program accepts it.  A line of the document is the root's name, a brace,*)
(* a key whose object follows, or a key with its value; a line without     *)
(* these, an unfinished string or escape among them, is "noise".           *)
(***************************************************************************)
EXTENDS Naturals, Sequences, FiniteSets

CONSTANTS
  Fold(_),   \* strings.EqualFold: keys that differ in case fold to the same
  Branch,    \* the branch selected, the public one unless configured
  Public     \* publicBranch

Line(is) == [is |-> is]
Object(key) == [is |-> "object", key |-> key]
Pair(key, value) == [is |-> "pair", key |-> key, value |-> value]

Bad == [ok |-> FALSE, next |-> 0, node |-> {}]

(* skipWhitespace from line i on *)
Skip(f, i) ==
  CHOOSE j \in i .. Len(f) + 1 :
    /\ \A k \in i .. j - 1 : f[k].is = "blank"
    /\ j <= Len(f) => f[j].is # "blank"

IsAt(f, i, is) == i <= Len(f) /\ f[i].is = is

(* hasKey *)
HasKey(node, key) == \E e \in node : Fold(e.line.key) = Fold(key)

(* readObject from the line behind its opening brace: the entries up to the
   brace that closes it, and the line behind that. *)
ReadObject(f, start) ==
  LET rest[i \in 1 .. Len(f) + 1] ==
        LET at == Skip(f, i)
            Entry(next, entries) ==
              LET others == rest[next]
              IN IF others.ok /\ ~HasKey(others.node, f[at].key)
                 THEN [others EXCEPT !.node = @ \cup {[line |-> f[at], entries |-> entries]}]
                 ELSE Bad
            brace == Skip(f, at + 1)
            child == rest[brace + 1]
        IN CASE IsAt(f, at, "close") -> [ok |-> TRUE, next |-> at + 1, node |-> {}]
             [] IsAt(f, at, "pair") -> Entry(at + 1, {})
             [] IsAt(f, at, "object") ->
                  IF IsAt(f, brace, "open") /\ child.ok THEN Entry(child.next, child.node) ELSE Bad
             [] OTHER -> Bad
  IN rest[start]

(* parseVDFPrefix at line i: the root object, and the line behind it. *)
ParsePrefix(f, i) ==
  LET brace == Skip(f, i + 1)
      root  == ReadObject(f, brace + 1)
  IN IF IsAt(f, i, "root") /\ IsAt(f, brace, "open") /\ root.ok
     THEN [root EXCEPT !.next = Skip(f, root.next)] ELSE Bad

(* parseVDFDocument *)
ParseDocument(f) ==
  LET parsed == ParsePrefix(f, Skip(f, 1))
  IN IF parsed.next = Len(f) + 1 THEN parsed ELSE Bad

(* parseRemoteVDF: one line names the root; what stands before and behind the
   document is console text that is known to stand there. *)
ParseRemote(f) ==
  LET roots  == {i \in 1 .. Len(f) : f[i].is = "root"}
      start  == CHOOSE i \in roots : TRUE
      parsed == ParsePrefix(f, start)
  IN IF /\ Cardinality(roots) = 1
        /\ \A i \in 1 .. start - 1 : f[i].is \in {"prefix", "blank"}
        /\ parsed.ok
        /\ \A i \in parsed.next .. Len(f) : f[i].is \in {"suffix", "blank"}
     THEN parsed ELSE Bad

-----------------------------------------------------------------------------
(* Lookups.  They range over Go maps, whose order is random: what a lookup
   answers is the set of answers it may give. *)

Child(nodes, key) ==
  {e.entries : e \in {x \in UNION nodes : x.line.is = "object" /\ Fold(x.line.key) = Fold(key)}}

ChildExact(nodes, key) ==
  {e.entries : e \in {x \in UNION nodes : x.line.is = "object" /\ x.line.key = key}}

Value(nodes, key) ==
  {e.line.value : e \in {x \in UNION nodes : x.line.is = "pair" /\ Fold(x.line.key) = Fold(key)}}

(* parseRemoteBuild: the builds that may be answered; none means an error. *)
RemoteBuilds(f) ==
  LET depots    == Child({ParseRemote(f).node}, "depots")
      selected  == ChildExact(Child(depots, "branches"), Branch)
      manifests == ChildExact(Child(Child(depots, "depot"), "manifests"), Branch)
  IN [build : Value(selected, "buildid") \ {""}, manifest : Value(manifests, "gid") \ {""},
      branch : {Branch}]

(* readInstalledBuild *)
InstalledBuilds(f) ==
  LET root   == {ParseDocument(f).node}
      depot  == Child(Child(root, "InstalledDepots"), "depot")
      beta   == Value(Child(root, "UserConfig"), "BetaKey") \ {""}
      builds == Value(root, "buildid") \ {""}
      target == Value(root, "TargetBuildID") \ {""}
  IN IF Value(root, "appid") # {"app"} THEN {}
     ELSE [build : {b \in builds : target \subseteq {b}}, manifest : Value(depot, "manifest") \ {""},
           branch : IF beta = {} THEN {Public} ELSE beta]

-----------------------------------------------------------------------------
(* What the document says, without a parser. *)

Count(f, i, j, is) == Cardinality({k \in i .. j : f[k].is = is})
Depth(f, i, j) == Count(f, i, j, "open") - Count(f, i, j, "close")

(* Line j is an entry of the object opened on line i. *)
EntryOf(f, i, j) ==
  /\ i < j /\ f[j].is \in {"object", "pair"}
  /\ Depth(f, i, j) = 1 /\ \A k \in i .. j : Count(f, i, k, "open") > Count(f, i, k, "close")

(* Lines i to j are one complete object: its braces match, every inner object
   has a name, every name an object, and no two entries fold to one key. *)
WellFormed(f, i, j) ==
  LET Neighbours(a, b) == a < b /\ \A k \in a + 1 .. b - 1 : f[k].is = "blank"
  IN /\ f[i].is = "open" /\ f[j].is = "close"
     /\ Count(f, i, j, "open") = Count(f, i, j, "close")
     /\ \A k \in i .. j - 1 : Count(f, i, k, "open") > Count(f, i, k, "close")
     /\ \A k \in i .. j : f[k].is \in {"open", "close", "object", "pair", "blank"}
     /\ \A k \in i + 1 .. j : f[k].is = "open" =>
          \E l \in i .. k : f[l].is = "object" /\ Neighbours(l, k)
     /\ \A l \in i .. j : f[l].is = "object" =>
          \E k \in i .. j : f[k].is = "open" /\ Neighbours(l, k)
     /\ \A k \in i .. j : f[k].is = "open" =>
          \A a, b \in i .. j : a # b /\ EntryOf(f, k, a) /\ EntryOf(f, k, b) =>
            Fold(f[a].key) # Fold(f[b].key)

(* The output holds one document and otherwise console text where it belongs. *)
OneDocument(f) ==
  LET Console(i, j, kind) == \A k \in i .. j : f[k].is \in {kind, "blank"}
  IN \E root \in 1 .. Len(f) :
       /\ f[root].is = "root" /\ Console(1, root - 1, "prefix")
       /\ \E i \in root + 1 .. Len(f) :
            /\ Console(root + 1, i - 1, "blank")
            /\ \E j \in i + 1 .. Len(f) : WellFormed(f, i, j) /\ Console(j + 1, Len(f), "suffix")
=============================================================================
