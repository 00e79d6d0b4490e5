--------------------------- MODULE MCSteamDocument ---------------------------
(* Bounded inputs for SteamDocument: every output around a short document, and
   the documents of two branches with one line lost, doubled or moved. *)
EXTENDS SteamDocument

MCFold(key) == IF key = "Buildid" THEN "buildid" ELSE key

MaxTail == 5   \* enough for a nested object with an entry

Word ==
  {Line("open"), Line("close"), Line("root"), Line("blank"), Line("suffix"), Line("noise"),
   Object("buildid"), Pair("Buildid", "1"), Pair("gid", "1")}

Before == {<<>>, <<Line("prefix")>>, <<Line("blank"), Line("noise")>>, <<Line("suffix")>>, <<Line("root")>>}

Tails(length) == UNION {[1 .. n -> Word] : n \in 0 .. length}

Outputs ==
  {before \o <<Line("root")>> \o tail : before \in Before, tail \in Tails(3)} \cup
  {<<Line("prefix"), Line("root")>> \o tail : tail \in Tails(MaxTail)}

Taken == {f \in Outputs : ParseRemote(f).ok}

(* The parser takes the outputs that hold one document with console text around
   it, and no others. *)
ASSUME TakesOneDocument == Taken = {f \in Outputs : OneDocument(f)}

Wrap(document) == <<Line("prefix"), Line("root")>> \o document \o <<Line("suffix")>>

(* Two branches; the other one differs from the selected one in everything. *)
Published(branch, gid) == <<Object(branch), Line("open"), Pair("gid", gid), Line("close")>>
Released(branch, build) == <<Object(branch), Line("open"), Pair("buildid", build), Line("close")>>

Metadata ==
  <<Line("open"), Object("depots"), Line("open"),
    Object("depot"), Line("open"), Object("manifests"), Line("open")>>
    \o Published(Public, "m1") \o Published("beta", "m2") \o
  <<Line("close"), Line("close"), Object("branches"), Line("open")>>
    \o Released(Public, "b1") \o Released("beta", "b2") \o
  <<Line("close"), Line("close"), Line("close")>>

Answer == [build |-> "b1", manifest |-> "m1", branch |-> Branch]

Lost(f, i) == SubSeq(f, 1, i - 1) \o SubSeq(f, i + 1, Len(f))
Doubled(f, i) == SubSeq(f, 1, i) \o SubSeq(f, i, Len(f))
Cut(f, i) == SubSeq(f, 1, i)

ASSUME AnswersBranch == RemoteBuilds(Wrap(Metadata)) = {Answer}

(* Output that breaks off, lacks a line or repeats one is refused or still gives
   the build of the selected branch, never that of another. *)
ASSUME AnswersOrRefuses ==
  LET f == Wrap(Metadata) IN
  \A i \in 1 .. Len(f) :
    /\ RemoteBuilds(Lost(f, i)) \subseteq {Answer}
    /\ RemoteBuilds(Doubled(f, i)) \subseteq {Answer}
    /\ i < Len(f) - 1 => RemoteBuilds(Cut(f, i)) = {}

(* The answer does not depend on the order in which Go walks a map. *)
ASSUME AnswersOnce == \A f \in Taken :
  LET nodes == {ParseRemote(f).node} IN
  \A key \in {"buildid", "gid"} : Cardinality(Value(nodes, key)) + Cardinality(Child(nodes, key)) <= 1

(* An app manifest; an update in progress names another target. *)
Installed(build, target, rest) ==
  <<Line("root"), Line("open"), Pair("appid", "app"), Pair("buildid", build),
    Pair("TargetBuildID", target), Object("InstalledDepots"), Line("open"),
    Object("depot"), Line("open"), Pair("manifest", "m1"), Line("close"), Line("close")>> \o rest

Config(branch) ==
  <<Object("UserConfig"), Line("open"), Pair("BetaKey", branch), Line("close"), Line("close")>>

(* What Startup takes InstalledBuild to be: the build, once it is the target. *)
ASSUME InstalledIsTarget == \A build, target \in {"", "b1", "b2"}, branch \in {"", "beta"} :
  LET f == Installed(build, target, Config(branch))
      installed == [build |-> build, manifest |-> "m1", branch |-> IF branch = "" THEN Public ELSE branch]
  IN /\ InstalledBuilds(f) =
          (IF build # "" /\ target \in {"", build} THEN {installed} ELSE {})
     /\ \A i \in 1 .. Len(f) - 1 : InstalledBuilds(Cut(f, i)) = {}
=============================================================================
