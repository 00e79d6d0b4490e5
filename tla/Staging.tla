------------------------------- MODULE Staging -------------------------------
(***************************************************************************)
(* ModManager.Stage (mods.go) with ExtractArchive (archive.go): the        *)
(* archives of a package set are inspected, unpacked entry by entry into a *)
(* directory each, and the managed part is copied to the overlay of a new  *)
(* generation, which every later use verifies again.                       *)
(*                                                                         *)
(* A path is the sequence of its parts.  The bytes of a file are told      *)
(* apart by the archive and the entry they come from.  Definitions with a  *)
(* namesake in Resolver are called Staging...: PackageProofs extends both. *)
(***************************************************************************)
EXTENDS Naturals, Sequences, SequencesExt

CONSTANTS
  BepInEx,       \* the package of the loader
  Plugins,       \* the other packages, in the order of Stage
  ManagedFile,   \* managed files of the loader at the root
  ManagedDir,    \* directories that hold the rest of them
  RequiredDir,   \* ... and may not be empty
  Allowed,       \* the assemblies each plugin package must have
  Dll,           \* file names with that extension
  Lower,         \* a file name in lower case
  Inputs         \* archives: one archive for each package

Packages == <<BepInEx>> \o Plugins

VARIABLES
  archives,   \* for each package its entries, and whether its bytes are as locked
  step,       \* the package at work: an index of Packages
  selected,   \* indexes of its entries still to unpack
  unpacked,   \* package -> the tree it is unpacked to
  overlay,    \* the tree of the generation
  template,   \* the configuration template is there
  files,      \* the managed files listed so far: path and data
  manifest,   \* the persisted list
  status,
  edited      \* somebody has edited the overlay

stagingVars == <<archives, step, selected, unpacked, overlay, template, files, manifest, status, edited>>

Wrapper == "BepInExPack_V_Rising"
ManifestPath == <<"manifest.json">>
ConfigPath == <<"BepInEx", "config", "BepInEx.cfg">>
PluginDir == <<"BepInEx", "plugins", "saltydk-managed">>
PluginPath(name) == Append(PluginDir, name)

ASSUME PluginAssumption ==
  /\ Plugins \in Seq(Range(Plugins)) /\ IsInjective(Plugins) /\ BepInEx \notin Range(Plugins)
  /\ Dll \subseteq STRING \ Range(ManifestPath) /\ Lower \in [Dll -> Dll] /\ Allowed \in [Range(Plugins) -> SUBSET Dll]

(* The directory of the plugins is apart from what is managed of the loader.
   (That its parts are strings is so; the provers do not know it of a literal.) *)
ASSUME LayoutAssumption ==
  /\ PluginDir \in Seq(STRING)
  /\ ManagedFile \subseteq STRING \ {Head(PluginDir)}
  /\ RequiredDir \subseteq ManagedDir /\ ManagedDir \subseteq Seq(STRING)
  /\ \A d \in ManagedDir : ~IsPrefix(d, PluginDir) /\ ~IsPrefix(PluginDir, d)

ASSUME InputAssumption ==
  Inputs \subseteq [Range(Packages) -> [entries : Seq([path : Seq(STRING), kind : STRING]), intact : BOOLEAN]]

-----------------------------------------------------------------------------
(* Trees: functions from the paths that exist to directories and files *)
Directory == [dir |-> TRUE, data |-> <<>>]
Holding(data) == [dir |-> FALSE, data |-> data]
Ancestors(path) == {SubSeq(path, 1, n) : n \in 1 .. Len(path) - 1}
With(tree, paths, node) == [q \in DOMAIN tree \cup paths |-> IF q \in DOMAIN tree THEN tree[q] ELSE node]
FilesOf(tree) == {q \in DOMAIN tree : ~tree[q].dir}

(* openRelativeParent makes the directories that are missing, or finds a file. *)
Blocked(tree, path) == \E q \in Ancestors(path) \cap DOMAIN tree : ~tree[q].dir

WithFile(tree, path, data) ==
  LET parents == With(tree, Ancestors(path), Directory) IN
  [q \in DOMAIN parents \cup {path} |-> IF q = path THEN Holding(data) ELSE parents[q]]

-----------------------------------------------------------------------------
(* What an archive may look like *)

(* safeArchivePath *)
Safe(entry) ==
  /\ entry.path # <<>> /\ entry.kind \in {"file", "dir"}
  /\ \A i \in DOMAIN entry.path : entry.path[i] \notin {"", ".", ".."}

(* Faulty variant: a path that is below a file is not noticed. *)
InspectFlat(archive) ==
  LET e == archive.entries IN
  /\ archive.intact /\ \A i \in DOMAIN e : Safe(e[i])
  /\ \A i, j \in DOMAIN e : i # j => e[i].path # e[j].path
  /\ \E i \in DOMAIN e : e[i].path = ManifestPath /\ e[i].kind = "file"

(* inspectZIP; the digest, the manifest and the checksums are in order or not. *)
Inspect(archive) ==
  LET e == archive.entries IN
  /\ archive.intact /\ \A i \in DOMAIN e : Safe(e[i])
  /\ \A i, j \in DOMAIN e : i # j => e[i].path # e[j].path
  /\ \A i, j \in DOMAIN e : e[i].kind = "file" => ~IsStrictPrefix(e[i].path, e[j].path)
  /\ \E i \in DOMAIN e : e[i].path = ManifestPath /\ e[i].kind = "file"

(* selectArchiveEntries, for a plugin: assemblies at the top or in plugins/ *)
Assembly(entry) ==
  /\ entry.kind = "file" /\ Last(entry.path) \in Dll
  /\ Len(entry.path) = 1 \/ (Len(entry.path) = 2 /\ entry.path[1] = "plugins")
Passed(entry) ==
  /\ Len(entry.path) = 1
  /\ \/ entry.path = ManifestPath
     \/ entry.kind = "dir" /\ entry.path = <<"plugins">>
     \/ entry.kind = "file" /\ entry.path # <<"plugins">> /\ Last(entry.path) \notin Dll

PluginFits(e) ==
  LET assemblies == {i \in DOMAIN e : Assembly(e[i])} IN
  /\ assemblies # {} /\ \A i \in DOMAIN e : Assembly(e[i]) \/ Passed(e[i])
  /\ \A i, j \in assemblies : Lower[Last(e[i].path)] = Lower[Last(e[j].path)] => i = j

(* ... and for the loader: everything below one directory *)
LoaderFits(e) ==
  /\ \A i \in DOMAIN e :
       IF Len(e[i].path) = 1 THEN e[i].kind = "dir" => e[i].path = <<Wrapper>> ELSE e[i].path[1] = Wrapper
  /\ \E i \in DOMAIN e : Len(e[i].path) > 1

(* The entries to unpack, and the paths they go to *)
Entry(p, i) == archives[p].entries[i]
Chosen(p) ==
  {i \in DOMAIN archives[p].entries : IF p = BepInEx THEN Len(Entry(p, i).path) > 1 ELSE Assembly(Entry(p, i))}
Output(p, i) == IF p = BepInEx THEN Tail(Entry(p, i).path) ELSE <<Last(Entry(p, i).path)>>

Extractable(p) ==
  /\ Inspect(archives[p])
  /\ IF p = BepInEx THEN LoaderFits(archives[p].entries) ELSE PluginFits(archives[p].entries)

-----------------------------------------------------------------------------
(* What of it is managed *)
Within(path, dir) == IsStrictPrefix(dir, path)
Managed(path) == path \in {<<f>> : f \in ManagedFile} \/ \E d \in ManagedDir : Within(path, d)

(* requireManagedRuntimeFiles *)
RequiredThere(paths) ==
  /\ {<<f>> : f \in ManagedFile} \subseteq paths
  /\ \A p \in Range(Plugins) : {PluginPath(name) : name \in Allowed[p]} \subseteq paths
  /\ \A d \in RequiredDir : \E path \in paths : Within(path, d)

-----------------------------------------------------------------------------
StagingInit ==
  /\ archives \in Inputs /\ step = 0 /\ selected = {} /\ unpacked = [p \in Range(Packages) |-> <<>>]
  /\ overlay = <<>> /\ template = FALSE /\ files = {} /\ manifest = {} /\ status = "stage" /\ edited = FALSE

(* An error at any point: the generation is removed. *)
Abandon(to) ==
  /\ status' = to /\ overlay' = <<>> /\ template' = FALSE /\ files' = {} /\ selected' = {} /\ step' = 0
  /\ unpacked' = [p \in Range(Packages) |-> <<>>] /\ UNCHANGED <<archives, manifest, edited>>

(* ExtractArchive *)
OpenArchive ==
  /\ status = "stage" /\ step < Len(Packages) /\ selected = {} /\ Extractable(Packages[step + 1])
  /\ step' = step + 1 /\ selected' = Chosen(Packages[step + 1])
  /\ UNCHANGED <<archives, unpacked, overlay, template, files, manifest, status, edited>>

ArchiveRefused ==
  /\ status = "stage" /\ step < Len(Packages) /\ selected = {} /\ ~Extractable(Packages[step + 1])
  /\ Abandon("refused")

(* The next entry, in the order of the archive *)
AtWork == Packages[step]
Tree == unpacked[AtWork]
Index == CHOOSE i \in selected : \A j \in selected : i <= j
Path == Output(AtWork, Index)
Unpack(tree) ==
  /\ unpacked' = [unpacked EXCEPT ![AtWork] = tree] /\ selected' = selected \ {Index}
  /\ UNCHANGED <<archives, step, overlay, template, files, manifest, status, edited>>

Fit(kind) == ~Blocked(Tree, Path) /\ (Path \in DOMAIN Tree => kind = "dir" /\ Tree[Path].dir)

(* openRelativeParent fails at a file, and extractArchiveFile opens no file that exists. *)
Place(kind, tree) == Entry(AtWork, Index).kind = kind /\ IF Fit(kind) THEN Unpack(tree) ELSE Abandon("collided")

(* ensureArchiveDirectory *)
UnpackDirectory ==
  /\ status = "stage" /\ selected # {}
  /\ Place("dir", With(Tree, Ancestors(Path) \cup {Path}, Directory))

(* extractArchiveFile *)
UnpackFile ==
  /\ status = "stage" /\ selected # {}
  /\ Place("file", WithFile(Tree, Path, <<AtWork, Index>>))

-----------------------------------------------------------------------------
(* copyManagedFile for every path in the domain of "of", which says what of an
   unpacked archive it is a copy of *)
Copied(from, of) ==
  [t \in DOMAIN overlay \cup (UNION {Ancestors(u) : u \in DOMAIN of}) \cup DOMAIN of |->
     IF t \in DOMAIN of THEN from[of[t]] ELSE IF t \in DOMAIN overlay THEN overlay[t] ELSE Directory]

Listed(from, of) == {<<t, from[of[t]].data>> : t \in DOMAIN of}

(* No file where a directory is needed, no directory where a file goes *)
Room(targets) ==
  \A t \in targets :
    /\ ~Blocked(overlay, t) /\ Ancestors(t) \cap targets = {}
    /\ t \in DOMAIN overlay => ~overlay[t].dir

Copy(from, of) ==
  IF Room(DOMAIN of)
  THEN /\ overlay' = Copied(from, of) /\ files' = files \cup Listed(from, of)
       /\ step' = (IF status = "stage" THEN 1 ELSE step + 1) /\ status' = "copy"
       /\ template' = (IF status = "stage" THEN ConfigPath \in FilesOf(from) ELSE template)
       /\ UNCHANGED <<archives, selected, unpacked, manifest, edited>>
  ELSE Abandon("collided")

AllUnpacked == status = "stage" /\ selected = {} /\ step = Len(Packages)

CopyLoader ==
  /\ AllUnpacked
  /\ LET from == unpacked[BepInEx] IN Copy(from, [t \in {q \in FilesOf(from) : Managed(q)} |-> t])

(* Exactly the assemblies that are expected *)
Expected(p) == FilesOf(unpacked[p]) = {<<name>> : name \in Allowed[p]}

CopyPlugin ==
  /\ status = "copy" /\ step < Len(Packages) /\ Expected(Packages[step + 1])
  /\ LET p == Packages[step + 1] IN
     Copy(unpacked[p], [t \in {PluginPath(name) : name \in Allowed[p]} |-> <<Last(t)>>])

PluginRefused ==
  /\ status = "copy" /\ step < Len(Packages) /\ ~Expected(Packages[step + 1])
  /\ Abandon("refused")

(* validateManagedFiles *)
ManagedOnce ==
  /\ \A f \in files : Managed(f[1]) \/ Within(f[1], PluginDir)
  /\ \A f, g \in files : f[1] = g[1] => f = g

AllCopied == status = "copy" /\ step = Len(Packages)
Complete == template /\ ManagedOnce /\ RequiredThere({f[1] : f \in files})

(* The manifest, the lock, and nothing of what was unpacked *)
Persist ==
  /\ AllCopied /\ Complete
  /\ manifest' = files /\ unpacked' = [p \in Range(Packages) |-> <<>>] /\ status' = "staged"
  /\ UNCHANGED <<archives, step, selected, overlay, template, files, edited>>

Incomplete == AllCopied /\ ~Complete /\ Abandon("refused")

(* No space, an input or output error, a cancelled context *)
StageFails == status \in {"stage", "copy"} /\ Abandon("failed")

-----------------------------------------------------------------------------
(* Somebody edits the generation before it is used. *)
Edit ==
  /\ status = "staged" /\ ~edited /\ edited' = TRUE
  /\ \/ \E q \in FilesOf(overlay) : overlay' = [overlay EXCEPT ![q].data = <<"edit">>]
     \/ \E q \in FilesOf(overlay) : overlay' = [r \in DOMAIN overlay \ {q} |-> overlay[r]]
     \/ \E q \in FilesOf(overlay) : overlay' = [overlay EXCEPT ![q] = Directory]
     \/ \E d \in {q \in DOMAIN overlay : overlay[q].dir}, node \in {Directory, Holding(<<"edit">>)} :
          overlay' = With(overlay, {Append(d, "edit")}, node)
     \/ \E d \in ManagedDir :
          overlay' = With(overlay, Ancestors(d) \cup {d}, Directory) /\ d \notin DOMAIN overlay
  /\ UNCHANGED <<archives, step, selected, unpacked, template, files, manifest, status>>

(* Faulty variant: only the files of the manifest are looked at. *)
ListedOnly ==
  \A f \in manifest : f[1] \in FilesOf(overlay) /\ overlay[f[1]].data = f[2]

(* verifyStagedOverlay: nothing that is not listed, and no file with other bytes *)
Verified ==
  /\ FilesOf(overlay) \subseteq {f[1] : f \in manifest}
  /\ \A q \in DOMAIN overlay \ FilesOf(overlay) : \E f \in manifest : Within(f[1], q)
  /\ \A f \in manifest : f[1] \in FilesOf(overlay) /\ overlay[f[1]].data = f[2]

(* openAndValidateStaged *)
ValidateStaged ==
  /\ status = "staged" /\ RequiredThere({f[1] : f \in manifest})
  /\ status' = IF Verified THEN "accepted" ELSE "rejected"
  /\ UNCHANGED <<archives, step, selected, unpacked, overlay, template, files, manifest, edited>>

StagingNext ==
  \/ OpenArchive \/ ArchiveRefused \/ UnpackDirectory \/ UnpackFile
  \/ CopyLoader \/ CopyPlugin \/ PluginRefused \/ Persist \/ Incomplete \/ StageFails \/ Edit \/ ValidateStaged

StagingSpec == StagingInit /\ [][StagingNext]_stagingVars

-----------------------------------------------------------------------------
(* An archive that was inspected unpacks: no entry meets another one of its
   archive, or another file of the overlay, in its place or where it needs a
   directory. *)
UnpacksCleanly == status # "collided"

(* Where a file of a package's archive has to end up in the overlay, if anywhere *)
Destination(p, entry) ==
  CASE entry.kind = "dir" -> <<>>
    [] entry.kind = "file" /\ p = BepInEx ->
         IF entry.path[1] = Wrapper /\ Managed(Tail(entry.path)) THEN Tail(entry.path) ELSE <<>>
    [] OTHER -> IF Last(entry.path) \in Allowed[p] THEN PluginPath(Last(entry.path)) ELSE <<>>

Wanted ==
  UNION {{<<Destination(p, Entry(p, i)), <<p, i>>>> : i \in DOMAIN archives[p].entries} : p \in Range(Packages)}

(* A generation that is used has each managed file of its packages, from the
   package it belongs to, and nothing else; only an edit makes it unusable. *)
UsedAsPackaged ==
  /\ status = "accepted" => {<<q, overlay[q].data>> : q \in FilesOf(overlay)} = {w \in Wanted : w[1] # <<>>}
  /\ status = "rejected" => edited

=============================================================================
