------------------------------ MODULE Ownership ------------------------------
(***************************************************************************)
(* prepareOwnership (identity.go): a start gives both mounts to the        *)
(* configured identity, entry by entry through open directories, verifies  *)
(* the complete trees and prepares the private directories, while others   *)
(* may create, replace and remove entries, give them away and change their *)
(* modes.  The roots themselves are left alone by others.                  *)
(*                                                                         *)
(* An inode is a model value; a directory maps names to inodes.  Listing a *)
(* directory and looking at what is listed is one step; so is opening an   *)
(* entry with the checks of what was opened.                               *)
(***************************************************************************)
EXTENDS Naturals, Sequences, FiniteSets

CONSTANTS
  Inode, Name, None,
  Rank,         \* Name -> Nat: the order of names
  Root,         \* the roots of the mounts: server, persistent data
  Kind,         \* Inode -> {"dir", "file", "link"}
  MountOf,      \* Inode -> the mount it is in or may be put in
  OtherDevice,  \* inodes of another file system, mounted below the tree
  StateName,    \* the private directory below the server mount
  Private,      \* names prepared in it, if they exist
  Made,         \* ... and made otherwise
  InitEntries, InitOwner, InitMode,
  Uid, Admin,   \* identities; Admin is the default 0:0
  GivenModes,   \* modes others give to entries
  MaxStarts, MaxEdits

Mounts == DOMAIN Root
Dirs == {i \in Inode : Kind[i] = "dir"}

ASSUME NameAssumption == StateName \in Name /\ Made \subseteq Private /\ Private \subseteq Name
ASSUME RankAssumption == Rank \in [Name -> Nat] /\ \A m, n \in Name : Rank[m] = Rank[n] => m = n
ASSUME InodeAssumption ==
  /\ None \notin Inode /\ Kind \in [Inode -> {"dir", "file", "link"}] /\ OtherDevice \subseteq Inode
  /\ Root \in Seq(Dirs \ OtherDevice) /\ Root # <<>>
  /\ InitEntries \in [Dirs -> [Name -> Inode \cup {None}]]

(* A mount is one tree of directories: files may have several names in it, a
   directory has one, and its root has none. *)
ASSUME MountAssumption ==
  /\ MountOf \in [Inode -> Mounts] /\ \A m \in Mounts : MountOf[Root[m]] = m
  /\ \A d \in Dirs, n \in Name :
       LET i == InitEntries[d][n] IN
       /\ i # None => MountOf[i] = MountOf[d] /\ \A m \in Mounts : i # Root[m]
       /\ i \in Dirs => \A e \in Dirs, o \in Name : InitEntries[e][o] = i => e = d /\ o = n

(* A mode has the bits a repair tells apart: access of the owner, access of
   others, set-ID. *)
Modes == [owner : BOOLEAN, wide : BOOLEAN, setid : BOOLEAN]
ASSUME IdentityAssumption ==
  /\ Admin \in Uid /\ InitOwner \in [Inode -> Uid] /\ InitMode \in [Inode -> Modes]
  /\ GivenModes \subseteq Modes /\ None \notin Modes

VARIABLES
  entries, owner, mode,   \* the file systems
  uid, state,             \* of this start: its identity, and the StateDir it holds open, as it found it
  pc, mount,
  stack,                  \* directories being walked: inode, path, what was listed, names left
  held,                   \* the open entry, and what was read of it
  tree,                   \* mount -> the paths and inodes it migrated, then verified
  left,                   \* private names left
  late,                   \* inodes others touched after the verification of their mount began
  before,                 \* the modes this start found, or None where others changed what it had read
  starts, edits

disk == <<entries, owner, mode>>
walk == <<mount, stack, held, tree, left>>
vars == <<disk, uid, state, pc, walk, late, before, starts, edits>>

PrivateMode == [owner |-> TRUE, wide |-> FALSE, setid |-> FALSE]
NoState == [inode |-> None, owner |-> Admin, mode |-> PrivateMode]
NoEntry == [inode |-> None, owner |-> Admin, mode |-> PrivateMode, target |-> PrivateMode, path |-> <<>>, at |-> "none"]

-----------------------------------------------------------------------------
(* Faulty variant: file systems mounted below the tree are walked too. *)
AnyDevice(i) == i \in Inode

(* requireOwnershipDevice *)
SameDevice(i) == i \in Inode \ OtherDevice

Listing(d) == {n \in Name : entries[d][n] # None}
Listable(d) == \A n \in Listing(d) : SameDevice(entries[d][n])

(* ownershipMode *)
Target(i, path) ==
  IF Kind[i] = "link" THEN mode[i]
  ELSE IF Kind[i] = "dir" /\ mount = 1 /\ path # <<>> /\ Head(path) = StateName THEN PrivateMode
  ELSE [mode[i] EXCEPT !.owner = TRUE]

Hold(i, path) == [inode |-> i, owner |-> owner[i], mode |-> mode[i], target |-> Target(i, path), path |-> path, at |-> "chown"]
Frame(d, path) == [dir |-> d, path |-> path, seen |-> entries[d], todo |-> Listing(d)]

Top == stack[Len(stack)]
Next1(names) == CHOOSE n \in names : \A o \in names : Rank[n] <= Rank[o]
Done(s, n) == [s EXCEPT ![Len(s)].todo = @ \ {n}]
Rest == SubSeq(stack, 1, Len(stack) - 1)

-----------------------------------------------------------------------------
(* A free inode stands for a directory that is made. *)
Linked == {i \in Inode : \E d \in Dirs, n \in Name : entries[d][n] = i}
Free ==
  {i \in Dirs \ (Linked \cup OtherDevice \cup {Root[m] : m \in Mounts}) : MountOf[i] = 1 /\ Listing(i) = {}}
Make(d, n, i) ==
  /\ entries' = [entries EXCEPT ![d][n] = i]
  /\ owner' = [owner EXCEPT ![i] = Admin] /\ mode' = [mode EXCEPT ![i] = PrivateMode]

Opened(i) ==
  /\ state' = [inode |-> i, owner |-> owner'[i], mode |-> mode'[i]]
  /\ pc' = IF uid' = Admin THEN "private" ELSE "migrate"

(* StateDir is opened, or made and opened. *)
Begin ==
  /\ pc = "idle" /\ starts < MaxStarts /\ starts' = starts + 1
  /\ uid' \in Uid
  /\ LET i == entries[Root[1]][StateName] IN
     \/ i \in Dirs /\ UNCHANGED disk /\ Opened(i)
     \/ i = None /\ \E j \in Free : Make(Root[1], StateName, j) /\ Opened(j)
     \/ i \notin Dirs /\ UNCHANGED disk /\ state' = NoState /\ pc' = "failed"
  /\ mount' = 1 /\ stack' = <<>> /\ held' = NoEntry /\ left' = Private
  /\ tree' = [m \in Mounts |-> {}] /\ late' = {}
  /\ before' = mode' /\ UNCHANGED edits

(* What was held is let go. *)
Stop ==
  /\ pc' = "failed" /\ stack' = <<>> /\ held' = NoEntry /\ left' = {} /\ tree' = [m \in Mounts |-> {}]
  /\ late' = {} /\ before' = mode /\ UNCHANGED <<disk, uid, state, mount, starts, edits>>

Same == UNCHANGED <<uid, state, late, before, starts, edits>>

(* lchownTree begins with the root. *)
OpenRoot ==
  /\ pc = "migrate" /\ stack = <<>> /\ held = NoEntry /\ tree[mount] = {}
  /\ held' = [Hold(Root[mount], <<>>) EXCEPT !.at = "chown"]
  /\ tree' = [tree EXCEPT ![mount] = {<<<<>>, Root[mount]>>}]
  /\ UNCHANGED <<disk, pc, mount, stack, left>> /\ Same

(* StateDir is the directory that is held, and looked at since the start began. *)
Reserved(n) == mount = 1 /\ Top.path = <<>> /\ n = StateName
Found(n, path) ==
  IF Reserved(n) THEN [Hold(state.inode, path) EXCEPT !.owner = state.owner, !.mode = state.mode] ELSE Hold(entries[Top.dir][n], path)

(* The next entry of the directory is what was listed. *)
Openable(n) ==
  LET i == entries[Top.dir][n] IN
  /\ i = Top.seen[n] /\ SameDevice(i)
  /\ Reserved(n) => i = state.inode

OpenEntry ==
  /\ pc = "migrate" /\ stack # <<>> /\ held = NoEntry /\ Top.todo # {}
  /\ LET n == Next1(Top.todo)
         path == Append(Top.path, n)
     IN /\ Openable(n)
        /\ held' = Found(n, path)
        /\ tree' = [tree EXCEPT ![mount] = @ \cup {<<path, entries[Top.dir][n]>>}]
  /\ UNCHANGED <<disk, pc, mount, stack, left>> /\ Same

OpenRefused ==
  /\ pc = "migrate" /\ stack # <<>> /\ held = NoEntry /\ Top.todo # {}
  /\ ~Openable(Next1(Top.todo)) /\ Stop

(* repairOwnershipMetadata: chown may clear the set-ID bits of a file. *)
GiveOwner ==
  IF held.owner = uid
  THEN UNCHANGED disk
  ELSE /\ owner' = [owner EXCEPT ![held.inode] = uid] /\ UNCHANGED entries
       /\ mode' \in {mode} \cup
            (IF Kind[held.inode] = "file" THEN {[mode EXCEPT ![held.inode].setid = FALSE]} ELSE {})

(* Faulty variant: the mode is not read again after the change of owner. *)
ChownStale ==
  /\ held.at = "chown" /\ GiveOwner
  /\ held' = [held EXCEPT !.at = "chmod"]
  /\ UNCHANGED <<pc, mount, stack, tree, left>> /\ Same

Chown ==
  /\ held.at = "chown" /\ GiveOwner
  /\ held' = [held EXCEPT !.at = "chmod", !.mode = IF held.owner = uid THEN @ ELSE mode'[held.inode]]
  /\ UNCHANGED <<pc, mount, stack, tree, left>> /\ Same

(* The mode is set if what was last read of it is not as it should be. *)
Chmod ==
  /\ held.at = "chmod" /\ held' = [held EXCEPT !.at = "check"]
  /\ UNCHANGED <<entries, owner>>
  /\ mode' = IF Kind[held.inode] = "link" \/ held.mode = held.target THEN mode ELSE [mode EXCEPT ![held.inode] = held.target]
  /\ UNCHANGED <<pc, mount, stack, tree, left>> /\ Same

(* verifyNameIdentity, and the directory is listed *)
StillNamed == stack # <<>> => entries[Top.dir][held.path[Len(held.path)]] = held.inode

Enter ==
  /\ held.at = "check" /\ StillNamed /\ Kind[held.inode] = "dir" /\ Listable(held.inode)
  /\ stack' = Append(stack, Frame(held.inode, held.path)) /\ held' = NoEntry
  /\ UNCHANGED <<disk, pc, mount, tree, left>> /\ Same

Repaired ==
  /\ held.at = "check" /\ StillNamed /\ Kind[held.inode] # "dir"
  /\ stack' = Done(stack, held.path[Len(held.path)]) /\ held' = NoEntry
  /\ UNCHANGED <<disk, pc, mount, tree, left>> /\ Same

CheckRefused ==
  /\ held.at = "check" /\ (~StillNamed \/ (Kind[held.inode] = "dir" /\ ~Listable(held.inode))) /\ Stop

(* All entries are done: StateDir was one of them, the listing is the same, and a
   migrated directory still has its name. *)
Unchanged ==
  /\ entries[Top.dir] = Top.seen /\ Listable(Top.dir)
  /\ pc = "migrate" /\ mount = 1 /\ Len(stack) = 1 => Top.seen[StateName] # None
  /\ pc = "migrate" /\ Len(stack) > 1 =>
       entries[stack[Len(stack) - 1].dir][Top.path[Len(Top.path)]] = Top.dir

(* The walk of a mount ends, that of the next begins, then the verification. *)
Leave ==
  /\ pc = "migrate" /\ stack # <<>> /\ held = NoEntry /\ Top.todo = {} /\ Unchanged
  /\ IF Len(stack) > 1
     THEN /\ stack' = Done(Rest, Top.path[Len(Top.path)])
          /\ UNCHANGED <<pc, mount>>
     ELSE /\ stack' = <<>> /\ mount' = IF mount < Len(Root) THEN mount + 1 ELSE 1
          /\ pc' = IF mount < Len(Root) THEN "migrate" ELSE "verify"
  /\ UNCHANGED <<disk, held, tree, left>> /\ Same

LeaveRefused ==
  /\ pc \in {"migrate", "verify"} /\ stack # <<>> /\ held = NoEntry /\ Top.todo = {} /\ ~Unchanged /\ Stop

-----------------------------------------------------------------------------
(* verifyCompleteOwnershipTree *)

(* Faulty variant: the owners are not looked at again. *)
OwnersSkipped(d) == Listable(d)

Owned(d) == Listable(d) /\ \A n \in Listing(d) : owner[entries[d][n]] = uid

(* What is listed must be what was migrated. *)
Migrated(d, path) ==
  {<<Append(path, n), entries[d][n]>> : n \in Listing(d)} =
    {e \in tree[mount] : Len(e[1]) = Len(path) + 1 /\ SubSeq(e[1], 1, Len(path)) = path}

Verifiable(d, path) == Owned(d) /\ Migrated(d, path)

VerifyRoot ==
  /\ pc = "verify" /\ stack = <<>>
  /\ owner[Root[mount]] = uid /\ Verifiable(Root[mount], <<>>)
  /\ stack' = <<Frame(Root[mount], <<>>)>>
  /\ UNCHANGED <<disk, pc, mount, held, tree, left>> /\ Same

Visited(n) == IF Reserved(n) THEN state.inode ELSE entries[Top.dir][n]

VerifyEntry ==
  /\ pc = "verify" /\ stack # <<>> /\ Top.todo # {}
  /\ LET n == Next1(Top.todo)
         i == Visited(n)
     IN \/ Kind[Top.seen[n]] # "dir" /\ stack' = Done(stack, n)
        \/ /\ Kind[Top.seen[n]] = "dir" /\ i = Top.seen[n] /\ Verifiable(i, Append(Top.path, n))
           /\ stack' = Append(stack, Frame(i, Append(Top.path, n)))
  /\ UNCHANGED <<disk, pc, mount, held, tree, left>> /\ Same

VerifyRefused ==
  /\ pc = "verify"
  /\ \/ stack = <<>> /\ ~(owner[Root[mount]] = uid /\ Verifiable(Root[mount], <<>>))
     \/ /\ stack # <<>> /\ Top.todo # {}
        /\ LET n == Next1(Top.todo)
               i == Visited(n)
           IN /\ Kind[Top.seen[n]] = "dir"
              /\ ~(i = Top.seen[n] /\ Verifiable(i, Append(Top.path, n)))
  /\ Stop

VerifyLeave ==
  /\ pc = "verify" /\ stack # <<>> /\ Top.todo = {} /\ Unchanged
  /\ IF Len(stack) > 1
     THEN /\ stack' = Done(Rest, Top.path[Len(Top.path)])
          /\ UNCHANGED <<pc, mount>>
     ELSE /\ stack' = <<>> /\ mount' = IF mount < Len(Root) THEN mount + 1 ELSE 1
          /\ pc' = IF mount < Len(Root) THEN "verify" ELSE "private"
  /\ UNCHANGED <<disk, held, tree, left>> /\ Same

-----------------------------------------------------------------------------
(* preparePrivateDirectories: StateDir, then each private directory in it *)
Secured(i) ==
  /\ owner' = [owner EXCEPT ![i] = uid] /\ mode' = [mode EXCEPT ![i] = PrivateMode]

PrivateState ==
  /\ pc = "private" /\ SameDevice(state.inode)
  /\ Secured(state.inode) /\ pc' = "directories" /\ UNCHANGED <<entries, walk>> /\ Same

PrivateMissing(n) ==
  /\ pc = "directories" /\ n \in left \ Made /\ entries[state.inode][n] = None
  /\ left' = left \ {n} /\ UNCHANGED <<disk, pc, mount, stack, held, tree>> /\ Same

MakeDirectory(n) ==
  /\ pc = "directories" /\ n \in left \cap Made /\ entries[state.inode][n] = None
  /\ \E i \in Free \ {state.inode} : Make(state.inode, n, i)
  /\ UNCHANGED <<pc, walk>> /\ Same

PrivateDirectory(n) ==
  /\ pc = "directories" /\ n \in left
  /\ LET i == entries[state.inode][n] IN i \in Dirs /\ SameDevice(i) /\ Secured(i)
  /\ left' = left \ {n} /\ UNCHANGED <<entries, pc, mount, stack, held, tree>> /\ Same

(* verifyPathIdentity, after the file systems were synced *)
Finish ==
  /\ pc = "directories" /\ left = {} /\ entries[Root[1]][StateName] = state.inode
  /\ pc' = "done" /\ tree' = [m \in Mounts |-> {}]
  /\ UNCHANGED <<disk, mount, stack, held, left>> /\ Same

FinishRefused ==
  /\ pc = "directories"
  /\ \/ left = {} /\ entries[Root[1]][StateName] # state.inode
     \/ \E n \in left :
           /\ entries[state.inode][n] # None
           /\ ~(entries[state.inode][n] \in Dirs /\ SameDevice(entries[state.inode][n]))
  /\ Stop

-----------------------------------------------------------------------------
(* The environment *)

(* A system call fails, or the process is killed. *)
Fails == pc \notin {"idle", "done", "failed"} /\ Stop

(* The runtime runs under its identity, and ends. *)
End ==
  /\ pc \in {"done", "failed"} /\ pc' = "idle" /\ mount' = 1 /\ uid' = Admin /\ state' = NoState
  /\ UNCHANGED <<disk, stack, held, tree, left, late, before, starts, edits>>

Verifying(m) == pc \in {"private", "directories", "done"} \/ (pc = "verify" /\ (m < mount \/ (m = mount /\ stack # <<>>)))
Touched(d, i) == late' = IF Verifying(MountOf[d]) THEN late \cup {i} ELSE late

(* i is d, or a directory above it. *)
Above(i, d) ==
  \A up \in SUBSET Dirs :
    d \in up /\ (\A e \in Dirs, n \in Name : entries[e][n] \in up => e \in up) => i \in up

Put(d, n, i) ==
  /\ i \notin Linked /\ i \notin {Root[m] : m \in Mounts} /\ MountOf[i] = MountOf[d] /\ ~Above(i, d)
  /\ entries' = [entries EXCEPT ![d][n] = i] /\ Touched(d, i) /\ UNCHANGED <<owner, mode, before>>

Take(d, n) ==
  /\ entries[d][n] # None /\ entries[d][n] \notin OtherDevice
  /\ entries' = [entries EXCEPT ![d][n] = None] /\ UNCHANGED <<owner, mode, late, before>>

GiveAway(d, n, u) ==
  /\ entries[d][n] # None /\ entries[d][n] \notin OtherDevice
  /\ owner' = [owner EXCEPT ![entries[d][n]] = u] /\ Touched(d, entries[d][n]) /\ UNCHANGED <<entries, mode, before>>

(* The mode of i has been read, and is not read again but to set it. *)
ModeRead(i) == pc # "migrate" \/ i = state.inode \/ \E m \in Mounts : \E e \in tree[m] : e[2] = i

ChangeMode(d, n, md) ==
  LET i == entries[d][n] IN
  /\ i \notin OtherDevice \cup {None} /\ Kind[i] # "link"
  /\ mode' = [mode EXCEPT ![i] = md]
  /\ before' = [before EXCEPT ![i] = IF ModeRead(i) THEN None ELSE md]
  /\ UNCHANGED <<entries, owner, late>>

Edit ==
  /\ edits < MaxEdits /\ edits' = edits + 1
  /\ \E d \in Dirs \ OtherDevice, n \in Name :
       \/ \E i \in Inode : Put(d, n, i)
       \/ Take(d, n)
       \/ \E u \in Uid : GiveAway(d, n, u)
       \/ \E md \in GivenModes : ChangeMode(d, n, md)
  /\ UNCHANGED <<uid, state, pc, walk, starts>>

Init ==
  /\ entries = InitEntries /\ owner = InitOwner /\ mode = InitMode
  /\ uid = Admin /\ state = NoState /\ pc = "idle" /\ mount = 1 /\ stack = <<>> /\ held = NoEntry
  /\ tree = [m \in Mounts |-> {}] /\ left = {} /\ late = {} /\ before = InitMode /\ starts = 0 /\ edits = 0

Next ==
  \/ Begin \/ OpenRoot \/ OpenEntry \/ OpenRefused \/ Chown \/ Chmod \/ Enter \/ Repaired \/ CheckRefused
  \/ Leave \/ LeaveRefused \/ VerifyRoot \/ VerifyEntry \/ VerifyRefused \/ VerifyLeave
  \/ PrivateState \/ Finish \/ FinishRefused \/ Fails \/ End \/ Edit
  \/ \E n \in Name : PrivateMissing(n) \/ MakeDirectory(n) \/ PrivateDirectory(n)

Spec == Init /\ [][Next]_vars

-----------------------------------------------------------------------------
(* What is below a root, not looking into what was put there too late *)
Children(dirs) == {entries[d][n] : d \in dirs, n \in Name} \ ({None} \cup late)
Tree(m) ==
  LET one == Children({Root[m]})
      two == Children(one \cap Dirs)
      three == Children(two \cap Dirs)
  IN {Root[m]} \cup one \cup two \cup three

(* After a start with an identity everything in both mounts belongs to it, whatever was
   changed while the trees were walked, but for what was put there or given away once
   their verification had begun; and it is open to it, but for what others closed after
   the walk had read its mode: the verification looks at owners and inodes only. *)
HandedOver ==
  pc = "done" /\ uid # Admin =>
    \A m \in Mounts : \A i \in Tree(m) :
      owner[i] = uid /\ (Kind[i] # "link" /\ before[i] # None => mode[i].owner)

(* A walk never leaves its mount: what is mounted below it is not changed. *)
ForeignUntouched == [][\A i \in OtherDevice : owner'[i] = owner[i] /\ mode'[i] = mode[i]]_vars

(* Outside the private directory a start takes no access from others and leaves the
   set-ID bits, which a change of owner clears, as it found them; what others changed
   after it was read is theirs or lost. *)
AccessKept ==
  pc = "done" =>
    \A m \in Mounts :
      \A i \in Tree(m) \ ({state.inode} \cup Children({state.inode}) \cup Children(Children({state.inode}) \cap Dirs)) :
         before[i] # None => mode[i].wide = before[i].wide /\ mode[i].setid = before[i].setid

=============================================================================
