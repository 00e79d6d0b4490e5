--------------------------- MODULE OwnershipProofs ---------------------------
(***************************************************************************)
(* The properties of Ownership, proved for any trees, identities and edits *)
(* by others.  A walk and its verification are described by what they have *)
(* still to do: everything that is not late is in order, or below a name   *)
(* that some directory on the stack has yet to visit.                      *)
(***************************************************************************)
EXTENDS Ownership, TLAPS, SequenceTheorems, WellFoundedInduction

-----------------------------------------------------------------------------
(* The inductive invariant *)

Roots == {Root[m] : m \in Mounts}
FrameType == [dir : Dirs, path : Seq(Name), seen : [Name -> Inode \cup {None}], todo : SUBSET Name]
HeldType ==
  [inode : Inode \cup {None}, owner : Uid, mode : Modes, target : Modes, path : Seq(Name),
   at : {"none", "chown", "chmod", "check"}]

TypeInv ==
  /\ entries \in [Dirs -> [Name -> Inode \cup {None}]] /\ owner \in [Inode -> Uid]
  /\ mode \in [Inode -> Modes] /\ before \in [Inode -> Modes \cup {None}]
  /\ uid \in Uid /\ state \in [inode : Inode \cup {None}, owner : Uid, mode : Modes]
  /\ pc \in {"idle", "migrate", "verify", "private", "directories", "done", "failed"} /\ mount \in Mounts
  /\ stack \in Seq(FrameType) /\ held \in HeldType
  /\ tree \in [Mounts -> SUBSET (Seq(Name) \X Inode)] /\ left \in SUBSET Name /\ late \in SUBSET Inode

(* Edits keep what is assumed of a mount. *)
EntriesInv ==
  \A d \in Dirs, n \in Name :
    LET i == entries[d][n] IN
    /\ i # None => MountOf[i] = MountOf[d] /\ i \notin Roots
    /\ i \in Dirs => \A e \in Dirs, o \in Name : entries[e][o] = i => e = d /\ o = n

StateInv ==
  /\ pc \notin {"idle", "failed"} => state.inode \in Dirs \ Roots /\ MountOf[state.inode] = 1
  /\ pc = "done" => left = {}

(* What is open is in the mount, and among what was migrated. *)
HeldInv ==
  held.at # "none" =>
    /\ pc = "migrate" /\ held.inode \in Inode \ OtherDevice
    /\ <<held.path, held.inode>> \in tree[mount]
    /\ Kind[held.inode] # "link" => held.target.owner
    /\ stack = <<>> => held.inode \in Roots

(* What was migrated is in its mount, below directories that were migrated. *)
Founded(m, path) == \A j \in 1 .. Len(path) - 1 : \E d \in Dirs : <<SubSeq(path, 1, j), d>> \in tree[m]

TreeInv ==
  \A m \in Mounts : \A e \in tree[m] :
    /\ MountOf[e[2]] = m
    /\ e[1] # <<>> => e[2] \notin Roots
    /\ m = 1 /\ e[1] = <<StateName>> => e[2] = state.inode
    /\ Founded(m, e[1])

RootedInv ==
  /\ pc = "migrate" => \A m \in Mounts : m < mount => <<<<>>, Root[m]>> \in tree[m]
  /\ pc = "migrate" /\ (stack # <<>> \/ held.at # "none") => <<<<>>, Root[mount]>> \in tree[mount]
  /\ pc = "verify" => \A m \in Mounts : <<<<>>, Root[m]>> \in tree[m]

(* What was migrated is open to its owner, unless others changed its mode after it had been read. *)
ModeInv ==
  \A m \in Mounts : \A e \in tree[m] :
    Kind[e[2]] # "link" =>
      mode[e[2]].owner \/ before[e[2]] = None \/ (held.at \in {"chown", "chmod"} /\ held.inode = e[2])

StackInv ==
  /\ pc \notin {"migrate", "verify"} => stack = <<>>
  /\ pc \in {"idle", "done", "failed"} => \A m \in Mounts : tree[m] = {}
  /\ \A k \in DOMAIN stack : <<stack[k].path, stack[k].dir>> \in tree[mount]

(* A directory being verified held what was migrated, and nothing has been added
   that is not late; the next on the stack is one of its entries. *)
FrameInv ==
  pc = "verify" =>
    \A k \in DOMAIN stack :
      /\ \A n \in Name, i \in Inode :
           <<Append(stack[k].path, n), i>> \in tree[mount] <=> stack[k].seen[n] = i
      /\ \A n \in stack[k].todo : stack[k].seen[n] # None
      /\ \A n \in Name : entries[stack[k].dir][n] \in {stack[k].seen[n], None} \cup late
      /\ k < Len(stack) =>
           \E n \in Name :
             stack[k + 1].path = Append(stack[k].path, n) /\ stack[k + 1].dir = stack[k].seen[n]

Good(i) == owner[i] = uid /\ (Kind[i] # "link" /\ before[i] # None => mode[i].owner)

(* Of the entries of a directory that was verified: the entry is in order, or
   private and about to be; and if it is a directory, it was verified itself or is to be. *)
EntryOK(S, d, n) ==
  LET i == entries[d][n] IN
  \/ i \in {None} \cup late
  \/ /\ Good(i) \/ (d = state.inode /\ n \in left)
     /\ Kind[i] # "dir" \/ i \in S \/ \E k \in DOMAIN stack : stack[k].dir = d /\ n \in stack[k].todo

Handed(S) ==
  /\ \A m \in Mounts : Verifying(m) => Root[m] \in S /\ Good(Root[m])
  /\ \A d \in S \cap Dirs : Verifying(MountOf[d]) /\ \A n \in Name : EntryOK(S, d, n)
  /\ \A k \in DOMAIN stack : stack[k].dir \in S

HandInv ==
  pc \in {"verify", "private", "directories", "done"} /\ uid # Admin => \E S \in SUBSET Inode : Handed(S)

SameAccess(m, n) == m.wide = n.wide /\ m.setid = n.setid

(* A mode gives the access that was found, where nobody changed it after it had been read. *)
AsFound(m, i) == before[i] # None => SameAccess(m, before[i])

(* Directories the migration made private *)
Withheld == {i \in Dirs : \E e \in tree[1] : e[2] = i /\ e[1] # <<>> /\ e[1][1] = StateName}

AccessInv ==
  pc \in {"migrate", "verify"} =>
    /\ \A i \in Inode :
         AsFound(mode[i], i) \/ i \in Withheld
           \/ (held.at = "chmod" /\ held.inode = i /\ Kind[i] = "file")
    /\ held.at \in {"chown", "chmod"} =>
         AsFound(held.target, held.inode) \/ held.inode \in Withheld

(* What was read of a mode, of StateDir or of what is held, is what the mode still is, unless
   others changed it since. *)
ReadInv ==
  pc = "migrate" =>
    /\ before[state.inode] # None /\ state.mode.owner => mode[state.inode].owner
    /\ held.at \in {"chown", "chmod"} /\ before[held.inode] # None =>
         /\ held.mode.owner => mode[held.inode].owner
         /\ SameAccess(held.mode, mode[held.inode]) \/ held.inode \in Withheld

(* A directory that was migrated is where it was then, unless it is late, or below a name
   still to be visited. *)
Parent(path) == SubSeq(path, 1, Len(path) - 1)
Placed(e) ==
  e[2] \in late \/ \A d \in Dirs, n \in Name :
     entries[d][n] = e[2] => e[1] # <<>> /\ <<Parent(e[1]), d>> \in tree[1]

Deeper(p, q) == Len(p) > Len(q) /\ \A j \in 1 .. Len(q) : p[j] = q[j]
Remaining(e) ==
  \E k \in DOMAIN stack : \E n \in stack[k].todo :
    /\ k < Len(stack) => stack[k + 1].path # Append(stack[k].path, n)
    /\ Deeper(e[1], Append(stack[k].path, n))

PlaceInv ==
  pc = "verify" /\ (mount > 1 \/ stack # <<>>) =>
    \A e \in tree[1] : Len(e[1]) >= 2 /\ e[2] \in Dirs => Placed(e) \/ (mount = 1 /\ Remaining(e))

(* What a start made private hangs together below StateDir. *)
Secluded(X) ==
  /\ state.inode \in X /\ X \cap Roots = {}
  /\ \A i \in X : MountOf[i] = 1
  /\ \A i \in X \ {state.inode} :
       i \in late \/ \A d \in Dirs, n \in Name : entries[d][n] = i => d \in X
  /\ \A i \in Inode : AsFound(mode[i], i) \/ i \in X

SecludedInv ==
  pc \in {"private", "directories", "done"} => \E X \in SUBSET Dirs : Secluded(X)

FileInv == TypeInv /\ EntriesInv /\ StateInv
WalkInv == HeldInv /\ TreeInv /\ RootedInv /\ ModeInv /\ StackInv /\ FrameInv
IInv == FileInv /\ WalkInv /\ HandInv /\ AccessInv /\ ReadInv /\ PlaceInv /\ SecludedInv

-----------------------------------------------------------------------------
(* Operators *)

LEMMA RootFacts ==
  /\ 1 \in Mounts /\ Mounts = 1 .. Len(Root) /\ Len(Root) \in Nat
  /\ \A m \in Mounts : Root[m] \in Dirs \ OtherDevice /\ Root[m] \in Roots /\ MountOf[Root[m]] = m
  /\ Roots \subseteq Dirs
<1>1. Root \in Seq(Dirs \ OtherDevice) /\ Root # <<>>
  BY InodeAssumption
<1>2. \A m \in Mounts : Root[m] \in Dirs \ OtherDevice
  BY <1>1 DEF Mounts
<1> QED BY <1>1, <1>2, MountAssumption DEF Mounts, Roots

LEMMA KindFacts ==
  /\ None \notin Inode /\ Dirs \subseteq Inode
  /\ \A i \in Inode : Kind[i] \in {"dir", "file", "link"} /\ (i \in Dirs <=> Kind[i] = "dir")
BY InodeAssumption DEF Dirs

(* The names of a directory have a first one. *)
LEMMA FirstName ==
  ASSUME NEW names \in SUBSET Name, names # {}
  PROVE  Next1(names) \in names
<1> DEFINE ranks == {Rank[n] : n \in names}
<1>1. \A n \in names : Rank[n] \in Nat
  BY RankAssumption
<1>2. ranks \subseteq Nat /\ ranks # {}
  BY <1>1
<1>3. PICK r \in ranks : \A q \in ranks : ~(<<q, r>> \in OpToRel(<, Nat))
  BY <1>2, NatLessThanWellFounded, WFMin
<1>4. ASSUME NEW q \in ranks PROVE r <= q
  <2>1. ~(q < r)
    BY <1>2, <1>3 DEF OpToRel
  <2> QED BY <1>2, <2>1
<1>5. \E n \in names : \A o \in names : Rank[n] <= Rank[o]
  BY <1>3, <1>4
<1> QED BY <1>5 DEF Next1

LEMMA TargetFacts ==
  ASSUME NEW i \in Inode, mode \in [Inode -> Modes], NEW path \in Seq(Name)
  PROVE  /\ Target(i, path) \in Modes
         /\ Kind[i] # "link" => Target(i, path).owner
         /\ \/ SameAccess(Target(i, path), mode[i])
            \/ Kind[i] = "dir" /\ mount = 1 /\ path # <<>> /\ path[1] = StateName
<1>1. mode[i] \in Modes /\ PrivateMode \in Modes
  BY DEF Modes, PrivateMode
<1>2. [mode[i] EXCEPT !.owner = TRUE] \in Modes /\ [mode[i] EXCEPT !.owner = TRUE].owner
      /\ SameAccess([mode[i] EXCEPT !.owner = TRUE], mode[i])
  BY <1>1 DEF Modes, SameAccess
<1>3. SameAccess(mode[i], mode[i]) /\ PrivateMode.owner
  BY DEF SameAccess, PrivateMode
<1> QED BY <1>1, <1>2, <1>3 DEF Target

LEMMA HoldFacts ==
  ASSUME NEW i \in Inode, TypeInv, NEW path \in Seq(Name)
  PROVE  /\ Hold(i, path) \in HeldType
         /\ Hold(i, path).inode = i /\ Hold(i, path).path = path /\ Hold(i, path).at = "chown"
         /\ Hold(i, path).target = Target(i, path) /\ Hold(i, path).mode = mode[i]
BY TargetFacts DEF TypeInv, Hold, HeldType

LEMMA NoEntryFacts == NoEntry \in HeldType /\ NoEntry.at = "none"
BY IdentityAssumption DEF NoEntry, HeldType, PrivateMode, Modes

LEMMA NoStateFacts == NoState \in [inode : Inode \cup {None}, owner : Uid, mode : Modes]
BY IdentityAssumption DEF NoState, PrivateMode, Modes

LEMMA FrameFacts ==
  ASSUME TypeInv, NEW d \in Dirs, NEW path \in Seq(Name)
  PROVE  /\ Frame(d, path) \in FrameType
         /\ Frame(d, path).dir = d /\ Frame(d, path).path = path
         /\ Frame(d, path).seen = entries[d] /\ Frame(d, path).todo = Listing(d)
BY DEF TypeInv, Frame, FrameType, Listing

LEMMA TopFacts ==
  ASSUME TypeInv, stack # <<>>
  PROVE  /\ Len(stack) \in Nat \ {0} /\ Top = stack[Len(stack)] /\ Top \in FrameType
         /\ Top.dir \in Dirs /\ Top.path \in Seq(Name) /\ Top.seen \in [Name -> Inode \cup {None}]
         /\ Top.todo \in SUBSET Name
<1>1. stack \in Seq(FrameType) /\ Len(stack) \in Nat \ {0}
  BY DEF TypeInv
<1>2. stack[Len(stack)] \in FrameType
  BY <1>1
<1> QED BY <1>1, <1>2 DEF Top, FrameType

(* One name is done, or a directory and its name in the one above it. *)
LEMMA DoneFacts ==
  ASSUME NEW s \in Seq(FrameType), s # <<>>, NEW n
  PROVE  /\ Done(s, n) \in Seq(FrameType) /\ Len(Done(s, n)) = Len(s)
         /\ \A k \in 1 .. Len(s) :
              /\ Done(s, n)[k].dir = s[k].dir /\ Done(s, n)[k].path = s[k].path
              /\ Done(s, n)[k].seen = s[k].seen
              /\ Done(s, n)[k].todo = IF k = Len(s) THEN s[k].todo \ {n} ELSE s[k].todo
<1> DEFINE last == [s[Len(s)] EXCEPT !.todo = @ \ {n}]
<1>1. s[Len(s)] \in FrameType
  OBVIOUS
<1>2. last \in FrameType
  BY <1>1 DEF FrameType
<1>3. Done(s, n) = [s EXCEPT ![Len(s)] = last]
  BY Zenon DEF Done
<1>4. last.dir = s[Len(s)].dir /\ last.path = s[Len(s)].path /\ last.seen = s[Len(s)].seen
      /\ last.todo = s[Len(s)].todo \ {n}
  BY <1>1 DEF FrameType
<1> HIDE DEF last
<1>5. Done(s, n) \in Seq(FrameType) /\ Len(Done(s, n)) = Len(s)
  BY <1>2, <1>3
<1>6. ASSUME NEW k \in 1 .. Len(s)
      PROVE  Done(s, n)[k] = IF k = Len(s) THEN last ELSE s[k]
  BY <1>3
<1> QED BY <1>4, <1>5, <1>6

LEMMA RestFacts ==
  ASSUME TypeInv, Len(stack) > 1
  PROVE  /\ Rest \in Seq(FrameType) /\ Len(Rest) = Len(stack) - 1 /\ Rest # <<>>
         /\ \A k \in 1 .. Len(stack) - 1 : Rest[k] = stack[k]
<1>1. stack \in Seq(FrameType) /\ Len(stack) \in Nat
  BY DEF TypeInv
<1>2. \A k \in 1 .. Len(stack) - 1 : stack[k] \in FrameType
  BY <1>1
<1>7. 1 \in Int /\ Len(stack) - 1 \in Int
  BY <1>1
<1>8. SubSeq(stack, 1, Len(stack) - 1) \in Seq(FrameType)
  BY <1>2, <1>7, SubSeqProperties
<1>9. Len(SubSeq(stack, 1, Len(stack) - 1)) = IF 1 <= Len(stack) - 1 THEN Len(stack) - 1 - 1 + 1 ELSE 0
  BY <1>2, <1>7, SubSeqProperties
<1>10. \A k \in 1 .. Len(stack) - 1 - 1 + 1 : SubSeq(stack, 1, Len(stack) - 1)[k] = stack[1 + k - 1]
  BY <1>2, <1>7, SubSeqProperties
<1>3. /\ Rest \in Seq(FrameType)
      /\ Len(Rest) = IF 1 <= Len(stack) - 1 THEN Len(stack) - 1 - 1 + 1 ELSE 0
      /\ \A k \in 1 .. Len(stack) - 1 - 1 + 1 : Rest[k] = stack[1 + k - 1]
  BY <1>8, <1>9, <1>10, Zenon DEF Rest
<1>4. Len(Rest) = Len(stack) - 1
  BY <1>1, <1>3
<1>5. Rest # <<>>
  BY <1>3, <1>4
<1>6. ASSUME NEW k \in 1 .. Len(stack) - 1 PROVE Rest[k] = stack[k]
  <2>1. k \in 1 .. Len(stack) - 1 - 1 + 1 /\ 1 + k - 1 = k
    BY <1>1
  <2> QED BY <1>3, <2>1
<1> QED BY <1>3, <1>4, <1>5, <1>6

LEMMA PopFacts ==
  ASSUME TypeInv, Len(stack) > 1, NEW n
  PROVE  LET t == Done(Rest, n) IN
         /\ t \in Seq(FrameType) /\ Len(t) = Len(stack) - 1
         /\ \A k \in 1 .. Len(stack) - 1 :
              /\ t[k].dir = stack[k].dir /\ t[k].path = stack[k].path /\ t[k].seen = stack[k].seen
              /\ t[k].todo = IF k = Len(stack) - 1 THEN stack[k].todo \ {n} ELSE stack[k].todo
<1>1. Len(stack) \in Nat
  BY DEF TypeInv
<1>2. Rest \in Seq(FrameType) /\ Len(Rest) = Len(stack) - 1 /\ Rest # <<>> /\ \A k \in 1 .. Len(stack) - 1 : Rest[k] = stack[k]
  BY RestFacts
<1>3. /\ Done(Rest, n) \in Seq(FrameType) /\ Len(Done(Rest, n)) = Len(Rest)
      /\ \A k \in 1 .. Len(Rest) :
           /\ Done(Rest, n)[k].dir = Rest[k].dir /\ Done(Rest, n)[k].path = Rest[k].path
           /\ Done(Rest, n)[k].seen = Rest[k].seen
           /\ Done(Rest, n)[k].todo = IF k = Len(Rest) THEN Rest[k].todo \ {n} ELSE Rest[k].todo
  BY <1>2, DoneFacts
<1> QED BY <1>1, <1>2, <1>3

LEMMA PushFacts ==
  ASSUME TypeInv, NEW f \in FrameType, NEW t, t = Append(stack, f)
  PROVE  /\ t \in Seq(FrameType) /\ Len(t) = Len(stack) + 1 /\ t[Len(t)] = f
         /\ \A k \in 1 .. Len(stack) : t[k] = stack[k]
BY DEF TypeInv

-----------------------------------------------------------------------------
(* A start begins, and stops. *)

LEMMA InitKeeps == Init => IInv
<1> SUFFICES ASSUME Init PROVE IInv
  OBVIOUS
<1>1. /\ entries = InitEntries /\ owner = InitOwner /\ mode = InitMode /\ before = InitMode
      /\ uid = Admin /\ state = NoState /\ pc = "idle" /\ mount = 1 /\ stack = <<>> /\ held = NoEntry
      /\ tree = [m \in Mounts |-> {}] /\ left = {} /\ late = {}
  BY DEF Init
<1>2. NoState \in [inode : Inode \cup {None}, owner : Uid, mode : Modes]
  BY NoStateFacts
<1>3. stack \in Seq(FrameType) /\ DOMAIN stack = {}
  BY <1>1
<1>4. TypeInv
  BY <1>1, <1>2, <1>3, NoEntryFacts, RootFacts, InodeAssumption, IdentityAssumption DEF TypeInv
<1>5. EntriesInv
  BY <1>1, MountAssumption DEF EntriesInv, Roots
<1>6. \A m \in Mounts : tree[m] = {}
  BY <1>1
<1>7. HeldInv /\ TreeInv /\ RootedInv /\ ModeInv /\ StackInv /\ FrameInv
  BY <1>1, <1>3, <1>6, NoEntryFacts DEF HeldInv, TreeInv, RootedInv, ModeInv, StackInv, FrameInv
<1> QED
  BY <1>1, <1>4, <1>5, <1>7 DEF IInv, FileInv, WalkInv, StateInv, HandInv, AccessInv, ReadInv, PlaceInv, SecludedInv

LEMMA StopKeeps == ASSUME IInv, Stop PROVE IInv'
<1>1. /\ pc' = "failed" /\ stack' = <<>> /\ held' = NoEntry /\ left' = {} /\ tree' = [m \in Mounts |-> {}]
      /\ late' = {} /\ before' = mode
      /\ entries' = entries /\ owner' = owner /\ mode' = mode /\ uid' = uid /\ state' = state /\ mount' = mount
  BY DEF Stop, disk
<1>3. stack' \in Seq(FrameType) /\ DOMAIN stack' = {}
  BY <1>1
<1>4. TypeInv'
  BY <1>1, <1>3, NoEntryFacts DEF TypeInv, IInv, FileInv
<1>5. EntriesInv'
  BY <1>1 DEF EntriesInv, IInv, FileInv
<1>6. \A m \in Mounts : tree'[m] = {}
  BY <1>1
<1>7. HeldInv' /\ TreeInv' /\ RootedInv' /\ ModeInv' /\ StackInv' /\ FrameInv'
  BY <1>1, <1>3, <1>6, NoEntryFacts DEF HeldInv, TreeInv, RootedInv, ModeInv, StackInv, FrameInv
<1> QED
  BY <1>1, <1>4, <1>5, <1>7 DEF IInv, FileInv, WalkInv, StateInv, HandInv, AccessInv, ReadInv, PlaceInv, SecludedInv

LEMMA EndKeeps == ASSUME IInv, End PROVE IInv'
<1>1. /\ pc \in {"done", "failed"} /\ pc' = "idle" /\ mount' = 1 /\ uid' = Admin /\ state' = NoState
      /\ entries' = entries /\ owner' = owner /\ mode' = mode
      /\ stack' = stack /\ held' = held /\ tree' = tree /\ left' = left /\ late' = late /\ before' = before
  BY DEF End, disk
<1>2. NoState \in [inode : Inode \cup {None}, owner : Uid, mode : Modes]
  BY NoStateFacts
<1>3. held.at = "none" /\ stack = <<>>
  BY <1>1 DEF IInv, WalkInv, HeldInv, StackInv
<1>4. TypeInv'
  BY <1>1, <1>2, RootFacts, IdentityAssumption DEF TypeInv, IInv, FileInv
<1>5. EntriesInv'
  BY <1>1 DEF EntriesInv, IInv, FileInv
<1>6. \A m \in Mounts : tree[m] = {}
  BY <1>1 DEF IInv, WalkInv, StackInv
<1>7. HeldInv' /\ TreeInv' /\ RootedInv' /\ ModeInv' /\ StackInv' /\ FrameInv'
  BY <1>1, <1>3, <1>6 DEF HeldInv, TreeInv, RootedInv, ModeInv, StackInv, FrameInv
<1> QED
  BY <1>1, <1>4, <1>5, <1>7
  DEF IInv, FileInv, WalkInv, StateInv, HandInv, AccessInv, ReadInv, PlaceInv, SecludedInv

(* A free directory is linked. *)
LEMMA MakeFacts ==
  ASSUME TypeInv, EntriesInv, NEW d \in Dirs, MountOf[d] = 1, NEW n \in Name, NEW i \in Free, Make(d, n, i)
  PROVE  /\ i \in Dirs \ (OtherDevice \cup Roots) /\ i \in Inode /\ MountOf[i] = 1
         /\ entries' \in [Dirs -> [Name -> Inode \cup {None}]]
         /\ \A c \in Dirs, o \in Name : entries'[c][o] = IF c = d /\ o = n THEN i ELSE entries[c][o]
         /\ \A c \in Dirs, o \in Name : entries[c][o] # i
         /\ \A o \in Name : entries[i][o] = None
         /\ owner' \in [Inode -> Uid] /\ mode' \in [Inode -> Modes] /\ mode'[i].owner
         /\ \A j \in Inode \ {i} : owner'[j] = owner[j] /\ mode'[j] = mode[j]
         /\ EntriesInv'
<1>1. /\ i \in Dirs \ (OtherDevice \cup Roots) /\ i \in Inode /\ i # None /\ MountOf[i] = 1
      /\ i \notin Linked /\ Listing(i) = {}
  BY KindFacts DEF Free, Roots
<1>2. /\ entries' = [entries EXCEPT ![d][n] = i]
      /\ owner' = [owner EXCEPT ![i] = Admin] /\ mode' = [mode EXCEPT ![i] = PrivateMode]
  BY DEF Make
<1>3. /\ entries' \in [Dirs -> [Name -> Inode \cup {None}]]
      /\ \A c \in Dirs, o \in Name : entries'[c][o] = IF c = d /\ o = n THEN i ELSE entries[c][o]
  BY <1>1, <1>2 DEF TypeInv
<1>4. \A c \in Dirs, o \in Name : entries[c][o] # i
  BY <1>1 DEF Linked
<1>5. \A o \in Name : entries[i][o] = None
  BY <1>1 DEF Listing
<1>6. /\ owner' \in [Inode -> Uid] /\ mode' \in [Inode -> Modes] /\ mode'[i].owner
      /\ \A j \in Inode \ {i} : owner'[j] = owner[j] /\ mode'[j] = mode[j]
  <2>1. PrivateMode \in Modes /\ PrivateMode.owner
    BY DEF PrivateMode, Modes
  <2> QED BY <1>1, <1>2, <2>1, IdentityAssumption DEF TypeInv
<1>7. EntriesInv'
  <2>1. ASSUME NEW c \in Dirs, NEW o \in Name, entries'[c][o] # None
        PROVE  MountOf[entries'[c][o]] = MountOf[c] /\ entries'[c][o] \notin Roots
    BY <1>1, <1>3, <2>1 DEF EntriesInv
  <2>2. ASSUME NEW c \in Dirs, NEW o \in Name, entries'[c][o] \in Dirs,
               NEW b \in Dirs, NEW q \in Name, entries'[b][q] = entries'[c][o]
        PROVE  b = c /\ q = o
    <3>1. CASE (c = d /\ o = n) \/ (b = d /\ q = n)
      BY <1>3, <1>4, <2>2, <3>1
    <3>2. CASE ~(c = d /\ o = n) /\ ~(b = d /\ q = n)
      <4>1. entries[c][o] \in Dirs /\ entries[b][q] = entries[c][o]
        BY <1>3, <2>2, <3>2
      <4> QED BY <4>1 DEF EntriesInv
    <3> QED BY <3>1, <3>2
  <2> QED BY <2>1, <2>2 DEF EntriesInv
<1> QED BY <1>1, <1>3, <1>4, <1>5, <1>6, <1>7

(* StateDir is opened, made or refused. *)
LEMMA BeginFacts ==
  ASSUME TypeInv, EntriesInv, Begin
  PROVE  /\ entries' \in [Dirs -> [Name -> Inode \cup {None}]] /\ owner' \in [Inode -> Uid]
         /\ mode' \in [Inode -> Modes] /\ EntriesInv'
         /\ \/ \E j \in Dirs \ Roots : MountOf[j] = 1 /\ Opened(j)
            \/ state' = NoState /\ pc' = "failed"
<1> DEFINE i == entries[Root[1]][StateName]
           Typed == /\ entries' \in [Dirs -> [Name -> Inode \cup {None}]] /\ owner' \in [Inode -> Uid]
                    /\ mode' \in [Inode -> Modes] /\ EntriesInv'
<1>1. Root[1] \in Dirs /\ MountOf[Root[1]] = 1 /\ StateName \in Name
  BY RootFacts, NameAssumption
<1>2. ASSUME UNCHANGED disk PROVE Typed
  BY <1>2 DEF disk, TypeInv, EntriesInv
<1>3. CASE i \in Dirs /\ UNCHANGED disk /\ Opened(i)
  <2>1. i \notin Roots /\ MountOf[i] = 1
    BY <1>1, <1>3, KindFacts DEF EntriesInv
  <2> QED BY <1>2, <1>3, <2>1
<1>4. CASE \E j \in Free : Make(Root[1], StateName, j) /\ Opened(j)
  <2>1. PICK j \in Free : Make(Root[1], StateName, j) /\ Opened(j)
    BY <1>4
  <2>2. Typed /\ j \in Dirs \ Roots /\ MountOf[j] = 1
    BY <1>1, <2>1, MakeFacts
  <2> QED BY <2>1, <2>2
<1>5. CASE UNCHANGED disk /\ state' = NoState /\ pc' = "failed"
  BY <1>2, <1>5
<1>6. \/ i \in Dirs /\ UNCHANGED disk /\ Opened(i)
      \/ \E j \in Free : Make(Root[1], StateName, j) /\ Opened(j)
      \/ UNCHANGED disk /\ state' = NoState /\ pc' = "failed"
  BY DEF Begin
<1> QED BY <1>3, <1>4, <1>5, <1>6

LEMMA BeginKeeps == ASSUME IInv, Begin PROVE IInv'
<1>1. /\ uid' \in Uid /\ mount' = 1 /\ stack' = <<>> /\ held' = NoEntry /\ left' = Private
      /\ tree' = [m \in Mounts |-> {}] /\ late' = {} /\ before' = mode'
  BY DEF Begin
<1>2. /\ entries' \in [Dirs -> [Name -> Inode \cup {None}]] /\ owner' \in [Inode -> Uid]
      /\ mode' \in [Inode -> Modes] /\ EntriesInv'
      /\ \/ \E j \in Dirs \ Roots : MountOf[j] = 1 /\ Opened(j)
         \/ state' = NoState /\ pc' = "failed"
  BY BeginFacts DEF IInv, FileInv
<1>3. stack' \in Seq(FrameType) /\ DOMAIN stack' = {} /\ held'.at = "none"
  BY <1>1, NoEntryFacts
<1>4. \/ /\ state'.inode \in Dirs \ Roots /\ MountOf[state'.inode] = 1 /\ state'.mode = mode'[state'.inode]
         /\ pc' \in {"private", "migrate"} /\ (pc' = "private" => uid' = Admin)
         /\ state' \in [inode : Inode \cup {None}, owner : Uid, mode : Modes]
      \/ pc' = "failed" /\ state' \in [inode : Inode \cup {None}, owner : Uid, mode : Modes]
  <2>1. ASSUME NEW j \in Dirs \ Roots, MountOf[j] = 1, Opened(j)
        PROVE  /\ state'.inode \in Dirs \ Roots /\ MountOf[state'.inode] = 1 /\ state'.mode = mode'[state'.inode]
               /\ pc' \in {"private", "migrate"} /\ (pc' = "private" => uid' = Admin)
               /\ state' \in [inode : Inode \cup {None}, owner : Uid, mode : Modes]
    BY <1>2, <2>1, KindFacts DEF Opened
  <2> QED BY <1>2, <2>1, NoStateFacts
<1>5. TypeInv'
  <2>1. left' \in SUBSET Name
    BY <1>1, NameAssumption
  <2> QED BY <1>1, <1>2, <1>3, <1>4, <2>1, NoEntryFacts, RootFacts DEF TypeInv
<1>6. \A m \in Mounts : tree'[m] = {}
  BY <1>1
<1>7. RootedInv'
  BY <1>1, <1>3, <1>4, RootFacts DEF RootedInv
<1>8. HeldInv' /\ TreeInv' /\ ModeInv' /\ StackInv' /\ FrameInv'
  BY <1>1, <1>3, <1>4, <1>6 DEF HeldInv, TreeInv, ModeInv, StackInv, FrameInv
<1>9. \A j \in Inode : AsFound(mode[j], j)'
  BY <1>1 DEF AsFound, SameAccess
<1>10. SecludedInv'
  <2> SUFFICES ASSUME pc' = "private" PROVE \E X \in SUBSET Dirs : Secluded(X)'
    BY <1>4 DEF SecludedInv
  <2>1. state'.inode \in Dirs \ Roots /\ MountOf[state'.inode] = 1
    BY <1>4
  <2>2. Secluded({state.inode})'
    BY <1>9, <2>1 DEF Secluded
  <2> QED BY <2>1, <2>2
<1>11. AccessInv' /\ ReadInv'
  BY <1>3, <1>4, <1>9 DEF AccessInv, ReadInv
<1> QED
  BY <1>1, <1>2, <1>4, <1>5, <1>7, <1>8, <1>10, <1>11
  DEF IInv, FileInv, WalkInv, StateInv, HandInv, PlaceInv

-----------------------------------------------------------------------------
(* The migration *)

LEMMA IInvParts ==
  ASSUME IInv
  PROVE  /\ TypeInv /\ EntriesInv /\ StateInv /\ HeldInv /\ TreeInv /\ RootedInv /\ ModeInv /\ StackInv /\ FrameInv
         /\ HandInv /\ AccessInv /\ ReadInv /\ PlaceInv /\ SecludedInv
BY DEF IInv, FileInv, WalkInv

(* An entry is opened that is in order: it is in the mount, below what was migrated. *)
LEMMA OpenKeeps ==
  ASSUME IInv, NEW path \in Seq(Name), NEW i \in Inode \ OtherDevice,
         pc = "migrate", held = NoEntry, held' \in HeldType,
         held'.at = "chown", held'.inode = i, held'.path = path, held'.target = Target(i, path),
         held'.mode = mode[i] \/ (i = state.inode /\ path = <<StateName>> /\ mount = 1 /\ held'.mode = state.mode),
         tree' = [tree EXCEPT ![mount] = @ \cup {<<path, i>>}],
         UNCHANGED <<disk, pc, mount, stack, left>>, Same,
         MountOf[i] = mount, path # <<>> => i \notin Roots /\ stack # <<>>, path = <<>> => i = Root[mount],
         mount = 1 /\ path = <<StateName>> => i = state.inode,
         Founded(mount, path)
  PROVE  IInv'
<1>1. /\ entries' = entries /\ owner' = owner /\ mode' = mode /\ pc' = pc /\ mount' = mount /\ stack' = stack
      /\ left' = left /\ uid' = uid /\ state' = state /\ late' = late /\ before' = before
  BY DEF disk, Same
<1>2. TypeInv /\ EntriesInv /\ StateInv /\ HeldInv /\ TreeInv /\ RootedInv /\ ModeInv /\ StackInv /\ AccessInv
      /\ ReadInv
  BY IInvParts
<1>3. held.at = "none"
  BY NoEntryFacts
<1>4. tree \in [Mounts -> SUBSET (Seq(Name) \X Inode)] /\ mount \in Mounts
  BY <1>2 DEF TypeInv
<1>5. /\ tree' \in [Mounts -> SUBSET (Seq(Name) \X Inode)]
      /\ tree'[mount] = tree[mount] \cup {<<path, i>>}
      /\ \A m \in Mounts : m # mount => tree'[m] = tree[m]
  BY <1>4
<1>6. \A m \in Mounts : tree[m] \subseteq tree'[m]
  BY <1>5
<1>7. TypeInv'
  BY <1>1, <1>2, <1>5 DEF TypeInv
<1>8. EntriesInv' /\ StateInv'
  BY <1>1, <1>2 DEF EntriesInv, StateInv
<1>9. HeldInv'
  <2>1. Kind[i] # "link" => Target(i, path).owner
    BY <1>2, TargetFacts DEF TypeInv
  <2>2. stack = <<>> => i \in Roots
    BY <1>4, RootFacts
  <2> QED BY <1>1, <1>5, <2>1, <2>2 DEF HeldInv
<1>10. TreeInv'
  <2> SUFFICES ASSUME NEW m \in Mounts, NEW e \in tree'[m]
               PROVE  /\ MountOf[e[2]] = m
                      /\ e[1] # <<>> => e[2] \notin Roots
                      /\ m = 1 /\ e[1] = <<StateName>> => e[2] = state.inode
                      /\ Founded(m, e[1])'
    BY <1>1 DEF TreeInv
  <2>1. ASSUME NEW p, Founded(m, p) PROVE Founded(m, p)'
    BY <1>6, <2>1 DEF Founded
  <2>2. CASE e \in tree[m]
    BY <1>2, <2>1, <2>2 DEF TreeInv
  <2>3. CASE m = mount /\ e = <<path, i>>
    <3>1. e[1] = path /\ e[2] = i
      BY <2>3
    <3>2. Founded(m, path)'
      BY <2>1, <2>3
    <3> QED BY <2>3, <3>1, <3>2
  <2> QED BY <1>5, <2>2, <2>3
<1>11. RootedInv'
  BY <1>1, <1>2, <1>5, <1>6 DEF RootedInv
<1>12. ModeInv'
  BY <1>1, <1>2, <1>3, <1>5 DEF ModeInv
<1>13. StackInv'
  BY <1>1, <1>2, <1>4, <1>6 DEF StackInv
<1>14. FrameInv' /\ HandInv' /\ PlaceInv' /\ SecludedInv'
  BY <1>1 DEF FrameInv, HandInv, PlaceInv, SecludedInv
<1>15. AccessInv'
  <2>1. Withheld \subseteq Withheld'
    BY <1>6, RootFacts DEF Withheld
  <2>2. \A j \in Inode : AsFound(mode[j], j) \/ j \in Withheld
    BY <1>2, <1>3 DEF AccessInv
  <2>3. AsFound(Target(i, path), i) \/ i \in Withheld'
    <3>1. CASE SameAccess(Target(i, path), mode[i])
      <4>1. AsFound(mode[i], i) => AsFound(Target(i, path), i)
        BY <3>1 DEF AsFound, SameAccess
      <4> QED BY <2>1, <2>2, <4>1
    <3>2. CASE Kind[i] = "dir" /\ mount = 1 /\ path # <<>> /\ path[1] = StateName
      <4> DEFINE e == <<path, i>>
      <4>1. e \in tree'[1] /\ e[1] = path /\ e[2] = i
        BY <1>5, <3>2
      <4>2. i \in Dirs
        BY <3>2, KindFacts
      <4> QED BY <3>2, <4>1, <4>2 DEF Withheld
    <3> QED BY <1>2, <3>1, <3>2, TargetFacts DEF TypeInv
  <2>4. \A j \in Inode : AsFound(mode[j], j)' <=> AsFound(mode[j], j)
    BY <1>1 DEF AsFound
  <2>5. AsFound(held.target, held.inode)' <=> AsFound(Target(i, path), i)
    BY <1>1 DEF AsFound
  <2> QED BY <1>1, <2>1, <2>2, <2>3, <2>4, <2>5 DEF AccessInv, AsFound
<1>16. ReadInv'
  <2>1. state.mode.owner /\ before[state.inode] # None => mode[state.inode].owner
    BY <1>2 DEF ReadInv
  <2>2. CASE held'.mode = mode[i]
    <3>1. SameAccess(held'.mode, mode[i])
      BY <2>2 DEF SameAccess
    <3> QED BY <1>1, <2>1, <2>2, <3>1 DEF ReadInv, SameAccess
  <2>3. CASE i = state.inode /\ path = <<StateName>> /\ mount = 1 /\ held'.mode = state.mode
    <3> DEFINE e == <<path, i>>
    <3>1. e \in tree'[1] /\ e[2] = i /\ e[1] # <<>> /\ e[1][1] = StateName
      BY <1>5, <2>3
    <3>2. i \in Withheld'
      BY <1>2, <2>3, <3>1 DEF Withheld, StateInv
    <3> QED BY <1>1, <2>1, <2>3, <3>2 DEF ReadInv
  <2> QED BY <2>2, <2>3
<1> QED
  BY <1>7, <1>8, <1>9, <1>10, <1>11, <1>12, <1>13, <1>14, <1>15, <1>16 DEF IInv, FileInv, WalkInv

LEMMA OpenRootKeeps == ASSUME IInv, OpenRoot PROVE IInv'
<1>1. /\ pc = "migrate" /\ stack = <<>> /\ held = NoEntry
      /\ held' = [Hold(Root[mount], <<>>) EXCEPT !.at = "chown"]
      /\ tree' = [tree EXCEPT ![mount] = {<<<<>>, Root[mount]>>}] /\ tree[mount] = {}
      /\ UNCHANGED <<disk, pc, mount, stack, left>> /\ Same
  BY DEF OpenRoot
<1>2. TypeInv /\ mount \in Mounts
  BY IInvParts DEF TypeInv
<1>3. Root[mount] \in Inode \ OtherDevice /\ MountOf[Root[mount]] = mount
  BY <1>2, RootFacts, KindFacts
<1>4. <<>> \in Seq(Name) /\ Len(<<>>) = 0
  OBVIOUS
<1>5. held' = Hold(Root[mount], <<>>)
  BY <1>1 DEF Hold
<1>6. /\ held' \in HeldType /\ held'.inode = Root[mount] /\ held'.path = <<>> /\ held'.at = "chown"
      /\ held'.target = Target(Root[mount], <<>>) /\ held'.mode = mode[Root[mount]]
  <2>1. PICK r \in Inode : r = Root[mount]
    BY <1>3
  <2>2. PICK none \in Seq(Name) : none = <<>>
    BY <1>4
  <2>3. /\ Hold(r, none) \in HeldType
        /\ Hold(r, none).inode = r /\ Hold(r, none).path = none /\ Hold(r, none).at = "chown"
        /\ Hold(r, none).target = Target(r, none) /\ Hold(r, none).mode = mode[r]
    BY <1>2, HoldFacts
  <2> QED BY <1>5, <2>1, <2>2, <2>3, Zenon
<1>7. tree' = [tree EXCEPT ![mount] = @ \cup {<<<<>>, Root[mount]>>}]
  BY <1>1
<1>8. Founded(mount, <<>>)
  BY DEF Founded
<1> QED BY <1>1, <1>3, <1>4, <1>6, <1>7, <1>8, OpenKeeps

LEMMA AppendFacts ==
  ASSUME NEW p \in Seq(Name), NEW n \in Name
  PROVE  /\ Append(p, n) \in Seq(Name) /\ Append(p, n) # <<>> /\ Len(Append(p, n)) = Len(p) + 1
         /\ Append(p, n)[Len(p) + 1] = n /\ \A j \in 1 .. Len(p) : Append(p, n)[j] = p[j]
         /\ \A j \in 1 .. Len(p) : SubSeq(Append(p, n), 1, j) = SubSeq(p, 1, j)
         /\ SubSeq(Append(p, n), 1, Len(p)) = p /\ Parent(Append(p, n)) = p
         /\ Append(p, n) = <<n>> => p = <<>>
<1>1. /\ Append(p, n) \in Seq(Name) /\ Append(p, n) # <<>> /\ Len(Append(p, n)) = Len(p) + 1
      /\ Append(p, n)[Len(p) + 1] = n /\ \A j \in 1 .. Len(p) : Append(p, n)[j] = p[j]
  OBVIOUS
<1> DEFINE q == Append(p, n)
<1> HIDE DEF q
<1>2. ASSUME NEW j \in 0 .. Len(p) PROVE SubSeq(q, 1, j) = SubSeq(p, 1, j)
  <2>1. /\ \A k \in 1 .. j : q[k] = p[k] /\ p[k] \in Name
        /\ 1 \in Int /\ j \in Int
    BY <1>1 DEF q
  <2>2. SubSeq(q, 1, j) \in Seq(Name) /\ SubSeq(p, 1, j) \in Seq(Name)
    BY <2>1, SubSeqProperties
  <2>3. Len(SubSeq(q, 1, j)) = Len(SubSeq(p, 1, j)) /\ Len(SubSeq(p, 1, j)) = j
    <3>1. Len(SubSeq(q, 1, j)) = IF 1 <= j THEN j - 1 + 1 ELSE 0
      BY <2>1, SubSeqProperties
    <3>2. Len(SubSeq(p, 1, j)) = IF 1 <= j THEN j - 1 + 1 ELSE 0
      BY <2>1, SubSeqProperties
    <3> QED BY <3>1, <3>2
  <2>4. \A k \in 1 .. j : SubSeq(q, 1, j)[k] = SubSeq(p, 1, j)[k]
    <3>1. \A k \in 1 .. j - 1 + 1 : SubSeq(q, 1, j)[k] = q[1 + k - 1]
      BY <2>1, SubSeqProperties
    <3>2. \A k \in 1 .. j - 1 + 1 : SubSeq(p, 1, j)[k] = p[1 + k - 1]
      BY <2>1, SubSeqProperties
    <3> QED BY <2>1, <3>1, <3>2
  <2> QED BY <2>2, <2>3, <2>4, SeqEqual
<1>3. SubSeq(p, 1, Len(p)) = p
  BY SubSeqFull
<1>4. Parent(q) = p
  BY <1>1, <1>2, <1>3 DEF Parent, q
<1>5. q = <<n>> => p = <<>>
  BY <1>1 DEF q
<1> QED BY <1>1, <1>2, <1>3, <1>4, <1>5 DEF q

LEMMA OpenEntryKeeps == ASSUME IInv, OpenEntry PROVE IInv'
<1> DEFINE n == Next1(Top.todo)
           path == Append(Top.path, n)
           i == entries[Top.dir][n]
<1>1. /\ pc = "migrate" /\ stack # <<>> /\ held = NoEntry /\ Top.todo # {}
      /\ Openable(n) /\ held' = Found(n, path)
      /\ tree' = [tree EXCEPT ![mount] = @ \cup {<<path, i>>}]
      /\ UNCHANGED <<disk, pc, mount, stack, left>> /\ Same
  BY DEF OpenEntry
<1>2. TypeInv /\ EntriesInv /\ StateInv /\ TreeInv /\ StackInv
  BY IInvParts
<1>3. mount \in Mounts /\ entries \in [Dirs -> [Name -> Inode \cup {None}]]
      /\ state \in [inode : Inode \cup {None}, owner : Uid, mode : Modes]
  BY <1>2 DEF TypeInv
<1>4. /\ Len(stack) \in Nat \ {0} /\ Top = stack[Len(stack)]
      /\ Top.dir \in Dirs /\ Top.path \in Seq(Name) /\ Top.todo \in SUBSET Name
  BY <1>1, <1>2, TopFacts
<1>5. n \in Name
  BY <1>1, <1>4, FirstName
<1>6. <<Top.path, Top.dir>> \in tree[mount]
  BY <1>2, <1>4 DEF StackInv
<1>7. MountOf[Top.dir] = mount /\ Founded(mount, Top.path)
  BY <1>2, <1>3, <1>6 DEF TreeInv
<1>8. i \in Inode \ OtherDevice /\ (Reserved(n) => i = state.inode)
  BY <1>1 DEF Openable, SameDevice
<1>9. MountOf[i] = mount /\ i \notin Roots
  BY <1>2, <1>4, <1>5, <1>7, <1>8, KindFacts DEF EntriesInv
<1>10. /\ path \in Seq(Name) /\ path # <<>> /\ Len(path) = Len(Top.path) + 1
       /\ \A j \in 1 .. Len(Top.path) : SubSeq(path, 1, j) = SubSeq(Top.path, 1, j)
       /\ SubSeq(path, 1, Len(Top.path)) = Top.path
       /\ path = <<n>> => Top.path = <<>>
       /\ path[Len(Top.path) + 1] = n
  BY <1>4, <1>5, AppendFacts
<1>11. mount = 1 /\ path = <<StateName>> => i = state.inode
  <2> SUFFICES ASSUME mount = 1, path = <<StateName>> PROVE Reserved(n)
    BY <1>8
  <2>1. Len(path) = 1 /\ path[1] = StateName
    OBVIOUS
  <2>2. Len(Top.path) = 0
    BY <1>4, <1>10, <2>1
  <2>3. n = StateName
    BY <1>10, <2>1, <2>2
  <2>4. Top.path = <<>>
    BY <1>4, <2>2
  <2> QED BY <2>3, <2>4 DEF Reserved
<1>12. Founded(mount, path)
  <2> SUFFICES ASSUME NEW j \in 1 .. Len(path) - 1
               PROVE  \E d \in Dirs : <<SubSeq(path, 1, j), d>> \in tree[mount]
    BY DEF Founded
  <2>1. Len(Top.path) \in Nat /\ j \in 1 .. Len(Top.path)
    BY <1>4, <1>10
  <2>2. CASE j = Len(Top.path)
    BY <1>4, <1>6, <1>10, <2>2
  <2>3. CASE j \in 1 .. Len(Top.path) - 1
    BY <1>7, <1>10, <2>1, <2>3 DEF Founded
  <2>4. j = Len(Top.path) \/ j \in 1 .. Len(Top.path) - 1
    BY <2>1
  <2> QED BY <2>2, <2>3, <2>4, Zenon
<1>13. /\ held' \in HeldType /\ held'.inode = i /\ held'.path = path /\ held'.at = "chown"
       /\ held'.target = Target(i, path)
       /\ held'.mode = mode[i] \/ (Reserved(n) /\ held'.mode = state.mode)
  <2> HIDE DEF i, path, n
  <2>1. /\ Hold(i, path) \in HeldType
        /\ Hold(i, path).inode = i /\ Hold(i, path).path = path /\ Hold(i, path).at = "chown"
        /\ Hold(i, path).target = Target(i, path) /\ Hold(i, path).mode = mode[i]
    BY <1>2, <1>8, <1>10, HoldFacts
  <2>2. CASE Reserved(n)
    <3> DEFINE h == Hold(i, path)
               g == [h EXCEPT !.owner = state.owner, !.mode = state.mode]
    <3>1. held' = g
      BY <1>1, <1>8, <2>2 DEF Found, path
    <3> HIDE DEF h
    <3>2. state.owner \in Uid /\ state.mode \in Modes /\ h \in HeldType
      BY <1>3, <2>1 DEF h
    <3>3. g \in HeldType /\ g.inode = h.inode /\ g.path = h.path /\ g.at = h.at /\ g.target = h.target /\ g.mode = state.mode
      BY <3>2 DEF HeldType
    <3> HIDE DEF g
    <3> QED BY <2>1, <2>2, <3>1, <3>3, Zenon DEF h
  <2>3. CASE ~Reserved(n)
    BY <1>1, <2>1, <2>3 DEF Found, path, i
  <2> QED BY <2>2, <2>3
<1>14. Reserved(n) => i = state.inode /\ path = <<StateName>> /\ mount = 1
  <2> SUFFICES ASSUME Reserved(n) PROVE path = <<StateName>>
    BY <1>8 DEF Reserved
  <2>1. Top.path = <<>> /\ n = StateName
    BY DEF Reserved
  <2> QED BY <2>1
<1> HIDE DEF i, path, n
<1>15. held'.mode = mode[i] \/ (i = state.inode /\ path = <<StateName>> /\ mount = 1 /\ held'.mode = state.mode)
  BY <1>13, <1>14
<1> QED BY <1>1, <1>8, <1>9, <1>10, <1>11, <1>12, <1>13, <1>15, OpenKeeps

(* What is held is repaired: its owner, then its mode. *)
LEMMA ChownKeeps == ASSUME IInv, Chown PROVE IInv'
<1>1. /\ held.at = "chown" /\ GiveOwner
      /\ held' = [held EXCEPT !.at = "chmod", !.mode = IF held.owner = uid THEN @ ELSE mode'[held.inode]]
      /\ pc' = pc /\ mount' = mount /\ stack' = stack /\ tree' = tree /\ left' = left
      /\ uid' = uid /\ state' = state /\ late' = late /\ before' = before
  BY DEF Chown, Same
<1>2. TypeInv /\ EntriesInv /\ StateInv /\ HeldInv /\ TreeInv /\ RootedInv /\ ModeInv /\ StackInv /\ AccessInv
      /\ ReadInv
  BY IInvParts
<1>3. held \in HeldType /\ held.inode \in Inode /\ pc = "migrate" /\ mode \in [Inode -> Modes] /\ uid \in Uid
  BY <1>1, <1>2 DEF TypeInv, HeldInv
<1>5. \/ mode' = mode
      \/ held.owner # uid /\ Kind[held.inode] = "file" /\ mode' = [mode EXCEPT ![held.inode].setid = FALSE]
  BY <1>1 DEF GiveOwner, disk
<1>6. entries' = entries /\ (owner' = owner \/ owner' = [owner EXCEPT ![held.inode] = uid])
  BY <1>1 DEF GiveOwner, disk
<1>7. /\ mode' \in [Inode -> Modes] /\ \A i \in Inode : mode'[i].owner <=> mode[i].owner
      /\ \A i \in Inode : i # held.inode \/ Kind[i] # "file" => mode'[i] = mode[i]
  <2> DEFINE other == [mode[held.inode] EXCEPT !.setid = FALSE]
  <2>1. other \in Modes /\ (other.owner <=> mode[held.inode].owner)
    BY <1>3 DEF Modes
  <2>2. mode' = mode \/ (Kind[held.inode] = "file" /\ mode' = [mode EXCEPT ![held.inode] = other])
    BY <1>5, Zenon
  <2> HIDE DEF other
  <2> QED BY <1>3, <2>1, <2>2
<1>15. held.owner = uid => mode' = mode
  BY <1>1 DEF GiveOwner, disk
<1>4. /\ held' \in HeldType /\ held'.at = "chmod" /\ held'.inode = held.inode /\ held'.path = held.path
      /\ held'.target = held.target
      /\ held'.mode = mode'[held.inode] \/ (held'.mode = held.mode /\ mode' = mode)
  <2> DEFINE read == IF held.owner = uid THEN held.mode ELSE mode'[held.inode]
  <2>1. read \in Modes /\ (read = mode'[held.inode] \/ (read = held.mode /\ mode' = mode))
    BY <1>3, <1>7, <1>15 DEF HeldType
  <2>2. held' = [held EXCEPT !.at = "chmod", !.mode = read]
    BY <1>1, <1>3 DEF HeldType
  <2> HIDE DEF read
  <2> QED BY <1>3, <2>1, <2>2 DEF HeldType
<1>8. TypeInv'
  <2>1. owner' \in [Inode -> Uid]
    BY <1>2, <1>3, <1>6 DEF TypeInv
  <2> QED BY <1>1, <1>2, <1>4, <1>6, <1>7, <2>1 DEF TypeInv
<1>9. EntriesInv' /\ StateInv'
  BY <1>1, <1>2, <1>6 DEF EntriesInv, StateInv
<1>14. HeldInv'
  BY <1>1, <1>2, <1>4, Zenon DEF HeldInv
<1>10. TreeInv' /\ RootedInv' /\ StackInv'
  BY <1>1, <1>2, <1>4 DEF TreeInv, Founded, RootedInv, StackInv
<1>11. ModeInv'
  <2>1. \A m \in Mounts : \A e \in tree[m] : e[2] \in Inode
    BY <1>2 DEF TypeInv
  <2> QED BY <1>1, <1>2, <1>4, <1>7, <2>1 DEF ModeInv
<1>16. Withheld' = Withheld
  BY <1>1 DEF Withheld
<1>12. AccessInv'
  <2>1. ASSUME NEW i \in Inode
        PROVE  AsFound(mode[i], i)' \/ i \in Withheld \/ (held.inode = i /\ Kind[i] = "file")
    <3>1. CASE mode'[i] = mode[i]
      BY <1>1, <1>2, <1>3, <3>1 DEF AccessInv, AsFound
    <3> QED BY <1>7, <3>1
  <2>2. AsFound(held.target, held.inode)' \/ held.inode \in Withheld
    BY <1>1, <1>2, <1>3, <1>4 DEF AccessInv, AsFound
  <2> QED BY <1>4, <1>16, <2>1, <2>2 DEF AccessInv
<1>17. ReadInv'
  <2>1. state.inode \in Inode
    BY <1>2, <1>3, KindFacts DEF StateInv
  <2>2. before[state.inode] # None /\ state.mode.owner => mode'[state.inode].owner
    BY <1>2, <1>3, <1>7, <2>1 DEF ReadInv
  <2>3. CASE held'.mode = mode'[held.inode]
    BY <1>1, <1>4, <2>2, <2>3 DEF ReadInv, SameAccess
  <2>4. CASE held'.mode = held.mode /\ mode' = mode
    BY <1>1, <1>2, <1>3, <1>4, <1>16, <2>2, <2>4 DEF ReadInv
  <2> QED BY <1>4, <2>3, <2>4
<1>13. FrameInv' /\ HandInv' /\ PlaceInv' /\ SecludedInv'
  BY <1>1, <1>3 DEF FrameInv, HandInv, PlaceInv, SecludedInv
<1> QED BY <1>8, <1>9, <1>10, <1>11, <1>12, <1>13, <1>14, <1>17 DEF IInv, FileInv, WalkInv

(* A mode that is not set was last read as it should be. *)
LEMMA ChmodKeeps == ASSUME IInv, Chmod PROVE IInv'
<1>1. /\ held.at = "chmod" /\ held' = [held EXCEPT !.at = "check"]
      /\ entries' = entries /\ owner' = owner
      /\ pc' = pc /\ mount' = mount /\ stack' = stack /\ tree' = tree /\ left' = left
      /\ uid' = uid /\ state' = state /\ late' = late /\ before' = before
  BY DEF Chmod, Same
<1>2. TypeInv /\ EntriesInv /\ StateInv /\ HeldInv /\ TreeInv /\ RootedInv /\ ModeInv /\ StackInv /\ AccessInv
      /\ ReadInv
  BY IInvParts
<1>3. held \in HeldType /\ held.inode \in Inode /\ pc = "migrate" /\ mode \in [Inode -> Modes] /\ held.target \in Modes
      /\ (Kind[held.inode] # "link" => held.target.owner)
  BY <1>1, <1>2 DEF TypeInv, HeldInv, HeldType
<1>4. /\ held' \in HeldType /\ held'.at = "check" /\ held'.inode = held.inode /\ held'.path = held.path
      /\ held'.target = held.target
  BY <1>1, <1>3 DEF HeldType
<1>5. /\ mode' \in [Inode -> Modes] /\ \A i \in Inode : i # held.inode => mode'[i] = mode[i]
      /\ \/ mode'[held.inode] = held.target
         \/ mode'[held.inode] = mode[held.inode] /\ (Kind[held.inode] = "link" \/ held.mode = held.target)
  BY <1>3 DEF Chmod
<1>6. TypeInv'
  BY <1>1, <1>2, <1>4, <1>5 DEF TypeInv
<1>7. EntriesInv' /\ StateInv'
  BY <1>1, <1>2 DEF EntriesInv, StateInv
<1>14. HeldInv'
  BY <1>1, <1>2, <1>4, Zenon DEF HeldInv
<1>8. TreeInv' /\ RootedInv' /\ StackInv'
  BY <1>1, <1>2, <1>4 DEF TreeInv, Founded, RootedInv, StackInv
<1>12. Kind[held.inode] # "link" /\ before[held.inode] # None => mode'[held.inode].owner
  BY <1>1, <1>2, <1>3, <1>5 DEF ReadInv
<1>9. ModeInv'
  <2>1. \A m \in Mounts : \A e \in tree[m] : e[2] \in Inode
    BY <1>2 DEF TypeInv
  <2> QED BY <1>1, <1>2, <1>5, <1>12, <2>1 DEF ModeInv
<1>10. AccessInv'
  <2>1. Withheld' = Withheld
    BY <1>1 DEF Withheld
  <2>2. ASSUME NEW i \in Inode, i # held.inode PROVE AsFound(mode[i], i)' \/ i \in Withheld
    BY <1>1, <1>2, <1>3, <1>5, <2>2 DEF AccessInv, AsFound
  <2>3. AsFound(held.target, held.inode) \/ held.inode \in Withheld
    BY <1>1, <1>2, <1>3 DEF AccessInv
  <2>4. before[held.inode] # None => SameAccess(mode'[held.inode], before[held.inode]) \/ held.inode \in Withheld
    <3>1. CASE mode'[held.inode] = held.target
      BY <2>3, <3>1 DEF AsFound
    <3>2. CASE mode'[held.inode] = mode[held.inode] /\ Kind[held.inode] = "link"
      BY <1>1, <1>2, <1>3, <3>2 DEF AccessInv, AsFound
    <3>3. CASE mode'[held.inode] = mode[held.inode] /\ held.mode = held.target
      BY <1>1, <1>2, <1>3, <2>3, <3>3 DEF ReadInv, AsFound, SameAccess
    <3> QED BY <1>5, <3>1, <3>2, <3>3
  <2>5. ASSUME NEW i \in Inode PROVE AsFound(mode[i], i)' \/ i \in Withheld
    BY <1>1, <2>2, <2>4 DEF AsFound
  <2> QED BY <1>4, <2>1, <2>5 DEF AccessInv
<1>13. ReadInv'
  <2>1. state.inode \in Inode /\ Kind[state.inode] # "link"
    BY <1>2, <1>3, KindFacts DEF StateInv
  <2> QED BY <1>1, <1>2, <1>3, <1>4, <1>5, <1>12, <2>1 DEF ReadInv
<1>11. FrameInv' /\ HandInv' /\ PlaceInv' /\ SecludedInv'
  BY <1>1, <1>3 DEF FrameInv, HandInv, PlaceInv, SecludedInv
<1> QED BY <1>6, <1>7, <1>8, <1>9, <1>10, <1>11, <1>13, <1>14 DEF IInv, FileInv, WalkInv

(* A directory is put on the stack, or its name is done, or it is left. *)
LEMMA EnterKeeps == ASSUME IInv, Enter PROVE IInv'
<1> DEFINE f == Frame(held.inode, held.path)
<1>1. /\ held.at = "check" /\ Kind[held.inode] = "dir"
      /\ stack' = Append(stack, f) /\ held' = NoEntry
      /\ entries' = entries /\ owner' = owner /\ mode' = mode
      /\ pc' = pc /\ mount' = mount /\ tree' = tree /\ left' = left
      /\ uid' = uid /\ state' = state /\ late' = late /\ before' = before
  BY DEF Enter, disk, Same
<1>2. TypeInv /\ EntriesInv /\ StateInv /\ HeldInv /\ TreeInv /\ RootedInv /\ ModeInv /\ StackInv /\ AccessInv
  BY IInvParts
<1>3. /\ held \in HeldType /\ held.inode \in Dirs /\ held.path \in Seq(Name) /\ pc = "migrate"
      /\ <<held.path, held.inode>> \in tree[mount]
  BY <1>1, <1>2, KindFacts DEF TypeInv, HeldInv, HeldType
<1>4. f \in FrameType /\ f.dir = held.inode /\ f.path = held.path
  BY <1>2, <1>3, FrameFacts
<1> HIDE DEF f
<1>5. /\ stack' \in Seq(FrameType) /\ Len(stack') = Len(stack) + 1 /\ stack'[Len(stack')] = f
      /\ \A k \in 1 .. Len(stack) : stack'[k] = stack[k]
  BY <1>1, <1>2, <1>4, PushFacts
<1>6. TypeInv'
  BY <1>1, <1>2, <1>5, NoEntryFacts DEF TypeInv
<1>7. EntriesInv' /\ StateInv'
  BY <1>1, <1>2 DEF EntriesInv, StateInv
<1>8. HeldInv' /\ TreeInv' /\ ModeInv'
  BY <1>1, <1>2, NoEntryFacts DEF HeldInv, TreeInv, Founded, ModeInv
<1>12. RootedInv'
  BY <1>1, <1>2, <1>3 DEF RootedInv
<1>9. StackInv'
  <2>1. Len(stack) \in Nat /\ DOMAIN stack' = 1 .. Len(stack) + 1 /\ DOMAIN stack = 1 .. Len(stack)
    BY <1>2, <1>5 DEF TypeInv
  <2>2. ASSUME NEW k \in DOMAIN stack' PROVE <<stack'[k].path, stack'[k].dir>> \in tree[mount]
    <3>1. CASE k = Len(stack')
      BY <1>3, <1>4, <1>5, <3>1
    <3>2. CASE k \in 1 .. Len(stack)
      BY <1>2, <1>5, <2>1, <3>2 DEF StackInv
    <3> QED BY <1>5, <2>1, <3>1, <3>2
  <2> QED BY <1>1, <1>3, <2>2 DEF StackInv
<1>13. ReadInv'
  BY <1>1, <1>3, IInvParts, NoEntryFacts DEF ReadInv
<1>10. AccessInv'
  <2>1. Withheld' = Withheld
    BY <1>1 DEF Withheld
  <2> QED BY <1>1, <1>2, <2>1, NoEntryFacts DEF AccessInv, AsFound
<1>11. FrameInv' /\ HandInv' /\ PlaceInv' /\ SecludedInv'
  BY <1>1, <1>3 DEF FrameInv, HandInv, PlaceInv, SecludedInv
<1> QED BY <1>6, <1>7, <1>8, <1>9, <1>10, <1>11, <1>12, <1>13 DEF IInv, FileInv, WalkInv

LEMMA RepairedKeeps == ASSUME IInv, Repaired PROVE IInv'
<1> DEFINE n == held.path[Len(held.path)]
<1>1. /\ held.at = "check" /\ Kind[held.inode] # "dir"
      /\ stack' = Done(stack, n) /\ held' = NoEntry
      /\ entries' = entries /\ owner' = owner /\ mode' = mode
      /\ pc' = pc /\ mount' = mount /\ tree' = tree /\ left' = left
      /\ uid' = uid /\ state' = state /\ late' = late /\ before' = before
  BY DEF Repaired, disk, Same
<1> HIDE DEF n
<1>2. TypeInv /\ EntriesInv /\ StateInv /\ HeldInv /\ TreeInv /\ RootedInv /\ ModeInv /\ StackInv /\ AccessInv
  BY IInvParts
<1>3. held \in HeldType /\ pc = "migrate" /\ mount \in Mounts /\ <<held.path, held.inode>> \in tree[mount]
  BY <1>1, <1>2 DEF TypeInv, HeldInv
<1>4. stack # <<>> /\ stack \in Seq(FrameType)
  BY <1>1, <1>2, RootFacts, KindFacts DEF HeldInv, TypeInv
<1>5. /\ stack' \in Seq(FrameType) /\ Len(stack') = Len(stack) /\ stack' # <<>>
      /\ \A k \in 1 .. Len(stack) :
           stack'[k].dir = stack[k].dir /\ stack'[k].path = stack[k].path
  <2>1. Done(stack, n) \in Seq(FrameType) /\ Len(Done(stack, n)) = Len(stack)
    BY <1>4, DoneFacts
  <2>2. Len(stack) \in Nat \ {0}
    BY <1>4
  <2>3. stack' # <<>>
    BY <1>1, <2>1, <2>2
  <2>5. /\ Done(stack, n) \in Seq(FrameType) /\ Len(Done(stack, n)) = Len(stack)
        /\ \A k \in 1 .. Len(stack) :
             /\ Done(stack, n)[k].dir = stack[k].dir /\ Done(stack, n)[k].path = stack[k].path
             /\ Done(stack, n)[k].seen = stack[k].seen
             /\ Done(stack, n)[k].todo = IF k = Len(stack) THEN stack[k].todo \ {n} ELSE stack[k].todo
    BY <1>4, DoneFacts, Zenon
  <2>4. \A k \in 1 .. Len(stack) :
          Done(stack, n)[k].dir = stack[k].dir /\ Done(stack, n)[k].path = stack[k].path
    BY <2>5
  <2> QED BY <1>1, <2>1, <2>3, <2>4
<1>6. TypeInv'
  BY <1>1, <1>2, <1>5, NoEntryFacts DEF TypeInv
<1>7. EntriesInv' /\ StateInv'
  BY <1>1, <1>2 DEF EntriesInv, StateInv
<1>14. HeldInv' /\ RootedInv' /\ ModeInv'
  BY <1>1, <1>2, NoEntryFacts DEF HeldInv, RootedInv, ModeInv
<1>8. TreeInv'
  BY <1>1, <1>2 DEF TreeInv, Founded
<1>9. StackInv'
  <2>1. DOMAIN stack = 1 .. Len(stack) /\ DOMAIN stack' = 1 .. Len(stack)
    BY <1>4, <1>5
  <2> QED BY <1>1, <1>2, <1>3, <1>5, <2>1 DEF StackInv
<1>13. ReadInv'
  BY <1>1, <1>3, IInvParts, NoEntryFacts DEF ReadInv
<1>10. AccessInv'
  <2>1. Withheld' = Withheld
    BY <1>1 DEF Withheld
  <2> QED BY <1>1, <1>2, <2>1, NoEntryFacts DEF AccessInv, AsFound
<1>11. FrameInv' /\ HandInv' /\ PlaceInv' /\ SecludedInv'
  BY <1>1, <1>3 DEF FrameInv, HandInv, PlaceInv, SecludedInv
<1> QED BY <1>6, <1>7, <1>8, <1>9, <1>10, <1>11, <1>13, <1>14 DEF IInv, FileInv, WalkInv

LEMMA LeaveKeeps == ASSUME IInv, Leave PROVE IInv'
<1> DEFINE n == Top.path[Len(Top.path)]
<1>1. /\ pc = "migrate" /\ stack # <<>> /\ held = NoEntry
      /\ entries' = entries /\ owner' = owner /\ mode' = mode
      /\ held' = held /\ tree' = tree /\ left' = left
      /\ uid' = uid /\ state' = state /\ late' = late /\ before' = before
  BY DEF Leave, disk, Same
<1>2. \/ Len(stack) > 1 /\ stack' = Done(Rest, n) /\ pc' = pc /\ mount' = mount
      \/ /\ Len(stack) <= 1 /\ stack' = <<>> /\ mount' = IF mount < Len(Root) THEN mount + 1 ELSE 1
         /\ pc' = IF mount < Len(Root) THEN "migrate" ELSE "verify"
  <2>1. Len(stack) \in Nat
    BY IInvParts DEF TypeInv
  <2> QED BY <2>1 DEF Leave
<1> HIDE DEF n
<1>3. TypeInv /\ EntriesInv /\ StateInv /\ HeldInv /\ TreeInv /\ RootedInv /\ ModeInv /\ StackInv /\ AccessInv
  BY IInvParts
<1>4. held.at = "none" /\ held'.at = "none"
  BY <1>1, NoEntryFacts
<1>5. EntriesInv' /\ StateInv'
  BY <1>1, <1>2, <1>3 DEF EntriesInv, StateInv
<1>6. HeldInv' /\ TreeInv' /\ ModeInv'
  BY <1>1, <1>3, <1>4 DEF HeldInv, TreeInv, Founded, ModeInv
<1>7. AccessInv'
  <2>1. Withheld' = Withheld
    BY <1>1 DEF Withheld
  <2> QED BY <1>1, <1>3, <1>4, <2>1 DEF AccessInv, AsFound
<1>11. ReadInv'
  BY <1>1, <1>4, IInvParts DEF ReadInv
<1>8. SecludedInv'
  BY <1>1, <1>2 DEF SecludedInv
<1>9. CASE Len(stack) > 1 /\ stack' = Done(Rest, n) /\ pc' = pc /\ mount' = mount
  <2>1. /\ stack' \in Seq(FrameType) /\ Len(stack') = Len(stack) - 1
        /\ \A k \in 1 .. Len(stack) - 1 : stack'[k].dir = stack[k].dir /\ stack'[k].path = stack[k].path
    BY <1>3, <1>9, PopFacts
  <2>2. Len(stack) \in Nat /\ DOMAIN stack = 1 .. Len(stack) /\ DOMAIN stack' = 1 .. Len(stack) - 1 /\ stack' # <<>>
    BY <1>3, <1>9, <2>1 DEF TypeInv
  <2>3. TypeInv'
    BY <1>1, <1>3, <1>9, <2>1 DEF TypeInv
  <2>4. RootedInv'
    BY <1>1, <1>3, <1>9 DEF RootedInv
  <2>5. StackInv'
    BY <1>1, <1>3, <1>9, <2>1, <2>2 DEF StackInv
  <2>6. FrameInv' /\ HandInv' /\ PlaceInv'
    BY <1>1, <1>9 DEF FrameInv, HandInv, PlaceInv
  <2> QED BY <1>5, <1>6, <1>7, <1>8, <1>11, <2>3, <2>4, <2>5, <2>6 DEF IInv, FileInv, WalkInv
<1>10. CASE /\ stack' = <<>> /\ mount' = IF mount < Len(Root) THEN mount + 1 ELSE 1
            /\ pc' = IF mount < Len(Root) THEN "migrate" ELSE "verify"
  <2>1. mount \in Mounts /\ mount' \in Mounts /\ mount \in 1 .. Len(Root)
    BY <1>3, <1>10, RootFacts DEF TypeInv
  <2>2. stack' \in Seq(FrameType) /\ DOMAIN stack' = {}
    BY <1>10
  <2>3. TypeInv'
    BY <1>1, <1>3, <1>10, <2>1, <2>2 DEF TypeInv
  <2>4. RootedInv'
    <3>1. \A m \in Mounts : m <= mount => <<<<>>, Root[m]>> \in tree[m]
      <4>1. \A m \in Mounts : m <= mount => m < mount \/ m = mount
        BY <2>1, RootFacts
      <4> QED BY <1>1, <1>3, <4>1 DEF RootedInv
    <3>2. \A m \in Mounts : m < mount' /\ pc' = "migrate" => m <= mount
      BY <1>10, <2>1, RootFacts
    <3>3. \A m \in Mounts : pc' = "verify" => m <= mount
      BY <1>10, <2>1, RootFacts
    <3> QED BY <1>1, <1>4, <1>10, <3>1, <3>2, <3>3 DEF RootedInv
  <2>5. StackInv'
    BY <1>10, <2>2 DEF StackInv
  <2>6. FrameInv'
    BY <2>2 DEF FrameInv
  <2>7. HandInv'
    <3>1. \A m \in Mounts : pc' = "verify" => ~Verifying(m)'
      BY <1>10, <2>1, RootFacts DEF Verifying
    <3>2. pc' = "verify" => Handed({})'
      BY <2>2, <3>1 DEF Handed
    <3> QED BY <1>10, <3>2 DEF HandInv
  <2>8. PlaceInv'
    BY <1>10, <2>1 DEF PlaceInv
  <2> QED BY <1>5, <1>6, <1>7, <1>8, <1>11, <2>3, <2>4, <2>5, <2>6, <2>7, <2>8 DEF IInv, FileInv, WalkInv
<1> QED BY <1>2, <1>9, <1>10

-----------------------------------------------------------------------------
(* The verification *)

(* Verifying changes nothing of the files and of what was migrated. *)
VerifyStep ==
  /\ pc = "verify" /\ pc' \in {"verify", "private"} /\ stack' \in Seq(FrameType) /\ mount' \in Mounts
  /\ entries' = entries /\ owner' = owner /\ mode' = mode /\ held' = held /\ tree' = tree /\ left' = left
  /\ uid' = uid /\ state' = state /\ late' = late /\ before' = before

LEMMA VerifyStepKeeps ==
  ASSUME IInv, VerifyStep
  PROVE  /\ held.at = "none" /\ held'.at = "none" /\ Withheld' = Withheld
         /\ TypeInv' /\ EntriesInv' /\ StateInv' /\ HeldInv' /\ TreeInv' /\ RootedInv' /\ ModeInv' /\ AccessInv'
         /\ ReadInv'
<1>1. TypeInv /\ EntriesInv /\ StateInv /\ HeldInv /\ TreeInv /\ RootedInv /\ ModeInv /\ AccessInv
  BY IInvParts
<1>2. held.at = "none" /\ held'.at = "none"
  BY <1>1 DEF VerifyStep, HeldInv
<1>3. Withheld' = Withheld
  BY DEF VerifyStep, Withheld
<1>4. TypeInv'
  BY <1>1 DEF VerifyStep, TypeInv
<1>8. HeldInv'
  BY <1>2 DEF HeldInv
<1>9. StateInv'
  BY <1>1 DEF VerifyStep, StateInv
<1>10. EntriesInv'
  BY <1>1 DEF VerifyStep, EntriesInv
<1>11. TreeInv'
  BY <1>1 DEF VerifyStep, TreeInv, Founded
<1>5. EntriesInv' /\ StateInv' /\ HeldInv' /\ TreeInv'
  BY <1>8, <1>9, <1>10, <1>11
<1>6. RootedInv' /\ ModeInv'
  BY <1>1, <1>2 DEF VerifyStep, RootedInv, ModeInv
<1>7. AccessInv' /\ ReadInv'
  BY <1>1, <1>2, <1>3 DEF VerifyStep, AccessInv, AsFound, ReadInv
<1> QED BY <1>2, <1>3, <1>4, <1>5, <1>6, <1>7

(* What a directory holds that can be verified *)
LEMMA VerifiableFacts ==
  ASSUME IInv, pc = "verify", NEW d \in Dirs, NEW path \in Seq(Name), Verifiable(d, path)
  PROVE  /\ \A n \in Name, i \in Inode : <<Append(path, n), i>> \in tree[mount] <=> entries[d][n] = i
         /\ \A e \in tree[mount] : Len(e[1]) = Len(path) + 1 /\ SubSeq(e[1], 1, Len(path)) = path =>
              \E n \in Listing(d) : e = <<Append(path, n), entries[d][n]>>
         /\ \A n \in Name : entries[d][n] # None => Good(entries[d][n])
<1>1. TypeInv /\ HeldInv /\ ModeInv
  BY IInvParts
<1>2. mount \in Mounts /\ entries[d] \in [Name -> Inode \cup {None}]
  BY <1>1 DEF TypeInv
<1> DEFINE here == {<<Append(path, n), entries[d][n]>> : n \in Listing(d)}
           below == {e \in tree[mount] : Len(e[1]) = Len(path) + 1 /\ SubSeq(e[1], 1, Len(path)) = path}
<1>3. here = below
  BY DEF Verifiable, Migrated
<1>4. ASSUME NEW e \in tree[mount], Len(e[1]) = Len(path) + 1, SubSeq(e[1], 1, Len(path)) = path
      PROVE  \E n \in Listing(d) : e = <<Append(path, n), entries[d][n]>>
  <2>1. e \in here
    BY <1>3, <1>4
  <2> QED BY <2>1
<1>5. ASSUME NEW n \in Name, NEW i \in Inode, <<Append(path, n), i>> \in tree[mount]
      PROVE  entries[d][n] = i
  <2> DEFINE e == <<Append(path, n), i>>
  <2>1. e[1] = Append(path, n) /\ Len(e[1]) = Len(path) + 1 /\ SubSeq(e[1], 1, Len(path)) = path
    BY AppendFacts
  <2>2. PICK o \in Listing(d) : e = <<Append(path, o), entries[d][o]>>
    BY <1>4, <1>5, <2>1
  <2>3. o \in Name /\ Append(path, o) = Append(path, n) /\ entries[d][o] = i
    BY <2>2 DEF Listing
  <2>4. o = n
    <3>1. Append(path, o)[Len(path) + 1] = o /\ Append(path, n)[Len(path) + 1] = n
      BY <2>3
    <3> QED BY <2>3, <3>1
  <2> QED BY <2>3, <2>4
<1>6. ASSUME NEW n \in Name, entries[d][n] # None
      PROVE  <<Append(path, n), entries[d][n]>> \in tree[mount] /\ Good(entries[d][n])
  <2>1. n \in Listing(d)
    BY <1>6 DEF Listing
  <2>2. <<Append(path, n), entries[d][n]>> \in here
    BY <2>1
  <2>3. <<Append(path, n), entries[d][n]>> \in tree[mount]
    BY <1>3, <2>2
  <2>4. owner[entries[d][n]] = uid
    BY <2>1 DEF Verifiable, Owned
  <2>5. Kind[entries[d][n]] # "link" /\ before[entries[d][n]] # None => mode[entries[d][n]].owner
    <3>1. held.at = "none"
      BY <1>1 DEF HeldInv
    <3> QED BY <1>1, <1>2, <2>3, <3>1 DEF ModeInv
  <2> QED BY <2>3, <2>4, <2>5 DEF Good
<1>7. ASSUME NEW n \in Name, NEW i \in Inode, entries[d][n] = i
      PROVE  <<Append(path, n), i>> \in tree[mount]
  BY <1>6, <1>7, KindFacts
<1> QED BY <1>4, <1>5, <1>6, <1>7

(* A directory that can be verified is put on the stack: the root, or one that
   the directory on top of it had. *)
LEMMA PushKeeps ==
  ASSUME IInv, VerifyStep, pc' = "verify", mount' = mount,
         NEW d \in Dirs, NEW path \in Seq(Name), Verifiable(d, path), stack' = Append(stack, Frame(d, path)),
         <<path, d>> \in tree[mount], MountOf[d] = mount,
         stack = <<>> => d = Root[mount] /\ Good(d),
         stack # <<>> => \E n \in Name : path = Append(Top.path, n) /\ d = Top.seen[n]
  PROVE  StackInv' /\ FrameInv' /\ HandInv'
<1> DEFINE f == Frame(d, path)
<1>1. TypeInv /\ StackInv /\ FrameInv /\ HandInv
  BY IInvParts
<1>2. f \in FrameType /\ f.dir = d /\ f.path = path /\ f.seen = entries[d] /\ f.todo = Listing(d)
  BY <1>1, FrameFacts
<1>3. /\ \A n \in Name, i \in Inode : <<Append(path, n), i>> \in tree[mount] <=> entries[d][n] = i
      /\ \A n \in Name : entries[d][n] # None => Good(entries[d][n])
  BY VerifiableFacts DEF VerifyStep
<1> HIDE DEF f
<1>4. /\ Len(stack') = Len(stack) + 1 /\ stack'[Len(stack) + 1] = f
      /\ \A k \in 1 .. Len(stack) : stack'[k] = stack[k]
  BY <1>1, <1>2, PushFacts DEF f
<1>9. stack \in Seq(FrameType) /\ stack' \in Seq(FrameType)
  BY <1>1 DEF TypeInv, VerifyStep
<1>10. Len(stack) \in Nat /\ DOMAIN stack = 1 .. Len(stack) /\ DOMAIN stack' = 1 .. Len(stack) + 1
  BY <1>4, <1>9
<1>11. stack' # <<>>
  BY <1>4, <1>9, <1>10
<1>5. /\ Len(stack) \in Nat /\ DOMAIN stack = 1 .. Len(stack) /\ DOMAIN stack' = 1 .. Len(stack) + 1
      /\ stack' # <<>>
  BY <1>10, <1>11
<1>6. StackInv'
  <2>1. ASSUME NEW k \in DOMAIN stack' PROVE <<stack'[k].path, stack'[k].dir>> \in tree[mount]
    <3>1. CASE k = Len(stack) + 1
      BY <1>2, <1>4, <3>1
    <3>2. CASE k \in 1 .. Len(stack)
      BY <1>1, <1>4, <1>5, <3>2 DEF StackInv
    <3>3. k = Len(stack) + 1 \/ k \in 1 .. Len(stack)
      BY <1>5
    <3> QED BY <3>1, <3>2, <3>3, Zenon
  <2> QED BY <2>1 DEF StackInv, VerifyStep
<1>7. FrameInv'
  <2> SUFFICES ASSUME NEW k \in DOMAIN stack'
               PROVE  /\ \A n \in Name, i \in Inode :
                           <<Append(stack'[k].path, n), i>> \in tree[mount] <=> stack'[k].seen[n] = i
                      /\ \A n \in stack'[k].todo : stack'[k].seen[n] # None
                      /\ \A n \in Name : entries[stack'[k].dir][n] \in {stack'[k].seen[n], None} \cup late
                      /\ k < Len(stack') =>
                           \E n \in Name :
                             stack'[k + 1].path = Append(stack'[k].path, n) /\ stack'[k + 1].dir = stack'[k].seen[n]
    BY DEF FrameInv, VerifyStep
  <2>1. CASE k = Len(stack) + 1
    BY <1>2, <1>3, <1>4, <1>5, <2>1 DEF Listing
  <2>2. CASE k = Len(stack) /\ k \in 1 .. Len(stack)
    <3>1. stack # <<>> /\ Top = stack[k] /\ stack'[k] = stack[k] /\ stack'[k + 1] = f
      BY <1>4, <1>5, <2>2 DEF Top
    <3>2. /\ \A n \in Name, i \in Inode :
               <<Append(stack[k].path, n), i>> \in tree[mount] <=> stack[k].seen[n] = i
          /\ \A n \in stack[k].todo : stack[k].seen[n] # None
          /\ \A n \in Name : entries[stack[k].dir][n] \in {stack[k].seen[n], None} \cup late
      BY <1>1, <1>5, <2>2 DEF FrameInv, VerifyStep
    <3>3. \E n \in Name :
            stack'[k + 1].path = Append(stack'[k].path, n) /\ stack'[k + 1].dir = stack'[k].seen[n]
      BY <1>2, <3>1
    <3> QED BY <3>1, <3>2, <3>3
  <2>3. CASE k \in 1 .. Len(stack) /\ k < Len(stack)
    <3>1. stack'[k] = stack[k] /\ stack'[k + 1] = stack[k + 1]
      BY <1>4, <1>5, <2>3
    <3> QED BY <1>1, <1>5, <2>3, <3>1 DEF FrameInv, VerifyStep
  <2>4. k = Len(stack) + 1 \/ (k = Len(stack) /\ k \in 1 .. Len(stack)) \/ (k \in 1 .. Len(stack) /\ k < Len(stack))
    BY <1>5
  <2> QED BY <2>1, <2>2, <2>3, <2>4, Zenon
<1>8. HandInv'
  <2> SUFFICES ASSUME uid # Admin PROVE \E S \in SUBSET Inode : Handed(S)'
    BY DEF HandInv, VerifyStep
  <2>1. PICK S \in SUBSET Inode : Handed(S)
    BY <1>1 DEF HandInv, VerifyStep
  <2> DEFINE U == S \cup {d}
  <2>2. \A i \in Inode : Good(i)' <=> Good(i)
    BY DEF Good, VerifyStep
  <2>3. \A m \in Mounts : Verifying(m)' <=> Verifying(m) \/ m = mount
    BY <1>5, RootFacts DEF Verifying, VerifyStep
  <2>4. U \in SUBSET Inode
    BY KindFacts
  <2>5. ASSUME NEW m \in Mounts, Verifying(m)' PROVE Root[m] \in U /\ Good(Root[m])'
    <3>1. CASE Verifying(m)
      BY <2>1, <2>2, <3>1, RootFacts, KindFacts DEF Handed
    <3>2. CASE ~Verifying(m)
      <4>1. m = mount /\ stack = <<>>
        BY <2>3, <2>5, <3>2 DEF Verifying, VerifyStep
      <4> QED BY <2>2, <4>1, RootFacts, KindFacts
    <3> QED BY <3>1, <3>2
  <2>6. ASSUME NEW c \in U \cap Dirs, NEW n \in Name PROVE EntryOK(U, c, n)'
    <3> DEFINE i == entries[c][n]
    <3>1. i \in Inode \cup {None}
      BY <1>1 DEF TypeInv
    <3>2. CASE c = d
      <4>1. i # None => n \in stack'[Len(stack) + 1].todo /\ stack'[Len(stack) + 1].dir = c
        BY <1>2, <1>4, <3>2 DEF Listing
      <4>2. i # None => Good(i)'
        <5>1. i # None => Good(i)
          BY <1>3, <3>2
        <5> QED BY <5>1 DEF Good, VerifyStep
      <4> QED BY <1>5, <4>1, <4>2 DEF EntryOK, VerifyStep
    <3>3. CASE c \in S \cap Dirs
      <4>1. EntryOK(S, c, n)
        BY <2>1, <3>3 DEF Handed
      <4>2. ASSUME NEW k \in DOMAIN stack, stack[k].dir = c, n \in stack[k].todo
            PROVE  \E j \in DOMAIN stack' : stack'[j].dir = c /\ n \in stack'[j].todo
        BY <1>4, <1>5, <4>2
      <4> QED BY <2>2, <3>1, <4>1, <4>2 DEF EntryOK, VerifyStep
    <3> QED BY <3>2, <3>3
  <2>7. ASSUME NEW c \in U \cap Dirs PROVE Verifying(MountOf[c])'
    <3>1. MountOf[c] \in Mounts
      BY KindFacts, MountAssumption
    <3> QED BY <2>1, <2>3, <3>1 DEF Handed
  <2>8. ASSUME NEW k \in DOMAIN stack' PROVE stack'[k].dir \in U
    <3>1. CASE k = Len(stack) + 1
      BY <1>2, <1>4, <3>1
    <3>2. CASE k \in 1 .. Len(stack)
      BY <1>4, <1>5, <2>1, <3>2 DEF Handed
    <3> QED BY <1>5, <3>1, <3>2
  <2>9. Handed(U)'
    BY <2>5, <2>6, <2>7, <2>8 DEF Handed
  <2> QED BY <2>4, <2>9
<1> QED BY <1>6, <1>7, <1>8

(* Names are done and directories left once what they led to was verified. *)
LEMMA ShrinkKeeps ==
  ASSUME IInv, VerifyStep, stack # <<>>, Len(stack') <= Len(stack),
         \A k \in 1 .. Len(stack') :
           /\ stack'[k].dir = stack[k].dir /\ stack'[k].path = stack[k].path
           /\ stack'[k].seen = stack[k].seen /\ stack'[k].todo \subseteq stack[k].todo,
         stack' = <<>> \/ (pc' = "verify" /\ mount' = mount),
         \A m \in Mounts : Verifying(m)' <=> Verifying(m),
         \A k \in 1 .. Len(stack) : \A n \in stack[k].todo :
           \/ k \in 1 .. Len(stack') /\ n \in stack'[k].todo
           \/ Kind[stack[k].seen[n]] # "dir"
           \/ \E j \in 1 .. Len(stack) : stack[j].dir = stack[k].seen[n]
  PROVE  StackInv' /\ FrameInv' /\ HandInv'
<1>1. TypeInv /\ StackInv /\ FrameInv /\ HandInv
  BY IInvParts
<1>2. stack \in Seq(FrameType) /\ stack' \in Seq(FrameType)
  BY <1>1 DEF TypeInv, VerifyStep
<1>3. /\ Len(stack) \in Nat /\ Len(stack') \in Nat
      /\ DOMAIN stack = 1 .. Len(stack) /\ DOMAIN stack' = 1 .. Len(stack')
      /\ \A k \in 1 .. Len(stack') : k \in 1 .. Len(stack)
  BY <1>2
<1>4. StackInv'
  <2>1. ASSUME NEW k \in DOMAIN stack' PROVE <<stack'[k].path, stack'[k].dir>> \in tree[mount]'
    <3>1. stack' # <<>> /\ tree' = tree /\ mount' = mount
      BY <1>3, <2>1 DEF VerifyStep
    <3>2. k \in 1 .. Len(stack') /\ k \in 1 .. Len(stack)
      BY <1>3
    <3>3. <<stack[k].path, stack[k].dir>> \in tree[mount]
      BY <1>1, <1>3, <3>2 DEF StackInv
    <3> QED BY <3>1, <3>2, <3>3
  <2> QED BY <2>1 DEF StackInv, VerifyStep
<1>5. FrameInv'
  <2> SUFFICES ASSUME NEW k \in DOMAIN stack'
               PROVE  /\ \A n \in Name, i \in Inode :
                           <<Append(stack'[k].path, n), i>> \in tree[mount] <=> stack'[k].seen[n] = i
                      /\ \A n \in stack'[k].todo : stack'[k].seen[n] # None
                      /\ \A n \in Name : entries[stack'[k].dir][n] \in {stack'[k].seen[n], None} \cup late
                      /\ k < Len(stack') =>
                           \E n \in Name :
                             stack'[k + 1].path = Append(stack'[k].path, n) /\ stack'[k + 1].dir = stack'[k].seen[n]
    <3>1. DOMAIN stack' # {} => mount' = mount
      BY <1>3
    <3> QED BY <3>1 DEF FrameInv, VerifyStep
  <2>1. k \in 1 .. Len(stack') /\ k \in 1 .. Len(stack) /\ k \in DOMAIN stack
    BY <1>3
  <2>2. /\ \A n \in Name, i \in Inode :
             <<Append(stack[k].path, n), i>> \in tree[mount] <=> stack[k].seen[n] = i
        /\ \A n \in stack[k].todo : stack[k].seen[n] # None
        /\ \A n \in Name : entries[stack[k].dir][n] \in {stack[k].seen[n], None} \cup late
        /\ k < Len(stack) =>
             \E n \in Name :
               stack[k + 1].path = Append(stack[k].path, n) /\ stack[k + 1].dir = stack[k].seen[n]
    BY <1>1, <2>1 DEF FrameInv, VerifyStep
  <2>3. /\ stack'[k].dir = stack[k].dir /\ stack'[k].path = stack[k].path
        /\ stack'[k].seen = stack[k].seen /\ stack'[k].todo \subseteq stack[k].todo
    BY <2>1
  <2>4. k < Len(stack') =>
          k < Len(stack) /\ stack'[k + 1].path = stack[k + 1].path /\ stack'[k + 1].dir = stack[k + 1].dir
    BY <1>3, <2>1
  <2> QED BY <2>2, <2>3, <2>4
<1>6. HandInv'
  <2> SUFFICES ASSUME uid # Admin PROVE \E S \in SUBSET Inode : Handed(S)'
    BY DEF HandInv, VerifyStep
  <2>1. PICK S \in SUBSET Inode : Handed(S)
    BY <1>1 DEF HandInv, VerifyStep
  <2>2. \A i \in Inode : Good(i)' <=> Good(i)
    BY DEF Good, VerifyStep
  <2>3. ASSUME NEW m \in Mounts, Verifying(m)' PROVE Root[m] \in S /\ Good(Root[m])'
    BY <2>1, <2>2, <2>3, RootFacts, KindFacts DEF Handed
  <2>4. ASSUME NEW c \in S \cap Dirs, NEW n \in Name PROVE EntryOK(S, c, n)'
    <3>1. entries[c][n] \in Inode \cup {None}
      BY <1>1 DEF TypeInv
    <3>2. EntryOK(S, c, n)
      BY <2>1 DEF Handed
    <3>3. ASSUME NEW k \in DOMAIN stack, stack[k].dir = c, n \in stack[k].todo
          PROVE  \/ entries[c][n] \in {None} \cup late \/ Kind[entries[c][n]] # "dir" \/ entries[c][n] \in S
                 \/ \E j \in DOMAIN stack' : stack'[j].dir = c /\ n \in stack'[j].todo
      <4>1. entries[c][n] \in {stack[k].seen[n], None} \cup late
        BY <1>1, <3>3 DEF FrameInv, VerifyStep
      <4>2. CASE k \in 1 .. Len(stack') /\ n \in stack'[k].todo
        BY <1>3, <3>3, <4>2
      <4>3. CASE Kind[stack[k].seen[n]] # "dir"
        BY <4>1, <4>3
      <4>4. CASE \E j \in 1 .. Len(stack) : stack[j].dir = stack[k].seen[n]
        BY <1>3, <2>1, <4>1, <4>4 DEF Handed
      <4> QED BY <1>3, <3>3, <4>2, <4>3, <4>4
    <3>4. Good(entries[c][n])' <=> Good(entries[c][n])
      BY DEF Good, VerifyStep
    <3>5. entries'[c][n] = entries[c][n] /\ late' = late /\ state' = state /\ left' = left
      BY DEF VerifyStep
    <3> QED BY <3>2, <3>3, <3>4, <3>5 DEF EntryOK
  <2>5. ASSUME NEW c \in S \cap Dirs PROVE Verifying(MountOf[c])'
    <3>1. MountOf[c] \in Mounts
      BY KindFacts, MountAssumption
    <3> QED BY <2>1, <3>1 DEF Handed
  <2>6. ASSUME NEW k \in DOMAIN stack' PROVE stack'[k].dir \in S
    <3>1. k \in 1 .. Len(stack') /\ k \in DOMAIN stack
      BY <1>3
    <3> QED BY <2>1, <3>1 DEF Handed
  <2>7. Handed(S)'
    BY <2>3, <2>4, <2>5, <2>6 DEF Handed
  <2> QED BY <2>7
<1> QED BY <1>4, <1>5, <1>6

(* What is two names or more below a path is below a directory that is one name below it. *)
LEMMA BelowFacts ==
  ASSUME TypeInv, TreeInv, NEW m \in Mounts, NEW path \in Seq(Name), NEW e \in tree[m],
         Deeper(e[1], path), Len(e[1]) > Len(path) + 1
  PROVE  \E n \in Name, d \in Dirs : <<Append(path, n), d>> \in tree[m] /\ Deeper(e[1], Append(path, n))
<1> DEFINE p == e[1]
           j == Len(path) + 1
           n == p[j]
<1>1. p \in Seq(Name) /\ Len(p) \in Nat /\ Len(path) \in Nat
  BY DEF TypeInv
<1>2. j \in 1 .. Len(p) - 1
  BY <1>1
<1>3. PICK d \in Dirs : <<SubSeq(p, 1, j), d>> \in tree[m]
  BY <1>2 DEF TreeInv, Founded
<1>4. n \in Name
  BY <1>1, <1>2
<1>5. /\ Append(path, n) \in Seq(Name) /\ Len(Append(path, n)) = j
      /\ Append(path, n)[j] = n /\ \A k \in 1 .. Len(path) : Append(path, n)[k] = path[k]
  BY <1>4, AppendFacts
<1>6. \A k \in 1 .. j : Append(path, n)[k] = p[k]
  <2>1. \A k \in 1 .. Len(path) : p[k] = path[k]
    BY DEF Deeper
  <2>2. \A k \in 1 .. j : k = j \/ k \in 1 .. Len(path)
    BY <1>1
  <2> QED BY <1>5, <2>1, <2>2
<1>7. SubSeq(p, 1, j) = Append(path, n)
  <2>1. \A k \in 1 .. j : p[k] \in Name
    BY <1>1, <1>2
  <2>2. 1 \in Int /\ j \in Int
    BY <1>1
  <2>3. SubSeq(p, 1, j) \in Seq(Name)
    BY <2>1, <2>2, SubSeqProperties
  <2>4. Len(SubSeq(p, 1, j)) = IF 1 <= j THEN j - 1 + 1 ELSE 0
    BY <2>1, <2>2, SubSeqProperties
  <2>5. \A k \in 1 .. j - 1 + 1 : SubSeq(p, 1, j)[k] = p[1 + k - 1]
    BY <2>1, <2>2, SubSeqProperties
  <2>6. Len(SubSeq(p, 1, j)) = j
    BY <1>1, <2>4
  <2>7. \A k \in 1 .. j : SubSeq(p, 1, j)[k] = p[k]
    BY <1>1, <2>5
  <2> HIDE DEF n, j
  <2> QED BY <1>5, <1>6, <2>3, <2>6, <2>7, SeqEqual
<1>8. Deeper(p, Append(path, n))
  BY <1>1, <1>2, <1>5, <1>6 DEF Deeper
<1> QED BY <1>3, <1>4, <1>7, <1>8

LEMMA VerifyRootKeeps == ASSUME IInv, VerifyRoot PROVE IInv'
<1> DEFINE r == Root[mount]
           f == Frame(r, <<>>)
<1>1. /\ pc = "verify" /\ stack = <<>> /\ owner[r] = uid /\ Verifiable(r, <<>>) /\ stack' = <<f>>
      /\ entries' = entries /\ owner' = owner /\ mode' = mode
      /\ pc' = pc /\ mount' = mount /\ held' = held /\ tree' = tree /\ left' = left
      /\ uid' = uid /\ state' = state /\ late' = late /\ before' = before
  BY DEF VerifyRoot, disk, Same
<1>2. TypeInv /\ RootedInv /\ ModeInv /\ HeldInv /\ TreeInv /\ PlaceInv
  BY IInvParts
<1>3. mount \in Mounts /\ r \in Dirs /\ MountOf[r] = mount /\ <<>> \in Seq(Name) /\ r \in Inode
  BY <1>2, RootFacts, KindFacts DEF TypeInv
<1>4. f \in FrameType /\ f.todo = Listing(r) /\ f.path = <<>>
  BY <1>2, <1>3, FrameFacts
<1> HIDE DEF f
<1>5. stack' \in Seq(FrameType) /\ stack' = Append(stack, f)
  BY <1>1, <1>4
<1>6. VerifyStep
  BY <1>1, <1>3, <1>5 DEF VerifyStep
<1>7. <<<<>>, r>> \in tree[mount]
  BY <1>1, <1>2, <1>3 DEF RootedInv
<1>8. Good(r)
  <2>1. held.at = "none"
    BY <1>1, <1>2 DEF HeldInv
  <2> QED BY <1>1, <1>2, <1>3, <1>7, <2>1 DEF ModeInv, Good
<1>9. StackInv' /\ FrameInv' /\ HandInv'
  BY <1>1, <1>3, <1>5, <1>6, <1>7, <1>8, PushKeeps DEF f
<1>10. PlaceInv'
  <2> SUFFICES ASSUME NEW e \in tree[1], Len(e[1]) >= 2, e[2] \in Dirs
               PROVE  Placed(e)' \/ (mount = 1 /\ Remaining(e)')
    BY <1>1 DEF PlaceInv
  <2>1. CASE mount > 1
    <3>1. Placed(e)
      BY <1>1, <1>2, <2>1 DEF PlaceInv
    <3> QED BY <1>1, <3>1 DEF Placed
  <2>2. CASE mount = 1
    <3>1. e[1] \in Seq(Name) /\ Deeper(e[1], <<>>) /\ Len(e[1]) > Len(<<>>) + 1
      BY <1>2, RootFacts DEF TypeInv, Deeper
    <3>2. PICK n \in Name, d \in Dirs : <<Append(<<>>, n), d>> \in tree[1] /\ Deeper(e[1], Append(<<>>, n))
      BY <1>2, <1>3, <2>2, <3>1, BelowFacts
    <3>7. \A q \in Name, j \in Inode : <<Append(<<>>, q), j>> \in tree[mount] <=> entries[r][q] = j
      BY <1>1, <1>3, VerifiableFacts, Zenon
    <3>3. entries[r][n] = d
      BY <2>2, <3>2, <3>7, KindFacts
    <3>4. n \in f.todo
      BY <1>4, <3>3, KindFacts DEF Listing
    <3>5. DOMAIN stack' = {1} /\ Len(stack') = 1 /\ stack'[1] = f
      BY <1>1
    <3>8. 1 \in DOMAIN stack' /\ ~(1 < Len(stack')) /\ n \in stack'[1].todo /\ Deeper(e[1], Append(stack'[1].path, n))
      <4>1. stack'[1].path = <<>> /\ stack'[1].todo = f.todo
        BY <1>4, <3>5
      <4> QED BY <3>2, <3>4, <3>5, <4>1
    <3>6. Remaining(e)'
      BY <3>8, Zenon DEF Remaining
    <3> QED BY <2>2, <3>6
  <2>3. mount > 1 \/ mount = 1
    BY <1>3, RootFacts
  <2> QED BY <2>1, <2>2, <2>3
<1>11. SecludedInv'
  BY <1>1 DEF SecludedInv
<1> QED BY <1>6, <1>9, <1>10, <1>11, VerifyStepKeeps DEF IInv, FileInv, WalkInv

LEMMA VerifyEntryKeeps == ASSUME IInv, VerifyEntry PROVE IInv'
<1> DEFINE n == Next1(Top.todo)
           i == Visited(n)
           path == Append(Top.path, n)
           f == Frame(i, path)
<1>1. /\ pc = "verify" /\ stack # <<>> /\ Top.todo # {}
      /\ entries' = entries /\ owner' = owner /\ mode' = mode
      /\ pc' = pc /\ mount' = mount /\ held' = held /\ tree' = tree /\ left' = left
      /\ uid' = uid /\ state' = state /\ late' = late /\ before' = before
  BY DEF VerifyEntry, disk, Same
<1>2. \/ Kind[Top.seen[n]] # "dir" /\ stack' = Done(stack, n)
      \/ /\ Kind[Top.seen[n]] = "dir" /\ i = Top.seen[n] /\ Verifiable(i, path)
         /\ stack' = Append(stack, f)
  BY DEF VerifyEntry
<1> HIDE DEF n, i, path, f
<1>3. TypeInv /\ EntriesInv /\ TreeInv /\ StackInv /\ FrameInv /\ PlaceInv
  BY IInvParts
<1>4. /\ Len(stack) \in Nat \ {0} /\ Top = stack[Len(stack)] /\ Top.path \in Seq(Name)
      /\ Top.seen \in [Name -> Inode \cup {None}] /\ Top.todo \in SUBSET Name
      /\ stack \in Seq(FrameType) /\ DOMAIN stack = 1 .. Len(stack) /\ Len(stack) \in DOMAIN stack
  <2>1. stack \in Seq(FrameType)
    BY <1>3 DEF TypeInv
  <2> QED BY <1>1, <1>3, <2>1, TopFacts
<1>5. n \in Top.todo /\ n \in Name
  BY <1>1, <1>4, FirstName DEF n
<1>6. /\ \A o \in Name, j \in Inode : <<Append(Top.path, o), j>> \in tree[mount] <=> Top.seen[o] = j
      /\ \A o \in Top.todo : Top.seen[o] # None
      /\ \A o \in Name : entries[Top.dir][o] \in {Top.seen[o], None} \cup late
  BY <1>1, <1>3, <1>4 DEF FrameInv
<1>7. Top.seen[n] \in Inode /\ <<path, Top.seen[n]>> \in tree[mount] /\ mount \in Mounts
  <2>1. Top.seen[n] \in Inode
    BY <1>4, <1>5, <1>6
  <2>2. <<Append(Top.path, n), Top.seen[n]>> \in tree[mount]
    BY <1>5, <1>6, <2>1, Zenon
  <2> QED BY <1>3, <2>1, <2>2 DEF path, TypeInv
<1>12. path = Append(stack[Len(stack)].path, n)
  BY <1>4, Zenon DEF path
<1>8. /\ path \in Seq(Name) /\ Len(path) = Len(Top.path) + 1 /\ path[Len(Top.path) + 1] = n
      /\ \A j \in 1 .. Len(Top.path) : path[j] = Top.path[j]
  BY <1>4, <1>5, AppendFacts DEF path
<1>9. SecludedInv'
  BY <1>1 DEF SecludedInv
<1>10. CASE Kind[Top.seen[n]] # "dir" /\ stack' = Done(stack, n)
  <2>1. /\ Done(stack, n) \in Seq(FrameType) /\ Len(Done(stack, n)) = Len(stack)
        /\ \A k \in 1 .. Len(stack) :
             /\ Done(stack, n)[k].dir = stack[k].dir /\ Done(stack, n)[k].path = stack[k].path
             /\ Done(stack, n)[k].seen = stack[k].seen
             /\ Done(stack, n)[k].todo = IF k = Len(stack) THEN stack[k].todo \ {n} ELSE stack[k].todo
    <3>1. stack \in Seq(FrameType) /\ stack # <<>>
      BY <1>1, <1>4
    <3> QED BY <3>1, DoneFacts, Zenon
  <2>2. /\ stack' \in Seq(FrameType) /\ Len(stack') = Len(stack)
        /\ \A k \in 1 .. Len(stack) :
             /\ stack'[k].dir = stack[k].dir /\ stack'[k].path = stack[k].path
             /\ stack'[k].seen = stack[k].seen
             /\ stack'[k].todo = IF k = Len(stack) THEN stack[k].todo \ {n} ELSE stack[k].todo
    BY <1>10, <2>1, Zenon
  <2>10. stack' \in Seq(FrameType) /\ Len(stack') = Len(stack)
    BY <2>2, Zenon
  <2>3. VerifyStep
    BY <1>1, <1>7, <2>10 DEF VerifyStep
  <2>4. /\ Len(stack') <= Len(stack)
        /\ \A k \in 1 .. Len(stack') :
             /\ stack'[k].dir = stack[k].dir /\ stack'[k].path = stack[k].path
             /\ stack'[k].seen = stack[k].seen /\ stack'[k].todo \subseteq stack[k].todo
    <3>1. Len(stack') <= Len(stack)
      BY <1>4, <2>10
    <3>2. ASSUME NEW k \in 1 .. Len(stack')
          PROVE  /\ stack'[k].dir = stack[k].dir /\ stack'[k].path = stack[k].path
                 /\ stack'[k].seen = stack[k].seen /\ stack'[k].todo \subseteq stack[k].todo
      <4>1. k \in 1 .. Len(stack)
        BY <2>2
      <4>2. /\ stack'[k].dir = stack[k].dir /\ stack'[k].path = stack[k].path
            /\ stack'[k].seen = stack[k].seen
            /\ stack'[k].todo = IF k = Len(stack) THEN stack[k].todo \ {n} ELSE stack[k].todo
        BY <2>2, <4>1, Zenon
      <4> QED BY <4>2
    <3> QED BY <3>1, <3>2
  <2>5. stack' # <<>> /\ DOMAIN stack' = 1 .. Len(stack)
    <3>1. DOMAIN stack' = 1 .. Len(stack)
      BY <2>2
    <3> QED BY <1>4, <3>1
  <2>6. \A m \in Mounts : Verifying(m)' <=> Verifying(m)
    BY <1>1, <2>5 DEF Verifying
  <2>7. ASSUME NEW k \in 1 .. Len(stack), NEW o \in stack[k].todo
        PROVE  \/ k \in 1 .. Len(stack') /\ o \in stack'[k].todo
               \/ Kind[stack[k].seen[o]] # "dir"
               \/ \E j \in 1 .. Len(stack) : stack[j].dir = stack[k].seen[o]
    <3>1. CASE k = Len(stack) /\ o = n
      BY <1>4, <1>10, <3>1
    <3>2. CASE ~(k = Len(stack) /\ o = n)
      BY <2>2, <3>2
    <3> QED BY <3>1, <3>2
  <2>8. StackInv' /\ FrameInv' /\ HandInv'
    BY <1>1, <2>3, <2>4, <2>6, <2>7, ShrinkKeeps
  <2>9. PlaceInv'
    <3> SUFFICES ASSUME NEW e \in tree[1], Len(e[1]) >= 2, e[2] \in Dirs
                 PROVE  Placed(e)' \/ (mount = 1 /\ Remaining(e)')
      BY <1>1 DEF PlaceInv
    <3>1. Placed(e) \/ (mount = 1 /\ Remaining(e))
      BY <1>1, <1>3 DEF PlaceInv
    <3>2. CASE Placed(e)
      BY <1>1, <3>2 DEF Placed
    <3>3. CASE mount = 1 /\ Remaining(e)
      <4>1. PICK k \in DOMAIN stack : \E o \in stack[k].todo :
              /\ k < Len(stack) => stack[k + 1].path # Append(stack[k].path, o)
              /\ Deeper(e[1], Append(stack[k].path, o))
        BY <3>3 DEF Remaining
      <4>2. PICK o \in stack[k].todo :
              /\ k < Len(stack) => stack[k + 1].path # Append(stack[k].path, o)
              /\ Deeper(e[1], Append(stack[k].path, o))
        BY <4>1
      <4>3. CASE k = Len(stack) /\ o = n
        <5>7. e[1] \in Seq(Name)
          BY <1>3, RootFacts DEF TypeInv
        <5>1. Deeper(e[1], path)
          BY <1>12, <4>2, <4>3, Zenon
        <5>8. Len(e[1]) > Len(path) /\ \A j \in 1 .. Len(path) : e[1][j] = path[j]
          BY <5>1 DEF Deeper
        <5>9. Len(e[1]) > Len(Top.path) + 1 /\ e[1][Len(Top.path) + 1] = n
          BY <1>4, <1>8, <5>7, <5>8
        <5>10. Len(e[1]) > Len(Top.path) /\ \A j \in 1 .. Len(Top.path) : e[1][j] = Top.path[j]
          BY <1>4, <1>8, <5>7, <5>8
        <5>2. Deeper(e[1], Top.path) /\ Len(e[1]) > Len(Top.path) + 1 /\ e[1][Len(Top.path) + 1] = n
          BY <5>9, <5>10 DEF Deeper
        <5>3. PICK q \in Name, d \in Dirs : <<Append(Top.path, q), d>> \in tree[1] /\ Deeper(e[1], Append(Top.path, q))
          BY <1>3, <1>4, <5>2, RootFacts, BelowFacts
        <5>4. /\ Len(Append(Top.path, q)) = Len(Top.path) + 1 /\ Append(Top.path, q)[Len(Top.path) + 1] = q
              /\ Len(Top.path) + 1 \in 1 .. Len(Top.path) + 1
          BY <1>4
        <5>5. q = n
          BY <5>2, <5>3, <5>4 DEF Deeper
        <5>6. Kind[Top.seen[n]] = "dir"
          BY <1>6, <3>3, <5>3, <5>5, KindFacts
        <5> QED BY <1>10, <5>6
      <4>4. CASE ~(k = Len(stack) /\ o = n)
        <5>1. k \in DOMAIN stack' /\ o \in stack'[k].todo /\ stack'[k].path = stack[k].path
          BY <1>4, <2>2, <2>5, <4>2, <4>4
        <5>2. k < Len(stack') => k < Len(stack) /\ stack'[k + 1].path = stack[k + 1].path
          <6> SUFFICES ASSUME k < Len(stack') PROVE k < Len(stack) /\ stack'[k + 1].path = stack[k + 1].path
            OBVIOUS
          <6>1. k < Len(stack) /\ k + 1 \in 1 .. Len(stack)
            BY <1>4, <2>10
          <6> QED BY <2>2, <6>1, Zenon
        <5>3. Remaining(e)'
          BY <4>2, <5>1, <5>2 DEF Remaining
        <5> QED BY <3>3, <5>3
      <4> QED BY <4>3, <4>4
    <3> QED BY <3>1, <3>2, <3>3
  <2> QED BY <1>9, <2>3, <2>8, <2>9, VerifyStepKeeps DEF IInv, FileInv, WalkInv
<1>11. CASE /\ Kind[Top.seen[n]] = "dir" /\ i = Top.seen[n] /\ Verifiable(i, path)
            /\ stack' = Append(stack, f)
  <2>1. i \in Dirs /\ i \in Inode /\ <<path, i>> \in tree[mount]
    BY <1>7, <1>11, KindFacts
  <2>2. MountOf[i] = mount
    BY <1>3, <1>7, <2>1 DEF TreeInv
  <2>3. f \in FrameType /\ f.todo = Listing(i) /\ f.path = path
    BY <1>3, <1>8, <2>1, FrameFacts DEF f
  <2>4. /\ stack' \in Seq(FrameType) /\ Len(stack') = Len(stack) + 1 /\ stack'[Len(stack) + 1] = f
        /\ \A k \in 1 .. Len(stack) : stack'[k] = stack[k]
        /\ DOMAIN stack' = 1 .. Len(stack) + 1
    <3>1. stack' \in Seq(FrameType)
      BY <1>4, <1>11, <2>3
    <3> QED BY <1>4, <1>11, <2>3, <3>1
  <2>5. VerifyStep
    BY <1>1, <1>7, <2>4 DEF VerifyStep
  <2>6. \E o \in Name : path = Append(Top.path, o) /\ i = Top.seen[o]
    BY <1>5, <1>11 DEF path
  <2>7. StackInv' /\ FrameInv' /\ HandInv'
    BY <1>1, <1>8, <1>11, <2>1, <2>2, <2>5, <2>6, PushKeeps DEF f
  <2>8. PlaceInv'
    <3> SUFFICES ASSUME NEW e \in tree[1], Len(e[1]) >= 2, e[2] \in Dirs
                 PROVE  Placed(e)' \/ (mount = 1 /\ Remaining(e)')
      BY <1>1 DEF PlaceInv
    <3>1. Placed(e) \/ (mount = 1 /\ Remaining(e))
      BY <1>1, <1>3 DEF PlaceInv
    <3>2. CASE Placed(e)
      BY <1>1, <3>2 DEF Placed
    <3>3. CASE mount = 1 /\ Remaining(e)
      <4>1. PICK k \in DOMAIN stack : \E o \in stack[k].todo :
              /\ k < Len(stack) => stack[k + 1].path # Append(stack[k].path, o)
              /\ Deeper(e[1], Append(stack[k].path, o))
        BY <3>3 DEF Remaining
      <4>2. PICK o \in stack[k].todo :
              /\ k < Len(stack) => stack[k + 1].path # Append(stack[k].path, o)
              /\ Deeper(e[1], Append(stack[k].path, o))
        BY <4>1
      <4>3. CASE k = Len(stack) /\ o = n
        <5>5. 1 \in Mounts /\ e \in Seq(Name) \X Inode
          BY <1>3, RootFacts DEF TypeInv
        <5>6. Deeper(e[1], path)
          BY <1>12, <4>2, <4>3, Zenon
        <5>1. Deeper(e[1], path) /\ e[1] \in Seq(Name) /\ 1 \in Mounts /\ e \in Seq(Name) \X Inode
          BY <5>5, <5>6
        <5>2. CASE Len(e[1]) > Len(path) + 1
          <6>1. PICK q \in Name, d \in Dirs : <<Append(path, q), d>> \in tree[1] /\ Deeper(e[1], Append(path, q))
            BY <1>3, <1>8, <5>1, <5>2, BelowFacts
          <6>2. entries[i][q] = d
            BY <1>1, <1>8, <1>11, <2>1, <3>3, <6>1, VerifiableFacts, KindFacts
          <6>3. q \in f.todo
            BY <2>3, <6>1, <6>2, KindFacts DEF Listing
          <6>4. Len(stack) + 1 \in DOMAIN stack' /\ Len(stack') = Len(stack) + 1 /\ ~(Len(stack) + 1 < Len(stack'))
            BY <1>4, <2>4
          <6>5. Remaining(e)'
            BY <2>3, <2>4, <6>1, <6>3, <6>4 DEF Remaining
          <6> QED BY <3>3, <6>5
        <5>3. CASE Len(e[1]) = Len(path) + 1
          <6>1. SubSeq(e[1], 1, Len(path)) = path
            <7>1. /\ \A k1 \in 1 .. Len(path) : e[1][k1] = path[k1] /\ e[1][k1] \in Name
                  /\ 1 \in Int /\ Len(path) \in Int
              BY <1>8, <5>1, <5>3 DEF Deeper
            <7>2. SubSeq(e[1], 1, Len(path)) \in Seq(Name)
              BY <7>1, SubSeqProperties
            <7>3. Len(SubSeq(e[1], 1, Len(path))) = IF 1 <= Len(path) THEN Len(path) - 1 + 1 ELSE 0
              BY <7>1, SubSeqProperties
            <7>4. \A k1 \in 1 .. Len(path) - 1 + 1 : SubSeq(e[1], 1, Len(path))[k1] = e[1][1 + k1 - 1]
              BY <7>1, SubSeqProperties
            <7>5. Len(SubSeq(e[1], 1, Len(path))) = Len(path)
              BY <1>8, <7>3
            <7>6. \A k1 \in 1 .. Len(path) : SubSeq(e[1], 1, Len(path))[k1] = path[k1]
              BY <1>8, <7>1, <7>4
            <7> QED BY <1>8, <7>2, <7>5, <7>6, SeqEqual
          <6>2. PICK x \in Listing(i) : e = <<Append(path, x), entries[i][x]>>
            BY <1>1, <1>8, <1>11, <2>1, <3>3, <5>3, <6>1, VerifiableFacts
          <6>3. x \in Name /\ e[2] = entries[i][x] /\ e[1] = Append(path, x)
            BY <6>2 DEF Listing
          <6>4. \A d \in Dirs, y \in Name : entries[d][y] = e[2] => d = i
            BY <1>3, <2>1, <6>3 DEF EntriesInv
          <6>5. Parent(e[1]) = path /\ e[1] # <<>>
            BY <1>8, <6>3, AppendFacts
          <6>6. Placed(e)
            BY <2>1, <3>3, <6>4, <6>5 DEF Placed
          <6> QED BY <1>1, <6>6 DEF Placed
        <5>4. Len(e[1]) > Len(path) + 1 \/ Len(e[1]) = Len(path) + 1
          BY <1>8, <5>1 DEF Deeper
        <5> QED BY <5>2, <5>3, <5>4
      <4>4. CASE k = Len(stack) /\ o # n
        <5>1. k \in DOMAIN stack' /\ stack'[k] = stack[k] /\ stack'[k + 1] = f /\ stack[k] = Top
          BY <1>4, <2>4, <4>4
        <5>2. o \in Name /\ Append(Top.path, o)[Len(Top.path) + 1] = o
          BY <1>4, <4>2, <5>1
        <5>3. f.path # Append(Top.path, o)
          BY <1>8, <2>3, <4>4, <5>2
        <5>4. Remaining(e)'
          BY <4>2, <5>1, <5>3 DEF Remaining
        <5> QED BY <3>3, <5>4
      <4>5. CASE k # Len(stack)
        <5>1. k \in DOMAIN stack' /\ stack'[k] = stack[k] /\ k < Len(stack) /\ stack'[k + 1] = stack[k + 1]
          BY <1>4, <2>4, <4>5
        <5>2. Remaining(e)'
          BY <4>2, <5>1 DEF Remaining
        <5> QED BY <3>3, <5>2
      <4> QED BY <4>3, <4>4, <4>5
    <3> QED BY <3>1, <3>2, <3>3
  <2> QED BY <1>9, <2>5, <2>7, <2>8, VerifyStepKeeps DEF IInv, FileInv, WalkInv
<1> QED BY <1>2, <1>10, <1>11

LEMMA VerifyLeaveKeeps == ASSUME IInv, VerifyLeave PROVE IInv'
<1> DEFINE a == Top.path[Len(Top.path)]
<1>1. /\ pc = "verify" /\ stack # <<>> /\ Top.todo = {}
      /\ entries' = entries /\ owner' = owner /\ mode' = mode
      /\ held' = held /\ tree' = tree /\ left' = left
      /\ uid' = uid /\ state' = state /\ late' = late /\ before' = before
  BY DEF VerifyLeave, disk, Same
<1>2. TypeInv /\ EntriesInv /\ StateInv /\ TreeInv /\ FrameInv /\ PlaceInv /\ AccessInv /\ HeldInv
  BY IInvParts
<1>3. /\ Len(stack) \in Nat \ {0} /\ Top = stack[Len(stack)]
      /\ stack \in Seq(FrameType) /\ DOMAIN stack = 1 .. Len(stack) /\ mount \in 1 .. Len(Root)
      /\ \A k \in 1 .. Len(stack) : stack[k] \in FrameType
  <2>1. stack \in Seq(FrameType)
    BY <1>2 DEF TypeInv
  <2>2. mount \in 1 .. Len(Root)
    BY <1>2, RootFacts DEF TypeInv
  <2> QED BY <1>1, <1>2, <2>1, <2>2, TopFacts
<1>4. \/ Len(stack) > 1 /\ stack' = Done(Rest, a) /\ pc' = pc /\ mount' = mount
      \/ /\ Len(stack) <= 1 /\ stack' = <<>> /\ mount' = IF mount < Len(Root) THEN mount + 1 ELSE 1
         /\ pc' = IF mount < Len(Root) THEN "verify" ELSE "private"
  BY <1>3 DEF VerifyLeave
<1> HIDE DEF a
<1>5. CASE Len(stack) > 1 /\ stack' = Done(Rest, a) /\ pc' = pc /\ mount' = mount
  <2> DEFINE top == Len(stack) - 1
  <2>1. /\ stack' \in Seq(FrameType) /\ Len(stack') = top
        /\ \A k \in 1 .. top :
             /\ stack'[k].dir = stack[k].dir /\ stack'[k].path = stack[k].path /\ stack'[k].seen = stack[k].seen
             /\ stack'[k].todo = IF k = top THEN stack[k].todo \ {a} ELSE stack[k].todo
    <3>1. LET t == Done(Rest, a) IN
          /\ t \in Seq(FrameType) /\ Len(t) = Len(stack) - 1
          /\ \A k \in 1 .. Len(stack) - 1 :
               /\ t[k].dir = stack[k].dir /\ t[k].path = stack[k].path /\ t[k].seen = stack[k].seen
               /\ t[k].todo = IF k = Len(stack) - 1 THEN stack[k].todo \ {a} ELSE stack[k].todo
      BY <1>2, <1>5, PopFacts, Zenon
    <3> QED BY <1>5, <3>1, Zenon
  <2>2. Len(stack') = top /\ top \in Nat \ {0} /\ top + 1 = Len(stack) /\ top \in DOMAIN stack /\ top < Len(stack)
    <3>1. Len(stack') = top
      BY <2>1, Zenon
    <3>2. Len(stack) \in Nat /\ Len(stack) > 1 /\ DOMAIN stack = 1 .. Len(stack)
      BY <1>3, <1>5
    <3> QED BY <3>1, <3>2
  <2>3. stack' \in Seq(FrameType) /\ DOMAIN stack' = 1 .. top /\ stack' # <<>>
    <3>1. stack' \in Seq(FrameType)
      BY <2>1, Zenon
    <3> QED BY <2>2, <3>1
  <2>4. VerifyStep
    BY <1>1, <1>2, <1>5, <2>3 DEF VerifyStep, TypeInv
  <2>5. stack[top + 1].path = Append(stack[top].path, a) /\ stack[top + 1].dir = stack[top].seen[a]
    <3>1. PICK n \in Name : stack[top + 1].path = Append(stack[top].path, n) /\ stack[top + 1].dir = stack[top].seen[n]
      BY <1>1, <1>2, <2>2 DEF FrameInv
    <3>2. stack[top].path \in Seq(Name)
      BY <1>3, <2>2 DEF FrameType
    <3>3. Append(stack[top].path, n)[Len(Append(stack[top].path, n))] = n
      BY <3>1, <3>2
    <3>4. a = n
      BY <1>3, <2>2, <3>1, <3>3 DEF a
    <3> QED BY <3>1, <3>4
  <2>6. \A k \in 1 .. Len(stack') :
          /\ stack'[k].dir = stack[k].dir /\ stack'[k].path = stack[k].path
          /\ stack'[k].seen = stack[k].seen /\ stack'[k].todo \subseteq stack[k].todo
    <3>1. ASSUME NEW k \in 1 .. top
          PROVE  /\ stack'[k].dir = stack[k].dir /\ stack'[k].path = stack[k].path
                 /\ stack'[k].seen = stack[k].seen /\ stack'[k].todo \subseteq stack[k].todo
      BY <2>1, <3>1
    <3> QED BY <2>2, <3>1
  <2>7. \A m \in Mounts : Verifying(m)' <=> Verifying(m)
    BY <1>1, <1>5, <2>3 DEF Verifying
  <2>8. ASSUME NEW k \in 1 .. Len(stack), NEW o \in stack[k].todo
        PROVE  \/ k \in 1 .. Len(stack') /\ o \in stack'[k].todo
               \/ Kind[stack[k].seen[o]] # "dir"
               \/ \E j \in 1 .. Len(stack) : stack[j].dir = stack[k].seen[o]
    <3>1. k # Len(stack)
      BY <1>1, <1>3
    <3>2. k \in 1 .. top
      BY <3>1, <2>2
    <3>3. CASE k = top /\ o = a
      BY <1>3, <2>2, <2>5, <3>3
    <3>4. CASE ~(k = top /\ o = a)
      <4>1. o \in stack'[k].todo
        BY <2>1, <3>2, <3>4
      <4> QED BY <2>2, <3>2, <4>1
    <3> QED BY <3>3, <3>4
  <2>9. StackInv' /\ FrameInv' /\ HandInv'
    <3>1. Len(stack') <= Len(stack)
      BY <1>3, <2>2
    <3> QED BY <1>1, <1>5, <2>4, <2>6, <2>7, <2>8, <3>1, ShrinkKeeps
  <2>10. PlaceInv'
    <3> SUFFICES ASSUME NEW e \in tree[1], Len(e[1]) >= 2, e[2] \in Dirs
                 PROVE  Placed(e)' \/ (mount = 1 /\ Remaining(e)')
      BY <1>1, <1>5 DEF PlaceInv
    <3>1. Placed(e) \/ (mount = 1 /\ Remaining(e))
      BY <1>1, <1>2 DEF PlaceInv
    <3>2. CASE Placed(e)
      BY <1>1, <3>2 DEF Placed
    <3>3. CASE mount = 1 /\ Remaining(e)
      <4>1. PICK k \in DOMAIN stack : \E o \in stack[k].todo :
              /\ k < Len(stack) => stack[k + 1].path # Append(stack[k].path, o)
              /\ Deeper(e[1], Append(stack[k].path, o))
        BY <3>3 DEF Remaining
      <4>2. PICK o \in stack[k].todo :
              /\ k < Len(stack) => stack[k + 1].path # Append(stack[k].path, o)
              /\ Deeper(e[1], Append(stack[k].path, o))
        BY <4>1
      <4>3. k # Len(stack)
        BY <1>1, <1>3, <4>2
      <4>4. k \in 1 .. top /\ k < Len(stack)
        BY <1>3, <4>3
      <4>5. ~(k = top /\ o = a)
        BY <2>2, <2>5, <4>2
      <4>6. o \in stack'[k].todo /\ stack'[k].path = stack[k].path
        BY <2>1, <4>4, <4>5
      <4>7. ASSUME k < Len(stack') PROVE stack'[k + 1].path = stack[k + 1].path
        <5>1. k + 1 \in 1 .. Len(stack')
          BY <2>2, <4>4, <4>7
        <5> QED BY <2>6, <5>1
      <4>8. k \in DOMAIN stack'
        BY <2>3, <4>4
      <4>9. Remaining(e)'
        BY <4>2, <4>4, <4>6, <4>7, <4>8 DEF Remaining
      <4> QED BY <3>3, <4>9
    <3> QED BY <3>1, <3>2, <3>3
  <2>11. SecludedInv'
    BY <1>1, <1>5 DEF SecludedInv
  <2> QED BY <2>4, <2>9, <2>10, <2>11, VerifyStepKeeps DEF IInv, FileInv, WalkInv
<1>6. CASE /\ Len(stack) <= 1 /\ stack' = <<>> /\ mount' = IF mount < Len(Root) THEN mount + 1 ELSE 1
           /\ pc' = IF mount < Len(Root) THEN "verify" ELSE "private"
  <2>1. Len(stack) = 1 /\ DOMAIN stack = {1} /\ stack[1].todo = {}
    BY <1>1, <1>3, <1>6
  <2>2. mount' \in Mounts /\ mount' \in Nat /\ (pc' = "verify" => mount' = mount + 1 /\ mount' > 1)
    BY <1>3, <1>6, RootFacts
  <2>3. stack' \in Seq(FrameType) /\ Len(stack') = 0
    BY <1>6
  <2>4. VerifyStep
    BY <1>1, <1>6, <2>2, <2>3 DEF VerifyStep
  <2>5. ASSUME NEW m \in Mounts PROVE Verifying(m)' <=> Verifying(m)
    <3>1. m \in 1 .. Len(Root) /\ Len(Root) \in Nat
      BY RootFacts
    <3>2. CASE mount < Len(Root)
      BY <1>1, <1>3, <1>6, <3>1, <3>2 DEF Verifying
    <3>3. CASE ~(mount < Len(Root))
      BY <1>1, <1>3, <1>6, <3>1, <3>3 DEF Verifying
    <3> QED BY <3>2, <3>3
  <2>6. StackInv' /\ FrameInv' /\ HandInv'
    <3>1. Len(stack') <= Len(stack)
      BY <2>1, <2>3
    <3>2. \A k \in 1 .. Len(stack') :
            /\ stack'[k].dir = stack[k].dir /\ stack'[k].path = stack[k].path
            /\ stack'[k].seen = stack[k].seen /\ stack'[k].todo \subseteq stack[k].todo
      BY <2>3
    <3>3. \A k \in 1 .. Len(stack) : stack[k].todo = {}
      BY <2>1
    <3>4. \A k \in 1 .. Len(stack) : \A n \in stack[k].todo :
           \/ k \in 1 .. Len(stack') /\ n \in stack'[k].todo
           \/ Kind[stack[k].seen[n]] # "dir"
           \/ \E j \in 1 .. Len(stack) : stack[j].dir = stack[k].seen[n]
      BY <3>3
    <3> QED BY <1>1, <1>6, <2>4, <2>5, <3>1, <3>2, <3>4, ShrinkKeeps
  <2>7. ASSUME NEW e \in tree[1], Len(e[1]) >= 2, e[2] \in Dirs PROVE Placed(e)
    <3>1. Placed(e) \/ Remaining(e)
      BY <1>1, <1>2, <2>7 DEF PlaceInv
    <3>2. ~Remaining(e)
      BY <2>1 DEF Remaining
    <3> QED BY <3>1, <3>2
  <2>8. PlaceInv'
    <3>1. \A e \in tree[1] : Len(e[1]) >= 2 /\ e[2] \in Dirs => Placed(e)'
      BY <1>1, <2>7 DEF Placed
    <3> QED BY <1>1, <3>1 DEF PlaceInv
  <2>9. SecludedInv'
    <3> SUFFICES ASSUME pc' = "private" PROVE \E X \in SUBSET Dirs : Secluded(X)'
      BY <1>6 DEF SecludedInv
    <3> DEFINE X == {state.inode} \cup Withheld
    <3>1. state.inode \in Dirs \ Roots /\ MountOf[state.inode] = 1 /\ X \in SUBSET Dirs
      BY <1>1, <1>2 DEF StateInv, Withheld
    <3>2. ASSUME NEW i \in Withheld
          PROVE  /\ i \notin Roots /\ MountOf[i] = 1
                 /\ i # state.inode => i \in late \/ \A d \in Dirs, n \in Name : entries[d][n] = i => d \in X
      <4>1. PICK e \in tree[1] : e[2] = i /\ e[1] # <<>> /\ e[1][1] = StateName
        BY <3>2 DEF Withheld
      <4>2. e \in Seq(Name) \X Inode /\ i \in Dirs
        BY <1>2, <3>2, RootFacts DEF TypeInv, Withheld
      <4>3. i \notin Roots /\ MountOf[i] = 1 /\ (e[1] = <<StateName>> => i = state.inode)
        BY <1>2, <4>1, RootFacts DEF TreeInv
      <4>4. ASSUME i # state.inode, i \notin late, NEW d \in Dirs, NEW n \in Name, entries[d][n] = i
            PROVE  d \in X
        <5>1. Len(e[1]) \in Nat /\ Len(e[1]) >= 2
          <6>1. e[1] # <<StateName>>
            BY <4>3, <4>4
          <6>2. Len(e[1]) = 1 => e[1] = <<e[1][1]>>
            BY <4>2
          <6> QED BY <4>1, <4>2, <6>1, <6>2
        <5>2. <<Parent(e[1]), d>> \in tree[1]
          BY <2>7, <4>1, <4>2, <4>4, <5>1 DEF Placed
        <5>3. Parent(e[1]) # <<>> /\ Parent(e[1])[1] = StateName
          <6>1. \A k \in 1 .. Len(e[1]) - 1 : e[1][k] \in Name
            BY <4>2, <5>1
          <6>2. 1 \in Int /\ Len(e[1]) - 1 \in Int
            BY <5>1
          <6>3. SubSeq(e[1], 1, Len(e[1]) - 1) \in Seq(Name)
            BY <6>1, <6>2, SubSeqProperties
          <6>4. Len(SubSeq(e[1], 1, Len(e[1]) - 1)) = IF 1 <= Len(e[1]) - 1 THEN Len(e[1]) - 1 - 1 + 1 ELSE 0
            BY <6>1, <6>2, SubSeqProperties
          <6>5. \A k \in 1 .. Len(e[1]) - 1 - 1 + 1 : SubSeq(e[1], 1, Len(e[1]) - 1)[k] = e[1][1 + k - 1]
            BY <6>1, <6>2, SubSeqProperties
          <6>6. Len(SubSeq(e[1], 1, Len(e[1]) - 1)) = Len(e[1]) - 1
            BY <5>1, <6>4
          <6>7. SubSeq(e[1], 1, Len(e[1]) - 1) # <<>>
            BY <5>1, <6>6
          <6>8. SubSeq(e[1], 1, Len(e[1]) - 1)[1] = e[1][1]
            BY <5>1, <6>5
          <6> QED BY <4>1, <6>7, <6>8 DEF Parent
        <5> DEFINE up == <<Parent(e[1]), d>>
        <5>4. up[2] = d /\ up[1] # <<>> /\ up[1][1] = StateName /\ up \in tree[1]
          BY <5>2, <5>3
        <5>5. d \in Withheld
          BY <5>4 DEF Withheld
        <5> QED BY <5>5
      <4> QED BY <4>3, <4>4
    <3>3. \A i \in Inode : AsFound(mode[i], i) \/ i \in X
      BY <1>1, <1>2 DEF AccessInv, HeldInv
    <3> HIDE DEF X
    <3>4. state.inode \in X /\ \A i \in X \ {state.inode} : i \in Withheld
      BY DEF X
    <3>5. Secluded(X)
      BY <3>1, <3>2, <3>3, <3>4 DEF Secluded
    <3>6. PICK Y \in SUBSET Dirs : Secluded(Y)
      BY <3>1, <3>5
    <3>7. Secluded(Y)'
      BY <1>1, <3>6 DEF Secluded, AsFound
    <3> QED BY <3>7
  <2> QED BY <2>4, <2>6, <2>8, <2>9, VerifyStepKeeps DEF IInv, FileInv, WalkInv
<1> QED BY <1>4, <1>5, <1>6

-----------------------------------------------------------------------------
(* The private directories, and the others *)

(* The directories J are secured: StateDir, or one in it. *)
LEMMA PrivateKeeps ==
  ASSUME IInv, NEW J \in SUBSET Dirs, pc \in {"private", "directories"}, pc' = "directories",
         entries' = entries, owner' \in [Inode -> Uid], mode' \in [Inode -> Modes],
         mount' = mount, stack' = stack, held' = held, tree' = tree, left' \subseteq left,
         uid' = uid, state' = state, late' = late, before' = before,
         \A i \in Inode \ J : owner'[i] = owner[i] /\ mode'[i] = mode[i],
         \A i \in J : /\ owner'[i] = uid /\ mode'[i].owner
                      /\ i = state.inode \/ \E n \in Name : entries[state.inode][n] = i,
         \A n \in left \ left' : entries[state.inode][n] \in J \cup {None}
  PROVE  IInv'
<1>1. TypeInv /\ EntriesInv /\ StateInv /\ HeldInv /\ TreeInv /\ ModeInv /\ StackInv /\ HandInv /\ SecludedInv
  BY IInvParts
<1>2. stack = <<>> /\ DOMAIN stack = {} /\ held.at = "none" /\ state.inode \in Dirs \ Roots /\ MountOf[state.inode] = 1
  BY <1>1 DEF StackInv, HeldInv, StateInv
<1>3. TypeInv'
  BY <1>1 DEF TypeInv
<1>4. EntriesInv'
  BY <1>1 DEF EntriesInv
<1>5. StateInv'
  BY <1>2 DEF StateInv
<1>6. HeldInv'
  BY <1>2 DEF HeldInv
<1>7. TreeInv'
  BY <1>1 DEF TreeInv, Founded
<1>8. ModeInv'
  <2>1. ASSUME NEW m \in Mounts, NEW e \in tree[m], Kind[e[2]] # "link", before[e[2]] # None PROVE mode'[e[2]].owner
    <3>1. e[2] \in Inode
      BY <1>1 DEF TypeInv
    <3>2. mode[e[2]].owner
      BY <1>1, <1>2, <2>1 DEF ModeInv
    <3> QED BY <3>1, <3>2
  <2> QED BY <2>1 DEF ModeInv
<1>9. StackInv' /\ FrameInv' /\ RootedInv' /\ AccessInv' /\ ReadInv' /\ PlaceInv'
  BY <1>2 DEF StackInv, FrameInv, RootedInv, AccessInv, ReadInv, PlaceInv
<1>10. HandInv'
  <2> SUFFICES ASSUME uid # Admin PROVE \E S \in SUBSET Inode : Handed(S)'
    BY DEF HandInv
  <2>1. PICK S \in SUBSET Inode : Handed(S)
    BY <1>1 DEF HandInv
  <2>2. ASSUME NEW i \in Inode, Good(i) PROVE owner'[i] = uid /\ (Kind[i] # "link" /\ before[i] # None => mode'[i].owner)
    BY <2>2 DEF Good
  <2>3. \A m \in Mounts : Verifying(m) /\ Verifying(m)'
    BY DEF Verifying
  <2>4. ASSUME NEW m \in Mounts PROVE Root[m] \in S /\ Good(Root[m])'
    <3>1. Root[m] \in S /\ Good(Root[m])
      BY <2>1, <2>3 DEF Handed
    <3> QED BY <2>2, <3>1 DEF Good
  <2>5. ASSUME NEW c \in S \cap Dirs, NEW n \in Name PROVE EntryOK(S, c, n)'
    <3> DEFINE i == entries[c][n]
    <3>1. i \in Inode \cup {None}
      BY <1>1 DEF TypeInv
    <3>2. EntryOK(S, c, n)
      BY <2>1 DEF Handed
    <3>3. i \in {None} \cup late \/ ((Good(i) \/ (c = state.inode /\ n \in left)) /\ (Kind[i] # "dir" \/ i \in S))
      BY <1>2, <3>2 DEF EntryOK
    <3>4. i \in {None} \cup late \/ Good(i)' \/ (c = state.inode /\ n \in left')
      <4>1. ASSUME c = state.inode, n \in left \ left', i # None PROVE Good(i)'
        BY <4>1 DEF Good
      <4>2. ASSUME Good(i), i # None PROVE Good(i)'
        BY <2>2, <3>1, <4>2 DEF Good
      <4> QED BY <3>3, <4>1, <4>2
    <3> QED BY <3>3, <3>4 DEF EntryOK
  <2>6. \A c \in S \cap Dirs : Verifying(MountOf[c])'
    BY DEF Verifying
  <2>7. Handed(S)'
    BY <1>2, <2>4, <2>5, <2>6 DEF Handed
  <2> QED BY <2>7
<1>11. SecludedInv'
  <2>1. PICK X \in SUBSET Dirs : Secluded(X)
    BY <1>1 DEF SecludedInv
  <2> DEFINE Y == X \cup J
  <2>2. Y \in SUBSET Dirs
    OBVIOUS
  <2>3. ASSUME NEW i \in J
        PROVE  /\ i \notin Roots /\ MountOf[i] = 1
               /\ i # state.inode => \A d \in Dirs, n \in Name : entries[d][n] = i => d = state.inode
    <3>1. CASE i = state.inode
      BY <1>2, <3>1
    <3>2. CASE i # state.inode
      <4>1. PICK n \in Name : entries[state.inode][n] = i
        BY <3>2
      <4>2. i # None /\ i \in Dirs
        BY KindFacts
      <4> QED BY <1>1, <1>2, <3>2, <4>1, <4>2 DEF EntriesInv
    <3> QED BY <3>1, <3>2
  <2>4. state.inode \in X /\ X \cap Roots = {} /\ (\A i \in X : MountOf[i] = 1)
        /\ (\A i \in X \ {state.inode} : i \in late \/ \A d \in Dirs, n \in Name : entries[d][n] = i => d \in X)
        /\ (\A i \in Inode : AsFound(mode[i], i) \/ i \in X)
    BY <2>1 DEF Secluded
  <2>5. state.inode \in Y /\ Y \cap Roots = {} /\ (\A i \in Y : MountOf[i] = 1)
    BY <2>3, <2>4
  <2>6. ASSUME NEW i \in Y \ {state.inode}, i \notin late, NEW d \in Dirs, NEW n \in Name, entries[d][n] = i PROVE d \in Y
    BY <2>3, <2>4, <2>6
  <2>7. \A i \in Inode : AsFound(mode'[i], i) \/ i \in Y
    BY <2>4 DEF AsFound
  <2> HIDE DEF Y
  <2>8. Secluded(Y)'
    BY <2>5, <2>6, <2>7 DEF Secluded, AsFound
  <2> QED BY <2>2, <2>8 DEF SecludedInv
<1> QED BY <1>3, <1>4, <1>5, <1>6, <1>7, <1>8, <1>9, <1>10, <1>11 DEF IInv, FileInv, WalkInv

LEMMA SecuredFacts ==
  ASSUME TypeInv, NEW i \in Dirs, Secured(i)
  PROVE  /\ owner' \in [Inode -> Uid] /\ mode' \in [Inode -> Modes]
         /\ owner'[i] = uid /\ mode'[i].owner
         /\ \A j \in Inode \ {i} : owner'[j] = owner[j] /\ mode'[j] = mode[j]
<1>1. PrivateMode \in Modes /\ PrivateMode.owner
  BY DEF PrivateMode, Modes
<1>2. i \in Inode
  BY KindFacts
<1> QED BY <1>1, <1>2 DEF TypeInv, Secured

LEMMA PrivateStateKeeps == ASSUME IInv, PrivateState PROVE IInv'
<1>1. /\ pc = "private" /\ Secured(state.inode) /\ pc' = "directories" /\ entries' = entries
      /\ mount' = mount /\ stack' = stack /\ held' = held /\ tree' = tree /\ left' = left
      /\ uid' = uid /\ state' = state /\ late' = late /\ before' = before
  BY DEF PrivateState, walk, Same
<1>2. TypeInv /\ state.inode \in Dirs
  BY <1>1, IInvParts DEF StateInv
<1>3. /\ owner' \in [Inode -> Uid] /\ mode' \in [Inode -> Modes]
      /\ owner'[state.inode] = uid /\ mode'[state.inode].owner
      /\ \A j \in Inode \ {state.inode} : owner'[j] = owner[j] /\ mode'[j] = mode[j]
  BY <1>1, <1>2, SecuredFacts
<1> DEFINE J == {state.inode}
<1>4. PICK K \in SUBSET Dirs : K = J
  BY <1>2
<1> QED BY <1>1, <1>3, <1>4, PrivateKeeps

LEMMA PrivateMissingKeeps == ASSUME IInv, NEW n \in Name, PrivateMissing(n) PROVE IInv'
<1>1. /\ pc = "directories" /\ pc' = "directories" /\ entries' = entries /\ owner' = owner /\ mode' = mode
      /\ mount' = mount /\ stack' = stack /\ held' = held /\ tree' = tree /\ left' = left \ {n}
      /\ uid' = uid /\ state' = state /\ late' = late /\ before' = before
      /\ entries[state.inode][n] = None
  BY DEF PrivateMissing, disk, Same
<1>2. owner' \in [Inode -> Uid] /\ mode' \in [Inode -> Modes]
  BY <1>1, IInvParts DEF TypeInv
<1>3. left' \subseteq left /\ \A o \in left \ left' : entries[state.inode][o] \in {} \cup {None}
  BY <1>1
<1>4. PICK J \in SUBSET Dirs : J = {}
  OBVIOUS
<1>5. /\ \A i \in Inode \ J : owner'[i] = owner[i] /\ mode'[i] = mode[i]
      /\ \A i \in J : FALSE
      /\ \A o \in left \ left' : entries[state.inode][o] \in J \cup {None}
  BY <1>1, <1>3, <1>4
<1> QED BY <1>1, <1>2, <1>3, <1>5, PrivateKeeps

LEMMA PrivateDirectoryKeeps == ASSUME IInv, NEW n \in Name, PrivateDirectory(n) PROVE IInv'
<1> DEFINE i == entries[state.inode][n]
<1>1. /\ pc = "directories" /\ pc' = "directories" /\ i \in Dirs /\ Secured(i) /\ entries' = entries
      /\ mount' = mount /\ stack' = stack /\ held' = held /\ tree' = tree /\ left' = left \ {n}
      /\ uid' = uid /\ state' = state /\ late' = late /\ before' = before
  BY DEF PrivateDirectory, Same
<1>2. PICK j \in Dirs : j = entries[state.inode][n]
  BY <1>1
<1>3. /\ owner' \in [Inode -> Uid] /\ mode' \in [Inode -> Modes]
      /\ owner'[j] = uid /\ mode'[j].owner
      /\ \A k \in Inode \ {j} : owner'[k] = owner[k] /\ mode'[k] = mode[k]
  BY <1>1, <1>2, IInvParts, SecuredFacts
<1>4. left' \subseteq left /\ \A o \in left \ left' : entries[state.inode][o] \in {j} \cup {None}
  BY <1>1, <1>2
<1>5. {j} \in SUBSET Dirs /\ \A k \in {j} : \E o \in Name : entries[state.inode][o] = k
  BY <1>2
<1> HIDE DEF i
<1> QED BY <1>1, <1>3, <1>4, <1>5, PrivateKeeps

LEMMA FinishKeeps == ASSUME IInv, Finish PROVE IInv'
<1>1. /\ pc = "directories" /\ left = {} /\ pc' = "done" /\ tree' = [m \in Mounts |-> {}]
      /\ entries' = entries /\ owner' = owner /\ mode' = mode
      /\ mount' = mount /\ stack' = stack /\ held' = held /\ left' = left
      /\ uid' = uid /\ state' = state /\ late' = late /\ before' = before
  BY DEF Finish, disk, Same
<1>2. TypeInv /\ EntriesInv /\ StateInv /\ HeldInv /\ StackInv /\ HandInv /\ SecludedInv
  BY IInvParts
<1>3. stack = <<>> /\ DOMAIN stack = {} /\ held.at = "none"
  BY <1>1, <1>2 DEF StackInv, HeldInv
<1>4. TypeInv'
  BY <1>1, <1>2 DEF TypeInv
<1>5. EntriesInv' /\ StateInv'
  BY <1>1, <1>2 DEF EntriesInv, StateInv
<1>6. \A m \in Mounts : tree'[m] = {}
  BY <1>1
<1>7. HeldInv' /\ TreeInv' /\ RootedInv' /\ ModeInv' /\ StackInv' /\ FrameInv'
  BY <1>1, <1>3, <1>6 DEF HeldInv, TreeInv, RootedInv, ModeInv, StackInv, FrameInv
<1>8. SecludedInv'
  BY <1>1, <1>2 DEF SecludedInv, Secluded, AsFound
<1>9. HandInv'
  <2> SUFFICES ASSUME uid # Admin PROVE \E S \in SUBSET Inode : Handed(S)'
    BY <1>1 DEF HandInv
  <2>1. PICK S \in SUBSET Inode : Handed(S)
    BY <1>1, <1>2 DEF HandInv
  <2>2. \A m : Verifying(m) /\ Verifying(m)'
    BY <1>1 DEF Verifying
  <2>3. \A c \in Dirs, n \in Name : EntryOK(S, c, n)' <=> EntryOK(S, c, n)
    BY <1>1 DEF EntryOK, Good
  <2>4. \A i : Good(i)' <=> Good(i)
    BY <1>1 DEF Good
  <2>5. \A m \in Mounts : Root[m] \in S /\ Good(Root[m])'
    BY <2>1, <2>2, <2>4 DEF Handed
  <2>6. Handed(S)'
    BY <1>1, <1>3, <2>1, <2>2, <2>3, <2>5 DEF Handed
  <2> QED BY <2>6
<1> QED BY <1>1, <1>4, <1>5, <1>7, <1>8, <1>9 DEF IInv, FileInv, WalkInv, AccessInv, ReadInv, PlaceInv

LEMMA MakeDirectoryKeeps == ASSUME IInv, NEW n \in Name, MakeDirectory(n) PROVE IInv'
<1>1. /\ pc = "directories" /\ pc' = pc /\ n \in left /\ entries[state.inode][n] = None
      /\ mount' = mount /\ stack' = stack /\ held' = held /\ tree' = tree /\ left' = left
      /\ uid' = uid /\ state' = state /\ late' = late /\ before' = before
  BY DEF MakeDirectory, walk, Same
<1>2. PICK i \in Free : i # state.inode /\ Make(state.inode, n, i)
  BY DEF MakeDirectory
<1>3. TypeInv /\ EntriesInv /\ StateInv /\ HeldInv /\ TreeInv /\ ModeInv /\ StackInv /\ HandInv /\ SecludedInv
  BY IInvParts
<1>4. stack = <<>> /\ DOMAIN stack = {} /\ held.at = "none" /\ state.inode \in Dirs \ Roots /\ MountOf[state.inode] = 1
  BY <1>1, <1>3 DEF StackInv, HeldInv, StateInv
<1>5. /\ i \in Dirs \ (OtherDevice \cup Roots) /\ i \in Inode /\ MountOf[i] = 1
      /\ entries' \in [Dirs -> [Name -> Inode \cup {None}]]
      /\ \A c \in Dirs, o \in Name : entries'[c][o] = IF c = state.inode /\ o = n THEN i ELSE entries[c][o]
      /\ \A c \in Dirs, o \in Name : entries[c][o] # i
      /\ \A o \in Name : entries[i][o] = None
      /\ owner' \in [Inode -> Uid] /\ mode' \in [Inode -> Modes] /\ mode'[i].owner
      /\ \A j \in Inode \ {i} : owner'[j] = owner[j] /\ mode'[j] = mode[j]
      /\ EntriesInv'
  BY <1>2, <1>3, <1>4, MakeFacts
<1>6. entries \in [Dirs -> [Name -> Inode \cup {None}]]
  BY <1>3 DEF TypeInv
<1>7. i # None
  BY <1>5, KindFacts
<1>8. TypeInv'
  BY <1>1, <1>3, <1>5 DEF TypeInv
<1>10. StateInv' /\ HeldInv'
  BY <1>1, <1>4 DEF StateInv, HeldInv
<1>11. TreeInv'
  BY <1>1, <1>3 DEF TreeInv, Founded
<1>12. ModeInv'
  <2>1. ASSUME NEW m \in Mounts, NEW e \in tree[m], Kind[e[2]] # "link", before[e[2]] # None PROVE mode'[e[2]].owner
    <3>1. e[2] \in Inode
      BY <1>3 DEF TypeInv
    <3>2. mode[e[2]].owner
      BY <1>3, <1>4, <2>1 DEF ModeInv
    <3> QED BY <1>5, <3>1, <3>2
  <2> QED BY <1>1, <2>1 DEF ModeInv
<1>13. StackInv' /\ FrameInv' /\ RootedInv' /\ AccessInv' /\ ReadInv' /\ PlaceInv'
  BY <1>1, <1>4 DEF StackInv, FrameInv, RootedInv, AccessInv, ReadInv, PlaceInv
<1>14. HandInv'
  <2> SUFFICES ASSUME uid # Admin PROVE \E S \in SUBSET Inode : Handed(S)'
    BY <1>1 DEF HandInv
  <2>1. PICK S \in SUBSET Inode : Handed(S)
    BY <1>1, <1>3 DEF HandInv
  <2>2. \A m \in Mounts : Verifying(m) /\ Verifying(m)'
    BY <1>1 DEF Verifying
  <2>3. ASSUME NEW j \in Inode \ {i}, Good(j) PROVE Good(j)'
    BY <1>1, <1>5, <2>3 DEF Good
  <2>4. ASSUME NEW m \in Mounts PROVE Root[m] \in S \cup {i} /\ Good(Root[m])'
    <3>1. Root[m] \in S /\ Good(Root[m]) /\ Root[m] \in Inode \ {i}
      BY <1>5, <2>1, <2>2, RootFacts, KindFacts DEF Handed
    <3> QED BY <2>3, <3>1
  <2>5. ASSUME NEW c \in (S \cup {i}) \cap Dirs, NEW o \in Name PROVE EntryOK(S \cup {i}, c, o)'
    <3>1. CASE c = i
      <4>1. entries'[c][o] = None
        BY <1>2, <1>5, <3>1
      <4> QED BY <4>1 DEF EntryOK
    <3>2. CASE c = state.inode /\ o = n
      <4>1. entries'[c][o] = i /\ i \in S \cup {i} /\ c = state'.inode /\ o \in left'
        BY <1>1, <1>5, <3>2
      <4> QED BY <4>1 DEF EntryOK
    <3>3. CASE c # i /\ ~(c = state.inode /\ o = n)
      <4>1. entries'[c][o] = entries[c][o] /\ entries[c][o] # i /\ entries[c][o] \in Inode \cup {None}
        BY <1>5, <1>6, <3>3
      <4>2. EntryOK(S, c, o)
        BY <2>1, <3>3 DEF Handed
      <4>3. entries[c][o] # None /\ Good(entries[c][o]) => Good(entries[c][o])'
        <5>1. entries[c][o] # None /\ Good(entries[c][o]) => entries[c][o] \in Inode \ {i}
          BY <4>1
        <5> QED BY <1>1, <1>5, <4>1, <5>1 DEF Good
      <4> QED BY <1>1, <1>4, <4>1, <4>2, <4>3 DEF EntryOK
    <3> QED BY <3>1, <3>2, <3>3
  <2>6. \A c \in (S \cup {i}) \cap Dirs : Verifying(MountOf[c])'
    BY <1>1 DEF Verifying
  <2>7. Handed(S \cup {i})'
    BY <1>1, <1>4, <2>4, <2>5, <2>6 DEF Handed
  <2>8. S \cup {i} \in SUBSET Inode
    BY <1>5
  <2> QED BY <2>7, <2>8
<1>15. SecludedInv'
  <2>1. PICK X \in SUBSET Dirs : Secluded(X)
    BY <1>1, <1>3 DEF SecludedInv
  <2> DEFINE Y == X \cup {i}
  <2>2. Y \in SUBSET Dirs
    BY <1>5
  <2>3. state.inode \in X /\ X \cap Roots = {} /\ (\A j \in X : MountOf[j] = 1)
        /\ (\A j \in X \ {state.inode} : j \in late \/ \A d \in Dirs, o \in Name : entries[d][o] = j => d \in X)
        /\ (\A j \in Inode : AsFound(mode[j], j) \/ j \in X)
    BY <2>1 DEF Secluded
  <2>4. state.inode \in Y /\ Y \cap Roots = {} /\ (\A j \in Y : MountOf[j] = 1)
    BY <1>5, <2>3
  <2>5. ASSUME NEW j \in Y \ {state.inode}, j \notin late, NEW d \in Dirs, NEW o \in Name, entries'[d][o] = j PROVE d \in Y
    BY <1>5, <2>3, <2>5
  <2>6. \A j \in Inode : AsFound(mode'[j], j) \/ j \in Y
    BY <1>5, <2>3 DEF AsFound
  <2> HIDE DEF Y
  <2>7. Secluded(Y)'
    BY <1>1, <2>4, <2>5, <2>6 DEF Secluded, AsFound
  <2> QED BY <2>2, <2>7 DEF SecludedInv
<1> QED BY <1>5, <1>8, <1>10, <1>11, <1>12, <1>13, <1>14, <1>15 DEF IInv, FileInv, WalkInv

(* Others may take what is there and, once the verification of its mount has begun, put or
   give away only what becomes late. *)
LEMMA OthersKeep ==
  ASSUME IInv, EntriesInv',
         entries' \in [Dirs -> [Name -> Inode \cup {None}]], owner' \in [Inode -> Uid],
         late' \in SUBSET Inode, late \subseteq late', mode' = mode, pc' = pc, walk' = walk,
         uid' = uid, state' = state, before' = before,
         \A c \in Dirs, n \in Name :
           entries'[c][n] \in {entries[c][n], None} \cup late' \/ ~Verifying(MountOf[c]),
         \A i \in Inode :
           \/ owner'[i] = owner[i]
           \/ /\ i \notin Roots
              /\ \A c \in Dirs, n \in Name : entries[c][n] = i /\ Verifying(MountOf[c]) => i \in late'
  PROVE  IInv'
<1>1. TypeInv /\ EntriesInv /\ StateInv /\ HeldInv /\ TreeInv /\ RootedInv /\ ModeInv /\ StackInv /\ FrameInv
      /\ HandInv /\ AccessInv /\ ReadInv /\ PlaceInv /\ SecludedInv
  BY IInvParts
<1>2. mount' = mount /\ stack' = stack /\ held' = held /\ tree' = tree /\ left' = left
  BY DEF walk
<1>3. TypeInv'
  BY <1>1, <1>2 DEF TypeInv
<1>4. StateInv' /\ RootedInv'
  BY <1>1, <1>2 DEF StateInv, RootedInv
<1>5. HeldInv'
  BY <1>1, <1>2 DEF HeldInv
<1>6. TreeInv'
  BY <1>1, <1>2 DEF TreeInv, Founded
<1>7. ModeInv' /\ StackInv'
  BY <1>1, <1>2 DEF ModeInv, StackInv
<1>8. AccessInv' /\ ReadInv'
  <2>1. Withheld' = Withheld
    BY <1>2 DEF Withheld
  <2> QED BY <1>1, <1>2, <2>1 DEF AccessInv, AsFound, ReadInv
<1>9. \A m : Verifying(m)' <=> Verifying(m)
  BY <1>2 DEF Verifying
<1>10. FrameInv'
  <2> SUFFICES ASSUME pc = "verify", NEW k \in DOMAIN stack
               PROVE  \A n \in Name : entries'[stack[k].dir][n] \in {stack[k].seen[n], None} \cup late'
    BY <1>1, <1>2 DEF FrameInv
  <2>1. stack \in Seq(FrameType) /\ stack # <<>> /\ mount \in Mounts
    BY <1>1 DEF TypeInv
  <2>2. stack[k].dir \in Dirs
    <3>1. stack[k] \in FrameType
      BY <2>1
    <3> QED BY <3>1 DEF FrameType
  <2> DEFINE e == <<stack[k].path, stack[k].dir>>
  <2>3. e \in tree[mount] /\ e[2] = stack[k].dir
    BY <1>1 DEF StackInv
  <2>4. MountOf[stack[k].dir] = mount
    BY <1>1, <2>1, <2>3 DEF TreeInv
  <2>5. Verifying(MountOf[stack[k].dir])
    BY <2>1, <2>4 DEF Verifying
  <2>6. \A n \in Name : entries[stack[k].dir][n] \in {stack[k].seen[n], None} \cup late
    BY <1>1 DEF FrameInv
  <2> QED BY <2>2, <2>5, <2>6
<1>11. HandInv'
  <2> SUFFICES ASSUME pc \in {"verify", "private", "directories", "done"}, uid # Admin
               PROVE  \E S \in SUBSET Inode : Handed(S)'
    BY DEF HandInv
  <2>1. PICK S \in SUBSET Inode : Handed(S)
    BY <1>1 DEF HandInv
  <2>2. ASSUME NEW i \in Inode, Good(i), owner'[i] = owner[i] PROVE Good(i)'
    BY <2>2 DEF Good
  <2>3. ASSUME NEW m \in Mounts, Verifying(m)' PROVE Root[m] \in S /\ Good(Root[m])'
    <3>1. Root[m] \in S /\ Good(Root[m]) /\ Root[m] \in Inode /\ Root[m] \in Roots
      BY <1>9, <2>1, <2>3, RootFacts, KindFacts DEF Handed
    <3> QED BY <2>2, <3>1
  <2>4. ASSUME NEW c \in S \cap Dirs, NEW n \in Name PROVE EntryOK(S, c, n)'
    <3>1. EntryOK(S, c, n) /\ Verifying(MountOf[c])
      BY <2>1 DEF Handed
    <3>2. entries'[c][n] \in {entries[c][n], None} \cup late'
      BY <3>1
    <3>3. CASE entries'[c][n] \in {None} \cup late'
      BY <3>3 DEF EntryOK
    <3>4. CASE entries'[c][n] = entries[c][n] /\ entries[c][n] \notin {None} \cup late'
      <4>1. entries[c][n] \in Inode
        BY <1>1, <3>4 DEF TypeInv
      <4>2. owner'[entries[c][n]] = owner[entries[c][n]]
        BY <3>1, <3>4, <4>1
      <4>3. Good(entries[c][n]) => Good(entries[c][n])'
        BY <3>4, <4>2 DEF Good
      <4>4. entries[c][n] \notin {None} \cup late
        BY <3>4
      <4> QED BY <1>2, <3>1, <3>4, <4>3, <4>4 DEF EntryOK
    <3> QED BY <3>2, <3>3, <3>4
  <2>5. \A c \in S \cap Dirs : Verifying(MountOf[c])'
    BY <1>9, <2>1 DEF Handed
  <2>6. Handed(S)'
    BY <1>2, <2>1, <2>3, <2>4, <2>5 DEF Handed
  <2> QED BY <2>6
<1>12. PlaceInv'
  <2> SUFFICES ASSUME pc = "verify", mount > 1 \/ stack # <<>>, NEW e \in tree[1], Len(e[1]) >= 2, e[2] \in Dirs
               PROVE  Placed(e)' \/ (mount = 1 /\ Remaining(e)')
    BY <1>2 DEF PlaceInv
  <2>1. Placed(e) \/ (mount = 1 /\ Remaining(e))
    BY <1>1 DEF PlaceInv
  <2>2. Remaining(e)' <=> Remaining(e)
    BY <1>2 DEF Remaining
  <2>3. CASE Placed(e)
    <3>1. mount \in Mounts /\ e[2] # None /\ MountOf[e[2]] = 1
      BY <1>1, RootFacts, KindFacts DEF TypeInv, TreeInv
    <3>2. Verifying(1)
      BY <3>1, RootFacts DEF Verifying
    <3>3. ASSUME e[2] \notin late', NEW d \in Dirs, NEW n \in Name, entries'[d][n] = e[2]
          PROVE  e[1] # <<>> /\ <<Parent(e[1]), d>> \in tree[1]
      <4>1. MountOf[d] = 1
        BY <3>1, <3>3 DEF EntriesInv
      <4>2. entries[d][n] = e[2]
        BY <3>1, <3>2, <3>3, <4>1
      <4> QED BY <2>3, <3>3, <4>2 DEF Placed
    <3> QED BY <1>2, <3>3 DEF Placed
  <2> QED BY <2>1, <2>2, <2>3
<1>13. SecludedInv'
  <2> SUFFICES ASSUME pc \in {"private", "directories", "done"} PROVE \E X \in SUBSET Dirs : Secluded(X)'
    BY DEF SecludedInv
  <2>1. PICK X \in SUBSET Dirs : Secluded(X)
    BY <1>1 DEF SecludedInv
  <2>2. \A m : Verifying(m)
    BY DEF Verifying
  <2>3. ASSUME NEW i \in X \ {state.inode}, i \notin late', NEW d \in Dirs, NEW n \in Name, entries'[d][n] = i
        PROVE  d \in X
    <3>1. i # None
      BY KindFacts
    <3>2. entries[d][n] = i
      BY <2>2, <2>3, <3>1
    <3> QED BY <2>1, <2>3, <3>2 DEF Secluded
  <2>4. Secluded(X)'
    BY <2>1, <2>3 DEF Secluded, AsFound
  <2> QED BY <2>4
<1> QED BY <1>3, <1>4, <1>5, <1>6, <1>7, <1>8, <1>10, <1>11, <1>12, <1>13 DEF IInv, FileInv, WalkInv

LEMMA PutKeeps ==
  ASSUME IInv, NEW d \in Dirs, NEW n \in Name, NEW i \in Inode, Put(d, n, i), UNCHANGED <<uid, state, pc, walk>>
  PROVE  IInv'
<1>1. /\ i \notin Linked /\ i \notin Roots /\ MountOf[i] = MountOf[d]
      /\ entries' = [entries EXCEPT ![d][n] = i] /\ owner' = owner /\ mode' = mode /\ before' = before
      /\ late' = IF Verifying(MountOf[d]) THEN late \cup {i} ELSE late
  BY DEF Put, Touched, Roots
<1>2. TypeInv /\ EntriesInv
  BY IInvParts
<1>3. /\ entries' \in [Dirs -> [Name -> Inode \cup {None}]]
      /\ \A c \in Dirs, o \in Name : entries'[c][o] = IF c = d /\ o = n THEN i ELSE entries[c][o]
  BY <1>1, <1>2 DEF TypeInv
<1>4. i # None /\ \A c \in Dirs, o \in Name : entries[c][o] # i
  BY <1>1, KindFacts DEF Linked
<1>5. EntriesInv'
  <2>1. ASSUME NEW c \in Dirs, NEW o \in Name, entries'[c][o] # None
        PROVE  MountOf[entries'[c][o]] = MountOf[c] /\ entries'[c][o] \notin Roots
    BY <1>1, <1>2, <1>3, <2>1 DEF EntriesInv
  <2>2. ASSUME NEW c \in Dirs, NEW o \in Name, entries'[c][o] \in Dirs,
               NEW b \in Dirs, NEW q \in Name, entries'[b][q] = entries'[c][o]
        PROVE  b = c /\ q = o
    <3>1. CASE (c = d /\ o = n) \/ (b = d /\ q = n)
      BY <1>3, <1>4, <2>2, <3>1
    <3>2. CASE ~(c = d /\ o = n) /\ ~(b = d /\ q = n)
      <4>1. entries[c][o] \in Dirs /\ entries[b][q] = entries[c][o]
        BY <1>3, <2>2, <3>2
      <4> QED BY <1>2, <4>1 DEF EntriesInv
    <3> QED BY <3>1, <3>2
  <2> QED BY <2>1, <2>2 DEF EntriesInv
<1>6. owner' \in [Inode -> Uid] /\ late' \in SUBSET Inode /\ late \subseteq late'
  BY <1>1, <1>2 DEF TypeInv
<1>7. \A c \in Dirs, o \in Name : entries'[c][o] \in {entries[c][o], None} \cup late' \/ ~Verifying(MountOf[c])
  BY <1>1, <1>3
<1> QED BY <1>1, <1>3, <1>5, <1>6, <1>7, OthersKeep

LEMMA TakeKeeps ==
  ASSUME IInv, NEW d \in Dirs, NEW n \in Name, Take(d, n), UNCHANGED <<uid, state, pc, walk>>
  PROVE  IInv'
<1>1. entries' = [entries EXCEPT ![d][n] = None] /\ owner' = owner /\ mode' = mode /\ late' = late /\ before' = before
  BY DEF Take
<1>2. TypeInv /\ EntriesInv
  BY IInvParts
<1>3. /\ entries' \in [Dirs -> [Name -> Inode \cup {None}]]
      /\ \A c \in Dirs, o \in Name : entries'[c][o] = IF c = d /\ o = n THEN None ELSE entries[c][o]
  BY <1>1, <1>2 DEF TypeInv
<1>4. \A c \in Dirs, o \in Name : entries'[c][o] # None => entries'[c][o] = entries[c][o]
  BY <1>3
<1>5. EntriesInv'
  <2>1. ASSUME NEW c \in Dirs, NEW o \in Name, entries'[c][o] # None
        PROVE  MountOf[entries'[c][o]] = MountOf[c] /\ entries'[c][o] \notin Roots
    BY <1>2, <1>4, <2>1 DEF EntriesInv
  <2>2. ASSUME NEW c \in Dirs, NEW o \in Name, entries'[c][o] \in Dirs,
               NEW b \in Dirs, NEW q \in Name, entries'[b][q] = entries'[c][o]
        PROVE  b = c /\ q = o
    <3>1. entries[c][o] \in Dirs /\ entries[b][q] = entries[c][o]
      BY <1>4, <2>2, KindFacts
    <3> QED BY <1>2, <3>1 DEF EntriesInv
  <2> QED BY <2>1, <2>2 DEF EntriesInv
<1>6. owner' \in [Inode -> Uid] /\ late' \in SUBSET Inode /\ late \subseteq late'
  BY <1>1, <1>2 DEF TypeInv
<1>7. \A c \in Dirs, o \in Name : entries'[c][o] \in {entries[c][o], None} \cup late' \/ ~Verifying(MountOf[c])
  BY <1>4
<1> QED BY <1>1, <1>3, <1>5, <1>6, <1>7, OthersKeep

LEMMA GiveAwayKeeps ==
  ASSUME IInv, NEW d \in Dirs, NEW n \in Name, NEW u \in Uid, GiveAway(d, n, u),
         UNCHANGED <<uid, state, pc, walk>>
  PROVE  IInv'
<1> DEFINE i == entries[d][n]
<1>1. /\ i # None /\ owner' = [owner EXCEPT ![i] = u] /\ entries' = entries /\ mode' = mode /\ before' = before
      /\ late' = IF Verifying(MountOf[d]) THEN late \cup {i} ELSE late
  BY DEF GiveAway, Touched
<1>2. TypeInv /\ EntriesInv
  BY IInvParts
<1>3. i \in Inode /\ MountOf[i] = MountOf[d] /\ i \notin Roots
  BY <1>1, <1>2 DEF TypeInv, EntriesInv
<1> HIDE DEF i
<1>4. /\ owner' \in [Inode -> Uid] /\ late' \in SUBSET Inode /\ late \subseteq late'
      /\ entries' \in [Dirs -> [Name -> Inode \cup {None}]]
  BY <1>1, <1>2, <1>3 DEF TypeInv
<1>5. EntriesInv'
  BY <1>1, <1>2 DEF EntriesInv
<1>6. \A c \in Dirs, o \in Name : entries[c][o] = i => MountOf[c] = MountOf[d]
  BY <1>1, <1>2, <1>3 DEF EntriesInv
<1>7. ASSUME NEW j \in Inode
      PROVE  \/ owner'[j] = owner[j]
             \/ /\ j \notin Roots
                /\ \A c \in Dirs, o \in Name : entries[c][o] = j /\ Verifying(MountOf[c]) => j \in late'
  <2>1. CASE j = i
    BY <1>1, <1>3, <1>6, <2>1
  <2>2. CASE j # i
    BY <1>1, <1>2, <2>2 DEF TypeInv
  <2> QED BY <2>1, <2>2
<1>8. \A c \in Dirs, o \in Name : entries'[c][o] \in {entries[c][o], None} \cup late' \/ ~Verifying(MountOf[c])
  BY <1>1
<1> QED BY <1>1, <1>4, <1>5, <1>7, <1>8, OthersKeep

(* A mode that others change had not been read, and is what the walk will find; or it is no
   longer one that was found. *)
LEMMA ChangeModeKeeps ==
  ASSUME IInv, NEW d \in Dirs, NEW n \in Name, NEW md \in GivenModes, ChangeMode(d, n, md),
         UNCHANGED <<uid, state, pc, walk>>
  PROVE  IInv'
<1> DEFINE i == entries[d][n]
<1>1. /\ i # None /\ mode' = [mode EXCEPT ![i] = md]
      /\ before' = [before EXCEPT ![i] = IF ModeRead(i) THEN None ELSE md]
      /\ entries' = entries /\ owner' = owner /\ late' = late /\ uid' = uid /\ state' = state /\ pc' = pc
      /\ mount' = mount /\ stack' = stack /\ held' = held /\ tree' = tree /\ left' = left
  BY DEF ChangeMode, walk
<1>2. /\ TypeInv /\ EntriesInv /\ StateInv /\ HeldInv /\ TreeInv /\ RootedInv /\ ModeInv /\ StackInv /\ FrameInv
      /\ HandInv /\ AccessInv /\ ReadInv /\ PlaceInv /\ SecludedInv
  BY IInvParts
<1>3. i \in Inode /\ md \in Modes
  BY <1>1, <1>2, IdentityAssumption DEF TypeInv
<1>4. before'[i] = None \/ (~ModeRead(i) /\ before'[i] = mode'[i])
  BY <1>1, <1>2, <1>3 DEF TypeInv
<1> HIDE DEF i
<1>5. /\ mode' \in [Inode -> Modes] /\ before' \in [Inode -> Modes \cup {None}]
      /\ \A j \in Inode \ {i} : mode'[j] = mode[j] /\ before'[j] = before[j]
  BY <1>1, <1>2, <1>3 DEF TypeInv
<1>6. ASSUME NEW j \in Inode, AsFound(mode[j], j) PROVE AsFound(mode[j], j)'
  BY <1>4, <1>5, <1>6 DEF AsFound, SameAccess
<1>7. ASSUME NEW j \in Inode, ModeRead(j)
      PROVE  before'[j] = None \/ (mode'[j] = mode[j] /\ before'[j] = before[j])
  BY <1>4, <1>5, <1>7
<1>8. TypeInv' /\ EntriesInv' /\ StateInv' /\ HeldInv' /\ TreeInv' /\ RootedInv' /\ StackInv'
  <2>1. TypeInv'
    BY <1>1, <1>2, <1>5 DEF TypeInv
  <2>2. EntriesInv' /\ StateInv'
    BY <1>1, <1>2 DEF EntriesInv, StateInv
  <2>3. HeldInv' /\ TreeInv' /\ RootedInv' /\ StackInv'
    BY <1>1, <1>2 DEF HeldInv, TreeInv, Founded, RootedInv, StackInv
  <2> QED BY <2>1, <2>2, <2>3
<1>9. ModeInv'
  <2> SUFFICES ASSUME NEW m \in Mounts, NEW e \in tree[m], Kind[e[2]] # "link"
               PROVE  mode'[e[2]].owner \/ before'[e[2]] = None \/ (held.at \in {"chown", "chmod"} /\ held.inode = e[2])
    BY <1>1 DEF ModeInv
  <2>1. e[2] \in Inode
    BY <1>2 DEF TypeInv
  <2>2. ModeRead(e[2])
    BY DEF ModeRead
  <2> QED BY <1>2, <1>7, <2>1, <2>2 DEF ModeInv
<1>10. held.at \in {"chown", "chmod"} => held.inode \in Inode /\ ModeRead(held.inode)
  <2> SUFFICES ASSUME held.at \in {"chown", "chmod"} PROVE held.inode \in Inode /\ ModeRead(held.inode)
    OBVIOUS
  <2> DEFINE e == <<held.path, held.inode>>
  <2>1. held.inode \in Inode /\ e \in tree[mount] /\ mount \in Mounts
    BY <1>2 DEF HeldInv, TypeInv
  <2>2. e[2] = held.inode
    OBVIOUS
  <2> HIDE DEF e
  <2> QED BY <2>1, <2>2 DEF ModeRead
<1>11. Withheld' = Withheld
  BY <1>1 DEF Withheld
<1>12. AccessInv'
  <2> SUFFICES ASSUME pc \in {"migrate", "verify"} PROVE AccessInv'
    BY <1>1 DEF AccessInv
  <2>1. \A j \in Inode :
          \/ AsFound(mode[j], j)' \/ j \in Withheld
          \/ held.at = "chmod" /\ held.inode = j /\ Kind[j] = "file"
    BY <1>2, <1>6 DEF AccessInv
  <2>2. held.at \in {"chown", "chmod"} => AsFound(held.target, held.inode)' \/ held.inode \in Withheld
    BY <1>1, <1>2, <1>7, <1>10 DEF AccessInv, AsFound
  <2> QED BY <1>1, <1>11, <2>1, <2>2 DEF AccessInv
<1>13. ReadInv'
  <2> SUFFICES ASSUME pc = "migrate" PROVE ReadInv'
    BY <1>1 DEF ReadInv
  <2>1. state.inode \in Inode /\ ModeRead(state.inode)
    BY <1>2, KindFacts DEF StateInv, ModeRead
  <2>2. before'[state.inode] # None /\ state.mode.owner => mode'[state.inode].owner
    BY <1>2, <1>7, <2>1 DEF ReadInv
  <2>3. held.at \in {"chown", "chmod"} /\ before'[held.inode] # None =>
          /\ held.mode.owner => mode'[held.inode].owner
          /\ SameAccess(held.mode, mode'[held.inode]) \/ held.inode \in Withheld
    BY <1>2, <1>7, <1>10 DEF ReadInv
  <2> QED BY <1>1, <1>11, <2>2, <2>3 DEF ReadInv
<1>14. FrameInv' /\ PlaceInv'
  BY <1>1, <1>2 DEF FrameInv, PlaceInv, Placed, Remaining
<1>15. \A m : Verifying(m)' <=> Verifying(m)
  BY <1>1 DEF Verifying
<1>16. HandInv'
  <2> SUFFICES ASSUME pc \in {"verify", "private", "directories", "done"}, uid # Admin
               PROVE  \E S \in SUBSET Inode : Handed(S)'
    BY <1>1 DEF HandInv
  <2>1. PICK S \in SUBSET Inode : Handed(S)
    BY <1>2 DEF HandInv
  <2>2. ASSUME NEW j \in Inode, Good(j)
        PROVE  owner'[j] = uid' /\ (Kind[j] # "link" /\ before'[j] # None => mode'[j].owner)
    <3>1. ModeRead(j)
      BY DEF ModeRead
    <3> QED BY <1>1, <1>7, <2>2, <3>1 DEF Good
  <2>3. ASSUME NEW m \in Mounts, Verifying(m)' PROVE Root[m] \in S /\ Good(Root[m])'
    <3>1. Root[m] \in S /\ Good(Root[m]) /\ Root[m] \in Inode
      BY <1>15, <2>1, <2>3, RootFacts, KindFacts DEF Handed
    <3> QED BY <2>2, <3>1 DEF Good
  <2>4. ASSUME NEW c \in S \cap Dirs, NEW o \in Name PROVE EntryOK(S, c, o)'
    <3>1. EntryOK(S, c, o) /\ entries[c][o] \in Inode \cup {None}
      BY <1>2, <2>1 DEF Handed, TypeInv
    <3>2. entries[c][o] # None /\ Good(entries[c][o]) => Good(entries[c][o])'
      BY <1>1, <2>2, <3>1 DEF Good
    <3> QED BY <1>1, <3>1, <3>2 DEF EntryOK
  <2>5. \A c \in S \cap Dirs : Verifying(MountOf[c])'
    BY <1>15, <2>1 DEF Handed
  <2>6. Handed(S)'
    BY <1>1, <2>1, <2>3, <2>4, <2>5 DEF Handed
  <2> QED BY <2>6
<1>17. SecludedInv'
  <2> SUFFICES ASSUME pc \in {"private", "directories", "done"} PROVE \E X \in SUBSET Dirs : Secluded(X)'
    BY <1>1 DEF SecludedInv
  <2>1. PICK X \in SUBSET Dirs : Secluded(X)
    BY <1>2 DEF SecludedInv
  <2>2. \A j \in Inode : AsFound(mode[j], j)' \/ j \in X
    BY <1>6, <2>1 DEF Secluded
  <2>3. Secluded(X)'
    BY <1>1, <2>1, <2>2 DEF Secluded
  <2> QED BY <2>3
<1> QED BY <1>8, <1>9, <1>12, <1>13, <1>14, <1>16, <1>17 DEF IInv, FileInv, WalkInv

LEMMA EditKeeps == ASSUME IInv, Edit PROVE IInv'
<1>1. UNCHANGED <<uid, state, pc, walk>>
  BY DEF Edit
<1>2. PICK d \in Dirs \ OtherDevice, n \in Name :
        \/ \E i \in Inode : Put(d, n, i)
        \/ Take(d, n)
        \/ \E u \in Uid : GiveAway(d, n, u)
        \/ \E md \in GivenModes : ChangeMode(d, n, md)
  BY DEF Edit
<1> QED BY <1>1, <1>2, PutKeeps, TakeKeeps, GiveAwayKeeps, ChangeModeKeeps

LEMMA StutterKeeps == ASSUME IInv, UNCHANGED vars PROVE IInv'
<1>1. /\ entries' = entries /\ owner' = owner /\ mode' = mode /\ late' = late /\ pc' = pc /\ walk' = walk
      /\ uid' = uid /\ state' = state /\ before' = before
  BY DEF vars, disk
<1>2. TypeInv /\ EntriesInv
  BY IInvParts
<1>3. EntriesInv'
  BY <1>1, <1>2 DEF EntriesInv
<1> QED BY <1>1, <1>2, <1>3, OthersKeep DEF TypeInv

LEMMA StepKeeps == IInv /\ [Next]_vars => IInv'
<1> SUFFICES ASSUME IInv, [Next]_vars PROVE IInv'
  OBVIOUS
<1>1. CASE OpenRefused \/ CheckRefused \/ LeaveRefused \/ VerifyRefused \/ FinishRefused \/ Fails
  <2>1. Stop
    BY <1>1 DEF OpenRefused, CheckRefused, LeaveRefused, VerifyRefused, FinishRefused, Fails
  <2> QED BY <2>1, StopKeeps
<1>2. CASE \E n \in Name : PrivateMissing(n) \/ MakeDirectory(n) \/ PrivateDirectory(n)
  BY <1>2, PrivateMissingKeeps, MakeDirectoryKeeps, PrivateDirectoryKeeps
<1>3. CASE Begin \/ End
  BY <1>3, BeginKeeps, EndKeeps
<1>4. CASE OpenRoot \/ OpenEntry \/ Chown \/ Chmod \/ Enter \/ Repaired \/ Leave
  BY <1>4, OpenRootKeeps, OpenEntryKeeps, ChownKeeps, ChmodKeeps, EnterKeeps, RepairedKeeps, LeaveKeeps
<1>5. CASE VerifyRoot \/ VerifyEntry \/ VerifyLeave
  BY <1>5, VerifyRootKeeps, VerifyEntryKeeps, VerifyLeaveKeeps
<1>6. CASE PrivateState \/ Finish \/ Edit
  BY <1>6, PrivateStateKeeps, FinishKeeps, EditKeeps
<1>7. CASE UNCHANGED vars
  BY <1>7, StutterKeeps
<1> QED BY <1>1, <1>2, <1>3, <1>4, <1>5, <1>6, <1>7 DEF Next

-----------------------------------------------------------------------------
(* The theorems *)

(* prepareOwnership keeps the invariant in every walk, edit by others and stop. *)
THEOREM Invariance == Spec => []IInv
<1>1. Init => IInv
  BY InitKeeps
<1>2. IInv /\ [Next]_vars => IInv'
  BY StepKeeps
<1> QED BY <1>1, <1>2, PTL DEF Spec

LEMMA ChildrenFacts ==
  ASSUME TypeInv, NEW D \in SUBSET Dirs, NEW i \in Children(D)
  PROVE  i \in Inode /\ i \notin late /\ \E d \in D, n \in Name : entries[d][n] = i
<1>1. i \notin {None} \cup late /\ \E d \in D, n \in Name : entries[d][n] = i
  BY DEF Children
<1> QED BY <1>1 DEF TypeInv

(* A completed start has everything in order that it did not miss: what was verified is,
   and so are its children, down to the depth that is looked at. *)
LEMMA HandedOverHolds == IInv => HandedOver
<1> SUFFICES ASSUME IInv, pc = "done", uid # Admin, NEW m \in Mounts, NEW i \in Tree(m)
             PROVE  owner[i] = uid /\ (Kind[i] # "link" /\ before[i] # None => mode[i].owner)
  BY DEF HandedOver
<1>1. TypeInv /\ left = {} /\ DOMAIN stack = {}
  BY IInvParts DEF StateInv, StackInv
<1>2. PICK S \in SUBSET Inode : Handed(S)
  BY IInvParts DEF HandInv
<1>3. ASSUME NEW D \in SUBSET (S \cap Dirs), NEW c \in Children(D)
      PROVE  Good(c) /\ (c \in Dirs => c \in S)
  <2>1. PICK d \in D, n \in Name : entries[d][n] = c
    BY <1>1, <1>3, ChildrenFacts
  <2>2. c \in Inode /\ c \notin late /\ c # None
    BY <1>1, <1>3, ChildrenFacts, KindFacts
  <2>3. EntryOK(S, d, n)
    BY <1>2, <1>3, <2>1 DEF Handed
  <2>4. Good(c) /\ (Kind[c] # "dir" \/ c \in S)
    BY <1>1, <2>1, <2>2, <2>3 DEF EntryOK
  <2> QED BY <2>2, <2>4, KindFacts
<1> DEFINE one == Children({Root[m]})
           two == Children(one \cap Dirs)
           three == Children(two \cap Dirs)
<1>4. Verifying(m)
  BY DEF Verifying
<1>5. Root[m] \in S \cap Dirs /\ Good(Root[m])
  BY <1>2, <1>4, RootFacts DEF Handed
<1>6. \A c \in one : Good(c) /\ (c \in Dirs => c \in S)
  BY <1>3, <1>5
<1>7. \A c \in two : Good(c) /\ (c \in Dirs => c \in S)
  BY <1>3, <1>6
<1>8. \A c \in three : Good(c)
  BY <1>3, <1>7
<1>9. i \in {Root[m]} \cup one \cup two \cup three
  BY DEF Tree
<1> HIDE DEF one, two, three
<1>10. Good(i)
  BY <1>5, <1>6, <1>7, <1>8, <1>9
<1> QED BY <1>10 DEF Good

(* Everything in both mounts belongs to the identity of a completed start, but for what others put
   there or gave away once the verification of the mount had begun; and it is open to the identity,
   but for what others changed the mode of after prepareOwnership had read it: the verification
   compares owners, inodes and types, no modes. *)
THEOREM Handover == Spec => []HandedOver
<1>1. IInv => HandedOver
  BY HandedOverHolds
<1> QED BY <1>1, Invariance, PTL

(* What lost access is held together below StateDir: a path to it from a root leads through StateDir. *)
LEMMA AccessKeptHolds == IInv => AccessKept
<1> SUFFICES ASSUME IInv, pc = "done", NEW m \in Mounts,
                    NEW i \in Tree(m) \ ({state.inode} \cup Children({state.inode}) \cup Children(Children({state.inode}) \cap Dirs))
             PROVE  before[i] # None => mode[i].wide = before[i].wide /\ mode[i].setid = before[i].setid
  BY DEF AccessKept
<1>1. TypeInv /\ state.inode \in Dirs
  BY IInvParts DEF StateInv
<1>2. PICK X \in SUBSET Dirs : Secluded(X)
  BY IInvParts DEF SecludedInv
<1> DEFINE one == Children({Root[m]})
           two == Children(one \cap Dirs)
           three == Children(two \cap Dirs)
           below == Children({state.inode})
<1>3. ASSUME NEW D \in SUBSET Dirs, NEW c \in Children(D), c \in X, c # state.inode
      PROVE  \E d \in D \cap X : c \in Children({d})
  <2>1. PICK d \in D, n \in Name : entries[d][n] = c
    BY <1>1, <1>3, ChildrenFacts
  <2>2. c \notin late
    BY <1>1, <1>3, ChildrenFacts
  <2>3. d \in X
    BY <1>2, <1>3, <2>1, <2>2 DEF Secluded
  <2>4. c \in Children({d})
    BY <1>3, <2>1 DEF Children
  <2> QED BY <2>3, <2>4
<1>4. Root[m] \in Dirs /\ Root[m] \notin X
  BY <1>2, RootFacts DEF Secluded
<1>5. ASSUME NEW c \in one, c \in X PROVE c = state.inode
  <2>1. {Root[m]} \in SUBSET Dirs /\ {Root[m]} \cap X = {}
    BY <1>4
  <2>2. c # state.inode => \E d \in {Root[m]} \cap X : c \in Children({d})
    BY <1>3, <1>5, <2>1
  <2> QED BY <2>1, <2>2
<1>6. ASSUME NEW c \in two, c \in X PROVE c = state.inode \/ c \in below
  <2>1. c # state.inode => \E d \in (one \cap Dirs) \cap X : c \in Children({d})
    BY <1>3, <1>6
  <2> QED BY <1>5, <2>1
<1>7. ASSUME NEW c \in three, c \in X PROVE c \in {state.inode} \cup below \cup Children(below \cap Dirs)
  <2>1. c # state.inode => \E d \in (two \cap Dirs) \cap X : c \in Children({d})
    BY <1>3, <1>7
  <2>2. ASSUME NEW d \in below \cap Dirs, c \in Children({d}) PROVE c \in Children(below \cap Dirs)
    BY <2>2 DEF Children
  <2> QED BY <1>6, <2>1, <2>2
<1>8. i \in {Root[m]} \cup one \cup two \cup three
  BY DEF Tree
<1>9. i \notin {state.inode} \cup below \cup Children(below \cap Dirs)
  OBVIOUS
<1>10. i \in Inode
  BY <1>1, <1>4, <1>8, ChildrenFacts, KindFacts
<1> HIDE DEF one, two, three, below
<1>11. i \notin X
  BY <1>4, <1>5, <1>6, <1>7, <1>8, <1>9
<1>12. AsFound(mode[i], i)
  BY <1>2, <1>10, <1>11 DEF Secluded
<1> QED BY <1>12 DEF AsFound, SameAccess

(* A completed start took no access from others outside the private directory, and the set-ID
   bits that a change of owner cleared are back, but for a mode that others changed after it
   had been read. *)
THEOREM AccessPreserved == Spec => []AccessKept
<1>1. IInv => AccessKept
  BY AccessKeptHolds
<1> QED BY <1>1, Invariance, PTL

(* No step of a start, and no edit by others, changes what another file system holds: what is
   open was checked for its device. *)
THEOREM ForeignSafe == Spec => ForeignUntouched
<1> DEFINE Kept == \A i \in OtherDevice : owner'[i] = owner[i] /\ mode'[i] = mode[i]
<1>1. IInv /\ [Next]_vars => [Kept]_vars
  <2> SUFFICES ASSUME IInv, Next PROVE Kept
    OBVIOUS
  <2>1. TypeInv /\ OtherDevice \subseteq Inode /\ owner \in [Inode -> Uid] /\ mode \in [Inode -> Modes]
    BY IInvParts, InodeAssumption DEF TypeInv
  <2>2. held.at # "none" => held.inode \in Inode \ OtherDevice
    BY IInvParts DEF HeldInv
  <2>3. ASSUME owner' = owner, mode' = mode PROVE Kept
    BY <2>3
  <2>4. ASSUME Stop PROVE Kept
    BY <2>3, <2>4 DEF Stop, disk
  <2>5. CASE OpenRefused \/ CheckRefused \/ LeaveRefused \/ VerifyRefused \/ FinishRefused \/ Fails
    BY <2>4, <2>5 DEF OpenRefused, CheckRefused, LeaveRefused, VerifyRefused, FinishRefused, Fails
  <2>16. ASSUME NEW d, NEW n, NEW i \in Free, Make(d, n, i) PROVE Kept
    BY <2>1, <2>16 DEF Make, Free
  <2>17. CASE Begin
    BY <2>3, <2>16, <2>17 DEF Begin, disk
  <2>6. CASE End \/ OpenRoot \/ OpenEntry
    BY <2>3, <2>6 DEF End, OpenRoot, OpenEntry, disk
  <2>7. CASE Enter \/ Repaired \/ Leave
    BY <2>3, <2>7 DEF Enter, Repaired, Leave, disk
  <2>8. CASE VerifyRoot \/ VerifyEntry \/ VerifyLeave \/ Finish
    BY <2>3, <2>8 DEF VerifyRoot, VerifyEntry, VerifyLeave, Finish, disk
  <2>9. CASE Chown
    <3>0. held.at = "chown" /\ GiveOwner
      BY <2>9 DEF Chown
    <3>1. CASE owner' = owner /\ mode' = mode
      BY <2>3, <3>1
    <3>2. CASE owner' = [owner EXCEPT ![held.inode] = uid] /\ mode' = mode
      BY <2>1, <2>2, <3>0, <3>2
    <3>3. CASE owner' = [owner EXCEPT ![held.inode] = uid] /\ mode' = [mode EXCEPT ![held.inode].setid = FALSE]
      BY <2>1, <2>2, <3>0, <3>3, Zenon
    <3> QED BY <3>0, <3>1, <3>2, <3>3, Zenon DEF GiveOwner, disk
  <2>10. CASE Chmod
    <3>1. held.at = "chmod" /\ owner' = owner /\ (mode' = mode \/ mode' = [mode EXCEPT ![held.inode] = held.target])
      BY <2>10 DEF Chmod
    <3> QED BY <2>1, <2>2, <3>1
  <2>11. CASE PrivateState
    <3>1. Secured(state.inode) /\ state.inode \notin OtherDevice
      BY <2>11 DEF PrivateState, SameDevice
    <3> QED BY <2>1, <3>1 DEF Secured
  <2>12. ASSUME NEW n \in Name, PrivateMissing(n) PROVE Kept
    BY <2>3, <2>12 DEF PrivateMissing, disk
  <2>13. ASSUME NEW n \in Name, MakeDirectory(n) PROVE Kept
    BY <2>13, <2>16 DEF MakeDirectory
  <2>14. ASSUME NEW n \in Name, PrivateDirectory(n) PROVE Kept
    <3>1. PICK i \in Dirs \ OtherDevice : Secured(i)
      BY <2>14 DEF PrivateDirectory, SameDevice
    <3> QED BY <2>1, <3>1 DEF Secured
  <2>15. CASE Edit
    <3>1. PICK d \in Dirs, n \in Name :
            \/ (\E i \in Inode : Put(d, n, i)) \/ Take(d, n) \/ \E u \in Uid : GiveAway(d, n, u)
            \/ \E md \in GivenModes : ChangeMode(d, n, md)
      BY <2>15 DEF Edit
    <3>2. CASE (\E i \in Inode : Put(d, n, i)) \/ Take(d, n)
      BY <2>3, <3>2 DEF Put, Take
    <3>3. CASE \E u \in Uid : GiveAway(d, n, u)
      <4>1. PICK u \in Uid : owner' = [owner EXCEPT ![entries[d][n]] = u] /\ entries[d][n] \notin OtherDevice /\ mode' = mode
        BY <3>3 DEF GiveAway
      <4> QED BY <2>1, <4>1
    <3>4. CASE \E md \in GivenModes : ChangeMode(d, n, md)
      <4>1. PICK md : mode' = [mode EXCEPT ![entries[d][n]] = md] /\ entries[d][n] \notin OtherDevice /\ owner' = owner
        BY <3>4 DEF ChangeMode
      <4> QED BY <2>1, <4>1
    <3> QED BY <3>1, <3>2, <3>3, <3>4
  <2> HIDE DEF Kept
  <2> QED
    BY <2>5, <2>6, <2>7, <2>8, <2>9, <2>10, <2>11, <2>12, <2>13, <2>14, <2>15, <2>17 DEF Next
<1> QED BY <1>1, Invariance, PTL DEF Spec, ForeignUntouched

=============================================================================
