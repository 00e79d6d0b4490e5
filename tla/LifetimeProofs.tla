--------------------------- MODULE LifetimeProofs ---------------------------
(***************************************************************************)
(* For any containers and mounts: two controllers past the lifetime locks  *)
(* share neither mount, a healthy container serves, and where no mount is  *)
(* shared a container has one game.  LockInv says who holds the locks;     *)
(* GamesInv says whose processes the record in state.json can name.        *)
(***************************************************************************)
EXTENDS Lifetime, FiniteSetTheorems, TLAPS

LocksOK == pc \in [Container -> PCs] /\ held \in [Container -> SUBSET Mount]

Exclusive == \A c, d \in Container : c # d => held[c] \cap held[d] = {}

Owned ==
  \A c \in Container :
    /\ pc[c] = "stateLocked" => ServerMount[c] \in held[c]
    /\ pc[c] \in PastLocks => {ServerMount[c], DataMount[c]} \subseteq held[c]

LockInv == LocksOK /\ Exclusive /\ Owned

(* A step that takes no lock and gets nobody past one. *)
LEMMA QuietStep ==
  ASSUME LockInv, NEW c \in Container, UNCHANGED held,
         \/ UNCHANGED pc
         \/ pc[c] = "down" /\ pc' = [pc EXCEPT ![c] = "starting"]
         \/ pc[c] \in PastLocks /\ \E p \in PastLocks : pc' = [pc EXCEPT ![c] = p]
  PROVE  LockInv'
  BY DEF LockInv, LocksOK, Exclusive, Owned, PCs, PastLocks

(* A container that ends gives up what it holds. *)
LEMMA EndStep ==
  ASSUME LockInv, NEW c \in Container, End(c)
  PROVE  LockInv'
<1>1. pc' = [pc EXCEPT ![c] = "down"] /\ held' = [held EXCEPT ![c] = {}]
  BY DEF End
<1>2. LocksOK'
  BY <1>1 DEF LockInv, LocksOK, PCs
<1>3. Exclusive'
  BY <1>1 DEF LockInv, LocksOK, Exclusive
<1>4. Owned'
  BY <1>1 DEF LockInv, LocksOK, Owned, PCs, PastLocks
<1> QED BY <1>2, <1>3, <1>4 DEF LockInv

(* Taking a lock nobody holds. *)
LEMMA TakeStep ==
  ASSUME LockInv, NEW c \in Container, NEW m \in Mount, Free(m), NEW p \in PCs,
         pc' = [pc EXCEPT ![c] = p], held' = [held EXCEPT ![c] = @ \cup {m}]
  PROVE  LocksOK' /\ Exclusive' /\ held[c] \subseteq held'[c] /\ m \in held'[c]
  BY DEF LockInv, LocksOK, Exclusive, Free

LEMMA LockStep ==
  ASSUME LockInv, NEW c \in Container, LockState(c) \/ LockData(c)
  PROVE  LockInv'
<1>0. ServerMount[c] \in Mount /\ DataMount[c] \in Mount
  BY MountAssumption
<1>1. CASE LockState(c)
  <2>1. /\ Free(ServerMount[c]) /\ pc' = [pc EXCEPT ![c] = "stateLocked"]
        /\ held' = [held EXCEPT ![c] = @ \cup {ServerMount[c]}]
    BY <1>1 DEF LockState, At
  <2>2. LocksOK' /\ Exclusive' /\ ServerMount[c] \in held'[c]
    BY <1>0, <2>1, TakeStep DEF PCs
  <2>3. Owned'
    BY <2>1, <2>2 DEF LockInv, LocksOK, Owned, PCs, PastLocks
  <2> QED BY <2>2, <2>3 DEF LockInv
<1>2. CASE LockData(c)
  <2>1. /\ Free(DataMount[c]) /\ pc[c] = "stateLocked" /\ pc' = [pc EXCEPT ![c] = "locked"]
        /\ held' = [held EXCEPT ![c] = @ \cup {DataMount[c]}]
    BY <1>2 DEF LockData, At
  <2>2. LocksOK' /\ Exclusive' /\ held[c] \subseteq held'[c] /\ DataMount[c] \in held'[c]
    BY <1>0, <2>1, TakeStep DEF PCs, PastLocks
  <2>3. Owned'
    BY <2>1, <2>2 DEF LockInv, LocksOK, Owned, PCs, PastLocks
  <2> QED BY <2>2, <2>3 DEF LockInv
<1> QED BY <1>1, <1>2

LEMMA LockNext == LockInv /\ [Next]_vars => LockInv'
<1> SUFFICES ASSUME LockInv, [Next]_vars PROVE LockInv'
  OBVIOUS
<1>1. CASE UNCHANGED vars
  BY <1>1 DEF vars, LockInv, LocksOK, Exclusive, Owned
<1>2. CASE Next
  <2>1. PICK c \in Container : Step(c)
    BY <1>2 DEF Next
  <2>2. CASE Start(c)
    BY <2>2, QuietStep DEF Start, At
  <2>3. CASE LockState(c) \/ LockData(c)
    BY <2>3, LockStep
  <2>4. CASE LockTaken(c) \/ Fenced(c) \/ Exit(c)
    BY <2>4, EndStep DEF LockTaken, Fenced, Exit
  <2>5. CASE Fence(c) \/ Verify(c) \/ RecordStarting(c) \/ RecordReady(c) \/ \E p \in PID : StartWine(c, p)
    BY <2>5, QuietStep DEF Fence, Verify, RecordStarting, RecordReady, StartWine, At, PastLocks
  <2>6. CASE RecordStopped(c)
    BY <2>6, QuietStep DEF RecordStopped, PastLocks
  <2>7. CASE LoadState(c) \/ Judge(c) \/ (\E p \in PID : Other(c, p)) \/ \E q \in live[c] : Die(c, q)
    BY <2>7, QuietStep DEF LoadState, Judge, Other, Die
  <2> QED BY <2>1, <2>2, <2>3, <2>4, <2>5, <2>6, <2>7 DEF Step
<1> QED BY <1>1, <1>2

(* Two controllers past the locks share neither mount, however many containers
   there are and whichever mounts they have in common. *)
THEOREM Exclusion == Spec => []MountsExclusive
<1>1. Init => LockInv
  BY DEF Init, LockInv, LocksOK, Exclusive, Owned, PCs, PastLocks
<1>2. LockInv => MountsExclusive
  BY DEF LockInv, Exclusive, Owned, MountsExclusive
<1> QED BY <1>1, <1>2, LockNext, PTL DEF Spec

-----------------------------------------------------------------------------
(* The games: where an identity comes from, and what a record of it says *)

(* Between the start of a game and its readiness the record is its own. *)
GameInv ==
  \A c \in Container :
    /\ pc[c] \in {"spawned", "waiting", "verified"} => game[c] \in Identities
    /\ pc[c] \in {"waiting", "verified"} => Recorded(c).server = game[c]

(* An identity belongs to one container for ever. *)
BornInv ==
  \A c \in Container :
    /\ \A q \in live[c] : q[2] <= ticks
    /\ game[c] \in Identities => game[c][2] <= ticks
    /\ \A q \in Identities : <<c, q>> \in proven => q[2] <= ticks
    /\ \A d \in Container \ {c} : game[c] \notin live[d]
    /\ \A d \in Container \ {c} : \A q \in live[d] : <<c, q>> \notin proven

(* A record says "ready" of a game that has been ready, in some container. *)
ReadyInv ==
  /\ \A c \in Container : Recorded(c).ready => \E d \in Container : <<d, Recorded(c).server>> \in proven
  /\ \A c \in Container : seen[c].ready => \E d \in Container : <<d, seen[c].server>> \in proven

Alone(c) == \A d \in Container \ {c} : ServerMount[d] # ServerMount[c]

(* A game that has been ready and lives is the recorded one; past the fence there
   is none. *)
AloneInv ==
  \A c \in Container : Alone(c) =>
    /\ \A q \in live[c] : <<c, q>> \in proven => q = Recorded(c).server
    /\ pc[c] \in {"fenced", "spawned"} => \A q \in live[c] : <<c, q>> \notin proven

GamesInv == TypeOK /\ GameInv /\ BornInv /\ ReadyInv /\ AloneInv

LEMMA Types ==
  ASSUME TypeOK, NEW c \in Container
  PROVE  /\ ServerMount[c] \in DOMAIN record /\ Recorded(c) \in Runtimes
         /\ live[c] \subseteq Identities /\ seen[c] \in Runtimes /\ NothingSeen \in Runtimes
         /\ \A p \in PID : ticks < MaxTicks => <<p, ticks + 1>> \in Identities
         /\ NoProcess \notin Identities /\ ticks \in Nat
BY TicksAssumption DEF TypeOK, Recorded, Runtimes, NothingSeen, Identities

(* A record that becomes ready, or not, keeps its identity. *)
LEMMA ReadySet ==
  ASSUME TypeOK, NEW c \in Container, NEW b \in BOOLEAN,
         record' = [record EXCEPT ![ServerMount[c]].ready = b]
  PROVE  /\ record' \in [{ServerMount[d] : d \in Container} -> Runtimes]
         /\ Recorded(c)'.ready = b /\ \A d \in Container : Recorded(d)'.server = Recorded(d).server
         /\ \A d \in Container : ServerMount[d] # ServerMount[c] => Recorded(d)' = Recorded(d)
<1> DEFINE m == ServerMount[c]
<1>1. record[m] \in Runtimes /\ m \in DOMAIN record
  BY Types DEF Recorded
<1>2. [record[m] EXCEPT !.ready = b] = [ready |-> b, server |-> record[m].server]
  BY <1>1 DEF Runtimes
<1>3. record' = [record EXCEPT ![m] = [ready |-> b, server |-> record[m].server]]
  BY <1>2
<1>4. [ready |-> b, server |-> record[m].server] \in Runtimes
  BY <1>1 DEF Runtimes
<1> QED BY <1>1, <1>3, <1>4 DEF TypeOK, Recorded

LEMMA TypeEnd == ASSUME TypeOK, NEW c \in Container, End(c) PROVE TypeOK'
BY Types DEF End, TypeOK, PCs

LEMMA TypeStep == TypeOK /\ GameInv /\ [Next]_vars => TypeOK'
<1> SUFFICES ASSUME TypeOK, GameInv, [Next]_vars PROVE TypeOK'
  OBVIOUS
<1>1. CASE UNCHANGED vars
  BY <1>1 DEF vars, TypeOK
<1>2. ASSUME NEW c \in Container, Step(c) PROVE TypeOK'
  <2> USE Types DEF At, PCs, PastLocks
  <2>1. CASE Start(c) \/ Verify(c)
    BY <2>1 DEF Start, Verify, TypeOK
  <2>2. CASE LockState(c) \/ LockData(c)
    <3>1. held' \in [Container -> SUBSET Mount]
      BY SMTT(30), <2>2, MountAssumption DEF LockState, LockData, TypeOK
    <3>2. pc' \in [Container -> PCs]
      BY <2>2 DEF LockState, LockData, TypeOK
    <3> QED BY <2>2, <3>1, <3>2 DEF LockState, LockData, TypeOK
  <2>3. CASE LockTaken(c) \/ Fenced(c) \/ Exit(c)
    BY <2>3, TypeEnd DEF LockTaken, Fenced, Exit
  <2>4. CASE Fence(c)
    BY <2>4 DEF Fence, TypeOK
  <2>5. CASE RecordStarting(c)
    <3>1. [ready |-> FALSE, server |-> game[c]] \in Runtimes
      BY DEF TypeOK, Runtimes
    <3> QED BY <2>5, <3>1 DEF RecordStarting, TypeOK
  <2>6. CASE RecordReady(c)
    <3>1. record' = [record EXCEPT ![ServerMount[c]].ready = TRUE] /\ game[c] \in Identities
      BY <2>6 DEF RecordReady, GameInv
    <3>2. record' \in [{ServerMount[d] : d \in Container} -> Runtimes]
      BY <3>1, ReadySet
    <3> QED BY <2>6, <3>1, <3>2 DEF RecordReady, TypeOK
  <2>7. CASE RecordStopped(c)
    <3>1. record' \in [{ServerMount[d] : d \in Container} -> Runtimes]
      BY <2>7, ReadySet DEF RecordStopped, TypeOK
    <3> QED BY <2>7, <3>1 DEF RecordStopped, TypeOK
  <2>8. CASE LoadState(c) \/ Judge(c)
    BY <2>8 DEF LoadState, Judge, TypeOK
  <2>9. CASE \E p \in PID : StartWine(c, p) \/ Other(c, p)
    <3>1. PICK p \in PID : StartWine(c, p) \/ Other(c, p)
      BY <2>9
    <3>2. ticks < MaxTicks /\ ticks' = ticks + 1 /\ live' = [live EXCEPT ![c] = @ \cup {<<p, ticks + 1>>}]
      BY <3>1 DEF StartWine, Other, Spawn
    <3>3. ticks' \in 0 .. MaxTicks /\ live' \in [Container -> SUBSET Identities]
      BY <3>2, TicksAssumption DEF TypeOK
    <3> QED BY <3>1, <3>2, <3>3 DEF StartWine, Other, TypeOK
  <2>10. CASE \E q \in live[c] : Die(c, q)
    BY <2>10 DEF Die, TypeOK
  <2> QED BY <1>2, <2>1, <2>2, <2>3, <2>4, <2>5, <2>6, <2>7, <2>8, <2>9, <2>10 DEF Step
<1> QED BY <1>1, <1>2 DEF Next

(* Nobody else writes the record of a container past the locks. *)
LEMMA OwnRecord ==
  ASSUME LockInv, NEW c \in Container, NEW d \in Container, pc[c] \in PastLocks, pc[d] \in PastLocks, c # d
  PROVE  ServerMount[c] # ServerMount[d]
BY DEF LockInv, Exclusive, Owned

(* A step of c changes the record of another container only if they share it, and
   then that one is not between the start of its game and its readiness. *)
LEMMA GameStep == GamesInv /\ LockInv /\ [Next]_vars => GameInv'
<1> SUFFICES ASSUME GamesInv, LockInv, [Next]_vars PROVE GameInv'
  OBVIOUS
<1> USE DEF GamesInv
<1>1. CASE UNCHANGED vars
  BY <1>1 DEF vars, GameInv, Recorded
<1>2. ASSUME NEW c \in Container, Step(c) PROVE GameInv'
  <2> USE DEF GameInv, TypeOK, At
  <2>1. CASE Start(c) \/ LockState(c) \/ LockData(c) \/ Verify(c)
    BY <2>1 DEF Start, LockState, LockData, Verify, Recorded
  <2>2. CASE LockTaken(c) \/ Fenced(c) \/ Exit(c)
    BY <2>2 DEF LockTaken, Fenced, Exit, End, Recorded
  <2>3. CASE Fence(c) \/ RecordStarting(c)
    <3>1. \A d \in Container \ {c} : pc[d] \in {"waiting", "verified"} => ServerMount[d] # ServerMount[c]
      BY <2>3, OwnRecord DEF Fence, RecordStarting, PastLocks
    <3>2. CASE Fence(c)
      BY <3>1, <3>2, Types DEF Fence, Recorded
    <3>3. CASE RecordStarting(c)
      BY <3>1, <3>3, Types DEF RecordStarting, Recorded
    <3> QED BY <2>3, <3>2, <3>3
  <2>4. CASE RecordReady(c)
    BY <2>4, ReadySet DEF RecordReady
  <2>5. CASE RecordStopped(c)
    <3>1. \A d \in Container : Recorded(d)'.server = Recorded(d).server
      BY <2>5, ReadySet DEF RecordStopped, Recorded
    <3> QED BY <2>5, <3>1 DEF RecordStopped
  <2>6. CASE LoadState(c) \/ Judge(c) \/ (\E p \in PID : Other(c, p)) \/ \E q \in live[c] : Die(c, q)
    BY <2>6 DEF LoadState, Judge, Other, Die, Recorded
  <2>7. CASE \E p \in PID : StartWine(c, p)
    BY <2>7, Types DEF StartWine, Spawn, Recorded
  <2> QED BY <1>2, <2>1, <2>2, <2>3, <2>4, <2>5, <2>6, <2>7 DEF Step
<1> QED BY <1>1, <1>2 DEF Next

LEMMA BornStep == GamesInv /\ [Next]_vars => BornInv'
<1> SUFFICES ASSUME GamesInv, [Next]_vars PROVE BornInv'
  OBVIOUS
<1> USE DEF GamesInv
<1>1. CASE UNCHANGED vars
  BY <1>1 DEF vars, BornInv
<1>2. ASSUME NEW c \in Container, Step(c) PROVE BornInv'
  <2> USE DEF BornInv, At
  <2>1. CASE \/ Start(c) \/ LockState(c) \/ LockData(c) \/ Verify(c)
             \/ Fence(c) \/ RecordStarting(c) \/ LoadState(c) \/ Judge(c)
    BY <2>1 DEF Start, LockState, LockData, Verify, Fence, RecordStarting, LoadState, Judge
  <2>2. CASE LockTaken(c) \/ Fenced(c) \/ Exit(c)
    <3>1. End(c)
      BY <2>2 DEF LockTaken, Fenced, Exit
    <3>2. /\ \A d \in Container : live'[d] \subseteq live[d] /\ game'[d] \in {game[d], NoProcess}
          /\ ticks' = ticks /\ proven' = proven
      BY <3>1 DEF End, TypeOK
    <3>3. \A d \in Container : NoProcess \notin live[d] /\ NoProcess \notin Identities
      BY Types
    <3> QED BY <3>2, <3>3
  <2>3. CASE RecordReady(c)
    <3>1. proven' = proven \cup {<<c, game[c]>>} /\ game[c] \in Identities /\ UNCHANGED <<game, live, ticks>>
      BY <2>3 DEF RecordReady, GameInv
    <3> QED BY <3>1
  <2>4. CASE RecordStopped(c) \/ \E q \in live[c] : Die(c, q)
    <3>1. /\ \A d \in Container : live'[d] \subseteq live[d]
          /\ game' = game /\ ticks' = ticks /\ proven' = proven
      BY <2>4 DEF RecordStopped, Die, TypeOK
    <3> QED BY <3>1
  <2>5. CASE \E p \in PID : StartWine(c, p) \/ Other(c, p)
    <3>1. PICK p \in PID : StartWine(c, p) \/ Other(c, p)
      BY <2>5
    <3> DEFINE new == <<p, ticks + 1>>
    <3>2. /\ ticks' = ticks + 1 /\ new \in Identities /\ proven' = proven
          /\ live' = [live EXCEPT ![c] = @ \cup {new}]
          /\ game' \in {game, [game EXCEPT ![c] = new]}
      BY <3>1, Types DEF StartWine, Other, Spawn
    <3>3. /\ \A d \in Container : live'[d] = IF d = c THEN live[c] \cup {new} ELSE live[d]
          /\ \A d \in Container : game'[d] = game[d] \/ (d = c /\ game'[d] = new)
      BY <3>2 DEF TypeOK
    <3>4. new[2] = ticks + 1 /\ ticks \in Nat /\ \A q \in Identities : q[2] \in Nat
      BY Types DEF Identities
    <3>5. \A d \in Container :
            /\ live[d] \subseteq Identities
            /\ game[d] \in Identities \cup {NoProcess} /\ NoProcess \notin Identities
      BY Types DEF TypeOK
    <3>6. \A d \in Container : new \notin live[d] /\ <<d, new>> \notin proven /\ game[d] # new
      BY <3>2, <3>4, <3>5
    <3> HIDE DEF new
    <3> QED BY <3>2, <3>3, <3>4, <3>5, <3>6
  <2> QED BY <1>2, <2>1, <2>2, <2>3, <2>4, <2>5 DEF Step
<1> QED BY <1>1, <1>2 DEF Next

LEMMA ReadyStep == GamesInv /\ [Next]_vars => ReadyInv'
<1> SUFFICES ASSUME GamesInv, [Next]_vars PROVE ReadyInv'
  OBVIOUS
<1> USE DEF GamesInv
<1>1. CASE UNCHANGED vars
  BY <1>1 DEF vars, ReadyInv, Recorded
<1>2. ASSUME NEW c \in Container, Step(c) PROVE ReadyInv'
  <2> USE DEF ReadyInv, At
  <2>1. CASE Start(c) \/ LockState(c) \/ LockData(c) \/ Verify(c) \/ \E q \in live[c] : Die(c, q)
    BY <2>1 DEF Start, LockState, LockData, Verify, Die, Recorded
  <2>2. CASE LockTaken(c) \/ Fenced(c) \/ Exit(c)
    <3>1. End(c)
      BY <2>2 DEF LockTaken, Fenced, Exit
    <3>2. \A d \in Container : seen'[d] = seen[d] \/ ~seen'[d].ready
      BY <3>1 DEF End, TypeOK, NothingSeen
    <3> QED BY <3>1, <3>2 DEF End, Recorded
  <2>3. CASE Fence(c)
    BY <2>3, Types DEF Fence, Recorded, NothingSeen, TypeOK
  <2>4. CASE RecordStarting(c)
    BY <2>4, Types DEF RecordStarting, Recorded, TypeOK
  <2>5. CASE RecordReady(c)
    <3>1. /\ proven' = proven \cup {<<c, game[c]>>} /\ Recorded(c).server = game[c] /\ seen' = seen
          /\ record' = [record EXCEPT ![ServerMount[c]].ready = TRUE]
      BY <2>5 DEF RecordReady, GameInv
    <3>2. /\ \A d \in Container : Recorded(d)'.server = Recorded(d).server
          /\ \A d \in Container : ServerMount[d] # ServerMount[c] => Recorded(d)' = Recorded(d)
      BY <3>1, ReadySet
    <3>3. \A d \in Container : ServerMount[d] = ServerMount[c] => Recorded(d)' = Recorded(c)'
      BY DEF Recorded
    <3>4. <<c, Recorded(c)'.server>> \in proven'
      BY <3>1, <3>2
    <3> QED BY <3>1, <3>2, <3>3, <3>4
  <2>6. CASE RecordStopped(c)
    <3>1. seen' = seen /\ proven' = proven /\ record' \in {record, [record EXCEPT ![ServerMount[c]].ready = FALSE]}
      BY <2>6 DEF RecordStopped
    <3>2. CASE record' = record
      BY <3>1, <3>2 DEF Recorded
    <3>3. CASE record' = [record EXCEPT ![ServerMount[c]].ready = FALSE]
      <4>1. /\ Recorded(c)'.ready = FALSE
            /\ \A d \in Container : ServerMount[d] # ServerMount[c] => Recorded(d)' = Recorded(d)
        BY <3>3, ReadySet
      <4>2. \A d \in Container : ServerMount[d] = ServerMount[c] => Recorded(d)' = Recorded(c)'
        BY DEF Recorded
      <4> QED BY <3>1, <4>1, <4>2
    <3> QED BY <3>1, <3>2, <3>3
  <2>7. CASE LoadState(c) \/ Judge(c)
    <3>1. \A d \in Container : seen'[d] = seen[d] \/ ~seen'[d].ready \/ seen'[d] = Recorded(c)
      BY <2>7 DEF LoadState, Judge, TypeOK, NothingSeen
    <3>2. record' = record /\ proven' = proven
      BY <2>7 DEF LoadState, Judge
    <3> QED BY <3>1, <3>2 DEF Recorded
  <2>8. CASE \E p \in PID : StartWine(c, p) \/ Other(c, p)
    BY <2>8 DEF StartWine, Other, Recorded
  <2> QED BY <1>2, <2>1, <2>2, <2>3, <2>4, <2>5, <2>6, <2>7, <2>8 DEF Step
<1> QED BY <1>1, <1>2 DEF Next

LEMMA AloneStep == GamesInv /\ [Next]_vars => AloneInv'
<1> SUFFICES ASSUME GamesInv, [Next]_vars, NEW a \in Container, Alone(a)
             PROVE  /\ \A q \in live'[a] : <<a, q>> \in proven' => q = Recorded(a)'.server
                    /\ pc'[a] \in {"fenced", "spawned"} => \A q \in live'[a] : <<a, q>> \notin proven'
  BY DEF AloneInv, Alone
<1> USE DEF GamesInv
<1>0. /\ \A q \in live[a] : <<a, q>> \in proven => q = Recorded(a).server
      /\ pc[a] \in {"fenced", "spawned"} => \A q \in live[a] : <<a, q>> \notin proven
  BY DEF AloneInv
<1>1. CASE UNCHANGED vars
  BY <1>0, <1>1 DEF vars, Recorded
(* Another container touches neither its record nor its processes. *)
<1>2. ASSUME NEW c \in Container \ {a}, Step(c)
      PROVE  /\ Recorded(a)' = Recorded(a) /\ live'[a] = live[a] /\ pc'[a] = pc[a]
             /\ \A q : <<a, q>> \in proven' => <<a, q>> \in proven
  <2>0. ServerMount[c] # ServerMount[a]
    BY DEF Alone
  <2> USE <2>0 DEF At, Recorded, TypeOK
  <2>1. CASE Start(c) \/ LockState(c) \/ LockData(c) \/ Verify(c) \/ LoadState(c) \/ Judge(c)
    BY <2>1 DEF Start, LockState, LockData, Verify, LoadState, Judge
  <2>2. CASE LockTaken(c) \/ Fenced(c) \/ Exit(c)
    BY <2>2 DEF LockTaken, Fenced, Exit, End
  <2>3. CASE Fence(c) \/ RecordStarting(c)
    BY <2>3 DEF Fence, RecordStarting
  <2>4. CASE RecordReady(c) \/ RecordStopped(c)
    BY <2>4 DEF RecordReady, RecordStopped
  <2>5. CASE (\E p \in PID : StartWine(c, p) \/ Other(c, p)) \/ \E q \in live[c] : Die(c, q)
    BY <2>5 DEF StartWine, Other, Die, Spawn
  <2> QED BY <1>2, <2>1, <2>2, <2>3, <2>4, <2>5 DEF Step
<1>3. ASSUME Step(a)
      PROVE  /\ \A q \in live'[a] : <<a, q>> \in proven' => q = Recorded(a)'.server
             /\ pc'[a] \in {"fenced", "spawned"} => \A q \in live'[a] : <<a, q>> \notin proven'
  <2> USE DEF At
  <2>1. CASE Start(a) \/ LockState(a) \/ LockData(a) \/ Verify(a) \/ LoadState(a) \/ Judge(a)
    BY <1>0, <2>1 DEF Start, LockState, LockData, Verify, LoadState, Judge, Recorded, TypeOK
  <2>2. CASE LockTaken(a) \/ Fenced(a) \/ Exit(a)
    BY <1>0, <2>2 DEF LockTaken, Fenced, Exit, End, Recorded, TypeOK
  (* What lives is not what was recorded, so it has never been ready. *)
  <2>3. CASE Fence(a)
    BY <1>0, <2>3 DEF Fence, Matches, TypeOK
  <2>4. CASE RecordStarting(a)
    BY <1>0, <2>4 DEF RecordStarting, TypeOK
  <2>5. CASE RecordReady(a)
    <3>1. /\ proven' = proven \cup {<<a, game[a]>>} /\ Recorded(a).server = game[a] /\ live' = live
          /\ record' = [record EXCEPT ![ServerMount[a]].ready = TRUE] /\ pc'[a] = "serving"
      BY <2>5 DEF RecordReady, GameInv, TypeOK
    <3>2. Recorded(a)'.server = game[a]
      BY <3>1, ReadySet
    <3> QED BY <1>0, <3>1, <3>2
  <2>6. CASE RecordStopped(a)
    <3>1. Recorded(a)'.server = Recorded(a).server
      BY <2>6, ReadySet DEF RecordStopped, Recorded
    <3> QED BY <1>0, <2>6, <3>1 DEF RecordStopped, TypeOK
  <2>7. CASE \E p \in PID : StartWine(a, p) \/ Other(a, p)
    <3>1. PICK p \in PID : StartWine(a, p) \/ Other(a, p)
      BY <2>7
    <3>2. /\ <<p, ticks + 1>> \in Identities /\ ticks \in Nat /\ record' = record /\ proven' = proven
          /\ live'[a] = live[a] \cup {<<p, ticks + 1>>}
          /\ pc'[a] \in {"fenced", "spawned"} => pc[a] \in {"fenced", "spawned"}
      BY <3>1, Types DEF StartWine, Other, Spawn, TypeOK
    <3>3. <<a, <<p, ticks + 1>>>> \notin proven
      BY <3>2 DEF BornInv
    <3> QED BY <1>0, <3>2, <3>3 DEF Recorded
  <2>8. CASE \E q \in live[a] : Die(a, q)
    BY <1>0, <2>8 DEF Die, Recorded, TypeOK
  <2> QED BY <1>3, <2>1, <2>2, <2>3, <2>4, <2>5, <2>6, <2>7, <2>8 DEF Step
<1> QED BY <1>0, <1>1, <1>2, <1>3 DEF Next

LEMMA GamesInit == Init => GamesInv /\ LockInv
<1> SUFFICES ASSUME Init PROVE GamesInv /\ LockInv
  OBVIOUS
<1>1. LockInv
  BY DEF Init, LockInv, LocksOK, Exclusive, Owned, PCs, PastLocks
<1>2. TypeOK
  BY TicksAssumption DEF Init, TypeOK, PCs, Runtimes, NothingSeen
<1>3. GameInv /\ BornInv /\ ReadyInv /\ AloneInv
  BY TicksAssumption DEF Init, GameInv, BornInv, ReadyInv, AloneInv, Recorded, NothingSeen, Identities
<1> QED BY <1>1, <1>2, <1>3 DEF GamesInv

THEOREM Invariance == Spec => [](GamesInv /\ LockInv)
<1>1. GamesInv /\ LockInv /\ [Next]_vars => (GamesInv /\ LockInv)'
  BY LockNext, TypeStep, GameStep, BornStep, ReadyStep, AloneStep DEF GamesInv
<1> QED BY <1>1, GamesInit, PTL DEF Spec

-----------------------------------------------------------------------------
(* A container found healthy has a game that has been ready and lives. *)
THEOREM Healthy == Spec => HealthyMeansServing
<1>1. GamesInv /\ [Next]_vars =>
        [\A c \in Container : verdict[c] # "healthy" /\ verdict'[c] = "healthy" =>
           \E q \in live[c] : <<c, q>> \in proven]_vars
  <2> SUFFICES ASSUME GamesInv, Next, NEW c \in Container, verdict[c] # "healthy", verdict'[c] = "healthy"
               PROVE  \E q \in live[c] : <<c, q>> \in proven
    OBVIOUS
  <2> USE DEF GamesInv
  <2>1. PICK d \in Container : Step(d)
    BY DEF Next
  <2>2. Judge(c)
    BY <2>1 DEF Step, Start, LockState, LockData, LockTaken, Fence, Fenced, RecordStarting, Verify,
       RecordReady, RecordStopped,
                Exit, End, LoadState, Judge, StartWine, Other, Die, TypeOK
  <2>3. seen[c].ready /\ seen[c].server \in live[c]
    BY <2>2 DEF Judge, Matches, TypeOK
  <2>4. PICK e \in Container : <<e, seen[c].server>> \in proven
    BY <2>3 DEF ReadyInv
  <2>5. e = c
    BY <2>3, <2>4 DEF BornInv
  <2> QED BY <2>3, <2>4, <2>5
<1> QED BY <1>1, Invariance, PTL DEF Spec, HealthyMeansServing

(* Where the mount is not shared, a game that was ready is never joined by another. *)
THEOREM Single == Spec => []OneGame
<1>1. GamesInv => OneGame
  <2> SUFFICES ASSUME GamesInv, NEW c \in Container, Alone(c)
               PROVE  Cardinality({q \in live[c] : <<c, q>> \in proven}) <= 1
    BY DEF OneGame, Alone
  <2> DEFINE ready == {q \in live[c] : <<c, q>> \in proven}
  <2>1. ready \subseteq {Recorded(c).server}
    BY DEF GamesInv, AloneInv
  <2>2. IsFiniteSet({Recorded(c).server}) /\ Cardinality({Recorded(c).server}) = 1
    BY FS_Singleton
  <2> HIDE DEF ready
  <2>3. Cardinality(ready) <= 1
    BY <2>1, <2>2, FS_Subset
  <2> QED BY <2>3 DEF ready
<1> QED BY <1>1, Invariance, PTL

=============================================================================
