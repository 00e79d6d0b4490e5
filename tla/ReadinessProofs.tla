--------------------------- MODULE ReadinessProofs ---------------------------
(***************************************************************************)
(* The safety properties of Readiness, proved for any logs, markers and    *)
(* bounds, whatever the game writes, truncates, renames and creates.  The  *)
(* argument is about where a line that was read can be: it was written to  *)
(* the file it is said to be from (LineInv), and if that is the log that   *)
(* was there before, its generation is the one the follower is anchored    *)
(* in (OldInv).                                                            *)
(***************************************************************************)
EXTENDS Readiness, TLAPS

-----------------------------------------------------------------------------
(* The inductive invariant *)

Kind == Required \cup Fatal
ReaderType ==
  [file : Nat, current : BOOLEAN, offset : Nat, anchor : Nat, more : BOOLEAN, fresh : BOOLEAN]
Line == [kind : Kind, file : File, cut : Nat, at : Nat]
Extents == [Source -> [File -> [cut : Nat, size : Nat]]]

FileTypes ==
  /\ scene \in Scene
  /\ content \in [Source -> [File -> Seq(Kind)]] /\ cut \in [Source -> [File -> Nat]]
  /\ {path, made, moves, there, baseline, stale} \subseteq [Source -> Nat]
  /\ before \in Extents
  /\ mark \in [source : Source, file : File \cup {0}, extent : Extents, moves : [Source -> Nat]]

MonitorTypes ==
  /\ held \in [Source -> ReaderType] /\ pending \in [Source -> Seq(ReaderType)]
  /\ seen \in [Source -> SUBSET Nat]
  /\ step \in [Source -> Steps] /\ {turn, budget} \subseteq [Source -> Nat]
  /\ chunk \in [Source -> Seq(Line)] /\ {got, gotPending, backed} \subseteq [Source -> SUBSET Line]
  /\ {reset, retiringChanged, activity} \subseteq [Source -> BOOLEAN]

VerdictInv ==
  /\ evidence \subseteq Required /\ quietRounds \in 0 .. 2 /\ outcome \in {"watching", "announced", "failed"}
  /\ Running => quietRounds < 2

(* Of a log only files that were created are seen; the one that was there first
   is among them. *)
NamesInv(s) ==
  /\ path[s] <= made[s] /\ made[s] <= scene.files
  /\ seen[s] \subseteq 1 .. made[s] /\ there[s] \in seen[s] \cup {0}

(* No file has two readers; the log that was there before has only the follower
   that was made with it. *)
ReadersInv(s) ==
  /\ held[s].file \in seen[s] \cup {0}
  /\ held[s].file # 0 => (held[s].current <=> held[s].file # there[s])
  /\ Len(pending[s]) <= MaxPending
  /\ \A i \in DOMAIN pending[s] :
       pending[s][i].current /\ pending[s][i].file \in seen[s] \ {0, held[s].file, there[s]}
  /\ \A i, j \in DOMAIN pending[s] : pending[s][i].file = pending[s][j].file => i = j

(* What is read now is the next line of the reader whose turn it is, unless the
   file has been truncated meanwhile and is still empty. *)
PositionInv(s) ==
  /\ budget[s] <= Budget
  /\ IF step[s] = "pending" THEN turn[s] \in DOMAIN pending[s] ELSE turn[s] = 0
  /\ chunk[s] # <<>> =>
       LET r == Reader(s)
           l == chunk[s][1]
       IN /\ Len(chunk[s]) = 1 /\ step[s] \in Reading /\ budget[s] > 0
          /\ r.file # 0 /\ l.file = r.file /\ l.at = r.offset + 1
          /\ r.offset # 0 => l.cut = r.anchor
          /\ l.cut = cut[s][r.file] \/ content[s][r.file] = <<>>

Written(s, l) ==
  /\ l.at > 0
  /\ l.cut < cut[s][l.file] \/ (l.cut = cut[s][l.file] /\ l.at <= Size(s, l.file))

(* What was read had been written. *)
LineInv(s) ==
  /\ \A l \in Batch(s) \cup backed[s] : Written(s, l)
  /\ chunk[s] # <<>> => Written(s, chunk[s][1])
  /\ Batch(s) # {} => activity[s]

(* The log that was there first is read from its end on, and no more once it was
   truncated: all its lines are of the generation the follower is anchored in. *)
OldInv(s) ==
  /\ there[s] # 0 => stale[s] <= cut[s][there[s]]
  /\ held[s].file = there[s] /\ there[s] # 0 =>
       /\ held[s].offset >= baseline[s]
       /\ \A l \in Batch(s) \cup backed[s] :
            l.file = there[s] => l.cut = held[s].anchor /\ held[s].offset > 0
  /\ \A l \in gotPending[s] : l.file # there[s]
  /\ \A l \in Batch(s) : Fresh(s, l)
  /\ chunk[s] # <<>> => Fresh(s, chunk[s][1])

(* The old log was truncated before this round, and the round has yet to notice. *)
Suspect(s) ==
  /\ step[s] = "first" /\ chunk[s] = <<>>
  /\ held[s].file = there[s] /\ there[s] # 0 /\ held[s].offset > 0 /\ held[s].anchor < stale[s]

(* A marker counts because of a line that is fresh, until the round notices that
   it has to count again. *)
EvidenceInv(s) ==
  Running /\ (step[s] = "idle" \/ ~reset[s]) /\ ~Suspect(s) =>
    \A m \in evidence \cap Marker[s] : \E l \in backed[s] : l.kind = m /\ Fresh(s, l)

(* The files only grow, or are truncated. *)
AtMost(e, f) == e.cut < f.cut \/ (e.cut = f.cut /\ e.size <= f.size)
Earlier(e, f) == \A s \in Source, n \in File : AtMost(e[s][n], f[s][n])

MarkRead ==
  mark.file # 0 /\ LET at == mark.extent[mark.source][mark.file] IN
    \E l \in backed[mark.source] : l.file = mark.file /\ l.cut = at.cut /\ l.at = at.size

(* A marker that was read in an earlier round was written before this one. *)
MarkInv ==
  /\ Earlier(mark.extent, Snapshot) /\ Earlier(before, Snapshot)
  /\ \A s \in Source : mark.moves[s] <= moves[s]
  /\ MarkRead /\ (\E s \in Source : step[s] # "idle") => Earlier(mark.extent, before)

(* When nothing is left to read of the log in use, what it held when the round
   began has been read; when nothing moved, it still has the name of the log. *)
RoundInv(s) ==
  /\ step[s] = "adopt" \/ (step[s] = "done" /\ ~activity[s]) =>
       (held[s].file # 0 /\ ~held[s].more /\ before[s][held[s].file].cut = cut[s][held[s].file] =>
          held[s].offset >= before[s][held[s].file].size)
  /\ Running /\ step[s] \notin {"idle", "first", "detect"} /\ ~activity[s] /\ MarkRead =>
       (moves[s] = mark.moves[s] /\ path[s] # 0 => path[s] = held[s].file)

SourceInv(s) ==
  NamesInv(s) /\ ReadersInv(s) /\ PositionInv(s) /\ LineInv(s) /\ OldInv(s) /\ EvidenceInv(s) /\ RoundInv(s)

IInv == FileTypes /\ MonitorTypes /\ VerdictInv /\ MarkInv /\ \A s \in Source : SourceInv(s)

-----------------------------------------------------------------------------
(* Names for groups of variables *)
USE DEF files, follower, batch, position, monitor, history, vars

LEMMA SourceFacts ==
  ASSUME scene \in Scene
  PROVE  Source # {} /\ Source \subseteq Log /\ scene.files \in Nat \ {0}
<1>1. scene.sources # {} /\ scene.sources \in SUBSET Log /\ scene.files \in Nat \ {0}
  BY DEF Scene
<1> QED BY <1>1 DEF Source

LEMMA Singleton == ASSUME NEW S, NEW x \in S PROVE <<x>> \in Seq(S) /\ Len(<<x>>) = 1 /\ <<x>>[1] = x
<1>1. Append(<<>>, x) = <<x>> /\ Append(<<>>, x) \in Seq(S)
  OBVIOUS
<1>2. Len(<<x>>) = 1 /\ <<x>>[1] = x
  OBVIOUS
<1> QED BY <1>1, <1>2, Zenon

LEMMA InitTypes == Init => FileTypes /\ MonitorTypes /\ VerdictInv
<1> SUFFICES ASSUME Init PROVE FileTypes /\ MonitorTypes /\ VerdictInv
  OBVIOUS
<1>1. scene \in Scene
  BY SceneAssumption DEF Init
<1>2. /\ path \in [Source -> 0 .. 1] /\ made = path /\ there = path /\ baseline \in [Source -> 0 .. 1]
      /\ cut = [s \in Source |-> [f \in File |-> 0]] /\ moves = [s \in Source |-> 0]
      /\ stale = [s \in Source |-> 0] /\ before = Snapshot
  BY DEF Init
<1>3. content \in [Source -> [File -> Seq(Kind)]]
  <2>1. {<<>>} \cup {<<k>> : k \in Required \cup Fatal} \subseteq Seq(Kind)
    <3>1. ASSUME NEW k \in Kind PROVE <<k>> \in Seq(Kind)
      BY Singleton
    <3>2. <<>> \in Seq(Kind)
      OBVIOUS
    <3> QED BY <3>1, <3>2 DEF Kind
  <2> QED BY <2>1 DEF Init
<1>4. Snapshot \in Extents
  BY <1>2, <1>3 DEF Snapshot, Extents, Size
<1>5. mark = [source |-> CHOOSE s \in Source : TRUE, file |-> 0, extent |-> Snapshot, moves |-> moves]
  BY DEF Init
<1>6. FileTypes
  <2>1. (CHOOSE s \in Source : TRUE) \in Source
    BY <1>1, SourceFacts
  <2>2. mark \in [source : Source, file : File \cup {0}, extent : Extents, moves : [Source -> Nat]]
    BY <1>2, <1>4, <1>5, <2>1
  <2>3. {path, made, moves, there, baseline, stale} \subseteq [Source -> Nat]
    BY <1>2
  <2> QED BY <1>1, <1>2, <1>3, <1>4, <2>2, <2>3 DEF FileTypes
<1>7. held \in [Source -> ReaderType]
  <2>1. NoFile \in ReaderType
    BY DEF NoFile, ReaderType
  <2>2. ASSUME NEW n \in 0 .. 1 PROVE [NoFile EXCEPT !.file = 1, !.offset = n] \in ReaderType
    BY <2>1, n \in Nat DEF ReaderType
  <2>3. {NoFile} \cup {[NoFile EXCEPT !.file = 1, !.offset = n] : n \in 0 .. 1} \subseteq ReaderType
    BY <2>1, <2>2, Zenon
  <2>4. held \in [Source -> {NoFile} \cup {[NoFile EXCEPT !.file = 1, !.offset = n] : n \in 0 .. 1}]
    BY Zenon DEF Init
  <2> QED BY <2>3, <2>4, Zenon
<1>8. MonitorTypes /\ VerdictInv
  BY <1>2, <1>7 DEF Init, MonitorTypes, VerdictInv, Steps, Running
<1> QED BY <1>6, <1>8

LEMMA InitInv == Init => IInv
<1> SUFFICES ASSUME Init PROVE IInv
  OBVIOUS
<1>1. FileTypes /\ MonitorTypes /\ VerdictInv
  BY InitTypes
<1>2. MarkInv
  <2>1. Snapshot \in Extents
    BY <1>1 DEF FileTypes, Snapshot, Extents, Size
  <2>2. before = Snapshot /\ mark.extent = Snapshot /\ mark.moves = moves /\ mark.file = 0
    BY DEF Init
  <2>3. Earlier(Snapshot, Snapshot)
    BY <2>1 DEF Extents, Earlier, AtMost
  <2> QED BY <1>1, <2>2, <2>3 DEF MarkInv, MarkRead, FileTypes
<1>3. ASSUME NEW s \in Source PROVE SourceInv(s)
  <2>1. /\ there[s] \in 0 .. 1 /\ path[s] = there[s] /\ made[s] = there[s] /\ seen[s] = 1 .. there[s]
        /\ pending[s] = <<>> /\ chunk[s] = <<>> /\ step[s] = "idle" /\ turn[s] = 0 /\ budget[s] = 0
        /\ got[s] = {} /\ gotPending[s] = {} /\ backed[s] = {} /\ evidence = {} /\ stale[s] = 0
    BY DEF Init
  <2>2. scene.files \in Nat \ {0}
    <3>1. scene \in Scene
      BY <1>1 DEF FileTypes
    <3> QED BY <3>1, SourceFacts
  <2>3. held[s].file \in {0, there[s]} /\ ~held[s].current /\ (held[s].file # 0 => held[s].offset = baseline[s])
    <3>1. held[s] = NoFile \/ (held[s].file = there[s] /\ held[s].offset = baseline[s])
      BY Zenon DEF Init
    <3>2. held[s] \in {NoFile} \cup {[NoFile EXCEPT !.file = 1, !.offset = n] : n \in 0 .. 1}
      BY Zenon DEF Init
    <3>3. ASSUME NEW n \in 0 .. 1 PROVE ~[NoFile EXCEPT !.file = 1, !.offset = n].current
      BY DEF NoFile
    <3>4. ~NoFile.current /\ NoFile.file = 0
      BY DEF NoFile
    <3> QED BY <3>1, <3>2, <3>3, <3>4, Zenon
  <2>4. NamesInv(s) /\ ReadersInv(s)
    BY <2>1, <2>2, <2>3, BoundAssumption DEF NamesInv, ReadersInv
  <2>5. PositionInv(s) /\ LineInv(s)
    BY <2>1, BoundAssumption DEF PositionInv, LineInv, Batch
  <2>6. OldInv(s) /\ EvidenceInv(s) /\ RoundInv(s)
    <3>1. there[s] # 0 => there[s] \in File
      BY <2>1, <2>2 DEF File
    <3>2. there[s] # 0 => cut[s][there[s]] = 0
      BY <3>1 DEF Init
    <3>3. baseline[s] \in Nat
      BY <1>1 DEF FileTypes
    <3> QED BY <2>1, <2>3, <3>2, <3>3 DEF OldInv, EvidenceInv, RoundInv, Batch
  <2> QED BY <2>4, <2>5, <2>6 DEF SourceInv
<1> QED BY <1>1, <1>2, <1>3 DEF IInv

-----------------------------------------------------------------------------
(* The game *)

LEMMA AtMostTransitive ==
  ASSUME NEW e, NEW f, NEW g, AtMost(e, f), AtMost(f, g),
         {e, f, g} \subseteq [cut : Nat, size : Nat]
  PROVE  AtMost(e, g)
BY DEF AtMost

LEMMA SnapshotFacts ==
  ASSUME FileTypes
  PROVE  /\ Snapshot \in Extents
         /\ \A s \in Source, f \in File : Snapshot[s][f] = [cut |-> cut[s][f], size |-> Size(s, f)]
BY DEF FileTypes, Snapshot, Extents, Size

(* What the game leaves alone *)
GameKeeps ==
  /\ UNCHANGED <<scene, follower, batch, position, monitor, there, baseline, backed, before, stale>>
  /\ FileTypes' /\ Earlier(Snapshot, Snapshot')
  /\ mark' = mark \/ (mark'.extent = Snapshot' /\ mark'.moves = moves' /\ ~MarkRead')

LEMMA SnapshotFactsNext ==
  ASSUME FileTypes'
  PROVE  /\ Snapshot' \in Extents'
         /\ \A s \in Source', f \in File' : Snapshot'[s][f] = [cut |-> cut'[s][f], size |-> Size(s, f)']
BY DEF FileTypes, Snapshot, Extents, Size

LEMMA GameMarks == IInv /\ GameKeeps /\ (\A s \in Source : moves[s] <= moves'[s]) => MarkInv' /\ (MarkRead' => MarkRead /\ mark' = mark)
<1> SUFFICES ASSUME IInv, GameKeeps, \A s \in Source : moves[s] <= moves'[s]
             PROVE  MarkInv' /\ (MarkRead' => MarkRead /\ mark' = mark)
  OBVIOUS
<1>1. Source' = Source /\ File' = File /\ Extents' = Extents /\ UNCHANGED <<before, step, backed>>
  BY DEF GameKeeps, Source, File, Extents
<1>2. Snapshot \in Extents /\ Snapshot' \in Extents
  BY <1>1, SnapshotFacts, SnapshotFactsNext DEF IInv, GameKeeps
<1>3. ASSUME NEW e \in Extents, Earlier(e, Snapshot) PROVE Earlier(e, Snapshot')
  BY <1>2, <1>3, AtMostTransitive DEF Earlier, Extents, GameKeeps
<1>4. before \in Extents /\ mark.extent \in Extents /\ mark.moves \in [Source -> Nat] /\ moves \in [Source -> Nat]
      /\ moves' \in [Source -> Nat]
  BY <1>1 DEF IInv, FileTypes, GameKeeps
<1>5. MarkRead' => MarkRead /\ mark' = mark
  BY <1>1 DEF GameKeeps, MarkRead
<1>6. Earlier(before, Snapshot)' /\ (\A s \in Source : mark'.moves[s] <= moves'[s])
  <2>1. Earlier(before, Snapshot)' <=> Earlier(before, Snapshot')
    BY <1>1 DEF Earlier
  <2> QED BY <1>3, <1>4, <2>1 DEF GameKeeps, IInv, MarkInv
<1>7. Earlier(mark.extent, Snapshot)'
  <2>1. Earlier(mark.extent, Snapshot)' <=> Earlier(mark'.extent, Snapshot')
    BY <1>1 DEF Earlier
  <2>2. Earlier(Snapshot', Snapshot')
    BY <1>2 DEF Earlier, AtMost, Extents
  <2> QED BY <1>3, <1>4, <2>1, <2>2 DEF GameKeeps, IInv, MarkInv
<1>8. MarkRead' /\ (\E s \in Source : step'[s] # "idle") => Earlier(mark.extent, before)'
  <2>1. mark' = mark => (Earlier(mark.extent, before)' <=> Earlier(mark.extent, before))
    BY <1>1 DEF Earlier
  <2> QED BY <1>1, <1>5, <2>1 DEF IInv, MarkInv
<1> QED BY <1>1, <1>5, <1>6, <1>7, <1>8 DEF MarkInv

LEMMA ReaderFile ==
  ASSUME IInv, NEW s \in Source
  PROVE  /\ held[s].file \in File \cup {0} /\ \A i \in DOMAIN pending[s] : pending[s][i].file \in File
         /\ Reader(s).file \in File \cup {0}
         /\ chunk[s] # <<>> => Reader(s).file \in File /\ chunk[s][1] \in Line /\ chunk[s][1].file \in File
<1>1. scene.files \in Nat /\ NamesInv(s) /\ ReadersInv(s) /\ PositionInv(s) /\ made[s] \in Nat /\ chunk[s] \in Seq(Line)
      /\ scene \in Scene /\ pending[s] \in Seq(ReaderType)
  BY SourceFacts DEF IInv, SourceInv, FileTypes, MonitorTypes
<1>2. seen[s] \subseteq File
  BY <1>1 DEF NamesInv, File
<1>3. held[s].file \in File \cup {0} /\ \A i \in DOMAIN pending[s] : pending[s][i].file \in File
  BY <1>1, <1>2 DEF ReadersInv
<1>4. ASSUME chunk[s] # <<>> PROVE chunk[s][1] \in Line
  BY <1>1, <1>4
<1>5. Reader(s).file \in File \cup {0}
  BY <1>1, <1>3 DEF PositionInv, Reader
<1>6. ASSUME chunk[s] # <<>> PROVE Reader(s).file \in File
  BY <1>1, <1>5, <1>6 DEF PositionInv
<1> QED BY <1>3, <1>4, <1>5, <1>6 DEF Line

LEMMA GameSource ==
  ASSUME IInv, GameKeeps, NEW s \in Source,
         moves[s] <= moves'[s], moves'[s] = moves[s] => path'[s] = path[s],
         path'[s] <= made'[s], made[s] <= made'[s], made'[s] <= scene.files,
         chunk[s] # <<>> =>
           LET f == Reader(s).file IN
           chunk[s][1].cut = cut'[s][f] \/ content'[s][f] = <<>>
  PROVE  SourceInv(s)'
<1>1. Source' = Source /\ File' = File
      /\ UNCHANGED <<scene, follower, batch, position, monitor, there, baseline, backed, before, stale>>
  BY DEF GameKeeps, Source, File
<1>2. SourceInv(s) /\ FileTypes /\ MonitorTypes /\ FileTypes' /\ MarkInv
  BY DEF IInv, GameKeeps
<1>3. Reader(s)' = Reader(s) /\ Batch(s)' = Batch(s) /\ Running' = Running
  BY <1>1 DEF Reader, Batch, Running
<1>4. /\ \A f \in File : cut[s][f] \in Nat /\ Size(s, f) \in Nat /\ cut'[s][f] \in Nat /\ Size(s, f)' \in Nat
      /\ \A f \in File : before[s][f].cut \in Nat /\ before[s][f].size \in Nat
      /\ moves[s] \in Nat /\ moves'[s] \in Nat /\ made[s] \in Nat /\ made'[s] \in Nat /\ path[s] \in Nat
      /\ scene.files \in Nat
  <2>1. ASSUME NEW f \in File PROVE cut[s][f] \in Nat /\ Size(s, f) \in Nat /\ before[s][f] \in [cut : Nat, size : Nat]
    BY <1>2 DEF FileTypes, Size, Extents
  <2>2. ASSUME NEW f \in File PROVE cut'[s][f] \in Nat /\ Size(s, f)' \in Nat
    <3>1. cut' \in [Source -> [File -> Nat]] /\ content' \in [Source -> [File -> Seq(Kind')]]
      BY <1>1, <1>2 DEF FileTypes
    <3> QED BY <3>1 DEF Size
  <2>3. moves[s] \in Nat /\ made[s] \in Nat /\ path[s] \in Nat /\ scene \in Scene
    BY <1>2 DEF FileTypes
  <2>4. moves'[s] \in Nat /\ made'[s] \in Nat
    BY <1>1, <1>2 DEF FileTypes
  <2> QED BY <2>1, <2>2, <2>3, <2>4, SourceFacts
<1>5. \A f \in File : cut[s][f] < cut'[s][f] \/ (cut[s][f] = cut'[s][f] /\ Size(s, f) <= Size(s, f)')
  <2> SUFFICES ASSUME NEW f \in File
               PROVE  cut[s][f] < cut'[s][f] \/ (cut[s][f] = cut'[s][f] /\ Size(s, f) <= Size(s, f)')
    OBVIOUS
  <2>1. AtMost(Snapshot[s][f], Snapshot'[s][f])
    BY DEF GameKeeps, Earlier
  <2>2. Snapshot[s][f] = [cut |-> cut[s][f], size |-> Size(s, f)]
    BY <1>2, SnapshotFacts
  <2>3. Snapshot'[s][f] = [cut |-> cut'[s][f], size |-> Size(s, f)']
    BY <1>1, <1>2, SnapshotFactsNext
  <2> QED BY <2>1, <2>2, <2>3 DEF AtMost
<1>6. \A f \in File : before[s][f].cut <= cut[s][f]
  <2>1. ASSUME NEW f \in File PROVE AtMost(before[s][f], [cut |-> cut[s][f], size |-> Size(s, f)])
    BY <1>2, SnapshotFacts DEF MarkInv, Earlier
  <2> QED BY <2>1, <1>4 DEF AtMost
<1>7. NamesInv(s)' /\ ReadersInv(s)'
  BY <1>1, <1>2, <1>4 DEF SourceInv, NamesInv, ReadersInv
<1>8. PositionInv(s)'
  BY <1>1, <1>2, <1>3 DEF SourceInv, PositionInv, Reading
<1>9. LineInv(s)'
  <2>1. ASSUME NEW l \in Line, Written(s, l) PROVE Written(s, l)'
    BY <2>1, <1>4, <1>5, <1>1 DEF Written, Line
  <2>2. Batch(s) \cup backed[s] \subseteq Line
    BY <1>2 DEF MonitorTypes, Batch
  <2> QED BY <1>1, <1>2, <1>3, <2>1, <2>2, ReaderFile DEF SourceInv, LineInv
<1>10. OldInv(s)'
  <2>1. there[s] # 0 => there[s] \in File
    BY <1>2, <1>4 DEF SourceInv, NamesInv, File
  <2>2. stale[s] \in Nat
    BY <1>2 DEF FileTypes
  <2>3. there[s] # 0 => stale[s] <= cut'[s][there[s]]
    <3>1. there[s] # 0 => stale[s] <= cut[s][there[s]]
      BY <1>2 DEF SourceInv, OldInv
    <3> QED BY <1>4, <1>5, <2>1, <2>2, <3>1
  <2>4. \A l : Fresh(s, l)' <=> Fresh(s, l)
    BY <1>1 DEF Fresh
  <2> QED BY <1>1, <1>2, <1>3, <2>3, <2>4 DEF SourceInv, OldInv
<1>11. EvidenceInv(s)'
  BY <1>1, <1>2, <1>3 DEF SourceInv, EvidenceInv, Suspect, Fresh
<1>12. RoundInv(s)'
  <2>1. MarkRead' => MarkRead /\ mark' = mark
    BY <1>1 DEF GameKeeps, MarkRead
  <2>2. mark.moves[s] <= moves[s] /\ mark.moves[s] \in Nat
    BY <1>2 DEF MarkInv, FileTypes
  <2>3. MarkRead' /\ moves'[s] = mark'.moves[s] => moves[s] = mark.moves[s] /\ path'[s] = path[s]
    BY <1>4, <2>1, <2>2
  <2>4. held[s].file # 0 /\ before[s][held[s].file].cut = cut'[s][held[s].file] =>
          before[s][held[s].file].cut = cut[s][held[s].file]
    BY <1>4, <1>5, <1>6, ReaderFile
  <2> QED BY <1>1, <1>2, <1>3, <2>1, <2>3, <2>4 DEF SourceInv, RoundInv
<1> QED BY <1>7, <1>8, <1>9, <1>10, <1>11, <1>12 DEF SourceInv

LEMMA WriteKeeps ==
  ASSUME IInv, NEW s \in Source, NEW f \in File, NEW k \in Marker[s] \cup Fatal, Write(s, f, k), UNCHANGED scene
  PROVE  GameKeeps /\ \A t \in Source : chunk[t] # <<>> =>
           LET g == Reader(t).file IN
           chunk[t][1].cut = cut'[t][g] \/ content'[t][g] = <<>>
<1>1. Source' = Source /\ File' = File /\ Kind' = Kind /\ Extents' = Extents
  BY DEF Source, File, Kind, Required, Extents
<1>2. /\ content \in [Source -> [File -> Seq(Kind)]] /\ cut \in [Source -> [File -> Nat]]
      /\ content' = [content EXCEPT ![s][f] = Append(@, k)] /\ k \in Kind
      /\ UNCHANGED <<cut, path, made, moves, there, baseline, stale, before, backed>>
  BY DEF Write, IInv, FileTypes, Kind, Required
<1>3. content' \in [Source -> [File -> Seq(Kind)]]
  BY <1>2
<1>4. /\ content'[s][f] = Append(content[s][f], k) /\ content[s][f] \in Seq(Kind)
      /\ \A t \in Source, g \in File : t # s \/ g # f => content'[t][g] = content[t][g]
  BY <1>2
<1>5. /\ Size(s, f)' = Size(s, f) + 1
      /\ \A t \in Source, g \in File : Size(t, g) \in Nat /\ Size(t, g)' \in Nat
      /\ \A t \in Source, g \in File : t # s \/ g # f => Size(t, g)' = Size(t, g)
  BY <1>2, <1>3, <1>4 DEF Size
<1>6. Snapshot' \in Extents
  BY <1>1, <1>2, <1>5 DEF Snapshot, Extents
<1>7. mark' = mark \/ mark' = [source |-> s, file |-> f, extent |-> Snapshot', moves |-> moves]
  BY Zenon DEF Write
<1>8. FileTypes'
  <2>1. mark' \in [source : Source, file : File \cup {0}, extent : Extents, moves : [Source -> Nat]]
    BY <1>7, <1>6 DEF IInv, FileTypes
  <2> QED BY <1>1, <1>2, <1>3, <2>1 DEF IInv, FileTypes
<1>9. Earlier(Snapshot, Snapshot')
  <2>1. ASSUME NEW t \in Source, NEW g \in File PROVE AtMost(Snapshot[t][g], Snapshot'[t][g])
    <3>1. Snapshot[t][g] = [cut |-> cut[t][g], size |-> Size(t, g)]
      BY DEF Snapshot
    <3>2. Snapshot'[t][g] = [cut |-> cut[t][g], size |-> Size(t, g)']
      BY <1>1, <1>2 DEF Snapshot
    <3>3. Size(t, g) <= Size(t, g)'
      BY <1>5
    <3> QED BY <3>1, <3>2, <3>3 DEF AtMost
  <2> QED BY <2>1 DEF Earlier
<1>10. mark' = [source |-> s, file |-> f, extent |-> Snapshot', moves |-> moves] => ~MarkRead'
  <2> SUFFICES ASSUME mark' = [source |-> s, file |-> f, extent |-> Snapshot', moves |-> moves], MarkRead'
               PROVE  FALSE
    OBVIOUS
  <2>1. Snapshot'[s][f] = [cut |-> cut[s][f], size |-> Size(s, f)']
    BY <1>1, <1>2 DEF Snapshot
  <2>2. PICK l \in backed[s] : l.file = f /\ l.cut = cut[s][f] /\ l.at = Size(s, f)'
    BY <1>2, <2>1 DEF MarkRead
  <2>3. Written(s, l)
    BY DEF IInv, SourceInv, LineInv
  <2>4. cut[s][f] \in Nat
    BY <1>2
  <2> QED BY <1>5, <2>2, <2>3, <2>4 DEF Written
<1>11. ASSUME NEW t \in Source, chunk[t] # <<>>
       PROVE  LET g == Reader(t).file IN chunk[t][1].cut = cut'[t][g] \/ content'[t][g] = <<>>
  <2> DEFINE g == Reader(t).file
  <2>1. chunk[t][1].cut = cut[t][g] \/ content[t][g] = <<>>
    BY <1>11 DEF IInv, SourceInv, PositionInv
  <2>2. t = s /\ g = f => chunk[t][1].cut = cut[t][g]
    BY <1>11 DEF Write, SlowRegrowth, Reader
  <2>3. g \in File
    BY <1>11, ReaderFile
  <2> QED BY <1>2, <1>4, <2>1, <2>2, <2>3
<1> QED BY <1>7, <1>8, <1>9, <1>10, <1>11 DEF GameKeeps, Write

LEMMA TruncateKeeps ==
  ASSUME IInv, NEW s \in Source, NEW f \in File, Truncate(s, f), UNCHANGED scene
  PROVE  GameKeeps /\ \A t \in Source : chunk[t] # <<>> =>
           LET g == Reader(t).file IN
           chunk[t][1].cut = cut'[t][g] \/ content'[t][g] = <<>>
<1>1. Source' = Source /\ File' = File /\ Kind' = Kind /\ Extents' = Extents
  BY DEF Source, File, Kind, Required, Extents
<1>2. /\ content \in [Source -> [File -> Seq(Kind)]] /\ cut \in [Source -> [File -> Nat]]
      /\ content' = [content EXCEPT ![s][f] = <<>>] /\ cut' = [cut EXCEPT ![s][f] = @ + 1]
      /\ UNCHANGED <<path, made, moves, there, baseline, stale, before, mark, backed>>
  BY DEF Truncate, IInv, FileTypes
<1>3. content' \in [Source -> [File -> Seq(Kind)]] /\ cut' \in [Source -> [File -> Nat]]
  BY <1>2
<1>4. /\ content'[s][f] = <<>> /\ cut'[s][f] = cut[s][f] + 1
      /\ \A t \in Source, g \in File : t # s \/ g # f => content'[t][g] = content[t][g] /\ cut'[t][g] = cut[t][g]
  BY <1>2
<1>5. FileTypes'
  BY <1>1, <1>2, <1>3 DEF IInv, FileTypes
<1>6. Earlier(Snapshot, Snapshot')
  <2>1. ASSUME NEW t \in Source, NEW g \in File PROVE AtMost(Snapshot[t][g], Snapshot'[t][g])
    <3>1. Snapshot[t][g] = [cut |-> cut[t][g], size |-> Size(t, g)]
      BY DEF Snapshot
    <3>2. Snapshot'[t][g] = [cut |-> cut'[t][g], size |-> Size(t, g)']
      BY <1>1 DEF Snapshot
    <3>3. cut[t][g] \in Nat /\ Size(t, g) \in Nat
      BY <1>2 DEF Size
    <3> QED BY <1>4, <3>1, <3>2, <3>3 DEF AtMost, Size
  <2> QED BY <2>1 DEF Earlier
<1>7. ASSUME NEW t \in Source, chunk[t] # <<>>
      PROVE  LET g == Reader(t).file IN chunk[t][1].cut = cut'[t][g] \/ content'[t][g] = <<>>
  <2> DEFINE g == Reader(t).file
  <2>1. chunk[t][1].cut = cut[t][g] \/ content[t][g] = <<>>
    BY <1>7 DEF IInv, SourceInv, PositionInv
  <2>2. g \in File
    BY <1>7, ReaderFile
  <2> QED BY <1>4, <2>1, <2>2
<1> QED BY <1>2, <1>5, <1>6, <1>7 DEF GameKeeps, Truncate

LEMMA MoveKeeps ==
  ASSUME IInv, NEW s \in Source, Move(s), UNCHANGED scene
  PROVE  /\ GameKeeps /\ UNCHANGED <<content, cut>>
         /\ \A t \in Source : /\ moves[t] <= moves'[t] /\ (moves'[t] = moves[t] => path'[t] = path[t])
                              /\ path'[t] <= made'[t] /\ made[t] <= made'[t] /\ made'[t] <= scene.files
<1>1. Source' = Source /\ File' = File /\ Kind' = Kind /\ Extents' = Extents
  BY DEF Source, File, Kind, Required, Extents
<1>2. /\ {path, made, moves} \subseteq [Source -> Nat] /\ scene.files \in Nat
      /\ UNCHANGED <<content, cut, there, baseline, stale, before, mark>>
      /\ moves' = [moves EXCEPT ![s] = @ + 1]
  BY SourceFacts DEF Move, IInv, FileTypes
<1>3. made' = made \/ (made[s] < scene.files /\ made' = [made EXCEPT ![s] = @ + 1])
  BY DEF Move
<1>4. PICK f \in 0 .. made'[s] : path' = [path EXCEPT ![s] = f]
  BY <1>2 DEF Move
<1>5. path' \in [Source -> Nat] /\ made' \in [Source -> Nat] /\ moves' \in [Source -> Nat]
  BY <1>2, <1>3, <1>4
<1>6. FileTypes'
  <2>1. /\ scene' \in Scene /\ content' \in [Source -> [File -> Seq(Kind)]] /\ cut' \in [Source -> [File -> Nat]]
        /\ before' \in Extents
        /\ mark' \in [source : Source, file : File \cup {0}, extent : Extents, moves : [Source -> Nat]]
    BY <1>2 DEF IInv, FileTypes
  <2>2. there' \in [Source -> Nat] /\ baseline' \in [Source -> Nat] /\ stale' \in [Source -> Nat]
    BY <1>2 DEF IInv, FileTypes
  <2> QED BY <1>1, <1>5, <2>1, <2>2 DEF FileTypes
<1>7. Earlier(Snapshot, Snapshot')
  <2>1. Snapshot' = Snapshot /\ Snapshot \in Extents
    BY <1>1, <1>2, SnapshotFacts DEF Snapshot, Size, IInv
  <2> QED BY <2>1 DEF Earlier, AtMost, Extents
<1>8. ASSUME NEW t \in Source
      PROVE  /\ moves[t] <= moves'[t] /\ (moves'[t] = moves[t] => path'[t] = path[t])
             /\ path'[t] <= made'[t] /\ made[t] <= made'[t] /\ made'[t] <= scene.files
  <2>1. path[t] <= made[t] /\ made[t] <= scene.files
    BY DEF IInv, SourceInv, NamesInv
  <2> QED BY <1>2, <1>3, <1>4, <2>1
<1> QED BY <1>2, <1>6, <1>7, <1>8 DEF GameKeeps, Move

LEMMA GameInv == IInv /\ Game /\ UNCHANGED scene => IInv'
<1> SUFFICES ASSUME IInv, Game, UNCHANGED scene PROVE IInv'
  OBVIOUS
<1>1. /\ GameKeeps
      /\ \A s \in Source :
           /\ moves[s] <= moves'[s] /\ (moves'[s] = moves[s] => path'[s] = path[s])
           /\ path'[s] <= made'[s] /\ made[s] <= made'[s] /\ made'[s] <= scene.files
           /\ chunk[s] # <<>> =>
                LET f == Reader(s).file IN chunk[s][1].cut = cut'[s][f] \/ content'[s][f] = <<>>
  <2>1. /\ \A s \in Source : moves[s] \in Nat /\ made[s] \in Nat
        /\ \A s \in Source : path[s] <= made[s] /\ made[s] <= scene.files
        /\ \A s \in Source : chunk[s] # <<>> =>
                LET f == Reader(s).file IN chunk[s][1].cut = cut[s][f] \/ content[s][f] = <<>>
    BY DEF IInv, FileTypes, SourceInv, NamesInv, PositionInv
  <2>2. CASE \E s \in Source : Move(s)
    BY <2>1, <2>2, MoveKeeps
  <2>3. CASE \E s \in Source, f \in File : Truncate(s, f)
    <3>1. PICK s \in Source, f \in File : Truncate(s, f)
      BY <2>3
    <3>2. UNCHANGED <<path, made, moves>>
      BY <3>1 DEF Truncate
    <3> QED BY <2>1, <3>1, <3>2, TruncateKeeps
  <2>4. CASE \E s \in Source, f \in File : \E k \in Marker[s] \cup Fatal : Write(s, f, k)
    <3>1. PICK s \in Source, f \in File : \E k \in Marker[s] \cup Fatal : Write(s, f, k)
      BY <2>4
    <3>2. UNCHANGED <<path, made, moves>>
      BY <3>1 DEF Write
    <3> QED BY <2>1, <3>1, <3>2, WriteKeeps
  <2> QED BY <2>2, <2>3, <2>4 DEF Game
<1>2. MarkInv'
  BY <1>1, GameMarks
<1>3. ASSUME NEW s \in Source PROVE SourceInv(s)'
  BY <1>1, GameSource
<1>4. MonitorTypes' /\ VerdictInv'
  BY <1>1 DEF IInv, GameKeeps, MonitorTypes, VerdictInv, Source, ReaderType, Line, Kind, File, Required, Running
<1>5. Source' = Source
  BY DEF Source
<1> QED BY <1>1, <1>2, <1>3, <1>4, <1>5 DEF IInv, GameKeeps

-----------------------------------------------------------------------------
(* A follower *)

(* A step of the follower of s leaves the others alone. *)
FollowKeeps(s) ==
  /\ UNCHANGED <<scene, files, evidence, quietRounds, history>> /\ (Running' => Running)
  /\ \A t \in Source \ {s} :
       /\ held'[t] = held[t] /\ pending'[t] = pending[t] /\ seen'[t] = seen[t]
       /\ step'[t] = step[t] /\ turn'[t] = turn[t] /\ chunk'[t] = chunk[t]
       /\ budget'[t] = budget[t] /\ got'[t] = got[t] /\ gotPending'[t] = gotPending[t]
       /\ reset'[t] = reset[t] /\ retiringChanged'[t] = retiringChanged[t] /\ activity'[t] = activity[t]
  /\ MonitorTypes' /\ VerdictInv'

LEMMA FollowerStep ==
  ASSUME IInv, NEW s \in Source, FollowKeeps(s), step[s] # "idle", SourceInv(s)'
  PROVE  IInv'
<1>1. Source' = Source /\ File' = File /\ Extents' = Extents /\ Kind' = Kind /\ Snapshot' = Snapshot
      /\ UNCHANGED <<scene, content, cut, path, made, moves, there, baseline, backed, before, mark, stale, evidence>>
  BY DEF FollowKeeps, Source, File, Extents, Kind, Required, Snapshot, Size
<1>2. FileTypes'
  BY <1>1 DEF IInv, FileTypes
<1>3. MarkRead' <=> MarkRead
  BY <1>1 DEF MarkRead
<1>4. MarkInv'
  BY <1>1, <1>3 DEF IInv, MarkInv, Earlier
<1>5. ASSUME NEW t \in Source \ {s} PROVE SourceInv(t)'
  <2>1. /\ UNCHANGED <<scene, content, cut, path, made, moves, there, baseline, backed, before, mark, stale, evidence>>
        /\ held'[t] = held[t] /\ pending'[t] = pending[t] /\ seen'[t] = seen[t]
        /\ step'[t] = step[t] /\ turn'[t] = turn[t] /\ chunk'[t] = chunk[t]
        /\ budget'[t] = budget[t] /\ got'[t] = got[t] /\ gotPending'[t] = gotPending[t]
        /\ reset'[t] = reset[t] /\ activity'[t] = activity[t]
    BY <1>1 DEF FollowKeeps
  <2>2. Reader(t)' = Reader(t) /\ Batch(t)' = Batch(t) /\ (\A l : Written(t, l)' <=> Written(t, l))
        /\ (\A l : Fresh(t, l)' <=> Fresh(t, l)) /\ Suspect(t)' = Suspect(t)
    BY <2>1 DEF Reader, Batch, Written, Size, Fresh, Suspect
  <2>3. SourceInv(t) /\ (Running' => Running)
    BY DEF IInv, FollowKeeps
  <2>4. NamesInv(t)' /\ ReadersInv(t)' /\ PositionInv(t)'
    BY <2>1, <2>2, <2>3 DEF SourceInv, NamesInv, ReadersInv, PositionInv, Reading
  <2>5. LineInv(t)' /\ OldInv(t)'
    BY <2>1, <2>2, <2>3 DEF SourceInv, LineInv, OldInv
  <2>6. EvidenceInv(t)'
    BY <2>1, <2>2, <2>3 DEF SourceInv, EvidenceInv
  <2>7. RoundInv(t)'
    BY <2>1, <1>3, <2>3 DEF SourceInv, RoundInv
  <2> QED BY <2>4, <2>5, <2>6, <2>7 DEF SourceInv
<1> QED BY <1>1, <1>2, <1>4, <1>5 DEF IInv, FollowKeeps

LEMMA ProceedFacts ==
  ASSUME IInv, NEW s \in Source, step[s] \in Reading, Proceed(s)
  PROVE  /\ step' \in [Source -> Steps] /\ turn' \in [Source -> Nat] /\ chunk' \in [Source -> Seq(Line)]
         /\ \A t \in Source \ {s} : step'[t] = step[t] /\ turn'[t] = turn[t] /\ chunk'[t] = chunk[t]
         /\ chunk'[s] = <<>> /\ step'[s] \in {"detect", "pending", "retire", "adopt"}
         /\ step'[s] = "detect" <=> step[s] = "first"
         /\ step'[s] = "adopt" => step[s] \in {"second", "retire"}
         /\ IF step'[s] = "pending" THEN turn'[s] \in DOMAIN pending[s] ELSE turn'[s] = 0
<1>1. /\ step \in [Source -> Steps] /\ turn \in [Source -> Nat] /\ chunk \in [Source -> Seq(Line)]
      /\ pending[s] \in Seq(ReaderType) /\ PositionInv(s)
  BY DEF IInv, MonitorTypes, SourceInv
<1>2. step' = [step EXCEPT ![s] = AfterRead(s)[1]] /\ turn' = [turn EXCEPT ![s] = AfterRead(s)[2]]
      /\ chunk' = [chunk EXCEPT ![s] = <<>>]
  BY DEF Proceed
<1>3. CASE step[s] = "first"
  <2>1. AfterRead(s)[1] = "detect" /\ AfterRead(s)[2] = 0
    BY <1>3 DEF AfterRead
  <2> QED BY <1>1, <1>2, <1>3, <2>1 DEF Steps
<1>4. CASE step[s] = "second" /\ pending[s] # <<>>
  <2>1. AfterRead(s)[1] = "pending" /\ AfterRead(s)[2] = 1
    BY <1>4 DEF AfterRead
  <2> QED BY <1>1, <1>2, <1>4, <2>1 DEF Steps
<1>5. CASE step[s] = "second" /\ pending[s] = <<>>
  <2>1. AfterRead(s)[1] = "adopt" /\ AfterRead(s)[2] = 0
    BY <1>5 DEF AfterRead
  <2> QED BY <1>1, <1>2, <1>5, <2>1 DEF Steps
<1>6. CASE step[s] = "pending" /\ turn[s] < Len(pending[s])
  <2>1. AfterRead(s)[1] = "pending" /\ AfterRead(s)[2] = turn[s] + 1
    BY <1>6 DEF AfterRead
  <2> QED BY <1>1, <1>2, <1>6, <2>1 DEF Steps
<1>7. CASE step[s] = "pending" /\ ~(turn[s] < Len(pending[s]))
  <2>1. AfterRead(s)[1] = "retire" /\ AfterRead(s)[2] = 0
    BY <1>7 DEF AfterRead
  <2> QED BY <1>1, <1>2, <1>7, <2>1 DEF Steps
<1>8. CASE step[s] = "retire"
  <2>1. AfterRead(s)[1] = "adopt" /\ AfterRead(s)[2] = 0
    BY <1>8 DEF AfterRead
  <2> QED BY <1>1, <1>2, <1>8, <2>1 DEF Steps
<1> QED BY <1>3, <1>4, <1>5, <1>6, <1>7, <1>8 DEF Reading

LEMMA SetReaderFacts ==
  ASSUME IInv, NEW s \in Source, NEW new \in ReaderType, SetReader(s, new), UNCHANGED <<there, seen>>,
         (new.file = Reader(s).file /\ new.current = Reader(s).current) \/ (new.file = 0 /\ ~Reader(s).current)
  PROVE  /\ held' \in [Source -> ReaderType] /\ pending' \in [Source -> Seq(ReaderType)]
         /\ \A t \in Source \ {s} : held'[t] = held[t] /\ pending'[t] = pending[t]
         /\ Len(pending'[s]) = Len(pending[s]) /\ ReadersInv(s)'
         /\ turn[s] = 0 => held'[s] = new /\ pending' = pending
         /\ turn[s] # 0 => held' = held /\ pending'[s][turn[s]] = new /\ Reader(s).current
                           /\ Reader(s).file \notin {there[s], held[s].file} /\ Reader(s) \in ReaderType
         /\ Reader(s) \in ReaderType
<1>1. /\ held \in [Source -> ReaderType] /\ pending \in [Source -> Seq(ReaderType)]
      /\ ReadersInv(s) /\ (turn[s] # 0 => turn[s] \in DOMAIN pending[s])
  BY DEF IInv, MonitorTypes, SourceInv, PositionInv
<1>2. CASE turn[s] = 0
  <2>1. held' = [held EXCEPT ![s] = new] /\ pending' = pending /\ Reader(s) = held[s]
    BY <1>2 DEF SetReader, Reader
  <2>2. ReadersInv(s)'
    BY <1>1, <2>1 DEF ReadersInv, ReaderType
  <2> QED BY <1>1, <1>2, <2>1, <2>2
<1>3. CASE turn[s] # 0
  <2>1. held' = held /\ pending' = [pending EXCEPT ![s][turn[s]] = new] /\ Reader(s) = pending[s][turn[s]]
    BY <1>3 DEF SetReader, Reader
  <2>2. turn[s] \in 1 .. Len(pending[s]) /\ Reader(s) \in ReaderType
    BY <1>1, <1>3, <2>1
  <2>3. /\ pending' \in [Source -> Seq(ReaderType)] /\ Len(pending'[s]) = Len(pending[s])
        /\ pending'[s] = [pending[s] EXCEPT ![turn[s]] = new]
        /\ \A t \in Source \ {s} : pending'[t] = pending[t]
    BY <1>1, <2>1, <2>2
  <2>4. Reader(s).current /\ Reader(s).file \notin {there[s], held[s].file}
    BY <1>1, <2>1, <2>2 DEF ReadersInv
  <2>5. ReadersInv(s)'
    <3>1. DOMAIN pending'[s] = DOMAIN pending[s]
      BY <1>1, <2>3
    <3>2. \A i \in DOMAIN pending[s] :
            pending'[s][i].file = pending[s][i].file /\ pending'[s][i].current = pending[s][i].current
      BY <1>1, <2>1, <2>2, <2>3, <2>4
    <3> QED BY <1>1, <2>1, <2>3, <3>1, <3>2 DEF ReadersInv
  <2> QED BY <1>1, <1>3, <2>1, <2>2, <2>3, <2>4, <2>5
<1> QED BY <1>2, <1>3

(* A read that finds the file continued: nothing, or the chunk, is added to the
   batch, and the generation is left or the next chunk is taken. *)
ReadOn(s, new, lines) ==
  LET r == Reader(s) IN
  /\ Running /\ step[s] \in Reading /\ SetReader(s, new) /\ Got(s, lines)
  /\ UNCHANGED <<scene, files, seen, reset, retiringChanged, monitor, history>>
  /\ budget' \in [Source -> Nat] /\ \A t \in Source \ {s} : budget'[t] = budget[t]
  /\ budget'[s] <= budget[s]
  /\ activity' \in [Source -> BOOLEAN] /\ \A t \in Source \ {s} : activity'[t] = activity[t]
  /\ activity'[s] \/ (activity'[s] = activity[s] /\ lines = {})
  /\ new.file = r.file /\ new.current = r.current
  /\ r.file # 0 => Continuous(s, r.file, r.offset, r.anchor)
  /\ \/ lines = {} /\ new.offset = r.offset /\ new.anchor = r.anchor
     \/ /\ chunk[s] # <<>> /\ lines = {chunk[s][1]} /\ Size(s, r.file) > r.offset
        /\ new.offset = r.offset + 1 /\ new.anchor = cut[s][r.file]
  /\ \/ Proceed(s) /\ (r.file # 0 /\ ~new.more => Size(s, r.file) <= new.offset)
     \/ Take(s, new) /\ r.file # 0 /\ Size(s, r.file) > new.offset /\ budget'[s] > 0

LEMMA TakeFacts ==
  ASSUME IInv, NEW s \in Source, NEW r \in ReaderType, Take(s, r), r.file \in File, Size(s, r.file) > r.offset
  PROVE  LET l == [kind |-> content[s][r.file][r.offset + 1], file |-> r.file, cut |-> cut[s][r.file], at |-> r.offset + 1]
         IN /\ l \in Line /\ chunk' = [chunk EXCEPT ![s] = <<l>>] /\ chunk' \in [Source -> Seq(Line)]
            /\ chunk'[s] # <<>> /\ Len(chunk'[s]) = 1 /\ chunk'[s][1] = l
            /\ Written(s, l)
<1> DEFINE l == [kind |-> content[s][r.file][r.offset + 1], file |-> r.file, cut |-> cut[s][r.file], at |-> r.offset + 1]
<1>1. content[s][r.file] \in Seq(Kind) /\ cut[s][r.file] \in Nat /\ r.offset \in Nat
      /\ chunk \in [Source -> Seq(Line)]
  <2>1. content \in [Source -> [File -> Seq(Kind)]] /\ cut \in [Source -> [File -> Nat]]
    BY DEF IInv, FileTypes
  <2>2. r.offset \in Nat
    BY DEF ReaderType
  <2>3. chunk \in [Source -> Seq(Line)]
    BY DEF IInv, MonitorTypes
  <2> QED BY <2>1, <2>2, <2>3
<1>2. content[s][r.file][r.offset + 1] \in Kind
  BY <1>1 DEF Size
<1>3. l \in Line
  BY <1>1, <1>2 DEF Line
<1>4. chunk' = [chunk EXCEPT ![s] = <<l>>]
  BY DEF Take
<1>5. <<l>> \in Seq(Line) /\ Len(<<l>>) = 1 /\ <<l>>[1] = l
  BY <1>3, Singleton
<1>6. chunk' \in [Source -> Seq(Line)] /\ chunk'[s] = <<l>>
  BY <1>1, <1>4, <1>5
<1>7. chunk'[s] # <<>> /\ Len(chunk'[s]) = 1 /\ chunk'[s][1] = l
  <2> HIDE DEF l
  <2> QED BY <1>5, <1>6
<1>8. Written(s, l)
  <2>1. Size(s, r.file) \in Nat
    BY <1>1 DEF Size
  <2> QED BY <1>1, <2>1 DEF Written
<1> QED BY <1>3, <1>4, <1>6, <1>7, <1>8

LEMMA ReadOnKeeps ==
  ASSUME IInv, NEW s \in Source, NEW new \in ReaderType, NEW lines \in SUBSET Line, ReadOn(s, new, lines)
  PROVE  FollowKeeps(s)
<1>1. /\ held' \in [Source -> ReaderType] /\ pending' \in [Source -> Seq(ReaderType)]
      /\ \A t \in Source \ {s} : held'[t] = held[t] /\ pending'[t] = pending[t]
  BY SetReaderFacts DEF ReadOn
<1>2. /\ step' \in [Source -> Steps] /\ turn' \in [Source -> Nat] /\ chunk' \in [Source -> Seq(Line)]
      /\ \A t \in Source \ {s} : step'[t] = step[t] /\ turn'[t] = turn[t] /\ chunk'[t] = chunk[t]
  <2>1. CASE Proceed(s)
    BY <2>1, ProceedFacts DEF ReadOn
  <2>2. CASE Take(s, new) /\ Reader(s).file # 0 /\ Size(s, Reader(s).file) > new.offset
    <3>1. UNCHANGED <<step, turn>>
      BY <2>2 DEF Take
    <3>2. new.file \in File
      BY <2>2, ReaderFile DEF ReadOn
    <3>3. /\ step \in [Source -> Steps] /\ turn \in [Source -> Nat] /\ chunk \in [Source -> Seq(Line)]
      BY DEF IInv, MonitorTypes
    <3> QED BY <2>2, <3>1, <3>2, <3>3, TakeFacts DEF ReadOn
  <2> QED BY <2>1, <2>2 DEF ReadOn
<1>3. /\ got' \in [Source -> SUBSET Line] /\ gotPending' \in [Source -> SUBSET Line]
      /\ \A t \in Source \ {s} : got'[t] = got[t] /\ gotPending'[t] = gotPending[t]
  <2>1. got \in [Source -> SUBSET Line] /\ gotPending \in [Source -> SUBSET Line]
    BY DEF IInv, MonitorTypes
  <2>2. CASE turn[s] = 0
    BY <2>1, <2>2 DEF ReadOn, Got
  <2>3. CASE turn[s] # 0
    BY <2>1, <2>3 DEF ReadOn, Got
  <2> QED BY <2>2, <2>3
<1>4. Source' = Source /\ Line' = Line /\ Required' = Required /\ (Running' <=> Running)
  BY DEF ReadOn, Source, Line, Kind, Required, File, Running
<1>5. MonitorTypes'
  <2>1. ReaderType' = ReaderType
    BY DEF ReaderType
  <2>2. /\ seen' \in [Source -> SUBSET Nat] /\ backed' \in [Source -> SUBSET Line]
        /\ budget' \in [Source -> Nat] /\ activity' \in [Source -> BOOLEAN]
        /\ reset' \in [Source -> BOOLEAN] /\ retiringChanged' \in [Source -> BOOLEAN]
    BY DEF ReadOn, IInv, MonitorTypes
  <2> QED BY <1>1, <1>2, <1>3, <1>4, <2>1, <2>2 DEF MonitorTypes
<1>6. VerdictInv'
  BY <1>4 DEF ReadOn, IInv, VerdictInv
<1> QED BY <1>1, <1>2, <1>3, <1>4, <1>5, <1>6 DEF FollowKeeps, ReadOn

(* What any step of the follower of s makes of its lines, however it moves on. *)
LEMMA BatchLines ==
  ASSUME IInv, NEW s \in Source
  PROVE  Batch(s) \cup backed[s] \subseteq Line /\ (chunk[s] # <<>> => chunk[s][1] \in Line)
BY ReaderFile DEF IInv, MonitorTypes, Batch

LEMMA ReadOnPosition ==
  ASSUME IInv, NEW s \in Source, NEW new \in ReaderType, NEW lines \in SUBSET Line, ReadOn(s, new, lines)
  PROVE  /\ PositionInv(s)' /\ step'[s] \notin {"idle", "done"}
         /\ step'[s] = "adopt" => step[s] \in {"second", "retire"} /\ turn[s] = 0
                                  /\ (Reader(s).file # 0 /\ ~new.more => Size(s, Reader(s).file) <= new.offset)
         /\ step'[s] \in {"first", "detect"} <=> step[s] = "first"
         /\ chunk'[s] # <<>> => new.file # 0 /\ chunk'[s][1].file = new.file /\ chunk'[s][1].cut = cut[s][new.file]
                                /\ chunk'[s][1].at = new.offset + 1 /\ Written(s, chunk'[s][1])
         /\ step'[s] = "first" => chunk'[s] # <<>>
<1>1. PositionInv(s) /\ Reader(s).file \in File \cup {0} /\ step[s] \in Reading
  BY ReaderFile DEF ReadOn, IInv, SourceInv
<1>2. budget'[s] \in Nat /\ budget'[s] <= Budget
  BY <1>1, BoundAssumption DEF ReadOn, IInv, MonitorTypes, PositionInv
<1>3. /\ Len(pending'[s]) = Len(pending[s]) /\ DOMAIN pending'[s] = DOMAIN pending[s]
      /\ turn[s] = 0 => held'[s] = new
      /\ turn[s] # 0 => pending'[s][turn[s]] = new
  <2>1. pending[s] \in Seq(ReaderType) /\ pending'[s] \in Seq(ReaderType)
    BY SetReaderFacts DEF ReadOn, IInv, MonitorTypes
  <2> QED BY <2>1, SetReaderFacts DEF ReadOn
<1>4. CASE Proceed(s) /\ (Reader(s).file # 0 /\ ~new.more => Size(s, Reader(s).file) <= new.offset)
  <2>1. /\ chunk'[s] = <<>> /\ step'[s] \in {"detect", "pending", "retire", "adopt"}
        /\ step'[s] = "detect" <=> step[s] = "first"
        /\ step'[s] = "adopt" => step[s] \in {"second", "retire"}
        /\ IF step'[s] = "pending" THEN turn'[s] \in DOMAIN pending[s] ELSE turn'[s] = 0
    BY <1>1, <1>4, ProceedFacts
  <2>2. PositionInv(s)'
    BY <1>2, <1>3, <2>1 DEF PositionInv
  <2>3. step'[s] = "adopt" => turn[s] = 0
    BY <1>1, <2>1 DEF PositionInv
  <2> QED BY <1>4, <2>1, <2>2, <2>3
<1>5. CASE Take(s, new) /\ Reader(s).file # 0 /\ Size(s, Reader(s).file) > new.offset /\ budget'[s] > 0
  <2>1. new.file \in File /\ new.file # 0 /\ Size(s, new.file) > new.offset
    BY <1>1, <1>5 DEF ReadOn
  <2>2. /\ chunk'[s] # <<>> /\ Len(chunk'[s]) = 1 /\ chunk'[s][1].file = new.file
        /\ chunk'[s][1].cut = cut[s][new.file] /\ chunk'[s][1].at = new.offset + 1 /\ Written(s, chunk'[s][1])
    <3> DEFINE l == [kind |-> content[s][new.file][new.offset + 1], file |-> new.file, cut |-> cut[s][new.file], at |-> new.offset + 1]
    <3>1. chunk'[s] # <<>> /\ Len(chunk'[s]) = 1 /\ chunk'[s][1] = l /\ Written(s, l)
      BY <1>5, <2>1, TakeFacts
    <3>2. l.file = new.file /\ l.cut = cut[s][new.file] /\ l.at = new.offset + 1
      OBVIOUS
    <3> HIDE DEF l
    <3> QED BY <3>1, <3>2
  <2>3. UNCHANGED <<step, turn>>
    BY <1>5 DEF Take
  <2>4. Reader(s)' = new
    BY <1>3, <2>3 DEF Reader
  <2>5. cut' = cut /\ UNCHANGED content
    BY DEF ReadOn
  <2>6. new.offset # 0 => cut[s][new.file] = new.anchor
    BY <2>1 DEF ReadOn, Continuous
  <2>7. PositionInv(s)'
    BY <1>1, <1>2, <1>3, <1>5, <2>1, <2>2, <2>3, <2>4, <2>5, <2>6 DEF PositionInv, Reading
  <2> QED BY <1>1, <2>1, <2>2, <2>3, <2>7 DEF Reading
<1> QED BY <1>4, <1>5 DEF ReadOn

LEMMA ReadOnInv ==
  ASSUME IInv, NEW s \in Source, NEW new \in ReaderType, NEW lines \in SUBSET Line, ReadOn(s, new, lines)
  PROVE  SourceInv(s)'
<1> DEFINE r == Reader(s)
<1>1. /\ UNCHANGED <<scene, content, cut, path, made, moves, there, baseline, backed, before, mark, stale, evidence, reset>>
      /\ seen' = seen /\ (Running' => Running) /\ UNCHANGED outcome
  BY DEF ReadOn, Running
<1>2. /\ SourceInv(s) /\ step[s] \in Reading
      /\ r.file \in File \cup {0} /\ r \in ReaderType /\ new.file = r.file
  BY ReaderFile, SetReaderFacts DEF IInv, ReadOn
<1>3. /\ (\A l : Written(s, l)' <=> Written(s, l)) /\ (\A l : Fresh(s, l)' <=> Fresh(s, l))
      /\ (MarkRead' <=> MarkRead)
  BY <1>1 DEF Written, Size, Fresh, MarkRead
<1>4. /\ turn[s] = 0 => held'[s] = new /\ r = held[s]
      /\ turn[s] # 0 => held'[s] = held[s] /\ r.file \notin {there[s], held[s].file} /\ r.current
  BY SetReaderFacts DEF ReadOn, Reader
<1>5. held'[s].file = held[s].file
  BY <1>2, <1>4
<1>6. Batch(s)' = Batch(s) \cup lines /\ (turn[s] = 0 => gotPending'[s] = gotPending[s])
      /\ (turn[s] # 0 => gotPending'[s] = gotPending[s] \cup lines)
  <2>1. /\ got \in [Source -> SUBSET Line] /\ gotPending \in [Source -> SUBSET Line]
    BY DEF IInv, MonitorTypes
  <2> QED BY <2>1 DEF ReadOn, Got, Batch
<1>7. lines = {} \/ (chunk[s] # <<>> /\ lines = {chunk[s][1]})
  BY DEF ReadOn
<1>8. ASSUME NEW l \in lines
      PROVE  /\ l = chunk[s][1] /\ chunk[s] # <<>> /\ l.file = r.file /\ r.file # 0 /\ l.cut = cut[s][r.file]
             /\ new.offset > 0 /\ new.anchor = cut[s][r.file] /\ Written(s, l) /\ Fresh(s, l)
  <2>1. chunk[s] # <<>> /\ l = chunk[s][1] /\ Size(s, r.file) > r.offset
        /\ new.offset = r.offset + 1 /\ new.anchor = cut[s][r.file]
    BY <1>8 DEF ReadOn
  <2>2. l.file = r.file /\ r.file # 0 /\ (l.cut = cut[s][r.file] \/ content[s][r.file] = <<>>)
    BY <1>2, <2>1 DEF SourceInv, PositionInv
  <2>3. r.offset \in Nat
    BY <1>2 DEF ReaderType
  <2>4. content[s][r.file] # <<>>
    BY <2>1, <2>3 DEF Size
  <2>5. Written(s, l) /\ Fresh(s, l)
    BY <1>2, <2>1 DEF SourceInv, LineInv, OldInv
  <2> QED BY <2>1, <2>2, <2>3, <2>4, <2>5
<1>9. NamesInv(s)' /\ ReadersInv(s)'
  BY <1>1, <1>2, SetReaderFacts DEF ReadOn, SourceInv, NamesInv
<1>10. PositionInv(s)'
  BY ReadOnPosition
<1>11. LineInv(s)'
  <2>1. lines # {} => activity'[s]
    BY DEF ReadOn
  <2>2. activity[s] => activity'[s]
    BY DEF ReadOn
  <2> QED BY <1>1, <1>2, <1>3, <1>6, <1>8, <2>1, <2>2, ReadOnPosition DEF SourceInv, LineInv
<1>12. OldInv(s)'
  <2>1. OldInv(s) /\ r.offset \in Nat /\ new.offset \in Nat /\ baseline[s] \in Nat
    BY <1>2 DEF SourceInv, ReaderType, IInv, FileTypes
  <2>2. \A l \in Batch(s)' : Fresh(s, l)
    BY <1>6, <1>8, <2>1 DEF OldInv
  <2>3. \A l \in gotPending'[s] : l.file # there[s]
    BY <1>4, <1>6, <1>8, <2>1 DEF OldInv
  <2>4. ASSUME held[s].file = there[s], there[s] # 0, turn[s] = 0
        PROVE  /\ new.offset >= baseline[s]
               /\ \A l \in Batch(s)' \cup backed[s] : l.file = there[s] => l.cut = new.anchor /\ new.offset > 0
    <3>1. r.offset >= baseline[s] /\ \A l \in Batch(s) \cup backed[s] : l.file = there[s] => l.cut = r.anchor /\ r.offset > 0
      BY <1>4, <2>1, <2>4 DEF OldInv
    <3>2. r.offset # 0 => cut[s][r.file] = r.anchor
      BY <1>4, <2>4 DEF ReadOn, Continuous
    <3>3. new.offset >= r.offset /\ (r.offset # 0 => new.anchor = r.anchor)
      BY <2>1, <3>2 DEF ReadOn
    <3>4. ASSUME NEW l \in Batch(s)' \cup backed[s], l.file = there[s] PROVE l.cut = new.anchor /\ new.offset > 0
      <4>1. CASE l \in lines
        BY <4>1, <1>8
      <4>2. CASE l \in Batch(s) \cup backed[s]
        BY <2>1, <3>1, <3>3, <3>4, <4>2
      <4> QED BY <1>6, <4>1, <4>2
    <3> QED BY <2>1, <3>1, <3>3, <3>4
  <2>5. ASSUME held[s].file = there[s], there[s] # 0, turn[s] # 0
        PROVE  /\ held[s].offset >= baseline[s]
               /\ \A l \in Batch(s)' \cup backed[s] : l.file = there[s] => l.cut = held[s].anchor /\ held[s].offset > 0
    BY <1>4, <1>6, <1>8, <2>1, <2>5 DEF OldInv
  <2>6. chunk'[s] # <<>> => Fresh(s, chunk'[s][1])
    <3> SUFFICES ASSUME chunk'[s] # <<>>, chunk'[s][1].file = there[s]
                 PROVE  chunk'[s][1].cut >= stale[s] /\ (chunk'[s][1].cut = 0 => chunk'[s][1].at > baseline[s])
      BY DEF Fresh
    <3>1. chunk'[s][1].cut = cut[s][new.file] /\ chunk'[s][1].at = new.offset + 1 /\ chunk'[s][1].file = new.file
      BY ReadOnPosition
    <3>2. there[s] # 0 /\ turn[s] = 0 /\ held[s].file = there[s] /\ new.file = there[s]
      BY <1>2, <1>4, <3>1, ReadOnPosition
    <3>3. stale[s] <= cut[s][there[s]] /\ new.offset >= baseline[s]
      BY <2>1, <2>4, <3>2 DEF OldInv
    <3> QED BY <2>1, <3>1, <3>2, <3>3
  <2> QED BY <1>1, <1>3, <1>4, <1>5, <2>1, <2>2, <2>3, <2>4, <2>5, <2>6 DEF OldInv
<1>13. EvidenceInv(s)'
  <2>1. step'[s] # "idle" /\ step[s] # "idle"
    BY <1>2, ReadOnPosition DEF Reading
  <2>2. ~Suspect(s)
    <3> SUFFICES ASSUME Suspect(s) PROVE FALSE
      OBVIOUS
    <3>1. turn[s] = 0 /\ r = held[s] /\ r.file # 0 /\ r.offset # 0 /\ r.anchor < stale[s] /\ r.file = there[s]
      BY <1>2, <1>4 DEF Suspect, SourceInv, PositionInv, ReaderType
    <3>2. cut[s][r.file] = r.anchor
      BY <3>1 DEF ReadOn, Continuous
    <3>3. stale[s] <= cut[s][there[s]] /\ stale[s] \in Nat /\ r.anchor \in Nat
      BY <1>2, <3>1 DEF SourceInv, OldInv, ReaderType, IInv, FileTypes
    <3> QED BY <3>1, <3>2, <3>3
  <2> QED BY <1>1, <1>2, <1>3, <2>1, <2>2 DEF SourceInv, EvidenceInv
<1>14. RoundInv(s)'
  <2>1. ASSUME step'[s] = "adopt", new.file # 0, ~new.more, before[s][new.file].cut = cut[s][new.file]
        PROVE  new.offset >= before[s][new.file].size
    <3>1. Size(s, new.file) <= new.offset /\ new.file \in File
      BY <1>2, <2>1, ReadOnPosition
    <3>2. /\ before[s][new.file].size \in Nat /\ Size(s, new.file) \in Nat /\ new.offset \in Nat
          /\ cut[s][new.file] \in Nat
      <4>1. before \in Extents /\ content \in [Source -> [File -> Seq(Kind)]] /\ cut \in [Source -> [File -> Nat]]
        BY DEF IInv, FileTypes
      <4> QED BY <3>1, <4>1 DEF Extents, Size, ReaderType
    <3>3. Snapshot[s][new.file] = [cut |-> cut[s][new.file], size |-> Size(s, new.file)]
      BY <3>1 DEF Snapshot
    <3>4. AtMost(before[s][new.file], Snapshot[s][new.file])
      BY <3>1 DEF IInv, MarkInv, Earlier
    <3>5. before[s][new.file].size <= Size(s, new.file)
      BY <2>1, <3>2, <3>3, <3>4 DEF AtMost
    <3> QED BY <3>1, <3>2, <3>5
  <2>2. step'[s] = "adopt" => held'[s] = new
    BY <1>4, ReadOnPosition
  <2>3. step'[s] \notin {"idle", "first", "detect"} => step[s] \notin {"idle", "first", "detect"}
    BY <1>2, ReadOnPosition DEF Reading
  <2>4. ~activity'[s] => ~activity[s]
    BY DEF ReadOn
  <2>5. step'[s] # "done"
    BY ReadOnPosition
  <2>6. Running /\ RoundInv(s)
    BY <1>2 DEF ReadOn, SourceInv
  <2> QED BY <1>1, <1>3, <1>5, <2>1, <2>2, <2>3, <2>4, <2>5, <2>6 DEF RoundInv
<1> QED BY <1>9, <1>10, <1>11, <1>12, <1>13, <1>14 DEF SourceInv

(* A read that finds the file truncated. *)
ReadBroken(s, lines) ==
  /\ Running /\ step[s] \in Reading /\ Reader(s).file # 0 /\ Transition(s, Reader(s), lines)
  /\ UNCHANGED <<scene, files, seen, monitor, history>>
  /\ budget' \in [Source -> Nat] /\ budget'[s] <= budget[s] /\ \A t \in Source \ {s} : budget'[t] = budget[t]
  /\ lines = {} \/ (chunk[s] # <<>> /\ lines = {chunk[s][1]})

LEMMA ReadBrokenInv ==
  ASSUME IInv, NEW s \in Source, NEW lines \in SUBSET Line, ReadBroken(s, lines)
  PROVE  FollowKeeps(s) /\ SourceInv(s)'
<1> DEFINE r == Reader(s)
           new == IF r.current THEN [r EXCEPT !.offset = 0, !.anchor = 0, !.more = TRUE] ELSE [NoFile EXCEPT !.more = r.more]
<1>1. /\ UNCHANGED <<scene, content, cut, path, made, moves, there, baseline, backed, before, mark, stale, evidence, seen, outcome>>
      /\ (Running' <=> Running) /\ Proceed(s) /\ activity' = [activity EXCEPT ![s] = TRUE]
  BY DEF ReadBroken, Transition, Running
<1>2. /\ SourceInv(s) /\ step[s] \in Reading /\ r.file \in File /\ r.file # 0 /\ r \in ReaderType
  <2>1. r \in ReaderType
    <3>1. held[s] \in ReaderType /\ pending[s] \in Seq(ReaderType) /\ (turn[s] # 0 => turn[s] \in DOMAIN pending[s])
      BY DEF IInv, MonitorTypes, SourceInv, PositionInv
    <3> QED BY <3>1 DEF Reader
  <2> QED BY <2>1, ReaderFile DEF IInv, ReadBroken
<1>3. new \in ReaderType /\ new.file = (IF r.current THEN r.file ELSE 0) /\ (r.current => new.current /\ new.more)
  BY <1>2 DEF ReaderType, NoFile
<1>4. SetReader(s, new)
  BY DEF ReadBroken, Transition
<1> HIDE DEF new
<1>5. /\ held' \in [Source -> ReaderType] /\ pending' \in [Source -> Seq(ReaderType)]
      /\ \A t \in Source \ {s} : held'[t] = held[t] /\ pending'[t] = pending[t]
      /\ Len(pending'[s]) = Len(pending[s]) /\ ReadersInv(s)'
      /\ turn[s] = 0 => held'[s] = new /\ pending' = pending /\ r = held[s]
      /\ turn[s] # 0 => held' = held /\ r.current /\ r.file \notin {there[s], held[s].file}
  BY <1>1, <1>3, <1>4, SetReaderFacts DEF Reader
<1>6. /\ step' \in [Source -> Steps] /\ turn' \in [Source -> Nat] /\ chunk' \in [Source -> Seq(Line)]
      /\ \A t \in Source \ {s} : step'[t] = step[t] /\ turn'[t] = turn[t] /\ chunk'[t] = chunk[t]
      /\ chunk'[s] = <<>> /\ step'[s] \in {"detect", "pending", "retire", "adopt"}
      /\ step'[s] = "detect" <=> step[s] = "first"
      /\ step'[s] = "adopt" => step[s] \in {"second", "retire"}
      /\ IF step'[s] = "pending" THEN turn'[s] \in DOMAIN pending[s] ELSE turn'[s] = 0
  BY <1>1, <1>2, ProceedFacts
<1>7. /\ got \in [Source -> SUBSET Line] /\ gotPending \in [Source -> SUBSET Line]
      /\ reset \in [Source -> BOOLEAN] /\ retiringChanged \in [Source -> BOOLEAN] /\ activity \in [Source -> BOOLEAN]
  BY DEF IInv, MonitorTypes
<1>8. /\ got' \in [Source -> SUBSET Line] /\ gotPending' \in [Source -> SUBSET Line]
      /\ reset' \in [Source -> BOOLEAN] /\ retiringChanged' \in [Source -> BOOLEAN] /\ activity' \in [Source -> BOOLEAN]
      /\ \A t \in Source \ {s} : /\ got'[t] = got[t] /\ gotPending'[t] = gotPending[t] /\ activity'[t] = activity[t]
                                 /\ reset'[t] = reset[t] /\ retiringChanged'[t] = retiringChanged[t]
      /\ activity'[s] /\ (~r.current => reset'[s])
      /\ Batch(s)' \subseteq Batch(s) \cup (IF r.current THEN lines ELSE {})
      /\ gotPending'[s] \subseteq gotPending[s] \cup (IF r.current THEN lines ELSE {})
  <2>1. CASE r.current /\ turn[s] = 0
    <3>1. got' = [got EXCEPT ![s] = @ \cup lines] /\ UNCHANGED <<gotPending, reset, retiringChanged>>
      BY <2>1 DEF ReadBroken, Transition, Got
    <3> QED BY <1>1, <1>7, <2>1, <3>1 DEF Batch
  <2>2. CASE r.current /\ turn[s] # 0
    <3>1. gotPending' = [gotPending EXCEPT ![s] = @ \cup lines] /\ UNCHANGED <<got, reset, retiringChanged>>
      BY <2>2 DEF ReadBroken, Transition, Got
    <3> QED BY <1>1, <1>7, <2>2, <3>1 DEF Batch
  <2>3. CASE ~r.current
    <3>1. /\ got' = [got EXCEPT ![s] = {}] /\ gotPending' = gotPending /\ reset' = [reset EXCEPT ![s] = TRUE]
          /\ retiringChanged' = [retiringChanged EXCEPT ![s] = step[s] = "retire"]
      BY <2>3 DEF ReadBroken, Transition
    <3> QED BY <1>1, <1>7, <2>3, <3>1 DEF Batch
  <2> QED BY <2>1, <2>2, <2>3
<1>9. FollowKeeps(s)
  <2>1. Source' = Source /\ Line' = Line /\ Required' = Required /\ ReaderType' = ReaderType
    BY <1>1 DEF Source, Line, Kind, Required, File, ReaderType
  <2>2. /\ seen' \in [Source -> SUBSET Nat] /\ backed' \in [Source -> SUBSET Line] /\ budget' \in [Source -> Nat]
    BY <1>1 DEF ReadBroken, IInv, MonitorTypes
  <2>3. MonitorTypes'
    BY <1>5, <1>6, <1>8, <2>1, <2>2 DEF MonitorTypes
  <2>4. VerdictInv'
    BY <1>1, <2>1 DEF ReadBroken, IInv, VerdictInv
  <2> QED BY <1>1, <1>5, <1>6, <1>8, <2>3, <2>4 DEF FollowKeeps, ReadBroken
<1>10. NamesInv(s)' /\ ReadersInv(s)'
  BY <1>1, <1>2, <1>5 DEF SourceInv, NamesInv
<1>11. PositionInv(s)'
  <2>1. DOMAIN pending'[s] = DOMAIN pending[s]
    BY <1>5 DEF IInv, MonitorTypes
  <2>2. budget'[s] <= Budget
    BY <1>2, BoundAssumption DEF ReadBroken, SourceInv, PositionInv, IInv, MonitorTypes
  <2> QED BY <1>6, <2>1, <2>2 DEF PositionInv
<1>12. ASSUME NEW l \in lines PROVE Written(s, l) /\ Fresh(s, l) /\ l.file = r.file
  BY <1>2, <1>12 DEF ReadBroken, SourceInv, LineInv, OldInv, PositionInv
<1>13. LineInv(s)'
  <2>1. \A l : Written(s, l)' <=> Written(s, l)
    BY <1>1 DEF Written, Size
  <2> QED BY <1>1, <1>2, <1>6, <1>8, <1>12, <2>1 DEF SourceInv, LineInv
<1>14. OldInv(s)'
  <2>1. \A l : Fresh(s, l)' <=> Fresh(s, l)
    BY <1>1 DEF Fresh
  <2>2. r.current => r.file # there[s]
    BY <1>2, <1>5 DEF SourceInv, ReadersInv
  <2>3. /\ \A l \in Batch(s)' : Fresh(s, l)
        /\ \A l \in gotPending'[s] : l.file # there[s]
    BY <1>2, <1>8, <1>12, <2>2 DEF SourceInv, OldInv
  <2>4. held'[s].file = there[s] /\ there[s] # 0 => held'[s] = held[s] /\ turn[s] # 0
    BY <1>3, <1>5, <2>2
  <2>5. \A l \in Batch(s)' : l.file = there[s] => l \in Batch(s)
    BY <1>8, <1>12, <2>2
  <2> QED BY <1>1, <1>2, <1>6, <2>1, <2>3, <2>4, <2>5 DEF SourceInv, OldInv
<1>15. EvidenceInv(s)'
  <2>1. CASE r.current
    <3>1. UNCHANGED reset
      BY <2>1 DEF ReadBroken, Transition
    <3>2. ~Suspect(s)
      BY <1>2, <1>5, <2>1 DEF Suspect, SourceInv, PositionInv, ReadersInv
    <3> QED BY <1>1, <1>2, <1>6, <3>1, <3>2 DEF SourceInv, EvidenceInv, Fresh, Reading
  <2>2. CASE ~r.current
    BY <1>6, <1>8, <2>2 DEF EvidenceInv
  <2> QED BY <2>1, <2>2
<1>16. RoundInv(s)'
  <2>1. step'[s] = "adopt" => held'[s].more \/ held'[s].file = 0
    <3>1. step'[s] = "adopt" => turn[s] = 0
      BY <1>2, <1>6 DEF SourceInv, PositionInv
    <3> QED BY <1>3, <1>5, <3>1
  <2> QED BY <1>1, <1>6, <1>8, <2>1 DEF RoundInv
<1> QED BY <1>9, <1>10, <1>11, <1>13, <1>14, <1>15, <1>16 DEF SourceInv

LEMMA ReadOnStep ==
  ASSUME IInv, NEW s \in Source, NEW new \in ReaderType, NEW lines \in SUBSET Line, ReadOn(s, new, lines)
  PROVE  IInv'
BY ReadOnKeeps, ReadOnInv, FollowerStep DEF ReadOn, Reading

LEMMA ReadBrokenStep ==
  ASSUME IInv, NEW s \in Source, NEW lines \in SUBSET Line, ReadBroken(s, lines)
  PROVE  IInv'
BY ReadBrokenInv, FollowerStep DEF ReadBroken, Reading

LEMMA ReaderFacts ==
  ASSUME IInv, NEW s \in Source
  PROVE  /\ Reader(s) \in ReaderType
         /\ UNCHANGED <<held, pending>> => SetReader(s, Reader(s))
         /\ UNCHANGED <<got, gotPending>> => Got(s, {})
         /\ budget \in [Source -> Nat] /\ activity \in [Source -> BOOLEAN]
<1>1. /\ held \in [Source -> ReaderType] /\ pending \in [Source -> Seq(ReaderType)]
      /\ got \in [Source -> SUBSET Line] /\ gotPending \in [Source -> SUBSET Line]
      /\ turn[s] # 0 => turn[s] \in DOMAIN pending[s]
      /\ budget \in [Source -> Nat] /\ activity \in [Source -> BOOLEAN]
  BY DEF IInv, MonitorTypes, SourceInv, PositionInv
<1>2. Reader(s) \in ReaderType
  BY <1>1 DEF Reader
<1>3. CASE turn[s] = 0
  BY <1>1, <1>2, <1>3 DEF Reader, SetReader, Got
<1>4. CASE turn[s] # 0
  <2>1. [pending EXCEPT ![s][turn[s]] = pending[s][turn[s]]] = pending
    BY <1>1, <1>4
  <2> QED BY <1>1, <1>2, <1>4, <2>1 DEF Reader, SetReader, Got
<1> QED BY <1>3, <1>4

LEMMA WithMore ==
  ASSUME NEW r \in ReaderType, NEW b \in BOOLEAN
  PROVE  LET new == [r EXCEPT !.more = b] IN
         /\ new \in ReaderType /\ new.file = r.file /\ new.current = r.current /\ new.offset = r.offset
         /\ new.anchor = r.anchor /\ (new.more <=> b)
BY DEF ReaderType

LEMMA WithNextLine ==
  ASSUME NEW r \in ReaderType, NEW c \in Nat
  PROVE  LET new == [r EXCEPT !.offset = @ + 1, !.anchor = c] IN
         /\ new \in ReaderType /\ new.file = r.file /\ new.current = r.current /\ new.offset = r.offset + 1
         /\ new.anchor = c
<1>1. r.offset + 1 \in Nat
  BY DEF ReaderType
<1>2. ASSUME NEW n \in Nat PROVE [r EXCEPT !.offset = n, !.anchor = c] \in ReaderType
  BY Zenon DEF ReaderType
<1>3. [r EXCEPT !.offset = @ + 1, !.anchor = c] = [r EXCEPT !.offset = r.offset + 1, !.anchor = c]
  BY Zenon DEF ReaderType
<1>4. [r EXCEPT !.offset = @ + 1, !.anchor = c] \in ReaderType
  BY <1>1, <1>2, <1>3, Zenon
<1> QED BY <1>4, Zenon DEF ReaderType

LEMMA LookInv == ASSUME IInv, NEW s \in Source, Look(s), UNCHANGED scene PROVE IInv'
<1> DEFINE r == Reader(s)
<1>1. /\ Running /\ step[s] \in Reading /\ UNCHANGED <<scene, files, seen, budget, monitor, history>>
      /\ r \in ReaderType /\ r.file \in File \cup {0} /\ {} \in SUBSET Line
  <2>1. Running /\ step[s] \in Reading /\ UNCHANGED <<scene, files, seen, budget, monitor, history>>
    BY DEF Look
  <2>2. r \in ReaderType /\ r.file \in File \cup {0}
    BY ReaderFacts, ReaderFile, Zenon
  <2> QED BY <2>1, <2>2, Zenon
<1>2. budget' \in [Source -> Nat] /\ budget'[s] <= budget[s] /\ \A t \in Source \ {s} : budget'[t] = budget[t]
  BY <1>1, ReaderFacts
<1>3. CASE /\ r.file = 0
           /\ SetReader(s, IF step[s] = "first" THEN [r EXCEPT !.more = FALSE] ELSE r)
           /\ Proceed(s) /\ UNCHANGED <<got, gotPending, reset, retiringChanged, activity>>
  <2> DEFINE new == IF step[s] = "first" THEN [r EXCEPT !.more = FALSE] ELSE r
  <2>1. new \in ReaderType /\ new.file = r.file /\ new.current = r.current /\ new.offset = r.offset /\ new.anchor = r.anchor
    BY <1>1 DEF ReaderType
  <2> HIDE DEF new
  <2>2. ReadOn(s, new, {})
    BY <1>1, <1>2, <1>3, <2>1, ReaderFacts DEF ReadOn, new
  <2> QED BY <1>1, <2>1, <2>2, ReadOnStep
<1>4. CASE r.file # 0 /\ ~Continuous(s, r.file, r.offset, r.anchor) /\ Transition(s, r, {})
  <2>1. ReadBroken(s, {})
    BY <1>1, <1>2, <1>4 DEF ReadBroken
  <2> QED BY <1>1, <2>1, ReadBrokenStep
<1>5. CASE /\ r.file # 0 /\ Continuous(s, r.file, r.offset, r.anchor)
           /\ Size(s, r.file) = r.offset \/ budget[s] = 0
           /\ SetReader(s, [r EXCEPT !.more = Size(s, r.file) > r.offset])
           /\ Proceed(s) /\ UNCHANGED <<got, gotPending, reset, retiringChanged, activity>>
  <2> DEFINE more == Size(s, r.file) > r.offset
             new == [r EXCEPT !.more = more]
  <2>6. more \in BOOLEAN
    OBVIOUS
  <2>1. new \in ReaderType /\ new.file = r.file /\ new.current = r.current /\ new.offset = r.offset /\ new.anchor = r.anchor
        /\ (new.more <=> more)
    <3> HIDE DEF more
    <3> QED BY <1>1, <2>6, WithMore
  <2> HIDE DEF new
  <2>2. Size(s, r.file) \in Nat /\ r.offset \in Nat
    BY <1>1, <1>5 DEF IInv, FileTypes, Size, ReaderType
  <2>3. SetReader(s, new)
    BY <1>5 DEF new
  <2>4. ~new.more => Size(s, r.file) <= new.offset
    BY <2>1, <2>2
  <2>5. ReadOn(s, new, {})
    BY <1>1, <1>2, <1>5, <2>1, <2>3, <2>4, ReaderFacts DEF ReadOn
  <2> QED BY <1>1, <2>1, <2>5, ReadOnStep
<1>6. CASE /\ r.file # 0 /\ Continuous(s, r.file, r.offset, r.anchor)
           /\ Size(s, r.file) > r.offset /\ budget[s] > 0
           /\ Take(s, r) /\ UNCHANGED <<held, pending, got, gotPending, reset, retiringChanged, activity>>
  <2>1. ReadOn(s, r, {})
    BY <1>1, <1>2, <1>6, ReaderFacts DEF ReadOn
  <2> QED BY <1>1, <2>1, ReadOnStep
<1> QED BY <1>3, <1>4, <1>5, <1>6 DEF Look

LEMMA KeepInv == ASSUME IInv, NEW s \in Source, Keep(s), UNCHANGED scene PROVE IInv'
<1> DEFINE r == Reader(s)
           next == [r EXCEPT !.offset = @ + 1, !.anchor = cut[s][r.file]]
           more == Size(s, r.file) > next.offset
           last == [next EXCEPT !.more = more]
           line == chunk[s][1]
<1>1. /\ Running /\ chunk[s] # <<>> /\ UNCHANGED <<scene, files, seen, monitor, history>>
      /\ r \in ReaderType /\ r.file \in File /\ r.file # 0 /\ line \in Line
      /\ step[s] \in Reading /\ budget[s] > 0 /\ budget' = [budget EXCEPT ![s] = @ - 1]
  <2>1. /\ Running /\ chunk[s] # <<>> /\ UNCHANGED <<scene, files, seen, monitor, history>>
        /\ budget' = [budget EXCEPT ![s] = @ - 1]
    BY DEF Keep
  <2>2. step[s] \in Reading /\ budget[s] > 0 /\ r.file # 0
    BY <2>1 DEF IInv, SourceInv, PositionInv
  <2>3. r \in ReaderType /\ r.file \in File \cup {0} /\ line \in Line
    BY <2>1, ReaderFacts, ReaderFile, Zenon
  <2>4. r.file \in File
    BY <2>2, <2>3
  <2> QED BY <2>1, <2>2, <2>3, <2>4, Zenon
<1>2. budget' \in [Source -> Nat] /\ budget'[s] <= budget[s] /\ \A t \in Source \ {s} : budget'[t] = budget[t]
  BY <1>1, ReaderFacts
<1>3. CASE ~Continuous(s, r.file, r.offset, r.anchor) /\ Transition(s, r, {})
  <2>1. ReadBroken(s, {})
    BY <1>1, <1>2, <1>3 DEF ReadBroken
  <2> QED BY <1>1, <2>1, ReadBrokenStep
<1>4. CASE Transition(s, r, {line})
  <2>1. ReadBroken(s, {line})
    BY <1>1, <1>2, <1>4 DEF ReadBroken
  <2> QED BY <1>1, <2>1, ReadBrokenStep
<1>5. ASSUME Continuous(s, r.file, r.offset, r.anchor), Size(s, r.file) >= next.offset,
             activity' = [activity EXCEPT ![s] = TRUE], Got(s, {line}), UNCHANGED <<reset, retiringChanged>>,
             IF Size(s, r.file) > next.offset /\ budget'[s] > 0
               THEN SetReader(s, next) /\ Take(s, next)
               ELSE SetReader(s, last) /\ Proceed(s)
      PROVE  IInv'
  <2>1. r.offset \in Nat /\ cut[s][r.file] \in Nat /\ Size(s, r.file) \in Nat
    BY <1>1 DEF ReaderType, IInv, FileTypes, Size
  <2>2. next \in ReaderType /\ next.file = r.file /\ next.current = r.current
        /\ next.offset = r.offset + 1 /\ next.anchor = cut[s][r.file]
    BY <1>1, <2>1, WithNextLine
  <2>3. last \in ReaderType /\ last.file = r.file /\ last.current = r.current
        /\ last.offset = r.offset + 1 /\ last.anchor = cut[s][r.file] /\ (last.more <=> more)
    <3>1. more \in BOOLEAN
      OBVIOUS
    <3> HIDE DEF next, more
    <3> QED BY <2>2, <3>1, WithMore
  <2> HIDE DEF next, last
  <2>4. activity' \in [Source -> BOOLEAN] /\ activity'[s] /\ \A t \in Source \ {s} : activity'[t] = activity[t]
    BY <1>5, ReaderFacts
  <2>5. {line} \in SUBSET Line
    BY <1>1
  <2>6. CASE Size(s, r.file) > next.offset /\ budget'[s] > 0
    <3>1. ReadOn(s, next, {line})
      BY <1>1, <1>2, <1>5, <2>1, <2>2, <2>4, <2>6 DEF ReadOn
    <3> QED BY <2>2, <2>5, <3>1, ReadOnStep
  <2>7. CASE ~(Size(s, r.file) > next.offset /\ budget'[s] > 0)
    <3>1. ~last.more => Size(s, r.file) <= last.offset
      BY <2>1, <2>2, <2>3
    <3>2. SetReader(s, last) /\ Proceed(s)
      BY <1>5, <2>7
    <3>3. Size(s, r.file) > r.offset
      BY <1>5, <2>1, <2>2
    <3>4. ReadOn(s, last, {line})
      BY <1>1, <1>2, <1>5, <2>3, <2>4, <3>1, <3>2, <3>3 DEF ReadOn
    <3> QED BY <2>3, <2>5, <3>4, ReadOnStep
  <2> QED BY <2>6, <2>7
<1> QED BY <1>3, <1>4, <1>5 DEF Keep

LEMMA DetectInv == ASSUME IInv, NEW s \in Source, Detect(s), UNCHANGED scene PROVE IInv'
<1> DEFINE new == [NoFile EXCEPT !.file = path[s], !.current = TRUE, !.fresh = TRUE]
<1>1. /\ Running /\ step[s] = "detect" /\ step' = [step EXCEPT ![s] = "second"]
      /\ UNCHANGED <<scene, files, held, turn, chunk, budget, got, gotPending, reset, retiringChanged, evidence, quietRounds, history>>
  BY DEF Detect
<1>2. SourceInv(s) /\ turn[s] = 0 /\ chunk[s] = <<>>
  BY <1>1 DEF IInv, SourceInv, PositionInv, Reading
<1>3. /\ path[s] \in Nat /\ made[s] \in Nat /\ pending \in [Source -> Seq(ReaderType)] /\ seen \in [Source -> SUBSET Nat]
      /\ activity \in [Source -> BOOLEAN] /\ step \in [Source -> Steps]
  BY DEF IInv, FileTypes, MonitorTypes
<1>4. new \in ReaderType /\ new.file = path[s] /\ new.current
  BY <1>3, Zenon DEF NoFile, ReaderType
<1> HIDE DEF new
<1>5. \/ path[s] \in {0, held[s].file} /\ UNCHANGED <<pending, seen, activity, outcome>>
      \/ activity' = [activity EXCEPT ![s] = TRUE] /\ UNCHANGED <<pending, seen, outcome>>
      \/ outcome' = "failed" /\ UNCHANGED <<pending, seen, activity>>
      \/ /\ path[s] \notin seen[s] \cup {0} /\ Len(pending[s]) < MaxPending
         /\ pending' = [pending EXCEPT ![s] = Append(@, new)] /\ seen' = [seen EXCEPT ![s] = @ \cup {path[s]}]
         /\ activity' = [activity EXCEPT ![s] = TRUE] /\ UNCHANGED outcome
  BY Zenon DEF Detect, new
<1>6. /\ pending' \in [Source -> Seq(ReaderType)] /\ seen' \in [Source -> SUBSET Nat] /\ activity' \in [Source -> BOOLEAN]
      /\ step' \in [Source -> Steps] /\ step'[s] = "second"
      /\ \A t \in Source \ {s} : /\ pending'[t] = pending[t] /\ seen'[t] = seen[t] /\ activity'[t] = activity[t]
                                 /\ step'[t] = step[t]
      /\ activity[s] => activity'[s]
      /\ Running' /\ ~activity'[s] => path[s] \in {0, held[s].file}
  <2>1. step' \in [Source -> Steps] /\ step'[s] = "second" /\ \A t \in Source \ {s} : step'[t] = step[t]
    BY <1>1, <1>3 DEF Steps
  <2>2. [activity EXCEPT ![s] = TRUE] \in [Source -> BOOLEAN] /\ [activity EXCEPT ![s] = TRUE][s]
        /\ \A t \in Source \ {s} : [activity EXCEPT ![s] = TRUE][t] = activity[t]
    BY <1>3
  <2>3. Append(pending[s], new) \in Seq(ReaderType)
    <3>1. pending[s] \in Seq(ReaderType)
      BY <1>3
    <3> QED BY <1>4, <3>1
  <2>4. pending' \in [Source -> Seq(ReaderType)] /\ \A t \in Source \ {s} : pending'[t] = pending[t]
    BY <1>3, <1>5, <2>3
  <2>5. seen' \in [Source -> SUBSET Nat] /\ \A t \in Source \ {s} : seen'[t] = seen[t]
    <3>1. seen' = seen \/ seen' = [seen EXCEPT ![s] = @ \cup {path[s]}]
      BY <1>5, Zenon
    <3>2. seen[s] \cup {path[s]} \in SUBSET Nat
      BY <1>3
    <3>3. seen \in [Source -> SUBSET Nat]
      BY <1>3
    <3> QED BY <3>1, <3>2, <3>3
  <2>6. activity' = activity \/ activity' = [activity EXCEPT ![s] = TRUE]
    BY <1>5, Zenon
  <2>7. activity' = activity => path[s] \in {0, held[s].file} \/ outcome' = "failed" \/ activity'[s]
    BY <1>5, <2>2, Zenon
  <2>8. Running' => outcome' # "failed"
    BY DEF Running
  <2> QED BY <1>3, <2>1, <2>2, <2>4, <2>5, <2>6, <2>7, <2>8, Zenon
<1>7. FollowKeeps(s)
  <2>1. Source' = Source /\ Line' = Line /\ Required' = Required /\ ReaderType' = ReaderType
    BY <1>1 DEF Source, Line, Kind, Required, File, ReaderType
  <2>2. MonitorTypes'
    BY <1>1, <1>6, <2>1 DEF IInv, MonitorTypes
  <2>3. VerdictInv'
    BY <1>1, <1>5, <2>1 DEF IInv, VerdictInv, Running
  <2>4. Running' => Running
    BY <1>1
  <2> QED BY <1>1, <1>6, <2>2, <2>3, <2>4 DEF FollowKeeps
<1>8. NamesInv(s)' /\ ReadersInv(s)'
  <2>1. NamesInv(s) /\ ReadersInv(s)
    BY <1>2 DEF SourceInv
  <2>2. CASE UNCHANGED <<pending, seen>>
    BY <1>1, <2>1, <2>2 DEF NamesInv, ReadersInv
  <2>3. CASE /\ path[s] \notin seen[s] \cup {0} /\ Len(pending[s]) < MaxPending
             /\ pending' = [pending EXCEPT ![s] = Append(@, new)] /\ seen' = [seen EXCEPT ![s] = @ \cup {path[s]}]
    <3>1. pending[s] \in Seq(ReaderType) /\ Len(pending[s]) \in Nat
      BY <1>3
    <3>2. pending'[s] = Append(pending[s], new) /\ seen'[s] = seen[s] \cup {path[s]}
      BY <1>3, <2>3
    <3>3. /\ Len(pending'[s]) = Len(pending[s]) + 1 /\ DOMAIN pending'[s] = DOMAIN pending[s] \cup {Len(pending[s]) + 1}
          /\ \A i \in DOMAIN pending[s] : pending'[s][i] = pending[s][i]
          /\ pending'[s][Len(pending[s]) + 1] = new
      BY <1>4, <3>1, <3>2
    <3>4. NamesInv(s)'
      BY <1>1, <1>3, <2>1, <2>3, <3>2 DEF NamesInv
    <3>5. Len(pending'[s]) <= MaxPending
      BY <2>3, <3>1, <3>3, BoundAssumption
    <3>6. \A i \in DOMAIN pending'[s] :
            pending'[s][i].current /\ pending'[s][i].file \in seen'[s] \ {0, held[s].file, there[s]}
      BY <1>4, <2>1, <2>3, <3>2, <3>3 DEF ReadersInv, NamesInv
    <3>7. \A i, j \in DOMAIN pending'[s] : pending'[s][i].file = pending'[s][j].file => i = j
      BY <1>4, <2>1, <2>3, <3>3 DEF ReadersInv
    <3> QED BY <1>1, <2>1, <3>2, <3>4, <3>5, <3>6, <3>7 DEF ReadersInv
  <2> QED BY <1>5, <2>2, <2>3
<1>9. PositionInv(s)'
  BY <1>1, <1>2, <1>6 DEF SourceInv, PositionInv
<1>10. LineInv(s)' /\ OldInv(s)'
  <2>1. Batch(s)' = Batch(s) /\ (\A l : Written(s, l)' <=> Written(s, l)) /\ (\A l : Fresh(s, l)' <=> Fresh(s, l))
    BY <1>1 DEF Batch, Written, Size, Fresh
  <2> QED BY <1>1, <1>2, <1>6, <2>1 DEF SourceInv, LineInv, OldInv
<1>11. EvidenceInv(s)'
  <2>1. ~Suspect(s)
    BY <1>1 DEF Suspect
  <2>2. \A l : Fresh(s, l)' <=> Fresh(s, l)
    BY <1>1 DEF Fresh
  <2> QED BY <1>1, <1>2, <1>6, <2>1, <2>2 DEF SourceInv, EvidenceInv
<1>12. RoundInv(s)'
  BY <1>1, <1>6 DEF RoundInv
<1>13. SourceInv(s)'
  BY <1>8, <1>9, <1>10, <1>11, <1>12 DEF SourceInv
<1> QED BY <1>1, <1>7, <1>13, FollowerStep

LEMMA AdoptInv == ASSUME IInv, NEW s \in Source, Adopt(s), UNCHANGED scene PROVE IInv'
<1>1. /\ Running /\ step[s] = "adopt" /\ step' = [step EXCEPT ![s] = "done"]
      /\ UNCHANGED <<scene, files, seen, turn, chunk, budget, got, gotPending, reset, retiringChanged, monitor, history>>
  BY DEF Adopt
<1>2. SourceInv(s) /\ turn[s] = 0 /\ chunk[s] = <<>>
  BY <1>1 DEF IInv, SourceInv, PositionInv, Reading
<1>3. /\ held \in [Source -> ReaderType] /\ pending \in [Source -> Seq(ReaderType)]
      /\ activity \in [Source -> BOOLEAN] /\ step \in [Source -> Steps]
  BY DEF IInv, MonitorTypes
<1>4. \/ UNCHANGED <<held, pending, activity>>
      \/ /\ pending[s] # <<>> /\ held' = [held EXCEPT ![s] = [Head(pending[s]) EXCEPT !.more = held[s].more]]
         /\ pending' = [pending EXCEPT ![s] = Tail(@)] /\ activity' = [activity EXCEPT ![s] = TRUE]
  BY DEF Adopt, Settled
<1>5. \/ held'[s] = held[s] /\ pending'[s] = pending[s]
      \/ /\ pending[s] # <<>> /\ held'[s] \in ReaderType /\ held'[s].file = pending[s][1].file
         /\ held'[s].current = pending[s][1].current /\ pending'[s] = Tail(pending[s])
  <2>1. CASE UNCHANGED <<held, pending, activity>>
    BY <2>1
  <2>2. CASE /\ pending[s] # <<>> /\ held' = [held EXCEPT ![s] = [Head(pending[s]) EXCEPT !.more = held[s].more]]
             /\ pending' = [pending EXCEPT ![s] = Tail(@)]
    <3>1. Head(pending[s]) = pending[s][1] /\ Head(pending[s]) \in ReaderType /\ held[s].more \in BOOLEAN
      <4>1. pending[s] \in Seq(ReaderType) /\ held[s] \in ReaderType
        BY <1>3
      <4>2. held[s].more \in BOOLEAN
        BY <4>1 DEF ReaderType
      <4>3. Head(pending[s]) = pending[s][1] /\ Head(pending[s]) \in ReaderType
        BY <2>2, <4>1
      <4> QED BY <4>2, <4>3, Zenon
    <3>2. [Head(pending[s]) EXCEPT !.more = held[s].more] \in ReaderType
          /\ [Head(pending[s]) EXCEPT !.more = held[s].more].file = pending[s][1].file
          /\ [Head(pending[s]) EXCEPT !.more = held[s].more].current = pending[s][1].current
      BY <3>1, WithMore
    <3> QED BY <1>3, <2>2, <3>2
  <2> QED BY <1>4, <2>1, <2>2
<1>6. /\ held' \in [Source -> ReaderType] /\ pending' \in [Source -> Seq(ReaderType)] /\ activity' \in [Source -> BOOLEAN]
      /\ step' \in [Source -> Steps] /\ step'[s] = "done"
      /\ \A t \in Source \ {s} : /\ held'[t] = held[t] /\ pending'[t] = pending[t] /\ activity'[t] = activity[t]
                                 /\ step'[t] = step[t]
      /\ ~activity'[s] => ~activity[s] /\ held'[s] = held[s]
  <2>1. step' \in [Source -> Steps] /\ step'[s] = "done" /\ \A t \in Source \ {s} : step'[t] = step[t]
    BY <1>1, <1>3 DEF Steps
  <2>2. CASE UNCHANGED <<held, pending, activity>>
    BY <1>3, <2>1, <2>2, Zenon
  <2>3. CASE /\ pending[s] # <<>> /\ held' = [held EXCEPT ![s] = [Head(pending[s]) EXCEPT !.more = held[s].more]]
             /\ pending' = [pending EXCEPT ![s] = Tail(@)] /\ activity' = [activity EXCEPT ![s] = TRUE]
    <3>1. pending[s] \in Seq(ReaderType) /\ held[s] \in ReaderType
      BY <1>3
    <3>2. Tail(pending[s]) \in Seq(ReaderType) /\ held'[s] \in ReaderType
      BY <1>5, <2>3, <3>1
    <3>3. held' \in [Source -> ReaderType] /\ \A t \in Source \ {s} : held'[t] = held[t]
      BY <1>3, <2>3, <3>2
    <3>4. pending' \in [Source -> Seq(ReaderType)] /\ \A t \in Source \ {s} : pending'[t] = pending[t]
      BY <1>3, <2>3, <3>2
    <3>5. activity' \in [Source -> BOOLEAN] /\ activity'[s] /\ \A t \in Source \ {s} : activity'[t] = activity[t]
      BY <1>3, <2>3
    <3> QED BY <2>1, <3>3, <3>4, <3>5, Zenon
  <2> QED BY <1>4, <2>2, <2>3, Zenon
<1>7. FollowKeeps(s)
  <2>1. Source' = Source /\ Line' = Line /\ Required' = Required /\ ReaderType' = ReaderType /\ (Running' <=> Running)
    BY <1>1 DEF Source, Line, Kind, Required, File, ReaderType, Running
  <2>2. MonitorTypes'
    BY <1>1, <1>6, <2>1 DEF IInv, MonitorTypes
  <2>3. VerdictInv'
    BY <1>1, <2>1 DEF IInv, VerdictInv
  <2> QED BY <1>1, <1>6, <2>1, <2>2, <2>3 DEF FollowKeeps
<1>8. NamesInv(s)' /\ ReadersInv(s)'
  <2>1. NamesInv(s) /\ ReadersInv(s)
    BY <1>2 DEF SourceInv
  <2>2. CASE held'[s] = held[s] /\ pending'[s] = pending[s]
    BY <1>1, <2>1, <2>2 DEF NamesInv, ReadersInv
  <2>3. CASE /\ pending[s] # <<>> /\ held'[s] \in ReaderType /\ held'[s].file = pending[s][1].file
             /\ held'[s].current = pending[s][1].current /\ pending'[s] = Tail(pending[s])
    <3>1. pending[s] \in Seq(ReaderType) /\ Len(pending[s]) \in Nat \ {0} /\ DOMAIN pending[s] = 1 .. Len(pending[s])
      BY <1>3, <2>3
    <3>2. /\ Len(pending'[s]) = Len(pending[s]) - 1 /\ DOMAIN pending'[s] = 1 .. Len(pending[s]) - 1
          /\ \A i \in DOMAIN pending'[s] : pending'[s][i] = pending[s][i + 1]
      BY <2>3, <3>1
    <3>3. Len(pending'[s]) <= MaxPending
      BY <2>1, <3>1, <3>2, BoundAssumption DEF ReadersInv
    <3>4. \A i \in DOMAIN pending'[s] : i + 1 \in DOMAIN pending[s] /\ i + 1 # 1 /\ pending'[s][i] = pending[s][i + 1]
      BY <3>1, <3>2
    <3>5. 1 \in DOMAIN pending[s]
      BY <3>1
    <3>6. \A i \in DOMAIN pending'[s] :
            pending'[s][i].current /\ pending'[s][i].file \in seen[s] \ {0, held'[s].file, there[s]}
      BY <2>1, <2>3, <3>4, <3>5 DEF ReadersInv
    <3>7. \A i, j \in DOMAIN pending'[s] : pending'[s][i].file = pending'[s][j].file => i = j
      <4>1. \A i, j \in DOMAIN pending'[s] : pending'[s][i].file = pending'[s][j].file => i + 1 = j + 1
        BY <2>1, <3>4 DEF ReadersInv
      <4> QED BY <3>1, <3>2, <4>1
    <3>8. held'[s].file \in seen[s] \ {0, there[s]} /\ held'[s].current
      BY <2>1, <2>3, <3>5 DEF ReadersInv
    <3> QED BY <1>1, <2>1, <3>3, <3>6, <3>7, <3>8 DEF NamesInv, ReadersInv
  <2> QED BY <1>5, <2>2, <2>3
<1>9. PositionInv(s)'
  BY <1>1, <1>2, <1>6 DEF SourceInv, PositionInv
<1>10. held'[s] = held[s] \/ held'[s].file # there[s]
  BY <1>2, <1>3, <1>5 DEF SourceInv, ReadersInv
<1>11. LineInv(s)' /\ OldInv(s)'
  <2>1. Batch(s)' = Batch(s) /\ (\A l : Written(s, l)' <=> Written(s, l)) /\ (\A l : Fresh(s, l)' <=> Fresh(s, l))
    BY <1>1 DEF Batch, Written, Size, Fresh
  <2>2. activity[s] => activity'[s]
    BY <1>6
  <2> QED BY <1>1, <1>2, <1>10, <2>1, <2>2 DEF SourceInv, LineInv, OldInv
<1>12. EvidenceInv(s)'
  <2>1. ~Suspect(s)
    BY <1>1 DEF Suspect
  <2>2. (\A l : Fresh(s, l)' <=> Fresh(s, l)) /\ (Running' <=> Running)
    BY <1>1 DEF Fresh, Running
  <2> QED BY <1>1, <1>2, <1>6, <2>1, <2>2 DEF SourceInv, EvidenceInv
<1>13. RoundInv(s)'
  <2>1. MarkRead' <=> MarkRead
    BY <1>1 DEF MarkRead
  <2> QED BY <1>1, <1>2, <1>6, <2>1 DEF SourceInv, RoundInv
<1>14. SourceInv(s)'
  BY <1>8, <1>9, <1>11, <1>12, <1>13 DEF SourceInv
<1> QED BY <1>1, <1>7, <1>14, FollowerStep

LEMMA FollowFailsInv == ASSUME IInv, NEW s \in Source, FollowFails(s), UNCHANGED scene PROVE IInv'
<1>1. /\ Running /\ step[s] # "idle" /\ outcome' = "failed"
      /\ UNCHANGED <<scene, files, follower, batch, position, evidence, quietRounds, history>>
  BY DEF FollowFails
<1>2. ~Running'
  BY <1>1 DEF Running
<1>3. Source' = Source /\ Line' = Line /\ Required' = Required /\ ReaderType' = ReaderType
  BY <1>1 DEF Source, Line, Kind, Required, File, ReaderType
<1>4. FollowKeeps(s)
  <2>1. MonitorTypes'
    BY <1>1, <1>3 DEF IInv, MonitorTypes
  <2>2. VerdictInv'
    BY <1>1, <1>2, <1>3 DEF IInv, VerdictInv
  <2> QED BY <1>1, <1>2, <2>1, <2>2 DEF FollowKeeps
<1>5. SourceInv(s)'
  <2>1. SourceInv(s)
    BY DEF IInv
  <2>2. Reader(s)' = Reader(s) /\ Batch(s)' = Batch(s) /\ (\A l : Written(s, l)' <=> Written(s, l))
        /\ (\A l : Fresh(s, l)' <=> Fresh(s, l))
    BY <1>1 DEF Reader, Batch, Written, Size, Fresh
  <2>3. NamesInv(s)' /\ ReadersInv(s)' /\ PositionInv(s)'
    BY <1>1, <2>1, <2>2 DEF SourceInv, NamesInv, ReadersInv, PositionInv, Reading
  <2>4. LineInv(s)' /\ OldInv(s)'
    BY <1>1, <2>1, <2>2 DEF SourceInv, LineInv, OldInv
  <2>5. EvidenceInv(s)' /\ RoundInv(s)'
    BY <1>1, <1>2, <2>1 DEF SourceInv, EvidenceInv, RoundInv
  <2> QED BY <2>1, <2>3, <2>4, <2>5 DEF SourceInv
<1> QED BY <1>1, <1>4, <1>5, FollowerStep

-----------------------------------------------------------------------------
(* The monitor *)

LEMMA OldGeneration ==
  ASSUME NEW r \in ReaderType
  PROVE  LET old == [r EXCEPT !.fresh = FALSE, !.more = FALSE] IN
         /\ old \in ReaderType /\ old.file = r.file /\ old.current = r.current
BY Zenon DEF ReaderType

LEMMA StartRoundReaders ==
  ASSUME IInv, StartRound, UNCHANGED scene, NEW s \in Source
  PROVE  /\ held'[s] \in ReaderType /\ held'[s].file = held[s].file /\ held'[s].current = held[s].current
         /\ held'[s].offset = held[s].offset /\ held'[s].anchor = held[s].anchor
         /\ pending'[s] \in Seq(ReaderType) /\ DOMAIN pending'[s] = DOMAIN pending[s] /\ Len(pending'[s]) = Len(pending[s])
         /\ \A i \in DOMAIN pending[s] :
              pending'[s][i].file = pending[s][i].file /\ pending'[s][i].current = pending[s][i].current
<1>1. held[s] \in ReaderType /\ pending[s] \in Seq(ReaderType)
  BY DEF IInv, MonitorTypes
<1>2. held'[s] = [held[s] EXCEPT !.more = FALSE]
  BY DEF StartRound
<1>3. /\ held'[s] \in ReaderType /\ held'[s].file = held[s].file /\ held'[s].current = held[s].current
      /\ held'[s].offset = held[s].offset /\ held'[s].anchor = held[s].anchor
  BY <1>1, <1>2, WithMore
<1> DEFINE old(i) == [pending[s][i] EXCEPT !.fresh = FALSE, !.more = FALSE]
<1>4. pending'[s] = [i \in DOMAIN pending[s] |-> old(i)]
  BY DEF StartRound
<1>5. ASSUME NEW i \in DOMAIN pending[s]
      PROVE  old(i) \in ReaderType /\ old(i).file = pending[s][i].file /\ old(i).current = pending[s][i].current
  <2>1. pending[s][i] \in ReaderType
    BY <1>1
  <2> QED BY <2>1, OldGeneration
<1> HIDE DEF old
<1>6. Len(pending[s]) \in Nat /\ DOMAIN pending[s] = 1 .. Len(pending[s])
  BY <1>1
<1>7. pending'[s] \in Seq(ReaderType) /\ DOMAIN pending'[s] = DOMAIN pending[s] /\ Len(pending'[s]) = Len(pending[s])
  BY <1>4, <1>5, <1>6
<1>8. \A i \in DOMAIN pending[s] : pending'[s][i] = old(i)
  BY <1>4
<1> QED BY <1>3, <1>5, <1>7, <1>8

LEMMA StartRoundInv == ASSUME IInv, StartRound, UNCHANGED scene PROVE IInv'
<1>1. /\ Running /\ (\A s \in Source : step[s] = "idle") /\ step' = [s \in Source |-> "first"] /\ before' = Snapshot
      /\ budget' = [s \in Source |-> Budget] /\ got' = [s \in Source |-> {}] /\ gotPending' = got'
      /\ reset' = [s \in Source |-> FALSE] /\ retiringChanged' = reset' /\ activity' = reset'
      /\ stale' = [s \in Source |-> IF held[s].file # 0 /\ ~held[s].current THEN cut[s][held[s].file] ELSE stale[s]]
      /\ UNCHANGED <<scene, files, seen, turn, chunk, monitor, there, baseline, backed, mark>>
  BY DEF StartRound
<1>2. Source' = Source /\ File' = File /\ Extents' = Extents /\ Kind' = Kind /\ Line' = Line /\ Required' = Required
      /\ ReaderType' = ReaderType /\ Snapshot' = Snapshot
  BY <1>1 DEF Source, File, Extents, Kind, Required, Line, ReaderType, Snapshot, Size
<1>3. Snapshot \in Extents
  BY SnapshotFacts DEF IInv
<1>4. ASSUME NEW s \in Source
      PROVE  /\ stale'[s] \in Nat /\ (there[s] # 0 => stale'[s] <= cut[s][there[s]])
             /\ stale'[s] = stale[s] \/ (held[s].file = there[s] /\ there[s] # 0)
  <2>1. stale[s] \in Nat /\ held[s].file \in File \cup {0} /\ cut \in [Source -> [File -> Nat]]
    BY ReaderFile DEF IInv, FileTypes
  <2>2. held[s].file # 0 /\ ~held[s].current => held[s].file = there[s]
    BY DEF IInv, SourceInv, ReadersInv
  <2>3. there[s] # 0 => stale[s] <= cut[s][there[s]]
    BY DEF IInv, SourceInv, OldInv
  <2>4. CASE held[s].file # 0 /\ ~held[s].current
    <3>1. stale'[s] = cut[s][held[s].file]
      BY <1>1, <2>4
    <3> QED BY <2>1, <2>2, <2>4, <3>1
  <2>5. CASE ~(held[s].file # 0 /\ ~held[s].current)
    <3>1. stale'[s] = stale[s]
      BY <1>1, <2>5
    <3> QED BY <2>1, <2>3, <3>1
  <2> QED BY <2>4, <2>5
<1>5. FileTypes'
  <2>1. stale' \in [Source -> Nat]
    BY <1>1, <1>4
  <2> QED BY <1>1, <1>2, <1>3, <2>1 DEF IInv, FileTypes
<1>6. MonitorTypes'
  <2>1. held' \in [Source -> ReaderType]
    <3>1. held' = [s \in Source |-> held'[s]]
      BY DEF StartRound
    <3> QED BY <3>1, StartRoundReaders
  <2>2. pending' \in [Source -> Seq(ReaderType)]
    <3>1. pending' = [s \in Source |-> pending'[s]]
      BY DEF StartRound
    <3> QED BY <3>1, StartRoundReaders
  <2>3. step' \in [Source -> Steps] /\ budget' \in [Source -> Nat]
    BY <1>1, BoundAssumption DEF Steps
  <2>4. got' \in [Source -> SUBSET Line] /\ gotPending' \in [Source -> SUBSET Line]
    BY <1>1
  <2>5. reset' \in [Source -> BOOLEAN] /\ retiringChanged' \in [Source -> BOOLEAN] /\ activity' \in [Source -> BOOLEAN]
    BY <1>1
  <2>6. seen' \in [Source -> SUBSET Nat] /\ turn' \in [Source -> Nat] /\ chunk' \in [Source -> Seq(Line)]
        /\ backed' \in [Source -> SUBSET Line]
    BY <1>1 DEF IInv, MonitorTypes
  <2> QED BY <1>2, <2>1, <2>2, <2>3, <2>4, <2>5, <2>6 DEF MonitorTypes
<1>7. VerdictInv'
  BY <1>1, <1>2 DEF IInv, VerdictInv, Running
<1>8. MarkInv'
  <2>1. Earlier(mark.extent, Snapshot) /\ \A s \in Source : mark.moves[s] <= moves[s]
    BY DEF IInv, MarkInv
  <2>2. Earlier(Snapshot, Snapshot)
    BY <1>3 DEF Earlier, AtMost, Extents
  <2> QED BY <1>1, <1>2, <2>1, <2>2 DEF MarkInv, Earlier
<1>9. ASSUME NEW s \in Source PROVE SourceInv(s)'
  <2>1. SourceInv(s) /\ step[s] = "idle" /\ step'[s] = "first" /\ chunk[s] = <<>> /\ turn[s] = 0
    BY <1>1 DEF IInv, SourceInv, PositionInv, Reading
  <2>2. got'[s] = {} /\ gotPending'[s] = {} /\ Batch(s)' = {} /\ budget'[s] = Budget
    BY <1>1 DEF Batch
  <2>3. NamesInv(s)' /\ ReadersInv(s)'
    <3>1. /\ held'[s].file = held[s].file /\ held'[s].current = held[s].current
          /\ DOMAIN pending'[s] = DOMAIN pending[s] /\ Len(pending'[s]) = Len(pending[s])
          /\ \A i \in DOMAIN pending[s] :
               pending'[s][i].file = pending[s][i].file /\ pending'[s][i].current = pending[s][i].current
      BY StartRoundReaders
    <3>2. NamesInv(s)'
      BY <1>1, <2>1 DEF SourceInv, NamesInv
    <3>3. ReadersInv(s)'
      BY <1>1, <2>1, <3>1 DEF SourceInv, ReadersInv
    <3> QED BY <3>2, <3>3
  <2>4. PositionInv(s)'
    BY <1>1, <2>1, <2>2, BoundAssumption DEF PositionInv
  <2>5. LineInv(s)'
    <3>1. \A l : Written(s, l)' <=> Written(s, l)
      BY <1>1 DEF Written, Size
    <3> QED BY <1>1, <2>1, <2>2, <3>1 DEF SourceInv, LineInv
  <2>6. OldInv(s)'
    BY <1>1, <1>4, <2>1, <2>2, StartRoundReaders DEF SourceInv, OldInv
  <2>7. EvidenceInv(s)'
    <3> SUFFICES ASSUME ~Suspect(s)', NEW m \in evidence \cap Marker[s]
                 PROVE  \E l \in backed[s] : l.kind = m /\ Fresh(s, l)'
      BY <1>1 DEF EvidenceInv
    <3>1. ~Suspect(s)
      BY <2>1 DEF Suspect
    <3>2. PICK l \in backed[s] : l.kind = m /\ Fresh(s, l)
      BY <1>1, <2>1, <3>1 DEF SourceInv, EvidenceInv
    <3>3. ASSUME l.file = there[s] PROVE l.cut >= stale'[s]
      <4>1. CASE stale'[s] = stale[s]
        BY <3>2, <3>3, <4>1 DEF Fresh
      <4>2. CASE held[s].file = there[s] /\ there[s] # 0
        <5>1. l.cut = held[s].anchor /\ held[s].offset > 0
          BY <2>1, <3>3, <4>2 DEF SourceInv, OldInv
        <5>2. ~(held[s].anchor < stale'[s])
          BY <1>1, <2>1, <3>2, <4>2, <5>1, StartRoundReaders DEF Suspect
        <5>3. held[s].anchor \in Nat /\ stale'[s] \in Nat
          BY <1>4 DEF IInv, MonitorTypes, ReaderType
        <5> QED BY <5>1, <5>2, <5>3
      <4> QED BY <1>4, <4>1, <4>2
    <3> QED BY <1>1, <3>2, <3>3 DEF Fresh
  <2>8. RoundInv(s)'
    BY <2>1 DEF RoundInv
  <2> QED BY <2>3, <2>4, <2>5, <2>6, <2>7, <2>8 DEF SourceInv
<1> QED BY <1>2, <1>5, <1>6, <1>7, <1>8, <1>9 DEF IInv

(* The lines that count for a marker from now on *)
LEMMA EndRoundEvidence ==
  ASSUME IInv, \A s \in Source : step[s] = "done", Running,
         NEW s \in Source, NEW m \in EvidenceNow \cap Marker[s]
  PROVE  \E l \in backed[s] \cup {l \in Batch(s) : l.kind \in Marker[s]} : l.kind = m /\ Fresh(s, l)
<1>1. PICK t \in Source : m \in (evidence \cap (IF reset[t] THEN {} ELSE Marker[t])) \cup (Marker[t] \cap Kinds(Batch(t)))
  BY DEF EvidenceNow
<1>2. t = s
  <2>1. Source \subseteq Log
    BY SourceFacts DEF IInv, FileTypes
  <2>2. m \in Marker[t]
    BY <1>1
  <2> QED BY <2>1, <2>2, MarkerAssumption
<1>3. CASE m \in evidence /\ ~reset[s]
  <2>1. ~Suspect(s)
    BY DEF Suspect
  <2> QED BY <1>3, <2>1 DEF IInv, SourceInv, EvidenceInv
<1>4. CASE m \in Kinds(Batch(s))
  BY <1>4 DEF Kinds, IInv, SourceInv, OldInv
<1> QED BY <1>1, <1>2, <1>3, <1>4

LEMMA EndRoundInv == ASSUME IInv, EndRound, UNCHANGED scene PROVE IInv'
<1>1. /\ Running /\ (\A s \in Source : step[s] = "done") /\ step' = [s \in Source |-> "idle"]
      /\ UNCHANGED <<scene, files, follower, batch, turn, chunk, there, baseline, before, mark, stale>>
  BY DEF EndRound
<1>2. Source' = Source /\ File' = File /\ Extents' = Extents /\ Kind' = Kind /\ Line' = Line /\ Required' = Required
      /\ ReaderType' = ReaderType /\ Snapshot' = Snapshot
  BY <1>1 DEF Source, File, Extents, Kind, Required, Line, ReaderType, Snapshot, Size
<1>3. \/ outcome' = "failed" /\ UNCHANGED <<evidence, quietRounds, backed>>
      \/ /\ evidence' = EvidenceNow /\ quietRounds' = (IF Quiet THEN quietRounds + 1 ELSE 0)
         /\ outcome' = (IF quietRounds' = 2 THEN "announced" ELSE outcome)
         /\ backed' = [s \in Source |-> backed[s] \cup {l \in Batch(s) : l.kind \in Marker[s]}]
  BY Zenon DEF EndRound
<1>4. ASSUME NEW s \in Source
      PROVE  backed'[s] = backed[s] \/ backed'[s] = backed[s] \cup {l \in Batch(s) : l.kind \in Marker[s]}
  BY <1>3
<1>5. FileTypes'
  BY <1>1, <1>2 DEF IInv, FileTypes
<1>6. MonitorTypes'
  <2>1. step' \in [Source -> Steps]
    BY <1>1 DEF Steps
  <2>2. backed' \in [Source -> SUBSET Line]
    <3>1. backed \in [Source -> SUBSET Line] /\ \A s \in Source : Batch(s) \in SUBSET Line
      BY DEF IInv, MonitorTypes, Batch
    <3> QED BY <1>3, <3>1
  <2>3. /\ held' \in [Source -> ReaderType] /\ pending' \in [Source -> Seq(ReaderType)] /\ seen' \in [Source -> SUBSET Nat]
        /\ turn' \in [Source -> Nat] /\ budget' \in [Source -> Nat] /\ chunk' \in [Source -> Seq(Line)]
    BY <1>1 DEF IInv, MonitorTypes
  <2>4. got' \in [Source -> SUBSET Line] /\ gotPending' \in [Source -> SUBSET Line]
        /\ reset' \in [Source -> BOOLEAN] /\ retiringChanged' \in [Source -> BOOLEAN] /\ activity' \in [Source -> BOOLEAN]
    BY <1>1 DEF IInv, MonitorTypes
  <2> QED BY <1>2, <2>1, <2>2, <2>3, <2>4 DEF MonitorTypes
<1>7. VerdictInv'
  <2>1. evidence \subseteq Required /\ quietRounds \in 0 .. 2 /\ outcome = "watching" /\ quietRounds < 2
    BY <1>1 DEF IInv, VerdictInv, Running
  <2>2. EvidenceNow \subseteq Required
    BY DEF EvidenceNow, Required
  <2>3. CASE outcome' = "failed" /\ UNCHANGED <<evidence, quietRounds, backed>>
    BY <1>2, <2>1, <2>3 DEF VerdictInv, Running
  <2>4. CASE /\ evidence' = EvidenceNow /\ quietRounds' = (IF Quiet THEN quietRounds + 1 ELSE 0)
             /\ outcome' = (IF quietRounds' = 2 THEN "announced" ELSE outcome)
    BY <1>2, <2>1, <2>2, <2>4 DEF VerdictInv, Running
  <2> QED BY <1>3, <2>3, <2>4
<1>8. MarkInv'
  <2>1. \A s \in Source : step'[s] = "idle"
    BY <1>1
  <2>2. /\ Earlier(mark.extent, Snapshot) /\ Earlier(before, Snapshot)
        /\ \A s \in Source : mark.moves[s] <= moves[s]
    BY DEF IInv, MarkInv
  <2> QED BY <1>1, <1>2, <2>1, <2>2 DEF MarkInv, Earlier
<1>9. ASSUME NEW s \in Source PROVE SourceInv(s)'
  <2>1. SourceInv(s) /\ step'[s] = "idle" /\ chunk[s] = <<>> /\ turn[s] = 0
    BY <1>1 DEF IInv, SourceInv, PositionInv, Reading
  <2>2. Batch(s)' = Batch(s) /\ (\A l : Written(s, l)' <=> Written(s, l)) /\ (\A l : Fresh(s, l)' <=> Fresh(s, l))
    BY <1>1 DEF Batch, Written, Size, Fresh
  <2>3. Batch(s)' \cup backed'[s] \subseteq Batch(s) \cup backed[s]
    BY <1>4, <2>2
  <2>4. NamesInv(s)' /\ ReadersInv(s)'
    BY <1>1, <2>1 DEF SourceInv, NamesInv, ReadersInv
  <2>5. PositionInv(s)'
    BY <1>1, <2>1 DEF SourceInv, PositionInv
  <2>6. LineInv(s)' /\ OldInv(s)'
    BY <1>1, <2>1, <2>2, <2>3 DEF SourceInv, LineInv, OldInv
  <2>7. EvidenceInv(s)'
    <3>1. CASE outcome' = "failed"
      BY <3>1 DEF EvidenceInv, Running
    <3>2. CASE /\ evidence' = EvidenceNow
               /\ backed' = [t \in Source |-> backed[t] \cup {l \in Batch(t) : l.kind \in Marker[t]}]
      <4> SUFFICES ASSUME NEW m \in EvidenceNow \cap Marker[s] PROVE \E l \in backed'[s] : l.kind = m /\ Fresh(s, l)'
        BY <3>2 DEF EvidenceInv
      <4>1. \E l \in backed[s] \cup {l \in Batch(s) : l.kind \in Marker[s]} : l.kind = m /\ Fresh(s, l)
        BY <1>1, EndRoundEvidence
      <4> QED BY <2>2, <3>2, <4>1
    <3> QED BY <1>3, <3>1, <3>2
  <2>8. RoundInv(s)'
    BY <2>1 DEF RoundInv
  <2> QED BY <2>4, <2>5, <2>6, <2>7, <2>8 DEF SourceInv
<1> QED BY <1>2, <1>5, <1>6, <1>7, <1>8, <1>9 DEF IInv

-----------------------------------------------------------------------------
(* The theorems *)

LEMMA NextInv == IInv /\ [Next]_vars => IInv'
<1> SUFFICES ASSUME IInv, [Next]_vars PROVE IInv'
  OBVIOUS
<1>1. CASE Game /\ UNCHANGED scene
  BY <1>1, GameInv
<1>2. CASE StartRound /\ UNCHANGED scene
  BY <1>2, StartRoundInv
<1>3. CASE EndRound /\ UNCHANGED scene
  BY <1>3, EndRoundInv
<1>4. CASE UNCHANGED scene /\ \E s \in Source : Follow(s)
  <2>1. PICK s \in Source : Look(s) \/ Keep(s) \/ Detect(s) \/ Adopt(s)
    BY <1>4 DEF Follow
  <2> QED BY <1>4, <2>1, LookInv, KeepInv, DetectInv, AdoptInv
<1>5. CASE UNCHANGED scene /\ \E s \in Source : FollowFails(s)
  BY <1>5, FollowFailsInv
<1>6. CASE UNCHANGED vars
  <2>1. UNCHANGED <<scene, content, cut, path, made, moves, held, pending, seen, step, turn, chunk, budget, got, gotPending,
                    reset, retiringChanged, activity, evidence, quietRounds, outcome, there, baseline, backed, before, mark,
                    stale>>
    BY <1>6
  <2>2. Source' = Source /\ File' = File /\ Extents' = Extents /\ Kind' = Kind /\ Line' = Line /\ Required' = Required
        /\ ReaderType' = ReaderType /\ Snapshot' = Snapshot /\ MarkRead' = MarkRead
    BY <2>1 DEF Source, File, Extents, Kind, Required, Line, ReaderType, Snapshot, Size, MarkRead
  <2>3. FileTypes' /\ MonitorTypes' /\ VerdictInv' /\ MarkInv'
    BY <2>1, <2>2 DEF IInv, FileTypes, MonitorTypes, VerdictInv, Running, MarkInv, Earlier
  <2>4. ASSUME NEW s \in Source PROVE SourceInv(s)'
    BY <2>1, <2>2 DEF IInv, SourceInv, NamesInv, ReadersInv, PositionInv, LineInv, OldInv, EvidenceInv, RoundInv,
       Reader, Batch, Written, Size, Fresh, Suspect, Running, Reading
  <2> QED BY <2>2, <2>3, <2>4 DEF IInv
<1> QED BY <1>1, <1>2, <1>3, <1>4, <1>5, <1>6 DEF Next, Watch

(* The inductive invariant. *)
THEOREM Invariance == Spec => []IInv
BY InitInv, NextInv, PTL DEF Spec

(* The monitor's variables keep to their values, no file is held twice, and what is
   held or pending has been seen: readAvailableContext and its pending generations. *)
THEOREM TypeCorrect == Spec => []TypeOK
<1>1. IInv => TypeOK
  <2> SUFFICES ASSUME IInv, NEW s \in Source
               PROVE  /\ step[s] \in Steps /\ budget[s] \in 0 .. Budget /\ held[s].file \in seen[s] \cup {0}
                      /\ Len(pending[s]) <= MaxPending
                      /\ \A i \in DOMAIN pending[s] : pending[s][i].file \in seen[s] \ {held[s].file}
    BY DEF IInv, VerdictInv, TypeOK
  <2>1. step[s] \in Steps /\ budget[s] \in Nat
    BY DEF IInv, MonitorTypes
  <2>2. budget[s] <= Budget /\ ReadersInv(s)
    BY DEF IInv, SourceInv, PositionInv
  <2> QED BY <2>1, <2>2, BoundAssumption DEF ReadersInv
<1> QED BY <1>1, Invariance, PTL

(* A failure that the log held before the follower was made is never in a batch:
   newLogFollower starts at the end of the file. *)
THEOREM OldIgnored == Spec => []OldFailuresIgnored
<1>1. IInv => OldFailuresIgnored
  BY DEF IInv, SourceInv, OldInv, OldFailuresIgnored
<1> QED BY <1>1, Invariance, PTL

LEMMA UnreadOfHeld ==
  ASSUME IInv, NEW s \in Source, held[s].file # 0
  PROVE  \A i \in Unread(s, held[s].file) : i \in 1 .. Size(s, held[s].file) /\ i > held[s].offset
<1> DEFINE f == held[s].file
           readers == {r \in {held[s]} \cup ToSet(pending[s]) : r.file = f}
<1>1. readers = {held[s]}
  <2>1. \A r \in ToSet(pending[s]) : r.file # f
    BY DEF ToSet, IInv, SourceInv, ReadersInv
  <2> QED BY <2>1
<1> HIDE DEF readers, f
<1>2. f # 0
  BY DEF f
<1>3. Unread(s, f) = {i \in 1 .. Size(s, f) : \E r \in readers : i > r.offset}
  BY <1>1, <1>2, Zenon DEF Unread, readers
<1> QED BY <1>1, <1>3 DEF f

(* When the files had at most this extent before the round, nothing of it is left. *)
LEMMA NothingOverdue ==
  ASSUME IInv, NEW s \in Source, ~(held[s].file # 0 /\ held[s].more),
         step[s] = "adopt" \/ (step[s] = "done" /\ ~activity[s]),
         NEW extent \in Extents, Earlier(extent, before)
  PROVE  Overdue(s, held[s].file, extent) = {}
<1> DEFINE f == held[s].file
<1> SUFFICES ASSUME NEW i \in Unread(s, f), i <= extent[s][f].size, extent[s][f].cut = cut[s][f] PROVE FALSE
  BY DEF Overdue
<1>1. f # 0
  BY DEF Unread
<1>2. f \in File /\ i \in 1 .. Size(s, f) /\ i > held[s].offset
  BY <1>1, ReaderFile, UnreadOfHeld
<1>3. /\ extent[s][f].cut \in Nat /\ extent[s][f].size \in Nat /\ before[s][f].cut \in Nat /\ before[s][f].size \in Nat
      /\ cut[s][f] \in Nat /\ Size(s, f) \in Nat /\ held[s].offset \in Nat
  <2>1. before \in Extents /\ content \in [Source -> [File -> Seq(Kind)]] /\ cut \in [Source -> [File -> Nat]]
        /\ held[s] \in ReaderType
    BY DEF IInv, FileTypes, MonitorTypes
  <2> QED BY <1>2, <2>1 DEF Extents, Size, ReaderType
<1>4. AtMost(extent[s][f], before[s][f])
  BY <1>2 DEF Earlier
<1>5. before[s][f].cut <= cut[s][f]
  <2>1. AtMost(before[s][f], Snapshot[s][f])
    BY <1>2 DEF IInv, MarkInv, Earlier
  <2>2. Snapshot[s][f] = [cut |-> cut[s][f], size |-> Size(s, f)]
    BY <1>2 DEF Snapshot
  <2> QED BY <1>3, <2>1, <2>2 DEF AtMost
<1>6. before[s][f].cut = cut[s][f] /\ extent[s][f].size <= before[s][f].size
  BY <1>3, <1>4, <1>5 DEF AtMost
<1>7. held[s].offset >= before[s][f].size
  BY <1>1, <1>6 DEF IInv, SourceInv, RoundInv
<1> QED BY <1>2, <1>3, <1>6, <1>7

LEMMA SetReaderFile ==
  ASSUME IInv, NEW s \in Source, NEW new, new.file = 0 \/ new.file = Reader(s).file, SetReader(s, new)
  PROVE  \A t \in Source : held'[t].file \in {0, held[t].file}
<1>1. held \in [Source -> ReaderType]
  BY DEF IInv, MonitorTypes
<1> QED BY <1>1 DEF SetReader, Reader

LEMMA TransitionFile ==
  ASSUME IInv, NEW s \in Source, NEW lines, Transition(s, Reader(s), lines)
  PROVE  \A t \in Source : held'[t].file \in {0, held[t].file}
<1> DEFINE r == Reader(s)
           again == [r EXCEPT !.offset = 0, !.anchor = 0, !.more = TRUE]
           none == [NoFile EXCEPT !.more = r.more]
<1>1. r \in ReaderType
  BY ReaderFacts
<1>2. again.file = r.file
  BY <1>1, Zenon DEF ReaderType
<1>3. none.file = 0
  BY DEF NoFile
<1>4. SetReader(s, again) \/ SetReader(s, none)
  BY Zenon DEF Transition
<1> HIDE DEF again, none
<1> QED BY <1>2, <1>3, <1>4, SetReaderFile

(* Only a replacement puts another file in the place of the one in use. *)
LEMMA ReadKeepsFile ==
  ASSUME IInv, NEW s \in Source, Look(s) \/ Keep(s)
  PROVE  \A t \in Source : held'[t].file \in {0, held[t].file}
<1> DEFINE r == Reader(s)
           next == [r EXCEPT !.offset = @ + 1, !.anchor = cut[s][r.file]]
           none == IF step[s] = "first" THEN [r EXCEPT !.more = FALSE] ELSE r
           same == [r EXCEPT !.more = Size(s, r.file) > r.offset]
           last == [next EXCEPT !.more = Size(s, r.file) > next.offset]
<1>1. r \in ReaderType
  BY ReaderFacts
<1>2. none.file = r.file /\ same.file = r.file
  BY <1>1, Zenon DEF ReaderType
<1>3. next.file = r.file
  BY <1>1, Zenon DEF ReaderType
<1>4. last.file = r.file
  BY <1>1, Zenon DEF ReaderType
<1>5. \/ UNCHANGED held \/ \E lines : Transition(s, r, lines)
      \/ \E new \in {none, same, next, last} : SetReader(s, new)
  <2>1. CASE Look(s)
    BY <2>1, Zenon DEF Look
  <2>2. CASE Keep(s)
    BY <2>2, Zenon DEF Keep
  <2> QED BY <2>1, <2>2
<1> HIDE DEF none, same, next, last
<1>6. \A new \in {none, same, next, last} : new.file = Reader(s).file
  BY <1>2, <1>3, <1>4
<1> QED BY <1>5, <1>6, SetReaderFile, TransitionFile

(* adoptPendingGeneration gives up a log in use only when all it held before the
   round has been read. *)
THEOREM Drained == Spec => DrainedBeforeRetired
<1>1. IInv /\ [Next]_vars =>
        [\A s \in Source : held'[s].file \notin {0, held[s].file} => Overdue(s, held[s].file, before) = {}]_vars
  <2> SUFFICES ASSUME IInv, Next, NEW s \in Source, held'[s].file \notin {0, held[s].file}
               PROVE  Overdue(s, held[s].file, before) = {}
    OBVIOUS
  <2>1. CASE Game
    BY <2>1 DEF Game, Move, Truncate, Write
  <2>2. CASE StartRound
    BY <2>2, StartRoundReaders DEF Next
  <2>3. CASE EndRound
    BY <2>3 DEF EndRound
  <2>4. CASE \E t \in Source : Look(t) \/ Keep(t)
    BY <2>4, ReadKeepsFile
  <2>5. CASE \E t \in Source : Detect(t) \/ FollowFails(t)
    BY <2>5 DEF Detect, FollowFails
  <2>6. CASE \E t \in Source : Adopt(t)
    <3>1. PICK t \in Source : Adopt(t)
      BY <2>6
    <3>2. held \in [Source -> ReaderType]
      BY DEF IInv, MonitorTypes
    <3>3. t = s /\ Settled(s) /\ step[s] = "adopt"
      BY <3>1, <3>2 DEF Adopt
    <3>4. before \in Extents /\ Earlier(before, before)
      <4>1. before \in Extents
        BY DEF IInv, FileTypes
      <4>2. ASSUME NEW u \in Source, NEW n \in File PROVE before[u][n].size \in Nat
        BY <4>1 DEF Extents
      <4> QED BY <4>1, <4>2 DEF Earlier, AtMost
    <3> QED BY <3>3, <3>4, NothingOverdue DEF Settled
  <2> QED BY <2>1, <2>2, <2>3, <2>4, <2>5, <2>6 DEF Next, Watch, Follow
<1> QED BY <1>1, Invariance, PTL DEF Spec, DrainedBeforeRetired

LEMMA AnnouncedQuiet ==
  ASSUME IInv, Next, Announces
  PROVE  /\ Running /\ (\A s \in Source : step[s] = "done") /\ Quiet
         /\ UNCHANGED <<there, baseline, stale, mark>>
         /\ backed' = [s \in Source |-> backed[s] \cup {l \in Batch(s) : l.kind \in Marker[s]}]
<1>1. EndRound
  BY DEF Next, Watch, Announces, Game, Move, Truncate, Write, StartRound, Follow, Look, Keep, Detect, Adopt, FollowFails
<1>2. /\ Running /\ (\A s \in Source : step[s] = "done") /\ UNCHANGED <<there, baseline, stale, mark>>
  BY <1>1 DEF EndRound
<1>3. /\ quietRounds' = (IF Quiet THEN quietRounds + 1 ELSE 0)
      /\ outcome' = (IF quietRounds' = 2 THEN "announced" ELSE outcome)
      /\ backed' = [s \in Source |-> backed[s] \cup {l \in Batch(s) : l.kind \in Marker[s]}]
  <2>1. outcome' # "failed"
    BY DEF Announces
  <2> QED BY <1>1, <2>1, Zenon DEF EndRound
<1>4. Quiet
  BY <1>3 DEF Announces
<1> QED BY <1>2, <1>3, <1>4

(* observeReadinessRound announces only what was written since the follower was made,
   and not to a log that was truncated before the round. *)
THEOREM FreshEvidence == Spec => EvidenceIsFresh
<1>1. IInv /\ [Next]_vars =>
        [Announces => \A s \in Source : \A m \in Marker[s] : \E l \in backed'[s] : l.kind = m /\ Fresh(s, l)]_vars
  <2> SUFFICES ASSUME IInv, Next, Announces, NEW s \in Source, NEW m \in Marker[s]
               PROVE  \E l \in backed'[s] : l.kind = m /\ Fresh(s, l)
    OBVIOUS
  <2>1. Running /\ (\A t \in Source : step[t] = "done") /\ Quiet
        /\ backed'[s] = backed[s] \cup {l \in Batch(s) : l.kind \in Marker[s]}
    BY AnnouncedQuiet
  <2>2. m \in EvidenceNow \cap Marker[s]
    BY <2>1 DEF Quiet, Required
  <2> QED BY <2>1, <2>2, EndRoundEvidence
<1> QED BY <1>1, Invariance, PTL DEF Spec, EvidenceIsFresh

(* Readiness that rests on the last marker passes over nothing that a followed log
   held when that marker was written. *)
THEOREM NoneMissed == Spec => NothingMissed
<1>1. IInv /\ [Next]_vars =>
        [Announces /\ Relied =>
           \A s \in Source :
             /\ Overdue(s, held[s].file, mark.extent) = {}
             /\ moves[s] = mark.moves[s] /\ path[s] # 0 => path[s] = held[s].file]_vars
  <2> SUFFICES ASSUME IInv, Next, Announces, Relied, NEW s \in Source
               PROVE  /\ Overdue(s, held[s].file, mark.extent) = {}
                      /\ moves[s] = mark.moves[s] /\ path[s] # 0 => path[s] = held[s].file
    OBVIOUS
  <2>1. /\ Running /\ (\A t \in Source : step[t] = "done") /\ Quiet
        /\ backed' = [t \in Source |-> backed[t] \cup {l \in Batch(t) : l.kind \in Marker[t]}]
    BY AnnouncedQuiet
  <2>2. /\ mark.source \in Source /\ mark.extent \in Extents
    BY DEF IInv, FileTypes
  <2>3. \A t \in Source : ~activity[t] /\ ~held[t].more
    BY <2>1 DEF Quiet, More
  <2>4. Batch(mark.source) = {}
    BY <2>2, <2>3 DEF IInv, SourceInv, LineInv
  <2>5. MarkRead
    BY <2>1, <2>2, <2>4 DEF Relied, MarkRead
  <2>6. Earlier(mark.extent, before)
    BY <2>1, <2>2, <2>5 DEF IInv, MarkInv
  <2>7. moves[s] = mark.moves[s] /\ path[s] # 0 => path[s] = held[s].file
    BY <2>1, <2>3, <2>5 DEF IInv, SourceInv, RoundInv
  <2> QED BY <2>1, <2>2, <2>3, <2>6, <2>7, NothingOverdue
<1> QED BY <1>1, Invariance, PTL DEF Spec, NothingMissed

=============================================================================
