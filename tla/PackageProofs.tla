---------------------------- MODULE PackageProofs ----------------------------
(***************************************************************************)
(* The packages: the graph that Thunderstore.Resolve accepts, the archives *)
(* that ArchiveCache.Fetch returns for them, and the generation that       *)
(* ModManager.Stage makes of those.                                        *)
(*                                                                         *)
(* Resolve implements Resolution for any packages, dependency graph and    *)
(* roots: both walks are depth-first, and one set of facts about their     *)
(* stacks serves both, with Done the packages a walk has finished; what    *)
(* they leave to do gets smaller with every step (Left).                   *)
(*                                                                         *)
(* Stage: a tree is described by the entries it was made from.  An         *)
(* unpacked archive is what its entries so far say (Unpacked), the overlay *)
(* the shares of the packages copied so far (FilesUpTo, TreeOf); an entry  *)
(* that passed the inspection is in the way of no other.                   *)
(***************************************************************************)
EXTENDS Resolver, ArchiveCache, Staging, SequenceTheorems, FiniteSetTheorems, WellFoundedInduction, TLAPS

Needed == Promise!Needed

-----------------------------------------------------------------------------
(* Stacks, without the state: g are the dependencies, s the stack, D the
   finished packages. *)

(* The frames are a path of the graph without a repetition, outside D. *)
IsPath(g, s, D) ==
  /\ \A i, j \in 1 .. Len(s) : s[i].ref = s[j].ref => i = j
  /\ \A i \in 1 .. Len(s) : s[i].ref \notin D /\ s[i].todo \subseteq g[s[i].ref]
  /\ \A i \in 1 .. Len(s) : i < Len(s) => s[i].known /\ s[i + 1].ref \in g[s[i].ref]

(* What a frame no longer has to do is finished, or is the frame above it. *)
IsHandled(g, s, D) ==
  \A i \in 1 .. Len(s) : s[i].known =>
    \A d \in g[s[i].ref] : d \in s[i].todo \/ d \in D \/ (i < Len(s) /\ d = s[i + 1].ref)

OnPath(s) == {s[i].ref : i \in 1 .. Len(s)}

AllKnown(s) == \A i \in 1 .. Len(s) : s[i].known

(* t is s with another frame f on top. *)
Retopped(s, t, f) ==
  /\ Len(t) = Len(s) /\ t[Len(s)] = f /\ \A i \in 1 .. Len(s) : i < Len(s) => t[i] = s[i]

(* t is s with the frame f above it. *)
Pushed(s, t, f) ==
  /\ Len(t) = Len(s) + 1 /\ t[Len(s) + 1] = f /\ \A i \in 1 .. Len(s) : t[i] = s[i]

(* t is s without its top. *)
Popped(s, t) == Len(t) = Len(s) - 1 /\ \A i \in 1 .. Len(t) : t[i] = s[i]

(* SubSeq takes the top off. *)
LEMMA Popping ==
  ASSUME NEW F, NEW s \in Seq(F), s # <<>>
  PROVE  SubSeq(s, 1, Len(s) - 1) \in Seq(F) /\ Popped(s, SubSeq(s, 1, Len(s) - 1))
<1>1. Len(s) \in Nat \ {0} BY EmptySeq
<1>2. \A i \in 1 .. Len(s) - 1 : s[i] \in F
  <2>1. \A i \in 1 .. Len(s) : s[i] \in F BY ElementOfSeq
  <2> QED BY <1>1, <2>1
<1>3. Len(SubSeq(s, 1, Len(s) - 1)) = Len(s) - 1
  <2>1. 1 \in Int /\ Len(s) - 1 \in Int BY <1>1
  <2>2. Len(SubSeq(s, 1, Len(s) - 1)) = IF 1 <= Len(s) - 1 THEN Len(s) - 1 - 1 + 1 ELSE 0
    BY <1>2, <2>1, SubSeqProperties
  <2>3. \A n \in Nat \ {0} : (IF 1 <= n - 1 THEN n - 1 - 1 + 1 ELSE 0) = n - 1 OBVIOUS
  <2> QED BY <1>1, <2>2, <2>3
<1>4. \A i \in 1 .. Len(s) - 1 : SubSeq(s, 1, Len(s) - 1)[i] = s[i]
  <2>1. \A i \in 1 .. (Len(s) - 1) - 1 + 1 : SubSeq(s, 1, Len(s) - 1)[i] = s[1 + i - 1]
    BY <1>1, <1>2, SubSeqProperties
  <2> QED BY <1>1, <2>1
<1> QED BY <1>1, <1>2, <1>3, <1>4, SubSeqProperties DEF Popped

(* Append puts a frame above the others. *)
LEMMA Pushing ==
  ASSUME NEW F, NEW s \in Seq(F), NEW f \in F
  PROVE  Append(s, f) \in Seq(F) /\ Pushed(s, Append(s, f), f)
BY DEF Pushed

(* A stack is retopped by taking its top off and putting another one on. *)
LEMMA Retopping ==
  ASSUME NEW F, NEW s \in Seq(F), s # <<>>, NEW f \in F
  PROVE  LET t == Append(SubSeq(s, 1, Len(s) - 1), f)
         IN  t \in Seq(F) /\ Retopped(s, t, f)
<1> DEFINE b == SubSeq(s, 1, Len(s) - 1)
<1>1. Len(s) \in Nat \ {0} BY EmptySeq
<1>2. b \in Seq(F) /\ Popped(s, b) BY Popping
<1>3. Append(b, f) \in Seq(F) /\ Pushed(b, Append(b, f), f) BY <1>2, Pushing
<1> HIDE DEF b
<1>4. Retopped(s, Append(b, f), f) BY <1>1, <1>2, <1>3 DEF Popped, Pushed, Retopped
<1> QED BY <1>3, <1>4 DEF b

-----------------------------------------------------------------------------
(* The facts about paths, for one more frame, one dependency skipped, a frame
   that gets its dependencies, and one that is finished *)

(* A dependency that is finished is taken off the top frame. *)
LEMMA SkipStep ==
  ASSUME NEW g, NEW D, NEW s \in Seq(Frame), s # <<>>, NEW t \in Seq(Frame), NEW p,
         IsPath(g, s, D), IsHandled(g, s, D), s[Len(s)].known, p \in s[Len(s)].todo, p \in D,
         Retopped(s, t, [s[Len(s)] EXCEPT !.todo = @ \ {p}])
  PROVE  IsPath(g, t, D) /\ IsHandled(g, t, D) /\ OnPath(t) = OnPath(s)
<1>1. Len(s) \in Nat \ {0} /\ Len(t) = Len(s) BY EmptySeq DEF Retopped
<1>2. s[Len(s)] \in Frame BY <1>1, ElementOfSeq
<1>3. /\ t[Len(s)].ref = s[Len(s)].ref /\ t[Len(s)].known
      /\ t[Len(s)].todo = s[Len(s)].todo \ {p}
  BY <1>2 DEF Retopped, Frame
<1>4. \A i \in 1 .. Len(s) : i < Len(s) => t[i] = s[i] BY DEF Retopped
<1>5. \A i \in 1 .. Len(s) : t[i].ref = s[i].ref BY <1>1, <1>3, <1>4
<1>6. IsPath(g, t, D)
  <2>1. \A i \in 1 .. Len(t) : t[i].todo \subseteq s[i].todo BY <1>1, <1>3, <1>4
  <2>2. \A i, j \in 1 .. Len(t) : t[i].ref = t[j].ref => i = j BY <1>1, <1>5 DEF IsPath
  <2>3. \A i \in 1 .. Len(t) : t[i].ref \notin D /\ t[i].todo \subseteq g[t[i].ref]
    BY <1>1, <1>5, <2>1 DEF IsPath
  <2>4. \A i \in 1 .. Len(t) : i < Len(t) => t[i].known /\ t[i + 1].ref \in g[t[i].ref]
    <3>1. SUFFICES ASSUME NEW i \in 1 .. Len(t), i < Len(t)
                   PROVE  t[i].known /\ t[i + 1].ref \in g[t[i].ref]
      OBVIOUS
    <3>2. i + 1 \in 1 .. Len(s) BY <1>1, <3>1
    <3> QED BY <1>1, <1>4, <1>5, <3>1, <3>2 DEF IsPath
  <2> QED BY <2>2, <2>3, <2>4 DEF IsPath
<1>7. IsHandled(g, t, D)
  <2>1. SUFFICES ASSUME NEW i \in 1 .. Len(t), t[i].known, NEW d \in g[t[i].ref]
                 PROVE  d \in t[i].todo \/ d \in D \/ (i < Len(t) /\ d = t[i + 1].ref)
    BY DEF IsHandled
  <2>2. CASE i < Len(s) BY <1>1, <1>4, <1>5, <2>1, <2>2 DEF IsHandled
  <2>3. CASE i = Len(s) BY <1>1, <1>3, <2>1, <2>3 DEF IsHandled
  <2> QED BY <1>1, <2>2, <2>3
<1>8. OnPath(t) = OnPath(s) BY <1>1, <1>5 DEF OnPath
<1> QED BY <1>6, <1>7, <1>8

(* One frame, or none *)
LEMMA FirstStep ==
  ASSUME NEW g, NEW D, NEW t, NEW f, Len(t) = 1, t[1] = f,
         f.ref \notin D, f.todo \subseteq g[f.ref], f.known => f.todo = g[f.ref]
  PROVE  IsPath(g, t, D) /\ IsHandled(g, t, D) /\ OnPath(t) = {f.ref}
<1>1. 1 .. Len(t) = {1} OBVIOUS
<1>2. IsPath(g, t, D) BY <1>1 DEF IsPath
<1>3. IsHandled(g, t, D) BY <1>1 DEF IsHandled
<1> QED BY <1>1, <1>2, <1>3 DEF OnPath

(* A frame is put above a frame that still had to visit it. *)
LEMMA PushStep ==
  ASSUME NEW g, NEW D, NEW s \in Seq(Frame), s # <<>>, NEW u \in Seq(Frame), NEW t \in Seq(Frame),
         NEW f \in Frame,
         IsPath(g, s, D), IsHandled(g, s, D), s[Len(s)].known, f.ref \in s[Len(s)].todo,
         Retopped(s, u, [s[Len(s)] EXCEPT !.todo = @ \ {f.ref}]), Pushed(u, t, f),
         f.ref \notin D \cup OnPath(s), f.todo \subseteq g[f.ref], f.known => f.todo = g[f.ref]
  PROVE  IsPath(g, t, D) /\ IsHandled(g, t, D) /\ OnPath(t) = OnPath(s) \cup {f.ref}
<1>1. Len(s) \in Nat \ {0} /\ Len(u) = Len(s) /\ Len(t) = Len(s) + 1
  BY EmptySeq DEF Retopped, Pushed
<1>2. s[Len(s)] \in Frame BY <1>1, ElementOfSeq
<1>3. /\ u[Len(s)].ref = s[Len(s)].ref /\ u[Len(s)].known
      /\ u[Len(s)].todo = s[Len(s)].todo \ {f.ref}
  BY <1>2 DEF Retopped, Frame
<1>4. t[Len(s)] = u[Len(s)] /\ t[Len(s) + 1] = f BY <1>1 DEF Pushed
<1>5. \A i \in 1 .. Len(s) : i < Len(s) => t[i] = s[i] BY <1>1 DEF Retopped, Pushed
<1>6. \A i \in 1 .. Len(s) : t[i].ref = s[i].ref /\ t[i].todo \subseteq s[i].todo
  BY <1>1, <1>3, <1>4, <1>5
<1>7. \A i \in 1 .. Len(s) : t[i].known
  <2>1. \A i \in 1 .. Len(s) : i < Len(s) => s[i].known BY DEF IsPath
  <2> QED BY <1>1, <1>3, <1>4, <1>5, <2>1
<1>8. \A i \in 1 .. Len(t) : i \in 1 .. Len(s) \/ i = Len(s) + 1 BY <1>1
<1>9. IsPath(g, t, D)
  <2>1. \A i, j \in 1 .. Len(t) : t[i].ref = t[j].ref => i = j
    <3>1. \A i \in 1 .. Len(s) : t[i].ref # f.ref BY <1>6 DEF OnPath
    <3>2. \A i, j \in 1 .. Len(s) : t[i].ref = t[j].ref => i = j BY <1>6 DEF IsPath
    <3> QED BY <1>4, <1>8, <3>1, <3>2
  <2>2. \A i \in 1 .. Len(t) : t[i].ref \notin D /\ t[i].todo \subseteq g[t[i].ref]
    <3>1. \A i \in 1 .. Len(s) : t[i].ref \notin D /\ t[i].todo \subseteq g[t[i].ref]
      BY <1>6 DEF IsPath
    <3> QED BY <1>4, <1>8, <3>1
  <2>3. \A i \in 1 .. Len(t) : i < Len(t) => t[i].known /\ t[i + 1].ref \in g[t[i].ref]
    <3>1. SUFFICES ASSUME NEW i \in 1 .. Len(t), i < Len(t)
                   PROVE  t[i].known /\ t[i + 1].ref \in g[t[i].ref]
      OBVIOUS
    <3>2. i \in 1 .. Len(s) BY <1>1, <3>1
    <3>3. CASE i = Len(s)
      <4>1. f.ref \in g[s[i].ref] BY <3>2, <3>3 DEF IsPath
      <4> QED BY <1>4, <1>6, <1>7, <3>2, <3>3, <4>1
    <3>4. CASE i # Len(s)
      <4>1. i < Len(s) /\ i + 1 \in 1 .. Len(s) BY <1>1, <3>2, <3>4
      <4> QED BY <1>6, <1>7, <3>2, <4>1 DEF IsPath
    <3> QED BY <3>3, <3>4
  <2> QED BY <2>1, <2>2, <2>3 DEF IsPath
<1>10. IsHandled(g, t, D)
  <2>1. SUFFICES ASSUME NEW i \in 1 .. Len(t), t[i].known, NEW d \in g[t[i].ref]
                 PROVE  d \in t[i].todo \/ d \in D \/ (i < Len(t) /\ d = t[i + 1].ref)
    BY DEF IsHandled
  <2>2. CASE i = Len(s) + 1 BY <1>4, <2>1, <2>2
  <2>3. CASE i = Len(s)
    <3>1. d \in s[i].todo \/ d \in D BY <1>1, <1>6, <2>1, <2>3 DEF IsHandled
    <3>2. t[i].todo = s[i].todo \ {f.ref} BY <1>3, <1>4, <2>3
    <3> QED BY <1>1, <1>4, <2>3, <3>1, <3>2
  <2>4. CASE i \in 1 .. Len(s) /\ i # Len(s)
    <3>1. i < Len(s) /\ i + 1 \in 1 .. Len(s) /\ t[i] = s[i] BY <1>1, <1>5, <2>4
    <3>2. d \in s[i].todo \/ d \in D \/ d = s[i + 1].ref
      BY <2>1, <2>4, <3>1 DEF IsHandled
    <3> QED BY <1>1, <1>6, <3>1, <3>2
  <2> QED BY <1>8, <2>2, <2>3, <2>4
<1>11. OnPath(t) = OnPath(s) \cup {f.ref}
  <2>1. \A i \in 1 .. Len(s) : i \in 1 .. Len(t) BY <1>1
  <2>2. Len(s) + 1 \in 1 .. Len(t) BY <1>1
  <2>3. OnPath(s) \subseteq OnPath(t) BY <1>6, <2>1 DEF OnPath
  <2>4. f.ref \in OnPath(t) BY <1>4, <2>2 DEF OnPath
  <2>5. \A i \in 1 .. Len(t) : t[i].ref \in OnPath(s) \cup {f.ref} BY <1>4, <1>6, <1>8 DEF OnPath
  <2>6. OnPath(t) \subseteq OnPath(s) \cup {f.ref} BY <2>5 DEF OnPath
  <2> QED BY <2>3, <2>4, <2>6
<1> QED BY <1>9, <1>10, <1>11

(* The top frame gets its dependencies. *)
LEMMA KnowStep ==
  ASSUME NEW g, NEW D, NEW s \in Seq(Frame), s # <<>>, NEW t \in Seq(Frame), NEW f \in Frame,
         IsPath(g, s, D), IsHandled(g, s, D), Retopped(s, t, f),
         f.ref = s[Len(s)].ref, f.known, f.todo = g[f.ref]
  PROVE  IsPath(g, t, D) /\ IsHandled(g, t, D) /\ OnPath(t) = OnPath(s)
<1>1. Len(s) \in Nat \ {0} /\ Len(t) = Len(s) /\ t[Len(s)] = f BY EmptySeq DEF Retopped
<1>2. \A i \in 1 .. Len(s) : i < Len(s) => t[i] = s[i] BY DEF Retopped
<1>3. \A i \in 1 .. Len(s) : t[i].ref = s[i].ref BY <1>1, <1>2
<1>4. IsPath(g, t, D)
  <2>1. \A i, j \in 1 .. Len(t) : t[i].ref = t[j].ref => i = j BY <1>1, <1>3 DEF IsPath
  <2>2. \A i \in 1 .. Len(t) : t[i].ref \notin D /\ t[i].todo \subseteq g[t[i].ref]
    BY <1>1, <1>2, <1>3 DEF IsPath
  <2>3. \A i \in 1 .. Len(t) : i < Len(t) => t[i].known /\ t[i + 1].ref \in g[t[i].ref]
    <3>1. SUFFICES ASSUME NEW i \in 1 .. Len(t), i < Len(t)
                   PROVE  t[i].known /\ t[i + 1].ref \in g[t[i].ref]
      OBVIOUS
    <3>2. i + 1 \in 1 .. Len(s) BY <1>1, <3>1
    <3> QED BY <1>1, <1>2, <1>3, <3>1, <3>2 DEF IsPath
  <2> QED BY <2>1, <2>2, <2>3 DEF IsPath
<1>5. IsHandled(g, t, D)
  <2>1. SUFFICES ASSUME NEW i \in 1 .. Len(t), t[i].known, NEW d \in g[t[i].ref]
                 PROVE  d \in t[i].todo \/ d \in D \/ (i < Len(t) /\ d = t[i + 1].ref)
    BY DEF IsHandled
  <2>2. CASE i < Len(s)
    <3>1. i + 1 \in 1 .. Len(s) BY <1>1, <2>1, <2>2
    <3> QED BY <1>1, <1>2, <1>3, <2>1, <2>2, <3>1 DEF IsHandled
  <2>3. CASE i = Len(s) BY <1>1, <2>1, <2>3
  <2> QED BY <1>1, <2>2, <2>3
<1> QED BY <1>1, <1>3, <1>4, <1>5 DEF OnPath

(* The top frame has nothing left to visit. *)
TopDone(s) == s[Len(s)].known /\ s[Len(s)].todo = {}

(* The top frame is done: everything it depends on is finished, and so is it. *)
LEMMA PopStep ==
  ASSUME NEW g, NEW D, NEW s \in Seq(Frame), s # <<>>, NEW t \in Seq(Frame),
         IsPath(g, s, D), IsHandled(g, s, D), TopDone(s), Popped(s, t),
         NEW E, E = D \cup {s[Len(s)].ref}
  PROVE  /\ g[s[Len(s)].ref] \subseteq D /\ IsPath(g, t, E) /\ IsHandled(g, t, E)
<1> DEFINE r == s[Len(s)].ref
<1>1. Len(s) \in Nat \ {0} /\ Len(t) = Len(s) - 1 BY EmptySeq DEF Popped
<1>2. \A i \in 1 .. Len(t) : i \in 1 .. Len(s) /\ i < Len(s) /\ t[i] = s[i] BY <1>1 DEF Popped
<1>3. Len(s) \in 1 .. Len(s) BY <1>1
<1>4. g[r] \subseteq D BY <1>1, <1>3 DEF IsHandled, TopDone
<1>5. IsPath(g, t, E)
  <2>1. \A i, j \in 1 .. Len(t) : t[i].ref = t[j].ref => i = j BY <1>2 DEF IsPath
  <2>2. \A i \in 1 .. Len(t) : t[i].ref \notin D /\ t[i].todo \subseteq g[t[i].ref]
    BY <1>2 DEF IsPath
  <2>3. \A i \in 1 .. Len(t) : t[i].ref # r BY <1>1, <1>2, <1>3 DEF IsPath
  <2>4. \A i \in 1 .. Len(t) : i < Len(t) => t[i].known /\ t[i + 1].ref \in g[t[i].ref]
    <3>1. SUFFICES ASSUME NEW i \in 1 .. Len(t), i < Len(t)
                   PROVE  t[i].known /\ t[i + 1].ref \in g[t[i].ref]
      OBVIOUS
    <3>2. i + 1 \in 1 .. Len(t) BY <1>1, <3>1
    <3> QED BY <1>2, <3>1, <3>2 DEF IsPath
  <2> QED BY <2>1, <2>2, <2>3, <2>4 DEF IsPath
<1>6. IsHandled(g, t, E)
  <2>1. SUFFICES ASSUME NEW i \in 1 .. Len(t), t[i].known, NEW d \in g[t[i].ref]
                 PROVE  \/ d \in t[i].todo \/ d \in D \/ d = r
                        \/ i < Len(t) /\ d = t[i + 1].ref
    BY DEF IsHandled
  <2>2. d \in s[i].todo \/ d \in D \/ d = s[i + 1].ref BY <1>2, <2>1 DEF IsHandled
  <2>3. CASE i = Len(t)
    <3>1. i + 1 = Len(s) BY <1>1, <2>3
    <3> QED BY <1>2, <2>2, <3>1
  <2>4. CASE i # Len(t)
    <3>1. i < Len(t) /\ i + 1 \in 1 .. Len(t) BY <1>1, <2>1, <2>4
    <3> QED BY <1>2, <2>1, <2>2, <3>1
  <2> QED BY <2>3, <2>4
<1> QED BY <1>4, <1>5, <1>6

(* It leaves the path then. *)
LEMMA PopPath ==
  ASSUME NEW s \in Seq(Frame), s # <<>>, NEW t \in Seq(Frame), Popped(s, t)
  PROVE  OnPath(t) \subseteq OnPath(s) /\ \A q \in OnPath(s) : q \in OnPath(t) \/ q = s[Len(s)].ref
<1>1. Len(s) \in Nat \ {0} /\ Len(t) = Len(s) - 1 BY EmptySeq DEF Popped
<1>2. \A i \in 1 .. Len(t) : i \in 1 .. Len(s) /\ t[i] = s[i] BY <1>1 DEF Popped
<1>3. \A i \in 1 .. Len(s) : i \in 1 .. Len(t) \/ i = Len(s) BY <1>1
<1>4. OnPath(t) \subseteq OnPath(s) BY <1>2 DEF OnPath
<1>5. \A q \in OnPath(s) : q \in OnPath(t) \/ q = s[Len(s)].ref BY <1>2, <1>3 DEF OnPath
<1> QED BY <1>4, <1>5

(* Whoever is met again on the path is on a cycle. *)
LEMMA CycleFound ==
  ASSUME NEW g, NEW D, NEW s \in Seq(Frame), s # <<>>, IsPath(g, s, D),
         NEW p \in g[s[Len(s)].ref], p \in OnPath(s)
  PROVE  \E T \in SUBSET OnPath(s) : T # {} /\ \A q \in T : g[q] \cap T # {}
<1>1. Len(s) \in Nat \ {0} BY EmptySeq
<1>2. PICK i \in 1 .. Len(s) : p = s[i].ref BY DEF OnPath
<1> DEFINE T == {s[j].ref : j \in i .. Len(s)}
<1>3. \A j \in i .. Len(s) : j \in 1 .. Len(s) BY <1>1, <1>2
<1>4. T \subseteq OnPath(s) BY <1>3 DEF OnPath
<1>5. p \in T BY <1>1, <1>2
<1>6. ASSUME NEW j \in i .. Len(s) PROVE g[s[j].ref] \cap T # {}
  <2>1. CASE j = Len(s) BY <1>5, <2>1
  <2>2. CASE j # Len(s)
    <3>1. j < Len(s) /\ j \in 1 .. Len(s) /\ j + 1 \in i .. Len(s) BY <1>1, <1>2, <2>2
    <3>2. s[j + 1].ref \in g[s[j].ref] BY <3>1 DEF IsPath
    <3> QED BY <3>1, <3>2
  <2> QED BY <2>1, <2>2
<1>7. \A q \in T : g[q] \cap T # {} BY <1>6
<1> QED BY <1>4, <1>5, <1>7

-----------------------------------------------------------------------------
(* The inductive invariant *)

(* The packages the current walk has finished. *)
Done == IF phase = "order" THEN Range(ordered) ELSE visited

PhaseInv ==
  /\ phase = "roots" =>
       stack = <<>> /\ next = 0 /\ visited = {} /\ versions = [n \in Name |-> None] /\ outcome # "refused"
  /\ phase # "order" => ordered = <<>> /\ outcome # "resolved"
  /\ OrderNeverRefuses

WalkInv == IsPath(deps, stack, Done) /\ IsHandled(deps, stack, Done)

RootInv == \A i \in 1 .. next : roots[i] \in Done \cup OnPath(stack)

(* A walk meets what the roots need and nothing else. *)
NeedInv == visited \cup OnPath(stack) \subseteq Needed

(* The version on record of a name is needed, and is that of the packages met. *)
VersionInv ==
  /\ \A n \in Name : versions[n] # None => versions[n] \in Needed /\ NameOf[versions[n]] = n
  /\ \A p \in visited \cup OnPath(stack) : versions[NameOf[p]] = p

FinishedInv == Promise!Closed(visited) /\ Promise!Acyclic(visited)

Sorted(o) == \A i \in 1 .. Len(o) : \A d \in deps[o[i]] : \E j \in 1 .. i - 1 : o[j] = d

OrderInv ==
  phase = "order" =>
    /\ visited = Needed /\ AllKnown(stack)
    /\ Range(ordered) \subseteq visited /\ IsInjective(ordered) /\ Sorted(ordered)

Inv ==
  /\ TypeOK /\ PhaseInv
  /\ Working => WalkInv /\ RootInv /\ NeedInv /\ VersionInv /\ FinishedInv /\ OrderInv

-----------------------------------------------------------------------------
(* Facts about the definitions *)

(* Resolution and Resolver take Range and IsInjective from the same module. *)
LEMMA SameFunctions ==
  \A f : Promise!Range(f) = Range(f) /\ Promise!IsInjective(f) = IsInjective(f)
BY DEF Promise!Range, Range, Promise!IsInjective, IsInjective

(* Needed, with the definitions of Resolution opened. *)
LEMMA NeededIs ==
  Needed = {p \in Package : \A S \in SUBSET Package :
              Promise!Closed(S) /\ Range(roots) \subseteq S => p \in S}
BY SameFunctions DEF Needed, Promise!Needed

(* What the roots need is closed and the least such set. *)
LEMMA NeededFacts ==
  ASSUME TypeOK
  PROVE  /\ Needed \subseteq Package /\ Promise!Closed(Needed) /\ Range(roots) \subseteq Needed
         /\ \A S \in SUBSET Package : Promise!Closed(S) /\ Range(roots) \subseteq S => Needed \subseteq S
<1>1. deps \in [Package -> SUBSET Package] BY DEF TypeOK
<1>2. Needed \subseteq Package BY NeededIs
<1>3. Promise!Closed(Needed)
  <2>1. SUFFICES ASSUME NEW p \in Needed, NEW d \in deps[p] PROVE d \in Needed
    BY DEF Promise!Closed
  <2>2. d \in Package BY <1>1, <1>2, <2>1
  <2>3. ASSUME NEW S \in SUBSET Package, Promise!Closed(S), Range(roots) \subseteq S PROVE d \in S
    <3>1. p \in S BY <2>1, <2>3, NeededIs
    <3> QED BY <2>1, <2>3, <3>1 DEF Promise!Closed
  <2> QED BY <2>2, <2>3, NeededIs
<1>4. Range(roots) \subseteq Needed
  <2>1. roots \in [1 .. Len(roots) -> Package] BY LenProperties DEF TypeOK
  <2>2. Range(roots) \subseteq Package BY <2>1 DEF Range
  <2> QED BY <2>2, NeededIs
<1>5. \A S \in SUBSET Package : Promise!Closed(S) /\ Range(roots) \subseteq S => Needed \subseteq S
  BY NeededIs
<1> QED BY <1>2, <1>3, <1>4, <1>5

(* The frames, seen as a set, in both ways of writing it. *)
LEMMA VisitingIsOnPath == ASSUME TypeOK PROVE Visiting = OnPath(stack)
<1>1. DOMAIN stack = 1 .. Len(stack) BY LenProperties DEF TypeOK
<1> QED BY <1>1 DEF Visiting, OnPath

(* The top frame, while there is one. *)
LEMMA TopFacts ==
  ASSUME TypeOK, stack # <<>>
  PROVE  Top \in Frame /\ Top = stack[Len(stack)] /\ Len(stack) \in 1 .. Len(stack)
<1>1. Len(stack) \in Nat \ {0} BY EmptySeq DEF TypeOK
<1>2. Len(stack) \in 1 .. Len(stack) BY <1>1
<1>3. stack[Len(stack)] \in Frame BY <1>2, ElementOfSeq DEF TypeOK
<1> QED BY <1>2, <1>3 DEF Top

(* An unchanged graph with unchanged roots needs the same packages. *)
LEMMA NeededStays ==
  ASSUME deps' = deps, roots' = roots
  PROVE  Needed' = Needed /\ Promise!OneVersion(Needed)' = Promise!OneVersion(Needed)
         /\ Promise!Acyclic(Needed)' = Promise!Acyclic(Needed)
BY DEF Needed, Promise!Needed, Promise!Closed, Promise!OneVersion, Promise!Acyclic

(* A finished package whose dependencies are all finished closes no cycle. *)
LEMMA FinishedGrows ==
  ASSUME NEW V, NEW p, p \notin V, deps[p] \subseteq V, Promise!Closed(V), Promise!Acyclic(V)
  PROVE  Promise!Closed(V \cup {p}) /\ Promise!Acyclic(V \cup {p})
<1>1. Promise!Closed(V \cup {p}) BY DEF Promise!Closed
<1>2. Promise!Acyclic(V \cup {p})
  <2>1. SUFFICES ASSUME NEW T \in SUBSET (V \cup {p}), T # {} PROVE \E q \in T : deps[q] \cap T = {}
    BY DEF Promise!Acyclic
  <2>2. CASE T \subseteq {p} BY <2>1, <2>2
  <2>3. CASE ~(T \subseteq {p})
    <3>1. T \ {p} \in SUBSET V /\ T \ {p} # {} BY <2>3
    <3>2. PICK q \in T \ {p} : deps[q] \cap (T \ {p}) = {} BY <3>1 DEF Promise!Acyclic
    <3>3. deps[q] \subseteq V BY <3>1, <3>2 DEF Promise!Closed
    <3> QED BY <3>2, <3>3
  <2> QED BY <2>2, <2>3
<1> QED BY <1>1, <1>2

-----------------------------------------------------------------------------
(* Init and the ends *)

LEMMA InitInv == Init => Inv
<1> SUFFICES ASSUME Init PROVE Inv OBVIOUS
<1>1. stack = <<>> /\ Len(stack) = 0 /\ 1 .. Len(stack) = {} /\ 1 .. next = {} BY DEF Init
<1>2. TypeOK
  <2>1. stack \in Seq(Frame) /\ roots \in Seq(Package) /\ ordered \in Seq(Package) BY DEF Init
  <2>2. next \in 0 .. Len(roots) BY DEF Init
  <2>3. Len(roots) <= Len(RootName)
    <3>1. Len(RootName) \in Nat BY RootAssumption, LenProperties
    <3> QED BY <3>1 DEF Init
  <2> QED BY <2>1, <2>2, <2>3 DEF Init, TypeOK
<1>3. PhaseInv BY DEF Init, PhaseInv, OrderNeverRefuses
<1>4. WalkInv BY <1>1 DEF WalkInv, IsPath, IsHandled
<1>5. RootInv BY <1>1 DEF RootInv
<1>6. OnPath(stack) = {} /\ visited = {} BY <1>1 DEF OnPath, Init
<1>7. NeedInv BY <1>6 DEF NeedInv
<1>8. VersionInv BY <1>6 DEF VersionInv, Init
<1>9. FinishedInv BY <1>6 DEF FinishedInv, Promise!Closed, Promise!Acyclic
<1>10. OrderInv BY DEF OrderInv, Init
<1> QED BY <1>2, <1>3, <1>4, <1>5, <1>7, <1>8, <1>9, <1>10 DEF Inv

(* After the answer nothing about the walk matters. *)
LEMMA Ended == ASSUME TypeOK', PhaseInv', outcome' # "working" PROVE Inv'
BY DEF Inv, Working

(* Every step out of a working state, type by type *)
LEMMA WithoutType ==
  ASSUME TypeOK, stack # <<>>, NEW p
  PROVE  /\ Without(p) \in Seq(Frame)
         /\ Retopped(stack, Without(p), [Top EXCEPT !.todo = @ \ {p}])
         /\ [Top EXCEPT !.todo = @ \ {p}] \in Frame
<1>1. [Top EXCEPT !.todo = @ \ {p}] \in Frame BY TopFacts DEF Frame
<1>2. stack \in Seq(Frame) BY DEF TypeOK
<1> QED BY <1>1, <1>2, Retopping DEF Without, Below

LEMMA FramesType ==
  ASSUME TypeOK, NEW p \in Package
  PROVE  /\ Asking(p) \in Frame /\ Walking(p) \in Frame
         /\ Asking(p).ref = p /\ Walking(p).ref = p
         /\ ~Asking(p).known /\ Asking(p).todo = {} /\ Walking(p).known /\ Walking(p).todo = deps[p]
BY DEF TypeOK, Asking, Walking, Frame

(* A dependency yet to visit is a package that the roots need. *)
LEMMA TodoNeeded ==
  ASSUME TypeOK, WalkInv, NeedInv, stack # <<>>, NEW p \in Top.todo
  PROVE  p \in Package /\ p \in Needed /\ p \in deps[Top.ref] /\ Top.ref \in OnPath(stack)
<1>1. Top.ref \in OnPath(stack) BY TopFacts DEF OnPath
<1>2. p \in deps[Top.ref] BY TopFacts DEF WalkInv, IsPath
<1>3. Top.ref \in Needed BY <1>1 DEF NeedInv
<1>4. p \in Needed BY <1>2, <1>3, NeededFacts DEF Promise!Closed
<1> QED BY <1>1, <1>2, <1>4, NeededFacts

(* A root yet to visit is needed. *)
LEMMA RootNeeded ==
  ASSUME TypeOK, next < Len(roots)
  PROVE  next + 1 \in 1 .. Len(roots) /\ roots[next + 1] \in Package /\ roots[next + 1] \in Needed
<1>1. Len(roots) \in Nat /\ DOMAIN roots = 1 .. Len(roots) BY LenProperties DEF TypeOK
<1>2. next + 1 \in 1 .. Len(roots) BY <1>1 DEF TypeOK
<1>3. roots[next + 1] \in Range(roots) BY <1>1, <1>2 DEF Range
<1> QED BY <1>2, <1>3, NeededFacts

-----------------------------------------------------------------------------
(* The versions on record, when a walk meets p *)
LEMMA VersionStep ==
  ASSUME TypeOK, VersionInv, NEW p \in Package, p \in Needed, deps' = deps, roots' = roots,
         versions[NameOf[p]] \in {None, p}, versions' = [versions EXCEPT ![NameOf[p]] = p],
         visited' = visited, OnPath(stack') \subseteq OnPath(stack) \cup {p},
         visited \cup OnPath(stack) \subseteq Needed
  PROVE  VersionInv'
<1>1. Needed' = Needed /\ Needed \subseteq Package BY NeededStays, NeededFacts
<1>2. NameOf[p] \in Name BY DEF Name
<1>3. versions'[NameOf[p]] = p /\ \A n \in Name : n # NameOf[p] => versions'[n] = versions[n]
  BY <1>2 DEF TypeOK
<1>4. \A n \in Name : versions'[n] # None => versions'[n] \in Needed /\ NameOf[versions'[n]] = n
  BY <1>3 DEF VersionInv
<1>5. \A q \in visited \cup OnPath(stack) : versions'[NameOf[q]] = q
  <2>1. SUFFICES ASSUME NEW q \in visited \cup OnPath(stack) PROVE versions'[NameOf[q]] = q
    OBVIOUS
  <2>2. q \in Package /\ q # None /\ NameOf[q] \in Name BY <1>1, <2>1, NoneAssumption DEF Name
  <2>3. versions[NameOf[q]] = q BY DEF VersionInv
  <2>4. CASE NameOf[q] = NameOf[p] BY <1>3, <2>2, <2>3, <2>4
  <2>5. CASE NameOf[q] # NameOf[p] BY <1>3, <2>2, <2>3, <2>5
  <2> QED BY <2>4, <2>5
<1>6. \A q \in visited' \cup OnPath(stack') : versions'[NameOf[q]] = q BY <1>3, <1>5
<1> QED BY <1>1, <1>4, <1>6 DEF VersionInv, OnPath

-----------------------------------------------------------------------------
(* The first walk *)

LEMMA ResolveRootInv == ASSUME Inv, ResolveRoot PROVE Inv'
<1> USE DEF ResolveRoot
<1>1. roots \in Seq(Package) /\ Len(roots) \in Nat /\ Len(RootName) \in Nat
  BY RootAssumption, LenProperties DEF Inv, TypeOK
<1>2. PICK p \in Package : roots' = Append(roots, p) OBVIOUS
<1>3. roots' \in Seq(Package) /\ Len(roots') = Len(roots) + 1 BY <1>1, <1>2
<1>4. stack = <<>> /\ next = 0 /\ visited = {} /\ versions = [n \in Name |-> None]
  BY DEF Inv, PhaseInv
<1>5. TypeOK' BY <1>1, <1>3, <1>4 DEF Inv, TypeOK
<1>6. PhaseInv' BY <1>4 DEF Inv, PhaseInv, OrderNeverRefuses
<1>7. 1 .. Len(stack) = {} /\ 1 .. next = {} BY <1>4
<1>8. WalkInv' BY <1>7 DEF WalkInv, IsPath, IsHandled
<1>9. RootInv' BY <1>7 DEF RootInv
<1>10. OnPath(stack') = {} BY <1>7 DEF OnPath
<1>11. NeedInv' BY <1>4, <1>10 DEF NeedInv
<1>12. VersionInv' BY <1>4, <1>10 DEF VersionInv
<1>13. FinishedInv' BY <1>4 DEF FinishedInv, Promise!Closed, Promise!Acyclic
<1>14. OrderInv' BY DEF OrderInv
<1> QED BY <1>5, <1>6, <1>8, <1>9, <1>11, <1>12, <1>13, <1>14 DEF Inv

LEMMA RootUnavailableInv == ASSUME Inv, RootUnavailable PROVE Inv'
<1>1. TypeOK' BY DEF Inv, TypeOK, RootUnavailable
<1>2. PhaseInv' BY DEF Inv, PhaseInv, OrderNeverRefuses, RootUnavailable
<1> QED BY <1>1, <1>2, Ended DEF RootUnavailable

(* A step that changes neither what was met nor what is finished. *)
LEMMA WalkUnchanged ==
  ASSUME Inv, Working, TypeOK', PhaseInv', UNCHANGED <<deps, roots, next, stack, versions, visited, ordered>>,
         phase # "order", phase' # "order"
  PROVE  Inv'
<1>1. Needed' = Needed BY NeededStays
<1>2. Done' = Done BY DEF Done
<1>3. WalkInv' BY <1>2 DEF Inv, WalkInv, IsPath, IsHandled
<1>4. RootInv' BY <1>2 DEF Inv, RootInv, OnPath
<1>5. NeedInv' BY <1>1 DEF Inv, NeedInv, OnPath
<1>6. VersionInv' BY <1>1 DEF Inv, VersionInv, OnPath
<1>7. FinishedInv' BY DEF Inv, FinishedInv, Promise!Closed, Promise!Acyclic
<1>8. OrderInv' BY DEF OrderInv
<1> QED BY <1>3, <1>4, <1>5, <1>6, <1>7, <1>8 DEF Inv

LEMMA StartVisitsInv == ASSUME Inv, StartVisits PROVE Inv'
<1>1. TypeOK' BY DEF Inv, TypeOK, StartVisits
<1>2. PhaseInv' BY DEF Inv, PhaseInv, OrderNeverRefuses, StartVisits, Working
<1> QED BY <1>1, <1>2, WalkUnchanged DEF StartVisits

LEMMA RetryInv == ASSUME Inv, Retry PROVE Inv'
<1>1. TypeOK' BY DEF Inv, TypeOK, Retry
<1>2. PhaseInv' BY DEF Inv, PhaseInv, OrderNeverRefuses, Retry
<1> QED BY <1>1, <1>2, WalkUnchanged DEF Retry

LEMMA MetadataFailsInv == ASSUME Inv, MetadataFails PROVE Inv'
<1>1. TypeOK' BY DEF Inv, TypeOK, MetadataFails
<1>2. PhaseInv' BY DEF Inv, PhaseInv, OrderNeverRefuses, MetadataFails
<1> QED BY <1>1, <1>2, Ended DEF MetadataFails

(* What a step of the first walk leaves to be shown. *)
LEMMA FirstWalkStep ==
  ASSUME Inv, Working, phase = "visit", UNCHANGED <<deps, roots, phase, visited, ordered, outcome>>,
         TypeOK', VersionInv',
         IsPath(deps, stack', visited), IsHandled(deps, stack', visited), OnPath(stack') \subseteq Needed,
         \A i \in 1 .. next' : roots[i] \in visited \cup OnPath(stack')
  PROVE  Inv'
<1>1. Needed' = Needed BY NeededStays
<1>2. Done' = visited BY DEF Done
<1>3. PhaseInv' BY DEF Inv, PhaseInv, OrderNeverRefuses
<1>4. WalkInv' BY <1>2 DEF WalkInv, IsPath, IsHandled
<1>5. RootInv' BY <1>2 DEF RootInv, OnPath
<1>6. NeedInv' BY <1>1 DEF Inv, NeedInv, OnPath
<1>7. FinishedInv' BY DEF Inv, FinishedInv, Promise!Closed, Promise!Acyclic
<1>8. OrderInv' BY DEF OrderInv
<1> QED BY <1>3, <1>4, <1>5, <1>6, <1>7, <1>8 DEF Inv

LEMMA VisitRootInv == ASSUME Inv, VisitRoot PROVE Inv'
<1> DEFINE p == roots[next + 1]
<1>0. /\ Working /\ phase = "visit" /\ stack = <<>> /\ next < Len(roots) /\ next' = next + 1
      /\ Visit(p, stack) /\ UNCHANGED <<deps, roots, phase, visited, ordered, failures>>
  BY DEF VisitRoot
<1>1. TypeOK /\ PhaseInv /\ Working /\ WalkInv /\ RootInv /\ NeedInv /\ VersionInv BY <1>0 DEF Inv
<1>2. next + 1 \in 1 .. Len(roots) /\ p \in Package /\ p \in Needed BY <1>0, <1>1, RootNeeded
<1>3. Len(stack) = 0 /\ OnPath(stack) = {} /\ Visiting = {}
  <2>1. Len(stack) = 0 BY <1>0, EmptySeq
  <2> QED BY <1>1, <2>1, VisitingIsOnPath DEF OnPath
<1>4. Done = visited BY <1>0 DEF Done
<1> HIDE DEF p
<1>5. Visit(p, stack) BY <1>0
<1>6. NameOf[p] \in Name BY <1>2 DEF Name
<1>7. CASE outcome' = "refused"
  <2>1. stack' = stack BY <1>3, <1>5, <1>7, <1>1 DEF Visit, Working
  <2>2. versions' \in [Name -> Package \cup {None}] BY <1>1, <1>2, <1>5, <1>6 DEF Visit, TypeOK
  <2>3. TypeOK' BY <1>0, <1>1, <1>2, <1>7, <2>1, <2>2 DEF TypeOK
  <2>4. PhaseInv' BY <1>0, <1>1, <1>7 DEF PhaseInv, OrderNeverRefuses
  <2> QED BY <1>7, <2>3, <2>4, Ended
<1>8. CASE outcome' # "refused"
  <2>1. /\ versions[NameOf[p]] \in {None, p} /\ versions' = [versions EXCEPT ![NameOf[p]] = p]
        /\ outcome' = outcome
        /\ \/ p \in visited /\ stack' = stack
           \/ p \notin visited /\ stack' = Append(stack, Asking(p))
    BY <1>3, <1>5, <1>8 DEF Visit
  <2>2. versions' \in [Name -> Package \cup {None}] BY <1>1, <1>2, <1>6, <2>1 DEF TypeOK
  <2>3. \A i \in 1 .. next + 1 : i \in 1 .. next \/ i = next + 1 BY <1>1 DEF TypeOK
  <2>4. next' \in 0 .. Len(roots) BY <1>0, <1>2 DEF TypeOK
  <2>5. CASE p \in visited /\ stack' = stack
    <3>1. TypeOK' BY <1>0, <1>1, <2>1, <2>2, <2>4, <2>5 DEF TypeOK
    <3>2. VersionInv' BY <1>0, <1>1, <1>2, <1>3, <2>1, <2>5, VersionStep DEF NeedInv
    <3>3. IsPath(deps, stack', visited) /\ IsHandled(deps, stack', visited)
      BY <1>0, <1>1, <1>4, <2>5 DEF WalkInv
    <3>4. \A i \in 1 .. next' : roots[i] \in visited \cup OnPath(stack')
      BY <1>0, <1>1, <1>3, <1>4, <2>3, <2>5 DEF RootInv, p
    <3> QED BY <1>0, <1>1, <1>3, <2>1, <2>5, <3>1, <3>2, <3>3, <3>4, FirstWalkStep
  <2>6. CASE p \notin visited /\ stack' = Append(stack, Asking(p))
    <3>1. /\ Asking(p) \in Frame /\ Asking(p).ref = p
          /\ ~Asking(p).known /\ Asking(p).todo = {}
      BY <1>0, <1>1, <1>2, FramesType
    <3>2. stack' \in Seq(Frame) /\ Pushed(stack, stack', Asking(p))
      BY <1>0, <1>1, <2>6, <3>1, Pushing DEF TypeOK
    <3>3. TypeOK' BY <1>0, <1>1, <2>1, <2>2, <2>4, <3>2 DEF TypeOK
    <3>4. IsPath(deps, stack', visited) /\ IsHandled(deps, stack', visited) /\ OnPath(stack') = {p}
      <4>2. PICK f \in Frame : f = Asking(p) BY <3>1
      <4>3. /\ Len(stack') = 1 /\ stack'[1] = f /\ f.ref = p /\ f.ref \notin visited /\ f.todo \subseteq deps[f.ref]
            /\ f.known => f.todo = deps[f.ref]
        BY <1>3, <2>6, <3>1, <3>2, <4>2 DEF Pushed
      <4>4. IsPath(deps, stack', visited) /\ IsHandled(deps, stack', visited) /\ OnPath(stack') = {f.ref}
        BY <4>3, FirstStep
      <4> QED BY <4>3, <4>4
    <3>5. VersionInv' BY <1>0, <1>1, <1>2, <1>3, <2>1, <3>4, VersionStep DEF NeedInv
    <3>6. \A i \in 1 .. next' : roots[i] \in visited \cup OnPath(stack')
      BY <1>0, <1>1, <1>3, <1>4, <2>3, <3>4 DEF RootInv, p
    <3> QED BY <1>0, <1>1, <1>2, <2>1, <3>3, <3>4, <3>5, <3>6, FirstWalkStep
  <2> QED BY <2>1, <2>5, <2>6
<1> QED BY <1>7, <1>8

LEMMA VisitDependencyInv == ASSUME Inv, VisitDependency PROVE Inv'
<1>0. PICK p \in Package :
        /\ Working /\ phase = "visit" /\ stack # <<>> /\ Top.known /\ p \in Top.todo
        /\ Visit(p, Without(p)) /\ UNCHANGED <<deps, roots, phase, next, visited, ordered, failures>>
  BY DEF VisitDependency, IsFirst
<1>1. TypeOK /\ PhaseInv /\ Working /\ WalkInv /\ RootInv /\ NeedInv /\ VersionInv BY <1>0 DEF Inv
<1>2. p \in Needed /\ p \in deps[Top.ref] BY <1>0, <1>1, TodoNeeded
<1>3. Visiting = OnPath(stack) BY <1>1, VisitingIsOnPath
<1>4. Done = visited BY <1>0 DEF Done
<1>5. NameOf[p] \in Name BY DEF Name
<1>6. /\ Without(p) \in Seq(Frame) /\ Retopped(stack, Without(p), [Top EXCEPT !.todo = @ \ {p}])
  BY <1>0, <1>1, WithoutType
<1>7. stack \in Seq(Frame) /\ Top = stack[Len(stack)] BY <1>1 DEF TypeOK, Top
<1>8. IsPath(deps, stack, visited) /\ IsHandled(deps, stack, visited) BY <1>1, <1>4 DEF WalkInv
<1>9. CASE outcome' = "refused"
  <2>1. stack' = Without(p) /\ versions' \in [Name -> Package \cup {None}]
    BY <1>0, <1>1, <1>5, <1>9 DEF Visit, TypeOK, Working
  <2>2. TypeOK' BY <1>0, <1>1, <1>6, <1>9, <2>1 DEF TypeOK
  <2>3. PhaseInv' BY <1>0, <1>1, <1>9 DEF PhaseInv, OrderNeverRefuses
  <2> QED BY <1>9, <2>2, <2>3, Ended
<1>10. CASE outcome' # "refused"
  <2>1. /\ versions[NameOf[p]] \in {None, p} /\ versions' = [versions EXCEPT ![NameOf[p]] = p]
        /\ outcome' = outcome
        /\ \/ p \in visited /\ stack' = Without(p)
           \/ p \notin visited \cup OnPath(stack) /\ stack' = Append(Without(p), Asking(p))
    BY <1>0, <1>3, <1>10 DEF Visit
  <2>2. versions' \in [Name -> Package \cup {None}] BY <1>1, <1>5, <2>1 DEF TypeOK
  <2>3. visited \cup OnPath(stack) \subseteq Needed BY <1>1 DEF NeedInv
  <2>4. \A j \in 1 .. next' : roots[j] \in visited \cup OnPath(stack)
    BY <1>0, <1>1, <1>4 DEF RootInv
  <2>5. CASE p \in visited /\ stack' = Without(p)
    <3>1. /\ IsPath(deps, stack', visited) /\ IsHandled(deps, stack', visited)
          /\ OnPath(stack') = OnPath(stack)
      BY <1>0, <1>6, <1>7, <1>8, <2>5, SkipStep
    <3>2. TypeOK' BY <1>0, <1>1, <1>6, <2>1, <2>2, <2>5 DEF TypeOK
    <3>3. VersionInv' BY <1>0, <1>1, <1>2, <2>1, <2>3, <3>1, VersionStep
    <3> QED BY <1>0, <2>1, <2>3, <2>4, <3>1, <3>2, <3>3, FirstWalkStep
  <2>6. CASE p \notin visited \cup OnPath(stack) /\ stack' = Append(Without(p), Asking(p))
    <3>1. PICK f \in Frame : f = Asking(p) /\ f.ref = p /\ ~f.known /\ f.todo = {}
      BY <1>1, FramesType
    <3>2. stack' \in Seq(Frame) /\ Pushed(Without(p), stack', f) BY <1>6, <2>6, <3>1, Pushing
    <3>3. /\ IsPath(deps, stack', visited) /\ IsHandled(deps, stack', visited)
          /\ OnPath(stack') = OnPath(stack) \cup {p}
      <4>1. /\ f.ref \in stack[Len(stack)].todo /\ stack[Len(stack)].known
            /\ Retopped(stack, Without(p), [stack[Len(stack)] EXCEPT !.todo = @ \ {f.ref}])
            /\ f.ref \notin visited \cup OnPath(stack) /\ f.todo \subseteq deps[f.ref]
            /\ f.known => f.todo = deps[f.ref]
        BY <1>0, <1>6, <1>7, <2>6, <3>1
      <4>2. /\ IsPath(deps, stack', visited) /\ IsHandled(deps, stack', visited)
            /\ OnPath(stack') = OnPath(stack) \cup {f.ref}
        BY <1>0, <1>6, <1>7, <1>8, <3>2, <4>1, PushStep
      <4> QED BY <3>1, <4>2
    <3>4. TypeOK' BY <1>0, <1>1, <2>1, <2>2, <3>2 DEF TypeOK
    <3>5. VersionInv' BY <1>0, <1>1, <1>2, <2>1, <2>3, <3>3, VersionStep
    <3>6. OnPath(stack') \subseteq Needed BY <1>2, <2>3, <3>3
    <3>7. \A j \in 1 .. next' : roots[j] \in visited \cup OnPath(stack') BY <2>4, <3>3
    <3> QED BY <1>0, <2>1, <3>3, <3>4, <3>5, <3>6, <3>7, FirstWalkStep
  <2> QED BY <2>1, <2>5, <2>6
<1> QED BY <1>9, <1>10

LEMMA MetadataInv == ASSUME Inv, Metadata PROVE Inv'
<1>0. /\ Working /\ phase = "visit" /\ stack # <<>> /\ stack' = Append(Below, Walking(Top.ref))
      /\ failures' = 0 /\ UNCHANGED <<deps, roots, phase, next, versions, visited, ordered, outcome>>
  BY DEF Metadata
<1>1. TypeOK /\ PhaseInv /\ WalkInv /\ RootInv /\ NeedInv /\ VersionInv BY <1>0 DEF Inv
<1>2. Done = visited BY <1>0 DEF Done
<1>3. stack \in Seq(Frame) /\ Top = stack[Len(stack)] /\ Top.ref \in Package
  BY <1>0, <1>1, TopFacts DEF TypeOK, Frame
<1>4. PICK f \in Frame : f = Walking(Top.ref) /\ f.ref = Top.ref /\ f.known /\ f.todo = deps[f.ref]
  BY <1>1, <1>3, FramesType
<1>5. stack' \in Seq(Frame) /\ Retopped(stack, stack', f)
  BY <1>0, <1>3, <1>4, Retopping DEF Below
<1>6. /\ IsPath(deps, stack', visited) /\ IsHandled(deps, stack', visited)
      /\ OnPath(stack') = OnPath(stack)
  <2>1. IsPath(deps, stack, visited) /\ IsHandled(deps, stack, visited) BY <1>1, <1>2 DEF WalkInv
  <2>2. f.ref = stack[Len(stack)].ref /\ f.known /\ f.todo = deps[f.ref] BY <1>3, <1>4
  <2>3. stack # <<>> BY <1>0
  <2> QED BY <1>3, <1>5, <2>1, <2>2, <2>3, KnowStep
<1>7. TypeOK' BY <1>0, <1>1, <1>5 DEF TypeOK
<1>8. VersionInv'
  <2>1. Needed' = Needed BY <1>0, NeededStays
  <2> QED BY <1>0, <1>1, <1>6, <2>1 DEF VersionInv, OnPath
<1>9. OnPath(stack') \subseteq Needed BY <1>1, <1>6 DEF NeedInv
<1>10. \A j \in 1 .. next' : roots[j] \in visited \cup OnPath(stack')
  BY <1>0, <1>1, <1>2, <1>6 DEF RootInv
<1> QED BY <1>0, <1>6, <1>7, <1>8, <1>9, <1>10, FirstWalkStep

LEMMA ReturnInv == ASSUME Inv, Return PROVE Inv'
<1>0. /\ Working /\ phase = "visit" /\ stack # <<>> /\ Top.known /\ Top.todo = {}
      /\ stack' = Below /\ visited' = visited \cup {Top.ref}
      /\ UNCHANGED <<deps, roots, phase, next, versions, ordered, failures, outcome>>
  BY DEF Return
<1>1. TypeOK /\ PhaseInv /\ WalkInv /\ RootInv /\ NeedInv /\ VersionInv /\ FinishedInv
  BY <1>0 DEF Inv
<1>2. Done = visited /\ Done' = visited' BY <1>0 DEF Done
<1>3. stack \in Seq(Frame) /\ Top = stack[Len(stack)] /\ Top.ref \in Package
  BY <1>0, <1>1, TopFacts DEF TypeOK, Frame
<1>4. stack' \in Seq(Frame) /\ Popped(stack, stack') BY <1>0, <1>3, Popping DEF Below
<1>5. IsPath(deps, stack, visited) /\ IsHandled(deps, stack, visited) BY <1>1, <1>2 DEF WalkInv
<1>6. /\ deps[Top.ref] \subseteq visited
      /\ IsPath(deps, stack', visited') /\ IsHandled(deps, stack', visited')
      /\ OnPath(stack) = OnPath(stack') \cup {Top.ref}
  <2>1. stack # <<>> /\ TopDone(stack) BY <1>0, <1>3 DEF TopDone
  <2>2. visited' = visited \cup {stack[Len(stack)].ref} BY <1>0, <1>3
  <2>3. /\ deps[stack[Len(stack)].ref] \subseteq visited
        /\ IsPath(deps, stack', visited') /\ IsHandled(deps, stack', visited')
    BY <1>3, <1>4, <1>5, <2>1, <2>2, PopStep
  <2>4. /\ OnPath(stack') \subseteq OnPath(stack)
        /\ \A q \in OnPath(stack) : q \in OnPath(stack') \/ q = Top.ref
    BY <1>3, <1>4, <2>1, PopPath
  <2>5. Top.ref \in OnPath(stack) BY <1>1, <2>1, TopFacts DEF OnPath
  <2> QED BY <1>3, <2>3, <2>4, <2>5
<1>7. TypeOK' BY <1>0, <1>1, <1>3, <1>4 DEF TypeOK
<1>8. PhaseInv' BY <1>0, <1>1 DEF PhaseInv, OrderNeverRefuses
<1>9. WalkInv' BY <1>0, <1>2, <1>6 DEF WalkInv
<1>10. visited' \cup OnPath(stack') = visited \cup OnPath(stack) BY <1>0, <1>6
<1>11. Needed' = Needed BY <1>0, NeededStays
<1>12. RootInv' BY <1>0, <1>1, <1>2, <1>10 DEF RootInv, OnPath
<1>13. NeedInv' BY <1>1, <1>10, <1>11 DEF NeedInv, OnPath
<1>14. VersionInv' BY <1>0, <1>1, <1>10, <1>11 DEF VersionInv, OnPath
<1>15. FinishedInv'
  <2>1. Top.ref \notin visited BY <1>0, <1>1, <1>3, <1>5, TopFacts DEF IsPath
  <2>2. Promise!Closed(visited \cup {Top.ref}) /\ Promise!Acyclic(visited \cup {Top.ref})
    BY <1>1, <1>6, <2>1, FinishedGrows DEF FinishedInv
  <2> QED BY <1>0, <2>2 DEF FinishedInv, Promise!Closed, Promise!Acyclic
<1>16. OrderInv' BY <1>0 DEF OrderInv
<1> QED BY <1>7, <1>8, <1>9, <1>12, <1>13, <1>14, <1>15, <1>16 DEF Inv

(* Between the walks: what was met is what the roots need. *)
LEMMA FirstWalkComplete ==
  ASSUME Inv, Working, stack = <<>>, next = Len(roots), phase = "visit"
  PROVE  visited = Needed
<1>1. TypeOK /\ RootInv /\ NeedInv /\ FinishedInv /\ Done = visited BY DEF Inv, Done
<1>2. OnPath(stack) = {}
  <2>1. Len(stack) = 0 BY EmptySeq
  <2> QED BY <2>1 DEF OnPath
<1>3. DOMAIN roots = 1 .. Len(roots) BY <1>1, LenProperties DEF TypeOK
<1>4. Range(roots) \subseteq visited BY <1>1, <1>2, <1>3 DEF RootInv, Range
<1>5. Needed \subseteq visited BY <1>1, <1>4, NeededFacts DEF FinishedInv, TypeOK
<1> QED BY <1>1, <1>5 DEF NeedInv

LEMMA StartOrderInv == ASSUME Inv, StartOrder PROVE Inv'
<1>0. /\ Working /\ phase = "visit" /\ stack = <<>> /\ next = Len(roots) /\ phase' = "order" /\ next' = 0
      /\ UNCHANGED <<deps, roots, stack, versions, visited, ordered, failures, outcome>>
  BY DEF StartOrder
<1>1. TypeOK /\ PhaseInv /\ NeedInv /\ VersionInv /\ FinishedInv BY <1>0 DEF Inv
<1>2. Len(stack') = 0 /\ 1 .. Len(stack') = {} /\ 1 .. next' = {}
  <2>1. Len(stack') = 0 BY <1>0, EmptySeq
  <2> QED BY <1>0, <2>1
<1>3. TypeOK'
  <2>1. Len(roots) \in Nat BY <1>1, LenProperties DEF TypeOK
  <2> QED BY <1>0, <1>1, <2>1 DEF TypeOK
<1>4. PhaseInv' BY <1>0, <1>1 DEF PhaseInv, OrderNeverRefuses, Working
<1>5. WalkInv' BY <1>2 DEF WalkInv, IsPath, IsHandled
<1>6. RootInv' BY <1>2 DEF RootInv
<1>7. Needed' = Needed BY <1>0, NeededStays
<1>8. NeedInv' BY <1>0, <1>1, <1>7 DEF NeedInv, OnPath
<1>9. VersionInv' BY <1>0, <1>1, <1>7 DEF VersionInv, OnPath
<1>10. FinishedInv' BY <1>0, <1>1 DEF FinishedInv, Promise!Closed, Promise!Acyclic
<1>11. OrderInv'
  <2>1. visited' = Needed' BY <1>0, <1>7, FirstWalkComplete
  <2>2. ordered' = <<>> BY <1>0, <1>1 DEF PhaseInv
  <2>3. Range(ordered') = {} /\ IsInjective(ordered') BY <2>2 DEF Range, IsInjective
  <2>4. Sorted(ordered)' BY <2>2 DEF Sorted
  <2>5. AllKnown(stack') BY <1>2 DEF AllKnown
  <2> QED BY <2>1, <2>3, <2>4, <2>5 DEF OrderInv
<1> QED BY <1>3, <1>4, <1>5, <1>6, <1>8, <1>9, <1>10, <1>11 DEF Inv

-----------------------------------------------------------------------------
(* The second walk *)

LEMMA AppendFacts ==
  ASSUME NEW S, NEW o \in Seq(S), NEW x \in S
  PROVE  /\ Append(o, x) \in Seq(S) /\ Len(Append(o, x)) = Len(o) + 1 /\ Append(o, x)[Len(o) + 1] = x
         /\ \A i \in 1 .. Len(o) : Append(o, x)[i] = o[i]
         /\ \A q : q \in Range(Append(o, x)) <=> q \in Range(o) \/ q = x
<1> DEFINE a == Append(o, x)
<1>1. Len(o) \in Nat /\ DOMAIN o = 1 .. Len(o) BY LenProperties
<1>2. /\ a \in Seq(S) /\ Len(a) = Len(o) + 1 /\ a[Len(o) + 1] = x
      /\ \A i \in 1 .. Len(o) : a[i] = o[i]
  BY <1>1
<1>3. DOMAIN a = 1 .. Len(a) BY <1>2, LenProperties
<1> HIDE DEF a
<1>4. \A i : i \in 1 .. Len(a) <=> i \in 1 .. Len(o) \/ i = Len(o) + 1 BY <1>1, <1>2
<1>5. \A q \in Range(a) : q \in Range(o) \/ q = x BY <1>1, <1>2, <1>3, <1>4 DEF Range
<1>6. Range(o) \subseteq Range(a) /\ x \in Range(a) BY <1>1, <1>2, <1>3, <1>4 DEF Range
<1> QED BY <1>2, <1>5, <1>6 DEF a

(* What a step of the second walk leaves to be shown. *)
LEMMA SecondWalkStep ==
  ASSUME Inv, Working, phase = "order", UNCHANGED <<deps, roots, phase, versions, visited, outcome>>,
         TypeOK', AllKnown(stack'), OnPath(stack') \subseteq visited,
         IsPath(deps, stack', Range(ordered')), IsHandled(deps, stack', Range(ordered')),
         Range(ordered') \subseteq visited, IsInjective(ordered'), Sorted(ordered'),
         \A i \in 1 .. next' : roots[i] \in Range(ordered') \cup OnPath(stack')
  PROVE  Inv'
<1>1. Needed' = Needed BY NeededStays
<1>2. Done' = Range(ordered') BY DEF Done
<1>3. NeedInv /\ VersionInv /\ FinishedInv /\ OrderInv /\ PhaseInv BY DEF Inv
<1>4. PhaseInv' BY <1>3 DEF PhaseInv, OrderNeverRefuses, Working
<1>5. WalkInv' BY <1>2 DEF WalkInv, IsPath, IsHandled
<1>6. RootInv' BY <1>2 DEF RootInv, OnPath
<1>7. NeedInv' BY <1>1, <1>3 DEF NeedInv, OnPath
<1>8. VersionInv' BY <1>1, <1>3 DEF VersionInv, OnPath
<1>9. FinishedInv' BY <1>3 DEF FinishedInv, Promise!Closed, Promise!Acyclic
<1>10. OrderInv' BY <1>1, <1>3 DEF OrderInv, AllKnown, Sorted
<1> QED BY <1>4, <1>5, <1>6, <1>7, <1>8, <1>9, <1>10 DEF Inv

(* What holds during it *)
LEMMA SecondWalkFacts ==
  ASSUME Inv, Working, phase = "order"
  PROVE  /\ TypeOK /\ visited = Needed /\ Promise!Closed(visited) /\ Promise!Acyclic(visited)
         /\ IsPath(deps, stack, Range(ordered)) /\ IsHandled(deps, stack, Range(ordered))
         /\ AllKnown(stack) /\ OnPath(stack) \subseteq visited /\ Visiting = OnPath(stack)
         /\ Range(ordered) \subseteq visited /\ IsInjective(ordered) /\ Sorted(ordered)
         /\ \A i \in 1 .. next : roots[i] \in Range(ordered) \cup OnPath(stack)
<1>1. TypeOK /\ WalkInv /\ RootInv /\ NeedInv /\ FinishedInv /\ OrderInv BY DEF Inv
<1>2. Done = Range(ordered) BY DEF Done
<1> QED BY <1>1, <1>2, VisitingIsOnPath DEF WalkInv, RootInv, NeedInv, FinishedInv, OrderInv

LEMMA OrderRootInv == ASSUME Inv, OrderRoot PROVE Inv'
<1> DEFINE p == roots[next + 1]
<1>0. /\ Working /\ phase = "order" /\ stack = <<>> /\ next < Len(roots) /\ next' = next + 1
      /\ Order(p, stack) /\ UNCHANGED <<deps, roots, phase, versions, visited, ordered, failures>>
  BY DEF OrderRoot
<1>1. TypeOK /\ visited = Needed BY <1>0, SecondWalkFacts
<1>2. next + 1 \in 1 .. Len(roots) /\ p \in Package /\ p \in visited BY <1>0, <1>1, RootNeeded
<1>3. Len(stack) = 0 /\ OnPath(stack) = {} /\ Visiting = {}
  <2>1. Len(stack) = 0 BY <1>0, EmptySeq
  <2> QED BY <1>1, <2>1, VisitingIsOnPath DEF OnPath
<1> HIDE DEF p
<1>4. /\ outcome' = outcome
      /\ \/ p \in Range(ordered) /\ stack' = stack
         \/ p \notin Range(ordered) /\ stack' = Append(stack, Walking(p))
  BY <1>0, <1>2, <1>3 DEF Order
<1>5. \A i \in 1 .. next + 1 : i \in 1 .. next \/ i = next + 1 BY <1>1 DEF TypeOK
<1>6. next' \in 0 .. Len(roots) BY <1>0, <1>1, <1>2 DEF TypeOK
<1>7. \A i \in 1 .. next : roots[i] \in Range(ordered) BY <1>0, <1>3, SecondWalkFacts
<1>8. CASE p \in Range(ordered) /\ stack' = stack
  <2>1. TypeOK' BY <1>0, <1>1, <1>4, <1>6, <1>8 DEF TypeOK
  <2>2. \A i \in 1 .. next' : roots[i] \in Range(ordered') \cup OnPath(stack')
    BY <1>0, <1>5, <1>7, <1>8 DEF p
  <2>3. Sorted(ordered') BY <1>0, SecondWalkFacts
  <2> QED BY <1>0, <1>4, <1>8, <2>1, <2>2, <2>3, SecondWalkFacts, SecondWalkStep
<1>9. CASE p \notin Range(ordered) /\ stack' = Append(stack, Walking(p))
  <2>1. PICK f \in Frame : f = Walking(p) /\ f.ref = p /\ f.known /\ f.todo = deps[p]
    BY <1>1, <1>2, FramesType
  <2>2. stack' \in Seq(Frame) /\ Len(stack') = 1 /\ stack'[1] = f
    <3>1. stack' \in Seq(Frame) /\ Pushed(stack, stack', f) BY <1>1, <1>9, <2>1, Pushing DEF TypeOK
    <3> QED BY <1>3, <3>1 DEF Pushed
  <2>3. TypeOK' BY <1>0, <1>1, <1>4, <1>6, <2>2 DEF TypeOK
  <2>4. /\ IsPath(deps, stack', Range(ordered)) /\ IsHandled(deps, stack', Range(ordered))
        /\ OnPath(stack') = {f.ref}
    <3>1. f.ref \notin Range(ordered) /\ f.todo \subseteq deps[f.ref] /\ (f.known => f.todo = deps[f.ref])
      BY <1>9, <2>1
    <3> QED BY <2>2, <3>1, FirstStep
  <2>5. AllKnown(stack') BY <2>1, <2>2 DEF AllKnown
  <2>6. \A i \in 1 .. next' : roots[i] \in Range(ordered') \cup OnPath(stack')
    BY <1>0, <1>5, <1>7, <2>1, <2>4 DEF p
  <2>7. OnPath(stack') \subseteq visited BY <1>2, <2>1, <2>4
  <2>8. Sorted(ordered') BY <1>0, SecondWalkFacts
  <2> QED BY <1>0, <1>4, <2>3, <2>4, <2>5, <2>6, <2>7, <2>8, SecondWalkFacts, SecondWalkStep
<1> QED BY <1>4, <1>8, <1>9

LEMMA OrderDependencyInv == ASSUME Inv, OrderDependency PROVE Inv'
<1>0. PICK p \in Package :
        /\ Working /\ phase = "order" /\ stack # <<>> /\ p \in Top.todo
        /\ Order(p, Without(p))
        /\ UNCHANGED <<deps, roots, phase, next, versions, visited, ordered, failures>>
  BY DEF OrderDependency, IsFirst
<1>1. TypeOK /\ WalkInv /\ NeedInv /\ visited = Needed /\ Visiting = OnPath(stack)
  BY <1>0, SecondWalkFacts DEF Inv
<1>2. p \in visited /\ p \in deps[Top.ref] BY <1>0, <1>1, TodoNeeded
<1>3. stack \in Seq(Frame) /\ Top = stack[Len(stack)] BY <1>1 DEF TypeOK, Top
<1>4. IsPath(deps, stack, Range(ordered)) /\ IsHandled(deps, stack, Range(ordered))
  BY <1>0, SecondWalkFacts
<1>5. p \notin OnPath(stack)
  <2>1. SUFFICES ASSUME p \in OnPath(stack) PROVE FALSE OBVIOUS
  <2>2. PICK T \in SUBSET OnPath(stack) : T # {} /\ \A q \in T : deps[q] \cap T # {}
    BY <1>0, <1>2, <1>3, <1>4, <2>1, CycleFound
  <2>3. T \in SUBSET visited /\ Promise!Acyclic(visited) BY <1>0, SecondWalkFacts
  <2> QED BY <2>2, <2>3 DEF Promise!Acyclic
<1>6. /\ outcome' = outcome
      /\ \/ p \in Range(ordered) /\ stack' = Without(p)
         \/ p \notin Range(ordered) /\ stack' = Append(Without(p), Walking(p))
  BY <1>0, <1>1, <1>2, <1>5 DEF Order
<1>7. /\ Without(p) \in Seq(Frame) /\ Retopped(stack, Without(p), [Top EXCEPT !.todo = @ \ {p}])
      /\ [Top EXCEPT !.todo = @ \ {p}] \in Frame
  BY <1>0, <1>1, WithoutType
<1>8. Len(stack) \in 1 .. Len(stack) /\ Len(stack) \in Nat /\ Top \in Frame
  <2>1. Len(stack) \in Nat BY <1>3, LenProperties
  <2> QED BY <1>0, <1>1, <2>1, TopFacts
<1>9. Top.known /\ AllKnown(stack) BY <1>0, <1>3, <1>8, SecondWalkFacts DEF AllKnown
<1>10. AllKnown(Without(p))
  <2>1. [Top EXCEPT !.todo = @ \ {p}].known = Top.known BY <1>8 DEF Frame
  <2>2. \A i \in 1 .. Len(stack) : i < Len(stack) => Without(p)[i] = stack[i] BY <1>7 DEF Retopped
  <2>3. Len(Without(p)) = Len(stack) /\ Without(p)[Len(stack)].known BY <1>7, <1>9, <2>1 DEF Retopped
  <2> QED BY <1>8, <1>9, <2>2, <2>3 DEF AllKnown
<1>11. \A j \in 1 .. next : roots[j] \in Range(ordered) \cup OnPath(stack) BY <1>0, SecondWalkFacts
<1>12. Sorted(ordered') BY <1>0, SecondWalkFacts
<1>13. CASE p \in Range(ordered) /\ stack' = Without(p)
  <2>1. /\ IsPath(deps, stack', Range(ordered)) /\ IsHandled(deps, stack', Range(ordered))
        /\ OnPath(stack') = OnPath(stack)
    BY <1>0, <1>3, <1>4, <1>7, <1>9, <1>13, SkipStep
  <2>2. TypeOK' BY <1>0, <1>1, <1>6, <1>7, <1>13 DEF TypeOK
  <2> QED BY <1>0, <1>6, <1>10, <1>11, <1>12, <1>13, <2>1, <2>2, SecondWalkFacts, SecondWalkStep
<1>14. CASE p \notin Range(ordered) /\ stack' = Append(Without(p), Walking(p))
  <2>1. PICK f \in Frame : f = Walking(p) /\ f.ref = p /\ f.known /\ f.todo = deps[p]
    BY <1>1, FramesType
  <2>2. stack' \in Seq(Frame) /\ Pushed(Without(p), stack', f) BY <1>7, <1>14, <2>1, Pushing
  <2>3. /\ IsPath(deps, stack', Range(ordered)) /\ IsHandled(deps, stack', Range(ordered))
        /\ OnPath(stack') = OnPath(stack) \cup {p}
    <3>1. /\ f.ref \in stack[Len(stack)].todo /\ stack[Len(stack)].known
          /\ Retopped(stack, Without(p), [stack[Len(stack)] EXCEPT !.todo = @ \ {f.ref}])
          /\ f.ref \notin Range(ordered) \cup OnPath(stack) /\ f.todo \subseteq deps[f.ref]
          /\ f.known => f.todo = deps[f.ref]
      BY <1>0, <1>3, <1>5, <1>7, <1>9, <1>14, <2>1
    <3>2. /\ IsPath(deps, stack', Range(ordered)) /\ IsHandled(deps, stack', Range(ordered))
          /\ OnPath(stack') = OnPath(stack) \cup {f.ref}
      BY <1>0, <1>3, <1>4, <1>7, <2>2, <3>1, PushStep
    <3> QED BY <2>1, <3>2
  <2>4. TypeOK' BY <1>0, <1>1, <1>6, <2>2 DEF TypeOK
  <2>5. AllKnown(stack')
    <3>1. Len(Without(p)) \in Nat BY <1>7, LenProperties
    <3> QED BY <1>10, <2>1, <2>2, <3>1 DEF AllKnown, Pushed
  <2>6. OnPath(stack') \subseteq visited BY <1>0, <1>2, <2>3, SecondWalkFacts
  <2>7. \A j \in 1 .. next' : roots[j] \in Range(ordered') \cup OnPath(stack') BY <1>0, <1>11, <2>3
  <2> QED BY <1>0, <1>6, <1>12, <2>3, <2>4, <2>5, <2>6, <2>7, SecondWalkFacts, SecondWalkStep
<1> QED BY <1>6, <1>13, <1>14

LEMMA OrderReturnInv == ASSUME Inv, OrderReturn PROVE Inv'
<1>0. /\ Working /\ phase = "order" /\ stack # <<>> /\ Top.todo = {}
      /\ stack' = Below /\ ordered' = Append(ordered, Top.ref)
      /\ UNCHANGED <<deps, roots, phase, next, versions, visited, failures, outcome>>
  BY DEF OrderReturn
<1>1. /\ TypeOK /\ IsPath(deps, stack, Range(ordered)) /\ IsHandled(deps, stack, Range(ordered))
      /\ AllKnown(stack) /\ OnPath(stack) \subseteq visited
      /\ Range(ordered) \subseteq visited /\ IsInjective(ordered) /\ Sorted(ordered)
      /\ \A i \in 1 .. next : roots[i] \in Range(ordered) \cup OnPath(stack)
  BY <1>0, SecondWalkFacts
<1>2. stack \in Seq(Frame) /\ Top = stack[Len(stack)] /\ Top.ref \in Package
  BY <1>0, <1>1, TopFacts DEF TypeOK, Frame
<1>3. Top.ref \in OnPath(stack) /\ Top.ref \notin Range(ordered)
  BY <1>0, <1>1, TopFacts DEF OnPath, IsPath
<1>4. stack' \in Seq(Frame) /\ Popped(stack, stack') BY <1>0, <1>2, Popping DEF Below
<1>5. /\ ordered' \in Seq(Package) /\ Len(ordered') = Len(ordered) + 1
      /\ ordered'[Len(ordered) + 1] = Top.ref
      /\ \A i \in 1 .. Len(ordered) : ordered'[i] = ordered[i]
      /\ \A q : q \in Range(ordered') <=> q \in Range(ordered) \/ q = Top.ref
  <2>1. ordered \in Seq(Package) BY <1>1 DEF TypeOK
  <2> QED BY <1>0, <1>2, <2>1, AppendFacts
<1>6. Len(ordered) \in Nat /\ DOMAIN ordered = 1 .. Len(ordered) /\ DOMAIN ordered' = 1 .. Len(ordered')
  BY <1>1, <1>5, LenProperties DEF TypeOK
<1>7. /\ deps[Top.ref] \subseteq Range(ordered)
      /\ IsPath(deps, stack', Range(ordered')) /\ IsHandled(deps, stack', Range(ordered'))
  <2>1. stack # <<>> /\ TopDone(stack) BY <1>0, <1>1, <1>2, TopFacts DEF TopDone, AllKnown
  <2>2. Range(ordered') = Range(ordered) \cup {stack[Len(stack)].ref} BY <1>2, <1>5
  <2> QED BY <1>1, <1>2, <1>4, <2>1, <2>2, PopStep
<1>8. /\ OnPath(stack') \subseteq OnPath(stack)
      /\ \A q \in OnPath(stack) : q \in OnPath(stack') \/ q = Top.ref
  BY <1>0, <1>2, <1>4, PopPath
<1>9. TypeOK' BY <1>0, <1>1, <1>4, <1>5 DEF TypeOK
<1>10. AllKnown(stack')
  <2>1. Len(stack) \in Nat \ {0} BY <1>0, <1>2, EmptySeq
  <2>2. \A i \in 1 .. Len(stack') : i \in 1 .. Len(stack) BY <1>4, <2>1 DEF Popped
  <2> QED BY <1>1, <1>4, <2>2 DEF AllKnown, Popped
<1>11. \A i : i \in 1 .. Len(ordered') <=> i \in 1 .. Len(ordered) \/ i = Len(ordered) + 1
  BY <1>5, <1>6
<1>12. \A i \in 1 .. Len(ordered) : ordered[i] # Top.ref BY <1>3, <1>6 DEF Range
<1>13. IsInjective(ordered') BY <1>1, <1>5, <1>6, <1>11, <1>12 DEF IsInjective
<1>14. Sorted(ordered')
  <2>1. SUFFICES ASSUME NEW i \in 1 .. Len(ordered'), NEW d \in deps[ordered'[i]]
                 PROVE  \E j \in 1 .. i - 1 : ordered'[j] = d
    BY DEF Sorted
  <2>2. CASE i = Len(ordered) + 1
    <3>1. d \in Range(ordered) BY <1>5, <1>7, <2>1, <2>2
    <3>2. PICK j \in 1 .. Len(ordered) : ordered[j] = d BY <1>6, <3>1 DEF Range
    <3>3. j \in 1 .. i - 1 BY <1>6, <2>2
    <3> QED BY <1>5, <3>2, <3>3
  <2>3. CASE i \in 1 .. Len(ordered)
    <3>1. PICK j \in 1 .. i - 1 : ordered[j] = d BY <1>1, <1>5, <2>1, <2>3 DEF Sorted
    <3>2. j \in 1 .. Len(ordered) BY <1>6, <2>3
    <3> QED BY <1>5, <3>1, <3>2
  <2> QED BY <1>11, <2>1, <2>2, <2>3
<1>15. \A j \in 1 .. next' : roots[j] \in Range(ordered') \cup OnPath(stack')
  BY <1>0, <1>1, <1>5, <1>8
<1>16. OnPath(stack') \subseteq visited /\ Range(ordered') \subseteq visited
  BY <1>1, <1>3, <1>5, <1>8
<1> QED BY <1>0, <1>7, <1>9, <1>10, <1>13, <1>14, <1>15, <1>16, SecondWalkStep

(* At its end the order holds what the roots need, each package once. *)
LEMMA SecondWalkComplete ==
  ASSUME Inv, Working, phase = "order", stack = <<>>, next = Len(roots)
  PROVE  Range(ordered) = Needed /\ Len(ordered) = Cardinality(visited)
<1>1. /\ TypeOK /\ visited = Needed /\ Range(ordered) \subseteq visited
      /\ IsInjective(ordered) /\ Sorted(ordered)
      /\ \A i \in 1 .. next : roots[i] \in Range(ordered) \cup OnPath(stack)
  BY SecondWalkFacts
<1>2. OnPath(stack) = {}
  <2>1. Len(stack) = 0 BY EmptySeq
  <2> QED BY <2>1 DEF OnPath
<1>3. DOMAIN roots = 1 .. Len(roots) /\ DOMAIN ordered = 1 .. Len(ordered) /\ Len(ordered) \in Nat
  BY <1>1, LenProperties DEF TypeOK
<1>4. Range(roots) \subseteq Range(ordered) BY <1>1, <1>2, <1>3 DEF Range
<1>5. Promise!Closed(Range(ordered))
  <2>1. SUFFICES ASSUME NEW i \in 1 .. Len(ordered), NEW d \in deps[ordered[i]] PROVE d \in Range(ordered)
    BY <1>3 DEF Promise!Closed, Range
  <2>2. PICK j \in 1 .. i - 1 : ordered[j] = d BY <1>1, <2>1 DEF Sorted
  <2>3. j \in 1 .. Len(ordered) BY <1>3
  <2> QED BY <1>3, <2>2, <2>3 DEF Range
<1>6. Range(ordered) = Needed
  <2>1. Range(ordered) \in SUBSET Package BY <1>1 DEF TypeOK
  <2>2. Needed \subseteq Range(ordered) BY <1>1, <1>4, <1>5, <2>1, NeededFacts
  <2> QED BY <1>1, <2>2
<1>7. Cardinality(visited) = Len(ordered)
  <2>1. ordered \in [1 .. Len(ordered) -> visited]
    <3>1. ordered \in [1 .. Len(ordered) -> Package] BY <1>1, LenProperties DEF TypeOK
    <3>2. \A i \in 1 .. Len(ordered) : ordered[i] \in visited BY <1>1, <1>3 DEF Range
    <3> QED BY <3>1, <3>2
  <2>2. \A q \in visited : \E i \in 1 .. Len(ordered) : ordered[i] = q BY <1>1, <1>3, <1>6 DEF Range
  <2>3. ordered \in Bijection(1 .. Len(ordered), visited)
    BY <1>1, <2>1, <2>2 DEF Bijection, Injection, Surjection
  <2>4. ExistsBijection(1 .. Len(ordered), visited) BY <2>3 DEF ExistsBijection
  <2> QED BY <1>3, <2>4, FS_CountingElements
<1> QED BY <1>6, <1>7

LEMMA FinishInv == ASSUME Inv, Finish PROVE Inv' /\ outcome' = "resolved"
<1>0. /\ Working /\ phase = "order" /\ stack = <<>> /\ next = Len(roots)
      /\ outcome' = IF Len(ordered) = Cardinality(visited) THEN "resolved" ELSE "refused"
      /\ UNCHANGED <<deps, roots, phase, next, stack, versions, visited, ordered, failures>>
  BY DEF Finish
<1>1. outcome' = "resolved" BY <1>0, SecondWalkComplete
<1>2. TypeOK' BY <1>0, <1>1 DEF Inv, TypeOK
<1>3. PhaseInv' BY <1>0, <1>1 DEF Inv, PhaseInv, OrderNeverRefuses
<1> QED BY <1>1, <1>2, <1>3, Ended

-----------------------------------------------------------------------------
(* The theorems *)

LEMMA StutterInv == ASSUME Inv, UNCHANGED vars PROVE Inv'
<1>0. UNCHANGED <<deps, roots, phase, next, stack, versions, visited, ordered, failures, outcome>>
  BY DEF vars
<1>1. TypeOK' BY <1>0 DEF Inv, TypeOK
<1>2. PhaseInv' BY <1>0 DEF Inv, PhaseInv, OrderNeverRefuses
<1>3. Needed' = Needed /\ Done' = Done BY <1>0, NeededStays DEF Done
<1>4. ASSUME Working PROVE (WalkInv /\ RootInv /\ NeedInv /\ VersionInv /\ FinishedInv /\ OrderInv)'
  <2>1. WalkInv /\ RootInv /\ NeedInv /\ VersionInv /\ FinishedInv /\ OrderInv BY <1>4 DEF Inv
  <2>2. WalkInv' BY <1>0, <1>3, <2>1 DEF WalkInv
  <2>3. RootInv' BY <1>0, <1>3, <2>1 DEF RootInv
  <2>4. NeedInv' /\ VersionInv' BY <1>0, <1>3, <2>1 DEF NeedInv, VersionInv
  <2>5. FinishedInv' BY <1>0, <2>1 DEF FinishedInv, Promise!Closed, Promise!Acyclic
  <2>6. OrderInv' BY <1>0, <1>3, <2>1 DEF OrderInv, Sorted
  <2> QED BY <2>2, <2>3, <2>4, <2>5, <2>6
<1>5. Working' => Working BY <1>0 DEF Working
<1> QED BY <1>1, <1>2, <1>4, <1>5 DEF Inv

LEMMA NextInv == ASSUME Inv, [Next]_vars PROVE Inv'
<1>1. CASE ResolveRoot BY <1>1, ResolveRootInv
<1>2. CASE RootUnavailable BY <1>2, RootUnavailableInv
<1>3. CASE StartVisits BY <1>3, StartVisitsInv
<1>4. CASE VisitRoot BY <1>4, VisitRootInv
<1>5. CASE Retry BY <1>5, RetryInv
<1>6. CASE MetadataFails BY <1>6, MetadataFailsInv
<1>7. CASE Metadata BY <1>7, MetadataInv
<1>8. CASE VisitDependency BY <1>8, VisitDependencyInv
<1>9. CASE Return BY <1>9, ReturnInv
<1>10. CASE StartOrder BY <1>10, StartOrderInv
<1>11. CASE OrderRoot BY <1>11, OrderRootInv
<1>12. CASE OrderDependency BY <1>12, OrderDependencyInv
<1>13. CASE OrderReturn BY <1>13, OrderReturnInv
<1>14. CASE Finish BY <1>14, FinishInv
<1>15. CASE UNCHANGED vars BY <1>15, StutterInv
<1> QED BY <1>1, <1>2, <1>3, <1>4, <1>5, <1>6, <1>7, <1>8, <1>9, <1>10, <1>11, <1>12, <1>13,
           <1>14, <1>15 DEF Next

(* Whatever the registry tells: the stack of both walks is a path of the graph,
   and what the walks have finished is closed, without a cycle and needed. *)
THEOREM Invariance == Spec => []Inv
<1>1. Init => Inv BY InitInv
<1>2. Inv /\ [Next]_vars => Inv' BY NextInv
<1> QED BY <1>1, <1>2, PTL DEF Spec

(* For any packages and dependencies the order of the second walk is never
   refused: the checks of canonicalPackageOrder find nothing that visit let pass. *)
THEOREM SecondWalkAgrees == Spec => []OrderNeverRefuses
<1>1. Inv => OrderNeverRefuses BY DEF Inv, PhaseInv
<1> QED BY <1>1, Invariance, PTL

-----------------------------------------------------------------------------
(* Resolver implements Resolution *)

Answer == IF outcome = "resolved" THEN ordered ELSE <<>>

(* A step that gives no answer is none for the caller. *)
LEMMA StutterMaps ==
  ASSUME UNCHANGED <<deps, roots, outcome>>, outcome = "resolved" => ordered' = ordered
  PROVE  [Promise!Next]_(Promise!vars)
BY DEF Promise!vars

(* A version seen twice: two packages of one name are needed. *)
LEMMA ConflictRefuses ==
  ASSUME TypeOK, VersionInv, NEW p \in Package, p \in Needed, versions[NameOf[p]] \notin {None, p}
  PROVE  ~Promise!WellFormed
<1>1. NameOf[p] \in Name BY DEF Name
<1>2. versions[NameOf[p]] \in Needed /\ NameOf[versions[NameOf[p]]] = NameOf[p]
  BY <1>1 DEF VersionInv
<1> QED BY <1>2 DEF Promise!WellFormed, Promise!OneVersion, Needed

(* A package met again on the path: what is needed has a cycle. *)
LEMMA CycleRefuses ==
  ASSUME TypeOK, WalkInv, NeedInv, stack # <<>>, NEW p \in Top.todo, p \in OnPath(stack)
  PROVE  ~Promise!WellFormed
<1>1. stack \in Seq(Frame) /\ Top = stack[Len(stack)] /\ p \in deps[Top.ref]
  BY TodoNeeded DEF TypeOK, Top
<1>2. PICK T \in SUBSET OnPath(stack) : T # {} /\ \A q \in T : deps[q] \cap T # {}
  BY <1>1, CycleFound DEF WalkInv
<1>3. T \in SUBSET Needed BY <1>2 DEF NeedInv
<1> QED BY <1>2, <1>3 DEF Promise!WellFormed, Promise!Acyclic, Needed

(* A refusal of the first walk is one that the packages justify. *)
LEMMA RefusalMaps ==
  ASSUME outcome = "working", outcome' = "refused", UNCHANGED <<deps, roots>>, ~Promise!WellFormed
  PROVE  Promise!Refuse
BY DEF Promise!Refuse

LEMMA VisitRootMaps == ASSUME Inv, VisitRoot PROVE [Promise!Next]_(Promise!vars)
<1> DEFINE p == roots[next + 1]
<1>0. /\ outcome = "working" /\ stack = <<>> /\ next < Len(roots) /\ Visit(p, stack)
      /\ UNCHANGED <<deps, roots>>
  BY DEF VisitRoot, Working
<1>1. TypeOK /\ VersionInv BY <1>0 DEF Inv, Working
<1>2. p \in Package /\ p \in Needed BY <1>0, <1>1, RootNeeded
<1>3. Visiting = {}
  <2>1. Len(stack) = 0 BY <1>0, EmptySeq
  <2> QED BY <1>1, <2>1, VisitingIsOnPath DEF OnPath
<1> HIDE DEF p
<1>4. \/ versions[NameOf[p]] \notin {None, p} /\ outcome' = "refused"
      \/ outcome' = outcome
  BY <1>0, <1>3 DEF Visit
<1>5. CASE outcome' = outcome BY <1>0, <1>5, StutterMaps
<1>6. CASE versions[NameOf[p]] \notin {None, p} /\ outcome' = "refused"
  <2>1. ~Promise!WellFormed BY <1>1, <1>2, <1>6, ConflictRefuses
  <2> QED BY <1>0, <1>6, <2>1, RefusalMaps DEF Promise!Next
<1> QED BY <1>4, <1>5, <1>6

LEMMA VisitDependencyMaps == ASSUME Inv, VisitDependency PROVE [Promise!Next]_(Promise!vars)
<1>0. PICK p \in Package :
        /\ outcome = "working" /\ stack # <<>> /\ p \in Top.todo /\ Visit(p, Without(p))
        /\ UNCHANGED <<deps, roots>>
  BY DEF VisitDependency, IsFirst, Working
<1>1. TypeOK /\ VersionInv /\ WalkInv /\ NeedInv BY <1>0 DEF Inv, Working
<1>2. p \in Needed BY <1>0, <1>1, TodoNeeded
<1>3. Visiting = OnPath(stack) BY <1>1, VisitingIsOnPath
<1>4. \/ versions[NameOf[p]] \notin {None, p} /\ outcome' = "refused"
      \/ p \in OnPath(stack) /\ outcome' = "refused"
      \/ outcome' = outcome
  BY <1>0, <1>3 DEF Visit
<1>5. CASE outcome' = outcome BY <1>0, <1>5, StutterMaps
<1>6. CASE outcome' = "refused" /\ (versions[NameOf[p]] \notin {None, p} \/ p \in OnPath(stack))
  <2>1. ~Promise!WellFormed BY <1>0, <1>1, <1>2, <1>6, ConflictRefuses, CycleRefuses
  <2> QED BY <1>0, <1>6, <2>1, RefusalMaps DEF Promise!Next
<1> QED BY <1>4, <1>5, <1>6

(* At the end of the second walk the answer is the one that was promised. *)
LEMMA FinishMaps == ASSUME Inv, Finish PROVE Promise!Resolve
<1>0. /\ Working /\ phase = "order" /\ stack = <<>> /\ next = Len(roots)
      /\ UNCHANGED <<deps, roots, ordered>>
  BY DEF Finish
<1>1. outcome = "working" /\ outcome' = "resolved" BY <1>0, FinishInv DEF Working
<1>2. /\ TypeOK /\ VersionInv /\ FinishedInv /\ visited = Needed /\ IsInjective(ordered)
      /\ Sorted(ordered) /\ Range(ordered) = Needed
  BY <1>0, SecondWalkFacts, SecondWalkComplete DEF Inv
<1>3. Promise!WellFormed
  <2>1. Promise!Acyclic(Needed) BY <1>2 DEF FinishedInv
  <2>2. Promise!OneVersion(Needed) BY <1>2 DEF VersionInv, Promise!OneVersion
  <2> QED BY <2>1, <2>2 DEF Promise!WellFormed, Needed
<1>4. Answer' = ordered /\ Needed' = Needed BY <1>0, <1>1, NeededStays DEF Answer
<1>5. Promise!IsAnswer'
  <2>1. Range(ordered) = Promise!Needed' BY <1>2, <1>4 DEF Needed
  <2>2. Promise!Range(ordered) = Promise!Needed' /\ Promise!IsInjective(ordered)
    BY <1>2, <2>1, SameFunctions
  <2>3. DOMAIN ordered = 1 .. Len(ordered) BY <1>2, LenProperties DEF TypeOK
  <2>4. Promise!DependenciesFirst' BY <1>0, <1>2, <1>4, <2>3 DEF Promise!DependenciesFirst, Sorted, Answer
  <2> QED BY <1>4, <2>2, <2>4 DEF Promise!IsAnswer, Answer
<1> QED BY <1>0, <1>1, <1>3, <1>5 DEF Promise!Resolve

LEMMA StepMaps == ASSUME Inv, Inv', [Next]_vars PROVE [Promise!Next]_(Promise!vars)
<1>1. CASE ResolveRoot
  <2>1. outcome = "working" /\ UNCHANGED <<deps, ordered, outcome>> BY <1>1 DEF ResolveRoot, Working
  <2> QED BY <2>1 DEF Promise!Next, Promise!Choose
<1>2. CASE RootUnavailable \/ MetadataFails
  <2>1. outcome = "working" /\ outcome' = "unavailable" /\ UNCHANGED <<deps, roots>>
    BY <1>2 DEF RootUnavailable, MetadataFails, Working
  <2> QED BY <2>1 DEF Promise!Next, Promise!NoAnswer
<1>3. CASE StartVisits \/ Retry \/ Metadata \/ Return \/ StartOrder \/ OrderReturn
  <2>1. outcome = "working" /\ UNCHANGED <<deps, roots, outcome>>
    BY <1>3 DEF StartVisits, Retry, Metadata, Return, StartOrder, OrderReturn, Working
  <2> QED BY <2>1, StutterMaps
<1>4. CASE OrderRoot \/ OrderDependency
  <2>1. /\ outcome = "working" /\ phase' = "order" /\ UNCHANGED <<deps, roots>>
        /\ outcome' \in {outcome, "refused"}
    BY <1>4 DEF OrderRoot, OrderDependency, Order, Working
  <2>2. outcome' # "refused" BY <2>1 DEF Inv, PhaseInv, OrderNeverRefuses
  <2> QED BY <2>1, <2>2, StutterMaps
<1>5. CASE VisitRoot BY <1>5, VisitRootMaps
<1>6. CASE VisitDependency BY <1>6, VisitDependencyMaps
<1>7. CASE Finish BY <1>7, FinishMaps DEF Promise!Next
<1>8. CASE UNCHANGED vars BY <1>8, StutterMaps DEF vars
<1> QED BY <1>1, <1>2, <1>3, <1>4, <1>5, <1>6, <1>7, <1>8 DEF Next

(* Resolve answers with exactly the packages the roots need, dependencies first
   and in one version each, or refuses what has a cycle or two versions of a
   name: for any packages, any graph and any roots. *)
THEOREM Refinement == Spec => Promise!SafeSpec
<1>1. Init => Promise!Init BY DEF Init, Promise!Init
<1>2. Inv /\ Inv' /\ [Next]_vars => [Promise!Next]_(Promise!vars) BY StepMaps
<1> QED BY <1>1, <1>2, Invariance, PTL DEF Spec, Promise!SafeSpec

-----------------------------------------------------------------------------
(* Neither walk goes on for ever, whatever the graph: every step makes one of eight
   finite sets smaller and leaves those before it alone.  The phases to come, the
   roots to look up and those to visit, the packages not met and those not
   finished, the frames whose metadata is awaited, the dependencies yet to visit
   and the requests that may still fail. *)
Later ==
  CASE phase = "roots" -> {"visit", "order"} [] phase = "visit" -> {"order"} [] phase = "order" -> {}

Unknown(s) == {i \in 1 .. Len(s) : ~s[i].known}
ToVisit(s) == {e \in (1 .. Len(s)) \X Package : e[2] \in s[e[1]].todo}

Left == <<
  Later, Len(roots) + 1 .. Len(RootName), next + 1 .. Len(roots),
  Package \ (Done \cup OnPath(stack)), Package \ Done,
  Unknown(stack), ToVisit(stack), failures + 1 .. MaxAttempts >>

(* a is smaller than b in the first place where they differ. *)
Smaller(a, b) ==
  \E i \in 1 .. 8 : a[i] \subseteq b[i] /\ a[i] # b[i] /\ \A j \in 1 .. i - 1 : a[j] = b[j]

(* A step of Resolve ends it or leaves it less to do. *)
Advance == Working /\ (outcome' # "working" \/ Smaller(Left', Left))

(* The sets one by one, and which of them a step leaves alone by what it leaves
   unchanged. *)
LEMMA LeftIs ==
  /\ Left[1] = Later /\ Left[2] = Len(roots) + 1 .. Len(RootName) /\ Left[3] = next + 1 .. Len(roots)
  /\ Left[4] = Package \ (Done \cup OnPath(stack)) /\ Left[5] = Package \ Done
  /\ Left[6] = Unknown(stack) /\ Left[7] = ToVisit(stack) /\ Left[8] = failures + 1 .. MaxAttempts
  /\ Left'[1] = Later' /\ Left'[2] = Len(roots') + 1 .. Len(RootName)
  /\ Left'[3] = next' + 1 .. Len(roots')
  /\ Left'[4] = Package \ (Done' \cup OnPath(stack')) /\ Left'[5] = Package \ Done'
  /\ Left'[6] = Unknown(stack') /\ Left'[7] = ToVisit(stack')
  /\ Left'[8] = failures' + 1 .. MaxAttempts
BY DEF Left, OnPath, Unknown, ToVisit

LEMMA LeftStays ==
  /\ phase' = phase => Left'[1] = Left[1]
  /\ UNCHANGED <<phase, roots>> => \A j \in 1 .. 2 : Left'[j] = Left[j]
  /\ UNCHANGED <<phase, roots, next>> => \A j \in 1 .. 3 : Left'[j] = Left[j]
<1>1. phase' = phase => Later' = Later BY DEF Later
<1> QED BY <1>1, LeftIs

(* One set that is smaller, after some that are the same *)
LEMMA SmallerAt ==
  ASSUME NEW i \in 1 .. 8, Left'[i] \subseteq Left[i], Left'[i] # Left[i],
         \A j \in 1 .. i - 1 : Left'[j] = Left[j]
  PROVE  Smaller(Left', Left)
BY DEF Smaller

LEMMA RootsAdvance == ASSUME Inv, ResolveRoot PROVE Advance
<1>0. /\ Working /\ phase' = phase /\ Len(roots) < Len(RootName) /\ roots \in Seq(Package)
      /\ \E p \in Package : roots' = Append(roots, p)
  BY DEF ResolveRoot, Inv, TypeOK
<1>1. Len(roots) \in Nat /\ Len(RootName) \in Nat /\ Len(roots') = Len(roots) + 1
  BY <1>0, LenProperties, RootAssumption
<1>2. Left'[2] = Len(roots) + 1 + 1 .. Len(RootName) /\ Left[2] = Len(roots) + 1 .. Len(RootName)
  BY <1>1, LeftIs
<1>3. Len(roots) + 1 \in Left[2] /\ Len(roots) + 1 \notin Left'[2] /\ Left'[2] \subseteq Left[2]
  BY <1>0, <1>1, <1>2
<1>4. \A j \in 1 .. 2 - 1 : Left'[j] = Left[j] BY <1>0, LeftStays
<1>5. Left'[2] # Left[2] BY <1>3
<1>6. Smaller(Left', Left) BY <1>3, <1>4, <1>5, SmallerAt
<1> QED BY <1>0, <1>6 DEF Advance

LEMMA PhaseAdvances == ASSUME StartVisits \/ StartOrder PROVE Advance
<1>1. Working /\ ((phase = "roots" /\ phase' = "visit") \/ (phase = "visit" /\ phase' = "order"))
  BY DEF StartVisits, StartOrder
<1>2. Later' \subseteq Later /\ Later' # Later BY <1>1 DEF Later
<1>3. Left'[1] \subseteq Left[1] /\ Left'[1] # Left[1] BY <1>2, LeftIs
<1>4. Smaller(Left', Left) BY <1>3, SmallerAt
<1> QED BY <1>1, <1>4 DEF Advance

LEMMA RootVisitAdvances == ASSUME Inv, VisitRoot \/ OrderRoot PROVE Advance
<1>1. /\ Working /\ next < Len(roots) /\ next' = next + 1 /\ UNCHANGED <<phase, roots>>
      /\ next \in Nat /\ Len(roots) \in Nat
  BY LenProperties DEF VisitRoot, OrderRoot, Inv, TypeOK
<1>2. Left'[3] = next + 1 + 1 .. Len(roots) /\ Left[3] = next + 1 .. Len(roots) BY <1>1, LeftIs
<1>3. next + 1 \in Left[3] /\ next + 1 \notin Left'[3] /\ Left'[3] \subseteq Left[3] BY <1>1, <1>2
<1>4. \A j \in 1 .. 3 - 1 : Left'[j] = Left[j] BY <1>1, LeftStays
<1>5. Left'[3] # Left[3] BY <1>3
<1>6. Smaller(Left', Left) BY <1>3, <1>4, <1>5, SmallerAt
<1> QED BY <1>1, <1>6 DEF Advance

LEMMA RetryAdvances == ASSUME Inv, Retry PROVE Advance
<1>1. /\ Working /\ failures' = failures + 1 /\ failures' < MaxAttempts /\ failures \in Nat
      /\ UNCHANGED <<deps, roots, phase, next, stack, versions, visited, ordered, outcome>>
  BY DEF Retry, Inv, TypeOK
<1>2. MaxAttempts \in Nat BY FiniteAssumption
<1>3. Left'[8] = failures + 1 + 1 .. MaxAttempts /\ Left[8] = failures + 1 .. MaxAttempts BY <1>1, LeftIs
<1>4. failures + 1 \in Left[8] /\ failures + 1 \notin Left'[8] /\ Left'[8] \subseteq Left[8]
  BY <1>1, <1>2, <1>3
<1>5. Done' = Done BY <1>1 DEF Done
<1>6. \A j \in 1 .. 3 : Left'[j] = Left[j] BY <1>1, LeftStays
<1>7. Left'[4] = Left[4] /\ Left'[5] = Left[5] /\ Left'[6] = Left[6] /\ Left'[7] = Left[7]
  BY <1>1, <1>5, LeftIs
<1>8. \A j \in 1 .. 8 - 1 : Left'[j] = Left[j] BY <1>6, <1>7
<1>9. Left'[8] # Left[8] BY <1>4
<1>10. Smaller(Left', Left) BY <1>4, <1>8, <1>9, SmallerAt
<1> QED BY <1>1, <1>10 DEF Advance

(* The answer to a request: the top frame, the only one without its dependencies,
   gets them. *)
LEMMA MetadataAdvances == ASSUME Inv, Metadata PROVE Advance
<1>0. /\ Working /\ phase = "visit" /\ stack # <<>> /\ ~Top.known
      /\ stack' = Append(Below, Walking(Top.ref))
      /\ UNCHANGED <<deps, roots, phase, next, versions, visited, ordered, outcome>>
  BY DEF Metadata
<1>1. TypeOK /\ WalkInv BY <1>0 DEF Inv
<1>2. /\ stack \in Seq(Frame) /\ Top = stack[Len(stack)] /\ Top.ref \in Package
      /\ Len(stack) \in 1 .. Len(stack)
  BY <1>0, <1>1, TopFacts DEF TypeOK, Frame
<1>3. PICK f \in Frame : f = Walking(Top.ref) /\ f.ref = Top.ref /\ f.known /\ f.todo = deps[f.ref]
  BY <1>1, <1>2, FramesType
<1>4. stack' \in Seq(Frame) /\ Retopped(stack, stack', f)
  BY <1>0, <1>2, <1>3, Retopping DEF Below
<1>5. Done' = Done BY <1>0 DEF Done
<1>6. IsPath(deps, stack, Done) /\ IsHandled(deps, stack, Done) BY <1>1 DEF WalkInv
<1>7. OnPath(stack') = OnPath(stack)
  <2>1. f.ref = stack[Len(stack)].ref /\ f.known /\ f.todo = deps[f.ref] BY <1>2, <1>3
  <2>2. stack # <<>> BY <1>0
  <2> QED BY <1>2, <1>4, <1>6, <2>1, <2>2, KnowStep
<1>8. Unknown(stack') \subseteq Unknown(stack) /\ Unknown(stack') # Unknown(stack)
  <2>1. Len(stack') = Len(stack) /\ stack'[Len(stack)] = f BY <1>4 DEF Retopped
  <2>2. \A i \in 1 .. Len(stack) : i < Len(stack) => stack'[i] = stack[i] BY <1>4 DEF Retopped
  <2>3. Len(stack) \in Unknown(stack) BY <1>0, <1>2 DEF Unknown
  <2>4. Len(stack) \notin Unknown(stack') BY <1>3, <2>1 DEF Unknown
  <2>5. \A i \in 1 .. Len(stack) : i < Len(stack) \/ i = Len(stack) BY <1>2, LenProperties
  <2>6. Unknown(stack') \subseteq Unknown(stack) BY <1>0, <1>2, <2>1, <2>2, <2>5 DEF Unknown
  <2> QED BY <2>3, <2>4, <2>6
<1>9. \A j \in 1 .. 3 : Left'[j] = Left[j] BY <1>0, LeftStays
<1>10. Left'[4] = Left[4] /\ Left'[5] = Left[5] BY <1>5, <1>7, LeftIs
<1>11. \A j \in 1 .. 6 - 1 : Left'[j] = Left[j] BY <1>9, <1>10
<1>12. Left'[6] \subseteq Left[6] /\ Left'[6] # Left[6] BY <1>8, LeftIs
<1>13. Smaller(Left', Left) BY <1>11, <1>12, SmallerAt
<1> QED BY <1>0, <1>13 DEF Advance

(* A dependency that is finished is skipped, or one that was not met is put on the
   path: one of both walks. *)
LEMMA DependencyAdvances ==
  ASSUME Inv, Working, stack # <<>>, Top.known, NEW p \in Package, p \in Top.todo,
         UNCHANGED <<deps, roots, phase, next, visited, ordered>>,
         \/ p \in Done /\ stack' = Without(p)
         \/ /\ p \notin Done \cup OnPath(stack)
            /\ \E f \in Frame : f.ref = p /\ f.todo \subseteq deps[p] /\ (f.known => f.todo = deps[p])
                                /\ stack' = Append(Without(p), f)
  PROVE  Advance
<1>1. TypeOK /\ WalkInv BY DEF Inv
<1>2. /\ stack \in Seq(Frame) /\ Top = stack[Len(stack)] /\ Top \in Frame
      /\ Len(stack) \in 1 .. Len(stack)
  BY <1>1, TopFacts DEF TypeOK
<1>3. /\ Without(p) \in Seq(Frame) /\ Retopped(stack, Without(p), [Top EXCEPT !.todo = @ \ {p}])
  BY <1>1, WithoutType
<1>4. Done' = Done BY DEF Done
<1>5. IsPath(deps, stack, Done) /\ IsHandled(deps, stack, Done) BY <1>1 DEF WalkInv
<1>6. \A j \in 1 .. 3 : Left'[j] = Left[j] BY LeftStays
<1>7. CASE p \in Done /\ stack' = Without(p)
  <2>1. OnPath(stack') = OnPath(stack) BY <1>2, <1>3, <1>5, <1>7, SkipStep
  <2>2. /\ [Top EXCEPT !.todo = @ \ {p}].known /\ [Top EXCEPT !.todo = @ \ {p}].todo = Top.todo \ {p}
    BY <1>2 DEF Frame
  <2>3. /\ Len(stack') = Len(stack) /\ stack'[Len(stack)].known
        /\ stack'[Len(stack)].todo = stack[Len(stack)].todo \ {p}
    BY <1>2, <1>3, <1>7, <2>2 DEF Retopped
  <2>4. \A i \in 1 .. Len(stack) : i < Len(stack) => stack'[i] = stack[i] BY <1>3, <1>7 DEF Retopped
  <2>5. \A i \in 1 .. Len(stack) : i < Len(stack) \/ i = Len(stack) BY <1>2, LenProperties
  <2>6. Unknown(stack') = Unknown(stack) BY <1>2, <2>3, <2>4, <2>5 DEF Unknown
  <2>7. ToVisit(stack') \subseteq ToVisit(stack)
    <3>1. \A i \in 1 .. Len(stack) : stack'[i].todo \subseteq stack[i].todo BY <2>3, <2>4, <2>5
    <3> QED BY <2>3, <3>1 DEF ToVisit
  <2>8. <<Len(stack), p>> \in ToVisit(stack) BY <1>2 DEF ToVisit
  <2>9. <<Len(stack), p>> \notin ToVisit(stack') BY <2>3 DEF ToVisit
  <2>10. Left'[4] = Left[4] /\ Left'[5] = Left[5] /\ Left'[6] = Left[6]
    BY <1>4, <2>1, <2>6, LeftIs
  <2>11. \A j \in 1 .. 7 - 1 : Left'[j] = Left[j] BY <1>6, <2>10
  <2>12. Left'[7] \subseteq Left[7] /\ Left'[7] # Left[7] BY <2>7, <2>8, <2>9, LeftIs
  <2>13. Smaller(Left', Left) BY <2>11, <2>12, SmallerAt
  <2> QED BY <2>13 DEF Advance
<1>8. CASE p \notin Done \cup OnPath(stack)
  <2>1. PICK f \in Frame : /\ f.ref = p /\ f.todo \subseteq deps[p] /\ (f.known => f.todo = deps[p])
                           /\ stack' = Append(Without(p), f)
    BY <1>8
  <2>2. stack' \in Seq(Frame) /\ Pushed(Without(p), stack', f) BY <1>3, <2>1, Pushing
  <2>3. /\ f.ref \in stack[Len(stack)].todo /\ stack[Len(stack)].known
        /\ Retopped(stack, Without(p), [stack[Len(stack)] EXCEPT !.todo = @ \ {f.ref}])
        /\ f.ref \notin Done \cup OnPath(stack) /\ f.todo \subseteq deps[f.ref]
        /\ f.known => f.todo = deps[f.ref]
    BY <1>2, <1>3, <1>8, <2>1
  <2>4. OnPath(stack') = OnPath(stack) \cup {f.ref}
    BY <1>2, <1>3, <1>5, <2>2, <2>3, PushStep
  <2>5. /\ Left'[4] = Package \ (Done \cup OnPath(stack) \cup {p})
        /\ Left[4] = Package \ (Done \cup OnPath(stack))
    BY <1>4, <2>1, <2>4, LeftIs
  <2>6. Left'[4] \subseteq Left[4] /\ p \in Left[4] /\ p \notin Left'[4] BY <1>8, <2>5
  <2>7. \A j \in 1 .. 4 - 1 : Left'[j] = Left[j] BY <1>6
  <2>8. Left'[4] # Left[4] BY <2>6
  <2>9. Smaller(Left', Left) BY <2>6, <2>7, <2>8, SmallerAt
  <2> QED BY <2>9 DEF Advance
<1> QED BY <1>7, <1>8

LEMMA VisitAdvances == ASSUME Inv, VisitDependency PROVE Advance
<1>0. PICK p \in Package :
        /\ Working /\ phase = "visit" /\ stack # <<>> /\ Top.known /\ p \in Top.todo
        /\ Visit(p, Without(p)) /\ UNCHANGED <<deps, roots, phase, next, visited, ordered, failures>>
  BY DEF VisitDependency, IsFirst
<1>1. TypeOK /\ Visiting = OnPath(stack) BY VisitingIsOnPath DEF Inv
<1>2. Done = visited BY <1>0 DEF Done
<1>3. \/ outcome' = "refused"
      \/ p \in visited /\ stack' = Without(p)
      \/ p \notin visited \cup OnPath(stack) /\ stack' = Append(Without(p), Asking(p))
  BY <1>0, <1>1 DEF Visit
<1>4. CASE outcome' = "refused" BY <1>0, <1>4 DEF Advance
<1>5. CASE p \in visited /\ stack' = Without(p) BY <1>0, <1>2, <1>5, DependencyAdvances
<1>6. CASE p \notin visited \cup OnPath(stack) /\ stack' = Append(Without(p), Asking(p))
  <2>1. /\ Asking(p) \in Frame /\ Asking(p).ref = p /\ ~Asking(p).known
        /\ Asking(p).todo \subseteq deps[p]
    BY <1>1, FramesType
  <2> QED BY <1>0, <1>2, <1>6, <2>1, DependencyAdvances
<1> QED BY <1>3, <1>4, <1>5, <1>6

LEMMA OrderAdvances == ASSUME Inv, OrderDependency PROVE Advance
<1>0. PICK p \in Package :
        /\ Working /\ phase = "order" /\ stack # <<>> /\ p \in Top.todo
        /\ Order(p, Without(p))
        /\ UNCHANGED <<deps, roots, phase, next, versions, visited, ordered, failures>>
  BY DEF OrderDependency, IsFirst
<1>1. TypeOK /\ AllKnown(stack) /\ Visiting = OnPath(stack) BY <1>0, SecondWalkFacts
<1>2. Done = Range(ordered) BY <1>0 DEF Done
<1>3. Top.known BY <1>0, <1>1, TopFacts DEF AllKnown
<1>4. \/ outcome' = "refused"
      \/ p \in Range(ordered) /\ stack' = Without(p)
      \/ p \notin Range(ordered) \cup OnPath(stack) /\ stack' = Append(Without(p), Walking(p))
  BY <1>0, <1>1 DEF Order
<1>5. CASE outcome' = "refused" BY <1>0, <1>5 DEF Advance
<1>6. CASE p \in Range(ordered) /\ stack' = Without(p) BY <1>0, <1>2, <1>3, <1>6, DependencyAdvances
<1>7. CASE p \notin Range(ordered) \cup OnPath(stack) /\ stack' = Append(Without(p), Walking(p))
  <2>1. Walking(p) \in Frame /\ Walking(p).ref = p /\ Walking(p).todo = deps[p] BY <1>1, FramesType
  <2> QED BY <1>0, <1>2, <1>3, <1>7, <2>1, DependencyAdvances
<1> QED BY <1>4, <1>5, <1>6, <1>7

(* A package is finished: it was on the path, and is now among those that are done. *)
LEMMA DoneAdvances ==
  ASSUME Inv, Working, stack # <<>>, stack' = Below, UNCHANGED <<roots, phase, next>>,
         \A q : q \in Done' <=> q \in Done \/ q = Top.ref
  PROVE  Advance
<1>1. TypeOK /\ WalkInv BY DEF Inv
<1>2. /\ stack \in Seq(Frame) /\ Top = stack[Len(stack)] /\ Top.ref \in Package
      /\ Len(stack) \in 1 .. Len(stack)
  BY <1>1, TopFacts DEF TypeOK, Frame
<1>3. stack' \in Seq(Frame) /\ Popped(stack, stack') BY <1>2, Popping DEF Below
<1>4. Top.ref \notin Done /\ Top.ref \in OnPath(stack) BY <1>1, <1>2 DEF WalkInv, IsPath, OnPath
<1>5. /\ OnPath(stack') \subseteq OnPath(stack)
      /\ \A q \in OnPath(stack) : q \in OnPath(stack') \/ q = Top.ref
  BY <1>2, <1>3, PopPath
<1>6. \A q : q \in Done' \cup OnPath(stack') <=> q \in Done \cup OnPath(stack) BY <1>4, <1>5
<1>7. Left'[4] = Left[4] BY <1>6, LeftIs
<1>8. Left'[5] \subseteq Left[5] /\ Top.ref \in Left[5] /\ Top.ref \notin Left'[5] BY <1>2, <1>4, LeftIs
<1>9. \A j \in 1 .. 3 : Left'[j] = Left[j] BY LeftStays
<1>10. \A j \in 1 .. 5 - 1 : Left'[j] = Left[j] BY <1>7, <1>9
<1>11. Left'[5] # Left[5] BY <1>8
<1>12. Smaller(Left', Left) BY <1>8, <1>10, <1>11, SmallerAt
<1> QED BY <1>12 DEF Advance

LEMMA ReturnsAdvance == ASSUME Inv, Return \/ OrderReturn PROVE Advance
<1>1. CASE Return
  <2>1. /\ Working /\ phase = "visit" /\ stack # <<>> /\ stack' = Below
        /\ visited' = visited \cup {Top.ref} /\ UNCHANGED <<roots, phase, next>>
    BY <1>1 DEF Return
  <2>2. \A q : q \in Done' <=> q \in Done \/ q = Top.ref BY <2>1 DEF Done
  <2> QED BY <2>1, <2>2, DoneAdvances
<1>2. CASE OrderReturn
  <2>1. /\ Working /\ phase = "order" /\ stack # <<>> /\ stack' = Below
        /\ ordered' = Append(ordered, Top.ref) /\ UNCHANGED <<roots, phase, next>>
    BY <1>2 DEF OrderReturn
  <2>2. TypeOK /\ Top.ref \in Package BY <2>1, TopFacts DEF Inv, Frame
  <2>3. ordered \in Seq(Package) BY <2>2 DEF TypeOK
  <2>4. \A q : q \in Range(ordered') <=> q \in Range(ordered) \/ q = Top.ref
    BY <2>1, <2>2, <2>3, AppendFacts
  <2>5. Done = Range(ordered) /\ Done' = Range(ordered') BY <2>1 DEF Done
  <2>6. \A q : q \in Done' <=> q \in Done \/ q = Top.ref BY <2>4, <2>5
  <2> QED BY <2>1, <2>6, DoneAdvances
<1> QED BY <1>1, <1>2

LEMMA EndAdvances == ASSUME RootUnavailable \/ MetadataFails \/ Finish PROVE Advance
BY DEF RootUnavailable, MetadataFails, Finish, Advance

(* All eight sets are finite, so none of them shrinks for ever. *)
LEMMA LeftFinite == ASSUME TypeOK PROVE \A i \in 1 .. 8 : IsFiniteSet(Left[i])
<1>1. /\ Len(roots) \in Nat /\ Len(RootName) \in Nat /\ next \in Nat /\ failures \in Nat
      /\ MaxAttempts \in Nat /\ Len(stack) \in Nat
  BY LenProperties, RootAssumption, FiniteAssumption DEF TypeOK
<1>2. IsFiniteSet(Package) BY FiniteAssumption
<1>3. IsFiniteSet(Left[1])
  <2>1. Later \subseteq {"visit", "order"} BY DEF TypeOK, Later
  <2>2. IsFiniteSet({"visit", "order"})
    <3>1. IsFiniteSet({"order"}) BY FS_Singleton
    <3>2. IsFiniteSet({"order"} \cup {"visit"}) BY <3>1, FS_AddElement
    <3>3. {"order"} \cup {"visit"} = {"visit", "order"} OBVIOUS
    <3> QED BY <3>2, <3>3
  <2> QED BY <2>1, <2>2, FS_Subset, LeftIs
<1>4. IsFiniteSet(Left[2]) /\ IsFiniteSet(Left[3]) /\ IsFiniteSet(Left[8])
  <2>1. \A a, b \in Int : IsFiniteSet(a .. b) BY FS_Interval
  <2>2. /\ Len(roots) + 1 \in Int /\ Len(RootName) \in Int /\ next + 1 \in Int /\ Len(roots) \in Int
        /\ failures + 1 \in Int /\ MaxAttempts \in Int
    BY <1>1
  <2> QED BY <2>1, <2>2, LeftIs
<1>5. IsFiniteSet(Left[4]) /\ IsFiniteSet(Left[5])
  <2>1. Left[4] \subseteq Package /\ Left[5] \subseteq Package BY LeftIs
  <2> QED BY <1>2, <2>1, FS_Subset
<1>6. IsFiniteSet(1 .. Len(stack)) BY <1>1, FS_Interval
<1>7. IsFiniteSet(Left[6])
  <2>1. Unknown(stack) \subseteq 1 .. Len(stack) BY DEF Unknown
  <2> QED BY <1>6, <2>1, FS_Subset, LeftIs
<1>8. IsFiniteSet(Left[7])
  <2>1. ToVisit(stack) \subseteq (1 .. Len(stack)) \X Package BY DEF ToVisit
  <2>2. IsFiniteSet((1 .. Len(stack)) \X Package) BY <1>2, <1>6, FS_Product
  <2> QED BY <2>1, <2>2, FS_Subset, LeftIs
<1> QED BY <1>3, <1>4, <1>5, <1>7, <1>8

(* For any graph, with cycles or not: each step of Resolve ends it or makes what is
   left smaller, in an order in which no finite sets shrink for ever. *)
THEOREM WalksAdvance == Spec => [][Advance]_vars /\ [](\A i \in 1 .. 8 : IsFiniteSet(Left[i]))
<1>1. ASSUME Inv, [Next]_vars PROVE [Advance]_vars
  <2>1. CASE ResolveRoot BY <1>1, <2>1, RootsAdvance
  <2>2. CASE StartVisits \/ StartOrder BY <2>2, PhaseAdvances
  <2>3. CASE VisitRoot \/ OrderRoot BY <1>1, <2>3, RootVisitAdvances
  <2>4. CASE Retry BY <1>1, <2>4, RetryAdvances
  <2>5. CASE Metadata BY <1>1, <2>5, MetadataAdvances
  <2>6. CASE VisitDependency BY <1>1, <2>6, VisitAdvances
  <2>7. CASE OrderDependency BY <1>1, <2>7, OrderAdvances
  <2>8. CASE Return \/ OrderReturn BY <1>1, <2>8, ReturnsAdvance
  <2>9. CASE RootUnavailable \/ MetadataFails \/ Finish BY <2>9, EndAdvances
  <2>10. CASE UNCHANGED vars BY <2>10
  <2> QED BY <1>1, <2>1, <2>2, <2>3, <2>4, <2>5, <2>6, <2>7, <2>8, <2>9, <2>10 DEF Next
<1>2. Inv => \A i \in 1 .. 8 : IsFiniteSet(Left[i]) BY LeftFinite DEF Inv
<1>3. Inv /\ [Next]_vars => [Advance]_vars BY <1>1
<1> QED BY <1>2, <1>3, Invariance, PTL DEF Spec

-----------------------------------------------------------------------------
(* Fetch, for any bodies, lengths and bounds: what was read is what the temporary
   file holds (ReadInv), a file is published only when it is whole and synced
   (WholeInv), and the digest of what is returned is the locked one (LockInv). *)

Data == Seq(Body \X Nat)
FileType == [there : BOOLEAN, ours : BOOLEAN, data : Data, synced : BOOLEAN]

CacheTypeInv ==
  /\ served \in Body /\ {archive, durable, temporary} \subseteq FileType
  /\ response \in [body : Data, size : Nat] /\ held \in [data : Data, digest : Data]
  /\ hash \in Data /\ lock \in Data /\ metadata \in Nat /\ meddles \in Nat

Accepted == {"sync", "validate", "publish", "published"}

(* What was read is in the file, and once accepted it has the announced size. *)
ReadInv ==
  /\ pc \in {"read"} \cup Accepted => temporary.data = hash /\ temporary.there
  /\ pc = "attempt" => temporary.there
  /\ pc \in Accepted => (metadata > 0 => Len(hash) = metadata)
  /\ pc \in {"validate", "publish", "published"} => temporary.synced
  /\ pc \in {"publish", "published"} => ValidZIP(temporary.data)

(* Only a whole and synced file gets the name, now or after a power loss. *)
WholeInv ==
  meddles = 0 => \A f \in {archive, durable} : f.there => f.synced /\ ValidZIP(f.data)

(* A call that gets as far as that has the digest of the lock. *)
LockInv ==
  /\ pc \in Accepted => AgreesWithLock(hash)
  /\ pc = "returned" => AgreesWithLock(held.digest)

CacheInv == CacheTypeInv /\ ReadInv /\ WholeInv /\ LockInv /\ ReturnedIsVouched

(* A body is a sequence of chunks, and so is what is left of it. *)
LEMMA AllData == ASSUME NEW b \in Body PROVE All(b) \in Data /\ Len(All(b)) = Length[b]
BY BodyAssumption DEF All, Data

LEMMA DataFacts ==
  /\ <<>> \in Data
  /\ \A d \in Data, c \in Body \X Nat : Append(d, c) \in Data
  /\ \A d \in Data : \A n \in 0 .. Len(d) : SubSeq(d, 1, n) \in Data
BY DEF Data

LEMMA ContentsData == Contents \subseteq Data
<1>1. ASSUME NEW b \in Body, NEW n \in 0 .. Length[b] PROVE SubSeq(All(b), 1, n) \in Data
  BY AllData, DataFacts
<1>2. ASSUME NEW x \in Contents PROVE x \in Data
  <2>1. PICK b \in Body : x \in {SubSeq(All(b), 1, n) : n \in 0 .. Length[b]}
    BY Zenon DEF Contents
  <2> QED BY <1>1, <2>1
<1> QED BY <1>2

LEMMA FileTypes ==
  /\ NoFile \in FileType
  /\ \A ours, synced \in BOOLEAN, data \in Data : File(ours, data, synced) \in FileType
  /\ NoResponse \in [body : Data, size : Nat] /\ Nothing \in [data : Data, digest : Data]
BY DEF NoFile, File, NoResponse, Nothing, FileType, Data

LEMMA CacheInitInv == CacheInit => CacheInv
BY FileTypes DEF CacheInit, CacheInv, CacheTypeInv, ReadInv, WholeInv, LockInv, ReturnedIsVouched, Accepted, Data,
   NoFile

-----------------------------------------------------------------------------
(* The call *)

LEMMA FailsInv == ASSUME CacheInv, NEW to \in {"failed"}, Fails(to) PROVE CacheInv'
BY FileTypes DEF Fails, bounds, CacheInv, CacheTypeInv, ReadInv, WholeInv, LockInv, ReturnedIsVouched,
   Accepted, AgreesWithLock, ValidZIP

LEMMA OpenInv == CacheInv /\ (Begin \/ UseCached \/ CachedRefused \/ NoRoom \/ CreateTemporary) => CacheInv'
<1> SUFFICES ASSUME CacheInv, Begin \/ UseCached \/ CachedRefused \/ NoRoom \/ CreateTemporary PROVE CacheInv'
  OBVIOUS
<1> USE FileTypes, BodyAssumption
       DEF CacheInv, CacheTypeInv, ReadInv, WholeInv, LockInv, ReturnedIsVouched, Accepted,
           AgreesWithLock, ValidZIP, Keeps, bounds
<1>1. CASE Begin
  <2>1. /\ pc' \in {"failed", "open"} /\ metadata' \in Nat
        /\ hash' = <<>> /\ held' = Nothing /\ temporary' = NoFile /\ response' = NoResponse
        /\ UNCHANGED <<served, archive, durable, lock, meddles, republished>>
    BY <1>1 DEF Begin
  <2>2. CacheTypeInv'
    BY <2>1, DataFacts
  <2> QED BY <2>1, <2>2
<1>2. CASE UseCached
  BY <1>2 DEF UseCached, FileType
<1>3. CASE CachedRefused \/ NoRoom
  BY <1>3, FailsInv DEF CachedRefused, NoRoom
<1>4. CASE CreateTemporary
  <2>1. temporary' \in FileType /\ temporary'.there
    BY <1>4, DataFacts DEF CreateTemporary, File
  <2> QED BY <1>4, <2>1 DEF CreateTemporary
<1> QED BY <1>1, <1>2, <1>3, <1>4

LEMMA DownloadInv == CacheInv /\ (Request \/ RequestRefused \/ Transient \/ ReadChunk \/ EndOfStream) => CacheInv'
<1> SUFFICES ASSUME CacheInv, Request \/ RequestRefused \/ Transient \/ ReadChunk \/ EndOfStream PROVE CacheInv'
  OBVIOUS
<1> USE FileTypes, BodyAssumption
       DEF CacheInv, CacheTypeInv, ReadInv, WholeInv, LockInv, ReturnedIsVouched, Accepted,
           AgreesWithLock, ValidZIP, Keeps, bounds
<1>1. CASE Request
  <2>1. /\ temporary' = [temporary EXCEPT !.data = <<>>] /\ hash' = <<>> /\ pc' = "read" /\ pc = "attempt"
        /\ UNCHANGED <<served, archive, durable, metadata, lock, bounds, attempt, held>>
    BY <1>1 DEF Request
  <2>2. temporary' \in FileType /\ temporary'.data = <<>> /\ temporary'.there = temporary.there
    BY <2>1, DataFacts DEF FileType
  <2>3. response' \in [body : Data, size : Nat]
    BY <1>1, AllData DEF Request
  <2> QED BY <2>1, <2>2, <2>3, DataFacts
<1>2. CASE RequestRefused
  BY <1>2, FailsInv DEF RequestRefused
<1>3. CASE Transient
  <2>1. CASE Fails("failed")
    BY <2>1, FailsInv
  <2>2. CASE ~Fails("failed")
    BY <1>3, <2>2, DataFacts DEF Transient
  <2> QED BY <2>1, <2>2
<1>4. CASE ReadChunk
  <2>1. response.body[Len(hash) + 1] \in Body \X Nat
    BY <1>4 DEF ReadChunk, Data
  <2>2. /\ hash' = Append(hash, response.body[Len(hash) + 1]) /\ pc = "read" /\ pc' = "read"
        /\ temporary' = [temporary EXCEPT !.data = Append(@, response.body[Len(hash) + 1])]
        /\ UNCHANGED <<served, archive, durable, metadata, lock, bounds, attempt, response, held>>
    BY <1>4 DEF ReadChunk
  <2>3. temporary' \in FileType /\ temporary'.data = hash' /\ temporary'.there = temporary.there /\ hash' \in Data
    BY <2>1, <2>2, DataFacts DEF FileType
  <2> QED BY <2>2, <2>3
<1>5. CASE EndOfStream
  BY <1>5, FailsInv DEF EndOfStream, Fits
<1> QED BY <1>1, <1>2, <1>3, <1>4, <1>5

LEMMA PublicationInv ==
  CacheInv /\ (Sync \/ Validate \/ PublishRefused \/ Publish \/ PublishUndone \/ SyncCache \/ SyncCacheFails) => CacheInv'
<1> SUFFICES ASSUME CacheInv,
                    \/ Sync \/ Validate \/ PublishRefused \/ Publish
                    \/ PublishUndone \/ SyncCache \/ SyncCacheFails
             PROVE  CacheInv'
  OBVIOUS
<1> USE FileTypes, BodyAssumption
       DEF CacheInv, CacheTypeInv, ReadInv, WholeInv, LockInv, ReturnedIsVouched, Accepted,
           AgreesWithLock, ValidZIP, Keeps, bounds
<1>1. CASE Sync
  <2>1. /\ temporary' \in FileType /\ temporary'.data = temporary.data
        /\ temporary'.there = temporary.there /\ temporary'.synced
    BY <1>1 DEF Sync, FileType
  <2> QED BY <1>1, <2>1 DEF Sync
<1>2. CASE Validate
  BY <1>2, FailsInv DEF Validate
<1>3. CASE PublishRefused
  BY <1>3, FailsInv DEF PublishRefused
<1>4. CASE Publish
  BY <1>4 DEF Publish, call
<1>5. CASE PublishUndone
  <2>1. ~NoFile.there /\ archive' = NoFile /\ durable' \in {durable, NoFile} /\ pc' = "failed" /\ temporary' = NoFile
    BY <1>5 DEF PublishUndone, NoFile
  <2>2. CacheTypeInv'
    BY <1>5, <2>1 DEF PublishUndone
  <2> QED BY <1>5, <2>1, <2>2 DEF PublishUndone
<1>6. CASE SyncCache
  BY <1>6 DEF SyncCache, FileType
<1>7. CASE SyncCacheFails
  BY <1>7 DEF SyncCacheFails, call
<1> QED BY <1>1, <1>2, <1>3, <1>4, <1>5, <1>6, <1>7

(* The caller, the disk and the registry *)
LEMMA AroundInv == CacheInv /\ (Record \/ GiveUp \/ Drop \/ Crash \/ Meddle \/ Republish) => CacheInv'
<1> SUFFICES ASSUME CacheInv, Record \/ GiveUp \/ Drop \/ Crash \/ Meddle \/ Republish PROVE CacheInv'
  OBVIOUS
<1> USE FileTypes, BodyAssumption
       DEF CacheInv, CacheTypeInv, ReadInv, WholeInv, LockInv, ReturnedIsVouched, Accepted,
           AgreesWithLock, ValidZIP, bounds
<1>1. CASE Record \/ GiveUp \/ Drop
  BY <1>1, DataFacts DEF Record, GiveUp, Drop, call
<1>2. CASE Crash
  <2>1. PICK f \in {archive, durable} :
          \/ archive' = f
          \/ /\ f.there /\ ~f.synced
             /\ \E n \in 0 .. Len(f.data) : archive' = [f EXCEPT !.data = SubSeq(@, 1, n)]
    BY <1>2 DEF Crash
  <2>2. archive' \in FileType
    <3>1. ASSUME NEW n \in 0 .. Len(f.data) PROVE [f EXCEPT !.data = SubSeq(@, 1, n)] \in FileType
      <4>1. f \in FileType /\ f.data \in Data
        BY DEF FileType
      <4>2. SubSeq(f.data, 1, n) \in Data
        BY <4>1, DataFacts
      <4> QED BY <4>1, <4>2 DEF FileType
    <3> QED BY <2>1, <3>1
  <2>3. meddles = 0 => archive' = f
    BY <2>1
  <2> QED BY <1>2, <2>2, <2>3 DEF Crash
<1>3. CASE Meddle
  <2>1. /\ archive' \in FileType /\ durable' \in FileType /\ temporary' \in FileType
        /\ temporary'.data = temporary.data /\ temporary'.there = temporary.there /\ temporary'.synced = temporary.synced
    <3>1. CASE \E f \in {NoFile} \cup {File(FALSE, data, TRUE) : data \in Contents} :
                 archive' = f /\ durable' = f /\ UNCHANGED temporary
      BY ZenonT(40), <3>1, ContentsData
    <3>2. CASE temporary' = [temporary EXCEPT !.ours = FALSE] /\ UNCHANGED <<archive, durable>>
      BY <3>2 DEF FileType
    <3> QED BY <1>3, <3>1, <3>2 DEF Meddle
  <2>2. /\ meddles' \in Nat /\ meddles' # 0
        /\ UNCHANGED <<served, pc, metadata, attempt, response, hash, held, lock, calls, republished>>
    BY <1>3 DEF Meddle
  <2> QED BY <2>1, <2>2
<1>4. CASE Republish
  BY <1>4 DEF Republish, call
<1> QED BY <1>1, <1>2, <1>3, <1>4

LEMMA CacheNextInv == CacheInv /\ [CacheNext]_cacheVars => CacheInv'
<1> SUFFICES ASSUME CacheInv, [CacheNext]_cacheVars PROVE CacheInv'
  OBVIOUS
<1>1. CASE UNCHANGED cacheVars
  BY <1>1 DEF cacheVars, call, bounds, CacheInv, CacheTypeInv, ReadInv, WholeInv, LockInv, ReturnedIsVouched,
     Accepted, AgreesWithLock, ValidZIP
<1> QED BY <1>1, OpenInv, DownloadInv, PublicationInv, AroundInv DEF CacheNext, Fetch

THEOREM CacheInvariance == CacheSpec => []CacheInv
BY CacheInitInv, CacheNextInv, PTL DEF CacheSpec

-----------------------------------------------------------------------------
(* What Fetch returns is a package of the size that was told, with its digest. *)
THEOREM Vouched == CacheSpec => []ReturnedIsVouched
<1>1. CacheInv => ReturnedIsVouched
  BY DEF CacheInv
<1> QED BY <1>1, CacheInvariance, PTL

(* Left alone, the name only ever stands for a whole package. *)
THEOREM Whole == CacheSpec => []NamedIsWhole
<1>1. CacheInv => NamedIsWhole
  BY DEF CacheInv, WholeInv, NamedIsWhole
<1> QED BY <1>1, CacheInvariance, PTL

(* A locked version keeps its bytes. *)
THEOREM Locked == CacheSpec => LockStands
<1>1. CacheInv /\ [CacheNext]_cacheVars => [lock # <<>> /\ lock' # <<>> => lock' = lock]_cacheVars
  <2> SUFFICES ASSUME CacheInv, CacheNext, lock # <<>>, lock' # <<>> PROVE lock' = lock
    OBVIOUS
  <2>1. CASE Record
    BY <2>1 DEF Record, CacheInv, LockInv, AgreesWithLock
  <2>2. CASE ~Record
    BY <2>2 DEF CacheNext, Fetch, UseCached, CachedRefused, NoRoom, CreateTemporary, Request,
       RequestRefused, Transient,
                ReadChunk, EndOfStream, Sync, Validate, PublishRefused, Publish, PublishUndone, SyncCache,
                SyncCacheFails, Begin, GiveUp, Drop, Crash, Meddle, Republish, Fails, Keeps
  <2> QED BY <2>1, <2>2
<1> QED BY <1>1, CacheInvariance, PTL DEF CacheSpec, LockStands

-----------------------------------------------------------------------------
(* The staged generation *)
Paths == Seq(STRING)
EntryType == [path : Paths, kind : STRING]

(* An unpacked archive is what its entries so far say. *)
Unpacked(tree, p, done) ==
  /\ \A q \in DOMAIN tree : \E i \in done : q = Output(p, i) \/ q \in Ancestors(Output(p, i))
  /\ \A q \in DOMAIN tree :
       tree[q] = Directory \/ \E i \in done : Entry(p, i).kind = "file" /\ q = Output(p, i)
  /\ \A i \in done : Entry(p, i).kind = "file" =>
       Output(p, i) \in DOMAIN tree /\ tree[Output(p, i)] = Holding(<<p, i>>)

(* The entries of the package of index j that are unpacked *)
DoneEntries(j) ==
  IF j < step THEN Chosen(Packages[j]) ELSE IF j = step THEN Chosen(Packages[j]) \ selected ELSE {}

(* What the package of index j has in the overlay *)
Target(p, i) == IF p = BepInEx THEN Output(p, i) ELSE PluginPath(Last(Entry(p, i).path))
Kept(p) == {i \in Chosen(p) : Entry(p, i).kind = "file" /\ (p = BepInEx => Managed(Output(p, i)))}
Share(p) == {<<Target(p, i), <<p, i>>>> : i \in Kept(p)}
FilesUpTo(k) == UNION {Share(Packages[j]) : j \in 1 .. k}

(* The assemblies of the package are those that are expected. *)
Exact(p) == {Output(p, i) : i \in Chosen(p)} = {<<name>> : name \in Allowed[p]}
ExactUpTo(k) == \A j \in 2 .. k : Exact(Packages[j])

(* A tree has these files, and no directory that holds none of them. *)
TreeOf(tree, fs) ==
  /\ FilesOf(tree) = {f[1] : f \in fs}
  /\ \A q \in FilesOf(tree) : <<q, tree[q].data>> \in fs
  /\ \A q \in DOMAIN tree : q \in FilesOf(tree) \/ \E f \in fs : Within(f[1], q)

StagingTypeInv ==
  /\ archives \in Inputs
  /\ status \in {"stage", "copy", "staged", "refused", "failed", "accepted", "rejected"}
  /\ status \in {"stage", "copy"} => ~edited

UnpackingInv ==
  status = "stage" =>
    /\ step \in 0 .. Len(Packages) /\ overlay = <<>> /\ files = {}
    /\ selected \subseteq (IF step = 0 THEN {} ELSE Chosen(Packages[step]))
    /\ DOMAIN unpacked = Range(Packages)
    /\ \A j \in 1 .. step : Extractable(Packages[j])
    /\ \A j \in 1 .. Len(Packages) : Unpacked(unpacked[Packages[j]], Packages[j], DoneEntries(j))

CopyingInv ==
  status = "copy" =>
    /\ step \in 1 .. Len(Packages)
    /\ \A j \in 1 .. Len(Packages) :
         Extractable(Packages[j]) /\ Unpacked(unpacked[Packages[j]], Packages[j], Chosen(Packages[j]))
    /\ ExactUpTo(step) /\ files = FilesUpTo(step) /\ TreeOf(overlay, files)

StagedInv ==
  status \in {"staged", "accepted", "rejected"} =>
    /\ \A j \in 1 .. Len(Packages) : Extractable(Packages[j])
    /\ ExactUpTo(Len(Packages)) /\ manifest = FilesUpTo(Len(Packages))
    /\ \A f, g \in manifest : f[1] = g[1] => f = g
    /\ status = "staged" => edited \/ TreeOf(overlay, manifest)
    /\ status = "accepted" => Verified
    /\ status = "rejected" => edited

StagingInv == StagingTypeInv /\ UnpackingInv /\ CopyingInv /\ StagedInv

-----------------------------------------------------------------------------
(* Paths *)

Prefix(a, b) == Len(a) <= Len(b) /\ \A k \in 1 .. Len(a) : a[k] = b[k]

LEMMA Singleton ==
  ASSUME NEW S, NEW x \in S
  PROVE  <<x>> \in Seq(S) /\ Len(<<x>>) = 1 /\ <<x>>[1] = x /\ <<x>> # <<>>
OBVIOUS

LEMMA More == ASSUME NEW n \in Nat, n > 1 PROVE n # 1 /\ n - 1 # 0
OBVIOUS

LEMMA SubSeqFacts ==
  ASSUME NEW a \in Paths, NEW n \in 1 .. Len(a)
  PROVE  /\ SubSeq(a, 1, n) \in Paths /\ Len(SubSeq(a, 1, n)) = n
         /\ \A k \in 1 .. n : SubSeq(a, 1, n)[k] = a[k]
<1>1. 1 \in Int /\ n \in Int /\ Len(a) \in Nat
  BY DEF Paths
<1>2. \A k \in 1 .. n : a[k] \in STRING
  BY <1>1 DEF Paths
<1>3. SubSeq(a, 1, n) \in Seq(STRING)
  BY <1>1, <1>2, SubSeqProperties
<1>4. Len(SubSeq(a, 1, n)) = IF 1 <= n THEN n - 1 + 1 ELSE 0
  BY <1>1, <1>2, SubSeqProperties
<1>5. \A k \in 1 .. n - 1 + 1 : SubSeq(a, 1, n)[k] = a[1 + k - 1]
  BY <1>1, <1>2, SubSeqProperties
<1> QED BY <1>1, <1>3, <1>4, <1>5 DEF Paths

LEMMA PrefixFacts ==
  ASSUME NEW a \in Paths, NEW b \in Paths
  PROVE  /\ IsPrefix(a, b) <=> Prefix(a, b)
         /\ IsStrictPrefix(a, b) <=> Prefix(a, b) /\ Len(a) < Len(b)
         /\ a = b <=> Prefix(a, b) /\ Len(a) = Len(b)
<1>1. Len(a) \in Nat /\ Len(b) \in Nat
  BY DEF Paths
<1>2. a = b <=> Prefix(a, b) /\ Len(a) = Len(b)
  BY <1>1, SeqEqual DEF Prefix, Paths
<1>3. IsPrefix(a, b) <=> Prefix(a, b)
  <2>1. CASE Len(a) = 0
    <3>1. SubSeq(a, 1, Len(a)) = <<>> /\ SubSeq(b, 1, Len(a)) = <<>>
      BY <2>1, <1>1, SubSeqEmpty DEF Paths
    <3> QED BY <2>1, <3>1, <1>1 DEF IsPrefix, Prefix
  <2>2. CASE Len(a) > 0 /\ Len(a) <= Len(b)
    <3>1. Len(a) \in 1 .. Len(a) /\ Len(a) \in 1 .. Len(b)
      BY <2>2, <1>1
    <3>2. /\ SubSeq(a, 1, Len(a)) \in Paths /\ Len(SubSeq(a, 1, Len(a))) = Len(a)
          /\ \A k \in 1 .. Len(a) : SubSeq(a, 1, Len(a))[k] = a[k]
      BY <3>1, SubSeqFacts
    <3>3. /\ SubSeq(b, 1, Len(a)) \in Paths /\ Len(SubSeq(b, 1, Len(a))) = Len(a)
          /\ \A k \in 1 .. Len(a) : SubSeq(b, 1, Len(a))[k] = b[k]
      BY <3>1, SubSeqFacts
    <3>4. SubSeq(a, 1, Len(a)) = SubSeq(b, 1, Len(a)) <=> \A k \in 1 .. Len(a) : a[k] = b[k]
      BY <3>2, <3>3, SeqEqual DEF Paths
    <3> QED BY <2>2, <3>4 DEF IsPrefix, Prefix
  <2>3. CASE ~(Len(a) <= Len(b))
    BY <2>3 DEF IsPrefix, Prefix
  <2> QED BY <1>1, <2>1, <2>2, <2>3
<1> QED BY <1>1, <1>2, <1>3 DEF IsStrictPrefix, Prefix

LEMMA AncestorFacts ==
  ASSUME NEW b \in Paths
  PROVE  \A q : q \in Ancestors(b) <=> q \in Paths /\ q # <<>> /\ IsStrictPrefix(q, b)
<1>1. Len(b) \in Nat
  BY DEF Paths
<1>2. ASSUME NEW q \in Ancestors(b) PROVE q \in Paths /\ q # <<>> /\ IsStrictPrefix(q, b)
  <2>1. PICK n \in 1 .. Len(b) - 1 : q = SubSeq(b, 1, n)
    BY DEF Ancestors
  <2>2. n \in 1 .. Len(b)
    BY <1>1
  <2>3. q \in Paths /\ Len(q) = n /\ \A k \in 1 .. n : q[k] = b[k]
    BY <2>1, <2>2, SubSeqFacts
  <2>4. n > 0 /\ n < Len(b)
    BY <1>1
  <2>5. Prefix(q, b)
    BY <2>3, <2>4 DEF Prefix
  <2> QED BY <2>3, <2>4, <2>5, PrefixFacts
<1>3. ASSUME NEW q, q \in Paths, q # <<>>, IsStrictPrefix(q, b) PROVE q \in Ancestors(b)
  <2>1. Prefix(q, b) /\ Len(q) < Len(b) /\ Len(q) \in Nat
    BY <1>3, PrefixFacts DEF Paths
  <2>2. Len(q) # 0
    BY <1>3 DEF Paths
  <2>3. Len(q) \in 1 .. Len(b) - 1 /\ Len(q) \in 1 .. Len(b)
    BY <1>1, <2>1, <2>2
  <2>4. /\ SubSeq(b, 1, Len(q)) \in Paths /\ Len(SubSeq(b, 1, Len(q))) = Len(q)
        /\ \A k \in 1 .. Len(q) : SubSeq(b, 1, Len(q))[k] = b[k]
    BY <2>3, SubSeqFacts
  <2>5. Prefix(q, SubSeq(b, 1, Len(q)))
    BY <2>1, <2>4 DEF Prefix
  <2>6. q = SubSeq(b, 1, Len(q))
    BY <1>3, <2>4, <2>5, PrefixFacts
  <2> QED BY <2>3, <2>6 DEF Ancestors
<1> QED BY <1>2, <1>3

(* Without their first part paths are in each other as they were. *)
LEMMA TailFacts ==
  ASSUME NEW a \in Paths, NEW b \in Paths, a # <<>>, b # <<>>
  PROVE  /\ Tail(a) \in Paths /\ Len(Tail(a)) = Len(a) - 1 /\ (Len(a) > 1 => Tail(a) # <<>>)
         /\ a[1] = b[1] /\ Tail(a) = Tail(b) => a = b
         /\ a[1] = b[1] /\ IsStrictPrefix(Tail(a), Tail(b)) => IsStrictPrefix(a, b)
<1>1. /\ Tail(a) \in Paths /\ Len(Tail(a)) = Len(a) - 1 /\ \A k \in 1 .. Len(Tail(a)) : Tail(a)[k] = a[k + 1]
  BY HeadTailProperties DEF Paths
<1>2. /\ Tail(b) \in Paths /\ Len(Tail(b)) = Len(b) - 1 /\ \A k \in 1 .. Len(Tail(b)) : Tail(b)[k] = b[k + 1]
  BY HeadTailProperties DEF Paths
<1>3. Len(a) \in Nat \ {0} /\ Len(b) \in Nat \ {0}
  BY DEF Paths
<1>4. ASSUME a[1] = b[1], Prefix(Tail(a), Tail(b)) PROVE Prefix(a, b)
  <2>1. Len(a) <= Len(b)
    BY <1>1, <1>2, <1>3, <1>4 DEF Prefix
  <2>2. ASSUME NEW k \in 1 .. Len(a), k # 1 PROVE a[k] = b[k]
    <3>1. k - 1 \in 1 .. Len(Tail(a)) /\ k - 1 \in 1 .. Len(Tail(b)) /\ (k - 1) + 1 = k
      BY <1>1, <1>2, <1>3, <2>1, <2>2
    <3>2. Tail(a)[k - 1] = a[(k - 1) + 1] /\ Tail(b)[k - 1] = b[(k - 1) + 1]
      BY <1>1, <1>2, <3>1
    <3>3. Tail(a)[k - 1] = Tail(b)[k - 1]
      BY <1>4, <3>1 DEF Prefix
    <3> QED BY <3>1, <3>2, <3>3
  <2> QED BY <1>4, <2>1, <2>2 DEF Prefix
<1>5. a[1] = b[1] /\ Tail(a) = Tail(b) => a = b
  <2>1. Tail(a) = Tail(b) => Prefix(Tail(a), Tail(b)) /\ Len(Tail(a)) = Len(Tail(b))
    BY <1>1, <1>2, PrefixFacts
  <2>2. Len(a) - 1 = Len(b) - 1 => Len(a) = Len(b)
    BY <1>3
  <2>3. Len(Tail(a)) = Len(Tail(b)) => Len(a) = Len(b)
    BY <1>1, <1>2, <2>2, Zenon
  <2> QED BY <1>4, <2>1, <2>3, PrefixFacts
<1>6. a[1] = b[1] /\ IsStrictPrefix(Tail(a), Tail(b)) => IsStrictPrefix(a, b)
  <2>1. IsStrictPrefix(Tail(a), Tail(b)) => Prefix(Tail(a), Tail(b)) /\ Len(Tail(a)) < Len(Tail(b))
    BY <1>1, <1>2, PrefixFacts
  <2>2. Len(Tail(a)) < Len(Tail(b)) => Len(a) < Len(b)
    BY <1>1, <1>2, <1>3
  <2> QED BY <1>4, <2>1, <2>2, PrefixFacts
<1>7. Len(a) > 1 => Tail(a) # <<>>
  <2>1. Len(a) > 1 => Len(a) - 1 # 0
    BY <1>3, More, Zenon
  <2> QED BY <1>1, <2>1, EmptySeq, Zenon
<1> QED BY <1>1, <1>5, <1>6, <1>7

(* Of two prefixes of a path one is a prefix of the other. *)
LEMMA PrefixesMeet ==
  ASSUME NEW a \in Paths, NEW b \in Paths, NEW c \in Paths, IsPrefix(a, c), IsPrefix(b, c)
  PROVE  IsPrefix(a, b) \/ IsPrefix(b, a)
<1>1. Len(a) \in Nat /\ Len(b) \in Nat /\ Prefix(a, c) /\ Prefix(b, c)
  BY PrefixFacts DEF Paths
<1>2. Prefix(a, b) \/ Prefix(b, a)
  BY <1>1 DEF Prefix
<1> QED BY <1>2, PrefixFacts

LEMMA PrefixTransitive ==
  ASSUME NEW a \in Paths, NEW b \in Paths, NEW c \in Paths
  PROVE  /\ IsPrefix(a, b) /\ IsPrefix(b, c) => IsPrefix(a, c)
         /\ IsStrictPrefix(a, b) /\ IsStrictPrefix(b, c) => IsStrictPrefix(a, c)
         /\ IsStrictPrefix(a, b) => ~IsPrefix(b, a) /\ IsPrefix(a, b)
<1>1. Len(a) \in Nat /\ Len(b) \in Nat /\ Len(c) \in Nat
  BY DEF Paths
<1>2. Prefix(a, b) /\ Prefix(b, c) => Prefix(a, c)
  BY <1>1 DEF Prefix
<1> QED BY <1>1, <1>2, PrefixFacts DEF Prefix

-----------------------------------------------------------------------------
(* Packages and their archives *)

LEMMA PackagesFacts ==
  /\ Len(Packages) \in Nat \ {0} /\ Packages[1] = BepInEx
  /\ Range(Packages) = {Packages[j] : j \in 1 .. Len(Packages)}
  /\ \A j \in 1 .. Len(Packages) : Packages[j] \in Range(Packages)
  /\ \A j \in 2 .. Len(Packages) : Packages[j] \in Range(Plugins) /\ Packages[j] # BepInEx
  /\ \A j, k \in 1 .. Len(Packages) : Packages[j] = Packages[k] => j = k
<1> DEFINE S == Range(Plugins) \cup {BepInEx}
<1>1. Plugins \in Seq(S) /\ <<BepInEx>> \in Seq(S) /\ Len(<<BepInEx>>) = 1 /\ <<BepInEx>>[1] = BepInEx
  BY PluginAssumption, SeqMonotonic
<1>2. /\ Packages \in Seq(S) /\ Len(Packages) = 1 + Len(Plugins)
      /\ \A i \in 1 .. 1 + Len(Plugins) :
           Packages[i] = IF i <= 1 THEN <<BepInEx>>[i] ELSE Plugins[i - 1]
  BY <1>1, ConcatProperties DEF Packages
<1> HIDE DEF S
<1>3. Len(Plugins) \in Nat /\ DOMAIN Plugins = 1 .. Len(Plugins) /\ DOMAIN Packages = 1 .. Len(Packages)
  BY <1>1, <1>2
<1>4. Len(Packages) \in Nat \ {0} /\ Packages[1] = BepInEx
  BY <1>1, <1>2, <1>3
<1>5. ASSUME NEW j \in 2 .. Len(Packages)
      PROVE  /\ j - 1 \in 1 .. Len(Plugins) /\ Packages[j] = Plugins[j - 1]
             /\ Packages[j] \in Range(Plugins) /\ Packages[j] # BepInEx
  <2>1. j \in 1 .. 1 + Len(Plugins) /\ ~(j <= 1) /\ j - 1 \in 1 .. Len(Plugins)
    BY <1>2, <1>3
  <2>2. Packages[j] = Plugins[j - 1]
    BY <1>2, <2>1
  <2>3. Plugins[j - 1] \in Range(Plugins)
    BY <1>3, <2>1 DEF Range
  <2> QED BY <2>1, <2>2, <2>3, PluginAssumption
<1>6. ASSUME NEW j \in 1 .. Len(Packages), NEW k \in 1 .. Len(Packages), Packages[j] = Packages[k]
      PROVE  j = k
  <2>1. CASE j = 1 \/ k = 1
    <3>1. j = 1 \/ j \in 2 .. Len(Packages)
      BY <1>4
    <3>2. k = 1 \/ k \in 2 .. Len(Packages)
      BY <1>4
    <3> QED BY <1>4, <1>5, <1>6, <2>1, <3>1, <3>2
  <2>2. CASE j # 1 /\ k # 1
    <3>1. j \in 2 .. Len(Packages) /\ k \in 2 .. Len(Packages)
      BY <1>4, <2>2
    <3>2. Plugins[j - 1] = Plugins[k - 1] /\ j - 1 \in DOMAIN Plugins /\ k - 1 \in DOMAIN Plugins
      BY <1>3, <1>5, <1>6, <3>1
    <3>3. j - 1 = k - 1
      BY <3>2, PluginAssumption DEF IsInjective
    <3> QED BY <3>1, <3>3
  <2> QED BY <2>1, <2>2
<1>7. Range(Packages) = {Packages[j] : j \in 1 .. Len(Packages)}
  BY <1>3 DEF Range
<1> QED BY <1>4, <1>5, <1>6, <1>7

LEMMA ArchiveFacts ==
  ASSUME archives \in Inputs, NEW p \in Range(Packages)
  PROVE  /\ archives[p].entries \in Seq(EntryType) /\ DOMAIN archives[p].entries \in SUBSET Nat
         /\ \A i \in DOMAIN archives[p].entries :
              Entry(p, i) = archives[p].entries[i] /\ Entry(p, i).path \in Paths /\ Entry(p, i).kind \in STRING
         /\ Chosen(p) \subseteq DOMAIN archives[p].entries
<1>1. archives[p] \in [entries : Seq(EntryType), intact : BOOLEAN]
  BY InputAssumption DEF EntryType, Paths
<1>2. archives[p].entries \in Seq(EntryType)
  BY <1>1
<1>3. DOMAIN archives[p].entries = 1 .. Len(archives[p].entries) /\ Len(archives[p].entries) \in Nat
  BY <1>2
<1>4. \A i \in DOMAIN archives[p].entries : archives[p].entries[i] \in EntryType
  BY <1>2, <1>3, ElementOfSeq
<1> QED BY <1>2, <1>3, <1>4 DEF Entry, EntryType, Chosen

(* What is unpacked of an archive that was inspected never meets. *)
LEMMA OutputFacts ==
  ASSUME archives \in Inputs, NEW p \in Range(Packages), Extractable(p)
  PROVE  /\ \A i \in Chosen(p) :
              /\ Output(p, i) \in Paths /\ Output(p, i) # <<>> /\ Entry(p, i).kind \in {"file", "dir"}
              /\ p # BepInEx =>
                   /\ Entry(p, i).kind = "file" /\ Last(Entry(p, i).path) \in STRING
                   /\ Output(p, i) = <<Last(Entry(p, i).path)>>
              /\ p = BepInEx =>
                   Entry(p, i).path[1] = Wrapper /\ Len(Entry(p, i).path) > 1 /\ Output(p, i) = Tail(Entry(p, i).path)
         /\ \A i, j \in Chosen(p) : Output(p, i) = Output(p, j) => i = j
         /\ \A i, j \in Chosen(p) : Entry(p, i).kind = "file" => Output(p, i) \notin Ancestors(Output(p, j))
<1> DEFINE e == archives[p].entries
<1>1. /\ \A i \in DOMAIN e : Entry(p, i) = e[i] /\ Entry(p, i).path \in Paths /\ Chosen(p) \subseteq DOMAIN e
      /\ DOMAIN e \in SUBSET Nat
  BY ArchiveFacts
<1>2. /\ \A i \in DOMAIN e : e[i].path # <<>> /\ e[i].kind \in {"file", "dir"}
      /\ \A i, j \in DOMAIN e : i # j => e[i].path # e[j].path
      /\ \A i, j \in DOMAIN e : e[i].kind = "file" => ~IsStrictPrefix(e[i].path, e[j].path)
  BY DEF Extractable, Inspect, Safe
<1>3. CASE p = BepInEx
  <2>1. \A i \in DOMAIN e :
          IF Len(e[i].path) = 1 THEN e[i].kind = "dir" => e[i].path = <<Wrapper>> ELSE e[i].path[1] = Wrapper
    BY <1>3 DEF Extractable, LoaderFits
  <2>2. ASSUME NEW i \in Chosen(p)
        PROVE  /\ i \in DOMAIN e /\ Len(e[i].path) > 1 /\ e[i].path[1] = Wrapper /\ e[i].path \in Paths
               /\ Output(p, i) = Tail(e[i].path) /\ e[i].path # <<>>
    <3>1. i \in DOMAIN e /\ Len(e[i].path) > 1 /\ e[i].path \in Paths /\ Output(p, i) = Tail(e[i].path)
      BY <1>1, <1>3 DEF Chosen, Output
    <3>2. ~(Len(e[i].path) = 1)
      <4>1. Len(e[i].path) \in Nat
        BY <3>1, LenProperties, Zenon DEF Paths
      <4> QED BY <3>1, <4>1, More, Zenon
    <3> QED BY <1>2, <2>1, <3>1, <3>2
  <2>3. ASSUME NEW i \in Chosen(p) PROVE Output(p, i) \in Paths /\ Output(p, i) # <<>>
    <3>1. PICK a \in Paths : a = e[i].path
      BY <2>2
    <3>2. a # <<>> /\ Len(a) > 1 /\ Output(p, i) = Tail(a)
      BY <2>2, <3>1
    <3>3. Tail(a) \in Paths /\ Tail(a) # <<>>
      BY <3>2, TailFacts
    <3> QED BY <3>2, <3>3
  <2>4. ASSUME NEW i \in Chosen(p), NEW j \in Chosen(p), Output(p, i) = Output(p, j) PROVE i = j
    <3>1. PICK a \in Paths : a = e[i].path
      BY <2>2
    <3>2. PICK b \in Paths : b = e[j].path
      BY <2>2
    <3>3. a # <<>> /\ b # <<>> /\ a[1] = b[1] /\ Tail(a) = Tail(b)
      BY <2>2, <2>4, <3>1, <3>2
    <3>4. a = b
      BY <3>3, TailFacts
    <3> QED BY <1>2, <2>2, <3>1, <3>2, <3>4
  <2>5. ASSUME NEW i \in Chosen(p), NEW j \in Chosen(p), Entry(p, i).kind = "file"
        PROVE  Output(p, i) \notin Ancestors(Output(p, j))
    <3>1. ~IsStrictPrefix(e[i].path, e[j].path)
      BY <1>1, <1>2, <2>2, <2>5
    <3>2. PICK a \in Paths : a = e[i].path
      BY <2>2
    <3>3. PICK b \in Paths : b = e[j].path
      BY <2>2
    <3>4. a # <<>> /\ b # <<>> /\ a[1] = b[1] /\ ~IsStrictPrefix(a, b)
      BY <2>2, <3>1, <3>2, <3>3
    <3>5. ~IsStrictPrefix(Tail(a), Tail(b))
      BY <3>4, TailFacts
    <3>6. ~IsStrictPrefix(Output(p, i), Output(p, j))
      BY <2>2, <3>2, <3>3, <3>5
    <3> QED BY <2>3, <3>6, AncestorFacts
  <2> QED BY <1>1, <1>2, <1>3, <2>2, <2>3, <2>4, <2>5
<1>4. CASE p # BepInEx
  <2>1. \A i, j \in DOMAIN e :
          Assembly(e[i]) /\ Assembly(e[j]) /\ Lower[Last(e[i].path)] = Lower[Last(e[j].path)] => i = j
    BY <1>4 DEF Extractable, PluginFits
  <2>2. ASSUME NEW i \in Chosen(p)
        PROVE  /\ i \in DOMAIN e /\ Assembly(e[i]) /\ e[i].kind = "file" /\ Last(e[i].path) \in STRING
               /\ Output(p, i) = <<Last(e[i].path)>>
    BY <1>1, <1>4, PluginAssumption DEF Chosen, Output, Assembly
  <2>3. ASSUME NEW i \in Chosen(p)
        PROVE  Output(p, i) \in Paths /\ Output(p, i) # <<>> /\ Len(Output(p, i)) = 1
    <3>1. PICK name \in STRING : name = Last(e[i].path)
      BY <2>2
    <3>2. <<name>> \in Seq(STRING) /\ <<name>> # <<>> /\ Len(<<name>>) = 1
      BY Singleton
    <3> QED BY <2>2, <3>1, <3>2 DEF Paths
  <2>4. ASSUME NEW i \in Chosen(p), NEW j \in Chosen(p), Output(p, i) = Output(p, j) PROVE i = j
    <3>1. Last(e[i].path) = Last(e[j].path)
      BY <2>2, <2>4
    <3> QED BY <2>1, <2>2, <3>1
  <2>5. ASSUME NEW i \in Chosen(p), NEW j \in Chosen(p) PROVE Output(p, i) \notin Ancestors(Output(p, j))
    <3>1. ~IsStrictPrefix(Output(p, i), Output(p, j))
      BY <2>3, PrefixFacts
    <3> QED BY <2>3, <3>1, AncestorFacts
  <2> QED BY <1>1, <1>2, <1>4, <2>2, <2>3, <2>4, <2>5
<1> QED BY <1>3, <1>4

LEMMA FirstIndex ==
  ASSUME NEW s \in SUBSET Nat, s # {}
  PROVE  (CHOOSE i \in s : \A j \in s : i <= j) \in s
<1>1. PICK i \in s : \A j \in s : ~(<<j, i>> \in OpToRel(<, Nat))
  BY NatLessThanWellFounded, WFMin
<1>2. ASSUME NEW j \in s PROVE i <= j
  <2>1. ~(j < i)
    BY <1>1 DEF OpToRel
  <2> QED BY <2>1
<1> QED BY <1>2

-----------------------------------------------------------------------------
(* Unpacking *)

LEMMA NodeFacts ==
  /\ Directory.dir = TRUE
  /\ \A data : Holding(data).dir = FALSE /\ Holding(data).data = data /\ Holding(data) # Directory
BY DEF Directory, Holding

(* The files of an unpacked archive *)
LEMMA UnpackedFiles ==
  ASSUME NEW tree, NEW p, NEW done, Unpacked(tree, p, done)
  PROVE  /\ FilesOf(tree) = {Output(p, i) : i \in {j \in done : Entry(p, j).kind = "file"}}
         /\ \A i \in done : Entry(p, i).kind = "file" => tree[Output(p, i)].data = <<p, i>>
<1>1. ASSUME NEW q \in FilesOf(tree) PROVE \E i \in done : Entry(p, i).kind = "file" /\ q = Output(p, i)
  BY NodeFacts DEF Unpacked, FilesOf
<1>2. ASSUME NEW i \in done, Entry(p, i).kind = "file"
      PROVE  Output(p, i) \in FilesOf(tree) /\ tree[Output(p, i)].data = <<p, i>>
  BY <1>2, NodeFacts DEF Unpacked, FilesOf
<1> QED BY <1>1, <1>2

(* The next entry meets none before it. *)
LEMMA EntryFits ==
  ASSUME archives \in Inputs, NEW p \in Range(Packages), Extractable(p),
         NEW tree, NEW done \in SUBSET Chosen(p), NEW i \in Chosen(p) \ done, Unpacked(tree, p, done)
  PROVE  /\ ~Blocked(tree, Output(p, i))
         /\ Output(p, i) \in DOMAIN tree => Entry(p, i).kind = "dir" /\ tree[Output(p, i)].dir
<1>1. /\ \A j \in Chosen(p) : Output(p, j) \in Paths /\ Output(p, j) # <<>> /\ Entry(p, j).kind \in {"file", "dir"}
      /\ \A j, k \in Chosen(p) : Output(p, j) = Output(p, k) => j = k
      /\ \A j, k \in Chosen(p) : Entry(p, j).kind = "file" => Output(p, j) \notin Ancestors(Output(p, k))
  BY OutputFacts
<1>2. ~Blocked(tree, Output(p, i))
  <2> SUFFICES ASSUME NEW q \in Ancestors(Output(p, i)), q \in DOMAIN tree, ~tree[q].dir PROVE FALSE
    BY DEF Blocked
  <2>1. PICK j \in done : Entry(p, j).kind = "file" /\ q = Output(p, j)
    BY NodeFacts DEF Unpacked
  <2> QED BY <1>1, <2>1
<1>3. ASSUME Output(p, i) \in DOMAIN tree PROVE Entry(p, i).kind = "dir" /\ tree[Output(p, i)].dir
  <2>1. PICK j \in done : Output(p, i) = Output(p, j) \/ Output(p, i) \in Ancestors(Output(p, j))
    BY <1>3 DEF Unpacked
  <2>2. Entry(p, i).kind # "file"
    BY <1>1, <2>1
  <2>3. ~ \E k \in done : Output(p, i) = Output(p, k)
    BY <1>1
  <2>4. tree[Output(p, i)] = Directory
    BY <1>3, <2>3 DEF Unpacked
  <2> QED BY <1>1, <2>2, <2>4, NodeFacts
<1> QED BY <1>2, <1>3

LEMMA DirectoryUnpacked ==
  ASSUME archives \in Inputs, NEW p \in Range(Packages), Extractable(p),
         NEW tree, NEW done \in SUBSET Chosen(p), NEW i \in Chosen(p) \ done, Unpacked(tree, p, done),
         Entry(p, i).kind = "dir"
  PROVE  Unpacked(With(tree, Ancestors(Output(p, i)) \cup {Output(p, i)}, Directory), p, done \cup {i})
<1> DEFINE new == Ancestors(Output(p, i)) \cup {Output(p, i)}
           grown == With(tree, new, Directory)
<1>1. DOMAIN grown = DOMAIN tree \cup new
  BY DEF With
<1>2. \A q \in DOMAIN grown : grown[q] = IF q \in DOMAIN tree THEN tree[q] ELSE Directory
  BY DEF With
<1> HIDE DEF grown
<1>3. \A q \in DOMAIN grown : \E j \in done \cup {i} : q = Output(p, j) \/ q \in Ancestors(Output(p, j))
  BY <1>1 DEF Unpacked
<1>4. \A q \in DOMAIN grown :
        grown[q] = Directory \/ \E j \in done \cup {i} : Entry(p, j).kind = "file" /\ q = Output(p, j)
  BY <1>1, <1>2 DEF Unpacked
<1>5. \A j \in done \cup {i} : Entry(p, j).kind = "file" =>
        Output(p, j) \in DOMAIN grown /\ grown[Output(p, j)] = Holding(<<p, j>>)
  BY <1>1, <1>2 DEF Unpacked
<1>6. Unpacked(grown, p, done \cup {i})
  BY <1>3, <1>4, <1>5 DEF Unpacked
<1> QED BY <1>6 DEF grown

LEMMA FileUnpacked ==
  ASSUME archives \in Inputs, NEW p \in Range(Packages), Extractable(p),
         NEW tree, NEW done \in SUBSET Chosen(p), NEW i \in Chosen(p) \ done, Unpacked(tree, p, done),
         Entry(p, i).kind = "file"
  PROVE  Unpacked(WithFile(tree, Output(p, i), <<p, i>>), p, done \cup {i})
<1> DEFINE above == Ancestors(Output(p, i))
           grown == WithFile(tree, Output(p, i), <<p, i>>)
<1>1. DOMAIN grown = DOMAIN tree \cup above \cup {Output(p, i)}
  BY DEF WithFile, With
<1>2. \A q \in DOMAIN grown :
        grown[q] = IF q = Output(p, i) THEN Holding(<<p, i>>) ELSE IF q \in DOMAIN tree THEN tree[q] ELSE Directory
  BY DEF WithFile, With
<1> HIDE DEF grown
<1>3. \A q \in DOMAIN grown : \E j \in done \cup {i} : q = Output(p, j) \/ q \in Ancestors(Output(p, j))
  BY <1>1 DEF Unpacked
<1>4. \A q \in DOMAIN grown :
        grown[q] = Directory \/ \E j \in done \cup {i} : Entry(p, j).kind = "file" /\ q = Output(p, j)
  BY <1>1, <1>2 DEF Unpacked
<1>5. \A j \in done : Output(p, j) # Output(p, i)
  BY OutputFacts
<1>6. \A j \in done \cup {i} : Entry(p, j).kind = "file" =>
        Output(p, j) \in DOMAIN grown /\ grown[Output(p, j)] = Holding(<<p, j>>)
  BY <1>1, <1>2, <1>5 DEF Unpacked
<1>7. Unpacked(grown, p, done \cup {i})
  BY <1>3, <1>4, <1>6 DEF Unpacked
<1> QED BY <1>7 DEF grown

LEMMA ArchivesKept ==
  ASSUME archives' = archives
  PROVE  /\ \A p, i : Entry(p, i)' = Entry(p, i) /\ Output(p, i)' = Output(p, i) /\ Target(p, i)' = Target(p, i)
         /\ \A p : Chosen(p)' = Chosen(p) /\ Share(p)' = Share(p) /\ (Extractable(p)' <=> Extractable(p))
         /\ \A p : Exact(p)' <=> Exact(p)
<1>1. \A p, i : Entry(p, i)' = Entry(p, i)
  BY DEF Entry
<1>2. \A p, i : Output(p, i)' = Output(p, i) /\ Target(p, i)' = Target(p, i)
  BY <1>1 DEF Output, Target
<1>3. \A p : Chosen(p)' = Chosen(p)
  BY <1>1 DEF Chosen
<1>4. \A p : Kept(p)' = Kept(p)
  BY <1>1, <1>2, <1>3 DEF Kept
<1>5. \A p : Share(p)' = Share(p)
  BY <1>2, <1>4 DEF Share
<1>6. \A p : Extractable(p)' <=> Extractable(p)
  BY DEF Extractable
<1>7. \A p : Exact(p)' <=> Exact(p)
  BY <1>2, <1>3 DEF Exact
<1> QED BY <1>1, <1>2, <1>3, <1>5, <1>6, <1>7

LEMMA StagingInitInv == StagingInit => StagingInv
<1> SUFFICES ASSUME StagingInit PROVE StagingInv
  OBVIOUS
<1>1. /\ archives \in Inputs /\ step = 0 /\ selected = {} /\ unpacked = [p \in Range(Packages) |-> <<>>]
      /\ overlay = <<>> /\ files = {} /\ status = "stage" /\ edited = FALSE
  BY DEF StagingInit
<1>2. \A j \in 1 .. Len(Packages) : unpacked[Packages[j]] = <<>> /\ DoneEntries(j) = {}
  BY <1>1, PackagesFacts DEF DoneEntries
<1>3. \A p : Unpacked(<<>>, p, {})
  BY DEF Unpacked
<1>4. \A j \in 1 .. Len(Packages) : Unpacked(unpacked[Packages[j]], Packages[j], DoneEntries(j))
  BY <1>2, <1>3
<1>5. step \in 0 .. Len(Packages) /\ 1 .. step = {}
  BY <1>1, PackagesFacts
<1>6. UnpackingInv
  BY <1>1, <1>4, <1>5 DEF UnpackingInv
<1> QED BY <1>1, <1>6 DEF StagingInv, StagingTypeInv, CopyingInv, StagedInv

LEMMA AbandonKeeps ==
  ASSUME StagingInv, NEW to \in {"refused", "failed"}, Abandon(to)
  PROVE  StagingInv'
BY DEF StagingInv, StagingTypeInv, UnpackingInv, CopyingInv, StagedInv, Abandon

LEMMA OpenArchiveKeeps == ASSUME StagingInv, OpenArchive PROVE StagingInv'
<1>1. /\ status = "stage" /\ step \in 0 .. Len(Packages) /\ step < Len(Packages) /\ selected = {}
      /\ Extractable(Packages[step + 1]) /\ step' = step + 1 /\ selected' = Chosen(Packages[step + 1])
      /\ UNCHANGED <<archives, unpacked, overlay, template, files, manifest, status, edited>>
  BY DEF OpenArchive, StagingInv, UnpackingInv
<1>2. /\ overlay = <<>> /\ files = {} /\ DOMAIN unpacked = Range(Packages)
      /\ \A j \in 1 .. step : Extractable(Packages[j])
      /\ \A j \in 1 .. Len(Packages) : Unpacked(unpacked[Packages[j]], Packages[j], DoneEntries(j))
  BY <1>1 DEF StagingInv, UnpackingInv
<1>3. \A p : Chosen(p)' = Chosen(p) /\ (Extractable(p)' <=> Extractable(p))
  BY <1>1, ArchivesKept
<1>4. \A p, i : Entry(p, i)' = Entry(p, i) /\ Output(p, i)' = Output(p, i)
  BY <1>1, ArchivesKept
<1>5. step' \in 0 .. Len(Packages) /\ step' # 0 /\ step' \in 1 .. Len(Packages)
  BY <1>1, PackagesFacts
<1>6. ASSUME NEW j \in 1 .. Len(Packages) PROVE DoneEntries(j)' = DoneEntries(j)
  <2>1. j < step \/ j = step \/ j = step + 1 \/ j > step + 1
    BY <1>1, PackagesFacts
  <2>2. CASE j < step
    <3>1. j < step + 1
      BY <1>1, <2>2
    <3> QED BY <1>1, <1>3, <2>2, <3>1 DEF DoneEntries
  <2>3. CASE j = step
    <3>1. j < step + 1 /\ ~(j < step)
      BY <1>1, <2>3
    <3> QED BY <1>1, <1>3, <2>3, <3>1 DEF DoneEntries
  <2>4. CASE j = step + 1
    <3>1. ~(j < step + 1) /\ ~(j < step) /\ j # step
      BY <1>1, <2>4
    <3> QED BY <1>1, <1>3, <2>4, <3>1 DEF DoneEntries
  <2>5. CASE j > step + 1
    <3>1. ~(j < step + 1) /\ ~(j < step) /\ j # step /\ j # step + 1
      BY <1>1, <2>5
    <3> QED BY <1>1, <3>1 DEF DoneEntries
  <2> QED BY <2>1, <2>2, <2>3, <2>4, <2>5
<1>7. \A j \in 1 .. Len(Packages) : Unpacked(unpacked[Packages[j]], Packages[j], DoneEntries(j))'
  BY <1>1, <1>2, <1>4, <1>6 DEF Unpacked
<1>8. \A j \in 1 .. step' : Extractable(Packages[j])'
  <2>1. \A j \in 1 .. step' : j \in 1 .. step \/ j = step + 1
    BY <1>1
  <2> QED BY <1>1, <1>2, <1>3, <2>1
<1>9. UnpackingInv'
  BY <1>1, <1>2, <1>3, <1>5, <1>7, <1>8 DEF UnpackingInv
<1> QED BY <1>1, <1>9 DEF StagingInv, StagingTypeInv, CopyingInv, StagedInv

(* The entry at work, in a state where there is one *)
LEMMA WorkFacts ==
  ASSUME StagingInv, status = "stage", selected # {}
  PROVE  /\ step \in 1 .. Len(Packages) /\ AtWork \in Range(Packages) /\ AtWork = Packages[step]
         /\ Extractable(AtWork) /\ archives \in Inputs
         /\ selected \subseteq Chosen(AtWork) /\ Index \in selected
         /\ DoneEntries(step) = Chosen(AtWork) \ selected
         /\ Unpacked(Tree, AtWork, Chosen(AtWork) \ selected)
<1>1. /\ step \in 0 .. Len(Packages) /\ selected \subseteq (IF step = 0 THEN {} ELSE Chosen(Packages[step]))
      /\ \A j \in 1 .. step : Extractable(Packages[j])
      /\ \A j \in 1 .. Len(Packages) : Unpacked(unpacked[Packages[j]], Packages[j], DoneEntries(j))
      /\ archives \in Inputs
  BY DEF StagingInv, StagingTypeInv, UnpackingInv
<1>2. step # 0 /\ step \in 1 .. Len(Packages) /\ step \in 1 .. step /\ ~(step < step)
  BY <1>1, PackagesFacts
<1>3. AtWork = Packages[step] /\ AtWork \in Range(Packages) /\ Extractable(AtWork)
  BY <1>1, <1>2, PackagesFacts DEF AtWork
<1>4. selected \subseteq Chosen(AtWork) /\ selected \in SUBSET Nat
  BY <1>1, <1>2, <1>3, ArchiveFacts
<1>5. Index \in selected
  BY <1>4, FirstIndex, Zenon DEF Index
<1>6. DoneEntries(step) = Chosen(AtWork) \ selected
  BY <1>2, <1>3 DEF DoneEntries
<1> QED BY <1>1, <1>2, <1>3, <1>4, <1>5, <1>6 DEF Tree

LEMMA UnpackKeeps ==
  ASSUME StagingInv, status = "stage", selected # {}, NEW tree, Unpack(tree),
         Unpacked(tree, AtWork, (Chosen(AtWork) \ selected) \cup {Index})
  PROVE  StagingInv'
<1>1. /\ unpacked' = [unpacked EXCEPT ![AtWork] = tree] /\ selected' = selected \ {Index}
      /\ UNCHANGED <<archives, step, overlay, template, files, manifest, status, edited>>
  BY DEF Unpack
<1>2. /\ overlay = <<>> /\ files = {} /\ DOMAIN unpacked = Range(Packages)
      /\ \A j \in 1 .. step : Extractable(Packages[j])
      /\ \A j \in 1 .. Len(Packages) : Unpacked(unpacked[Packages[j]], Packages[j], DoneEntries(j))
  BY DEF StagingInv, UnpackingInv
<1>3. \A p : Chosen(p)' = Chosen(p) /\ (Extractable(p)' <=> Extractable(p))
  BY <1>1, ArchivesKept
<1>4. \A p, i : Entry(p, i)' = Entry(p, i) /\ Output(p, i)' = Output(p, i)
  BY <1>1, ArchivesKept
<1>5. /\ step \in 1 .. Len(Packages) /\ AtWork = Packages[step] /\ AtWork \in Range(Packages)
      /\ selected \subseteq Chosen(AtWork) /\ Index \in selected
  BY WorkFacts
<1>6. ASSUME NEW j \in 1 .. Len(Packages) PROVE Unpacked(unpacked[Packages[j]], Packages[j], DoneEntries(j))'
  <2>1. CASE j = step
    <3>1. unpacked'[Packages[j]] = tree
      BY <1>1, <1>2, <1>5, <2>1
    <3>2. ~(j < step) /\ DoneEntries(j)' = Chosen(AtWork) \ (selected \ {Index})
      BY <1>1, <1>3, <1>5, <2>1 DEF DoneEntries
    <3>3. DoneEntries(j)' = (Chosen(AtWork) \ selected) \cup {Index}
      BY <1>5, <3>2
    <3> QED BY <1>4, <1>5, <2>1, <3>1, <3>3 DEF Unpacked
  <2>2. CASE j # step
    <3>1. unpacked'[Packages[j]] = unpacked[Packages[j]]
      BY <1>1, <1>2, <1>5, <2>2, PackagesFacts
    <3>2. DoneEntries(j)' = DoneEntries(j)
      BY <1>1, <1>3, <2>2 DEF DoneEntries
    <3>3. Unpacked(unpacked[Packages[j]], Packages[j], DoneEntries(j))
      BY <1>2
    <3> QED BY <1>4, <3>1, <3>2, <3>3 DEF Unpacked
  <2> QED BY <2>1, <2>2
<1>7. step \in 0 .. Len(Packages) /\ step # 0 /\ DOMAIN unpacked' = Range(Packages)
  BY <1>1, <1>2, <1>5
<1>8. UnpackingInv'
  BY <1>1, <1>2, <1>3, <1>5, <1>6, <1>7 DEF UnpackingInv
<1> QED BY <1>1, <1>8 DEF StagingInv, StagingTypeInv, CopyingInv, StagedInv

LEMMA UnpackDirectoryKeeps == ASSUME StagingInv, UnpackDirectory PROVE StagingInv'
<1> DEFINE tree == With(Tree, Ancestors(Path) \cup {Path}, Directory)
           done == Chosen(AtWork) \ selected
<1>1. status = "stage" /\ selected # {} /\ Entry(AtWork, Index).kind = "dir"
  BY DEF UnpackDirectory, Place
<1>2. /\ archives \in Inputs /\ AtWork \in Range(Packages) /\ Extractable(AtWork)
      /\ done \in SUBSET Chosen(AtWork) /\ Index \in Chosen(AtWork) \ done /\ Unpacked(Tree, AtWork, done)
  BY <1>1, WorkFacts
<1> HIDE DEF done
<1>3. ~Blocked(Tree, Path) /\ (Path \in DOMAIN Tree => Tree[Path].dir)
  BY <1>2, EntryFits DEF Path
<1>4. Unpack(tree)
  BY <1>1, <1>3 DEF UnpackDirectory, Place, Fit
<1>5. Unpacked(tree, AtWork, done \cup {Index})
  BY <1>1, <1>2, DirectoryUnpacked DEF Path
<1> HIDE DEF tree
<1> QED BY <1>1, <1>4, <1>5, UnpackKeeps DEF done

LEMMA UnpackFileKeeps == ASSUME StagingInv, UnpackFile PROVE StagingInv'
<1> DEFINE tree == WithFile(Tree, Path, <<AtWork, Index>>)
           done == Chosen(AtWork) \ selected
<1>1. status = "stage" /\ selected # {} /\ Entry(AtWork, Index).kind = "file"
  BY DEF UnpackFile, Place
<1>2. /\ archives \in Inputs /\ AtWork \in Range(Packages) /\ Extractable(AtWork)
      /\ done \in SUBSET Chosen(AtWork) /\ Index \in Chosen(AtWork) \ done /\ Unpacked(Tree, AtWork, done)
  BY <1>1, WorkFacts
<1> HIDE DEF done
<1>3. ~Blocked(Tree, Path) /\ Path \notin DOMAIN Tree
  BY <1>1, <1>2, EntryFits DEF Path
<1>4. Unpack(tree)
  BY <1>1, <1>3 DEF UnpackFile, Place, Fit
<1>5. Unpacked(tree, AtWork, done \cup {Index})
  BY <1>1, <1>2, FileUnpacked DEF Path
<1> HIDE DEF tree
<1> QED BY <1>1, <1>4, <1>5, UnpackKeeps DEF done

-----------------------------------------------------------------------------
(* Copying *)

LEMMA ThreeParts ==
  ASSUME NEW x, NEW y, NEW z
  PROVE  Len(<<x, y, z>>) = 3 /\ <<x, y, z>>[1] = Head(<<x, y, z>>)
OBVIOUS

LEMMA OneMorePart ==
  ASSUME NEW S, NEW a \in Seq(S), NEW x \in S
  PROVE  \A k \in 1 .. Len(a) : Append(a, x)[k] = a[k]
BY AppendProperties

LEMMA FourthPart ==
  ASSUME NEW S, NEW a \in Seq(S), Len(a) = 3, NEW x \in S
  PROVE  /\ Append(a, x) \in Seq(S) /\ Len(Append(a, x)) = 4 /\ Last(Append(a, x)) = x
         /\ \A k \in 1 .. Len(a) : Append(a, x)[k] = a[k]
         /\ Append(a, x)[1] = a[1]
<1>1. Append(a, x) \in Seq(S) /\ Len(Append(a, x)) = Len(a) + 1
  BY AppendProperties
<1>2. \A k \in 1 .. Len(a) : Append(a, x)[k] = a[k]
  BY OneMorePart, Zenon
<1>3. Append(a, x)[Len(a) + 1] = x
  BY AppendProperties
<1>4. 1 \in 1 .. Len(a) /\ Len(a) + 1 = 4
  OBVIOUS
<1> QED BY <1>1, <1>2, <1>3, <1>4 DEF Last

LEMMA ShorterPrefix ==
  ASSUME NEW a \in Paths, NEW b \in Paths, NEW q \in Paths, Len(b) = Len(a) + 1, Prefix(a, b), Prefix(q, b),
         Len(q) < Len(b)
  PROVE  Prefix(q, a)
<1>1. Len(a) \in Nat /\ Len(q) \in Nat
  BY DEF Paths
<1> QED BY <1>1 DEF Prefix

LEMMA PluginDirFacts == PluginDir \in Paths /\ Len(PluginDir) = 3 /\ PluginDir[1] = Head(PluginDir)
<1>1. Len(PluginDir) = 3 /\ PluginDir[1] = Head(PluginDir)
  <2>1. \E x, y, z : PluginDir = <<x, y, z>>
    BY DEF PluginDir
  <2> QED BY <2>1, ThreeParts
<1> QED BY <1>1, LayoutAssumption DEF Paths

LEMMA PluginPathFacts ==
  ASSUME NEW name \in STRING
  PROVE  /\ PluginPath(name) \in Paths /\ Len(PluginPath(name)) = 4 /\ Last(PluginPath(name)) = name
         /\ PluginDir \in Paths /\ IsStrictPrefix(PluginDir, PluginPath(name))
         /\ PluginPath(name)[1] = Head(PluginDir)
         /\ \A q \in Paths : IsStrictPrefix(q, PluginPath(name)) => IsPrefix(q, PluginDir)
<1>1. PluginDir \in Seq(STRING) /\ Len(PluginDir) = 3 /\ PluginDir[1] = Head(PluginDir)
  BY PluginDirFacts DEF Paths
<1>2. /\ PluginPath(name) \in Seq(STRING) /\ Len(PluginPath(name)) = 4 /\ Last(PluginPath(name)) = name
      /\ \A k \in 1 .. Len(PluginDir) : PluginPath(name)[k] = PluginDir[k]
      /\ PluginPath(name)[1] = PluginDir[1]
  BY <1>1, FourthPart, Zenon DEF PluginPath
<1> HIDE DEF PluginPath
<1>3. PICK a \in Paths : a = PluginDir
  BY <1>1 DEF Paths
<1>4. PICK b \in Paths : b = PluginPath(name)
  BY <1>2 DEF Paths
<1>5. Len(b) = Len(a) + 1 /\ Len(a) < Len(b) /\ Prefix(a, b)
  <2>1. Len(a) = 3 /\ Len(b) = 4 /\ \A k \in 1 .. Len(a) : b[k] = a[k]
    BY <1>1, <1>2, <1>3, <1>4, Zenon
  <2> QED BY <2>1 DEF Prefix
<1>6. IsStrictPrefix(a, b)
  BY <1>5, PrefixFacts
<1>7. ASSUME NEW q \in Paths, IsStrictPrefix(q, b) PROVE IsPrefix(q, a)
  <2>1. Prefix(q, b) /\ Len(q) < Len(b)
    BY <1>7, PrefixFacts
  <2>2. Prefix(q, a)
    BY <1>5, <2>1, ShorterPrefix
  <2> QED BY <2>2, PrefixFacts
<1> QED BY <1>1, <1>2, <1>3, <1>4, <1>6, <1>7 DEF Paths

LEMMA PluginPathInjective ==
  ASSUME NEW m \in STRING, NEW n \in STRING, PluginPath(m) = PluginPath(n)
  PROVE  m = n
BY PluginPathFacts, Zenon

(* A managed path of the loader is apart from the assemblies. *)
LEMMA LayoutFacts ==
  ASSUME NEW name \in STRING, NEW q \in Paths, Managed(q)
  PROVE  /\ ~IsStrictPrefix(q, PluginPath(name)) /\ ~IsStrictPrefix(PluginPath(name), q) /\ q # PluginPath(name)
<1> DEFINE t == PluginPath(name)
<1>1. /\ t \in Paths /\ Len(t) = 4 /\ PluginDir \in Paths /\ IsStrictPrefix(PluginDir, t) /\ t[1] = Head(PluginDir)
      /\ \A r \in Paths : IsStrictPrefix(r, t) => IsPrefix(r, PluginDir)
  BY PluginPathFacts
<1> HIDE DEF t
<1>2. CASE \E f \in ManagedFile : q = <<f>>
  <2>1. PICK f \in ManagedFile : q = <<f>>
    BY <1>2
  <2>2. f \in STRING /\ f # Head(PluginDir)
    BY LayoutAssumption
  <2>3. Len(q) = 1 /\ q[1] # Head(PluginDir)
    BY <2>1, <2>2, Singleton
  <2>4. 1 \in 1 .. Len(q) /\ 1 \in 1 .. Len(t) /\ q[1] # t[1]
    BY <1>1, <2>3
  <2>5. ~IsStrictPrefix(q, t) /\ ~IsStrictPrefix(t, q)
    BY <1>1, <2>4, PrefixFacts DEF Prefix
  <2> QED BY <1>1, <2>4, <2>5 DEF t
<1>3. CASE \E d \in ManagedDir : Within(q, d)
  <2>1. PICK d \in ManagedDir : IsStrictPrefix(d, q)
    BY <1>3 DEF Within
  <2>2. d \in Paths /\ ~IsPrefix(d, PluginDir) /\ ~IsPrefix(PluginDir, d)
    BY LayoutAssumption DEF Paths
  <2>3. ~IsStrictPrefix(d, t)
    BY <1>1, <2>2
  <2>4. ~IsStrictPrefix(q, t) /\ q # t
    BY <1>1, <2>1, <2>2, <2>3, PrefixTransitive
  <2>5. ~IsStrictPrefix(t, q)
    <3> SUFFICES ASSUME IsStrictPrefix(t, q) PROVE FALSE
      OBVIOUS
    <3>1. IsPrefix(t, q) /\ IsPrefix(d, q)
      BY <1>1, <2>1, <2>2, PrefixTransitive
    <3>2. IsPrefix(t, d) \/ IsPrefix(d, t)
      BY <1>1, <2>2, <3>1, PrefixesMeet
    <3>3. ~IsPrefix(t, d)
      BY <1>1, <2>2, PrefixTransitive
    <3>4. d = t
      BY <2>3, <3>2, <3>3 DEF IsStrictPrefix
    <3>5. IsPrefix(PluginDir, d)
      BY <1>1, <3>4, PrefixTransitive
    <3> QED BY <2>2, <3>5
  <2> QED BY <2>4, <2>5 DEF t
<1> QED BY <1>2, <1>3 DEF Managed

LEMMA ShareFacts ==
  ASSUME archives \in Inputs, NEW p \in Range(Packages), Extractable(p), NEW i \in Kept(p)
  PROVE  /\ i \in Chosen(p) /\ Target(p, i) \in Paths
         /\ p = BepInEx => Managed(Target(p, i)) /\ Target(p, i) = Output(p, i)
         /\ p # BepInEx => Last(Entry(p, i).path) \in STRING /\ Target(p, i) = PluginPath(Last(Entry(p, i).path))
                             /\ Output(p, i) = <<Last(Entry(p, i).path)>>
<1>1. i \in Chosen(p) /\ (p = BepInEx => Managed(Output(p, i)))
  BY DEF Kept
<1>2. p = BepInEx => Target(p, i) = Output(p, i)
  BY DEF Target
<1>3. p # BepInEx => Target(p, i) = PluginPath(Last(Entry(p, i).path))
  BY DEF Target
<1>4. /\ Output(p, i) \in Paths
      /\ p # BepInEx => Last(Entry(p, i).path) \in STRING /\ Output(p, i) = <<Last(Entry(p, i).path)>>
  BY <1>1, OutputFacts
<1>5. p # BepInEx => PluginPath(Last(Entry(p, i).path)) \in Paths
  BY <1>4, PluginPathFacts
<1> QED BY <1>1, <1>2, <1>3, <1>4, <1>5

(* What is copied of an archive is its share. *)
LEMMA ListedFacts ==
  ASSUME archives \in Inputs, NEW p \in Range(Packages), Extractable(p),
         NEW from, Unpacked(from, p, Chosen(p)), NEW of,
         DOMAIN of = {Target(p, i) : i \in Kept(p)}, \A i \in Kept(p) : of[Target(p, i)] = Output(p, i)
  PROVE  Listed(from, of) = Share(p) /\ \A t \in DOMAIN of : t \in Paths /\ ~from[of[t]].dir
<1>1. ASSUME NEW i \in Kept(p)
      PROVE  /\ Target(p, i) \in DOMAIN of /\ Target(p, i) \in Paths
             /\ from[of[Target(p, i)]].data = <<p, i>> /\ ~from[of[Target(p, i)]].dir
  <2>1. i \in Chosen(p) /\ Entry(p, i).kind = "file" /\ Target(p, i) \in Paths
    BY ShareFacts DEF Kept
  <2>2. from[Output(p, i)] = Holding(<<p, i>>)
    BY <2>1 DEF Unpacked
  <2> QED BY <2>1, <2>2, NodeFacts
<1>2. ASSUME NEW t \in DOMAIN of
      PROVE  t \in Paths /\ ~from[of[t]].dir /\ <<t, from[of[t]].data>> \in Share(p)
  <2>1. PICK i \in Kept(p) : t = Target(p, i)
    OBVIOUS
  <2>2. from[of[t]].data = <<p, i>> /\ t \in Paths /\ ~from[of[t]].dir
    BY <1>1, <2>1
  <2>3. <<t, <<p, i>>>> \in Share(p)
    BY <2>1 DEF Share
  <2> QED BY <2>2, <2>3
<1>3. ASSUME NEW i \in Kept(p) PROVE <<Target(p, i), <<p, i>>>> \in Listed(from, of)
  <2>1. <<Target(p, i), from[of[Target(p, i)]].data>> \in Listed(from, of)
    BY <1>1 DEF Listed
  <2> QED BY <1>1, <2>1
<1>4. Listed(from, of) \subseteq Share(p)
  BY <1>2 DEF Listed
<1>5. Share(p) \subseteq Listed(from, of)
  BY <1>3 DEF Share
<1> QED BY <1>2, <1>4, <1>5

LEMMA CopiedTree ==
  ASSUME NEW fs, TreeOf(overlay, fs), NEW from, NEW of, \A t \in DOMAIN of : t \in Paths /\ ~from[of[t]].dir
  PROVE  TreeOf(Copied(from, of), fs \cup Listed(from, of))
<1> DEFINE above == UNION {Ancestors(t) : t \in DOMAIN of}
           new == Copied(from, of)
           all == fs \cup Listed(from, of)
<1>1. DOMAIN new = DOMAIN overlay \cup above \cup DOMAIN of
  BY DEF Copied
<1>2. \A q \in DOMAIN new :
        new[q] = IF q \in DOMAIN of THEN from[of[q]] ELSE IF q \in DOMAIN overlay THEN overlay[q] ELSE Directory
  BY DEF Copied
<1> HIDE DEF new
<1>3. \A t \in DOMAIN of : <<t, from[of[t]].data>> \in all /\ <<t, from[of[t]].data>>[1] = t
  BY DEF Listed
<1>4. \A f \in Listed(from, of) : f[1] \in DOMAIN of
  BY DEF Listed
<1>5. ASSUME NEW q \in FilesOf(new)
      PROVE  <<q, new[q].data>> \in all
  <2>1. q \in DOMAIN new /\ ~new[q].dir
    BY DEF FilesOf
  <2>2. CASE q \in DOMAIN of
    BY <1>2, <1>3, <2>1, <2>2
  <2>3. CASE q \notin DOMAIN of
    <3>1. q \in DOMAIN overlay /\ new[q] = overlay[q]
      BY <1>1, <1>2, <2>1, <2>3, NodeFacts
    <3> QED BY <2>1, <3>1 DEF TreeOf, FilesOf
  <2> QED BY <2>2, <2>3
<1>6. ASSUME NEW f \in all PROVE f[1] \in FilesOf(new)
  <2>1. CASE f[1] \in DOMAIN of
    BY <1>1, <1>2, <2>1 DEF FilesOf
  <2>2. CASE f[1] \notin DOMAIN of
    <3>1. f \in fs
      BY <1>4, <2>2
    <3>2. f[1] \in DOMAIN overlay /\ ~overlay[f[1]].dir
      BY <3>1 DEF TreeOf, FilesOf
    <3> QED BY <1>1, <1>2, <2>2, <3>2 DEF FilesOf
  <2> QED BY <2>1, <2>2
<1>7. ASSUME NEW q \in DOMAIN new, q \notin FilesOf(new) PROVE \E f \in all : Within(f[1], q)
  <2>1. q \notin DOMAIN of
    BY <1>2, <1>7 DEF FilesOf
  <2>2. CASE q \in DOMAIN overlay
    <3>1. q \notin FilesOf(overlay)
      BY <1>2, <1>7, <2>1, <2>2 DEF FilesOf
    <3> QED BY <2>2, <3>1 DEF TreeOf
  <2>3. CASE q \notin DOMAIN overlay
    <3>1. PICK t \in DOMAIN of : q \in Ancestors(t)
      BY <1>1, <2>1, <2>3
    <3>2. Within(t, q)
      BY <3>1, AncestorFacts DEF Within
    <3> QED BY <1>3, <3>2
  <2> QED BY <2>2, <2>3
<1>8. \A q \in FilesOf(new) : q = <<q, new[q].data>>[1]
  OBVIOUS
<1>9. FilesOf(new) = {f[1] : f \in all}
  BY <1>5, <1>6, <1>8, Zenon
<1>10. TreeOf(new, all)
  BY <1>5, <1>7, <1>9 DEF TreeOf
<1> QED BY <1>10 DEF new

(* What the packages have in the overlay never meets. *)
LEMMA SharesApart ==
  ASSUME archives \in Inputs, NEW p \in Range(Packages), NEW r \in Range(Packages),
         Extractable(p), Extractable(r), NEW i \in Kept(p), NEW h \in Kept(r)
  PROVE  ~IsStrictPrefix(Target(p, i), Target(r, h))
<1>1. /\ i \in Chosen(p) /\ Target(p, i) \in Paths
      /\ p = BepInEx => Managed(Target(p, i)) /\ Target(p, i) = Output(p, i)
      /\ p # BepInEx => Last(Entry(p, i).path) \in STRING /\ Target(p, i) = PluginPath(Last(Entry(p, i).path))
  BY ShareFacts
<1>2. /\ h \in Chosen(r) /\ Target(r, h) \in Paths
      /\ r = BepInEx => Managed(Target(r, h)) /\ Target(r, h) = Output(r, h)
      /\ r # BepInEx => Last(Entry(r, h).path) \in STRING /\ Target(r, h) = PluginPath(Last(Entry(r, h).path))
  BY ShareFacts
<1>3. CASE p = BepInEx /\ r = BepInEx
  <2>1. Entry(p, i).kind = "file"
    BY DEF Kept
  <2>2. Output(p, i) # <<>> /\ Output(p, i) \notin Ancestors(Output(r, h))
    BY <1>1, <1>2, <1>3, <2>1, OutputFacts
  <2> QED BY <1>1, <1>2, <1>3, <2>2, AncestorFacts
<1>4. CASE p # BepInEx /\ r # BepInEx
  <2>1. Len(Target(p, i)) = 4 /\ Len(Target(r, h)) = 4
    BY <1>1, <1>2, <1>4, PluginPathFacts
  <2>2. ~(Len(Target(p, i)) < Len(Target(r, h)))
    BY <2>1
  <2> QED BY <1>1, <1>2, <2>2, PrefixFacts
<1>5. CASE p = BepInEx /\ r # BepInEx
  BY <1>1, <1>2, <1>5, LayoutFacts
<1>6. CASE p # BepInEx /\ r = BepInEx
  BY <1>1, <1>2, <1>6, LayoutFacts
<1> QED BY <1>3, <1>4, <1>5, <1>6

LEMMA RoomFacts ==
  ASSUME archives \in Inputs, \A j \in 1 .. Len(Packages) : Extractable(Packages[j]),
         NEW k \in 1 .. Len(Packages), NEW l \in Nat, l <= Len(Packages), TreeOf(overlay, FilesUpTo(l))
  PROVE  Room({Target(Packages[k], i) : i \in Kept(Packages[k])})
<1> DEFINE p == Packages[k]
           targets == {Target(p, i) : i \in Kept(p)}
<1>1. p \in Range(Packages) /\ Extractable(p)
  BY PackagesFacts
<1>2. ASSUME NEW f \in FilesUpTo(l)
      PROVE  \E r \in Range(Packages) : Extractable(r) /\ \E h \in Kept(r) : f[1] = Target(r, h)
  <2>1. PICK j \in 1 .. l : f \in Share(Packages[j])
    BY DEF FilesUpTo
  <2>2. j \in 1 .. Len(Packages)
    BY PackagesFacts
  <2>3. Packages[j] \in Range(Packages) /\ Extractable(Packages[j])
    BY <2>2, PackagesFacts
  <2>4. PICK h \in Kept(Packages[j]) : f = <<Target(Packages[j], h), <<Packages[j], h>>>>
    BY <2>1 DEF Share
  <2>5. f[1] = Target(Packages[j], h)
    BY <2>4
  <2> QED BY <2>3, <2>5
<1> HIDE DEF p
<1>3. ASSUME NEW t \in targets
      PROVE  /\ t \in Paths /\ \A u \in targets : ~IsStrictPrefix(u, t)
             /\ \A f \in FilesUpTo(l) : ~IsStrictPrefix(f[1], t) /\ ~IsStrictPrefix(t, f[1])
  <2>1. PICK i \in Kept(p) : t = Target(p, i)
    OBVIOUS
  <2>2. t \in Paths
    BY <1>1, <2>1, ShareFacts
  <2>3. \A u \in targets : ~IsStrictPrefix(u, t)
    BY <1>1, <2>1, SharesApart
  <2>4. \A f \in FilesUpTo(l) : ~IsStrictPrefix(f[1], t) /\ ~IsStrictPrefix(t, f[1])
    BY <1>1, <1>2, <2>1, SharesApart
  <2> QED BY <2>2, <2>3, <2>4
<1> HIDE DEF targets
<1>4. ASSUME NEW t \in targets PROVE ~Blocked(overlay, t)
  <2> SUFFICES ASSUME NEW q \in Ancestors(t) \cap FilesOf(overlay) PROVE FALSE
    BY DEF Blocked, FilesOf
  <2>1. PICK f \in FilesUpTo(l) : q = f[1]
    BY DEF TreeOf
  <2>2. IsStrictPrefix(q, t)
    BY <1>3, AncestorFacts
  <2> QED BY <1>3, <2>1, <2>2
<1>5. ASSUME NEW t \in targets PROVE Ancestors(t) \cap targets = {}
  BY <1>3, AncestorFacts
<1>6. ASSUME NEW t \in targets, t \in DOMAIN overlay PROVE ~overlay[t].dir
  <2> SUFFICES ASSUME t \notin FilesOf(overlay) PROVE FALSE
    BY <1>6 DEF FilesOf
  <2>1. PICK f \in FilesUpTo(l) : IsStrictPrefix(t, f[1])
    BY <1>6 DEF TreeOf, Within
  <2> QED BY <1>3, <2>1
<1>7. Room(targets)
  BY <1>4, <1>5, <1>6 DEF Room
<1> QED BY <1>7 DEF targets, p

LEMMA FilesGrow ==
  ASSUME NEW k \in Nat
  PROVE  FilesUpTo(k + 1) = FilesUpTo(k) \cup Share(Packages[k + 1])
<1>1. 1 .. k + 1 = 1 .. k \cup {k + 1}
  OBVIOUS
<1> QED BY <1>1 DEF FilesUpTo

(* The share of the package of index k + 1 is copied. *)
LEMMA CopyKeeps ==
  ASSUME StagingInv, status \in {"stage", "copy"}, NEW k \in Nat, k + 1 \in 1 .. Len(Packages),
         k = (IF status = "stage" THEN 0 ELSE step),
         \A j \in 1 .. Len(Packages) :
           Extractable(Packages[j]) /\ Unpacked(unpacked[Packages[j]], Packages[j], Chosen(Packages[j])),
         ExactUpTo(k + 1), files = FilesUpTo(k), TreeOf(overlay, FilesUpTo(k)),
         NEW of, DOMAIN of = {Target(Packages[k + 1], i) : i \in Kept(Packages[k + 1])},
         \A i \in Kept(Packages[k + 1]) : of[Target(Packages[k + 1], i)] = Output(Packages[k + 1], i),
         Copy(unpacked[Packages[k + 1]], of)
  PROVE  StagingInv'
<1> DEFINE p == Packages[k + 1]
           from == unpacked[p]
<1>1. archives \in Inputs /\ p \in Range(Packages) /\ Extractable(p) /\ Unpacked(from, p, Chosen(p)) /\ ~edited
  BY PackagesFacts DEF StagingInv, StagingTypeInv
<1>2. Room(DOMAIN of)
  <2>1. k <= Len(Packages)
    BY PackagesFacts
  <2> QED BY <1>1, <2>1, RoomFacts
<1> HIDE DEF p
<1>3. Listed(from, of) = Share(p) /\ \A t \in DOMAIN of : t \in Paths /\ ~from[of[t]].dir
  BY <1>1, ListedFacts DEF p
<1>4. TreeOf(Copied(from, of), FilesUpTo(k) \cup Listed(from, of))
  BY <1>3, CopiedTree
<1>5. FilesUpTo(k + 1) = FilesUpTo(k) \cup Listed(from, of)
  BY <1>3, FilesGrow DEF p
<1> HIDE DEF from
<1>6. /\ overlay' = Copied(from, of) /\ files' = files \cup Listed(from, of) /\ step' = k + 1 /\ status' = "copy"
      /\ UNCHANGED <<archives, selected, unpacked, manifest, edited>>
  <2>1. (IF status = "stage" THEN 1 ELSE step + 1) = k + 1
    OBVIOUS
  <2> QED BY <1>2, <2>1 DEF Copy, from, p
<1>7. files' = FilesUpTo(k + 1) /\ TreeOf(overlay', files')
  BY <1>4, <1>5, <1>6
<1>8. /\ \A r : Chosen(r)' = Chosen(r) /\ Share(r)' = Share(r) /\ (Extractable(r)' <=> Extractable(r))
      /\ \A r : Exact(r)' <=> Exact(r)
      /\ \A r, i : Entry(r, i)' = Entry(r, i) /\ Output(r, i)' = Output(r, i)
  BY <1>6, ArchivesKept
<1>9. FilesUpTo(step)' = FilesUpTo(k + 1) /\ ExactUpTo(step)'
  BY <1>6, <1>8 DEF FilesUpTo, ExactUpTo
<1>10. TreeOf(overlay, files)'
  BY <1>7 DEF TreeOf, FilesOf
<1>11. ASSUME NEW j \in 1 .. Len(Packages)
       PROVE  Extractable(Packages[j])' /\ Unpacked(unpacked[Packages[j]], Packages[j], Chosen(Packages[j]))'
  <2>1. Extractable(Packages[j]) /\ Unpacked(unpacked[Packages[j]], Packages[j], Chosen(Packages[j]))
    OBVIOUS
  <2> QED BY <1>6, <1>8, <2>1 DEF Unpacked
<1>12. CopyingInv'
  BY <1>6, <1>7, <1>9, <1>10, <1>11 DEF CopyingInv
<1> QED BY <1>1, <1>6, <1>12 DEF StagingInv, StagingTypeInv, UnpackingInv, StagedInv

LEMMA CopyLoaderKeeps == ASSUME StagingInv, CopyLoader PROVE StagingInv'
<1> DEFINE from == unpacked[BepInEx]
           of == [t \in {q \in FilesOf(from) : Managed(q)} |-> t]
<1>1. /\ status = "stage" /\ selected = {} /\ step = Len(Packages) /\ Copy(from, of)
      /\ overlay = <<>> /\ files = {} /\ archives \in Inputs
  BY DEF CopyLoader, AllUnpacked, StagingInv, StagingTypeInv, UnpackingInv
<1>2. /\ 1 \in 1 .. Len(Packages) /\ Packages[1] = BepInEx /\ 0 + 1 = 1 /\ BepInEx \in Range(Packages)
      /\ 1 .. 0 = {} /\ 2 .. 1 = {}
  BY PackagesFacts
<1>3. ASSUME NEW j \in 1 .. Len(Packages)
      PROVE  Extractable(Packages[j]) /\ Unpacked(unpacked[Packages[j]], Packages[j], Chosen(Packages[j]))
  <2>1. /\ \A l \in 1 .. step : Extractable(Packages[l])
        /\ \A l \in 1 .. Len(Packages) : Unpacked(unpacked[Packages[l]], Packages[l], DoneEntries(l))
    BY <1>1 DEF StagingInv, UnpackingInv
  <2>2. j < step \/ j = step
    BY <1>1, PackagesFacts
  <2>3. DoneEntries(j) = Chosen(Packages[j])
    BY <1>1, <2>2 DEF DoneEntries
  <2>4. Unpacked(unpacked[Packages[j]], Packages[j], DoneEntries(j))
    BY <2>1
  <2> QED BY <1>1, <2>1, <2>3, <2>4
<1>4. Unpacked(from, BepInEx, Chosen(BepInEx))
  BY <1>2, <1>3
<1> HIDE DEF from
<1>5. FilesOf(from) = {Output(BepInEx, i) : i \in {j \in Chosen(BepInEx) : Entry(BepInEx, j).kind = "file"}}
  BY <1>4, UnpackedFiles
<1>6. \A i : Target(BepInEx, i) = Output(BepInEx, i)
  BY DEF Target
<1>7. DOMAIN of = {Target(BepInEx, i) : i \in Kept(BepInEx)}
  BY <1>5, <1>6 DEF Kept
<1>8. \A t \in DOMAIN of : of[t] = t
  OBVIOUS
<1> HIDE DEF of
<1>9. \A i \in Kept(BepInEx) : of[Target(BepInEx, i)] = Output(BepInEx, i)
  BY <1>6, <1>7, <1>8
<1>10. FilesUpTo(0) = {} /\ ExactUpTo(1)
  BY <1>2 DEF FilesUpTo, ExactUpTo
<1>11. TreeOf(overlay, FilesUpTo(0))
  BY <1>1, <1>10 DEF TreeOf, FilesOf
<1>12. Copy(unpacked[Packages[0 + 1]], of)
  BY <1>1, <1>2 DEF from
<1> QED BY <1>1, <1>2, <1>3, <1>7, <1>9, <1>10, <1>11, <1>12, CopyKeeps

LEMMA CopyPluginKeeps == ASSUME StagingInv, CopyPlugin PROVE StagingInv'
<1> DEFINE p == Packages[step + 1]
           from == unpacked[p]
           of == [t \in {PluginPath(name) : name \in Allowed[p]} |-> <<Last(t)>>]
<1>1. /\ status = "copy" /\ step < Len(Packages) /\ Expected(p) /\ Copy(from, of)
      /\ step \in 1 .. Len(Packages) /\ ExactUpTo(step) /\ files = FilesUpTo(step) /\ TreeOf(overlay, files)
      /\ archives \in Inputs
      /\ \A j \in 1 .. Len(Packages) :
           Extractable(Packages[j]) /\ Unpacked(unpacked[Packages[j]], Packages[j], Chosen(Packages[j]))
  BY DEF CopyPlugin, StagingInv, StagingTypeInv, CopyingInv
<1>2. /\ step \in Nat /\ step + 1 \in 1 .. Len(Packages) /\ step + 1 \in 2 .. Len(Packages)
      /\ \A j \in 2 .. step + 1 : j \in 2 .. step \/ j = step + 1
  BY <1>1, PackagesFacts
<1>3. /\ p \in Range(Packages) /\ p \in Range(Plugins) /\ p # BepInEx /\ Extractable(p)
      /\ Unpacked(from, p, Chosen(p))
  BY <1>1, <1>2, PackagesFacts
<1> HIDE DEF p, from
<1>4. \A i \in Chosen(p) :
        /\ Entry(p, i).kind = "file" /\ Last(Entry(p, i).path) \in STRING
        /\ Output(p, i) = <<Last(Entry(p, i).path)>>
  BY <1>1, <1>3, OutputFacts
<1>5. FilesOf(from) = {Output(p, i) : i \in {j \in Chosen(p) : Entry(p, j).kind = "file"}}
  BY <1>3, UnpackedFiles
<1>6. Exact(p)
  <2>1. {j \in Chosen(p) : Entry(p, j).kind = "file"} = Chosen(p)
    BY <1>4
  <2>2. FilesOf(from) = {<<name>> : name \in Allowed[p]}
    BY <1>1 DEF Expected, from
  <2> QED BY <1>5, <2>1, <2>2 DEF Exact
<1>7. ExactUpTo(step + 1)
  BY <1>1, <1>2, <1>6 DEF ExactUpTo, p
<1>8. Kept(p) = Chosen(p) /\ \A i \in Kept(p) : Target(p, i) = PluginPath(Last(Entry(p, i).path))
  BY <1>3, <1>4 DEF Kept, Target
<1>9. \A name : name \in Allowed[p] <=> \E i \in Chosen(p) : name = Last(Entry(p, i).path)
  <2>1. ASSUME NEW name \in Allowed[p] PROVE \E i \in Chosen(p) : name = Last(Entry(p, i).path)
    <3>1. PICK i \in Chosen(p) : Output(p, i) = <<name>>
      BY <1>6 DEF Exact
    <3>2. <<name>> = <<Last(Entry(p, i).path)>>
      BY <1>4, <3>1
    <3> QED BY <3>2
  <2>2. ASSUME NEW i \in Chosen(p) PROVE Last(Entry(p, i).path) \in Allowed[p]
    <3>1. PICK name \in Allowed[p] : Output(p, i) = <<name>>
      BY <1>6 DEF Exact
    <3>2. <<name>> = <<Last(Entry(p, i).path)>>
      BY <1>4, <3>1
    <3>3. name = Last(Entry(p, i).path)
      BY <3>2
    <3> QED BY <3>3
  <2> QED BY <2>1, <2>2
<1>10. DOMAIN of = {Target(p, i) : i \in Kept(p)}
  <2>1. DOMAIN of = {PluginPath(name) : name \in Allowed[p]}
    OBVIOUS
  <2> HIDE DEF of
  <2>2. ASSUME NEW t \in DOMAIN of PROVE \E i \in Kept(p) : t = Target(p, i)
    BY <1>8, <1>9, <2>1
  <2>3. ASSUME NEW i \in Kept(p) PROVE Target(p, i) \in DOMAIN of
    BY <1>8, <1>9, <2>1
  <2> QED BY <2>2, <2>3
<1>11. \A t \in DOMAIN of : of[t] = <<Last(t)>>
  OBVIOUS
<1> HIDE DEF of
<1>12. ASSUME NEW i \in Kept(p) PROVE of[Target(p, i)] = Output(p, i)
  <2>1. of[Target(p, i)] = <<Last(Target(p, i))>>
    BY <1>10, <1>11
  <2>2. Last(Target(p, i)) = Last(Entry(p, i).path)
    BY <1>4, <1>8, PluginPathFacts
  <2> QED BY <1>4, <1>8, <2>1, <2>2
<1> QED BY <1>1, <1>2, <1>7, <1>10, <1>12, CopyKeeps DEF p, from

-----------------------------------------------------------------------------
(* The generation is listed, edited and verified. *)

LEMMA PersistKeeps == ASSUME StagingInv, Persist PROVE StagingInv'
<1>1. /\ status = "copy" /\ step = Len(Packages) /\ ManagedOnce /\ manifest' = files /\ status' = "staged"
      /\ UNCHANGED <<archives, step, selected, overlay, template, files, edited>>
  BY DEF Persist, AllCopied, Complete
<1>2. /\ \A j \in 1 .. Len(Packages) : Extractable(Packages[j])
      /\ ExactUpTo(Len(Packages)) /\ files = FilesUpTo(Len(Packages)) /\ TreeOf(overlay, files)
  BY <1>1 DEF StagingInv, CopyingInv
<1>3. /\ \A p : Share(p)' = Share(p) /\ (Extractable(p)' <=> Extractable(p))
      /\ \A p : Exact(p)' <=> Exact(p)
  BY <1>1, ArchivesKept
<1>4. ExactUpTo(Len(Packages))' /\ FilesUpTo(Len(Packages))' = FilesUpTo(Len(Packages))
  BY <1>2, <1>3 DEF ExactUpTo, FilesUpTo
<1>5. \A f, g \in manifest' : f[1] = g[1] => f = g
  BY <1>1 DEF ManagedOnce
<1>6. TreeOf(overlay, manifest)'
  BY <1>1, <1>2 DEF TreeOf, FilesOf
<1>7. StagedInv'
  BY <1>1, <1>2, <1>3, <1>4, <1>5, <1>6 DEF StagedInv
<1> QED BY <1>1, <1>7 DEF StagingInv, StagingTypeInv, UnpackingInv, CopyingInv

LEMMA EditKeeps == ASSUME StagingInv, Edit PROVE StagingInv'
<1>1. /\ status = "staged" /\ edited' = TRUE
      /\ UNCHANGED <<archives, step, selected, unpacked, template, files, manifest, status>>
  BY DEF Edit
<1>2. /\ \A j \in 1 .. Len(Packages) : Extractable(Packages[j])
      /\ ExactUpTo(Len(Packages)) /\ manifest = FilesUpTo(Len(Packages))
      /\ \A f, g \in manifest : f[1] = g[1] => f = g
  BY <1>1 DEF StagingInv, StagedInv
<1>3. /\ \A p : Share(p)' = Share(p) /\ (Extractable(p)' <=> Extractable(p))
      /\ \A p : Exact(p)' <=> Exact(p)
  BY <1>1, ArchivesKept
<1>4. ExactUpTo(Len(Packages))' /\ FilesUpTo(Len(Packages))' = FilesUpTo(Len(Packages))
  BY <1>2, <1>3 DEF ExactUpTo, FilesUpTo
<1>5. StagedInv'
  BY <1>1, <1>2, <1>3, <1>4 DEF StagedInv
<1> QED BY <1>1, <1>5 DEF StagingInv, StagingTypeInv, UnpackingInv, CopyingInv

(* A tree of the listed files, each with one content, passes the check. *)
LEMMA TreeVerified ==
  ASSUME TreeOf(overlay, manifest), \A f, g \in manifest : f[1] = g[1] => f = g
  PROVE  Verified
<1>1. ASSUME NEW f \in manifest PROVE f[1] \in FilesOf(overlay) /\ overlay[f[1]].data = f[2]
  <2>1. f[1] \in FilesOf(overlay)
    BY DEF TreeOf
  <2>2. <<f[1], overlay[f[1]].data>> \in manifest
    BY <2>1 DEF TreeOf
  <2>3. f = <<f[1], overlay[f[1]].data>>
    BY <2>2
  <2> QED BY <2>1, <2>3
<1> QED BY <1>1 DEF TreeOf, Verified

LEMMA ValidateStagedKeeps == ASSUME StagingInv, ValidateStaged PROVE StagingInv'
<1>1. /\ status = "staged" /\ status' = (IF Verified THEN "accepted" ELSE "rejected")
      /\ UNCHANGED <<archives, step, selected, unpacked, overlay, template, files, manifest, edited>>
  BY DEF ValidateStaged
<1>2. /\ \A j \in 1 .. Len(Packages) : Extractable(Packages[j])
      /\ ExactUpTo(Len(Packages)) /\ manifest = FilesUpTo(Len(Packages))
      /\ \A f, g \in manifest : f[1] = g[1] => f = g
      /\ edited \/ TreeOf(overlay, manifest)
  BY <1>1 DEF StagingInv, StagedInv
<1>3. /\ \A p : Share(p)' = Share(p) /\ (Extractable(p)' <=> Extractable(p))
      /\ \A p : Exact(p)' <=> Exact(p)
  BY <1>1, ArchivesKept
<1>4. ExactUpTo(Len(Packages))' /\ FilesUpTo(Len(Packages))' = FilesUpTo(Len(Packages))
  BY <1>2, <1>3 DEF ExactUpTo, FilesUpTo
<1>5. Verified' <=> Verified
  BY <1>1 DEF Verified, FilesOf
<1>6. edited \/ Verified
  BY <1>2, TreeVerified
<1>7. StagedInv'
  BY <1>1, <1>2, <1>3, <1>4, <1>5, <1>6 DEF StagedInv
<1> QED BY <1>1, <1>7 DEF StagingInv, StagingTypeInv, UnpackingInv, CopyingInv

LEMMA UnchangedKeeps == ASSUME StagingInv, UNCHANGED stagingVars PROVE StagingInv'
<1>1. UNCHANGED <<archives, step, selected, unpacked, overlay, template, files, manifest, status, edited>>
  BY DEF stagingVars
<1>2. /\ \A p : Chosen(p)' = Chosen(p) /\ Share(p)' = Share(p) /\ (Extractable(p)' <=> Extractable(p))
      /\ \A p : Exact(p)' <=> Exact(p)
      /\ \A p, i : Entry(p, i)' = Entry(p, i) /\ Output(p, i)' = Output(p, i)
  BY <1>1, ArchivesKept
<1>3. \A k : FilesUpTo(k)' = FilesUpTo(k) /\ (ExactUpTo(k)' <=> ExactUpTo(k))
  BY <1>2 DEF FilesUpTo, ExactUpTo
<1>4. \A j : DoneEntries(j)' = DoneEntries(j)
  BY <1>1, <1>2 DEF DoneEntries
<1>5. \A tree, p, done : Unpacked(tree, p, done)' <=> Unpacked(tree, p, done)
  BY <1>2 DEF Unpacked
<1> QED BY <1>1, <1>2, <1>3, <1>4, <1>5
     DEF StagingInv, StagingTypeInv, UnpackingInv, CopyingInv, StagedInv, TreeOf, FilesOf, Verified

LEMMA StagingStepInv == StagingInv /\ [StagingNext]_stagingVars => StagingInv'
<1> SUFFICES ASSUME StagingInv, [StagingNext]_stagingVars PROVE StagingInv'
  OBVIOUS
<1>1. CASE OpenArchive
  BY <1>1, OpenArchiveKeeps
<1>2. CASE ArchiveRefused
  BY <1>2, AbandonKeeps DEF ArchiveRefused
<1>3. CASE UnpackDirectory
  BY <1>3, UnpackDirectoryKeeps
<1>4. CASE UnpackFile
  BY <1>4, UnpackFileKeeps
<1>5. CASE CopyLoader
  BY <1>5, CopyLoaderKeeps
<1>6. CASE CopyPlugin
  BY <1>6, CopyPluginKeeps
<1>7. CASE PluginRefused
  BY <1>7, AbandonKeeps DEF PluginRefused
<1>8. CASE Persist
  BY <1>8, PersistKeeps
<1>9. CASE Incomplete
  BY <1>9, AbandonKeeps DEF Incomplete
<1>10. CASE StageFails
  BY <1>10, AbandonKeeps DEF StageFails
<1>11. CASE Edit
  BY <1>11, EditKeeps
<1>12. CASE ValidateStaged
  BY <1>12, ValidateStagedKeeps
<1>13. CASE UNCHANGED stagingVars
  BY <1>13, UnchangedKeeps
<1> QED BY <1>1, <1>2, <1>3, <1>4, <1>5, <1>6, <1>7, <1>8, <1>9, <1>10, <1>11, <1>12, <1>13 DEF StagingNext

(* At every point of Stage each tree is what was put there so far: what is
   unpacked what the entries so far say, the overlay the shares of the packages
   so far (mods.go, ModManager.Stage; archive.go, ExtractArchive). *)
THEOREM StagingInvariance == StagingSpec => []StagingInv
<1>1. StagingInit => StagingInv
  BY StagingInitInv
<1>2. StagingInv /\ [StagingNext]_stagingVars => StagingInv'
  BY StagingStepInv
<1> QED BY <1>1, <1>2, PTL DEF StagingSpec

(* Whatever the archives are, one that was inspected unpacks: no entry and no
   copy meets a file in its place or where it needs a directory (archive.go,
   inspectZIP, selectArchiveEntries and extractArchiveFile). *)
THEOREM CleanUnpacking == StagingSpec => []UnpacksCleanly
<1>1. StagingInv => UnpacksCleanly
  BY DEF StagingInv, StagingTypeInv, UnpacksCleanly
<1> QED BY <1>1, StagingInvariance, PTL

-----------------------------------------------------------------------------
(* What has to be in the overlay is what the packages have there. *)

LEMMA LoaderDestination ==
  ASSUME archives \in Inputs, Extractable(BepInEx), NEW i \in DOMAIN archives[BepInEx].entries
  PROVE  /\ Destination(BepInEx, Entry(BepInEx, i)) # <<>> => i \in Kept(BepInEx)
         /\ i \in Kept(BepInEx) =>
              /\ Destination(BepInEx, Entry(BepInEx, i)) = Target(BepInEx, i)
              /\ Target(BepInEx, i) # <<>>
<1> DEFINE p == BepInEx
           e == archives[p].entries
<1>1. p \in Range(Packages)
  BY PackagesFacts
<1>2. /\ Entry(p, i) = e[i] /\ e[i].path \in Paths
      /\ e[i].path # <<>> /\ e[i].kind \in {"file", "dir"}
  BY <1>1, ArchiveFacts DEF Extractable, Inspect, Safe
<1> HIDE DEF e
<1>3. ASSUME Destination(p, Entry(p, i)) # <<>> PROVE i \in Kept(p)
  <2>1. e[i].kind = "file" /\ Managed(Tail(e[i].path)) /\ Tail(e[i].path) # <<>>
    BY <1>2, <1>3 DEF Destination
  <2>2. PICK a \in Paths : a = e[i].path
    BY <1>2
  <2>3. a # <<>> /\ Tail(a) # <<>> /\ Len(a) \in Nat
    BY <1>2, <2>1, <2>2 DEF Paths
  <2>4. Tail(a) \in Paths /\ Len(Tail(a)) = Len(a) - 1
    BY <2>3, TailFacts
  <2>5. Len(a) > 1
    <3>1. Len(Tail(a)) # 0
      BY <2>3, <2>4 DEF Paths
    <3>2. Len(a) # 0
      BY <2>3 DEF Paths
    <3> QED BY <2>3, <2>4, <3>1, <3>2
  <2>6. i \in Chosen(p) /\ Output(p, i) = Tail(e[i].path)
    BY <1>2, <2>2, <2>5 DEF Chosen, Output, e
  <2> QED BY <1>2, <2>1, <2>6 DEF Kept
<1>4. ASSUME i \in Kept(p)
      PROVE  Destination(p, Entry(p, i)) = Target(p, i) /\ Target(p, i) # <<>>
  <2>1. i \in Chosen(p) /\ Entry(p, i).kind = "file" /\ Managed(Output(p, i))
    BY <1>4 DEF Kept
  <2>2. Entry(p, i).path[1] = Wrapper /\ Output(p, i) = Tail(Entry(p, i).path) /\ Output(p, i) # <<>>
    BY <1>1, <2>1, OutputFacts
  <2> QED BY <2>1, <2>2 DEF Destination, Target
<1> QED BY <1>3, <1>4

LEMMA PluginDestination ==
  ASSUME archives \in Inputs, NEW p \in Range(Plugins), p \in Range(Packages), Extractable(p), Exact(p),
         NEW i \in DOMAIN archives[p].entries
  PROVE  /\ Destination(p, Entry(p, i)) # <<>> => i \in Kept(p)
         /\ i \in Kept(p) => Destination(p, Entry(p, i)) = Target(p, i) /\ Target(p, i) # <<>>
<1> DEFINE e == archives[p].entries
<1>1. p # BepInEx /\ Allowed[p] \subseteq Dll /\ Dll \subseteq STRING
  BY PluginAssumption
<1>2. Entry(p, i) = e[i] /\ e[i].kind \in {"file", "dir"} /\ (Assembly(e[i]) \/ Passed(e[i]))
  BY <1>1, ArchiveFacts DEF Extractable, Inspect, Safe, PluginFits
<1> HIDE DEF e
<1>3. ASSUME Destination(p, Entry(p, i)) # <<>> PROVE i \in Kept(p)
  <2>1. e[i].kind = "file" /\ Last(e[i].path) \in Allowed[p]
    BY <1>1, <1>2, <1>3 DEF Destination
  <2>2. ~Passed(e[i])
    <3>1. Last(ManifestPath) \notin Dll
      <4>1. Last(ManifestPath) \in Range(ManifestPath)
        BY DEF ManifestPath, Last, Range
      <4> QED BY <4>1, PluginAssumption
    <3> QED BY <1>1, <2>1, <3>1 DEF Passed
  <2>3. i \in Chosen(p)
    BY <1>1, <1>2, <2>2 DEF Chosen, e
  <2> QED BY <1>1, <1>2, <2>1, <2>3 DEF Kept
<1>4. ASSUME i \in Kept(p)
      PROVE  Destination(p, Entry(p, i)) = Target(p, i) /\ Target(p, i) # <<>>
  <2>1. i \in Chosen(p) /\ Entry(p, i).kind = "file" /\ Target(p, i) = PluginPath(Last(Entry(p, i).path))
    BY <1>1, <1>4 DEF Kept, Target
  <2>2. Output(p, i) = <<Last(Entry(p, i).path)>> /\ Last(Entry(p, i).path) \in STRING
    BY <1>1, <2>1, OutputFacts
  <2>3. PICK name \in Allowed[p] : <<name>> = <<Last(Entry(p, i).path)>>
    BY <2>1, <2>2 DEF Exact
  <2>4. name = Last(Entry(p, i).path)
    BY <2>3
  <2>5. Destination(p, Entry(p, i)) = PluginPath(Last(Entry(p, i).path))
    BY <1>1, <2>1, <2>3, <2>4 DEF Destination
  <2>6. PluginPath(Last(Entry(p, i).path)) # <<>>
    <3>1. Len(<<>>) = 0 /\ 0 # 4
      BY EmptySeq
    <3> QED BY <2>2, <3>1, PluginPathFacts
  <2> QED BY <2>1, <2>5, <2>6
<1> QED BY <1>3, <1>4

LEMMA WantedFacts ==
  ASSUME archives \in Inputs, \A j \in 1 .. Len(Packages) : Extractable(Packages[j]), ExactUpTo(Len(Packages))
  PROVE  FilesUpTo(Len(Packages)) = {w \in Wanted : w[1] # <<>>}
<1>1. ASSUME NEW p \in Range(Packages), NEW i \in DOMAIN archives[p].entries
      PROVE  /\ Destination(p, Entry(p, i)) # <<>> => i \in Kept(p)
             /\ i \in Kept(p) => Destination(p, Entry(p, i)) = Target(p, i) /\ Target(p, i) # <<>>
  <2>1. PICK j \in 1 .. Len(Packages) : p = Packages[j]
    BY PackagesFacts
  <2>2. CASE j = 1
    BY <2>1, <2>2, LoaderDestination, PackagesFacts
  <2>3. CASE j # 1
    <3>1. j \in 2 .. Len(Packages)
      BY <2>3
    <3>2. p \in Range(Plugins) /\ Exact(p) /\ Extractable(p)
      BY <2>1, <3>1, PackagesFacts DEF ExactUpTo
    <3> QED BY <3>2, PluginDestination
  <2> QED BY <2>2, <2>3
<1>2. ASSUME NEW f \in FilesUpTo(Len(Packages)) PROVE f \in Wanted /\ f[1] # <<>>
  <2>1. PICK j \in 1 .. Len(Packages) : f \in Share(Packages[j])
    BY DEF FilesUpTo
  <2>2. PICK p \in Range(Packages) : p = Packages[j]
    BY PackagesFacts
  <2>3. PICK i \in Kept(p) : f = <<Target(p, i), <<p, i>>>>
    BY <2>1, <2>2 DEF Share
  <2>4. i \in DOMAIN archives[p].entries
    BY ArchiveFacts DEF Kept
  <2>5. f = <<Destination(p, Entry(p, i)), <<p, i>>>> /\ f[1] # <<>>
    BY <1>1, <2>3, <2>4
  <2> QED BY <2>4, <2>5 DEF Wanted
<1>3. ASSUME NEW w \in Wanted, w[1] # <<>> PROVE w \in FilesUpTo(Len(Packages))
  <2>1. PICK p \in Range(Packages) :
          w \in {<<Destination(p, Entry(p, i)), <<p, i>>>> : i \in DOMAIN archives[p].entries}
    BY DEF Wanted
  <2>2. PICK i \in DOMAIN archives[p].entries : w = <<Destination(p, Entry(p, i)), <<p, i>>>>
    BY <2>1
  <2>3. Destination(p, Entry(p, i)) # <<>>
    BY <1>3, <2>2
  <2>4. i \in Kept(p) /\ Destination(p, Entry(p, i)) = Target(p, i)
    BY <1>1, <2>3
  <2>5. w \in Share(p)
    BY <2>2, <2>4 DEF Share
  <2>6. PICK j \in 1 .. Len(Packages) : p = Packages[j]
    BY PackagesFacts
  <2> QED BY <2>5, <2>6 DEF FilesUpTo
<1> QED BY <1>2, <1>3

LEMMA AcceptedAsPackaged ==
  ASSUME StagingInv, status = "accepted"
  PROVE  {<<q, overlay[q].data>> : q \in FilesOf(overlay)} = {w \in Wanted : w[1] # <<>>}
<1> DEFINE used == {<<q, overlay[q].data>> : q \in FilesOf(overlay)}
<1>1. /\ archives \in Inputs /\ \A j \in 1 .. Len(Packages) : Extractable(Packages[j])
      /\ ExactUpTo(Len(Packages)) /\ manifest = FilesUpTo(Len(Packages)) /\ Verified
  BY DEF StagingInv, StagingTypeInv, StagedInv
<1>2. \A f \in manifest : f = <<f[1], f[2]>>
  BY <1>1 DEF FilesUpTo, Share
<1>3. ASSUME NEW f \in manifest PROVE f \in used
  <2>1. f[1] \in FilesOf(overlay) /\ overlay[f[1]].data = f[2]
    BY <1>1 DEF Verified
  <2> QED BY <1>2, <2>1
<1>4. ASSUME NEW q \in FilesOf(overlay) PROVE <<q, overlay[q].data>> \in manifest
  <2>1. PICK f \in manifest : q = f[1]
    BY <1>1 DEF Verified
  <2>2. overlay[q].data = f[2]
    BY <1>1, <2>1 DEF Verified
  <2> QED BY <1>2, <2>1, <2>2
<1>5. used = manifest
  BY <1>3, <1>4
<1> QED BY <1>1, <1>5, WantedFacts

(* A generation that passes the verification has each managed file of its
   packages, from the package it belongs to, and nothing else, whatever was edited;
   one that fails was edited (mods.go, ModManager.Stage and verifyStagedOverlay). *)
THEOREM Packaged == StagingSpec => []UsedAsPackaged
<1>1. StagingInv => UsedAsPackaged
  BY AcceptedAsPackaged DEF StagingInv, StagedInv, UsedAsPackaged
<1> QED BY <1>1, StagingInvariance, PTL

=============================================================================
