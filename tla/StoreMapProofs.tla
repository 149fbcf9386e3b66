--------------------------- MODULE StoreMapProofs ---------------------------
(***************************************************************************)
(* What holds of the shared index of entries for any number of users, any  *)
(* keys, names and slices, and any hash: proofs of the invariants of       *)
(* StoreMap.                                                               *)
(***************************************************************************)
EXTENDS StoreMap, Integers, Sequences, FiniteSets, Functions, FiniteSetTheorems, SequenceTheorems,
        WellFoundedInduction, TLAPS

----------------------------------------------------------------------------
(* Induction *)

\* Induction over the natural numbers, stated with a set instead of a
\* predicate: the least number outside the set would have a predecessor in it.
LEMMA NatSetInduction ==
  ASSUME NEW S, 0 \in S, \A n \in Nat : n \in S => n + 1 \in S
  PROVE  Nat \subseteq S
<1> SUFFICES ASSUME Nat \ S # {} PROVE FALSE
  OBVIOUS
<1>1. PICK x \in Nat \ S : \A y \in Nat \ S : ~ (<<y, x>> \in OpToRel(<, Nat))
  <2> DEFINE T == Nat \ S
  <2> HIDE DEF T
  <2>1. T \subseteq Nat /\ T # {}
    BY DEF T
  <2>2. \E x \in T : \A y \in T : ~ (<<y, x>> \in OpToRel(<, Nat))
    BY <2>1, NatLessThanWellFounded, WFMin
  <2> QED BY <2>2 DEF T
<1>2. \A y \in Nat \ S : ~ (y < x)
  BY <1>1 DEF OpToRel
<1>3. x # 0 /\ x - 1 \in Nat
  OBVIOUS
<1>4. x - 1 \in S
  BY <1>2, <1>3
<1>5. x - 1 + 1 \in S
  BY <1>3, <1>4
<1> QED BY <1>5

----------------------------------------------------------------------------
(* The inductive invariant *)

\* What the lock of f allows a user with record r to do: the operators
\* Readers, Writers and Updaters, one user at a time.
Reads(r, f) ==
  \/ /\ r.at \in {"entering", "entered", "reading", "condemning", "opened"} \cup Updating
     /\ r.fileno = f
  \/ r.at \in Closing /\ r.fresh = f
Writes(r, f) ==
  \/ r.at \in {"writing", "halting", "freeing"} /\ r.fileno = f
  \/ r.at \in Filling /\ r.fresh = f
Updates(r, f) == r.at \in Updating /\ r.fileno = f

\* A user with record r has a shared lock of f that no writer has let it have,
\* has the only lock of f, has opened f to update it, and has made f readable
\* before it looks for a deletion.
Settles(r, f) == Updates(r, f) \/ (r.at \in Closing /\ r.fresh = f)
Fills(r, f) == r.at \in Filling /\ r.fresh = f
Opens(r, f) == r.at \in {"opened", "updating", "choosing"} \cup Filling /\ r.fileno = f /\ ~r.early
Hides(r, f) == r.at = "spliced" /\ r.fresh = f

\* What two users may not do at the same time: the second one counts on it.
Excluded(r, q) ==
  \A f \in Filenos :
    /\ Writes(q, f) => ~Writes(r, f)
    /\ Updates(q, f) => ~Updates(r, f)
    /\ Settles(q, f) => ~Writes(r, f)
    /\ Fills(q, f) => ~Reads(r, f)
    /\ Hides(q, f) => ~Opens(r, f)

LocksExclude ==
  \A u, v \in Users : u # v => Excluded(users[u], users[v])

\* What a user remembers is set where it is used.
Known(r) ==
  /\ r.at # "idle" => r.fileno \in Filenos /\ r.key \in Keys
  /\ r.at \in {"choosing"} \cup Filling \cup Closing => r.fresh \in Filenos /\ r.name \in Names
  /\ r.at \in Filling \cup Closing => r.fresh # r.fileno
  /\ r.at \in Closing => r.splicingPoint \in Slices

\* An entry that can be opened and has not been written to its end.
InProgress(a) == a.partial /\ ~a.waitingToBeFreed

\* What a user may expect of the anchors ac, which it has locked.
Fits(ac, r) ==
  /\ \A f \in Filenos : Writes(r, f) => ac[f].splicingPoint = Nil
  /\ r.at \in {"spliced", "switched", "relocated", "checked"} => ac[r.fileno].splicingPoint = Nil
  /\ r.at = "freed" => ac[r.fileno].splicingPoint = r.splicingPoint
  /\ r.at = "spliced" /\ InProgress(ac[r.fresh]) => ac[r.fileno].waitingToBeFreed
  /\ r.at = "relocated" /\ r.doomed => ac[r.fileno].waitingToBeFreed
  /\ r.at \in {"checked", "freed"} /\ r.doomed => ac[r.fresh].waitingToBeFreed

UsersFit == \A u \in Users : Known(users[u]) /\ Fits(anchors, users[u])

\* An anchor that shares its slices is not found any more.  An entry that is in
\* progress has a writer, or an updater that is about to mark it.
Tends(r, f) == Writes(r, f) \/ Hides(r, f)
AnchorsSound ==
  \A f \in Filenos :
    /\ anchors[f].splicingPoint # Nil => anchors[f].waitingToBeFreed
    /\ InProgress(anchors[f]) => \E u \in Users : Tends(users[u], f)

\* The updates that have spliced the chain of f, and where the slices that f
\* owns end because of them.
Splices(r, f) == r.at \in Closing /\ r.fileno = f
Splicers(f) == {u \in Users : Splices(users[u], f)}
Stop(f) ==
  IF Splicers(f) = {} THEN anchors[f].splicingPoint
  ELSE users[CHOOSE u \in Splicers(f) : TRUE].splicingPoint

\* A chain that nobody has spliced ends, and a free slice leads nowhere.
Ends(f) ==
  Stop(f) = Nil /\ anchors[f].start # Nil => \E e \in Owned(f) : next[e] = Nil

ChainsEnd == \A f \in Filenos : Ends(f)

FreeSlicesUnlinked == \A s \in freeSlots : next[s] = Nil

IInv ==
  /\ TypeOK
  /\ LocksExclude /\ UsersFit /\ AnchorsSound
  /\ SlicesAccounted /\ ChainsEnd /\ FreeSlicesUnlinked

----------------------------------------------------------------------------
(* Chains: what Chain(s, stop) computes is the least set of slices that has *)
(* s and follows the links up to the stop.                                  *)

Linked(D, nx, s, stop) ==
  /\ s # Nil => s \in D
  /\ \A t \in D : t # stop /\ nx[t] # Nil => nx[t] \in D
Reach(nx, s, stop) ==
  {t \in Slices : \A D \in SUBSET Slices : Linked(D, nx, s, stop) => t \in D}

\* The walk along the links that Chain() makes, n steps of it.
IsWalk(w, n, nx, s, stop) ==
  w = [i \in 0..n |-> IF i = 0 THEN s ELSE IF w[i - 1] \in {Nil, stop} THEN Nil ELSE nx[w[i - 1]]]

\* There is such a walk of any length.
LEMMA WalkExists ==
  ASSUME NEW nx, NEW s, NEW stop, NEW n \in Nat
  PROVE  \E w : IsWalk(w, n, nx, s, stop)
<1> DEFINE S == {k \in Nat : \E w : IsWalk(w, k, nx, s, stop)}
<1>1. 0 \in S
  <2>1. IsWalk([i \in 0..0 |-> s], 0, nx, s, stop)
    BY DEF IsWalk
  <2> QED BY <2>1
<1>2. ASSUME NEW k \in Nat, k \in S PROVE k + 1 \in S
  <2>1. PICK w : IsWalk(w, k, nx, s, stop)
    BY <1>2
  <2> DEFINE step == IF w[k] \in {Nil, stop} THEN Nil ELSE nx[w[k]]
             v == [i \in 0..k + 1 |-> IF i = k + 1 THEN step ELSE w[i]]
  <2>2. \A i \in 0..k : v[i] = w[i]
    OBVIOUS
  <2>3. \A i \in 0..k : w[i] = IF i = 0 THEN s ELSE IF w[i - 1] \in {Nil, stop} THEN Nil ELSE nx[w[i - 1]]
    BY <2>1 DEF IsWalk
  <2>4. ASSUME NEW i \in 0..k + 1
        PROVE  v[i] = IF i = 0 THEN s ELSE IF v[i - 1] \in {Nil, stop} THEN Nil ELSE nx[v[i - 1]]
    <3>1. CASE i = k + 1
      <4>1. v[i] = step /\ v[i - 1] = w[k] /\ i # 0
        BY <3>1, <2>2
      <4> QED BY <4>1
    <3>2. CASE i \in 0..k
      <4>1. v[i] = w[i] /\ (i # 0 => v[i - 1] = w[i - 1])
        BY <3>2, <2>2
      <4> QED BY <4>1, <3>2, <2>3
    <3> QED BY <3>1, <3>2
  <2>5. IsWalk(v, k + 1, nx, s, stop)
    <3>1. v = [i \in 0..k + 1 |-> v[i]]
      OBVIOUS
    <3> HIDE DEF v
    <3> QED BY <3>1, <2>4, Zenon DEF IsWalk
  <2>6. \E x : IsWalk(x, k + 1, nx, s, stop)
    <3> HIDE DEF v
    <3> QED BY <2>5, Zenon
  <2> QED BY <2>6
<1>3. Nat \subseteq S
  <2> HIDE DEF S
  <2> QED BY <1>1, <1>2, NatSetInduction
<1> QED BY <1>3

\* What such a walk visits.
Visited(nx, s, stop) ==
  LET w == CHOOSE g : IsWalk(g, Cardinality(Slices), nx, s, stop)
  IN  {w[i] : i \in DOMAIN w} \ {Nil}

LEMMA VisitedByWalk ==
  ASSUME NEW nx, NEW s, NEW stop, NEW n, n = Cardinality(Slices), n \in Nat
  PROVE  \E w : IsWalk(w, n, nx, s, stop) /\ Visited(nx, s, stop) = {w[i] : i \in 0..n} \ {Nil}
<1> DEFINE w == CHOOSE g : IsWalk(g, n, nx, s, stop)
<1>1. IsWalk(w, n, nx, s, stop)
  BY WalkExists
<1>2. DOMAIN w = 0..n
  <2> HIDE DEF w
  <2> QED BY <1>1 DEF IsWalk
<1>3. Visited(nx, s, stop) = {w[i] : i \in DOMAIN w} \ {Nil}
  BY DEF Visited
<1> HIDE DEF w
<1> QED BY <1>1, <1>2, <1>3

\* The steps of a walk, and that it stays inside every set that is linked.
LEMMA WalkSteps ==
  ASSUME NEW w, NEW n \in Nat, NEW nx \in [Slices -> Slices \cup {Nil}],
         NEW s \in Slices \cup {Nil}, NEW stop, IsWalk(w, n, nx, s, stop)
  PROVE  /\ w[0] = s
         /\ \A i \in 0..n : w[i] \in Slices \cup {Nil}
         /\ \A i \in 1..n : w[i] = IF w[i - 1] \in {Nil, stop} THEN Nil ELSE nx[w[i - 1]]
         /\ \A D \in SUBSET Slices : Linked(D, nx, s, stop) => \A i \in 0..n : w[i] \in D \cup {Nil}
<1>1. \A i \in 0..n : w[i] = IF i = 0 THEN s ELSE IF w[i - 1] \in {Nil, stop} THEN Nil ELSE nx[w[i - 1]]
  BY DEF IsWalk
<1>2. w[0] = s
  BY <1>1
<1>3. \A i \in 1..n : w[i] = IF w[i - 1] \in {Nil, stop} THEN Nil ELSE nx[w[i - 1]]
  BY <1>1
<1>4. ASSUME NEW D \in SUBSET Slices, Linked(D, nx, s, stop)
      PROVE  \A i \in 0..n : w[i] \in D \cup {Nil}
  <2> DEFINE S == {i \in Nat : i <= n => w[i] \in D \cup {Nil}}
  <2>1. 0 \in S
    BY <1>2, <1>4 DEF Linked
  <2>2. ASSUME NEW i \in Nat, i \in S PROVE i + 1 \in S
    <3>1. SUFFICES ASSUME i + 1 <= n PROVE w[i + 1] \in D \cup {Nil}
      OBVIOUS
    <3>2. w[i] \in D \cup {Nil} /\ i + 1 \in 1..n
      BY <3>1, <2>2
    <3>3. w[i + 1] = IF w[i] \in {Nil, stop} THEN Nil ELSE nx[w[i]]
      BY <3>2, <1>3
    <3> QED BY <3>2, <3>3, <1>4 DEF Linked
  <2>3. Nat \subseteq S
    <3> HIDE DEF S
    <3> QED BY <2>1, <2>2, NatSetInduction
  <2> QED BY <2>3
<1>5. \A i \in 0..n : w[i] \in Slices \cup {Nil}
  <2>1. Linked(Slices, nx, s, stop)
    BY DEF Linked
  <2> QED BY <2>1, <1>4
<1> QED BY <1>2, <1>3, <1>4, <1>5

\* A walk of as many steps as there are slices comes to an end or repeats
\* itself: what it visits is linked.
LEMMA WalkVisitsAll ==
  ASSUME NEW w, NEW n, n = Cardinality(Slices), NEW nx \in [Slices -> Slices \cup {Nil}],
         NEW s \in Slices \cup {Nil}, NEW stop, IsWalk(w, n, nx, s, stop)
  PROVE  Linked({w[i] : i \in 0..n} \ {Nil}, nx, s, stop)
<1>0. n \in Nat /\ IsFiniteSet(Slices) /\ Nil \notin Slices
  BY FS_CardinalityType, MapAssumption
<1> DEFINE C == {w[i] : i \in 0..n} \ {Nil}
<1>1. /\ w[0] = s
      /\ \A i \in 0..n : w[i] \in Slices \cup {Nil}
      /\ \A i \in 1..n : w[i] = IF w[i - 1] \in {Nil, stop} THEN Nil ELSE nx[w[i - 1]]
  BY <1>0, WalkSteps
\* Somewhere, the walk is at an end or at a place where it was before.
<1>2. \E k \in 0..n : w[k] = Nil \/ \E j \in 0..k - 1 : w[j] = w[k]
  <2>1. SUFFICES ASSUME \A k \in 0..n : w[k] # Nil PROVE \E k \in 0..n : \E j \in 0..k - 1 : w[j] = w[k]
    OBVIOUS
  <2>2. w \in [0..n -> Slices]
    BY <2>1, <1>1 DEF IsWalk
  <2>3. IsFiniteSet(0..n) /\ Cardinality(0..n) = n + 1
    BY <1>0, FS_Interval
  <2>4. \E x, y \in 0..n : x # y /\ w[x] = w[y]
    BY <2>2, <2>3, <1>0, FS_PigeonHole
  <2>5. PICK x, y \in 0..n : x # y /\ w[x] = w[y]
    BY <2>4
  <2>6. CASE x < y
    BY <2>5, <2>6
  <2>7. CASE y < x
    BY <2>5, <2>7
  <2> QED BY <2>5, <2>6, <2>7
<1>3. PICK k \in 0..n : w[k] = Nil \/ \E j \in 0..k - 1 : w[j] = w[k]
  BY <1>2
\* From there on, nothing new is visited.
<1> DEFINE D == {w[i] : i \in 0..k - 1} \ {Nil}
<1>4. ASSUME NEW i \in 0..k - 1, w[i] # Nil, w[i] # stop, nx[w[i]] # Nil
      PROVE  nx[w[i]] \in D
  <2>1. i + 1 \in 1..n /\ i + 1 \in 0..k
    BY <1>0
  <2>2. w[i + 1] = nx[w[i]]
    BY <2>1, <1>1, <1>4
  <2>3. CASE i + 1 \in 0..k - 1
    BY <2>2, <2>3, <1>4
  <2>4. CASE i + 1 = k
    <3>1. PICK j \in 0..k - 1 : w[j] = w[k]
      BY <1>3, <1>4, <2>2, <2>4
    <3> QED BY <3>1, <2>2, <2>4, <1>4
  <2> QED BY <2>1, <2>3, <2>4
<1>5. Linked(D, nx, s, stop)
  <2>1. s # Nil => s \in D
    <3>1. CASE k = 0
      BY <3>1, <1>1, <1>3
    <3>2. CASE k # 0
      BY <3>2, <1>1
    <3> QED BY <3>1, <3>2
  <2>2. \A t \in D : t # stop /\ nx[t] # Nil => nx[t] \in D
    BY <1>4
  <2> QED BY <2>1, <2>2 DEF Linked
<1>6. D \in SUBSET Slices
  BY <1>0, <1>1
<1>7. \A i \in 0..n : w[i] \in D \cup {Nil}
  <2> HIDE DEF D
  <2> QED BY <1>0, <1>5, <1>6, WalkSteps
<1>8. C = D
  BY <1>7, <1>0
<1> QED BY <1>5, <1>8

\* So the chain is the least linked set.
LEMMA VisitedIsReach ==
  ASSUME NEW nx \in [Slices -> Slices \cup {Nil}], NEW s \in Slices \cup {Nil}, NEW stop
  PROVE  Visited(nx, s, stop) = Reach(nx, s, stop)
<1> DEFINE n == Cardinality(Slices)
           C == Visited(nx, s, stop)
<1>0. n \in Nat /\ Nil \notin Slices
  BY FS_CardinalityType, MapAssumption
<1>1. PICK w : IsWalk(w, n, nx, s, stop) /\ C = {w[i] : i \in 0..n} \ {Nil}
  BY <1>0, VisitedByWalk
<1>2. Linked(C, nx, s, stop)
  BY <1>1, WalkVisitsAll
<1>3. /\ \A i \in 0..n : w[i] \in Slices \cup {Nil}
      /\ \A D \in SUBSET Slices : Linked(D, nx, s, stop) => \A i \in 0..n : w[i] \in D \cup {Nil}
  BY <1>0, <1>1, WalkSteps
<1> HIDE DEF n, C
<1>4. C \in SUBSET Slices
  BY <1>1, <1>3
<1>5. \A D \in SUBSET Slices : Linked(D, nx, s, stop) => C \subseteq D
  BY <1>1, <1>3
<1>6. C = Reach(nx, s, stop)
  BY <1>2, <1>4, <1>5 DEF Reach
<1> QED BY <1>6 DEF C

LEMMA ChainIsReach ==
  ASSUME NEW s \in Slices \cup {Nil}, NEW stop, next \in [Slices -> Slices \cup {Nil}]
  PROVE  Chain(s, stop) = Reach(next, s, stop)
<1>1. Chain(s, stop) = Visited(next, s, stop)
  BY DEF Chain, Visited, IsWalk
<1> QED BY <1>1, VisitedIsReach

\* What makes Reach() easy to use.
LEMMA ReachIsLeast ==
  ASSUME NEW nx \in [Slices -> Slices \cup {Nil}], NEW s \in Slices \cup {Nil}, NEW stop
  PROVE  /\ Reach(nx, s, stop) \in SUBSET Slices
         /\ Linked(Reach(nx, s, stop), nx, s, stop)
         /\ \A D \in SUBSET Slices : Linked(D, nx, s, stop) => Reach(nx, s, stop) \subseteq D
<1>0. Nil \notin Slices
  BY MapAssumption
<1>1. s # Nil => s \in Reach(nx, s, stop)
  BY DEF Reach, Linked
<1>2. ASSUME NEW t \in Reach(nx, s, stop), t # stop, nx[t] # Nil PROVE nx[t] \in Reach(nx, s, stop)
  <2>1. t \in Slices /\ nx[t] \in Slices
    BY <1>2 DEF Reach
  <2>2. ASSUME NEW D \in SUBSET Slices, Linked(D, nx, s, stop) PROVE nx[t] \in D
    <3>1. t \in D
      BY <2>2, <1>2 DEF Reach
    <3> QED BY <3>1, <2>2, <1>2 DEF Linked
  <2> QED BY <2>1, <2>2 DEF Reach
<1>3. Linked(Reach(nx, s, stop), nx, s, stop)
  BY <1>1, <1>2 DEF Linked
<1> QED BY <1>3 DEF Reach

\* Links elsewhere do not matter.
LEMMA ReachFrame ==
  ASSUME NEW nx \in [Slices -> Slices \cup {Nil}], NEW my \in [Slices -> Slices \cup {Nil}],
         NEW s \in Slices \cup {Nil}, NEW stop,
         \A t \in Reach(nx, s, stop) : t # stop => my[t] = nx[t]
  PROVE  Reach(my, s, stop) = Reach(nx, s, stop)
<1> DEFINE R == Reach(nx, s, stop)
           Q == Reach(my, s, stop)
<1>1. /\ R \in SUBSET Slices /\ Linked(R, nx, s, stop)
      /\ \A D \in SUBSET Slices : Linked(D, nx, s, stop) => R \subseteq D
  BY ReachIsLeast
<1>2. /\ Q \in SUBSET Slices /\ Linked(Q, my, s, stop)
      /\ \A D \in SUBSET Slices : Linked(D, my, s, stop) => Q \subseteq D
  BY ReachIsLeast
<1>3. \A t \in R : t # stop => my[t] = nx[t]
  OBVIOUS
<1> HIDE DEF R, Q
<1>4. Linked(R, my, s, stop)
  BY <1>1, <1>3 DEF Linked
<1>5. Q \subseteq R
  BY <1>1, <1>2, <1>4
<1>6. Linked(Q, nx, s, stop)
  BY <1>2, <1>3, <1>5 DEF Linked
<1>7. R \subseteq Q
  BY <1>1, <1>2, <1>6
<1> QED BY <1>5, <1>7 DEF R, Q

\* The chain of nothing, and of a slice that leads nowhere.
LEMMA ReachShort ==
  ASSUME NEW nx \in [Slices -> Slices \cup {Nil}], NEW stop
  PROVE  /\ Reach(nx, Nil, stop) = {}
         /\ \A s \in Slices : nx[s] = Nil => Reach(nx, s, stop) = {s}
<1>0. Nil \notin Slices
  BY MapAssumption
<1>1. Reach(nx, Nil, stop) = {}
  <2>1. Linked({}, nx, Nil, stop)
    BY DEF Linked
  <2> QED BY <2>1, ReachIsLeast
<1>2. ASSUME NEW s \in Slices, nx[s] = Nil PROVE Reach(nx, s, stop) = {s}
  <2>1. Linked({s}, nx, s, stop)
    BY <1>2 DEF Linked
  <2>2. Linked(Reach(nx, s, stop), nx, s, stop)
    BY ReachIsLeast
  <2>3. s \in Reach(nx, s, stop)
    BY <2>2, <1>0 DEF Linked
  <2>4. Reach(nx, s, stop) \subseteq {s}
    BY <2>1, ReachIsLeast
  <2> QED BY <2>3, <2>4
<1> QED BY <1>1, <1>2

\* Linking x to the end of a chain adds the chain of x.
LEMMA ReachLink ==
  ASSUME NEW nx \in [Slices -> Slices \cup {Nil}], NEW s \in Slices, NEW x \in Slices \cup {Nil},
         NEW e \in Reach(nx, s, Nil), nx[e] = Nil, e \notin Reach(nx, x, Nil),
         NEW my \in [Slices -> Slices \cup {Nil}], my[e] = x, \A t \in Slices : t # e => my[t] = nx[t]
  PROVE  Reach(my, s, Nil) = Reach(nx, s, Nil) \cup Reach(nx, x, Nil)
<1> DEFINE R == Reach(nx, s, Nil)
           B == Reach(nx, x, Nil)
           Q == Reach(my, s, Nil)
<1>0. Nil \notin Slices
  BY MapAssumption
<1>1. /\ R \in SUBSET Slices /\ Linked(R, nx, s, Nil)
      /\ \A D \in SUBSET Slices : Linked(D, nx, s, Nil) => R \subseteq D
  BY ReachIsLeast
<1>2. /\ B \in SUBSET Slices /\ Linked(B, nx, x, Nil)
      /\ \A D \in SUBSET Slices : Linked(D, nx, x, Nil) => B \subseteq D
  BY ReachIsLeast
<1>3. e \in Slices
  BY <1>1
<1>4. my[e] = x /\ \A t \in Slices : t # e => my[t] = nx[t]
  OBVIOUS
<1>5. /\ Q \in SUBSET Slices /\ Linked(Q, my, s, Nil)
      /\ \A D \in SUBSET Slices : Linked(D, my, s, Nil) => Q \subseteq D
  BY <1>3, ReachIsLeast
<1>6. e \in R /\ nx[e] = Nil /\ e \notin B
  OBVIOUS
<1> HIDE DEF R, B, Q
<1>7. Linked(R \cup B, my, s, Nil)
  <2>1. \A t \in R \cup B : my[t] # Nil => my[t] \in R \cup B
    BY <1>0, <1>1, <1>2, <1>4, <1>6 DEF Linked
  <2> QED BY <2>1, <1>1 DEF Linked
<1>8. Q \subseteq R \cup B
  BY <1>1, <1>2, <1>5, <1>7
<1>9. Linked(Q, nx, s, Nil)
  <2>1. \A t \in Q : nx[t] # Nil => nx[t] \in Q
    BY <1>0, <1>4, <1>5, <1>6 DEF Linked
  <2> QED BY <2>1, <1>5 DEF Linked
<1>10. R \subseteq Q
  BY <1>1, <1>5, <1>9
<1>11. x # Nil => x \in Q
  BY <1>0, <1>3, <1>4, <1>5, <1>6, <1>10 DEF Linked
<1>12. Linked(Q, nx, x, Nil)
  BY <1>9, <1>11 DEF Linked
<1>13. B \subseteq Q
  BY <1>2, <1>5, <1>12
<1>14. Q = R \cup B
  BY <1>8, <1>10, <1>13
<1> QED BY <1>14 DEF R, B, Q

\* The chain of a slice is the slice and the chain of the next one.
LEMMA ReachUnfold ==
  ASSUME NEW nx \in [Slices -> Slices \cup {Nil}], NEW s \in Slices
  PROVE  Reach(nx, s, Nil) = {s} \cup Reach(nx, nx[s], Nil)
<1> DEFINE R == Reach(nx, s, Nil)
           B == Reach(nx, nx[s], Nil)
<1>0. Nil \notin Slices /\ nx[s] \in Slices \cup {Nil}
  BY MapAssumption
<1>1. /\ R \in SUBSET Slices /\ Linked(R, nx, s, Nil)
      /\ \A D \in SUBSET Slices : Linked(D, nx, s, Nil) => R \subseteq D
  BY ReachIsLeast
<1>2. /\ B \in SUBSET Slices /\ Linked(B, nx, nx[s], Nil)
      /\ \A D \in SUBSET Slices : Linked(D, nx, nx[s], Nil) => B \subseteq D
  BY <1>0, ReachIsLeast
<1> HIDE DEF R, B
<1>3. Linked({s} \cup B, nx, s, Nil)
  BY <1>0, <1>2 DEF Linked
<1>4. Linked(R, nx, nx[s], Nil) /\ s \in R
  BY <1>0, <1>1 DEF Linked
<1>5. R \subseteq {s} \cup B /\ B \subseteq R
  BY <1>1, <1>2, <1>3, <1>4
<1> QED BY <1>4, <1>5 DEF R, B

\* The chain of a slice further on is part of the chain.
LEMMA ReachSuffix ==
  ASSUME NEW nx \in [Slices -> Slices \cup {Nil}], NEW s \in Slices \cup {Nil}, NEW t \in Reach(nx, s, Nil)
  PROVE  t \in Slices /\ Reach(nx, t, Nil) \subseteq Reach(nx, s, Nil)
<1> DEFINE R == Reach(nx, s, Nil)
<1>1. R \in SUBSET Slices /\ Linked(R, nx, s, Nil)
  BY ReachIsLeast
<1>2. t \in R
  OBVIOUS
<1> HIDE DEF R
<1>3. t \in Slices /\ Linked(R, nx, t, Nil)
  BY <1>1, <1>2 DEF Linked
<1> QED BY <1>1, <1>3, ReachIsLeast DEF R

\* A chain that ends has no cycle: no slice comes after itself.
LEMMA NoCycle ==
  ASSUME NEW nx \in [Slices -> Slices \cup {Nil}], NEW s \in Slices,
         NEW e \in Reach(nx, s, Nil), nx[e] = Nil, NEW t \in Reach(nx, s, Nil)
  PROVE  t \notin Reach(nx, nx[t], Nil) /\ e \in Reach(nx, t, Nil)
<1> DEFINE R(x) == Reach(nx, x, Nil)
<1>0. Nil \notin Slices
  BY MapAssumption
<1>1. ASSUME NEW x \in Slices
      PROVE  /\ R(x) \in SUBSET Slices /\ x \in R(x)
             /\ \A y \in R(x) : nx[y] # Nil => nx[y] \in R(x)
             /\ \A D \in SUBSET Slices : Linked(D, nx, x, Nil) => R(x) \subseteq D
             /\ R(x) = {x} \cup R(nx[x])
  <2>1. /\ R(x) \in SUBSET Slices /\ Linked(R(x), nx, x, Nil)
        /\ \A D \in SUBSET Slices : Linked(D, nx, x, Nil) => R(x) \subseteq D
    BY ReachIsLeast
  <2>2. R(x) = {x} \cup R(nx[x])
    BY ReachUnfold
  <2> HIDE DEF R
  <2> QED BY <2>1, <2>2, <1>0 DEF Linked
<1>2. R(Nil) = {}
  BY ReachShort
<1>3. e \in R(s) /\ t \in R(s) /\ nx[e] = Nil /\ e \in Slices /\ t \in Slices
  BY <1>1
<1> HIDE DEF R
\* Any two slices of the chain are in some order.
<1>4. e \in R(t) \/ t \in R(e)
  <2> DEFINE D == {x \in Slices : x \in R(t) \/ t \in R(x)}
  <2>1. s \in D
    BY <1>3
  <2>2. ASSUME NEW x \in D, nx[x] # Nil PROVE nx[x] \in D
    <3>1. nx[x] \in Slices
      BY <2>2
    <3>2. CASE x \in R(t)
      BY <3>1, <3>2, <2>2, <1>1, <1>3
    <3>3. CASE t \in R(x)
      <4>1. t = x \/ t \in R(nx[x])
        BY <3>3, <1>1
      <4>2. t = x => nx[x] \in R(t)
        BY <2>2, <1>1
      <4> QED BY <4>1, <4>2, <3>1
    <3> QED BY <2>2, <3>2, <3>3
  <2>3. Linked(D, nx, s, Nil) /\ D \in SUBSET Slices
    BY <2>1, <2>2 DEF Linked
  <2>4. R(s) \subseteq D
    <3> HIDE DEF D
    <3> QED BY <2>3, <1>1
  <2> QED BY <2>4, <1>3
<1>5. R(e) = {e}
  BY <1>1, <1>2, <1>3
<1>6. e \in R(t)
  BY <1>4, <1>5, <1>1, <1>3
\* If t came after itself, it would come after every slice that comes after it.
<1>7. ASSUME t \in R(nx[t]) PROVE FALSE
  <2> DEFINE D == {x \in R(t) : t \in R(nx[x])}
  <2>1. ASSUME NEW x \in D, nx[x] # Nil PROVE nx[x] \in D
    <3>1. x \in R(t) /\ t \in R(nx[x]) /\ x \in Slices
      BY <1>1, <1>3
    <3>2. nx[x] \in R(t) /\ nx[x] \in Slices
      BY <2>1, <3>1, <1>1, <1>3
    <3>3. t = nx[x] \/ t \in R(nx[nx[x]])
      BY <3>1, <3>2, <1>1
    <3> QED BY <3>2, <3>3, <1>7
  <2>2. Linked(D, nx, t, Nil) /\ D \in SUBSET Slices
    BY <2>1, <1>1, <1>3, <1>7 DEF Linked
  <2>3. R(t) \subseteq D
    <3> HIDE DEF D
    <3> QED BY <2>2, <1>1, <1>3
  <2>4. t \in R(nx[e])
    BY <2>3, <1>6
  <2> QED BY <2>4, <1>2, <1>3
<1> QED BY <1>6, <1>7 DEF R

\* A chain that ends, taken apart after p: the part up to p, and the rest.
LEMMA ReachSplit ==
  ASSUME NEW nx \in [Slices -> Slices \cup {Nil}], NEW s \in Slices,
         NEW e \in Reach(nx, s, Nil), nx[e] = Nil, NEW p \in Reach(nx, s, Nil)
  PROVE  /\ Reach(nx, s, Nil) = Reach(nx, s, p) \cup Reach(nx, nx[p], Nil)
         /\ Reach(nx, s, p) \cap Reach(nx, nx[p], Nil) = {}
         /\ nx[p] # Nil => e \in Reach(nx, nx[p], Nil)
<1> DEFINE R(x) == Reach(nx, x, Nil)
           A == Reach(nx, s, p)
           B == R(nx[p])
<1>0. Nil \notin Slices
  BY MapAssumption
<1>1. /\ R(s) \in SUBSET Slices /\ Linked(R(s), nx, s, Nil)
      /\ \A D \in SUBSET Slices : Linked(D, nx, s, Nil) => R(s) \subseteq D
  BY ReachIsLeast
<1>2. /\ A \in SUBSET Slices /\ Linked(A, nx, s, p)
      /\ \A D \in SUBSET Slices : Linked(D, nx, s, p) => A \subseteq D
  BY ReachIsLeast
<1>3. p \in Slices /\ nx[p] \in Slices \cup {Nil} /\ p \in R(s) /\ e \in R(s) /\ e \in Slices
  BY <1>1
<1>4. /\ B \in SUBSET Slices /\ Linked(B, nx, nx[p], Nil)
      /\ \A D \in SUBSET Slices : Linked(D, nx, nx[p], Nil) => B \subseteq D
  BY <1>3, ReachIsLeast
<1>5. p \notin B /\ e \in R(p)
  BY NoCycle
<1>6. \A x \in Slices : R(x) = {x} \cup R(nx[x])
  BY ReachUnfold
<1>7. \A x \in B : R(x) \subseteq B
  BY <1>3, ReachSuffix
<1> HIDE DEF R, A
<1>8. R(s) = A \cup B
  <2>1. Linked(A \cup B, nx, s, Nil)
    <3> HIDE DEF B
    <3>1. \A t \in A \cup B : nx[t] # Nil => nx[t] \in A \cup B
      BY <1>0, <1>2, <1>4 DEF Linked
    <3> QED BY <3>1, <1>2 DEF Linked
  <2>2. Linked(R(s), nx, s, p) /\ Linked(R(s), nx, nx[p], Nil)
    BY <1>0, <1>1, <1>3 DEF Linked
  <2> HIDE DEF B
  <2> QED BY <2>1, <2>2, <1>1, <1>2, <1>4
<1>9. \A x \in A : p \in R(x)
  <2> DEFINE D == {x \in Slices : p \in R(x)}
  <2>1. ASSUME NEW x \in D, x # p, nx[x] # Nil PROVE nx[x] \in D
    BY <2>1, <1>6
  <2>2. Linked(D, nx, s, p) /\ D \in SUBSET Slices
    BY <2>1, <1>3 DEF Linked
  <2>3. A \subseteq D
    <3> HIDE DEF D
    <3> QED BY <2>2, <1>2
  <2> QED BY <2>3
<1>10. A \cap B = {}
  BY <1>5, <1>7, <1>9
<1>11. nx[p] # Nil => e \in B
  BY <1>3, <1>5, <1>6
<1> QED BY <1>8, <1>10, <1>11 DEF R, A

----------------------------------------------------------------------------
(* The slices that an anchor owns *)

\* The operators of the specification, in these terms, before and after a step.
LEMMA OwnedIs ==
  ASSUME TypeOK, NEW f \in Filenos
  PROVE  /\ Owned(f) = Reach(next, anchors[f].start, Stop(f))
         /\ OwnChain(f) = Reach(next, anchors[f].start, anchors[f].splicingPoint)
         /\ freeChainAt(f) = OwnChain(f)
         /\ Splicers(f) = {} => Owned(f) = OwnChain(f)
<1>1. /\ next \in [Slices -> Slices \cup {Nil}]
      /\ anchors[f].start \in Slices \cup {Nil}
  BY DEF TypeOK, Anchor
<1>2. OwnChain(f) = Chain(anchors[f].start, anchors[f].splicingPoint) /\ freeChainAt(f) = OwnChain(f)
  BY DEF OwnChain, freeChainAt
<1>3. Owned(f) = Chain(anchors[f].start, Stop(f)) /\ (Splicers(f) = {} => Owned(f) = OwnChain(f))
  BY DEF Owned, OwnChain, Stop, Splicers, Splices
<1>4. \A stop : Chain(anchors[f].start, stop) = Reach(next, anchors[f].start, stop)
  <2>1. ASSUME NEW stop PROVE Chain(anchors[f].start, stop) = Visited(next, anchors[f].start, stop)
    BY DEF Chain, Visited, IsWalk
  <2> QED BY <2>1, <1>1, VisitedIsReach
<1> QED BY <1>2, <1>3, <1>4

LEMMA OwnedIsAfter ==
  ASSUME TypeOK', NEW f \in Filenos
  PROVE  Owned(f)' = Reach(next', anchors'[f].start, Stop(f)')
<1>1. /\ next' \in [Slices -> Slices \cup {Nil}]
      /\ anchors'[f].start \in Slices \cup {Nil}
  BY DEF TypeOK, Anchor
<1>2. Owned(f)' = Chain(anchors[f].start, Stop(f))'
  BY DEF Owned, OwnChain, Stop, Splicers, Splices
<1>3. Chain(anchors[f].start, Stop(f))' = Visited(next', anchors'[f].start, Stop(f)')
  BY DEF Chain, Visited, IsWalk
<1> QED BY <1>1, <1>2, <1>3, VisitedIsReach

----------------------------------------------------------------------------
(* Slices are accounted for: what freeing, linking and splicing do, for any *)
(* links nx, starts st and stops sp of the anchors, and free slices fr.     *)

Accounted(nx, st, sp, fr) ==
  /\ \A f, g \in Filenos : f # g => Reach(nx, st[f], sp[f]) \cap Reach(nx, st[g], sp[g]) = {}
  /\ \A f \in Filenos : Reach(nx, st[f], sp[f]) \cap fr = {}
  /\ fr \subseteq Slices /\ \A s \in Slices : s \in fr \/ \E f \in Filenos : s \in Reach(nx, st[f], sp[f])
  /\ \A f \in Filenos : sp[f] = Nil /\ st[f] # Nil => \E e \in Reach(nx, st[f], sp[f]) : nx[e] = Nil
  /\ \A s \in fr : nx[s] = Nil

\* freeChain() of f
LEMMA FreeKeeps ==
  ASSUME NEW nx \in [Slices -> Slices \cup {Nil}], NEW st \in [Filenos -> Slices \cup {Nil}], NEW sp, NEW fr,
         Accounted(nx, st, sp, fr), NEW f \in Filenos,
         NEW my, my = [s \in Slices |-> IF s \in Reach(nx, st[f], sp[f]) THEN Nil ELSE nx[s]],
         NEW tt \in [Filenos -> Slices \cup {Nil}], NEW tp, tt[f] = Nil,
         \A g \in Filenos : g # f => tt[g] = st[g] /\ tp[g] = sp[g]
  PROVE  /\ my \in [Slices -> Slices \cup {Nil}]
         /\ Accounted(my, tt, tp, fr \cup Reach(nx, st[f], sp[f]))
<1> DEFINE O(g) == Reach(nx, st[g], sp[g])
           Q(g) == Reach(my, tt[g], tp[g])
<1>0. Nil \notin Slices /\ my \in [Slices -> Slices \cup {Nil}]
  BY MapAssumption
<1>1. \A g \in Filenos : O(g) \in SUBSET Slices
  BY ReachIsLeast
<1>2. Q(f) = {}
  BY <1>0, ReachShort
<1>3. ASSUME NEW g \in Filenos, g # f PROVE Q(g) = O(g) /\ \A s \in O(g) : my[s] = nx[s]
  <2>1. \A s \in O(g) : my[s] = nx[s]
    BY <1>1, <1>3 DEF Accounted
  <2>2. Reach(my, st[g], sp[g]) = O(g)
    BY <2>1, <1>0, ReachFrame
  <2> QED BY <2>1, <2>2, <1>3
<1>4. /\ \A g, h \in Filenos : g # h => O(g) \cap O(h) = {}
      /\ \A g \in Filenos : O(g) \cap fr = {}
      /\ fr \subseteq Slices /\ \A s \in Slices : s \in fr \/ \E g \in Filenos : s \in O(g)
      /\ \A g \in Filenos : sp[g] = Nil /\ st[g] # Nil => \E e \in O(g) : nx[e] = Nil
      /\ \A s \in fr : nx[s] = Nil
  BY DEF Accounted
<1>5. \A s \in fr \cup O(f) : my[s] = Nil
  BY <1>1, <1>4
<1> HIDE DEF O, Q
<1>6. \A g, h \in Filenos : g # h => Q(g) \cap Q(h) = {}
  BY <1>2, <1>3, <1>4
<1>7. \A g \in Filenos : Q(g) \cap (fr \cup O(f)) = {}
  BY <1>2, <1>3, <1>4
<1>8. \A s \in Slices : s \in fr \cup O(f) \/ \E g \in Filenos : s \in Q(g)
  <2> SUFFICES ASSUME NEW s \in Slices, s \notin fr \cup O(f) PROVE \E g \in Filenos : s \in Q(g)
    OBVIOUS
  <2>1. PICK g \in Filenos : s \in O(g)
    BY <1>4
  <2> QED BY <2>1, <1>3
<1>9. ASSUME NEW g \in Filenos, tp[g] = Nil, tt[g] # Nil PROVE \E e \in Q(g) : my[e] = Nil
  <2>1. g # f
    BY <1>9
  <2>2. PICK e \in O(g) : nx[e] = Nil
    BY <2>1, <1>4, <1>9
  <2> QED BY <2>1, <2>2, <1>3
<1>10. fr \cup O(f) \subseteq Slices
  BY <1>1, <1>4
<1> QED BY <1>0, <1>5, <1>6, <1>7, <1>8, <1>9, <1>10 DEF Accounted, O, Q

\* A free slice is linked to the end of the chain of f, or starts it.
LEMMA LinkKeeps ==
  ASSUME NEW nx \in [Slices -> Slices \cup {Nil}], NEW st \in [Filenos -> Slices \cup {Nil}], NEW sp, NEW fr,
         Accounted(nx, st, sp, fr), NEW f \in Filenos, sp[f] = Nil, NEW x \in fr,
         NEW my, NEW tt,
         \/ st[f] = Nil /\ my = nx /\ tt = [st EXCEPT ![f] = x]
         \/ /\ st[f] # Nil /\ tt = st
            /\ \E e \in Reach(nx, st[f], Nil) :
                 /\ nx[e] = Nil /\ my \in [Slices -> Slices \cup {Nil}]
                 /\ my[e] = x /\ \A t \in Slices : t # e => my[t] = nx[t]
  PROVE  /\ my \in [Slices -> Slices \cup {Nil}] /\ tt \in [Filenos -> Slices \cup {Nil}]
         /\ Accounted(my, tt, sp, fr \ {x})
<1> DEFINE O(g) == Reach(nx, st[g], sp[g])
           Q(g) == Reach(my, tt[g], sp[g])
<1>0. Nil \notin Slices
  BY MapAssumption
<1>1. \A g \in Filenos : O(g) \in SUBSET Slices
  BY ReachIsLeast
<1>2. /\ \A g, h \in Filenos : g # h => O(g) \cap O(h) = {}
      /\ \A g \in Filenos : O(g) \cap fr = {}
      /\ fr \subseteq Slices /\ \A s \in Slices : s \in fr \/ \E g \in Filenos : s \in O(g)
      /\ \A g \in Filenos : sp[g] = Nil /\ st[g] # Nil => \E e \in O(g) : nx[e] = Nil
      /\ \A s \in fr : nx[s] = Nil
  BY DEF Accounted
<1>3. x \in Slices /\ nx[x] = Nil /\ Reach(nx, x, Nil) = {x}
  BY <1>2, ReachShort
<1>4. SUFFICES
        /\ my \in [Slices -> Slices \cup {Nil}] /\ tt \in [Filenos -> Slices \cup {Nil}]
        /\ Q(f) = O(f) \cup {x} /\ \A g \in Filenos : g # f => Q(g) = O(g) /\ tt[g] = st[g]
        /\ \E e \in Q(f) : my[e] = Nil
        /\ \A s \in Slices : s \notin O(f) => my[s] = nx[s]
  <2> SUFFICES Accounted(my, tt, sp, fr \ {x})
    OBVIOUS
  <2> HIDE DEF O, Q
  <2>1. \A g, h \in Filenos : g # h => Q(g) \cap Q(h) = {}
    BY <1>2, <1>4
  <2>2. \A g \in Filenos : Q(g) \cap (fr \ {x}) = {}
    BY <1>2, <1>4
  <2>3. \A s \in Slices : s \in fr \ {x} \/ \E g \in Filenos : s \in Q(g)
    <3> SUFFICES ASSUME NEW s \in Slices, s \notin fr \ {x} PROVE \E g \in Filenos : s \in Q(g)
      OBVIOUS
    <3>1. CASE s = x
      BY <3>1, <1>4
    <3>2. CASE s # x
      <4>1. PICK g \in Filenos : s \in O(g)
        BY <3>2, <1>2
      <4> QED BY <4>1, <1>4
    <3> QED BY <3>1, <3>2
  <2>4. ASSUME NEW g \in Filenos, sp[g] = Nil, tt[g] # Nil PROVE \E e \in Q(g) : my[e] = Nil
    <3>1. CASE g = f
      BY <3>1, <1>4
    <3>2. CASE g # f
      <4>1. PICK e \in O(g) : nx[e] = Nil
        BY <3>2, <2>4, <1>2, <1>4
      <4>2. e \in Slices /\ e \notin O(f)
        BY <4>1, <3>2, <1>1, <1>2
      <4> QED BY <4>1, <4>2, <3>2, <1>4
    <3> QED BY <3>1, <3>2
  <2>5. \A s \in fr \ {x} : my[s] = Nil
    BY <1>2, <1>4
  <2> QED BY <2>1, <2>2, <2>3, <2>4, <2>5, <1>2 DEF Accounted, O, Q
<1>5. CASE st[f] = Nil /\ my = nx /\ tt = [st EXCEPT ![f] = x]
  <2>1. O(f) = {} /\ Q(f) = {x}
    BY <1>3, <1>5, ReachShort
  <2> QED BY <2>1, <1>3, <1>5
<1>6. CASE /\ st[f] # Nil /\ tt = st
           /\ \E e \in Reach(nx, st[f], Nil) :
                /\ nx[e] = Nil /\ my \in [Slices -> Slices \cup {Nil}]
                /\ my[e] = x /\ \A t \in Slices : t # e => my[t] = nx[t]
  <2>1. PICK e \in O(f) : /\ nx[e] = Nil /\ my \in [Slices -> Slices \cup {Nil}]
                          /\ my[e] = x /\ \A t \in Slices : t # e => my[t] = nx[t]
    BY <1>6
  <2>2. e \in Slices /\ e # x /\ st[f] \in Slices
    BY <2>1, <1>1, <1>2, <1>6
  <2>3. my \in [Slices -> Slices \cup {Nil}] /\ my[e] = x /\ \A s \in Slices : s # e => my[s] = nx[s]
    BY <2>1, <2>2, <1>3
  <2>4. Q(f) = O(f) \cup {x}
    <3>1. e \in Reach(nx, st[f], Nil) /\ e \notin Reach(nx, x, Nil)
      BY <2>1, <2>2, <1>3
    <3>2. Reach(my, st[f], Nil) = Reach(nx, st[f], Nil) \cup Reach(nx, x, Nil)
      BY <3>1, <2>1, <2>2, <1>3, ReachLink
    <3> QED BY <3>2, <1>3, <1>6
  <2>5. ASSUME NEW g \in Filenos, g # f PROVE Q(g) = O(g)
    <3>1. \A s \in O(g) : my[s] = nx[s]
      <4> HIDE DEF O
      <4> QED BY <2>1, <2>3, <2>5, <1>1, <1>2
    <3>2. Reach(my, st[g], sp[g]) = Reach(nx, st[g], sp[g])
      BY <3>1, <2>3, ReachFrame
    <3> QED BY <3>2, <1>6
  <2>6. x \in Q(f) /\ my[x] = Nil
    BY <2>2, <2>3, <2>4, <1>3
  <2>7. \A s \in Slices : s \notin O(f) => my[s] = nx[s]
    <3> HIDE DEF O
    <3> QED BY <2>1, <2>3
  <2> HIDE DEF O, Q
  <2> QED BY <2>3, <2>4, <2>5, <2>6, <2>7, <1>6
<1> QED BY <1>5, <1>6

\* The end of the fresh chain is linked to what follows p in the stale chain,
\* which ends at p from now on.
LEMMA SpliceKeeps ==
  ASSUME NEW nx \in [Slices -> Slices \cup {Nil}], NEW st \in [Filenos -> Slices \cup {Nil}],
         NEW sp, NEW fr, Accounted(nx, st, sp, fr),
         NEW stale \in Filenos, NEW fresh \in Filenos, stale # fresh,
         sp[stale] = Nil, sp[fresh] = Nil, st[fresh] # Nil,
         NEW p \in Reach(nx, st[stale], Nil), NEW e \in Reach(nx, st[fresh], Nil), nx[e] = Nil,
         NEW my \in [Slices -> Slices \cup {Nil}], my[e] = nx[p], \A t \in Slices : t # e => my[t] = nx[t],
         NEW tp, tp[stale] = p, \A g \in Filenos : g # stale => tp[g] = sp[g]
  PROVE  Accounted(my, st, tp, fr)
<1> DEFINE O(g) == Reach(nx, st[g], sp[g])
           Q(g) == Reach(my, st[g], tp[g])
           A == Reach(nx, st[stale], p)
           B == Reach(nx, nx[p], Nil)
<1>0. Nil \notin Slices
  BY MapAssumption
<1>1. \A g \in Filenos : O(g) \in SUBSET Slices
  BY ReachIsLeast
<1>2. /\ \A g, h \in Filenos : g # h => O(g) \cap O(h) = {}
      /\ \A g \in Filenos : O(g) \cap fr = {}
      /\ fr \subseteq Slices /\ \A s \in Slices : s \in fr \/ \E g \in Filenos : s \in O(g)
      /\ \A g \in Filenos : sp[g] = Nil /\ st[g] # Nil => \E x \in O(g) : nx[x] = Nil
      /\ \A s \in fr : nx[s] = Nil
  BY DEF Accounted
<1>3. p \in O(stale) /\ p \in Slices /\ nx[p] \in Slices \cup {Nil} /\ e \in O(fresh) /\ e \in Slices
  BY <1>1
<1>4. st[stale] # Nil /\ st[stale] \in Slices /\ st[fresh] \in Slices
  BY ReachShort
<1>5. PICK end \in O(stale) : nx[end] = Nil
  BY <1>2, <1>4
<1>6. O(stale) = A \cup B /\ A \cap B = {} /\ (nx[p] # Nil => end \in B)
  <2>1. end \in Reach(nx, st[stale], Nil)
    BY <1>5
  <2> QED BY <2>1, <1>4, <1>5, ReachSplit
<1>7. my \in [Slices -> Slices \cup {Nil}] /\ my[e] = nx[p] /\ \A s \in Slices : s # e => my[s] = nx[s]
  BY <1>3
<1>8. e \notin O(stale) /\ e \notin B
  <2> HIDE DEF O, B
  <2> QED BY <1>2, <1>3, <1>6
<1>9. Q(fresh) = O(fresh) \cup B
  <2>1. Reach(my, st[fresh], Nil) = Reach(nx, st[fresh], Nil) \cup Reach(nx, nx[p], Nil)
    BY <1>3, <1>4, <1>8, ReachLink
  <2> QED BY <2>1
<1>10. Q(stale) = A
  <2>1. \A s \in A : my[s] = nx[s]
    <3> HIDE DEF O, A, B
    <3> QED BY <1>1, <1>6, <1>7, <1>8
  <2>2. Reach(my, st[stale], p) = Reach(nx, st[stale], p)
    <3>1. \A s \in Reach(nx, st[stale], p) : s # p => my[s] = nx[s]
      BY <2>1
    <3>2. st[stale] \in Slices \cup {Nil}
      OBVIOUS
    <3> QED BY <3>1, <3>2, <1>7, ReachFrame
  <2> QED BY <2>2
<1>11. ASSUME NEW g \in Filenos, g # stale, g # fresh PROVE Q(g) = O(g)
  <2>1. \A s \in O(g) : my[s] = nx[s]
    <3> HIDE DEF O
    <3> QED BY <1>1, <1>2, <1>3, <1>7, <1>11
  <2>2. Reach(my, st[g], sp[g]) = Reach(nx, st[g], sp[g])
    <3>1. \A s \in Reach(nx, st[g], sp[g]) : s # sp[g] => my[s] = nx[s]
      BY <2>1
    <3>2. st[g] \in Slices \cup {Nil}
      OBVIOUS
    <3> QED BY <3>1, <3>2, <1>7, ReachFrame, ZenonT(30)
  <2> QED BY <2>2, <1>11
<1> HIDE DEF O, Q, A, B
<1>12. \A g, h \in Filenos : g # h => Q(g) \cap Q(h) = {}
  <2>1. \A g \in Filenos : Q(g) \subseteq O(g) \cup (IF g = fresh THEN B ELSE {})
    BY <1>6, <1>9, <1>10, <1>11
  <2>2. \A g \in Filenos : g # stale => B \cap O(g) = {}
    BY <1>2, <1>6
  <2>3. \A g \in Filenos : g # fresh => B \cap Q(g) = {}
    BY <1>6, <1>10, <1>11, <2>2
  <2>4. \A g, h \in Filenos : g # h => O(g) \cap O(h) = {}
    BY <1>2
  <2>5. \A g \in Filenos : g # fresh => Q(g) \subseteq O(g)
    BY <2>1
  <2>6. \A h \in Filenos : h # fresh => Q(fresh) \cap Q(h) = {}
    BY <1>9, <2>3, <2>4, <2>5
  <2>7. \A g, h \in Filenos : g # h /\ g # fresh /\ h # fresh => Q(g) \cap Q(h) = {}
    BY <2>4, <2>5
  <2> QED BY <2>6, <2>7
<1>13. \A g \in Filenos : Q(g) \cap fr = {}
  BY <1>2, <1>6, <1>9, <1>10, <1>11
<1>14. \A s \in Slices : s \in fr \/ \E g \in Filenos : s \in Q(g)
  <2> SUFFICES ASSUME NEW s \in Slices, s \notin fr PROVE \E g \in Filenos : s \in Q(g)
    OBVIOUS
  <2>1. PICK g \in Filenos : s \in O(g)
    BY <1>2
  <2> QED BY <2>1, <1>6, <1>9, <1>10, <1>11
<1>15. ASSUME NEW g \in Filenos, tp[g] = Nil, st[g] # Nil PROVE \E x \in Q(g) : my[x] = Nil
  <2>1. g # stale
    BY <1>0, <1>3, <1>15
  <2>2. CASE g = fresh
    <3>1. CASE nx[p] = Nil
      BY <3>1, <2>2, <1>3, <1>7, <1>9
    <3>2. CASE nx[p] # Nil
      <4>1. end \in B /\ end \in Slices /\ end # e
        BY <3>2, <1>1, <1>5, <1>6, <1>8
      <4> QED BY <4>1, <2>2, <1>5, <1>7, <1>9
    <3> QED BY <3>1, <3>2
  <2>3. CASE g # fresh
    <3>1. PICK x \in O(g) : nx[x] = Nil
      BY <2>1, <1>2, <1>15
    <3>2. x \in Slices /\ x # e
      BY <3>1, <2>3, <1>1, <1>2, <1>3
    <3> QED BY <3>1, <3>2, <2>1, <2>3, <1>7, <1>11
  <2> QED BY <2>2, <2>3
<1>16. \A s \in fr : my[s] = Nil
  BY <1>2, <1>3, <1>7
<1>17. Accounted(my, st, tp, fr)
  BY <1>2, <1>12, <1>13, <1>14, <1>15, <1>16 DEF Accounted, Q
<1> QED BY <1>17

\* The accounts of a state, in these terms.
Starts == [f \in Filenos |-> anchors[f].start]
Stops == [f \in Filenos |-> Stop(f)]
Accounts == SlicesAccounted /\ ChainsEnd /\ FreeSlicesUnlinked

LEMMA AccountsBefore ==
  ASSUME TypeOK, Accounts
  PROVE  /\ Accounted(next, Starts, Stops, freeSlots)
         /\ next \in [Slices -> Slices \cup {Nil}] /\ Starts \in [Filenos -> Slices \cup {Nil}]
<1>1. \A f \in Filenos : /\ Owned(f) = Reach(next, Starts[f], Stops[f])
                         /\ Starts[f] = anchors[f].start /\ Stops[f] = Stop(f)
  BY OwnedIs DEF Starts, Stops
<1>2. Starts \in [Filenos -> Slices \cup {Nil}] /\ next \in [Slices -> Slices \cup {Nil}] /\ freeSlots \subseteq Slices
  BY DEF Starts, TypeOK, Anchor
<1>3. /\ \A f, g \in Filenos : f # g => Owned(f) \cap Owned(g) = {}
      /\ \A f \in Filenos : Owned(f) \cap freeSlots = {}
  BY DEF Accounts, SlicesAccounted
<1>4. ASSUME NEW s \in Slices, s \notin freeSlots PROVE \E f \in Filenos : s \in Owned(f)
  <2> DEFINE X == {Owned(f) : f \in Filenos}
             U == UNION X
  <2>1. U \cup freeSlots = Slices
    BY Zenon DEF Accounts, SlicesAccounted
  <2>2. s \in U
    <3> HIDE DEF U
    <3> QED BY <2>1, <1>4
  <2>3. PICK x \in X : s \in x
    <3> HIDE DEF X
    <3> QED BY <2>2
  <2> QED BY <2>3
<1>5. \A f \in Filenos : Stops[f] = Nil /\ Starts[f] # Nil => \E e \in Owned(f) : next[e] = Nil
  BY <1>1 DEF Accounts, ChainsEnd, Ends
<1>6. \A s \in freeSlots : next[s] = Nil
  BY DEF Accounts, FreeSlicesUnlinked
<1> QED BY <1>1, <1>2, <1>3, <1>4, <1>5, <1>6 DEF Accounted

LEMMA AccountsAfter ==
  ASSUME TypeOK', Accounted(next', Starts', Stops', freeSlots')
  PROVE  Accounts'
<1>1. \A f \in Filenos : Owned(f)' = Reach(next', anchors'[f].start, Stop(f)')
  BY OwnedIsAfter
<1>2. \A f \in Filenos : Starts'[f] = anchors'[f].start /\ Stops'[f] = Stop(f)'
  BY DEF Starts, Stops
<1>3. \A f \in Filenos : Owned(f)' = Reach(next', Starts'[f], Stops'[f])
  BY <1>1, <1>2
<1>4. /\ \A f, g \in Filenos : f # g => Owned(f)' \cap Owned(g)' = {}
      /\ \A f \in Filenos : Owned(f)' \cap freeSlots' = {}
      /\ \A s \in Slices : s \in freeSlots' \/ \E f \in Filenos : s \in Owned(f)'
      /\ \A f \in Filenos : Stops'[f] = Nil /\ Starts'[f] # Nil => \E e \in Owned(f)' : next'[e] = Nil
      /\ \A s \in freeSlots' : next'[s] = Nil
  BY <1>3 DEF Accounted
<1>5. \A f \in Filenos : Owned(f)' \subseteq Slices
  <2>1. next' \in [Slices -> Slices \cup {Nil}] /\ \A f \in Filenos : anchors'[f].start \in Slices \cup {Nil}
    BY DEF TypeOK, Anchor
  <2> QED BY <1>1, <2>1, ReachIsLeast
<1>6. (UNION {Owned(f)' : f \in Filenos}) \cup freeSlots' = Slices
  <2>1. freeSlots' \subseteq Slices
    BY DEF TypeOK
  <2> DEFINE X == {Owned(f)' : f \in Filenos}
  <2>2. ASSUME NEW s \in Slices, s \notin freeSlots' PROVE s \in UNION X
    <3>1. PICK f \in Filenos : s \in Owned(f)'
      BY <2>2, <1>4
    <3>2. Owned(f)' \in X
      OBVIOUS
    <3> HIDE DEF X
    <3> QED BY <3>1, <3>2
  <2>3. \A x \in X : x \subseteq Slices
    BY <1>5
  <2>4. UNION X \subseteq Slices
    <3> HIDE DEF X
    <3> QED BY <2>3
  <2> DEFINE U == UNION X
  <2>5. U \subseteq Slices /\ \A s \in Slices : s \notin freeSlots' => s \in U
    BY <2>2, <2>4
  <2>6. U \cup freeSlots' = Slices
    <3> HIDE DEF U
    <3> QED BY <2>1, <2>5
  <2> QED BY <2>6, Zenon DEF U
<1>7. SlicesAccounted'
  BY <1>4, <1>6 DEF SlicesAccounted
<1>8. ChainsEnd'
  BY <1>2, <1>4 DEF ChainsEnd, Ends
<1>9. FreeSlicesUnlinked'
  BY <1>4 DEF FreeSlicesUnlinked
<1> QED BY <1>7, <1>8, <1>9 DEF Accounts

\* Where the slices of an anchor end does not change unless an update begins
\* or ends its splicing.
LEMMA StopKept ==
  ASSUME TypeOK, NEW u \in Users, NEW r, users' = [users EXCEPT ![u] = r],
         NEW f \in Filenos, anchors'[f].splicingPoint = anchors[f].splicingPoint \/ Splices(r, f),
         Splices(users[u], f) <=> Splices(r, f),
         Splices(r, f) => r.splicingPoint = users[u].splicingPoint
  PROVE  Stop(f)' = Stop(f)
<1>1. users'[u] = r /\ \A v \in Users : v # u => users'[v] = users[v]
  BY DEF TypeOK
<1>2. Splicers(f)' = Splicers(f)
  BY <1>1 DEF Splicers
<1>3. CASE Splicers(f) = {}
  BY <1>1, <1>2, <1>3 DEF Stop, Splicers
<1>4. CASE Splicers(f) # {}
  <2> DEFINE w == CHOOSE x \in Splicers(f) : TRUE
  <2>1. w \in Users /\ Splices(users[w], f)
    BY <1>4 DEF Splicers
  <2>2. Stop(f) = users[w].splicingPoint
    BY <1>4 DEF Stop
  <2>3. Stop(f)' = users'[w].splicingPoint
    BY <1>2, <1>4 DEF Stop
  <2> HIDE DEF w
  <2>4. users'[w].splicingPoint = users[w].splicingPoint
    BY <1>1, <2>1
  <2> QED BY <2>2, <2>3, <2>4
<1> QED BY <1>3, <1>4

----------------------------------------------------------------------------
(* Locks, and what users expect of anchors *)

\* The record r of a user that has no locks but those of the record o.
Weaker(r, o) ==
  \A f \in Filenos :
    /\ Writes(r, f) => Writes(o, f)
    /\ Updates(r, f) => Updates(o, f)
    /\ Settles(r, f) => Settles(o, f)
    /\ Reads(r, f) => Reads(o, f)
    /\ Fills(r, f) => Fills(o, f)
    /\ Opens(r, f) => Opens(o, f)
    /\ Hides(r, f) => Hides(o, f)

\* The other users do not stand in the way of a user that becomes r.
Admitted(u, r) == \A v \in Users : v # u => Excluded(r, users[v]) /\ Excluded(users[v], r)

LEMMA WeakerAdmitted ==
  ASSUME LocksExclude, NEW u \in Users, NEW r, Weaker(r, users[u])
  PROVE  Admitted(u, r)
<1> SUFFICES ASSUME NEW v \in Users, v # u PROVE Excluded(r, users[v]) /\ Excluded(users[v], r)
  BY DEF Admitted
<1>1. Excluded(users[u], users[v]) /\ Excluded(users[v], users[u])
  BY DEF LocksExclude
<1>2. Excluded(r, users[v])
  BY <1>1 DEF Excluded, Weaker
<1>3. Excluded(users[v], r)
  BY <1>1 DEF Excluded, Weaker
<1> QED BY <1>2, <1>3

\* An anchor that is not locked is not locked by any user.
LEMMA Unlocked ==
  ASSUME NEW f
  PROVE  /\ Readers(f) = {u \in Users : Reads(users[u], f)}
         /\ Writers(f) = {u \in Users : Writes(users[u], f)}
         /\ Updaters(f) = {u \in Users : Updates(users[u], f)}
         /\ Readers(f) = {} => \A u \in Users : ~Reads(users[u], f) /\ ~Updates(users[u], f) /\ ~Settles(users[u], f)
<1>1. /\ Readers(f) = {u \in Users : Reads(users[u], f)}
      /\ Writers(f) = {u \in Users : Writes(users[u], f)}
      /\ Updaters(f) = {u \in Users : Updates(users[u], f)}
  BY DEF Readers, Writers, Updaters, Reads, Writes, Updates
<1>2. \A u \in Users : /\ Updates(users[u], f) => Reads(users[u], f)
                       /\ Settles(users[u], f) => Reads(users[u], f)
  BY DEF Updates, Settles, Reads
<1> QED BY <1>1, <1>2

\* What a step of u may do to the anchors that others use.
Tolerated(u, f) ==
  \A v \in Users :
    v # u =>
      /\ \/ /\ anchors[f].waitingToBeFreed => anchors'[f].waitingToBeFreed
            /\ InProgress(anchors'[f]) => InProgress(anchors[f])
         \/ ~Settles(users[v], f)
      /\ \/ anchors'[f].splicingPoint = anchors[f].splicingPoint
         \/ ~Updates(users[v], f) /\ (Writes(users[v], f) => anchors'[f].splicingPoint = Nil)
\* How a step of u, which becomes r, leaves the anchor.
LeftSound(u, r, f) ==
  /\ anchors'[f].splicingPoint # Nil => anchors'[f].waitingToBeFreed
  /\ InProgress(anchors'[f]) => Tends(r, f) \/ (InProgress(anchors[f]) /\ ~Tends(users[u], f))

LEMMA UsersAfter ==
  ASSUME IInv, NEW u \in Users, NEW r, users' = [users EXCEPT ![u] = r],
         Known(r), Fits(anchors', r), Admitted(u, r),
         \A f \in Filenos : Tolerated(u, f) /\ LeftSound(u, r, f)
  PROVE  LocksExclude' /\ UsersFit' /\ AnchorsSound'
<1>1. users'[u] = r /\ \A v \in Users : v # u => users'[v] = users[v]
  BY DEF IInv, TypeOK
<1>2. LocksExclude'
  <2> SUFFICES ASSUME NEW v \in Users, NEW w \in Users, v # w PROVE Excluded(users'[v], users'[w])
    BY DEF LocksExclude
  <2>1. CASE v = u
    BY <2>1, <1>1 DEF Admitted
  <2>2. CASE w = u
    BY <2>2, <1>1 DEF Admitted
  <2>3. CASE v # u /\ w # u
    BY <2>3, <1>1 DEF IInv, LocksExclude
  <2> QED BY <2>1, <2>2, <2>3
<1>3. ASSUME NEW v \in Users, v # u PROVE Known(users[v]) /\ Fits(anchors', users[v])
  <2>1. Known(users[v]) /\ Fits(anchors, users[v])
    BY DEF IInv, UsersFit
  <2>2. PICK q : q = users[v]
    OBVIOUS
  <2>3. \A f \in Filenos :
          /\ Settles(q, f) /\ anchors[f].waitingToBeFreed => anchors'[f].waitingToBeFreed
          /\ Settles(q, f) /\ InProgress(anchors'[f]) => InProgress(anchors[f])
          /\ Updates(q, f) => anchors'[f].splicingPoint = anchors[f].splicingPoint
          /\ Writes(q, f) /\ anchors[f].splicingPoint = Nil => anchors'[f].splicingPoint = Nil
    BY <1>3, <2>2 DEF Tolerated
  <2>4. \A f \in Filenos : Writes(q, f) => anchors'[f].splicingPoint = Nil
    BY <2>1, <2>2, <2>3 DEF Fits
  <2>5. q.at \in Closing => /\ q.fileno \in Filenos /\ q.fresh \in Filenos
                            /\ Updates(q, q.fileno) /\ Settles(q, q.fileno) /\ Settles(q, q.fresh)
    BY <2>1, <2>2 DEF Known, Settles, Updates, Closing, Updating, Filling
  <2>6. q.at \in {"spliced", "switched", "relocated", "checked"} => anchors'[q.fileno].splicingPoint = Nil
    BY <2>1, <2>2, <2>3, <2>5 DEF Fits, Closing
  <2>7. q.at = "freed" => anchors'[q.fileno].splicingPoint = q.splicingPoint
    BY <2>1, <2>2, <2>3, <2>5 DEF Fits, Closing
  <2>8. q.at = "spliced" /\ InProgress(anchors'[q.fresh]) => anchors'[q.fileno].waitingToBeFreed
    BY <2>1, <2>2, <2>3, <2>5 DEF Fits, Closing
  <2>9. q.at = "relocated" /\ q.doomed => anchors'[q.fileno].waitingToBeFreed
    BY <2>1, <2>2, <2>3, <2>5 DEF Fits, Closing
  <2>10. q.at \in {"checked", "freed"} /\ q.doomed => anchors'[q.fresh].waitingToBeFreed
    BY <2>1, <2>2, <2>3, <2>5 DEF Fits, Closing
  <2> QED BY <2>1, <2>2, <2>4, <2>6, <2>7, <2>8, <2>9, <2>10 DEF Fits
<1>4. UsersFit'
  BY <1>1, <1>3 DEF UsersFit
<1>5. ASSUME NEW f \in Filenos, InProgress(anchors'[f])
      PROVE  \E v \in Users : Tends(users'[v], f)
  <2>1. CASE Tends(r, f)
    BY <2>1, <1>1
  <2>2. CASE InProgress(anchors[f]) /\ ~Tends(users[u], f)
    <3>1. PICK v \in Users : Tends(users[v], f)
      BY <2>2 DEF IInv, AnchorsSound
    <3> QED BY <3>1, <2>2, <1>1
  <2> QED BY <2>1, <2>2, <1>5 DEF LeftSound
<1>6. AnchorsSound'
  BY <1>5 DEF AnchorsSound, LeftSound
<1> QED BY <1>2, <1>4, <1>6

\* Steps that leave the chains alone.
ChainKept(u, r, f) ==
  /\ anchors'[f].start = anchors[f].start /\ anchors'[f].splicingPoint = anchors[f].splicingPoint
  /\ Splices(users[u], f) <=> Splices(r, f)
  /\ Splices(r, f) => r.splicingPoint = users[u].splicingPoint

LEMMA ChainsKept ==
  ASSUME TypeOK, Accounts, TypeOK', NEW u \in Users, NEW r, users' = [users EXCEPT ![u] = r],
         next' = next, freeSlots' = freeSlots, \A f \in Filenos : ChainKept(u, r, f)
  PROVE  Accounts'
<1>1. \A f \in Filenos : Stop(f)' = Stop(f)
  BY StopKept DEF ChainKept
<1>2. Stops' = Stops
  BY <1>1 DEF Stops
<1>3. Starts' = Starts
  BY DEF Starts, ChainKept
<1> QED BY <1>2, <1>3, AccountsBefore, AccountsAfter

\* Steps that mark or complete entries and change what one user does.
LEMMA MarkStep ==
  ASSUME IInv, NEW u \in Users, NEW r \in User, users' = [users EXCEPT ![u] = r],
         Known(r), Fits(anchors', r), Admitted(u, r),
         fileNos' \in [Names -> Filenos], next' = next, freeSlots' = freeSlots,
         anchors' \in [Filenos -> Anchor],
         \A f \in Filenos :
           /\ ChainKept(u, r, f)
           /\ anchors[f].waitingToBeFreed => anchors'[f].waitingToBeFreed
           /\ InProgress(anchors'[f]) => InProgress(anchors[f]) /\ (Tends(users[u], f) => Tends(r, f))
  PROVE  IInv'
<1>1. TypeOK'
  BY DEF IInv, TypeOK
<1>2. \A f \in Filenos : Tolerated(u, f) /\ LeftSound(u, r, f)
  BY DEF Tolerated, LeftSound, IInv, AnchorsSound, ChainKept
<1>3. LocksExclude' /\ UsersFit' /\ AnchorsSound'
  BY <1>2, UsersAfter
<1>4. Accounts'
  <2>1. TypeOK /\ Accounts
    BY DEF IInv, Accounts
  <2>2. \A f \in Filenos : ChainKept(u, r, f)
    OBVIOUS
  <2> QED BY <2>1, <2>2, <1>1, ChainsKept, Zenon
<1> QED BY <1>1, <1>3, <1>4 DEF IInv, Accounts

\* Steps that only change what one user does, which keeps its exclusive lock
\* if it has one.
LEMMA QuietStep ==
  ASSUME IInv, NEW u \in Users, NEW r \in User, users' = [users EXCEPT ![u] = r],
         UNCHANGED <<fileNos, anchors, next, freeSlots>>,
         Known(r), Fits(anchors, r), Admitted(u, r),
         \A f \in Filenos : /\ Writes(users[u], f) => Writes(r, f)
                            /\ ~Splices(users[u], f) /\ ~Splices(r, f) /\ ~Hides(users[u], f)
  PROVE  IInv'
<1>1. fileNos' \in [Names -> Filenos] /\ anchors' \in [Filenos -> Anchor] /\ Fits(anchors', r)
  BY DEF IInv, TypeOK
<1>2. \A f \in Filenos : ChainKept(u, r, f)
  BY DEF ChainKept
<1>3. \A f \in Filenos : Tends(users[u], f) => Tends(r, f)
  BY DEF Tends
<1> QED BY <1>1, <1>2, <1>3, MarkStep

\* What a user is when it has left, and when it has moved.
LEMMA IdleUser ==
  /\ Idle \in User /\ Known(Idle)
  /\ \A f, ac : Fits(ac, Idle) /\ ~Writes(Idle, f) /\ ~Splices(Idle, f) /\ ~Hides(Idle, f)
<1>1. Idle \in User /\ Idle.at = "idle"
  BY DEF Idle, User, Places
<1> QED BY <1>1 DEF Known, Fits, Writes, Splices, Hides, Closing, Updating, Filling

LEMMA IdleAdmitted ==
  ASSUME IInv, NEW u \in Users PROVE Admitted(u, Idle)
<1>1. Idle.at = "idle"
  BY DEF Idle
<1>2. Weaker(Idle, users[u])
  BY <1>1 DEF Weaker, Writes, Updates, Reads, Settles, Fills, Opens, Hides, Closing, Updating, Filling
<1> QED BY <1>2, WeakerAdmitted DEF IInv

\* A user that has moved keeps what it knows.
Moved(u, r, place) ==
  /\ r \in User /\ users' = [users EXCEPT ![u] = r] /\ r.at = place
  /\ r.fileno = users[u].fileno /\ r.key = users[u].key /\ r.name = users[u].name
  /\ r.fresh = users[u].fresh /\ r.splicingPoint = users[u].splicingPoint
  /\ r.doomed = users[u].doomed /\ r.early = users[u].early

LEMMA UserMoves ==
  ASSUME IInv, NEW u \in Users, NEW place \in Places, users' = [users EXCEPT ![u].at = place]
  PROVE  \E r : Moved(u, r, place)
<1>1. users[u] \in User
  BY DEF IInv, TypeOK
<1>2. PICK r : r = [users[u] EXCEPT !.at = place]
  OBVIOUS
<1>3. users' = [users EXCEPT ![u] = r]
  BY <1>2
<1>4. r \in User /\ r.at = place
  BY <1>1, <1>2 DEF User
<1>5. /\ r.fileno = users[u].fileno /\ r.key = users[u].key /\ r.name = users[u].name
      /\ r.fresh = users[u].fresh /\ r.splicingPoint = users[u].splicingPoint
      /\ r.doomed = users[u].doomed /\ r.early = users[u].early
  BY <1>1, <1>2 DEF User
<1> QED BY <1>3, <1>4, <1>5 DEF Moved

----------------------------------------------------------------------------
(* Opening and closing *)

LEMMA Lookup == ASSUME IInv, NEW u \in Users, fileNoByKey(u) PROVE IInv'
<1>1. PICK wanted \in {"read", "write", "update", "free"}, k \in Keys :
        users' = [users EXCEPT ![u].at = "looking", ![u].wants = wanted, ![u].key = k,
                               ![u].fileno = fileNos[NameOf[k]]]
  BY DEF fileNoByKey
<1>2. PICK r : r = [users[u] EXCEPT !.at = "looking", !.wants = wanted, !.key = k, !.fileno = fileNos[NameOf[k]]]
  OBVIOUS
<1>3. users[u] \in User /\ fileNos[NameOf[k]] \in Filenos
  BY MapAssumption DEF IInv, TypeOK
<1>4. r \in User /\ r.at = "looking" /\ r.key = k /\ r.fileno = fileNos[NameOf[k]]
  BY <1>2, <1>3 DEF User, Places
<1>5. users' = [users EXCEPT ![u] = r]
  BY <1>1, <1>2
<1>6. users[u].at = "idle" /\ UNCHANGED <<fileNos, anchors, next, freeSlots>>
  BY DEF fileNoByKey
<1>7. Known(r) /\ Fits(anchors, r)
  BY <1>3, <1>4 DEF Known, Fits, Closing, Updating, Filling, Writes
<1>8. Admitted(u, r)
  <2>1. Weaker(r, users[u])
    BY <1>4 DEF Weaker, Writes, Updates, Reads, Settles, Fills, Opens, Hides, Closing, Updating, Filling
  <2> QED BY <2>1, WeakerAdmitted DEF IInv
<1>9. \A f \in Filenos : ~Writes(users[u], f) /\ ~Splices(users[u], f) /\ ~Splices(r, f) /\ ~Hides(users[u], f)
  BY <1>4, <1>6 DEF Writes, Splices, Hides, Closing, Updating, Filling
<1> QED BY <1>4, <1>5, <1>6, <1>7, <1>8, <1>9, QuietStep

\* Leaving without an exclusive lock
LEMMA LeaveQuietly ==
  ASSUME IInv, NEW u \in Users, Leave(u), UNCHANGED <<fileNos, anchors, next, freeSlots>>,
         users[u].at \in {"looking", "entered", "reading", "opened", "updating", "choosing"}
  PROVE  IInv'
<1>1. users' = [users EXCEPT ![u] = Idle]
  BY DEF Leave
<1>2. \A f \in Filenos : ~Writes(users[u], f) /\ ~Splices(users[u], f) /\ ~Hides(users[u], f)
  BY DEF Writes, Splices, Hides, Closing, Updating, Filling
<1> QED BY <1>1, <1>2, IdleUser, IdleAdmitted, QuietStep

LEMMA LockShared == ASSUME IInv, NEW u \in Users, lockShared(u) PROVE IInv'
<1>1. /\ users[u].at = "looking" /\ CanLockShared(users[u].fileno)
      /\ users' = [users EXCEPT ![u].at = "entering"] /\ UNCHANGED <<fileNos, anchors, next, freeSlots>>
  BY DEF lockShared, MoveTo
<1>2. PICK r \in User : /\ users' = [users EXCEPT ![u] = r] /\ r.at = "entering"
                        /\ r.fileno = users[u].fileno /\ r.key = users[u].key
  <2>1. "entering" \in Places
    BY DEF Places
  <2>2. PICK r : Moved(u, r, "entering")
    BY <2>1, <1>1, UserMoves, Zenon
  <2> QED BY <2>2 DEF Moved
<1>3. Known(users[u])
  BY DEF IInv, UsersFit
<1>4. Known(r) /\ Fits(anchors, r)
  BY <1>1, <1>2, <1>3 DEF Known, Fits, Writes, Closing, Updating, Filling
<1>5. \A f \in Filenos : ~Writes(users[u], f) /\ ~Splices(users[u], f) /\ ~Splices(r, f) /\ ~Hides(users[u], f)
  BY <1>1, <1>2 DEF Writes, Splices, Hides, Closing, Updating, Filling
<1>6. ASSUME NEW v \in Users, v # u PROVE Excluded(r, users[v]) /\ Excluded(users[v], r)
  <2>1. \A f \in Filenos : /\ ~Writes(r, f) /\ ~Updates(r, f) /\ ~Settles(r, f) /\ ~Fills(r, f)
                           /\ ~Opens(r, f) /\ ~Hides(r, f) /\ (Reads(r, f) => f = users[u].fileno)
    BY <1>2 DEF Writes, Updates, Settles, Fills, Opens, Hides, Reads, Closing, Updating, Filling
  <2>2. Excluded(users[v], r)
    BY <2>1 DEF Excluded
  <2>3. ASSUME Fills(users[v], users[u].fileno) PROVE FALSE
    <3>1. v \in Writers(users[u].fileno)
      BY <2>3 DEF Writers, Fills
    <3> QED BY <3>1, <2>3, <1>1 DEF CanLockShared, Fills, Filling
  <2>4. Excluded(r, users[v])
    BY <2>1, <2>3 DEF Excluded
  <2> QED BY <2>2, <2>4
<1>7. Admitted(u, r)
  BY <1>6 DEF Admitted
<1> QED BY <1>1, <1>2, <1>4, <1>5, <1>7, QuietStep

\* Moving on with the locks that the user has, or with fewer.
LEMMA MoveQuietly ==
  ASSUME IInv, NEW u \in Users, NEW place, users' = [users EXCEPT ![u].at = place],
         UNCHANGED <<fileNos, anchors, next, freeSlots>>,
         \/ users[u].at = "entering" /\ place = "entered"
         \/ users[u].at = "entered" /\ place \in {"reading", "condemning"}
         \/ users[u].at = "looking" /\ place = "marking"
         \/ users[u].at = "halting" /\ place = "freeing"
         \/ users[u].at = "filling" /\ place = "forking"
  PROVE  IInv'
<1>1. place \in Places
  BY DEF Places
<1>2. PICK r : Moved(u, r, place)
  BY <1>1, UserMoves, Zenon
<1>3. /\ r \in User /\ users' = [users EXCEPT ![u] = r] /\ r.at = place
      /\ r.fileno = users[u].fileno /\ r.key = users[u].key /\ r.name = users[u].name
      /\ r.fresh = users[u].fresh /\ r.early = users[u].early
  BY <1>2 DEF Moved
<1>4. Known(users[u]) /\ Fits(anchors, users[u])
  BY DEF IInv, UsersFit
<1>5. \A f \in Filenos : /\ Writes(users[u], f) <=> Writes(r, f)
                         /\ ~Splices(users[u], f) /\ ~Splices(r, f) /\ ~Hides(users[u], f)
  BY <1>3 DEF Writes, Splices, Hides, Closing, Updating, Filling
<1>6. Known(r)
  BY <1>3, <1>4 DEF Known, Closing, Updating, Filling
<1>7. Fits(anchors, r)
  BY <1>3, <1>4, <1>5 DEF Fits
<1>8. Admitted(u, r)
  <2>1. Weaker(r, users[u])
    BY <1>3 DEF Weaker, Writes, Updates, Reads, Settles, Fills, Opens, Hides, Closing, Updating, Filling
  <2> QED BY <2>1, WeakerAdmitted DEF IInv
<1> QED BY <1>3, <1>5, <1>6, <1>7, <1>8, QuietStep

LEMMA AbortWriting == ASSUME IInv, NEW u \in Users, abortWriting(u) PROVE IInv'
<1>1. /\ users[u].at = "writing" /\ users' = [users EXCEPT ![u].at = "halting", ![u].appending = FALSE]
      /\ UNCHANGED <<fileNos, anchors, next, freeSlots>>
  BY DEF abortWriting
<1>2. PICK r : r = [users[u] EXCEPT !.at = "halting", !.appending = FALSE]
  OBVIOUS
<1>3. Known(users[u]) /\ Fits(anchors, users[u]) /\ users[u] \in User
  BY DEF IInv, UsersFit, TypeOK
<1>4. /\ r \in User /\ r.at = "halting" /\ r.key = users[u].key /\ r.fileno = users[u].fileno
      /\ users' = [users EXCEPT ![u] = r]
  BY <1>1, <1>2, <1>3 DEF User, Places
<1>5. Known(r) /\ Fits(anchors, r)
  BY <1>1, <1>3, <1>4 DEF Known, Fits, Closing, Updating, Filling, Writes
<1>6. Admitted(u, r)
  <2>1. Weaker(r, users[u])
    BY <1>1, <1>4 DEF Weaker, Writes, Updates, Reads, Settles, Fills, Opens, Hides, Closing, Updating, Filling
  <2> QED BY <2>1, WeakerAdmitted DEF IInv
<1>7. \A f \in Filenos : /\ Writes(users[u], f) => Writes(r, f)
                         /\ ~Splices(users[u], f) /\ ~Splices(r, f) /\ ~Hides(users[u], f)
  BY <1>1, <1>4 DEF Writes, Splices, Hides, Closing, Updating, Filling
<1> QED BY <1>1, <1>4, <1>5, <1>6, <1>7, QuietStep

LEMMA OpenStale == ASSUME IInv, NEW u \in Users, openStale(u) PROVE IInv'
<1>0. PICK f, early : f = users[u].fileno /\ early = Unsettled(f)
  OBVIOUS
<1>1. /\ users[u].at = "entered" /\ UNCHANGED <<fileNos, anchors, next, freeSlots>>
      /\ users' = [users EXCEPT ![u].at = "opened", ![u].early = early]
  BY <1>0 DEF openStale
<1>2. PICK r : r = [users[u] EXCEPT !.at = "opened", !.early = early]
  OBVIOUS
<1>3. Known(users[u]) /\ users[u] \in User /\ early \in BOOLEAN
  BY <1>0 DEF IInv, UsersFit, TypeOK, Unsettled
<1>4. /\ r \in User /\ r.at = "opened" /\ r.key = users[u].key /\ r.fileno = f /\ r.early = early
      /\ users' = [users EXCEPT ![u] = r]
  <2>1. r.at = "opened" /\ r.key = users[u].key /\ r.fileno = f /\ r.early = early
    BY <1>0, <1>2, <1>3 DEF User
  <2>2. r \in User
    <3>1. "opened" \in Places
      BY DEF Places
    <3> QED BY <3>1, <1>2, <1>3 DEF User
  <2> QED BY <2>1, <2>2, <1>1, <1>2
<1>5. Known(r) /\ Fits(anchors, r)
  BY <1>0, <1>1, <1>3, <1>4 DEF Known, Fits, Writes, Closing, Updating, Filling
<1>6. \A g \in Filenos : ~Writes(users[u], g) /\ ~Splices(users[u], g) /\ ~Splices(r, g) /\ ~Hides(users[u], g)
  BY <1>1, <1>4 DEF Writes, Splices, Hides, Closing, Updating, Filling
<1>7. ASSUME NEW v \in Users, v # u PROVE Excluded(r, users[v]) /\ Excluded(users[v], r)
  <2>1. \A g \in Filenos : /\ ~Writes(r, g) /\ ~Updates(r, g) /\ ~Settles(r, g) /\ ~Fills(r, g)
                           /\ ~Hides(r, g) /\ (Reads(r, g) => Reads(users[u], g))
                           /\ Opens(r, g) => g = f /\ ~early
    BY <1>0, <1>1, <1>4 DEF Writes, Updates, Settles, Fills, Opens, Hides, Reads, Closing, Updating, Filling
  <2>2. Excluded(users[v], r)
    BY <2>1 DEF Excluded
  <2>3. Excluded(users[u], users[v])
    BY <1>7 DEF IInv, LocksExclude
  <2>4. Hides(users[v], f) => early
    BY <1>0 DEF Hides, Unsettled
  <2>5. Excluded(r, users[v])
    BY <2>1, <2>3, <2>4 DEF Excluded
  <2> QED BY <2>2, <2>5
<1>8. Admitted(u, r)
  BY <1>7 DEF Admitted
<1> QED BY <1>1, <1>4, <1>5, <1>6, <1>8, QuietStep

LEMMA LockHeaders == ASSUME IInv, NEW u \in Users, lockHeaders(u) PROVE IInv'
<1>0. PICK f : f = users[u].fileno
  OBVIOUS
<1>1. /\ users[u].at = "opened" /\ Writers(f) = {} /\ Updaters(f) = {}
      /\ users' = [users EXCEPT ![u].at = "updating"] /\ UNCHANGED <<fileNos, anchors, next, freeSlots>>
  BY <1>0 DEF lockHeaders, MoveTo
<1>2. PICK r \in User : /\ users' = [users EXCEPT ![u] = r] /\ r.at = "updating"
                        /\ r.fileno = f /\ r.key = users[u].key /\ r.early = users[u].early
  <2>1. "updating" \in Places
    BY DEF Places
  <2>2. PICK r : Moved(u, r, "updating")
    BY <2>1, <1>1, UserMoves, Zenon
  <2> QED BY <2>2, <1>0 DEF Moved
<1>3. Known(users[u])
  BY DEF IInv, UsersFit
<1>4. Known(r) /\ Fits(anchors, r)
  BY <1>0, <1>1, <1>2, <1>3 DEF Known, Fits, Writes, Closing, Updating, Filling
<1>5. \A g \in Filenos : ~Writes(users[u], g) /\ ~Splices(users[u], g) /\ ~Splices(r, g) /\ ~Hides(users[u], g)
  BY <1>1, <1>2 DEF Writes, Splices, Hides, Closing, Updating, Filling
<1>6. ASSUME NEW v \in Users, v # u PROVE Excluded(r, users[v]) /\ Excluded(users[v], r)
  <2>1. ~Writes(users[v], f) /\ ~Updates(users[v], f)
    BY <1>1, Unlocked
  <2>2. \A g \in Filenos : /\ ~Writes(r, g) /\ ~Fills(r, g) /\ ~Hides(r, g)
                           /\ (Updates(r, g) => g = f) /\ (Settles(r, g) => g = f)
                           /\ (Reads(r, g) => Reads(users[u], g)) /\ (Opens(r, g) => Opens(users[u], g))
    BY <1>0, <1>1, <1>2 DEF Writes, Updates, Settles, Fills, Opens, Hides, Reads, Closing, Updating, Filling
  <2>3. Excluded(users[u], users[v])
    BY <1>6 DEF IInv, LocksExclude
  <2>4. Excluded(users[v], r)
    BY <2>1, <2>2 DEF Excluded
  <2>5. Excluded(r, users[v])
    BY <2>1, <2>2, <2>3 DEF Excluded
  <2> QED BY <2>4, <2>5
<1>7. Admitted(u, r)
  BY <1>6 DEF Admitted
<1> QED BY <1>1, <1>2, <1>4, <1>5, <1>7, QuietStep

LEMMA ChooseVictim == ASSUME IInv, NEW u \in Users, chooseVictim(u) PROVE IInv'
<1>1. PICK n \in Names : users' = [users EXCEPT ![u].at = "choosing", ![u].name = n, ![u].fresh = fileNos[n]]
  BY DEF chooseVictim
<1>2. users[u].at \in {"updating", "choosing"} /\ UNCHANGED <<fileNos, anchors, next, freeSlots>>
  BY DEF chooseVictim
<1>3. PICK r : r = [users[u] EXCEPT !.at = "choosing", !.name = n, !.fresh = fileNos[n]]
  OBVIOUS
<1>4. Known(users[u]) /\ Fits(anchors, users[u]) /\ users[u] \in User /\ fileNos[n] \in Filenos
  BY DEF IInv, UsersFit, TypeOK
<1>5. /\ r \in User /\ r.at = "choosing" /\ r.key = users[u].key /\ r.fileno = users[u].fileno
      /\ r.name = n /\ r.fresh = fileNos[n] /\ r.early = users[u].early /\ users' = [users EXCEPT ![u] = r]
  BY <1>1, <1>3, <1>4 DEF User, Places
<1>6. Known(r) /\ Fits(anchors, r)
  BY <1>2, <1>4, <1>5 DEF Known, Fits, Closing, Updating, Filling, Writes
<1>7. Admitted(u, r)
  <2>1. Weaker(r, users[u])
    BY <1>2, <1>5 DEF Weaker, Writes, Updates, Reads, Settles, Fills, Opens, Hides, Closing, Updating, Filling
  <2> QED BY <2>1, WeakerAdmitted DEF IInv
<1>8. \A f \in Filenos : ~Writes(users[u], f) /\ ~Splices(users[u], f) /\ ~Splices(r, f) /\ ~Hides(users[u], f)
  BY <1>2, <1>5 DEF Writes, Splices, Hides, Closing, Updating, Filling
<1> QED BY <1>2, <1>5, <1>6, <1>7, <1>8, QuietStep

LEMMA CompareKey == ASSUME IInv, NEW u \in Users, compareKeyLocked(u) \/ compareKeyUnlocked(u) PROVE IInv'
<1>1. /\ UNCHANGED <<fileNos, anchors, next, freeSlots>>
      /\ \/ users[u].at \in {"looking", "entered"} /\ Leave(u)
         \/ users[u].at = "entered" /\ users' = [users EXCEPT ![u].at = "condemning"]
         \/ users[u].at = "looking" /\ users' = [users EXCEPT ![u].at = "marking"]
  BY DEF compareKeyLocked, compareKeyUnlocked, MoveTo
<1> QED BY <1>1, LeaveQuietly, MoveQuietly

----------------------------------------------------------------------------
(* Marking and completing *)

\* The anchor f is marked, or not, and nothing else about anchors changes.
Marked(f, b) ==
  /\ anchors' \in [Filenos -> Anchor]
  /\ anchors'[f].waitingToBeFreed = b /\ anchors'[f].key = anchors[f].key
  /\ anchors'[f].start = anchors[f].start /\ anchors'[f].splicingPoint = anchors[f].splicingPoint
  /\ anchors'[f].partial = anchors[f].partial
  /\ \A g \in Filenos : g # f => anchors'[g] = anchors[g]

LEMMA MarkAnchor ==
  ASSUME TypeOK, NEW f \in Filenos, NEW b \in BOOLEAN, anchors' = [anchors EXCEPT ![f].waitingToBeFreed = b]
  PROVE  Marked(f, b)
<1>1. anchors \in [Filenos -> Anchor] /\ anchors[f] \in Anchor
  BY DEF TypeOK
<1>2. PICK a : a = [anchors[f] EXCEPT !.waitingToBeFreed = b]
  OBVIOUS
<1>3. /\ a \in Anchor /\ a.waitingToBeFreed = b /\ a.key = anchors[f].key /\ a.start = anchors[f].start
      /\ a.splicingPoint = anchors[f].splicingPoint /\ a.partial = anchors[f].partial
  BY <1>1, <1>2 DEF Anchor
<1>4. anchors' = [anchors EXCEPT ![f] = a]
  BY <1>2
<1> QED BY <1>1, <1>3, <1>4 DEF Marked

\* Marking by a user that does not change the locks, or gives them up.
LEMMA MarkingStep ==
  ASSUME IInv, NEW u \in Users, NEW r \in User, users' = [users EXCEPT ![u] = r],
         UNCHANGED <<fileNos, next, freeSlots>>,
         NEW f \in Filenos, NEW b \in BOOLEAN, Marked(f, b), anchors[f].waitingToBeFreed => b,
         Known(r), Fits(anchors', r), Admitted(u, r),
         \A g \in Filenos : /\ Tends(users[u], g) /\ InProgress(anchors'[g]) => Tends(r, g)
                            /\ Splices(users[u], g) <=> Splices(r, g)
                            /\ Splices(r, g) => r.splicingPoint = users[u].splicingPoint
  PROVE  IInv'
<1>1. fileNos' \in [Names -> Filenos] /\ anchors' \in [Filenos -> Anchor]
  BY DEF IInv, TypeOK, Marked
<1>2. \A g \in Filenos : ChainKept(u, r, g)
  BY DEF ChainKept, Marked
<1>3. \A g \in Filenos : anchors[g].waitingToBeFreed => anchors'[g].waitingToBeFreed
  BY DEF Marked
<1>4. \A g \in Filenos : InProgress(anchors'[g]) => InProgress(anchors[g]) /\ (Tends(users[u], g) => Tends(r, g))
  BY <1>3 DEF Marked, InProgress
<1> QED BY <1>1, <1>2, <1>3, <1>4, MarkStep

LEMMA AbortDirty == ASSUME IInv, NEW u \in Users, abortDirty(u) PROVE IInv'
<1> DEFINE f == users[u].fileno
<1>1. /\ users[u].at = "halting" /\ anchors' = [anchors EXCEPT ![f].waitingToBeFreed = TRUE]
      /\ users' = [users EXCEPT ![u] = Idle] /\ UNCHANGED <<fileNos, next, freeSlots>>
  BY DEF abortDirty, Leave
<1>2. f \in Filenos
  BY <1>1 DEF IInv, UsersFit, Known
<1>3. Marked(f, TRUE)
  BY <1>1, <1>2, MarkAnchor, Zenon DEF IInv
<1>4. \A g \in Filenos : (Tends(users[u], g) => g = f) /\ ~Splices(users[u], g)
  BY <1>1 DEF Tends, Writes, Splices, Hides, Closing, Filling
<1> HIDE DEF f
<1>5. \A g \in Filenos : Tends(users[u], g) => ~InProgress(anchors'[g])
  BY <1>3, <1>4 DEF Marked, InProgress
<1> QED BY <1>1, <1>2, <1>3, <1>4, <1>5, IdleUser, IdleAdmitted, MarkingStep

LEMMA MarkByKey == ASSUME IInv, NEW u \in Users, markEntryByKey(u) PROVE IInv'
<1> DEFINE f == users[u].fileno
<1>1. /\ users[u].at \in {"condemning", "marking"} /\ anchors' = [anchors EXCEPT ![f].waitingToBeFreed = TRUE]
      /\ users' = [users EXCEPT ![u] = Idle] /\ UNCHANGED <<fileNos, next, freeSlots>>
  BY DEF markEntryByKey, Leave
<1>2. f \in Filenos
  BY <1>1 DEF IInv, UsersFit, Known
<1>3. Marked(f, TRUE)
  BY <1>1, <1>2, MarkAnchor, Zenon DEF IInv
<1>4. \A g \in Filenos : ~Tends(users[u], g) /\ ~Splices(users[u], g)
  BY <1>1 DEF Tends, Writes, Splices, Hides, Closing, Filling
<1> HIDE DEF f
<1> QED BY <1>1, <1>2, <1>3, <1>4, IdleUser, IdleAdmitted, MarkingStep

LEMMA FreeEntry == ASSUME IInv, NEW u \in Users, freeEntry(u) PROVE IInv'
<1> DEFINE f == users[u].fileno
<1>0. PICK r : r = users[u]
  OBVIOUS
<1>1. /\ users[u].at \in {"reading", "writing"} /\ anchors' = [anchors EXCEPT ![f].waitingToBeFreed = TRUE]
      /\ users' = users /\ UNCHANGED <<fileNos, next, freeSlots>>
  BY DEF freeEntry
<1>2. f \in Filenos /\ Known(r) /\ r \in User /\ users' = [users EXCEPT ![u] = r]
  BY <1>0, <1>1 DEF IInv, UsersFit, Known, TypeOK
<1>3. Marked(f, TRUE)
  BY <1>1, <1>2, MarkAnchor, Zenon DEF IInv
<1>4. \A g \in Filenos : ~Splices(users[u], g)
  BY <1>1 DEF Splices, Closing, Updating, Filling
<1>5. Admitted(u, r)
  BY <1>0 DEF IInv, LocksExclude, Admitted
<1>6. Fits(anchors', r)
  <2>1. Fits(anchors, r) /\ \A g \in Filenos : anchors'[g].splicingPoint = anchors[g].splicingPoint
    BY <1>0, <1>3 DEF Marked, IInv, UsersFit
  <2> QED BY <2>1, <1>0, <1>1 DEF Fits
<1> HIDE DEF f
<1> QED BY <1>0, <1>1, <1>2, <1>3, <1>4, <1>5, <1>6, MarkingStep

LEMMA Propagate == ASSUME IInv, NEW u \in Users, propagateEarly(u) \/ propagateDeletion(u) PROVE IInv'
<1>0. PICK f, b : f = users[u].fresh /\ b = (anchors[f].waitingToBeFreed \/ anchors[users[u].fileno].waitingToBeFreed)
  OBVIOUS
<1>1. PICK place \in {"switched", "checked"} :
      /\ \/ users[u].at = "spliced" /\ place = "switched"
         \/ users[u].at = "relocated" /\ place = "checked"
      /\ anchors' = [anchors EXCEPT ![f].waitingToBeFreed = b]
      /\ users' = [users EXCEPT ![u].at = place] /\ UNCHANGED <<fileNos, next, freeSlots>>
  BY <1>0 DEF propagateEarly, propagateDeletion, MoveTo
<1>2. PICK r : Moved(u, r, place)
  <2>1. place \in Places
    BY DEF Places
  <2> QED BY <2>1, <1>1, UserMoves, Zenon
<1>3. Known(users[u]) /\ Fits(anchors, users[u])
  BY DEF IInv, UsersFit
<1>4. f \in Filenos /\ b \in BOOLEAN /\ (anchors[f].waitingToBeFreed => b)
  <2>1. f \in Filenos
    BY <1>0, <1>1, <1>3 DEF Known, Closing, Updating, Filling
  <2> QED BY <2>1, <1>0
<1>5. Marked(f, b)
  BY <1>1, <1>4, MarkAnchor, Zenon DEF IInv
<1>6. Known(r)
  BY <1>1, <1>2, <1>3 DEF Known, Moved, Closing, Updating, Filling
<1>7. Fits(anchors', r)
  <2>1. \A g \in Filenos : anchors'[g].splicingPoint = anchors[g].splicingPoint
    BY <1>5 DEF Marked
  <2>2. r.fileno \in Filenos /\ anchors[r.fileno].splicingPoint = Nil
    BY <1>1, <1>2, <1>3 DEF Known, Fits, Moved, Closing, Updating, Filling
  <2>3. \A g \in Filenos : ~Writes(r, g)
    BY <1>1, <1>2 DEF Moved, Writes, Filling
  <2>4. place = "checked" /\ r.doomed => anchors'[r.fresh].waitingToBeFreed
    BY <1>0, <1>1, <1>2, <1>3, <1>5 DEF Fits, Moved, Marked
  <2> QED BY <2>1, <2>2, <2>3, <2>4, <1>1, <1>2 DEF Fits, Moved
<1>8. Admitted(u, r)
  <2>1. Weaker(r, users[u])
    BY <1>1, <1>2 DEF Weaker, Writes, Updates, Reads, Settles, Fills, Opens, Hides, Closing, Updating, Filling, Moved
  <2> QED BY <2>1, WeakerAdmitted DEF IInv
<1>9. \A g \in Filenos : /\ Splices(users[u], g) <=> Splices(r, g)
                         /\ r.splicingPoint = users[u].splicingPoint
  BY <1>1, <1>2 DEF Splices, Closing, Moved
<1>10. r \in User /\ users' = [users EXCEPT ![u] = r]
  BY <1>2 DEF Moved
<1>11. ASSUME NEW g \in Filenos, Tends(users[u], g) PROVE ~InProgress(anchors'[g])
  <2>1. users[u].at = "spliced" /\ g = f
    BY <1>0, <1>1, <1>11 DEF Tends, Writes, Hides, Filling
  <2>2. InProgress(anchors[f]) => b
    BY <2>1, <1>0, <1>3 DEF Fits
  <2> QED BY <2>1, <2>2, <1>4, <1>5 DEF Marked, InProgress
<1> QED BY <1>1, <1>4, <1>5, <1>6, <1>7, <1>8, <1>9, <1>10, <1>11, MarkingStep

LEMMA RelocateName == ASSUME IInv, NEW u \in Users, relocateName(u) PROVE IInv'
<1>1. /\ users[u].at = "switched" /\ UNCHANGED <<anchors, next, freeSlots>>
      /\ fileNos' = [fileNos EXCEPT ![NameOf[users[u].key]] = users[u].fresh]
      /\ users' = [users EXCEPT ![u].at = "relocated", ![u].doomed = anchors[users[u].fileno].waitingToBeFreed]
  BY DEF relocateName
<1>2. Known(users[u]) /\ Fits(anchors, users[u]) /\ users[u] \in User /\ anchors \in [Filenos -> Anchor]
  BY DEF IInv, UsersFit, TypeOK
<1>3. users[u].fileno \in Filenos /\ users[u].fresh \in Filenos /\ users[u].key \in Keys
  BY <1>1, <1>2 DEF Known, Closing, Updating, Filling
<1>4. PICK r : r = [users[u] EXCEPT !.at = "relocated", !.doomed = anchors[users[u].fileno].waitingToBeFreed]
  OBVIOUS
<1>5. anchors[users[u].fileno].waitingToBeFreed \in BOOLEAN
  BY <1>2, <1>3 DEF Anchor
<1>6. /\ r \in User /\ r.at = "relocated" /\ r.doomed = anchors[users[u].fileno].waitingToBeFreed
      /\ r.fileno = users[u].fileno /\ r.key = users[u].key /\ r.name = users[u].name
      /\ r.fresh = users[u].fresh /\ r.splicingPoint = users[u].splicingPoint
  BY <1>2, <1>4, <1>5 DEF User, Places
<1>7. users' = [users EXCEPT ![u] = r]
  BY <1>1, <1>4
<1>8. fileNos' \in [Names -> Filenos] /\ anchors' \in [Filenos -> Anchor]
  BY <1>1, <1>2, <1>3 DEF IInv, TypeOK
<1>9. Known(r) /\ Fits(anchors', r)
  BY <1>1, <1>2, <1>6 DEF Known, Fits, Closing, Updating, Filling, Writes
<1>10. Admitted(u, r)
  <2>1. Weaker(r, users[u])
    BY <1>1, <1>6 DEF Weaker, Writes, Updates, Reads, Settles, Fills, Opens, Hides, Closing, Updating, Filling
  <2> QED BY <2>1, WeakerAdmitted DEF IInv
<1>11. \A f \in Filenos : ChainKept(u, r, f) /\ ~Tends(users[u], f)
  BY <1>1, <1>6 DEF ChainKept, Splices, Closing, Updating, Filling, Tends, Writes, Hides
<1> QED BY <1>1, <1>6, <1>7, <1>8, <1>9, <1>10, <1>11, MarkStep

LEMMA CloseForWriting == ASSUME IInv, NEW u \in Users, closeForWriting(u) PROVE IInv'
<1> DEFINE f == users[u].fileno
<1>1. /\ users[u].at = "writing" /\ anchors' = [anchors EXCEPT ![f].partial = FALSE]
      /\ users' = [users EXCEPT ![u] = Idle] /\ UNCHANGED <<fileNos, next, freeSlots>>
  BY DEF closeForWriting, Leave
<1>2. f \in Filenos
  BY <1>1 DEF IInv, UsersFit, Known
<1>3. anchors \in [Filenos -> Anchor] /\ fileNos' \in [Names -> Filenos]
  BY <1>1 DEF IInv, TypeOK
<1>4. PICK a : a = [anchors[f] EXCEPT !.partial = FALSE]
  OBVIOUS
<1>5. /\ a \in Anchor /\ a.waitingToBeFreed = anchors[f].waitingToBeFreed /\ a.start = anchors[f].start
      /\ a.splicingPoint = anchors[f].splicingPoint /\ a.partial = FALSE
  BY <1>2, <1>3, <1>4 DEF Anchor
<1>6. anchors' = [anchors EXCEPT ![f] = a]
  BY <1>1, <1>4
<1>7. /\ anchors' \in [Filenos -> Anchor] /\ anchors'[f] = a
      /\ \A g \in Filenos : g # f => anchors'[g] = anchors[g]
  BY <1>2, <1>3, <1>5, <1>6
<1>8. \A g \in Filenos : (Tends(users[u], g) => g = f) /\ ~Splices(users[u], g) /\ ~Splices(Idle, g)
  BY <1>1, IdleUser DEF Tends, Writes, Splices, Hides, Closing, Updating, Filling
<1> HIDE DEF f
<1>9. \A g \in Filenos : ChainKept(u, Idle, g)
  BY <1>2, <1>5, <1>7, <1>8 DEF ChainKept
<1>10. \A g \in Filenos : /\ anchors[g].waitingToBeFreed => anchors'[g].waitingToBeFreed
                          /\ InProgress(anchors'[g]) => InProgress(anchors[g]) /\ ~Tends(users[u], g)
  BY <1>2, <1>5, <1>7, <1>8 DEF InProgress
<1>11. Idle \in User /\ Known(Idle) /\ Fits(anchors', Idle) /\ Admitted(u, Idle)
  BY IdleUser, IdleAdmitted
<1> QED BY <1>1, <1>3, <1>7, <1>9, <1>10, <1>11, MarkStep

----------------------------------------------------------------------------
(* Freeing *)

\* The chain of f is freed by a user that nobody else shares f with.
LEMMA FreeStep ==
  ASSUME IInv, NEW u \in Users, NEW r \in User, users' = [users EXCEPT ![u] = r], fileNos' = fileNos,
         NEW f \in Filenos, NEW a \in Anchor, a.start = Nil, a.splicingPoint = Nil,
         anchors' = [anchors EXCEPT ![f] = a], freeChainKeeping(f, {}),
         Known(r), Fits(anchors', r), Admitted(u, r),
         \A v \in Users : v # u => ~Settles(users[v], f),
         \A g \in Filenos : ~Splices(users[u], g) /\ ~Splices(r, g),
         a.partial => Writes(r, f),
         \A g \in Filenos : g # f /\ Tends(users[u], g) => Tends(r, g)
  PROVE  IInv'
<1>1. TypeOK /\ Accounts
  BY DEF IInv, Accounts
<1>2. /\ anchors' \in [Filenos -> Anchor] /\ anchors'[f] = a
      /\ \A g \in Filenos : g # f => anchors'[g] = anchors[g]
  BY <1>1 DEF TypeOK
<1>3. Splicers(f) = {}
  <2>1. \A v \in Users : Splices(users[v], f) => Settles(users[v], f)
    BY DEF Splices, Settles, Updates, Updating
  <2> QED BY <2>1 DEF Splicers
<1>4. freeChainAt(f) = Reach(next, Starts[f], Stops[f])
  BY <1>1, <1>3, OwnedIs DEF Stop, Starts, Stops
<1>5. /\ Accounted(next, Starts, Stops, freeSlots)
      /\ next \in [Slices -> Slices \cup {Nil}] /\ Starts \in [Filenos -> Slices \cup {Nil}]
  BY <1>1, AccountsBefore
<1>6. /\ next' = [s \in Slices |-> IF s \in Reach(next, Starts[f], Stops[f]) THEN Nil ELSE next[s]]
      /\ freeSlots' = freeSlots \cup Reach(next, Starts[f], Stops[f])
  BY <1>4 DEF freeChainKeeping
<1>7. \A g \in Filenos : g # f => Stop(g)' = Stop(g)
  BY <1>1, <1>2, StopKept
<1>8. /\ Starts' \in [Filenos -> Slices \cup {Nil}] /\ Starts'[f] = Nil
      /\ \A g \in Filenos : g # f => Starts'[g] = Starts[g] /\ Stops'[g] = Stops[g]
  BY <1>2, <1>7 DEF Starts, Stops, Anchor
<1>9. next' \in [Slices -> Slices \cup {Nil}] /\ Accounted(next', Starts', Stops', freeSlots')
  <2>1. PICK nx, st, sp : nx = next /\ st = Starts /\ sp = Stops
    OBVIOUS
  <2>2. PICK my, tt, tp : my = next' /\ tt = Starts' /\ tp = Stops'
    OBVIOUS
  <2>3. /\ nx \in [Slices -> Slices \cup {Nil}] /\ st \in [Filenos -> Slices \cup {Nil}]
        /\ Accounted(nx, st, sp, freeSlots)
    BY <1>5, <2>1
  <2>4. my = [s \in Slices |-> IF s \in Reach(nx, st[f], sp[f]) THEN Nil ELSE nx[s]]
    BY <1>6, <2>1, <2>2
  <2>5. /\ tt \in [Filenos -> Slices \cup {Nil}] /\ tt[f] = Nil
        /\ \A g \in Filenos : g # f => tt[g] = st[g] /\ tp[g] = sp[g]
    BY <1>8, <2>1, <2>2
  <2>6. /\ my \in [Slices -> Slices \cup {Nil}]
        /\ Accounted(my, tt, tp, freeSlots \cup Reach(nx, st[f], sp[f]))
    BY <2>3, <2>4, <2>5, FreeKeeps
  <2> QED BY <2>1, <2>2, <2>6, <1>6
<1>10. TypeOK'
  <2>1. freeSlots' \subseteq Slices
    BY <1>9 DEF Accounted
  <2> QED BY <2>1, <1>1, <1>2, <1>9 DEF TypeOK
<1>11. Accounts'
  BY <1>9, <1>10, AccountsAfter
<1>12. ASSUME NEW g \in Filenos PROVE Tolerated(u, g)
  <2>1. CASE g = f
    <3>1. \A v \in Users : v # u => ~Settles(users[v], f) /\ ~Updates(users[v], f)
      BY DEF Settles
    <3> QED BY <3>1, <2>1, <1>2 DEF Tolerated
  <2>2. CASE g # f
    BY <2>2, <1>2 DEF Tolerated
  <2> QED BY <2>1, <2>2
<1>13. ASSUME NEW g \in Filenos PROVE LeftSound(u, r, g)
  <2>1. CASE g = f
    BY <2>1, <1>2 DEF LeftSound, InProgress, Tends
  <2>2. CASE g # f
    BY <2>2, <1>2 DEF LeftSound, IInv, AnchorsSound
  <2> QED BY <2>1, <2>2
<1>14. LocksExclude' /\ UsersFit' /\ AnchorsSound'
  BY <1>12, <1>13, UsersAfter
<1> QED BY <1>10, <1>11, <1>14 DEF IInv, Accounts

\* The anchors that are left behind
LEMMA NewAnchors ==
  ASSUME NEW key \in Keys, NEW marked \in BOOLEAN
  PROVE  /\ FreshAnchor(key, marked) \in Anchor /\ EmptyAnchor \in Anchor
         /\ FreshAnchor(key, marked).start = Nil /\ FreshAnchor(key, marked).splicingPoint = Nil
         /\ EmptyAnchor.start = Nil /\ EmptyAnchor.splicingPoint = Nil /\ ~EmptyAnchor.partial
BY DEF FreshAnchor, EmptyAnchor, Anchor

\* The chain of f is freed by a user that leaves.
LEMMA FreeAndLeave ==
  ASSUME IInv, NEW u \in Users, Leave(u), fileNos' = fileNos, NEW f \in Filenos,
         anchors' = [anchors EXCEPT ![f] = EmptyAnchor], freeChainKeeping(f, {}),
         \A v \in Users : v # u => ~Settles(users[v], f),
         \A g \in Filenos : ~Splices(users[u], g) /\ (Tends(users[u], g) => g = f)
  PROVE  IInv'
<1>1. users' = [users EXCEPT ![u] = Idle]
  BY DEF Leave
<1>2. EmptyAnchor \in Anchor /\ EmptyAnchor.start = Nil /\ EmptyAnchor.splicingPoint = Nil /\ ~EmptyAnchor.partial
  BY DEF EmptyAnchor, Anchor
<1>3. /\ Idle \in User /\ Known(Idle) /\ Fits(anchors', Idle) /\ Admitted(u, Idle)
      /\ \A g \in Filenos : ~Splices(Idle, g)
  BY IdleUser, IdleAdmitted
<1> QED BY <1>1, <1>2, <1>3, FreeStep

\* Nobody who has counted on the absence of writers uses what u writes.
LEMMA NobodySettled ==
  ASSUME IInv, NEW u \in Users, NEW f \in Filenos, Writes(users[u], f)
  PROVE  \A v \in Users : v # u => ~Settles(users[v], f)
<1> SUFFICES ASSUME NEW v \in Users, v # u PROVE ~Settles(users[v], f)
  OBVIOUS
<1>1. Excluded(users[u], users[v])
  BY DEF IInv, LocksExclude
<1> QED BY <1>1 DEF Excluded

LEMMA FreeAborted == ASSUME IInv, NEW u \in Users, freeChain(u) \/ abortFresh(u) PROVE IInv'
<1>0. PICK f : /\ f \in {users[u].fileno, users[u].fresh} /\ Writes(users[u], f)
               /\ users[u].at = "freeing" \/ users[u].at = "filling"
               /\ freeChainKeeping(f, {}) /\ fileNos' = fileNos
               /\ anchors' = [anchors EXCEPT ![f] = EmptyAnchor] /\ Leave(u)
  BY DEF freeChain, abortFresh, Writes, Filling
<1>1. f \in Filenos
  BY <1>0 DEF IInv, UsersFit, Known, Writes, Filling
<1>2. \A g \in Filenos : ~Splices(users[u], g) /\ (Tends(users[u], g) => g = f)
  BY <1>0 DEF Tends, Writes, Splices, Hides, Closing, Filling
<1>3. \A v \in Users : v # u => ~Settles(users[v], f)
  BY <1>0, <1>1, NobodySettled
<1> QED BY <1>0, <1>1, <1>2, <1>3, FreeAndLeave

LEMMA FreeByKey == ASSUME IInv, NEW u \in Users, freeEntryByKey(u) PROVE IInv'
<1> DEFINE f == users[u].fileno
<1>1. /\ users[u].at = "looking" /\ CanLockExclusive(f) /\ Leave(u) /\ fileNos' = fileNos
      /\ \/ freeChainKeeping(f, {}) /\ anchors' = [anchors EXCEPT ![f] = EmptyAnchor]
         \/ UNCHANGED <<anchors, next, freeSlots>>
  BY DEF freeEntryByKey
<1>2. f \in Filenos
  BY <1>1 DEF IInv, UsersFit, Known
<1>3. \A v \in Users : ~Settles(users[v], f)
  BY <1>1, Unlocked DEF CanLockExclusive
<1>4. \A g \in Filenos : ~Splices(users[u], g) /\ ~Tends(users[u], g)
  BY <1>1 DEF Tends, Writes, Splices, Hides, Closing, Updating, Filling
<1>5. CASE UNCHANGED <<anchors, next, freeSlots>>
  BY <1>1, <1>5, LeaveQuietly
<1>6. CASE freeChainKeeping(f, {}) /\ anchors' = [anchors EXCEPT ![f] = EmptyAnchor]
  <2> HIDE DEF f
  <2> QED BY <1>1, <1>2, <1>3, <1>4, <1>6, FreeAndLeave
<1> QED BY <1>1, <1>5, <1>6

\* The chain of f is freed by a user that has just got its exclusive lock.
LEMMA FreeAndWrite ==
  ASSUME IInv, NEW u \in Users, NEW r \in User, users' = [users EXCEPT ![u] = r], fileNos' = fileNos,
         NEW f \in Filenos, CanLockExclusive(f), NEW key \in Keys, NEW marked \in BOOLEAN,
         anchors' = [anchors EXCEPT ![f] = FreshAnchor(key, marked)], freeChainKeeping(f, {}),
         Known(r), Writes(r, f), \A g \in Filenos : Writes(r, g) => g = f,
         \A g \in Filenos : /\ Updates(r, g) => Updates(users[u], g)
                            /\ Settles(r, g) => Settles(users[u], g)
                            /\ Reads(r, g) => Reads(users[u], g)
                            /\ Opens(r, g) => Opens(users[u], g)
                            /\ ~Tends(users[u], g),
         r.at \notin Closing, users[u].at \notin Closing
  PROVE  IInv'
<1>1. PICK a : a = FreshAnchor(key, marked)
  OBVIOUS
<1>2. a \in Anchor /\ a.start = Nil /\ a.splicingPoint = Nil
  BY <1>1, NewAnchors
<1>3. anchors' = [anchors EXCEPT ![f] = a] /\ anchors \in [Filenos -> Anchor]
  BY <1>1 DEF IInv, TypeOK
<1>4. anchors'[f] = a /\ \A g \in Filenos : g # f => anchors'[g] = anchors[g]
  BY <1>3
<1>5. \A v \in Users : /\ ~Reads(users[v], f) /\ ~Updates(users[v], f)
                       /\ ~Writes(users[v], f) /\ ~Settles(users[v], f)
  BY Unlocked DEF CanLockExclusive
<1>6. Fits(anchors', r)
  <2>1. \A g \in Filenos : Writes(r, g) => anchors'[g].splicingPoint = Nil
    BY <1>2, <1>4
  <2> QED BY <2>1 DEF Fits, Closing
<1>7. ASSUME NEW v \in Users, v # u PROVE Excluded(r, users[v]) /\ Excluded(users[v], r)
  <2>1. Excluded(users[u], users[v]) /\ Excluded(users[v], users[u])
    BY <1>7 DEF IInv, LocksExclude
  <2>2. /\ ~Reads(users[v], f) /\ ~Writes(users[v], f) /\ ~Updates(users[v], f) /\ ~Settles(users[v], f)
        /\ \A g \in Filenos : (Fills(r, g) => g = f) /\ ~Hides(r, g)
    BY <1>5 DEF Writes, Fills, Hides, Closing
  <2>3. Excluded(r, users[v])
    BY <2>1, <2>2 DEF Excluded
  <2>4. Excluded(users[v], r)
    BY <2>1, <2>2 DEF Excluded
  <2> QED BY <2>3, <2>4
<1>8. Admitted(u, r)
  BY <1>7 DEF Admitted
<1>9. \A g \in Filenos : ~Splices(users[u], g) /\ ~Splices(r, g)
  BY DEF Splices
<1> QED BY <1>2, <1>3, <1>5, <1>6, <1>8, <1>9, FreeStep

LEMMA OpenForWriting == ASSUME IInv, NEW u \in Users, openForWritingAt(u) PROVE IInv'
<1>0. PICK f, key : f = users[u].fileno /\ key = users[u].key
  OBVIOUS
<1>1. users[u].at = "looking" /\ CanLockExclusive(f) /\ freeChainKeeping(f, {}) /\ fileNos' = fileNos
  BY <1>0 DEF openForWritingAt
<1>2. PICK marked \in BOOLEAN : anchors' = [anchors EXCEPT ![f] = FreshAnchor(key, marked)]
  BY <1>0 DEF openForWritingAt
<1>3. PICK appending \in BOOLEAN : users' = [users EXCEPT ![u].at = "writing", ![u].appending = appending]
  BY DEF openForWritingAt
<1>4. users[u] \in User /\ f \in Filenos /\ key \in Keys
  BY <1>0, <1>1 DEF IInv, UsersFit, Known, TypeOK
<1>5. PICK r : r = [users[u] EXCEPT !.at = "writing", !.appending = appending]
  OBVIOUS
<1>6. /\ r \in User /\ r.at = "writing" /\ r.fileno = f /\ r.key = key
      /\ users' = [users EXCEPT ![u] = r]
  BY <1>0, <1>3, <1>4, <1>5 DEF User, Places
<1>7. Known(r) /\ Writes(r, f) /\ \A g \in Filenos : Writes(r, g) => g = f
  BY <1>4, <1>6 DEF Known, Writes, Closing, Updating, Filling
<1>8. /\ \A g \in Filenos : ~Updates(r, g) /\ ~Settles(r, g) /\ ~Reads(r, g) /\ ~Opens(r, g) /\ ~Tends(users[u], g)
      /\ r.at \notin Closing /\ users[u].at \notin Closing
  BY <1>1, <1>6 DEF Updates, Settles, Reads, Opens, Tends, Hides, Writes, Closing, Updating, Filling
<1> QED BY <1>1, <1>2, <1>4, <1>6, <1>7, <1>8, FreeAndWrite

LEMMA OpenKeyless == ASSUME IInv, NEW u \in Users, openKeyless(u) PROVE IInv'
<1>0. PICK f, key : f = users[u].fresh /\ key = users[u].key
  OBVIOUS
<1>1. /\ users[u].at = "choosing" /\ CanLockExclusive(f) /\ freeChainKeeping(f, {}) /\ fileNos' = fileNos
      /\ users' = [users EXCEPT ![u].at = "filling"]
  BY <1>0 DEF openKeyless, MoveTo
<1>2. PICK marked \in BOOLEAN : anchors' = [anchors EXCEPT ![f] = FreshAnchor(key, marked)]
  BY <1>0 DEF openKeyless
<1>3. PICK r : Moved(u, r, "filling")
  <2>1. "filling" \in Places
    BY DEF Places
  <2> QED BY <2>1, <1>1, UserMoves, Zenon
<1>4. Known(users[u]) /\ f \in Filenos /\ key \in Keys
  BY <1>0, <1>1 DEF IInv, UsersFit, Known
<1>5. /\ r \in User /\ r.at = "filling" /\ r.fileno = users[u].fileno /\ r.fresh = f /\ r.key = key
      /\ r.name = users[u].name /\ users' = [users EXCEPT ![u] = r] /\ r.early = users[u].early
  BY <1>0, <1>3 DEF Moved
<1>6. r.fresh # r.fileno
  <2>1. Reads(users[u], users[u].fileno)
    BY <1>1 DEF Reads, Updating
  <2>2. ~Reads(users[u], f)
    BY <1>1, Unlocked DEF CanLockExclusive
  <2> QED BY <2>1, <2>2, <1>5
<1>7. Known(r) /\ Writes(r, f) /\ \A g \in Filenos : Writes(r, g) => g = f
  BY <1>1, <1>4, <1>5, <1>6 DEF Known, Writes, Closing, Updating, Filling
<1>8. /\ \A g \in Filenos : /\ Updates(r, g) => Updates(users[u], g)
                            /\ Settles(r, g) => Settles(users[u], g)
                            /\ Reads(r, g) => Reads(users[u], g)
                            /\ Opens(r, g) => Opens(users[u], g)
                            /\ ~Tends(users[u], g)
      /\ r.at \notin Closing /\ users[u].at \notin Closing
  BY <1>1, <1>5 DEF Updates, Settles, Reads, Opens, Tends, Hides, Writes, Closing, Updating, Filling
<1> QED BY <1>1, <1>2, <1>4, <1>5, <1>7, <1>8, FreeAndWrite

----------------------------------------------------------------------------
(* The end of an update *)

\* Steps that leave the chains alone, because the slices end where they did.
LEMMA StopsKept ==
  ASSUME TypeOK, Accounts, TypeOK', next' = next, freeSlots' = freeSlots,
         \A f \in Filenos : Stop(f)' = Stop(f) /\ anchors'[f].start = anchors[f].start
  PROVE  Accounts'
<1>1. Stops' = Stops
  BY DEF Stops
<1>2. Starts' = Starts
  BY DEF Starts
<1> QED BY <1>1, <1>2, AccountsBefore, AccountsAfter

LEMMA FreeStale == ASSUME IInv, NEW u \in Users, freeStale(u) PROVE IInv'
<1>0. PICK f, p : f = users[u].fileno /\ p = users[u].splicingPoint
  OBVIOUS
<1>1. /\ users[u].at = "checked" /\ users' = [users EXCEPT ![u].at = "freed"]
      /\ UNCHANGED <<fileNos, next, freeSlots>>
      /\ anchors' = [anchors EXCEPT ![f].splicingPoint = p, ![f].waitingToBeFreed = TRUE]
  BY <1>0 DEF freeStale, MoveTo
<1>2. PICK r : Moved(u, r, "freed")
  <2>1. "freed" \in Places
    BY DEF Places
  <2> QED BY <2>1, <1>1, UserMoves, Zenon
<1>3. Known(users[u]) /\ Fits(anchors, users[u]) /\ anchors \in [Filenos -> Anchor]
  BY DEF IInv, UsersFit, TypeOK
<1>4. f \in Filenos /\ p \in Slices /\ users[u].fresh \in Filenos /\ users[u].fresh # f
  BY <1>0, <1>1, <1>3 DEF Known, Closing, Updating, Filling
<1>5. PICK a : a = [anchors[f] EXCEPT !.splicingPoint = p, !.waitingToBeFreed = TRUE]
  OBVIOUS
<1>6. a \in Anchor /\ a.waitingToBeFreed = TRUE /\ a.start = anchors[f].start /\ a.splicingPoint = p
  BY <1>3, <1>4, <1>5 DEF Anchor
<1>7. anchors' = [anchors EXCEPT ![f] = a]
  BY <1>1, <1>5
<1>8. /\ anchors' \in [Filenos -> Anchor] /\ anchors'[f] = a
      /\ \A g \in Filenos : g # f => anchors'[g] = anchors[g]
  BY <1>3, <1>4, <1>6, <1>7
<1>9. /\ r \in User /\ users' = [users EXCEPT ![u] = r] /\ r.at = "freed" /\ r.fileno = f /\ r.splicingPoint = p
      /\ r.fresh = users[u].fresh /\ r.doomed = users[u].doomed /\ r.key = users[u].key /\ r.name = users[u].name
  BY <1>0, <1>2 DEF Moved
<1>10. TypeOK'
  BY <1>1, <1>8, <1>9 DEF IInv, TypeOK
<1>11. \A g \in Filenos : /\ Splices(users[u], g) <=> Splices(r, g)
                          /\ Splices(r, g) <=> g = f
  BY <1>0, <1>1, <1>9 DEF Splices, Closing, Updating, Filling
<1>12. Accounts'
  <2>1. ASSUME NEW g \in Filenos PROVE Stop(g)' = Stop(g) /\ anchors'[g].start = anchors[g].start
    <3>1. anchors'[g].start = anchors[g].start
      BY <1>6, <1>8
    <3>2. anchors'[g].splicingPoint = anchors[g].splicingPoint \/ Splices(r, g)
      BY <1>8, <1>11
    <3>3. Splices(r, g) => r.splicingPoint = users[u].splicingPoint
      BY <1>0, <1>9
    <3>4. TypeOK
      BY DEF IInv
    <3>5. Stop(g)' = Stop(g)
      BY <3>2, <3>3, <3>4, <1>9, <1>11, StopKept
    <3> QED BY <3>1, <3>5
  <2> QED BY <2>1, <1>1, <1>10, StopsKept DEF IInv, Accounts
<1>13. Known(r)
  BY <1>0, <1>1, <1>3, <1>4, <1>9 DEF Known, Closing, Updating, Filling
<1>14. Fits(anchors', r)
  <2>1. r.doomed => anchors'[r.fresh].waitingToBeFreed
    BY <1>1, <1>3, <1>4, <1>8, <1>9 DEF Fits
  <2> QED BY <2>1, <1>6, <1>8, <1>9 DEF Fits, Writes, Filling
<1>15. Admitted(u, r)
  <2>1. Weaker(r, users[u])
    BY <1>0, <1>1, <1>9 DEF Weaker, Writes, Updates, Reads, Settles, Fills, Opens, Hides, Closing, Updating, Filling
  <2> QED BY <2>1, WeakerAdmitted DEF IInv
<1>16. ASSUME NEW g \in Filenos PROVE Tolerated(u, g) /\ LeftSound(u, r, g)
  <2>1. CASE g = f
    <3>1. ASSUME NEW v \in Users, v # u PROVE ~Updates(users[v], f) /\ ~Writes(users[v], f)
      <4>1. Excluded(users[v], users[u])
        BY <3>1 DEF IInv, LocksExclude
      <4>2. Updates(users[u], f) /\ Settles(users[u], f)
        BY <1>0, <1>1 DEF Settles, Updates, Closing, Updating, Filling
      <4> QED BY <4>1, <4>2, <1>4 DEF Excluded
    <3>2. anchors'[f].waitingToBeFreed
      BY <1>6, <1>8
    <3>3. Tolerated(u, g)
      BY <2>1, <3>1, <3>2 DEF Tolerated, InProgress
    <3> QED BY <2>1, <3>2, <3>3 DEF LeftSound, InProgress
  <2>2. CASE g # f
    <3>1. ~Tends(users[u], g)
      BY <1>1 DEF Tends, Hides, Writes, Filling
    <3> QED BY <2>2, <3>1, <1>8 DEF Tolerated, LeftSound, IInv, AnchorsSound
  <2> QED BY <2>1, <2>2
<1>17. LocksExclude' /\ UsersFit' /\ AnchorsSound'
  BY <1>9, <1>13, <1>14, <1>15, <1>16, UsersAfter
<1> QED BY <1>10, <1>12, <1>17 DEF IInv, Accounts

LEMMA CloseForUpdating == ASSUME IInv, NEW u \in Users, closeForUpdating(u) PROVE IInv'
<1>0. PICK f : f = users[u].fileno
  OBVIOUS
<1>1. /\ users[u].at = "freed" /\ users' = [users EXCEPT ![u] = Idle] /\ UNCHANGED <<anchors, next, freeSlots>>
      /\ fileNos' = [fileNos EXCEPT ![users[u].name] = f]
  BY <1>0 DEF closeForUpdating, Leave
<1>2. Known(users[u]) /\ Fits(anchors, users[u]) /\ TypeOK
  BY DEF IInv, UsersFit
<1>3. f \in Filenos /\ anchors[f].splicingPoint = users[u].splicingPoint /\ users[u].name \in Names
  BY <1>0, <1>1, <1>2 DEF Known, Fits, Closing, Updating, Filling
<1>4. TypeOK'
  <2>1. Idle \in User
    BY IdleUser
  <2>2. fileNos' \in [Names -> Filenos]
    BY <1>1, <1>2, <1>3 DEF TypeOK
  <2> QED BY <2>1, <2>2, <1>1, <1>2 DEF TypeOK
<1>5. users'[u] = Idle /\ \A v \in Users : v # u => users'[v] = users[v]
  BY <1>1, <1>2 DEF TypeOK
<1>6. ASSUME NEW g \in Filenos PROVE Stop(g)' = Stop(g)
  <2>1. CASE g = f
    <3>1. ASSUME NEW v \in Users, v # u PROVE ~Splices(users[v], f)
      <4>1. Excluded(users[v], users[u])
        BY <3>1 DEF IInv, LocksExclude
      <4>2. Updates(users[u], f)
        BY <1>0, <1>1 DEF Updates, Closing, Updating, Filling
      <4> QED BY <4>1, <4>2, <1>3 DEF Excluded, Updates, Updating, Splices
    <3>2. Splices(users[u], f) /\ ~Splices(Idle, f)
      BY <1>0, <1>1, IdleUser DEF Splices, Closing, Updating, Filling
    <3>3. Splicers(f) = {u}
      BY <3>1, <3>2 DEF Splicers
    <3>4. Splicers(f)' = {}
      BY <3>1, <3>2, <1>5 DEF Splicers
    <3>5. Stop(f) = users[u].splicingPoint
      BY <3>3 DEF Stop
    <3>6. Stop(f)' = anchors'[f].splicingPoint
      BY <3>4 DEF Stop
    <3> QED BY <2>1, <3>5, <3>6, <1>1, <1>3
  <2>2. CASE g # f
    <3>1. ~Splices(users[u], g) /\ ~Splices(Idle, g)
      BY <2>2, <1>0, IdleUser DEF Splices
    <3> QED BY <3>1, <1>1, <1>2, StopKept
  <2> QED BY <2>1, <2>2
<1>7. Accounts'
  BY <1>1, <1>4, <1>6, StopsKept DEF IInv, Accounts
<1>8. Known(Idle) /\ Fits(anchors', Idle) /\ Admitted(u, Idle)
  BY IdleUser, IdleAdmitted
<1>9. \A g \in Filenos : Tolerated(u, g) /\ LeftSound(u, Idle, g)
  <2>1. \A g \in Filenos : ~Tends(users[u], g)
    BY <1>1 DEF Tends, Hides, Writes, Filling
  <2> QED BY <2>1, <1>1 DEF Tolerated, LeftSound, IInv, AnchorsSound
<1>10. LocksExclude' /\ UsersFit' /\ AnchorsSound'
  BY <1>1, <1>8, <1>9, UsersAfter
<1> QED BY <1>4, <1>7, <1>10 DEF IInv, Accounts

----------------------------------------------------------------------------
(* Linking *)

\* The chain of an anchor that is being written is whole.
LEMMA WrittenChain ==
  ASSUME IInv, NEW u \in Users, NEW f \in Filenos, Writes(users[u], f)
  PROVE  Splicers(f) = {} /\ Stop(f) = Nil /\ anchors[f].splicingPoint = Nil
<1>1. ASSUME NEW v \in Users, Splices(users[v], f) PROVE FALSE
  <2>1. Settles(users[v], f)
    BY <1>1 DEF Settles, Updates, Updating, Splices
  <2>2. CASE v = u
    BY <2>2, <1>1 DEF Splices, Writes, Closing, Updating, Filling
  <2>3. CASE v # u
    <3>1. Excluded(users[u], users[v])
      BY <2>3 DEF IInv, LocksExclude
    <3> QED BY <2>1, <3>1 DEF Excluded
  <2> QED BY <2>2, <2>3
<1>2. Splicers(f) = {}
  BY <1>1 DEF Splicers
<1>3. anchors[f].splicingPoint = Nil
  BY DEF IInv, UsersFit, Fits
<1> QED BY <1>2, <1>3 DEF Stop

\* Its last slice
LEMMA LastSlice ==
  ASSUME IInv, NEW f \in Filenos, Stop(f) = Nil, anchors[f].start # Nil
  PROVE  /\ Last(anchors[f].start) \in Reach(next, anchors[f].start, Nil)
         /\ next[Last(anchors[f].start)] = Nil
<1> DEFINE C == Chain(anchors[f].start, Nil)
<1>1. TypeOK /\ anchors[f].start \in Slices \cup {Nil} /\ next \in [Slices -> Slices \cup {Nil}]
  BY DEF IInv, TypeOK, Anchor
<1>2. C = Reach(next, anchors[f].start, Nil)
  BY <1>1, ChainIsReach
<1>3. Owned(f) = C
  BY <1>1, <1>2, OwnedIs
<1>4. \E e \in C : next[e] = Nil
  BY <1>3 DEF IInv, ChainsEnd, Ends
<1>5. Last(anchors[f].start) = CHOOSE t \in C : next[t] = Nil
  BY DEF Last
<1> HIDE DEF C
<1> QED BY <1>2, <1>4, <1>5

\* What Link() does to the links and to the anchors
LEMMA Links ==
  ASSUME IInv, NEW f \in Filenos, NEW x \in Slices, NEW nx \in [Slices -> Slices \cup {Nil}],
         NEW ac \in [Filenos -> Anchor], Link(f, x, nx, ac), ac[f].start = anchors[f].start, Stop(f) = Nil
  PROVE  /\ anchors' \in [Filenos -> Anchor]
         /\ \A g \in Filenos : g # f => anchors'[g] = ac[g]
         /\ anchors'[f].splicingPoint = ac[f].splicingPoint /\ anchors'[f].key = ac[f].key
         /\ anchors'[f].waitingToBeFreed = ac[f].waitingToBeFreed /\ anchors'[f].partial = ac[f].partial
         /\ \/ anchors[f].start = Nil /\ next' = nx /\ anchors'[f].start = x
            \/ /\ anchors[f].start # Nil /\ anchors'[f].start = anchors[f].start
               /\ \E e \in Reach(next, anchors[f].start, Nil) :
                    /\ next[e] = Nil /\ next' \in [Slices -> Slices \cup {Nil}]
                    /\ next'[e] = x /\ \A t \in Slices : t # e => next'[t] = nx[t]
<1>1. CASE anchors[f].start = Nil
  <2>1. anchors' = [ac EXCEPT ![f].start = x] /\ next' = nx
    BY <1>1 DEF Link
  <2>2. PICK a : a = [ac[f] EXCEPT !.start = x]
    OBVIOUS
  <2>3. /\ a \in Anchor /\ a.start = x /\ a.splicingPoint = ac[f].splicingPoint /\ a.key = ac[f].key
        /\ a.waitingToBeFreed = ac[f].waitingToBeFreed /\ a.partial = ac[f].partial
    BY <2>2 DEF Anchor
  <2>4. anchors' = [ac EXCEPT ![f] = a]
    BY <2>1, <2>2
  <2>5. /\ anchors' \in [Filenos -> Anchor] /\ anchors'[f] = a
        /\ \A g \in Filenos : g # f => anchors'[g] = ac[g]
    BY <2>3, <2>4
  <2> QED BY <1>1, <2>1, <2>3, <2>5
<1>2. CASE anchors[f].start # Nil
  <2>1. PICK e : e = Last(anchors[f].start)
    OBVIOUS
  <2>2. anchors' = ac /\ next' = [nx EXCEPT ![e] = x]
    BY <1>2, <2>1 DEF Link
  <2>3. e \in Reach(next, anchors[f].start, Nil) /\ next[e] = Nil
    BY <1>2, <2>1, LastSlice
  <2>4. e \in Slices
    BY <2>3 DEF Reach
  <2>5. next' \in [Slices -> Slices \cup {Nil}] /\ next'[e] = x /\ \A t \in Slices : t # e => next'[t] = nx[t]
    BY <2>2, <2>4
  <2> QED BY <1>2, <2>2, <2>3, <2>5
<1> QED BY <1>1, <1>2

\* A writer adds a slice: what follows when the slices are accounted for, and
\* an anchor that is changed otherwise had no users.
LEMMA LinkStep ==
  ASSUME IInv, NEW u \in Users, NEW f \in Filenos, UNCHANGED <<fileNos, users>>,
         TypeOK', Accounts',
         \A g \in Filenos :
           \/ /\ anchors'[g].splicingPoint = anchors[g].splicingPoint /\ anchors'[g].key = anchors[g].key
              /\ anchors'[g].waitingToBeFreed = anchors[g].waitingToBeFreed
              /\ anchors'[g].partial = anchors[g].partial
           \/ CanLockExclusive(g) /\ anchors'[g] = EmptyAnchor
  PROVE  IInv'
<1>1. PICK r : r = users[u]
  OBVIOUS
<1>2. users' = [users EXCEPT ![u] = r]
  BY <1>1 DEF IInv, TypeOK
<1>3. Admitted(u, r)
  BY <1>1 DEF IInv, LocksExclude, Admitted
<1>4. Known(r) /\ Fits(anchors, r)
  BY <1>1 DEF IInv, UsersFit
<1>5. EmptyAnchor.splicingPoint = Nil /\ ~EmptyAnchor.partial
  BY DEF EmptyAnchor
<1>6. ASSUME NEW g \in Filenos, NEW v \in Users
      PROVE  \/ /\ anchors'[g].splicingPoint = anchors[g].splicingPoint /\ anchors'[g].key = anchors[g].key
                /\ anchors'[g].waitingToBeFreed = anchors[g].waitingToBeFreed
                /\ anchors'[g].partial = anchors[g].partial
             \/ /\ ~Settles(users[v], g) /\ ~Writes(users[v], g) /\ ~Updates(users[v], g)
                /\ anchors'[g].splicingPoint = Nil /\ ~anchors'[g].partial
  BY <1>5, Unlocked DEF CanLockExclusive
<1>7. Fits(anchors', r)
  <2>1. \A g \in Filenos : Writes(r, g) => anchors'[g].splicingPoint = Nil
    BY <1>1, <1>4, <1>6 DEF Fits
  <2>2. \A g \in Filenos : Settles(r, g) => /\ anchors'[g].splicingPoint = anchors[g].splicingPoint
                                            /\ anchors'[g].waitingToBeFreed = anchors[g].waitingToBeFreed
                                            /\ anchors'[g].partial = anchors[g].partial
    BY <1>1, <1>6
  <2>3. r.at \in Closing => /\ r.fileno \in Filenos /\ Settles(r, r.fileno)
                            /\ r.fresh \in Filenos /\ Settles(r, r.fresh)
    BY <1>4 DEF Known, Settles, Updates, Closing, Updating, Filling
  <2> QED BY <2>1, <2>2, <2>3, <1>4 DEF Fits, InProgress, Closing
<1>8. ASSUME NEW g \in Filenos PROVE Tolerated(u, g) /\ LeftSound(u, r, g)
  <2>1. Tolerated(u, g)
    BY <1>6 DEF Tolerated, InProgress
  <2>2. anchors'[g].splicingPoint # Nil => anchors'[g].waitingToBeFreed
    BY <1>6 DEF IInv, AnchorsSound
  <2>3. InProgress(anchors'[g]) => InProgress(anchors[g])
    BY <1>6 DEF InProgress
  <2> QED BY <2>1, <2>2, <2>3, <1>1 DEF LeftSound
<1>9. LocksExclude' /\ UsersFit' /\ AnchorsSound'
  BY <1>2, <1>3, <1>4, <1>7, <1>8, UsersAfter
<1> QED BY <1>9 DEF IInv, Accounts

LEMMA AddFree ==
  ASSUME IInv, NEW u \in Users, NEW f \in Filenos, Writes(users[u], f), UNCHANGED <<fileNos, users>>, AddFreeSlice(f)
  PROVE  IInv'
<1>1. PICK x \in freeSlots : freeSlots' = freeSlots \ {x} /\ Link(f, x, next, anchors)
  BY DEF AddFreeSlice
<1>2. TypeOK /\ Accounts /\ x \in Slices /\ next \in [Slices -> Slices \cup {Nil}] /\ anchors \in [Filenos -> Anchor]
  BY DEF IInv, Accounts, TypeOK
<1>3. Stop(f) = Nil
  BY WrittenChain
<1>4. /\ anchors' \in [Filenos -> Anchor]
      /\ \A g \in Filenos : g # f => anchors'[g] = anchors[g]
      /\ anchors'[f].splicingPoint = anchors[f].splicingPoint /\ anchors'[f].key = anchors[f].key
      /\ anchors'[f].waitingToBeFreed = anchors[f].waitingToBeFreed /\ anchors'[f].partial = anchors[f].partial
      /\ \/ anchors[f].start = Nil /\ next' = next /\ anchors'[f].start = x
         \/ /\ anchors[f].start # Nil /\ anchors'[f].start = anchors[f].start
            /\ \E e \in Reach(next, anchors[f].start, Nil) :
                 /\ next[e] = Nil /\ next' \in [Slices -> Slices \cup {Nil}]
                 /\ next'[e] = x /\ \A t \in Slices : t # e => next'[t] = next[t]
  BY <1>1, <1>2, <1>3, Links
<1>5. TypeOK'
  <2>1. next' \in [Slices -> Slices \cup {Nil}] /\ freeSlots' \subseteq Slices
    BY <1>1, <1>2, <1>4 DEF TypeOK
  <2> QED BY <2>1, <1>2, <1>4 DEF TypeOK
<1>6. Stops' = Stops
  <2>1. \A g \in Filenos : anchors'[g].splicingPoint = anchors[g].splicingPoint
    BY <1>4
  <2>2. \A g \in Filenos : Splicers(g)' = Splicers(g)
    BY DEF Splicers
  <2>3. ASSUME NEW g \in Filenos PROVE Stop(g)' = Stop(g)
    <3>1. users' = users /\ Splicers(g)' = Splicers(g) /\ anchors'[g].splicingPoint = anchors[g].splicingPoint
      BY <2>1, <2>2
    <3> QED BY <3>1 DEF Stop
  <2> QED BY <2>3 DEF Stops
<1>7. Accounted(next', Starts', Stops', freeSlots')
  <2>1. PICK nx, st, sp, fr : nx = next /\ st = Starts /\ sp = Stops /\ fr = freeSlots
    OBVIOUS
  <2>2. PICK my, tt : my = next' /\ tt = Starts'
    OBVIOUS
  <2>3. /\ nx \in [Slices -> Slices \cup {Nil}] /\ st \in [Filenos -> Slices \cup {Nil}]
        /\ Accounted(nx, st, sp, fr) /\ x \in fr
    BY <1>1, <1>2, <2>1, AccountsBefore
  <2>4. sp[f] = Nil /\ st[f] = anchors[f].start
    BY <1>3, <2>1 DEF Stops, Starts
  <2>5. \/ st[f] = Nil /\ my = nx /\ tt = [st EXCEPT ![f] = x]
        \/ /\ st[f] # Nil /\ tt = st
           /\ \E e \in Reach(nx, st[f], Nil) :
                /\ nx[e] = Nil /\ my \in [Slices -> Slices \cup {Nil}]
                /\ my[e] = x /\ \A t \in Slices : t # e => my[t] = nx[t]
    <3>1. CASE anchors[f].start = Nil
      <4>1. Starts' = [Starts EXCEPT ![f] = x]
        BY <3>1, <1>4 DEF Starts
      <4> QED BY <3>1, <4>1, <1>4, <2>1, <2>2, <2>4
    <3>2. CASE anchors[f].start # Nil
      <4>1. Starts' = Starts
        BY <3>2, <1>4 DEF Starts
      <4> QED BY <3>2, <4>1, <1>4, <2>1, <2>2, <2>4
    <3> QED BY <3>1, <3>2
  <2>6. Accounted(my, tt, sp, fr \ {x})
    <3>1. CASE st[f] = Nil
      <4>1. my = nx /\ tt = [st EXCEPT ![f] = x]
        BY <3>1, <2>5
      <4> QED BY <4>1, <3>1, <2>3, <2>4, LinkKeeps
    <3>2. CASE st[f] # Nil
      <4>1. PICK e \in Reach(nx, st[f], Nil) :
              /\ nx[e] = Nil /\ my \in [Slices -> Slices \cup {Nil}]
              /\ my[e] = x /\ \A t \in Slices : t # e => my[t] = nx[t]
        BY <3>2, <2>5
      <4>2. tt = st
        BY <3>2, <2>5
      <4> QED BY <4>1, <4>2, <3>2, <2>3, <2>4, LinkKeeps
    <3> QED BY <3>1, <3>2
  <2> QED BY <2>1, <2>2, <2>6, <1>1, <1>6
<1>8. Accounts'
  BY <1>5, <1>7, AccountsAfter
<1>9. \A g \in Filenos : /\ anchors'[g].splicingPoint = anchors[g].splicingPoint /\ anchors'[g].key = anchors[g].key
                         /\ anchors'[g].waitingToBeFreed = anchors[g].waitingToBeFreed
                         /\ anchors'[g].partial = anchors[g].partial
  BY <1>4
<1> QED BY <1>5, <1>8, <1>9, LinkStep

\* The slice comes from a purged entry: its chain is freed, and the first of
\* its slices is linked.
LEMMA AddPurged ==
  ASSUME IInv, NEW u \in Users, NEW f \in Filenos, Writes(users[u], f), UNCHANGED <<fileNos, users>>, AddPurgedSlice(f)
  PROVE  IInv'
<1>1. PICK victim \in Purgeable :
        LET slice == anchors[victim].start
            links == [s \in Slices |-> IF s \in freeChainAt(victim) THEN Nil ELSE next[s]]
        IN /\ freeSlots' = freeSlots \cup (freeChainAt(victim) \ {slice})
           /\ Link(f, slice, links, [anchors EXCEPT ![victim] = EmptyAnchor])
  BY DEF AddPurgedSlice
<1>2. victim \in Filenos /\ CanLockExclusive(victim) /\ anchors[victim].start # Nil
  BY DEF Purgeable
<1>3. TypeOK /\ Accounts /\ next \in [Slices -> Slices \cup {Nil}] /\ anchors \in [Filenos -> Anchor]
  BY DEF IInv, Accounts, TypeOK
<1>4. \A v \in Users : ~Reads(users[v], victim) /\ ~Writes(users[v], victim)
  BY <1>2, Unlocked DEF CanLockExclusive
<1>5. victim # f
  BY <1>4
<1>6. Splicers(victim) = {}
  <2>1. \A v \in Users : Splices(users[v], victim) => Reads(users[v], victim)
    BY DEF Splices, Reads, Updating
  <2> QED BY <2>1, <1>4 DEF Splicers
<1>7. Stop(f) = Nil
  BY WrittenChain
<1>8. PICK x, F, links, ac : /\ x = anchors[victim].start /\ F = freeChainAt(victim)
                             /\ links = [s \in Slices |-> IF s \in F THEN Nil ELSE next[s]]
                             /\ ac = [anchors EXCEPT ![victim] = EmptyAnchor]
  OBVIOUS
<1>9. freeSlots' = freeSlots \cup (F \ {x}) /\ Link(f, x, links, ac)
  BY <1>1, <1>8
<1>10. F = Reach(next, Starts[victim], Stops[victim]) /\ x = Starts[victim]
  BY <1>2, <1>3, <1>6, <1>8, OwnedIs DEF Stop, Starts, Stops
<1>11. x \in Slices /\ x \in F
  <2>1. Starts \in [Filenos -> Slices \cup {Nil}]
    BY <1>3, AccountsBefore
  <2>2. Linked(F, next, x, Stops[victim])
    BY <2>1, <1>2, <1>3, <1>10, ReachIsLeast
  <2> QED BY <2>1, <2>2, <1>2, <1>8, <1>10 DEF Linked
<1>12. EmptyAnchor \in Anchor /\ EmptyAnchor.start = Nil /\ EmptyAnchor.splicingPoint = Nil
  BY DEF EmptyAnchor, Anchor
<1>13. /\ ac \in [Filenos -> Anchor] /\ ac[victim] = EmptyAnchor
       /\ \A g \in Filenos : g # victim => ac[g] = anchors[g]
  BY <1>2, <1>3, <1>8, <1>12
<1>14. links \in [Slices -> Slices \cup {Nil}]
  BY <1>3, <1>8
<1>15. /\ anchors' \in [Filenos -> Anchor]
       /\ \A g \in Filenos : g # f => anchors'[g] = ac[g]
       /\ anchors'[f].splicingPoint = ac[f].splicingPoint /\ anchors'[f].key = ac[f].key
       /\ anchors'[f].waitingToBeFreed = ac[f].waitingToBeFreed /\ anchors'[f].partial = ac[f].partial
       /\ \/ anchors[f].start = Nil /\ next' = links /\ anchors'[f].start = x
          \/ /\ anchors[f].start # Nil /\ anchors'[f].start = anchors[f].start
             /\ \E e \in Reach(next, anchors[f].start, Nil) :
                  /\ next[e] = Nil /\ next' \in [Slices -> Slices \cup {Nil}]
                  /\ next'[e] = x /\ \A t \in Slices : t # e => next'[t] = links[t]
  <2>1. ac[f].start = anchors[f].start
    BY <1>5, <1>13
  <2> QED BY <2>1, <1>7, <1>9, <1>11, <1>13, <1>14, Links
<1>16. anchors'[victim] = EmptyAnchor /\ \A g \in Filenos : g # f /\ g # victim => anchors'[g] = anchors[g]
  BY <1>2, <1>5, <1>13, <1>15
<1>17. \A g \in Filenos : g # victim => Stop(g)' = Stop(g)
  <2>1. \A g \in Filenos : g # victim => anchors'[g].splicingPoint = anchors[g].splicingPoint
    BY <1>13, <1>15, <1>16
  <2>2. ASSUME NEW g \in Filenos, g # victim PROVE Stop(g)' = Stop(g)
    <3>1. Splicers(g)' = Splicers(g)
      BY DEF Splicers
    <3>2. users' = users /\ anchors'[g].splicingPoint = anchors[g].splicingPoint
      BY <2>1, <2>2
    <3> QED BY <3>1, <3>2 DEF Stop
  <2> QED BY <2>2
<1>18. Accounted(next', Starts', Stops', freeSlots') /\ next' \in [Slices -> Slices \cup {Nil}]
  <2>1. PICK nx, st, sp, fr : nx = next /\ st = Starts /\ sp = Stops /\ fr = freeSlots
    OBVIOUS
  <2>2. PICK my, tt, tp : my = next' /\ tt = Starts' /\ tp = Stops'
    OBVIOUS
  <2>3. /\ nx \in [Slices -> Slices \cup {Nil}] /\ st \in [Filenos -> Slices \cup {Nil}]
        /\ Accounted(nx, st, sp, fr)
    BY <1>3, <2>1, AccountsBefore
  <2>4. sp[f] = Nil /\ st[f] = anchors[f].start /\ F = Reach(nx, st[victim], sp[victim]) /\ x = st[victim]
    BY <1>7, <1>10, <2>1 DEF Stops, Starts
  <2>5. PICK s1 : s1 = [st EXCEPT ![victim] = Nil]
    OBVIOUS
  <2>6. /\ s1 \in [Filenos -> Slices \cup {Nil}] /\ s1[victim] = Nil
        /\ \A g \in Filenos : g # victim => s1[g] = st[g]
    BY <2>3, <2>5, <1>2
  <2>7. \A g \in Filenos : g # victim => tp[g] = sp[g]
    BY <1>17, <2>1, <2>2 DEF Stops
  <2>8. links = [s \in Slices |-> IF s \in Reach(nx, st[victim], sp[victim]) THEN Nil ELSE nx[s]]
    BY <1>8, <2>1, <2>4
  <2>9. Accounted(links, s1, tp, fr \cup F)
    <3>1. Accounted(links, s1, tp, fr \cup Reach(nx, st[victim], sp[victim]))
      BY <2>3, <2>6, <2>7, <2>8, <1>2, FreeKeeps
    <3> QED BY <3>1, <2>4
  <2>10. tp[f] = Nil /\ s1[f] = anchors[f].start
    BY <2>4, <2>6, <2>7, <1>5
  <2>11. \/ s1[f] = Nil /\ my = links /\ tt = [s1 EXCEPT ![f] = x]
         \/ /\ s1[f] # Nil /\ tt = s1
            /\ \E e \in Reach(links, s1[f], Nil) :
                 /\ links[e] = Nil /\ my \in [Slices -> Slices \cup {Nil}]
                 /\ my[e] = x /\ \A t \in Slices : t # e => my[t] = links[t]
    <3>1. \A g \in Filenos : /\ tt[g] = anchors'[g].start /\ (g # victim => s1[g] = anchors[g].start)
      BY <2>1, <2>2, <2>6 DEF Starts
    <3>2. \A g \in Filenos : g # f => tt[g] = s1[g]
      BY <3>1, <2>6, <1>12, <1>16
    <3>3. tt \in [Filenos -> Slices \cup {Nil}]
      BY <2>2, <1>15 DEF Starts, Anchor
    <3>4. CASE anchors[f].start = Nil
      <4>1. tt[f] = x /\ my = links
        BY <3>1, <3>4, <1>15, <2>2
      <4>2. tt = [s1 EXCEPT ![f] = x]
        BY <3>2, <3>3, <4>1, <2>6
      <4> QED BY <3>4, <4>1, <4>2, <2>10
    <3>5. CASE anchors[f].start # Nil
      <4>1. tt = s1
        <5>1. tt[f] = s1[f]
          BY <3>1, <3>5, <1>15, <1>5
        <5> QED BY <5>1, <3>2, <3>3, <2>6
      <4>2. PICK e \in Reach(next, anchors[f].start, Nil) :
                    /\ next[e] = Nil /\ next' \in [Slices -> Slices \cup {Nil}]
                    /\ next'[e] = x /\ \A t \in Slices : t # e => next'[t] = links[t]
        BY <3>5, <1>15
      <4>3. \A t \in Reach(next, anchors[f].start, Nil) : t \in Slices /\ links[t] = next[t]
        <5>1. Reach(nx, st[f], sp[f]) \cap Reach(nx, st[victim], sp[victim]) = {}
          BY <2>3, <1>2, <1>5 DEF Accounted
        <5>2. Reach(next, anchors[f].start, Nil) \cap F = {}
          BY <5>1, <2>1, <2>4
        <5>3. \A t \in Reach(next, anchors[f].start, Nil) : t \in Slices
          BY DEF Reach
        <5> QED BY <5>2, <5>3, <1>8
      <4>4. Reach(links, anchors[f].start, Nil) = Reach(next, anchors[f].start, Nil)
        <5>1. anchors[f].start \in Slices \cup {Nil}
          BY <1>3 DEF Anchor
        <5> QED BY <4>3, <5>1, <1>3, <1>14, ReachFrame
      <4>5. e \in Reach(links, s1[f], Nil) /\ links[e] = Nil
        BY <4>2, <4>3, <4>4, <2>10
      <4> QED BY <3>5, <4>1, <4>2, <4>5, <2>2, <2>10
    <3> QED BY <3>4, <3>5
  <2>12. Accounted(my, tt, tp, (fr \cup F) \ {x}) /\ my \in [Slices -> Slices \cup {Nil}]
    <3>1. PICK all : all = fr \cup F
      OBVIOUS
    <3>2. x \in all /\ Accounted(links, s1, tp, all)
      BY <3>1, <1>11, <2>9
    <3>3. my \in [Slices -> Slices \cup {Nil}] /\ Accounted(my, tt, tp, all \ {x})
      <4>1. s1 \in [Filenos -> Slices \cup {Nil}] /\ tp[f] = Nil /\ links \in [Slices -> Slices \cup {Nil}]
        BY <2>6, <2>10, <1>14
      <4>2. CASE s1[f] = Nil
        <5>1. my = links /\ tt = [s1 EXCEPT ![f] = x]
          BY <4>2, <2>11
        <5> QED BY <5>1, <4>1, <4>2, <3>2, LinkKeeps
      <4>3. CASE s1[f] # Nil
        <5>1. PICK e \in Reach(links, s1[f], Nil) :
                 /\ links[e] = Nil /\ my \in [Slices -> Slices \cup {Nil}]
                 /\ my[e] = x /\ \A t \in Slices : t # e => my[t] = links[t]
          BY <4>3, <2>11
        <5>2. tt = s1
          BY <4>3, <2>11
        <5> QED BY <5>1, <5>2, <4>1, <4>3, <3>2, LinkKeeps
      <4> QED BY <4>2, <4>3
    <3> QED BY <3>1, <3>3
  <2>13. freeSlots' = (fr \cup F) \ {x}
    <3>1. x \notin freeSlots
      <4>1. Reach(nx, st[victim], sp[victim]) \cap fr = {}
        BY <2>3, <1>2 DEF Accounted
      <4> QED BY <4>1, <2>1, <2>4, <1>11
    <3> QED BY <3>1, <1>9, <2>1
  <2> QED BY <2>2, <2>12, <2>13
<1>19. TypeOK'
  <2>1. freeSlots' \subseteq Slices
    BY <1>18 DEF Accounted
  <2> QED BY <2>1, <1>3, <1>15, <1>18 DEF TypeOK
<1>20. Accounts'
  BY <1>18, <1>19, AccountsAfter
<1>21. ASSUME NEW g \in Filenos
       PROVE  \/ /\ anchors'[g].splicingPoint = anchors[g].splicingPoint /\ anchors'[g].key = anchors[g].key
                 /\ anchors'[g].waitingToBeFreed = anchors[g].waitingToBeFreed
                 /\ anchors'[g].partial = anchors[g].partial
              \/ CanLockExclusive(g) /\ anchors'[g] = EmptyAnchor
  BY <1>2, <1>5, <1>13, <1>15, <1>16
<1> QED BY <1>19, <1>20, <1>21, LinkStep

LEMMA AddStep ==
  ASSUME IInv, NEW u \in Users, copyToShm(u) \/ writeFreshHeaders(u)
  PROVE  IInv'
<1>1. Known(users[u])
  BY DEF IInv, UsersFit
<1>2. CASE copyToShm(u)
  <2>1. PICK f : f = users[u].fileno
    OBVIOUS
  <2>2. f \in Filenos /\ Writes(users[u], f) /\ UNCHANGED <<fileNos, users>> /\ AddSlice(f)
    BY <1>1, <1>2, <2>1 DEF copyToShm, Known, Writes, Filling
  <2> QED BY <2>2, AddFree, AddPurged DEF AddSlice
<1>3. CASE writeFreshHeaders(u)
  <2>1. PICK f : f = users[u].fresh
    OBVIOUS
  <2>2. f \in Filenos /\ Writes(users[u], f) /\ UNCHANGED <<fileNos, users>> /\ AddSlice(f)
    BY <1>1, <1>3, <2>1 DEF writeFreshHeaders, Known, Writes, Filling
  <2> QED BY <2>2, AddFree, AddPurged DEF AddSlice
<1> QED BY <1>2, <1>3

----------------------------------------------------------------------------
(* Splicing *)

LEMMA Splice == ASSUME IInv, NEW u \in Users, splice(u) PROVE IInv'
<1>0. PICK stale, fresh, e : stale = users[u].fileno /\ fresh = users[u].fresh /\ e = Last(anchors[fresh].start)
  OBVIOUS
<1>1. PICK p \in Chain(anchors[stale].start, Nil) :
         /\ next' = [next EXCEPT ![e] = next[p]]
         /\ users' = [users EXCEPT ![u].at = "spliced", ![u].splicingPoint = p]
  BY <1>0 DEF splice
<1>2. /\ users[u].at = "filling" /\ anchors[fresh].start # Nil /\ UNCHANGED <<fileNos, freeSlots>>
      /\ anchors[stale].splicingPoint = Nil
      /\ anchors' = [anchors EXCEPT ![fresh].partial = anchors[stale].partial /\ ~users[u].early]
  BY <1>0 DEF splice
<1>3. /\ TypeOK /\ Accounts /\ next \in [Slices -> Slices \cup {Nil}] /\ anchors \in [Filenos -> Anchor]
      /\ users \in [Users -> User] /\ Known(users[u]) /\ Fits(anchors, users[u])
  BY DEF IInv, Accounts, TypeOK, UsersFit
<1>4. stale \in Filenos /\ fresh \in Filenos /\ stale # fresh
  BY <1>0, <1>2, <1>3 DEF Known, Filling
<1>5. Writes(users[u], fresh) /\ Fills(users[u], fresh) /\ Updates(users[u], stale) /\ Settles(users[u], stale)
  BY <1>0, <1>2 DEF Writes, Fills, Settles, Updates, Updating, Filling
<1>6. ASSUME NEW v \in Users, v # u
      PROVE  /\ ~Updates(users[v], stale) /\ ~Writes(users[v], stale)
             /\ ~Settles(users[v], fresh) /\ ~Opens(users[v], fresh)
             /\ ~Writes(users[v], fresh) /\ ~Reads(users[v], fresh)
             /\ Excluded(users[v], users[u]) /\ Excluded(users[u], users[v])
  <2>1. Excluded(users[v], users[u]) /\ Excluded(users[u], users[v])
    BY <1>6 DEF IInv, LocksExclude
  <2>2. /\ ~Updates(users[v], stale) /\ ~Writes(users[v], stale)
        /\ ~Writes(users[v], fresh) /\ ~Reads(users[v], fresh) /\ ~Settles(users[v], fresh)
    BY <2>1, <1>4, <1>5 DEF Excluded
  <2>3. Opens(users[v], fresh) => Reads(users[v], fresh)
    BY DEF Opens, Reads, Updating
  <2> QED BY <2>1, <2>2, <2>3
<1>7. Splicers(stale) = {} /\ Stop(stale) = Nil
  <2>1. ASSUME NEW v \in Users, Splices(users[v], stale) PROVE FALSE
    <3>1. v # u
      BY <2>1, <1>2 DEF Splices, Closing, Updating, Filling
    <3> QED BY <2>1, <3>1, <1>6 DEF Splices, Updates, Updating
  <2>2. Splicers(stale) = {}
    BY <2>1 DEF Splicers
  <2> QED BY <2>2, <1>2 DEF Stop
<1>8. Stop(fresh) = Nil /\ anchors[fresh].splicingPoint = Nil
  BY <1>4, <1>5, WrittenChain
<1>9. e \in Reach(next, anchors[fresh].start, Nil) /\ next[e] = Nil /\ e \in Slices
  <2>1. e \in Reach(next, anchors[fresh].start, Nil) /\ next[e] = Nil
    BY <1>0, <1>2, <1>4, <1>8, LastSlice
  <2> QED BY <2>1 DEF Reach
<1>10. p \in Reach(next, anchors[stale].start, Nil) /\ p \in Slices
  <2>1. anchors[stale].start \in Slices \cup {Nil}
    BY <1>3, <1>4 DEF Anchor
  <2>2. Chain(anchors[stale].start, Nil) = Reach(next, anchors[stale].start, Nil)
    BY <2>1, <1>3, ChainIsReach
  <2>3. p \in Reach(next, anchors[stale].start, Nil)
    BY <2>2
  <2> QED BY <2>3 DEF Reach
<1>11. /\ next' \in [Slices -> Slices \cup {Nil}] /\ next'[e] = next[p]
       /\ \A t \in Slices : t # e => next'[t] = next[t]
  BY <1>1, <1>3, <1>9, <1>10
<1>12. PICK r : r = [users[u] EXCEPT !.at = "spliced", !.splicingPoint = p]
  OBVIOUS
<1>13. /\ r \in User /\ r.at = "spliced" /\ r.splicingPoint = p /\ r.fileno = stale /\ r.fresh = fresh
       /\ r.key = users[u].key /\ r.name = users[u].name
  <2>1. users[u] \in User /\ "spliced" \in Places
    BY <1>3 DEF Places
  <2>2. /\ r.at = "spliced" /\ r.splicingPoint = p /\ r.fileno = stale /\ r.fresh = fresh
        /\ r.key = users[u].key /\ r.name = users[u].name
    BY <2>1, <1>0, <1>12 DEF User
  <2>3. r \in User
    BY <2>1, <1>10, <1>12 DEF User
  <2> QED BY <2>2, <2>3
<1>14. users' = [users EXCEPT ![u] = r] /\ users'[u] = r /\ \A v \in Users : v # u => users'[v] = users[v]
  BY <1>1, <1>3, <1>12
<1>15. PICK b, a : b = (anchors[stale].partial /\ ~users[u].early) /\ a = [anchors[fresh] EXCEPT !.partial = b]
  OBVIOUS
<1>16. anchors' = [anchors EXCEPT ![fresh] = a]
  BY <1>2, <1>15
<1>17. /\ a \in Anchor /\ a.partial = b /\ a.start = anchors[fresh].start
       /\ a.splicingPoint = anchors[fresh].splicingPoint
       /\ a.waitingToBeFreed = anchors[fresh].waitingToBeFreed
  <2>1. anchors[fresh] \in Anchor /\ b \in BOOLEAN
    BY <1>3, <1>4, <1>15
  <2> QED BY <2>1, <1>15 DEF Anchor
<1>18. /\ anchors' \in [Filenos -> Anchor] /\ anchors'[fresh] = a
       /\ \A g \in Filenos : g # fresh => anchors'[g] = anchors[g]
  BY <1>3, <1>4, <1>16, <1>17
<1>19. \A g \in Filenos : /\ anchors'[g].start = anchors[g].start
                          /\ anchors'[g].splicingPoint = anchors[g].splicingPoint
                          /\ anchors[g].waitingToBeFreed => anchors'[g].waitingToBeFreed
  BY <1>17, <1>18
<1>20. TypeOK'
  <2>1. users' \in [Users -> User]
    BY <1>3, <1>13, <1>14
  <2> QED BY <2>1, <1>2, <1>3, <1>11, <1>18 DEF TypeOK
<1>21. Stop(stale)' = p
  <2>1. Splices(r, stale) /\ \A v \in Users : v # u => ~Splices(users[v], stale)
    BY <1>6, <1>13 DEF Splices, Updates, Closing, Updating, Filling
  <2>2. Splicers(stale)' = {u}
    BY <2>1, <1>14 DEF Splicers
  <2>3. Stop(stale)' = users'[u].splicingPoint
    BY <2>2 DEF Stop
  <2> QED BY <2>3, <1>13, <1>14
<1>22. ASSUME NEW g \in Filenos, g # stale PROVE Stop(g)' = Stop(g)
  <2>1. ~Splices(users[u], g) /\ ~Splices(r, g)
    BY <1>0, <1>13, <1>22 DEF Splices
  <2> QED BY <2>1, <1>3, <1>14, <1>19, StopKept
<1>23. Accounted(next', Starts', Stops', freeSlots')
  <2>1. PICK nx, st, sp, fr : nx = next /\ st = Starts /\ sp = Stops /\ fr = freeSlots
    OBVIOUS
  <2>2. PICK my, tp : my = next' /\ tp = Stops'
    OBVIOUS
  <2>3. Starts' = st
    BY <2>1, <1>19 DEF Starts
  <2>4. /\ nx \in [Slices -> Slices \cup {Nil}] /\ st \in [Filenos -> Slices \cup {Nil}]
        /\ Accounted(nx, st, sp, fr)
    BY <1>3, <2>1, AccountsBefore
  <2>5. /\ sp[stale] = Nil /\ sp[fresh] = Nil /\ st[stale] = anchors[stale].start /\ st[fresh] = anchors[fresh].start
    BY <1>4, <1>7, <1>8, <2>1 DEF Stops, Starts
  <2>6. tp[stale] = p /\ \A g \in Filenos : g # stale => tp[g] = sp[g]
    BY <1>4, <1>21, <1>22, <2>1, <2>2 DEF Stops
  <2>7. /\ p \in Reach(nx, st[stale], Nil) /\ e \in Reach(nx, st[fresh], Nil) /\ nx[e] = Nil /\ st[fresh] # Nil
        /\ my \in [Slices -> Slices \cup {Nil}] /\ my[e] = nx[p] /\ \A t \in Slices : t # e => my[t] = nx[t]
    BY <1>2, <1>9, <1>10, <1>11, <2>1, <2>2, <2>5
  <2>8. Accounted(my, st, tp, fr)
    BY <1>4, <2>4, <2>5, <2>6, <2>7, SpliceKeeps
  <2> QED BY <2>1, <2>2, <2>3, <2>8, <1>2
<1>24. Accounts'
  BY <1>20, <1>23, AccountsAfter
<1>25. Known(r)
  BY <1>0, <1>2, <1>3, <1>4, <1>10, <1>13 DEF Known, Closing, Updating, Filling
<1>26. Fits(anchors', r)
  <2>1. anchors'[r.fileno].splicingPoint = Nil
    BY <1>2, <1>4, <1>13, <1>19
  <2>2. b => anchors[stale].waitingToBeFreed
    <3>1. SUFFICES ASSUME b, InProgress(anchors[stale]) PROVE FALSE
      BY <1>15 DEF InProgress
    <3>2. PICK v \in Users : Tends(users[v], stale)
      BY <3>1, <1>4 DEF IInv, AnchorsSound
    <3>3. v # u
      BY <3>2, <1>0, <1>2, <1>4 DEF Tends, Writes, Hides
    <3>4. Opens(users[u], stale)
      BY <3>1, <1>0, <1>2, <1>15 DEF Opens, Filling
    <3>5. ~Hides(users[v], stale)
      BY <3>3, <3>4, <1>4, <1>6 DEF Excluded
    <3> QED BY <3>2, <3>3, <3>5, <1>6 DEF Tends
  <2>3. InProgress(anchors'[r.fresh]) => anchors'[r.fileno].waitingToBeFreed
    BY <2>2, <1>4, <1>13, <1>17, <1>18 DEF InProgress
  <2> QED BY <2>1, <2>3, <1>13 DEF Fits, Writes, Filling
<1>27. Admitted(u, r)
  <2> SUFFICES ASSUME NEW v \in Users, v # u PROVE Excluded(r, users[v]) /\ Excluded(users[v], r)
    BY DEF Admitted
  <2>1. \A f \in Filenos : /\ ~Writes(r, f) /\ ~Fills(r, f) /\ ~Opens(r, f)
                           /\ (Updates(r, f) => f = stale) /\ (Hides(r, f) => f = fresh)
                           /\ (Settles(r, f) => f = stale \/ f = fresh)
                           /\ (Reads(r, f) => f = stale \/ f = fresh)
    BY <1>13 DEF Writes, Fills, Opens, Hides, Settles, Updates, Reads, Closing, Updating, Filling
  <2>2. \A f \in Filenos : Fills(users[v], f) => f # stale /\ f # fresh
    <3>1. \A f \in Filenos : Fills(users[v], f) => Writes(users[v], f)
      BY DEF Writes, Fills
    <3> QED BY <3>1, <1>6
  <2>3. Excluded(r, users[v])
    BY <2>1, <2>2, <1>6 DEF Excluded
  <2>4. Excluded(users[v], r)
    BY <2>1, <1>6 DEF Excluded
  <2> QED BY <2>3, <2>4
<1>28. ASSUME NEW g \in Filenos PROVE Tolerated(u, g) /\ LeftSound(u, r, g)
  <2>1. anchors'[g].splicingPoint # Nil => anchors'[g].waitingToBeFreed
    BY <1>19 DEF IInv, AnchorsSound
  <2>2. CASE g = fresh
    <3>1. Tends(r, g)
      BY <2>2, <1>13 DEF Tends, Hides
    <3>2. Tolerated(u, g)
      BY <2>2, <1>6, <1>19 DEF Tolerated
    <3> QED BY <2>1, <3>1, <3>2 DEF LeftSound
  <2>3. CASE g # fresh
    <3>1. ~Tends(users[u], g)
      BY <2>3, <1>0, <1>2 DEF Tends, Hides, Writes, Filling
    <3> QED BY <2>1, <2>3, <3>1, <1>18 DEF Tolerated, LeftSound
  <2> QED BY <2>2, <2>3
<1>29. LocksExclude' /\ UsersFit' /\ AnchorsSound'
  BY <1>14, <1>25, <1>26, <1>27, <1>28, UsersAfter
<1> QED BY <1>20, <1>24, <1>29 DEF IInv, Accounts

----------------------------------------------------------------------------
(* The theorems *)

LEMMA InitInv == Init => IInv
<1> SUFFICES ASSUME Init PROVE IInv
  OBVIOUS
<1>1. EmptyAnchor \in Anchor /\ EmptyAnchor.start = Nil /\ EmptyAnchor.splicingPoint = Nil /\ ~EmptyAnchor.partial
  BY DEF EmptyAnchor, Anchor
<1>2. /\ \A f \in Filenos : anchors[f] = EmptyAnchor
      /\ \A u \in Users : users[u] = Idle
      /\ freeSlots = Slices /\ \A s \in Slices : next[s] = Nil
  BY DEF Init
<1>3. TypeOK
  BY <1>1, IdleUser DEF Init, TypeOK, Filenos
<1>4. Idle.at = "idle"
  BY DEF Idle
<1>5. LocksExclude
  BY <1>2, <1>4 DEF LocksExclude, Excluded, Writes, Updates, Reads, Settles, Fills, Opens, Hides, Closing, Updating, Filling
<1>6. UsersFit
  BY <1>2, IdleUser DEF UsersFit
<1>7. AnchorsSound
  BY <1>1, <1>2 DEF AnchorsSound, InProgress
<1>8. ASSUME NEW f \in Filenos PROVE Stop(f) = Nil /\ Owned(f) = {}
  <2>1. Splicers(f) = {}
    BY <1>2, <1>4 DEF Splicers, Splices, Closing, Updating, Filling
  <2>2. Stop(f) = Nil
    BY <2>1, <1>1, <1>2 DEF Stop
  <2>3. Owned(f) = Reach(next, Nil, Nil)
    BY <2>2, <1>1, <1>2, <1>3, OwnedIs
  <2>4. Reach(next, Nil, Nil) = {}
    <3>1. Linked({}, next, Nil, Nil)
      BY DEF Linked
    <3> QED BY <3>1 DEF Reach
  <2> QED BY <2>2, <2>3, <2>4
<1>9. SlicesAccounted
  <2> DEFINE X == {Owned(f) : f \in Filenos}
             U == UNION X
  <2>1. \A x \in X : x = {}
    BY <1>8
  <2>2. U = {}
    <3> HIDE DEF X
    <3> QED BY <2>1
  <2>3. U \cup freeSlots = Slices
    <3> HIDE DEF U
    <3> QED BY <2>2, <1>2
  <2>4. /\ \A f, g \in Filenos : f # g => Owned(f) \cap Owned(g) = {}
        /\ \A f \in Filenos : Owned(f) \cap freeSlots = {}
    BY <1>8
  <2> QED BY <2>3, <2>4, Zenon DEF SlicesAccounted
<1>10. ChainsEnd
  BY <1>1, <1>2 DEF ChainsEnd, Ends
<1>11. FreeSlicesUnlinked
  BY <1>2 DEF FreeSlicesUnlinked
<1> QED BY <1>3, <1>5, <1>6, <1>7, <1>9, <1>10, <1>11 DEF IInv

\* Nothing changes when no variable does.
LEMMA StutterInv == ASSUME IInv, UNCHANGED vars PROVE IInv'
<1>1. UNCHANGED <<fileNos, anchors, next, freeSlots, users>>
  BY DEF vars
<1>2. TypeOK'
  BY <1>1 DEF IInv, TypeOK
<1>3. LocksExclude' /\ UsersFit' /\ AnchorsSound'
  BY <1>1 DEF IInv, LocksExclude, UsersFit, AnchorsSound
<1>4. \A f \in Filenos : Stop(f)' = Stop(f)
  <2> SUFFICES ASSUME NEW f \in Filenos PROVE Stop(f)' = Stop(f)
    OBVIOUS
  <2>1. Splicers(f)' = Splicers(f) /\ users' = users /\ anchors' = anchors
    BY <1>1 DEF Splicers
  <2> QED BY <2>1 DEF Stop
<1>5. Accounts'
  BY <1>1, <1>2, <1>4, StopsKept DEF IInv, Accounts
<1> QED BY <1>2, <1>3, <1>5 DEF IInv, Accounts

LEMMA StepInv == IInv /\ [Next]_vars => IInv'
<1> SUFFICES ASSUME IInv, [Next]_vars PROVE IInv'
  OBVIOUS
<1>1. CASE UNCHANGED vars
  BY <1>1, StutterInv
<1>2. ASSUME NEW u \in Users, fileNoByKey(u) \/ lockShared(u) \/ openForWritingAt(u) PROVE IInv'
  BY <1>2, Lookup, LockShared, OpenForWriting
<1>3. ASSUME NEW u \in Users, GiveUp(u) \/ closeForReading(u) \/ abortUpdating(u) PROVE IInv'
  <2>1. /\ Leave(u) /\ UNCHANGED <<fileNos, anchors, next, freeSlots>>
        /\ users[u].at \in {"looking", "entered", "reading", "opened", "updating", "choosing"}
    BY <1>3 DEF GiveUp, closeForReading, abortUpdating
  <2> QED BY <2>1, LeaveQuietly
<1>4. ASSUME NEW u \in Users, countReader(u) \/ openForReadingAt(u) \/ abortClean(u) \/ spliceAgain(u) PROVE IInv'
  <2>1. PICK place : /\ UNCHANGED <<fileNos, anchors, next, freeSlots>>
                     /\ users' = [users EXCEPT ![u].at = place]
                     /\ \/ users[u].at = "entering" /\ place = "entered"
                        \/ users[u].at = "entered" /\ place = "reading"
                        \/ users[u].at = "halting" /\ place = "freeing"
                        \/ users[u].at = "filling" /\ place = "forking"
    BY <1>4 DEF countReader, openForReadingAt, abortClean, spliceAgain, MoveTo
  <2> QED BY <2>1, MoveQuietly
<1>5. ASSUME NEW u \in Users, copyToShm(u) \/ writeFreshHeaders(u) PROVE IInv'
  BY <1>5, AddStep
<1>6. ASSUME NEW u \in Users, closeForWriting(u) \/ abortWriting(u) \/ freeChain(u) \/ abortDirty(u) PROVE IInv'
  BY <1>6, CloseForWriting, AbortWriting, FreeAborted, AbortDirty
<1>7. ASSUME NEW u \in Users, freeEntry(u) \/ freeEntryByKey(u) \/ markEntryByKey(u) PROVE IInv'
  BY <1>7, FreeEntry, FreeByKey, MarkByKey
<1>8. ASSUME NEW u \in Users, compareKeyLocked(u) \/ compareKeyUnlocked(u) PROVE IInv'
  BY <1>8, CompareKey
<1>9. ASSUME NEW u \in Users, openStale(u) \/ lockHeaders(u) \/ chooseVictim(u) \/ openKeyless(u) \/ abortFresh(u)
      PROVE  IInv'
  BY <1>9, OpenStale, LockHeaders, ChooseVictim, OpenKeyless, FreeAborted
<1>10. ASSUME NEW u \in Users, splice(u) \/ propagateEarly(u) \/ relocateName(u) \/ propagateDeletion(u) PROVE IInv'
  BY <1>10, Splice, Propagate, RelocateName
<1>11. ASSUME NEW u \in Users, freeStale(u) \/ closeForUpdating(u) PROVE IInv'
  BY <1>11, FreeStale, CloseForUpdating
<1> QED BY <1>1, <1>2, <1>3, <1>4, <1>5, <1>6, <1>7, <1>8, <1>9, <1>10, <1>11 DEF Next

LEMMA AlwaysInv == Spec => []IInv
BY InitInv, StepInv, PTL DEF Spec

\* The anchors, the links, the free slices and what every user remembers keep
\* their types, whatever the users of StoreMap do.
THEOREM TypeCorrect == Spec => []TypeOK
<1>1. IInv => TypeOK
  BY DEF IInv
<1> QED BY <1>1, AlwaysInv, PTL

\* However writers, updaters, purgers and deleters interleave, every slice is
\* free or in the chain of exactly one anchor: freeChain() frees no slice that
\* another entry has, and none is leaked, also when a chain is spliced by
\* closeForUpdating().
THEOREM SlicesNeverLostOrShared == Spec => []SlicesAccounted
<1>1. IInv => SlicesAccounted
  BY DEF IInv
<1> QED BY <1>1, AlwaysInv, PTL

\* An entry that openForReadingAt() accepts and that nobody writes has been
\* written to its end, but for the moment between making an updated entry
\* readable and marking it: abortWriting() leaves no truncated entry to be
\* found, although readers may enter and updates may start while it aborts.
THEOREM TruncatedHidden == Spec => []TruncatedNotServed
<1>1. IInv => TruncatedNotServed
  <2> SUFFICES ASSUME IInv, NEW f \in Filenos, NEW k \in Keys,
                      Readable(f, k), Writers(f) = {}, ~Unsettled(f)
               PROVE  ~anchors[f].partial
    BY DEF TruncatedNotServed
  <2>1. \A u \in Users : ~Writes(users[u], f) /\ ~Hides(users[u], f)
    BY Unlocked DEF Hides, Unsettled
  <2>2. ~InProgress(anchors[f])
    BY <2>1 DEF IInv, AnchorsSound, Tends
  <2> QED BY <2>2 DEF Readable, InProgress
<1> QED BY <1>1, AlwaysInv, PTL

\* An entry that was marked for deletion before closeForUpdating() relocated
\* its name is still marked in its updated form.
THEOREM DeletionKept == Spec => []DeletionSurvivesUpdate
<1>1. IInv => DeletionSurvivesUpdate
  BY DEF IInv, UsersFit, Fits, DeletionSurvivesUpdate
<1> QED BY <1>1, AlwaysInv, PTL
=============================================================================
