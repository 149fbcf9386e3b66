-------------------------- MODULE PageStackProofs --------------------------
(***************************************************************************)
(* What holds of a PageStack of any capacity with any number of concurrent *)
(* clients, and of the tree that makeFullBeforeSharing() fills for it:     *)
(* proofs of the invariants of PageStack and IdSetFill.                    *)
(***************************************************************************)
EXTENDS PageStack, IdSetFill, Integers, Sequences, FiniteSets, Functions, FiniteSetTheorems, SequenceTheorems,
        WellFoundedInduction, TLAPS

----------------------------------------------------------------------------
(* Counting *)

\* Two sets that differ in at most one element have cardinalities that
\* differ accordingly: how a step of one process changes a count of
\* processes.
LEMMA OneElement ==
  ASSUME NEW S, NEW T, NEW e, IsFiniteSet(S), IsFiniteSet(T),
         \A x : x # e => (x \in S <=> x \in T)
  PROVE  /\ (e \in S <=> e \in T) => Cardinality(T) = Cardinality(S)
         /\ e \notin S /\ e \in T => Cardinality(T) = Cardinality(S) + 1
         /\ e \in S /\ e \notin T => Cardinality(T) = Cardinality(S) - 1
<1>1. ASSUME e \in S <=> e \in T PROVE Cardinality(T) = Cardinality(S)
  <2>1. S = T BY <1>1
  <2> QED BY <2>1
<1>2. ASSUME e \notin S, e \in T PROVE Cardinality(T) = Cardinality(S) + 1
  <2>1. T = S \cup {e} BY <1>2
  <2> QED BY <2>1, <1>2, FS_AddElement
<1>3. ASSUME e \in S, e \notin T PROVE Cardinality(T) = Cardinality(S) - 1
  <2>1. T = S \ {e} BY <1>3
  <2> QED BY <2>1, <1>3, FS_RemoveElement
<1> QED BY <1>1, <1>2, <1>3

\* A count is a natural number, and zero when there is nothing to count.
LEMMA ZeroIsEmpty ==
  ASSUME NEW S, IsFiniteSet(S)
  PROVE  Cardinality(S) \in Nat /\ (Cardinality(S) = 0 <=> S = {})
BY FS_CardinalityType, FS_EmptySet

\* Induction over the natural numbers, stated with a set instead of a
\* predicate: the least number outside the set would have a predecessor in it.
LEMMA NatSetInduction ==
  ASSUME NEW S, 0 \in S, \A n \in Nat : n \in S => n + 1 \in S
  PROVE  Nat \subseteq S
<1> SUFFICES ASSUME Nat \ S # {} PROVE FALSE
  OBVIOUS
<1>1. PICK x \in Nat \ S : \A y \in Nat \ S : ~ (<<y, x>> \in OpToRel(<, Nat))
  <2> DEFINE T == Nat \ S
  <2> HIDE DEF T
  <2>1. T \subseteq Nat /\ T # {}
    BY DEF T
  <2>2. \E x \in T : \A y \in T : ~ (<<y, x>> \in OpToRel(<, Nat))
    BY <2>1, NatLessThanWellFounded, WFMin
  <2> QED BY <2>2 DEF T
<1>2. \A y \in Nat \ S : ~ (y < x)
  BY <1>1 DEF OpToRel
<1>3. x # 0 /\ x - 1 \in Nat
  OBVIOUS
<1>4. x - 1 \in S
  BY <1>2, <1>3
<1>5. x - 1 + 1 \in S
  BY <1>3, <1>4
<1> QED BY <1>5

----------------------------------------------------------------------------
(* The inductive invariant *)

Positions == InnerPositions(Capacity) \cup LeafPositions(Capacity)
Below == Positions \ {Root}

\* The clients that move through the tree, and the counter that tells the
\* parent of a position about it.
Moving == {c \in Clients : pc[c] \in {"descending", "ascending"}}
MovingAt(p) == {c \in Clients : pc[c] \in {"descending", "ascending"} /\ at[c] = p}
Counter(p) == inner[ascend(p)][ascendDirection(p)]
Used(p) == HasIds(p) \/ p = Root

Promised(p) ==
  IF HasIds(p) THEN Counter(p) + Cardinality(MovingAt(p)) = IdsAt(p)
  ELSE Used(ascend(p)) => Counter(p) = 0
Promises == \A p \in Below : Promised(p)

\* What the root knows of is all that is free.
Balanced == Available(inner[Root]) + Cardinality(Moving) = Cardinality(FreePages)

Placed ==
  \A c \in Clients :
    /\ pc[c] \in {"idle", "pushing"} => at[c] = Root
    /\ pc[c] \in {"descending", "ascending"} => at[c] \in Below /\ HasIds(at[c])
    /\ pc[c] \in {"popped", "pushing"} => id[c] \in Ids \ owned[c]

\* Leaves have no other IDs than theirs.
LeavesFit == \A p \in LeafPositions(Capacity) : HasIds(p) => \A b \in leaf[p] : p[2] * BitsPerLeaf + b \in Ids

\* Every page is free or held by one client.
Held(c) == owned[c] \cup (IF pc[c] \in {"popped", "pushing"} THEN {id[c]} ELSE {})
PagesPlaced ==
  /\ \A page \in Ids : page \in FreePages \/ \E c \in Clients : page \in Held(c)
  /\ \A c \in Clients : Held(c) \cap FreePages = {}
  /\ \A c, d \in Clients : c # d => Held(c) \cap Held(d) = {}

SizeExact == size_ = Cardinality(FreePages \cup InTransit)

IInv == TypeOK /\ Promises /\ Balanced /\ Placed /\ LeavesFit /\ PagesPlaced /\ SizeExact

----------------------------------------------------------------------------
(* Powers of two: the provers can compute them, one by one *)

Doubles(k) == 2^k \in Nat \ {0} /\ 2^(k + 1) = 2 * 2^k

\* The powers of two that a tree needs.
LEMMA Powers == \A k \in 0..30 : Doubles(k)
<1>1. /\ Doubles(0) /\ Doubles(1) /\ Doubles(2) /\ Doubles(3) /\ Doubles(4) /\ Doubles(5)
      /\ Doubles(6) /\ Doubles(7) /\ Doubles(8) /\ Doubles(9) /\ Doubles(10) /\ Doubles(11)
      /\ Doubles(12) /\ Doubles(13) /\ Doubles(14) /\ Doubles(15) /\ Doubles(16) /\ Doubles(17)
      /\ Doubles(18) /\ Doubles(19) /\ Doubles(20) /\ Doubles(21) /\ Doubles(22) /\ Doubles(23)
      /\ Doubles(24) /\ Doubles(25) /\ Doubles(26) /\ Doubles(27) /\ Doubles(28) /\ Doubles(29)
      /\ Doubles(30)
  BY DEF Doubles
<1>2. \A k \in 0..30 :
        \/ k = 0 \/ k = 1 \/ k = 2 \/ k = 3 \/ k = 4 \/ k = 5
      \/ k = 6 \/ k = 7 \/ k = 8 \/ k = 9 \/ k = 10 \/ k = 11
      \/ k = 12 \/ k = 13 \/ k = 14 \/ k = 15 \/ k = 16 \/ k = 17
      \/ k = 18 \/ k = 19 \/ k = 20 \/ k = 21 \/ k = 22 \/ k = 23
      \/ k = 24 \/ k = 25 \/ k = 26 \/ k = 27 \/ k = 28 \/ k = 29
      \/ k = 30
  OBVIOUS
<1>3. ASSUME NEW k \in 0..30 PROVE Doubles(k)
  BY <1>1, <1>2
<1> QED BY <1>3

\* Powers of two are positive.
LEMMA PowersPositive == \A k \in 0..30 : 2^k \in Nat \ {0}
BY Powers DEF Doubles

\* The constructor finds a height, and a tree of that height has enough leaves.
LEMMA HeightFacts == Height \in 1..30 /\ 2^Height >= requestedLeafNodeCount(Capacity)
<1>1. PICK r : r = requestedLeafNodeCount(Capacity)
  OBVIOUS
<1>2. r \in Int
  BY <1>1, CapacityAssumption, BitsPerLeafAssumption DEF requestedLeafNodeCount
<1> DEFINE Enough == {l \in Nat : l \in 1..30 /\ 2^l >= r}
           Least(l) == l \in Enough /\ \A fewer \in 1..(l - 1) : fewer \notin Enough
<1>3. \E l \in 1..30 : Least(l)
  <2> SUFFICES ASSUME \A l \in 1..30 : ~Least(l) PROVE FALSE
    OBVIOUS
  <2> DEFINE S == {n \in Nat : \A l \in 1..n : l \notin Enough}
  <2>1. 0 \in S
    OBVIOUS
  <2>2. ASSUME NEW n \in Nat, n \in S PROVE n + 1 \in S
    <3>1. \A l \in 1..n : l \notin Enough
      BY <2>2
    <3>2. n + 1 \notin Enough
      <4>1. ASSUME n + 1 \in Enough PROVE FALSE
        <5>1. n + 1 \in 1..30 /\ (n + 1) - 1 = n
          BY <4>1
        <5>2. \A fewer \in 1..((n + 1) - 1) : fewer \notin Enough
          BY <3>1, <5>1
        <5> QED BY <4>1, <5>1, <5>2
      <4> QED BY <4>1
    <3>3. \A l \in 1..(n + 1) : l \in 1..n \/ l = n + 1
      OBVIOUS
    <3> HIDE DEF Enough
    <3> QED BY <3>1, <3>2, <3>3
  <2>3. Nat \subseteq S
    <3> HIDE DEF S
    <3> QED BY <2>1, <2>2, NatSetInduction
  <2>4. 30 \in Enough
    BY <1>1, CapacityAssumption
  <2>5. 30 \in S /\ 30 \in 1..30
    BY <2>3
  <2> HIDE DEF Enough
  <2> QED BY <2>4, <2>5
<1>4. \A l \in 1..30 : Least(l) <=> 2^l >= r /\ \A fewer \in 1..(l - 1) : 2^fewer < r
  <2> SUFFICES ASSUME NEW l \in 1..30 PROVE Least(l) <=> 2^l >= r /\ \A fewer \in 1..(l - 1) : 2^fewer < r
    OBVIOUS
  <2>1. \A fewer \in 1..(l - 1) : fewer \in 0..30 /\ fewer \in 1..30 /\ fewer \in Nat
    OBVIOUS
  <2>2. \A fewer \in 1..(l - 1) : 2^fewer \in Nat
    BY <2>1, PowersPositive
  <2>3. \A fewer \in 1..(l - 1) : fewer \notin Enough <=> 2^fewer < r
    BY <2>1, <2>2, <1>2
  <2> QED BY <2>3
<1>5. Height = CHOOSE l \in 1..30 : 2^l >= r /\ \A fewer \in 1..(l - 1) : 2^fewer < r
  BY <1>1 DEF Height, innerLevelCount
<1>6. \E l \in 1..30 : 2^l >= r /\ \A fewer \in 1..(l - 1) : 2^fewer < r
  BY <1>3, <1>4
<1>7. Height \in 1..30 /\ 2^Height >= r
  BY <1>5, <1>6
<1> QED BY <1>1, <1>7

----------------------------------------------------------------------------
(* The shape of the tree *)

\* A position has a level and an offset.
LEMMA PositionIs ==
  /\ \A p \in InnerPositions(Capacity) : p = <<p[1], p[2]>> /\ p[1] \in 0..(Height - 1) /\ p[2] \in 0..(2^p[1] - 1)
  /\ \A p \in LeafPositions(Capacity) : p = <<p[1], p[2]>> /\ p[1] = Height /\ p[2] \in 0..(2^Height - 1)
  /\ \A l \in 0..(Height - 1) : \A o \in 0..(2^l - 1) : <<l, o>> \in InnerPositions(Capacity)
  /\ \A o \in 0..(2^Height - 1) : <<Height, o>> \in LeafPositions(Capacity)
<1>1. LeafPositions(Capacity) = AtLevel(Height)
  BY DEF LeafPositions, Height
<1>2. \A p : p \in InnerPositions(Capacity) <=> \E l \in 0..(Height - 1) : p \in AtLevel(l)
  BY DEF InnerPositions, Height
<1>3. \A l, p : p \in AtLevel(l) <=> p = <<p[1], p[2]>> /\ p[1] = l /\ p[2] \in 0..(2^l - 1)
  BY DEF AtLevel
<1>4. \A l, o : o \in 0..(2^l - 1) => <<l, o>> \in AtLevel(l)
  BY DEF AtLevel
<1> QED BY <1>1, <1>2, <1>3, <1>4

\* The root is an inner position; the others are below it.
LEMMA RootIs ==
  /\ Root \in InnerPositions(Capacity) /\ Root[1] = 0
  /\ \A p \in Below : p = <<p[1], p[2]>> /\ p[1] \in 1..Height /\ p[2] \in 0..(2^p[1] - 1)
  /\ \A p \in Below : IF p[1] = Height THEN p \in LeafPositions(Capacity) ELSE p \in InnerPositions(Capacity)
  /\ \A p \in LeafPositions(Capacity) : p \in Below
<1>1. 2^0 = 1 /\ Height \in 1..30
  BY HeightFacts
<1>2. Root \in InnerPositions(Capacity) /\ Root[1] = 0 /\ Root[2] = 0
  <2>1. 0 \in 0..(Height - 1) /\ 0 \in 0..(2^0 - 1)
    BY <1>1
  <2> QED BY <2>1, PositionIs DEF Root
<1>3. ASSUME NEW p \in Positions, p # Root
      PROVE  /\ p = <<p[1], p[2]>> /\ p[1] \in 1..Height /\ p[2] \in 0..(2^p[1] - 1)
             /\ IF p[1] = Height THEN p \in LeafPositions(Capacity) ELSE p \in InnerPositions(Capacity)
  <2>1. CASE p \in LeafPositions(Capacity)
    BY <2>1, <1>1, PositionIs
  <2>2. CASE p \in InnerPositions(Capacity)
    <3>1. p = <<p[1], p[2]>> /\ p[1] \in 0..(Height - 1) /\ p[2] \in 0..(2^p[1] - 1)
      BY <2>2, PositionIs
    <3>2. p[1] # 0
      <4>1. ASSUME p[1] = 0 PROVE FALSE
        <5>1. p[2] \in 0..(2^0 - 1)
          BY <3>1, <4>1
        <5>2. p[2] = 0
          BY <5>1, <1>1
        <5> QED BY <3>1, <4>1, <5>2, <1>3 DEF Root
      <4> QED BY <4>1
    <3> QED BY <3>1, <3>2, <2>2, <1>1
  <2> QED BY <2>1, <2>2 DEF Positions
<1>4. \A p \in LeafPositions(Capacity) : p \in Below
  <2>1. \A p \in LeafPositions(Capacity) : p[1] # 0
    BY <1>1, PositionIs
  <2> QED BY <2>1, <1>2 DEF Below, Positions
<1> QED BY <1>2, <1>3, <1>4 DEF Below

\* Down and up again.
LEMMA Descending ==
  ASSUME NEW p \in InnerPositions(Capacity), NEW dir \in Directions
  PROVE  /\ descend(p, dir) \in Below /\ descend(p, dir)[1] = p[1] + 1
         /\ ascend(descend(p, dir)) = p /\ ascendDirection(descend(p, dir)) = dir
<1>1. PICK l, o, r : l = p[1] /\ o = p[2] /\ r = (IF dir = "dirRight" THEN 1 ELSE 0)
  OBVIOUS
<1>2. Height \in 1..30 /\ l \in 0..(Height - 1) /\ o \in 0..(2^l - 1) /\ p = <<l, o>> /\ r \in 0..1
  BY <1>1, PositionIs, HeightFacts
<1>3. 2^l \in Nat \ {0} /\ 2^(l + 1) = 2 * 2^l
  <2>1. l \in 0..30
    BY <1>2
  <2> QED BY <2>1, Powers DEF Doubles
<1>4. descend(p, dir) = <<l + 1, o * 2 + r>>
  BY <1>1 DEF descend
<1>5. o * 2 + r \in 0..(2^(l + 1) - 1) /\ (o * 2 + r) \div 2 = o /\ (o * 2 + r) % 2 = r
  <2>1. PICK w : w = 2^l
    OBVIOUS
  <2>2. w \in Nat \ {0} /\ o \in 0..(w - 1) /\ 2^(l + 1) = 2 * w
    BY <2>1, <1>2, <1>3
  <2>3. o * 2 + r \in 0..(2 * w - 1)
    BY <2>2, <1>2
  <2>4. (o * 2 + r) \div 2 = o /\ (o * 2 + r) % 2 = r
    BY <2>2, <1>2
  <2> QED BY <2>2, <2>3, <2>4
<1>6. <<l + 1, o * 2 + r>> \in Positions
  <2>1. CASE l + 1 = Height
    BY <2>1, <1>5, PositionIs DEF Positions
  <2>2. CASE l + 1 # Height
    <3>1. l + 1 \in 0..(Height - 1)
      BY <2>2, <1>2
    <3> QED BY <3>1, <1>5, PositionIs DEF Positions
  <2> QED BY <2>1, <2>2
<1>7. <<l + 1, o * 2 + r>> # Root
  BY <1>2 DEF Root
<1>8. ascend(<<l + 1, o * 2 + r>>) = p
  <2>1. (l + 1) - 1 = l
    BY <1>2
  <2> QED BY <2>1, <1>2, <1>5 DEF ascend
<1>9. ascendDirection(<<l + 1, o * 2 + r>>) = dir
  BY <1>1, <1>5 DEF ascendDirection, Directions
<1> QED BY <1>1, <1>4, <1>6, <1>7, <1>8, <1>9 DEF Below

\* Up and down again.
LEMMA Ascending ==
  ASSUME NEW p \in Below
  PROVE  /\ ascend(p) \in InnerPositions(Capacity) /\ ascendDirection(p) \in Directions
         /\ descend(ascend(p), ascendDirection(p)) = p /\ ascend(p)[1] = p[1] - 1
<1>1. PICK l, o : l = p[1] /\ o = p[2]
  OBVIOUS
<1>2. Height \in 1..30 /\ l \in 1..Height /\ o \in 0..(2^l - 1) /\ p = <<l, o>>
  BY <1>1, RootIs, HeightFacts
<1>3. 2^(l - 1) \in Nat \ {0} /\ 2^l = 2 * 2^(l - 1)
  <2>1. l - 1 \in 0..30 /\ (l - 1) + 1 = l
    BY <1>2
  <2> QED BY <2>1, Powers DEF Doubles
<1>4. PICK q, r, w : q = o \div 2 /\ r = o % 2 /\ w = 2^(l - 1)
  OBVIOUS
<1>5. q \in 0..(w - 1) /\ r \in 0..1 /\ q * 2 + r = o
  <2>1. w \in Nat \ {0} /\ o \in 0..(2 * w - 1)
    BY <1>2, <1>3, <1>4
  <2>2. q \in Nat /\ r \in 0..1 /\ q * 2 + r = o
    BY <2>1, <1>4
  <2> QED BY <2>1, <2>2
<1>6. ascend(p) = <<l - 1, q>> /\ l - 1 \in 0..(Height - 1)
  BY <1>1, <1>2, <1>4 DEF ascend
<1>7. <<l - 1, q>> \in InnerPositions(Capacity)
  BY <1>4, <1>5, <1>6, PositionIs
<1>8. ascendDirection(p) = IF r = 0 THEN "dirLeft" ELSE "dirRight"
  BY <1>1, <1>4 DEF ascendDirection
<1>9. descend(<<l - 1, q>>, ascendDirection(p)) = <<l, o>>
  <2>1. (l - 1) + 1 = l /\ (IF ascendDirection(p) = "dirRight" THEN 1 ELSE 0) = r
    BY <1>2, <1>5, <1>8
  <2> QED BY <2>1, <1>5 DEF descend
<1> QED BY <1>1, <1>2, <1>6, <1>7, <1>8, <1>9 DEF Directions

----------------------------------------------------------------------------
(* The IDs below a position *)

\* Division, with the facts that the provers need.
LEMMA Halves ==
  ASSUME NEW a \in Nat, NEW d \in Nat \ {0}
  PROVE  a \div d \in Nat /\ a \div (d * 2) = (a \div d) \div 2
OBVIOUS

\* There are as many IDs as the capacity says.
LEMMA IdsFinite == /\ IsFiniteSet(Ids) /\ Cardinality(Ids) = Capacity
                   /\ \A p : IdsBelow(Capacity, p) \subseteq Ids /\ IsFiniteSet(IdsBelow(Capacity, p))
<1>1. 0 \in Int /\ Capacity - 1 \in Int
  BY CapacityAssumption
<1>2. IsFiniteSet(Ids) /\ Cardinality(Ids) = Capacity
  <2>1. IsFiniteSet(0..(Capacity - 1)) /\ Cardinality(0..(Capacity - 1)) = IF 0 > Capacity - 1 THEN 0 ELSE (Capacity - 1) - 0 + 1
    BY <1>1, FS_Interval
  <2> QED BY <2>1, CapacityAssumption DEF Ids
<1>3. \A p : IdsBelow(Capacity, p) \subseteq Ids
  BY DEF IdsBelow, Ids
<1> QED BY <1>2, <1>3, FS_Subset

\* An inner position has the IDs of its children.
LEMMA IdsOfChildren ==
  ASSUME NEW p \in InnerPositions(Capacity)
  PROVE  LET L == IdsBelow(Capacity, descend(p, "dirLeft"))
             R == IdsBelow(Capacity, descend(p, "dirRight"))
         IN  IdsBelow(Capacity, p) = L \cup R /\ L \cap R = {}
<1>1. PICK l, o, d : l = p[1] /\ o = p[2] /\ d = BitsPerLeaf * 2^(Height - (l + 1))
  OBVIOUS
<1>2. Height \in 1..30 /\ l \in 0..(Height - 1) /\ o \in Nat
  <2>1. Height \in 1..30 /\ l \in 0..(Height - 1) /\ o \in 0..(2^l - 1)
    BY <1>1, PositionIs, HeightFacts
  <2>2. o \in Nat
    BY <2>1
  <2> QED BY <2>1, <2>2
<1>3. d \in Nat \ {0} /\ BitsPerLeaf * 2^(Height - l) = d * 2
  <2>1. Height - (l + 1) \in 0..30 /\ (Height - (l + 1)) + 1 = Height - l
    BY <1>2
  <2>2. PICK w : w = 2^(Height - (l + 1))
    OBVIOUS
  <2>3. w \in Nat \ {0} /\ 2^(Height - l) = 2 * w
    BY <2>1, <2>2, Powers DEF Doubles
  <2>4. PICK b : b = BitsPerLeaf
    OBVIOUS
  <2>5. b \in Nat \ {0} /\ b * w \in Nat \ {0} /\ b * (2 * w) = (b * w) * 2
    BY <2>3, <2>4, BitsPerLeafAssumption
  <2> QED BY <2>2, <2>3, <2>4, <2>5, <1>1
<1>4. \A i : i \in IdsBelow(Capacity, p) <=> i \in Ids /\ i \div (d * 2) = o
  BY <1>1, <1>3 DEF IdsBelow, Ids, Height
<1>5. \A dir \in Directions : \A i :
        i \in IdsBelow(Capacity, descend(p, dir)) <=> i \in Ids /\ i \div d = o * 2 + (IF dir = "dirRight" THEN 1 ELSE 0)
  <2>1. \A dir : descend(p, dir) = <<l + 1, o * 2 + (IF dir = "dirRight" THEN 1 ELSE 0)>>
    BY <1>1 DEF descend
  <2> QED BY <2>1, <1>1 DEF IdsBelow, Ids, Height
<1>6. \A i : i \in IdsBelow(Capacity, descend(p, "dirLeft")) <=> i \in Ids /\ i \div d = o * 2
  BY <1>2, <1>5 DEF Directions
<1>7. \A i : i \in IdsBelow(Capacity, descend(p, "dirRight")) <=> i \in Ids /\ i \div d = o * 2 + 1
  BY <1>2, <1>5 DEF Directions
<1>8. \A i \in Ids : i \div (d * 2) = o <=> i \div d = o * 2 \/ i \div d = o * 2 + 1
  <2> SUFFICES ASSUME NEW i \in Ids PROVE i \div (d * 2) = o <=> i \div d = o * 2 \/ i \div d = o * 2 + 1
    OBVIOUS
  <2>1. i \in Nat
    BY CapacityAssumption DEF Ids
  <2>2. PICK q : q = i \div d
    OBVIOUS
  <2>3. q \in Nat /\ i \div (d * 2) = q \div 2
    BY <2>1, <2>2, <1>3, Halves
  <2>4. q \div 2 = o <=> q = o * 2 \/ q = o * 2 + 1
    BY <2>3, <1>2
  <2> QED BY <2>2, <2>3, <2>4
<1>9. o * 2 # o * 2 + 1
  BY <1>2
<1> QED BY <1>4, <1>6, <1>7, <1>8, <1>9

\* A position with IDs below has a parent with IDs below.
LEMMA UsedUp ==
  ASSUME NEW p \in Below, HasIds(p)
  PROVE  HasIds(ascend(p))
<1>1. ascend(p) \in InnerPositions(Capacity) /\ ascendDirection(p) \in Directions
      /\ descend(ascend(p), ascendDirection(p)) = p
  BY Ascending
<1>2. IdsBelow(Capacity, p) \subseteq IdsBelow(Capacity, ascend(p))
  BY <1>1, IdsOfChildren DEF Directions
<1> QED BY <1>2 DEF HasIds

\* All IDs are below the root.
LEMMA IdsOfRoot == IdsBelow(Capacity, Root) = Ids
<1>1. PICK b, w, r : b = BitsPerLeaf /\ w = 2^Height /\ r = requestedLeafNodeCount(Capacity)
  OBVIOUS
<1>2. b \in Nat \ {0} /\ w \in Nat \ {0} /\ r <= w /\ Capacity \in Nat /\ r = (Capacity + (b - 1)) \div b
  <2>1. Height \in 0..30 /\ w >= r
    BY <1>1, HeightFacts
  <2>2. w \in Nat \ {0}
    BY <1>1, <2>1, PowersPositive
  <2>3. b \in Nat \ {0} /\ Capacity \in Nat /\ r = (Capacity + (b - 1)) \div b
    BY <1>1, CapacityAssumption, BitsPerLeafAssumption DEF requestedLeafNodeCount
  <2>4. r \in Int
    BY <2>3
  <2> QED BY <2>1, <2>2, <2>3, <2>4
<1>3. Capacity <= b * w
  <2>1. r \in Nat /\ Capacity + (b - 1) < b * (r + 1)
    BY <1>2
  <2>2. Capacity <= b * r
    BY <2>1, <1>2
  <2>3. b * r <= b * w
    BY <2>1, <1>2
  <2>4. b * r \in Nat /\ b * w \in Nat
    BY <2>1, <1>2
  <2> QED BY <2>2, <2>3, <2>4, <1>2
<1>4. b * w \in Nat \ {0}
  BY <1>2
<1>5. \A i \in Ids : i \div (b * w) = 0
  <2>1. PICK d : d = b * w
    OBVIOUS
  <2>2. d \in Nat \ {0} /\ Capacity <= d
    BY <2>1, <1>3, <1>4
  <2>3. \A i \in Ids : i \in Nat /\ i < d
    BY <2>2, <1>2 DEF Ids
  <2>4. \A i \in Nat : i < d => i \div d = 0
    BY <2>2
  <2> QED BY <2>1, <2>3, <2>4
<1>6. BitsPerLeaf * 2^(Height - 0) = b * w
  <2>1. Height - 0 = Height
    BY HeightFacts
  <2> QED BY <2>1, <1>1
<1> QED BY <1>5, <1>6 DEF IdsBelow, Root, Ids, Height

\* The leaf and the bit of an ID, and the other way around.
LEMMA LeafOfId ==
  ASSUME NEW i \in Ids
  PROVE  /\ leafOf(Capacity, i) \in LeafPositions(Capacity) /\ HasIds(leafOf(Capacity, i))
         /\ i \in IdsBelow(Capacity, leafOf(Capacity, i))
         /\ bitOf(i) \in Bits /\ i = leafOf(Capacity, i)[2] * BitsPerLeaf + bitOf(i)
<1>1. PICK b, w, q : b = BitsPerLeaf /\ w = 2^Height /\ q = i \div b
  OBVIOUS
<1>2. /\ b \in Nat \ {0} /\ w \in Nat \ {0} /\ Capacity \in Nat /\ i \in Nat /\ i < Capacity
      /\ (Capacity + (b - 1)) \div b <= w
  BY <1>1, HeightFacts, PowersPositive, CapacityAssumption, BitsPerLeafAssumption DEF requestedLeafNodeCount, Ids
<1>3. q \in Nat /\ i = q * b + (i % b) /\ i % b \in 0..(b - 1)
  BY <1>1, <1>2
<1>4. q < w
  <2>1. PICK r : r = (Capacity + (b - 1)) \div b
    OBVIOUS
  <2>2. r \in Nat /\ Capacity + (b - 1) < b * (r + 1) /\ r <= w
    BY <2>1, <1>2
  <2>3. Capacity <= b * r
    BY <2>2, <1>2
  <2>4. q * b < b * r
    BY <2>2, <2>3, <1>2, <1>3
  <2>5. q < r
    BY <2>2, <2>4, <1>2, <1>3
  <2> QED BY <2>2, <2>5, <1>2, <1>3
<1>5. leafOf(Capacity, i) = <<Height, q>>
  BY <1>1 DEF leafOf, Height
<1>6. leafOf(Capacity, i) \in LeafPositions(Capacity)
  <2>1. q \in 0..(2^Height - 1)
    BY <1>1, <1>2, <1>3, <1>4
  <2> QED BY <2>1, <1>5, PositionIs
<1>7. BitsPerLeaf * 2^(Height - Height) = b
  <2>1. Height - Height = 0
    BY HeightFacts
  <2>2. 2^(Height - Height) = 1
    <3>1. 2^(Height - Height) = 2^0
      BY <2>1
    <3>2. 2^0 = 1
      OBVIOUS
    <3> QED BY <3>1, <3>2
  <2>3. b * 1 = b
    BY <1>2
  <2> QED BY <2>2, <2>3, <1>1
<1>8. i \in IdsBelow(Capacity, leafOf(Capacity, i))
  BY <1>1, <1>5, <1>7 DEF IdsBelow, Ids, Height
<1> QED BY <1>1, <1>3, <1>5, <1>6, <1>8 DEF HasIds, bitOf, Bits

\* The ID of a bit of a leaf, as PopLeaf() computes it.
LEMMA IdOfLeaf ==
  ASSUME NEW p \in LeafPositions(Capacity), NEW b \in Bits
  PROVE  LET i == p[2] * BitsPerLeaf + b IN i \in Nat /\ leafOf(Capacity, i) = p /\ bitOf(i) = b
<1>1. PICK o, n : o = p[2] /\ n = BitsPerLeaf
  OBVIOUS
<1>2. p = <<Height, o>> /\ o \in Nat /\ n \in Nat \ {0} /\ b \in 0..(n - 1)
  <2>1. p = <<Height, o>> /\ o \in 0..(2^Height - 1)
    BY <1>1, PositionIs
  <2> QED BY <2>1, <1>1, BitsPerLeafAssumption DEF Bits
<1>3. o * n + b \in Nat /\ (o * n + b) \div n = o /\ (o * n + b) % n = b
  <2>1. o * n \in Nat
    BY <1>2
  <2>2. PICK i, q, r : i = o * n + b /\ q = i \div n /\ r = i % n
    OBVIOUS
  <2>3. i \in Nat /\ q \in Nat /\ r \in 0..(n - 1) /\ i = q * n + r
    BY <2>1, <2>2, <1>2
  <2>4. q = o
    <3>1. CASE q <= o - 1
      <4>1. q * n <= (o - 1) * n /\ (o - 1) * n = o * n - n
        BY <3>1, <2>3, <1>2
      <4>2. q * n \in Nat
        BY <2>3, <1>2
      <4> QED BY <4>1, <4>2, <2>1, <2>2, <2>3, <1>2
    <3>2. CASE q >= o + 1
      <4>1. q * n >= (o + 1) * n /\ (o + 1) * n = o * n + n
        BY <3>2, <2>3, <1>2
      <4>2. q * n \in Nat
        BY <2>3, <1>2
      <4> QED BY <4>1, <4>2, <2>1, <2>2, <2>3, <1>2
    <3> QED BY <3>1, <3>2, <2>3, <1>2
  <2>5. r = b
    BY <2>1, <2>2, <2>3, <2>4, <1>2
  <2> QED BY <2>2, <2>3, <2>4, <2>5
<1> QED BY <1>1, <1>2, <1>3 DEF leafOf, bitOf, Height

\* The IDs below a leaf are those of the leaf.
LEMMA IdsOfLeaf ==
  ASSUME NEW p \in LeafPositions(Capacity)
  PROVE  \A i : i \in IdsBelow(Capacity, p) <=> i \in Ids /\ leafOf(Capacity, i) = p
<1>1. p = <<Height, p[2]>> /\ p[1] = Height
  BY PositionIs
<1>2. 2^(Height - Height) = 1
  <2>1. 2^(Height - Height) = 2^0
    BY HeightFacts
  <2>2. 2^0 = 1
    OBVIOUS
  <2> QED BY <2>1, <2>2
<1>3. BitsPerLeaf * 2^(Height - Height) = BitsPerLeaf
  BY <1>2, BitsPerLeafAssumption
<1>4. \A i : i \in IdsBelow(Capacity, p) <=> i \in Ids /\ i \div BitsPerLeaf = p[2]
  BY <1>1, <1>3 DEF IdsBelow, Ids, Height
<1>5. \A i : leafOf(Capacity, i) = <<Height, i \div BitsPerLeaf>>
  BY DEF leafOf, Height
<1>6. \A i : i \div BitsPerLeaf = p[2] <=> <<Height, i \div BitsPerLeaf>> = <<Height, p[2]>>
  OBVIOUS
<1> QED BY <1>1, <1>4, <1>5, <1>6

\* A full leaf has as many bits as there are IDs below it.
LEMMA FullLeafSize ==
  ASSUME NEW p \in LeafPositions(Capacity)
  PROVE  /\ FullLeaf(Capacity, p) \subseteq Bits
         /\ Cardinality(FullLeaf(Capacity, p)) = Cardinality(IdsBelow(Capacity, p))
         /\ \A b \in FullLeaf(Capacity, p) : p[2] * BitsPerLeaf + b \in Ids
         /\ \A i \in IdsBelow(Capacity, p) : bitOf(i) \in FullLeaf(Capacity, p)
<1> DEFINE S == IdsBelow(Capacity, p)
           T == FullLeaf(Capacity, p)
           f == [i \in S |-> bitOf(i)]
<1>1. \A i \in S : i \in Ids /\ leafOf(Capacity, i) = p /\ bitOf(i) \in Bits /\ i = p[2] * BitsPerLeaf + bitOf(i)
  BY IdsOfLeaf, LeafOfId
<1>2. \A b : b \in T <=> \E i \in S : b = bitOf(i)
  BY DEF FullLeaf
<1>3. IsFiniteSet(S)
  BY IdsFinite
<1> HIDE DEF S, T
<1>4. f \in [S -> T] /\ (\A i, j \in S : f[i] = f[j] => i = j) /\ (\A b \in T : \E i \in S : f[i] = b)
  BY <1>1, <1>2
<1>5. f \in Bijection(S, T)
  BY <1>4 DEF Bijection, Injection, Surjection, IsInjective
<1>6. Cardinality(T) = Cardinality(S)
  <2>1. ExistsBijection(S, T)
    BY <1>5 DEF ExistsBijection
  <2> QED BY <2>1, <1>3, FS_Bijection
<1> QED BY <1>1, <1>2, <1>6 DEF S, T

----------------------------------------------------------------------------
(* Counts *)

\* What is counted is finite.
LEMMA CountsFinite ==
  /\ IsFiniteSet(Moving) /\ Cardinality(Moving) \in Nat
  /\ \A p : IsFiniteSet(MovingAt(p)) /\ Cardinality(MovingAt(p)) \in Nat
  /\ IsFiniteSet(FreePages) /\ Cardinality(FreePages) \in Nat
<1>1. Moving \subseteq Clients /\ \A p : MovingAt(p) \subseteq Clients
  BY DEF Moving, MovingAt
<1>2. FreePages \subseteq Ids
  BY DEF FreePages
<1>3. IsFiniteSet(Moving) /\ IsFiniteSet(FreePages)
  BY <1>1, <1>2, ClientsAssumption, IdsFinite, FS_Subset
<1>4. \A p : IsFiniteSet(MovingAt(p))
  BY <1>1, ClientsAssumption, FS_Subset
<1> QED BY <1>3, <1>4, FS_CardinalityType

\* The counters of the nodes and the contents of the leaves.
LEMMA NodeTypes ==
  ASSUME TypeOK
  PROVE  /\ \A p \in InnerPositions(Capacity) :
              /\ inner[p] \in [Directions -> Nat] /\ Available(inner[p]) \in Nat
              /\ inner[p]["dirLeft"] \in Nat /\ inner[p]["dirRight"] \in Nat
         /\ \A p \in LeafPositions(Capacity) : leaf[p] \subseteq Bits /\ IsFiniteSet(leaf[p]) /\ Cardinality(leaf[p]) \in Nat
         /\ \A p \in Below : Counter(p) \in Nat /\ IdsAt(p) \in Nat
<1>1. IsFiniteSet(Bits)
  <2>1. 0 \in Int /\ BitsPerLeaf - 1 \in Int
    BY BitsPerLeafAssumption
  <2> QED BY <2>1, FS_Interval DEF Bits
<1>2. \A p \in InnerPositions(Capacity) : inner[p] \in [Directions -> Nat]
  BY DEF TypeOK
<1>3. \A p \in InnerPositions(Capacity) : inner[p]["dirLeft"] \in Nat /\ inner[p]["dirRight"] \in Nat
  BY <1>2 DEF Directions
<1>4. \A p \in InnerPositions(Capacity) : Available(inner[p]) \in Nat
  BY <1>3 DEF Available
<1>5. \A p \in LeafPositions(Capacity) : leaf[p] \subseteq Bits
  BY DEF TypeOK
<1>6. \A p \in LeafPositions(Capacity) : IsFiniteSet(leaf[p]) /\ Cardinality(leaf[p]) \in Nat
  BY <1>1, <1>5, FS_Subset, FS_CardinalityType
<1>7. \A p \in Below : Counter(p) \in Nat
  BY <1>2, Ascending DEF Counter
<1>8. \A p \in Below : IdsAt(p) \in Nat
  BY <1>4, <1>6, RootIs DEF IdsAt
<1> QED BY <1>2, <1>3, <1>4, <1>5, <1>6, <1>7, <1>8

\* A leaf that has an ID has a lowest one.
LEMMA LowestBitIn ==
  ASSUME NEW s \in SUBSET Bits, s # {}
  PROVE  LowestBit(s) \in s
<1>1. s \subseteq Nat
  BY DEF Bits
<1>2. \E b \in s : \A other \in s : b <= other
  <2> SUFFICES ASSUME \A b \in s : \E other \in s : ~(b <= other) PROVE FALSE
    OBVIOUS
  <2> DEFINE N == {n \in Nat : \A m \in 0..n : m \notin s}
  <2>1. 0 \in N
    BY <1>1
  <2>2. ASSUME NEW n \in Nat, n \in N PROVE n + 1 \in N
    <3>1. n + 1 \notin s
      <4>1. ASSUME n + 1 \in s PROVE FALSE
        <5>1. PICK other \in s : ~(n + 1 <= other)
          BY <4>1
        <5>2. other \in 0..n
          BY <5>1, <1>1
        <5> QED BY <5>1, <5>2, <2>2
      <4> QED BY <4>1
    <3>2. \A m \in 0..(n + 1) : m \in 0..n \/ m = n + 1
      OBVIOUS
    <3> QED BY <2>2, <3>1, <3>2
  <2>3. Nat \subseteq N
    <3> HIDE DEF N
    <3> QED BY <2>1, <2>2, NatSetInduction
  <2>4. PICK b : b \in s
    OBVIOUS
  <2>5. b \in N /\ b \in 0..b
    BY <2>3, <2>4, <1>1
  <2> QED BY <2>4, <2>5
<1> QED BY <1>2 DEF LowestBit

----------------------------------------------------------------------------
(* Steps that move a client from one inner node to another *)

InHand == {"popped", "pushing"}

\* They leave the pages where they are.
LEMMA SamePages ==
  ASSUME LeavesFit, PagesPlaced, SizeExact, UNCHANGED <<leaf, size_, owned>>,
         \A d \in Clients : pc'[d] \in InHand <=> pc[d] \in InHand,
         \A d \in Clients : pc[d] \in InHand => id'[d] = id[d]
  PROVE  LeavesFit' /\ PagesPlaced' /\ SizeExact' /\ FreePages' = FreePages
<1>1. FreePages' = FreePages
  BY DEF FreePages
<1>2. \A d \in Clients : Held(d)' = Held(d)
  BY DEF Held, InHand
<1>3. InTransit' = InTransit
  <2>1. \A x : x \in InTransit <=> \E d \in Clients : pc[d] \in InHand /\ x = id[d]
    BY DEF InTransit, InHand
  <2>2. \A x : x \in InTransit' <=> \E d \in Clients : pc'[d] \in InHand /\ x = id'[d]
    BY DEF InTransit, InHand
  <2> QED BY <2>1, <2>2
<1>4. LeavesFit'
  BY DEF LeavesFit
<1>5. PagesPlaced'
  <2>1. \A page \in Ids : page \in FreePages \/ \E d \in Clients : page \in Held(d)
    BY DEF PagesPlaced
  <2>2. \A d \in Clients : Held(d) \cap FreePages = {}
    BY DEF PagesPlaced
  <2>3. \A d, e \in Clients : d # e => Held(d) \cap Held(e) = {}
    BY DEF PagesPlaced
  <2>4. \A page \in Ids : page \in FreePages' \/ \E d \in Clients : page \in Held(d)'
    BY <2>1, <1>1, <1>2
  <2>5. \A d \in Clients : Held(d)' \cap FreePages' = {}
    BY <2>2, <1>1, <1>2
  <2>6. \A d, e \in Clients : d # e => Held(d)' \cap Held(e)' = {}
    BY <2>3, <1>2
  <2> QED BY <2>4, <2>5, <2>6 DEF PagesPlaced
<1>6. SizeExact'
  BY <1>1, <1>3 DEF SizeExact
<1> QED BY <1>1, <1>4, <1>5, <1>6

\* A client that pops is at a node with IDs below, one of whose subtrees has
\* an ID for it.
LEMMA PopInnerFinds ==
  ASSUME IInv, NEW c \in Clients, PopInner(c)
  PROVE  LET pos == at[c]
             dir == innerPop(inner[pos])
             child == descend(pos, dir)
         IN  /\ pos \in InnerPositions(Capacity) /\ dir \in Directions /\ inner[pos][dir] \in Nat \ {0}
             /\ child \in Below /\ HasIds(child) /\ ascend(child) = pos /\ ascendDirection(child) = dir
             /\ child # pos
             /\ pc[c] = "idle" => pos = Root
             /\ pc[c] = "descending" => pos \in Below /\ HasIds(pos)
<1> DEFINE pos == at[c]
           dir == innerPop(inner[pos])
           child == descend(pos, dir)
<1>1. TypeOK /\ Promises /\ Placed
  BY DEF IInv
<1>2. pc[c] \in {"idle", "descending"} /\ pos[1] < Height /\ Available(inner[pos]) > 0
  BY DEF PopInner
<1>3. /\ pc[c] = "idle" => pos = Root
      /\ pc[c] = "descending" => pos \in Below /\ HasIds(pos)
  BY <1>1 DEF Placed
<1>4. pos \in InnerPositions(Capacity)
  <2>1. CASE pc[c] = "idle"
    BY <2>1, <1>3, RootIs
  <2>2. CASE pc[c] = "descending"
    <3>1. pos[1] # Height
      BY <1>2, HeightFacts, RootIs, <1>3, <2>2
    <3> QED BY <3>1, <1>3, <2>2, RootIs
  <2> QED BY <2>1, <2>2, <1>2
<1>5. dir \in Directions /\ inner[pos][dir] \in Nat \ {0}
  <2>1. PICK l, r : l = inner[pos]["dirLeft"] /\ r = inner[pos]["dirRight"]
    OBVIOUS
  <2>2. l \in Nat /\ r \in Nat /\ l + r > 0
    BY <2>1, <1>1, <1>2, <1>4, NodeTypes DEF Available
  <2>3. dir = IF l > 0 THEN "dirLeft" ELSE "dirRight"
    BY <2>1 DEF innerPop
  <2> QED BY <2>1, <2>2, <2>3 DEF Directions
<1>6. /\ child \in Below /\ ascend(child) = pos /\ ascendDirection(child) = dir
      /\ child[1] = pos[1] + 1
  BY <1>4, <1>5, Descending
<1>7. child # pos
  <2>1. pos[1] \in Int
    BY <1>4, PositionIs, HeightFacts
  <2> QED BY <2>1, <1>6
<1>8. HasIds(child)
  <2>1. ASSUME ~HasIds(child) PROVE FALSE
    <3>1. Promised(child)
      BY <1>1, <1>6 DEF Promises
    <3>2. Used(pos)
      BY <1>2, <1>3 DEF Used
    <3>3. Counter(child) = 0
      BY <3>1, <3>2, <2>1, <1>6 DEF Promised
    <3>4. Counter(child) = inner[pos][dir]
      BY <1>6 DEF Counter
    <3> QED BY <3>3, <3>4, <1>5
  <2> QED BY <2>1
<1> QED BY <1>3, <1>4, <1>5, <1>6, <1>7, <1>8

\* innerPop() and descend() of IdSet::pop().
LEMMA PopInnerStep ==
  ASSUME IInv, NEW c \in Clients, PopInner(c)
  PROVE  IInv'
<1>1. PICK pos, dir, child : pos = at[c] /\ dir = innerPop(inner[pos]) /\ child = descend(pos, dir)
  OBVIOUS
<1>2. /\ pos \in InnerPositions(Capacity) /\ dir \in Directions /\ inner[pos][dir] \in Nat \ {0}
      /\ child \in Below /\ HasIds(child) /\ ascend(child) = pos /\ ascendDirection(child) = dir
      /\ child # pos
      /\ pc[c] = "idle" => pos = Root
      /\ pc[c] = "descending" => pos \in Below /\ HasIds(pos)
  BY <1>1, PopInnerFinds
<1>3. TypeOK /\ Promises /\ Balanced /\ Placed /\ LeavesFit /\ PagesPlaced /\ SizeExact
  BY DEF IInv
<1>4. /\ pc[c] \in {"idle", "descending"}
      /\ inner' = [inner EXCEPT ![pos][dir] = @ - 1]
      /\ at' = [at EXCEPT ![c] = child]
      /\ pc' = [pc EXCEPT ![c] = "descending"]
      /\ UNCHANGED <<leaf, size_, id, owned>>
  BY <1>1 DEF PopInner
<1>5. /\ inner \in [InnerPositions(Capacity) -> [Directions -> Nat]]
      /\ at \in [Clients -> Positions] /\ pc \in [Clients -> Steps]
  BY <1>3 DEF TypeOK, Positions
<1>6. /\ \A p \in InnerPositions(Capacity), e \in Directions :
           inner'[p][e] = IF p = pos /\ e = dir THEN inner[p][e] - 1 ELSE inner[p][e]
      /\ \A p \in InnerPositions(Capacity) : p # pos => inner'[p] = inner[p]
      /\ at'[c] = child /\ pc'[c] = "descending"
      /\ \A d \in Clients : d # c => at'[d] = at[d] /\ pc'[d] = pc[d]
  BY <1>2, <1>4, <1>5
<1>7. TypeOK'
  <2>1. inner' \in [InnerPositions(Capacity) -> [Directions -> Nat]]
    <3>1. [inner[pos] EXCEPT ![dir] = inner[pos][dir] - 1] \in [Directions -> Nat]
      BY <1>2, <1>5
    <3> QED BY <3>1, <1>2, <1>4, <1>5
  <2>2. at' \in [Clients -> Positions] /\ pc' \in [Clients -> Steps]
    BY <1>2, <1>4, <1>5 DEF Below, Steps
  <2> QED BY <2>1, <2>2, <1>3, <1>4 DEF TypeOK, Positions
<1>8. Promises'
  <2> SUFFICES ASSUME NEW p \in Below PROVE Promised(p)'
    BY DEF Promises
  <2>1. Promised(p)
    BY <1>3 DEF Promises
  <2>2. ascend(p) \in InnerPositions(Capacity) /\ ascendDirection(p) \in Directions
        /\ descend(ascend(p), ascendDirection(p)) = p
    BY Ascending
  <2>3. Counter(p)' = IF p = child THEN Counter(p) - 1 ELSE Counter(p)
    BY <1>1, <1>2, <1>6, <2>2 DEF Counter
  <2>4. IdsAt(p)' = IF p = pos THEN IdsAt(p) - 1 ELSE IdsAt(p)
    <3>1. CASE p[1] = Height
      <4>1. p \in LeafPositions(Capacity)
        BY <3>1, RootIs
      <4>2. p # pos
        BY <3>1, <1>2, PositionIs, HeightFacts
      <4> QED BY <3>1, <4>2, <1>4 DEF IdsAt
    <3>2. CASE p[1] # Height
      <4>1. p \in InnerPositions(Capacity)
        BY <3>2, RootIs
      <4>2. CASE p = pos
        <5>1. PICK l, r, m, n : l = inner[p]["dirLeft"] /\ r = inner[p]["dirRight"]
                              /\ m = inner'[p]["dirLeft"] /\ n = inner'[p]["dirRight"]
          OBVIOUS
        <5>2. l \in Nat /\ r \in Nat
          BY <5>1, <1>3, <4>1, NodeTypes
        <5>3. (m = l - 1 /\ n = r) \/ (m = l /\ n = r - 1)
          BY <5>1, <4>1, <4>2, <1>2, <1>6 DEF Directions
        <5>4. m + n = (l + r) - 1
          BY <5>2, <5>3
        <5> QED BY <5>1, <5>4, <3>2, <4>2 DEF IdsAt, Available
      <4>3. CASE p # pos
        BY <4>1, <4>3, <3>2, <1>6 DEF IdsAt
      <4> QED BY <4>2, <4>3
    <3> QED BY <3>1, <3>2
  <2>5. MovingAt(p) \subseteq Clients /\ MovingAt(p)' \subseteq Clients
    BY DEF MovingAt
  <2>6. IsFiniteSet(MovingAt(p)) /\ IsFiniteSet(MovingAt(p)')
    BY <2>5, ClientsAssumption, FS_Subset
  <2>7. \A d : d # c => (d \in MovingAt(p) <=> d \in MovingAt(p)')
    BY <1>6 DEF MovingAt
  <2>8. /\ c \in MovingAt(p) <=> pc[c] = "descending" /\ p = pos
        /\ c \in MovingAt(p)' <=> p = child
    BY <1>1, <1>4, <1>6 DEF MovingAt
  <2>9. PICK k, m, n : k = Counter(p) /\ m = Cardinality(MovingAt(p)) /\ n = IdsAt(p)
    OBVIOUS
  <2>10. k \in Nat /\ m \in Nat /\ n \in Nat
    BY <2>9, <1>3, NodeTypes, CountsFinite
  <2>11. CASE p = child
    <3>1. Cardinality(MovingAt(p)') = m + 1
      BY <2>6, <2>7, <2>8, <2>9, <2>11, <1>2, OneElement
    <3>2. k + m = n
      BY <2>1, <2>9, <2>11, <1>2 DEF Promised
    <3>3. Counter(p)' = k - 1 /\ IdsAt(p)' = n
      BY <2>3, <2>4, <2>9, <2>11, <1>2
    <3>4. (k - 1) + (m + 1) = n
      BY <3>2, <2>10
    <3> QED BY <3>1, <3>3, <3>4, <2>11, <1>2 DEF Promised, HasIds
  <2>12. CASE p = pos
    <3>0. pc[c] = "descending" /\ HasIds(p) /\ p # child
      BY <2>12, <1>2, <1>4 DEF Below
    <3>1. Cardinality(MovingAt(p)') = m - 1
      BY <2>6, <2>7, <2>8, <2>9, <2>12, <3>0, OneElement
    <3>2. k + m = n
      BY <2>1, <2>9, <3>0 DEF Promised
    <3>3. Counter(p)' = k /\ IdsAt(p)' = n - 1
      BY <2>3, <2>4, <2>9, <2>12, <3>0
    <3>4. k + (m - 1) = n - 1
      BY <3>2, <2>10
    <3> QED BY <3>0, <3>1, <3>3, <3>4 DEF Promised, HasIds
  <2>13. CASE p # child /\ p # pos
    <3>1. Cardinality(MovingAt(p)') = m
      BY <2>6, <2>7, <2>8, <2>9, <2>13, OneElement
    <3>2. Counter(p)' = k /\ IdsAt(p)' = n
      BY <2>3, <2>4, <2>9, <2>13
    <3>3. IF HasIds(p) THEN k + m = n ELSE Used(ascend(p)) => k = 0
      BY <2>1, <2>9 DEF Promised
    <3> QED BY <3>1, <3>2, <3>3 DEF Promised, HasIds, Used
  <2> QED BY <2>11, <2>12, <2>13
<1>9. \A d \in Clients : (pc'[d] \in InHand <=> pc[d] \in InHand) /\ (pc[d] \in InHand => id'[d] = id[d])
  BY <1>4, <1>6 DEF InHand
<1>10. LeavesFit' /\ PagesPlaced' /\ SizeExact' /\ FreePages' = FreePages
  BY <1>3, <1>4, <1>9, SamePages
<1>11. Placed'
  <2> SUFFICES ASSUME NEW d \in Clients
               PROVE  /\ pc'[d] \in {"idle", "pushing"} => at'[d] = Root
                      /\ pc'[d] \in {"descending", "ascending"} => at'[d] \in Below /\ HasIds(at'[d])
                      /\ pc'[d] \in {"popped", "pushing"} => id'[d] \in Ids \ owned'[d]
    BY DEF Placed, HasIds
  <2>1. CASE d = c
    BY <2>1, <1>2, <1>6
  <2>2. CASE d # c
    BY <2>2, <1>3, <1>4, <1>6 DEF Placed
  <2> QED BY <2>1, <2>2
<1>12. Balanced'
  <2>1. Moving \subseteq Clients /\ Moving' \subseteq Clients
    BY DEF Moving
  <2>2. IsFiniteSet(Moving) /\ IsFiniteSet(Moving')
    BY <2>1, ClientsAssumption, FS_Subset
  <2>3. \A d : d # c => (d \in Moving <=> d \in Moving')
    BY <1>6 DEF Moving
  <2>4. c \in Moving' /\ (c \in Moving <=> pc[c] = "descending")
    BY <1>4, <1>6 DEF Moving
  <2>5. PICK l, r, m, n : l = inner[Root]["dirLeft"] /\ r = inner[Root]["dirRight"]
                        /\ m = Cardinality(Moving) /\ n = Cardinality(FreePages)
    OBVIOUS
  <2>6. l \in Nat /\ r \in Nat /\ m \in Nat /\ n \in Nat /\ (l + r) + m = n
    BY <2>5, <1>3, RootIs, NodeTypes, CountsFinite DEF Balanced, Available
  <2>7. CASE pc[c] = "idle"
    <3>1. pos = Root
      BY <2>7, <1>2
    <3>2. PICK j, k : j = inner'[Root]["dirLeft"] /\ k = inner'[Root]["dirRight"]
      OBVIOUS
    <3>3. (j = l - 1 /\ k = r) \/ (j = l /\ k = r - 1)
      BY <3>1, <3>2, <2>5, <1>2, <1>6 DEF Directions
    <3>4. (j + k) + (m + 1) = n
      BY <3>3, <2>6
    <3>5. Cardinality(Moving') = m + 1
      <4>1. c \notin Moving
        BY <2>4, <2>7
      <4> QED BY <4>1, <2>2, <2>3, <2>4, <2>5, OneElement
    <3> QED BY <3>2, <3>4, <3>5, <2>5, <1>10 DEF Balanced, Available
  <2>8. CASE pc[c] = "descending"
    <3>1. pos # Root
      BY <2>8, <1>2 DEF Below
    <3>2. inner'[Root] = inner[Root]
      BY <3>1, <1>6, RootIs
    <3>3. Cardinality(Moving') = m
      BY <2>2, <2>3, <2>4, <2>5, <2>8, OneElement
    <3> QED BY <3>2, <3>3, <2>5, <1>3, <1>10 DEF Balanced
  <2> QED BY <2>7, <2>8, <1>4
<1> QED BY <1>7, <1>8, <1>10, <1>11, <1>12 DEF IInv

\* ascend() and innerPush() of IdSet::push().
LEMMA PushInnerStep ==
  ASSUME IInv, NEW c \in Clients, PushInner(c)
  PROVE  IInv'
<1>1. PICK child, pos, dir : child = at[c] /\ pos = ascend(child) /\ dir = ascendDirection(child)
  OBVIOUS
<1>3. TypeOK /\ Promises /\ Balanced /\ Placed /\ LeavesFit /\ PagesPlaced /\ SizeExact
  BY DEF IInv
<1>4. /\ pc[c] = "ascending"
      /\ inner' = [inner EXCEPT ![pos][dir] = @ + 1]
      /\ at' = [at EXCEPT ![c] = pos]
      /\ pc' = [pc EXCEPT ![c] = IF pos = Root THEN "idle" ELSE "ascending"]
      /\ id' = [id EXCEPT ![c] = IF pos = Root THEN 0 ELSE @]
      /\ UNCHANGED <<leaf, size_, owned>>
  BY <1>1 DEF PushInner
<1>2. /\ child \in Below /\ HasIds(child) /\ pos \in InnerPositions(Capacity) /\ dir \in Directions
      /\ descend(pos, dir) = child /\ HasIds(pos) /\ pos # child
      /\ pos # Root => pos \in Below
  <2>1. child \in Below /\ HasIds(child)
    BY <1>1, <1>3, <1>4 DEF Placed
  <2>2. pos \in InnerPositions(Capacity) /\ dir \in Directions /\ descend(pos, dir) = child /\ HasIds(pos)
    BY <2>1, <1>1, Ascending, UsedUp
  <2>3. pos # child
    <3>1. child[1] = pos[1] + 1 /\ pos[1] \in Int
      BY <2>2, Descending, PositionIs, HeightFacts
    <3> QED BY <3>1
  <2> QED BY <2>1, <2>2, <2>3 DEF Below, Positions
<1>5. /\ inner \in [InnerPositions(Capacity) -> [Directions -> Nat]]
      /\ at \in [Clients -> Positions] /\ pc \in [Clients -> Steps] /\ id \in [Clients -> Nat]
  BY <1>3 DEF TypeOK, Positions
<1>6. /\ \A p \in InnerPositions(Capacity), e \in Directions :
           inner'[p][e] = IF p = pos /\ e = dir THEN inner[p][e] + 1 ELSE inner[p][e]
      /\ \A p \in InnerPositions(Capacity) : p # pos => inner'[p] = inner[p]
      /\ at'[c] = pos /\ pc'[c] = (IF pos = Root THEN "idle" ELSE "ascending")
      /\ \A d \in Clients : d # c => at'[d] = at[d] /\ pc'[d] = pc[d] /\ id'[d] = id[d]
  BY <1>2, <1>4, <1>5
<1>7. TypeOK'
  <2>1. inner' \in [InnerPositions(Capacity) -> [Directions -> Nat]]
    <3>1. [inner[pos] EXCEPT ![dir] = inner[pos][dir] + 1] \in [Directions -> Nat]
      BY <1>2, <1>5
    <3> QED BY <3>1, <1>2, <1>4, <1>5
  <2>2. pos \in Positions
    BY <1>2 DEF Positions
  <2>3. at' \in [Clients -> Positions] /\ pc' \in [Clients -> Steps] /\ id' \in [Clients -> Nat]
    BY <1>4, <1>5, <2>2 DEF Steps
  <2> QED BY <2>1, <2>3, <1>3, <1>4 DEF TypeOK, Positions
<1>8. Promises'
  <2> SUFFICES ASSUME NEW p \in Below PROVE Promised(p)'
    BY DEF Promises
  <2>1. Promised(p)
    BY <1>3 DEF Promises
  <2>2. ascend(p) \in InnerPositions(Capacity) /\ ascendDirection(p) \in Directions
        /\ descend(ascend(p), ascendDirection(p)) = p
    BY Ascending
  <2>3. Counter(p)' = IF p = child THEN Counter(p) + 1 ELSE Counter(p)
    BY <1>1, <1>2, <1>6, <2>2 DEF Counter
  <2>4. IdsAt(p)' = IF p = pos THEN IdsAt(p) + 1 ELSE IdsAt(p)
    <3>1. CASE p[1] = Height
      <4>1. p \in LeafPositions(Capacity)
        BY <3>1, RootIs
      <4>2. p # pos
        BY <3>1, <1>2, PositionIs, HeightFacts
      <4> QED BY <3>1, <4>2, <1>4 DEF IdsAt
    <3>2. CASE p[1] # Height
      <4>1. p \in InnerPositions(Capacity)
        BY <3>2, RootIs
      <4>2. CASE p = pos
        <5>1. PICK l, r, m, n : l = inner[p]["dirLeft"] /\ r = inner[p]["dirRight"]
                              /\ m = inner'[p]["dirLeft"] /\ n = inner'[p]["dirRight"]
          OBVIOUS
        <5>2. l \in Nat /\ r \in Nat
          BY <5>1, <1>3, <4>1, NodeTypes
        <5>3. (m = l + 1 /\ n = r) \/ (m = l /\ n = r + 1)
          BY <5>1, <4>1, <4>2, <1>2, <1>6 DEF Directions
        <5>4. m + n = (l + r) + 1
          BY <5>2, <5>3
        <5> QED BY <5>1, <5>4, <3>2, <4>2 DEF IdsAt, Available
      <4>3. CASE p # pos
        BY <4>1, <4>3, <3>2, <1>6 DEF IdsAt
      <4> QED BY <4>2, <4>3
    <3> QED BY <3>1, <3>2
  <2>5. MovingAt(p) \subseteq Clients /\ MovingAt(p)' \subseteq Clients
    BY DEF MovingAt
  <2>6. IsFiniteSet(MovingAt(p)) /\ IsFiniteSet(MovingAt(p)')
    BY <2>5, ClientsAssumption, FS_Subset
  <2>7. \A d : d # c => (d \in MovingAt(p) <=> d \in MovingAt(p)')
    BY <1>6 DEF MovingAt
  <2>8. /\ c \in MovingAt(p) <=> p = child
        /\ c \in MovingAt(p)' <=> p = pos
    BY <1>1, <1>4, <1>6 DEF MovingAt, Below
  <2>9. PICK k, m, n : k = Counter(p) /\ m = Cardinality(MovingAt(p)) /\ n = IdsAt(p)
    OBVIOUS
  <2>10. k \in Nat /\ m \in Nat /\ n \in Nat
    BY <2>9, <1>3, NodeTypes, CountsFinite
  <2>11. CASE p = child
    <3>1. Cardinality(MovingAt(p)') = m - 1
      BY <2>6, <2>7, <2>8, <2>9, <2>11, <1>2, OneElement
    <3>2. k + m = n
      BY <2>1, <2>9, <2>11, <1>2 DEF Promised
    <3>3. Counter(p)' = k + 1 /\ IdsAt(p)' = n
      BY <2>3, <2>4, <2>9, <2>11, <1>2
    <3>4. (k + 1) + (m - 1) = n
      BY <3>2, <2>10
    <3> QED BY <3>1, <3>3, <3>4, <2>11, <1>2 DEF Promised, HasIds
  <2>12. CASE p = pos
    <3>1. Cardinality(MovingAt(p)') = m + 1
      BY <2>6, <2>7, <2>8, <2>9, <2>12, <1>2, OneElement
    <3>2. k + m = n /\ HasIds(p)
      BY <2>1, <2>9, <2>12, <1>2 DEF Promised
    <3>3. Counter(p)' = k /\ IdsAt(p)' = n + 1
      BY <2>3, <2>4, <2>9, <2>12, <1>2
    <3>4. k + (m + 1) = n + 1
      BY <3>2, <2>10
    <3> QED BY <3>1, <3>2, <3>3, <3>4 DEF Promised, HasIds
  <2>13. CASE p # child /\ p # pos
    <3>1. Cardinality(MovingAt(p)') = m
      BY <2>6, <2>7, <2>8, <2>9, <2>13, OneElement
    <3>2. Counter(p)' = k /\ IdsAt(p)' = n
      BY <2>3, <2>4, <2>9, <2>13
    <3>3. IF HasIds(p) THEN k + m = n ELSE Used(ascend(p)) => k = 0
      BY <2>1, <2>9 DEF Promised
    <3> QED BY <3>1, <3>2, <3>3 DEF Promised, HasIds, Used
  <2> QED BY <2>11, <2>12, <2>13
<1>9. \A d \in Clients : (pc'[d] \in InHand <=> pc[d] \in InHand) /\ (pc[d] \in InHand => id'[d] = id[d])
  BY <1>4, <1>6 DEF InHand
<1>10. LeavesFit' /\ PagesPlaced' /\ SizeExact' /\ FreePages' = FreePages
  BY <1>3, <1>4, <1>9, SamePages
<1>11. Placed'
  <2> SUFFICES ASSUME NEW d \in Clients
               PROVE  /\ pc'[d] \in {"idle", "pushing"} => at'[d] = Root
                      /\ pc'[d] \in {"descending", "ascending"} => at'[d] \in Below /\ HasIds(at'[d])
                      /\ pc'[d] \in {"popped", "pushing"} => id'[d] \in Ids \ owned'[d]
    BY DEF Placed, HasIds
  <2>1. CASE d = c
    BY <2>1, <1>2, <1>6
  <2>2. CASE d # c
    BY <2>2, <1>3, <1>4, <1>6 DEF Placed
  <2> QED BY <2>1, <2>2
<1>12. Balanced'
  <2>1. Moving \subseteq Clients /\ Moving' \subseteq Clients
    BY DEF Moving
  <2>2. IsFiniteSet(Moving) /\ IsFiniteSet(Moving')
    BY <2>1, ClientsAssumption, FS_Subset
  <2>3. \A d : d # c => (d \in Moving <=> d \in Moving')
    BY <1>6 DEF Moving
  <2>4. c \in Moving /\ (c \in Moving' <=> pos # Root)
    BY <1>4, <1>6 DEF Moving
  <2>5. PICK l, r, m, n : l = inner[Root]["dirLeft"] /\ r = inner[Root]["dirRight"]
                        /\ m = Cardinality(Moving) /\ n = Cardinality(FreePages)
    OBVIOUS
  <2>6. l \in Nat /\ r \in Nat /\ m \in Nat /\ n \in Nat /\ (l + r) + m = n
    BY <2>5, <1>3, RootIs, NodeTypes, CountsFinite DEF Balanced, Available
  <2>7. CASE pos = Root
    <3>2. PICK j, k : j = inner'[Root]["dirLeft"] /\ k = inner'[Root]["dirRight"]
      OBVIOUS
    <3>3. (j = l + 1 /\ k = r) \/ (j = l /\ k = r + 1)
      BY <2>7, <3>2, <2>5, <1>2, <1>6 DEF Directions
    <3>4. (j + k) + (m - 1) = n
      BY <3>3, <2>6
    <3>5. Cardinality(Moving') = m - 1
      BY <2>2, <2>3, <2>4, <2>5, <2>7, OneElement
    <3> QED BY <3>2, <3>4, <3>5, <2>5, <1>10 DEF Balanced, Available
  <2>8. CASE pos # Root
    <3>2. inner'[Root] = inner[Root]
      BY <2>8, <1>6, RootIs
    <3>3. Cardinality(Moving') = m
      BY <2>2, <2>3, <2>4, <2>5, <2>8, OneElement
    <3> QED BY <3>2, <3>3, <2>5, <1>3, <1>10 DEF Balanced
  <2> QED BY <2>7, <2>8
<1> QED BY <1>7, <1>8, <1>10, <1>11, <1>12 DEF IInv

----------------------------------------------------------------------------
(* Steps that take an ID out of a leaf or put it there *)

\* They change one leaf and the number of clients at it by as much; nothing
\* changes anywhere else in the tree.
LEMMA LeafChanges ==
  ASSUME TypeOK, TypeOK', Promises, NEW c \in Clients, NEW pos \in LeafPositions(Capacity), HasIds(pos),
         NEW x, UNCHANGED inner,
         \A p \in LeafPositions(Capacity) : p # pos => leaf'[p] = leaf[p],
         \A y : y # x => (y \in leaf[pos] <=> y \in leaf'[pos]),
         \A d \in Clients : d # c => at'[d] = at[d] /\ pc'[d] = pc[d],
         \A p \in Below : p # pos => c \notin MovingAt(p) /\ c \notin MovingAt(p)',
         x \in leaf[pos] <=> c \in MovingAt(pos),
         x \in leaf'[pos] <=> c \in MovingAt(pos)',
         x \in leaf[pos] <=> ~(x \in leaf'[pos])
  PROVE  Promises'
<1> SUFFICES ASSUME NEW p \in Below PROVE Promised(p)'
  BY DEF Promises
<1>1. Promised(p) /\ Counter(p)' = Counter(p)
  BY DEF Promises, Counter
<1>2. MovingAt(p) \subseteq Clients /\ MovingAt(p)' \subseteq Clients
  BY DEF MovingAt
<1>3. IsFiniteSet(MovingAt(p)) /\ IsFiniteSet(MovingAt(p)')
  BY <1>2, ClientsAssumption, FS_Subset
<1>4. \A d : d # c => (d \in MovingAt(p) <=> d \in MovingAt(p)')
  BY DEF MovingAt
<1>5. CASE p # pos
  <2>1. IdsAt(p)' = IdsAt(p)
    BY <1>5, RootIs DEF IdsAt
  <2>2. Cardinality(MovingAt(p)') = Cardinality(MovingAt(p))
    BY <1>3, <1>4, <1>5, OneElement
  <2> QED BY <2>1, <2>2, <1>1 DEF Promised, HasIds, Used
<1>6. CASE p = pos
  <2>1. PICK k, m, n, s : k = Counter(p) /\ m = Cardinality(MovingAt(p)) /\ n = IdsAt(p) /\ s = leaf'[p]
    OBVIOUS
  <2>2. k \in Nat /\ m \in Nat /\ n \in Nat /\ k + m = n /\ p[1] = Height /\ n = Cardinality(leaf[p])
    BY <2>1, <1>1, <1>6, NodeTypes, CountsFinite, PositionIs DEF Promised, IdsAt
  <2>3. IsFiniteSet(leaf[p])
    BY <1>6, NodeTypes
  <2>4. IsFiniteSet(s)
    <3>1. leaf[p] \cup {x} \in SUBSET (leaf[p] \cup {x}) /\ s \in SUBSET (leaf[p] \cup {x})
      BY <2>1, <1>6
    <3>2. IsFiniteSet(leaf[p] \cup {x})
      BY <2>3, FS_AddElement
    <3> QED BY <3>1, <3>2, FS_Subset
  <2>5. IdsAt(p)' = Cardinality(s)
    BY <2>1, <2>2 DEF IdsAt
  <2>6. CASE x \in leaf[p]
    <3>1. Cardinality(s) = n - 1
      BY <2>1, <2>2, <2>3, <2>4, <2>6, <1>6, OneElement
    <3>2. Cardinality(MovingAt(p)') = m - 1
      BY <2>1, <2>6, <1>3, <1>4, <1>6, OneElement
    <3>3. k + (m - 1) = n - 1
      BY <2>2
    <3> QED BY <3>1, <3>2, <3>3, <2>1, <2>5, <1>1, <1>6 DEF Promised, HasIds
  <2>7. CASE x \notin leaf[p]
    <3>1. Cardinality(s) = n + 1
      BY <2>1, <2>2, <2>3, <2>4, <2>7, <1>6, OneElement
    <3>2. Cardinality(MovingAt(p)') = m + 1
      BY <2>1, <2>7, <1>3, <1>4, <1>6, OneElement
    <3>3. k + (m + 1) = n + 1
      BY <2>2
    <3> QED BY <3>1, <3>2, <3>3, <2>1, <2>5, <1>1, <1>6 DEF Promised, HasIds
  <2> QED BY <2>6, <2>7
<1> QED BY <1>5, <1>6

\* The set of free pages changes by the page.
LEMMA FreeChanges ==
  ASSUME NEW i \in Ids,
         LET pos == leafOf(Capacity, i)
         IN  /\ \A p \in LeafPositions(Capacity) : p # pos => leaf'[p] = leaf[p]
             /\ \A y : y # bitOf(i) => (y \in leaf[pos] <=> y \in leaf'[pos])
  PROVE  /\ \A j : j # i => (j \in FreePages <=> j \in FreePages')
         /\ i \in FreePages <=> bitOf(i) \in leaf[leafOf(Capacity, i)]
         /\ i \in FreePages' <=> bitOf(i) \in leaf'[leafOf(Capacity, i)]
         /\ IsFiniteSet(FreePages) /\ IsFiniteSet(FreePages')
<1>1. i \in FreePages <=> bitOf(i) \in leaf[leafOf(Capacity, i)]
  BY DEF FreePages
<1>2. i \in FreePages' <=> bitOf(i) \in leaf'[leafOf(Capacity, i)]
  BY DEF FreePages
<1>3. ASSUME NEW j, j # i PROVE j \in FreePages <=> j \in FreePages'
  <2>1. CASE j \in Ids
    <3>1. PICK p, q, a, b : p = leafOf(Capacity, i) /\ q = leafOf(Capacity, j) /\ a = bitOf(i) /\ b = bitOf(j)
      OBVIOUS
    <3>2. q \in LeafPositions(Capacity) /\ i = p[2] * BitsPerLeaf + a /\ j = q[2] * BitsPerLeaf + b
      BY <2>1, <3>1, LeafOfId
    <3>3. q # p \/ b # a
      BY <3>2, <1>3
    <3>4. b \in leaf[q] <=> b \in leaf'[q]
      BY <3>1, <3>2, <3>3
    <3> QED BY <3>1, <3>4, <2>1 DEF FreePages
  <2>2. CASE j \notin Ids
    BY <2>2 DEF FreePages
  <2> QED BY <2>1, <2>2
<1>4. FreePages \subseteq Ids /\ FreePages' \subseteq Ids
  BY DEF FreePages
<1>5. IsFiniteSet(FreePages) /\ IsFiniteSet(FreePages')
  BY <1>4, IdsFinite, FS_Subset
<1> QED BY <1>1, <1>2, <1>3, <1>5

\* The pages in transit, client by client.
LEMMA TransitIs ==
  /\ \A x : x \in InTransit <=> \E d \in Clients : pc[d] \in InHand /\ x = id[d]
  /\ \A x : x \in InTransit' <=> \E d \in Clients : pc'[d] \in InHand /\ x = id'[d]
BY DEF InTransit, InHand

\* leafPop() of IdSet::pop().
LEMMA PopLeafStep ==
  ASSUME IInv, NEW c \in Clients, PopLeaf(c)
  PROVE  IInv'
<1>1. PICK pos, b, i : pos = at[c] /\ b = LowestBit(leaf[pos]) /\ i = pos[2] * BitsPerLeaf + b
  OBVIOUS
<1>2. TypeOK /\ Promises /\ Balanced /\ Placed /\ LeavesFit /\ PagesPlaced /\ SizeExact
  BY DEF IInv
<1>3. /\ pc[c] = "descending" /\ pos[1] = Height /\ leaf[pos] # {}
      /\ id' = [id EXCEPT ![c] = i]
      /\ leaf' = [leaf EXCEPT ![pos] = leaf[pos] \ {b}]
      /\ pc' = [pc EXCEPT ![c] = "popped"]
      /\ UNCHANGED <<inner, size_, at, owned>>
  BY <1>1 DEF PopLeaf
<1>4. pos \in Below /\ pos \in LeafPositions(Capacity) /\ HasIds(pos)
  BY <1>1, <1>2, <1>3, RootIs DEF Placed
<1>5. leaf[pos] \subseteq Bits /\ b \in leaf[pos] /\ b \in Bits
  BY <1>1, <1>2, <1>3, <1>4, NodeTypes, LowestBitIn
<1>6. i \in Ids /\ i \in Nat /\ leafOf(Capacity, i) = pos /\ bitOf(i) = b
  BY <1>1, <1>2, <1>4, <1>5, IdOfLeaf DEF LeavesFit
<1>7. /\ leaf \in [LeafPositions(Capacity) -> SUBSET Bits] /\ pc \in [Clients -> Steps]
      /\ id \in [Clients -> Nat] /\ at \in [Clients -> Positions]
  BY <1>2 DEF TypeOK, Positions
<1>8. /\ \A p \in LeafPositions(Capacity) : p # pos => leaf'[p] = leaf[p]
      /\ leaf'[pos] = leaf[pos] \ {b}
      /\ pc'[c] = "popped" /\ id'[c] = i /\ at' = at
      /\ \A d \in Clients : d # c => at'[d] = at[d] /\ pc'[d] = pc[d] /\ id'[d] = id[d]
  BY <1>3, <1>4, <1>7
<1>9. TypeOK'
  <2>1. leaf' \in [LeafPositions(Capacity) -> SUBSET Bits]
    BY <1>3, <1>5, <1>7
  <2>2. pc' \in [Clients -> Steps] /\ id' \in [Clients -> Nat]
    BY <1>3, <1>6, <1>7 DEF Steps
  <2> QED BY <2>1, <2>2, <1>2, <1>3 DEF TypeOK
<1>10. Promises'
  <2>1. \A y : y # b => (y \in leaf[pos] <=> y \in leaf'[pos])
    BY <1>8
  <2>2. b \in leaf[pos] /\ b \notin leaf'[pos]
    BY <1>5, <1>8
  <2>3. \A p : c \notin MovingAt(p)'
    BY <1>8 DEF MovingAt
  <2>4. c \in MovingAt(pos) /\ \A p : p # pos => c \notin MovingAt(p)
    BY <1>1, <1>3 DEF MovingAt
  <2>5. UNCHANGED inner
    BY <1>3
  <2> HIDE DEF TypeOK, Promises, MovingAt
  <2> QED BY <2>1, <2>2, <2>3, <2>4, <2>5, <1>2, <1>4, <1>8, <1>9, LeafChanges
<1>11. /\ \A j : j # i => (j \in FreePages <=> j \in FreePages')
       /\ i \in FreePages /\ i \notin FreePages'
       /\ IsFiniteSet(FreePages) /\ IsFiniteSet(FreePages')
  <2>1. \A y : y # b => (y \in leaf[pos] <=> y \in leaf'[pos])
    BY <1>8
  <2>2. b \in leaf[pos] /\ b \notin leaf'[pos]
    BY <1>5, <1>8
  <2> QED BY <2>1, <2>2, <1>6, <1>8, FreeChanges
<1>12. Balanced'
  <2>1. Moving \subseteq Clients /\ Moving' \subseteq Clients
    BY DEF Moving
  <2>2. IsFiniteSet(Moving) /\ IsFiniteSet(Moving')
    BY <2>1, ClientsAssumption, FS_Subset
  <2>3. \A d : d # c => (d \in Moving <=> d \in Moving')
    BY <1>8 DEF Moving
  <2>4. c \in Moving /\ c \notin Moving'
    BY <1>3, <1>8 DEF Moving
  <2>5. Cardinality(Moving') = Cardinality(Moving) - 1
    BY <2>2, <2>3, <2>4, OneElement
  <2>6. Cardinality(FreePages') = Cardinality(FreePages) - 1
    BY <1>11, OneElement
  <2>7. PICK r, m, n : r = Available(inner[Root]) /\ m = Cardinality(Moving) /\ n = Cardinality(FreePages)
    OBVIOUS
  <2>8. r \in Nat /\ m \in Nat /\ n \in Nat /\ r + m = n
    BY <2>7, <1>2, RootIs, NodeTypes, CountsFinite DEF Balanced
  <2>9. r + (m - 1) = n - 1
    BY <2>8
  <2> QED BY <2>5, <2>6, <2>7, <2>9, <1>3 DEF Balanced
<1>13. LeavesFit'
  <2>1. \A p \in LeafPositions(Capacity) : leaf'[p] \subseteq leaf[p]
    BY <1>8
  <2> QED BY <2>1, <1>2 DEF LeavesFit, HasIds
<1>14. (\A d \in Clients : d # c => Held(d)' = Held(d)) /\ Held(c)' = Held(c) \cup {i}
  BY <1>3, <1>8 DEF Held
<1>15. /\ \A page \in Ids : page \in FreePages \/ \E d \in Clients : page \in Held(d)
       /\ \A d \in Clients : Held(d) \cap FreePages = {}
       /\ \A d, e \in Clients : d # e => Held(d) \cap Held(e) = {}
  BY <1>2 DEF PagesPlaced
<1>16. PagesPlaced'
  <2>1. \A page \in Ids : page \in FreePages' \/ \E d \in Clients : page \in Held(d)'
    <3> SUFFICES ASSUME NEW page \in Ids, page \notin FreePages' PROVE \E d \in Clients : page \in Held(d)'
      OBVIOUS
    <3>1. CASE page = i
      BY <3>1, <1>14
    <3>2. CASE page # i
      <4>1. PICK d \in Clients : page \in Held(d)
        BY <3>2, <1>11, <1>15
      <4>2. page \in Held(d)'
        BY <4>1, <1>14
      <4> QED BY <4>2
    <3> QED BY <3>1, <3>2
  <2>2. \A d \in Clients : Held(d)' \cap FreePages' = {}
    <3> SUFFICES ASSUME NEW d \in Clients, NEW x \in Held(d)', x \in FreePages' PROVE FALSE
      OBVIOUS
    <3>1. x # i /\ x \in FreePages
      BY <1>11
    <3>2. x \in Held(d)
      BY <3>1, <1>14
    <3> QED BY <3>1, <3>2, <1>15
  <2>3. \A d, e \in Clients : d # e => Held(d)' \cap Held(e)' = {}
    <3>1. \A d \in Clients : i \notin Held(d)
      BY <1>11, <1>15
    <3> QED BY <3>1, <1>14, <1>15
  <2> QED BY <2>1, <2>2, <2>3 DEF PagesPlaced
<1>17. Placed'
  <2>1. i \notin owned[c]
    BY <1>11, <1>15 DEF Held
  <2> SUFFICES ASSUME NEW d \in Clients
               PROVE  /\ pc'[d] \in {"idle", "pushing"} => at'[d] = Root
                      /\ pc'[d] \in {"descending", "ascending"} => at'[d] \in Below /\ HasIds(at'[d])
                      /\ pc'[d] \in {"popped", "pushing"} => id'[d] \in Ids \ owned'[d]
    BY DEF Placed, HasIds
  <2>2. CASE d = c
    BY <2>1, <2>2, <1>3, <1>6, <1>8
  <2>3. CASE d # c
    BY <2>3, <1>2, <1>3, <1>8 DEF Placed
  <2> QED BY <2>2, <2>3
<1>18. SizeExact'
  <2>1. i \in InTransit'
    BY <1>8, TransitIs DEF InHand
  <2>2. ASSUME NEW x, x # i PROVE x \in InTransit <=> x \in InTransit'
    <3>1. \A d \in Clients : (pc[d] \in InHand /\ x = id[d]) <=> (pc'[d] \in InHand /\ x = id'[d])
      BY <2>2, <1>3, <1>8 DEF InHand
    <3> QED BY <3>1, TransitIs
  <2>3. FreePages' \cup InTransit' = FreePages \cup InTransit
    BY <2>1, <2>2, <1>11
  <2> QED BY <2>3, <1>2, <1>3 DEF SizeExact
<1> QED BY <1>9, <1>10, <1>12, <1>13, <1>16, <1>17, <1>18 DEF IInv

\* leafPush() of IdSet::push().
LEMMA PushLeafStep ==
  ASSUME IInv, NEW c \in Clients, PushLeaf(c)
  PROVE  IInv'
<1>1. PICK i, pos, b : i = id[c] /\ pos = leafOf(Capacity, i) /\ b = bitOf(i)
  OBVIOUS
<1>2. TypeOK /\ Promises /\ Balanced /\ Placed /\ LeavesFit /\ PagesPlaced /\ SizeExact
  BY DEF IInv
<1>3. /\ pc[c] = "pushing"
      /\ at' = [at EXCEPT ![c] = pos]
      /\ leaf' = [leaf EXCEPT ![pos] = leaf[pos] \cup {b}]
      /\ pc' = [pc EXCEPT ![c] = "ascending"]
      /\ UNCHANGED <<inner, size_, id, owned>>
  BY <1>1 DEF PushLeaf
<1>4. i \in Ids \ owned[c] /\ at[c] = Root
  BY <1>1, <1>2, <1>3 DEF Placed
<1>5. /\ pos \in LeafPositions(Capacity) /\ HasIds(pos) /\ b \in Bits /\ i = pos[2] * BitsPerLeaf + b
      /\ pos \in Below
  BY <1>1, <1>4, LeafOfId, RootIs
<1>6. i \in Held(c) /\ i \notin FreePages /\ b \notin leaf[pos]
  <2>1. i \in Held(c)
    BY <1>1, <1>3 DEF Held
  <2>2. i \notin FreePages
    BY <2>1, <1>2 DEF PagesPlaced
  <2> QED BY <2>1, <2>2, <1>1, <1>4 DEF FreePages
<1>7. /\ leaf \in [LeafPositions(Capacity) -> SUBSET Bits] /\ pc \in [Clients -> Steps]
      /\ at \in [Clients -> Positions]
  BY <1>2 DEF TypeOK, Positions
<1>8. /\ \A p \in LeafPositions(Capacity) : p # pos => leaf'[p] = leaf[p]
      /\ leaf'[pos] = leaf[pos] \cup {b}
      /\ pc'[c] = "ascending" /\ at'[c] = pos /\ id' = id
      /\ \A d \in Clients : d # c => at'[d] = at[d] /\ pc'[d] = pc[d]
  BY <1>3, <1>5, <1>7
<1>9. TypeOK'
  <2>1. leaf' \in [LeafPositions(Capacity) -> SUBSET Bits]
    BY <1>3, <1>5, <1>7
  <2>2. pc' \in [Clients -> Steps] /\ at' \in [Clients -> Positions]
    BY <1>3, <1>5, <1>7 DEF Steps, Positions
  <2> QED BY <2>1, <2>2, <1>2, <1>3 DEF TypeOK, Positions
<1>10. Promises'
  <2>1. \A y : y # b => (y \in leaf[pos] <=> y \in leaf'[pos])
    BY <1>8
  <2>2. b \notin leaf[pos] /\ b \in leaf'[pos]
    BY <1>6, <1>8
  <2>3. \A p : c \notin MovingAt(p)
    BY <1>3 DEF MovingAt
  <2>4. c \in MovingAt(pos)' /\ \A p : p # pos => c \notin MovingAt(p)'
    BY <1>8 DEF MovingAt
  <2>5. UNCHANGED inner
    BY <1>3
  <2> QED BY <2>1, <2>2, <2>3, <2>4, <2>5, <1>2, <1>5, <1>8, <1>9, LeafChanges
<1>11. /\ \A j : j # i => (j \in FreePages <=> j \in FreePages')
       /\ i \notin FreePages /\ i \in FreePages'
       /\ IsFiniteSet(FreePages) /\ IsFiniteSet(FreePages')
  <2>1. \A y : y # b => (y \in leaf[pos] <=> y \in leaf'[pos])
    BY <1>8
  <2>2. b \notin leaf[pos] /\ b \in leaf'[pos]
    BY <1>6, <1>8
  <2> QED BY <2>1, <2>2, <1>1, <1>4, <1>8, FreeChanges
<1>12. Balanced'
  <2>1. Moving \subseteq Clients /\ Moving' \subseteq Clients
    BY DEF Moving
  <2>2. IsFiniteSet(Moving) /\ IsFiniteSet(Moving')
    BY <2>1, ClientsAssumption, FS_Subset
  <2>3. \A d : d # c => (d \in Moving <=> d \in Moving')
    BY <1>8 DEF Moving
  <2>4. c \notin Moving /\ c \in Moving'
    BY <1>3, <1>8 DEF Moving
  <2>5. Cardinality(Moving') = Cardinality(Moving) + 1
    BY <2>2, <2>3, <2>4, OneElement
  <2>6. Cardinality(FreePages') = Cardinality(FreePages) + 1
    BY <1>11, OneElement
  <2>7. PICK r, m, n : r = Available(inner[Root]) /\ m = Cardinality(Moving) /\ n = Cardinality(FreePages)
    OBVIOUS
  <2>8. r \in Nat /\ m \in Nat /\ n \in Nat /\ r + m = n
    BY <2>7, <1>2, RootIs, NodeTypes, CountsFinite DEF Balanced
  <2>9. r + (m + 1) = n + 1
    BY <2>8
  <2> QED BY <2>5, <2>6, <2>7, <2>9, <1>3 DEF Balanced
<1>13. LeavesFit'
  <2> SUFFICES ASSUME NEW p \in LeafPositions(Capacity), HasIds(p), NEW y \in leaf'[p]
               PROVE  p[2] * BitsPerLeaf + y \in Ids
    BY DEF LeavesFit, HasIds
  <2>1. CASE y \in leaf[p]
    BY <2>1, <1>2 DEF LeavesFit
  <2>2. CASE y \notin leaf[p]
    <3>1. p = pos /\ y = b
      BY <2>2, <1>8
    <3> QED BY <3>1, <1>4, <1>5
  <2> QED BY <2>1, <2>2
<1>14. (\A d \in Clients : d # c => Held(d)' = Held(d)) /\ Held(c)' = Held(c) \ {i}
  <2>1. \A d \in Clients : d # c => Held(d)' = Held(d)
    BY <1>3, <1>8 DEF Held
  <2>2. Held(c) = owned[c] \cup {i} /\ Held(c)' = owned[c]
    BY <1>1, <1>3, <1>8 DEF Held
  <2> QED BY <2>1, <2>2, <1>4
<1>15. /\ \A page \in Ids : page \in FreePages \/ \E d \in Clients : page \in Held(d)
       /\ \A d \in Clients : Held(d) \cap FreePages = {}
       /\ \A d, e \in Clients : d # e => Held(d) \cap Held(e) = {}
  BY <1>2 DEF PagesPlaced
<1>16. PagesPlaced'
  <2>1. \A page \in Ids : page \in FreePages' \/ \E d \in Clients : page \in Held(d)'
    <3> SUFFICES ASSUME NEW page \in Ids, page \notin FreePages' PROVE \E d \in Clients : page \in Held(d)'
      OBVIOUS
    <3>1. page # i /\ page \notin FreePages
      BY <1>11
    <3>2. PICK d \in Clients : page \in Held(d)
      BY <3>1, <1>15
    <3>3. page \in Held(d)'
      BY <3>1, <3>2, <1>14
    <3> QED BY <3>3
  <2>2. \A d \in Clients : Held(d)' \cap FreePages' = {}
    <3> SUFFICES ASSUME NEW d \in Clients, NEW x \in Held(d)', x \in FreePages' PROVE FALSE
      OBVIOUS
    <3>1. x \in Held(d)
      BY <1>14
    <3>2. x # i
      BY <3>1, <1>6, <1>14, <1>15
    <3>3. x \in FreePages
      BY <3>2, <1>11
    <3> QED BY <3>1, <3>3, <1>15
  <2>3. \A d, e \in Clients : d # e => Held(d)' \cap Held(e)' = {}
    <3>1. \A d \in Clients : Held(d)' \subseteq Held(d)
      BY <1>14
    <3> QED BY <3>1, <1>15
  <2> QED BY <2>1, <2>2, <2>3 DEF PagesPlaced
<1>17. Placed'
  <2> SUFFICES ASSUME NEW d \in Clients
               PROVE  /\ pc'[d] \in {"idle", "pushing"} => at'[d] = Root
                      /\ pc'[d] \in {"descending", "ascending"} => at'[d] \in Below /\ HasIds(at'[d])
                      /\ pc'[d] \in {"popped", "pushing"} => id'[d] \in Ids \ owned'[d]
    BY DEF Placed, HasIds
  <2>1. CASE d = c
    BY <2>1, <1>5, <1>8
  <2>2. CASE d # c
    BY <2>2, <1>2, <1>3, <1>8 DEF Placed
  <2> QED BY <2>1, <2>2
<1>18. SizeExact'
  <2>1. i \in InTransit
    BY <1>1, <1>3, TransitIs DEF InHand
  <2>2. ASSUME NEW x, x # i PROVE x \in InTransit <=> x \in InTransit'
    <3>1. \A d \in Clients : (pc[d] \in InHand /\ x = id[d]) <=> (pc'[d] \in InHand /\ x = id'[d])
      BY <2>2, <1>1, <1>3, <1>8 DEF InHand
    <3> QED BY <3>1, TransitIs
  <2>3. FreePages' \cup InTransit' = FreePages \cup InTransit
    BY <2>1, <2>2, <1>11
  <2> QED BY <2>3, <1>2, <1>3 DEF SizeExact
<1> QED BY <1>9, <1>10, <1>12, <1>13, <1>16, <1>17, <1>18 DEF IInv

----------------------------------------------------------------------------
(* Steps outside the tree *)

\* They leave the tree and the clients in it where they are.
LEMMA SameTree ==
  ASSUME Promises, Balanced, LeavesFit, UNCHANGED tree,
         NEW c \in Clients, pc[c] \notin {"descending", "ascending"}, pc'[c] \notin {"descending", "ascending"},
         \A d \in Clients : d # c => pc'[d] = pc[d] /\ at'[d] = at[d]
  PROVE  Promises' /\ Balanced' /\ LeavesFit' /\ FreePages' = FreePages
<1>1. inner' = inner /\ leaf' = leaf
  BY DEF tree
<1>2. Moving' = Moving /\ \A p : MovingAt(p)' = MovingAt(p)
  BY DEF Moving, MovingAt
<1>3. FreePages' = FreePages
  BY <1>1 DEF FreePages
<1>4. LeavesFit'
  BY <1>1 DEF LeavesFit, HasIds
<1>5. Balanced'
  BY <1>1, <1>2, <1>3 DEF Balanced
<1>6. Promises'
  <2> SUFFICES ASSUME NEW p \in Below PROVE Promised(p)'
    BY DEF Promises
  <2>1. Promised(p) /\ Counter(p)' = Counter(p) /\ IdsAt(p)' = IdsAt(p) /\ MovingAt(p)' = MovingAt(p)
    BY <1>1, <1>2 DEF Promises, Counter, IdsAt
  <2> QED BY <2>1 DEF Promised, HasIds, Used
<1> QED BY <1>3, <1>4, <1>5, <1>6

\* --size_ of PageStack::pop().
LEMMA PopSizeStep ==
  ASSUME IInv, NEW c \in Clients, PopSize(c)
  PROVE  IInv'
<1>1. PICK i : i = id[c]
  OBVIOUS
<1>2. TypeOK /\ Promises /\ Balanced /\ Placed /\ LeavesFit /\ PagesPlaced /\ SizeExact
  BY DEF IInv
<1>3. /\ pc[c] = "popped"
      /\ size_' = size_ - 1
      /\ owned' = [owned EXCEPT ![c] = owned[c] \cup {i}]
      /\ pc' = [pc EXCEPT ![c] = "idle"]
      /\ at' = [at EXCEPT ![c] = Root]
      /\ id' = [id EXCEPT ![c] = 0]
      /\ UNCHANGED tree
  BY <1>1 DEF PopSize
<1>4. i \in Ids \ owned[c]
  BY <1>1, <1>2, <1>3 DEF Placed
<1>5. /\ pc \in [Clients -> Steps] /\ at \in [Clients -> Positions] /\ id \in [Clients -> Nat]
      /\ owned \in [Clients -> SUBSET Ids] /\ size_ \in 0..Capacity
  BY <1>2 DEF TypeOK, Positions
<1>6. /\ pc'[c] = "idle" /\ at'[c] = Root /\ owned'[c] = owned[c] \cup {i}
      /\ \A d \in Clients : d # c => at'[d] = at[d] /\ pc'[d] = pc[d] /\ id'[d] = id[d] /\ owned'[d] = owned[d]
  BY <1>3, <1>5
<1>7. Promises' /\ Balanced' /\ LeavesFit' /\ FreePages' = FreePages
  BY <1>2, <1>3, <1>6, SameTree
<1>8. /\ \A page \in Ids : page \in FreePages \/ \E d \in Clients : page \in Held(d)
      /\ \A d \in Clients : Held(d) \cap FreePages = {}
      /\ \A d, e \in Clients : d # e => Held(d) \cap Held(e) = {}
  BY <1>2 DEF PagesPlaced
<1>9. \A d \in Clients : Held(d)' = Held(d)
  <2>1. \A d \in Clients : d # c => Held(d)' = Held(d)
    BY <1>6 DEF Held
  <2>2. Held(c)' = Held(c)
    BY <1>1, <1>3, <1>6 DEF Held
  <2> QED BY <2>1, <2>2
<1>10. PagesPlaced'
  <2>1. \A page \in Ids : page \in FreePages' \/ \E d \in Clients : page \in Held(d)'
    BY <1>7, <1>8, <1>9
  <2>2. \A d \in Clients : Held(d)' \cap FreePages' = {}
    BY <1>7, <1>8, <1>9
  <2>3. \A d, e \in Clients : d # e => Held(d)' \cap Held(e)' = {}
    BY <1>8, <1>9
  <2> QED BY <2>1, <2>2, <2>3 DEF PagesPlaced
<1>11. Placed'
  <2> SUFFICES ASSUME NEW d \in Clients
               PROVE  /\ pc'[d] \in {"idle", "pushing"} => at'[d] = Root
                      /\ pc'[d] \in {"descending", "ascending"} => at'[d] \in Below /\ HasIds(at'[d])
                      /\ pc'[d] \in {"popped", "pushing"} => id'[d] \in Ids \ owned'[d]
    BY DEF Placed, HasIds
  <2>1. CASE d = c
    BY <2>1, <1>6
  <2>2. CASE d # c
    BY <2>2, <1>2, <1>6 DEF Placed
  <2> QED BY <2>1, <2>2
<1>12. i \in InTransit /\ i \notin InTransit' /\ i \notin FreePages /\ \A x : x # i => (x \in InTransit <=> x \in InTransit')
  <2>1. i \in Held(c)
    BY <1>1, <1>3 DEF Held
  <2>2. \A d \in Clients : pc[d] \in InHand => id[d] \in Held(d)
    BY DEF Held, InHand
  <2>3. i \in InTransit
    BY <1>1, <1>3, TransitIs DEF InHand
  <2>4. i \notin FreePages
    BY <2>1, <1>8
  <2>5. \A d \in Clients : ~(pc'[d] \in InHand /\ i = id'[d])
    <3> SUFFICES ASSUME NEW d \in Clients, pc'[d] \in InHand, i = id'[d] PROVE FALSE
      OBVIOUS
    <3>1. d # c
      BY <1>6 DEF InHand
    <3>2. i \in Held(d)
      BY <3>1, <2>2, <1>6
    <3> QED BY <3>1, <3>2, <2>1, <1>8
  <2>6. ASSUME NEW x, x # i PROVE x \in InTransit <=> x \in InTransit'
    <3>1. \A d \in Clients : (pc[d] \in InHand /\ x = id[d]) <=> (pc'[d] \in InHand /\ x = id'[d])
      BY <2>6, <1>1, <1>6 DEF InHand
    <3> QED BY <3>1, TransitIs
  <2> QED BY <2>3, <2>4, <2>5, <2>6, TransitIs
<1>13. SizeExact' /\ size_' \in 0..Capacity
  <2>1. PICK s, t : s = FreePages \cup InTransit /\ t = (FreePages \cup InTransit)'
    OBVIOUS
  <2>2. t = FreePages \cup InTransit'
    BY <2>1, <1>7
  <2>3. \A d \in Clients : pc[d] \in InHand => id[d] \in Ids
    BY <1>2 DEF Placed, InHand
  <2>4. s \subseteq Ids
    BY <2>1, <2>3, TransitIs DEF FreePages
  <2>5. IsFiniteSet(s)
    BY <2>4, IdsFinite, FS_Subset
  <2>6. t \subseteq s /\ i \in s /\ i \notin t /\ \A x : x # i => (x \in s <=> x \in t)
    BY <2>1, <2>2, <1>12
  <2>7. IsFiniteSet(t)
    BY <2>5, <2>6, FS_Subset
  <2>8. Cardinality(t) = Cardinality(s) - 1
    BY <2>5, <2>6, <2>7, OneElement
  <2>9. size_ = Cardinality(s) /\ size_' = size_ - 1
    BY <2>1, <1>2, <1>3 DEF SizeExact
  <2>10. SizeExact'
    BY <2>1, <2>8, <2>9 DEF SizeExact
  <2>11. Cardinality(t) \in Nat
    BY <2>7, FS_CardinalityType
  <2>12. size_' \in 0..Capacity
    BY <2>8, <2>9, <2>11, <1>5, CapacityAssumption
  <2> QED BY <2>10, <2>12
<1>14. TypeOK'
  <2>1. Root \in Positions
    BY RootIs DEF Positions
  <2>2. pc' \in [Clients -> Steps] /\ at' \in [Clients -> Positions] /\ id' \in [Clients -> Nat]
    BY <2>1, <1>3, <1>5 DEF Steps
  <2>3. owned' \in [Clients -> SUBSET Ids]
    BY <1>3, <1>4, <1>5
  <2>4. inner' = inner /\ leaf' = leaf
    BY <1>3 DEF tree
  <2> QED BY <2>2, <2>3, <2>4, <1>2, <1>13 DEF TypeOK, Positions
<1> QED BY <1>7, <1>10, <1>11, <1>13, <1>14 DEF IInv

\* ++size_ of PageStack::push().
LEMMA PushSizeStep ==
  ASSUME IInv, NEW c \in Clients, PushSize(c)
  PROVE  IInv'
<1>1. PICK i \in owned[c] : /\ id' = [id EXCEPT ![c] = i]
                            /\ owned' = [owned EXCEPT ![c] = owned[c] \ {i}]
  BY DEF PushSize
<1>2. TypeOK /\ Promises /\ Balanced /\ Placed /\ LeavesFit /\ PagesPlaced /\ SizeExact
  BY DEF IInv
<1>3. /\ pc[c] = "idle"
      /\ size_' = size_ + 1
      /\ pc' = [pc EXCEPT ![c] = "pushing"]
      /\ UNCHANGED <<tree, at>>
  BY DEF PushSize
<1>4. at[c] = Root
  BY <1>2, <1>3 DEF Placed
<1>5. /\ pc \in [Clients -> Steps] /\ at \in [Clients -> Positions] /\ id \in [Clients -> Nat]
      /\ owned \in [Clients -> SUBSET Ids] /\ size_ \in 0..Capacity /\ i \in Ids /\ i \in Nat
  <2>1. /\ pc \in [Clients -> Steps] /\ at \in [Clients -> Positions] /\ id \in [Clients -> Nat]
        /\ owned \in [Clients -> SUBSET Ids] /\ size_ \in 0..Capacity
    BY <1>2 DEF TypeOK, Positions
  <2>2. i \in Ids
    BY <2>1
  <2>3. i \in Nat
    BY <2>2, CapacityAssumption DEF Ids
  <2> QED BY <2>1, <2>2, <2>3
<1>6. /\ pc'[c] = "pushing" /\ at' = at /\ owned'[c] = owned[c] \ {i} /\ id'[c] = i
      /\ \A d \in Clients : d # c => at'[d] = at[d] /\ pc'[d] = pc[d] /\ id'[d] = id[d] /\ owned'[d] = owned[d]
  BY <1>1, <1>3, <1>5
<1>7. Promises' /\ Balanced' /\ LeavesFit' /\ FreePages' = FreePages
  BY <1>2, <1>3, <1>6, SameTree
<1>8. /\ \A page \in Ids : page \in FreePages \/ \E d \in Clients : page \in Held(d)
      /\ \A d \in Clients : Held(d) \cap FreePages = {}
      /\ \A d, e \in Clients : d # e => Held(d) \cap Held(e) = {}
  BY <1>2 DEF PagesPlaced
<1>9. \A d \in Clients : Held(d)' = Held(d)
  <2>1. \A d \in Clients : d # c => Held(d)' = Held(d)
    BY <1>6 DEF Held
  <2>2. Held(c) = owned[c] /\ Held(c)' = (owned[c] \ {i}) \cup {i}
    BY <1>3, <1>6 DEF Held
  <2> QED BY <2>1, <2>2
<1>10. PagesPlaced'
  <2>1. \A page \in Ids : page \in FreePages' \/ \E d \in Clients : page \in Held(d)'
    BY <1>7, <1>8, <1>9
  <2>2. \A d \in Clients : Held(d)' \cap FreePages' = {}
    BY <1>7, <1>8, <1>9
  <2>3. \A d, e \in Clients : d # e => Held(d)' \cap Held(e)' = {}
    BY <1>8, <1>9
  <2> QED BY <2>1, <2>2, <2>3 DEF PagesPlaced
<1>11. Placed'
  <2> SUFFICES ASSUME NEW d \in Clients
               PROVE  /\ pc'[d] \in {"idle", "pushing"} => at'[d] = Root
                      /\ pc'[d] \in {"descending", "ascending"} => at'[d] \in Below /\ HasIds(at'[d])
                      /\ pc'[d] \in {"popped", "pushing"} => id'[d] \in Ids \ owned'[d]
    BY DEF Placed, HasIds
  <2>1. CASE d = c
    BY <2>1, <1>4, <1>5, <1>6
  <2>2. CASE d # c
    BY <2>2, <1>2, <1>6 DEF Placed
  <2> QED BY <2>1, <2>2
<1>12. i \notin InTransit /\ i \in InTransit' /\ i \notin FreePages /\ \A x : x # i => (x \in InTransit <=> x \in InTransit')
  <2>1. i \in Held(c)
    BY DEF Held
  <2>2. \A d \in Clients : pc[d] \in InHand => id[d] \in Held(d)
    BY DEF Held, InHand
  <2>3. i \in InTransit'
    BY <1>6, TransitIs DEF InHand
  <2>4. i \notin FreePages
    BY <2>1, <1>8
  <2>5. \A d \in Clients : ~(pc[d] \in InHand /\ i = id[d])
    <3> SUFFICES ASSUME NEW d \in Clients, pc[d] \in InHand, i = id[d] PROVE FALSE
      OBVIOUS
    <3>1. d # c
      BY <1>3 DEF InHand
    <3>2. i \in Held(d)
      BY <2>2
    <3> QED BY <3>1, <3>2, <2>1, <1>8
  <2>6. ASSUME NEW x, x # i PROVE x \in InTransit <=> x \in InTransit'
    <3>1. \A d \in Clients : (pc[d] \in InHand /\ x = id[d]) <=> (pc'[d] \in InHand /\ x = id'[d])
      BY <2>6, <1>3, <1>6 DEF InHand
    <3> QED BY <3>1, TransitIs
  <2> QED BY <2>3, <2>4, <2>5, <2>6, TransitIs
<1>13. SizeExact' /\ size_' \in 0..Capacity
  <2>1. PICK s, t : s = FreePages \cup InTransit /\ t = (FreePages \cup InTransit)'
    OBVIOUS
  <2>2. t = FreePages \cup InTransit'
    BY <2>1, <1>7
  <2>3. \A d \in Clients : pc[d] \in InHand => id[d] \in Ids
    BY <1>2 DEF Placed, InHand
  <2>4. s \subseteq Ids
    BY <2>1, <2>3, TransitIs DEF FreePages
  <2>5. IsFiniteSet(s)
    BY <2>4, IdsFinite, FS_Subset
  <2>6. i \notin s /\ i \in t /\ \A x : x # i => (x \in s <=> x \in t)
    BY <2>1, <2>2, <1>12
  <2>7. t \subseteq Ids /\ IsFiniteSet(t) /\ Cardinality(t) <= Capacity
    <3>1. t \subseteq Ids
      BY <2>4, <2>6, <1>5
    <3> QED BY <3>1, IdsFinite, FS_Subset
  <2>8. Cardinality(t) = Cardinality(s) + 1
    BY <2>5, <2>6, <2>7, OneElement
  <2>9. size_ = Cardinality(s) /\ size_' = size_ + 1
    BY <2>1, <1>2, <1>3 DEF SizeExact
  <2>10. SizeExact'
    BY <2>1, <2>8, <2>9 DEF SizeExact
  <2>11. size_' \in 0..Capacity
    BY <2>7, <2>8, <2>9, <1>5, CapacityAssumption
  <2> QED BY <2>10, <2>11
<1>14. TypeOK'
  <2>1. pc' \in [Clients -> Steps] /\ id' \in [Clients -> Nat]
    BY <1>1, <1>3, <1>5 DEF Steps
  <2>2. owned' \in [Clients -> SUBSET Ids]
    BY <1>1, <1>5
  <2>3. inner' = inner /\ leaf' = leaf /\ at' = at
    BY <1>3 DEF tree
  <2> QED BY <2>1, <2>2, <2>3, <1>2, <1>13 DEF TypeOK, Positions
<1> QED BY <1>7, <1>10, <1>11, <1>13, <1>14 DEF IInv

----------------------------------------------------------------------------
(* The constructors *)

\* Nobody uses the stack yet.
LEMMA InitClients ==
  ASSUME Init
  PROVE  /\ pc \in [Clients -> Steps] /\ id \in [Clients -> Nat]
         /\ at \in [Clients -> InnerPositions(Capacity) \cup LeafPositions(Capacity)]
         /\ Placed /\ Moving = {} /\ (\A p : MovingAt(p) = {}) /\ InTransit = {}
         /\ \A c \in Clients : Held(c) = owned[c]
<1>1. \A c \in Clients : pc[c] = "idle" /\ at[c] = Root
  BY DEF Init
<1>2. pc \in [Clients -> Steps] /\ id \in [Clients -> Nat]
  BY DEF Init, Steps
<1>3. at \in [Clients -> InnerPositions(Capacity) \cup LeafPositions(Capacity)]
  BY RootIs DEF Init
<1>4. Placed
  BY <1>1 DEF Placed
<1>5. Moving = {} /\ (\A p : MovingAt(p) = {})
  BY <1>1 DEF Moving, MovingAt
<1>6. InTransit = {}
  BY <1>1 DEF InTransit
<1>7. \A c \in Clients : Held(c) = owned[c]
  BY <1>1 DEF Held
<1> QED BY <1>2, <1>3, <1>4, <1>5, <1>6, <1>7

\* The counters of a node of a full tree are those of the IDs below.
LEMMA FullInnerIs ==
  ASSUME NEW p \in InnerPositions(Capacity)
  PROVE  /\ FullInner(Capacity)[p] \in [Directions -> Nat]
         /\ \A dir \in Directions : FullInner(Capacity)[p][dir] = Cardinality(IdsBelow(Capacity, descend(p, dir)))
         /\ Available(FullInner(Capacity)[p]) = Cardinality(IdsBelow(Capacity, p))
<1> DEFINE S(dir) == IdsBelow(Capacity, descend(p, dir))
<1>1. FullInner(Capacity)[p] = [dir \in Directions |-> Cardinality(S(dir))]
  BY DEF FullInner
<1>2. \A dir : IsFiniteSet(S(dir)) /\ Cardinality(S(dir)) \in Nat
  <2>1. \A dir : IsFiniteSet(S(dir))
    BY IdsFinite
  <2> HIDE DEF S
  <2> QED BY <2>1, FS_CardinalityType
<1>3. IdsBelow(Capacity, p) = S("dirLeft") \cup S("dirRight") /\ S("dirLeft") \cap S("dirRight") = {}
  BY IdsOfChildren
<1>4. PICK l, r : l = S("dirLeft") /\ r = S("dirRight")
  OBVIOUS
<1>5. Cardinality(l \cup r) = Cardinality(l) + Cardinality(r)
  <2>1. IsFiniteSet(l) /\ IsFiniteSet(r) /\ Cardinality(l) \in Nat /\ Cardinality(r) \in Nat
    BY <1>2, <1>4
  <2>2. l \cap r = {}
    BY <1>3, <1>4
  <2>3. Cardinality(l \cap r) = 0
    BY <2>2, FS_EmptySet
  <2>4. Cardinality(l \cup r) = Cardinality(l) + Cardinality(r) - Cardinality(l \cap r)
    BY <2>1, FS_Union
  <2> QED BY <2>1, <2>3, <2>4
<1> HIDE DEF S
<1>6. Available(FullInner(Capacity)[p]) = Cardinality(S("dirLeft")) + Cardinality(S("dirRight"))
  BY <1>1 DEF Available, Directions
<1>7. Available(FullInner(Capacity)[p]) = Cardinality(IdsBelow(Capacity, p))
  BY <1>3, <1>4, <1>5, <1>6
<1>8. FullInner(Capacity)[p] \in [Directions -> Nat]
  BY <1>1, <1>2
<1>9. \A dir \in Directions : FullInner(Capacity)[p][dir] = Cardinality(S(dir))
  BY <1>1
<1> QED BY <1>7, <1>8, <1>9 DEF S

\* A stack that is created full.
LEMMA FullInit ==
  ASSUME Init, FullStack
  PROVE  IInv
<1>1. PICK unusedLeaf \in [LeafPositions(Capacity) -> {{}, Bits}] :
        leaf = [p \in LeafPositions(Capacity) |-> IF HasIds(p) THEN FullLeaf(Capacity, p) ELSE unusedLeaf[p]]
  BY DEF FullStack, FullTree
<1>2. PICK unused \in [InnerPositions(Capacity) -> {0, BitsPerLeaf}] :
        inner = [p \in InnerPositions(Capacity) |->
                   IF p = Root \/ HasIds(p) THEN FullInner(Capacity)[p]
                   ELSE [dir \in Directions |-> unused[p] * 2^(Height - 1 - p[1])]]
  BY DEF FullStack, FullTree
<1>3. size_ = Capacity /\ owned = [c \in Clients |-> {}]
  BY DEF FullStack
<1>4. \A p \in InnerPositions(Capacity) : Used(p) => inner[p] = FullInner(Capacity)[p]
  BY <1>2 DEF Used
<1>5. \A p \in LeafPositions(Capacity) : HasIds(p) => leaf[p] = FullLeaf(Capacity, p)
  BY <1>1
<1>6. inner \in [InnerPositions(Capacity) -> [Directions -> Nat]]
  <2>1. ASSUME NEW p \in InnerPositions(Capacity) PROVE unused[p] * 2^(Height - 1 - p[1]) \in Nat
    <3>1. Height - 1 - p[1] \in 0..30
      <4>1. p[1] \in 0..(Height - 1) /\ Height \in 1..30
        BY PositionIs, HeightFacts
      <4> QED BY <4>1
    <3>2. PICK w, b : w = 2^(Height - 1 - p[1]) /\ b = unused[p]
      OBVIOUS
    <3>3. w \in Nat /\ b \in Nat
      <4>1. w \in Nat
        BY <3>1, <3>2, PowersPositive
      <4>2. b \in Nat
        BY <3>2, BitsPerLeafAssumption
      <4> QED BY <4>1, <4>2
    <3>4. b * w \in Nat
      BY <3>3
    <3> QED BY <3>2, <3>4
  <2>2. \A p \in InnerPositions(Capacity) : [dir \in Directions |-> unused[p] * 2^(Height - 1 - p[1])] \in [Directions -> Nat]
    BY <2>1
  <2>3. \A p \in InnerPositions(Capacity) : FullInner(Capacity)[p] \in [Directions -> Nat]
    BY FullInnerIs
  <2> QED BY <1>2, <2>2, <2>3
<1>7. leaf \in [LeafPositions(Capacity) -> SUBSET Bits]
  <2>1. \A p \in LeafPositions(Capacity) : FullLeaf(Capacity, p) \in SUBSET Bits
    BY FullLeafSize
  <2> QED BY <2>1, <1>1
<1>8. TypeOK
  <2>1. size_ \in 0..Capacity
    BY <1>3, CapacityAssumption
  <2>2. owned \in [Clients -> SUBSET Ids]
    BY <1>3
  <2> QED BY <2>1, <2>2, <1>6, <1>7, InitClients DEF TypeOK
<1>9. LeavesFit
  BY <1>5, FullLeafSize DEF LeavesFit
<1>10. FreePages = Ids
  <2>1. \A page \in Ids : bitOf(page) \in leaf[leafOf(Capacity, page)]
    BY <1>5, LeafOfId, FullLeafSize
  <2> QED BY <2>1 DEF FreePages
<1>11. PagesPlaced
  BY <1>3, <1>10, InitClients DEF PagesPlaced
<1>12. SizeExact
  <2>1. FreePages \cup InTransit = Ids
    BY <1>10, InitClients
  <2> QED BY <2>1, <1>3, IdsFinite DEF SizeExact
<1>13. Balanced
  <2>1. inner[Root] = FullInner(Capacity)[Root]
    BY <1>4, RootIs DEF Used
  <2>2. Available(inner[Root]) = Capacity
    BY <2>1, RootIs, FullInnerIs, IdsOfRoot, IdsFinite
  <2>3. Cardinality(Moving) = 0
    BY InitClients, FS_EmptySet
  <2>4. Capacity + 0 = Capacity
    BY CapacityAssumption
  <2> QED BY <2>2, <2>3, <2>4, <1>10, IdsFinite DEF Balanced
<1>14. Promises
  <2> SUFFICES ASSUME NEW p \in Below PROVE Promised(p)
    BY DEF Promises
  <2>1. /\ ascend(p) \in InnerPositions(Capacity) /\ ascendDirection(p) \in Directions
        /\ descend(ascend(p), ascendDirection(p)) = p
    BY Ascending
  <2>2. Used(ascend(p)) => Counter(p) = Cardinality(IdsBelow(Capacity, p))
    BY <2>1, <1>4, FullInnerIs DEF Counter
  <2>3. CASE HasIds(p)
    <3>1. Used(ascend(p))
      BY <2>3, UsedUp DEF Used
    <3>2. IdsAt(p) = Cardinality(IdsBelow(Capacity, p))
      <4>1. CASE p[1] = Height
        BY <4>1, <2>3, <1>5, RootIs, FullLeafSize DEF IdsAt
      <4>2. CASE p[1] # Height
        <5>1. p \in InnerPositions(Capacity) /\ Used(p)
          BY <4>2, <2>3, RootIs DEF Used
        <5> QED BY <5>1, <4>2, <1>4, FullInnerIs DEF IdsAt
      <4> QED BY <4>1, <4>2
    <3>3. Cardinality(MovingAt(p)) = 0
      BY InitClients, FS_EmptySet
    <3>4. PICK n : n = Cardinality(IdsBelow(Capacity, p))
      OBVIOUS
    <3>5. n \in Nat
      BY <3>4, IdsFinite, FS_CardinalityType
    <3>6. n + 0 = n
      BY <3>5
    <3> QED BY <3>1, <3>2, <3>3, <3>4, <3>6, <2>2, <2>3 DEF Promised
  <2>4. CASE ~HasIds(p)
    <3>1. Cardinality(IdsBelow(Capacity, p)) = 0
      BY <2>4, FS_EmptySet DEF HasIds
    <3> QED BY <3>1, <2>2, <2>4 DEF Promised
  <2> QED BY <2>3, <2>4
<1> QED BY <1>8, <1>9, <1>11, <1>12, <1>13, <1>14, InitClients DEF IInv

\* A stack that is created empty.
LEMMA EmptyInit ==
  ASSUME Init, EmptyStack
  PROVE  IInv
<1>1. /\ leaf = [p \in LeafPositions(Capacity) |-> {}]
      /\ inner = [p \in InnerPositions(Capacity) |-> [dir \in Directions |-> 0]]
      /\ size_ = 0
  BY DEF EmptyStack
<1>2. PICK creator \in Clients : owned = [c \in Clients |-> IF c = creator THEN Ids ELSE {}]
  BY DEF EmptyStack
<1>3. TypeOK
  <2>1. inner \in [InnerPositions(Capacity) -> [Directions -> Nat]]
    BY <1>1
  <2>2. leaf \in [LeafPositions(Capacity) -> SUBSET Bits]
    BY <1>1
  <2>3. size_ \in 0..Capacity
    BY <1>1, CapacityAssumption
  <2>4. owned \in [Clients -> SUBSET Ids]
    BY <1>2
  <2> QED BY <2>1, <2>2, <2>3, <2>4, InitClients DEF TypeOK
<1>4. \A p \in InnerPositions(Capacity) : Available(inner[p]) = 0 /\ \A dir \in Directions : inner[p][dir] = 0
  BY <1>1 DEF Available, Directions
<1>5. \A p \in LeafPositions(Capacity) : leaf[p] = {}
  BY <1>1
<1>6. LeavesFit
  BY <1>5 DEF LeavesFit
<1>7. FreePages = {}
  BY <1>5, LeafOfId DEF FreePages
<1>8. PagesPlaced
  <2>1. \A c \in Clients : Held(c) = IF c = creator THEN Ids ELSE {}
    BY <1>2, InitClients
  <2> QED BY <2>1, <1>7 DEF PagesPlaced
<1>9. Cardinality({}) = 0
  BY FS_EmptySet
<1>10. SizeExact
  <2>1. FreePages \cup InTransit = {}
    BY <1>7, InitClients
  <2> QED BY <2>1, <1>1, <1>9 DEF SizeExact
<1>11. Balanced
  <2>1. Available(inner[Root]) = 0
    BY <1>4, RootIs
  <2>2. Cardinality(Moving) = 0 /\ Cardinality(FreePages) = 0
    BY <1>7, <1>9, InitClients
  <2> QED BY <2>1, <2>2 DEF Balanced
<1>12. Promises
  <2> SUFFICES ASSUME NEW p \in Below PROVE Promised(p)
    BY DEF Promises
  <2>1. Counter(p) = 0
    BY <1>4, Ascending DEF Counter
  <2>2. IdsAt(p) = 0
    BY <1>4, <1>5, <1>9, RootIs DEF IdsAt
  <2>3. Cardinality(MovingAt(p)) = 0
    BY <1>9, InitClients
  <2> QED BY <2>1, <2>2, <2>3 DEF Promised
<1> QED BY <1>3, <1>6, <1>8, <1>10, <1>11, <1>12, InitClients DEF IInv

----------------------------------------------------------------------------
(* The theorems *)

\* Every operation of the stack preserves the inductive invariant.
LEMMA StepInv == IInv /\ [Next]_vars => IInv'
<1> SUFFICES ASSUME IInv, [Next]_vars PROVE IInv'
  OBVIOUS
<1>1. CASE UNCHANGED vars
  <2>1. /\ inner' = inner /\ leaf' = leaf /\ size_' = size_ /\ pc' = pc /\ at' = at /\ id' = id
        /\ owned' = owned
    BY <1>1 DEF vars
  <2>2. FreePages' = FreePages /\ InTransit' = InTransit /\ Moving' = Moving
    BY <2>1 DEF FreePages, InTransit, Moving
  <2>3. \A p : MovingAt(p)' = MovingAt(p) /\ Counter(p)' = Counter(p) /\ IdsAt(p)' = IdsAt(p)
    BY <2>1 DEF MovingAt, Counter, IdsAt
  <2>4. \A c : Held(c)' = Held(c)
    BY <2>1 DEF Held
  <2>5. TypeOK' /\ Placed' /\ LeavesFit'
    BY <2>1 DEF IInv, TypeOK, Placed, LeavesFit, HasIds
  <2>6. Promises'
    BY <2>3 DEF IInv, Promises, Promised, HasIds, Used
  <2>7. Balanced' /\ SizeExact' /\ PagesPlaced'
    BY <2>1, <2>2, <2>4 DEF IInv, Balanced, SizeExact, PagesPlaced
  <2> QED BY <2>5, <2>6, <2>7 DEF IInv
<1>2. ASSUME NEW c \in Clients,
             PopNothing(c) \/ PopInner(c) \/ PopLeaf(c) \/ PopSize(c) \/ PushSize(c) \/ PushLeaf(c) \/ PushInner(c)
      PROVE  IInv'
  <2>1. CASE PopNothing(c)
    BY <2>1, <1>1 DEF PopNothing
  <2>2. CASE PopInner(c)
    BY <2>2, PopInnerStep
  <2>3. CASE PopLeaf(c)
    BY <2>3, PopLeafStep
  <2>4. CASE PopSize(c)
    BY <2>4, PopSizeStep
  <2>5. CASE PushSize(c)
    BY <2>5, PushSizeStep
  <2>6. CASE PushLeaf(c)
    BY <2>6, PushLeafStep
  <2>7. CASE PushInner(c)
    BY <2>7, PushInnerStep
  <2> QED BY <1>2, <2>1, <2>2, <2>3, <2>4, <2>5, <2>6, <2>7
<1> QED BY <1>1, <1>2 DEF Next

\* The inductive invariant holds: at every node below the root, the counter
\* of its parent plus the clients on their way through it is what the subtree
\* has, whatever pops and pushes run at the same time.
THEOREM InductiveInvariant == Spec => []IInv
<1>1. Init => IInv
  BY FullInit, EmptyInit DEF Init
<1> QED BY <1>1, StepInv, PTL DEF Spec

\* The state of a PageStack is well-formed; size_ never exceeds the capacity.
THEOREM TypeCorrect == Spec => []TypeOK
<1>1. IInv => TypeOK
  BY DEF IInv
<1> QED BY <1>1, InductiveInvariant, PTL

\* What innerPop() promises is there: see Reservations of PageStack.
THEOREM PromisesKept == Spec => []Reservations
<1>1. IInv => Reservations
  <2> SUFFICES ASSUME IInv, NEW pos \in InnerPositions(Capacity), NEW dir \in Directions
               PROVE  LET child == descend(pos, dir)
                      IN  IF HasIds(child)
                          THEN inner[pos][dir] + Cardinality(PopsAt(child)) + Cardinality(PushesAt(child)) = IdsAt(child)
                          ELSE HasIds(pos) \/ pos = Root => inner[pos][dir] = 0
    BY DEF Reservations
  <2>1. PICK child : child = descend(pos, dir)
    OBVIOUS
  <2>2. child \in Below /\ ascend(child) = pos /\ ascendDirection(child) = dir
    BY <2>1, Descending
  <2>3. Promised(child) /\ Counter(child) = inner[pos][dir]
    BY <2>2 DEF IInv, Promises, Counter
  <2>4. PICK s, t, u : s = PopsAt(child) /\ t = PushesAt(child) /\ u = MovingAt(child)
    OBVIOUS
  <2>5. u = s \cup t /\ s \cap t = {}
    BY <2>4 DEF PopsAt, PushesAt, MovingAt
  <2>6. IsFiniteSet(u) /\ IsFiniteSet(s) /\ IsFiniteSet(t)
    BY <2>4, <2>5, CountsFinite, FS_Subset
  <2>7. PICK k, l, m, n : k = inner[pos][dir] /\ l = Cardinality(s) /\ m = Cardinality(t) /\ n = Cardinality(u)
    OBVIOUS
  <2>8. k \in Nat /\ l \in Nat /\ m \in Nat /\ n \in Nat
    BY <2>2, <2>3, <2>6, <2>7, NodeTypes, FS_CardinalityType DEF IInv
  <2>9. n = l + m
    <3>1. Cardinality(s \cap t) = 0
      BY <2>5, FS_EmptySet
    <3>2. Cardinality(s \cup t) = Cardinality(s) + Cardinality(t) - Cardinality(s \cap t)
      BY <2>6, FS_Union
    <3> QED BY <3>1, <3>2, <2>5, <2>7, <2>8
  <2>10. (k + l) + m = k + n
    BY <2>8, <2>9
  <2>11. CASE HasIds(child)
    <3>1. k + n = IdsAt(child)
      BY <2>3, <2>4, <2>7, <2>11 DEF Promised
    <3> QED BY <3>1, <2>1, <2>4, <2>7, <2>10, <2>11
  <2>12. CASE ~HasIds(child)
    BY <2>1, <2>2, <2>3, <2>12 DEF Promised, Used
  <2> QED BY <2>11, <2>12
<1> QED BY <1>1, InductiveInvariant, PTL

\* The assertions of pop() and push() never fail: see AssertionsHold.
THEOREM NoAssertionFails == Spec => []AssertionsHold
<1>1. IInv => AssertionsHold
  <2> SUFFICES ASSUME IInv, NEW c \in Clients
               PROVE  /\ pc[c] = "descending" => HasIds(at[c]) /\ IdsAt(at[c]) > 0
                      /\ pc[c] = "pushing" => bitOf(id[c]) \notin leaf[leafOf(Capacity, id[c])]
                      /\ pc[c] \in {"popped", "pushing"} => id[c] \in Ids
    BY DEF AssertionsHold
  <2>1. Placed /\ Promises /\ PagesPlaced /\ TypeOK
    BY DEF IInv
  <2>2. ASSUME pc[c] = "descending" PROVE HasIds(at[c]) /\ IdsAt(at[c]) > 0
    <3>1. PICK p : p = at[c]
      OBVIOUS
    <3>2. p \in Below /\ HasIds(p)
      BY <2>1, <2>2, <3>1 DEF Placed
    <3>3. c \in MovingAt(p)
      BY <2>2, <3>1 DEF MovingAt
    <3>4. PICK k, m, n : k = Counter(p) /\ m = Cardinality(MovingAt(p)) /\ n = IdsAt(p)
      OBVIOUS
    <3>5. k \in Nat /\ m \in Nat /\ n \in Nat /\ k + m = n
      BY <2>1, <3>2, <3>4, NodeTypes, CountsFinite DEF Promises, Promised
    <3>6. m # 0
      BY <3>3, <3>4, CountsFinite, ZeroIsEmpty
    <3>7. n > 0
      BY <3>5, <3>6
    <3> QED BY <3>1, <3>2, <3>4, <3>7
  <2>3. pc[c] \in {"popped", "pushing"} => id[c] \in Ids
    BY <2>1 DEF Placed
  <2>4. ASSUME pc[c] = "pushing" PROVE bitOf(id[c]) \notin leaf[leafOf(Capacity, id[c])]
    <3>1. id[c] \in Held(c)
      BY <2>4 DEF Held
    <3>2. id[c] \notin FreePages
      BY <3>1, <2>1 DEF PagesPlaced
    <3> QED BY <3>2, <2>3, <2>4 DEF FreePages
  <2> QED BY <2>2, <2>3, <2>4
<1> QED BY <1>1, InductiveInvariant, PTL

\* A page is free or in one pair of hands: see NoPageLostOrShared.
THEOREM PagesSafe == Spec => []NoPageLostOrShared
<1>1. IInv => NoPageLostOrShared
  <2> SUFFICES ASSUME IInv PROVE NoPageLostOrShared
    OBVIOUS
  <2>1. /\ \A page \in Ids : page \in FreePages \/ \E c \in Clients : page \in Held(c)
        /\ \A c \in Clients : Held(c) \cap FreePages = {}
        /\ \A c, d \in Clients : c # d => Held(c) \cap Held(d) = {}
    BY DEF IInv, PagesPlaced
  <2>2. \A c \in Clients : owned[c] \subseteq Ids /\ (pc[c] \in InHand => id[c] \in Ids /\ id[c] \notin owned[c])
    BY DEF IInv, TypeOK, Placed, InHand
  <2>3. \A c \in Clients : \A x : x \in Held(c) <=> x \in owned[c] \/ (pc[c] \in InHand /\ x = id[c])
    BY DEF Held, InHand
  <2>4. \A x : x \in InTransit <=> \E c \in Clients : pc[c] \in InHand /\ x = id[c]
    BY TransitIs
  <2> DEFINE Owned == UNION {owned[c] : c \in Clients}
  <2>5. \A x : x \in Owned <=> \E c \in Clients : x \in owned[c]
    OBVIOUS
  <2>6. FreePages \subseteq Ids
    BY DEF FreePages
  <2> HIDE DEF Owned
  <2>7. Ids = FreePages \cup InTransit \cup Owned
    <3>1. ASSUME NEW x \in Ids PROVE x \in FreePages \cup InTransit \cup Owned
      BY <2>1, <2>3, <2>4, <2>5
    <3>2. FreePages \cup InTransit \cup Owned \subseteq Ids
      BY <2>2, <2>4, <2>5, <2>6
    <3> QED BY <3>1, <3>2
  <2>8. FreePages \cap InTransit = {}
    BY <2>1, <2>3, <2>4
  <2>9. \A c \in Clients : owned[c] \cap (FreePages \cup InTransit) = {}
    <3> SUFFICES ASSUME NEW c \in Clients, NEW x \in owned[c], x \in FreePages \cup InTransit PROVE FALSE
      OBVIOUS
    <3>1. x \in Held(c)
      BY <2>3
    <3>2. x \notin FreePages
      BY <3>1, <2>1
    <3>3. PICK d \in Clients : pc[d] \in InHand /\ x = id[d]
      BY <3>2, <2>4
    <3>4. d # c
      BY <3>3, <2>2
    <3>5. x \in Held(d)
      BY <3>3, <2>3
    <3> QED BY <3>1, <3>4, <3>5, <2>1
  <2>10. \A c, d \in Clients : c # d =>
           /\ owned[c] \cap owned[d] = {}
           /\ {pc[c], pc[d]} \subseteq {"popped", "pushing"} => id[c] # id[d]
    <3> SUFFICES ASSUME NEW c \in Clients, NEW d \in Clients, c # d
                 PROVE  /\ owned[c] \cap owned[d] = {}
                        /\ {pc[c], pc[d]} \subseteq {"popped", "pushing"} => id[c] # id[d]
      OBVIOUS
    <3>1. Held(c) \cap Held(d) = {}
      BY <2>1
    <3>2. owned[c] \cap owned[d] = {}
      BY <3>1, <2>3
    <3>3. pc[c] \in InHand /\ pc[d] \in InHand => id[c] # id[d]
      BY <3>1, <2>3
    <3> QED BY <3>2, <3>3 DEF InHand
  <2> QED BY <2>7, <2>8, <2>9, <2>10 DEF NoPageLostOrShared, Owned
<1> QED BY <1>1, InductiveInvariant, PTL

\* pop() fails only if every free page is promised or not yet known of: see
\* PopFailsOnlyWhenBusy.
THEOREM PopFindsFreePages == Spec => []PopFailsOnlyWhenBusy
<1>1. IInv => PopFailsOnlyWhenBusy
  <2> SUFFICES ASSUME IInv, Available(inner[Root]) = 0
               PROVE  Cardinality(FreePages) <= Cardinality(Moving)
    BY DEF PopFailsOnlyWhenBusy, Moving
  <2>1. PICK m, n : m = Cardinality(Moving) /\ n = Cardinality(FreePages)
    OBVIOUS
  <2>2. m \in Nat /\ n \in Nat /\ 0 + m = n
    BY <2>1, CountsFinite DEF IInv, Balanced
  <2> QED BY <2>1, <2>2
<1> QED BY <1>1, InductiveInvariant, PTL
----------------------------------------------------------------------------
(* IdSet::makeFullBeforeSharing() leaves what FullStack starts from: the   *)
(* proof of the invariant of IdSetFill for every capacity.                 *)

\* The IDs of a position of a level if there are no extra ones, the number of
\* positions of the level that have that many, and what the next one has.
IdsPer(l) == BitsPerLeaf * 2^(Height - l)
Whole(l) == Capacity \div IdsPer(l)
Rest(l) == Capacity % IdsPer(l)
Share(l, o) == IF o < Whole(l) THEN IdsPer(l) ELSE IF o = Whole(l) THEN Rest(l) ELSE 0

\* A quotient and what is left determine a number.
LEMMA Quotient ==
  ASSUME NEW d \in Nat \ {0}, NEW i \in Nat, NEW o \in Nat
  PROVE  i \div d = o <=> o * d <= i /\ i < o * d + d
<1>1. PICK q, r, t : q = i \div d /\ r = i % d /\ t = o * d
  OBVIOUS
<1>2. q \in Nat /\ r \in 0..(d - 1) /\ i = q * d + r /\ t \in Nat
  BY <1>1
<1>3. CASE q <= o - 1
  <2>1. q * d <= (o - 1) * d /\ (o - 1) * d = t - d /\ q * d \in Nat
    BY <1>1, <1>2, <1>3
  <2> QED BY <2>1, <1>1, <1>2, <1>3
<1>4. CASE q >= o + 1
  <2>1. q * d >= (o + 1) * d /\ (o + 1) * d = t + d /\ q * d \in Nat
    BY <1>1, <1>2, <1>4
  <2> QED BY <2>1, <1>1, <1>2, <1>4
<1>5. CASE q = o
  BY <1>1, <1>2, <1>5
<1> QED BY <1>2, <1>3, <1>4, <1>5

\* Products of natural numbers in order.
LEMMA Products ==
  ASSUME NEW d \in Nat \ {0}, NEW m \in Nat, NEW n \in Nat, m < n
  PROVE  m * d \in Nat /\ n * d \in Nat /\ m * d + d <= n * d
<1>1. (m + 1) * d <= n * d /\ (m + 1) * d = m * d + d
  OBVIOUS
<1> QED BY <1>1

\* A level has twice the share of the one below.
LEMMA Level ==
  ASSUME NEW l \in 0..Height
  PROVE  /\ IdsPer(l) \in Nat \ {0} /\ Whole(l) \in Nat /\ Rest(l) \in 0..(IdsPer(l) - 1)
         /\ Capacity = Whole(l) * IdsPer(l) + Rest(l) /\ Whole(l) * IdsPer(l) \in Nat
<1>1. Height - l \in 0..30 /\ l \in Nat
  BY HeightFacts
<1>2. PICK b, w : b = BitsPerLeaf /\ w = 2^(Height - l)
  OBVIOUS
<1>3. b \in Nat \ {0} /\ w \in Nat \ {0}
  BY <1>1, <1>2, PowersPositive, BitsPerLeafAssumption
<1>4. PICK d, q, r : d = IdsPer(l) /\ q = Whole(l) /\ r = Rest(l)
  OBVIOUS
<1>5. d = b * w /\ q = Capacity \div d /\ r = Capacity % d
  BY <1>2, <1>4 DEF IdsPer, Whole, Rest
<1>6. b * w \in Nat \ {0}
  BY <1>3
<1>7. d \in Nat \ {0} /\ Capacity \in Nat
  BY <1>5, <1>6, CapacityAssumption
<1>8. q \in Nat /\ r \in 0..(d - 1) /\ Capacity = q * d + r /\ q * d \in Nat
  BY <1>5, <1>7
<1> QED BY <1>4, <1>7, <1>8

\* A level and the one above it.
LEMMA LevelAbove ==
  ASSUME NEW l \in 1..Height
  PROVE  /\ l - 1 \in 0..(Height - 1) /\ IdsPer(l - 1) = 2 * IdsPer(l) /\ Whole(l - 1) = Whole(l) \div 2
         /\ Rest(l - 1) = Rest(l) + (IF Whole(l) % 2 = 0 THEN 0 ELSE IdsPer(l))
<1>1. Height \in 1..30 /\ l \in 0..Height /\ l - 1 \in 0..Height /\ l - 1 \in 0..(Height - 1)
  BY HeightFacts
<1>2. Height - l \in 0..30 /\ (Height - l) + 1 = Height - (l - 1)
  BY <1>1
<1>3. PICK b, w : b = BitsPerLeaf /\ w = 2^(Height - l)
  OBVIOUS
<1>4. b \in Nat \ {0} /\ w \in Nat \ {0} /\ 2^(Height - (l - 1)) = 2 * w
  BY <1>2, <1>3, Powers, BitsPerLeafAssumption DEF Doubles
<1>5. PICK d, q, r, e, u, v : d = IdsPer(l) /\ q = Whole(l) /\ r = Rest(l) /\ e = IdsPer(l - 1) /\ u = Whole(l - 1) /\ v = Rest(l - 1)
  OBVIOUS
<1>6. d = b * w /\ e = b * (2 * w) /\ q = Capacity \div d /\ u = Capacity \div e
  BY <1>3, <1>4, <1>5 DEF IdsPer, Whole
<1>7. b * (2 * w) = 2 * (b * w) /\ b * (2 * w) = (b * w) * 2 /\ b * w \in Nat \ {0}
  BY <1>4
<1>8. e = 2 * d /\ e = d * 2 /\ d \in Nat \ {0}
  BY <1>6, <1>7
<1>9. u = q \div 2
  BY <1>6, <1>8, Halves, CapacityAssumption
<1>10. /\ q \in Nat /\ r \in 0..(d - 1) /\ Capacity = q * d + r /\ q * d \in Nat
       /\ u \in Nat /\ v \in 0..(e - 1) /\ Capacity = u * e + v /\ u * e \in Nat
  BY <1>1, <1>5, Level
<1>11. v = r + (IF q % 2 = 0 THEN 0 ELSE d)
  <2>1. PICK m : m = q % 2
    OBVIOUS
  <2>2. m \in 0..1 /\ q = u * 2 + m
    BY <2>1, <1>9, <1>10
  <2>3. CASE m = 0
    <3>1. q = u * 2
      BY <2>2, <2>3, <1>10
    <3>2. q * d = u * e
      <4>1. (u * 2) * d = u * (2 * d)
        BY <1>8, <1>10
      <4> QED BY <4>1, <3>1, <1>8
    <3> QED BY <3>2, <2>1, <2>3, <1>8, <1>10
  <2>4. CASE m = 1
    <3>1. q = u * 2 + 1
      BY <2>2, <2>4, <1>10
    <3>2. q * d = u * e + d
      <4>1. (u * 2 + 1) * d = u * (2 * d) + d
        BY <1>8, <1>10
      <4> QED BY <4>1, <3>1, <1>8
    <3> QED BY <3>2, <2>1, <2>4, <1>8, <1>10
  <2> QED BY <2>2, <2>3, <2>4
<1> QED BY <1>1, <1>5, <1>8, <1>9, <1>11

\* The tree has room for all IDs.
LEMMA Room == Whole(Height) <= 2^Height /\ IdsPer(Height) = BitsPerLeaf /\ Capacity <= 2^Height * BitsPerLeaf
<1>1. PICK b, w, r, q : b = BitsPerLeaf /\ w = 2^Height /\ r = requestedLeafNodeCount(Capacity) /\ q = Whole(Height)
  OBVIOUS
<1>2. Height \in 0..30 /\ Height \in 0..Height
  BY HeightFacts
<1>3. IdsPer(Height) = b
  <2>1. 2^(Height - Height) = 2^0
    BY HeightFacts
  <2>2. 2^0 = 1
    OBVIOUS
  <2> QED BY <2>1, <2>2, <1>1, BitsPerLeafAssumption DEF IdsPer
<1>4. b \in Nat \ {0} /\ w \in Nat \ {0} /\ r <= w /\ Capacity \in Nat /\ r = (Capacity + (b - 1)) \div b
  <2>1. w \in Nat \ {0} /\ w >= r
    BY <1>1, <1>2, PowersPositive, HeightFacts
  <2>2. b \in Nat \ {0} /\ Capacity \in Nat /\ r = (Capacity + (b - 1)) \div b
    BY <1>1, CapacityAssumption, BitsPerLeafAssumption DEF requestedLeafNodeCount
  <2>3. r \in Int
    BY <2>2
  <2> QED BY <2>1, <2>2, <2>3
<1>5. r \in Nat /\ Capacity <= b * r
  <2>1. r \in Nat /\ Capacity + (b - 1) < b * (r + 1)
    BY <1>4
  <2> QED BY <2>1, <1>4
<1>6. b * r <= b * w /\ b * r \in Nat /\ b * w \in Nat /\ w * b = b * w
  BY <1>4, <1>5
<1>7. Capacity <= w * b
  BY <1>4, <1>5, <1>6
<1>8. q \in Nat /\ q * b <= Capacity
  <2>1. q \in Nat /\ Capacity = q * b + Rest(Height) /\ Rest(Height) \in 0..(b - 1) /\ q * b \in Nat
    BY <1>1, <1>2, <1>3, Level
  <2> QED BY <2>1, <1>4
<1>9. q <= w
  <2>1. ASSUME w < q PROVE FALSE
    <3>1. w * b \in Nat /\ q * b \in Nat /\ w * b + b <= q * b
      BY <2>1, <1>4, <1>8, Products
    <3> QED BY <3>1, <1>4, <1>7, <1>8
  <2> QED BY <2>1, <1>4, <1>8
<1> QED BY <1>1, <1>3, <1>7, <1>9

\* The IDs below a position are an interval, cut at the capacity.
LEMMA Interval ==
  ASSUME NEW l \in 0..Height, NEW o \in Nat
  PROVE  /\ o * IdsPer(l) \in Nat
         /\ \A i : i \in IdsBelow(Capacity, <<l, o>>) <=>
                     i \in Nat /\ i < Capacity /\ o * IdsPer(l) <= i /\ i < o * IdsPer(l) + IdsPer(l)
<1>1. PICK d : d = IdsPer(l)
  OBVIOUS
<1>2. d \in Nat \ {0} /\ Capacity \in Nat
  BY <1>1, Level, CapacityAssumption
<1>3. o * d \in Nat
  BY <1>2
<1>4. \A i : i \in IdsBelow(Capacity, <<l, o>>) <=> i \in 0..(Capacity - 1) /\ i \div d = o
  BY <1>1 DEF IdsBelow, IdsPer, Height
<1>5. \A i \in Nat : i \div d = o <=> o * d <= i /\ i < o * d + d
  BY <1>2, Quotient
<1>6. \A i : i \in 0..(Capacity - 1) <=> i \in Nat /\ i < Capacity
  BY <1>2
<1> QED BY <1>1, <1>3, <1>4, <1>5, <1>6

\* How many they are.
LEMMA SharesCount ==
  ASSUME NEW l \in 0..Height, NEW o \in Nat
  PROVE  /\ Cardinality(IdsBelow(Capacity, <<l, o>>)) = Share(l, o)
         /\ Share(l, o) \in Nat
         /\ IdsBelow(Capacity, <<l, o>>) # {} => o <= Whole(l)
         /\ IdsBelow(Capacity, <<l, o>>) # {} => o < Whole(l) \/ Rest(l) > 0
<1>1. PICK d, q, r, a : d = IdsPer(l) /\ q = Whole(l) /\ r = Rest(l) /\ a = o * d
  OBVIOUS
<1>2. d \in Nat \ {0} /\ q \in Nat /\ r \in 0..(d - 1) /\ Capacity = q * d + r /\ q * d \in Nat /\ Capacity \in Nat
  BY <1>1, Level, CapacityAssumption
<1>3. a \in Nat /\ \A i : i \in IdsBelow(Capacity, <<l, o>>) <=> i \in Nat /\ i < Capacity /\ a <= i /\ i < a + d
  BY <1>1, Interval
<1>4. CASE o < q
  <2>1. a + d <= Capacity
    <3>1. o * d + d <= q * d
      BY <1>2, <1>4, Products
    <3> QED BY <3>1, <1>1, <1>2, <1>3
  <2>2. IdsBelow(Capacity, <<l, o>>) = a..(a + d - 1)
    <3>1. \A i : i \in a..(a + d - 1) <=> i \in Nat /\ i < Capacity /\ a <= i /\ i < a + d
      BY <2>1, <1>2, <1>3
    <3> QED BY <3>1, <1>3
  <2>3. Cardinality(a..(a + d - 1)) = IF a > a + d - 1 THEN 0 ELSE (a + d - 1) - a + 1
    <3>1. a \in Int /\ a + d - 1 \in Int
      BY <1>2, <1>3
    <3> QED BY <3>1, FS_Interval
  <2>4. Cardinality(a..(a + d - 1)) = d
    BY <2>3, <1>2, <1>3
  <2>5. Share(l, o) = d
    BY <1>1, <1>4 DEF Share
  <2> QED BY <2>2, <2>4, <2>5, <1>1, <1>2, <1>4
<1>5. CASE o = q
  <2>1. a = q * d /\ Capacity = a + r
    BY <1>1, <1>2, <1>5
  <2>2. IdsBelow(Capacity, <<l, o>>) = a..(a + r - 1)
    <3>1. \A i : i \in a..(a + r - 1) <=> i \in Nat /\ i < Capacity /\ a <= i /\ i < a + d
      BY <2>1, <1>2, <1>3
    <3> QED BY <3>1, <1>3
  <2>3. Cardinality(a..(a + r - 1)) = IF a > a + r - 1 THEN 0 ELSE (a + r - 1) - a + 1
    <3>1. a \in Int /\ a + r - 1 \in Int
      BY <1>2, <1>3
    <3> QED BY <3>1, FS_Interval
  <2>4. Cardinality(a..(a + r - 1)) = r
    BY <2>3, <1>2, <1>3
  <2>5. Share(l, o) = r
    BY <1>1, <1>2, <1>5 DEF Share
  <2>6. r = 0 => a..(a + r - 1) = {}
    BY <1>3
  <2>7. a..(a + r - 1) # {} => r > 0
    BY <2>6, <1>2
  <2>8. o <= q /\ r \in Nat
    BY <1>2, <1>5
  <2>9. IdsBelow(Capacity, <<l, o>>) # {} => r > 0
    BY <2>2, <2>7
  <2>10. Cardinality(IdsBelow(Capacity, <<l, o>>)) = Share(l, o) /\ Share(l, o) \in Nat
    BY <2>2, <2>4, <2>5, <2>8
  <2> QED BY <2>8, <2>9, <2>10, <1>1
<1>6. CASE o > q
  <2>1. Capacity < a
    <3>1. q * d + d <= o * d
      BY <1>2, <1>6, Products
    <3> QED BY <3>1, <1>1, <1>2, <1>3
  <2>2. IdsBelow(Capacity, <<l, o>>) = {}
    BY <2>1, <1>2, <1>3
  <2>3. Share(l, o) = 0
    BY <1>1, <1>2, <1>6 DEF Share
  <2> QED BY <2>2, <2>3, FS_EmptySet
<1> QED BY <1>2, <1>4, <1>5, <1>6

\* A full leaf: all bits are set, or those before the first extra ID.
LEMMA LeafShares ==
  ASSUME NEW o \in 0..(2^Height - 1), HasIds(<<Height, o>>)
  PROVE  FullLeaf(Capacity, <<Height, o>>) = IF o < Whole(Height) THEN Bits ELSE 0..(Rest(Height) - 1)
<1>1. PICK d, q, r, a : d = BitsPerLeaf /\ q = Whole(Height) /\ r = Rest(Height) /\ a = o * d
  OBVIOUS
<1>2. Height \in 0..Height /\ o \in Nat /\ IdsPer(Height) = d
  <2>1. 2^Height \in Nat
    BY HeightFacts, PowersPositive
  <2> QED BY <2>1, <1>1, HeightFacts, Room
<1>3. d \in Nat \ {0} /\ q \in Nat /\ r \in 0..(d - 1) /\ Capacity = q * d + r /\ q * d \in Nat /\ Capacity \in Nat
  BY <1>1, <1>2, Level, CapacityAssumption
<1>4. a \in Nat /\ \A i : i \in IdsBelow(Capacity, <<Height, o>>) <=> i \in Nat /\ i < Capacity /\ a <= i /\ i < a + d
  BY <1>1, <1>2, Interval
<1>5. o < q \/ o = q
  BY <1>1, <1>2, <1>3, SharesCount DEF HasIds
<1>6. \A b \in 0..(d - 1) : (a + b) % d = b
  <2>1. SUFFICES ASSUME NEW b \in 0..(d - 1) PROVE (a + b) % d = b
    OBVIOUS
  <2>2. <<Height, o>> \in LeafPositions(Capacity) /\ b \in Bits
    BY <1>1, PositionIs DEF Bits
  <2>3. bitOf(o * BitsPerLeaf + b) = b
    BY <2>2, IdOfLeaf
  <2> QED BY <2>3, <1>1 DEF bitOf
<1>7. \A b : b \in FullLeaf(Capacity, <<Height, o>>) <=> \E i \in IdsBelow(Capacity, <<Height, o>>) : b = i % d
  BY <1>1 DEF FullLeaf, bitOf
<1>8. \A b : b \in FullLeaf(Capacity, <<Height, o>>) <=> b \in 0..(d - 1) /\ a + b < Capacity
  <2>1. ASSUME NEW b, b \in FullLeaf(Capacity, <<Height, o>>) PROVE b \in 0..(d - 1) /\ a + b < Capacity
    <3>1. PICK i \in IdsBelow(Capacity, <<Height, o>>) : b = i % d
      BY <2>1, <1>7
    <3>2. i \in Nat /\ i < Capacity /\ a <= i /\ i < a + d
      BY <1>4
    <3>3. i - a \in 0..(d - 1) /\ a + (i - a) = i
      BY <3>2, <1>3, <1>4
    <3>4. b = i - a
      BY <3>1, <3>3, <1>6
    <3> QED BY <3>2, <3>3, <3>4
  <2>2. ASSUME NEW b \in 0..(d - 1), a + b < Capacity PROVE b \in FullLeaf(Capacity, <<Height, o>>)
    <3>1. a + b \in IdsBelow(Capacity, <<Height, o>>)
      BY <2>2, <1>3, <1>4
    <3> QED BY <3>1, <1>6, <1>7
  <2> QED BY <2>1, <2>2
<1>9. CASE o < q
  <2>1. o * d + d <= q * d
    BY <1>2, <1>3, <1>9, Products
  <2>2. a + d <= Capacity
    BY <2>1, <1>1, <1>3, <1>4
  <2>3. \A b \in 0..(d - 1) : a + b < Capacity
    BY <2>2, <1>3, <1>4
  <2> QED BY <2>3, <1>1, <1>8, <1>9 DEF Bits
<1>10. CASE o = q
  <2>1. Capacity = a + r
    BY <1>1, <1>3, <1>10
  <2>2. \A b : b \in 0..(d - 1) /\ a + b < Capacity <=> b \in 0..(r - 1)
    BY <2>1, <1>3, <1>4
  <2>3. FullLeaf(Capacity, <<Height, o>>) = 0..(r - 1)
    <3>1. \A b : b \in FullLeaf(Capacity, <<Height, o>>) <=> b \in 0..(r - 1)
      BY <2>2, <1>8
    <3>2. \A b : b \in FullLeaf(Capacity, <<Height, o>>) => b \in 0..(r - 1)
      BY <3>1
    <3> QED BY <3>1
  <2>4. ~(o < q)
    BY <1>2, <1>3, <1>10
  <2> QED BY <2>3, <2>4, <1>1
<1> QED BY <1>5, <1>9, <1>10

\* The counters of a full tree.
LEMMA InnerShares ==
  ASSUME NEW p \in InnerPositions(Capacity)
  PROVE  /\ p[1] \in 0..(Height - 1) /\ p[1] + 1 \in 1..Height /\ p[2] \in Nat /\ p = <<p[1], p[2]>>
         /\ FullInner(Capacity)[p] = [dir \in Directions |-> Share(p[1] + 1, p[2] * 2 + (IF dir = "dirRight" THEN 1 ELSE 0))]
<1>1. p[1] \in 0..(Height - 1) /\ p[2] \in 0..(2^p[1] - 1) /\ p = <<p[1], p[2]>> /\ Height \in 1..30
  BY PositionIs, HeightFacts
<1>2. p[1] + 1 \in 1..Height /\ p[1] + 1 \in 0..Height /\ p[2] \in Nat
  BY <1>1
<1>3. \A dir \in Directions : descend(p, dir) = <<p[1] + 1, p[2] * 2 + (IF dir = "dirRight" THEN 1 ELSE 0)>>
  BY DEF descend
<1>4. \A dir \in Directions : p[2] * 2 + (IF dir = "dirRight" THEN 1 ELSE 0) \in Nat
  BY <1>2
<1>5. \A dir \in Directions : Cardinality(IdsBelow(Capacity, descend(p, dir))) = Share(p[1] + 1, p[2] * 2 + (IF dir = "dirRight" THEN 1 ELSE 0))
  BY <1>2, <1>3, <1>4, SharesCount
<1>6. FullInner(Capacity)[p] = [dir \in Directions |-> Cardinality(IdsBelow(Capacity, descend(p, dir)))]
  BY DEF FullInner
<1> QED BY <1>1, <1>2, <1>5, <1>6

\* A node that is not on the path to the first extra ID is whole.
LEMMA WholeNode ==
  ASSUME NEW p \in InnerPositions(Capacity), p[2] < Whole(p[1])
  PROVE  FullInner(Capacity)[p] = [dir \in Directions |-> IdsPer(p[1] + 1)]
<1>1. PICK l, o, q : l = p[1] + 1 /\ o = p[2] /\ q = Whole(l)
  OBVIOUS
<1>2. l \in 1..Height /\ l \in 0..Height /\ l - 1 = p[1] /\ o \in Nat
  <2>1. p[1] \in 0..(Height - 1) /\ l \in 1..Height /\ o \in Nat
    BY <1>1, InnerShares
  <2>2. p[1] \in Nat /\ l = p[1] + 1
    BY <2>1, <1>1
  <2> QED BY <2>1, <2>2
<1>3. q \in Nat /\ Whole(l - 1) = q \div 2
  BY <1>1, <1>2, Level, LevelAbove
<1>4. o * 2 < q /\ o * 2 + 1 < q
  <2>1. o < q \div 2
    BY <1>1, <1>2, <1>3
  <2> QED BY <2>1, <1>2, <1>3
<1>5. Share(l, o * 2) = IdsPer(l) /\ Share(l, o * 2 + 1) = IdsPer(l) /\ o * 2 + 0 = o * 2
  BY <1>1, <1>2, <1>4 DEF Share
<1>6. \A dir \in Directions : Share(l, o * 2 + (IF dir = "dirRight" THEN 1 ELSE 0)) = IdsPer(l)
  BY <1>5 DEF Directions
<1>7. FullInner(Capacity)[p] = [dir \in Directions |-> Share(l, o * 2 + (IF dir = "dirRight" THEN 1 ELSE 0))]
  BY <1>1, InnerShares
<1> QED BY <1>1, <1>6, <1>7

\* The node on that path above a node of it.
LEMMA PathNode ==
  ASSUME NEW l \in 1..Height, <<l - 1, Whole(l - 1)>> \in InnerPositions(Capacity)
  PROVE  FullInner(Capacity)[<<l - 1, Whole(l - 1)>>] =
           IF Whole(l) % 2 = 0 THEN [dir \in Directions |-> IF dir = "dirRight" THEN 0 ELSE Rest(l)]
           ELSE [dir \in Directions |-> IF dir = "dirRight" THEN Rest(l) ELSE IdsPer(l)]
<1>1. PICK q, o, p : q = Whole(l) /\ o = Whole(l - 1) /\ p = <<l - 1, o>>
  OBVIOUS
<1>2. l \in 0..Height /\ (l - 1) + 1 = l /\ p[1] + 1 = l /\ p[2] = o
  BY <1>1, HeightFacts
<1>3. q \in Nat /\ o = q \div 2
  BY <1>1, <1>2, Level, LevelAbove
<1>4. o \in Nat /\ q = o * 2 + (q % 2) /\ q % 2 \in 0..1
  BY <1>3
<1>5. FullInner(Capacity)[p] = [dir \in Directions |-> Share(l, o * 2 + (IF dir = "dirRight" THEN 1 ELSE 0))]
  BY <1>1, <1>2, InnerShares
<1>6. CASE q % 2 = 0
  <2>1. o * 2 + 0 = q /\ ~(o * 2 + 1 < q) /\ ~(o * 2 + 1 = q) /\ ~(q < q)
    BY <1>3, <1>4, <1>6
  <2>2. Share(l, o * 2 + 0) = Rest(l) /\ Share(l, o * 2 + 1) = 0
    BY <2>1, <1>1 DEF Share
  <2>3. \A dir \in Directions : Share(l, o * 2 + (IF dir = "dirRight" THEN 1 ELSE 0)) = IF dir = "dirRight" THEN 0 ELSE Rest(l)
    BY <2>2
  <2> QED BY <2>3, <1>1, <1>5, <1>6
<1>7. CASE q % 2 = 1
  <2>1. o * 2 + 1 = q /\ o * 2 + 0 < q /\ ~(q < q)
    BY <1>3, <1>4, <1>7
  <2>2. Share(l, o * 2 + 0) = IdsPer(l) /\ Share(l, o * 2 + 1) = Rest(l)
    BY <2>1, <1>1 DEF Share
  <2>3. \A dir \in Directions : Share(l, o * 2 + (IF dir = "dirRight" THEN 1 ELSE 0)) = IF dir = "dirRight" THEN Rest(l) ELSE IdsPer(l)
    BY <2>2
  <2>4. ~(Whole(l) % 2 = 0)
    BY <1>1, <1>7
  <2>5. FullInner(Capacity)[<<l - 1, Whole(l - 1)>>] = [dir \in Directions |-> IF dir = "dirRight" THEN Rest(l) ELSE IdsPer(l)]
    BY <2>3, <1>1, <1>5
  <2> QED BY <2>4, <2>5
<1> QED BY <1>4, <1>6, <1>7

\* What the two specifications call by different names.
LEMMA SameMeasurements ==
  /\ innerLevelCount(Capacity) = Height /\ leafNodeCount(Capacity) = 2^Height
  /\ \A p : ascend(p) = <<p[1] - 1, p[2] \div 2>>
  /\ \A p : ascendDirection(p) = IF p[2] % 2 = 0 THEN "dirLeft" ELSE "dirRight"
BY DEF Height, leafNodeCount, ascend, ascendDirection

\* Above a level the counters count the extra IDs, too.
UncutAbove(l) == \A p \in InnerPositions(Capacity) : p[1] < l => inner[p] = [dir \in Directions |-> IdsPer(p[1] + 1)]
\* From a level down they are exact up to the path to the first extra ID.
CutFrom(l) == \A p \in InnerPositions(Capacity) :
                p[1] >= l /\ p[2] <= Whole(p[1]) => inner[p] = FullInner(Capacity)[p]
LeavesCut == \A p \in LeafPositions(Capacity) : HasIds(p) => leaf[p] = FullLeaf(Capacity, p)
LeavesFilled == \A p \in LeafPositions(Capacity) : leaf[p] = Bits
\* Whatever is not exact is as the first loop has left it, or cleared.
LeftAlone ==
  /\ \A p \in LeafPositions(Capacity) : ~HasIds(p) => leaf[p] = {} \/ leaf[p] = Bits
  /\ \A p \in InnerPositions(Capacity) :
       inner[p] = FullInner(Capacity)[p] \/ inner[p] = [dir \in Directions |-> IdsPer(p[1] + 1)]

\* The loops of makeFullBeforeSharing() keep this: the first fills the levels
\* from the leaves up; the second carries the number of extra IDs to the left
\* of the end of its position up the path to the first of them.
FillInv ==
  /\ capacity = Capacity
  /\ DOMAIN inner = InnerPositions(Capacity) /\ DOMAIN leaf = LeafPositions(Capacity)
  /\ phase = "fillLeaves" => place = <<Height, 0>>
  /\ phase = "fillInner" =>
       /\ LeavesFilled
       /\ \E l \in 1..Height :
            /\ place = <<l, 0>>
            /\ \A p \in InnerPositions(Capacity) : p[1] >= l => inner[p] = [dir \in Directions |-> IdsPer(p[1] + 1)]
  /\ phase = "truncateLeaves" => LeavesFilled /\ UncutAbove(Height) /\ Whole(Height) < 2^Height
  /\ phase = "truncateInner" =>
       /\ LeavesCut
       /\ \E l \in 1..Height :
            /\ place = <<l, Whole(l)>> /\ toSubtract = IdsPer(l) - Rest(l)
            /\ Whole(l) < 2^l
            /\ UncutAbove(l) /\ CutFrom(l)
  /\ phase = "done" => LeavesCut /\ CutFrom(0)
  /\ phase \in {"truncateLeaves", "truncateInner", "done"} => LeftAlone

\* Positions with IDs are not to the right of the path.
LEMMA UsedIsLeft ==
  ASSUME NEW p \in InnerPositions(Capacity), p = Root \/ IdsBelow(Capacity, p) # {}
  PROVE  p[1] >= 0 /\ p[2] <= Whole(p[1])
<1>1. p[1] \in 0..Height /\ p[1] \in Nat /\ p[2] \in Nat /\ p = <<p[1], p[2]>>
  <2>1. p[1] \in 0..(Height - 1) /\ p[2] \in Nat /\ p = <<p[1], p[2]>>
    BY InnerShares
  <2> QED BY <2>1, HeightFacts
<1>2. CASE p = Root
  <2>1. Whole(p[1]) \in Nat /\ p[2] = 0
    BY <1>1, <1>2, Level DEF Root
  <2> QED BY <2>1, <1>1
<1>3. CASE IdsBelow(Capacity, p) # {}
  BY <1>1, <1>3, SharesCount
<1> QED BY <1>2, <1>3

\* What the invariant is for.
LEMMA FillInvImplies == FillInv => FullWhenDone
<1> SUFFICES ASSUME FillInv, phase = "done"
             PROVE  /\ inner[Root] = FullInner(Capacity)[Root]
                    /\ \A p \in InnerPositions(Capacity) :
                         IdsBelow(Capacity, p) # {} => inner[p] = FullInner(Capacity)[p]
                    /\ \A p \in LeafPositions(Capacity) :
                         IdsBelow(Capacity, p) # {} => leaf[p] = FullLeaf(Capacity, p)
  BY SameMeasurements DEF FullWhenDone, FillInv
<1>1. LeavesCut /\ CutFrom(0)
  BY DEF FillInv
<1>2. Root \in InnerPositions(Capacity)
  BY RootIs
<1> QED BY <1>1, <1>2, UsedIsLeft DEF LeavesCut, CutFrom, HasIds

\* A fresh segment.
LEMMA FillStarts == FillInit /\ capacity = Capacity => FillInv
BY SameMeasurements DEF FillInit, FillInv

\* The bound of the positions of a level that are whole.
LEMMA WholeBounds ==
  ASSUME NEW l \in 1..Height, Whole(l) < 2^l
  PROVE  Whole(l - 1) < 2^(l - 1) /\ <<l - 1, Whole(l - 1)>> \in InnerPositions(Capacity)
<1>1. l - 1 \in 0..(Height - 1) /\ l - 1 \in 0..30 /\ (l - 1) + 1 = l /\ l \in 0..Height
  BY HeightFacts
<1>2. PICK w, q, o : w = 2^(l - 1) /\ q = Whole(l) /\ o = Whole(l - 1)
  OBVIOUS
<1>3. w \in Nat \ {0} /\ 2^l = 2 * w
  BY <1>1, <1>2, Powers DEF Doubles
<1>4. q \in Nat /\ o = q \div 2 /\ q < 2 * w
  BY <1>1, <1>2, <1>3, Level, LevelAbove
<1>5. o \in 0..(w - 1)
  BY <1>3, <1>4
<1> QED BY <1>1, <1>2, <1>3, <1>5, PositionIs

\* A tree without extra IDs has only whole positions.
LEMMA WholeTree ==
  ASSUME Capacity = 2^Height * BitsPerLeaf
  PROVE  \A l \in 0..Height : Whole(l) = 2^l
<1>1. Height \in 1..30 /\ Height \in 0..Height
  BY HeightFacts
<1>2. Whole(Height) = 2^Height
  <2>1. PICK b, w : b = BitsPerLeaf /\ w = 2^Height
    OBVIOUS
  <2>2. b \in Nat \ {0} /\ w \in Nat \ {0}
    <3>1. Height \in 0..30
      BY <1>1
    <3> QED BY <3>1, <2>1, PowersPositive, BitsPerLeafAssumption
  <2>3. Whole(Height) = Capacity \div b /\ Capacity \in Nat
    BY <2>1, Room, CapacityAssumption DEF Whole
  <2>4. Capacity = w * b
    BY <2>1
  <2>5. Capacity \div b = w
    <3>1. w * b <= Capacity /\ Capacity < w * b + b
      BY <2>2, <2>3, <2>4
    <3> QED BY <3>1, <2>2, <2>3, Quotient
  <2> QED BY <2>1, <2>3, <2>5
<1> DEFINE S == {n \in Nat : n <= Height => Whole(Height - n) = 2^(Height - n)}
<1>3. 0 \in S
  <2>1. Height - 0 = Height
    BY <1>1
  <2> QED BY <2>1, <1>2
<1>4. ASSUME NEW n \in Nat, n \in S PROVE n + 1 \in S
  <2>1. ASSUME n + 1 <= Height PROVE Whole(Height - (n + 1)) = 2^(Height - (n + 1))
    <3>1. PICK l : l = Height - n
      OBVIOUS
    <3>2. l \in 1..Height /\ l - 1 \in 0..30 /\ (l - 1) + 1 = l /\ n <= Height /\ Height - (n + 1) = l - 1
      BY <2>1, <3>1, <1>1
    <3>3. Whole(l) = 2^l
      BY <3>1, <3>2, <1>4
    <3>4. PICK w : w = 2^(l - 1)
      OBVIOUS
    <3>5. w \in Nat /\ 2^l = 2 * w
      BY <3>2, <3>4, Powers DEF Doubles
    <3>6. Whole(l - 1) = (2 * w) \div 2
      BY <3>2, <3>3, <3>5, LevelAbove
    <3> QED BY <3>2, <3>4, <3>5, <3>6
  <2> QED BY <2>1
<1>5. Nat \subseteq S
  <2> HIDE DEF S
  <2> QED BY <1>3, <1>4, NatSetInduction
<1>6. ASSUME NEW l \in 0..Height PROVE Whole(l) = 2^l
  <2>1. Height - l \in Nat /\ Height - l <= Height /\ Height - (Height - l) = l
    BY <1>1
  <2>2. Height - l \in S
    BY <2>1, <1>5
  <2> QED BY <2>1, <2>2
<1> QED BY <1>6

\* The leaves are filled first.
LEMMA FillLeavesStep == FillInv /\ fillLeaves => FillInv'
<1> SUFFICES ASSUME FillInv, fillLeaves PROVE FillInv'
  OBVIOUS
<1>0. capacity = Capacity /\ capacity' = Capacity
  BY DEF FillInv, fillLeaves
<1>1. /\ phase = "fillLeaves" /\ phase' = "fillInner"
      /\ leaf' = [p \in LeafPositions(Capacity) |-> Bits]
      /\ inner' = inner /\ place' = place
  BY <1>0, SameMeasurements DEF fillLeaves
<1>2. place = <<Height, 0>> /\ DOMAIN inner = InnerPositions(Capacity)
  BY <1>1 DEF FillInv
<1>3. \A p \in InnerPositions(Capacity) : ~(p[1] >= Height)
  BY PositionIs, HeightFacts
<1>4. Height \in 1..Height
  BY HeightFacts
<1>5. LeavesFilled'
  BY <1>1 DEF LeavesFilled
<1>6. /\ place' = <<Height, 0>>
      /\ \A p \in InnerPositions(Capacity) : p[1] >= Height => inner'[p] = [dir \in Directions |-> IdsPer(p[1] + 1)]
  BY <1>1, <1>2, <1>3
<1>7. DOMAIN inner' = InnerPositions(Capacity) /\ DOMAIN leaf' = LeafPositions(Capacity)
  BY <1>1, <1>2
<1> QED BY <1>0, <1>1, <1>4, <1>5, <1>6, <1>7 DEF FillInv

\* Then the levels above them.
LEMMA FillInnerStep == FillInv /\ fillInner => FillInv'
<1> SUFFICES ASSUME FillInv, fillInner PROVE FillInv'
  OBVIOUS
<1>0. capacity = Capacity /\ capacity' = Capacity
  BY DEF FillInv, fillInner
<1>1. phase = "fillInner" /\ leaf' = leaf
  BY DEF fillInner
<1>2. PICK l \in 1..Height :
        /\ place = <<l, 0>>
        /\ \A p \in InnerPositions(Capacity) : p[1] >= l => inner[p] = [dir \in Directions |-> IdsPer(p[1] + 1)]
  BY <1>1 DEF FillInv
<1>3. LeavesFilled /\ DOMAIN leaf = LeafPositions(Capacity)
  BY <1>1 DEF FillInv
<1>4. LeavesFilled' /\ DOMAIN leaf' = LeafPositions(Capacity)
  BY <1>1, <1>3 DEF LeavesFilled
<1>5. place[1] = l /\ place[2] = 0 /\ 0 \div 2 = 0 /\ Height \in 1..30
  BY <1>2, HeightFacts
<1>6. place' = <<l - 1, 0>>
  BY <1>5, <1>0, SameMeasurements DEF fillInner
<1>7. inner' = [p \in InnerPositions(Capacity) |-> IF p[1] = l - 1 THEN [dir \in Directions |-> IdsPer(l)] ELSE inner[p]]
  <2>1. Height - 1 - (l - 1) = Height - l
    BY <1>5
  <2>2. BitsPerLeaf * 2^(Height - 1 - (l - 1)) = IdsPer(l)
    BY <2>1 DEF IdsPer
  <2> QED BY <1>5, <2>2, <1>0, SameMeasurements DEF fillInner
<1>8. phase' = IF place' # Root THEN "fillInner" ELSE IF Capacity # 2^Height * BitsPerLeaf THEN "truncateLeaves" ELSE "done"
  BY <1>0, SameMeasurements DEF fillInner
<1>9. \A p \in InnerPositions(Capacity) : p[1] >= l - 1 => inner'[p] = [dir \in Directions |-> IdsPer(p[1] + 1)]
  <2> SUFFICES ASSUME NEW p \in InnerPositions(Capacity), p[1] >= l - 1
               PROVE  inner'[p] = [dir \in Directions |-> IdsPer(p[1] + 1)]
    OBVIOUS
  <2>1. p[1] \in Nat
    BY PositionIs
  <2>2. CASE p[1] = l - 1
    <3>1. p[1] + 1 = l
      BY <2>2, <1>5
    <3> QED BY <3>1, <2>2, <1>7
  <2>3. CASE p[1] # l - 1
    <3>1. p[1] >= l
      BY <2>1, <2>3, <1>5
    <3> QED BY <3>1, <2>3, <1>2, <1>7
  <2> QED BY <2>2, <2>3
<1>10. DOMAIN inner' = InnerPositions(Capacity)
  BY <1>7
<1>11. CASE l # 1
  <2>1. l - 1 \in 1..Height /\ <<l - 1, 0>> # Root
    BY <1>5, <1>11 DEF Root
  <2>2. phase' = "fillInner"
    BY <2>1, <1>6, <1>8
  <2> QED BY <1>0, <2>1, <2>2, <1>4, <1>6, <1>9, <1>10 DEF FillInv
<1>12. CASE l = 1
  <2>1. place' = Root
    BY <1>6, <1>12 DEF Root
  <2>2. \A p \in InnerPositions(Capacity) : inner'[p] = [dir \in Directions |-> IdsPer(p[1] + 1)] /\ p[1] \in 0..Height /\ p[2] < 2^p[1]
    <3> SUFFICES ASSUME NEW p \in InnerPositions(Capacity)
                 PROVE  inner'[p] = [dir \in Directions |-> IdsPer(p[1] + 1)] /\ p[1] \in 0..Height /\ p[2] < 2^p[1]
      OBVIOUS
    <3>1. p[1] \in 0..(Height - 1) /\ p[2] \in 0..(2^p[1] - 1)
      BY PositionIs
    <3>2. p[1] \in 0..Height /\ p[1] >= l - 1 /\ p[1] \in 0..30
      BY <3>1, <1>5, <1>12
    <3>3. p[2] < 2^p[1]
      BY <3>1, <3>2, PowersPositive
    <3> QED BY <3>2, <3>3, <1>9
  <2>3. LeftAlone'
    BY <2>2, <1>4 DEF LeftAlone, LeavesFilled
  <2>4. CASE Capacity # 2^Height * BitsPerLeaf
    <3>1. phase' = "truncateLeaves"
      BY <2>1, <2>4, <1>8
    <3>2. UncutAbove(Height)'
      BY <2>2 DEF UncutAbove
    <3>3. Whole(Height) < 2^Height
      <4>1. PICK b, w, q, r : b = BitsPerLeaf /\ w = 2^Height /\ q = Whole(Height) /\ r = Rest(Height)
        OBVIOUS
      <4>2. b \in Nat \ {0} /\ w \in Nat \ {0} /\ q <= w /\ q \in Nat /\ r \in 0..(b - 1) /\ Capacity = q * b + r /\ q * b \in Nat
        <5>1. Height \in 0..30 /\ Height \in 0..Height
          BY <1>5
        <5>2. b \in Nat \ {0} /\ w \in Nat \ {0}
          BY <5>1, <4>1, PowersPositive, BitsPerLeafAssumption
        <5>3. q <= w /\ IdsPer(Height) = b
          BY <4>1, Room
        <5> QED BY <5>1, <5>2, <5>3, <4>1, Level
      <4>3. ASSUME q = w PROVE FALSE
        <5>1. Capacity = w * b + r /\ Capacity <= w * b /\ w * b \in Nat
          BY <4>1, <4>2, <4>3, Room
        <5>2. Capacity = w * b
          BY <5>1, <4>2
        <5> QED BY <5>2, <4>1, <2>4
      <4> QED BY <4>1, <4>2, <4>3
    <3> QED BY <1>0, <3>1, <3>2, <3>3, <2>3, <1>4, <1>10 DEF FillInv
  <2>5. CASE Capacity = 2^Height * BitsPerLeaf
    <3>1. phase' = "done"
      BY <2>1, <2>5, <1>8
    <3>2. \A k \in 0..Height : Whole(k) = 2^k
      BY <2>5, WholeTree
    <3>3. CutFrom(0)'
      <4>1. \A p \in InnerPositions(Capacity) : inner'[p] = FullInner(Capacity)[p]
        BY <2>2, <3>2, WholeNode
      <4> QED BY <4>1 DEF CutFrom
    <3>4. LeavesCut'
      <4>1. ASSUME NEW p \in LeafPositions(Capacity), HasIds(p) PROVE leaf'[p] = FullLeaf(Capacity, p)
        <5>1. p = <<Height, p[2]>> /\ p[2] \in 0..(2^Height - 1)
          BY PositionIs
        <5>2. 2^Height \in Nat /\ Whole(Height) = 2^Height
          <6>1. Height \in 0..30 /\ Height \in 0..Height
            BY <1>5
          <6> QED BY <6>1, <3>2, PowersPositive
        <5>3. p[2] < Whole(Height)
          BY <5>1, <5>2
        <5>4. FullLeaf(Capacity, <<Height, p[2]>>) = Bits
          BY <5>1, <5>3, <4>1, LeafShares
        <5> QED BY <5>1, <5>4, <1>4 DEF LeavesFilled
      <4> QED BY <4>1 DEF LeavesCut
    <3> QED BY <1>0, <3>1, <3>3, <3>4, <2>3, <1>4, <1>10 DEF FillInv
  <2> QED BY <2>4, <2>5
<1> QED BY <1>11, <1>12

\* The leaf with the first extra ID.
LEMMA TruncateLeavesStep == FillInv /\ truncateLeaves => FillInv'
<1> SUFFICES ASSUME FillInv, truncateLeaves PROVE FillInv'
  OBVIOUS
<1>0. capacity = Capacity /\ capacity' = Capacity
  BY DEF FillInv, truncateLeaves
<1>1. phase = "truncateLeaves" /\ phase' = "truncateInner" /\ inner' = inner
  BY DEF truncateLeaves
<1>2. LeavesFilled /\ UncutAbove(Height) /\ Whole(Height) < 2^Height /\ DOMAIN inner = InnerPositions(Capacity)
  BY <1>1 DEF FillInv
<1>3. Height \in 1..30 /\ Height \in 1..Height /\ Height \in 0..Height /\ IdsPer(Height) = BitsPerLeaf
  BY HeightFacts, Room
<1>4. Whole(Height) = Capacity \div BitsPerLeaf /\ Rest(Height) = Capacity % BitsPerLeaf
  BY <1>3 DEF Whole, Rest
<1>5. place' = <<Height, Whole(Height)>> /\ toSubtract' = IdsPer(Height) - Rest(Height)
  BY <1>3, <1>4, <1>0, SameMeasurements DEF truncateLeaves
<1> DEFINE n == Whole(Height) + (2^Height - requestedLeafNodeCount(Capacity)) - 1
<1>6. PICK bits : /\ bits \in (IF Rest(Height) = 0 THEN {{}, Bits} ELSE {0..(Rest(Height) - 1)})
                  /\ leaf' = [p \in LeafPositions(Capacity) |->
                                IF p = <<Height, Whole(Height)>> THEN bits
                                ELSE IF p \in {s \in LeafPositions(Capacity) : s[2] \in (Whole(Height) + 1)..n} THEN {}
                                ELSE leaf[p]]
  <2>1. \A k : leafTruncate(k) = IF k = 0 THEN {{}, Bits} ELSE {0..(k - 1)}
    BY <1>0, SameMeasurements DEF leafTruncate
  <2>2. PICK bits \in leafTruncate(Rest(Height)) :
          leaf' = [p \in LeafPositions(Capacity) |->
                     IF p = <<Height, Whole(Height)>> THEN bits
                     ELSE IF p \in {s \in LeafPositions(Capacity) : s[2] \in (<<Height, Whole(Height)>>[2] + 1)..(<<Height, Whole(Height)>>[2] + (2^Height - requestedLeafNodeCount(Capacity)) - 1)} THEN {}
                     ELSE leaf[p]]
    <3>1. innerLevelCount(Capacity) = Height /\ leafNodeCount(Capacity) = 2^Height
      BY <1>0, SameMeasurements
    <3> QED BY <3>1, <1>0, <1>4 DEF truncateLeaves
  <2>3. <<Height, Whole(Height)>>[2] = Whole(Height)
    OBVIOUS
  <2> QED BY <2>1, <2>2, <2>3
<1> HIDE DEF n
<1>7. Whole(Height) \in Nat /\ Rest(Height) \in Nat
  <2>1. Rest(Height) \in 0..(IdsPer(Height) - 1)
    BY <1>3, Level
  <2> QED BY <2>1, <1>3, Level
<1>8. LeavesCut'
  <2>1. ASSUME NEW p \in LeafPositions(Capacity), HasIds(p) PROVE leaf'[p] = FullLeaf(Capacity, p)
    <3>1. PICK o : o = p[2]
      OBVIOUS
    <3>2. p = <<Height, o>> /\ o \in 0..(2^Height - 1) /\ o \in Nat
      <4>1. p = <<Height, o>> /\ o \in 0..(2^Height - 1)
        BY <3>1, PositionIs
      <4> QED BY <4>1
    <3>3. o <= Whole(Height) /\ (o < Whole(Height) \/ Rest(Height) > 0)
      BY <2>1, <3>2, <1>3, SharesCount DEF HasIds
    <3>4. FullLeaf(Capacity, p) = IF o < Whole(Height) THEN Bits ELSE 0..(Rest(Height) - 1)
      BY <2>1, <3>2, LeafShares
    <3>5. CASE o < Whole(Height)
      <4>1. p # <<Height, Whole(Height)>> /\ o \notin (Whole(Height) + 1)..n
        BY <3>2, <3>5, <1>7
      <4>2. leaf'[p] = leaf[p]
        BY <4>1, <3>1, <1>6
      <4> QED BY <4>2, <3>4, <3>5, <1>2 DEF LeavesFilled
    <3>6. CASE ~(o < Whole(Height))
      <4>1. o = Whole(Height) /\ Rest(Height) # 0
        BY <3>2, <3>3, <3>6, <1>7
      <4>2. leaf'[p] = bits /\ bits = 0..(Rest(Height) - 1)
        BY <4>1, <3>2, <1>6
      <4> QED BY <4>2, <3>4, <3>6
    <3> QED BY <3>5, <3>6
  <2> QED BY <2>1 DEF LeavesCut
<1>9. UncutAbove(Height)' /\ CutFrom(Height)'
  <2>1. \A p \in InnerPositions(Capacity) : ~(p[1] >= Height)
    BY PositionIs, HeightFacts
  <2> QED BY <2>1, <1>1, <1>2 DEF UncutAbove, CutFrom
<1>10. DOMAIN leaf' = LeafPositions(Capacity) /\ DOMAIN inner' = InnerPositions(Capacity)
  BY <1>1, <1>2, <1>6
<1>11. LeftAlone'
  <2>1. ASSUME NEW p \in LeafPositions(Capacity), ~HasIds(p) PROVE leaf'[p] = {} \/ leaf'[p] = Bits
    <3>1. CASE p = <<Height, Whole(Height)>>
      <4>1. Rest(Height) = 0
        <5>1. Cardinality(IdsBelow(Capacity, p)) = 0
          BY <2>1, FS_EmptySet DEF HasIds
        <5>2. Cardinality(IdsBelow(Capacity, p)) = Share(Height, Whole(Height))
          BY <3>1, <1>3, <1>7, SharesCount
        <5>3. Share(Height, Whole(Height)) = Rest(Height)
          BY <1>7 DEF Share
        <5> QED BY <5>1, <5>2, <5>3
      <4> QED BY <4>1, <3>1, <1>6
    <3>2. CASE p # <<Height, Whole(Height)>>
      BY <3>2, <1>2, <1>6 DEF LeavesFilled
    <3> QED BY <3>1, <3>2
  <2>2. \A p \in InnerPositions(Capacity) : inner'[p] = inner[p]
    BY <1>1
  <2>3. LeftAlone
    BY <1>1 DEF FillInv
  <2> QED BY <2>1, <2>2, <2>3 DEF LeftAlone
<1> QED BY <1>0, <1>1, <1>2, <1>3, <1>5, <1>8, <1>9, <1>10, <1>11 DEF FillInv

\* A node on the path to the first extra ID.
LEMMA TruncateInnerStep == FillInv /\ truncateInner => FillInv'
<1> SUFFICES ASSUME FillInv, truncateInner PROVE FillInv'
  OBVIOUS
<1>0. capacity = Capacity /\ capacity' = Capacity
  BY DEF FillInv, truncateInner
<1>1. phase = "truncateInner" /\ leaf' = leaf
  BY DEF truncateInner
<1>2. PICK l \in 1..Height :
        /\ place = <<l, Whole(l)>> /\ toSubtract = IdsPer(l) - Rest(l) /\ Whole(l) < 2^l
        /\ UncutAbove(l) /\ CutFrom(l)
  BY <1>1 DEF FillInv
<1>3. LeavesCut /\ DOMAIN leaf = LeafPositions(Capacity) /\ DOMAIN inner = InnerPositions(Capacity)
  BY <1>1 DEF FillInv
<1>4. LeavesCut' /\ DOMAIN leaf' = LeafPositions(Capacity)
  BY <1>1, <1>3 DEF LeavesCut
<1>5. PICK q, d, r, p : q = Whole(l) /\ d = IdsPer(l) /\ r = Rest(l) /\ p = <<l - 1, Whole(l - 1)>>
  OBVIOUS
<1>6. Height \in 1..30 /\ l \in 0..Height /\ l - 1 \in 0..(Height - 1) /\ (l - 1) + 1 = l /\ l - 1 \in Nat
  BY HeightFacts
<1>7. /\ q \in Nat /\ d \in Nat \ {0} /\ r \in 0..(d - 1) /\ Whole(l - 1) = q \div 2 /\ IdsPer(l - 1) = 2 * d
      /\ Rest(l - 1) = r + (IF q % 2 = 0 THEN 0 ELSE d)
  BY <1>5, <1>6, Level, LevelAbove
<1>8. p \in InnerPositions(Capacity) /\ Whole(l - 1) < 2^(l - 1) /\ p[1] = l - 1 /\ p[2] = Whole(l - 1)
  BY <1>2, <1>5, WholeBounds
<1>9. inner[p] = [dir \in Directions |-> d]
  <2>1. p[1] < l /\ p[1] + 1 = l
    BY <1>6, <1>8
  <2> QED BY <2>1, <1>2, <1>5, <1>8 DEF UncutAbove
<1>10. place[1] - 1 = l - 1 /\ place[2] = q /\ toSubtract = d - r
  BY <1>2, <1>5
<1>11. ascend(place) = p
  BY <1>5, <1>7, <1>10, <1>0, SameMeasurements
<1>12. place' = p /\ phase' = IF p = Root THEN "done" ELSE "truncateInner"
  BY <1>11, <1>0, SameMeasurements DEF truncateInner
<1>13. /\ toSubtract' = IdsPer(l - 1) - Rest(l - 1)
       /\ DOMAIN inner' = InnerPositions(Capacity)
       /\ inner'[p] = FullInner(Capacity)[p]
       /\ \A s \in InnerPositions(Capacity) : s # p => inner'[s] = inner[s]
  <2>1. CASE q % 2 = 0
    <3>1. ascendDirection(place) = "dirLeft"
      BY <2>1, <1>10, <1>0, SameMeasurements
    <3>2. /\ toSubtract' = toSubtract + inner[p]["dirRight"]
          /\ inner' = [inner EXCEPT ![p]["dirLeft"] = @ - toSubtract, ![p]["dirRight"] = 0]
      BY <3>1, <1>11, <1>12 DEF truncateInner
    <3>3. inner[p]["dirRight"] = d /\ inner[p]["dirLeft"] = d
      BY <1>9 DEF Directions
    <3>4. toSubtract' = 2 * d - r /\ d - toSubtract = r
      BY <3>2, <3>3, <1>7, <1>10
    <3>5. inner'[p] = [dir \in Directions |-> IF dir = "dirRight" THEN 0 ELSE r]
      BY <3>2, <3>3, <3>4, <1>3, <1>8, <1>9 DEF Directions
    <3>6. FullInner(Capacity)[p] = [dir \in Directions |-> IF dir = "dirRight" THEN 0 ELSE r]
      BY <2>1, <1>5, <1>8, PathNode
    <3>7. toSubtract' = IdsPer(l - 1) - Rest(l - 1)
      BY <2>1, <3>4, <1>7
    <3>8. DOMAIN inner' = InnerPositions(Capacity) /\ \A s \in InnerPositions(Capacity) : s # p => inner'[s] = inner[s]
      BY <3>2, <1>3
    <3> QED BY <3>5, <3>6, <3>7, <3>8
  <2>2. CASE q % 2 = 1
    <3>1. ascendDirection(place) = "dirRight"
      BY <2>2, <1>10, <1>0, SameMeasurements
    <3>2. /\ toSubtract' = toSubtract
          /\ inner' = [inner EXCEPT ![p]["dirRight"] = @ - toSubtract]
      BY <3>1, <1>11, <1>12 DEF truncateInner
    <3>3. inner[p]["dirRight"] = d /\ inner[p]["dirLeft"] = d
      BY <1>9 DEF Directions
    <3>4. toSubtract' = d - r /\ d - toSubtract = r
      BY <3>2, <3>3, <1>7, <1>10
    <3>5. inner'[p] = [dir \in Directions |-> IF dir = "dirRight" THEN r ELSE d]
      BY <3>2, <3>3, <3>4, <1>3, <1>8, <1>9 DEF Directions
    <3>6. FullInner(Capacity)[p] = [dir \in Directions |-> IF dir = "dirRight" THEN r ELSE d]
      <4>1. ~(Whole(l) % 2 = 0)
        BY <2>2, <1>5
      <4> QED BY <4>1, <1>5, <1>8, PathNode
    <3>7. toSubtract' = IdsPer(l - 1) - Rest(l - 1)
      BY <2>2, <3>4, <1>7
    <3>8. DOMAIN inner' = InnerPositions(Capacity) /\ \A s \in InnerPositions(Capacity) : s # p => inner'[s] = inner[s]
      BY <3>2, <1>3
    <3> QED BY <3>5, <3>6, <3>7, <3>8
  <2> QED BY <2>1, <2>2, <1>7
<1>14. UncutAbove(l - 1)'
  <2> SUFFICES ASSUME NEW s \in InnerPositions(Capacity), s[1] < l - 1
               PROVE  inner'[s] = [dir \in Directions |-> IdsPer(s[1] + 1)]
    BY DEF UncutAbove
  <2>1. s[1] \in Nat
    BY PositionIs
  <2>2. s[1] < l /\ s # p
    BY <2>1, <1>6, <1>8
  <2> QED BY <2>2, <1>2, <1>13 DEF UncutAbove
<1>15. CutFrom(l - 1)'
  <2> SUFFICES ASSUME NEW s \in InnerPositions(Capacity), s[1] >= l - 1, s[2] <= Whole(s[1])
               PROVE  inner'[s] = FullInner(Capacity)[s]
    BY DEF CutFrom
  <2>1. s[1] \in Nat /\ s[2] \in Nat /\ s = <<s[1], s[2]>>
    <3>1. s[1] \in 0..(Height - 1) /\ s[2] \in Nat /\ s = <<s[1], s[2]>>
      BY InnerShares
    <3> QED BY <3>1
  <2>2. CASE s = p
    BY <2>2, <1>13
  <2>3. CASE s # p /\ s[1] = l - 1
    <3>1. s[2] < Whole(s[1])
      <4>1. s[2] # Whole(l - 1) /\ Whole(l - 1) \in Nat
        BY <2>1, <2>3, <1>5, <1>7
      <4> QED BY <4>1, <2>1, <2>3
    <3>2. FullInner(Capacity)[s] = [dir \in Directions |-> IdsPer(s[1] + 1)]
      BY <3>1, WholeNode
    <3>3. inner[s] = [dir \in Directions |-> IdsPer(s[1] + 1)]
      <4>1. s[1] < l
        BY <2>3, <1>6
      <4> QED BY <4>1, <1>2 DEF UncutAbove
    <3> QED BY <3>2, <3>3, <2>3, <1>13
  <2>4. CASE s # p /\ s[1] # l - 1
    <3>1. s[1] >= l
      BY <2>1, <2>4, <1>6
    <3>2. inner[s] = FullInner(Capacity)[s]
      BY <3>1, <1>2 DEF CutFrom
    <3> QED BY <3>2, <2>4, <1>13
  <2> QED BY <2>2, <2>3, <2>4
<1>16. LeftAlone'
  <2>1. LeftAlone
    BY <1>1 DEF FillInv
  <2>2. \A s \in InnerPositions(Capacity) : inner'[s] = FullInner(Capacity)[s] \/ inner'[s] = inner[s]
    BY <1>13
  <2> QED BY <2>1, <2>2, <1>1 DEF LeftAlone
<1>17. CASE p = Root
  <2>1. l - 1 = 0 /\ phase' = "done"
    BY <1>8, <1>12, <1>17 DEF Root
  <2>2. CutFrom(0)'
    BY <2>1, <1>15
  <2> QED BY <1>0, <2>1, <2>2, <1>4, <1>13, <1>16 DEF FillInv
<1>18. CASE p # Root
  <2>1. phase' = "truncateInner"
    BY <1>12, <1>18
  <2>2. l - 1 # 0
    <3>1. ASSUME l - 1 = 0 PROVE FALSE
      <4>1. 2^0 = 1 /\ Whole(l - 1) < 2^0 /\ Whole(l - 1) \in Nat
        BY <3>1, <1>7, <1>8
      <4>2. Whole(l - 1) = 0
        BY <4>1
      <4> QED BY <3>1, <4>2, <1>5, <1>18 DEF Root
    <3> QED BY <3>1
  <2>3. l - 1 \in 1..Height
    BY <2>2, <1>6
  <2> QED BY <1>0, <2>1, <2>3, <1>4, <1>5, <1>8, <1>12, <1>13, <1>14, <1>15, <1>16 DEF FillInv
<1> QED BY <1>17, <1>18

\* The steps of makeFullBeforeSharing() keep the invariant.
LEMMA FillKeeps == FillInv /\ [FillNext]_fillVars => FillInv'
<1> SUFFICES ASSUME FillInv, [FillNext]_fillVars PROVE FillInv'
  OBVIOUS
<1>1. CASE UNCHANGED <<capacity, inner, leaf, phase, place, toSubtract>>
  BY <1>1 DEF FillInv, LeavesFilled, LeavesCut, UncutAbove, CutFrom, LeftAlone
<1>2. Done \/ UNCHANGED fillVars => UNCHANGED <<capacity, inner, leaf, phase, place, toSubtract>>
  BY DEF Done, fillVars
<1> QED BY <1>1, <1>2, FillLeavesStep, FillInnerStep, TruncateLeavesStep, TruncateInnerStep DEF FillNext

\* Whatever the capacity, makeFullBeforeSharing() leaves a full tree to pop()
\* from: counters and leaves that have IDs are exact, although a shift by the
\* full width of a leaf is undefined.
THEOREM TreeFilled == FillSpec /\ capacity = Capacity => []FullWhenDone
BY FillStarts, FillKeeps, FillInvImplies, PTL DEF FillSpec

\* A node without IDs has no IDs below it.
LEMMA NothingBelow ==
  ASSUME NEW p \in InnerPositions(Capacity), ~HasIds(p)
  PROVE  FullInner(Capacity)[p] = [dir \in Directions |-> 0]
<1>1. /\ FullInner(Capacity)[p] \in [Directions -> Nat]
      /\ Available(FullInner(Capacity)[p]) = Cardinality(IdsBelow(Capacity, p))
  BY FullInnerIs
<1>2. Cardinality(IdsBelow(Capacity, p)) = 0
  BY FS_EmptySet DEF HasIds
<1>3. PICK f : f = FullInner(Capacity)[p]
  OBVIOUS
<1>4. f \in [Directions -> Nat] /\ f["dirLeft"] + f["dirRight"] = 0
  BY <1>1, <1>2, <1>3 DEF Available
<1>5. f["dirLeft"] = 0 /\ f["dirRight"] = 0
  <2>1. f["dirLeft"] \in Nat /\ f["dirRight"] \in Nat
    BY <1>4 DEF Directions
  <2> QED BY <2>1, <1>4
<1>6. f = [dir \in Directions |-> f[dir]] /\ \A dir \in Directions : f[dir] = 0
  BY <1>4, <1>5 DEF Directions
<1> QED BY <1>3, <1>6

\* Nodes are never added.
Mapped ==
  /\ capacity = Capacity
  /\ inner = [p \in InnerPositions(Capacity) |-> inner[p]]
  /\ leaf = [p \in LeafPositions(Capacity) |-> leaf[p]]

\* A fresh segment has all nodes.
LEMMA MappedStarts == FillInit /\ capacity = Capacity => Mapped
<1> SUFFICES ASSUME FillInit, capacity = Capacity PROVE Mapped
  OBVIOUS
<1>1. /\ inner = [p \in InnerPositions(Capacity) |-> [dir \in Directions |-> 0]]
      /\ leaf = [p \in LeafPositions(Capacity) |-> {}]
  BY SameMeasurements DEF FillInit
<1> QED BY <1>1 DEF Mapped

\* The steps keep them.
LEMMA MappedKept == Mapped /\ [FillNext]_fillVars => Mapped'
<1> SUFFICES ASSUME Mapped, [FillNext]_fillVars PROVE Mapped'
  OBVIOUS
<1>0. capacity = Capacity /\ capacity' = Capacity
  BY DEF Mapped, FillNext, fillVars, fillLeaves, fillInner, truncateLeaves, truncateInner, Done
<1>1. CASE fillLeaves
  <2>1. leaf' = [p \in LeafPositions(Capacity) |-> Bits] /\ inner' = inner
    BY <1>1, <1>0, SameMeasurements DEF fillLeaves
  <2> QED BY <2>1, <1>0 DEF Mapped
<1>2. CASE fillInner
  <2>1. leaf' = leaf
    BY <1>2 DEF fillInner
  <2>2. inner' = [p \in InnerPositions(Capacity) |-> inner'[p]]
    BY <1>0, <1>2 DEF fillInner
  <2> QED BY <2>1, <2>2, <1>0, SameMeasurements DEF Mapped
<1>3. CASE truncateLeaves
  <2>1. inner' = inner
    BY <1>3 DEF truncateLeaves
  <2>2. leaf' = [p \in LeafPositions(Capacity) |-> leaf'[p]]
    BY <1>0, <1>3 DEF truncateLeaves
  <2> QED BY <2>1, <2>2, <1>0, SameMeasurements DEF Mapped
<1>4. CASE truncateInner
  <2>1. leaf' = leaf
    BY <1>4 DEF truncateInner
  <2>2. \/ inner' = [inner EXCEPT ![place']["dirLeft"] = @ - toSubtract, ![place']["dirRight"] = 0]
        \/ inner' = [inner EXCEPT ![place']["dirRight"] = @ - toSubtract]
    BY <1>4, <1>0, SameMeasurements DEF truncateInner
  <2>3. inner' = [p \in InnerPositions(Capacity) |-> inner'[p]]
    BY <2>2 DEF Mapped
  <2> QED BY <2>1, <2>3, <1>0 DEF Mapped
<1>5. CASE Done \/ UNCHANGED fillVars
  BY <1>5 DEF Done, fillVars, Mapped
<1> QED BY <1>1, <1>2, <1>3, <1>4, <1>5 DEF FillNext

\* What makeFullBeforeSharing() leaves, to the last node, is a tree that the
\* theorems about pop() and push() start from.
THEOREM FilledForUse == FillSpec /\ capacity = Capacity => [](phase = "done" => FullTree)
<1>1. FillInv /\ Mapped /\ phase = "done" => FullTree
  <2> SUFFICES ASSUME FillInv, Mapped, phase = "done" PROVE FullTree
    OBVIOUS
  <2>1. LeavesCut /\ CutFrom(0) /\ LeftAlone
    BY DEF FillInv
  <2> DEFINE u == [p \in LeafPositions(Capacity) |-> IF HasIds(p) THEN {} ELSE leaf[p]]
             v == [p \in InnerPositions(Capacity) |->
                     IF inner[p] = [dir \in Directions |-> IdsPer(p[1] + 1)] THEN BitsPerLeaf ELSE 0]
  <2>2. u \in [LeafPositions(Capacity) -> {{}, Bits}]
    BY <2>1 DEF LeftAlone
  <2>3. v \in [InnerPositions(Capacity) -> {0, BitsPerLeaf}]
    OBVIOUS
  <2>4. leaf = [p \in LeafPositions(Capacity) |-> IF HasIds(p) THEN FullLeaf(Capacity, p) ELSE u[p]]
    <3>1. \A p \in LeafPositions(Capacity) : leaf[p] = IF HasIds(p) THEN FullLeaf(Capacity, p) ELSE u[p]
      BY <2>1 DEF LeavesCut
    <3> QED BY <3>1 DEF Mapped
  <2>5. inner = [p \in InnerPositions(Capacity) |->
                   IF p = Root \/ HasIds(p) THEN FullInner(Capacity)[p]
                   ELSE [dir \in Directions |-> v[p] * 2^(Height - 1 - p[1])]]
    <3>1. ASSUME NEW p \in InnerPositions(Capacity), p = Root \/ HasIds(p) PROVE inner[p] = FullInner(Capacity)[p]
      BY <3>1, <2>1, UsedIsLeft DEF CutFrom, HasIds
    <3>2. ASSUME NEW p \in InnerPositions(Capacity), ~(p = Root \/ HasIds(p))
          PROVE  inner[p] = [dir \in Directions |-> v[p] * 2^(Height - 1 - p[1])]
      <4>1. PICK w : w = 2^(Height - 1 - p[1])
        OBVIOUS
      <4>2. w \in Nat /\ IdsPer(p[1] + 1) = BitsPerLeaf * w
        <5>1. p[1] \in 0..(Height - 1) /\ Height \in 1..30
          BY PositionIs, HeightFacts
        <5>2. Height - 1 - p[1] \in 0..30 /\ Height - (p[1] + 1) = Height - 1 - p[1]
          BY <5>1
        <5> QED BY <5>2, <4>1, PowersPositive DEF IdsPer
      <4>3. CASE inner[p] = [dir \in Directions |-> IdsPer(p[1] + 1)]
        BY <4>1, <4>2, <4>3
      <4>4. CASE inner[p] # [dir \in Directions |-> IdsPer(p[1] + 1)]
        <5>1. inner[p] = [dir \in Directions |-> 0]
          BY <4>4, <3>2, <2>1, NothingBelow DEF LeftAlone
        <5>2. v[p] = 0 /\ 0 * w = 0
          BY <4>2, <4>4
        <5> QED BY <5>1, <5>2, <4>1
      <4> QED BY <4>3, <4>4
    <3>3. \A p \in InnerPositions(Capacity) : inner[p] = IF p = Root \/ HasIds(p) THEN FullInner(Capacity)[p]
                                                     ELSE [dir \in Directions |-> v[p] * 2^(Height - 1 - p[1])]
      <4> HIDE DEF v
      <4> QED BY <3>1, <3>2
    <3> HIDE DEF v
    <3> QED BY <3>3 DEF Mapped
  <2> HIDE DEF u, v
  <2> QED BY <2>2, <2>3, <2>4, <2>5 DEF FullTree
<1> QED BY <1>1, FillStarts, FillKeeps, MappedStarts, MappedKept, PTL DEF FillSpec
=============================================================================
