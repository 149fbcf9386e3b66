--------------------------- MODULE PagePoolProofs ---------------------------
(***************************************************************************)
(* Theorems about PagePool, for any finite sets of clients and purposes    *)
(* and any limits.                                                         *)
(*                                                                         *)
(* PagesAccounted is an equation between a number, a sum over the purposes *)
(* and two counts of clients.  A step moves one page between two of them.  *)
(* That nothing exceeds PageLimit (TypeOK) follows from the equation, not  *)
(* from the tests in the code: GetPage() tests the limit of a purpose      *)
(* before it takes a page and raises the level after.                      *)
(***************************************************************************)
EXTENDS PagePool, Integers, Sequences, FiniteSets, Functions, FiniteSetTheorems, SequenceTheorems,
        WellFoundedInduction, TLAPS

----------------------------------------------------------------------------
(* Counting *)

\* Two sets that differ in at most one element have cardinalities that
\* differ accordingly: how a step of one process changes a count of
\* processes.
LEMMA OneElement ==
  ASSUME NEW S, NEW T, NEW e, IsFiniteSet(S), IsFiniteSet(T),
         \A x : x # e => (x \in S <=> x \in T)
  PROVE  /\ (e \in S <=> e \in T) => Cardinality(T) = Cardinality(S)
         /\ e \notin S /\ e \in T => Cardinality(T) = Cardinality(S) + 1
         /\ e \in S /\ e \notin T => Cardinality(T) = Cardinality(S) - 1
<1>1. ASSUME e \in S <=> e \in T PROVE Cardinality(T) = Cardinality(S)
  <2>1. S = T BY <1>1
  <2> QED BY <2>1
<1>2. ASSUME e \notin S, e \in T PROVE Cardinality(T) = Cardinality(S) + 1
  <2>1. T = S \cup {e} BY <1>2
  <2> QED BY <2>1, <1>2, FS_AddElement
<1>3. ASSUME e \in S, e \notin T PROVE Cardinality(T) = Cardinality(S) - 1
  <2>1. T = S \ {e} BY <1>3
  <2> QED BY <2>1, <1>3, FS_RemoveElement
<1> QED BY <1>1, <1>2, <1>3

\* A count is a natural number, and zero when there is nothing to count.
LEMMA ZeroIsEmpty ==
  ASSUME NEW S, IsFiniteSet(S)
  PROVE  Cardinality(S) \in Nat /\ (Cardinality(S) = 0 <=> S = {})
BY FS_CardinalityType, FS_EmptySet

\* Induction over the natural numbers, stated with a set instead of a
\* predicate: the least number outside the set would have a predecessor in it.
LEMMA NatSetInduction ==
  ASSUME NEW S, 0 \in S, \A n \in Nat : n \in S => n + 1 \in S
  PROVE  Nat \subseteq S
<1> SUFFICES ASSUME Nat \ S # {} PROVE FALSE
  OBVIOUS
<1>1. PICK x \in Nat \ S : \A y \in Nat \ S : ~ (<<y, x>> \in OpToRel(<, Nat))
  <2> DEFINE T == Nat \ S
  <2> HIDE DEF T
  <2>1. T \subseteq Nat /\ T # {}
    BY DEF T
  <2>2. \E x \in T : \A y \in T : ~ (<<y, x>> \in OpToRel(<, Nat))
    BY <2>1, NatLessThanWellFounded, WFMin
  <2> QED BY <2>2 DEF T
<1>2. \A y \in Nat \ S : ~ (y < x)
  BY <1>1 DEF OpToRel
<1>3. x # 0 /\ x - 1 \in Nat
  OBVIOUS
<1>4. x - 1 \in S
  BY <1>2, <1>3
<1>5. x - 1 + 1 \in S
  BY <1>3, <1>4
<1> QED BY <1>5

\* Induction over the subsets of a finite set, by their size.
LEMMA FiniteSubsetInduction ==
  ASSUME NEW D, IsFiniteSet(D), NEW P, {} \in P,
         \A s \in SUBSET D : s # {} /\ (\A x \in s : s \ {x} \in P) => s \in P
  PROVE  SUBSET D \subseteq P
<1> DEFINE S == {n \in Nat : \A s \in SUBSET D : Cardinality(s) = n => s \in P}
<1>1. \A s \in SUBSET D : IsFiniteSet(s) /\ Cardinality(s) \in Nat /\ (Cardinality(s) = 0 <=> s = {})
  BY FS_Subset, ZeroIsEmpty
<1>2. 0 \in S
  BY <1>1
<1>3. ASSUME NEW n \in Nat, n \in S PROVE n + 1 \in S
  <2>1. SUFFICES ASSUME NEW s \in SUBSET D, Cardinality(s) = n + 1 PROVE s \in P
    BY <1>3
  <2>2. s # {}
    BY <1>1, <2>1
  <2>3. ASSUME NEW x \in s PROVE s \ {x} \in P
    <3>1. Cardinality(s \ {x}) = n
      BY <1>1, <2>1, FS_RemoveElement
    <3> QED BY <1>3, <3>1
  <2> QED BY <2>2, <2>3
<1> HIDE DEF S
<1>4. Nat \subseteq S
  BY <1>2, <1>3, NatSetInduction
<1> QED BY <1>1, <1>4 DEF S

----------------------------------------------------------------------------
(* Sums: what SumFunction(f) of the community modules computes *)

\* The element that SumFunction() adds first.
Pick(s) == CHOOSE x \in s : TRUE
\* The recursive function inside SumFunction(), restricted to the sets in D.
IsSum(it, f, D) ==
  it = [s \in D |-> IF s = {} THEN 0 ELSE f[Pick(s)] + it[s \ {Pick(s)}]]

\* There is such a function: it can be extended from the sets of size n to
\* those of size n + 1.
LEMMA SumExists ==
  ASSUME NEW f, NEW D, IsFiniteSet(D)
  PROVE  \E it : IsSum(it, f, SUBSET D)
<1> DEFINE Sub(n) == {s \in SUBSET D : Cardinality(s) <= n}
<1> DEFINE S == {n \in Nat : \E it : IsSum(it, f, Sub(n))}
<1>1. \A s \in SUBSET D : IsFiniteSet(s) /\ Cardinality(s) \in Nat /\ (Cardinality(s) = 0 <=> s = {})
  BY FS_Subset, ZeroIsEmpty
<1>2. 0 \in S
  <2>1. \A s \in Sub(0) : s = {}
    BY <1>1
  <2>2. IsSum([s \in Sub(0) |-> 0], f, Sub(0))
    BY <2>1 DEF IsSum
  <2> QED BY <2>2
<1>3. ASSUME NEW n \in Nat, n \in S PROVE n + 1 \in S
  <2>1. PICK g : IsSum(g, f, Sub(n))
    BY <1>3
  <2> DEFINE h == [s \in Sub(n + 1) |-> IF s = {} THEN 0 ELSE f[Pick(s)] + g[s \ {Pick(s)}]]
  <2>2. ASSUME NEW s \in Sub(n) PROVE h[s] = g[s]
    <3>1. s \in Sub(n + 1)
      BY <1>1
    <3> QED BY <2>1, <3>1 DEF IsSum
  <2>3. ASSUME NEW s \in Sub(n + 1), s # {} PROVE s \ {Pick(s)} \in Sub(n)
    <3>1. Pick(s) \in s
      BY <2>3 DEF Pick
    <3>2. Cardinality(s \ {Pick(s)}) = Cardinality(s) - 1
      BY <1>1, <3>1, FS_RemoveElement
    <3> QED BY <1>1, <3>2
  <2>4. \A s \in Sub(n + 1) : h[s] = IF s = {} THEN 0 ELSE f[Pick(s)] + h[s \ {Pick(s)}]
    BY <2>2, <2>3
  <2>5. IsSum(h, f, Sub(n + 1))
    <3> HIDE DEF Sub
    <3>1. h = [s \in Sub(n + 1) |-> h[s]]
      OBVIOUS
    <3> QED BY <2>4, <3>1, Zenon DEF IsSum
  <2>6. \E it : IsSum(it, f, Sub(n + 1))
    <3> HIDE DEF h, Sub
    <3> QED BY <2>5, Zenon
  <2> HIDE DEF h, Sub
  <2> QED BY <2>6
<1>4. Nat \subseteq S
  <2> HIDE DEF S
  <2> QED BY <1>2, <1>3, NatSetInduction
<1>5. Cardinality(D) \in S
  BY <1>1, <1>4
<1>6. \A s \in SUBSET D : Cardinality(s) <= Cardinality(D)
  BY FS_Subset
<1>7. Sub(Cardinality(D)) = SUBSET D
  BY <1>6
<1> QED BY <1>5, <1>7

\* The equations of the sums over the subsets of D.
SumsOver(it, f, D) ==
  /\ it[{}] = 0
  /\ \A s \in SUBSET D : s # {} => it[s] = f[Pick(s)] + it[s \ {Pick(s)}]

\* Pick() picks an element.
LEMMA PickIn == ASSUME NEW s, s # {} PROVE Pick(s) \in s
BY DEF Pick

\* SumFunction() satisfies them.
LEMMA SumFunctionIs ==
  ASSUME NEW D, IsFiniteSet(D), NEW f, DOMAIN f = D
  PROVE  \E it : SumsOver(it, f, D) /\ SumFunction(f) = it[D]
<1> DEFINE it == CHOOSE g : IsSum(g, f, SUBSET D)
<1>1. IsSum(it, f, SUBSET D)
  BY SumExists
<1>2. SumFunction(f) = it[D]
  BY DEF SumFunction, SumFunctionOnSet, FoldFunctionOnSet, MapThenFoldSet, IsSum, Pick
<1> HIDE DEF it
<1>3. SumsOver(it, f, D)
  BY <1>1 DEF IsSum, SumsOver
<1> QED BY <1>2, <1>3

\* A sum of natural numbers is one, and not less than any of them.
LEMMA SumOfNats ==
  ASSUME NEW D, IsFiniteSet(D), NEW f \in [D -> Nat]
  PROVE  /\ SumFunction(f) \in Nat
         /\ \A x \in D : f[x] <= SumFunction(f)
<1>1. PICK it : SumsOver(it, f, D) /\ SumFunction(f) = it[D]
  BY SumFunctionIs
<1> DEFINE P == {s \in SUBSET D : it[s] \in Nat /\ \A x \in s : f[x] <= it[s]}
<1>2. {} \in P
  <2>1. it[{}] = 0
    BY <1>1 DEF SumsOver
  <2> QED BY <2>1
<1>3. ASSUME NEW s \in SUBSET D, s # {}, \A x \in s : s \ {x} \in P PROVE s \in P
  <2>1. Pick(s) \in s /\ it[s] = f[Pick(s)] + it[s \ {Pick(s)}] /\ s \ {Pick(s)} \in P
    BY <1>1, <1>3, PickIn DEF SumsOver
  <2>2. f[Pick(s)] \in Nat /\ it[s \ {Pick(s)}] \in Nat
    BY <2>1
  <2>3. ASSUME NEW x \in s PROVE f[x] <= it[s]
    <3>1. CASE x = Pick(s)
      BY <2>1, <2>2, <3>1
    <3>2. CASE x # Pick(s)
      <4>1. f[x] \in Nat /\ f[x] <= it[s \ {Pick(s)}]
        BY <2>1, <3>2
      <4> QED BY <2>1, <2>2, <4>1
    <3> QED BY <3>1, <3>2
  <2>4. it[s] \in Nat
    BY <2>1, <2>2
  <2> QED BY <2>3, <2>4
<1>4. D \in P
  <2> HIDE DEF P
  <2> QED BY <1>2, <1>3, FiniteSubsetInduction
<1> QED BY <1>1, <1>4

\* A sum of zeros is zero.
LEMMA SumOfZeros ==
  ASSUME NEW D, IsFiniteSet(D)
  PROVE  SumFunction([x \in D |-> 0]) = 0
<1> DEFINE f == [x \in D |-> 0]
<1>1. PICK it : SumsOver(it, f, D) /\ SumFunction(f) = it[D]
  BY SumFunctionIs
<1> DEFINE P == {s \in SUBSET D : it[s] = 0}
<1>2. {} \in P
  BY <1>1 DEF SumsOver
<1>3. ASSUME NEW s \in SUBSET D, s # {}, \A x \in s : s \ {x} \in P PROVE s \in P
  <2>1. Pick(s) \in s /\ it[s] = f[Pick(s)] + it[s \ {Pick(s)}] /\ s \ {Pick(s)} \in P
    BY <1>1, <1>3, PickIn DEF SumsOver
  <2> QED BY <2>1
<1>4. D \in P
  <2> HIDE DEF P
  <2> QED BY <1>2, <1>3, FiniteSubsetInduction
<1> QED BY <1>1, <1>4

\* When one of the numbers changes, their sum changes by as much.
LEMMA SumChanges ==
  ASSUME NEW D, IsFiniteSet(D), NEW f \in [D -> Nat], NEW g \in [D -> Nat], NEW p \in D,
         \A x \in D \ {p} : g[x] = f[x]
  PROVE  SumFunction(g) = SumFunction(f) + g[p] - f[p]
<1>1. PICK sf : SumsOver(sf, f, D) /\ SumFunction(f) = sf[D]
  BY SumFunctionIs
<1>2. PICK sg : SumsOver(sg, g, D) /\ SumFunction(g) = sg[D]
  BY SumFunctionIs
<1> DEFINE d(s) == IF p \in s THEN g[p] - f[p] ELSE 0
<1> DEFINE P == {s \in SUBSET D : sf[s] \in Int /\ sg[s] = sf[s] + d(s)}
<1>3. {} \in P
  <2>1. sf[{}] = 0 /\ sg[{}] = 0
    BY <1>1, <1>2 DEF SumsOver
  <2> QED BY <2>1
<1>4. ASSUME NEW s \in SUBSET D, s # {}, \A x \in s : s \ {x} \in P PROVE s \in P
  <2>1. Pick(s) \in s /\ sf[s] = f[Pick(s)] + sf[s \ {Pick(s)}] /\ s \ {Pick(s)} \in P
    BY <1>1, <1>4, PickIn DEF SumsOver
  <2>2. sg[s] = g[Pick(s)] + sg[s \ {Pick(s)}]
    BY <1>2, <1>4, PickIn DEF SumsOver
  <2>3. /\ f[Pick(s)] \in Nat /\ g[Pick(s)] \in Nat /\ f[p] \in Nat /\ g[p] \in Nat
        /\ sf[s \ {Pick(s)}] \in Int
    BY <2>1
  <2>4. CASE Pick(s) = p
    <3>1. sg[s \ {Pick(s)}] = sf[s \ {Pick(s)}] /\ p \in s
      BY <2>1, <2>3, <2>4
    <3> QED BY <2>1, <2>2, <2>3, <2>4, <3>1
  <2>5. CASE Pick(s) # p
    <3>1. sg[s \ {Pick(s)}] = sf[s \ {Pick(s)}] + d(s) /\ g[Pick(s)] = f[Pick(s)]
      BY <2>1, <2>5
    <3> QED BY <2>1, <2>2, <2>3, <3>1
  <2> QED BY <2>4, <2>5
<1>5. D \in P
  <2> HIDE DEF P
  <2> QED BY <1>3, <1>4, FiniteSubsetInduction
<1> QED BY <1>1, <1>2, <1>5

----------------------------------------------------------------------------

\* The ranges without their upper bounds.
Ranges ==
  /\ free \in Nat
  /\ level \in [Purposes -> Nat] /\ held \in [Purposes -> Nat]
  /\ pc \in [Clients -> {"idle", "available", "popped", "putting"}]
  /\ purpose \in [Clients -> Purposes \cup {"maxPurpose"}]

\* A client inside GetPage() remembers the purpose it was called with.
PurposeKnown ==
  \A c \in Clients : pc[c] \in {"available", "popped"} => purpose[c] \in Purposes

\* The inductive invariant.
IInv == Ranges /\ PurposeKnown /\ PagesAccounted

----------------------------------------------------------------------------
(* Counting *)

\* A set of clients can be counted, before and after any step.
LEMMA AtFinite ==
  ASSUME NEW label
  PROVE  /\ IsFiniteSet(At(label)) /\ Cardinality(At(label)) \in Nat
         /\ IsFiniteSet(At(label)') /\ Cardinality(At(label)') \in Nat
<1>1. IsFiniteSet(At(label)) /\ IsFiniteSet(At(label)')
  BY PurposesAssumption, FS_Subset DEF At
<1> QED BY <1>1, FS_CardinalityType

\* How a step of one client changes the number of clients at a label.
LEMMA AtFollows ==
  ASSUME NEW c \in Clients, \A d \in Clients \ {c} : pc'[d] = pc[d], NEW label
  PROVE  /\ (pc[c] = label <=> pc'[c] = label) => Cardinality(At(label)') = Cardinality(At(label))
         /\ pc[c] # label /\ pc'[c] = label => Cardinality(At(label)') = Cardinality(At(label)) + 1
         /\ pc[c] = label /\ pc'[c] # label => Cardinality(At(label)') = Cardinality(At(label)) - 1
<1>1. \A d : d # c => (d \in At(label) <=> d \in At(label)')
  BY DEF At
<1>2. (c \in At(label) <=> pc[c] = label) /\ (c \in At(label)' <=> pc'[c] = label)
  BY DEF At
<1>3. IsFiniteSet(At(label)) /\ IsFiniteSet(At(label)')
  BY AtFinite
<1> HIDE DEF At
<1> QED BY <1>1, <1>2, <1>3, OneElement

\* How a page that is got or put changes the sum over the purposes.
LEMMA HeldFollows ==
  ASSUME Ranges, NEW p \in Purposes, NEW n \in Nat, held' = [held EXCEPT ![p] = n]
  PROVE  SumFunction(held') = SumFunction(held) + n - held[p]
<1>1. /\ held \in [Purposes -> Nat] /\ held' \in [Purposes -> Nat] /\ held'[p] = n
      /\ \A x \in Purposes \ {p} : held'[x] = held[x]
  BY DEF Ranges
<1>2. SumFunction(held') = SumFunction(held) + held'[p] - held[p]
  <2>1. \A f \in [Purposes -> Nat] : \A g \in [Purposes -> Nat] :
          (\A x \in Purposes \ {p} : g[x] = f[x]) => SumFunction(g) = SumFunction(f) + g[p] - f[p]
    BY PurposesAssumption, SumChanges
  <2> QED BY <1>1, <2>1
<1> QED BY <1>1, <1>2

----------------------------------------------------------------------------
(* The invariant *)

\* All pages are in the pool when it is created.
LEMMA InitIInv == Init => IInv
<1> SUFFICES ASSUME Init PROVE IInv
  OBVIOUS
<1>1. PageLimit \in Nat
  BY LimitAssumption, PurposesAssumption, SumOfNats DEF PageLimit
<1>2. Ranges /\ PurposeKnown
  BY <1>1 DEF Init, Ranges, PurposeKnown
<1>3. SumFunction(held) = 0
  BY PurposesAssumption, SumOfZeros DEF Init
<1>4. At("popped") = {} /\ At("putting") = {}
  BY DEF Init, At
<1>5. Cardinality(At("popped")) = 0 /\ Cardinality(At("putting")) = 0
  BY <1>4, FS_EmptySet
<1>6. PagesAccounted
  BY <1>1, <1>3, <1>5 DEF PagesAccounted, Init
<1> QED BY <1>2, <1>6 DEF IInv

\* A step of a client moves a page from one term of the equation to another.
LEMMA NextIInv == IInv /\ [Next]_vars => IInv'
<1> SUFFICES ASSUME IInv, [Next]_vars PROVE IInv'
  OBVIOUS
<1> DEFINE total == SumFunction(held)
           popped == Cardinality(At("popped"))
           putting == Cardinality(At("putting"))
<1>1. Ranges /\ PurposeKnown /\ PagesAccounted
  BY DEF IInv
<1>2. /\ free + total + popped + putting = PageLimit
      /\ \A p \in Purposes : level[p] = held[p]
  BY <1>1 DEF PagesAccounted
<1>3. total \in Nat /\ popped \in Nat /\ putting \in Nat /\ free \in Nat
  BY <1>1, AtFinite, SumOfNats, PurposesAssumption DEF Ranges
<1>4. ASSUME free' + total' + popped' + putting' = free + total + popped + putting,
             \A p \in Purposes : level'[p] = held'[p]
      PROVE  PagesAccounted'
  BY <1>2, <1>4 DEF PagesAccounted, PageLimit
<1>5. ASSUME NEW c \in Clients, NEW p \in Purposes, GetPage(c, p) PROVE IInv'
  <2>1. Ranges' /\ PurposeKnown'
    BY <1>1, <1>5 DEF GetPage, Ranges, PurposeKnown
  <2>2. popped' = popped /\ putting' = putting
    <3>1. (\A d \in Clients \ {c} : pc'[d] = pc[d]) /\ pc[c] = "idle" /\ pc'[c] = "available"
      BY <1>1, <1>5 DEF GetPage, Ranges
    <3> QED BY <3>1, AtFollows
  <2>3. total' = total /\ free' = free /\ \A q \in Purposes : level'[q] = held'[q]
    BY <1>2, <1>5 DEF GetPage
  <2> QED BY <1>4, <2>1, <2>2, <2>3 DEF IInv
<1>6. ASSUME NEW c \in Clients, GetPop(c) PROVE IInv'
  <2>1. Ranges' /\ PurposeKnown'
    BY <1>1, <1>6 DEF GetPop, Ranges, PurposeKnown
  <2>2. popped' = popped + 1 /\ putting' = putting
    <3>1. (\A d \in Clients \ {c} : pc'[d] = pc[d]) /\ pc[c] = "available" /\ pc'[c] = "popped"
      BY <1>1, <1>6 DEF GetPop, Ranges
    <3> QED BY <3>1, AtFollows
  <2>3. total' = total /\ free' = free - 1 /\ \A q \in Purposes : level'[q] = held'[q]
    BY <1>2, <1>6 DEF GetPop
  <2>4. free' + total' + popped' + putting' = free + total + popped + putting
    BY <1>3, <2>2, <2>3
  <2> QED BY <1>4, <2>1, <2>3, <2>4 DEF IInv
<1>7. ASSUME NEW c \in Clients, GetFail(c) PROVE IInv'
  <2>1. Ranges' /\ PurposeKnown'
    BY <1>1, <1>7 DEF GetFail, Ranges, PurposeKnown
  <2>2. popped' = popped /\ putting' = putting
    <3>1. (\A d \in Clients \ {c} : pc'[d] = pc[d]) /\ pc[c] = "available" /\ pc'[c] = "idle"
      BY <1>1, <1>7 DEF GetFail, Ranges
    <3> QED BY <3>1, AtFollows
  <2>3. total' = total /\ free' = free /\ \A q \in Purposes : level'[q] = held'[q]
    BY <1>2, <1>7 DEF GetFail
  <2> QED BY <1>4, <2>1, <2>2, <2>3 DEF IInv
<1>8. ASSUME NEW c \in Clients, GetLevel(c) PROVE IInv'
  <2> DEFINE p == purpose[c]
  <2>0. p \in Purposes /\ held[p] \in Nat /\ level[p] \in Nat
    BY <1>1, <1>8 DEF GetLevel, PurposeKnown, Ranges
  <2>1. Ranges' /\ PurposeKnown'
    BY <1>1, <1>8, <2>0 DEF GetLevel, Ranges, PurposeKnown
  <2>2. popped' = popped - 1 /\ putting' = putting
    <3>1. (\A d \in Clients \ {c} : pc'[d] = pc[d]) /\ pc[c] = "popped" /\ pc'[c] = "idle"
      BY <1>1, <1>8 DEF GetLevel, Ranges
    <3> QED BY <3>1, AtFollows
  <2>3. total' = total + 1
    <3>1. held' = [held EXCEPT ![p] = held[p] + 1] /\ held[p] + 1 \in Nat
      BY <1>8, <2>0 DEF GetLevel
    <3>2. total' = total + (held[p] + 1) - held[p]
      BY <1>1, <2>0, <3>1, HeldFollows
    <3> QED BY <1>3, <2>0, <3>2
  <2>4. free' = free /\ \A q \in Purposes : level'[q] = held'[q]
    BY <1>1, <1>2, <1>8, <2>0 DEF GetLevel, Ranges
  <2> QED BY <1>3, <1>4, <2>1, <2>2, <2>3, <2>4 DEF IInv
<1>9. ASSUME NEW c \in Clients, NEW p \in Purposes, PutLevel(c, p) PROVE IInv'
  <2>0. held[p] \in Nat /\ level[p] = held[p] /\ held[p] > 0
    BY <1>1, <1>2, <1>9 DEF PutLevel, Ranges
  <2>1. Ranges' /\ PurposeKnown'
    BY <1>1, <1>9, <2>0 DEF PutLevel, Ranges, PurposeKnown
  <2>2. popped' = popped /\ putting' = putting + 1
    <3>1. (\A d \in Clients \ {c} : pc'[d] = pc[d]) /\ pc[c] = "idle" /\ pc'[c] = "putting"
      BY <1>1, <1>9 DEF PutLevel, Ranges
    <3> QED BY <3>1, AtFollows
  <2>3. total' = total - 1
    <3>1. held' = [held EXCEPT ![p] = held[p] - 1] /\ held[p] - 1 \in Nat
      BY <1>9, <2>0 DEF PutLevel
    <3>2. total' = total + (held[p] - 1) - held[p]
      BY <1>1, <2>0, <3>1, HeldFollows
    <3> QED BY <1>3, <2>0, <3>2
  <2>4. free' = free /\ \A q \in Purposes : level'[q] = held'[q]
    BY <1>1, <1>2, <1>9, <2>0 DEF PutLevel, Ranges
  <2> QED BY <1>3, <1>4, <2>1, <2>2, <2>3, <2>4 DEF IInv
<1>10. ASSUME NEW c \in Clients, PutPush(c) PROVE IInv'
  <2>1. Ranges' /\ PurposeKnown'
    BY <1>1, <1>10 DEF PutPush, Ranges, PurposeKnown
  <2>2. popped' = popped /\ putting' = putting - 1
    <3>1. (\A d \in Clients \ {c} : pc'[d] = pc[d]) /\ pc[c] = "putting" /\ pc'[c] = "idle"
      BY <1>1, <1>10 DEF PutPush, Ranges
    <3> QED BY <3>1, AtFollows
  <2>3. total' = total /\ free' = free + 1 /\ \A q \in Purposes : level'[q] = held'[q]
    BY <1>2, <1>10 DEF PutPush
  <2> QED BY <1>3, <1>4, <2>1, <2>2, <2>3 DEF IInv
<1>11. CASE UNCHANGED vars
  BY <1>11 DEF vars, IInv, Ranges, PurposeKnown, PagesAccounted, At, PageLimit
<1> QED BY <1>5, <1>6, <1>7, <1>8, <1>9, <1>10, <1>11 DEF Next

\* Every state of the pool satisfies the invariant.
LEMMA Invariant == Spec => []IInv
BY InitIInv, NextIInv, PTL DEF Spec

\* No page is lost or made up by concurrent GetPage() and PutPage(), and the
\* level of each purpose is exactly the number of its pages in use.
THEOREM AllPagesAccounted == Spec => []PagesAccounted
<1>1. IInv => PagesAccounted
  BY DEF IInv
<1> QED BY <1>1, Invariant, PTL

\* No level, and not the free list either, exceeds PageLimit() or drops
\* below zero, where size_t would wrap around.
THEOREM TypeCorrect == Spec => []TypeOK
<1>1. IInv => TypeOK
  <2> SUFFICES ASSUME IInv PROVE TypeOK
    OBVIOUS
  <2> DEFINE total == SumFunction(held)
             moving == Cardinality(At("popped")) + Cardinality(At("putting"))
  <2>1. /\ free \in Nat /\ held \in [Purposes -> Nat] /\ level \in [Purposes -> Nat]
        /\ \A p \in Purposes : level[p] = held[p]
        /\ free + total + Cardinality(At("popped")) + Cardinality(At("putting")) = PageLimit
    BY DEF IInv, Ranges, PagesAccounted
  <2>2. total \in Nat /\ \A p \in Purposes : held[p] <= total
    BY <2>1, PurposesAssumption, SumOfNats
  <2>3. Cardinality(At("popped")) \in Nat /\ Cardinality(At("putting")) \in Nat
    BY AtFinite
  <2>4. PageLimit \in Nat /\ free <= PageLimit /\ total <= PageLimit
    BY <2>1, <2>2, <2>3
  <2>5. \A p \in Purposes : held[p] \in 0..PageLimit /\ level[p] \in 0..PageLimit
    BY <2>1, <2>2, <2>4
  <2> QED BY <2>1, <2>4, <2>5 DEF IInv, Ranges, TypeOK
<1> QED BY <1>1, Invariant, PTL
=============================================================================
