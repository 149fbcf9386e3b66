----------------------------- MODULE PageStack -----------------------------
(***************************************************************************)
(* Ipc::Mem::PageStack (src/src/ipc/mem/PageStack.{h,cc}): the lockless    *)
(* shared memory container of free page numbers, used by the shared page   *)
(* pool, by the memory cache and by every Rock cache_dir.                  *)
(*                                                                         *)
(* pop() walks an IdSet tree down, reserving an ID at every level with a   *)
(* compare-and-exchange loop, and push() walks it up.  Each atomic         *)
(* operation is one action; a loop of them is the one that succeeds, since *)
(* the failed ones change nothing.  Clients are the processes (and the     *)
(* calls within a process) that use the stack at the same time.            *)
(***************************************************************************)
EXTENDS IdSet

CONSTANTS
  Clients,  \* concurrent users of the stack
  Capacity  \* config_.capacity

ASSUME ClientsAssumption == IsFiniteSet(Clients)
\* The constructor asserts that the tree has less than 32 levels.
ASSUME CapacityAssumption == Capacity \in Nat /\ requestedLeafNodeCount(Capacity) <= 2^30

Ids == 0..(Capacity - 1)
Height == innerLevelCount(Capacity)  \* also the level of the leaves

HasIds(pos) == IdsBelow(Capacity, pos) # {}

VARIABLES
  size_,   \* the number of free pages, approximately
  pc,      \* what each client does next
  at,      \* where each client inside IdSet::pop() or push() is in the tree
  id,      \* the page that each client pops or pushes
  owned    \* the pages that each client got and has not returned

tree == <<inner, leaf>>  \* ids_
vars == <<inner, leaf, size_, pc, at, id, owned>>

Steps == {"idle", "descending", "popped", "pushing", "ascending"}

TypeOK ==
  /\ inner \in [InnerPositions(Capacity) -> [Directions -> Nat]]
  /\ leaf \in [LeafPositions(Capacity) -> SUBSET Bits]
  /\ size_ \in 0..Capacity
  /\ pc \in [Clients -> Steps]
  /\ at \in [Clients -> InnerPositions(Capacity) \cup LeafPositions(Capacity)]
  /\ id \in [Clients -> Nat]
  /\ owned \in [Clients -> SUBSET Ids]

\* What makeFullBeforeSharing() leaves (see IdSetFill): leaves and counters of
\* all IDs, and anything in the nodes without IDs that it did not clear.
FullTree ==
  /\ \E unused \in [LeafPositions(Capacity) -> {{}, Bits}] :
       leaf = [p \in LeafPositions(Capacity) |->
                 IF HasIds(p) THEN FullLeaf(Capacity, p) ELSE unused[p]]
  /\ \E unused \in [InnerPositions(Capacity) -> {0, BitsPerLeaf}] :
       inner = [p \in InnerPositions(Capacity) |->
                  IF p = Root \/ HasIds(p) THEN FullInner(Capacity)[p]
                  ELSE [dir \in Directions |-> unused[p] * 2^(Height - 1 - p[1])]]

\* The constructor with config_.createFull.
FullStack ==
  /\ FullTree
  /\ size_ = Capacity
  /\ owned = [c \in Clients |-> {}]

\* The constructor without it: the pages belong to the creator of the stack,
\* which pushes the free ones (a Rock cache_dir after it has been scanned).
EmptyStack ==
  /\ leaf = [p \in LeafPositions(Capacity) |-> {}]
  /\ inner = [p \in InnerPositions(Capacity) |-> [dir \in Directions |-> 0]]
  /\ size_ = 0
  /\ \E creator \in Clients : owned = [c \in Clients |-> IF c = creator THEN Ids ELSE {}]

Init ==
  /\ FullStack \/ EmptyStack
  /\ pc = [c \in Clients |-> "idle"]
  /\ at = [c \in Clients |-> Root]
  /\ id = [c \in Clients |-> 0]

----------------------------------------------------------------------------
(* pop() *)

\* Mutant: the loop ends when the left subtree is empty.
AvailableOnTheLeft(node) == node["dirLeft"]

\* innerPop() ends with dirEnd if neither subtree has an ID.
Available(node) == node["dirLeft"] + node["dirRight"]

\* innerPop(): the direction that the loop settles on, left first.
innerPop(node) == IF node["dirLeft"] > 0 THEN "dirLeft" ELSE "dirRight"

\* An empty tree, or a stack without pages: pop() returns false.
PopNothing(c) ==
  /\ pc[c] = "idle"
  /\ Capacity = 0 \/ Available(inner[Root]) = 0
  /\ UNCHANGED vars

\* Mutant: the reservation is not recorded.
PopInnerForgets(c) ==
  LET pos == at[c]
  IN  /\ pc[c] \in {"idle", "descending"} /\ pos[1] < Height
      /\ Capacity # 0 /\ Available(inner[pos]) > 0
      /\ at' = [at EXCEPT ![c] = descend(pos, innerPop(inner[pos]))]
      /\ pc' = [pc EXCEPT ![c] = "descending"]
      /\ UNCHANGED <<tree, size_, id, owned>>

\* innerPop() of the root (pos is initially there) or of a node below it, and
\* descend().
PopInner(c) ==
  LET pos == at[c]
      dir == innerPop(inner[pos])
  IN  /\ pc[c] \in {"idle", "descending"} /\ pos[1] < Height
      /\ Capacity # 0 /\ Available(inner[pos]) > 0
      /\ inner' = [inner EXCEPT ![pos][dir] = @ - 1]
      /\ at' = [at EXCEPT ![c] = descend(pos, dir)]
      /\ pc' = [pc EXCEPT ![c] = "descending"]
      /\ UNCHANGED <<leaf, size_, id, owned>>

LowestBit(bits) == CHOOSE b \in bits : \A other \in bits : b <= other

\* Mutant: two clients may find the same lowest bit.
PopLeafKeepsBit(c) ==
  /\ pc[c] = "descending" /\ at[c][1] = Height
  /\ leaf[at[c]] # {}
  /\ id' = [id EXCEPT ![c] = at[c][2] * BitsPerLeaf + LowestBit(leaf[at[c]])]
  /\ pc' = [pc EXCEPT ![c] = "popped"]
  /\ UNCHANGED <<tree, size_, at, owned>>

\* leafPop(): take the lowest available ID.
PopLeaf(c) ==
  /\ pc[c] = "descending" /\ at[c][1] = Height
  /\ leaf[at[c]] # {}
  /\ id' = [id EXCEPT ![c] = at[c][2] * BitsPerLeaf + LowestBit(leaf[at[c]])]
  /\ leaf' = [leaf EXCEPT ![at[c]] = @ \ {LowestBit(@)}]
  /\ pc' = [pc EXCEPT ![c] = "popped"]
  /\ UNCHANGED <<inner, size_, at, owned>>

\* --size_ after removing the page.
PopSize(c) ==
  /\ pc[c] = "popped"
  /\ size_' = size_ - 1
  /\ owned' = [owned EXCEPT ![c] = @ \cup {id[c]}]
  /\ pc' = [pc EXCEPT ![c] = "idle"]
  /\ at' = [at EXCEPT ![c] = Root]
  /\ id' = [id EXCEPT ![c] = 0]
  /\ UNCHANGED tree

----------------------------------------------------------------------------
(* push() *)

\* Mutant: a page becomes available before it is counted.
PushSizeLater(c) ==
  /\ pc[c] = "idle"
  /\ \E page \in owned[c] :
       /\ id' = [id EXCEPT ![c] = page]
       /\ owned' = [owned EXCEPT ![c] = @ \ {page}]
  /\ pc' = [pc EXCEPT ![c] = "pushing"]
  /\ UNCHANGED <<tree, size_, at>>

\* ++size_ before inserting the page, which leaves its owner.
PushSize(c) ==
  /\ pc[c] = "idle"
  /\ size_' = size_ + 1
  /\ \E page \in owned[c] :
       /\ id' = [id EXCEPT ![c] = page]
       /\ owned' = [owned EXCEPT ![c] = @ \ {page}]
  /\ pc' = [pc EXCEPT ![c] = "pushing"]
  /\ UNCHANGED <<tree, at>>

\* leafPush()
PushLeaf(c) ==
  /\ pc[c] = "pushing"
  /\ at' = [at EXCEPT ![c] = leafOf(Capacity, id[c])]
  /\ leaf' = [leaf EXCEPT ![leafOf(Capacity, id[c])] = @ \cup {bitOf(id[c])}]
  /\ pc' = [pc EXCEPT ![c] = "ascending"]
  /\ UNCHANGED <<inner, size_, id, owned>>

\* Mutant: the direction is taken from the parent, not from the child.
PushInnerWrongDirection(c) ==
  LET pos == ascend(at[c])
  IN  /\ pc[c] = "ascending"
      /\ inner' = [inner EXCEPT ![pos][ascendDirection(pos)] = @ + 1]
      /\ at' = [at EXCEPT ![c] = pos]
      /\ pc' = [pc EXCEPT ![c] = IF pos = Root THEN "idle" ELSE "ascending"]
      /\ id' = [id EXCEPT ![c] = IF pos = Root THEN 0 ELSE @]
      /\ UNCHANGED <<leaf, size_, owned>>

\* innerPush() of every node on the way up to the root.
PushInner(c) ==
  LET pos == ascend(at[c])
  IN  /\ pc[c] = "ascending"
      /\ inner' = [inner EXCEPT ![pos][ascendDirection(at[c])] = @ + 1]
      /\ at' = [at EXCEPT ![c] = pos]
      /\ pc' = [pc EXCEPT ![c] = IF pos = Root THEN "idle" ELSE "ascending"]
      /\ id' = [id EXCEPT ![c] = IF pos = Root THEN 0 ELSE @]
      /\ UNCHANGED <<leaf, size_, owned>>

Next ==
  \E c \in Clients :
    \/ PopNothing(c) \/ PopInner(c) \/ PopLeaf(c) \/ PopSize(c)
    \/ PushSize(c) \/ PushLeaf(c) \/ PushInner(c)

Spec == Init /\ [][Next]_vars

----------------------------------------------------------------------------
(* Properties *)

\* Pops that were promised an ID below pos; pushes that stored one there and
\* have not told the parent of pos yet.
PopsAt(pos) == {c \in Clients : pc[c] = "descending" /\ at[c] = pos}
PushesAt(pos) == {c \in Clients : pc[c] = "ascending" /\ at[c] = pos}

IdsAt(pos) == IF pos[1] = Height THEN Cardinality(leaf[pos]) ELSE Available(inner[pos])

\* A counter is what the subtree has, less what it was promised or what it
\* does not know of yet.  Hence a promise made at the root can be kept at
\* every level below, which is what keeps the tree lockless.
Reservations ==
  \A pos \in InnerPositions(Capacity), dir \in Directions :
    LET child == descend(pos, dir)
    IN  IF HasIds(child)
        THEN inner[pos][dir] + Cardinality(PopsAt(child)) + Cardinality(PushesAt(child)) = IdsAt(child)
        ELSE HasIds(pos) \/ pos = Root => inner[pos][dir] = 0

\* The assertions: a descending client finds an ID (not dirEnd, not an empty
\* leaf), leafPush() adds a new entry, page numbers are valid.
AssertionsHold ==
  \A c \in Clients :
    /\ pc[c] = "descending" => HasIds(at[c]) /\ IdsAt(at[c]) > 0
    /\ pc[c] = "pushing" => bitOf(id[c]) \notin leaf[leafOf(Capacity, id[c])]
    /\ pc[c] \in {"popped", "pushing"} => id[c] \in Ids

FreePages == {page \in Ids : bitOf(page) \in leaf[leafOf(Capacity, page)]}
InTransit == {id[c] : c \in {d \in Clients : pc[d] \in {"popped", "pushing"}}}

\* A page is free, or in one pair of hands, and never lost.
NoPageLostOrShared ==
  /\ Ids = FreePages \cup InTransit \cup UNION {owned[c] : c \in Clients}
  /\ \A c \in Clients : owned[c] \cap (FreePages \cup InTransit) = {}
  /\ \A c, d \in Clients : c # d =>
       /\ owned[c] \cap owned[d] = {}
       /\ {pc[c], pc[d]} \subseteq {"popped", "pushing"} => id[c] # id[d]
  /\ FreePages \cap InTransit = {}

\* "A pushed page may not become available immediately but is never truly
\* lost": pop() fails only if every free page is being pushed, or was promised
\* to a pop in progress.
PopFailsOnlyWhenBusy ==
  Available(inner[Root]) = 0 =>
    Cardinality(FreePages) <= Cardinality({c \in Clients : pc[c] \in {"descending", "ascending"}})
=============================================================================
