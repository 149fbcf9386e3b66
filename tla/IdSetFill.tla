----------------------------- MODULE IdSetFill -----------------------------
(***************************************************************************)
(* IdSet::makeFullBeforeSharing() (src/src/ipc/mem/PageStack.cc): filling  *)
(* a tree of any capacity, one action per step of the algorithm.  It runs  *)
(* in the one process that creates the segment, before anybody shares it.  *)
(***************************************************************************)
EXTENDS IdSet

CONSTANT MaxCapacity  \* bound on the capacities that are tried

VARIABLES
  capacity,    \* measurements.capacity, constant for a tree
  phase,       \* the next step of makeFullBeforeSharing()
  place,       \* pos, the local variable of the loops
  toSubtract   \* the local variable of truncateExtras()

fillVars == <<capacity, inner, leaf, phase, place, toSubtract>>

\* The nodes of a fresh segment are zeros.
FillInit ==
  /\ capacity \in 0..MaxCapacity
  /\ inner = [p \in InnerPositions(capacity) |-> [dir \in Directions |-> 0]]
  /\ leaf = [p \in LeafPositions(capacity) |-> {}]
  /\ phase = "fillLeaves" /\ place = <<innerLevelCount(capacity), 0>> /\ toSubtract = 0

\* fillAllNodes() starts with the leaves.
fillLeaves ==
  /\ phase = "fillLeaves"
  /\ leaf' = [p \in LeafPositions(capacity) |-> Bits]
  /\ phase' = "fillInner"
  /\ UNCHANGED <<capacity, inner, place, toSubtract>>

\* One iteration of its loop fills a level: pagesBelow starts with
\* BitsPerLeaf and doubles.  Truncation follows if there are extra IDs.
fillInner ==
  LET level == place[1] - 1
      pagesBelow == BitsPerLeaf * 2^(innerLevelCount(capacity) - 1 - level)
  IN
  /\ phase = "fillInner"
  /\ place' = ascend(place)
  /\ inner' = [p \in InnerPositions(capacity) |->
                 IF p[1] = level THEN [dir \in Directions |-> pagesBelow] ELSE inner[p]]
  /\ phase' = IF place' # Root THEN "fillInner"
              ELSE IF capacity # leafNodeCount(capacity) * BitsPerLeaf THEN "truncateLeaves"
              ELSE "done"
  /\ UNCHANGED <<capacity, leaf, toSubtract>>

\* leafTruncate() shifts ones out.  A shift by the full width, when no ID is
\* to be kept, is undefined: all 0s or all 1s remain.
leafTruncate(idsToKeep) == IF idsToKeep = 0 THEN {{}, Bits} ELSE {0..(idsToKeep - 1)}

\* truncateExtras() starts with the left-most leaf that should have some 0s
\* and zeroes some leaves to the right of it.
truncateLeaves ==
  LET first == <<innerLevelCount(capacity), capacity \div BitsPerLeaf>>
      rightLeaves == leafNodeCount(capacity) - requestedLeafNodeCount(capacity)
      zeroed == {p \in LeafPositions(capacity) : p[2] \in (first[2] + 1)..(first[2] + rightLeaves - 1)}
  IN
  /\ phase = "truncateLeaves"
  /\ \E bits \in leafTruncate(capacity % BitsPerLeaf) :
       leaf' = [p \in LeafPositions(capacity) |->
                  IF p = first THEN bits ELSE IF p \in zeroed THEN {} ELSE leaf[p]]
  /\ place' = first
  /\ toSubtract' = BitsPerLeaf - (capacity % BitsPerLeaf)
  /\ phase' = "truncateInner"
  /\ UNCHANGED <<capacity, inner>>

\* Mutant: the subtree to the right of the path keeps its IDs.
truncateInnerKeepsRight ==
  LET dir == ascendDirection(place)
      node == inner[ascend(place)]
  IN
  /\ phase = "truncateInner"
  /\ node[dir] >= toSubtract
  /\ place' = ascend(place)
  /\ inner' = [inner EXCEPT ![place'][dir] = @ - toSubtract]
  /\ UNCHANGED <<capacity, leaf, toSubtract>>
  /\ phase' = IF place' = Root THEN "done" ELSE "truncateInner"

\* innerTruncate() for the next node on the way up; going left also empties
\* the right subtree.  The guard is the assertion on the counter.
truncateInner ==
  LET dir == ascendDirection(place)
      node == inner[ascend(place)]
  IN
  /\ phase = "truncateInner"
  /\ node[dir] >= toSubtract
  /\ place' = ascend(place)
  /\ IF dir = "dirLeft"
     THEN /\ toSubtract' = toSubtract + node["dirRight"]
          /\ inner' = [inner EXCEPT ![place']["dirLeft"] = @ - toSubtract, ![place']["dirRight"] = 0]
     ELSE /\ toSubtract' = toSubtract
          /\ inner' = [inner EXCEPT ![place']["dirRight"] = @ - toSubtract]
  /\ phase' = IF place' = Root THEN "done" ELSE "truncateInner"
  /\ UNCHANGED <<capacity, leaf>>

\* The tree is ready to be shared.
Done == phase = "done" /\ UNCHANGED fillVars

FillNext == fillLeaves \/ fillInner \/ truncateLeaves \/ truncateInner \/ Done

FillSpec == FillInit /\ [][FillNext]_fillVars

----------------------------------------------------------------------------
\* Whatever the capacity, and whatever an undefined shift leaves behind, the
\* nodes that pop() can reach through positive counters end up full: their
\* counters are the numbers of IDs below the capacity and their leaves have
\* exactly these IDs.  Nodes without IDs keep anything.
FullWhenDone ==
  phase = "done" =>
    /\ inner[Root] = FullInner(capacity)[Root]
    /\ \A p \in InnerPositions(capacity) :
         IdsBelow(capacity, p) # {} => inner[p] = FullInner(capacity)[p]
    /\ \A p \in LeafPositions(capacity) :
         IdsBelow(capacity, p) # {} => leaf[p] = FullLeaf(capacity, p)
=============================================================================
