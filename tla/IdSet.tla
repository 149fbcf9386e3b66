------------------------------- MODULE IdSet -------------------------------
(***************************************************************************)
(* Ipc::Mem::IdSet (src/src/ipc/mem/PageStack.{h,cc}): the shape of the    *)
(* perfect binary tree that stores a set of page IDs, and what a full tree *)
(* contains.  An inner node counts the available IDs of its left and right *)
(* subtrees; a leaf node is a bitset of them.                              *)
(*                                                                         *)
(* The code packs the two 32-bit counters of an inner node into one        *)
(* 64-bit integer; here an inner node is a function on directions and a    *)
(* leaf node is a set of bit numbers.                                      *)
(***************************************************************************)
EXTENDS Integers, FiniteSets

CONSTANT BitsPerLeaf  \* 64 in the code

ASSUME BitsPerLeafAssumption == BitsPerLeaf \in Nat \ {0}

Bits == 0..(BitsPerLeaf - 1)
Directions == {"dirLeft", "dirRight"}

VARIABLES
  inner,  \* the inner nodes, by position
  leaf    \* the leaf nodes, by position

----------------------------------------------------------------------------
(* IdSetMeasurements: what the constructor computes for a capacity *)

requestedLeafNodeCount(capacity) == (capacity + (BitsPerLeaf - 1)) \div BitsPerLeaf

\* The loop starts with the root and its two leaves and doubles the leaves
\* while there are too few of them; treeHeight < 32 is asserted.
innerLevelCount(capacity) ==
  CHOOSE levels \in 1..30 :
    /\ 2^levels >= requestedLeafNodeCount(capacity)
    /\ \A fewer \in 1..(levels - 1) : 2^fewer < requestedLeafNodeCount(capacity)

leafNodeCount(capacity) == 2^innerLevelCount(capacity)

----------------------------------------------------------------------------
(* IdSetPosition and navigation: a position is <<level, offset>> *)

Root == <<0, 0>>
AtLevel(level) == {level} \X (0..(2^level - 1))
InnerPositions(capacity) == UNION {AtLevel(level) : level \in 0..(innerLevelCount(capacity) - 1)}
LeafPositions(capacity) == AtLevel(innerLevelCount(capacity))

ascendDirection(pos) == IF pos[2] % 2 = 0 THEN "dirLeft" ELSE "dirRight"
ascend(pos) == <<pos[1] - 1, pos[2] \div 2>>
descend(pos, dir) == <<pos[1] + 1, pos[2] * 2 + (IF dir = "dirRight" THEN 1 ELSE 0)>>

\* The leaf and the bit of an ID.
leafOf(capacity, id) == <<innerLevelCount(capacity), id \div BitsPerLeaf>>
bitOf(id) == id % BitsPerLeaf

----------------------------------------------------------------------------
(* What the tree means *)

\* The IDs that belong below a position.
IdsBelow(capacity, pos) ==
  {id \in 0..(capacity - 1) :
     id \div (BitsPerLeaf * 2^(innerLevelCount(capacity) - pos[1])) = pos[2]}

\* A full tree: every ID below the capacity is available and counted once at
\* every level above it.
FullInner(capacity) ==
  [pos \in InnerPositions(capacity) |->
     [dir \in Directions |-> Cardinality(IdsBelow(capacity, descend(pos, dir)))]]
FullLeaf(capacity, pos) == {bitOf(id) : id \in IdsBelow(capacity, pos)}
=============================================================================
