------------------------------ MODULE PagePool ------------------------------
(***************************************************************************)
(* Ipc::Mem::GetPage() and PutPage() (src/src/ipc/mem/Pages.{h,cc}) and    *)
(* the Ipc::Mem::PagePool behind them (PagePool.{h,cc}): the pool of       *)
(* shared memory pages, split between purposes (cache and I/O pages).      *)
(*                                                                         *)
(* The number of pages that a purpose may use is checked by GetPage()      *)
(* before it pops a page, and the level of the purpose is raised after,    *)
(* each with an atomic operation of its own.  PageStack is seen from above *)
(* here: which page a pop() returns does not matter, and whether it        *)
(* returns one is decided by the root of the tree, the first node that a   *)
(* pop() and the last node that a push() changes.  So the pool is a number *)
(* of free pages.                                                          *)
(***************************************************************************)
EXTENDS Integers, FiniteSets, Functions

CONSTANTS
  Clients,   \* concurrent users of the pool
  Purposes,  \* PageId::Purpose
  Limit,     \* TheLimits: the pages that each purpose may use
  SizeMax    \* size_t wraps around after this value

ASSUME PurposesAssumption == IsFiniteSet(Purposes) /\ IsFiniteSet(Clients)
ASSUME LimitAssumption == Limit \in [Purposes -> Nat] /\ SizeMax \in Nat

\* PageLimit(): the pool is created with a page for every need.
PageLimit == SumFunction(Limit)

VARIABLES
  free,     \* the number of pages in pageIndex
  level,    \* theLevels
  pc,       \* what each client does next
  purpose,  \* the purpose of the page that each client is getting
  held      \* how many pages of each purpose are in use; a process may put a
            \* page that another one got

vars == <<free, level, pc, purpose, held>>

TypeOK ==
  /\ free \in 0..PageLimit
  /\ level \in [Purposes -> 0..PageLimit]
  /\ pc \in [Clients -> {"idle", "available", "popped", "putting"}]
  /\ purpose \in [Clients -> Purposes \cup {"maxPurpose"}]
  /\ held \in [Purposes -> 0..PageLimit]

\* PagePool::Init(): all pages are initially available.
Init ==
  /\ free = PageLimit
  /\ level = [p \in Purposes |-> 0]
  /\ pc = [c \in Clients |-> "idle"]
  /\ purpose = [c \in Clients |-> "maxPurpose"]
  /\ held = [p \in Purposes |-> 0]

\* PageLimit(purpose) - PageLevel(purpose), in size_t.
PagesAvailable(p) == (Limit[p] - level[p]) % (SizeMax + 1)

\* GetPage() goes on to PagePool::get() if PagesAvailable(purpose) > 0.
GetPage(c, p) ==
  /\ pc[c] = "idle"
  /\ PagesAvailable(p) > 0
  /\ pc' = [pc EXCEPT ![c] = "available"]
  /\ purpose' = [purpose EXCEPT ![c] = p]
  /\ UNCHANGED <<free, level, held>>

\* pageIndex->pop() finds a page.
GetPop(c) ==
  /\ pc[c] = "available" /\ free > 0
  /\ pc' = [pc EXCEPT ![c] = "popped"]
  /\ free' = free - 1
  /\ UNCHANGED <<level, purpose, held>>

\* It does not, although the purpose is below its limit.
GetFail(c) ==
  /\ pc[c] = "available" /\ free = 0
  /\ pc' = [pc EXCEPT ![c] = "idle"]
  /\ purpose' = [purpose EXCEPT ![c] = "maxPurpose"]
  /\ UNCHANGED <<free, level, held>>

\* ++theLevels[purpose] of a page that the client now has.
GetLevel(c) ==
  /\ pc[c] = "popped"
  /\ pc' = [pc EXCEPT ![c] = "idle"]
  /\ level' = [level EXCEPT ![purpose[c]] = @ + 1]
  /\ held' = [held EXCEPT ![purpose[c]] = @ + 1]
  /\ purpose' = [purpose EXCEPT ![c] = "maxPurpose"]
  /\ UNCHANGED free

\* Mutant: both PutPage() and put() lower the level.
PutLevelTwice(c, p) ==
  /\ pc[c] = "idle"
  /\ held[p] > 0
  /\ level' = [level EXCEPT ![p] = @ - 2]
  /\ held' = [held EXCEPT ![p] = @ - 1]
  /\ pc' = [pc EXCEPT ![c] = "putting"]
  /\ UNCHANGED <<free, purpose>>

\* PutPage() and PagePool::put(): --theLevels[page.purpose].
PutLevel(c, p) ==
  /\ pc[c] = "idle"
  /\ held[p] > 0
  /\ level' = [level EXCEPT ![p] = @ - 1]
  /\ held' = [held EXCEPT ![p] = @ - 1]
  /\ pc' = [pc EXCEPT ![c] = "putting"]
  /\ UNCHANGED <<free, purpose>>

\* Mutant: a page without a purpose is dropped.
PutPushForgets(c) ==
  /\ pc[c] = "putting"
  /\ pc' = [pc EXCEPT ![c] = "idle"]
  /\ UNCHANGED <<free, level, purpose, held>>

\* pageIndex->push()
PutPush(c) ==
  /\ pc[c] = "putting"
  /\ free' = free + 1
  /\ pc' = [pc EXCEPT ![c] = "idle"]
  /\ UNCHANGED <<level, purpose, held>>

Next ==
  \E c \in Clients :
    \/ GetPop(c) \/ GetFail(c) \/ GetLevel(c) \/ PutPush(c)
    \/ \E p \in Purposes : GetPage(c, p) \/ PutLevel(c, p)

Spec == Init /\ [][Next]_vars

----------------------------------------------------------------------------
At(label) == {c \in Clients : pc[c] = label}

\* No page is lost or made up, and a level is exactly the number of pages that
\* clients have: it cannot drop below zero, where size_t would wrap.
PagesAccounted ==
  /\ \A p \in Purposes : level[p] = held[p]
  /\ free + SumFunction(held) + Cardinality(At("popped")) + Cardinality(At("putting")) = PageLimit

\* "approximate total number of shared memory pages we can allocate now for
\* given purpose": it is not more than the pages that there are.  Does not hold,
\* see the README.
AvailableWithinLimit == \A p \in Purposes : PagesAvailable(p) <= Limit[p]
=============================================================================
