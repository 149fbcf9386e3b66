# A TLA+ model of the shared memory core of Squid

Squid runs as several processes ("kids"): workers that serve clients, diskers
that do the disk I/O of a Rock `cache_dir`, and a Coordinator.  What holds a
multi-process Squid together is a small amount of lockless code in shared
memory: reader-writer locks, sets of free pages, queues with wakeup
notifications, the maps of cached entries, the sharing of responses that are
still being fetched, and the disk I/O protocol between workers and diskers.
No unit test can interleave that code, and every cache hit depends on it.  It
is modelled here, with the pool of helper processes as a first part that lives
in one process; checked with TLC; and proved about with TLAPS.

Paths below are relative to the repository (`src/` is its root).

## 1. Inventory

| Part | State | Operations | Interacts with | What is hard | Correct when |
|---|---|---|---|---|---|
| `Ipc::ReadWriteLock` (`src/src/ipc/ReadWriteLock.*`) | `readers`, `writing`, `appending`, `updating`, `readLevel`, `writeLevel` | lock and unlock, shared, exclusive, headers; append; switch | one per StoreMap anchor | five independent atomics, no retry, undo on failure | one writer, readers excluded unless appending, counters never leak |
| `Ipc::Mem::IdSet`, `PageStack` (`src/src/ipc/mem/PageStack.*`) | tree of counters and bitsets, `size_` | `pop()`, `push()`, fill | PagePool, MemStore, Rock | reservations on the way down race with insertions on the way up | no page lost or shared, asserts hold |
| `PagePool`, `GetPage()` (`src/src/ipc/mem/PagePool.*`, `Pages.*`) | per-purpose levels | get, put | PageStack, IpcIoFile, MemStore | check-then-act, unsigned subtraction | pages accounted for, limits |
| Queues (`src/src/ipc/Queue.*`) | `theIn`, `theOut`, `theSize`, `popBlocked`, `popSignal` | push, pop, block, signal | CollapsedForwarding, IpcIoFile | lost wakeups, wrap-around, restarts | FIFO, one signal, no lost wakeup |
| `StoreMap` (`src/src/ipc/StoreMap.*`) | anchors, names (`fileNos`), slices, chains, free slots | open, close, append, abort, free with and without a lock, purge, update headers | ReadWriteLock, MemStore, Rock | chains freed while read, two anchors that share a suffix, deletions without a lock | slices neither lost nor shared, truncated and deleted entries not served |
| `Transients`, `CollapsedForwarding`, Store controller, `MemStore` | xit and mem anchors, local entries, message queues | write, complete, abort, evict, join, sync, leave | StoreMap, Queue | joining while writing, dropped messages, deletion at any point | followers see everything, or give up |
| Helpers (`src/src/helper.cc`) | queue, processes with their requests, `n_active`, `pending` | submit, dispatch, reply, time out, retry, exit, restart, reconfigure | redirectors, ACLs, authenticators | late, partial and missing replies; counters; exits in every phase | each caller answered once, with its own answer |
| `IpcIoFile` (`src/src/DiskIO/IpcIo/`) | two request maps, IDs, timer | read, write, responses, timeouts, disker loop | Queue, PagePool, Rock | late answers, recursion, pages in messages | each I/O completed once, eventually |
| Everything else | | | | | see "components" in PROJECT.json |

Components interact through shared memory and through Unix datagrams that only
say "look at your queue".  A kid may be killed at any time and is restarted by
the master process; the shared memory stays.

## 2. Modules

| Module | Models | Kind |
|---|---|---|
| `ReadWriteLock` | every method of the lock, one action per atomic operation, any number of users | component |
| `AbstractLock` | what a user may rely on: who holds what | abstract specification |
| `ReadWriteLockProofs` | theorems about `ReadWriteLock`, refinement included | TLAPS |
| `IdSet` | nodes, shape, navigation and meaning of the page ID tree | state and pure operators |
| `IdSetFill` | `makeFullBeforeSharing()` step by step, any capacity | component |
| `PageStack` | concurrent `pop()` and `push()` | component |
| `PagePool` | `GetPage()`, `PutPage()` on top of a PageStack seen from above | component |
| `Queue` | incoming queues of one process, their reader, notifications | component |
| `IpcIoFile` | one worker, one disker, two queues seen from above, pages, timeouts | composition |
| `StoreMap` | anchors, names, slices and chains, with the part of MemStore that fills them | component, on locks seen from above |
| `Transients` | one shared entry: Transients, broadcasts, Store controller, MemStore | composition, on maps and queues seen from above |
| `Helper` | a pool of stateless helper processes | component |
| `PageStackProofs`, `PagePoolProofs`, `QueueProofs`, `StoreMapProofs`, `TransientsProofs`, `IpcIoFileProofs`, `HelperProofs` | theorems about the component of that name; `PageStackProofs` also about `IdSetFill` | TLAPS |
| `MCReadWriteLock`, `MCPageStack`, `MCPagePool`, `MCStoreMap` | symmetry sets and limits for TLC | MC |

State corresponds to the code by name: a TLA+ variable has the name of the
data member.  `pc` (or `wpc`, `rpc`, `phase`, `calls`) is where a process is in
the code.  Each access to a `std::atomic` is an action of its own; what a
process does between two of them is part of the action before or after it.
A compare-and-exchange loop is the iteration that succeeds.

* **ReadWriteLock.**  A user is a process, or one of several users inside a
  process.  `Api` is the set of methods that users call: the cache maps and
  the Transients map use different ones, and the difference matters.
* **IdSet, PageStack.**  The two 32-bit counters that the code packs into one
  64-bit word are a pair; a leaf word is a set of bit numbers.  `BitsPerLeaf`
  is 64 in the code.  `owned` records which client has which page.  A stack that
  is created full starts from any tree that `makeFullBeforeSharing()` can leave
  (`FullTree`): nodes without IDs have what it did not clear.
* **PagePool.**  The stack is a number of free pages: whether `pop()` returns
  a page is decided by the root counter, which a pop changes first and a push
  last.  `size_t` keeps its wrap-around (`SizeMax`).
* **Queue.**  Items are numbered, so order and identity are visible.
  `notifications` are datagrams (external); `Restart` is a kid that dies in
  its event loop and binds a new socket.
* **StoreMap.**  The lock is seen from above (its inside is `ReadWriteLock`, and
  what that run shows is what this module assumes), but a shared lock takes two
  steps: `lockShared()` lets a reader in and counts it later, and
  `abortWriting()` looks at the counted readers only (`Counted`).  So a reader may
  get in before, while or after the aborting writer frees the chain.  A walk
  along a whole chain is one step.  A user of the map is a transaction of any
  process.  `openForUpdating()`, `abortWriting()`, `freeEntryByKey()` (which compares
  the key and then marks the anchor, with a shared lock or with none) and
  `closeForUpdating()` are taken apart.  The checks of `openForReadingAt()` after
  its lock are one step: with a shared lock of an anchor, its key can only go
  away.  Slots are freed and taken as MemStore does, purging included; a slice is
  full when it is linked.  An update of an entry that was freed under it throws
  in `updateHeadersOrThrow()` (`MemStore.cc:364`: `rewind()` leaves no size).
  `partial`, `early` and `doomed` are history: an entry that is not written to its
  end, an update that opened what another update was about to mark, a deletion
  seen before the name moved.
* **Transients.**  Everything about one key: the anchor `xit` of Transients,
  the anchor `mem` of the memory cache, and in each worker one local entry.
  `todo` is what the running handler has still to do: each access to shared
  memory is a step, so that other workers run in between; only the lock and the
  tests of `Transients::get()` are one.  A message carries nothing but the index,
  so that the messages about the entry are a number.  The queues between workers
  are shared by all entries (`CollapsedForwarding.cc:26`), so `Push` may drop any
  message at any time.  The history variable `lost` says of a worker that the last
  message for it was dropped and that no other one about the entry is queued.
  Headers that cannot be parsed (`Unsyncable`) make `find()` give the entry up and
  `syncCollapsed()` abort it.
* **Helper.**  Squid is single-threaded here: a handler is one action, and the
  operators that it calls map a state of the pool to the possible next ones.
  The process answers in any order, in pieces, late or not at all.  Times are
  left out: any number of the oldest requests may be past the timeout, an
  overload may have lasted long enough.  Request numbers are abstracted to what
  a prefix of them is (`Radix`, 10 in the code).  `inbox` and `msg` of a server
  are on the other side of the pipe and in `rbuf`: what the process has been sent
  and not answered, and the reply that has been read in part.  Two things are
  coarser than the code: a dispatch always writes, where `helperDispatch()` leaves
  it to a write in progress (`helper.cc:1410`), so that the model ends at a write
  to a closing process that the code would postpone; and a read may end within
  a number but not right after it, where the code also sets `needsMore`, keeps
  the number in `rbuf` and passes it on as part of the text (`helper.cc:1036`).
* **IpcIoFile.**  `calls` is the call stack of the worker, because completing
  an I/O may start another one right there: in the middle of
  `HandleResponses()`, in a `push()` that is refused, and in the loop of
  `checkTimeouts()`, where the request being abandoned is still in its map.  The
  disker runs between any two steps, also between the page and the queue of one
  `push()`.  A notification that is delayed or lost is a disker or worker that
  does not act.  IDs wrap around after `IdMax` and are used again; `Paced` is the
  one restriction, that nobody starts 2^32 I/Os while one is pending, and
  nothing is assumed of answers, which may be older.  If a response finds a
  request that has been abandoned and deleted, what the code does is undefined;
  the model goes on as if the memory still held the request.  `outcome`, `serial`,
  `checks` and `died` are history variables.

Operators marked "Mutant" are deliberately broken variants of the operator
that follows; none is part of a specification.  Each property is shown to fail
when its mutant takes the place of the real operator.

## 3. Runs

| Run | Shows | Bounds |
|---|---|---|
| `lock_all` | no counter leaks, one writer, one updater, asserts hold, all methods | 4 users, symmetric |
| `lock_cache_map` | readers locked out; the lock implements AbstractLock, for the methods of MemStore and Rock | 3 users |
| `idset_fill` | the tree is exactly full | every capacity up to 36, leaves of 4 bits |
| `page_stack` | reservations kept, no page lost or shared, pop fails only for a reason | 3 clients, 5 pages, 2-bit leaves: three leaves in use, one not |
| `page_pool` | pages accounted for, levels exact | 3 clients, 3 pages, two purposes |
| `queue` | contents, order, one signal, no lost wakeup; every item popped | 2 writers, capacity 2, wrap after 4 |
| `ipcio` | each I/O in one place, completed by its own answer or after a whole timeout, and again only if an unfinished check has abandoned it; timer armed; pages; every I/O completes | 4 I/Os, 3 IDs, one page, capacity 2, call depth 2 |
| `store_map` | every slice free or in one place; truncated entries out of reach, but for one moment of an update; deletions survive header updates | 2 transactions, 2 keys with a name each, 4 slices, symmetric |
| `transients` | as long as its only message is not dropped: a quiet follower has missed nothing; deletions reach it; once the writer has closed its entry in good order it is served or gives up | 2 workers, a response of headers and one part, queues of one message |
| `transients_truncated` | **violation**: a truncated response is taken for whole | as above |
| `helper` | counters exact, one answer and one's own, everybody answered | 2 requests, 1 process that is replaced once, one retry, one exit, one reconfiguration |
| `helper_split` | **violation**: a reply goes to another request | 2 requests on one process, radix 2 |

The bounds are enough for the cases that matter: three or four users cover a
writer, a reader in transit and a third party that changes the counters in
between; five pages with two-bit leaves give a tree with two inner levels, a
partly filled leaf and an unused one; queues of capacity two reach empty, one
item, full, and wrap around many times; four I/Os fill a queue of two, run out
of pages, leave one in the hands of the disker, and have three IDs between
them, so that the last one has the ID of the first, whose answer may still be
under way.  Two
transactions on the map are enough for a writer or updater against anything
else; four slices give an update a prefix, a shared suffix and a slot to lose.
With one message about the entry per queue, and any one dropped, all cases of
dropped, delayed and queued messages occur; the invariants of `Transients` were also checked with two messages, and are proved for any
number of workers.  The invariants of `Helper` were also checked with three processes and
with two requests per process.  `helper` uses radix 10, so that numbers have
one digit; `helper_split` uses radix 2, so that the second number has two (in
the code that takes ten requests).

**Fairness.**  `queue`: weak fairness of each step of a process that is inside
`push()` or `pop()` (nothing there waits) and of the event loop getting to a
datagram that has arrived.  Starting another `push()` is not fair.  `ipcio`:
weak fairness of the worker's steps and of its timer event; none of the disker
and of notifications, so the result does not depend on the disker being alive.
`transients`: a handler runs to its end (weak), and the event loop of a worker
gets to its notifications however many other events there are (strong, since
each other handler makes the step impossible for a while); nobody has to join,
write, complete or leave.  `helper`: a process answers in the end or the pool
learns that it is gone; scheduled close handlers and the second half of a
reconfiguration are run.  Timeouts are not fair: requests are answered without.

### Findings

* `transients_truncated`: `copyFromShm()` takes the end of the chain of an entry
  without a writer for the end of the response.  When `MemStore::write()` runs
  out of slots it aborts writing and halts the entry, but a follower that
  already reads it does not look at `writerHalted` and completes its copy.
* `helper_split`: `helperHandleRead()` looks up a request with the digits that it
  has, although it has just found that they may not be all (`needsMore`).

Formulas that are kept in the modules although the code does not satisfy them.
Each says so in its comment; to see the counterexample, add it to the cfg named
here.

* `ExclusiveNotReading` (`lock_all`): `unlockSharedAndSwitchToExclusive()` decides
  with `readers` where `lockExclusive()` uses `readLevel`
  (`ReadWriteLock.cc:101`), so that a `lockShared()` caller that saw
  `writeLevel = 0` and has not counted itself yet gets in, too; the only caller
  says `assert(!s.reading())` (`StoreMap.cc:517`).  With `Api <- TransientsApi`, two
  users are enough.
* `AbortLocksOutReaders` (`lock_all`): the same window in `StoreMap::abortWriting()`:
  "`appending = false; // locks out any new readers`" (`StoreMap.cc:256`) does not
  stop a reader that has read `appending` before.  `StoreMap` has such readers, and
  its properties hold in spite of them.
* `AvailableWithinLimit` (`page_pool`): `GetPage()` checks the limit and pops later;
  with the level above the limit, the unsigned difference (`Pages.h:51`) turns
  the limit off.
* `NoLostWakeup` under `RestartSpec` (`queue`): `popSignal` stays set in shared
  memory when a reader dies with the notification in its socket, which
  `UdsOp::conn()` unlinks; a push() does not notify then.  A `UdsSender` that
  gives up has the same effect.
* `CompletedOnce` (`ipcio`, 14 states): `checkTimeouts()` completes requests that
  stay in `olderRequests` until its loop ends; a requestor that starts an I/O from
  the callback runs `HandleResponses()`, which may find the late response and
  complete the same request, already deleted, again.  `IosAccounted` says that
  nothing else completes an I/O twice.
* `UpdatesExclusive` (`store_map`, 28 states): `openForUpdating()` opens the entry
  for reading and then locks its headers (`StoreMap.cc:542`, `:559`), but does not
  look at the entry again; an update that comes to its end in between has
  spliced the body into a fresh chain, and the second update splices it into
  another, so that two anchors own the same slices, each to be freed by both
  ("finds and locks the Update entry for an exclusive metadata update",
  `StoreMap.h:255`).  The model ends there (`spliceAgain`), and the other
  properties of `StoreMap` hold up to that point.
* `ReadersProtected` (`store_map` with three slices, 20 steps): after a header
  update the shared suffix belongs to the fresh anchor, and readers of the
  stale one can outlive it; the anchor is described as "the only lockable part
  of shared StoreEntry information, providing protection for all StoreEntry
  slices" (`StoreMap.h:53`).
* `AnchorsReachable` (`store_map` with three names and keys, 29 steps): two updates
  that choose victims among each other's anchors can leave an anchor that no
  name leads to, so that its slices cannot be purged.
* `PipeIsOpen` (`helper`, 3 steps): between the end of file of a process and its
  close handler, `GetFirstAvailable()` selects the process, and `Comm::Write()`
  ("Make sure we are open, not closing, and not writing", `comm/Write.cc:36`)
  asserts that the connection is open.

Observed while modelling, without a formula of their own:

* `PageStack::size()` is an upper bound while calls are in progress, not the
  "lower bound" of `PageStack.h:175`; `truncateExtras()` zeroes one leaf too few
  and shifts by the word width when the capacity is a multiple of 64, both
  without effect, because the inner counters keep pops away (`FullWhenDone`
  allows for it).
* After an I/O timeout the response queue can overflow, and late responses take
  their page with them: `PagesInMessages` is stated up to the first timeout or
  death of a disker, and does not see these losses.  A response that is older
  than a whole cycle of IDs would complete another I/O; `AnswersMatch` leaves it
  out.
* `StoreMap`: between the switch of the fresh anchor to a shared lock and the first
  look at the mark of the stale one (`StoreMap.cc:632`, `:638`), a user with an old
  lookup of the fresh anchor's position can open what is about to be marked,
  although "the fresh anchor is still invisible to anybody but us" (`:633`); if
  the stale entry is truncated, that user gets a truncated entry.
  `TruncatedNotServed` leaves out this moment and what another update makes of an
  entry that it opened then, and nothing else.  `anchors->count` drifts, since not every way to free an entry
  lowers it; `setKey()` of an anchor that is being written overwrites
  `waitingToBeFreed`.
* `Transients`: a follower whose only message is dropped by a full queue is told
  nothing more unless the writer has more to say, and waits until its client
  leaves; the three properties except exactly that (`lost`).  When the headers of
  a follower's entry cannot be parsed and the entry is whole, `anchorEntry()` has
  already set `STORE_OK` and the abort fails an assertion; in the model it is an
  abort.  Without a `cache_dir`, `mayStartSwapOut()` returns before it sets
  `swImpossible` (`store_swapout.cc:339`), so that `transientsAbandonmentCheck()`
  (`store.cc:1847`) never stops the sharing of an entry that the memory cache
  rejects, and followers wait until the writer leaves; a follower that has found
  the entry in the memory cache is not told when its aborted writer leaves;
  `StoreEntry::abort()` asserts `STORE_PENDING`, which a follower that took a
  truncated entry for whole no longer is; `anchorEntry()` asserts that an entry
  that requires collapsing has a writer (`Transients.cc:295`), which may have
  just left; an entry of unknown size cannot be read while it is written, so
  that joining after the headers ends in "BUG: missing
  ENTRY_REQUIRES_COLLAPSING".
* `Queue`: `HandleNewData()` asserts that it pops less than `SQUID_MAXFD` messages
  in one go (`CollapsedForwarding.cc:135`); a reader that keeps finding messages
  is not stopped in the model.
* `Helper`: the request whose reply is being read when its process exits or
  overflows the buffer is dropped without a callback (`leaked` in the model);
  `requestTimeout()` does not kick the queue and resubmits a request before it
  lowers `pending`, so that with a process that never answers a request can stay
  in the queue; a reconfiguration and `Enqueue()` between its two halves can
  start more than `n_max` processes; request IDs are 64-bit and are looked up
  by an `int`; `retryBrokenHelper` is set and never read.

## 4. Proofs

A theorem holds for every value of the constants that the assumptions of its
module allow: any number of users, workers, pages, slices, any capacity.  Each
proof has the same plan: an inductive invariant (checked with TLC first), one
lemma per action, and one theorem per property.  No property below is inductive
by itself.  Each module of proofs stands alone: facts about numbers, finite sets
and sequences that it needs come first in it.

| Module | Theorems (property) | Assumptions on constants |
|---|---|---|
| `ReadWriteLockProofs` | `TypeCorrect`, `CountersAreExact` (`LevelsExact`), `WritersExclude` (`OneWriter`), `UpdatersExclude` (`OneUpdater`), `AssertionsNeverFail` (`AssertionsHold`); without `unlockSharedAndSwitchToExclusive()`: `ReadersExcluded` (`ReadersLockedOut`), `Refinement` (`ImplementsAbstractLock`) | finitely many users |
| `PageStackProofs` | `TypeCorrect`, `PromisesKept` (`Reservations`), `NoAssertionFails` (`AssertionsHold`), `PagesSafe` (`NoPageLostOrShared`), `PopFindsFreePages` (`PopFailsOnlyWhenBusy`); of `IdSetFill`: `TreeFilled` (`FullWhenDone`), `FilledForUse` | finitely many clients; a capacity whose tree has less than 32 levels, which the constructor asserts |
| `PagePoolProofs` | `TypeCorrect`, `AllPagesAccounted` (`PagesAccounted`) | finitely many clients and purposes |
| `QueueProofs` | `TypeCorrect`, `ItemsIntact` (`ContentsIntact`), `OldestFirst` (`FirstInFirstOut`), `OneSignalAtMost` (`OneSignal`), `WakeupNotLost` (`NoLostWakeup`) | the capacity divides the range of `unsigned int` ("happens to be a power of 2") and is less than that range |
| `StoreMapProofs` | `TypeCorrect`, `SlicesNeverLostOrShared` (`SlicesAccounted`), `TruncatedHidden` (`TruncatedNotServed`), `DeletionKept` (`DeletionSurvivesUpdate`) | finitely many slices; every key has a name |
| `TransientsProofs` | `TypeCorrect`, `FollowersMissNothing` (`NothingMissed`), `DeletionIsHeardOf` (`DeletionReachesAll`) | a response and queues that are not empty |
| `IpcIoFileProofs` | `TypeCorrect`, `EveryIoAccounted` (`IosAccounted`), `ResponsesMatch` (`AnswersMatch`), `TimerStaysArmed` (`TimerArmed`), `TimeoutsWait` (`AbandonedAfterTimeout`), `PagesNotLost` (`PagesInMessages`) | no more nested handlers than there are request IDs |
| `HelperProofs` | `TypeCorrect`, `CountersCorrect` (`CountersExact`), `CalledBackOnce`; while no read ends within a number: `RepliesMatch` (`AnswersMatch`) | a concurrency of at least one |

* **ReadWriteLock.**  `IInv` is the type invariant, the consistency of `pc` with
  the call a user is in, `LevelsExact` (each counter is the cardinality of the
  set of users whose `pc` contributes to it), the two exclusion properties, and
  the ownership of the `writing` and `appending` flags.  Exclusion is not
  inductive alone: a test such as `readLevel = 0` says something about other
  users only because the counter is exactly a cardinality.  `StepMovesOne` shows
  that a step moves one user, `CountsFollow` that a set of users that gains or
  loses one element changes its cardinality by one, and `LevelTests` turns the
  tests of the code into statements about sets.  `NoSwitchInv` adds that readers
  are locked out.  The assumption about the switch cannot be dropped: see
  `ExclusiveNotReading` under Findings.
* **PageStack.**  `Promises` says of every node below the root that the counter
  of its parent plus the clients on their way through it is what its subtree
  has.  `innerPop()` relies on it at the next level down, so it must hold at all
  levels at once, for pops and pushes together.  `Balanced` says the same of the
  root and of all free pages; `PagesPlaced` gives every page to one holder;
  `LeavesFit` keeps bits beyond the capacity out of the leaves that are used.
  The other half of the proof is the shape of the tree: `descend()` and
  `ascend()` are inverses, the IDs of a node are those of its two children, and
  a full tree as the constructor leaves it satisfies `Promises`.  The height is
  at most 30, so that what the proof needs of powers of two is computed case by
  case.
* **IdSetFill.**  `PageStackProofs` extends `PageStack` and `IdSetFill`, which share
  the nodes that `IdSet` declares.  The theorems are about a fill of
  `Capacity` IDs, any number that the constructor accepts.  `FillInv` follows
  the two loops.  The first leaves `IdsPer` of the level below in every counter of
  the levels it has passed.  The second walks up the path to the first ID beyond the capacity: `toSubtract` is how many
  IDs the subtree at its position has too many, the counters below are exact up
  to the path, and those above still count everything.  `LeftAlone` says what
  stays in the nodes without IDs.  With it, `FilledForUse` shows that the tree
  is, node by node, one that `FullStack` starts from, so that the theorems about
  `PageStack` hold of the stack that the constructor builds.
* **PagePool.**  `IInv` is the ranges of the numbers, that a client inside a
  call has a purpose, and the two sums of `PagesAccounted`.  The lemmas
  before it are the theory of `SumFunction`: how a sum changes with one of its
  terms.
* **Queue.**  `BufferInv` ties both positions, the size and what each process
  has read of them to the history of pushes and pops; the size lags behind the
  positions on both sides, which is why a full or an empty queue cannot be
  misjudged dangerously.  It is proved of `RestartSpec`, so contents and order
  survive a restart of the reader.  `SignalInv` says for each position of the
  reader and of the writers who has to raise, send or clear the signal; it is
  proved of `Spec`, without restarts (see `NoLostWakeup` under Findings).
* **StoreMap.**  `IInv` has what two users of an anchor may not do at the same
  time (`LocksExclude`), what each user may remember in its place of the code
  (`UsersFit`), what the fields of an anchor say in each of its states
  (`AnchorsSound`), and the three facts about chains: accounted for, ending, and
  free slices unlinked.  A chain is a recursive function of the links; the proof
  uses it through one characterisation, that it is the least set that contains
  the start and is closed under the links, which needs a pigeonhole argument
  for chains that end.  Linking, cutting and splicing are then set equations.
  A writer excludes other writers and updaters but not readers, some of which
  were let in and not counted, so the exclusions are separate ones: a reader
  that no writer has let in (`Settles`) keeps writers out, a fresh anchor that is
  being filled (`Fills`) keeps everybody out.  Truncated entries are out of reach
  because one that is not marked (`InProgress`) has a writer, or an updater that
  has spliced it and is about to mark it (`Tends`): the stale entry is marked then.
  That in turn needs that nobody had opened the fresh anchor before it was
  spliced (`Hides` against `Opens`).
* **Transients.**  A quiet follower has missed nothing because everything that
  it does not know yet is announced: by a queued message, or by a broadcast that
  some handler has yet to make, unless the last announcement was `lost`.  `IInv` says that of the collapsing flag, of
  what the memory cache has, and of the deletion mark (`SeesCollapsing`, `SeesMem`,
  `HearsOfMark`); the rest is who writes and what `todo` can hold.
  `DeletionReachesAll` is about queued messages and those that a broadcast in
  progress is about to queue; what a receiver then does is part of the liveness
  property.
* **IpcIoFile.**  Every I/O is in one place, in `push()`, pending, or completed,
  with the requests that a check has visited counted as completed (`Placed`,
  `Settled`); every message belongs to a pending or an abandoned I/O (`Expected`).
  IDs are used again, so matching is a matter of age: `IdsFit` says that the
  age of an ID, counted back cyclically from `lastRequestId`, is the number of
  IDs given since, as long as that is less than a cycle, and `Serials` that no two
  I/Os have the same number, so that equal IDs of equal age belong to the same
  I/O.  `Stack` says that only `push()` calls are nested, so that a timeout check is
  the outermost handler, each for an I/O of its own, and that only the innermost
  one sends.  That a full response queue means an
  abandoned request is a pigeonhole argument (`FullQueueIsStale`).  The theorems
  are about all of the behaviours that the run explores, callbacks of
  `checkTimeouts()` included.
* **Helper.**  The calls nest: a read answers a request, which may resubmit it,
  which may start processes, which take requests from the queue.  The lemmas are
  therefore about the operators between two states of the pool, and `Good` is
  the invariant of a state in the middle of a call.  Its context says what is
  different there: the server whose `pending` still counts the request that was
  just taken from it (`extra`), and the one whose reply is being handled (`busy`).
  `Good` says that each request is in one place only, the queue, the requests of
  one server, or the one it is answering; that a request in any place has been
  submitted and not called back; that `pending` and `nActive` count; that a
  request number belongs to one request, also in the replies that are still to
  come; and that a reply read in part is the one of the transaction that waits
  for it.  A resubmission takes a request from one place to another, and the
  lemmas pass it on as `InHand`.  The loops over the queue, over expired requests
  and over dropped ones are inductions (`KickQueue`, `Checking`, `Dropping`).
  `CalledBackOnce` is the half of `AnswersMatch` that needs no hypothesis.  The
  other half is false of the code if a read ends within a number (run
  `helper_split`), so `RepliesMatch` assumes `[]NumbersWhole`; that holds for as
  long as numbers have one digit, as in the run `helper`, or replies arrive whole.
  `Spec` allows pools that write to a closed pipe (`PipeIsOpen`, see Findings):
  nothing happens after that, and the invariants hold up to it.

Induction is available for sets only (`NatSetInduction` and
`FiniteSubsetInduction`); it is what the sums, the chains, the tree, the loops and
the pigeonhole arguments use.

Every invariant that a run checks is proved.  Only model-checked: the liveness
properties of `Queue`, `IpcIoFile`, `Transients` and `Helper`, which are out of
reach of the prover, and the two violations.

## 5. Not modelled, and the plan

Left out for good: parsing, formatting, reporting, system calls, memory layout.
`PROJECT.json` lists every part with its status.

Left out of the modelled parts: `openOrCreateForReading()` and
`switchWritingToReading()` as map operations (Transients has their effect),
`forgetWritingEntry()` and `importSlice()` (Rock rebuild), `validateHit()` and the
entry count; disk caches, local store clients and memory eviction in
`Transients`; stateful helpers and their reservations, helpers without
concurrency, whose replies come in the order of the requests, and the two ways
in which a pool ends Squid on purpose ("crashing too rapidly" and
`on-persistent-overload=die`).

Next, in this order:

1. Rock: slot chains, the order of writes, the rebuild after a crash.
2. In-process parts: `BodyPipe`, `AsyncJob`, stateful helpers,
   `HappyConnOpener`.
3. Proofs that compose modules: that the lock inside `StoreMap` and the queue
   inside `IpcIoFile` may be replaced by what `AbstractLock` and the theorems of
   `QueueProofs` promise.
