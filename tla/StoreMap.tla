------------------------------ MODULE StoreMap ------------------------------
(***************************************************************************)
(* The shared index of cached entries, src/src/ipc/StoreMap.{h,cc}, as     *)
(* used by the shared memory cache, src/src/MemStore.cc.  A key is hashed  *)
(* into a name, fileNos maps the name to an anchor, and the anchor starts  *)
(* a chain of slices.  Anchors are locked, slices are protected by the     *)
(* lock of their anchor.                                                   *)
(*                                                                         *)
(* A user is one transaction of some worker: it reads, writes, updates or  *)
(* deletes one entry.  The lock is seen from above: who holds an anchor is *)
(* part of the state of the users.  A shared lock takes two steps, as the  *)
(* reader is let in before it is counted, and an attempt to lock may fail  *)
(* for no reason, because another attempt gets in its way.  What a user    *)
(* does under an exclusive lock is one step; each access that other users  *)
(* can see is a step of its own: looking up the name, locking, checking,   *)
(* relocating, marking.                                                    *)
(***************************************************************************)
EXTENDS Integers, FiniteSets

CONSTANTS
  Users,
  Slices,
  Nil,      \* no slice, no key: a negative slice ID, a zero key
  Keys,
  Names,    \* positions in fileNos; fileNos and anchors have the same capacity
  NameOf    \* the hash: nameByKey()

ASSUME MapAssumption ==
  /\ IsFiniteSet(Slices) /\ Nil \notin Slices \cup Keys \cup Names
  /\ NameOf \in [Keys -> Names]

Filenos == Names

VARIABLES
  fileNos,    \* where the anchor of a name is
  anchors,    \* StoreMapAnchor
  next,       \* StoreMapSlice::next
  freeSlots,  \* slices that anybody may take
  users       \* where each user is

vars == <<fileNos, anchors, next, freeSlots, users>>

Anchor == [key : Keys \cup {Nil}, waitingToBeFreed : BOOLEAN, start : Slices \cup {Nil},
           splicingPoint : Slices \cup {Nil},
           partial : BOOLEAN]   \* history: the entry has not been written to its end

\* "looking": knows a fileno but has no lock; "entering": let in by
\* lockShared() but not yet in lock.readers; "entered": has a shared lock but
\* has not looked at the entry; "condemning" and "marking": about to mark an
\* entry, with and without a lock; "halting" and "freeing": in abortWriting();
\* "opened": has a readable entry to update, but not its headers; "forking"
\* and the last five: in closeForUpdating().
Places == {"idle", "looking", "entering", "entered", "reading", "condemning", "marking",
           "writing", "halting", "freeing",
           "opened", "updating", "choosing", "filling", "forking",
           "spliced", "switched", "relocated", "checked", "freed"}

User == [at : Places,
         wants : {"read", "write", "update", "free"},
         key : Keys \cup {Nil},
         fileno : Filenos \cup {Nil},         \* Update::stale.fileNo for an updater
         appending : BOOLEAN,      \* lock.appending of the anchor being written
         name : Names \cup {Nil},   \* Update::fresh.name
         fresh : Filenos \cup {Nil},  \* Update::fresh.fileNo
         splicingPoint : Slices \cup {Nil},  \* Update::stale.splicingPoint
         early : BOOLEAN,          \* history: opened what another update had not yet marked
         doomed : BOOLEAN]         \* history: the entry was marked before relocate()

TypeOK ==
  /\ fileNos \in [Names -> Filenos]
  /\ anchors \in [Filenos -> Anchor]
  /\ next \in [Slices -> Slices \cup {Nil}]
  /\ freeSlots \subseteq Slices
  /\ users \in [Users -> User]

EmptyAnchor == [key |-> Nil, waitingToBeFreed |-> FALSE, start |-> Nil,
                splicingPoint |-> Nil, partial |-> FALSE]

\* What a user forgets when it is done, so that equal states are equal.
Idle == [at |-> "idle", wants |-> "read", key |-> Nil, fileno |-> Nil, appending |-> FALSE,
         name |-> Nil, fresh |-> Nil, splicingPoint |-> Nil, early |-> FALSE, doomed |-> FALSE]

Init ==
  /\ fileNos = [n \in Names |-> n]
  /\ anchors = [f \in Filenos |-> EmptyAnchor]
  /\ next = [s \in Slices |-> Nil]
  /\ freeSlots = Slices
  /\ users = [u \in Users |-> Idle]

----------------------------------------------------------------------------
(* Locks and chains *)

Filling == {"filling", "forking"}
Closing == {"spliced", "switched", "relocated", "checked", "freed"}
Updating == {"updating", "choosing"} \cup Filling \cup Closing

\* Who holds an anchor.  An updater reads the stale anchor, and writes the
\* fresh one until closeForUpdating() makes it readable.
Readers(f) ==
  {u \in Users : \/ /\ users[u].at \in {"entering", "entered", "reading", "condemning", "opened"} \cup Updating
                    /\ users[u].fileno = f
                 \/ users[u].at \in Closing /\ users[u].fresh = f}
Writers(f) ==
  {u \in Users : \/ users[u].at \in {"writing", "halting", "freeing"} /\ users[u].fileno = f
                 \/ users[u].at \in Filling /\ users[u].fresh = f}
Updaters(f) == {u \in Users : users[u].at \in Updating /\ users[u].fileno = f}

\* The readers in lock.readers
Counted(f) == {u \in Readers(f) : users[u].at # "entering"}

CanLockExclusive(f) == Readers(f) = {} /\ Writers(f) = {}
CanLockShared(f) == \A u \in Writers(f) : users[u].at = "writing" /\ users[u].appending

\* The slices from s up to the end of the chain or the stop.
Chain(s, stop) ==
  LET at[i \in 0..Cardinality(Slices)] ==
        IF i = 0 THEN s
        ELSE IF at[i - 1] \in {Nil, stop} THEN Nil ELSE next[at[i - 1]]
  IN {at[i] : i \in DOMAIN at} \ {Nil}

Last(s) == CHOOSE t \in Chain(s, Nil) : next[t] = Nil

\* The slices that freeChain() frees.
OwnChain(f) == Chain(anchors[f].start, anchors[f].splicingPoint)

empty(f) == anchors[f].key = Nil

\* Mutant: frees the start of an empty chain, a negative slice ID.
freedEmptyChain(f) == OwnChain(f) \cup {anchors[f].start}

\* Mutant: frees all of the chain, including what an updated entry has taken over.
freedBeyondSplicingPoint(f) == Chain(anchors[f].start, Nil)

\* freeChainAt()
freeChainAt(f) == OwnChain(f)

\* freeChain() of f, seen by a user that keeps one of the freed slices.
freeChainKeeping(f, kept) ==
  /\ freeSlots' = freeSlots \cup (freeChainAt(f) \ kept)
  /\ next' = [s \in Slices |-> IF s \in freeChainAt(f) THEN Nil ELSE next[s]]

MoveTo(u, place) == users' = [users EXCEPT ![u].at = place]
Leave(u) == users' = [users EXCEPT ![u] = Idle]

----------------------------------------------------------------------------
(* Looking up and opening *)

\* fileNoByKey(): the first step of openForReading() and others.
fileNoByKey(u) ==
  /\ users[u].at = "idle"
  /\ \E wanted \in {"read", "write", "update", "free"}, k \in Keys :
       users' = [users EXCEPT ![u].at = "looking", ![u].wants = wanted, ![u].key = k,
                              ![u].fileno = fileNos[NameOf[k]]]
  /\ UNCHANGED <<fileNos, anchors, next, freeSlots>>

\* lockShared() lets the user in,
lockShared(u) ==
  /\ users[u].at = "looking" /\ users[u].wants # "write"
  /\ CanLockShared(users[u].fileno)
  /\ MoveTo(u, "entering")
  /\ UNCHANGED <<fileNos, anchors, next, freeSlots>>

\* and counts it.
countReader(u) ==
  /\ users[u].at = "entering"
  /\ MoveTo(u, "entered")
  /\ UNCHANGED <<fileNos, anchors, next, freeSlots>>

\* What openForReadingAt() checks once it has the shared lock.  The checks are
\* one step: the key of an anchor with a shared lock can only go away.
Readable(f, key) == anchors[f].key = key /\ ~anchors[f].waitingToBeFreed

\* The entry could not be locked or is not what the user wants, or its headers
\* could not be locked.
GiveUp(u) ==
  /\ \/ users[u].at = "looking" /\ users[u].wants # "free"
     \/ users[u].at = "entered" /\ users[u].wants # "free" /\ ~Readable(users[u].fileno, users[u].key)
     \/ users[u].at = "opened"
  /\ Leave(u)
  /\ UNCHANGED <<fileNos, anchors, next, freeSlots>>

\* openForReadingAt()
openForReadingAt(u) ==
  /\ users[u].at = "entered" /\ users[u].wants = "read"
  /\ Readable(users[u].fileno, users[u].key)
  /\ MoveTo(u, "reading")
  /\ UNCHANGED <<fileNos, anchors, next, freeSlots>>

\* closeForReading()
closeForReading(u) ==
  /\ users[u].at = "reading"
  /\ Leave(u)
  /\ UNCHANGED <<fileNos, anchors, next, freeSlots>>

\* StoreMapAnchor::set(); Store::Root().markedForDeletion() may say that the
\* entry is marked in the Transients index.
FreshAnchor(key, marked) == [EmptyAnchor EXCEPT !.key = key, !.waitingToBeFreed = marked, !.partial = TRUE]

\* openForWritingAt() and set(): the position is emptied if needed.
openForWritingAt(u) ==
  LET f == users[u].fileno IN
  /\ users[u].at = "looking" /\ users[u].wants = "write"
  /\ CanLockExclusive(f)
  /\ freeChainKeeping(f, {})
  /\ \E marked \in BOOLEAN : anchors' = [anchors EXCEPT ![f] = FreshAnchor(users[u].key, marked)]
  /\ \E appending \in BOOLEAN : users' = [users EXCEPT ![u].at = "writing", ![u].appending = appending]
  /\ UNCHANGED fileNos

----------------------------------------------------------------------------
(* Slices *)

\* purgeOne() frees an idle entry.
Purgeable == {f \in Filenos : CanLockExclusive(f) /\ ~empty(f) /\ anchors[f].start # Nil /\ \E n \in Names : fileNos[n] = f}

\* The slice is linked at the end of the chain of f.
Link(f, slice, links, inodes) ==
  IF inodes[f].start = Nil
  THEN anchors' = [inodes EXCEPT ![f].start = slice] /\ next' = links
  ELSE anchors' = inodes /\ next' = [links EXCEPT ![Last(inodes[f].start)] = slice]

\* reserveSapForWriting(): a free slice, or the first one of a purged entry.
\* The latter also when there is no page for a free slice.
AddFreeSlice(f) ==
  \E slice \in freeSlots :
    /\ freeSlots' = freeSlots \ {slice}
    /\ Link(f, slice, next, anchors)

AddPurgedSlice(f) ==
  \E victim \in Purgeable :
    LET slice == anchors[victim].start
        links == [s \in Slices |-> IF s \in freeChainAt(victim) THEN Nil ELSE next[s]]
    IN /\ freeSlots' = freeSlots \cup (freeChainAt(victim) \ {slice})
       /\ Link(f, slice, links, [anchors EXCEPT ![victim] = EmptyAnchor])

AddSlice(f) == AddFreeSlice(f) \/ AddPurgedSlice(f)

----------------------------------------------------------------------------
(* Writing *)

\* copyToShm(): nextAppendableSlice() adds a slice.
copyToShm(u) ==
  /\ users[u].at = "writing"
  /\ AddSlice(users[u].fileno)
  /\ UNCHANGED <<fileNos, users>>

\* completeWriting()
closeForWriting(u) ==
  /\ users[u].at = "writing" /\ anchors[users[u].fileno].start # Nil
  /\ anchors' = [anchors EXCEPT ![users[u].fileno].partial = FALSE]
  /\ Leave(u)
  /\ UNCHANGED <<fileNos, next, freeSlots>>

\* abortWriting(): lockShared() lets nobody in from here on.
abortWriting(u) ==
  /\ users[u].at = "writing"
  /\ users' = [users EXCEPT ![u].at = "halting", ![u].appending = FALSE]
  /\ UNCHANGED <<fileNos, anchors, next, freeSlots>>

\* abortWriting() finds no readers,
abortClean(u) ==
  /\ users[u].at = "halting" /\ Counted(users[u].fileno) = {}
  /\ MoveTo(u, "freeing")
  /\ UNCHANGED <<fileNos, anchors, next, freeSlots>>

\* and frees the chain, no matter who has been counted since.
freeChain(u) ==
  LET f == users[u].fileno IN
  /\ users[u].at = "freeing"
  /\ freeChainKeeping(f, {})
  /\ anchors' = [anchors EXCEPT ![f] = EmptyAnchor]
  /\ Leave(u)
  /\ UNCHANGED fileNos

\* Mutant: the entry is closed but not marked.
abortDirtyUnmarked(u) ==
  /\ users[u].at = "halting" /\ Counted(users[u].fileno) # {}
  /\ Leave(u)
  /\ UNCHANGED <<fileNos, anchors, next, freeSlots>>

\* abortWriting() with readers
abortDirty(u) ==
  LET f == users[u].fileno IN
  /\ users[u].at = "halting" /\ Counted(f) # {}
  /\ anchors' = [anchors EXCEPT ![f].waitingToBeFreed = TRUE]
  /\ Leave(u)
  /\ UNCHANGED <<fileNos, next, freeSlots>>

----------------------------------------------------------------------------
(* Deleting *)

\* freeEntry(), called by a user of the entry: the entry is marked.
freeEntry(u) ==
  /\ users[u].at \in {"reading", "writing"}
  /\ ~anchors[users[u].fileno].waitingToBeFreed
  /\ anchors' = [anchors EXCEPT ![users[u].fileno].waitingToBeFreed = TRUE]
  /\ UNCHANGED <<fileNos, next, freeSlots, users>>

\* freeEntryByKey() with an exclusive lock
freeEntryByKey(u) ==
  LET f == users[u].fileno IN
  /\ users[u].at = "looking" /\ users[u].wants = "free"
  /\ CanLockExclusive(f)
  /\ IF anchors[f].key = users[u].key
     THEN freeChainKeeping(f, {}) /\ anchors' = [anchors EXCEPT ![f] = EmptyAnchor]
     ELSE UNCHANGED <<anchors, next, freeSlots>>
  /\ Leave(u)
  /\ UNCHANGED fileNos

\* freeEntryByKey() with a shared lock compares the keys first
compareKeyLocked(u) ==
  /\ users[u].at = "entered" /\ users[u].wants = "free"
  /\ IF anchors[users[u].fileno].key = users[u].key THEN MoveTo(u, "condemning") ELSE Leave(u)
  /\ UNCHANGED <<fileNos, anchors, next, freeSlots>>

\* freeEntryByKey() without a lock does too
compareKeyUnlocked(u) ==
  LET f == users[u].fileno IN
  /\ users[u].at = "looking" /\ users[u].wants = "free"
  /\ IF anchors[f].key = users[u].key THEN MoveTo(u, "marking") ELSE Leave(u)
  /\ UNCHANGED <<fileNos, anchors, next, freeSlots>>

\* and both mark whatever is there by then.
markEntryByKey(u) ==
  /\ users[u].at \in {"condemning", "marking"}
  /\ anchors' = [anchors EXCEPT ![users[u].fileno].waitingToBeFreed = TRUE]
  /\ Leave(u)
  /\ UNCHANGED <<fileNos, next, freeSlots>>

----------------------------------------------------------------------------
(* Updating *)

\* Another update has made f readable and has yet to mark it if it marks it.
Unsettled(f) == \E u \in Users : users[u].at = "spliced" /\ users[u].fresh = f

\* openForUpdating(): the stale entry is opened for reading,
openStale(u) ==
  /\ users[u].at = "entered" /\ users[u].wants = "update"
  /\ Readable(users[u].fileno, users[u].key)
  /\ users' = [users EXCEPT ![u].at = "opened", ![u].early = Unsettled(users[u].fileno)]
  /\ UNCHANGED <<fileNos, anchors, next, freeSlots>>

\* and must not be written or updated.  The two tests are one step: nobody can
\* start to write what the user reads.  Whether the entry has been aborted,
\* marked or updated since it was opened is not looked at.
lockHeaders(u) ==
  LET f == users[u].fileno IN
  /\ users[u].at = "opened"
  /\ Writers(f) = {} /\ Updaters(f) = {}
  /\ MoveTo(u, "updating")
  /\ UNCHANGED <<fileNos, anchors, next, freeSlots>>

\* openKeyless(): visitVictims() offers a name, which is looked up,
chooseVictim(u) ==
  /\ users[u].at \in {"updating", "choosing"}
  /\ \E n \in Names :
       users' = [users EXCEPT ![u].at = "choosing", ![u].name = n, ![u].fresh = fileNos[n]]
  /\ UNCHANGED <<fileNos, anchors, next, freeSlots>>

\* and then the anchor is locked and emptied.
openKeyless(u) ==
  LET f == users[u].fresh IN
  /\ users[u].at = "choosing"
  /\ CanLockExclusive(f)
  /\ freeChainKeeping(f, {})
  /\ \E marked \in BOOLEAN : anchors' = [anchors EXCEPT ![f] = FreshAnchor(users[u].key, marked)]
  /\ MoveTo(u, "filling")
  /\ UNCHANGED fileNos

\* abortUpdating(), without a fresh anchor
abortUpdating(u) ==
  /\ users[u].at \in {"updating", "choosing"}
  /\ Leave(u)
  /\ UNCHANGED <<fileNos, anchors, next, freeSlots>>

\* abortUpdating(), with one: nobody else can have it.
abortFresh(u) ==
  LET f == users[u].fresh IN
  /\ users[u].at = "filling"
  /\ freeChainKeeping(f, {})
  /\ anchors' = [anchors EXCEPT ![f] = EmptyAnchor]
  /\ Leave(u)
  /\ UNCHANGED fileNos

\* updateHeadersOrThrow() writes the fresh headers.  It throws first, and the
\* update is aborted, if the stale entry has been freed.
writeFreshHeaders(u) ==
  /\ users[u].at = "filling" /\ anchors[users[u].fileno].start # Nil
  /\ AddSlice(users[u].fresh)
  /\ UNCHANGED <<fileNos, users>>

\* closeForUpdating(): splices the fresh headers and the old body, and makes
\* the fresh anchor readable.  The headers end anywhere in the stale chain.
splice(u) ==
  LET stale == users[u].fileno
      fresh == users[u].fresh
  IN
  /\ users[u].at = "filling" /\ anchors[fresh].start # Nil
  /\ anchors[stale].splicingPoint = Nil
  /\ \E point \in Chain(anchors[stale].start, Nil) :
       /\ next' = [next EXCEPT ![Last(anchors[fresh].start)] = next[point]]
       /\ users' = [users EXCEPT ![u].at = "spliced", ![u].splicingPoint = point]
  /\ anchors' = [anchors EXCEPT ![fresh].partial = anchors[stale].partial /\ ~users[u].early]
  /\ UNCHANGED <<fileNos, freeSlots>>

\* The same with an entry that another update has spliced since it was opened:
\* the body gets a second owner.  The model ends here.
spliceAgain(u) ==
  /\ users[u].at = "filling" /\ anchors[users[u].fresh].start # Nil
  /\ anchors[users[u].fileno].splicingPoint # Nil
  /\ MoveTo(u, "forking")
  /\ UNCHANGED <<fileNos, anchors, next, freeSlots>>

\* The first check for a deletion of the stale entry
propagateEarly(u) ==
  /\ users[u].at = "spliced"
  /\ anchors' = [anchors EXCEPT ![users[u].fresh].waitingToBeFreed = @ \/ anchors[users[u].fileno].waitingToBeFreed]
  /\ MoveTo(u, "switched")
  /\ UNCHANGED <<fileNos, next, freeSlots>>

\* The first relocate()
relocateName(u) ==
  /\ users[u].at = "switched"
  /\ fileNos' = [fileNos EXCEPT ![NameOf[users[u].key]] = users[u].fresh]
  /\ users' = [users EXCEPT ![u].at = "relocated", ![u].doomed = anchors[users[u].fileno].waitingToBeFreed]
  /\ UNCHANGED <<anchors, next, freeSlots>>

\* Mutant: the deletion of the stale entry is not looked at again.
propagateDeletionOnce(u) ==
  /\ users[u].at = "relocated"
  /\ MoveTo(u, "checked")
  /\ UNCHANGED <<fileNos, anchors, next, freeSlots>>

\* The second check for a deletion of the stale entry
propagateDeletion(u) ==
  /\ users[u].at = "relocated"
  /\ anchors' = [anchors EXCEPT ![users[u].fresh].waitingToBeFreed = @ \/ anchors[users[u].fileno].waitingToBeFreed]
  /\ MoveTo(u, "checked")
  /\ UNCHANGED <<fileNos, next, freeSlots>>

\* The stale chain ends at the splicing point from now on.
freeStale(u) ==
  /\ users[u].at = "checked"
  /\ anchors' = [anchors EXCEPT ![users[u].fileno].splicingPoint = users[u].splicingPoint,
                                ![users[u].fileno].waitingToBeFreed = TRUE]
  /\ MoveTo(u, "freed")
  /\ UNCHANGED <<fileNos, next, freeSlots>>

\* The second relocate(), and all locks released
closeForUpdating(u) ==
  /\ users[u].at = "freed"
  /\ fileNos' = [fileNos EXCEPT ![users[u].name] = users[u].fileno]
  /\ Leave(u)
  /\ UNCHANGED <<anchors, next, freeSlots>>

----------------------------------------------------------------------------

Forked == \E u \in Users : users[u].at = "forking"

Next ==
  \/ /\ ~Forked
     /\ \E u \in Users :
          \/ fileNoByKey(u) \/ lockShared(u) \/ countReader(u) \/ GiveUp(u)
          \/ openForReadingAt(u) \/ closeForReading(u)
          \/ openForWritingAt(u) \/ copyToShm(u) \/ closeForWriting(u)
          \/ abortWriting(u) \/ abortClean(u) \/ freeChain(u) \/ abortDirty(u)
          \/ freeEntry(u) \/ freeEntryByKey(u) \/ compareKeyLocked(u) \/ compareKeyUnlocked(u) \/ markEntryByKey(u)
          \/ openStale(u) \/ lockHeaders(u) \/ chooseVictim(u) \/ openKeyless(u) \/ abortUpdating(u) \/ abortFresh(u)
          \/ writeFreshHeaders(u) \/ splice(u) \/ spliceAgain(u) \/ propagateEarly(u)
          \/ relocateName(u) \/ propagateDeletion(u) \/ freeStale(u) \/ closeForUpdating(u)
  \/ Forked /\ UNCHANGED vars

Spec == Init /\ [][Next]_vars

----------------------------------------------------------------------------
(* Properties *)

\* The stale anchor of an update that has spliced the chains no longer owns
\* what comes after the splicing point, even before it says so.
Owned(f) ==
  LET splicing == {u \in Users : users[u].at \in Closing /\ users[u].fileno = f}
  IN IF splicing = {} THEN OwnChain(f)
     ELSE Chain(anchors[f].start, users[CHOOSE u \in splicing : TRUE].splicingPoint)

\* Every slice is free or belongs to exactly one anchor, whatever is written,
\* updated, aborted, purged and deleted at the same time: freeChain() neither
\* frees a slice that another entry uses nor leaks one.
SlicesAccounted ==
  /\ \A f, g \in Filenos : f # g => Owned(f) \cap Owned(g) = {}
  /\ \A f \in Filenos : Owned(f) \cap freeSlots = {}
  /\ (UNION {Owned(f) : f \in Filenos}) \cup freeSlots = Slices

\* An entry that can be opened has been written to its end, unless its writer
\* is still there: readers that outlive an aborted writer keep the anchor, also
\* to update it, but nobody else gets the truncated entry.  Left out is what an
\* update has made readable and not yet marked, and what another update makes
\* of an entry that it has opened at that moment (see partial in splice()).
TruncatedNotServed ==
  \A f \in Filenos, k \in Keys :
    Readable(f, k) /\ Writers(f) = {} /\ ~Unsettled(f) => ~anchors[f].partial

\* A deletion of the entry is not undone by an update that was in progress:
\* what was marked before the name was relocated stays marked.
DeletionSurvivesUpdate ==
  \A u \in Users :
    users[u].at \in {"checked", "freed"} /\ users[u].doomed =>
      anchors[users[u].fresh].waitingToBeFreed

\* The body of an entry never gets a second owner.  Does not hold: an update
\* may be opened before, and get its headers after, another update of the same
\* entry (see the README).
UpdatesExclusive == ~Forked

\* All slices that a reader can get to are protected by its lock.  Does not
\* hold: the suffix that an update shares belongs to the fresh anchor, and the
\* readers of the stale one may outlive it (see the README).
ReadersProtected ==
  \A f \in Filenos : Readers(f) # {} => Chain(anchors[f].start, Nil) \cap freeSlots = {}

\* Every anchor can be found through some name, by a lookup or by the search
\* for a victim, unless an update is moving it.  Does not hold with three names:
\* two updates may relocate the same victim's name (see the README).
AnchorsReachable ==
  \A f \in Filenos : \/ \E n \in Names : fileNos[n] = f
                     \/ \E u \in Users : users[u].at \in Closing /\ users[u].fileno = f
=============================================================================
