----------------------------- MODULE Transients -----------------------------
(***************************************************************************)
(* Collapsed forwarding between workers: src/src/Transients.cc, the        *)
(* broadcasts of src/src/CollapsedForwarding.cc, the parts of Store::      *)
(* Controller and StoreEntry that use them, and the shared memory cache    *)
(* (src/src/MemStore.cc) through which the response travels.               *)
(*                                                                         *)
(* One key: its anchor in the Transients map (xit) and its anchor in the   *)
(* memory cache (mem).  A worker that misses becomes the writer of both.   *)
(* Workers that find the xit entry follow: they wait for a broadcast, look *)
(* at xit, and load what is in mem.  The configuration: collapsed_forwarding *)
(* on, no cache_dir.  StoreMap calls are one step each (module StoreMap    *)
(* has their inside); everything else that a handler does to shared memory *)
(* is a step of its own, kept in the todo list of the worker, so that      *)
(* other workers run in between.                                           *)
(***************************************************************************)
EXTENDS Integers, Sequences, FiniteSets

CONSTANTS
  Workers,
  Whole,         \* size of the response; the first unit has the headers
  QueueCapacity  \* bound on the messages about this entry in the queue of a worker

ASSUME SizesAssumption == Whole \in Nat \ {0} /\ QueueCapacity \in Nat \ {0}

VARIABLES
  xit,     \* the Transients anchor
  mem,     \* the memory cache anchor
  e,       \* the local StoreEntry of each worker
  todo,    \* what the handler that runs in each worker has still to do
  queued,  \* CollapsedForwardingMsgs about this entry for each worker
  lost     \* history: since the worker has its entry, the last message about
           \* it has been dropped, and no other one was in the queue

messages == <<queued, lost>>
vars == <<xit, mem, e, todo, messages>>

EmptyXit == [used |-> FALSE, waitingToBeFreed |-> FALSE, writerHalted |-> FALSE, collapsing |-> FALSE]
EmptyMem == [used |-> FALSE, waitingToBeFreed |-> FALSE, writerHalted |-> FALSE, appending |-> FALSE, size |-> 0]

\* No local entry.  io is xitTable.io, mem is memCache.io, got is endOffset(),
\* complete is STORE_OK, aborted is ENTRY_ABORTED, public is the lack of
\* KEY_PRIVATE, collapsing is hittingRequiresCollapsing().
NoEntry == [io |-> "none", mem |-> "undecided", got |-> 0, complete |-> FALSE,
            aborted |-> FALSE, public |-> FALSE, collapsing |-> FALSE]

Steps == {"Broadcast", "BroadcastToAll", "BroadcastIndex", "stopSharing", "evictFromMem", "evictFromMemByKey", "evictFromXit",
          "writeToMem", "clearCollapsingRequirement", "completeWriting", "disconnectMem", "disconnect", "closeMem",
          "share", "anchor", "anchorWithoutWriter", "sync", "syncMarked", "abortReader"}

TypeOK ==
  /\ xit \in [used : BOOLEAN, waitingToBeFreed : BOOLEAN, writerHalted : BOOLEAN, collapsing : BOOLEAN]
  /\ mem \in [used : BOOLEAN, waitingToBeFreed : BOOLEAN, writerHalted : BOOLEAN, appending : BOOLEAN, size : 0..Whole]
  /\ e \in [Workers -> [io : {"none", "writing", "reading"},
                        mem : {"undecided", "writing", "reading", "done"},
                        got : 0..Whole, complete : BOOLEAN, aborted : BOOLEAN,
                        public : BOOLEAN, collapsing : BOOLEAN]]
  /\ todo \in [Workers -> Seq(Steps)]
  /\ queued \in [Workers -> 0..QueueCapacity]
  /\ lost \in [Workers -> BOOLEAN]

Init ==
  /\ xit = EmptyXit /\ mem = EmptyMem
  /\ e = [w \in Workers |-> NoEntry]
  /\ todo = [w \in Workers |-> <<>>]
  /\ queued = [w \in Workers |-> 0]
  /\ lost = [w \in Workers |-> FALSE]

XitReaders == {w \in Workers : e[w].io = "reading"}
XitWriters == {w \in Workers : e[w].io = "writing"}
MemReaders == {w \in Workers : e[w].mem = "reading"}
MemWriters == {w \in Workers : e[w].mem = "writing"}

Idle(w) == todo[w] = <<>>

\* The next step of the handler that runs in w
At(w, step) == todo[w] # <<>> /\ Head(todo[w]) = step
Continue(w) == todo' = [todo EXCEPT ![w] = Tail(@)]
ContinueWith(w, steps) == todo' = [todo EXCEPT ![w] = steps \o Tail(@)]
Handle(w, steps) == todo' = [todo EXCEPT ![w] = steps]

----------------------------------------------------------------------------
(* CollapsedForwarding *)

\* Mutant: a queue that is full is not noticed.
PushUnlimited(receivers) ==
  /\ queued' = [w \in Workers |-> IF w \in receivers THEN queued[w] + 1 ELSE queued[w]]
  /\ UNCHANGED lost

\* Broadcast(): a queue that is full drops the message.  It may be full of
\* messages about other entries at any time.
Push(receivers) ==
  \E dropped \in SUBSET receivers :
    /\ {w \in receivers : queued[w] = QueueCapacity} \subseteq dropped
    /\ queued' = [w \in Workers |-> IF w \in receivers \ dropped THEN queued[w] + 1 ELSE queued[w]]
    /\ lost' = [w \in Workers |-> IF w \in receivers THEN queued'[w] = 0 ELSE lost[w]]

\* Mutant: only those who have found the response in the cache are told.
BroadcastToMemReaders(w) ==
  /\ At(w, "Broadcast")
  /\ Push(IF e[w].io # "none" /\ MemReaders # {} THEN Workers \ {w} ELSE {})
  /\ Continue(w)
  /\ UNCHANGED <<xit, mem, e>>

\* Broadcast(e): nothing to do unless somebody reads the entry.
Broadcast(w) ==
  /\ At(w, "Broadcast")
  /\ Push(IF e[w].io # "none" /\ XitReaders # {} THEN Workers \ {w} ELSE {})
  /\ Continue(w)
  /\ UNCHANGED <<xit, mem, e>>

\* Broadcast(e, true)
BroadcastToAll(w) ==
  /\ At(w, "BroadcastToAll")
  /\ Push(IF e[w].io # "none" /\ XitReaders # {} THEN Workers ELSE {})
  /\ Continue(w)
  /\ UNCHANGED <<xit, mem, e>>

\* Broadcast(index, true)
BroadcastIndex(w) ==
  /\ At(w, "BroadcastIndex")
  /\ Push(Workers)
  /\ Continue(w)
  /\ UNCHANGED <<xit, mem, e>>

----------------------------------------------------------------------------
(* Deleting *)

\* Transients::evictCached(), also for stopSharing(): broadcasts if freeEntry()
\* has marked the entry.
stopSharing(w) ==
  /\ At(w, "stopSharing")
  /\ IF e[w].io # "none" /\ ~xit.waitingToBeFreed
     THEN xit' = [xit EXCEPT !.waitingToBeFreed = TRUE] /\ ContinueWith(w, <<"BroadcastToAll">>)
     ELSE UNCHANGED xit /\ Continue(w)
  /\ UNCHANGED <<mem, e, messages>>

\* MemStore::evictCached() of an entry that has a lock on mem
evictFromMem(w) ==
  /\ At(w, "evictFromMem")
  /\ IF e[w].mem \in {"reading", "writing"} /\ ~mem.waitingToBeFreed
     THEN mem' = [mem EXCEPT !.waitingToBeFreed = TRUE] /\ ContinueWith(w, <<"Broadcast">>)
     ELSE UNCHANGED mem /\ Continue(w)
  /\ UNCHANGED <<xit, e, messages>>

\* MemStore::evictIfFound()
evictFromMemByKey(w) ==
  /\ At(w, "evictFromMemByKey")
  /\ mem' = IF MemReaders \cup MemWriters = {} THEN EmptyMem
            ELSE [mem EXCEPT !.waitingToBeFreed = TRUE]
  /\ Continue(w)
  /\ UNCHANGED <<xit, e, messages>>

\* Mutant: the entry is marked, but nobody is told.
evictFromXitSilently(w) ==
  /\ At(w, "evictFromXit")
  /\ xit' = IF XitReaders \cup XitWriters = {} THEN EmptyXit
            ELSE [xit EXCEPT !.waitingToBeFreed = TRUE]
  /\ Continue(w)
  /\ UNCHANGED <<mem, e, messages>>

\* Transients::evictIfFound()
evictFromXit(w) ==
  /\ At(w, "evictFromXit")
  /\ xit' = IF XitReaders \cup XitWriters = {} THEN EmptyXit
            ELSE [xit EXCEPT !.waitingToBeFreed = TRUE]
  /\ IF xit.used /\ ~xit.waitingToBeFreed THEN ContinueWith(w, <<"BroadcastIndex">>) ELSE Continue(w)
  /\ UNCHANGED <<mem, e, messages>>

\* What Controller::evictCached() does for a local entry.
EvictSteps(entry) ==
  <<"stopSharing", IF entry.mem \in {"reading", "writing"} THEN "evictFromMem" ELSE "evictFromMemByKey">>

\* Controller::evictIfFound(), and release() of a public entry in use
evict(w) ==
  /\ Idle(w)
  /\ \/ /\ e[w].public
        /\ e' = [e EXCEPT ![w].public = FALSE]
        /\ Handle(w, EvictSteps(e[w]))
     \/ /\ ~e[w].public
        /\ Handle(w, <<"evictFromMemByKey", "evictFromXit">>)
        /\ UNCHANGED e
  /\ UNCHANGED <<xit, mem, messages>>

----------------------------------------------------------------------------
(* The writer *)

\* allowCollapsing() of a miss or a reload: addWriterEntry() opens the xit
\* anchor, sets it and allows readers.  An older response may be in mem.
addWriterEntry(w) ==
  /\ Idle(w) /\ e[w].io = "none"
  /\ XitReaders \cup XitWriters = {}
  /\ xit' = [EmptyXit EXCEPT !.used = TRUE, !.collapsing = TRUE]
  /\ e' = [e EXCEPT ![w] = [NoEntry EXCEPT !.io = "writing", !.public = TRUE, !.collapsing = TRUE]]
  /\ lost' = [lost EXCEPT ![w] = FALSE]
  /\ UNCHANGED <<mem, todo, queued>>

\* startWriting(): the headers.  They are flushed to the caches before
\* collapsing is declared unnecessary, or later if forwarding may be retried.
startWriting(w) ==
  /\ Idle(w) /\ e[w].io = "writing" /\ e[w].got = 0 /\ ~e[w].aborted
  /\ e' = [e EXCEPT ![w].got = 1]
  /\ \/ Handle(w, <<"writeToMem", "clearCollapsingRequirement">>)
     \/ Handle(w, <<"clearCollapsingRequirement", "writeToMem">>)
  /\ UNCHANGED <<xit, mem, messages>>

\* write() of a part of the body
append(w) ==
  /\ Idle(w) /\ e[w].io = "writing" /\ e[w].got \in 1..(Whole - 1) /\ ~e[w].aborted
  /\ e' = [e EXCEPT ![w].got = @ + 1]
  /\ Handle(w, <<"writeToMem">>)
  /\ UNCHANGED <<xit, mem, messages>>

\* StoreEntry::complete()
complete(w) ==
  /\ Idle(w) /\ e[w].io = "writing" /\ e[w].got = Whole /\ ~e[w].aborted /\ ~e[w].complete
  /\ e' = [e EXCEPT ![w].complete = TRUE]
  /\ Handle(w, <<"writeToMem">>)
  /\ UNCHANGED <<xit, mem, messages>>

\* Transients::clearCollapsingRequirement()
clearCollapsingRequirement(w) ==
  /\ At(w, "clearCollapsingRequirement")
  /\ xit' = [xit EXCEPT !.collapsing = FALSE]
  /\ e' = [e EXCEPT ![w].collapsing = FALSE]
  /\ ContinueWith(w, <<"Broadcast">>)
  /\ UNCHANGED <<mem, messages>>

\* MemStore::write(): the cache does not want the entry or has no room for
\* it.  transientsAbandonmentCheck() does nothing: without a cache_dir,
\* mayStartSwapOut() leaves swapout.decision at swNeedsCheck.
rejectWriting(w) ==
  /\ At(w, "writeToMem") /\ e[w].mem = "undecided"
  /\ e' = [e EXCEPT ![w].mem = "done"]
  /\ Continue(w)
  /\ UNCHANGED <<xit, mem, messages>>

\* startCaching(): others may read an entry of known size while it is written.
startCaching(w) ==
  /\ At(w, "writeToMem") /\ e[w].mem = "undecided" /\ e[w].public
  /\ MemReaders \cup MemWriters = {}
  /\ \E sizeKnown \in BOOLEAN :
       mem' = [EmptyMem EXCEPT !.used = TRUE, !.waitingToBeFreed = xit.waitingToBeFreed, !.appending = sizeKnown]
  /\ e' = [e EXCEPT ![w].mem = "writing"]
  /\ UNCHANGED <<xit, todo, messages>>

\* MemStore::write() with completeWriting()
copyToShm(w) ==
  /\ At(w, "writeToMem") /\ e[w].mem = "writing"
  /\ mem' = [mem EXCEPT !.size = e[w].got]
  /\ IF e[w].complete
     THEN e' = [e EXCEPT ![w].mem = "done"] /\ ContinueWith(w, <<"Broadcast", "completeWriting">>)
     ELSE UNCHANGED e /\ ContinueWith(w, <<"Broadcast">>)
  /\ UNCHANGED <<xit, messages>>

\* MemStore::write() after the decision not to cache
skipCaching(w) ==
  /\ At(w, "writeToMem") /\ e[w].mem = "done"
  /\ Continue(w)
  /\ UNCHANGED <<xit, mem, e, messages>>

\* StoreMap::abortWriting() of the memory cache anchor
AbortedMem == IF MemReaders = {} THEN EmptyMem
              ELSE [mem EXCEPT !.waitingToBeFreed = TRUE, !.writerHalted = TRUE]

\* MemStore::write() that runs out of slots, and MemStore::disconnect()
disconnectMem(w) ==
  /\ \/ At(w, "writeToMem") /\ e[w].mem = "writing"
     \/ At(w, "disconnectMem")
  /\ e' = [e EXCEPT ![w].mem = IF @ \in {"reading", "writing"} THEN "done" ELSE @]
  /\ IF e[w].mem = "writing"
     THEN mem' = AbortedMem /\ ContinueWith(w, <<"stopSharing">>)
     ELSE UNCHANGED mem /\ Continue(w)
  /\ UNCHANGED <<xit, messages>>

\* Transients::completeWriting()
completeWriting(w) ==
  /\ At(w, "completeWriting")
  /\ e' = [e EXCEPT ![w].io = IF @ = "writing" THEN "reading" ELSE @]
  /\ Continue(w)
  /\ UNCHANGED <<xit, mem, messages>>

\* StoreEntry::abort() of a writer, which stays until nobody uses its entry
abort(w) ==
  /\ Idle(w) /\ e[w].io = "writing" /\ ~e[w].complete /\ ~e[w].aborted
  /\ e' = [e EXCEPT ![w].aborted = TRUE, ![w].public = FALSE]
  /\ Handle(w, IF e[w].public THEN EvictSteps(e[w]) ELSE <<>>)
  /\ UNCHANGED <<xit, mem, messages>>

----------------------------------------------------------------------------
(* Readers *)

\* Transients::get(): joins the entry of another worker, unless its writer
\* has left without clearing the collapsing requirement.
get(w) ==
  /\ Idle(w) /\ e[w].io = "none"
  /\ xit.used /\ ~xit.waitingToBeFreed
  /\ XitWriters # {} \/ ~xit.collapsing
  /\ e' = [e EXCEPT ![w] = [NoEntry EXCEPT !.io = "reading", !.public = TRUE, !.collapsing = xit.collapsing]]
  /\ lost' = [lost EXCEPT ![w] = FALSE]
  /\ Handle(w, <<"share">>)
  /\ UNCHANGED <<xit, mem, queued>>

\* allowSharing() remembers whether there was a writer before it looks for
\* the entry in the cache.
share(w) ==
  /\ At(w, "share")
  /\ ContinueWith(w, <<IF XitWriters # {} THEN "anchor" ELSE "anchorWithoutWriter">>)
  /\ UNCHANGED <<xit, mem, e, messages>>

\* copyFromShm(): all that is there; the entry is complete if nobody writes it.
Loaded(entry) ==
  LET eof == MemWriters = {} IN
  [entry EXCEPT !.got = mem.size, !.complete = eof, !.mem = IF eof THEN "done" ELSE "reading"]

\* MemStore::anchorToCache() finds the entry.
InMem == mem.used /\ ~mem.waitingToBeFreed /\ (mem.appending \/ MemWriters = {})

\* copyFromShmSlice() may fail to parse headers that span several slices.
\* The entry keeps its lock on mem.
Unsyncable(entry) == entry.got = 0 /\ mem.size > 0
NotLoaded(entry) == [entry EXCEPT !.mem = "reading"]

\* find() releases what it could not share: evictCached() of an entry that
\* nobody has locked, and destroyStoreEntry().
AbandonFound(w) == ContinueWith(w, EvictSteps(e'[w]) \o <<"disconnectMem", "disconnect">>)

\* allowSharing()
anchor(w) ==
  /\ At(w, "anchor") \/ At(w, "anchorWithoutWriter")
  /\ \/ /\ InMem
        /\ e' = [e EXCEPT ![w] = Loaded(@)] /\ Continue(w)
     \/ /\ InMem /\ Unsyncable(e[w])
        /\ e' = [e EXCEPT ![w] = NotLoaded(@)] /\ AbandonFound(w)
     \/ /\ ~InMem
        /\ UNCHANGED e
        /\ IF e[w].collapsing /\ At(w, "anchor") THEN Continue(w) ELSE AbandonFound(w)
  /\ UNCHANGED <<xit, mem, messages>>

\* A follower is to hit what the writer has not allowed to hit yet.
CollapsingMismatch(w) == xit.collapsing /\ ~e[w].collapsing

\* Mutant: a reader waits on, whether or not the entry is marked.
SyncStepsIgnoringMark(w) ==
  IF xit.writerHalted \/ CollapsingMismatch(w) THEN <<"abortReader">> ELSE <<"sync">>

\* What syncCollapsed() does to a reader next, from the status of xit
SyncSteps(w) ==
  IF xit.writerHalted \/ CollapsingMismatch(w) THEN <<"abortReader">>
  ELSE IF xit.waitingToBeFreed THEN <<"syncMarked">> ELSE <<"sync">>

\* HandleNewData() pops a message and syncCollapsed() takes a snapshot of
\* the status of xit.
syncCollapsed(w) ==
  /\ Idle(w) /\ queued[w] > 0
  /\ queued' = [queued EXCEPT ![w] = @ - 1]
  /\ IF e[w].io = "none" \/ e[w].aborted THEN UNCHANGED <<e, todo>>
     ELSE /\ e' = [e EXCEPT ![w].collapsing = @ /\ xit.collapsing,
                            ![w].public = @ /\ ~xit.waitingToBeFreed]
          /\ Handle(w, (IF xit.waitingToBeFreed /\ e[w].public THEN EvictSteps(e[w]) ELSE <<>>)
                       \o (IF e[w].io = "reading" THEN SyncSteps(w) ELSE <<>>))
  /\ UNCHANGED <<xit, mem, lost>>

\* updateAnchored() of an entry that is in mem, or anchorToCache()
Found(w) == e[w].mem = "reading" \/ (e[w].mem = "undecided" /\ InMem)

\* syncCollapsed(), the cache part
sync(w) ==
  /\ At(w, "sync") \/ At(w, "syncMarked")
  /\ \/ /\ e[w].mem = "done"
        /\ UNCHANGED e /\ Continue(w)
     \/ /\ Found(w)
        /\ e' = [e EXCEPT ![w] = Loaded(@)] /\ Continue(w)
     \/ /\ Found(w) /\ Unsyncable(e[w])
        /\ e' = [e EXCEPT ![w] = NotLoaded(@)] /\ ContinueWith(w, <<"abortReader">>)
     \/ /\ e[w].mem = "undecided" /\ ~InMem
        /\ UNCHANGED e
        /\ IF At(w, "syncMarked") THEN ContinueWith(w, <<"abortReader">>) ELSE Continue(w)
  /\ UNCHANGED <<xit, mem, messages>>

\* StoreEntry::abort() of a reader; asserts that it is still pending
abortReader(w) ==
  /\ At(w, "abortReader")
  /\ e' = [e EXCEPT ![w].aborted = ~e[w].complete, ![w].public = FALSE]
  /\ ContinueWith(w, IF e[w].public THEN EvictSteps(e[w]) ELSE <<>>)
  /\ UNCHANGED <<xit, mem, messages>>

----------------------------------------------------------------------------
(* Leaving *)

\* The last unlock(): doAbandon() releases a private entry, and that of a
\* writer that is not done, after evictCached(); others are just destroyed.
abandon(w) ==
  /\ Idle(w) /\ e[w].io # "none"
  /\ e' = [e EXCEPT ![w].public = FALSE]
  /\ Handle(w, IF e[w].public /\ (e[w].io = "reading" \/ e[w].complete) THEN <<"disconnect">>
               ELSE (IF e[w].public THEN EvictSteps(e[w]) ELSE <<>>) \o <<"disconnectMem", "disconnect">>)
  /\ UNCHANGED <<xit, mem, messages>>

\* destroyMemObject(): Transients::disconnect(), that is, abortWriting() or
\* closeForReadingAndFreeIdle(), and then MemStore::disconnect() of a reader
disconnect(w) ==
  /\ At(w, "disconnect")
  /\ xit' = IF XitReaders \cup XitWriters = {w} THEN EmptyXit
            ELSE IF e[w].io = "writing" THEN [xit EXCEPT !.waitingToBeFreed = TRUE, !.writerHalted = TRUE]
            ELSE xit
  /\ IF e[w].mem = "reading"
     THEN e' = [e EXCEPT ![w] = [NoEntry EXCEPT !.mem = "reading"]] /\ ContinueWith(w, <<"closeMem">>)
     ELSE e' = [e EXCEPT ![w] = NoEntry] /\ Continue(w)
  /\ UNCHANGED <<mem, messages>>

closeMem(w) ==
  /\ At(w, "closeMem")
  /\ e' = [e EXCEPT ![w] = NoEntry]
  /\ Continue(w)
  /\ UNCHANGED <<xit, mem, messages>>

----------------------------------------------------------------------------

\* The next step of the handler that runs in w
Step(w) ==
  \/ Broadcast(w) \/ BroadcastToAll(w) \/ BroadcastIndex(w)
  \/ stopSharing(w) \/ evictFromMem(w) \/ evictFromMemByKey(w) \/ evictFromXit(w)
  \/ clearCollapsingRequirement(w) \/ completeWriting(w)
  \/ rejectWriting(w) \/ startCaching(w) \/ copyToShm(w) \/ skipCaching(w) \/ disconnectMem(w)
  \/ share(w) \/ anchor(w) \/ sync(w) \/ abortReader(w)
  \/ disconnect(w) \/ closeMem(w)

Next ==
  \E w \in Workers :
    \/ Step(w) \/ syncCollapsed(w)
    \/ addWriterEntry(w) \/ startWriting(w) \/ append(w) \/ complete(w) \/ abort(w)
    \/ evict(w) \/ get(w) \/ abandon(w)

Spec == Init /\ [][Next]_vars

\* A handler runs to its end, and the event loop of a worker looks at the
\* notifications again and again, whatever else happens there.
FairSpec == Spec /\ \A w \in Workers : WF_vars(Step(w)) /\ SF_vars(syncCollapsed(w))

----------------------------------------------------------------------------
(* Properties *)

\* A follower that needs more of the response
Waiting(w) == e[w].io = "reading" /\ ~e[w].complete /\ ~e[w].aborted

\* Somebody has changed shared memory and is going to tell.
Telling == \E v \in Workers, step \in {"Broadcast", "BroadcastToAll", "BroadcastIndex"} : At(v, step)

\* A follower that has nothing to do until it gets another message
Quiet(w) == Waiting(w) /\ Idle(w) /\ queued[w] = 0 /\ ~Telling

\* A follower that nobody is going to tell anything has seen all there is:
\* that collapsing is no longer required, that the response is in the memory
\* cache, and how much of it.  This is what the order of write and Broadcast(),
\* of joining and looking, and the loss of messages while another one is in
\* the queue come to.  It does not hold when the only message is dropped.
NothingMissed ==
  \A w \in Workers : Quiet(w) /\ ~lost[w] =>
    /\ e[w].collapsing = xit.collapsing
    /\ e[w].mem = "undecided" => ~InMem \/ mem.size = 0
    /\ e[w].mem = "reading" => e[w].got = mem.size /\ (MemWriters = {} => mem.writerHalted)

\* The deletion of an entry by any worker reaches every follower, so that it
\* lets no more clients join: evictCached() and evictIfFound() tell everybody
\* who has joined before the mark, unless the queue drops that very message.
\* (A writer that leaves marks the entry, too, but tells nobody.)
DeletionReachesAll ==
  \A w \in Workers :
    e[w].io = "reading" /\ e[w].public /\ xit.waitingToBeFreed /\ ~xit.writerHalted =>
      queued[w] > 0 \/ Telling \/ lost[w]

\* Once the writer has closed its transient entry in good order, every follower
\* gets all of the response or gives up, even when the entry is evicted in
\* between, unless its only wake-up is dropped.
EveryFollowerServed ==
  \A w \in Workers :
    (Waiting(w) /\ XitWriters = {} /\ ~xit.writerHalted) ~> (~Waiting(w) \/ lost[w])

\* "mem-loaded all": a follower takes for complete only what is complete
\* (copyFromShm()).
WholeWhenComplete ==
  \A w \in Workers : e[w].io = "reading" /\ e[w].complete => e[w].got = Whole
=============================================================================
