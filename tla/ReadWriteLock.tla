--------------------------- MODULE ReadWriteLock ---------------------------
(***************************************************************************)
(* Ipc::ReadWriteLock (src/src/ipc/ReadWriteLock.{h,cc}): the lockless     *)
(* shared/exclusive lock that protects every anchor of every shared memory *)
(* index (Transients, MemStore, Rock).                                     *)
(*                                                                         *)
(* The lock is a handful of std::atomic members.  The kid processes act on *)
(* it concurrently, so every atomic load, store or read-modify-write of    *)
(* the code is one action here; what a method does between two of them is  *)
(* local to the caller and belongs to one of the two.  An assert() is not  *)
(* a step: it is stated by AssertionsHold at the place where it runs.      *)
(*                                                                         *)
(* A user is one caller that holds the lock at most once.  A process that  *)
(* locks the same anchor twice (openForUpdating() does) is two users.      *)
(***************************************************************************)
EXTENDS Integers, FiniteSets

CONSTANTS
  Users,  \* concurrent callers of the lock methods
  Api     \* the methods that these callers use; see AllMethods

AllMethods ==
  {"lockShared", "lockExclusive", "lockHeaders", "startAppending",
   "unlockShared", "unlockExclusive", "unlockHeaders",
   "switchExclusiveToShared", "unlockSharedAndSwitchToExclusive",
   "abortWriting"}

ASSUME UsersAssumption == IsFiniteSet(Users)

ASSUME ApiAssumption == Api \subseteq AllMethods

VARIABLES
  readers,     \* number of reading users
  writing,     \* there is a writing user
  appending,   \* the writer has promised to only append
  updating,    \* a reader is updating metadata/headers
  readLevel,   \* number of users reading (or trying to)
  writeLevel,  \* number of users writing (or trying to write)
  pc,          \* what each user does next, or what it holds
  call         \* the method that each user is executing

vars == <<readers, writing, appending, updating, readLevel, writeLevel, pc, call>>

(***************************************************************************)
(* At rest a user holds nothing ("idle"), a shared lock, the headers lock, *)
(* an exclusive lock, or an exclusive lock that it opened for reading with *)
(* startAppending().  "freeing" and "keeping" are the two outcomes of the  *)
(* readers test of StoreMap::abortWriting().  All other values name the    *)
(* next atomic operation of the method in progress.                        *)
(***************************************************************************)
AtRest == {"idle", "shared", "headers", "exclusive", "appender"}

Steps ==
  {"ls_writeLevel", "ls_appending", "ls_readers", "ls_undo", "lh_updating",
   "le_readLevel", "le_writing", "le_undo",
   "us_readers", "us_readLevel", "uh_clear",
   "ux_appending", "ux_writing", "ux_writeLevel", "xs_readers",
   "sw_readers", "sw_readLevel", "sw_test", "sx_readers", "sx_readLevel",
   "aw_readers", "freeing", "keeping"}

TypeOK ==
  /\ readers \in Nat /\ readLevel \in Nat /\ writeLevel \in Nat
  /\ writing \in BOOLEAN /\ appending \in BOOLEAN /\ updating \in BOOLEAN
  /\ pc \in [Users -> AtRest \cup Steps]
  /\ call \in [Users -> AllMethods \cup {"none"}]

\* ReadWriteLock(): nobody is using the lock.
Init ==
  /\ readers = 0 /\ readLevel = 0 /\ writeLevel = 0
  /\ writing = FALSE /\ appending = FALSE /\ updating = FALSE
  /\ pc = [u \in Users |-> "idle"]
  /\ call = [u \in Users |-> "none"]

(***************************************************************************)
(* Begin: user u calls method m, whose first atomic operation leads to     *)
(* `to'.  Goto: the method in progress goes on.  Return: it ends, leaving  *)
(* the user with what `to' says.                                           *)
(***************************************************************************)
Begin(u, m, from, to) ==
  /\ m \in Api
  /\ pc[u] \in from
  /\ pc' = [pc EXCEPT ![u] = to]
  /\ call' = [call EXCEPT ![u] = m]

Goto(u, from, to) ==
  /\ pc[u] = from
  /\ pc' = [pc EXCEPT ![u] = to]
  /\ UNCHANGED call

Return(u, from, to) ==
  /\ pc[u] = from
  /\ pc' = [pc EXCEPT ![u] = to]
  /\ call' = [call EXCEPT ![u] = "none"]

levels == <<readLevel, writeLevel>>
flags == <<writing, appending, updating>>

----------------------------------------------------------------------------
(* lockShared(), and lockHeaders() which starts by calling it *)

\* ++readLevel locks "new" writers out.
LockSharedEnter(u) ==
  /\ \E m \in {"lockShared", "lockHeaders"} : Begin(u, m, {"idle"}, "ls_writeLevel")
  /\ readLevel' = readLevel + 1
  /\ UNCHANGED <<readers, writeLevel, flags>>

\* The left operand of if (!writeLevel || appending).
LockSharedTestWriteLevel(u) ==
  /\ Goto(u, "ls_writeLevel", IF writeLevel = 0 THEN "ls_readers" ELSE "ls_appending")
  /\ UNCHANGED <<readers, levels, flags>>

\* Mutant: the appending promise is taken for granted.
LockSharedIgnoresAppending(u) ==
  /\ Goto(u, "ls_appending", "ls_readers")
  /\ UNCHANGED <<readers, levels, flags>>

\* Its right operand, evaluated only when somebody is writing.
LockSharedTestAppending(u) ==
  /\ Goto(u, "ls_appending", IF appending THEN "ls_readers" ELSE "ls_undo")
  /\ UNCHANGED <<readers, levels, flags>>

LockSharedSucceed(u) ==
  /\ \/ call[u] = "lockShared" /\ Return(u, "ls_readers", "shared")
     \/ call[u] = "lockHeaders" /\ Goto(u, "ls_readers", "lh_updating")
  /\ readers' = readers + 1
  /\ UNCHANGED <<levels, flags>>

\* Mutant: the failed attempt gives back the wrong counter.
LockSharedFailWrongCounter(u) ==
  /\ Return(u, "ls_undo", "idle")
  /\ readers' = readers - 1
  /\ UNCHANGED <<levels, flags>>

LockSharedFail(u) ==
  /\ Return(u, "ls_undo", "idle")
  /\ readLevel' = readLevel - 1
  /\ UNCHANGED <<readers, writeLevel, flags>>

\* Mutant: the loser unlocks headers that it did not lock.
LockHeadersLoserUnlocksHeaders(u) ==
  /\ IF updating
     THEN Goto(u, "lh_updating", "uh_clear")
     ELSE Return(u, "lh_updating", "headers")
  /\ updating' = TRUE
  /\ UNCHANGED <<readers, levels, writing, appending>>

\* updating.test_and_set(): either we got here first, or we unlockShared().
LockHeadersTestAndSet(u) ==
  /\ IF updating
     THEN Goto(u, "lh_updating", "us_readers")
     ELSE Return(u, "lh_updating", "headers")
  /\ updating' = TRUE
  /\ UNCHANGED <<readers, levels, writing, appending>>

----------------------------------------------------------------------------
(* unlockShared() and unlockHeaders() which ends by calling it *)

UnlockSharedReaders(u) ==
  /\ \/ Begin(u, "unlockShared", {"shared"}, "us_readLevel")
     \/ Goto(u, "us_readers", "us_readLevel")
  /\ readers' = readers - 1
  /\ UNCHANGED <<levels, flags>>

UnlockSharedReadLevel(u) ==
  /\ Return(u, "us_readLevel", "idle")
  /\ readLevel' = readLevel - 1
  /\ UNCHANGED <<readers, writeLevel, flags>>

\* AssertFlagIsSet(updating) sets the flag it tests.
UnlockHeadersAssertFlag(u) ==
  /\ Begin(u, "unlockHeaders", {"headers"}, "uh_clear")
  /\ updating' = TRUE
  /\ UNCHANGED <<readers, levels, writing, appending>>

UnlockHeadersClear(u) ==
  /\ Goto(u, "uh_clear", "us_readers")
  /\ updating' = FALSE
  /\ UNCHANGED <<readers, levels, writing, appending>>

----------------------------------------------------------------------------
(* lockExclusive() and startAppending() *)

\* Mutant: the writing flag decides instead of the old writeLevel.
LockExclusiveTestsWriting(u) ==
  /\ Begin(u, "lockExclusive", {"idle"}, IF ~writing THEN "le_readLevel" ELSE "le_undo")
  /\ writeLevel' = writeLevel + 1
  /\ UNCHANGED <<readers, readLevel, flags>>

\* if (!writeLevel++): the first writer goes on, any other one bails.
LockExclusiveEnter(u) ==
  /\ Begin(u, "lockExclusive", {"idle"}, IF writeLevel = 0 THEN "le_readLevel" ELSE "le_undo")
  /\ writeLevel' = writeLevel + 1
  /\ UNCHANGED <<readers, readLevel, flags>>

\* Mutant: only the readers that have finished locking are respected.
LockExclusiveTestsReaders(u) ==
  /\ Goto(u, "le_readLevel", IF readers = 0 THEN "le_writing" ELSE "le_undo")
  /\ UNCHANGED <<readers, levels, flags>>

\* if (!readLevel): no old readers and nobody is becoming one.
LockExclusiveTestReadLevel(u) ==
  /\ Goto(u, "le_readLevel", IF readLevel = 0 THEN "le_writing" ELSE "le_undo")
  /\ UNCHANGED <<readers, levels, flags>>

LockExclusiveSucceed(u) ==
  /\ Return(u, "le_writing", "exclusive")
  /\ writing' = TRUE
  /\ UNCHANGED <<readers, levels, appending, updating>>

LockExclusiveFail(u) ==
  /\ Return(u, "le_undo", "idle")
  /\ writeLevel' = writeLevel - 1
  /\ UNCHANGED <<readers, readLevel, flags>>

startAppending(u) ==
  /\ "startAppending" \in Api
  /\ pc[u] = "exclusive"
  /\ pc' = [pc EXCEPT ![u] = "appender"]
  /\ appending' = TRUE
  /\ UNCHANGED <<readers, levels, writing, updating, call>>

----------------------------------------------------------------------------
(* unlockExclusive() and switchExclusiveToShared() which ends by calling it *)

\* Mutant: the promise outlives the writer that made it.
UnlockExclusiveKeepsAppending(u) ==
  /\ \/ Begin(u, "unlockExclusive", {"exclusive", "appender", "freeing", "keeping"}, "ux_writing")
     \/ Goto(u, "ux_appending", "ux_writing")
  /\ UNCHANGED <<readers, levels, flags>>

UnlockExclusiveAppending(u) ==
  /\ \/ Begin(u, "unlockExclusive", {"exclusive", "appender", "freeing", "keeping"}, "ux_writing")
     \/ Goto(u, "ux_appending", "ux_writing")
  /\ appending' = FALSE
  /\ UNCHANGED <<readers, levels, writing, updating>>

UnlockExclusiveWriting(u) ==
  /\ Goto(u, "ux_writing", "ux_writeLevel")
  /\ writing' = FALSE
  /\ UNCHANGED <<readers, levels, appending, updating>>

UnlockExclusiveWriteLevel(u) ==
  /\ Return(u, "ux_writeLevel",
            IF call[u] = "switchExclusiveToShared" THEN "shared" ELSE "idle")
  /\ writeLevel' = writeLevel - 1
  /\ UNCHANGED <<readers, readLevel, flags>>

\* ++readLevel must be done before we release exclusive control.
SwitchToSharedReadLevel(u) ==
  /\ Begin(u, "switchExclusiveToShared", {"exclusive", "appender"}, "xs_readers")
  /\ readLevel' = readLevel + 1
  /\ UNCHANGED <<readers, writeLevel, flags>>

SwitchToSharedReaders(u) ==
  /\ Goto(u, "xs_readers", "ux_appending")
  /\ readers' = readers + 1
  /\ UNCHANGED <<levels, flags>>

----------------------------------------------------------------------------
(* unlockSharedAndSwitchToExclusive(): Transients only *)

\* if (!writeLevel++): "sw" is the path of the first writer, "sx" the other.
SwitchToExclusiveEnter(u) ==
  /\ Begin(u, "unlockSharedAndSwitchToExclusive", {"shared"},
           IF writeLevel = 0 THEN "sw_readers" ELSE "sx_readers")
  /\ writeLevel' = writeLevel + 1
  /\ UNCHANGED <<readers, readLevel, flags>>

\* Both paths call unlockShared().
SwitchToExclusiveReaders(u) ==
  /\ \/ Goto(u, "sw_readers", "sw_readLevel")
     \/ Goto(u, "sx_readers", "sx_readLevel")
  /\ readers' = readers - 1
  /\ UNCHANGED <<levels, flags>>

\* The second path ends with --writeLevel, as a failed lockExclusive() does.
SwitchToExclusiveReadLevel(u) ==
  /\ \/ Goto(u, "sw_readLevel", "sw_test")
     \/ Goto(u, "sx_readLevel", "le_undo")
  /\ readLevel' = readLevel - 1
  /\ UNCHANGED <<readers, writeLevel, flags>>

\* if (!readers), then writing = true; otherwise --writeLevel.
SwitchToExclusiveTest(u) ==
  /\ Goto(u, "sw_test", IF readers = 0 THEN "le_writing" ELSE "le_undo")
  /\ UNCHANGED <<readers, levels, flags>>

----------------------------------------------------------------------------
(* StoreMap::abortWriting(), the one caller that uses the members directly *)

AbortWritingAppending(u) ==
  /\ Begin(u, "abortWriting", {"exclusive", "appender"}, "aw_readers")
  /\ appending' = FALSE
  /\ UNCHANGED <<readers, levels, writing, updating>>

\* if (!s.lock.readers) the caller frees the chain, else it marks the entry;
\* in both cases it then calls unlockExclusive().
AbortWritingTestReaders(u) ==
  /\ Return(u, "aw_readers", IF readers = 0 THEN "freeing" ELSE "keeping")
  /\ UNCHANGED <<readers, levels, flags>>

----------------------------------------------------------------------------
Reader(u) ==
  \/ LockSharedEnter(u) \/ LockSharedTestWriteLevel(u) \/ LockSharedTestAppending(u)
  \/ LockSharedSucceed(u) \/ LockSharedFail(u) \/ LockHeadersTestAndSet(u)
  \/ UnlockSharedReaders(u) \/ UnlockSharedReadLevel(u)
  \/ UnlockHeadersAssertFlag(u) \/ UnlockHeadersClear(u)

Writer(u) ==
  \/ LockExclusiveEnter(u) \/ LockExclusiveTestReadLevel(u)
  \/ LockExclusiveSucceed(u) \/ LockExclusiveFail(u) \/ startAppending(u)
  \/ UnlockExclusiveAppending(u) \/ UnlockExclusiveWriting(u) \/ UnlockExclusiveWriteLevel(u)
  \/ AbortWritingAppending(u) \/ AbortWritingTestReaders(u)

Switcher(u) ==
  \/ SwitchToSharedReadLevel(u) \/ SwitchToSharedReaders(u)
  \/ SwitchToExclusiveEnter(u) \/ SwitchToExclusiveReaders(u)
  \/ SwitchToExclusiveReadLevel(u) \/ SwitchToExclusiveTest(u)

Next == \E u \in Users : Reader(u) \/ Writer(u) \/ Switcher(u)

Spec == Init /\ [][Next]_vars

----------------------------------------------------------------------------
(***************************************************************************)
(* Where a user stands, read off its program counter.                      *)
(***************************************************************************)

\* The user's share of readers, readLevel and writeLevel.
CountedReader == {"shared", "headers", "lh_updating", "us_readers", "uh_clear",
                  "sw_readers", "sx_readers"}
InReadLevel == CountedReader \cup
  {"ls_writeLevel", "ls_appending", "ls_readers", "ls_undo", "us_readLevel",
   "sw_readLevel", "sx_readLevel"}

\* The user owns the exclusive lock: nobody else can be past writeLevel++.
ActiveWriter == {"exclusive", "appender", "aw_readers", "freeing", "keeping",
                 "xs_readers", "ux_appending", "ux_writing"}
FirstWriter == ActiveWriter \cup
  {"le_readLevel", "le_writing", "ux_writeLevel", "sw_readers", "sw_readLevel", "sw_test"}
InWriteLevel == FirstWriter \cup {"le_undo", "sx_readers", "sx_readLevel"}

\* A user about to become or being a reader, whatever its next step is.
AdmittedReader == CountedReader \cup {"ls_readers"}

\* A switching user holds its shared and its exclusive lock at the same time.
SwitchingShares(u) == call[u] = "switchExclusiveToShared"

At(S) == {u \in Users : pc[u] \in S}
CountsReader(u) ==
  pc[u] \in CountedReader \/ (SwitchingShares(u) /\ pc[u] # "xs_readers")
CountsReadLevel(u) == pc[u] \in InReadLevel \/ SwitchingShares(u)

(***************************************************************************)
(* Properties.                                                             *)
(***************************************************************************)

\* The three counters are exactly the numbers of the users that still owe a
\* decrement: no interleaving of failed, nested or switched acquisitions
\* leaks a level, which would make the anchor unusable until restart.
LevelsExact ==
  /\ readers = Cardinality({u \in Users : CountsReader(u)})
  /\ readLevel = Cardinality({u \in Users : CountsReadLevel(u)})
  /\ writeLevel = Cardinality(At(InWriteLevel))

\* Exclusive users exclude each other (lockExclusive(), "there can be at
\* most 1" writing user), even when one of them comes from
\* unlockSharedAndSwitchToExclusive().
OneWriter == \A u, v \in At(FirstWriter) : u = v

\* At most one user updates the headers, and none does without the flag.
OneUpdater ==
  /\ \A u, v \in At({"headers", "uh_clear"}) : u = v
  /\ updating <=> At({"headers", "uh_clear"}) # {}

\* A writer that has not called startAppending() excludes every reader, the
\* ones inside lockShared() that are past their last test included.
ReadersLockedOut ==
  \A u \in At({"le_writing", "exclusive"}) : At(AdmittedReader) = {}

\* The assertions of the methods hold where they are evaluated, for every
\* interleaving: readers > 0, writing, !appending, and updating is set.
AssertionsHold ==
  \A u \in Users :
    /\ pc[u] \in {"shared", "us_readers", "sw_readers", "sx_readers"} => readers > 0
    /\ pc[u] \in ActiveWriter => writing
    /\ pc[u] = "sw_readers" => ~appending
    /\ pc[u] = "headers" => updating

\* An exclusive lock means that the anchor has no readers: "assert(s.writing()
\* && !s.reading())" of StoreMap::openForWritingAt() and "assert(!s.reading())"
\* of StoreMap::closeForReadingAndFreeIdle().  Does not hold, see the README.
ExclusiveNotReading == \A u \in At({"exclusive"}) : readers = 0

\* StoreMap::abortWriting() frees the slices only if nobody reads them: its
\* readers test, made after "appending = false; // locks out any new
\* readers", is meant to be final.  Does not hold, see the README.
AbortLocksOutReaders == \A u \in At({"freeing"}) : readers = 0

(***************************************************************************)
(* The refinement mapping.  A reader is admitted by its last successful    *)
(* test, a writer by its readLevel test, and both are gone when their      *)
(* readers or writeLevel share is.                                         *)
(***************************************************************************)
HoldOf(u) ==
  CASE pc[u] \in {"headers", "uh_clear"} -> "headers"
    [] pc[u] \in AdmittedReader \ {"headers", "uh_clear"} -> "shared"
    [] pc[u] \in {"le_writing", "exclusive"} -> "exclusive"
    [] pc[u] = "appender" -> "appending"
    [] pc[u] \in {"xs_readers", "ux_appending"} ->
         IF appending THEN "appending" ELSE "exclusive"
    [] pc[u] \in {"aw_readers", "freeing", "keeping", "ux_writing", "ux_writeLevel"} -> "closing"
    [] OTHER -> "none"

Abstract == INSTANCE AbstractLock WITH hold <- [u \in Users |-> HoldOf(u)]

\* Without unlockSharedAndSwitchToExclusive() every step of the lock methods
\* is a step of AbstractLock or changes nothing that its users rely on.
ImplementsAbstractLock == Abstract!Spec
=============================================================================
