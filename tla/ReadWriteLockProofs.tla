------------------------ MODULE ReadWriteLockProofs ------------------------
(***************************************************************************)
(* Theorems about ReadWriteLock, for any finite set of users and any       *)
(* subset of the lock methods.                                             *)
(*                                                                         *)
(* The counters are cardinalities of sets of users, and a step moves one   *)
(* user, so every step changes each of the three sets by at most that      *)
(* user.  The flags are tied to program counters: `writing' to the active  *)
(* writer, `appending' to a writer that promised to append, `updating' to  *)
(* the updater.                                                            *)
(***************************************************************************)
EXTENDS ReadWriteLock, Integers, Sequences, FiniteSets, Functions, FiniteSetTheorems, SequenceTheorems,
        WellFoundedInduction, TLAPS

----------------------------------------------------------------------------
(* Counting *)

\* Two sets that differ in at most one element have cardinalities that
\* differ accordingly: how a step of one process changes a count of
\* processes.
LEMMA OneElement ==
  ASSUME NEW S, NEW T, NEW e, IsFiniteSet(S), IsFiniteSet(T),
         \A x : x # e => (x \in S <=> x \in T)
  PROVE  /\ (e \in S <=> e \in T) => Cardinality(T) = Cardinality(S)
         /\ e \notin S /\ e \in T => Cardinality(T) = Cardinality(S) + 1
         /\ e \in S /\ e \notin T => Cardinality(T) = Cardinality(S) - 1
<1>1. ASSUME e \in S <=> e \in T PROVE Cardinality(T) = Cardinality(S)
  <2>1. S = T BY <1>1
  <2> QED BY <2>1
<1>2. ASSUME e \notin S, e \in T PROVE Cardinality(T) = Cardinality(S) + 1
  <2>1. T = S \cup {e} BY <1>2
  <2> QED BY <2>1, <1>2, FS_AddElement
<1>3. ASSUME e \in S, e \notin T PROVE Cardinality(T) = Cardinality(S) - 1
  <2>1. T = S \ {e} BY <1>3
  <2> QED BY <2>1, <1>3, FS_RemoveElement
<1> QED BY <1>1, <1>2, <1>3

\* A count is a natural number, and zero when there is nothing to count.
LEMMA ZeroIsEmpty ==
  ASSUME NEW S, IsFiniteSet(S)
  PROVE  Cardinality(S) \in Nat /\ (Cardinality(S) = 0 <=> S = {})
BY FS_CardinalityType, FS_EmptySet

----------------------------------------------------------------------------

ReaderSet == {u \in Users : CountsReader(u)}
ReadLevelSet == {u \in Users : CountsReadLevel(u)}
WriteLevelSet == At(InWriteLevel)

\* Only a user inside switchExclusiveToShared() has that method in progress.
SwitchingSteps == {"xs_readers", "ux_appending", "ux_writing", "ux_writeLevel"}
CallConsistent ==
  \A u \in Users :
    /\ call[u] = "switchExclusiveToShared" => pc[u] \in SwitchingSteps
    /\ pc[u] \in {"xs_readers", "ux_appending"} => call[u] = "switchExclusiveToShared"

WritingOwned == \A u \in At(ActiveWriter) : writing
AppendingOwned ==
  /\ appending => At({"appender", "xs_readers", "ux_appending"}) # {}
  /\ At({"appender"}) # {} => appending

\* The inductive invariant.
IInv ==
  /\ TypeOK /\ CallConsistent /\ LevelsExact
  /\ OneWriter /\ OneUpdater /\ WritingOwned /\ AppendingOwned

\* Without the switch to exclusive nobody is inside it.
NoSwitchInv ==
  /\ At({"sw_readers", "sw_readLevel", "sw_test", "sx_readers", "sx_readLevel"}) = {}
  /\ ReadersLockedOut
----------------------------------------------------------------------------
(* Counting *)

\* The three sets of contributors are finite, now and after any step.
LEMMA FiniteContributors ==
  /\ IsFiniteSet(ReaderSet) /\ IsFiniteSet(ReadLevelSet) /\ IsFiniteSet(WriteLevelSet)
  /\ IsFiniteSet(ReaderSet') /\ IsFiniteSet(ReadLevelSet') /\ IsFiniteSet(WriteLevelSet')
BY UsersAssumption, FS_Subset DEF ReaderSet, ReadLevelSet, WriteLevelSet, At

\* The lock levels in terms of their contributors.
LEMMA LevelsAreCounts ==
  /\ LevelsExact <=> /\ readers = Cardinality(ReaderSet)
                     /\ readLevel = Cardinality(ReadLevelSet)
                     /\ writeLevel = Cardinality(WriteLevelSet)
  /\ LevelsExact' <=> /\ readers' = Cardinality(ReaderSet')
                      /\ readLevel' = Cardinality(ReadLevelSet')
                      /\ writeLevel' = Cardinality(WriteLevelSet')
BY DEF LevelsExact, ReaderSet, ReadLevelSet, WriteLevelSet

----------------------------------------------------------------------------
(* A step of one user *)

\* Nobody but u moves.
OnlyMoves(u) == \A v \in Users : v # u => pc'[v] = pc[v] /\ call'[v] = call[v]

\* Every action of user u changes the program counter and the method of u only.
LEMMA StepMovesOne ==
  ASSUME TypeOK, NEW u \in Users, Reader(u) \/ Writer(u) \/ Switcher(u)
  PROVE  /\ OnlyMoves(u)
         /\ pc' \in [Users -> AtRest \cup Steps]
         /\ call' \in [Users -> AllMethods \cup {"none"}]
<1> USE DEF Begin, Goto, Return, OnlyMoves, TypeOK, AtRest, Steps, AllMethods
<1>1. CASE Reader(u)
  BY <1>1 DEF Reader, LockSharedEnter, LockSharedTestWriteLevel, LockSharedTestAppending,
    LockSharedSucceed, LockSharedFail, LockHeadersTestAndSet, UnlockSharedReaders,
    UnlockSharedReadLevel, UnlockHeadersAssertFlag, UnlockHeadersClear
<1>2. CASE Writer(u)
  BY <1>2 DEF Writer, LockExclusiveEnter, LockExclusiveTestReadLevel, LockExclusiveSucceed,
    LockExclusiveFail, startAppending, UnlockExclusiveAppending, UnlockExclusiveWriting,
    UnlockExclusiveWriteLevel, AbortWritingAppending, AbortWritingTestReaders
<1>3. CASE Switcher(u)
  BY <1>3 DEF Switcher, SwitchToSharedReadLevel, SwitchToSharedReaders, SwitchToExclusiveEnter,
    SwitchToExclusiveReaders, SwitchToExclusiveReadLevel, SwitchToExclusiveTest
<1> QED BY <1>1, <1>2, <1>3

\* How the cardinalities follow the user that moves.
LEMMA CountsFollow ==
  ASSUME NEW u \in Users, OnlyMoves(u)
  PROVE  /\ (CountsReader(u) <=> CountsReader(u)') => Cardinality(ReaderSet') = Cardinality(ReaderSet)
         /\ ~CountsReader(u) /\ CountsReader(u)' => Cardinality(ReaderSet') = Cardinality(ReaderSet) + 1
         /\ CountsReader(u) /\ ~CountsReader(u)' => Cardinality(ReaderSet') = Cardinality(ReaderSet) - 1
         /\ (CountsReadLevel(u) <=> CountsReadLevel(u)') => Cardinality(ReadLevelSet') = Cardinality(ReadLevelSet)
         /\ ~CountsReadLevel(u) /\ CountsReadLevel(u)' => Cardinality(ReadLevelSet') = Cardinality(ReadLevelSet) + 1
         /\ CountsReadLevel(u) /\ ~CountsReadLevel(u)' => Cardinality(ReadLevelSet') = Cardinality(ReadLevelSet) - 1
         /\ (pc[u] \in InWriteLevel <=> pc'[u] \in InWriteLevel) => Cardinality(WriteLevelSet') = Cardinality(WriteLevelSet)
         /\ pc[u] \notin InWriteLevel /\ pc'[u] \in InWriteLevel => Cardinality(WriteLevelSet') = Cardinality(WriteLevelSet) + 1
         /\ pc[u] \in InWriteLevel /\ pc'[u] \notin InWriteLevel => Cardinality(WriteLevelSet') = Cardinality(WriteLevelSet) - 1
<1>1. \A x : x # u => (x \in ReaderSet <=> x \in ReaderSet')
  BY DEF OnlyMoves, ReaderSet, CountsReader, SwitchingShares
<1>2. u \in ReaderSet <=> CountsReader(u)
  BY DEF ReaderSet
<1>3. u \in ReaderSet' <=> CountsReader(u)'
  BY DEF ReaderSet
<1>4. \A x : x # u => (x \in ReadLevelSet <=> x \in ReadLevelSet')
  BY DEF OnlyMoves, ReadLevelSet, CountsReadLevel, SwitchingShares
<1>5. u \in ReadLevelSet <=> CountsReadLevel(u)
  BY DEF ReadLevelSet
<1>6. u \in ReadLevelSet' <=> CountsReadLevel(u)'
  BY DEF ReadLevelSet
<1>7. \A x : x # u => (x \in WriteLevelSet <=> x \in WriteLevelSet')
  BY DEF OnlyMoves, WriteLevelSet, At
<1>8. u \in WriteLevelSet <=> pc[u] \in InWriteLevel
  BY DEF WriteLevelSet, At
<1>9. u \in WriteLevelSet' <=> pc'[u] \in InWriteLevel
  BY DEF WriteLevelSet, At
<1> HIDE DEF ReaderSet, ReadLevelSet, WriteLevelSet
<1>a. /\ (CountsReader(u) <=> CountsReader(u)') => Cardinality(ReaderSet') = Cardinality(ReaderSet)
      /\ ~CountsReader(u) /\ CountsReader(u)' => Cardinality(ReaderSet') = Cardinality(ReaderSet) + 1
      /\ CountsReader(u) /\ ~CountsReader(u)' => Cardinality(ReaderSet') = Cardinality(ReaderSet) - 1
  BY <1>1, <1>2, <1>3, OneElement, FiniteContributors
<1>b. /\ (CountsReadLevel(u) <=> CountsReadLevel(u)') => Cardinality(ReadLevelSet') = Cardinality(ReadLevelSet)
      /\ ~CountsReadLevel(u) /\ CountsReadLevel(u)' => Cardinality(ReadLevelSet') = Cardinality(ReadLevelSet) + 1
      /\ CountsReadLevel(u) /\ ~CountsReadLevel(u)' => Cardinality(ReadLevelSet') = Cardinality(ReadLevelSet) - 1
  BY <1>4, <1>5, <1>6, OneElement, FiniteContributors
<1>c. /\ (pc[u] \in InWriteLevel <=> pc'[u] \in InWriteLevel) => Cardinality(WriteLevelSet') = Cardinality(WriteLevelSet)
      /\ pc[u] \notin InWriteLevel /\ pc'[u] \in InWriteLevel => Cardinality(WriteLevelSet') = Cardinality(WriteLevelSet) + 1
      /\ pc[u] \in InWriteLevel /\ pc'[u] \notin InWriteLevel => Cardinality(WriteLevelSet') = Cardinality(WriteLevelSet) - 1
  BY <1>7, <1>8, <1>9, OneElement, FiniteContributors
<1> QED BY <1>a, <1>b, <1>c
----------------------------------------------------------------------------
(* The counters stay exact, whatever the users do *)

\* Every atomic operation of the lock methods changes each counter by what
\* its user starts or stops to owe.
LEMMA LevelsStep ==
  ASSUME TypeOK, CallConsistent, LevelsExact,
         NEW u \in Users, Reader(u) \/ Writer(u) \/ Switcher(u)
  PROVE  LevelsExact' /\ CallConsistent' /\ TypeOK'
<1>m. /\ OnlyMoves(u)
      /\ pc' \in [Users -> AtRest \cup Steps]
      /\ call' \in [Users -> AllMethods \cup {"none"}]
  BY StepMovesOne
<1>n. /\ readers = Cardinality(ReaderSet) /\ readers \in Nat
      /\ readLevel = Cardinality(ReadLevelSet) /\ readLevel \in Nat
      /\ writeLevel = Cardinality(WriteLevelSet) /\ writeLevel \in Nat
  BY LevelsAreCounts DEF TypeOK
<1>c. /\ call[u] = "switchExclusiveToShared" => pc[u] \in SwitchingSteps
      /\ pc[u] \in {"xs_readers", "ux_appending"} => call[u] = "switchExclusiveToShared"
  BY DEF CallConsistent
<1> DEFINE NowExact == /\ readers' = Cardinality(ReaderSet')
                       /\ readLevel' = Cardinality(ReadLevelSet')
                       /\ writeLevel' = Cardinality(WriteLevelSet')
           CallOK == /\ call'[u] = "switchExclusiveToShared" => pc'[u] \in SwitchingSteps
                     /\ pc'[u] \in {"xs_readers", "ux_appending"} => call'[u] = "switchExclusiveToShared"
           Flags == writing' \in BOOLEAN /\ appending' \in BOOLEAN /\ updating' \in BOOLEAN
<1>s. NowExact /\ CallOK /\ Flags
  <2> USE <1>m, <1>n, <1>c, CountsFollow
      DEF Begin, Goto, Return, levels, flags, CountsReader, CountsReadLevel, SwitchingShares,
          CountedReader, InReadLevel, InWriteLevel, FirstWriter, ActiveWriter,
          TypeOK, AtRest, Steps, AllMethods, SwitchingSteps
  <2>1. CASE LockSharedEnter(u) BY <2>1 DEF LockSharedEnter
  <2>2. CASE LockSharedTestWriteLevel(u) BY <2>2 DEF LockSharedTestWriteLevel
  <2>3. CASE LockSharedTestAppending(u) BY <2>3 DEF LockSharedTestAppending
  <2>4. CASE LockSharedSucceed(u) BY <2>4 DEF LockSharedSucceed
  <2>5. CASE LockSharedFail(u) BY <2>5 DEF LockSharedFail
  <2>6. CASE LockHeadersTestAndSet(u) BY <2>6 DEF LockHeadersTestAndSet
  <2>7. CASE UnlockSharedReaders(u) BY <2>7 DEF UnlockSharedReaders
  <2>8. CASE UnlockSharedReadLevel(u) BY <2>8 DEF UnlockSharedReadLevel
  <2>9. CASE UnlockHeadersAssertFlag(u) BY <2>9 DEF UnlockHeadersAssertFlag
  <2>10. CASE UnlockHeadersClear(u) BY <2>10 DEF UnlockHeadersClear
  <2>11. CASE LockExclusiveEnter(u) BY <2>11 DEF LockExclusiveEnter
  <2>12. CASE LockExclusiveTestReadLevel(u) BY <2>12 DEF LockExclusiveTestReadLevel
  <2>13. CASE LockExclusiveSucceed(u) BY <2>13 DEF LockExclusiveSucceed
  <2>14. CASE LockExclusiveFail(u) BY <2>14 DEF LockExclusiveFail
  <2>15. CASE startAppending(u) BY <2>15 DEF startAppending
  <2>16. CASE UnlockExclusiveAppending(u) BY <2>16, ZenonT(30) DEF UnlockExclusiveAppending
  <2>17. CASE UnlockExclusiveWriting(u) BY <2>17 DEF UnlockExclusiveWriting
  <2>18. CASE UnlockExclusiveWriteLevel(u) BY <2>18 DEF UnlockExclusiveWriteLevel
  <2>19. CASE AbortWritingAppending(u) BY <2>19, ZenonT(30) DEF AbortWritingAppending
  <2>20. CASE AbortWritingTestReaders(u) BY <2>20 DEF AbortWritingTestReaders
  <2>21. CASE SwitchToSharedReadLevel(u) BY <2>21 DEF SwitchToSharedReadLevel
  <2>22. CASE SwitchToSharedReaders(u) BY <2>22 DEF SwitchToSharedReaders
  <2>23. CASE SwitchToExclusiveEnter(u) BY <2>23 DEF SwitchToExclusiveEnter
  <2>24. CASE SwitchToExclusiveReaders(u) BY <2>24 DEF SwitchToExclusiveReaders
  <2>25. CASE SwitchToExclusiveReadLevel(u) BY <2>25 DEF SwitchToExclusiveReadLevel
  <2>26. CASE SwitchToExclusiveTest(u) BY <2>26 DEF SwitchToExclusiveTest
  <2> QED BY <2>1, <2>2, <2>3, <2>4, <2>5, <2>6, <2>7, <2>8, <2>9, <2>10, <2>11, <2>12, <2>13, <2>14, <2>15, <2>16, <2>17, <2>18, <2>19, <2>20, <2>21, <2>22, <2>23, <2>24, <2>25, <2>26
      DEF Reader, Writer, Switcher
<1>1. LevelsExact'
  BY <1>s, LevelsAreCounts
<1>2. CallConsistent'
  BY <1>s, <1>m DEF OnlyMoves, CallConsistent
<1>3. readers' \in Nat /\ readLevel' \in Nat /\ writeLevel' \in Nat
  BY <1>s, FiniteContributors, ZeroIsEmpty
<1>4. TypeOK'
  BY <1>s, <1>m, <1>3 DEF TypeOK
<1> QED BY <1>1, <1>2, <1>4
----------------------------------------------------------------------------
(* Writers and updaters *)

\* A positive number of first writers keeps writeLevel positive, and the
\* level tests see nobody only if there is nobody.
LEMMA LevelTests ==
  ASSUME TypeOK, LevelsExact
  PROVE  /\ writeLevel = 0 => At(InWriteLevel) = {}
         /\ readLevel = 0 => At(InReadLevel) = {}
         /\ \A u \in Users : CountsReader(u) => readers > 0
<1>1. writeLevel = 0 => At(InWriteLevel) = {}
  BY LevelsAreCounts, FiniteContributors, ZeroIsEmpty DEF WriteLevelSet
<1>2. readLevel = 0 => ReadLevelSet = {}
  BY LevelsAreCounts, FiniteContributors, ZeroIsEmpty
<1>3. At(InReadLevel) \subseteq ReadLevelSet
  BY DEF At, ReadLevelSet, CountsReadLevel
<1>4. ASSUME NEW u \in Users, CountsReader(u) PROVE readers > 0
  <2>1. ReaderSet # {} BY <1>4 DEF ReaderSet
  <2>2. Cardinality(ReaderSet) \in Nat /\ Cardinality(ReaderSet) # 0
    BY <2>1, FiniteContributors, ZeroIsEmpty
  <2> QED BY <2>2, LevelsAreCounts
<1> QED BY <1>1, <1>2, <1>3, <1>4

\* Only the first to raise writeLevel goes on, so the writers exclude each
\* other, and the flags follow the one that is there.
LEMMA ExclusionStep ==
  ASSUME IInv, NEW u \in Users, Reader(u) \/ Writer(u) \/ Switcher(u)
  PROVE  OneWriter' /\ WritingOwned' /\ AppendingOwned' /\ OneUpdater'
<1>m. /\ OnlyMoves(u)
      /\ pc' \in [Users -> AtRest \cup Steps]
      /\ pc \in [Users -> AtRest \cup Steps]
  BY StepMovesOne DEF IInv, TypeOK
<1>w. writeLevel = 0 => \A v \in Users : pc[v] \notin InWriteLevel
  BY LevelTests DEF IInv, At
<1>i. /\ \A v, w \in Users : pc[v] \in FirstWriter /\ pc[w] \in FirstWriter => v = w
      /\ \A v \in Users : pc[v] \in ActiveWriter => writing
      /\ appending => \E v \in Users : pc[v] \in {"appender", "xs_readers", "ux_appending"}
      /\ \A v \in Users : pc[v] = "appender" => appending
      /\ \A v, w \in Users : pc[v] \in {"headers", "uh_clear"} /\ pc[w] \in {"headers", "uh_clear"} => v = w
      /\ updating <=> \E v \in Users : pc[v] \in {"headers", "uh_clear"}
  BY DEF IInv, OneWriter, WritingOwned, AppendingOwned, OneUpdater, At
<1> DEFINE W == \A v, w \in Users : pc'[v] \in FirstWriter /\ pc'[w] \in FirstWriter => v = w
           WO == \A v \in Users : pc'[v] \in ActiveWriter => writing'
           AO == /\ appending' => \E v \in Users : pc'[v] \in {"appender", "xs_readers", "ux_appending"}
                 /\ \A v \in Users : pc'[v] = "appender" => appending'
           U == /\ \A v, w \in Users : pc'[v] \in {"headers", "uh_clear"} /\ pc'[w] \in {"headers", "uh_clear"} => v = w
                /\ updating' <=> \E v \in Users : pc'[v] \in {"headers", "uh_clear"}
<1>1. W
  <2> USE <1>m, <1>w, <1>i
      DEF Begin, Goto, Return, OnlyMoves, InWriteLevel, FirstWriter, ActiveWriter
  <2>1. CASE LockSharedEnter(u) BY <2>1 DEF LockSharedEnter
  <2>2. CASE LockSharedTestWriteLevel(u) BY <2>2 DEF LockSharedTestWriteLevel
  <2>3. CASE LockSharedTestAppending(u) BY <2>3 DEF LockSharedTestAppending
  <2>4. CASE LockSharedSucceed(u) BY <2>4 DEF LockSharedSucceed
  <2>5. CASE LockSharedFail(u) BY <2>5 DEF LockSharedFail
  <2>6. CASE LockHeadersTestAndSet(u) BY <2>6 DEF LockHeadersTestAndSet
  <2>7. CASE UnlockSharedReaders(u) BY <2>7 DEF UnlockSharedReaders
  <2>8. CASE UnlockSharedReadLevel(u) BY <2>8 DEF UnlockSharedReadLevel
  <2>9. CASE UnlockHeadersAssertFlag(u) BY <2>9 DEF UnlockHeadersAssertFlag
  <2>10. CASE UnlockHeadersClear(u) BY <2>10 DEF UnlockHeadersClear
  <2>11. CASE LockExclusiveEnter(u) BY <2>11 DEF LockExclusiveEnter
  <2>12. CASE LockExclusiveTestReadLevel(u) BY <2>12 DEF LockExclusiveTestReadLevel
  <2>13. CASE LockExclusiveSucceed(u) BY <2>13 DEF LockExclusiveSucceed
  <2>14. CASE LockExclusiveFail(u) BY <2>14 DEF LockExclusiveFail
  <2>15. CASE startAppending(u) BY <2>15 DEF startAppending
  <2>16. CASE UnlockExclusiveAppending(u) BY <2>16 DEF UnlockExclusiveAppending
  <2>17. CASE UnlockExclusiveWriting(u) BY <2>17 DEF UnlockExclusiveWriting
  <2>18. CASE UnlockExclusiveWriteLevel(u) BY <2>18 DEF UnlockExclusiveWriteLevel
  <2>19. CASE AbortWritingAppending(u) BY <2>19 DEF AbortWritingAppending
  <2>20. CASE AbortWritingTestReaders(u) BY <2>20 DEF AbortWritingTestReaders
  <2>21. CASE SwitchToSharedReadLevel(u) BY <2>21 DEF SwitchToSharedReadLevel
  <2>22. CASE SwitchToSharedReaders(u) BY <2>22 DEF SwitchToSharedReaders
  <2>23. CASE SwitchToExclusiveEnter(u) BY <2>23 DEF SwitchToExclusiveEnter
  <2>24. CASE SwitchToExclusiveReaders(u) BY <2>24 DEF SwitchToExclusiveReaders
  <2>25. CASE SwitchToExclusiveReadLevel(u) BY <2>25 DEF SwitchToExclusiveReadLevel
  <2>26. CASE SwitchToExclusiveTest(u) BY <2>26 DEF SwitchToExclusiveTest
  <2> QED BY <2>1, <2>2, <2>3, <2>4, <2>5, <2>6, <2>7, <2>8, <2>9, <2>10, <2>11, <2>12, <2>13, <2>14, <2>15, <2>16, <2>17, <2>18, <2>19, <2>20, <2>21, <2>22, <2>23, <2>24, <2>25, <2>26
      DEF Reader, Writer, Switcher
<1>2. WO
  <2> USE <1>m, <1>i
      DEF Begin, Goto, Return, OnlyMoves, FirstWriter, ActiveWriter, flags
  <2>1. CASE LockSharedEnter(u) BY <2>1 DEF LockSharedEnter
  <2>2. CASE LockSharedTestWriteLevel(u) BY <2>2 DEF LockSharedTestWriteLevel
  <2>3. CASE LockSharedTestAppending(u) BY <2>3 DEF LockSharedTestAppending
  <2>4. CASE LockSharedSucceed(u) BY <2>4 DEF LockSharedSucceed
  <2>5. CASE LockSharedFail(u) BY <2>5 DEF LockSharedFail
  <2>6. CASE LockHeadersTestAndSet(u) BY <2>6 DEF LockHeadersTestAndSet
  <2>7. CASE UnlockSharedReaders(u) BY <2>7 DEF UnlockSharedReaders
  <2>8. CASE UnlockSharedReadLevel(u) BY <2>8 DEF UnlockSharedReadLevel
  <2>9. CASE UnlockHeadersAssertFlag(u) BY <2>9 DEF UnlockHeadersAssertFlag
  <2>10. CASE UnlockHeadersClear(u) BY <2>10 DEF UnlockHeadersClear
  <2>11. CASE LockExclusiveEnter(u) BY <2>11 DEF LockExclusiveEnter
  <2>12. CASE LockExclusiveTestReadLevel(u) BY <2>12 DEF LockExclusiveTestReadLevel
  <2>13. CASE LockExclusiveSucceed(u) BY <2>13 DEF LockExclusiveSucceed
  <2>14. CASE LockExclusiveFail(u) BY <2>14 DEF LockExclusiveFail
  <2>15. CASE startAppending(u) BY <2>15 DEF startAppending
  <2>16. CASE UnlockExclusiveAppending(u) BY <2>16 DEF UnlockExclusiveAppending
  <2>17. CASE UnlockExclusiveWriting(u) BY <2>17 DEF UnlockExclusiveWriting
  <2>18. CASE UnlockExclusiveWriteLevel(u) BY <2>18 DEF UnlockExclusiveWriteLevel
  <2>19. CASE AbortWritingAppending(u) BY <2>19 DEF AbortWritingAppending
  <2>20. CASE AbortWritingTestReaders(u) BY <2>20 DEF AbortWritingTestReaders
  <2>21. CASE SwitchToSharedReadLevel(u) BY <2>21 DEF SwitchToSharedReadLevel
  <2>22. CASE SwitchToSharedReaders(u) BY <2>22 DEF SwitchToSharedReaders
  <2>23. CASE SwitchToExclusiveEnter(u) BY <2>23 DEF SwitchToExclusiveEnter
  <2>24. CASE SwitchToExclusiveReaders(u) BY <2>24 DEF SwitchToExclusiveReaders
  <2>25. CASE SwitchToExclusiveReadLevel(u) BY <2>25 DEF SwitchToExclusiveReadLevel
  <2>26. CASE SwitchToExclusiveTest(u) BY <2>26 DEF SwitchToExclusiveTest
  <2> QED BY <2>1, <2>2, <2>3, <2>4, <2>5, <2>6, <2>7, <2>8, <2>9, <2>10, <2>11, <2>12, <2>13, <2>14, <2>15, <2>16, <2>17, <2>18, <2>19, <2>20, <2>21, <2>22, <2>23, <2>24, <2>25, <2>26
      DEF Reader, Writer, Switcher
<1>3. AO
  <2> USE <1>m, <1>i
      DEF Begin, Goto, Return, OnlyMoves, FirstWriter, ActiveWriter, flags
  <2>1. CASE LockSharedEnter(u) BY <2>1 DEF LockSharedEnter
  <2>2. CASE LockSharedTestWriteLevel(u) BY <2>2 DEF LockSharedTestWriteLevel
  <2>3. CASE LockSharedTestAppending(u) BY <2>3 DEF LockSharedTestAppending
  <2>4. CASE LockSharedSucceed(u) BY <2>4 DEF LockSharedSucceed
  <2>5. CASE LockSharedFail(u) BY <2>5 DEF LockSharedFail
  <2>6. CASE LockHeadersTestAndSet(u) BY <2>6 DEF LockHeadersTestAndSet
  <2>7. CASE UnlockSharedReaders(u) BY <2>7 DEF UnlockSharedReaders
  <2>8. CASE UnlockSharedReadLevel(u) BY <2>8 DEF UnlockSharedReadLevel
  <2>9. CASE UnlockHeadersAssertFlag(u) BY <2>9 DEF UnlockHeadersAssertFlag
  <2>10. CASE UnlockHeadersClear(u) BY <2>10 DEF UnlockHeadersClear
  <2>11. CASE LockExclusiveEnter(u) BY <2>11 DEF LockExclusiveEnter
  <2>12. CASE LockExclusiveTestReadLevel(u) BY <2>12 DEF LockExclusiveTestReadLevel
  <2>13. CASE LockExclusiveSucceed(u) BY <2>13 DEF LockExclusiveSucceed
  <2>14. CASE LockExclusiveFail(u) BY <2>14 DEF LockExclusiveFail
  <2>15. CASE startAppending(u) BY <2>15 DEF startAppending
  <2>16. CASE UnlockExclusiveAppending(u) BY <2>16 DEF UnlockExclusiveAppending
  <2>17. CASE UnlockExclusiveWriting(u) BY <2>17 DEF UnlockExclusiveWriting
  <2>18. CASE UnlockExclusiveWriteLevel(u) BY <2>18 DEF UnlockExclusiveWriteLevel
  <2>19. CASE AbortWritingAppending(u) BY <2>19 DEF AbortWritingAppending
  <2>20. CASE AbortWritingTestReaders(u) BY <2>20 DEF AbortWritingTestReaders
  <2>21. CASE SwitchToSharedReadLevel(u) BY <2>21 DEF SwitchToSharedReadLevel
  <2>22. CASE SwitchToSharedReaders(u) BY <2>22 DEF SwitchToSharedReaders
  <2>23. CASE SwitchToExclusiveEnter(u) BY <2>23 DEF SwitchToExclusiveEnter
  <2>24. CASE SwitchToExclusiveReaders(u) BY <2>24 DEF SwitchToExclusiveReaders
  <2>25. CASE SwitchToExclusiveReadLevel(u) BY <2>25 DEF SwitchToExclusiveReadLevel
  <2>26. CASE SwitchToExclusiveTest(u) BY <2>26 DEF SwitchToExclusiveTest
  <2> QED BY <2>1, <2>2, <2>3, <2>4, <2>5, <2>6, <2>7, <2>8, <2>9, <2>10, <2>11, <2>12, <2>13, <2>14, <2>15, <2>16, <2>17, <2>18, <2>19, <2>20, <2>21, <2>22, <2>23, <2>24, <2>25, <2>26
      DEF Reader, Writer, Switcher
<1>4. U
  <2> USE <1>m, <1>i
      DEF Begin, Goto, Return, OnlyMoves, flags
  <2>1. CASE LockSharedEnter(u) BY <2>1 DEF LockSharedEnter
  <2>2. CASE LockSharedTestWriteLevel(u) BY <2>2 DEF LockSharedTestWriteLevel
  <2>3. CASE LockSharedTestAppending(u) BY <2>3 DEF LockSharedTestAppending
  <2>4. CASE LockSharedSucceed(u) BY <2>4 DEF LockSharedSucceed
  <2>5. CASE LockSharedFail(u) BY <2>5 DEF LockSharedFail
  <2>6. CASE LockHeadersTestAndSet(u) BY <2>6 DEF LockHeadersTestAndSet
  <2>7. CASE UnlockSharedReaders(u) BY <2>7 DEF UnlockSharedReaders
  <2>8. CASE UnlockSharedReadLevel(u) BY <2>8 DEF UnlockSharedReadLevel
  <2>9. CASE UnlockHeadersAssertFlag(u) BY <2>9 DEF UnlockHeadersAssertFlag
  <2>10. CASE UnlockHeadersClear(u) BY <2>10 DEF UnlockHeadersClear
  <2>11. CASE LockExclusiveEnter(u) BY <2>11 DEF LockExclusiveEnter
  <2>12. CASE LockExclusiveTestReadLevel(u) BY <2>12 DEF LockExclusiveTestReadLevel
  <2>13. CASE LockExclusiveSucceed(u) BY <2>13 DEF LockExclusiveSucceed
  <2>14. CASE LockExclusiveFail(u) BY <2>14 DEF LockExclusiveFail
  <2>15. CASE startAppending(u) BY <2>15 DEF startAppending
  <2>16. CASE UnlockExclusiveAppending(u) BY <2>16 DEF UnlockExclusiveAppending
  <2>17. CASE UnlockExclusiveWriting(u) BY <2>17 DEF UnlockExclusiveWriting
  <2>18. CASE UnlockExclusiveWriteLevel(u) BY <2>18 DEF UnlockExclusiveWriteLevel
  <2>19. CASE AbortWritingAppending(u) BY <2>19 DEF AbortWritingAppending
  <2>20. CASE AbortWritingTestReaders(u) BY <2>20 DEF AbortWritingTestReaders
  <2>21. CASE SwitchToSharedReadLevel(u) BY <2>21 DEF SwitchToSharedReadLevel
  <2>22. CASE SwitchToSharedReaders(u) BY <2>22 DEF SwitchToSharedReaders
  <2>23. CASE SwitchToExclusiveEnter(u) BY <2>23 DEF SwitchToExclusiveEnter
  <2>24. CASE SwitchToExclusiveReaders(u) BY <2>24 DEF SwitchToExclusiveReaders
  <2>25. CASE SwitchToExclusiveReadLevel(u) BY <2>25 DEF SwitchToExclusiveReadLevel
  <2>26. CASE SwitchToExclusiveTest(u) BY <2>26 DEF SwitchToExclusiveTest
  <2> QED BY <2>1, <2>2, <2>3, <2>4, <2>5, <2>6, <2>7, <2>8, <2>9, <2>10, <2>11, <2>12, <2>13, <2>14, <2>15, <2>16, <2>17, <2>18, <2>19, <2>20, <2>21, <2>22, <2>23, <2>24, <2>25, <2>26
      DEF Reader, Writer, Switcher
<1> QED BY <1>1, <1>2, <1>3, <1>4 DEF OneWriter, WritingOwned, AppendingOwned, OneUpdater, At
----------------------------------------------------------------------------
(* The invariant and what follows from it *)

\* IInv is inductive: it holds in a fresh lock and every atomic operation of
\* every lock method preserves it.
THEOREM Invariance == Spec => []IInv
<1>1. Init => IInv
  <2> SUFFICES ASSUME Init PROVE IInv OBVIOUS
  <2>1. TypeOK BY DEF Init, TypeOK, AtRest
  <2>2. ReaderSet = {} /\ ReadLevelSet = {} /\ WriteLevelSet = {}
    BY DEF Init, ReaderSet, ReadLevelSet, WriteLevelSet, At, CountsReader, CountsReadLevel,
      SwitchingShares, CountedReader, InReadLevel, InWriteLevel, FirstWriter, ActiveWriter
  <2>3. LevelsExact
    BY <2>2, FS_EmptySet, LevelsAreCounts DEF Init
  <2>4. \A S : "idle" \notin S => At(S) = {}
    BY DEF Init, At
  <2>5. OneWriter /\ OneUpdater /\ WritingOwned /\ AppendingOwned
    BY <2>4 DEF Init, OneWriter, OneUpdater, WritingOwned, AppendingOwned, FirstWriter, ActiveWriter
  <2>6. CallConsistent
    BY DEF Init, CallConsistent
  <2> QED BY <2>1, <2>3, <2>5, <2>6 DEF IInv
<1>2. IInv /\ [Next]_vars => IInv'
  <2> SUFFICES ASSUME IInv, [Next]_vars PROVE IInv' OBVIOUS
  <2>1. ASSUME NEW u \in Users, Reader(u) \/ Writer(u) \/ Switcher(u) PROVE IInv'
    BY <2>1, LevelsStep, ExclusionStep DEF IInv
  <2>2. CASE UNCHANGED vars
    BY <2>2 DEF vars, IInv, TypeOK, CallConsistent, LevelsExact, OneWriter, OneUpdater, WritingOwned,
      AppendingOwned, At, CountsReader, CountsReadLevel, SwitchingShares
  <2> QED BY <2>1, <2>2 DEF Next
<1> QED BY <1>1, <1>2, PTL DEF Spec

\* The lock members keep their types; the counters never go below zero.
THEOREM TypeCorrect == Spec => []TypeOK
BY Invariance, PTL DEF IInv

\* No interleaving of the lock methods leaks or loses a reader, a reading or
\* a writing level.
THEOREM CountersAreExact == Spec => []LevelsExact
BY Invariance, PTL DEF IInv

\* Exclusive users exclude each other, whichever methods they came through.
THEOREM WritersExclude == Spec => []OneWriter
BY Invariance, PTL DEF IInv

\* The updating flag admits one lockHeaders() user at a time.
THEOREM UpdatersExclude == Spec => []OneUpdater
BY Invariance, PTL DEF IInv

\* None of the assert()s of ReadWriteLock.cc can fail.
THEOREM AssertionsNeverFail == Spec => []AssertionsHold
<1>1. IInv => AssertionsHold
  <2> SUFFICES ASSUME IInv, NEW u \in Users
               PROVE  /\ pc[u] \in {"shared", "us_readers", "sw_readers", "sx_readers"} => readers > 0
                      /\ pc[u] \in ActiveWriter => writing
                      /\ pc[u] = "sw_readers" => ~appending
                      /\ pc[u] = "headers" => updating
    BY DEF AssertionsHold
  <2>1. pc[u] \in {"shared", "us_readers", "sw_readers", "sx_readers"} => readers > 0
    BY LevelTests DEF IInv, CountsReader, CountedReader
  <2>2. pc[u] \in ActiveWriter => writing
    BY DEF IInv, WritingOwned, At
  <2>3. pc[u] = "sw_readers" => ~appending
    BY DEF IInv, AppendingOwned, OneWriter, At, FirstWriter, ActiveWriter
  <2>4. pc[u] = "headers" => updating
    BY DEF IInv, OneUpdater, At
  <2> QED BY <2>1, <2>2, <2>3, <2>4
<1> QED BY <1>1, Invariance, PTL

----------------------------------------------------------------------------
(* Readers and writers, without the switch to exclusive *)

\* A user that does not come through unlockSharedAndSwitchToExclusive() gets
\* the exclusive lock when nobody reads or is about to.
LEMMA LockedOutStep ==
  ASSUME "unlockSharedAndSwitchToExclusive" \notin Api,
         IInv, NoSwitchInv, NEW u \in Users, Reader(u) \/ Writer(u) \/ Switcher(u)
  PROVE  NoSwitchInv'
<1>m. /\ OnlyMoves(u)
      /\ pc' \in [Users -> AtRest \cup Steps]
      /\ pc \in [Users -> AtRest \cup Steps]
  BY StepMovesOne DEF IInv, TypeOK
<1>w. writeLevel = 0 => \A v \in Users : pc[v] \notin InWriteLevel
  BY LevelTests DEF IInv, At
<1>r. readLevel = 0 => \A v \in Users : pc[v] \notin InReadLevel
  BY LevelTests DEF IInv, At
<1>i. /\ \A v, w \in Users : pc[v] \in FirstWriter /\ pc[w] \in FirstWriter => v = w
      /\ appending => \E v \in Users : pc[v] \in {"appender", "xs_readers", "ux_appending"}
      /\ \A v \in Users : pc[v] = "appender" => appending
  BY DEF IInv, OneWriter, AppendingOwned, At
<1>n. /\ \A v \in Users : pc[v] \notin {"sw_readers", "sw_readLevel", "sw_test", "sx_readers", "sx_readLevel"}
      /\ \A v, w \in Users : pc[v] \in {"le_writing", "exclusive"} => pc[w] \notin AdmittedReader
  BY DEF NoSwitchInv, ReadersLockedOut, At
<1>1. /\ \A v \in Users : pc'[v] \notin {"sw_readers", "sw_readLevel", "sw_test", "sx_readers", "sx_readLevel"}
      /\ \A v, w \in Users : pc'[v] \in {"le_writing", "exclusive"} => pc'[w] \notin AdmittedReader
  <2> USE <1>m, <1>w, <1>r, <1>i, <1>n
      DEF Begin, Goto, Return, OnlyMoves, InWriteLevel, FirstWriter, ActiveWriter,
          InReadLevel, CountedReader, AdmittedReader
  <2>1. CASE LockSharedEnter(u) BY <2>1 DEF LockSharedEnter
  <2>2. CASE LockSharedTestWriteLevel(u) BY <2>2 DEF LockSharedTestWriteLevel
  <2>3. CASE LockSharedTestAppending(u) BY <2>3 DEF LockSharedTestAppending
  <2>4. CASE LockSharedSucceed(u) BY <2>4 DEF LockSharedSucceed
  <2>5. CASE LockSharedFail(u) BY <2>5 DEF LockSharedFail
  <2>6. CASE LockHeadersTestAndSet(u) BY <2>6 DEF LockHeadersTestAndSet
  <2>7. CASE UnlockSharedReaders(u) BY <2>7 DEF UnlockSharedReaders
  <2>8. CASE UnlockSharedReadLevel(u) BY <2>8 DEF UnlockSharedReadLevel
  <2>9. CASE UnlockHeadersAssertFlag(u) BY <2>9 DEF UnlockHeadersAssertFlag
  <2>10. CASE UnlockHeadersClear(u) BY <2>10 DEF UnlockHeadersClear
  <2>11. CASE LockExclusiveEnter(u) BY <2>11 DEF LockExclusiveEnter
  <2>12. CASE LockExclusiveTestReadLevel(u) BY <2>12 DEF LockExclusiveTestReadLevel
  <2>13. CASE LockExclusiveSucceed(u) BY <2>13 DEF LockExclusiveSucceed
  <2>14. CASE LockExclusiveFail(u) BY <2>14 DEF LockExclusiveFail
  <2>15. CASE startAppending(u) BY <2>15 DEF startAppending
  <2>16. CASE UnlockExclusiveAppending(u) BY <2>16 DEF UnlockExclusiveAppending
  <2>17. CASE UnlockExclusiveWriting(u) BY <2>17 DEF UnlockExclusiveWriting
  <2>18. CASE UnlockExclusiveWriteLevel(u) BY <2>18 DEF UnlockExclusiveWriteLevel
  <2>19. CASE AbortWritingAppending(u) BY <2>19 DEF AbortWritingAppending
  <2>20. CASE AbortWritingTestReaders(u) BY <2>20 DEF AbortWritingTestReaders
  <2>21. CASE SwitchToSharedReadLevel(u) BY <2>21 DEF SwitchToSharedReadLevel
  <2>22. CASE SwitchToSharedReaders(u) BY <2>22 DEF SwitchToSharedReaders
  <2>23. CASE SwitchToExclusiveEnter(u) BY <2>23 DEF SwitchToExclusiveEnter
  <2>24. CASE SwitchToExclusiveReaders(u) BY <2>24 DEF SwitchToExclusiveReaders
  <2>25. CASE SwitchToExclusiveReadLevel(u) BY <2>25 DEF SwitchToExclusiveReadLevel
  <2>26. CASE SwitchToExclusiveTest(u) BY <2>26 DEF SwitchToExclusiveTest
  <2> QED BY <2>1, <2>2, <2>3, <2>4, <2>5, <2>6, <2>7, <2>8, <2>9, <2>10, <2>11, <2>12, <2>13, <2>14, <2>15, <2>16, <2>17, <2>18, <2>19, <2>20, <2>21, <2>22, <2>23, <2>24, <2>25, <2>26
      DEF Reader, Writer, Switcher
<1> QED BY <1>1 DEF NoSwitchInv, ReadersLockedOut, At

\* Nobody reads next to an exclusive user unless somebody switched.
LEMMA LockedOut ==
  ASSUME "unlockSharedAndSwitchToExclusive" \notin Api
  PROVE  Spec => []NoSwitchInv
<1>1. Init => NoSwitchInv
  BY DEF Init, NoSwitchInv, ReadersLockedOut, At
<1>2. IInv /\ NoSwitchInv /\ [Next]_vars => NoSwitchInv'
  <2>1. ASSUME IInv, NoSwitchInv, NEW u \in Users, Reader(u) \/ Writer(u) \/ Switcher(u) PROVE NoSwitchInv'
    BY <2>1, LockedOutStep
  <2>2. ASSUME NoSwitchInv, UNCHANGED vars PROVE NoSwitchInv'
    BY <2>2 DEF vars, NoSwitchInv, ReadersLockedOut, At
  <2> QED BY <2>1, <2>2 DEF Next
<1> QED BY <1>1, <1>2, Invariance, PTL DEF Spec

\* In the maps that never switch a shared lock to an exclusive one (MemStore
\* and Rock), an exclusive lock excludes every reader until startAppending().
THEOREM ReadersExcluded ==
  ASSUME "unlockSharedAndSwitchToExclusive" \notin Api
  PROVE  Spec => []ReadersLockedOut
<1>1. NoSwitchInv => ReadersLockedOut
  BY DEF NoSwitchInv
<1> QED BY <1>1, LockedOut, PTL

----------------------------------------------------------------------------
(* The lock implements AbstractLock *)

\* The mapping, case by case, before and after a step.
LEMMA HoldCases ==
  ASSUME NEW v \in Users
  PROVE  /\ pc[v] \in {"headers", "uh_clear"} => HoldOf(v) = "headers"
         /\ pc[v] \in AdmittedReader \ {"headers", "uh_clear"} => HoldOf(v) = "shared"
         /\ pc[v] \in {"le_writing", "exclusive"} => HoldOf(v) = "exclusive"
         /\ pc[v] = "appender" => HoldOf(v) = "appending"
         /\ pc[v] \in {"xs_readers", "ux_appending"} => HoldOf(v) = (IF appending THEN "appending" ELSE "exclusive")
         /\ pc[v] \in {"aw_readers", "freeing", "keeping", "ux_writing", "ux_writeLevel"} => HoldOf(v) = "closing"
         /\ pc[v] \notin AdmittedReader \cup (FirstWriter \ {"le_readLevel"}) => HoldOf(v) = "none"
         /\ pc'[v] \in {"headers", "uh_clear"} => HoldOf(v)' = "headers"
         /\ pc'[v] \in AdmittedReader \ {"headers", "uh_clear"} => HoldOf(v)' = "shared"
         /\ pc'[v] \in {"le_writing", "exclusive"} => HoldOf(v)' = "exclusive"
         /\ pc'[v] = "appender" => HoldOf(v)' = "appending"
         /\ pc'[v] \in {"xs_readers", "ux_appending"} => HoldOf(v)' = (IF appending' THEN "appending" ELSE "exclusive")
         /\ pc'[v] \in {"aw_readers", "freeing", "keeping", "ux_writing", "ux_writeLevel"} => HoldOf(v)' = "closing"
         /\ pc'[v] \notin AdmittedReader \cup (FirstWriter \ {"le_readLevel"}) => HoldOf(v)' = "none"
BY DEF HoldOf, AdmittedReader, CountedReader, FirstWriter, ActiveWriter

\* A step of u changes what u holds the way AbstractLock allows, and nothing
\* that anybody else holds.
LEMMA RefinementStep ==
  ASSUME "unlockSharedAndSwitchToExclusive" \notin Api,
         IInv, NoSwitchInv, NEW u \in Users, Reader(u) \/ Writer(u) \/ Switcher(u)
  PROVE  [Abstract!Next]_([v \in Users |-> HoldOf(v)])
<1>m. /\ OnlyMoves(u)
      /\ pc' \in [Users -> AtRest \cup Steps]
      /\ pc \in [Users -> AtRest \cup Steps]
  BY StepMovesOne DEF IInv, TypeOK
<1>w. writeLevel = 0 => \A v \in Users : pc[v] \notin InWriteLevel
  BY LevelTests DEF IInv, At
<1>r. readLevel = 0 => \A v \in Users : pc[v] \notin InReadLevel
  BY LevelTests DEF IInv, At
<1>i. /\ \A v, w \in Users : pc[v] \in FirstWriter /\ pc[w] \in FirstWriter => v = w
      /\ appending => \E v \in Users : pc[v] \in {"appender", "xs_readers", "ux_appending"}
      /\ \A v \in Users : pc[v] = "appender" => appending
      /\ updating <=> \E v \in Users : pc[v] \in {"headers", "uh_clear"}
  BY DEF IInv, OneWriter, AppendingOwned, OneUpdater, At
<1>n. \A v \in Users : pc[v] \notin {"sw_readers", "sw_readLevel", "sw_test", "sx_readers", "sx_readLevel"}
  BY DEF NoSwitchInv, At
<1>c. /\ call[u] = "switchExclusiveToShared" => pc[u] \in SwitchingSteps
      /\ pc[u] \in {"xs_readers", "ux_appending"} => call[u] = "switchExclusiveToShared"
  BY DEF IInv, CallConsistent
<1>a. pc[u] \in FirstWriter \/ appending' = appending
  <2> USE <1>m DEF Begin, Goto, Return, FirstWriter, ActiveWriter, flags
  <2>1. CASE LockSharedEnter(u) BY <2>1 DEF LockSharedEnter
  <2>2. CASE LockSharedTestWriteLevel(u) BY <2>2 DEF LockSharedTestWriteLevel
  <2>3. CASE LockSharedTestAppending(u) BY <2>3 DEF LockSharedTestAppending
  <2>4. CASE LockSharedSucceed(u) BY <2>4 DEF LockSharedSucceed
  <2>5. CASE LockSharedFail(u) BY <2>5 DEF LockSharedFail
  <2>6. CASE LockHeadersTestAndSet(u) BY <2>6 DEF LockHeadersTestAndSet
  <2>7. CASE UnlockSharedReaders(u) BY <2>7 DEF UnlockSharedReaders
  <2>8. CASE UnlockSharedReadLevel(u) BY <2>8 DEF UnlockSharedReadLevel
  <2>9. CASE UnlockHeadersAssertFlag(u) BY <2>9 DEF UnlockHeadersAssertFlag
  <2>10. CASE UnlockHeadersClear(u) BY <2>10 DEF UnlockHeadersClear
  <2>11. CASE LockExclusiveEnter(u) BY <2>11 DEF LockExclusiveEnter
  <2>12. CASE LockExclusiveTestReadLevel(u) BY <2>12 DEF LockExclusiveTestReadLevel
  <2>13. CASE LockExclusiveSucceed(u) BY <2>13 DEF LockExclusiveSucceed
  <2>14. CASE LockExclusiveFail(u) BY <2>14 DEF LockExclusiveFail
  <2>15. CASE startAppending(u) BY <2>15 DEF startAppending
  <2>16. CASE UnlockExclusiveAppending(u) BY <2>16 DEF UnlockExclusiveAppending
  <2>17. CASE UnlockExclusiveWriting(u) BY <2>17 DEF UnlockExclusiveWriting
  <2>18. CASE UnlockExclusiveWriteLevel(u) BY <2>18 DEF UnlockExclusiveWriteLevel
  <2>19. CASE AbortWritingAppending(u) BY <2>19 DEF AbortWritingAppending
  <2>20. CASE AbortWritingTestReaders(u) BY <2>20 DEF AbortWritingTestReaders
  <2>21. CASE SwitchToSharedReadLevel(u) BY <2>21 DEF SwitchToSharedReadLevel
  <2>22. CASE SwitchToSharedReaders(u) BY <2>22 DEF SwitchToSharedReaders
  <2>23. CASE SwitchToExclusiveEnter(u) BY <2>23 DEF SwitchToExclusiveEnter
  <2>24. CASE SwitchToExclusiveReaders(u) BY <2>24 DEF SwitchToExclusiveReaders
  <2>25. CASE SwitchToExclusiveReadLevel(u) BY <2>25 DEF SwitchToExclusiveReadLevel
  <2>26. CASE SwitchToExclusiveTest(u) BY <2>26 DEF SwitchToExclusiveTest
  <2> QED BY <2>1, <2>2, <2>3, <2>4, <2>5, <2>6, <2>7, <2>8, <2>9, <2>10, <2>11, <2>12, <2>13, <2>14, <2>15, <2>16, <2>17, <2>18, <2>19, <2>20, <2>21, <2>22, <2>23, <2>24, <2>25, <2>26
      DEF Reader, Writer, Switcher
<1>o. \A v \in Users : v # u => HoldOf(v)' = HoldOf(v)
  BY <1>m, <1>a, <1>i DEF OnlyMoves, HoldOf, FirstWriter, ActiveWriter
<1> DEFINE hold == [v \in Users |-> HoldOf(v)]
           NoOtherWriter == \A v \in Users : HoldOf(v) \in {"exclusive", "appending", "closing"} => HoldOf(v) = "appending"
           Alone == \A v \in Users : HoldOf(v) \notin {"shared", "headers", "exclusive", "appending", "closing"}
           NoUpdater == \A v \in Users : HoldOf(v) # "headers"
           From(x) == HoldOf(u) = x
           To(x) == HoldOf(u)' = x
<1>s. \/ HoldOf(u)' = HoldOf(u)
      \/ NoOtherWriter /\ From("none") /\ To("shared")
      \/ Alone /\ From("none") /\ To("exclusive")
      \/ NoUpdater /\ From("shared") /\ To("headers")
      \/ From("headers") /\ To("shared")
      \/ From("exclusive") /\ To("appending")
      \/ (From("exclusive") \/ From("appending")) /\ To("closing")
      \/ From("closing") /\ To("shared")
      \/ (From("shared") \/ From("closing")) /\ To("none")
  <2> USE <1>m, <1>w, <1>r, <1>i, <1>n, <1>c, HoldCases
      DEF Begin, Goto, Return, InWriteLevel, FirstWriter, ActiveWriter, SwitchingSteps,
          InReadLevel, CountedReader, AdmittedReader, flags, AtRest, Steps
  <2>1. CASE LockSharedEnter(u) BY <2>1 DEF LockSharedEnter
  <2>2. CASE LockSharedTestWriteLevel(u) BY <2>2 DEF LockSharedTestWriteLevel
  <2>3. CASE LockSharedTestAppending(u) BY <2>3 DEF LockSharedTestAppending
  <2>4. CASE LockSharedSucceed(u) BY <2>4 DEF LockSharedSucceed
  <2>5. CASE LockSharedFail(u) BY <2>5 DEF LockSharedFail
  <2>6. CASE LockHeadersTestAndSet(u) BY <2>6 DEF LockHeadersTestAndSet
  <2>7. CASE UnlockSharedReaders(u) BY <2>7 DEF UnlockSharedReaders
  <2>8. CASE UnlockSharedReadLevel(u) BY <2>8 DEF UnlockSharedReadLevel
  <2>9. CASE UnlockHeadersAssertFlag(u) BY <2>9 DEF UnlockHeadersAssertFlag
  <2>10. CASE UnlockHeadersClear(u) BY <2>10 DEF UnlockHeadersClear
  <2>11. CASE LockExclusiveEnter(u) BY <2>11 DEF LockExclusiveEnter
  <2>12. CASE LockExclusiveTestReadLevel(u) BY <2>12 DEF LockExclusiveTestReadLevel
  <2>13. CASE LockExclusiveSucceed(u) BY <2>13 DEF LockExclusiveSucceed
  <2>14. CASE LockExclusiveFail(u) BY <2>14 DEF LockExclusiveFail
  <2>15. CASE startAppending(u) BY <2>15 DEF startAppending
  <2>16. CASE UnlockExclusiveAppending(u) BY <2>16 DEF UnlockExclusiveAppending
  <2>17. CASE UnlockExclusiveWriting(u) BY <2>17 DEF UnlockExclusiveWriting
  <2>18. CASE UnlockExclusiveWriteLevel(u) BY <2>18 DEF UnlockExclusiveWriteLevel
  <2>19. CASE AbortWritingAppending(u) BY <2>19 DEF AbortWritingAppending
  <2>20. CASE AbortWritingTestReaders(u) BY <2>20 DEF AbortWritingTestReaders
  <2>21. CASE SwitchToSharedReadLevel(u) BY <2>21 DEF SwitchToSharedReadLevel
  <2>22. CASE SwitchToSharedReaders(u) BY <2>22 DEF SwitchToSharedReaders
  <2>23. CASE SwitchToExclusiveEnter(u) BY <2>23 DEF SwitchToExclusiveEnter
  <2>24. CASE SwitchToExclusiveReaders(u) BY <2>24 DEF SwitchToExclusiveReaders
  <2>25. CASE SwitchToExclusiveReadLevel(u) BY <2>25 DEF SwitchToExclusiveReadLevel
  <2>26. CASE SwitchToExclusiveTest(u) BY <2>26 DEF SwitchToExclusiveTest
  <2> QED BY <2>1, <2>2, <2>3, <2>4, <2>5, <2>6, <2>7, <2>8, <2>9, <2>10, <2>11, <2>12, <2>13, <2>14, <2>15, <2>16, <2>17, <2>18, <2>19, <2>20, <2>21, <2>22, <2>23, <2>24, <2>25, <2>26
      DEF Reader, Writer, Switcher
<1>1. CASE HoldOf(u)' = HoldOf(u)
  <2>1. hold' = hold BY <1>1, <1>o
  <2> QED BY <2>1
<1>2. CASE HoldOf(u)' # HoldOf(u)
  <2>1. hold' = [hold EXCEPT ![u] = HoldOf(u)'] BY <1>o
  <2>2. Abstract!Next
    <3>1. CASE NoOtherWriter /\ From("none") /\ To("shared")
      <4>1. Abstract!LockShared(u)
        BY <2>1, <3>1 DEF Abstract!LockShared, Abstract!Become, Abstract!Writers
      <4> QED BY <4>1 DEF Abstract!Next
    <3>2. CASE Alone /\ From("none") /\ To("exclusive")
      <4>1. Abstract!LockExclusive(u)
        BY <2>1, <3>2 DEF Abstract!LockExclusive, Abstract!Become, Abstract!Readers, Abstract!Writers
      <4> QED BY <4>1 DEF Abstract!Next
    <3>3. CASE NoUpdater /\ From("shared") /\ To("headers")
      <4>1. Abstract!LockHeaders(u)
        BY <2>1, <3>3 DEF Abstract!LockHeaders, Abstract!Become
      <4> QED BY <4>1 DEF Abstract!Next
    <3>4. CASE \/ From("headers") /\ To("shared")
               \/ From("exclusive") /\ To("appending")
               \/ (From("exclusive") \/ From("appending")) /\ To("closing")
               \/ From("closing") /\ To("shared")
               \/ (From("shared") \/ From("closing")) /\ To("none")
      <4>1. \/ Abstract!UnlockHeaders(u) \/ Abstract!StartAppending(u) \/ Abstract!StopWriting(u)
            \/ Abstract!SwitchExclusiveToShared(u) \/ Abstract!Unlock(u)
        BY <2>1, <3>4 DEF Abstract!UnlockHeaders, Abstract!StartAppending, Abstract!StopWriting,
          Abstract!SwitchExclusiveToShared, Abstract!Unlock, Abstract!Become
      <4> QED BY <4>1 DEF Abstract!Next
    <3> QED BY <1>2, <1>s, <3>1, <3>2, <3>3, <3>4
  <2> QED BY <2>2
<1> QED BY <1>1, <1>2

\* The maps that never switch a shared lock to an exclusive one can rely on
\* AbstractLock instead of the six atomic members.
THEOREM Refinement ==
  ASSUME "unlockSharedAndSwitchToExclusive" \notin Api
  PROVE  Spec => ImplementsAbstractLock
<1>1. Init => Abstract!Init
  BY HoldCases DEF Init, Abstract!Init, AdmittedReader, CountedReader, FirstWriter, ActiveWriter
<1>2. IInv /\ NoSwitchInv /\ [Next]_vars => [Abstract!Next]_([u \in Users |-> HoldOf(u)])
  <2>1. ASSUME IInv, NoSwitchInv, NEW u \in Users, Reader(u) \/ Writer(u) \/ Switcher(u)
        PROVE  [Abstract!Next]_([v \in Users |-> HoldOf(v)])
    BY <2>1, RefinementStep
  <2>2. ASSUME UNCHANGED vars
        PROVE  UNCHANGED [v \in Users |-> HoldOf(v)]
    BY <2>2 DEF vars, HoldOf
  <2> QED BY <2>1, <2>2 DEF Next
<1>3. Spec => []NoSwitchInv
  BY LockedOut
<1>4. Spec => Abstract!Spec
  BY <1>1, <1>2, <1>3, Invariance, PTL DEF Spec, Abstract!Spec
<1> QED BY <1>4 DEF ImplementsAbstractLock
=============================================================================
