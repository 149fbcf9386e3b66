---------------------------- MODULE AbstractLock ----------------------------
(***************************************************************************)
(* What Ipc::ReadWriteLock promises its users (the comments of             *)
(* src/src/ipc/ReadWriteLock.h): a shared/exclusive try-lock with a        *)
(* reading-while-appending mode and one updater among the readers.  Every  *)
(* acquisition is one step here; that an attempt may fail for no visible   *)
(* reason is the freedom not to take the step.                             *)
(***************************************************************************)
CONSTANT Users

VARIABLE hold  \* what each user holds

Holdings == {"none", "shared", "headers", "exclusive", "appending", "closing"}

Readers == {u \in Users : hold[u] \in {"shared", "headers"}}
Writers == {u \in Users : hold[u] \in {"exclusive", "appending", "closing"}}

Init == hold = [u \in Users |-> "none"]

Become(u, from, to) == hold[u] \in from /\ hold' = [hold EXCEPT ![u] = to]

\* Nobody is writing, or sharing is OK.
LockShared(u) ==
  /\ \A v \in Writers : hold[v] = "appending"
  /\ Become(u, {"none"}, "shared")

\* There is no other lock owner.
LockExclusive(u) ==
  /\ Readers = {} /\ Writers = {}
  /\ Become(u, {"none"}, "exclusive")

\* One reader at a time may update the headers.
LockHeaders(u) ==
  /\ \A v \in Users : hold[v] # "headers"
  /\ Become(u, {"shared"}, "headers")

UnlockHeaders(u) == Become(u, {"headers"}, "shared")

\* The writer admits readers from now on.
StartAppending(u) == Become(u, {"exclusive"}, "appending")

\* The writer admits no new readers, but may be among old ones.
StopWriting(u) == Become(u, {"exclusive", "appending"}, "closing")

SwitchExclusiveToShared(u) == Become(u, {"closing"}, "shared")

Unlock(u) == Become(u, {"shared", "closing"}, "none")

Next ==
  \E u \in Users :
    \/ LockShared(u) \/ LockExclusive(u) \/ LockHeaders(u) \/ UnlockHeaders(u)
    \/ StartAppending(u) \/ StopWriting(u) \/ SwitchExclusiveToShared(u) \/ Unlock(u)

Spec == Init /\ [][Next]_hold
=============================================================================
