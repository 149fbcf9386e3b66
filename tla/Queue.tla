------------------------------- MODULE Queue -------------------------------
(***************************************************************************)
(* The lockless queues of src/src/ipc/Queue.{h,cc}: the incoming queues of *)
(* one process (one OneToOneUniQueue per remote process), its QueueReader  *)
(* state, and the notification protocol that wakes the process up, as      *)
(* CollapsedForwarding (src/src/CollapsedForwarding.cc) drives it: Notify  *)
(* after a push() that returned true, and clear the signal and pop         *)
(* everything when a notification arrives.                                 *)
(*                                                                         *)
(* Every access to an atomic member is one action.  theIn, theOut and the  *)
(* buffer are not atomic; what is done to them between two atomic accesses *)
(* is one action.  Notifications are Unix datagrams; their delivery is     *)
(* external.  An item is the number of items pushed before it, modulo the  *)
(* range of unsigned int, so that items can be told apart and put in order.*)
(***************************************************************************)
EXTENDS Integers, FiniteSets

CONSTANTS
  remotesCount,  \* number of remote processes, each with its own queue
  theCapacity,   \* items that fit into one queue
  UIntMax        \* unsigned int wraps around after this value

ASSUME CountAssumption == remotesCount \in Nat \ {0} /\ theCapacity \in Nat \ {0}

\* theIn++ % theCapacity walks around the buffer only if the capacity divides
\* the range of unsigned int ("theCapacity currently happens to be a power
\* of 2").
ASSUME WrapAssumption == UIntMax \in Nat /\ (UIntMax + 1) % theCapacity = 0

\* theCapacity is an int, so that it is less than the range of unsigned int.
ASSUME CapacityAssumption == theCapacity <= UIntMax

Remotes == 1..remotesCount

VARIABLES
  theIn, theOut,  \* push() and pop() positions of each queue
  theSize,        \* number of items in each queue
  theBuffer,      \* the items of each queue
  popBlocked,     \* whether the reader is blocked on pop()
  popSignal,      \* whether a notification was sent and not received
  wpc,            \* what each remote process does next
  rpc,            \* what the reader does next
  theLastPopProcessId,  \* the queue that the reader tried last
  tries,          \* the queues that BaseMultiQueue::pop() has tried
  value,          \* the item that the reader copied last
  notifications   \* notifications that are under way

queues == <<theIn, theOut, theSize, theBuffer>>
reader == <<popBlocked, popSignal>>
vars == <<queues, reader, wpc, rpc, theLastPopProcessId, tries, value, notifications>>

WriterSteps == {"idle", "copy", "grow", "blocked", "exchange", "notify"}
ReaderSteps == {"waiting", "clear", "clearSignal", "test", "block", "retest",
                "unblock", "copy", "shrink"}

TypeOK ==
  /\ theIn \in [Remotes -> 0..UIntMax] /\ theOut \in [Remotes -> 0..UIntMax]
  /\ theSize \in [Remotes -> 0..theCapacity]
  /\ theBuffer \in [Remotes -> [0..(theCapacity - 1) -> 0..UIntMax]]
  /\ popBlocked \in BOOLEAN /\ popSignal \in BOOLEAN
  /\ wpc \in [Remotes -> WriterSteps] /\ rpc \in ReaderSteps
  /\ theLastPopProcessId \in 0..remotesCount /\ tries \in 0..remotesCount
  /\ value \in 0..UIntMax /\ notifications \in Nat

\* QueueReader starts "blocked without a signal"; theLastPopProcessId starts
\* so that the first increment wraps to the first queue.
Init ==
  /\ theIn = [r \in Remotes |-> 0] /\ theOut = [r \in Remotes |-> 0]
  /\ theSize = [r \in Remotes |-> 0]
  /\ theBuffer = [r \in Remotes |-> [c \in 0..(theCapacity - 1) |-> 0]]
  /\ popBlocked = TRUE /\ popSignal = FALSE
  /\ wpc = [r \in Remotes |-> "idle"] /\ rpc = "waiting"
  /\ theLastPopProcessId = 0 /\ tries = 0
  /\ value = 0 /\ notifications = 0

Increment(n) == (n + 1) % (UIntMax + 1)

----------------------------------------------------------------------------
(* push() and Notify(), in a remote process r *)

WriterGoto(r, from, to) == wpc[r] = from /\ wpc' = [wpc EXCEPT ![r] = to]
readerLocals == <<rpc, theLastPopProcessId, tries, value>>

\* full() throws Full: CollapsedForwarding::Broadcast() drops the message.
PushFull(r) ==
  /\ wpc[r] = "idle" /\ theSize[r] = theCapacity
  /\ UNCHANGED vars

\* Mutant: the queue is taken for full when it has one item too many.
PushUnlessOverfull(r) ==
  /\ theSize[r] # theCapacity + 1
  /\ WriterGoto(r, "idle", "copy")
  /\ UNCHANGED <<queues, reader, readerLocals, notifications>>

Push(r) ==
  /\ theSize[r] # theCapacity
  /\ WriterGoto(r, "idle", "copy")
  /\ UNCHANGED <<queues, reader, readerLocals, notifications>>

PushCopy(r) ==
  /\ WriterGoto(r, "copy", "grow")
  /\ theBuffer' = [theBuffer EXCEPT ![r][theIn[r] % theCapacity] = theIn[r]]
  /\ theIn' = [theIn EXCEPT ![r] = Increment(@)]
  /\ UNCHANGED <<theOut, theSize, reader, readerLocals, notifications>>

\* const bool wasEmpty = !theSize++
PushGrow(r) ==
  /\ WriterGoto(r, "grow", IF theSize[r] = 0 THEN "blocked" ELSE "idle")
  /\ theSize' = [theSize EXCEPT ![r] = @ + 1]
  /\ UNCHANGED <<theIn, theOut, theBuffer, reader, readerLocals, notifications>>

\* The left operand of raiseSignal().
RaiseSignalBlocked(r) ==
  /\ WriterGoto(r, "blocked", IF popBlocked THEN "exchange" ELSE "idle")
  /\ UNCHANGED <<queues, reader, readerLocals, notifications>>

\* Mutant: every blocked reader is signalled.
RaiseSignalAlways(r) ==
  /\ WriterGoto(r, "exchange", "notify")
  /\ popSignal' = TRUE
  /\ UNCHANGED <<queues, popBlocked, readerLocals, notifications>>

\* Its right operand: !popSignal.exchange(true).
RaiseSignalExchange(r) ==
  /\ WriterGoto(r, "exchange", IF popSignal THEN "idle" ELSE "notify")
  /\ popSignal' = TRUE
  /\ UNCHANGED <<queues, popBlocked, readerLocals, notifications>>

Notify(r) ==
  /\ WriterGoto(r, "notify", "idle")
  /\ notifications' = notifications + 1
  /\ UNCHANGED <<queues, reader, readerLocals>>

----------------------------------------------------------------------------
(* HandleNotification() and HandleNewData(), in the reading process *)

ReaderGoto(from, to) == rpc = from /\ rpc' = to

\* BaseMultiQueue::pop() goes on to the queue after the one visited last.
NextQueue == IF theLastPopProcessId >= remotesCount THEN 1 ELSE theLastPopProcessId + 1

ReceiveNotification ==
  /\ notifications > 0
  /\ ReaderGoto("waiting", "clear")
  /\ notifications' = notifications - 1
  /\ UNCHANGED <<queues, reader, wpc, theLastPopProcessId, tries, value>>

\* clearSignal() is unblock() followed by popSignal.store(false).
ClearSignalUnblock ==
  /\ ReaderGoto("clear", "clearSignal")
  /\ popBlocked' = FALSE
  /\ UNCHANGED <<queues, popSignal, wpc, theLastPopProcessId, tries, value, notifications>>

\* Then the loop of HandleNewData() starts popping.
ClearSignal ==
  /\ ReaderGoto("clearSignal", "test")
  /\ popSignal' = FALSE
  /\ theLastPopProcessId' = NextQueue /\ tries' = 1
  /\ UNCHANGED <<queues, popBlocked, wpc, value, notifications>>

\* Mutant: the slot is given back to the writer before it is copied.
PopTestShrinksFirst ==
  LET q == theLastPopProcessId
  IN  /\ ReaderGoto("test", IF theSize[q] = 0 THEN "block" ELSE "copy")
      /\ theSize' = [theSize EXCEPT ![q] = IF @ = 0 THEN 0 ELSE @ - 1]
      /\ UNCHANGED <<theIn, theOut, theBuffer, reader, wpc, theLastPopProcessId, tries, value, notifications>>

PopTest ==
  /\ ReaderGoto("test", IF theSize[theLastPopProcessId] = 0 THEN "block" ELSE "unblock")
  /\ UNCHANGED <<queues, reader, wpc, theLastPopProcessId, tries, value, notifications>>

PopBlock ==
  /\ ReaderGoto("block", "retest")
  /\ popBlocked' = TRUE
  /\ UNCHANGED <<queues, popSignal, wpc, theLastPopProcessId, tries, value, notifications>>

\* Mutant: the queue is not tested again after block().
PopNoRetest ==
  LET last == tries = remotesCount
  IN  /\ ReaderGoto("retest", IF last THEN "waiting" ELSE "test")
      /\ theLastPopProcessId' = IF last THEN theLastPopProcessId ELSE NextQueue
      /\ tries' = IF last THEN 0 ELSE tries + 1
      /\ UNCHANGED <<queues, reader, wpc, value, notifications>>

\* "A writer might push between the empty test and block()": test again.  An
\* empty queue sends the reader to the next one, or back to the event loop.
PopRetest ==
  LET empty == theSize[theLastPopProcessId] = 0
      last == tries = remotesCount
  IN  /\ ReaderGoto("retest", IF ~empty THEN "unblock" ELSE IF last THEN "waiting" ELSE "test")
      /\ theLastPopProcessId' = IF empty /\ ~last THEN NextQueue ELSE theLastPopProcessId
      /\ tries' = IF ~empty THEN tries ELSE IF last THEN 0 ELSE tries + 1
      /\ UNCHANGED <<queues, reader, wpc, value, notifications>>

PopUnblock ==
  /\ ReaderGoto("unblock", "copy")
  /\ popBlocked' = FALSE
  /\ UNCHANGED <<queues, popSignal, wpc, theLastPopProcessId, tries, value, notifications>>

PopCopy ==
  LET q == theLastPopProcessId
  IN  /\ ReaderGoto("copy", "shrink")
      /\ value' = theBuffer[q][theOut[q] % theCapacity]
      /\ theOut' = [theOut EXCEPT ![q] = Increment(@)]
      /\ UNCHANGED <<theIn, theSize, theBuffer, reader, wpc, theLastPopProcessId, tries, notifications>>

\* Mutant: the reader leaves with the item that woke it up.
PopShrinkOnce ==
  /\ ReaderGoto("shrink", "waiting")
  /\ theSize' = [theSize EXCEPT ![theLastPopProcessId] = @ - 1]
  /\ tries' = 0
  /\ UNCHANGED <<theIn, theOut, theBuffer, reader, wpc, theLastPopProcessId, value, notifications>>

\* --theSize, and HandleNewData() handles the item and pops the next one.
PopShrink ==
  /\ ReaderGoto("shrink", "test")
  /\ theSize' = [theSize EXCEPT ![theLastPopProcessId] = @ - 1]
  /\ theLastPopProcessId' = NextQueue /\ tries' = 1
  /\ UNCHANGED <<theIn, theOut, theBuffer, reader, wpc, value, notifications>>

\* The kid process dies in its event loop and is restarted.  Its socket is
\* unlinked and bound anew (UdsOp::conn()), with the datagrams in it; the
\* queues and the QueueReader stay in shared memory.
Restart ==
  /\ rpc = "waiting"
  /\ notifications' = 0
  /\ theLastPopProcessId' = 0 /\ value' = 0
  /\ UNCHANGED <<queues, reader, wpc, rpc, tries>>

----------------------------------------------------------------------------
WriterStep(r) ==
  \/ PushCopy(r) \/ PushGrow(r) \/ RaiseSignalBlocked(r) \/ RaiseSignalExchange(r) \/ Notify(r)

ReaderStep ==
  \/ ReceiveNotification \/ ClearSignalUnblock \/ ClearSignal \/ PopTest \/ PopBlock
  \/ PopRetest \/ PopUnblock \/ PopCopy \/ PopShrink

Next ==
  \/ \E r \in Remotes : PushFull(r) \/ Push(r) \/ WriterStep(r)
  \/ ReaderStep

Spec == Init /\ [][Next]_vars

\* With restarts of the reading kid, NoLostWakeup does not hold: see the README.
RestartSpec == Init /\ [][Next \/ Restart]_vars

\* A process that runs goes on: nothing in push() or pop() waits, and the
\* event loop of the reader gets to a datagram that has arrived.  Whether a
\* writer starts another push() is up to it.
FairSpec == Spec /\ WF_vars(ReaderStep) /\ \A r \in Remotes : WF_vars(WriterStep(r))

----------------------------------------------------------------------------
(* Properties *)

\* Unsigned distances, as (theIn - theOut) of the code would compute them.
Distance(from, to) == (to - from) % (UIntMax + 1)
Stored(r) == Distance(theOut[r], theIn[r])

\* The items between theOut and theIn are intact and in order, and theSize
\* lags behind them only while a push() or a pop() is half done, also when
\* the positions have wrapped around.
ContentsIntact ==
  \A r \in Remotes :
    /\ theSize[r] + (IF wpc[r] = "grow" THEN 1 ELSE 0)
         - (IF rpc = "shrink" /\ theLastPopProcessId = r THEN 1 ELSE 0) = Stored(r)
    /\ \A n \in 0..UIntMax : Distance(theOut[r], n) < Stored(r) => theBuffer[r][n % theCapacity] = n

\* Items leave a queue in the order in which they entered it, and the writer
\* does not overwrite the item that is being copied.
FirstInFirstOut == rpc = "shrink" => Increment(value) = theOut[theLastPopProcessId]

\* One notification at most is about to be sent, under way or about to be
\* cleared, and it is what popSignal says.
SignalsPending ==
  Cardinality({r \in Remotes : wpc[r] = "notify"}) + notifications
    + (IF rpc \in {"clear", "clearSignal"} THEN 1 ELSE 0)
OneSignal == SignalsPending = (IF popSignal THEN 1 ELSE 0)

\* "returns true iff the caller must notify the reader of the pushed item": a
\* reader that waits in its event loop while a queue has items is about to be
\* notified, or will be by a push() in progress.
NoLostWakeup ==
  rpc = "waiting" =>
    \A r \in Remotes : theSize[r] > 0 =>
      \/ SignalsPending > 0
      \/ \E w \in Remotes : wpc[w] \in {"blocked", "exchange"}

\* Every pushed item is eventually popped.
EveryItemPopped ==
  \A r \in Remotes, n \in 0..UIntMax :
    (theOut[r] = n /\ Stored(r) > 0) ~> (theOut[r] # n)
=============================================================================
