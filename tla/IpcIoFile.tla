----------------------------- MODULE IpcIoFile -----------------------------
(***************************************************************************)
(* Disk I/O of a worker through a disker process, src/src/DiskIO/IpcIo/    *)
(* IpcIoFile.{h,cc}: the pending requests of one worker for one cache_dir, *)
(* the two queues between the worker and the disker, the I/O pages that    *)
(* messages carry, and the timeouts.                                       *)
(*                                                                         *)
(* The queues are seen from above (module Queue has their inside): FIFO    *)
(* sequences.  A process notices an item at any later time, or never,      *)
(* which stands for delayed and lost notifications as well.  The disker    *)
(* runs concurrently with the worker, between any two steps of it.  The    *)
(* worker runs one handler at a time, but a handler that completes an I/O  *)
(* calls the I/O requestor, which may start another one right there: calls *)
(* is the call stack of the worker.                                        *)
(***************************************************************************)
EXTENDS Integers, Sequences, FiniteSets

CONSTANTS
  QueueCapacity,
  IdMax,      \* request IDs are unsigned: they wrap around after this value
  PageCount,  \* the shared I/O pages that this worker can get
  MaxIos,     \* bound on the number of I/Os
  MaxDepth    \* bound on the depth of push() recursion

ASSUME SizesAssumption ==
  /\ QueueCapacity \in Nat \ {0} /\ PageCount \in Nat /\ MaxIos \in Nat /\ MaxDepth \in Nat \ {0}
  /\ IdMax \in Nat /\ MaxDepth <= IdMax

Commands == {"cmdRead", "cmdWrite"}
Ios == 1..MaxIos  \* I/Os in the order of their read() and write() calls

\* IpcIoMsg; io is the I/O that it is about, which the code does not send.
Messages == [requestId : 0..IdMax, io : Ios, command : Commands, page : BOOLEAN, xerrno : BOOLEAN]
NoMessage == [requestId |-> 0]

\* HandleResponses() runs before a push(), after a notification and before a
\* timeout.  Then push() sends its request, with a page if it is to write, and
\* checkTimeouts() visits the older requests.
Push(command, io) == [when |-> "push", command |-> command, io |-> io]
Requests == [id : 0..IdMax, io : Ios, command : Commands]
Calls == [when : {"push", "send"}, command : Commands, io : Ios]
           \cup [when : {"notification", "timeout"}]
           \cup [when : {"abandon"}, visited : SUBSET Requests]

VARIABLES
  lastRequestId,
  olderRequests, newerRequests,  \* pending requests by age
  timeoutCheckScheduled,
  error_,        \* the worker no longer uses this file
  calls,         \* handlers that the worker is in, the innermost one last
  ios,           \* number of read() and write() calls
  outcome,       \* history: how each I/O has been completed
  serial,        \* history: the number of the request ID of each I/O, counted
                 \* from the first I/O on
  checks,        \* history: the timeout checks that each I/O has seen while
                 \* pending, the one that it was started in included
  toDisker, toWorker,  \* the queues
  hand,          \* what the disker is working on
  answered,      \* whether the disker has done it
  died,          \* history: whether a disker has died
  freePages

requests == <<lastRequestId, olderRequests, newerRequests, timeoutCheckScheduled>>
history == <<ios, outcome, serial, checks>>
disker == <<hand, answered, died>>
vars == <<requests, error_, calls, history, toDisker, toWorker, disker, freePages>>

TypeOK ==
  /\ lastRequestId \in 0..IdMax
  /\ olderRequests \subseteq Requests /\ newerRequests \subseteq Requests
  /\ timeoutCheckScheduled \in BOOLEAN /\ error_ \in BOOLEAN /\ answered \in BOOLEAN /\ died \in BOOLEAN
  /\ Len(calls) <= MaxDepth /\ \A i \in DOMAIN calls : calls[i] \in Calls
  /\ ios \in 0..MaxIos
  /\ outcome \in [Ios -> Seq({"response", "timeout", "refused"})]
  /\ serial \in [Ios -> 0..MaxIos] /\ checks \in [Ios -> 0..2]
  /\ toDisker \in Seq(Messages) /\ Len(toDisker) <= QueueCapacity
  /\ toWorker \in Seq(Messages) /\ Len(toWorker) <= QueueCapacity
  /\ hand \in Messages \cup {NoMessage}
  /\ freePages \in 0..PageCount

\* A file that has just been opened
Init ==
  /\ lastRequestId = 0
  /\ olderRequests = {} /\ newerRequests = {} /\ timeoutCheckScheduled = FALSE
  /\ error_ = FALSE /\ calls = <<>> /\ ios = 0
  /\ outcome = [io \in Ios |-> <<>>] /\ serial = [io \in Ios |-> 0] /\ checks = [io \in Ios |-> 0]
  /\ toDisker = <<>> /\ toWorker = <<>> /\ hand = NoMessage /\ answered = FALSE /\ died = FALSE
  /\ freePages = PageCount

pendingRequests == Cardinality(olderRequests) + Cardinality(newerRequests)

\* completeIo()
Complete(io, how) == outcome' = [outcome EXCEPT ![io] = Append(@, how)]

Top == calls[Len(calls)]
Callers == SubSeq(calls, 1, Len(calls) - 1)
Return == calls' = Callers

Tracked == {pending.io : pending \in olderRequests \cup newerRequests}

----------------------------------------------------------------------------
(* The worker *)

\* The I/Os that have no request ID yet, and how many have one.
Waiting == {calls[i].io : i \in {j \in DOMAIN calls : calls[j].when = "push"}}
issued == ios - Cardinality(Waiting)

\* An ID does not come back while its last owner is pending: nobody starts
\* 2^32 I/Os within two timeouts.
Paced == \A pending \in olderRequests \cup newerRequests : ios + 1 - serial[pending.io] < IdMax

\* read() and write(), from the event loop or from an I/O requestor that is
\* being called back; push() handles responses first.
StartIo(stack) ==
  /\ ~error_ /\ Paced
  /\ ios < MaxIos /\ Len(stack) < MaxDepth
  /\ ios' = ios + 1
  /\ \E command \in Commands : calls' = Append(stack, Push(command, ios + 1))

\* The I/O requestor is called back, and may start an I/O.
CallBack(stack) ==
  \/ calls' = stack /\ UNCHANGED ios
  \/ StartIo(stack)

StartIoFromLoop ==
  /\ calls = <<>>
  /\ StartIo(calls)
  /\ UNCHANGED <<requests, error_, outcome, serial, checks, toDisker, toWorker, disker, freePages>>

\* HandleNotification()
HandleNotification ==
  /\ calls = <<>> /\ toWorker # <<>>
  /\ calls' = <<[when |-> "notification"]>>
  /\ UNCHANGED <<requests, error_, history, toDisker, toWorker, disker, freePages>>

\* The event that scheduleTimeoutCheck() added.
CheckTimeouts ==
  /\ calls = <<>> /\ timeoutCheckScheduled
  /\ timeoutCheckScheduled' = FALSE
  /\ calls' = <<[when |-> "timeout"]>>
  /\ checks' = [io \in Ios |-> checks[io] + (IF io \in Tracked THEN 1 ELSE 0)]
  /\ UNCHANGED <<lastRequestId, olderRequests, newerRequests, error_, ios, outcome, serial, toDisker, toWorker, disker, freePages>>

\* Mutant: the page is put here and by the caller.
readCompletedPutsTwice(msg) ==
  /\ freePages' = freePages + (IF msg.page THEN 2 ELSE 0)
  /\ error_' = (error_ \/ msg.xerrno)

\* readCompleted() puts the page, if the disker found one.
readCompleted(msg) ==
  /\ freePages' = freePages + (IF msg.page THEN 1 ELSE 0)
  /\ error_' = (error_ \/ msg.xerrno)

\* writeCompleted(): the disker has put the page.  A short write also stops
\* the worker from using the file, and so may the response to another I/O.
writeCompleted(msg, pending) ==
  /\ error_' \in {error_ \/ msg.xerrno, error_ \/ msg.xerrno \/ msg.io # pending.io}
  /\ UNCHANGED freePages

\* completeIo() with a response
CompleteWith(msg, pending) ==
  /\ Complete(pending.io, "response")
  /\ IF pending.command = "cmdRead" THEN readCompleted(msg) ELSE writeCompleted(msg, pending)

\* Mutant: the request is found but not forgotten.
dequeueRequestKeeps(pending) == UNCHANGED requests

dequeueRequest(pending) ==
  /\ olderRequests' = olderRequests \ {pending}
  /\ newerRequests' = newerRequests \ {pending}
  /\ UNCHANGED <<lastRequestId, timeoutCheckScheduled>>

Popping == calls # <<>> /\ Top.when \notin {"send", "abandon"} /\ toWorker # <<>>

\* One iteration of HandleResponses(): a response to a pending request.  Its
\* requestor may start another I/O before the next iteration.  If the request
\* is one that an unfinished checkTimeouts() has abandoned, its memory has been
\* freed, and what happens is undefined; here, its requestor is called again.
HandleResponse ==
  /\ Popping
  /\ \E pending \in olderRequests \cup newerRequests :
       /\ pending.id = Head(toWorker).requestId
       /\ dequeueRequest(pending)
       /\ CompleteWith(Head(toWorker), pending)
  /\ toWorker' = Tail(toWorker)
  /\ \/ UNCHANGED <<calls, ios>>
     \/ error_' = FALSE /\ StartIo(calls)
  /\ UNCHANGED <<serial, checks, toDisker, disker>>

\* A LATE response: nothing else is done with it.
HandleLateResponse ==
  /\ Popping
  /\ \A pending \in olderRequests \cup newerRequests : pending.id # Head(toWorker).requestId
  /\ toWorker' = Tail(toWorker)
  /\ UNCHANGED <<requests, error_, calls, history, toDisker, disker, freePages>>

\* No more responses: what the caller of HandleResponses() does next.
NoMoreResponses(when) == calls # <<>> /\ toWorker = <<>> /\ Top.when = when

NotificationHandled ==
  /\ NoMoreResponses("notification") /\ Return
  /\ UNCHANGED <<requests, error_, history, toDisker, toWorker, disker, freePages>>

\* Mutant: the lowest ID that no pending request has.
nextRequestIdUnused == CHOOSE id \in 1..IdMax :
  /\ \A pending \in olderRequests \cup newerRequests : pending.id # id
  /\ \A lower \in 1..(id - 1) : \E pending \in olderRequests \cup newerRequests : pending.id = lower

\* ++lastRequestId, twice if it becomes zero.
nextRequestId == IF lastRequestId = IdMax THEN 1 ELSE lastRequestId + 1

\* push() gives its request the next ID.
GiveId ==
  /\ lastRequestId' = nextRequestId
  /\ serial' = [serial EXCEPT ![Top.io] = issued + 1]
  /\ UNCHANGED <<olderRequests, newerRequests, timeoutCheckScheduled>>

\* The request is ready; a write has got a shared page for its data.
PrepareRequest ==
  /\ NoMoreResponses("push") /\ GiveId
  /\ Top.command = "cmdWrite" => freePages > 0
  /\ freePages' = freePages - (IF Top.command = "cmdWrite" THEN 1 ELSE 0)
  /\ calls' = Append(Callers, [Top EXCEPT !.when = "send"])
  /\ UNCHANGED <<error_, ios, outcome, checks, toDisker, toWorker, disker>>

\* A write finds no shared page: TextException.
PushWithoutPage ==
  /\ NoMoreResponses("push") /\ GiveId
  /\ Top.command = "cmdWrite" /\ freePages = 0
  /\ Complete(Top.io, "refused")
  /\ CallBack(Callers)
  /\ UNCHANGED <<error_, checks, toDisker, toWorker, disker, freePages>>

Sending == calls # <<>> /\ Top.when = "send"

\* Mutant: the page of the request that was not pushed is kept.
PushFullKeepsPage ==
  /\ Sending
  /\ pendingRequests >= QueueCapacity \/ Len(toDisker) = QueueCapacity
  /\ Complete(Top.io, "refused")
  /\ CallBack(Callers)
  /\ UNCHANGED <<requests, error_, serial, checks, toDisker, toWorker, disker, freePages>>

\* Too many pending requests, or a full queue: Full.
PushFull ==
  /\ Sending
  /\ pendingRequests >= QueueCapacity \/ Len(toDisker) = QueueCapacity
  /\ freePages' = freePages + (IF Top.command = "cmdWrite" THEN 1 ELSE 0)
  /\ Complete(Top.io, "refused")
  /\ CallBack(Callers)
  /\ UNCHANGED <<requests, error_, serial, checks, toDisker, toWorker, disker>>

InTimeoutCheck == \E i \in DOMAIN calls : calls[i].when \in {"timeout", "abandon"}

\* queue->push() and trackPendingRequest()
PushRequest ==
  /\ Sending /\ Return
  /\ pendingRequests < QueueCapacity /\ Len(toDisker) < QueueCapacity
  /\ toDisker' = Append(toDisker, [requestId |-> lastRequestId, io |-> Top.io, command |-> Top.command,
                                   page |-> Top.command = "cmdWrite", xerrno |-> FALSE])
  /\ newerRequests' = newerRequests \cup {[id |-> lastRequestId, io |-> Top.io, command |-> Top.command]}
  /\ timeoutCheckScheduled' = TRUE
  /\ checks' = [checks EXCEPT ![Top.io] = IF InTimeoutCheck THEN 1 ELSE 0]
  /\ UNCHANGED <<lastRequestId, olderRequests, error_, ios, outcome, serial, toWorker, disker, freePages>>

----------------------------------------------------------------------------
(* The end of checkTimeouts() *)

StartAbandoning ==
  /\ NoMoreResponses("timeout")
  /\ calls' = Append(Callers, [when |-> "abandon", visited |-> {}])
  /\ UNCHANGED <<requests, error_, history, toDisker, toWorker, disker, freePages>>

Abandoning == calls # <<>> /\ Top.when = "abandon"

\* One iteration of the loop that abandons requests: the request stays in its
\* map while the requestor is called back.  The requestor may start another
\* I/O: a failed swapin unregisters its store client, which may resume a
\* swapout.
Visit(pending) == Append(Callers, [Top EXCEPT !.visited = @ \cup {pending}])
Abandon(pending) ==
  /\ Abandoning /\ pending \notin Top.visited
  /\ Complete(pending.io, "timeout")
  /\ CallBack(Visit(pending))
  /\ UNCHANGED <<requests, error_, serial, checks, toDisker, toWorker, disker, freePages>>

\* Mutant: the maps have already been swapped.
AbandonNewer == \E pending \in newerRequests : Abandon(pending)

AbandonOlder == \E pending \in olderRequests : Abandon(pending)

\* Mutant: the next check is left to the next request.
SwapWithoutSchedule ==
  /\ Abandoning /\ olderRequests \subseteq Top.visited
  /\ Return
  /\ olderRequests' = newerRequests /\ newerRequests' = {}
  /\ UNCHANGED <<lastRequestId, timeoutCheckScheduled, error_, history, toDisker, toWorker, disker, freePages>>

\* Forget the abandoned requests; the newer ones become the older ones.
SwapRequests ==
  /\ Abandoning /\ olderRequests \subseteq Top.visited
  /\ Return
  /\ olderRequests' = newerRequests /\ newerRequests' = {}
  /\ timeoutCheckScheduled' = (timeoutCheckScheduled \/ newerRequests # {})
  /\ UNCHANGED <<lastRequestId, error_, history, toDisker, toWorker, disker, freePages>>

----------------------------------------------------------------------------
(* The disker *)

worker == <<requests, error_, calls, history>>

\* One iteration of DiskerHandleRequests()
DiskerPop ==
  /\ hand = NoMessage /\ toDisker # <<>>
  /\ hand' = Head(toDisker) /\ toDisker' = Tail(toDisker)
  /\ answered' = FALSE
  /\ UNCHANGED <<worker, died, toWorker, freePages>>

\* diskerRead(): a page for the data, unless there is none.  xerrno stands for
\* any result that makes the worker stop using the file.
diskerRead ==
  /\ hand # NoMessage /\ ~answered /\ hand.command = "cmdRead"
  /\ IF freePages > 0
     THEN /\ freePages' = freePages - 1
          /\ \E failed \in BOOLEAN : hand' = [hand EXCEPT !.page = TRUE, !.xerrno = failed]
     ELSE UNCHANGED <<freePages, hand>>
  /\ answered' = TRUE
  /\ UNCHANGED <<worker, died, toDisker, toWorker>>

\* diskerWrite(), with its few attempts to write everything: the page is put
\* whether they failed or not.
diskerWrite ==
  /\ hand # NoMessage /\ ~answered /\ hand.command = "cmdWrite"
  /\ freePages' = freePages + 1
  /\ \E failed \in BOOLEAN : hand' = [hand EXCEPT !.page = FALSE, !.xerrno = failed]
  /\ answered' = TRUE
  /\ UNCHANGED <<worker, died, toDisker, toWorker>>

\* The end of DiskerHandleRequest()
DiskerPush ==
  /\ hand # NoMessage /\ answered /\ Len(toWorker) < QueueCapacity
  /\ toWorker' = Append(toWorker, hand)
  /\ hand' = NoMessage /\ answered' = FALSE
  /\ UNCHANGED <<worker, died, toDisker, freePages>>

\* "the I/O request we could not push will timeout"
DiskerPushFull ==
  /\ hand # NoMessage /\ answered /\ Len(toWorker) = QueueCapacity
  /\ hand' = NoMessage /\ answered' = FALSE
  /\ UNCHANGED <<worker, died, toDisker, toWorker, freePages>>

\* The disker is killed and another one takes its place.
DiskerDies ==
  /\ hand # NoMessage
  /\ hand' = NoMessage /\ answered' = FALSE /\ died' = TRUE
  /\ UNCHANGED <<worker, toDisker, toWorker, freePages>>

----------------------------------------------------------------------------
WorkerStep ==
  \/ HandleResponse \/ HandleLateResponse \/ NotificationHandled
  \/ PrepareRequest \/ PushWithoutPage \/ PushFull \/ PushRequest
  \/ StartAbandoning \/ AbandonOlder \/ SwapRequests

DiskerStep == DiskerPop \/ diskerRead \/ diskerWrite \/ DiskerPush \/ DiskerPushFull

Next ==
  \/ StartIoFromLoop \/ HandleNotification \/ CheckTimeouts
  \/ WorkerStep \/ DiskerStep \/ DiskerDies

Spec == Init /\ [][Next]_vars

\* The worker finishes the handler it is in, and its event loop gets to a
\* scheduled event.  Nothing is assumed of the disker and of notifications.
FairSpec == Spec /\ WF_vars(WorkerStep) /\ WF_vars(CheckTimeouts)

----------------------------------------------------------------------------
(* Properties *)

SeqMessages(s) == {s[i] : i \in DOMAIN s}
InFlight == SeqMessages(toDisker) \cup SeqMessages(toWorker) \cup ({hand} \ {NoMessage})

\* The requests that an unfinished checkTimeouts() has abandoned.
Abandoned == UNION {calls[i].visited : i \in {j \in DOMAIN calls : calls[j].when = "abandon"}}

\* Every read() and write() is in one place: in push(), or pending in one of
\* the maps, or completed.  None is forgotten, and none is completed again,
\* with one exception: checkTimeouts() abandons it, and the requestor of an
\* abandoned I/O starts another one, whose push() finds the response.
IosAccounted ==
  \A io \in 1..ios :
    /\ outcome[io] \in {<<>>, <<"refused">>, <<"response">>, <<"timeout">>, <<"timeout", "response">>}
    /\ (IF outcome[io] = <<>> THEN 0 ELSE 1)
         + Cardinality({pending \in olderRequests \ Abandoned : pending.io = io})
         + Cardinality({pending \in newerRequests : pending.io = io})
         + Cardinality({i \in DOMAIN calls : calls[i].when \in {"push", "send"} /\ calls[i].io = io}) = 1

\* No requestor is called twice.  It does not hold: see HandleResponse.
CompletedOnce == \A io \in Ios : Len(outcome[io]) <= 1

\* A response can only complete the I/O that it is a response to, also when
\* IDs wrap around and when that I/O has been abandoned, unless it has been
\* under way for a whole cycle of IDs.  No message has the ID zero, which
\* handleResponse() and dequeueRequest() refuse.
AnswersMatch ==
  \A msg \in InFlight :
    /\ msg.requestId # 0
    /\ issued - serial[msg.io] < IdMax =>
         \A pending \in olderRequests \cup newerRequests : msg.requestId = pending.id <=> msg.io = pending.io

\* No pending request is left without a timer.
TimerArmed ==
  calls = <<>> /\ pendingRequests > 0 => timeoutCheckScheduled

\* An I/O that is abandoned has been pending for a whole Timeout: it has seen
\* the check before this one ("some may be wait for 2*Timeout").
TimedOut(io) == outcome[io] # <<>> /\ Head(outcome[io]) = "timeout"
AbandonedAfterTimeout == \A io \in 1..ios : TimedOut(io) => checks[io] = 2

NothingAbandoned == \A io \in Ios : ~TimedOut(io)

\* Every I/O page that is not free is on its way in a message, or about to be:
\* "the maximum number of shared I/O pages is approximately the number of queue
\* slots".  That is, until a request is abandoned or the disker dies: the page
\* of a response that nobody waits for is lost.
PageInHand == Sending /\ Top.command = "cmdWrite"
PagesInMessages ==
  NothingAbandoned /\ ~died =>
    freePages + (IF PageInHand THEN 1 ELSE 0) + Cardinality({msg \in InFlight : msg.page}) = PageCount

\* Every I/O is eventually completed, whatever the disker does (as long as
\* what happens is defined).
EveryIoCompletes == \A io \in Ios : (ios >= io) ~> (outcome[io] # <<>> \/ ~CompletedOnce)
=============================================================================
