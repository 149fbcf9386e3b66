------------------------------- MODULE Helper -------------------------------
(***************************************************************************)
(* A pool of stateless helper processes (src/src/helper.cc): redirectors,  *)
(* external ACL helpers, authenticators.  Callers submit requests; each is *)
(* dispatched to a helper process or queued, and its callback is called    *)
(* with the reply of the process, or when the request is dropped, timed    *)
(* out or lost with its process.                                           *)
(*                                                                         *)
(* Squid is single-threaded, so an action is one call made by the event    *)
(* loop: a submission, the I/O, timeout or close handler of a helper, or a *)
(* step of a reconfiguration.  The operators between GetFirstAvailable and *)
(* closePipesSafely map a state of the pool to its next state, or to the   *)
(* set of them where starting a process may fail.                          *)
(***************************************************************************)
EXTENDS Integers, Sequences, SequencesExt, FiniteSetsExt

CONSTANTS
    Requests,       \* the submissions; each has its own callback data
    Nil,            \* no transaction, no message
    NMax,           \* childs.n_max
    NStartup,       \* childs.n_startup
    NIdle,          \* childs.n_idle
    Concurrency,    \* childs.concurrency, at least one
    QueueSize,      \* childs.queue_size
    MAX_RETRIES,    \* helper.cc
    RetryTimedOut,  \* hlp->retryTimedOut
    Radix,          \* request IDs are written in this radix (10 in the code)
    MaxServers,     \* bound: processes ever started
    MaxExits,       \* bound: processes that exit on their own
    MaxReconfigures \* bound: reconfigurations

ASSUME HelperAssumption ==
    /\ {NStartup, NIdle, QueueSize, MAX_RETRIES, MaxExits, MaxReconfigures} \subseteq Nat
    /\ {NMax, Concurrency, MaxServers} \subseteq Nat \ {0}
    /\ NStartup <= MaxServers
    /\ Radix \in Nat \ {0, 1}
    /\ RetryTimedOut \in BOOLEAN

VARIABLES
    hlp,            \* the helper object with its servers, and the history of callbacks
    submitted,      \* requests submitted so far
    gone,           \* callers that went away: their callback data is invalid
    reconfiguring,  \* the global of that name
    exits, reconfigures \* bounded counters

vars == <<hlp, submitted, gone, reconfiguring, exits, reconfigures>>

-----------------------------------------------------------------------------
(* Helper::Xaction and helper_server.  A server holds, besides the members *)
(* that the code keeps, what its process has been sent and not answered    *)
(* (inbox) and the reply that has been read in part (msg).                 *)

Xaction == [req : Requests, retries : 0..MAX_RETRIES, id : Nat]
Message == [x : Xaction, part : {"id", "body"}]

ASSUME NilAssumption == Nil \notin Xaction \cup Message

Server == [requests : Seq(Xaction), pending : Nat, timedout : BOOLEAN,
           shutdown : BOOLEAN, closing : BOOLEAN, ignoreToEom : BOOLEAN,
           replyXaction : Xaction \cup {Nil}, nextRequestId : Nat,
           inbox : SUBSET Xaction, msg : Message \cup {Nil}]

NewServer == [requests |-> <<>>, pending |-> 0, timedout |-> FALSE,
              shutdown |-> FALSE, closing |-> FALSE, ignoreToEom |-> FALSE,
              replyXaction |-> Nil, nextRequestId |-> 0, inbox |-> {}, msg |-> Nil]

Init ==
    /\ hlp = [queue |-> <<>>, servers |-> [k \in 1..NStartup |-> NewServer],
              nActive |-> NStartup, overloadStart |-> FALSE, started |-> NStartup,
              answers |-> [r \in Requests |-> <<>>], leaked |-> {}, crashed |-> FALSE]
    /\ submitted = {} /\ gone = {}
    /\ reconfiguring = FALSE /\ exits = 0 /\ reconfigures = 0

(* r->request.callback(), unless the callback data is no longer valid. *)
Callback(s, r, answer) ==
    IF r \in gone THEN s ELSE [s EXCEPT !.answers[r] = Append(@, answer)]

-----------------------------------------------------------------------------
(* Dispatching, queueing, starting processes. *)

needNew(s) ==
    IF reconfiguring THEN NStartup
    ELSE IF s.nActive + NIdle < NMax THEN NIdle
    ELSE NMax - s.nActive

(* The first server that is not shutting down, unless a later one has less *)
(* to do; zero if the selected server is fully loaded.                     *)
GetFirstAvailable(s) ==
    LET live == {k \in DOMAIN s.servers : ~s.servers[k].shutdown}
        first == Min(live)
        lighter == {k \in live : k > first /\ s.servers[k].pending < s.servers[first].pending}
        selected == IF lighter = {} THEN first ELSE Min(lighter)
    IN  IF live = {} THEN 0
        ELSE IF s.servers[selected].pending >= Concurrency THEN 0
        ELSE selected

(* The request goes to the process in one step: writes are never reordered *)
(* or lost, so wqueue and flags.writing add nothing.  Comm::Write() asserts *)
(* that the pipe is open.                                                  *)
helperDispatch(s, i, x) ==
    LET id == s.servers[i].nextRequestId + 1
        sent == [x EXCEPT !.id = id]
        loaded == [s.servers[i] EXCEPT !.nextRequestId = id,
                                       !.requests = Append(@, sent),
                                       !.inbox = @ \cup {sent},
                                       !.pending = @ + 1]
    IN  IF x.req \in gone THEN [s EXCEPT !.servers[i].nextRequestId = id]
        ELSE [s EXCEPT !.servers[i] = loaded,
                       !.crashed = @ \/ s.servers[i].closing]

(* nextRequest() and helperDispatch() while a server is available. *)
helperKickQueue(s) ==
    LET kick[n \in 0..Len(s.queue)] ==
          IF n = 0 THEN s
          ELSE LET t == kick[n - 1] IN
               IF GetFirstAvailable(t) = 0 THEN t
               ELSE helperDispatch([t EXCEPT !.queue = Tail(@)],
                                   GetFirstAvailable(t), Head(t.queue))
    IN  kick[Len(s.queue)]

(* Any number of the needed processes may fail to start. *)
helperOpenServers(s) ==
    {helperKickQueue([s EXCEPT !.servers = @ \o [n \in 1..k |-> NewServer],
                               !.nActive = @ + k,
                               !.started = @ + k]) :
        k \in {n \in 0..Max({0, needNew(s)}) : s.started + n <= MaxServers}}

Enqueue(s, x) ==
    LET t == [s EXCEPT !.queue = Append(@, x)]
    IN  IF needNew(t) > 0 THEN helperOpenServers(t) ELSE {t}

overloaded(s) == Len(s.queue) > QueueSize

syncQueueStats(s) == [s EXCEPT !.overloadStart = overloaded(s)]

submitRequest(s, x) ==
    LET i == GetFirstAvailable(s)
    IN  {syncQueueStats(t) : t \in IF i # 0 THEN {helperDispatch(s, i, x)} ELSE Enqueue(s, x)}

(* The pipes of these helpers are one socket, so that closing either pipe  *)
(* schedules HelperServerClosed().  Nothing is read from them any more.    *)
closePipes(srv) == [srv EXCEPT !.closing = TRUE, !.inbox = {}, !.msg = Nil]

closePipesSafely(s, i) == [s EXCEPT !.servers[i] = closePipes(@)]

-----------------------------------------------------------------------------
(* Timeouts.  The front request of a server is the oldest one. *)

(* Mutant: a retried request stays counted. *)
ExpireFrontKeepsPendingOfRetried(s, i) ==
    LET x == Head(s.servers[i].requests)
        popped == [s EXCEPT !.servers[i].requests = Tail(@)]
        retry == RetryTimedOut /\ x.retries < MAX_RETRIES /\ x.req \notin gone
    IN  {[t EXCEPT !.servers[i].timedout = TRUE] :
            t \in IF retry THEN submitRequest(popped, [x EXCEPT !.retries = @ + 1])
                  ELSE {Callback([popped EXCEPT !.servers[i].pending = @ - 1], x.req, "TimedOut")}}

(* One round of the loop of checkForTimedOutRequests(). *)
ExpireFront(s, i) ==
    LET x == Head(s.servers[i].requests)
        popped == [s EXCEPT !.servers[i].requests = Tail(@)]
        retry == RetryTimedOut /\ x.retries < MAX_RETRIES /\ x.req \notin gone
    IN  {[t EXCEPT !.servers[i].pending = @ - 1, !.servers[i].timedout = TRUE] :
            t \in IF retry THEN submitRequest(popped, [x EXCEPT !.retries = @ + 1])
                  ELSE {Callback(popped, x.req, "TimedOut")}}

(* Any number of the oldest requests may be past the timeout. *)
checkForTimedOutRequests(s, i) ==
    LET after[n \in 0..Len(s.servers[i].requests)] ==
          IF n = 0 THEN {s} ELSE UNION {ExpireFront(t, i) : t \in after[n - 1]}
    IN  UNION {after[n] : n \in 0..Len(s.servers[i].requests)}

-----------------------------------------------------------------------------
(* Replies. *)

(* Mutant: replies are taken in the order of the requests. *)
popRequestIgnoringNumber(srv, number) ==
    IF srv.requests = <<>> THEN [srv EXCEPT !.ignoreToEom = TRUE]
    ELSE [srv EXCEPT !.replyXaction = Head(srv.requests), !.requests = Tail(@)]

(* The request that a reply with this number answers leaves requests. *)
popRequest(srv, number) ==
    LET found == {k \in DOMAIN srv.requests : srv.requests[k].id = number}
    IN  IF found = {} THEN [srv EXCEPT !.ignoreToEom = TRUE]
        ELSE [srv EXCEPT !.replyXaction = srv.requests[Min(found)],
                         !.requests = RemoveAt(@, Min(found))]

(* Mutant: nothing is kicked or closed after the late reply to a timed-out request. *)
AfterReplyOfLiveRequestOnly(s, i) ==
    IF s.servers[i].timedout THEN s
    ELSE IF ~s.servers[i].shutdown THEN helperKickQueue(s)
    ELSE IF ~s.servers[i].closing /\ s.servers[i].pending = 0 THEN closePipesSafely(s, i)
    ELSE s

(* The end of helperReturnBuffer(). *)
AfterReply(s, i) ==
    IF ~s.servers[i].shutdown THEN helperKickQueue(s)
    ELSE IF ~s.servers[i].closing /\ s.servers[i].pending = 0 THEN closePipesSafely(s, i)
    ELSE s

(* helperReturnBuffer() with the end of the reply to x.  "BH" is a broken  *)
(* helper's reply, to be retried; it is not recognized after a number that *)
(* was taken for text.                                                     *)
Answered(s, i, x, result) ==
    LET r == s.servers[i].replyXaction
        done == [s EXCEPT !.servers[i].pending = @ - 1, !.servers[i].replyXaction = Nil]
    IN  IF r = Nil THEN {s}
        ELSE IF result = "BH" /\ r = x /\ r.retries < MAX_RETRIES /\ r.req \notin gone
             THEN submitRequest(done, [r EXCEPT !.retries = @ + 1])
        ELSE {Callback(done, r.req, IF r = x THEN "own" ELSE "other")}

helperReturnBuffer(s, i, x, result) ==
    UNION {{AfterReply(u, i) : u \in checkForTimedOutRequests(t, i)} :
              t \in Answered(s, i, x, result)}

-----------------------------------------------------------------------------
(* The calls made by the event loop. *)

Proceed(outcomes) == \E s \in outcomes : hlp' = s

(* prepSubmit(): whether the overload has persisted for 180 seconds. *)
Drop(r) == hlp' = syncQueueStats(Callback(hlp, r, "Error"))

helperSubmit(r) ==
    /\ ~hlp.crashed /\ r \notin submitted
    /\ submitted' = submitted \cup {r}
    /\ \/ Proceed(submitRequest(syncQueueStats(hlp), [req |-> r, retries |-> 0, id |-> 0]))
       \/ /\ overloaded(hlp) /\ hlp.overloadStart
          /\ Drop(r)
    /\ UNCHANGED <<gone, reconfiguring, exits, reconfigures>>

(* External: the transaction that waits for the answer is aborted. *)
callerGone(r) ==
    /\ ~hlp.crashed /\ r \in submitted \ gone /\ hlp.answers[r] = <<>>
    /\ gone' = gone \cup {r}
    /\ UNCHANGED <<hlp, submitted, reconfiguring, exits, reconfigures>>

(* The parts of a reply that one read may end with, given the last read. *)
NextParts(srv, x) ==
    IF srv.msg = Nil
    THEN {"body", "end"} \cup (IF x.id >= Radix THEN {"id"} ELSE {})
    ELSE IF srv.msg.part = "id" THEN {"body", "end"} ELSE {"end"}

(* A read that ends in the number of the reply to x, in its body or at its *)
(* end.  A number that is not complete has only its leading digits.        *)
helperHandleRead(i, x, part, result) ==
    LET srv == hlp.servers[i]
        parse == ~srv.ignoreToEom /\ srv.replyXaction = Nil
        number == IF part = "id" THEN x.id \div Radix ELSE x.id
        popped == IF parse THEN popRequest(srv, number) ELSE srv
        reader == [popped EXCEPT !.inbox = @ \ {x},
                                 !.msg = IF part = "end" THEN Nil ELSE [x |-> x, part |-> part]]
        read == [hlp EXCEPT !.servers[i] = reader]
        waiting == part # "end" /\ ((part = "id" /\ parse) \/ popped.replyXaction # Nil)
    IN  /\ ~hlp.crashed /\ ~srv.closing
        /\ IF srv.msg = Nil THEN x \in srv.inbox ELSE x = srv.msg.x
        /\ part \in NextParts(srv, x)
        /\ Proceed(IF waiting THEN {read}
                   ELSE {[s EXCEPT !.servers[i].ignoreToEom = @ /\ part # "end"] :
                            s \in helperReturnBuffer(read, i, x, result)})
        /\ UNCHANGED <<submitted, gone, reconfiguring, exits, reconfigures>>

(* The reply outgrows its 1 MB buffer. *)
accumulateFails(i) ==
    /\ ~hlp.crashed /\ ~hlp.servers[i].closing
    /\ hlp.servers[i].msg # Nil /\ hlp.servers[i].replyXaction # Nil
    /\ hlp' = closePipesSafely(hlp, i)
    /\ UNCHANGED <<submitted, gone, reconfiguring, exits, reconfigures>>

(* The process exits; helperHandleRead() reads the end of file. *)
helperExits(i) ==
    /\ ~hlp.crashed /\ ~hlp.servers[i].closing
    /\ exits < MaxExits
    /\ exits' = exits + 1
    /\ hlp' = closePipesSafely(hlp, i)
    /\ UNCHANGED <<submitted, gone, reconfiguring, reconfigures>>

requestTimeout(i) ==
    /\ ~hlp.crashed /\ ~hlp.servers[i].closing
    /\ hlp.servers[i].requests # <<>>
    /\ Proceed(checkForTimedOutRequests(hlp, i) \ {hlp})
    /\ UNCHANGED <<submitted, gone, reconfiguring, exits, reconfigures>>

(* dropQueued() calls back for the requests of a server, in their order. *)
dropQueued(s, i) ==
    LET requests == s.servers[i].requests
        dropped[n \in 0..Len(requests)] ==
          IF n = 0 THEN s ELSE Callback(dropped[n - 1], requests[n].req, "Unknown")
    IN  dropped[Len(requests)]

(* Mutant: a server that was shut down is counted out again. *)
handleKilledServerAlwaysCounted(s, i) ==
    LET t == [s EXCEPT !.nActive = @ - 1]
    IN  IF needNew(t) > 0
        THEN helperOpenServers([t EXCEPT !.servers[i].shutdown = TRUE])
        ELSE {t}

(* handleKilledServer(): whether new servers are needed to replace this one. *)
handleKilledServer(s, i) ==
    LET t == [s EXCEPT !.nActive = @ - 1]
    IN  IF s.servers[i].shutdown THEN {s}
        ELSE IF needNew(t) > 0
             THEN helperOpenServers([t EXCEPT !.servers[i].shutdown = TRUE])
        ELSE {t}

(* The close handler.  The transaction whose reply was being read is not   *)
(* among the requests of the server and is not called back.                *)
HelperServerClosed(i) ==
    /\ ~hlp.crashed /\ hlp.servers[i].closing
    /\ \E s \in handleKilledServer(hlp, i) :
          LET x == s.servers[i].replyXaction IN
          hlp' = [dropQueued(s, i) EXCEPT !.servers = RemoveAt(@, i),
                                          !.leaked = @ \cup (IF x = Nil THEN {} ELSE {x.req})]
    /\ UNCHANGED <<submitted, gone, reconfiguring, exits, reconfigures>>

(* mainReconfigureStart() shuts every server down: now if it is idle,      *)
(* otherwise after its last reply.                                         *)
helperShutdown ==
    /\ ~hlp.crashed /\ reconfigures < MaxReconfigures /\ ~reconfiguring
    /\ LET live == {k \in DOMAIN hlp.servers : ~hlp.servers[k].shutdown} IN
       hlp' = [hlp EXCEPT
                 !.nActive = @ - Cardinality(live),
                 !.servers = [k \in DOMAIN hlp.servers |->
                    LET srv == [hlp.servers[k] EXCEPT !.shutdown = TRUE] IN
                    IF k \in live /\ srv.pending = 0 THEN closePipes(srv) ELSE srv]]
    /\ reconfiguring' = TRUE /\ reconfigures' = reconfigures + 1
    /\ UNCHANGED <<submitted, gone, exits>>

(* mainReconfigureFinish() starts the servers of the new configuration. *)
reconfigureFinish ==
    /\ ~hlp.crashed /\ reconfiguring
    /\ Proceed(helperOpenServers(hlp))
    /\ reconfiguring' = FALSE
    /\ UNCHANGED <<submitted, gone, exits, reconfigures>>

Replying(part, result) ==
    \E i \in DOMAIN hlp.servers :
        \E x \in hlp.servers[i].inbox \cup
                 (IF hlp.servers[i].msg = Nil THEN {} ELSE {hlp.servers[i].msg.x}) :
            helperHandleRead(i, x, part, result)

Closed == \E i \in DOMAIN hlp.servers : HelperServerClosed(i)

Next ==
    \/ \E r \in Requests : helperSubmit(r)
    \/ \E r \in Requests : callerGone(r)
    \/ \E part \in {"id", "body", "end"}, result \in {"OK", "BH"} : Replying(part, result)
    \/ \E i \in DOMAIN hlp.servers : accumulateFails(i)
    \/ \E i \in DOMAIN hlp.servers : helperExits(i)
    \/ \E i \in DOMAIN hlp.servers : requestTimeout(i)
    \/ Closed
    \/ helperShutdown
    \/ reconfigureFinish

Spec == Init /\ [][Next]_vars

(* The helper program answers what it was sent or exits; scheduled calls   *)
(* and the event that finishes a reconfiguration are run.  One condition   *)
(* is enough, because each of these steps uses up what enables it.         *)
FairSpec == Spec /\ WF_vars(Replying("end", "OK") \/ Closed \/ reconfigureFinish)

-----------------------------------------------------------------------------
(* Types.  That nActive and pending are natural numbers is what the        *)
(* asserts of handleKilledServer() and helperShutdown() say.               *)
TypeOK ==
    /\ hlp.queue \in Seq(Xaction)
    /\ hlp.servers \in Seq(Server)
    /\ hlp.nActive \in Nat
    /\ hlp.started \in 0..MaxServers
    /\ hlp.answers \in [Requests -> Seq({"own", "other", "Error", "TimedOut", "Unknown"})]
    /\ hlp.leaked \subseteq submitted
    /\ {hlp.overloadStart, hlp.crashed, reconfiguring} \subseteq BOOLEAN
    /\ gone \subseteq submitted /\ submitted \subseteq Requests
    /\ exits \in 0..MaxExits /\ reconfigures \in 0..MaxReconfigures

(* The counters that decide about dispatching, closing and starting        *)
(* processes stay exact across timeouts, retries, exits and shutdowns:     *)
(* pending counts what a server still has to answer, nActive the servers   *)
(* that are not shutting down, and no server has more than its share.      *)
CountersExact ==
    /\ \A k \in DOMAIN hlp.servers :
          LET srv == hlp.servers[k] IN
          /\ srv.pending = Len(srv.requests) + (IF srv.replyXaction = Nil THEN 0 ELSE 1)
          /\ srv.pending <= Concurrency
    /\ hlp.nActive = Cardinality({k \in DOMAIN hlp.servers : ~hlp.servers[k].shutdown})

(* A caller is called back at most once, and a helper's reply goes to the  *)
(* caller whose request it answers, whatever was timed out, retried on     *)
(* another server or answered out of order.                                *)
AnswersMatch ==
    \A r \in Requests : Len(hlp.answers[r]) <= 1 /\ hlp.answers[r] # <<"other">>

(* Every caller is called back, unless it went away, its reply was cut     *)
(* short, no helper process is left, or Squid stopped on an assertion.     *)
EveryRequestAnswered ==
    \A r \in Requests :
        (r \in submitted) ~> \/ hlp.answers[r] # <<>>
                            \/ r \in gone \cup hlp.leaked
                            \/ hlp.servers = <<>> \/ hlp.crashed

(* What Comm::Write() asserts of the pipe of the selected server; does not *)
(* hold, see the README.                                                   *)
PipeIsOpen == ~hlp.crashed
=============================================================================
