-------------------------- MODULE TransientsProofs --------------------------
(***************************************************************************)
(* Theorems about Transients, for any set of workers, any size of the      *)
(* response and any capacity of the queues.                                *)
(***************************************************************************)
EXTENDS Transients, Integers, Sequences, FiniteSets, Functions, FiniteSetTheorems, SequenceTheorems,
        WellFoundedInduction, TLAPS

USE DEF messages

----------------------------------------------------------------------------
(* Sequences of steps: what is in them, and what can only come last *)

OnlyLast(s, x) == \A i \in 1..Len(s) : s[i] = x => i = Len(s)

\* Taking the head of a sequence.
LEMMA TailRange ==
  ASSUME NEW S, NEW s \in Seq(S), s # <<>>
  PROVE  /\ Tail(s) \in Seq(S) /\ Len(Tail(s)) = Len(s) - 1
         /\ Range(s) = {Head(s)} \cup Range(Tail(s))
         /\ \A x : OnlyLast(s, x) => OnlyLast(Tail(s), x) /\ (Head(s) = x => Len(s) = 1)
<1> DEFINE t == Tail(s)
           n == Len(s)
           h == Head(s)
<1>1. /\ t \in Seq(S) /\ n \in Nat /\ n >= 1 /\ Len(t) = n - 1
      /\ h = s[1] /\ \A i \in 1..(n - 1) : t[i] = s[i + 1]
  OBVIOUS
<1>2. DOMAIN s = 1..n /\ DOMAIN t = 1..(n - 1)
  BY <1>1
<1> HIDE DEF t, n, h
<1>3. Range(s) = {h} \cup Range(t)
  <2>1. ASSUME NEW i \in 1..n PROVE s[i] \in {h} \cup Range(t)
    <3>1. CASE i = 1
      BY <1>1, <3>1
    <3>2. CASE i # 1
      <4>1. i - 1 \in 1..(n - 1) /\ t[i - 1] = s[i]
        BY <1>1, <3>2
      <4> QED BY <1>2, <4>1 DEF Range
    <3> QED BY <3>1, <3>2
  <2>2. h \in Range(s)
    BY <1>1, <1>2 DEF Range
  <2>3. ASSUME NEW i \in 1..(n - 1) PROVE t[i] \in Range(s)
    <3>1. i + 1 \in DOMAIN s /\ s[i + 1] = t[i]
      BY <1>1, <1>2
    <3> QED BY <3>1 DEF Range
  <2> QED BY <1>2, <2>1, <2>2, <2>3 DEF Range
<1>4. ASSUME NEW x, OnlyLast(s, x) PROVE OnlyLast(t, x) /\ (h = x => n = 1)
  <2>1. \A i \in 1..n : s[i] = x => i = n
    BY <1>4 DEF OnlyLast, n
  <2>2. h = x => n = 1
    <3>1. 1 \in 1..n
      BY <1>1
    <3>2. s[1] = x => 1 = n
      BY <2>1, <3>1
    <3> QED BY <1>1, <3>2
  <2>3. ASSUME NEW i \in 1..(n - 1), t[i] = x PROVE i = n - 1
    <3>1. i + 1 \in 1..n /\ s[i + 1] = x
      BY <1>1, <2>3
    <3>2. i + 1 = n
      BY <2>1, <3>1
    <3> QED BY <1>1, <3>2
  <2> QED BY <1>1, <2>2, <2>3 DEF OnlyLast
<1> QED BY <1>1, <1>3, <1>4 DEF t, n, h

\* Putting steps in front of a sequence.
LEMMA ConcatRange ==
  ASSUME NEW S, NEW s \in Seq(S), NEW t \in Seq(S)
  PROVE  /\ s \o t \in Seq(S) /\ Len(s \o t) = Len(s) + Len(t)
         /\ Range(s \o t) = Range(s) \cup Range(t)
         /\ s # <<>> => s \o t # <<>> /\ Head(s \o t) = Head(s)
         /\ \A x : x \notin Range(s) /\ OnlyLast(t, x) => OnlyLast(s \o t, x)
<1> DEFINE u == s \o t
           m == Len(s)
           n == Len(t)
<1>1. /\ u \in Seq(S) /\ m \in Nat /\ n \in Nat /\ Len(u) = m + n
      /\ DOMAIN u = 1..(m + n) /\ DOMAIN s = 1..m /\ DOMAIN t = 1..n
  BY ConcatProperties, LenProperties
<1>2. \A i \in 1..(m + n) : u[i] = IF i <= m THEN s[i] ELSE t[i - m]
  BY ConcatProperties
<1>3. s # <<>> => u # <<>> /\ Head(u) = Head(s)
  OBVIOUS
<1> HIDE DEF u, m, n
<1>4. ASSUME NEW i \in 1..m PROVE i \in 1..(m + n) /\ u[i] = s[i]
  BY <1>1, <1>2
<1>5. ASSUME NEW i \in 1..n PROVE i + m \in 1..(m + n) /\ u[i + m] = t[i]
  <2>1. i + m \in 1..(m + n) /\ ~(i + m <= m) /\ (i + m) - m = i
    BY <1>1
  <2>2. u[i + m] = t[(i + m) - m]
    BY <1>2, <2>1
  <2> QED BY <2>1, <2>2
<1>6. ASSUME NEW i \in 1..(m + n), ~(i \in 1..m) PROVE i - m \in 1..n /\ u[i] = t[i - m]
  BY <1>1, <1>2, <1>6
<1>7. Range(u) = Range(s) \cup Range(t)
  <2>1. ASSUME NEW i \in 1..(m + n) PROVE u[i] \in Range(s) \cup Range(t)
    BY <1>1, <1>4, <1>6 DEF Range
  <2>2. ASSUME NEW i \in 1..m PROVE s[i] \in Range(u)
    BY <1>1, <1>4 DEF Range
  <2>3. ASSUME NEW i \in 1..n PROVE t[i] \in Range(u)
    BY <1>1, <1>5 DEF Range
  <2> QED BY <1>1, <2>1, <2>2, <2>3 DEF Range
<1>8. ASSUME NEW x, x \notin Range(s), OnlyLast(t, x) PROVE OnlyLast(u, x)
  <2>1. \A i \in 1..n : t[i] = x => i = n
    BY <1>8 DEF OnlyLast, n
  <2>2. ASSUME NEW i \in 1..(m + n), u[i] = x PROVE i = m + n
    <3>1. ~ (i \in 1..m)
      BY <1>1, <1>4, <1>8, <2>2 DEF Range
    <3>2. i - m = n
      BY <1>6, <2>1, <2>2, <3>1
    <3> QED BY <1>1, <3>2
  <2> QED BY <1>1, <2>2 DEF OnlyLast
<1> QED BY <1>1, <1>3, <1>7, <1>8 DEF u, m, n

\* The sequences that handlers are made of.
LEMMA LiteralRange ==
  ASSUME NEW S, NEW a \in S, NEW b \in S
  PROVE  /\ <<>> \in Seq(S) /\ Len(<<>>) = 0 /\ Range(<<>>) = {} /\ \A x : OnlyLast(<<>>, x)
         /\ \A s \in Seq(S) : Len(s) = 0 => s = <<>>
         /\ <<a>> \in Seq(S) /\ Len(<<a>>) = 1 /\ Range(<<a>>) = {a} /\ \A x : OnlyLast(<<a>>, x)
         /\ Head(<<a>>) = a /\ <<a>> # <<>>
         /\ <<a, b>> \in Seq(S) /\ Len(<<a, b>>) = 2 /\ Range(<<a, b>>) = {a, b}
         /\ Head(<<a, b>>) = a /\ <<a, b>> # <<>> /\ \A x : a # x => OnlyLast(<<a, b>>, x)
<1>1. /\ <<>> \in Seq(S) /\ Len(<<>>) = 0 /\ Range(<<>>) = {} /\ \A x : OnlyLast(<<>>, x)
      /\ \A s \in Seq(S) : Len(s) = 0 => s = <<>>
  BY DEF Range, OnlyLast
<1>2. /\ <<a>> \in Seq(S) /\ Len(<<a>>) = 1 /\ Range(<<a>>) = {a} /\ \A x : OnlyLast(<<a>>, x)
      /\ Head(<<a>>) = a /\ <<a>> # <<>>
  BY DEF Range, OnlyLast
<1>3. /\ <<a, b>> \in Seq(S) /\ Len(<<a, b>>) = 2 /\ Range(<<a, b>>) = {a, b}
      /\ Head(<<a, b>>) = a /\ <<a, b>> # <<>>
  BY DEF Range
<1>4. \A x : a # x => OnlyLast(<<a, b>>, x)
  BY DEF OnlyLast
<1> QED BY <1>1, <1>2, <1>3, <1>4

----------------------------------------------------------------------------

\* The steps that a handler of w has still to do.
Pending(w) == Range(todo[w])

JoinSteps == {"share", "anchor", "anchorWithoutWriter"}
LookSteps == JoinSteps \cup {"sync", "syncMarked", "abortReader"}
FillSteps == {"writeToMem", "clearCollapsingRequirement"}
TellSteps == {"Broadcast", "BroadcastToAll", "BroadcastIndex"}

\* What an entry may look like while a step is pending.
Allowed(entry, steps, n, s) ==
  /\ s \in FillSteps => entry.io = "writing" /\ "completeWriting" \notin steps
  /\ s \in LookSteps => entry.io = "reading"
  /\ s = "completeWriting" => entry.io # "none" /\ entry.mem = "done" /\ entry.complete
  /\ s = "disconnectMem" => entry.io # "none"
  /\ s = "writeToMem" /\ entry.complete => n = 1
  /\ s \in JoinSteps => n = 1 /\ entry.mem = "undecided"
  /\ s = "closeMem" => n = 1 /\ entry.io = "none"
  /\ s \in LookSteps \cup FillSteps \cup {"completeWriting"} => "disconnect" \notin steps
  /\ s = "disconnect" /\ entry.mem = "writing" => "disconnectMem" \in steps
  /\ s \in {"stopSharing", "BroadcastToAll"} /\ entry.io = "writing" =>
       ~entry.public \/ (entry.mem = "done" /\ "completeWriting" \notin steps)

EntryConsistent(entry) ==
  /\ entry.io = "none" => entry \in {NoEntry, [NoEntry EXCEPT !.mem = "reading"]}
  /\ entry.io = "reading" => entry.mem # "writing" /\ (entry.complete => entry.mem = "done")
  /\ entry.aborted => ~entry.public
  /\ entry.io = "writing" /\ entry.complete => entry.got > 0

\* The writer of a complete entry is going to close its memory cache entry.
Closes(entry, steps) ==
  entry.io = "writing" /\ entry.complete /\ entry.mem = "writing" => "writeToMem" \in steps

\* The handler of a worker fits its entry.
Handler(w) ==
  /\ EntryConsistent(e[w]) /\ Closes(e[w], Pending(w))
  /\ \A s \in Pending(w) : Allowed(e[w], Pending(w), Len(todo[w]), s)
  /\ OnlyLast(todo[w], "disconnect")

\* The Transients anchor and the local entries
OneXitWriter == \A v, w \in Workers : e[v].io = "writing" /\ e[w].io = "writing" => v = w
XitUsed == \A w \in Workers : e[w].io # "none" => xit.used /\ (xit.collapsing => e[w].collapsing)

\* A broadcast that v is about to make and that reaches w.
Tells(v, w) ==
  \/ At(v, "Broadcast") /\ v # w /\ e[v].io # "none"
  \/ At(v, "BroadcastToAll") /\ e[v].io # "none"
  \/ At(v, "BroadcastIndex")
Told(w) == queued[w] > 0 \/ lost[w] \/ \E v \in Workers : Tells(v, w)

\* A follower has seen everything, or is told, or is about to look or to leave.
Looks(w) == \E s \in LookSteps \cup {"disconnect"} : s \in Pending(w)
SeesCollapsing(w) == Waiting(w) => e[w].collapsing = xit.collapsing \/ Told(w)
SeenMem(w) ==
  /\ e[w].mem = "undecided" => ~InMem \/ mem.size = 0
  /\ e[w].mem = "reading" => e[w].got = mem.size /\ (MemWriters = {} => mem.writerHalted)
SeesMem(w) == Waiting(w) => Told(w) \/ Looks(w) \/ SeenMem(w)

\* A worker that may become or stay a follower hears of the mark.
MayFollow(w) ==
  \/ e[w].io = "reading"
  \/ e[w].io = "writing" /\ (e[w].mem \in {"undecided", "writing"} \/ "completeWriting" \in Pending(w))
HearsOfMark(w) ==
  MayFollow(w) /\ e[w].public /\ xit.waitingToBeFreed /\ ~xit.writerHalted => Told(w)

\* The inductive invariant.
IInv ==
  /\ TypeOK /\ OneXitWriter /\ XitUsed
  /\ \A w \in Workers : Handler(w) /\ SeesCollapsing(w) /\ SeesMem(w) /\ HearsOfMark(w)

----------------------------------------------------------------------------
(* Handlers *)

Entry == [io : {"none", "writing", "reading"},
          mem : {"undecided", "writing", "reading", "done"},
          got : 0..Whole, complete : BOOLEAN, aborted : BOOLEAN,
          public : BOOLEAN, collapsing : BOOLEAN]

Xits == [used : BOOLEAN, waitingToBeFreed : BOOLEAN, writerHalted : BOOLEAN, collapsing : BOOLEAN]
Mems == [used : BOOLEAN, waitingToBeFreed : BOOLEAN, writerHalted : BOOLEAN, appending : BOOLEAN, size : 0..Whole]

\* TypeOK in these terms.
LEMMA TypeParts ==
  /\ TypeOK <=> /\ xit \in Xits /\ mem \in Mems /\ e \in [Workers -> Entry]
                /\ todo \in [Workers -> Seq(Steps)] /\ queued \in [Workers -> 0..QueueCapacity]
                /\ lost \in [Workers -> BOOLEAN]
  /\ TypeOK' <=> /\ xit' \in Xits /\ mem' \in Mems /\ e' \in [Workers -> Entry]
                 /\ todo' \in [Workers -> Seq(Steps)] /\ queued' \in [Workers -> 0..QueueCapacity]
                 /\ lost' \in [Workers -> BOOLEAN]
BY DEF TypeOK, Xits, Mems, Entry

\* The initial values have their types.
LEMMA EmptyTypes == EmptyXit \in Xits /\ EmptyMem \in Mems /\ NoEntry \in Entry
<1>1. 0 \in 0..Whole
  BY SizesAssumption
<1> QED BY <1>1 DEF EmptyXit, EmptyMem, NoEntry, Xits, Mems, Entry

\* A message is in the queue or lost, unless there is one already.
LEMMA PushEffect ==
  ASSUME TypeOK, NEW receivers \in SUBSET Workers, Push(receivers)
  PROVE  /\ queued' \in [Workers -> 0..QueueCapacity] /\ lost' \in [Workers -> BOOLEAN]
         /\ \A v \in Workers : queued[v] > 0 \/ lost[v] => queued'[v] > 0 \/ lost'[v]
         /\ \A v \in Workers : v \in receivers => queued'[v] > 0 \/ lost'[v]
<1>1. PICK dropped \in SUBSET receivers :
        /\ {w \in receivers : queued[w] = QueueCapacity} \subseteq dropped
        /\ queued' = [w \in Workers |-> IF w \in receivers \ dropped THEN queued[w] + 1 ELSE queued[w]]
        /\ lost' = [w \in Workers |-> IF w \in receivers THEN queued'[w] = 0 ELSE lost[w]]
  BY DEF Push
<1>2. queued \in [Workers -> 0..QueueCapacity] /\ lost \in [Workers -> BOOLEAN] /\ QueueCapacity \in Nat
  BY SizesAssumption DEF TypeOK
<1>3. ASSUME NEW v \in Workers PROVE queued'[v] \in 0..QueueCapacity
  <2>1. queued[v] \in 0..QueueCapacity /\ (v \in receivers \ dropped => queued[v] # QueueCapacity)
    BY <1>1, <1>2
  <2>2. queued'[v] = IF v \in receivers \ dropped THEN queued[v] + 1 ELSE queued[v]
    BY <1>1
  <2> QED BY <1>2, <2>1, <2>2
<1>4. queued' \in [Workers -> 0..QueueCapacity]
  BY <1>1, <1>3
<1>5. lost' \in [Workers -> BOOLEAN]
  <2>1. \A v \in Workers : lost[v] \in BOOLEAN
    BY <1>2
  <2>2. \A v \in Workers : (IF v \in receivers THEN queued'[v] = 0 ELSE lost[v]) \in BOOLEAN
    BY <2>1
  <2> QED BY <1>1, <2>2
<1>6. ASSUME NEW v \in Workers, v \in receivers PROVE queued'[v] > 0 \/ lost'[v]
  <2>1. lost'[v] = (queued'[v] = 0)
    BY <1>1, <1>6
  <2>2. CASE queued'[v] = 0
    <3>1. lost'[v]
      BY <2>1, <2>2, Zenon
    <3> QED BY <3>1
  <2>3. CASE queued'[v] # 0
    BY <1>2, <1>3, <2>3
  <2> QED BY <2>2, <2>3
<1>7. ASSUME NEW v \in Workers, v \notin receivers PROVE queued'[v] = queued[v] /\ lost'[v] = lost[v]
  BY <1>1, <1>7
<1> QED BY <1>4, <1>5, <1>6, <1>7

\* Nobody but w does anything.
Others(w) == \A v \in Workers \ {w} : e'[v] = e[v] /\ todo'[v] = todo[v]

\* The next step of w, and the ones after it.
LEMMA HeadPending ==
  ASSUME NEW w \in Workers, todo \in [Workers -> Seq(Steps)], todo[w] # <<>>
  PROVE  /\ Pending(w) = {Head(todo[w])} \cup Range(Tail(todo[w]))
         /\ Tail(todo[w]) \in Seq(Steps) /\ Len(Tail(todo[w])) = Len(todo[w]) - 1
         /\ OnlyLast(todo[w], "disconnect") =>
              /\ OnlyLast(Tail(todo[w]), "disconnect")
              /\ Head(todo[w]) = "disconnect" => Len(todo[w]) = 1
BY TailRange DEF Pending

\* An idle worker has nothing pending.
LEMMA IdlePending ==
  /\ Range(<<>>) = {} /\ OnlyLast(<<>>, "disconnect") /\ <<>> \in Seq(Steps)
  /\ \A w \in Workers : Idle(w) => Pending(w) = {}
<1>1. "sync" \in Steps
  BY DEF Steps
<1>2. Range(<<>>) = {} /\ OnlyLast(<<>>, "disconnect") /\ <<>> \in Seq(Steps)
  BY <1>1, LiteralRange
<1> QED BY <1>2 DEF Idle, Pending

\* A single pending step has nothing after it.
LEMMA LastStep ==
  ASSUME NEW w \in Workers, todo \in [Workers -> Seq(Steps)], todo[w] # <<>>, Len(todo[w]) = 1
  PROVE  Tail(todo[w]) = <<>> /\ Range(Tail(todo[w])) = {}
<1>1. Tail(todo[w]) \in Seq(Steps) /\ Len(Tail(todo[w])) = 0
  BY HeadPending
<1>2. "sync" \in Steps
  BY DEF Steps
<1> QED BY <1>1, <1>2, LiteralRange

\* Continue(w) drops the step that was done.
LEMMA ContinueEffect ==
  ASSUME NEW w \in Workers, todo \in [Workers -> Seq(Steps)], todo[w] # <<>>, Continue(w)
  PROVE  /\ todo' \in [Workers -> Seq(Steps)] /\ \A v \in Workers \ {w} : todo'[v] = todo[v]
         /\ todo'[w] = Tail(todo[w]) /\ Pending(w)' = Range(Tail(todo[w]))
         /\ Len(todo'[w]) = Len(todo[w]) - 1
         /\ OnlyLast(todo[w], "disconnect") => OnlyLast(todo'[w], "disconnect")
<1>1. todo'[w] = Tail(todo[w]) /\ \A v \in Workers \ {w} : todo'[v] = todo[v]
  BY DEF Continue
<1>2. Tail(todo[w]) \in Seq(Steps)
  BY HeadPending
<1>3. todo' \in [Workers -> Seq(Steps)]
  BY <1>2 DEF Continue
<1> QED BY <1>1, <1>3, HeadPending DEF Pending

\* ContinueWith(w, steps) replaces it by others.
LEMMA ContinueWithEffect ==
  ASSUME NEW w \in Workers, todo \in [Workers -> Seq(Steps)], todo[w] # <<>>,
         NEW steps \in Seq(Steps), ContinueWith(w, steps)
  PROVE  /\ todo' \in [Workers -> Seq(Steps)] /\ \A v \in Workers \ {w} : todo'[v] = todo[v]
         /\ todo'[w] = steps \o Tail(todo[w])
         /\ Pending(w)' = Range(steps) \cup Range(Tail(todo[w]))
         /\ Len(todo'[w]) = Len(steps) + Len(todo[w]) - 1
         /\ steps # <<>> => todo'[w] # <<>> /\ Head(todo'[w]) = Head(steps)
         /\ OnlyLast(todo[w], "disconnect") /\ "disconnect" \notin Range(steps)
              => OnlyLast(todo'[w], "disconnect")
<1> DEFINE t == Tail(todo[w])
<1>1. todo'[w] = steps \o t /\ \A v \in Workers \ {w} : todo'[v] = todo[v]
  BY DEF ContinueWith
<1>2. t \in Seq(Steps) /\ Len(t) = Len(todo[w]) - 1 /\ (OnlyLast(todo[w], "disconnect") => OnlyLast(t, "disconnect"))
  BY HeadPending
<1>3. steps \o t \in Seq(Steps)
  BY <1>2, ConcatRange
<1>4. todo' \in [Workers -> Seq(Steps)]
  BY <1>3 DEF ContinueWith
<1>5. Len(steps) \in Nat /\ Len(todo[w]) \in Nat
  BY LenProperties
<1> HIDE DEF t
<1>6. /\ Len(steps \o t) = Len(steps) + Len(t)
      /\ Range(steps \o t) = Range(steps) \cup Range(t)
      /\ steps # <<>> => steps \o t # <<>> /\ Head(steps \o t) = Head(steps)
      /\ "disconnect" \notin Range(steps) /\ OnlyLast(t, "disconnect") => OnlyLast(steps \o t, "disconnect")
  BY <1>2, ConcatRange
<1> QED BY <1>1, <1>2, <1>4, <1>5, <1>6 DEF Pending, t

\* Handle(w, steps) starts a handler.
LEMMA HandleEffect ==
  ASSUME NEW w \in Workers, todo \in [Workers -> Seq(Steps)], NEW steps \in Seq(Steps), Handle(w, steps)
  PROVE  /\ todo' \in [Workers -> Seq(Steps)] /\ \A v \in Workers \ {w} : todo'[v] = todo[v]
         /\ todo'[w] = steps /\ Pending(w)' = Range(steps)
<1>1. todo'[w] = steps
  BY DEF Handle
<1> QED BY <1>1 DEF Handle, Pending

\* A handler that is done with a step and goes on with the others: the
\* entry may have been decided upon or hidden meanwhile.
LEMMA RestAllowed ==
  ASSUME TypeOK, NEW w \in Workers, Handler(w), todo[w] # <<>>, NEW x, NEW Q, NEW n,
         x.io = e[w].io, x.complete = e[w].complete, x.public => e[w].public,
         \/ x.mem = e[w].mem /\ (Head(todo[w]) = "disconnectMem" => e[w].mem # "writing")
         \/ x.mem = "done",
         "completeWriting" \notin Q, "disconnect" \notin Q,
         NEW s \in Range(Tail(todo[w]))
  PROVE  Allowed(x, Q \cup Range(Tail(todo[w])), n, s)
<1> DEFINE R == Range(Tail(todo[w]))
<1>1. Pending(w) = {Head(todo[w])} \cup R
  BY HeadPending DEF TypeOK
<1>2. Len(todo[w]) # 1
  BY LastStep DEF TypeOK
<1>3. Allowed(e[w], Pending(w), Len(todo[w]), s)
  BY <1>1 DEF Handler
<1>4. "completeWriting" \in R => e[w].mem = "done"
  BY <1>1 DEF Handler, Allowed
<1> HIDE DEF R
<1> QED BY <1>1, <1>2, <1>3, <1>4 DEF Allowed, R

\* It is still going to close what it has to close.
LEMMA RestCloses ==
  ASSUME TypeOK, NEW w \in Workers, Handler(w), todo[w] # <<>>, NEW x,
         x.io = e[w].io, x.complete = e[w].complete,
         \/ x.mem = e[w].mem /\ (Head(todo[w]) = "writeToMem" /\ e[w].complete => e[w].mem # "writing")
         \/ x.mem = "done"
  PROVE  Closes(x, Range(Tail(todo[w])))
<1>1. Pending(w) = {Head(todo[w])} \cup Range(Tail(todo[w]))
  BY HeadPending DEF TypeOK
<1>2. Closes(e[w], Pending(w))
  BY DEF Handler
<1> QED BY <1>1, <1>2 DEF Closes

\* A handler that is done with a step, with an entry that may have been
\* decided upon or hidden meanwhile.
LEMMA ContinueHandler ==
  ASSUME TypeOK, NEW w \in Workers, Handler(w), todo[w] # <<>>, Continue(w),
         EntryConsistent(e'[w]),
         e'[w].io = e[w].io, e'[w].complete = e[w].complete, e'[w].public => e[w].public,
         \/ /\ e'[w].mem = e[w].mem /\ (Head(todo[w]) = "disconnectMem" => e[w].mem # "writing")
            /\ Head(todo[w]) = "writeToMem" /\ e[w].complete => e[w].mem # "writing"
         \/ e'[w].mem = "done"
  PROVE  /\ todo' \in [Workers -> Seq(Steps)] /\ \A v \in Workers \ {w} : todo'[v] = todo[v]
         /\ Handler(w)'
<1>1. /\ todo' \in [Workers -> Seq(Steps)] /\ \A v \in Workers \ {w} : todo'[v] = todo[v]
      /\ Pending(w)' = {} \cup Range(Tail(todo[w]))
      /\ OnlyLast(todo'[w], "disconnect")
  BY ContinueEffect DEF TypeOK, Handler
<1>2. \A s \in Range(Tail(todo[w])) : Allowed(e'[w], {} \cup Range(Tail(todo[w])), Len(todo'[w]), s)
  BY RestAllowed
<1>3. Closes(e'[w], Range(Tail(todo[w])))
  BY RestCloses
<1> QED BY <1>1, <1>2, <1>3 DEF Handler

\* The same with another step in front.
LEMMA ContinueWithHandler ==
  ASSUME TypeOK, NEW w \in Workers, Handler(w), todo[w] # <<>>,
         NEW a \in Steps, ContinueWith(w, <<a>>),
         EntryConsistent(e'[w]),
         e'[w].io = e[w].io, e'[w].complete = e[w].complete, e'[w].public => e[w].public,
         \/ /\ e'[w].mem = e[w].mem /\ (Head(todo[w]) = "disconnectMem" => e[w].mem # "writing")
            /\ Head(todo[w]) = "writeToMem" /\ e[w].complete => e[w].mem # "writing"
         \/ e'[w].mem = "done",
         a \notin {"completeWriting", "disconnect"},
         Allowed(e'[w], {a} \cup Range(Tail(todo[w])), Len(todo[w]), a)
  PROVE  /\ todo' \in [Workers -> Seq(Steps)] /\ \A v \in Workers \ {w} : todo'[v] = todo[v]
         /\ Handler(w)' /\ At(w, a)'
<1>1. <<a>> \in Seq(Steps) /\ Range(<<a>>) = {a} /\ Len(<<a>>) = 1 /\ <<a>> # <<>> /\ Head(<<a>>) = a
  BY LiteralRange
<1>2. /\ todo' \in [Workers -> Seq(Steps)] /\ \A v \in Workers \ {w} : todo'[v] = todo[v]
      /\ Pending(w)' = {a} \cup Range(Tail(todo[w])) /\ Len(todo'[w]) = 1 + Len(todo[w]) - 1
      /\ todo'[w] # <<>> /\ Head(todo'[w]) = a
      /\ OnlyLast(todo'[w], "disconnect")
  BY <1>1, ContinueWithEffect DEF TypeOK, Handler
<1>3. Len(todo'[w]) = Len(todo[w])
  <2>1. Len(todo[w]) \in Nat
    BY LenProperties DEF TypeOK
  <2> QED BY <1>2, <2>1
<1>4. \A s \in Range(Tail(todo[w])) : Allowed(e'[w], {a} \cup Range(Tail(todo[w])), Len(todo'[w]), s)
  BY RestAllowed
<1>5. Closes(e'[w], {a} \cup Range(Tail(todo[w])))
  BY RestCloses DEF Closes
<1> QED BY <1>2, <1>3, <1>4, <1>5 DEF Handler, At

\* An idle worker has closed what it had to close.
LEMMA IdleCloses ==
  ASSUME NEW w \in Workers, Handler(w), Idle(w), NEW x, NEW Q,
         x.io = e[w].io, x.complete = e[w].complete, x.mem = e[w].mem
  PROVE  Closes(x, Q)
<1>1. Pending(w) = {} /\ Closes(e[w], Pending(w))
  BY IdlePending DEF Handler
<1> QED BY <1>1 DEF Closes

\* A new handler of one or two steps, or none.
LEMMA HandleHandler ==
  ASSUME TypeOK, NEW w \in Workers, NEW steps \in Seq(Steps), Handle(w, steps),
         EntryConsistent(e'[w]), OnlyLast(steps, "disconnect"), Closes(e'[w], Range(steps)),
         \A s \in Range(steps) : Allowed(e'[w], Range(steps), Len(steps), s)
  PROVE  /\ todo' \in [Workers -> Seq(Steps)] /\ \A v \in Workers \ {w} : todo'[v] = todo[v]
         /\ Handler(w)'
<1>1. /\ todo' \in [Workers -> Seq(Steps)] /\ \A v \in Workers \ {w} : todo'[v] = todo[v]
      /\ todo'[w] = steps /\ Pending(w)' = Range(steps)
  BY HandleEffect DEF TypeOK
<1> QED BY <1>1 DEF Handler

----------------------------------------------------------------------------
(* What each action does to the worker that takes it *)

\* A step of w leaves the other workers alone, and w with a handler that
\* fits its entry.
LocalStep(w) == TypeOK' /\ Others(w) /\ Handler(w)'

\* The three broadcasts, which change queues only, and write() of a response
\* that is not cached.
LEMMA BroadcastLocal ==
  ASSUME TypeOK, NEW w \in Workers, Handler(w),
         Broadcast(w) \/ BroadcastToAll(w) \/ BroadcastIndex(w) \/ skipCaching(w)
  PROVE  LocalStep(w)
<1>1. /\ todo[w] # <<>> /\ Continue(w) /\ Head(todo[w]) # "disconnectMem"
      /\ Head(todo[w]) = "writeToMem" => e[w].mem = "done"
      /\ UNCHANGED <<xit, mem, e>>
  BY DEF Broadcast, BroadcastToAll, BroadcastIndex, skipCaching, At
<1>2. queued' \in [Workers -> 0..QueueCapacity] /\ lost' \in [Workers -> BOOLEAN]
  BY PushEffect, TypeParts DEF Broadcast, BroadcastToAll, BroadcastIndex, skipCaching
<1>3. todo' \in [Workers -> Seq(Steps)] /\ (\A v \in Workers \ {w} : todo'[v] = todo[v]) /\ Handler(w)'
  BY <1>1, ContinueHandler DEF Handler
<1> QED BY <1>1, <1>2, <1>3 DEF LocalStep, TypeOK, Others

\* evictCached() and evictIfFound(), step by step.
LEMMA EvictStepsLocal ==
  ASSUME TypeOK, NEW w \in Workers, Handler(w),
         stopSharing(w) \/ evictFromMem(w) \/ evictFromMemByKey(w) \/ evictFromXit(w)
  PROVE  LocalStep(w)
<1>1. /\ todo[w] # <<>> /\ UNCHANGED <<e, queued, lost>>
      /\ Head(todo[w]) \in {"stopSharing", "evictFromMem", "evictFromMemByKey", "evictFromXit"}
      /\ \/ Continue(w)
         \/ ContinueWith(w, <<"BroadcastToAll">>) /\ Head(todo[w]) = "stopSharing"
         \/ ContinueWith(w, <<"Broadcast">>)
         \/ ContinueWith(w, <<"BroadcastIndex">>)
  BY DEF stopSharing, evictFromMem, evictFromMemByKey, evictFromXit, At
<1>2. xit' \in Xits
  <2>1. xit \in Xits /\ EmptyXit \in Xits /\ [xit EXCEPT !.waitingToBeFreed = TRUE] \in Xits
    BY TypeParts DEF Xits, EmptyXit
  <2> QED BY <2>1 DEF stopSharing, evictFromMem, evictFromMemByKey, evictFromXit
<1>3. mem' \in Mems
  <2>1. mem \in Mems /\ EmptyMem \in Mems
    BY TypeParts, EmptyTypes
  <2>2. [mem EXCEPT !.waitingToBeFreed = TRUE] \in Mems
    BY <2>1 DEF Mems
  <2> QED BY <2>1, <2>2 DEF stopSharing, evictFromMem, evictFromMemByKey, evictFromXit
<1>4. EntryConsistent(e'[w]) /\ e'[w] = e[w]
  BY <1>1 DEF Handler
<1>5. todo' \in [Workers -> Seq(Steps)] /\ (\A v \in Workers \ {w} : todo'[v] = todo[v]) /\ Handler(w)'
  <2>1. CASE Continue(w)
    BY <1>1, <1>4, <2>1, ContinueHandler
  <2>2. ASSUME NEW a \in {"BroadcastToAll", "Broadcast", "BroadcastIndex"}, ContinueWith(w, <<a>>),
               a = "BroadcastToAll" => Head(todo[w]) = "stopSharing"
        PROVE  todo' \in [Workers -> Seq(Steps)] /\ (\A v \in Workers \ {w} : todo'[v] = todo[v]) /\ Handler(w)'
    <3>1. a \in Steps
      BY DEF Steps
    <3>2. Allowed(e[w], {a} \cup Range(Tail(todo[w])), Len(todo[w]), a)
      <4>1. Pending(w) = {Head(todo[w])} \cup Range(Tail(todo[w]))
        BY <1>1, HeadPending DEF TypeOK
      <4>2. Allowed(e[w], Pending(w), Len(todo[w]), Head(todo[w]))
        BY <4>1 DEF Handler
      <4> QED BY <2>2, <4>1, <4>2 DEF Allowed, JoinSteps, LookSteps, FillSteps
    <3> QED BY <1>1, <1>4, <2>2, <3>1, <3>2, ContinueWithHandler
  <2> QED BY <1>1, <2>1, <2>2
<1> QED BY <1>1, <1>2, <1>3, <1>5, TypeParts DEF LocalStep, Others

\* The two steps of evictCached() for a local entry that is hidden, as the
\* start of a handler.
LEMMA EvictStepsAllowed ==
  ASSUME NEW x, NEW entry, ~entry.public
  PROVE  /\ EvictSteps(x) \in Seq(Steps) /\ Len(EvictSteps(x)) = 2
         /\ Range(EvictSteps(x)) \subseteq {"stopSharing", "evictFromMem", "evictFromMemByKey"}
         /\ OnlyLast(EvictSteps(x), "disconnect")
         /\ EvictSteps(x) # <<>> /\ Head(EvictSteps(x)) = "stopSharing"
         /\ \A steps, n : \A s \in Range(EvictSteps(x)) : Allowed(entry, steps, n, s)
<1> DEFINE b == IF x.mem \in {"reading", "writing"} THEN "evictFromMem" ELSE "evictFromMemByKey"
<1>1. EvictSteps(x) = <<"stopSharing", b>> /\ b \in {"evictFromMem", "evictFromMemByKey"}
  BY DEF EvictSteps
<1>2. "stopSharing" \in Steps /\ b \in Steps /\ "stopSharing" # "disconnect"
  BY DEF Steps
<1> HIDE DEF b
<1>3. /\ <<"stopSharing", b>> \in Seq(Steps) /\ Len(<<"stopSharing", b>>) = 2
      /\ Range(<<"stopSharing", b>>) = {"stopSharing", b}
      /\ Head(<<"stopSharing", b>>) = "stopSharing" /\ <<"stopSharing", b>> # <<>>
      /\ OnlyLast(<<"stopSharing", b>>, "disconnect")
  BY <1>2, LiteralRange, ZenonT(30)
<1>4. \A steps, n : \A s \in {"stopSharing", "evictFromMem", "evictFromMemByKey"} : Allowed(entry, steps, n, s)
  BY DEF Allowed, FillSteps, LookSteps, JoinSteps
<1> QED BY <1>1, <1>3, <1>4

\* Controller::evictIfFound() and release()
LEMMA EvictLocal ==
  ASSUME TypeOK, NEW w \in Workers, Handler(w), evict(w)
  PROVE  LocalStep(w)
<1>1. UNCHANGED <<xit, mem, queued, lost>>
  BY DEF evict
<1>2. CASE e[w].public /\ e' = [e EXCEPT ![w].public = FALSE] /\ Handle(w, EvictSteps(e[w]))
  <2>1. /\ e' \in [Workers -> Entry] /\ ~e'[w].public /\ EntryConsistent(e'[w]) /\ \A Q : Closes(e'[w], Q)
        /\ \A v \in Workers \ {w} : e'[v] = e[v]
    <3>1. e \in [Workers -> Entry]
      BY TypeParts
    <3>2. e' \in [Workers -> Entry] /\ ~e'[w].public /\ \A v \in Workers \ {w} : e'[v] = e[v]
      BY <1>2, <3>1, ZenonT(30) DEF Entry
    <3>3. /\ e'[w].io = e[w].io /\ e'[w].mem = e[w].mem
          /\ e'[w].complete = e[w].complete /\ e'[w].got = e[w].got
      BY <1>2, <3>1 DEF Entry
    <3>4. e[w].io # "none"
      BY <1>2 DEF Handler, EntryConsistent, NoEntry
    <3>5. \A Q : Closes(e'[w], Q)
      BY <3>3, IdleCloses DEF evict
    <3> QED BY <3>2, <3>3, <3>4, <3>5 DEF Handler, EntryConsistent
  <2>2. todo' \in [Workers -> Seq(Steps)] /\ (\A v \in Workers \ {w} : todo'[v] = todo[v]) /\ Handler(w)'
    BY <1>2, <2>1, EvictStepsAllowed, HandleHandler
  <2> QED BY <1>1, <2>1, <2>2, TypeParts DEF LocalStep, Others
<1>3. CASE Handle(w, <<"evictFromMemByKey", "evictFromXit">>) /\ UNCHANGED e
  <2> DEFINE steps == <<"evictFromMemByKey", "evictFromXit">>
  <2>1. steps \in Seq(Steps) /\ Range(steps) = {"evictFromMemByKey", "evictFromXit"} /\ OnlyLast(steps, "disconnect")
    <3>1. "evictFromMemByKey" \in Steps /\ "evictFromXit" \in Steps /\ "evictFromMemByKey" # "disconnect"
      BY DEF Steps
    <3> QED BY <3>1, LiteralRange
  <2>2. \A s \in Range(steps) : Allowed(e'[w], Range(steps), Len(steps), s)
    BY <2>1 DEF Allowed, FillSteps, LookSteps, JoinSteps
  <2>3. EntryConsistent(e'[w]) /\ Closes(e'[w], Range(steps))
    BY <1>3, IdleCloses DEF Handler, evict
  <2> HIDE DEF steps
  <2>4. todo' \in [Workers -> Seq(Steps)] /\ (\A v \in Workers \ {w} : todo'[v] = todo[v]) /\ Handler(w)'
    BY <1>3, <2>1, <2>2, <2>3, HandleHandler DEF steps
  <2> QED BY <1>1, <1>3, <2>4 DEF LocalStep, TypeOK, Others
<1> QED BY <1>2, <1>3 DEF evict

\* addWriterEntry() starts with an entry of its own and nothing to do.
LEMMA AddWriterLocal ==
  ASSUME TypeOK, NEW w \in Workers, Handler(w), addWriterEntry(w)
  PROVE  /\ LocalStep(w) /\ Pending(w)' = {}
         /\ e'[w] = [NoEntry EXCEPT !.io = "writing", !.public = TRUE, !.collapsing = TRUE]
<1> DEFINE x == [NoEntry EXCEPT !.io = "writing", !.public = TRUE, !.collapsing = TRUE]
<1>1. /\ x \in Entry /\ x.io = "writing" /\ x.mem = "undecided" /\ ~x.aborted /\ ~x.complete
  BY EmptyTypes DEF NoEntry, Entry
<1>2. e \in [Workers -> Entry] /\ e' = [e EXCEPT ![w] = x] /\ UNCHANGED <<mem, todo, queued>> /\ todo[w] = <<>>
      /\ lost' \in [Workers -> BOOLEAN]
  BY TypeParts DEF addWriterEntry, Idle
<1>3. xit' \in Xits
  BY DEF addWriterEntry, EmptyXit, Xits
<1> HIDE DEF x
<1>4. e' \in [Workers -> Entry] /\ e'[w] = x /\ \A v \in Workers \ {w} : e'[v] = e[v]
  BY <1>1, <1>2
<1>5. Pending(w)' = {} /\ OnlyLast(todo'[w], "disconnect")
  <2>1. todo'[w] = <<>>
    BY <1>2
  <2> QED BY <2>1, IdlePending DEF Pending
<1>6. Handler(w)'
  BY <1>1, <1>4, <1>5 DEF Handler, EntryConsistent, Closes
<1> QED BY <1>2, <1>3, <1>4, <1>5, <1>6, TypeParts DEF LocalStep, Others, x

\* The writer gets more of the response: startWriting(), append() and complete().
LEMMA FillLocal ==
  ASSUME TypeOK, NEW w \in Workers, Handler(w), startWriting(w) \/ append(w) \/ complete(w)
  PROVE  /\ LocalStep(w) /\ "completeWriting" \notin Pending(w)' /\ e[w].io = "writing"
         /\ e'[w].io = e[w].io /\ e'[w].mem = e[w].mem /\ e'[w].public = e[w].public
         /\ e'[w].collapsing = e[w].collapsing
<1>1. e \in [Workers -> Entry] /\ UNCHANGED <<xit, mem, queued, lost>> /\ e[w].io = "writing" /\ ~e[w].aborted
  BY TypeParts DEF startWriting, append, complete
<1>2. CASE startWriting(w)
  <2>1. e' = [e EXCEPT ![w].got = 1] /\ 1 \in 0..Whole
    BY <1>2, SizesAssumption DEF startWriting
  <2>2. /\ e' \in [Workers -> Entry] /\ (\A v \in Workers \ {w} : e'[v] = e[v])
        /\ e'[w].io = e[w].io /\ e'[w].mem = e[w].mem /\ e'[w].public = e[w].public
        /\ e'[w].aborted = e[w].aborted /\ e'[w].complete = e[w].complete /\ e'[w].collapsing = e[w].collapsing
    BY <1>1, <2>1 DEF Entry
  <2>3. ~e[w].complete
    BY <1>2 DEF startWriting, Handler, EntryConsistent
  <2>4. EntryConsistent(e'[w])
    BY <1>1, <2>2, <2>3 DEF EntryConsistent
  <2>5. ASSUME NEW a \in FillSteps, NEW b \in FillSteps, Handle(w, <<a, b>>)
        PROVE  /\ todo' \in [Workers -> Seq(Steps)] /\ (\A v \in Workers \ {w} : todo'[v] = todo[v]) /\ Handler(w)'
               /\ "completeWriting" \notin Pending(w)'
    <3>1. a \in Steps /\ b \in Steps /\ a # "disconnect" /\ b # "disconnect"
      BY DEF Steps, FillSteps
    <3>2. <<a, b>> \in Seq(Steps) /\ Range(<<a, b>>) = {a, b} /\ OnlyLast(<<a, b>>, "disconnect")
      BY <3>1, LiteralRange, ZenonT(30)
    <3>3. \A s \in {a, b} : Allowed(e'[w], {a, b}, Len(<<a, b>>), s)
      BY <1>1, <2>2, <2>3 DEF Allowed, FillSteps, LookSteps, JoinSteps
    <3> DEFINE t == <<a, b>>
    <3> HIDE DEF t
    <3>4. Handle(w, t) /\ t \in Seq(Steps) /\ Range(t) = {a, b} /\ OnlyLast(t, "disconnect")
          /\ \A s \in Range(t) : Allowed(e'[w], Range(t), Len(t), s)
      BY <2>5, <3>2, <3>3 DEF t
    <3>5. "completeWriting" \notin {a, b}
      BY DEF FillSteps
    <3>6. Closes(e'[w], Range(t))
      BY <2>2, <2>3 DEF Closes
    <3> QED BY <2>4, <3>4, <3>5, <3>6, HandleHandler, HandleEffect DEF TypeOK
  <2>6. "writeToMem" \in FillSteps /\ "clearCollapsingRequirement" \in FillSteps
    BY DEF FillSteps
  <2> QED BY <1>1, <1>2, <2>2, <2>5, <2>6, TypeParts DEF startWriting, LocalStep, Others
<1>3. CASE append(w) \/ complete(w)
  <2>1. /\ e' \in [Workers -> Entry] /\ (\A v \in Workers \ {w} : e'[v] = e[v])
        /\ e'[w].io = e[w].io /\ e'[w].mem = e[w].mem /\ e'[w].public = e[w].public
        /\ e'[w].aborted = e[w].aborted /\ e'[w].collapsing = e[w].collapsing
        /\ e'[w].got > 0
    <3>1. CASE append(w)
      <4>1. e' = [e EXCEPT ![w].got = e[w].got + 1] /\ e[w].got + 1 \in 0..Whole /\ e[w].got + 1 > 0
        BY <1>1, <3>1, SizesAssumption DEF append
      <4> QED BY <1>1, <4>1 DEF Entry
    <3>2. CASE complete(w)
      <4>1. e' = [e EXCEPT ![w].complete = TRUE] /\ e[w].got > 0
        BY <3>2, SizesAssumption DEF complete
      <4> QED BY <1>1, <4>1 DEF Entry
    <3> QED BY <1>3, <3>1, <3>2
  <2>2. EntryConsistent(e'[w])
    BY <1>1, <2>1 DEF EntryConsistent
  <2> DEFINE t == <<"writeToMem">>
  <2>3. Handle(w, t) /\ t \in Seq(Steps) /\ Range(t) = {"writeToMem"} /\ OnlyLast(t, "disconnect") /\ Len(t) = 1
    <3>1. "writeToMem" \in Steps
      BY DEF Steps
    <3> QED BY <1>3, <3>1, LiteralRange DEF append, complete
  <2> HIDE DEF t
  <2>4. \A s \in Range(t) : Allowed(e'[w], Range(t), Len(t), s)
    BY <1>1, <2>1, <2>3 DEF Allowed, FillSteps, LookSteps, JoinSteps
  <2>5. /\ todo' \in [Workers -> Seq(Steps)] /\ (\A v \in Workers \ {w} : todo'[v] = todo[v])
        /\ Handler(w)' /\ "completeWriting" \notin Pending(w)'
    <3>1. /\ todo' \in [Workers -> Seq(Steps)] /\ (\A v \in Workers \ {w} : todo'[v] = todo[v])
          /\ Handler(w)'
      BY <2>2, <2>3, <2>4, HandleHandler DEF Closes
    <3>2. Pending(w)' = Range(t)
      BY <2>3, HandleEffect DEF TypeOK
    <3> QED BY <2>3, <3>1, <3>2
  <2> QED BY <1>1, <2>1, <2>5, TypeParts DEF LocalStep, Others
<1> QED BY <1>2, <1>3

\* clearCollapsingRequirement() of a writer.
LEMMA ClearLocal ==
  ASSUME TypeOK, NEW w \in Workers, Handler(w), clearCollapsingRequirement(w)
  PROVE  /\ LocalStep(w) /\ At(w, "Broadcast")' /\ e[w].io = "writing"
         /\ e'[w].io = e[w].io /\ e'[w].mem = e[w].mem /\ e'[w].public = e[w].public /\ ~e'[w].collapsing
         /\ "completeWriting" \in Pending(w)' => "completeWriting" \in Pending(w)
<1>1. /\ todo[w] # <<>> /\ Head(todo[w]) = "clearCollapsingRequirement" /\ UNCHANGED <<mem, queued, lost>>
      /\ e \in [Workers -> Entry] /\ e' = [e EXCEPT ![w].collapsing = FALSE] /\ xit \in Xits
      /\ xit' = [xit EXCEPT !.collapsing = FALSE] /\ ContinueWith(w, <<"Broadcast">>)
  BY TypeParts DEF clearCollapsingRequirement, At
<1>2. xit' \in Xits
  BY <1>1 DEF Xits
<1>3. /\ e' \in [Workers -> Entry] /\ (\A v \in Workers \ {w} : e'[v] = e[v])
      /\ e'[w].io = e[w].io /\ e'[w].mem = e[w].mem /\ e'[w].public = e[w].public /\ ~e'[w].collapsing
      /\ e'[w].aborted = e[w].aborted /\ e'[w].complete = e[w].complete /\ e'[w].got = e[w].got
  BY <1>1 DEF Entry
<1>4. Pending(w) = {Head(todo[w])} \cup Range(Tail(todo[w]))
  BY <1>1, HeadPending DEF TypeOK
<1>5. e[w].io = "writing"
  <2>1. Allowed(e[w], Pending(w), Len(todo[w]), "clearCollapsingRequirement")
    BY <1>1, <1>4 DEF Handler
  <2> QED BY <2>1 DEF Allowed, FillSteps
<1>6. EntryConsistent(e'[w])
  BY <1>3, <1>5 DEF EntryConsistent, Handler
<1>7. Allowed(e'[w], {"Broadcast"} \cup Range(Tail(todo[w])), Len(todo[w]), "Broadcast")
  BY DEF Allowed, FillSteps, LookSteps, JoinSteps
<1>8. "Broadcast" \in Steps
  BY DEF Steps
<1>9. /\ todo' \in [Workers -> Seq(Steps)] /\ \A v \in Workers \ {w} : todo'[v] = todo[v]
      /\ Handler(w)' /\ At(w, "Broadcast")'
  BY <1>1, <1>3, <1>6, <1>7, <1>8, ContinueWithHandler
<1>10. Pending(w)' = {"Broadcast"} \cup Range(Tail(todo[w]))
  <2>1. <<"Broadcast">> \in Seq(Steps) /\ Range(<<"Broadcast">>) = {"Broadcast"}
    BY <1>8, LiteralRange
  <2> QED BY <1>1, <2>1, ContinueWithEffect, ZenonT(30) DEF TypeOK
<1> QED BY <1>1, <1>2, <1>3, <1>4, <1>5, <1>9, <1>10, TypeParts DEF LocalStep, Others

\* write() of a writer that is still writing: nothing about the Transients
\* entry is left to close.
LEMMA WriteToMemPending ==
  ASSUME TypeOK, NEW w \in Workers, Handler(w), At(w, "writeToMem")
  PROVE  /\ todo[w] # <<>> /\ Head(todo[w]) = "writeToMem" /\ e[w].io = "writing"
         /\ "completeWriting" \notin Pending(w) /\ "disconnect" \notin Pending(w)
         /\ Pending(w) = {"writeToMem"} \cup Range(Tail(todo[w]))
         /\ e[w].complete => Len(todo[w]) = 1
<1>1. todo[w] # <<>> /\ Head(todo[w]) = "writeToMem"
  BY DEF At
<1>2. Pending(w) = {"writeToMem"} \cup Range(Tail(todo[w]))
  BY <1>1, HeadPending DEF TypeOK
<1>3. Allowed(e[w], Pending(w), Len(todo[w]), "writeToMem")
  BY <1>2 DEF Handler
<1> QED BY <1>1, <1>2, <1>3 DEF Allowed, FillSteps

\* write() that decides not to cache.
LEMMA RejectLocal ==
  ASSUME TypeOK, NEW w \in Workers, Handler(w), rejectWriting(w)
  PROVE  /\ LocalStep(w) /\ e[w].io = "writing" /\ e[w].mem = "undecided" /\ e'[w].mem = "done"
         /\ e'[w].io = e[w].io /\ e'[w].collapsing = e[w].collapsing /\ "completeWriting" \notin Pending(w)'
<1>1. /\ At(w, "writeToMem") /\ e[w].mem = "undecided" /\ UNCHANGED <<xit, mem, queued, lost>>
      /\ e \in [Workers -> Entry] /\ e' = [e EXCEPT ![w].mem = "done"] /\ Continue(w)
  BY TypeParts DEF rejectWriting
<1>2. /\ e' \in [Workers -> Entry] /\ (\A v \in Workers \ {w} : e'[v] = e[v])
      /\ e'[w].io = e[w].io /\ e'[w].mem = "done" /\ e'[w].public = e[w].public
      /\ e'[w].collapsing = e[w].collapsing
      /\ e'[w].aborted = e[w].aborted /\ e'[w].complete = e[w].complete /\ e'[w].got = e[w].got
  BY <1>1 DEF Entry
<1>3. /\ todo[w] # <<>> /\ e[w].io = "writing" /\ "completeWriting" \notin Pending(w)
      /\ Pending(w) = {"writeToMem"} \cup Range(Tail(todo[w]))
  BY <1>1, WriteToMemPending
<1>4. EntryConsistent(e'[w])
  BY <1>2, <1>3 DEF EntryConsistent, Handler
<1>5. todo' \in [Workers -> Seq(Steps)] /\ (\A v \in Workers \ {w} : todo'[v] = todo[v]) /\ Handler(w)'
  BY <1>1, <1>2, <1>3, <1>4, ContinueHandler
<1>6. "completeWriting" \notin Pending(w)'
  BY <1>1, <1>3, ContinueEffect DEF TypeOK
<1> QED BY <1>1, <1>2, <1>3, <1>5, <1>6, TypeParts DEF LocalStep, Others

\* startCaching()
LEMMA StartCachingLocal ==
  ASSUME TypeOK, NEW w \in Workers, Handler(w), startCaching(w)
  PROVE  /\ LocalStep(w) /\ e[w].io = "writing" /\ e[w].mem = "undecided" /\ e'[w].mem = "writing"
         /\ e'[w].io = e[w].io /\ e'[w].collapsing = e[w].collapsing /\ e'[w].public = e[w].public
         /\ mem'.size = 0 /\ At(w, "writeToMem")
<1>1. /\ At(w, "writeToMem") /\ e[w].mem = "undecided" /\ UNCHANGED <<xit, todo, queued, lost>> /\ e[w].public
      /\ e \in [Workers -> Entry] /\ e' = [e EXCEPT ![w].mem = "writing"] /\ xit \in Xits
  BY TypeParts DEF startCaching
<1>2. /\ e' \in [Workers -> Entry] /\ (\A v \in Workers \ {w} : e'[v] = e[v])
      /\ e'[w].io = e[w].io /\ e'[w].mem = "writing" /\ e'[w].public = e[w].public
      /\ e'[w].collapsing = e[w].collapsing
      /\ e'[w].aborted = e[w].aborted /\ e'[w].complete = e[w].complete /\ e'[w].got = e[w].got
  BY <1>1 DEF Entry
<1>3. mem' \in Mems /\ mem'.size = 0
  <2>1. PICK b \in BOOLEAN : mem' = [EmptyMem EXCEPT !.used = TRUE, !.waitingToBeFreed = xit.waitingToBeFreed, !.appending = b]
    BY DEF startCaching
  <2>2. EmptyMem \in Mems /\ EmptyMem.size = 0 /\ xit.waitingToBeFreed \in BOOLEAN
    BY <1>1, EmptyTypes DEF EmptyMem, Xits
  <2> QED BY <2>1, <2>2 DEF Mems
<1>4. /\ e[w].io = "writing" /\ "completeWriting" \notin Pending(w) /\ "disconnect" \notin Pending(w)
      /\ "writeToMem" \in Pending(w)
  BY <1>1, WriteToMemPending
<1>5. EntryConsistent(e'[w])
  BY <1>2, <1>4 DEF EntryConsistent, Handler
<1>6. \A s \in Pending(w) : Allowed(e'[w], Pending(w), Len(todo[w]), s)
  <2> SUFFICES ASSUME NEW s \in Pending(w) PROVE Allowed(e'[w], Pending(w), Len(todo[w]), s)
    OBVIOUS
  <2>1. Allowed(e[w], Pending(w), Len(todo[w]), s) /\ s # "completeWriting" /\ s # "disconnect"
    BY <1>4 DEF Handler
  <2> QED BY <1>1, <1>2, <1>4, <2>1 DEF Allowed, JoinSteps, LookSteps
<1>7. Handler(w)'
  BY <1>1, <1>4, <1>5, <1>6 DEF Handler, Pending, Closes
<1> QED BY <1>1, <1>2, <1>3, <1>4, <1>7, TypeParts DEF LocalStep, Others

\* write() that copies what there is, and closes the memory cache entry of a
\* complete response.
LEMMA CopyLocal ==
  ASSUME TypeOK, NEW w \in Workers, Handler(w), copyToShm(w)
  PROVE  /\ LocalStep(w) /\ At(w, "Broadcast")' /\ e[w].io = "writing" /\ e[w].mem = "writing"
         /\ e'[w].io = e[w].io /\ e'[w].collapsing = e[w].collapsing /\ e'[w].public = e[w].public
<1>1. /\ At(w, "writeToMem") /\ e[w].mem = "writing" /\ UNCHANGED <<xit, queued, lost>>
      /\ e \in [Workers -> Entry] /\ mem \in Mems /\ mem' = [mem EXCEPT !.size = e[w].got]
  BY TypeParts DEF copyToShm
<1>2. mem' \in Mems
  BY <1>1 DEF Mems, Entry
<1>3. /\ todo[w] # <<>> /\ Head(todo[w]) = "writeToMem" /\ e[w].io = "writing"
      /\ e[w].complete => Len(todo[w]) = 1
  BY <1>1, WriteToMemPending
<1>4. "Broadcast" \in Steps /\ "completeWriting" \in Steps /\ "Broadcast" # "disconnect" /\ "completeWriting" # "disconnect"
  BY DEF Steps
<1>5. CASE ~e[w].complete
  <2>1. e' = e /\ ContinueWith(w, <<"Broadcast">>)
    BY <1>5 DEF copyToShm
  <2>2. EntryConsistent(e'[w])
    BY <2>1 DEF Handler
  <2>3. Allowed(e'[w], {"Broadcast"} \cup Range(Tail(todo[w])), Len(todo[w]), "Broadcast")
    BY DEF Allowed, FillSteps, LookSteps, JoinSteps
  <2>4. /\ todo' \in [Workers -> Seq(Steps)] /\ \A v \in Workers \ {w} : todo'[v] = todo[v]
        /\ Handler(w)' /\ At(w, "Broadcast")'
    BY <1>3, <1>4, <1>5, <2>1, <2>2, <2>3, ContinueWithHandler
  <2> QED BY <1>1, <1>2, <1>3, <2>1, <2>4, TypeParts DEF LocalStep, Others
<1>6. CASE e[w].complete
  <2> DEFINE t == <<"Broadcast", "completeWriting">>
  <2>1. e' = [e EXCEPT ![w].mem = "done"] /\ ContinueWith(w, t)
    BY <1>6 DEF copyToShm
  <2>2. /\ e' \in [Workers -> Entry] /\ (\A v \in Workers \ {w} : e'[v] = e[v])
        /\ e'[w].io = e[w].io /\ e'[w].mem = "done" /\ e'[w].public = e[w].public
        /\ e'[w].collapsing = e[w].collapsing
        /\ e'[w].aborted = e[w].aborted /\ e'[w].complete = e[w].complete /\ e'[w].got = e[w].got
    BY <1>1, <2>1 DEF Entry
  <2>3. EntryConsistent(e'[w])
    BY <1>3, <2>2 DEF EntryConsistent, Handler
  <2>4. Range(Tail(todo[w])) = {}
    BY <1>3, <1>6, LastStep DEF TypeOK
  <2>5. t \in Seq(Steps) /\ Range(t) = {"Broadcast", "completeWriting"} /\ t # <<>> /\ Head(t) = "Broadcast"
    BY <1>4, LiteralRange
  <2> HIDE DEF t
  <2>6. /\ todo' \in [Workers -> Seq(Steps)] /\ \A v \in Workers \ {w} : todo'[v] = todo[v]
        /\ Pending(w)' = {"Broadcast", "completeWriting"}
        /\ todo'[w] # <<>> /\ Head(todo'[w]) = "Broadcast" /\ OnlyLast(todo'[w], "disconnect")
    <3>1. "disconnect" \notin {"Broadcast", "completeWriting"}
      OBVIOUS
    <3>2. OnlyLast(todo[w], "disconnect")
      BY DEF Handler
    <3> QED BY <1>3, <2>1, <2>4, <2>5, <3>1, <3>2, ContinueWithEffect DEF TypeOK
  <2>7. \A s \in {"Broadcast", "completeWriting"} : Allowed(e'[w], {"Broadcast", "completeWriting"}, Len(todo'[w]), s)
    BY <1>3, <1>6, <2>2 DEF Allowed, FillSteps, LookSteps, JoinSteps
  <2>8. Handler(w)' /\ At(w, "Broadcast")'
    BY <2>2, <2>3, <2>6, <2>7 DEF Handler, At, Closes
  <2> QED BY <1>1, <1>2, <1>3, <2>2, <2>6, <2>8, TypeParts DEF LocalStep, Others
<1> QED BY <1>5, <1>6

\* MemStore::write() that runs out of slots, and MemStore::disconnect() of a
\* writer.
LEMMA AbortMemLocal ==
  ASSUME TypeOK, NEW w \in Workers, Handler(w), disconnectMem(w)
  PROVE  /\ LocalStep(w) /\ todo[w] # <<>> /\ Head(todo[w]) \in {"writeToMem", "disconnectMem"}
         /\ e'[w].io = e[w].io /\ e'[w].collapsing = e[w].collapsing /\ e'[w].public = e[w].public
         /\ e[w].mem = "writing" => e[w].io = "writing" /\ mem' = AbortedMem /\ e'[w].mem = "done"
         /\ e[w].mem # "writing" => mem' = mem /\ e'[w].mem \in {e[w].mem, "done"} /\ Continue(w)
         /\ e'[w].complete = e[w].complete /\ e'[w].got = e[w].got /\ e'[w].aborted = e[w].aborted
         /\ "completeWriting" \in Pending(w)' => "completeWriting" \in Pending(w)
<1>1. /\ todo[w] # <<>> /\ Head(todo[w]) \in {"writeToMem", "disconnectMem"} /\ UNCHANGED <<xit, queued, lost>>
      /\ e \in [Workers -> Entry] /\ mem \in Mems
  BY TypeParts DEF disconnectMem, At
<1>2. Pending(w) = {Head(todo[w])} \cup Range(Tail(todo[w]))
  BY <1>1, HeadPending DEF TypeOK
<1>a. e' = [e EXCEPT ![w].mem = IF e[w].mem \in {"reading", "writing"} THEN "done" ELSE e[w].mem]
  BY DEF disconnectMem
<1>b. /\ e' \in [Workers -> Entry] /\ (\A v \in Workers \ {w} : e'[v] = e[v])
      /\ e'[w].io = e[w].io /\ e'[w].public = e[w].public /\ e'[w].collapsing = e[w].collapsing
      /\ e'[w].aborted = e[w].aborted /\ e'[w].complete = e[w].complete /\ e'[w].got = e[w].got
      /\ e'[w].mem = IF e[w].mem \in {"reading", "writing"} THEN "done" ELSE e[w].mem
  <2> DEFINE m == IF e[w].mem \in {"reading", "writing"} THEN "done" ELSE e[w].mem
  <2>1. e[w].mem \in {"undecided", "writing", "reading", "done"}
    BY <1>1 DEF Entry
  <2>2. m \in {"undecided", "writing", "reading", "done"} /\ e' = [e EXCEPT ![w].mem = m]
    BY <1>a, <2>1
  <2> HIDE DEF m
  <2>3. /\ e' \in [Workers -> Entry] /\ (\A v \in Workers \ {w} : e'[v] = e[v])
        /\ e'[w].io = e[w].io /\ e'[w].public = e[w].public /\ e'[w].collapsing = e[w].collapsing
        /\ e'[w].aborted = e[w].aborted /\ e'[w].complete = e[w].complete /\ e'[w].got = e[w].got
        /\ e'[w].mem = m
    BY <1>1, <2>2 DEF Entry
  <2> QED BY <2>3 DEF m
<1>c. e[w].io # "none"
  BY <1>1, <1>2 DEF Handler, Allowed, FillSteps
<1>d. EntryConsistent(e'[w])
  BY <1>b, <1>c DEF EntryConsistent, Handler
<1>3. CASE e[w].mem # "writing"
  <2>1. mem' = mem /\ Continue(w) /\ e'[w].mem \in {e[w].mem, "done"}
    BY <1>3, <1>b DEF disconnectMem
  <2>2. todo' \in [Workers -> Seq(Steps)] /\ (\A v \in Workers \ {w} : todo'[v] = todo[v]) /\ Handler(w)'
    BY <1>1, <1>3, <1>b, <1>d, <2>1, ContinueHandler
  <2>3. Pending(w)' = Range(Tail(todo[w]))
    BY <1>1, <2>1, ContinueEffect DEF TypeOK
  <2> QED BY <1>1, <1>2, <1>3, <1>b, <2>1, <2>2, <2>3, TypeParts DEF LocalStep, Others
<1>4. CASE e[w].mem = "writing"
  <2>1. mem' = AbortedMem /\ ContinueWith(w, <<"stopSharing">>)
    BY <1>4 DEF disconnectMem
  <2>2. /\ e' \in [Workers -> Entry] /\ (\A v \in Workers \ {w} : e'[v] = e[v])
        /\ e'[w].io = e[w].io /\ e'[w].mem = "done" /\ e'[w].public = e[w].public
        /\ e'[w].collapsing = e[w].collapsing
        /\ e'[w].aborted = e[w].aborted /\ e'[w].complete = e[w].complete /\ e'[w].got = e[w].got
    BY <1>4, <1>b
  <2>3. e[w].io = "writing"
    <3>1. e[w].io \in {"none", "writing", "reading"}
      BY <1>1 DEF Entry
    <3> QED BY <1>4, <3>1 DEF Handler, EntryConsistent, NoEntry
  <2>4. EntryConsistent(e'[w])
    BY <2>2, <2>3 DEF EntryConsistent, Handler
  <2>5. "completeWriting" \notin Pending(w)
    BY <1>4 DEF Handler, Allowed
  <2>6. Allowed(e'[w], {"stopSharing"} \cup Range(Tail(todo[w])), Len(todo[w]), "stopSharing")
    BY <1>2, <2>2, <2>5 DEF Allowed, FillSteps, LookSteps, JoinSteps
  <2>7. "stopSharing" \in Steps
    BY DEF Steps
  <2>8. /\ todo' \in [Workers -> Seq(Steps)] /\ \A v \in Workers \ {w} : todo'[v] = todo[v]
        /\ Handler(w)'
    BY <1>1, <2>1, <2>2, <2>4, <2>6, <2>7, ContinueWithHandler
  <2>9. mem' \in Mems
    <3>1. EmptyMem \in Mems /\ [mem EXCEPT !.waitingToBeFreed = TRUE, !.writerHalted = TRUE] \in Mems
      BY <1>1, EmptyTypes DEF Mems
    <3> QED BY <2>1, <3>1 DEF AbortedMem
  <2>10. "completeWriting" \notin Pending(w)'
    <3>1. <<"stopSharing">> \in Seq(Steps) /\ Range(<<"stopSharing">>) = {"stopSharing"}
      BY <2>7, LiteralRange
    <3>2. Pending(w)' = {"stopSharing"} \cup Range(Tail(todo[w]))
      BY <1>1, <2>1, <3>1, ContinueWithEffect, ZenonT(30) DEF TypeOK
    <3> QED BY <1>2, <2>5, <3>2
  <2> QED BY <1>1, <1>4, <2>1, <2>2, <2>3, <2>8, <2>9, <2>10, TypeParts DEF LocalStep, Others
<1> QED BY <1>3, <1>4

\* Transients::completeWriting(): the writer becomes a reader.
LEMMA CompleteWritingLocal ==
  ASSUME TypeOK, NEW w \in Workers, Handler(w), completeWriting(w)
  PROVE  /\ LocalStep(w) /\ "completeWriting" \in Pending(w) /\ e[w].io # "none"
         /\ e'[w].io = "reading" /\ e[w].mem = "done" /\ e'[w].mem = "done" /\ e'[w].complete
         /\ e'[w].collapsing = e[w].collapsing /\ e'[w].public = e[w].public
<1>1. /\ todo[w] # <<>> /\ Head(todo[w]) = "completeWriting" /\ UNCHANGED <<xit, mem, queued, lost>>
      /\ e \in [Workers -> Entry] /\ Continue(w)
      /\ e' = [e EXCEPT ![w].io = IF @ = "writing" THEN "reading" ELSE @]
  BY TypeParts DEF completeWriting, At
<1>2. Pending(w) = {Head(todo[w])} \cup Range(Tail(todo[w]))
  BY <1>1, HeadPending DEF TypeOK
<1>3. e[w].io # "none" /\ e[w].mem = "done" /\ e[w].complete
  BY <1>1, <1>2 DEF Handler, Allowed
<1>4. e[w].io \in {"none", "writing", "reading"}
  BY <1>1 DEF Entry
<1>5. /\ e' \in [Workers -> Entry] /\ (\A v \in Workers \ {w} : e'[v] = e[v])
      /\ e'[w].io = "reading" /\ e'[w].mem = e[w].mem /\ e'[w].public = e[w].public
      /\ e'[w].collapsing = e[w].collapsing
      /\ e'[w].aborted = e[w].aborted /\ e'[w].complete = e[w].complete /\ e'[w].got = e[w].got
  BY <1>1, <1>3, <1>4, ZenonT(30) DEF Entry
<1>6. EntryConsistent(e'[w])
  BY <1>3, <1>5 DEF EntryConsistent, Handler
<1>7. /\ todo' \in [Workers -> Seq(Steps)] /\ \A v \in Workers \ {w} : todo'[v] = todo[v]
      /\ Pending(w)' = Range(Tail(todo[w])) /\ OnlyLast(todo'[w], "disconnect")
  BY <1>1, ContinueEffect DEF TypeOK, Handler
<1>8. Len(todo[w]) = 1 => Range(Tail(todo[w])) = {}
  BY <1>1, LastStep DEF TypeOK
<1>9. ASSUME NEW s \in Range(Tail(todo[w]))
      PROVE  Allowed(e'[w], Range(Tail(todo[w])), Len(todo'[w]), s)
  <2>1. Allowed(e[w], Pending(w), Len(todo[w]), s) /\ s \in Pending(w)
    BY <1>2 DEF Handler
  <2>2. Len(todo[w]) # 1
    BY <1>8
  <2>3. s \notin FillSteps /\ s \notin JoinSteps /\ s # "disconnect"
    BY <1>1, <1>2, <2>1, <2>2 DEF Allowed, Handler
  <2> QED BY <1>1, <1>2, <1>3, <1>5, <2>1, <2>2, <2>3 DEF Allowed, FillSteps
<1>10. Handler(w)'
  BY <1>5, <1>6, <1>7, <1>9 DEF Handler, Closes
<1> QED BY <1>1, <1>2, <1>3, <1>5, <1>7, <1>10, TypeParts DEF LocalStep, Others

\* StoreEntry::abort() of a writer.
LEMMA AbortLocal ==
  ASSUME TypeOK, NEW w \in Workers, Handler(w), abort(w)
  PROVE  /\ LocalStep(w) /\ Idle(w) /\ e[w].io = "writing" /\ ~e'[w].public
         /\ e'[w].io = e[w].io /\ e'[w].mem = e[w].mem /\ e'[w].collapsing = e[w].collapsing
<1> DEFINE t == IF e[w].public THEN EvictSteps(e[w]) ELSE <<>>
<1>1. /\ e \in [Workers -> Entry] /\ UNCHANGED <<xit, mem, queued, lost>> /\ e[w].io = "writing" /\ Idle(w)
      /\ e' = [e EXCEPT ![w].aborted = TRUE, ![w].public = FALSE] /\ Handle(w, t)
  BY TypeParts DEF abort
<1>2. /\ e' \in [Workers -> Entry] /\ (\A v \in Workers \ {w} : e'[v] = e[v])
      /\ e'[w].io = e[w].io /\ e'[w].mem = e[w].mem /\ ~e'[w].public
      /\ e'[w].collapsing = e[w].collapsing /\ e'[w].complete = e[w].complete /\ e'[w].got = e[w].got
  BY <1>1, ZenonT(30) DEF Entry
<1>3. EntryConsistent(e'[w])
  BY <1>1, <1>2 DEF EntryConsistent, Handler
<1>4. t \in Seq(Steps) /\ OnlyLast(t, "disconnect") /\ \A s \in Range(t) : Allowed(e'[w], Range(t), Len(t), s)
  BY <1>2, EvictStepsAllowed, IdlePending
<1> HIDE DEF t
<1>5. /\ todo' \in [Workers -> Seq(Steps)] /\ \A v \in Workers \ {w} : todo'[v] = todo[v]
      /\ Handler(w)'
  BY <1>1, <1>2, <1>3, <1>4, IdleCloses, HandleHandler
<1> QED BY <1>1, <1>2, <1>5, TypeParts DEF LocalStep, Others

\* Transients::get() and find() of a worker that joins.
LEMMA GetLocal ==
  ASSUME TypeOK, NEW w \in Workers, Handler(w), get(w)
  PROVE  /\ LocalStep(w) /\ Idle(w) /\ e[w].io = "none" /\ e'[w].io = "reading" /\ "share" \in Pending(w)'
         /\ e'[w].mem = "undecided" /\ e'[w].collapsing = xit.collapsing
<1> DEFINE x == [NoEntry EXCEPT !.io = "reading", !.public = TRUE, !.collapsing = xit.collapsing]
           t == <<"share">>
<1>1. /\ e \in [Workers -> Entry] /\ UNCHANGED <<xit, mem, queued>> /\ lost' \in [Workers -> BOOLEAN] /\ e[w].io = "none" /\ Idle(w)
      /\ e' = [e EXCEPT ![w] = x] /\ Handle(w, t) /\ xit \in Xits
  BY TypeParts DEF get
<1>2. /\ x \in Entry /\ x.io = "reading" /\ x.mem = "undecided" /\ ~x.aborted /\ ~x.complete
      /\ x.collapsing = xit.collapsing
  BY <1>1, EmptyTypes DEF NoEntry, Entry, Xits
<1>3. t \in Seq(Steps) /\ Range(t) = {"share"} /\ Len(t) = 1 /\ OnlyLast(t, "disconnect")
  <2>1. "share" \in Steps
    BY DEF Steps
  <2> QED BY <2>1, LiteralRange
<1> HIDE DEF x, t
<1>4. e' \in [Workers -> Entry] /\ e'[w] = x /\ \A v \in Workers \ {w} : e'[v] = e[v]
  BY <1>1, <1>2
<1>5. EntryConsistent(e'[w])
  BY <1>2, <1>4 DEF EntryConsistent
<1>6. \A s \in Range(t) : Allowed(e'[w], Range(t), Len(t), s)
  BY <1>2, <1>3, <1>4 DEF Allowed, FillSteps, LookSteps, JoinSteps
<1>7. /\ todo' \in [Workers -> Seq(Steps)] /\ \A v \in Workers \ {w} : todo'[v] = todo[v]
      /\ Handler(w)'
  BY <1>1, <1>2, <1>3, <1>4, <1>5, <1>6, HandleHandler DEF Closes
<1>8. "share" \in Pending(w)'
  BY <1>1, <1>3, HandleEffect, ZenonT(30) DEF TypeOK
<1> QED BY <1>1, <1>2, <1>4, <1>7, <1>8, TypeParts DEF LocalStep, Others

\* The steps that look, and what is pending with them.
LEMMA LookPending ==
  ASSUME TypeOK, NEW w \in Workers, Handler(w), NEW a \in LookSteps, At(w, a)
  PROVE  /\ todo[w] # <<>> /\ Head(todo[w]) = a /\ e[w].io = "reading" /\ e[w].mem # "writing"
         /\ "disconnect" \notin Pending(w) /\ Pending(w) = {a} \cup Range(Tail(todo[w]))
         /\ a \in JoinSteps => /\ e[w].mem = "undecided" /\ Len(todo[w]) = 1
                               /\ Tail(todo[w]) = <<>> /\ Range(Tail(todo[w])) = {}
<1>1. todo[w] # <<>> /\ Head(todo[w]) = a
  BY DEF At
<1>2. Pending(w) = {a} \cup Range(Tail(todo[w]))
  BY <1>1, HeadPending DEF TypeOK
<1>3. Allowed(e[w], Pending(w), Len(todo[w]), a)
  BY <1>2 DEF Handler
<1>4. e[w].io = "reading" /\ "disconnect" \notin Pending(w) /\ (a \in JoinSteps => e[w].mem = "undecided" /\ Len(todo[w]) = 1)
  BY <1>3 DEF Allowed
<1> QED BY <1>1, <1>2, <1>4, LastStep DEF Handler, EntryConsistent, TypeOK

\* What is left to a reader that has looked.
LEMMA ReaderRestAllowed ==
  ASSUME TypeOK, NEW w \in Workers, Handler(w), todo[w] # <<>>, NEW x, NEW Q, NEW n,
         e[w].io = "reading", x.io = "reading", x.mem # "writing",
         "completeWriting" \in Pending(w) => x.mem = "done" /\ x.complete,
         "completeWriting" \notin Q, "disconnect" \notin Q,
         NEW s \in Range(Tail(todo[w]))
  PROVE  Allowed(x, Q \cup Range(Tail(todo[w])), n, s)
<1> DEFINE R == Range(Tail(todo[w]))
<1>1. Pending(w) = {Head(todo[w])} \cup R
  BY HeadPending DEF TypeOK
<1>2. Len(todo[w]) # 1
  BY LastStep DEF TypeOK
<1>3. Allowed(e[w], Pending(w), Len(todo[w]), s)
  BY <1>1 DEF Handler
<1> HIDE DEF R
<1>4. s \notin JoinSteps /\ s \notin FillSteps
  BY <1>2, <1>3 DEF Allowed
<1> QED BY <1>1, <1>3, <1>4 DEF Allowed, FillSteps, R

\* allowSharing() remembers whether there is a writer.
LEMMA ShareLocal ==
  ASSUME TypeOK, NEW w \in Workers, Handler(w), share(w)
  PROVE  LocalStep(w) /\ Looks(w)'
<1>0. PICK a \in {"anchor", "anchorWithoutWriter"} : ContinueWith(w, <<a>>)
  BY DEF share
<1>1. At(w, "share") /\ ContinueWith(w, <<a>>) /\ UNCHANGED <<xit, mem, e, queued, lost>> /\ a \in {"anchor", "anchorWithoutWriter"}
  BY <1>0 DEF share
<1>2. "share" \in LookSteps /\ "share" \in JoinSteps /\ a \in LookSteps /\ a \in JoinSteps /\ a \in Steps
  BY <1>1 DEF LookSteps, JoinSteps, Steps
<1>3. /\ todo[w] # <<>> /\ Head(todo[w]) = "share" /\ e[w].io = "reading" /\ e[w].mem = "undecided"
      /\ Len(todo[w]) = 1 /\ Range(Tail(todo[w])) = {}
  BY <1>1, <1>2, LookPending
<1>4. Allowed(e'[w], {a} \cup Range(Tail(todo[w])), Len(todo[w]), a)
  BY <1>1, <1>3 DEF Allowed, FillSteps, LookSteps, JoinSteps
<1>5. EntryConsistent(e'[w]) /\ e'[w] = e[w]
  BY <1>1 DEF Handler
<1>6. /\ todo' \in [Workers -> Seq(Steps)] /\ \A v \in Workers \ {w} : todo'[v] = todo[v]
      /\ Handler(w)' /\ At(w, a)'
  <2>1. a \notin {"completeWriting", "disconnect"} /\ Head(todo[w]) # "disconnectMem" /\ Head(todo[w]) # "writeToMem"
    BY <1>1, <1>3
  <2>2. /\ e'[w].io = e[w].io /\ e'[w].complete = e[w].complete /\ (e'[w].public => e[w].public)
        /\ e'[w].mem = e[w].mem
    BY <1>5
  <2> QED BY <1>1, <1>2, <1>3, <1>4, <1>5, <2>1, <2>2, ContinueWithHandler
<1>7. Looks(w)'
  <2>1. <<a>> \in Seq(Steps) /\ Range(<<a>>) = {a}
    BY <1>2, LiteralRange
  <2>2. a \in Pending(w)'
    BY <1>1, <1>3, <2>1, ContinueWithEffect DEF TypeOK
  <2> QED BY <1>2, <2>2 DEF Looks
<1> QED BY <1>1, <1>6, <1>7 DEF LocalStep, TypeOK, Others

\* copyFromShm() of a reader.
LEMMA LoadedEntry ==
  ASSUME TypeOK, NEW w \in Workers, Handler(w), e[w].io = "reading"
  PROVE  /\ Loaded(e[w]) \in Entry /\ Loaded(e[w]).io = "reading" /\ Loaded(e[w]).mem \in {"done", "reading"}
         /\ Loaded(e[w]).mem = "reading" => MemWriters # {} /\ Loaded(e[w]).got = mem.size
         /\ Loaded(e[w]).aborted = e[w].aborted /\ Loaded(e[w]).public = e[w].public
         /\ Loaded(e[w]).collapsing = e[w].collapsing
         /\ EntryConsistent(Loaded(e[w]))
<1> DEFINE eof == MemWriters = {}
           x == [e[w] EXCEPT !.got = mem.size, !.complete = eof, !.mem = IF eof THEN "done" ELSE "reading"]
<1>1. e[w] \in Entry /\ mem.size \in 0..Whole /\ eof \in BOOLEAN
  BY TypeParts DEF Mems
<1>2. Loaded(e[w]) = x
  BY DEF Loaded
<1> HIDE DEF eof
<1>3. /\ x \in Entry /\ x.io = "reading" /\ x.mem = (IF eof THEN "done" ELSE "reading") /\ x.got = mem.size
      /\ x.complete = eof
      /\ x.aborted = e[w].aborted /\ x.public = e[w].public /\ x.collapsing = e[w].collapsing
  BY <1>1 DEF Entry
<1> HIDE DEF x
<1>4. EntryConsistent(x)
  BY <1>3 DEF EntryConsistent, Handler
<1> QED BY <1>2, <1>3, <1>4 DEF eof

\* A reader that is done with a step.
LEMMA ReaderContinue ==
  ASSUME TypeOK, NEW w \in Workers, Handler(w), todo[w] # <<>>, Continue(w),
         e[w].io = "reading", e'[w].io = "reading", EntryConsistent(e'[w]),
         "completeWriting" \in Pending(w) => e'[w].mem = "done" /\ e'[w].complete
  PROVE  /\ todo' \in [Workers -> Seq(Steps)] /\ \A v \in Workers \ {w} : todo'[v] = todo[v]
         /\ Handler(w)'
<1>1. /\ todo' \in [Workers -> Seq(Steps)] /\ \A v \in Workers \ {w} : todo'[v] = todo[v]
      /\ Pending(w)' = {} \cup Range(Tail(todo[w]))
      /\ OnlyLast(todo'[w], "disconnect")
  BY ContinueEffect DEF TypeOK, Handler
<1>2. e'[w].mem # "writing"
  BY DEF EntryConsistent
<1>3. \A s \in Range(Tail(todo[w])) : Allowed(e'[w], {} \cup Range(Tail(todo[w])), Len(todo'[w]), s)
  BY <1>2, ReaderRestAllowed
<1> QED BY <1>1, <1>3 DEF Handler, Closes

\* What a reader knows about the memory cache right after it has looked.
Fresh(w) ==
  /\ e'[w].mem = "undecided" => ~InMem
  /\ e'[w].mem = "reading" => e'[w].got = mem.size /\ MemWriters # {}

\* A reader that has looked, if it is still one, knows what there is.
Looked(w) ==
  /\ e[w].io = "reading" /\ e'[w].io = "reading" /\ UNCHANGED <<xit, mem, queued, lost>>
  /\ e'[w].public = e[w].public /\ e'[w].collapsing = e[w].collapsing /\ e'[w].aborted = e[w].aborted
  /\ e[w].mem # "writing" /\ e'[w].mem # "writing" /\ (e[w].complete => e'[w].complete)
  /\ Fresh(w) \/ Looks(w)'

\* allowSharing()
LEMMA AnchorLocal ==
  ASSUME TypeOK, NEW w \in Workers, Handler(w), anchor(w)
  PROVE  LocalStep(w) /\ Looked(w)
<1>1. PICK a \in {"anchor", "anchorWithoutWriter"} : At(w, a)
  BY DEF anchor
<1>2. UNCHANGED <<xit, mem, queued, lost>> /\ a \in LookSteps /\ a \in JoinSteps
  BY DEF anchor, LookSteps, JoinSteps
<1>3. /\ todo[w] # <<>> /\ e[w].io = "reading" /\ e[w].mem = "undecided" /\ Len(todo[w]) = 1
      /\ Pending(w) = {a} /\ Tail(todo[w]) = <<>>
  BY <1>1, <1>2, LookPending
<1>4. e \in [Workers -> Entry] /\ EntryConsistent(e[w]) /\ todo \in [Workers -> Seq(Steps)]
  BY TypeParts DEF Handler
<1>5. CASE e' = [e EXCEPT ![w] = Loaded(e[w])] /\ Continue(w)
  <2>1. e' = [e EXCEPT ![w] = Loaded(e[w])] /\ Continue(w)
    BY <1>5
  <2> DEFINE x == Loaded(e[w])
  <2>2. /\ x \in Entry /\ x.io = "reading" /\ x.mem \in {"done", "reading"} /\ EntryConsistent(x)
        /\ x.mem = "reading" => MemWriters # {} /\ x.got = mem.size
        /\ x.aborted = e[w].aborted /\ x.public = e[w].public /\ x.collapsing = e[w].collapsing
    BY <1>3, LoadedEntry
  <2>c. ~e[w].complete
    BY <1>3, <1>4 DEF EntryConsistent
  <2> HIDE DEF x
  <2>3. e' \in [Workers -> Entry] /\ e'[w] = x /\ \A v \in Workers \ {w} : e'[v] = e[v]
    BY <1>4, <2>1, <2>2 DEF x
  <2>4. "completeWriting" \notin Pending(w)
    BY <1>3
  <2>5. todo' \in [Workers -> Seq(Steps)] /\ (\A v \in Workers \ {w} : todo'[v] = todo[v]) /\ Handler(w)'
    BY <1>3, <2>1, <2>2, <2>3, <2>4, ReaderContinue
  <2>6. Fresh(w)
    BY <2>2, <2>3 DEF Fresh
  <2> QED BY <1>2, <1>3, <2>c, <2>2, <2>3, <2>5, <2>6, TypeParts DEF LocalStep, Looked, Others
<1>6. CASE ~InMem /\ UNCHANGED e /\ Continue(w)
  <2>1. "completeWriting" \notin Pending(w)
    BY <1>3
  <2>2. todo' \in [Workers -> Seq(Steps)] /\ (\A v \in Workers \ {w} : todo'[v] = todo[v]) /\ Handler(w)'
    BY <1>3, <1>4, <1>6, <2>1, ReaderContinue
  <2>3. Fresh(w)
    BY <1>3, <1>6 DEF Fresh
  <2> QED BY <1>2, <1>3, <1>4, <1>6, <2>2, <2>3, TypeParts DEF LocalStep, Looked, Others
<1>7. CASE /\ UNCHANGED e \/ e' = [e EXCEPT ![w] = NotLoaded(e[w])]
           /\ AbandonFound(w)
  <2> DEFINE s == EvictSteps(e'[w])
             l == <<"disconnectMem", "disconnect">>
             t == s \o l
  <2>0. /\ e' \in [Workers -> Entry] /\ (\A v \in Workers \ {w} : e'[v] = e[v])
        /\ e'[w].io = e[w].io /\ e'[w].public = e[w].public /\ e'[w].collapsing = e[w].collapsing
        /\ e'[w].aborted = e[w].aborted /\ e'[w].complete = e[w].complete /\ e'[w].mem \in {"undecided", "reading"}
        /\ EntryConsistent(e'[w])
    <3>1. CASE UNCHANGED e
      BY <1>3, <1>4, <3>1
    <3>2. CASE e' = [e EXCEPT ![w] = NotLoaded(e[w])]
      <4>1. e' \in [Workers -> Entry] /\ (\A v \in Workers \ {w} : e'[v] = e[v]) /\ e'[w] = [e[w] EXCEPT !.mem = "reading"]
        BY <1>4, <3>2 DEF NotLoaded, Entry
      <4>2. /\ e'[w].io = e[w].io /\ e'[w].public = e[w].public /\ e'[w].collapsing = e[w].collapsing
            /\ e'[w].aborted = e[w].aborted /\ e'[w].complete = e[w].complete /\ e'[w].mem = "reading"
        BY <1>4, <4>1 DEF Entry
      <4> QED BY <1>3, <1>4, <4>1, <4>2 DEF EntryConsistent
    <3> QED BY <1>7, <3>1, <3>2
  <2>1. ContinueWith(w, t)
    BY <1>7 DEF AbandonFound
  <2>2. s \in Seq(Steps) /\ Range(s) \subseteq {"stopSharing", "evictFromMem", "evictFromMemByKey"}
    <3>1. PICK y : ~y.public
      <4>1. ~NoEntry.public
        BY DEF NoEntry
      <4> QED BY <4>1
    <3> QED BY <3>1, EvictStepsAllowed
  <2>3. l \in Seq(Steps) /\ Range(l) = {"disconnectMem", "disconnect"} /\ OnlyLast(l, "disconnect")
    <3>1. "disconnectMem" \in Steps /\ "disconnect" \in Steps /\ "disconnectMem" # "disconnect"
      BY DEF Steps
    <3> QED BY <3>1, LiteralRange
  <2>4. "disconnect" \notin Range(s)
    BY <2>2
  <2> HIDE DEF s, l
  <2>5. t \in Seq(Steps) /\ Range(t) = Range(s) \cup {"disconnectMem", "disconnect"} /\ OnlyLast(t, "disconnect")
    BY <2>2, <2>3, <2>4, ConcatRange
  <2> HIDE DEF t
  <2>6. /\ todo' \in [Workers -> Seq(Steps)] /\ (\A v \in Workers \ {w} : todo'[v] = todo[v])
        /\ todo'[w] = t \o <<>>
    BY <1>3, <1>4, <2>1, <2>5, ContinueWithEffect
  <2>7. todo'[w] = t /\ Pending(w)' = Range(t)
    BY <2>5, <2>6, ConcatEmptySeq DEF Pending
  <2>8. \A p \in Range(t) : Allowed(e'[w], Range(t), Len(t), p)
    <3>1. Range(t) \subseteq {"stopSharing", "evictFromMem", "evictFromMemByKey", "disconnectMem", "disconnect"}
      BY <2>2, <2>5
    <3> QED BY <1>3, <2>0, <3>1 DEF Allowed, FillSteps, LookSteps, JoinSteps
  <2>9. Handler(w)'
    BY <1>3, <2>0, <2>5, <2>7, <2>8 DEF Handler, Closes
  <2>10. Looks(w)'
    BY <2>5, <2>7 DEF Looks
  <2> QED BY <1>2, <1>3, <1>4, <2>0, <2>6, <2>9, <2>10, TypeParts DEF LocalStep, Looked, Others
<1> QED BY <1>5, <1>6, <1>7 DEF anchor

\* syncCollapsed(), the cache part.
LEMMA SyncLocal ==
  ASSUME TypeOK, NEW w \in Workers, Handler(w), sync(w)
  PROVE  LocalStep(w) /\ Looked(w)
<1>1. PICK a \in {"sync", "syncMarked"} : At(w, a)
  BY DEF sync
<1>2. UNCHANGED <<xit, mem, queued, lost>> /\ a \in LookSteps
  BY DEF sync, LookSteps
<1>3. /\ todo[w] # <<>> /\ Head(todo[w]) = a /\ e[w].io = "reading" /\ e[w].mem # "writing"
      /\ Pending(w) = {a} \cup Range(Tail(todo[w])) /\ "disconnect" \notin Pending(w)
  BY <1>1, <1>2, LookPending
<1>4. e \in [Workers -> Entry] /\ EntryConsistent(e[w]) /\ todo \in [Workers -> Seq(Steps)]
  BY TypeParts DEF Handler
<1>5. "completeWriting" \in Pending(w) => e[w].mem = "done" /\ e[w].complete
  BY DEF Handler, Allowed
<1>6. CASE /\ UNCHANGED e /\ Continue(w)
           /\ e[w].mem = "done" \/ (e[w].mem = "undecided" /\ ~InMem)
  <2>1. todo' \in [Workers -> Seq(Steps)] /\ (\A v \in Workers \ {w} : todo'[v] = todo[v]) /\ Handler(w)'
    BY <1>3, <1>4, <1>5, <1>6, ReaderContinue
  <2>2. Fresh(w)
    BY <1>6 DEF Fresh
  <2> QED BY <1>2, <1>3, <1>4, <1>6, <2>1, <2>2, TypeParts DEF LocalStep, Looked, Others
<1>7. CASE /\ e' = [e EXCEPT ![w] = Loaded(e[w])] /\ Continue(w)
           /\ e[w].mem \in {"reading", "undecided"}
  <2> DEFINE x == Loaded(e[w])
  <2>2. /\ x \in Entry /\ x.io = "reading" /\ x.mem \in {"done", "reading"} /\ EntryConsistent(x)
        /\ x.mem = "reading" => MemWriters # {} /\ x.got = mem.size
        /\ x.aborted = e[w].aborted /\ x.public = e[w].public /\ x.collapsing = e[w].collapsing
    BY <1>3, LoadedEntry
  <2>c. ~e[w].complete
    BY <1>3, <1>4, <1>7 DEF EntryConsistent
  <2> HIDE DEF x
  <2>3. e' \in [Workers -> Entry] /\ e'[w] = x /\ \A v \in Workers \ {w} : e'[v] = e[v]
    BY <1>4, <1>7, <2>2 DEF x
  <2>4. "completeWriting" \notin Pending(w)
    BY <1>5, <1>7
  <2>5. todo' \in [Workers -> Seq(Steps)] /\ (\A v \in Workers \ {w} : todo'[v] = todo[v]) /\ Handler(w)'
    BY <1>3, <1>7, <2>2, <2>3, <2>4, ReaderContinue
  <2>6. Fresh(w)
    BY <2>2, <2>3 DEF Fresh
  <2> QED BY <1>2, <1>3, <2>c, <2>2, <2>3, <2>5, <2>6, TypeParts DEF LocalStep, Looked, Others
<1>8. CASE UNCHANGED e /\ ContinueWith(w, <<"abortReader">>)
  <2>1. "abortReader" \in Steps /\ "abortReader" \in LookSteps
    BY DEF Steps, LookSteps
  <2>2. Allowed(e'[w], {"abortReader"} \cup Range(Tail(todo[w])), Len(todo[w]), "abortReader")
    BY <1>3, <1>8 DEF Allowed, FillSteps, JoinSteps
  <2>3. /\ EntryConsistent(e'[w]) /\ e'[w].io = e[w].io /\ e'[w].complete = e[w].complete
        /\ (e'[w].public => e[w].public) /\ e'[w].mem = e[w].mem /\ Head(todo[w]) # "disconnectMem" /\ Head(todo[w]) # "writeToMem"
    BY <1>3, <1>4, <1>8
  <2>4. todo' \in [Workers -> Seq(Steps)] /\ (\A v \in Workers \ {w} : todo'[v] = todo[v]) /\ Handler(w)'
    BY <1>3, <1>8, <2>1, <2>2, <2>3, ContinueWithHandler
  <2>5. Looks(w)'
    <3>1. <<"abortReader">> \in Seq(Steps) /\ Range(<<"abortReader">>) = {"abortReader"}
      BY <2>1, LiteralRange
    <3>2. Pending(w)' = {"abortReader"} \cup Range(Tail(todo[w]))
      BY <1>3, <1>4, <1>8, <3>1, ContinueWithEffect
    <3> QED BY <2>1, <3>2 DEF Looks
  <2> QED BY <1>2, <1>3, <1>4, <1>8, <2>4, <2>5, TypeParts DEF LocalStep, Looked, Others
<1>9. CASE /\ e' = [e EXCEPT ![w] = NotLoaded(e[w])] /\ ContinueWith(w, <<"abortReader">>)
           /\ e[w].mem \in {"reading", "undecided"}
  <2>1. "abortReader" \in Steps /\ "abortReader" \in LookSteps
    BY DEF Steps, LookSteps
  <2>2. /\ e' \in [Workers -> Entry] /\ (\A v \in Workers \ {w} : e'[v] = e[v])
        /\ e'[w].io = e[w].io /\ e'[w].public = e[w].public /\ e'[w].collapsing = e[w].collapsing
        /\ e'[w].aborted = e[w].aborted /\ e'[w].complete = e[w].complete /\ e'[w].mem = "reading"
        /\ EntryConsistent(e'[w])
    <3>1. e' \in [Workers -> Entry] /\ (\A v \in Workers \ {w} : e'[v] = e[v]) /\ e'[w] = [e[w] EXCEPT !.mem = "reading"]
      BY <1>4, <1>9 DEF NotLoaded, Entry
    <3>2. /\ e'[w].io = e[w].io /\ e'[w].public = e[w].public /\ e'[w].collapsing = e[w].collapsing
          /\ e'[w].aborted = e[w].aborted /\ e'[w].complete = e[w].complete /\ e'[w].mem = "reading"
      BY <1>4, <3>1 DEF Entry
    <3> QED BY <1>3, <1>4, <1>9, <3>1, <3>2 DEF EntryConsistent
  <2>3. "completeWriting" \notin Pending(w)
    BY <1>5, <1>9
  <2>4. Allowed(e'[w], {"abortReader"} \cup Range(Tail(todo[w])), Len(todo[w]), "abortReader")
    BY <1>3, <2>2 DEF Allowed, FillSteps, JoinSteps
  <2>5. <<"abortReader">> \in Seq(Steps) /\ Range(<<"abortReader">>) = {"abortReader"} /\ Len(<<"abortReader">>) = 1
    BY <2>1, LiteralRange
  <2>6. OnlyLast(todo[w], "disconnect") /\ Len(todo[w]) \in Nat
    BY <1>4, LenProperties DEF Handler
  <2>7. /\ todo' \in [Workers -> Seq(Steps)] /\ (\A v \in Workers \ {w} : todo'[v] = todo[v])
        /\ Pending(w)' = {"abortReader"} \cup Range(Tail(todo[w])) /\ Len(todo'[w]) = 1 + Len(todo[w]) - 1
        /\ OnlyLast(todo'[w], "disconnect")
    BY <1>3, <1>4, <1>9, <2>5, <2>6, ContinueWithEffect, ZenonT(30)
  <2>8. Len(todo'[w]) = Len(todo[w])
    BY <2>6, <2>7
  <2>9. \A p \in Range(Tail(todo[w])) : Allowed(e'[w], {"abortReader"} \cup Range(Tail(todo[w])), Len(todo'[w]), p)
    BY <1>3, <2>2, <2>3, ReaderRestAllowed
  <2>10. Handler(w)'
    BY <2>2, <2>4, <2>7, <2>8, <2>9 DEF Handler, Closes
  <2>11. Looks(w)'
    BY <2>1, <2>7 DEF Looks
  <2> QED BY <1>2, <1>3, <1>9, <2>2, <2>7, <2>10, <2>11, TypeParts DEF LocalStep, Looked, Others
<1> QED BY <1>6, <1>7, <1>8, <1>9 DEF sync, Found

\* StoreEntry::abort() of a reader.
LEMMA AbortReaderLocal ==
  ASSUME TypeOK, NEW w \in Workers, Handler(w), abortReader(w)
  PROVE  /\ LocalStep(w) /\ e[w].io = "reading" /\ e'[w].io = "reading" /\ ~e'[w].public
         /\ e'[w].aborted \/ e'[w].complete
         /\ e[w].mem # "writing" /\ e'[w].mem = e[w].mem /\ e'[w].collapsing = e[w].collapsing
<1> DEFINE t == IF e[w].public THEN EvictSteps(e[w]) ELSE <<>>
<1>1. /\ UNCHANGED <<xit, mem, queued, lost>> /\ "abortReader" \in LookSteps /\ At(w, "abortReader") /\ ContinueWith(w, t)
      /\ e' = [e EXCEPT ![w].aborted = ~e[w].complete, ![w].public = FALSE]
  BY DEF abortReader, LookSteps
<1>2. /\ todo[w] # <<>> /\ Head(todo[w]) = "abortReader" /\ e[w].io = "reading" /\ e[w].mem # "writing"
  BY <1>1, LookPending
<1>3. e \in [Workers -> Entry] /\ EntryConsistent(e[w]) /\ todo \in [Workers -> Seq(Steps)] /\ OnlyLast(todo[w], "disconnect")
  BY TypeParts DEF Handler
<1>4. "completeWriting" \in Pending(w) => e[w].mem = "done" /\ e[w].complete
  BY DEF Handler, Allowed
<1>5. /\ e' \in [Workers -> Entry] /\ (\A v \in Workers \ {w} : e'[v] = e[v])
      /\ e'[w].io = e[w].io /\ e'[w].mem = e[w].mem /\ ~e'[w].public /\ e'[w].aborted = ~e[w].complete
      /\ e'[w].collapsing = e[w].collapsing /\ e'[w].complete = e[w].complete
  BY <1>1, <1>3, ZenonT(30) DEF Entry
<1>6. EntryConsistent(e'[w])
  BY <1>2, <1>3, <1>5 DEF EntryConsistent
<1>7. /\ t \in Seq(Steps) /\ "completeWriting" \notin Range(t) /\ "disconnect" \notin Range(t)
      /\ \A Q, n : \A s \in Range(t) : Allowed(e'[w], Q, n, s)
  BY <1>5, EvictStepsAllowed, IdlePending
<1> HIDE DEF t
<1>8. /\ todo' \in [Workers -> Seq(Steps)] /\ (\A v \in Workers \ {w} : todo'[v] = todo[v])
      /\ Pending(w)' = Range(t) \cup Range(Tail(todo[w])) /\ OnlyLast(todo'[w], "disconnect")
  BY <1>1, <1>2, <1>3, <1>7, ContinueWithEffect
<1>9. \A s \in Range(Tail(todo[w])) : Allowed(e'[w], Range(t) \cup Range(Tail(todo[w])), Len(todo'[w]), s)
  BY <1>2, <1>4, <1>5, <1>7, ReaderRestAllowed
<1>10. Handler(w)'
  BY <1>2, <1>5, <1>6, <1>7, <1>8, <1>9 DEF Handler, Closes
<1>11. e'[w].aborted \/ e'[w].complete
  BY <1>5
<1> QED BY <1>1, <1>2, <1>5, <1>8, <1>10, <1>11, TypeParts DEF LocalStep, Others

\* The last unlock().
LEMMA AbandonLocal ==
  ASSUME TypeOK, NEW w \in Workers, Handler(w), abandon(w)
  PROVE  /\ LocalStep(w) /\ Idle(w) /\ e'[w].io = e[w].io /\ ~e'[w].public /\ e'[w].aborted = e[w].aborted
         /\ e'[w].mem = e[w].mem /\ e'[w].collapsing = e[w].collapsing /\ e'[w].got = e[w].got
         /\ e'[w].complete = e[w].complete /\ "completeWriting" \notin Pending(w)'
<1> DEFINE idle == e[w].public /\ (e[w].io = "reading" \/ e[w].complete)
           s == IF e[w].public THEN EvictSteps(e[w]) ELSE <<>>
           l == <<"disconnectMem", "disconnect">>
           t == s \o l
           d == <<"disconnect">>
<1>1. /\ UNCHANGED <<xit, mem, queued, lost>> /\ Idle(w) /\ e[w].io # "none"
      /\ idle => Handle(w, d)
      /\ ~idle => Handle(w, t)
      /\ e' = [e EXCEPT ![w].public = FALSE]
  BY DEF abandon
<1>2. e \in [Workers -> Entry] /\ EntryConsistent(e[w])
  BY TypeParts DEF Handler
<1>3. /\ e' \in [Workers -> Entry] /\ (\A v \in Workers \ {w} : e'[v] = e[v])
      /\ e'[w].io = e[w].io /\ e'[w].mem = e[w].mem /\ ~e'[w].public /\ e'[w].aborted = e[w].aborted
      /\ e'[w].collapsing = e[w].collapsing /\ e'[w].complete = e[w].complete /\ e'[w].got = e[w].got
  BY <1>1, <1>2 DEF Entry
<1>4. EntryConsistent(e'[w])
  BY <1>1, <1>2, <1>3 DEF EntryConsistent
<1>5. \A Q : Closes(e'[w], Q)
  BY <1>1, <1>3, IdleCloses
<1>6. CASE ~idle
  <2>1. /\ s \in Seq(Steps) /\ "disconnect" \notin Range(s) /\ "completeWriting" \notin Range(s)
        /\ \A Q, n : \A p \in Range(s) : Allowed(e'[w], Q, n, p)
    BY <1>3, EvictStepsAllowed, IdlePending
  <2>2. l \in Seq(Steps) /\ Range(l) = {"disconnectMem", "disconnect"} /\ OnlyLast(l, "disconnect")
    <3>1. "disconnectMem" \in Steps /\ "disconnect" \in Steps /\ "disconnectMem" # "disconnect"
      BY DEF Steps
    <3> QED BY <3>1, LiteralRange
  <2> HIDE DEF s, l
  <2>3. t \in Seq(Steps) /\ Range(t) = Range(s) \cup {"disconnectMem", "disconnect"} /\ OnlyLast(t, "disconnect")
    BY <2>1, <2>2, ConcatRange
  <2> HIDE DEF t
  <2>4. \A p \in {"disconnectMem", "disconnect"} : Allowed(e'[w], Range(t), Len(t), p)
    BY <1>1, <1>3, <2>3 DEF Allowed, FillSteps, LookSteps, JoinSteps
  <2>5. Handle(w, t)
    BY <1>1, <1>6
  <2>6. todo' \in [Workers -> Seq(Steps)] /\ (\A v \in Workers \ {w} : todo'[v] = todo[v]) /\ Handler(w)'
    BY <1>4, <1>5, <2>1, <2>3, <2>4, <2>5, HandleHandler
  <2>7. Pending(w)' = Range(t)
    BY <2>3, <2>5, HandleEffect DEF TypeOK
  <2> QED BY <1>1, <1>3, <2>1, <2>3, <2>6, <2>7, TypeParts DEF LocalStep, Others
<1>7. CASE idle
  <2>1. d \in Seq(Steps) /\ Range(d) = {"disconnect"} /\ OnlyLast(d, "disconnect")
    <3>1. "disconnect" \in Steps
      BY DEF Steps
    <3> QED BY <3>1, LiteralRange
  <2>2. e'[w].mem # "writing"
    <3>1. CASE e[w].io = "reading"
      BY <1>2, <1>3, <3>1 DEF EntryConsistent
    <3>2. CASE e[w].io # "reading"
      <4>1. e[w].io = "writing" /\ e[w].complete
        BY <1>1, <1>2, <1>7, <3>2 DEF Entry
      <4>2. Closes(e'[w], {})
        BY <1>5
      <4> QED BY <1>3, <4>1, <4>2 DEF Closes
    <3> QED BY <3>1, <3>2
  <2> HIDE DEF d
  <2>3. \A p \in Range(d) : Allowed(e'[w], Range(d), Len(d), p)
    BY <2>1, <2>2 DEF Allowed, FillSteps, LookSteps, JoinSteps
  <2>4. Handle(w, d)
    BY <1>1, <1>7
  <2>5. todo' \in [Workers -> Seq(Steps)] /\ (\A v \in Workers \ {w} : todo'[v] = todo[v]) /\ Handler(w)'
    BY <1>4, <1>5, <2>1, <2>3, <2>4, HandleHandler
  <2>6. Pending(w)' = Range(d)
    BY <2>1, <2>4, HandleEffect DEF TypeOK
  <2> QED BY <1>1, <1>3, <2>1, <2>5, <2>6, TypeParts DEF LocalStep, Others
<1> QED BY <1>6, <1>7

\* HandleNewData() and syncCollapsed(): the Transients entry.
LEMMA SyncCollapsedLocal ==
  ASSUME TypeOK, NEW w \in Workers, Handler(w), syncCollapsed(w)
  PROVE  /\ LocalStep(w) /\ Idle(w) /\ UNCHANGED <<xit, mem>> /\ e'[w].io = e[w].io
         /\ \A v \in Workers \ {w} : queued'[v] = queued[v] /\ lost'[v] = lost[v]
         /\ e'[w].mem = e[w].mem /\ e'[w].aborted = e[w].aborted
         /\ \/ e'[w] = e[w] /\ (e[w].io = "none" \/ e[w].aborted)
            \/ /\ e'[w].collapsing = (e[w].collapsing /\ xit.collapsing)
               /\ e'[w].public => ~xit.waitingToBeFreed
               /\ e[w].io = "reading" => Looks(w)'
<1>1. /\ UNCHANGED <<xit, mem, lost>> /\ Idle(w) /\ queued[w] > 0 /\ queued' = [queued EXCEPT ![w] = @ - 1]
  BY DEF syncCollapsed
<1>2. e \in [Workers -> Entry] /\ EntryConsistent(e[w]) /\ xit \in Xits /\ queued \in [Workers -> 0..QueueCapacity]
  BY TypeParts DEF Handler
<1>3. queued' \in [Workers -> 0..QueueCapacity] /\ \A v \in Workers \ {w} : queued'[v] = queued[v] /\ lost'[v] = lost[v]
  <2>1. queued[w] - 1 \in 0..QueueCapacity
    BY <1>1, <1>2, SizesAssumption
  <2> QED BY <1>1, <1>2, <2>1
<1>4. CASE e[w].io = "none" \/ e[w].aborted
  <2>1. UNCHANGED <<e, todo>>
    BY <1>4 DEF syncCollapsed
  <2>2. Handler(w)'
    BY <2>1 DEF Handler, Pending
  <2> QED BY <1>1, <1>2, <1>3, <1>4, <2>1, <2>2, TypeParts DEF LocalStep, Others, TypeOK
<1>5. CASE ~(e[w].io = "none" \/ e[w].aborted)
  <2> DEFINE s == IF xit.waitingToBeFreed /\ e[w].public THEN EvictSteps(e[w]) ELSE <<>>
             l == IF e[w].io = "reading" THEN SyncSteps(w) ELSE <<>>
             t == s \o l
  <2>1. /\ e' = [e EXCEPT ![w].collapsing = e[w].collapsing /\ xit.collapsing,
                          ![w].public = e[w].public /\ ~xit.waitingToBeFreed]
        /\ Handle(w, t)
    BY <1>5 DEF syncCollapsed
  <2>2. /\ e' \in [Workers -> Entry] /\ (\A v \in Workers \ {w} : e'[v] = e[v])
        /\ e'[w].io = e[w].io /\ e'[w].mem = e[w].mem /\ e'[w].aborted = e[w].aborted
        /\ e'[w].complete = e[w].complete /\ e'[w].got = e[w].got
        /\ e'[w].collapsing = (e[w].collapsing /\ xit.collapsing)
        /\ e'[w].public = (e[w].public /\ ~xit.waitingToBeFreed)
    <3>1. xit.collapsing \in BOOLEAN /\ xit.waitingToBeFreed \in BOOLEAN
      BY <1>2 DEF Xits
    <3> DEFINE c == e[w].collapsing /\ xit.collapsing
               u == e[w].public /\ ~xit.waitingToBeFreed
    <3>2. c \in BOOLEAN /\ u \in BOOLEAN
      OBVIOUS
    <3>3. e' = [e EXCEPT ![w].collapsing = c, ![w].public = u]
      BY <2>1
    <3> HIDE DEF c, u
    <3>4. /\ e' \in [Workers -> Entry] /\ (\A v \in Workers \ {w} : e'[v] = e[v])
          /\ e'[w].io = e[w].io /\ e'[w].mem = e[w].mem /\ e'[w].aborted = e[w].aborted
          /\ e'[w].complete = e[w].complete /\ e'[w].got = e[w].got
          /\ e'[w].collapsing = c /\ e'[w].public = u
      BY <1>2, <3>2, <3>3, ZenonT(30) DEF Entry
    <3> QED BY <3>4 DEF c, u
  <2>3. EntryConsistent(e'[w])
    BY <1>2, <1>5, <2>2 DEF EntryConsistent
  <2>4. /\ s \in Seq(Steps) /\ "disconnect" \notin Range(s)
        /\ \A Q, n : \A p \in Range(s) : Allowed(e'[w], Q, n, p)
    <3>1. CASE xit.waitingToBeFreed /\ e[w].public
      <4>1. ~e'[w].public
        BY <2>2, <3>1
      <4> QED BY <3>1, <4>1, EvictStepsAllowed
    <3>2. CASE ~(xit.waitingToBeFreed /\ e[w].public)
      BY <3>2, IdlePending
    <3> QED BY <3>1, <3>2
  <2>5. /\ l \in Seq(Steps) /\ Range(l) \subseteq {"abortReader", "syncMarked", "sync"} /\ OnlyLast(l, "disconnect")
        /\ Range(l) # {} <=> e[w].io = "reading"
    <3>1. ASSUME NEW a \in {"abortReader", "syncMarked", "sync"}
          PROVE  <<a>> \in Seq(Steps) /\ Range(<<a>>) = {a} /\ OnlyLast(<<a>>, "disconnect")
      <4>1. a \in Steps
        BY DEF Steps
      <4> QED BY <4>1, LiteralRange
    <3>2. \E a \in {"abortReader", "syncMarked", "sync"} : SyncSteps(w) = <<a>>
      BY DEF SyncSteps
    <3> QED BY <3>1, <3>2, IdlePending
  <2> HIDE DEF s, l
  <2>6. t \in Seq(Steps) /\ Range(t) = Range(s) \cup Range(l) /\ OnlyLast(t, "disconnect")
    BY <2>4, <2>5, ConcatRange
  <2> HIDE DEF t
  <2>7. \A p \in Range(l) : Allowed(e'[w], Range(t), Len(t), p)
    BY <2>2, <2>4, <2>5, <2>6 DEF Allowed, FillSteps, LookSteps, JoinSteps
  <2>8. todo' \in [Workers -> Seq(Steps)] /\ (\A v \in Workers \ {w} : todo'[v] = todo[v]) /\ Handler(w)'
    BY <1>1, <2>1, <2>2, <2>3, <2>4, <2>6, <2>7, IdleCloses, HandleHandler
  <2>9. e[w].io = "reading" => Looks(w)'
    <3>1. Pending(w)' = Range(t)
      BY <2>1, <2>6, HandleEffect DEF TypeOK
    <3>2. {"abortReader", "syncMarked", "sync"} \subseteq LookSteps
      BY DEF LookSteps
    <3> QED BY <2>5, <2>6, <3>1, <3>2 DEF Looks
  <2> QED BY <1>1, <1>2, <1>3, <2>2, <2>8, <2>9, TypeParts DEF LocalStep, Others
<1> QED BY <1>4, <1>5

\* Transients::disconnect(), the end of a handler.
LEMMA DisconnectLocal ==
  ASSUME TypeOK, NEW w \in Workers, Handler(w), disconnect(w)
  PROVE  /\ LocalStep(w) /\ e[w].mem # "writing" /\ Head(todo[w]) = "disconnect"
         /\ e'[w].io = "none" /\ e'[w].mem # "writing"
<1> DEFINE x == IF e[w].mem = "reading" THEN [NoEntry EXCEPT !.mem = "reading"] ELSE NoEntry
<1>1. /\ todo[w] # <<>> /\ Head(todo[w]) = "disconnect" /\ UNCHANGED <<mem, queued, lost>>
      /\ e' = [e EXCEPT ![w] = x]
      /\ Continue(w) \/ (ContinueWith(w, <<"closeMem">>) /\ e[w].mem = "reading")
  BY DEF disconnect, At
<1>2. e \in [Workers -> Entry] /\ xit \in Xits /\ NoEntry \in Entry /\ EmptyXit \in Xits /\ OnlyLast(todo[w], "disconnect")
  BY TypeParts, EmptyTypes DEF Handler
<1>3. Pending(w) = {"disconnect"} /\ Range(Tail(todo[w])) = {} /\ Len(todo[w]) = 1
  <2>1. Pending(w) = {"disconnect"} \cup Range(Tail(todo[w])) /\ Len(todo[w]) = 1
    BY <1>1, <1>2, HeadPending DEF TypeOK
  <2> QED BY <1>1, <2>1, LastStep DEF TypeOK
<1>4. e[w].mem # "writing"
  <2>1. Allowed(e[w], Pending(w), Len(todo[w]), "disconnect")
    BY <1>3 DEF Handler
  <2> QED BY <1>3, <2>1 DEF Allowed
<1>5. x \in Entry /\ x.io = "none" /\ x.mem # "writing" /\ EntryConsistent(x)
  <2>1. [NoEntry EXCEPT !.mem = "reading"] \in Entry
    BY <1>2 DEF Entry
  <2> QED BY <1>2, <2>1 DEF NoEntry, EntryConsistent
<1> HIDE DEF x
<1>6. e' \in [Workers -> Entry] /\ e'[w] = x /\ \A v \in Workers \ {w} : e'[v] = e[v]
  BY <1>1, <1>2, <1>5
<1>7. xit' \in Xits
  <2>1. [xit EXCEPT !.waitingToBeFreed = TRUE, !.writerHalted = TRUE] \in Xits
    BY <1>2 DEF Xits
  <2> QED BY <1>2, <2>1 DEF disconnect
<1>8. todo' \in [Workers -> Seq(Steps)] /\ (\A v \in Workers \ {w} : todo'[v] = todo[v]) /\ Handler(w)'
  <2>1. CASE Continue(w)
    <3>1. /\ todo' \in [Workers -> Seq(Steps)] /\ (\A v \in Workers \ {w} : todo'[v] = todo[v])
          /\ Pending(w)' = {} /\ OnlyLast(todo'[w], "disconnect")
      BY <1>1, <1>2, <1>3, <2>1, ContinueEffect DEF TypeOK
    <3> QED BY <1>5, <1>6, <3>1 DEF Handler, Closes
  <2>2. CASE ContinueWith(w, <<"closeMem">>)
    <3>1. <<"closeMem">> \in Seq(Steps) /\ Range(<<"closeMem">>) = {"closeMem"} /\ Len(<<"closeMem">>) = 1
      <4>1. "closeMem" \in Steps
        BY DEF Steps
      <4> QED BY <4>1, LiteralRange
    <3>2. /\ todo' \in [Workers -> Seq(Steps)] /\ (\A v \in Workers \ {w} : todo'[v] = todo[v])
          /\ Pending(w)' = {"closeMem"} /\ OnlyLast(todo'[w], "disconnect") /\ Len(todo'[w]) = 1
      <4> DEFINE t == <<"closeMem">>
      <4>1. t \in Seq(Steps) /\ Range(t) = {"closeMem"} /\ Len(t) = 1 /\ ContinueWith(w, t) /\ "disconnect" \notin Range(t)
        BY <2>2, <3>1
      <4> HIDE DEF t
      <4>2. /\ todo' \in [Workers -> Seq(Steps)] /\ (\A v \in Workers \ {w} : todo'[v] = todo[v])
            /\ Pending(w)' = Range(t) \cup Range(Tail(todo[w])) /\ OnlyLast(todo'[w], "disconnect")
            /\ Len(todo'[w]) = Len(t) + Len(todo[w]) - 1
        BY <1>1, <1>2, <4>1, ContinueWithEffect DEF TypeOK
      <4> QED BY <1>3, <4>1, <4>2
    <3>3. Allowed(x, {"closeMem"}, 1, "closeMem")
      BY <1>5 DEF Allowed, FillSteps, LookSteps, JoinSteps
    <3> QED BY <1>5, <1>6, <3>2, <3>3 DEF Handler, Closes
  <2> QED BY <1>1, <2>1, <2>2
<1> QED BY <1>1, <1>4, <1>5, <1>6, <1>7, <1>8, TypeParts DEF LocalStep, Others

\* MemStore::disconnect() of a reader that has left already.
LEMMA CloseMemLocal ==
  ASSUME TypeOK, NEW w \in Workers, Handler(w), closeMem(w)
  PROVE  /\ LocalStep(w) /\ e[w].mem # "writing" /\ e'[w].io = "none" /\ e'[w].mem # "writing"
<1>1. /\ todo[w] # <<>> /\ Head(todo[w]) = "closeMem" /\ UNCHANGED <<xit, mem, queued, lost>>
      /\ e' = [e EXCEPT ![w] = NoEntry] /\ Continue(w)
  BY DEF closeMem, At
<1>2. e \in [Workers -> Entry] /\ NoEntry \in Entry /\ OnlyLast(todo[w], "disconnect")
  BY TypeParts, EmptyTypes DEF Handler
<1>3. Pending(w) = {"closeMem"} \cup Range(Tail(todo[w]))
  BY <1>1, HeadPending DEF TypeOK
<1>4. Len(todo[w]) = 1 /\ e[w].io = "none"
  BY <1>3 DEF Handler, Allowed
<1>5. Range(Tail(todo[w])) = {}
  BY <1>1, <1>4, LastStep DEF TypeOK
<1>6. e[w].mem # "writing"
  BY <1>4 DEF Handler, EntryConsistent, NoEntry
<1>7. e' \in [Workers -> Entry] /\ e'[w] = NoEntry /\ \A v \in Workers \ {w} : e'[v] = e[v]
  BY <1>1, <1>2
<1>8. NoEntry.io = "none" /\ NoEntry.mem # "writing" /\ EntryConsistent(NoEntry)
  BY DEF NoEntry, EntryConsistent
<1>9. /\ todo' \in [Workers -> Seq(Steps)] /\ (\A v \in Workers \ {w} : todo'[v] = todo[v])
      /\ Pending(w)' = {} /\ OnlyLast(todo'[w], "disconnect")
  BY <1>1, <1>2, <1>5, ContinueEffect DEF TypeOK
<1>10. Handler(w)'
  BY <1>7, <1>8, <1>9 DEF Handler, Closes
<1> QED BY <1>1, <1>6, <1>7, <1>8, <1>9, <1>10, TypeParts DEF LocalStep, Others

----------------------------------------------------------------------------
(* What each action does to all workers *)

\* What is on its way to the others stays on its way when w does anything but
\* a broadcast.
LEMMA ToldKept ==
  ASSUME NEW w \in Workers, Others(w), \A s \in TellSteps : ~At(w, s),
         NEW v \in Workers, queued[v] > 0 \/ lost[v] => queued'[v] > 0 \/ lost'[v], Told(v)
  PROVE  Told(v)'
<1>1. CASE queued[v] > 0 \/ lost[v]
  BY <1>1 DEF Told
<1>2. CASE \E u \in Workers : Tells(u, v)
  <2>1. PICK u \in Workers : Tells(u, v)
    BY <1>2
  <2>2. u # w
    BY <2>1 DEF Tells, TellSteps
  <2>3. e'[u] = e[u] /\ todo'[u] = todo[u]
    BY <2>2 DEF Others
  <2>4. Tells(u, v)'
    BY <2>1, <2>3 DEF Tells, At
  <2> QED BY <2>4 DEF Told
<1> QED BY <1>1, <1>2 DEF Told

\* The memory cache looks the same as long as its anchor and the role of w in it do.
LEMMA SeenMemKept ==
  ASSUME NEW w \in Workers, Others(w), mem' = mem, e'[w].mem = "writing" <=> e[w].mem = "writing"
  PROVE  /\ MemWriters' = MemWriters /\ InMem' = InMem
         /\ \A v \in Workers \ {w} : SeenMem(v) => SeenMem(v)'
<1>1. MemWriters' = MemWriters
  BY DEF MemWriters, Others
<1>2. InMem' = InMem
  BY <1>1 DEF InMem
<1> QED BY <1>1, <1>2 DEF SeenMem, Others

\* A step of w keeps the inductive invariant if each of the others that has
\* the entry is told of what has changed, and w itself is in order.
LEMMA Preserved ==
  ASSUME IInv, NEW w \in Workers, LocalStep(w),
         \A v \in Workers \ {w} : e[v].io # "none" =>
           /\ Told(v) => Told(v)'
           /\ xit'.used /\ (xit'.collapsing => xit.collapsing)
           /\ Told(v)' \/ xit'.collapsing = xit.collapsing
           /\ Told(v)' \/ (SeenMem(v) => SeenMem(v)')
           /\ Told(v)' \/ (xit'.waitingToBeFreed /\ ~xit'.writerHalted => xit.waitingToBeFreed /\ ~xit.writerHalted),
         e'[w].io = "writing" => e[w].io = "writing" \/ \A v \in Workers \ {w} : e[v].io # "writing",
         e'[w].io # "none" => xit'.used /\ (xit'.collapsing => e'[w].collapsing),
         SeesCollapsing(w)', SeesMem(w)', HearsOfMark(w)'
  PROVE  IInv'
<1>1. /\ TypeOK' /\ Handler(w)' /\ \A v \in Workers \ {w} : e'[v] = e[v] /\ todo'[v] = todo[v]
  BY DEF LocalStep, Others
<1>2. OneXitWriter'
  <2>1. \A v \in Workers \ {w} : e'[v].io = e[v].io
    BY <1>1
  <2>2. \A u, v \in Workers : e[u].io = "writing" /\ e[v].io = "writing" => u = v
    BY DEF IInv, OneXitWriter
  <2> QED BY <2>1, <2>2 DEF OneXitWriter
<1>3. XitUsed'
  BY <1>1 DEF IInv, XitUsed
<1>4. ASSUME NEW v \in Workers, v # w
      PROVE  Handler(v)' /\ SeesCollapsing(v)' /\ SeesMem(v)' /\ HearsOfMark(v)'
  <2>1. e'[v] = e[v] /\ todo'[v] = todo[v]
    BY <1>1, <1>4
  <2>2. Handler(v) /\ SeesCollapsing(v) /\ SeesMem(v) /\ HearsOfMark(v)
    BY DEF IInv
  <2>3. Handler(v)' /\ Waiting(v)' = Waiting(v) /\ Looks(v)' = Looks(v) /\ MayFollow(v)' = MayFollow(v)
    BY <2>1, <2>2 DEF Handler, Pending, Waiting, Looks, MayFollow
  <2>4. /\ Waiting(v) => e[v].io # "none"
        /\ MayFollow(v) => e[v].io # "none"
    BY DEF Waiting, MayFollow
  <2>5. SeesCollapsing(v)'
    BY <1>4, <2>1, <2>2, <2>3, <2>4 DEF SeesCollapsing
  <2>6. SeesMem(v)'
    BY <1>4, <2>2, <2>3, <2>4 DEF SeesMem
  <2>7. HearsOfMark(v)'
    BY <1>4, <2>1, <2>2, <2>3, <2>4 DEF HearsOfMark
  <2> QED BY <2>3, <2>5, <2>6, <2>7
<1> QED BY <1>1, <1>2, <1>3, <1>4 DEF IInv

\* The same for a step that may hide the entry of w, and nothing else about it.
EntryKept(w) ==
  /\ e'[w].io = e[w].io /\ e'[w].mem = e[w].mem /\ e'[w].got = e[w].got /\ e'[w].complete = e[w].complete
  /\ e'[w].aborted = e[w].aborted /\ e'[w].collapsing = e[w].collapsing /\ (e'[w].public => e[w].public)
  /\ Looks(w) => Looks(w)'
  /\ "completeWriting" \in Pending(w)' => "completeWriting" \in Pending(w)

LEMMA PreservedEntry ==
  ASSUME IInv, NEW w \in Workers, LocalStep(w), EntryKept(w),
         \A v \in Workers : e[v].io # "none" =>
           /\ Told(v) /\ (e[v].io = "reading" \/ (MayFollow(v) /\ e[v].public)) => Told(v)'
           /\ xit'.used /\ xit'.collapsing = xit.collapsing
           /\ SeenMem(v) => SeenMem(v)'
           /\ Told(v)' \/ (xit'.waitingToBeFreed /\ ~xit'.writerHalted => xit.waitingToBeFreed /\ ~xit.writerHalted)
  PROVE  IInv'
<1>1. /\ TypeOK' /\ Handler(w)' /\ \A v \in Workers \ {w} : e'[v] = e[v] /\ todo'[v] = todo[v]
  BY DEF LocalStep, Others
<1>2. ASSUME NEW v \in Workers PROVE EntryKept(v)
  BY <1>1 DEF EntryKept, Looks, Pending
<1>3. OneXitWriter'
  <2>1. \A v \in Workers : e'[v].io = e[v].io
    BY <1>2 DEF EntryKept
  <2>2. \A u, v \in Workers : e[u].io = "writing" /\ e[v].io = "writing" => u = v
    BY DEF IInv, OneXitWriter
  <2> QED BY <2>1, <2>2 DEF OneXitWriter
<1>4. XitUsed'
  <2> SUFFICES ASSUME NEW v \in Workers, e'[v].io # "none"
               PROVE  xit'.used /\ (xit'.collapsing => e'[v].collapsing)
    BY DEF XitUsed
  <2>1. e[v].io # "none" /\ e'[v].collapsing = e[v].collapsing
    BY <1>2 DEF EntryKept
  <2>2. xit.collapsing => e[v].collapsing
    BY <2>1 DEF IInv, XitUsed
  <2> QED BY <2>1, <2>2
<1>5. ASSUME NEW v \in Workers
      PROVE  Handler(v)' /\ SeesCollapsing(v)' /\ SeesMem(v)' /\ HearsOfMark(v)'
  <2>1. EntryKept(v)
    BY <1>2
  <2>2. Handler(v) /\ SeesCollapsing(v) /\ SeesMem(v) /\ HearsOfMark(v)
    BY DEF IInv
  <2>3. Handler(v)'
    <3>1. CASE v = w BY <1>1, <3>1
    <3>2. CASE v # w BY <1>1, <2>2, <3>2 DEF Handler, Pending
    <3> QED BY <3>1, <3>2
  <2>4. Waiting(v)' = Waiting(v) /\ (MayFollow(v)' => MayFollow(v))
    BY <2>1 DEF EntryKept, Waiting, MayFollow
  <2>5. /\ Waiting(v) => e[v].io # "none" /\ e[v].io = "reading"
        /\ MayFollow(v) => e[v].io # "none"
    BY DEF Waiting, MayFollow
  <2>6. SeesCollapsing(v)'
    BY <2>1, <2>2, <2>4, <2>5 DEF SeesCollapsing, EntryKept
  <2>7. SeesMem(v)'
    BY <2>1, <2>2, <2>4, <2>5 DEF SeesMem, EntryKept
  <2>8. HearsOfMark(v)'
    BY <2>1, <2>2, <2>4, <2>5 DEF HearsOfMark, EntryKept
  <2> QED BY <2>3, <2>6, <2>7, <2>8
<1> QED BY <1>1, <1>3, <1>4, <1>5 DEF IInv

\* A handler that goes on has the same things to look at.
LEMMA RestKept ==
  ASSUME TypeOK, NEW w \in Workers, todo[w] # <<>>, Head(todo[w]) \notin LookSteps \cup {"disconnect"},
         Continue(w) \/ \E a \in Steps \ {"completeWriting"} : ContinueWith(w, <<a>>)
  PROVE  /\ Looks(w) => Looks(w)'
         /\ "completeWriting" \in Pending(w)' => "completeWriting" \in Pending(w)
<1>1. Pending(w) = {Head(todo[w])} \cup Range(Tail(todo[w]))
  BY HeadPending DEF TypeOK
<1>2. CASE Continue(w)
  <2>1. Pending(w)' = Range(Tail(todo[w]))
    BY <1>2, ContinueEffect DEF TypeOK
  <2> QED BY <1>1, <2>1 DEF Looks
<1>3. ASSUME NEW a \in Steps \ {"completeWriting"}, ContinueWith(w, <<a>>)
      PROVE  /\ Looks(w) => Looks(w)'
             /\ "completeWriting" \in Pending(w)' => "completeWriting" \in Pending(w)
  <2>1. <<a>> \in Seq(Steps) /\ Range(<<a>>) = {a}
    BY LiteralRange
  <2>2. Pending(w)' = {a} \cup Range(Tail(todo[w]))
    BY <1>3, <2>1, ContinueWithEffect DEF TypeOK
  <2> QED BY <1>1, <2>2 DEF Looks
<1> QED BY <1>2, <1>3

\* A broadcast reaches whom it should.
LEMMA BroadcastKeeps ==
  ASSUME IInv, NEW w \in Workers,
         Broadcast(w) \/ BroadcastToAll(w) \/ BroadcastIndex(w) \/ skipCaching(w)
  PROVE  IInv'
<1>1. TypeOK /\ Handler(w) /\ LocalStep(w) /\ OneXitWriter
  BY BroadcastLocal DEF IInv
<1>2. /\ todo[w] # <<>> /\ Continue(w) /\ UNCHANGED <<xit, mem, e>>
      /\ Head(todo[w]) \in TellSteps \cup {"writeToMem"}
  BY DEF Broadcast, BroadcastToAll, BroadcastIndex, skipCaching, At, TellSteps
<1>3. EntryKept(w)
  <2>1. Head(todo[w]) \notin LookSteps \cup {"disconnect"}
    BY <1>2 DEF TellSteps, LookSteps, JoinSteps
  <2> QED BY <1>1, <1>2, <2>1, RestKept DEF EntryKept
<1>4. \A v \in Workers : queued[v] > 0 \/ lost[v] => queued'[v] > 0 \/ lost'[v]
  BY <1>1, PushEffect DEF Broadcast, BroadcastToAll, BroadcastIndex, skipCaching
<1>5. ASSUME NEW v \in Workers, Told(v), e[v].io = "reading" \/ (MayFollow(v) /\ e[v].public)
      PROVE  Told(v)'
  <2>1. CASE queued[v] > 0 \/ lost[v]
    BY <1>4, <2>1 DEF Told
  <2>2. ASSUME NEW u \in Workers, u # w, Tells(u, v)
        PROVE  Told(v)'
    <3>1. todo'[u] = todo[u] /\ e'[u] = e[u]
      BY <1>1, <2>2 DEF LocalStep, Others
    <3>2. Tells(u, v)'
      BY <2>2, <3>1 DEF Tells, At
    <3> QED BY <3>2 DEF Told
  <2>3. CASE Tells(w, v)
    <3>1. ~skipCaching(w)
      BY <2>3 DEF Tells, skipCaching, At
    <3>2. CASE BroadcastIndex(w)
      BY <1>1, <3>2, PushEffect DEF BroadcastIndex, Told
    <3>3. ASSUME Broadcast(w) \/ BroadcastToAll(w) PROVE Told(v)'
      <4>1. e[w].io # "none" /\ (Broadcast(w) => v # w)
        BY <2>3, <3>3 DEF Tells, At, Broadcast, BroadcastToAll
      <4>2. XitReaders # {}
        <5>1. CASE e[v].io = "reading"
          BY <5>1 DEF XitReaders
        <5>2. CASE e[v].io = "writing" /\ v # w
          <6>1. e[w].io \in {"none", "writing", "reading"}
            BY <1>1, TypeParts DEF Entry
          <6>2. e[w].io # "writing"
            BY <1>1, <5>2 DEF OneXitWriter
          <6> QED BY <4>1, <6>1, <6>2 DEF XitReaders
        <5>3. CASE e[w].io = "writing" /\ v = w
          <6>1. BroadcastToAll(w)
            BY <3>3, <4>1, <5>3
          <6>2. "BroadcastToAll" \in Pending(w)
            BY <1>1, <1>2, <6>1, HeadPending DEF BroadcastToAll, At, TypeOK
          <6>3. ~e[w].public \/ (e[w].mem = "done" /\ "completeWriting" \notin Pending(w))
            BY <1>1, <5>3, <6>2 DEF Handler, Allowed
          <6> QED BY <1>5, <5>3, <6>3 DEF MayFollow
        <5> QED BY <1>5, <5>1, <5>2, <5>3 DEF MayFollow
      <4>3. CASE Broadcast(w)
        <5>1. Push(Workers \ {w})
          BY <4>1, <4>2, <4>3 DEF Broadcast
        <5> QED BY <1>1, <4>1, <4>3, <5>1, PushEffect DEF Told
      <4>4. CASE BroadcastToAll(w)
        <5>1. Push(Workers)
          BY <4>1, <4>2, <4>4 DEF BroadcastToAll
        <5> QED BY <1>1, <5>1, PushEffect DEF Told
      <4> QED BY <3>3, <4>3, <4>4
    <3> QED BY <3>1, <3>2, <3>3
  <2> QED BY <1>5, <2>1, <2>2, <2>3 DEF Told
<1>6. ASSUME NEW v \in Workers, e[v].io # "none" PROVE xit.used /\ (SeenMem(v) => SeenMem(v)')
  <2>1. xit.used
    BY <1>6 DEF IInv, XitUsed
  <2>2. SeenMem(v)' = SeenMem(v)
    BY <1>2 DEF SeenMem, InMem, MemWriters
  <2> QED BY <2>1, <2>2
<1> QED BY <1>1, <1>2, <1>3, <1>5, <1>6, PreservedEntry

\* None of these is a broadcast, and their workers go on.
LEMMA EvictStepsRest ==
  ASSUME IInv, NEW w \in Workers,
         stopSharing(w) \/ evictFromMem(w) \/ evictFromMemByKey(w) \/ evictFromXit(w)
  PROVE  /\ LocalStep(w) /\ EntryKept(w) /\ UNCHANGED <<e, queued, lost>>
         /\ \A v \in Workers : Told(v) => Told(v)'
<1>1. TypeOK /\ Handler(w) /\ LocalStep(w)
  BY EvictStepsLocal DEF IInv
<1>2. /\ todo[w] # <<>> /\ UNCHANGED <<e, queued, lost>>
      /\ Head(todo[w]) \in {"stopSharing", "evictFromMem", "evictFromMemByKey", "evictFromXit"}
      /\ \/ Continue(w)
         \/ \E a \in {"BroadcastToAll", "Broadcast", "BroadcastIndex"} : ContinueWith(w, <<a>>)
  BY DEF stopSharing, evictFromMem, evictFromMemByKey, evictFromXit, At
<1>3. {"BroadcastToAll", "Broadcast", "BroadcastIndex"} \subseteq Steps \ {"completeWriting"}
  BY DEF Steps
<1>4. Head(todo[w]) \notin LookSteps \cup {"disconnect"} /\ \A s \in TellSteps : ~At(w, s)
  BY <1>2 DEF LookSteps, JoinSteps, TellSteps, At
<1>5. EntryKept(w)
  BY <1>1, <1>2, <1>3, <1>4, RestKept DEF EntryKept
<1>6. ASSUME NEW v \in Workers, Told(v) PROVE Told(v)'
  BY <1>1, <1>2, <1>4, <1>6, ToldKept DEF LocalStep
<1> QED BY <1>1, <1>2, <1>5, <1>6

\* The step that a handler goes on with is the next one.
LEMMA NextStep ==
  ASSUME TypeOK, NEW w \in Workers, todo[w] # <<>>, NEW a \in Steps, ContinueWith(w, <<a>>)
  PROVE  At(w, a)'
<1>1. <<a>> \in Seq(Steps) /\ <<a>> # <<>> /\ Head(<<a>>) = a
  BY LiteralRange
<1>2. todo'[w] # <<>> /\ Head(todo'[w]) = a
  BY <1>1, ContinueWithEffect DEF TypeOK
<1> QED BY <1>2 DEF At

\* Nobody has the entry when its anchor has no readers and no writer.
LEMMA NobodyHasEntry ==
  ASSUME TypeOK
  PROVE  /\ XitReaders \cup XitWriters = {} => \A v \in Workers : e[v].io = "none"
         /\ \A w \in Workers : XitReaders \cup XitWriters = {w} => \A v \in Workers \ {w} : e[v].io = "none"
<1>1. \A v \in Workers : e[v].io \in {"none", "writing", "reading"}
  BY TypeParts DEF Entry
<1> QED BY <1>1 DEF XitReaders, XitWriters

\* Transients::evictCached() marks the entry and is going to tell everybody.
LEMMA StopSharingKeeps ==
  ASSUME IInv, NEW w \in Workers, stopSharing(w)
  PROVE  IInv'
<1>1. /\ LocalStep(w) /\ EntryKept(w) /\ UNCHANGED <<e, queued, lost>> /\ TypeOK
      /\ \A v \in Workers : Told(v) => Told(v)'
  BY EvictStepsRest DEF IInv
<1>2. todo[w] # <<>> /\ mem' = mem
  BY DEF stopSharing, At
<1>3. ASSUME NEW v \in Workers, e[v].io # "none"
      PROVE  /\ xit'.used /\ xit'.collapsing = xit.collapsing
             /\ Told(v)' \/ (xit'.waitingToBeFreed /\ ~xit'.writerHalted => xit.waitingToBeFreed /\ ~xit.writerHalted)
  <2>1. xit.used
    BY <1>3 DEF IInv, XitUsed
  <2>2. CASE UNCHANGED xit
    BY <2>1, <2>2
  <2>3. CASE e[w].io # "none" /\ xit' = [xit EXCEPT !.waitingToBeFreed = TRUE] /\ ContinueWith(w, <<"BroadcastToAll">>)
    <3>1. "BroadcastToAll" \in Steps
      BY DEF Steps
    <3>2. At(w, "BroadcastToAll")' /\ e'[w].io # "none"
      BY <1>1, <1>2, <2>3, <3>1, NextStep
    <3>3. Told(v)'
      BY <3>2 DEF Told, Tells
    <3>4. xit \in Xits
      BY <1>1, TypeParts
    <3>5. xit'.used /\ xit'.collapsing = xit.collapsing
      BY <2>1, <2>3, <3>4 DEF Xits
    <3> QED BY <3>3, <3>5
  <2> QED BY <2>2, <2>3 DEF stopSharing
<1>4. ASSUME NEW v \in Workers PROVE SeenMem(v) => SeenMem(v)'
  BY <1>1, <1>2 DEF SeenMem, InMem, MemWriters
<1> QED BY <1>1, <1>3, <1>4, PreservedEntry

\* MemStore::evictCached() and evictIfFound() take the response away from those
\* who have not found it yet.
LEMMA EvictMemKeeps ==
  ASSUME IInv, NEW w \in Workers, evictFromMem(w) \/ evictFromMemByKey(w)
  PROVE  IInv'
<1>1. /\ LocalStep(w) /\ EntryKept(w) /\ UNCHANGED <<e, queued, lost>> /\ TypeOK
      /\ \A v \in Workers : Told(v) => Told(v)'
  BY EvictStepsRest DEF IInv
<1>2. xit' = xit
  BY DEF evictFromMem, evictFromMemByKey
<1>3. \A v \in Workers : e[v].io # "none" => xit.used
  BY DEF IInv, XitUsed
<1>4. ASSUME NEW v \in Workers PROVE SeenMem(v) => SeenMem(v)'
  <2>1. MemWriters' = MemWriters /\ mem \in Mems
    BY <1>1, TypeParts DEF MemWriters
  <2>2. CASE mem' = mem
    BY <1>1, <2>1, <2>2 DEF SeenMem, InMem
  <2>3. CASE mem' = [mem EXCEPT !.waitingToBeFreed = TRUE]
    <3>1. mem'.waitingToBeFreed /\ mem'.size = mem.size /\ mem'.writerHalted = mem.writerHalted
      BY <2>1, <2>3 DEF Mems
    <3>2. ~InMem'
      BY <3>1 DEF InMem
    <3> QED BY <1>1, <2>1, <3>1, <3>2 DEF SeenMem
  <2>4. CASE mem' = EmptyMem /\ MemReaders \cup MemWriters = {}
    <3>1. ~InMem' /\ e[v].mem # "reading"
      BY <2>4 DEF InMem, EmptyMem, MemReaders
    <3> QED BY <1>1, <3>1 DEF SeenMem
  <2> QED BY <2>2, <2>3, <2>4 DEF evictFromMem, evictFromMemByKey
<1> QED BY <1>1, <1>2, <1>3, <1>4, PreservedEntry

\* Transients::evictIfFound() marks an entry that is in use and is going to
\* tell everybody, unless it has been marked before.
LEMMA EvictXitKeeps ==
  ASSUME IInv, NEW w \in Workers, evictFromXit(w)
  PROVE  IInv'
<1>1. /\ LocalStep(w) /\ EntryKept(w) /\ UNCHANGED <<e, queued, lost>> /\ TypeOK
      /\ \A v \in Workers : Told(v) => Told(v)'
  BY EvictStepsRest DEF IInv
<1>2. todo[w] # <<>> /\ mem' = mem /\ xit \in Xits
  BY <1>1, TypeParts DEF evictFromXit, At
<1>3. ASSUME NEW v \in Workers, e[v].io # "none"
      PROVE  /\ xit'.used /\ xit'.collapsing = xit.collapsing
             /\ Told(v)' \/ (xit'.waitingToBeFreed /\ ~xit'.writerHalted => xit.waitingToBeFreed /\ ~xit.writerHalted)
  <2>1. xit.used
    BY <1>3 DEF IInv, XitUsed
  <2>2. XitReaders \cup XitWriters # {}
    BY <1>1, <1>3, NobodyHasEntry
  <2>3. xit' = [xit EXCEPT !.waitingToBeFreed = TRUE]
    BY <2>2 DEF evictFromXit
  <2>4. xit'.used /\ xit'.collapsing = xit.collapsing /\ xit'.writerHalted = xit.writerHalted
    BY <1>2, <2>1, <2>3 DEF Xits
  <2>5. CASE ~xit.waitingToBeFreed
    <3>1. "BroadcastIndex" \in Steps
      BY DEF Steps
    <3>2. ContinueWith(w, <<"BroadcastIndex">>)
      BY <2>1, <2>5 DEF evictFromXit
    <3>3. At(w, "BroadcastIndex")'
      BY <1>1, <1>2, <3>1, <3>2, NextStep
    <3>4. Told(v)'
      BY <3>3 DEF Told, Tells
    <3> QED BY <2>4, <3>4
  <2> QED BY <2>4, <2>5
<1>4. ASSUME NEW v \in Workers PROVE SeenMem(v) => SeenMem(v)'
  BY <1>1, <1>2 DEF SeenMem, InMem, MemWriters
<1> QED BY <1>1, <1>3, <1>4, PreservedEntry

\* Idle workers that start to evict or to leave.
LEMMA EvictKeeps ==
  ASSUME IInv, NEW w \in Workers, evict(w) \/ abandon(w)
  PROVE  IInv'
<1>1. TypeOK /\ Handler(w) /\ LocalStep(w) /\ Idle(w) /\ UNCHANGED <<xit, mem, queued, lost>>
  <2>1. TypeOK /\ Handler(w)
    BY DEF IInv
  <2> QED BY <2>1, EvictLocal, AbandonLocal DEF evict, abandon
<1>2. \A s \in TellSteps : ~At(w, s)
  BY <1>1 DEF Idle, At
<1>3. /\ e'[w].io = e[w].io /\ e'[w].mem = e[w].mem /\ e'[w].got = e[w].got /\ e'[w].complete = e[w].complete
      /\ e'[w].aborted = e[w].aborted /\ e'[w].collapsing = e[w].collapsing /\ (e'[w].public => e[w].public)
  <2>1. e \in [Workers -> Entry]
    BY <1>1, TypeParts
  <2>2. e' = e \/ e' = [e EXCEPT ![w].public = FALSE]
    BY DEF evict, abandon
  <2> QED BY <2>1, <2>2 DEF Entry
<1>4. ~Looks(w)
  BY <1>1, IdlePending DEF Looks
<1>5. "completeWriting" \notin Pending(w)'
  <2>1. CASE abandon(w)
    BY <1>1, <2>1, AbandonLocal
  <2>2. CASE evict(w)
    <3> DEFINE s == EvictSteps(e[w])
               l == <<"evictFromMemByKey", "evictFromXit">>
    <3>1. s \in Seq(Steps) /\ "completeWriting" \notin Range(s)
      <4>1. ~NoEntry.public
        BY DEF NoEntry
      <4> QED BY <4>1, EvictStepsAllowed
    <3>2. l \in Seq(Steps) /\ Range(l) = {"evictFromMemByKey", "evictFromXit"}
      <4>1. "evictFromMemByKey" \in Steps /\ "evictFromXit" \in Steps
        BY DEF Steps
      <4> QED BY <4>1, LiteralRange
    <3>3. Handle(w, s) \/ Handle(w, l)
      BY <2>2 DEF evict
    <3> HIDE DEF s, l
    <3>4. Pending(w)' = Range(s) \/ Pending(w)' = Range(l)
      BY <1>1, <3>1, <3>2, <3>3, HandleEffect DEF TypeOK
    <3> QED BY <3>1, <3>2, <3>4
  <2> QED BY <2>1, <2>2
<1>6. EntryKept(w)
  BY <1>3, <1>4, <1>5 DEF EntryKept
<1>7. ASSUME NEW v \in Workers PROVE Told(v) => Told(v)'
  BY <1>1, <1>2, ToldKept DEF LocalStep
<1>8. ASSUME NEW v \in Workers PROVE SeenMem(v) => SeenMem(v)'
  <2>1. MemWriters' = MemWriters /\ InMem' = InMem /\ \A u \in Workers \ {w} : SeenMem(u) => SeenMem(u)'
    BY <1>1, <1>3, SeenMemKept DEF LocalStep
  <2>2. SeenMem(w) => SeenMem(w)'
    BY <1>1, <1>3, <2>1 DEF SeenMem
  <2> QED BY <2>1, <2>2
<1>9. \A v \in Workers : e[v].io # "none" => xit.used
  BY DEF IInv, XitUsed
<1> QED BY <1>1, <1>6, <1>7, <1>8, <1>9, PreservedEntry

\* A step of a worker that is no writer, or no longer one, and that leaves
\* shared memory alone.
LEMMA PreservedReader ==
  ASSUME IInv, NEW w \in Workers, LocalStep(w), \A s \in TellSteps : ~At(w, s),
         UNCHANGED <<xit, mem>>, \A v \in Workers \ {w} : queued'[v] = queued[v] /\ lost'[v] = lost[v],
         e[w].mem # "writing", e'[w].mem # "writing", e'[w].io = "writing" => e[w].io = "writing",
         e'[w].io # "none" => xit.used /\ (xit.collapsing => e'[w].collapsing),
         SeesCollapsing(w)', SeesMem(w)', HearsOfMark(w)'
  PROVE  IInv'
<1>1. ASSUME NEW v \in Workers \ {w} PROVE Told(v) => Told(v)'
  BY ToldKept DEF LocalStep
<1>2. \A v \in Workers \ {w} : SeenMem(v) => SeenMem(v)'
  BY SeenMemKept DEF LocalStep
<1>3. \A v \in Workers : e[v].io # "none" => xit.used
  BY DEF IInv, XitUsed
<1> QED BY <1>1, <1>2, <1>3, Preserved

\* A step of the writer, which stays one.
LEMMA PreservedWriter ==
  ASSUME IInv, NEW w \in Workers, LocalStep(w), e[w].io = "writing", e'[w].io = "writing",
         \A s \in TellSteps : ~At(w, s), queued' = queued, lost' = lost,
         xit'.used = xit.used, xit'.waitingToBeFreed = xit.waitingToBeFreed, xit'.writerHalted = xit.writerHalted,
         xit'.collapsing => xit.collapsing /\ e'[w].collapsing,
         MayFollow(w)' /\ e'[w].public => MayFollow(w) /\ e[w].public,
         \A v \in Workers \ {w} : e[v].io # "none" =>
           /\ Told(v)' \/ xit'.collapsing = xit.collapsing
           /\ Told(v)' \/ (SeenMem(v) => SeenMem(v)')
  PROVE  IInv'
<1>1. ASSUME NEW v \in Workers PROVE Told(v) => Told(v)'
  BY ToldKept DEF LocalStep
<1>2. ~Waiting(w)'
  BY DEF Waiting
<1>3. SeesCollapsing(w)' /\ SeesMem(w)'
  BY <1>2 DEF SeesCollapsing, SeesMem
<1>4. HearsOfMark(w)'
  <2>1. HearsOfMark(w)
    BY DEF IInv
  <2> QED BY <1>1, <2>1 DEF HearsOfMark
<1>5. \A v \in Workers : e[v].io # "none" => xit.used
  BY DEF IInv, XitUsed
<1> QED BY <1>1, <1>3, <1>4, <1>5, Preserved

\* startWriting(), append() and complete() change nothing in shared memory.
LEMMA FillKeeps ==
  ASSUME IInv, NEW w \in Workers, startWriting(w) \/ append(w) \/ complete(w)
  PROVE  IInv'
<1>1. TypeOK /\ Handler(w)
  BY DEF IInv
<1>2. /\ LocalStep(w) /\ "completeWriting" \notin Pending(w)' /\ e[w].io = "writing"
      /\ e'[w].io = e[w].io /\ e'[w].mem = e[w].mem /\ e'[w].public = e[w].public
      /\ e'[w].collapsing = e[w].collapsing
  BY <1>1, FillLocal
<1>3. UNCHANGED <<xit, mem, queued, lost>> /\ \A s \in TellSteps : ~At(w, s)
  BY DEF startWriting, append, complete, Idle, At
<1>4. MayFollow(w)' => MayFollow(w)
  BY <1>2 DEF MayFollow
<1>5. \A v \in Workers \ {w} : SeenMem(v) => SeenMem(v)'
  BY <1>2, <1>3, SeenMemKept DEF LocalStep
<1>6. xit.collapsing => e[w].collapsing
  BY <1>2 DEF IInv, XitUsed
<1> QED BY <1>2, <1>3, <1>4, <1>5, <1>6, PreservedWriter

\* clearCollapsingRequirement() is going to tell the followers.
LEMMA ClearKeeps ==
  ASSUME IInv, NEW w \in Workers, clearCollapsingRequirement(w)
  PROVE  IInv'
<1>1. TypeOK /\ Handler(w)
  BY DEF IInv
<1>2. /\ LocalStep(w) /\ At(w, "Broadcast")' /\ e[w].io = "writing"
      /\ e'[w].io = e[w].io /\ e'[w].mem = e[w].mem /\ e'[w].public = e[w].public
      /\ "completeWriting" \in Pending(w)' => "completeWriting" \in Pending(w)
  BY <1>1, ClearLocal
<1>3. UNCHANGED <<mem, queued, lost>> /\ \A s \in TellSteps : ~At(w, s)
  BY DEF clearCollapsingRequirement, At, TellSteps
<1>4. /\ xit'.used = xit.used /\ xit'.waitingToBeFreed = xit.waitingToBeFreed
      /\ xit'.writerHalted = xit.writerHalted /\ ~xit'.collapsing
  <2>1. xit \in Xits
    BY <1>1, TypeParts
  <2> QED BY <2>1 DEF clearCollapsingRequirement, Xits
<1>5. MayFollow(w)' => MayFollow(w)
  BY <1>2 DEF MayFollow
<1>6. \A v \in Workers \ {w} : Told(v)'
  <2>1. e'[w].io # "none"
    BY <1>2
  <2> QED BY <1>2, <2>1 DEF Told, Tells
<1> QED BY <1>2, <1>3, <1>4, <1>5, <1>6, PreservedWriter

\* write() that decides not to cache.
LEMMA RejectKeeps ==
  ASSUME IInv, NEW w \in Workers, rejectWriting(w)
  PROVE  IInv'
<1>1. TypeOK /\ Handler(w)
  BY DEF IInv
<1>2. /\ LocalStep(w) /\ e[w].io = "writing" /\ e[w].mem = "undecided" /\ e'[w].mem = "done"
      /\ e'[w].io = e[w].io /\ e'[w].collapsing = e[w].collapsing /\ "completeWriting" \notin Pending(w)'
  BY <1>1, RejectLocal
<1>3. UNCHANGED <<xit, mem, queued, lost>> /\ \A s \in TellSteps : ~At(w, s)
  BY DEF rejectWriting, At, TellSteps
<1>4. ~MayFollow(w)'
  BY <1>2 DEF MayFollow
<1>5. \A v \in Workers \ {w} : SeenMem(v) => SeenMem(v)'
  BY <1>2, <1>3, SeenMemKept DEF LocalStep
<1>6. xit.collapsing => e[w].collapsing
  BY <1>2 DEF IInv, XitUsed
<1> QED BY <1>2, <1>3, <1>4, <1>5, <1>6, PreservedWriter

\* startCaching() replaces what is in the memory cache, with no readers, by
\* nothing yet.
LEMMA StartCachingKeeps ==
  ASSUME IInv, NEW w \in Workers, startCaching(w)
  PROVE  IInv'
<1>1. TypeOK /\ Handler(w)
  BY DEF IInv
<1>2. /\ LocalStep(w) /\ e[w].io = "writing" /\ e[w].mem = "undecided"
      /\ e'[w].io = e[w].io /\ e'[w].collapsing = e[w].collapsing /\ e'[w].public = e[w].public
      /\ mem'.size = 0 /\ At(w, "writeToMem")
  BY <1>1, StartCachingLocal
<1>3. UNCHANGED <<xit, queued, lost>> /\ (\A s \in TellSteps : ~At(w, s)) /\ MemReaders = {}
  BY <1>2 DEF startCaching, At, TellSteps
<1>4. MayFollow(w)
  BY <1>2 DEF MayFollow
<1>5. ASSUME NEW v \in Workers \ {w} PROVE SeenMem(v)'
  <2>1. e'[v] = e[v] /\ e[v].mem # "reading"
    BY <1>2, <1>3 DEF LocalStep, Others, MemReaders
  <2> QED BY <1>2, <2>1 DEF SeenMem
<1>6. xit.collapsing => e[w].collapsing
  BY <1>2 DEF IInv, XitUsed
<1> QED BY <1>2, <1>3, <1>4, <1>5, <1>6, PreservedWriter

\* write() is going to tell the followers how much there is.
LEMMA CopyKeeps ==
  ASSUME IInv, NEW w \in Workers, copyToShm(w)
  PROVE  IInv'
<1>1. TypeOK /\ Handler(w)
  BY DEF IInv
<1>2. /\ LocalStep(w) /\ At(w, "Broadcast")' /\ e[w].io = "writing" /\ e[w].mem = "writing"
      /\ e'[w].io = e[w].io /\ e'[w].collapsing = e[w].collapsing /\ e'[w].public = e[w].public
  BY <1>1, CopyLocal
<1>3. UNCHANGED <<xit, queued, lost>> /\ \A s \in TellSteps : ~At(w, s)
  BY DEF copyToShm, At, TellSteps
<1>4. MayFollow(w)
  BY <1>2 DEF MayFollow
<1>5. \A v \in Workers \ {w} : Told(v)'
  <2>1. e'[w].io # "none"
    BY <1>2
  <2> QED BY <1>2, <2>1 DEF Told, Tells
<1>6. xit.collapsing => e[w].collapsing
  BY <1>2 DEF IInv, XitUsed
<1> QED BY <1>2, <1>3, <1>4, <1>5, <1>6, PreservedWriter

\* A writer that gives up leaves its readers with what they have and hides the
\* response from the others.
LEMMA AbortMemKeeps ==
  ASSUME IInv, NEW w \in Workers, disconnectMem(w)
  PROVE  IInv'
<1>1. TypeOK /\ Handler(w)
  BY DEF IInv
<1>2. /\ LocalStep(w) /\ todo[w] # <<>> /\ Head(todo[w]) \in {"writeToMem", "disconnectMem"}
      /\ e'[w].io = e[w].io /\ e'[w].collapsing = e[w].collapsing /\ e'[w].public = e[w].public
      /\ e[w].mem = "writing" => e[w].io = "writing" /\ mem' = AbortedMem /\ e'[w].mem = "done"
      /\ e[w].mem # "writing" => mem' = mem /\ e'[w].mem \in {e[w].mem, "done"} /\ Continue(w)
      /\ e'[w].complete = e[w].complete /\ e'[w].got = e[w].got /\ e'[w].aborted = e[w].aborted
      /\ "completeWriting" \in Pending(w)' => "completeWriting" \in Pending(w)
  BY <1>1, AbortMemLocal
<1>3. UNCHANGED <<xit, queued, lost>> /\ \A s \in TellSteps : ~At(w, s)
  BY <1>2 DEF disconnectMem, At, TellSteps
<1>4. CASE e[w].mem = "writing"
  <2>1. MayFollow(w)
    BY <1>2, <1>4 DEF MayFollow
  <2>2. ASSUME NEW v \in Workers \ {w}, SeenMem(v) PROVE SeenMem(v)'
    <3>1. e'[v] = e[v] /\ mem \in Mems
      BY <1>1, <1>2, TypeParts DEF LocalStep, Others
    <3>2. CASE MemReaders = {}
      <4>1. mem' = EmptyMem /\ e[v].mem # "reading"
        BY <1>2, <1>4, <3>2 DEF AbortedMem, MemReaders
      <4>2. ~InMem'
        BY <4>1 DEF InMem, EmptyMem
      <4> QED BY <3>1, <4>1, <4>2 DEF SeenMem
    <3>3. CASE MemReaders # {}
      <4>1. mem' = [mem EXCEPT !.waitingToBeFreed = TRUE, !.writerHalted = TRUE]
        BY <1>2, <1>4, <3>3 DEF AbortedMem
      <4>2. mem'.waitingToBeFreed /\ mem'.writerHalted /\ mem'.size = mem.size
        BY <3>1, <4>1 DEF Mems
      <4>3. ~InMem'
        BY <4>2 DEF InMem
      <4> QED BY <2>2, <3>1, <4>2, <4>3 DEF SeenMem
    <3> QED BY <3>2, <3>3
  <2>3. xit.collapsing => e[w].collapsing
    BY <1>2, <1>4 DEF IInv, XitUsed
  <2> QED BY <1>2, <1>3, <1>4, <2>1, <2>2, <2>3, PreservedWriter
<1>5. CASE e[w].mem # "writing"
  <2>1. mem' = mem /\ e'[w].mem \in {e[w].mem, "done"} /\ e'[w].mem # "writing" /\ Continue(w)
    BY <1>2, <1>5
  <2>2. Head(todo[w]) \notin LookSteps \cup {"disconnect"}
    BY <1>2 DEF LookSteps, JoinSteps
  <2>3. Looks(w) => Looks(w)'
    BY <1>1, <1>2, <2>1, <2>2, RestKept
  <2>4. Told(w) => Told(w)'
    BY <1>2, <1>3, ToldKept DEF LocalStep
  <2>5. SeesCollapsing(w) /\ SeesMem(w) /\ HearsOfMark(w) /\ XitUsed
    BY DEF IInv
  <2>6. Waiting(w)' = Waiting(w) /\ (MayFollow(w)' => MayFollow(w))
    BY <1>2, <2>1 DEF Waiting, MayFollow
  <2>7. SeesCollapsing(w)' /\ HearsOfMark(w)'
    BY <1>2, <1>3, <2>4, <2>5, <2>6 DEF SeesCollapsing, HearsOfMark
  <2>8. SeesMem(w)'
    <3>1. CASE e'[w].mem = "done"
      BY <3>1 DEF SeesMem, SeenMem
    <3>2. CASE e'[w].mem = e[w].mem
      <4>1. MemWriters' = MemWriters /\ InMem' = InMem
        BY <1>2, <2>1, <3>2, SeenMemKept DEF LocalStep
      <4>2. SeenMem(w) => SeenMem(w)'
        BY <1>2, <2>1, <3>2, <4>1 DEF SeenMem
      <4> QED BY <2>3, <2>4, <2>5, <2>6, <4>2 DEF SeesMem
    <3> QED BY <2>1, <3>1, <3>2
  <2>9. e'[w].io # "none" => xit.used /\ (xit.collapsing => e'[w].collapsing)
    BY <1>2, <2>5 DEF XitUsed
  <2> QED BY <1>2, <1>3, <1>5, <2>1, <2>7, <2>8, <2>9, PreservedReader
<1> QED BY <1>4, <1>5

\* abort() hides the entry.
LEMMA AbortKeeps ==
  ASSUME IInv, NEW w \in Workers, abort(w)
  PROVE  IInv'
<1>1. TypeOK /\ Handler(w)
  BY DEF IInv
<1>2. /\ LocalStep(w) /\ Idle(w) /\ e[w].io = "writing" /\ ~e'[w].public
      /\ e'[w].io = e[w].io /\ e'[w].mem = e[w].mem /\ e'[w].collapsing = e[w].collapsing
  BY <1>1, AbortLocal
<1>3. UNCHANGED <<xit, mem, queued, lost>> /\ \A s \in TellSteps : ~At(w, s)
  BY DEF abort, Idle, At
<1>4. \A v \in Workers \ {w} : SeenMem(v) => SeenMem(v)'
  BY <1>2, <1>3, SeenMemKept DEF LocalStep
<1>5. xit.collapsing => e[w].collapsing
  BY <1>2 DEF IInv, XitUsed
<1> QED BY <1>2, <1>3, <1>4, <1>5, PreservedWriter

\* A new writer finds nobody who has the entry.
LEMMA AddWriterKeeps ==
  ASSUME IInv, NEW w \in Workers, addWriterEntry(w)
  PROVE  IInv'
<1>1. TypeOK /\ Handler(w)
  BY DEF IInv
<1>2. LocalStep(w) /\ e'[w] = [NoEntry EXCEPT !.io = "writing", !.public = TRUE, !.collapsing = TRUE]
  BY <1>1, AddWriterLocal
<1>3. e'[w].io = "writing" /\ e'[w].collapsing
  BY <1>2 DEF NoEntry
<1>4. \A v \in Workers : e[v].io = "none"
  BY <1>1, NobodyHasEntry DEF addWriterEntry
<1>5. xit'.used /\ ~xit'.waitingToBeFreed
  BY DEF addWriterEntry, EmptyXit
<1>6. SeesCollapsing(w)' /\ SeesMem(w)' /\ HearsOfMark(w)'
  BY <1>3, <1>5 DEF SeesCollapsing, SeesMem, HearsOfMark, Waiting
<1> QED BY <1>2, <1>3, <1>4, <1>5, <1>6, Preserved

\* Transients::get() is going to look.
LEMMA GetKeeps ==
  ASSUME IInv, NEW w \in Workers, get(w)
  PROVE  IInv'
<1>1. TypeOK /\ Handler(w)
  BY DEF IInv
<1>2. /\ LocalStep(w) /\ Idle(w) /\ e[w].io = "none" /\ e'[w].io = "reading" /\ "share" \in Pending(w)'
      /\ e'[w].mem = "undecided" /\ e'[w].collapsing = xit.collapsing
  BY <1>1, GetLocal
<1>3. /\ UNCHANGED <<xit, mem, queued>> /\ xit.used /\ ~xit.waitingToBeFreed /\ \A s \in TellSteps : ~At(w, s)
      /\ \A v \in Workers \ {w} : lost'[v] = lost[v]
  BY <1>1 DEF get, Idle, At, TypeOK
<1>4. e[w].mem # "writing"
  BY <1>1, <1>2 DEF Handler, EntryConsistent, NoEntry
<1>5. SeesCollapsing(w)' /\ HearsOfMark(w)'
  BY <1>2, <1>3 DEF SeesCollapsing, HearsOfMark
<1>6. SeesMem(w)'
  BY <1>2 DEF SeesMem, Looks, LookSteps, JoinSteps
<1> QED BY <1>2, <1>3, <1>4, <1>5, <1>6, PreservedReader

\* share() is still going to look, and a reader that has looked has seen all there is.
LEMMA LookedKeeps ==
  ASSUME IInv, NEW w \in Workers, share(w) \/ anchor(w) \/ sync(w)
  PROVE  IInv'
<1>1. TypeOK /\ Handler(w)
  BY DEF IInv
<1>2. LocalStep(w) /\ Looked(w)
  <2>1. CASE share(w)
    <3>1. LocalStep(w) /\ Looks(w)'
      BY <1>1, <2>1, ShareLocal
    <3>2. e[w].io = "reading" /\ e[w].mem # "writing"
      <4>1. "share" \in LookSteps /\ At(w, "share")
        BY <2>1 DEF share, LookSteps, JoinSteps
      <4> QED BY <1>1, <4>1, LookPending
    <3>3. UNCHANGED <<xit, mem, queued, lost, e>>
      BY <2>1 DEF share
    <3> QED BY <3>1, <3>2, <3>3 DEF Looked
  <2> QED BY <1>1, <2>1, AnchorLocal, SyncLocal
<1>3. \A s \in TellSteps : ~At(w, s)
  BY DEF share, anchor, sync, At, TellSteps
<1>4. /\ e[w].io = "reading" /\ e'[w].io = "reading" /\ UNCHANGED <<xit, mem, queued, lost>>
      /\ e'[w].public = e[w].public /\ e'[w].collapsing = e[w].collapsing /\ e'[w].aborted = e[w].aborted
      /\ e[w].mem # "writing" /\ e'[w].mem # "writing" /\ (e[w].complete => e'[w].complete)
      /\ Fresh(w) \/ Looks(w)'
  BY <1>2 DEF Looked
<1>5. xit.used /\ (xit.collapsing => e[w].collapsing)
  BY <1>4 DEF IInv, XitUsed
<1>6. Told(w) => Told(w)'
  BY <1>2, <1>3, <1>4, ToldKept DEF LocalStep
<1>7. HearsOfMark(w)'
  <2>1. HearsOfMark(w) /\ MayFollow(w)
    BY <1>4 DEF IInv, MayFollow
  <2> QED BY <1>4, <1>6, <2>1 DEF HearsOfMark
<1>8. SeesMem(w)'
  <2>1. MemWriters' = MemWriters /\ InMem' = InMem
    BY <1>2, <1>4, SeenMemKept DEF LocalStep
  <2>2. Fresh(w) => SeenMem(w)'
    BY <1>4, <2>1 DEF Fresh, SeenMem
  <2> QED BY <1>4, <2>2 DEF SeesMem
<1>9. SeesCollapsing(w)'
  <2>1. SeesCollapsing(w)
    BY DEF IInv
  <2>2. Waiting(w)' => Waiting(w)
    BY <1>4 DEF Waiting
  <2> QED BY <1>4, <1>6, <2>1, <2>2 DEF SeesCollapsing
<1> QED BY <1>2, <1>3, <1>4, <1>5, <1>7, <1>8, <1>9, PreservedReader

\* A reader that has got its message knows of the mark and of the end of
\* collapsing, and is going to look.
LEMMA SyncCollapsedKeeps ==
  ASSUME IInv, NEW w \in Workers, syncCollapsed(w)
  PROVE  IInv'
<1>1. TypeOK /\ Handler(w)
  BY DEF IInv
<1>2. /\ LocalStep(w) /\ Idle(w) /\ UNCHANGED <<xit, mem>> /\ e'[w].io = e[w].io
      /\ \A v \in Workers \ {w} : queued'[v] = queued[v] /\ lost'[v] = lost[v]
      /\ e'[w].mem = e[w].mem /\ e'[w].aborted = e[w].aborted
      /\ \/ e'[w] = e[w] /\ (e[w].io = "none" \/ e[w].aborted)
         \/ /\ e'[w].collapsing = (e[w].collapsing /\ xit.collapsing)
            /\ e'[w].public => ~xit.waitingToBeFreed
            /\ e[w].io = "reading" => Looks(w)'
  BY <1>1, SyncCollapsedLocal
<1>3. \A s \in TellSteps : ~At(w, s)
  BY <1>2 DEF Idle, At
<1>4. e[w].io # "none" => xit.used /\ (xit.collapsing => e[w].collapsing)
  BY DEF IInv, XitUsed
<1>5. e'[w].io # "none" => xit.used /\ (xit.collapsing => e'[w].collapsing)
  BY <1>2, <1>4
<1>6. SeesCollapsing(w)' /\ SeesMem(w)' /\ HearsOfMark(w)'
  <2>1. CASE e'[w] = e[w] /\ (e[w].io = "none" \/ e[w].aborted)
    <3>1. e'[w].io = "none" \/ (e'[w].aborted /\ ~e'[w].public)
      BY <1>1, <2>1 DEF Handler, EntryConsistent
    <3> QED BY <3>1 DEF SeesCollapsing, SeesMem, HearsOfMark, Waiting, MayFollow
  <2>2. CASE /\ e'[w].collapsing = (e[w].collapsing /\ xit.collapsing)
             /\ e'[w].public => ~xit.waitingToBeFreed
             /\ e[w].io = "reading" => Looks(w)'
    <3>1. HearsOfMark(w)'
      BY <1>2, <2>2 DEF HearsOfMark
    <3>2. SeesMem(w)'
      BY <1>2, <2>2 DEF SeesMem, Waiting
    <3>3. SeesCollapsing(w)'
      <4>1. xit.collapsing \in BOOLEAN
        BY <1>1, TypeParts DEF Xits
      <4> QED BY <1>2, <1>4, <2>2, <4>1 DEF SeesCollapsing, Waiting
    <3> QED BY <3>1, <3>2, <3>3
  <2> QED BY <1>2, <2>1, <2>2
<1>7. ASSUME NEW v \in Workers \ {w} PROVE Told(v) => Told(v)'
  BY <1>2, <1>3, ToldKept DEF LocalStep
<1>8. \A v \in Workers \ {w} : SeenMem(v) => SeenMem(v)'
  BY <1>2, SeenMemKept DEF LocalStep
<1>9. \A v \in Workers : e[v].io # "none" => xit.used
  BY DEF IInv, XitUsed
<1> QED BY <1>2, <1>5, <1>6, <1>7, <1>8, <1>9, Preserved

\* A reader that gives up needs nothing more.
LEMMA AbortReaderKeeps ==
  ASSUME IInv, NEW w \in Workers, abortReader(w)
  PROVE  IInv'
<1>1. TypeOK /\ Handler(w)
  BY DEF IInv
<1>2. /\ LocalStep(w) /\ e[w].io = "reading" /\ e'[w].io = "reading" /\ ~e'[w].public
      /\ e'[w].aborted \/ e'[w].complete
      /\ e[w].mem # "writing" /\ e'[w].mem = e[w].mem /\ e'[w].collapsing = e[w].collapsing
  BY <1>1, AbortReaderLocal
<1>3. UNCHANGED <<xit, mem, queued, lost>> /\ \A s \in TellSteps : ~At(w, s)
  BY DEF abortReader, At, TellSteps
<1>4. SeesCollapsing(w)' /\ SeesMem(w)' /\ HearsOfMark(w)'
  BY <1>2 DEF SeesCollapsing, SeesMem, HearsOfMark, Waiting
<1>5. xit.used /\ (xit.collapsing => e[w].collapsing)
  BY <1>2 DEF IInv, XitUsed
<1> QED BY <1>2, <1>3, <1>4, <1>5, PreservedReader

\* A writer that has written everything follows from now on, and hears of a mark.
LEMMA CompleteWritingKeeps ==
  ASSUME IInv, NEW w \in Workers, completeWriting(w)
  PROVE  IInv'
<1>1. TypeOK /\ Handler(w)
  BY DEF IInv
<1>2. /\ LocalStep(w) /\ "completeWriting" \in Pending(w) /\ e[w].io # "none"
      /\ e'[w].io = "reading" /\ e[w].mem = "done" /\ e'[w].mem = "done" /\ e'[w].complete
      /\ e'[w].collapsing = e[w].collapsing /\ e'[w].public = e[w].public
  BY <1>1, CompleteWritingLocal
<1>3. UNCHANGED <<xit, mem, queued, lost>> /\ \A s \in TellSteps : ~At(w, s)
  BY DEF completeWriting, At, TellSteps
<1>4. SeesCollapsing(w)' /\ SeesMem(w)'
  BY <1>2 DEF SeesCollapsing, SeesMem, Waiting
<1>5. HearsOfMark(w)'
  <2>1. e[w].io \in {"none", "writing", "reading"}
    BY <1>1, TypeParts DEF Entry
  <2>2. MayFollow(w) /\ HearsOfMark(w)
    BY <1>2, <2>1 DEF MayFollow, IInv
  <2>3. Told(w) => Told(w)'
    BY <1>2, <1>3, ToldKept DEF LocalStep
  <2> QED BY <1>2, <1>3, <2>2, <2>3 DEF HearsOfMark
<1>6. xit.used /\ (xit.collapsing => e[w].collapsing)
  BY <1>2 DEF IInv, XitUsed
<1> QED BY <1>2, <1>3, <1>4, <1>5, <1>6, PreservedReader

\* disconnect() of the last user empties the anchor; that of a writer marks it
\* as halted, which followers are not told of.
LEMMA DisconnectKeeps ==
  ASSUME IInv, NEW w \in Workers, disconnect(w)
  PROVE  IInv'
<1>1. TypeOK /\ Handler(w)
  BY DEF IInv
<1>2. LocalStep(w) /\ e[w].mem # "writing" /\ e'[w].io = "none" /\ e'[w].mem # "writing"
  BY <1>1, DisconnectLocal
<1>3. UNCHANGED <<mem, queued, lost>> /\ \A s \in TellSteps : ~At(w, s)
  BY DEF disconnect, At, TellSteps
<1>4. e'[w].io = "none" /\ e'[w].mem # "writing"
  BY <1>2
<1>5. SeesCollapsing(w)' /\ SeesMem(w)' /\ HearsOfMark(w)'
  BY <1>4 DEF SeesCollapsing, SeesMem, HearsOfMark, Waiting, MayFollow
<1>6. ASSUME NEW v \in Workers \ {w} PROVE Told(v) => Told(v)'
  BY <1>2, <1>3, ToldKept DEF LocalStep
<1>7. \A v \in Workers \ {w} : SeenMem(v) => SeenMem(v)'
  BY <1>2, <1>3, <1>4, SeenMemKept DEF LocalStep
<1>8. ASSUME NEW v \in Workers \ {w}, e[v].io # "none"
      PROVE  /\ xit'.used /\ xit'.collapsing = xit.collapsing
             /\ xit'.waitingToBeFreed /\ ~xit'.writerHalted => xit.waitingToBeFreed /\ ~xit.writerHalted
  <2>1. xit.used /\ xit \in Xits
    BY <1>1, <1>8, TypeParts DEF IInv, XitUsed
  <2>2. XitReaders \cup XitWriters # {w}
    BY <1>1, <1>8, NobodyHasEntry
  <2>3. xit' = [xit EXCEPT !.waitingToBeFreed = TRUE, !.writerHalted = TRUE] \/ xit' = xit
    BY <2>2 DEF disconnect
  <2> QED BY <2>1, <2>3 DEF Xits
<1> QED BY <1>2, <1>4, <1>5, <1>6, <1>7, <1>8, Preserved

\* A worker without an entry has nothing to miss.
LEMMA CloseMemKeeps ==
  ASSUME IInv, NEW w \in Workers, closeMem(w)
  PROVE  IInv'
<1>1. TypeOK /\ Handler(w)
  BY DEF IInv
<1>2. LocalStep(w) /\ e[w].mem # "writing" /\ e'[w].io = "none" /\ e'[w].mem # "writing"
  BY <1>1, CloseMemLocal
<1>3. UNCHANGED <<xit, mem, queued, lost>> /\ \A s \in TellSteps : ~At(w, s)
  BY DEF closeMem, At, TellSteps
<1>4. SeesCollapsing(w)' /\ SeesMem(w)' /\ HearsOfMark(w)'
  BY <1>2 DEF SeesCollapsing, SeesMem, HearsOfMark, Waiting, MayFollow
<1> QED BY <1>2, <1>3, <1>4, PreservedReader

----------------------------------------------------------------------------
(* The theorems *)

\* Every action keeps the inductive invariant.
LEMMA StepKeeps ==
  ASSUME IInv, NEW w \in Workers,
         \/ Step(w) \/ syncCollapsed(w)
         \/ addWriterEntry(w) \/ startWriting(w) \/ append(w) \/ complete(w) \/ abort(w)
         \/ evict(w) \/ get(w) \/ abandon(w)
  PROVE  IInv'
<1>1. CASE Step(w)
  BY <1>1, BroadcastKeeps, StopSharingKeeps, EvictMemKeeps, EvictXitKeeps, ClearKeeps, CompleteWritingKeeps,
     RejectKeeps, StartCachingKeeps, CopyKeeps, AbortMemKeeps, LookedKeeps, AbortReaderKeeps, DisconnectKeeps,
     CloseMemKeeps
     DEF Step
<1>2. CASE syncCollapsed(w) \/ addWriterEntry(w) \/ startWriting(w) \/ append(w) \/ complete(w) \/ abort(w)
  BY <1>2, SyncCollapsedKeeps, AddWriterKeeps, FillKeeps, AbortKeeps
<1>3. CASE evict(w) \/ get(w) \/ abandon(w)
  BY <1>3, EvictKeeps, GetKeeps
<1> QED BY <1>1, <1>2, <1>3

\* Every reachable state satisfies the inductive invariant.
LEMMA Invariance == Spec => []IInv
<1>1. Init => IInv
  <2> SUFFICES ASSUME Init PROVE IInv
    OBVIOUS
  <2>1. \A w \in Workers : e[w] = NoEntry /\ todo[w] = <<>> /\ Pending(w) = {}
    BY IdlePending DEF Init, Idle
  <2>2. NoEntry.io = "none" /\ EntryConsistent(NoEntry)
    BY DEF NoEntry, EntryConsistent
  <2>3. \A w \in Workers : Handler(w)
    BY <2>1, <2>2, IdlePending DEF Handler, Closes
  <2>4. TypeOK
    <3>1. 0 \in 0..QueueCapacity
      BY SizesAssumption
    <3>2. queued \in [Workers -> 0..QueueCapacity] /\ lost \in [Workers -> BOOLEAN] /\ todo \in [Workers -> Seq(Steps)] /\ e \in [Workers -> Entry]
      BY <3>1, EmptyTypes, IdlePending DEF Init
    <3> QED BY <3>2, EmptyTypes, TypeParts DEF Init
  <2>5. OneXitWriter /\ XitUsed
    BY <2>1, <2>2 DEF OneXitWriter, XitUsed
  <2>6. \A w \in Workers : SeesCollapsing(w) /\ SeesMem(w) /\ HearsOfMark(w)
    BY <2>1, <2>2 DEF SeesCollapsing, SeesMem, HearsOfMark, Waiting, MayFollow
  <2> QED BY <2>3, <2>4, <2>5, <2>6 DEF IInv
<1>2. IInv /\ [Next]_vars => IInv'
  <2>1. IInv /\ Next => IInv'
    BY StepKeeps DEF Next
  <2>2. IInv /\ UNCHANGED vars => IInv'
    BY DEF vars, IInv, TypeOK, OneXitWriter, XitUsed, Handler, Pending, SeesCollapsing, SeesMem, HearsOfMark,
           Waiting, Told, Tells, At, Looks, SeenMem, MayFollow, InMem, MemWriters
  <2> QED BY <2>1, <2>2
<1> QED BY <1>1, <1>2, PTL DEF Spec

\* Every variable keeps its type: among other things, no queue of a worker
\* exceeds its capacity, and handlers do only what handlers do.
THEOREM TypeCorrect == Spec => []TypeOK
BY Invariance, PTL DEF IInv

\* Transients.cc, CollapsedForwarding.cc: a follower that nobody is going to
\* tell anything has seen all there is, however workers join, write, evict
\* and leave, unless the last message to it was dropped with no other in the
\* queue.
THEOREM FollowersMissNothing == Spec => []NothingMissed
<1>1. IInv => NothingMissed
  <2> SUFFICES ASSUME IInv, NEW w \in Workers, Quiet(w), ~lost[w]
               PROVE  /\ e[w].collapsing = xit.collapsing
                      /\ SeenMem(w)
    BY DEF NothingMissed, SeenMem
  <2>1. SeesCollapsing(w) /\ SeesMem(w) /\ Waiting(w) /\ Idle(w)
    BY DEF IInv, Quiet
  <2>2. ~Told(w)
    BY DEF Quiet, Telling, Told, Tells
  <2>3. ~Looks(w)
    BY <2>1, IdlePending DEF Looks
  <2> QED BY <2>1, <2>2, <2>3 DEF SeesCollapsing, SeesMem
<1> QED BY <1>1, Invariance, PTL

\* Transients::evictCached() and evictIfFound(): every follower of a deleted
\* entry that still takes clients is going to be told, whoever deletes it and
\* whatever else happens at the same time, or the queue has dropped the only
\* message about it.
THEOREM DeletionIsHeardOf == Spec => []DeletionReachesAll
<1>1. IInv => DeletionReachesAll
  <2> SUFFICES ASSUME IInv, NEW w \in Workers,
                      e[w].io = "reading", e[w].public, xit.waitingToBeFreed, ~xit.writerHalted
               PROVE  queued[w] > 0 \/ Telling \/ lost[w]
    BY DEF DeletionReachesAll
  <2>1. Told(w)
    BY DEF IInv, HearsOfMark, MayFollow
  <2> QED BY <2>1 DEF Told, Tells, Telling
<1> QED BY <1>1, Invariance, PTL
=============================================================================
