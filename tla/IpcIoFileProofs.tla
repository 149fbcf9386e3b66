-------------------------- MODULE IpcIoFileProofs --------------------------
(***************************************************************************)
(* What holds of disk I/O through a disker for any queue capacity, number  *)
(* of pages, range of request IDs, number of I/Os and depth of recursion:  *)
(* proofs of the invariants of IpcIoFile.                                  *)
(***************************************************************************)
EXTENDS IpcIoFile, Integers, Sequences, FiniteSets, Functions, FiniteSetTheorems, SequenceTheorems,
        WellFoundedInduction, TLAPS

----------------------------------------------------------------------------
(* The inductive invariant *)

\* The I/Os in push() that have no ID yet, and all those in push().
InPush(c) == c.when \in {"push", "send"}
PushIos(s) == {s[i].io : i \in {j \in DOMAIN s : s[j].when = "push"}}
BusyIos(s) == {s[i].io : i \in {j \in DOMAIN s : InPush(s[j])}}

\* A timeout check is always the outermost handler.
Checking(s) == s # <<>> /\ s[1].when \in {"timeout", "abandon"}
Visited(s) == IF s # <<>> /\ s[1].when = "abandon" THEN s[1].visited ELSE {}

\* Only push() calls are nested, and the innermost one may be sending.
GoodStack(s, n) ==
  /\ s \in Seq(Calls) /\ Len(s) <= MaxDepth
  /\ \A i \in 2..Len(s) : InPush(s[i])
  /\ \A i \in 1..Len(s) : s[i].when = "send" => i = Len(s)
  /\ \A i \in 1..Len(s) : InPush(s[i]) => s[i].io \in 1..n
  /\ \A i, j \in 1..Len(s) : InPush(s[i]) /\ InPush(s[j]) /\ s[i].io = s[j].io => i = j
NoSend(s) == \A i \in 1..Len(s) : s[i].when # "send"

Stack == GoodStack(calls, ios)
Busy == BusyIos(calls)
InCheck == Checking(calls)
Visiting == Visited(calls)

\* Every I/O is in one place: in push(), pending or completed; an abandoned
\* request may be pending until checkTimeouts() ends.
Pending == olderRequests \cup newerRequests
Limited ==
  /\ IsFiniteSet(olderRequests) /\ IsFiniteSet(newerRequests)
  /\ pendingRequests <= QueueCapacity
Placed ==
  /\ olderRequests \cap newerRequests = {} /\ Visiting \cap newerRequests = {}
  /\ \A p, q \in Pending : p.io = q.io => p = q
  /\ \A p \in Pending : p.io \in (1..ios) \ Busy

Started == <<>>
Timeout == <<"timeout">>
Twice == <<"timeout", "response">>
Results == {Started, <<"refused">>, <<"response">>, Timeout, Twice}
Settled ==
  /\ \A io \in Busy : outcome[io] = Started
  /\ \A io \in (1..MaxIos) \ (1..ios) : outcome[io] = Started
  /\ \A p \in Pending \ Visiting : outcome[p.io] = Started
  /\ \A p \in Visiting : p.io \in Ios /\ outcome[p.io] # Started
  /\ \A p \in Visiting : p \in Pending => outcome[p.io] = Timeout
  /\ \A io \in 1..ios : outcome[io] = Started => io \in Busy \/ \E p \in Pending : p.io = io
  /\ \A io \in Ios : outcome[io] \in Results

\* How many IDs ago an ID was given: IDs run from 1 to IdMax.
Age(id) == IF id <= lastRequestId THEN lastRequestId - id ELSE lastRequestId + IdMax - id
Numbered == (1..ios) \ Waiting
Serials ==
  /\ issued > 0 => lastRequestId \in 1..IdMax
  /\ \A io \in Numbered : serial[io] \in 1..issued
  /\ \A io, jo \in Numbered : serial[io] = serial[jo] => io = jo
  /\ Sending => serial[Top.io] = issued
IdsFit ==
  /\ \A p \in Pending : /\ p.id \in 1..IdMax /\ ios - serial[p.io] < IdMax
                        /\ Age(p.id) = issued - serial[p.io]
  /\ \A m \in InFlight : /\ m.requestId \in 1..IdMax
                         /\ issued - serial[m.io] < IdMax => Age(m.requestId) = issued - serial[m.io]

\* Every I/O has at most one message, and somebody waits for it unless
\* something was abandoned.
Distinct(s) == \A i, j \in 1..Len(s) : s[i].io = s[j].io => i = j
Apart(S, T) == \A m \in S, n \in T : m.io # n.io
Held == {hand} \ {NoMessage}
Mail ==
  /\ Distinct(toDisker) /\ Distinct(toWorker)
  /\ Apart(SeqMessages(toDisker), SeqMessages(toWorker))
  /\ Apart(SeqMessages(toDisker), Held) /\ Apart(SeqMessages(toWorker), Held)
Expected ==
  /\ \A m \in InFlight : m.io \in (1..ios) \ Busy
  /\ \A m \in InFlight : (\E p \in Pending : p.io = m.io) \/ ~NothingAbandoned
  /\ \A m \in InFlight, p \in Pending : m.io = p.io => m.command = p.command

\* Whether a message has a page: a request to write has one, and no answer
\* to it.
Asks(m) == m.page <=> m.command = "cmdWrite"
Answers(m) == m.command = "cmdWrite" => ~m.page
PagesFit ==
  /\ \A m \in SeqMessages(toDisker) : Asks(m)
  /\ \A m \in SeqMessages(toWorker) : Answers(m)
  /\ \A m \in Held : IF answered THEN Answers(m) ELSE Asks(m)

Paged == {m \in InFlight : m.page}
Taken == IF PageInHand THEN 1 ELSE 0
PagesBounded == freePages + Taken + Cardinality(Paged) <= PageCount

\* How many timeout checks a pending request has seen.
Seen == IF InCheck THEN 1 ELSE 0
Aged ==
  /\ \A p \in olderRequests : checks[p.io] = 1 + Seen
  /\ \A p \in newerRequests : checks[p.io] = Seen
  /\ \A io \in Ios : TimedOut(io) => checks[io] = 2
Timed == Pending # {} /\ ~InCheck => timeoutCheckScheduled

IInv ==
  /\ TypeOK /\ Stack /\ Limited /\ Placed /\ Settled /\ Serials /\ IdsFit
  /\ Mail /\ Expected /\ PagesFit /\ PagesBounded /\ PagesInMessages /\ Aged /\ Timed

----------------------------------------------------------------------------
(* The call stack *)

LEMMA CallKinds ==
  ASSUME NEW c \in Calls
  PROVE  /\ c.when \in {"push", "send", "notification", "timeout", "abandon"}
         /\ InPush(c) => /\ c.command \in Commands /\ c.io \in Ios
                         /\ c = [when |-> c.when, command |-> c.command, io |-> c.io]
         /\ c.when = "abandon" => c.visited \subseteq Requests /\ c = [when |-> "abandon", visited |-> c.visited]
<1>1. CASE c \in [when : {"push", "send"}, command : Commands, io : Ios]
  BY <1>1
<1>2. CASE c \in [when : {"notification", "timeout"}]
  BY <1>2 DEF InPush
<1>3. CASE c \in [when : {"abandon"}, visited : SUBSET Requests]
  BY <1>3 DEF InPush
<1> QED BY <1>1, <1>2, <1>3 DEF Calls

LEMMA CallTypes ==
  /\ \A when \in {"push", "send"}, command \in Commands, io \in Ios :
       LET c == [when |-> when, command |-> command, io |-> io]
       IN  c \in Calls /\ c.when = when /\ c.command = command /\ c.io = io /\ InPush(c)
  /\ [when |-> "notification"] \in Calls /\ [when |-> "timeout"] \in Calls
  /\ \A v \in SUBSET Requests : [when |-> "abandon", visited |-> v] \in Calls
BY DEF Calls, InPush

\* The I/Os in push() are among those started.
LEMMA BusyFacts ==
  ASSUME NEW n \in Nat, NEW s, GoodStack(s, n)
  PROVE  PushIos(s) \subseteq BusyIos(s) /\ BusyIos(s) \subseteq 1..n
BY DEF GoodStack, PushIos, BusyIos, InPush

\* Another push() is called, or one goes on to send its request.
LEMMA StackGrows ==
  ASSUME NEW n \in Nat, NEW m \in Nat, n <= m, NEW s, GoodStack(s, n), NoSend(s), Len(s) < MaxDepth,
         NEW f \in Calls, InPush(f), f.io \in 1..m, f.io \notin BusyIos(s)
  PROVE  LET t == Append(s, f) IN
         /\ GoodStack(t, m) /\ (Checking(t) <=> Checking(s)) /\ Visited(t) = Visited(s)
         /\ BusyIos(t) = BusyIos(s) \cup {f.io}
         /\ f.when = "push" => PushIos(t) = PushIos(s) \cup {f.io} /\ NoSend(t)
         /\ f.when = "send" => PushIos(t) = PushIos(s)
         /\ t # <<>> /\ Len(t) = Len(s) + 1 /\ t[Len(t)] = f
<1>1. PICK t, k : t = Append(s, f) /\ k = Len(s)
  OBVIOUS
<1>2. /\ s \in Seq(Calls) /\ k \in Nat /\ (k = 0 <=> s = <<>>) /\ k < MaxDepth /\ MaxDepth \in Nat
      /\ DOMAIN s = 1..k
  BY <1>1, SizesAssumption DEF GoodStack
<1>3. /\ t \in Seq(Calls) /\ Len(t) = k + 1 /\ t # <<>> /\ DOMAIN t = 1..k + 1
      /\ t[k + 1] = f /\ \A i \in 1..k : t[i] = s[i]
  BY <1>1, <1>2, AppendProperties
<1>4. \A i \in 1..k + 1 : i \in 1..k \/ i = k + 1
  BY <1>2
<1>5. BusyIos(t) = BusyIos(s) \cup {f.io}
  <2>1. ASSUME NEW x \in BusyIos(t) PROVE x \in BusyIos(s) \cup {f.io}
    <3>1. PICK i \in 1..k + 1 : InPush(t[i]) /\ x = t[i].io
      BY <2>1, <1>3 DEF BusyIos
    <3> QED BY <3>1, <1>2, <1>3, <1>4 DEF BusyIos
  <2>2. ASSUME NEW x \in BusyIos(s) PROVE x \in BusyIos(t)
    <3>1. PICK i \in 1..k : InPush(s[i]) /\ x = s[i].io
      BY <2>2, <1>2 DEF BusyIos
    <3>2. i \in 1..k + 1
      BY <1>2
    <3> QED BY <3>1, <3>2, <1>3 DEF BusyIos
  <2>3. f.io \in BusyIos(t)
    <3>1. k + 1 \in 1..k + 1
      BY <1>2
    <3> QED BY <3>1, <1>3 DEF BusyIos
  <2> QED BY <2>1, <2>2, <2>3
<1>6. /\ f.when = "push" => PushIos(t) = PushIos(s) \cup {f.io}
      /\ f.when = "send" => PushIos(t) = PushIos(s)
  <2>1. ASSUME NEW x \in PushIos(t) PROVE x \in PushIos(s) \/ (f.when = "push" /\ x = f.io)
    <3>1. PICK i \in 1..k + 1 : t[i].when = "push" /\ x = t[i].io
      BY <2>1, <1>3 DEF PushIos
    <3> QED BY <3>1, <1>2, <1>3, <1>4 DEF PushIos
  <2>2. ASSUME NEW x \in PushIos(s) PROVE x \in PushIos(t)
    <3>1. PICK i \in 1..k : s[i].when = "push" /\ x = s[i].io
      BY <2>2, <1>2 DEF PushIos
    <3>2. i \in 1..k + 1
      BY <1>2
    <3> QED BY <3>1, <3>2, <1>3 DEF PushIos
  <2>3. f.when = "push" => f.io \in PushIos(t)
    <3>1. k + 1 \in 1..k + 1
      BY <1>2
    <3> QED BY <3>1, <1>3 DEF PushIos
  <2>4. f.when = "send" => f.when # "push"
    OBVIOUS
  <2> QED BY <2>1, <2>2, <2>3, <2>4
<1>7. GoodStack(t, m)
  <2>1. \A i \in 2..k + 1 : InPush(t[i])
    BY <1>1, <1>2, <1>3 DEF GoodStack
  <2>2. \A i \in 1..k + 1 : t[i].when = "send" => i = k + 1
    BY <1>1, <1>3, <1>4 DEF NoSend
  <2>3. \A i \in 1..k + 1 : InPush(t[i]) => t[i].io \in 1..m
    BY <1>1, <1>3, <1>4 DEF GoodStack
  <2>4. ASSUME NEW i \in 1..k + 1, NEW j \in 1..k + 1, InPush(t[i]), InPush(t[j]), t[i].io = t[j].io PROVE i = j
    <3>1. CASE i \in 1..k /\ j \in 1..k
      BY <3>1, <2>4, <1>1, <1>3 DEF GoodStack
    <3>2. CASE i = k + 1 \/ j = k + 1
      <4>1. t[i].io = f.io /\ t[j].io = f.io
        BY <3>2, <2>4, <1>3
      <4>2. \A l \in 1..k : InPush(t[l]) => t[l].io # f.io
        BY <1>2, <1>3 DEF BusyIos
      <4> QED BY <4>1, <4>2, <2>4, <1>4
    <3> QED BY <3>1, <3>2, <1>4
  <2>5. k + 1 <= MaxDepth
    BY <1>2
  <2> QED BY <2>1, <2>2, <2>3, <2>4, <2>5, <1>3 DEF GoodStack
<1>8. (Checking(t) <=> Checking(s)) /\ Visited(t) = Visited(s)
  <2>1. CASE k = 0
    <3>1. t[1] = f /\ s = <<>>
      BY <2>1, <1>2, <1>3
    <3> QED BY <3>1, <1>3 DEF Checking, Visited, InPush
  <2>2. CASE k # 0
    <3>1. t[1] = s[1] /\ s # <<>>
      BY <2>2, <1>2, <1>3
    <3> QED BY <3>1, <1>3 DEF Checking, Visited
  <2> QED BY <2>1, <2>2
<1>9. f.when = "push" => NoSend(t)
  BY <1>1, <1>3, <1>4 DEF NoSend
<1> QED BY <1>1, <1>3, <1>5, <1>6, <1>7, <1>8, <1>9

\* The innermost handler
LEMMA TopFacts ==
  ASSUME Stack, calls # <<>>, ios \in Nat
  PROVE  /\ Len(calls) \in Nat \ {0} /\ Top = calls[Len(calls)] /\ Top \in Calls
         /\ ~InPush(Top) => Len(calls) = 1 /\ Top = calls[1] /\ Waiting = {} /\ Busy = {}
         /\ InPush(Top) => Top.io \in Busy /\ Top.io \in 1..ios /\ Top.io \in Ios /\ Top.command \in Commands
         /\ Top.when = "push" => Top.io \in Waiting
         /\ Top.when = "send" => Top.io \notin Waiting
         /\ Top.when # "send" => NoSend(calls) /\ ~Sending
<1>1. PICK n : n = Len(calls)
  OBVIOUS
<1>2. n \in Nat \ {0} /\ Top = calls[n] /\ Top \in Calls /\ DOMAIN calls = 1..n /\ n \in 1..n
  BY <1>1 DEF Stack, GoodStack, Top
<1>3. ASSUME ~InPush(Top) PROVE n = 1 /\ Waiting = {} /\ Busy = {}
  <2>1. n = 1
    BY <1>1, <1>2, <1>3, SMTT(30) DEF Stack, GoodStack
  <2> QED BY <2>1, <1>2, <1>3 DEF Waiting, Busy, BusyIos, InPush
<1>4. ASSUME InPush(Top) PROVE Top.io \in Busy /\ Top.io \in 1..ios /\ Top.io \in Ios /\ Top.command \in Commands
  <2>1. Top.io \in Ios /\ Top.command \in Commands
    BY <1>2, <1>4, CallKinds
  <2>2. Top.io \in Busy
    BY <1>2, <1>4 DEF Busy, BusyIos
  <2>3. Top.io \in 1..ios
    BY <1>1, <1>2, <1>4 DEF Stack, GoodStack
  <2> QED BY <2>1, <2>2, <2>3
<1>5. Top.when = "push" => Top.io \in Waiting
  BY <1>2 DEF Waiting
<1>6. ASSUME Top.when = "send", Top.io \in Waiting PROVE FALSE
  <2>1. PICK i \in 1..n : calls[i].when = "push" /\ calls[i].io = Top.io
    BY <1>2, <1>6 DEF Waiting
  <2>2. i = n
    BY <2>1, <1>1, <1>2, <1>6 DEF Stack, GoodStack, InPush
  <2> QED BY <2>1, <2>2, <1>2, <1>6
<1>7. ASSUME Top.when # "send" PROVE NoSend(calls) /\ ~Sending
  BY <1>1, <1>2, <1>7 DEF Stack, GoodStack, NoSend, Sending
<1> QED BY <1>1, <1>2, <1>3, <1>4, <1>5, <1>6, <1>7

\* InTimeoutCheck and Abandoned look at the outermost handler only.
LEMMA OutermostOnly ==
  ASSUME Stack
  PROVE  (InTimeoutCheck <=> InCheck) /\ Abandoned = Visiting
<1>1. DOMAIN calls = 1..Len(calls) /\ Len(calls) \in Nat /\ (calls = <<>> <=> Len(calls) = 0)
  BY DEF Stack, GoodStack
<1>2. \A i \in 1..Len(calls) : calls[i].when \in {"timeout", "abandon"} => i = 1
  <2>1. PICK n : n = Len(calls)
    OBVIOUS
  <2>2. n \in Nat /\ \A i \in 2..n : InPush(calls[i])
    BY <2>1, <1>1 DEF Stack, GoodStack
  <2>3. \A i \in 1..n : i # 1 => i \in 2..n
    BY <2>2
  <2>4. \A i \in 1..n : InPush(calls[i]) => calls[i].when \notin {"timeout", "abandon"}
    BY DEF InPush
  <2> QED BY <2>1, <2>2, <2>3, <2>4
<1>3. InTimeoutCheck <=> InCheck
  BY <1>1, <1>2 DEF InTimeoutCheck, InCheck, Checking
<1>4. Abandoned = Visiting
  <2> DEFINE J == {j \in DOMAIN calls : calls[j].when = "abandon"}
             X == {calls[i].visited : i \in J}
  <2>1. CASE calls # <<>> /\ calls[1].when = "abandon"
    <3>1. J = {1}
      BY <2>1, <1>1, <1>2
    <3>2. X = {calls[1].visited}
      BY <3>1
    <3>3. UNION X = calls[1].visited
      <4> HIDE DEF X
      <4> QED BY <3>2
    <3> QED BY <3>3, <2>1 DEF Abandoned, Visiting, Visited
  <2>2. CASE ~(calls # <<>> /\ calls[1].when = "abandon")
    <3>1. J = {}
      BY <2>2, <1>1, <1>2
    <3>2. X = {}
      BY <3>1
    <3>3. UNION X = {}
      <4> HIDE DEF X
      <4> QED BY <3>2
    <3> QED BY <3>3, <2>2 DEF Abandoned, Visiting, Visited
  <2> QED BY <2>1, <2>2
<1> QED BY <1>3, <1>4

\* A handler returns.
LEMMA StackShrinks ==
  ASSUME Stack, calls # <<>>, ios \in Nat
  PROVE  /\ GoodStack(Callers, ios) /\ NoSend(Callers) /\ Len(Callers) < MaxDepth
         /\ BusyIos(Callers) \subseteq Busy
         /\ InPush(Top) => /\ BusyIos(Callers) = Busy \ {Top.io}
                           /\ (Checking(Callers) <=> InCheck) /\ Visited(Callers) = Visiting
         /\ Top.when = "push" => PushIos(Callers) = Waiting \ {Top.io}
         /\ Top.when = "send" => PushIos(Callers) = Waiting
         /\ ~InPush(Top) => /\ Callers = <<>> /\ PushIos(Callers) = {} /\ BusyIos(Callers) = {}
                            /\ ~Checking(Callers) /\ Visited(Callers) = {}
<1>1. PICK f, n, s : f = Top /\ n = Len(calls) /\ s = Callers
  OBVIOUS
<1>2. n \in Nat \ {0} /\ f = calls[n] /\ f \in Calls /\ calls \in Seq(Calls) /\ DOMAIN calls = 1..n
  BY <1>1, TopFacts DEF Stack, GoodStack
<1>3. s \in Seq(Calls) /\ Len(s) = n - 1 /\ DOMAIN s = 1..n - 1 /\ \A i \in 1..n - 1 : s[i] = calls[i]
  <2>1. \A i \in 1..n - 1 : calls[i] \in Calls
    BY <1>1, <1>2
  <2>2. s = SubSeq(calls, 1, n - 1) /\ n - 1 \in Int
    BY <1>1, <1>2 DEF Callers
  <2> QED BY <2>1, <2>2, <1>2, SubSeqProperties
<1>4. (\A i \in 1..n - 1 : i \in 1..n /\ i # n) /\ (\A i \in 1..n : i # n => i \in 1..n - 1) /\ n \in 1..n
  BY <1>2
<1>5. NoSend(s)
  <2>1. \A i \in 1..n : calls[i].when = "send" => i = n
    BY <1>1 DEF Stack, GoodStack
  <2>2. \A i \in 1..n - 1 : s[i].when # "send"
    BY <2>1, <1>3, <1>4
  <2> QED BY <2>2, <1>3 DEF NoSend
<1>6. GoodStack(s, ios) /\ Len(s) < MaxDepth
  <2>1. n <= MaxDepth /\ MaxDepth \in Nat
    BY <1>1, SizesAssumption DEF Stack, GoodStack
  <2>2. n - 1 < MaxDepth /\ n - 1 <= MaxDepth
    BY <2>1, <1>2
  <2>3. \A i \in 2..n - 1 : InPush(s[i])
    BY <1>1, <1>2, <1>3, SMTT(30) DEF Stack, GoodStack
  <2>4. /\ \A i \in 1..n - 1 : InPush(s[i]) => s[i].io \in 1..ios
        /\ \A i, j \in 1..n - 1 : InPush(s[i]) /\ InPush(s[j]) /\ s[i].io = s[j].io => i = j
    <3>1. /\ \A i \in 1..n : InPush(calls[i]) => calls[i].io \in 1..ios
          /\ \A i, j \in 1..n : InPush(calls[i]) /\ InPush(calls[j]) /\ calls[i].io = calls[j].io => i = j
      BY <1>1 DEF Stack, GoodStack
    <3> QED BY <3>1, <1>3, <1>4
  <2> QED BY <2>2, <2>3, <2>4, <1>3, <1>5 DEF GoodStack, NoSend
<1>7. \A x : x \in BusyIos(s) <=> \E i \in 1..n : i # n /\ InPush(calls[i]) /\ x = calls[i].io
  BY <1>3, <1>4 DEF BusyIos
<1>8. \A x : x \in PushIos(s) <=> \E i \in 1..n : i # n /\ calls[i].when = "push" /\ x = calls[i].io
  BY <1>3, <1>4 DEF PushIos
<1>9. \A x : x \in Busy <=> \E i \in 1..n : InPush(calls[i]) /\ x = calls[i].io
  BY <1>2 DEF Busy, BusyIos
<1>10. \A x : x \in Waiting <=> \E i \in 1..n : calls[i].when = "push" /\ x = calls[i].io
  BY <1>2 DEF Waiting
<1>11. \A i, j \in 1..n : InPush(calls[i]) /\ InPush(calls[j]) /\ calls[i].io = calls[j].io => i = j
  BY <1>1 DEF Stack, GoodStack
<1>12. ASSUME InPush(f)
       PROVE  /\ BusyIos(s) = Busy \ {f.io} /\ (Checking(s) <=> InCheck) /\ Visited(s) = Visiting
  <2>1. BusyIos(s) = Busy \ {f.io}
    BY <1>2, <1>4, <1>7, <1>9, <1>11, <1>12
  <2>2. CASE n = 1
    <3>1. s = <<>> /\ calls[1] = f
      BY <2>2, <1>2, <1>3
    <3>2. calls[1].when \notin {"timeout", "abandon"}
      BY <3>1, <1>12 DEF InPush
    <3> QED BY <2>1, <3>1, <3>2 DEF InCheck, Visiting, Checking, Visited
  <2>3. CASE n # 1
    <3>1. s # <<>> /\ s[1] = calls[1]
      BY <2>3, <1>2, <1>3
    <3> QED BY <2>1, <3>1 DEF InCheck, Visiting, Checking, Visited
  <2> QED BY <2>2, <2>3
<1>13. ASSUME f.when = "push" PROVE PushIos(s) = Waiting \ {f.io}
  <2>1. \A i \in 1..n : calls[i].when = "push" => InPush(calls[i])
    BY DEF InPush
  <2> QED BY <2>1, <1>2, <1>4, <1>8, <1>10, <1>11, <1>13
<1>14. ASSUME f.when = "send" PROVE PushIos(s) = Waiting
  <2>1. \A i \in 1..n : calls[i].when = "push" => i # n
    BY <1>2, <1>14
  <2>2. \A x : x \in PushIos(s) <=> x \in Waiting
    BY <2>1, <1>8, <1>10
  <2> QED BY <2>2
<1>15. ASSUME ~InPush(f)
       PROVE  s = <<>> /\ PushIos(s) = {} /\ BusyIos(s) = {} /\ ~Checking(s) /\ Visited(s) = {}
  <2>1. n = 1
    BY <1>1, <1>15, TopFacts
  <2>2. s = <<>> /\ DOMAIN s = {}
    BY <2>1, <1>3
  <2> QED BY <2>2 DEF PushIos, BusyIos, Checking, Visited
<1>16. BusyIos(s) \subseteq Busy
  BY <1>7, <1>9
<1> QED BY <1>1, <1>5, <1>6, <1>12, <1>13, <1>14, <1>15, <1>16

\* push() goes on to send its request.
LEMMA StackSends ==
  ASSUME Stack, calls # <<>>, ios \in Nat, Top.when = "push",
         NEW s, s = Append(Callers, [Top EXCEPT !.when = "send"])
  PROVE  /\ GoodStack(s, ios) /\ PushIos(s) = Waiting \ {Top.io} /\ BusyIos(s) = Busy
         /\ (Checking(s) <=> InCheck) /\ Visited(s) = Visiting
         /\ s # <<>> /\ s[Len(s)].when = "send" /\ s[Len(s)].io = Top.io /\ s[Len(s)].command = Top.command
<1>1. InPush(Top) /\ Top \in Calls
  BY TopFacts DEF InPush
<1>2. PICK f : f = [when |-> "send", command |-> Top.command, io |-> Top.io]
  OBVIOUS
<1>3. Top = [when |-> Top.when, command |-> Top.command, io |-> Top.io] /\ Top.command \in Commands /\ Top.io \in Ios
  BY <1>1, CallKinds
<1>4. [Top EXCEPT !.when = "send"] = f
  BY <1>2, <1>3
<1>5. f \in Calls /\ InPush(f) /\ f.when = "send" /\ f.io = Top.io /\ f.command = Top.command
  BY <1>2, <1>3, CallTypes
<1>6. Top.io \in Busy /\ Top.io \in 1..ios
  BY <1>1, TopFacts
<1>7. PICK c : c = Callers
  OBVIOUS
<1>8. /\ GoodStack(c, ios) /\ NoSend(c) /\ Len(c) < MaxDepth /\ BusyIos(c) = Busy \ {Top.io}
      /\ (Checking(c) <=> InCheck) /\ Visited(c) = Visiting /\ PushIos(c) = Waiting \ {Top.io}
  BY <1>1, <1>7, StackShrinks
<1>9. f.io \in 1..ios /\ f.io \notin BusyIos(c) /\ ios <= ios
  BY <1>5, <1>6, <1>8
<1>10. /\ GoodStack(Append(c, f), ios) /\ (Checking(Append(c, f)) <=> Checking(c)) /\ Visited(Append(c, f)) = Visited(c)
       /\ BusyIos(Append(c, f)) = BusyIos(c) \cup {f.io} /\ PushIos(Append(c, f)) = PushIos(c)
       /\ Append(c, f) # <<>> /\ Append(c, f)[Len(Append(c, f))] = f
  BY <1>5, <1>8, <1>9, StackGrows
<1>11. s = Append(c, f)
  BY <1>4, <1>7
<1> QED BY <1>5, <1>6, <1>8, <1>10, <1>11

\* An event of the event loop starts a handler.
LEMMA StackStart ==
  ASSUME NEW n \in Nat, NEW when \in {"notification", "timeout"}, NEW s, s = <<[when |-> when]>>
  PROVE  /\ GoodStack(s, n) /\ NoSend(s) /\ PushIos(s) = {} /\ BusyIos(s) = {} /\ Visited(s) = {}
         /\ Checking(s) <=> when = "timeout"
<1>1. PICK f : f = [when |-> when]
  OBVIOUS
<1>2. f \in Calls /\ f.when = when /\ ~InPush(f)
  BY <1>1, CallTypes DEF InPush
<1>3. s \in Seq(Calls) /\ Len(s) = 1 /\ s[1] = f /\ DOMAIN s = {1} /\ s # <<>>
  BY <1>1, <1>2
<1>4. GoodStack(s, n)
  BY <1>2, <1>3, SizesAssumption DEF GoodStack
<1>5. PushIos(s) = {} /\ BusyIos(s) = {}
  BY <1>2, <1>3 DEF PushIos, BusyIos
<1> QED BY <1>2, <1>3, <1>4, <1>5 DEF Checking, Visited, NoSend

LEMMA EmptyStack ==
  ASSUME calls = <<>>
  PROVE  Waiting = {} /\ Busy = {} /\ Visiting = {} /\ ~InCheck /\ ~Sending /\ NoSend(calls)
BY DEF Waiting, Busy, BusyIos, Visiting, Visited, InCheck, Checking, Sending, NoSend

\* checkTimeouts() begins to abandon requests, or abandons another one.
LEMMA StackAbandon ==
  ASSUME Stack, calls # <<>>, ios \in Nat, Top.when \in {"timeout", "abandon"}, NEW v \in SUBSET Requests,
         NEW s, s = Append(Callers, [when |-> "abandon", visited |-> v])
  PROVE  /\ GoodStack(s, ios) /\ NoSend(s) /\ PushIos(s) = {} /\ BusyIos(s) = {} /\ Checking(s) /\ Visited(s) = v
         /\ Waiting = {} /\ Busy = {} /\ InCheck /\ ~Sending
         /\ Visiting = (IF Top.when = "abandon" THEN Top.visited ELSE {})
<1>1. ~InPush(Top) /\ Top.when # "send"
  BY DEF InPush
<1>2. Len(calls) = 1 /\ Top = calls[1] /\ Waiting = {} /\ Busy = {} /\ ~Sending
  BY <1>1, TopFacts
<1>3. Callers = <<>>
  BY <1>1, StackShrinks
<1>4. PICK f : f = [when |-> "abandon", visited |-> v]
  OBVIOUS
<1>5. f \in Calls /\ f.when = "abandon" /\ f.visited = v /\ ~InPush(f)
  BY <1>4, CallTypes DEF InPush
<1>6. s = <<f>>
  BY <1>3, <1>4
<1>7. s \in Seq(Calls) /\ Len(s) = 1 /\ s[1] = f /\ s # <<>> /\ DOMAIN s = {1}
  <2>1. f \in Calls
    BY <1>5
  <2>2. <<f>> \in Seq(Calls) /\ Len(<<f>>) = 1 /\ <<f>>[1] = f /\ <<f>> # <<>> /\ DOMAIN <<f>> = {1}
    BY <2>1
  <2> QED BY <2>2, <1>6
<1>8. GoodStack(s, ios)
  BY <1>5, <1>7, SizesAssumption DEF GoodStack
<1>9. PushIos(s) = {} /\ BusyIos(s) = {}
  BY <1>5, <1>7 DEF PushIos, BusyIos
<1>10. Checking(s) /\ Visited(s) = v /\ NoSend(s)
  BY <1>5, <1>7 DEF Checking, Visited, NoSend
<1>11. InCheck /\ Visiting = (IF Top.when = "abandon" THEN Top.visited ELSE {})
  BY <1>2 DEF InCheck, Checking, Visiting, Visited
<1> QED BY <1>2, <1>8, <1>9, <1>10, <1>11

----------------------------------------------------------------------------
(* Messages *)

LEMMA TailMail ==
  ASSUME NEW s \in Seq(Messages), s # <<>>, Distinct(s)
  PROVE  /\ Tail(s) \in Seq(Messages) /\ Len(Tail(s)) = Len(s) - 1 /\ Distinct(Tail(s))
         /\ Head(s) \in SeqMessages(s) /\ Head(s) \in Messages
         /\ SeqMessages(s) = SeqMessages(Tail(s)) \cup {Head(s)}
         /\ \A m \in SeqMessages(Tail(s)) : m.io # Head(s).io
<1>1. PICK t, n : t = Tail(s) /\ n = Len(s)
  OBVIOUS
<1>2. n \in Nat \ {0} /\ Head(s) = s[1] /\ s[1] \in Messages /\ DOMAIN s = 1..n
  BY <1>1
<1>3. t \in Seq(Messages) /\ Len(t) = n - 1 /\ DOMAIN t = 1..n - 1 /\ \A i \in 1..n - 1 : t[i] = s[i + 1]
  BY <1>1, <1>2, HeadTailProperties
<1>4. \A i, j \in 1..n : s[i].io = s[j].io => i = j
  BY <1>1 DEF Distinct
<1>5. Distinct(t)
  <2> SUFFICES ASSUME NEW i \in 1..n - 1, NEW j \in 1..n - 1, t[i].io = t[j].io PROVE i = j
    BY <1>3 DEF Distinct
  <2>1. i + 1 \in 1..n /\ j + 1 \in 1..n /\ s[i + 1].io = s[j + 1].io
    BY <1>2, <1>3
  <2>2. i + 1 = j + 1
    BY <2>1, <1>4
  <2> QED BY <2>2
<1>6. \A m \in SeqMessages(t) : m.io # s[1].io
  <2> SUFFICES ASSUME NEW i \in 1..n - 1 PROVE t[i].io # s[1].io
    BY <1>3 DEF SeqMessages
  <2>1. i + 1 \in 1..n /\ 1 \in 1..n /\ i + 1 # 1
    BY <1>2
  <2> QED BY <2>1, <1>3, <1>4
<1>7. SeqMessages(s) = SeqMessages(t) \cup {s[1]}
  <2>1. ASSUME NEW i \in 1..n PROVE s[i] \in SeqMessages(t) \cup {s[1]}
    <3>1. CASE i = 1
      BY <3>1
    <3>2. CASE i # 1
      <4>1. i - 1 \in 1..n - 1 /\ t[i - 1] = s[i]
        BY <3>2, <1>2, <1>3
      <4> QED BY <4>1, <1>3 DEF SeqMessages
    <3> QED BY <3>1, <3>2
  <2>2. ASSUME NEW i \in 1..n - 1 PROVE t[i] \in SeqMessages(s)
    <3>1. i + 1 \in 1..n /\ t[i] = s[i + 1]
      BY <1>2, <1>3
    <3> QED BY <3>1, <1>2 DEF SeqMessages
  <2>3. s[1] \in SeqMessages(s)
    BY <1>2 DEF SeqMessages
  <2> QED BY <2>1, <2>2, <2>3, <1>2, <1>3 DEF SeqMessages
<1> QED BY <1>1, <1>2, <1>3, <1>5, <1>6, <1>7

LEMMA AppendMail ==
  ASSUME NEW s \in Seq(Messages), Distinct(s), NEW m \in Messages, \A k \in SeqMessages(s) : k.io # m.io
  PROVE  /\ Append(s, m) \in Seq(Messages) /\ Len(Append(s, m)) = Len(s) + 1 /\ Distinct(Append(s, m))
         /\ SeqMessages(Append(s, m)) = SeqMessages(s) \cup {m}
<1>1. PICK t, n : t = Append(s, m) /\ n = Len(s)
  OBVIOUS
<1>2. n \in Nat /\ DOMAIN s = 1..n
  BY <1>1
<1>3. /\ t \in Seq(Messages) /\ Len(t) = n + 1 /\ DOMAIN t = 1..n + 1
      /\ t[n + 1] = m /\ \A i \in 1..n : t[i] = s[i]
  BY <1>1, <1>2, AppendProperties
<1>4. \A i \in 1..n : s[i].io # m.io
  BY <1>2 DEF SeqMessages
<1>5. Distinct(t)
  <2> SUFFICES ASSUME NEW i \in 1..n + 1, NEW j \in 1..n + 1, t[i].io = t[j].io PROVE i = j
    BY <1>3 DEF Distinct
  <2>1. CASE i \in 1..n /\ j \in 1..n
    BY <2>1, <1>1, <1>3 DEF Distinct
  <2>2. CASE i = n + 1 \/ j = n + 1
    BY <2>2, <1>2, <1>3, <1>4
  <2> QED BY <2>1, <2>2, <1>2
<1>6. SeqMessages(t) = SeqMessages(s) \cup {m}
  <2>1. \A i \in 1..n + 1 : i \in 1..n \/ i = n + 1
    BY <1>2
  <2>2. \A i \in 1..n : i \in 1..n + 1
    BY <1>2
  <2>3. n + 1 \in 1..n + 1
    BY <1>2
  <2> QED BY <2>1, <2>2, <2>3, <1>2, <1>3 DEF SeqMessages
<1> QED BY <1>1, <1>3, <1>5, <1>6

LEMMA MailSize ==
  ASSUME NEW s \in Seq(Messages)
  PROVE  /\ IsFiniteSet(SeqMessages(s)) /\ SeqMessages(s) \subseteq Messages
         /\ Distinct(s) => Cardinality(SeqMessages(s)) = Len(s)
<1>1. PICK n, S : n = Len(s) /\ S = SeqMessages(s)
  OBVIOUS
<1>2. n \in Nat /\ s \in [1..n -> Messages] /\ DOMAIN s = 1..n
  BY <1>1
<1>3. S = {s[i] : i \in 1..n}
  BY <1>1, <1>2 DEF SeqMessages
<1>4. s \in Surjection(1..n, S)
  BY <1>2, <1>3 DEF Surjection
<1>5. IsFiniteSet(1..n) /\ Cardinality(1..n) = n
  BY <1>2, FS_Interval
<1>6. IsFiniteSet(S) /\ (Cardinality(S) = n <=> s \in Injection(1..n, S))
  BY <1>4, <1>5, FS_Surjection
<1>7. Distinct(s) => s \in Injection(1..n, S)
  <2>1. s \in [1..n -> S]
    BY <1>2, <1>3
  <2>2. Distinct(s) => \A i, j \in 1..n : s[i] = s[j] => i = j
    BY <1>1 DEF Distinct
  <2> QED BY <2>1, <2>2 DEF Injection, IsInjective
<1>8. S \subseteq Messages
  BY <1>2, <1>3
<1> QED BY <1>1, <1>6, <1>7, <1>8

\* All messages are finitely many, and none of them is NoMessage.
LEMMA FinitelyMany ==
  ASSUME NEW d \in Seq(Messages), NEW w \in Seq(Messages), NEW h \in Messages \cup {NoMessage}
  PROVE  LET F == SeqMessages(d) \cup SeqMessages(w) \cup ({h} \ {NoMessage})
         IN  /\ IsFiniteSet(F) /\ F \subseteq Messages
             /\ IsFiniteSet({m \in F : m.page}) /\ Cardinality({m \in F : m.page}) \in Nat
<1>1. PICK D, W, H, F : /\ D = SeqMessages(d) /\ W = SeqMessages(w) /\ H = {h} \ {NoMessage}
                        /\ F = (D \cup W) \cup H
  OBVIOUS
<1>2. IsFiniteSet(D) /\ IsFiniteSet(W) /\ D \subseteq Messages /\ W \subseteq Messages
  BY <1>1, MailSize
<1>3. IsFiniteSet(H) /\ H \subseteq Messages
  <2>1. H = {} \/ H = {h}
    BY <1>1
  <2>2. H \subseteq Messages
    BY <1>1
  <2>3. IsFiniteSet({}) /\ IsFiniteSet({h})
    BY FS_EmptySet, FS_Singleton
  <2> QED BY <2>1, <2>2, <2>3
<1>4. IsFiniteSet(D \cup W)
  BY <1>2, FS_Union
<1>5. IsFiniteSet(F) /\ F \subseteq Messages
  BY <1>1, <1>2, <1>3, <1>4, FS_Union
<1>6. IsFiniteSet({m \in F : m.page}) /\ Cardinality({m \in F : m.page}) \in Nat
  <2>1. PICK G : G = {m \in F : m.page}
    OBVIOUS
  <2>2. G \in SUBSET F
    BY <2>1
  <2>3. IsFiniteSet(G)
    BY <2>2, <1>5, FS_Subset
  <2> QED BY <2>1, <2>3, FS_CardinalityType
<1> QED BY <1>1, <1>5, <1>6

LEMMA InFlightFacts ==
  ASSUME TypeOK, IdsFit
  PROVE  /\ IsFiniteSet(InFlight) /\ InFlight \subseteq Messages /\ NoMessage \notin InFlight
         /\ IsFiniteSet(Paged) /\ Cardinality(Paged) \in Nat
<1>1. toDisker \in Seq(Messages) /\ toWorker \in Seq(Messages) /\ hand \in Messages \cup {NoMessage}
  BY DEF TypeOK
<1>2. /\ IsFiniteSet(InFlight) /\ InFlight \subseteq Messages
      /\ IsFiniteSet(Paged) /\ Cardinality(Paged) \in Nat
  BY <1>1, FinitelyMany DEF InFlight, Paged
<1>3. NoMessage \notin InFlight
  <2>1. NoMessage.requestId = 0
    BY DEF NoMessage
  <2>2. \A m \in InFlight : m.requestId # 0
    BY SizesAssumption DEF IdsFit
  <2> QED BY <2>1, <2>2
<1> QED BY <1>2, <1>3

----------------------------------------------------------------------------
(* What most steps leave alone *)

\* A step leaves the stack s, on which another I/O may then be started.
New == (1..ios') \ (1..ios)
Follows(s) ==
  /\ ios \in 0..MaxIos /\ ios' \in 0..MaxIos /\ ios <= ios' /\ Stack'
  /\ PushIos(s) \subseteq BusyIos(s) /\ BusyIos(s) \subseteq 1..ios
  /\ Waiting' = PushIos(s) \cup New /\ Busy' = BusyIos(s) \cup New
  /\ issued' = ios - Cardinality(PushIos(s)) /\ Cardinality(PushIos(s)) \in Nat
  /\ (InCheck' <=> Checking(s)) /\ Visiting' = Visited(s)
  /\ \A p \in Pending : ios - serial[p.io] < IdMax => ios' - serial[p.io] < IdMax
  /\ NoSend(s) => ~Sending'

LEMMA WaitingFinite ==
  ASSUME NEW n \in 0..MaxIos, NEW S \in SUBSET (1..n)
  PROVE  IsFiniteSet(S) /\ Cardinality(S) \in 0..n
<1>1. IsFiniteSet(1..n) /\ Cardinality(1..n) = n
  BY FS_Interval, SizesAssumption
<1>2. IsFiniteSet(S) /\ Cardinality(S) <= n
  BY <1>1, FS_Subset
<1> QED BY <1>2, FS_CardinalityType

LEMMA Stays ==
  ASSUME TypeOK, NEW s, GoodStack(s, ios), calls' = s, ios' = ios
  PROVE  Follows(s)
<1>1. ios \in 0..MaxIos /\ ios \in Nat /\ MaxIos \in Nat /\ New = {}
  BY SizesAssumption DEF TypeOK, New
<1>2. PushIos(s) \subseteq BusyIos(s) /\ BusyIos(s) \subseteq 1..ios
  BY <1>1, BusyFacts
<1>3. Stack' /\ Busy' = BusyIos(s) /\ (InCheck' <=> Checking(s)) /\ Visiting' = Visited(s)
  BY DEF Stack, Busy, InCheck, Visiting
<1>4. Waiting' = PushIos(s)
  BY DEF Waiting, PushIos
<1>5. Cardinality(PushIos(s)) \in Nat
  BY <1>1, <1>2, WaitingFinite, SizesAssumption
<1>6. issued' = ios - Cardinality(PushIos(s))
  BY <1>4 DEF issued
<1>7. ASSUME NoSend(s) PROVE ~Sending'
  <2>1. s \in Seq(Calls)
    BY DEF GoodStack
  <2>2. s # <<>> => Len(s) \in 1..Len(s)
    BY <2>1
  <2> QED BY <1>7, <2>2 DEF NoSend, Sending, Top
<1> QED BY <1>1, <1>2, <1>3, <1>4, <1>5, <1>6, <1>7 DEF Follows

LEMMA StartIoFollows ==
  ASSUME TypeOK, NEW s, GoodStack(s, ios), NoSend(s), StartIo(s)
  PROVE  Follows(s)
<1>1. ios \in 0..MaxIos /\ ios \in Nat /\ MaxIos \in Nat /\ ios < MaxIos /\ ios' = ios + 1 /\ Len(s) < MaxDepth
  BY SizesAssumption DEF TypeOK, StartIo
<1>2. PICK command \in Commands : calls' = Append(s, Push(command, ios + 1))
  BY DEF StartIo
<1>3. PICK f, k : f = Push(command, ios + 1) /\ k = ios + 1
  OBVIOUS
<1>4. k \in Ios /\ k \in Nat /\ ios <= k /\ k \in 1..k /\ k \notin 1..ios
  BY <1>1, <1>3 DEF Ios
<1>5. f \in Calls /\ f.when = "push" /\ f.io = k /\ InPush(f)
  BY <1>3, <1>4, CallTypes DEF Push
<1>6. PushIos(s) \subseteq BusyIos(s) /\ BusyIos(s) \subseteq 1..ios
  BY <1>1, BusyFacts
<1>7. PICK t : t = Append(s, f)
  OBVIOUS
<1>8. /\ GoodStack(t, k) /\ (Checking(t) <=> Checking(s)) /\ Visited(t) = Visited(s)
      /\ BusyIos(t) = BusyIos(s) \cup {k} /\ PushIos(t) = PushIos(s) \cup {k} /\ NoSend(t) /\ t # <<>>
      /\ Len(t) = Len(s) + 1 /\ t[Len(t)] = f
  <2>1. f.io \in 1..k /\ f.io \notin BusyIos(s)
    BY <1>4, <1>5, <1>6
  <2> QED BY <2>1, <1>1, <1>4, <1>5, <1>7, StackGrows
<1>9. calls' = t
  BY <1>2, <1>3, <1>7
<1>10. Stack' /\ Busy' = BusyIos(t) /\ (InCheck' <=> Checking(t)) /\ Visiting' = Visited(t)
  BY <1>1, <1>3, <1>8, <1>9 DEF Stack, Busy, InCheck, Visiting
<1>11. Waiting' = PushIos(t)
  BY <1>9 DEF Waiting, PushIos
<1>12. New = {k}
  BY <1>1, <1>3 DEF New
<1>13. PICK S, T : S = PushIos(s) /\ T = PushIos(t)
  OBVIOUS
<1>14. IsFiniteSet(S) /\ Cardinality(S) \in Nat
  BY <1>1, <1>6, <1>13, WaitingFinite, SizesAssumption
<1>15. Cardinality(T) = Cardinality(S) + 1
  BY <1>4, <1>6, <1>8, <1>13, <1>14, FS_AddElement
<1>16. issued' = ios - Cardinality(S)
  <2>1. issued' = ios' - Cardinality(T)
    BY <1>11, <1>13 DEF issued
  <2> QED BY <2>1, <1>1, <1>14, <1>15
<1>17. ~Sending'
  BY <1>5, <1>8, <1>9 DEF Sending, Top
<1>18. \A p \in Pending : ios' - serial[p.io] < IdMax
  <2>1. Paced
    BY DEF StartIo
  <2>2. \A p \in Pending : ios + 1 - serial[p.io] < IdMax
    BY <2>1 DEF Paced, Pending
  <2>3. \A p \in Pending : serial[p.io] \in Int
    BY SizesAssumption DEF TypeOK, Pending, Requests
  <2>4. \A p \in Pending : (ios + 1) - serial[p.io] < IdMax
    BY <2>2, <2>3, <1>1, SizesAssumption
  <2>5. ios' = ios + 1
    BY <1>1
  <2> QED BY <2>4, <2>5, Zenon
<1> QED BY <1>1, <1>6, <1>8, <1>10, <1>11, <1>12, <1>13, <1>14, <1>16, <1>17, <1>18 DEF Follows

LEMMA CallBackFollows ==
  ASSUME TypeOK, NEW s, GoodStack(s, ios), NoSend(s), CallBack(s)
  PROVE  Follows(s)
BY Stays, StartIoFollows DEF CallBack

\* A step that does not touch the stack.
LEMMA SameStack ==
  ASSUME IInv, UNCHANGED <<calls, ios>>
  PROVE  /\ Follows(calls) /\ Waiting = PushIos(calls) /\ Busy = BusyIos(calls)
         /\ Visiting = Visited(calls) /\ InCheck = Checking(calls)
         /\ (Sending' <=> Sending) /\ Top' = Top /\ Taken' = Taken
<1>1. Follows(calls)
  BY Stays DEF IInv, Stack
<1>2. (Sending' <=> Sending) /\ Top' = Top
  BY DEF Sending, Top
<1>3. Taken' = Taken
  BY <1>2 DEF Taken, PageInHand
<1> QED BY <1>1, <1>2, <1>3 DEF Waiting, PushIos, Busy, Visiting, InCheck

\* Requests are at most forgotten.
LEMMA PlacedKept ==
  ASSUME IInv, NEW s, Follows(s), BusyIos(s) \subseteq Busy,
         olderRequests' \subseteq olderRequests, newerRequests' \subseteq newerRequests,
         Visited(s) \cap newerRequests' = {}
  PROVE  Placed' /\ Limited'
<1>1. Pending' \subseteq Pending
  BY DEF Pending
<1>2. Placed'
  <2>1. \A p \in Pending : p.io \in (1..ios) \ Busy
    BY DEF IInv, Placed
  <2>2. \A p \in Pending' : p.io \in (1..ios') \ Busy'
    BY <1>1, <2>1, SizesAssumption DEF Follows, New
  <2>3. Visiting' \cap newerRequests' = {}
    BY DEF Follows
  <2> QED BY <1>1, <2>2, <2>3 DEF IInv, Placed
<1>3. Limited'
  <2>1. PICK A, B, C, D : /\ A = olderRequests /\ B = newerRequests
                          /\ C = olderRequests' /\ D = newerRequests'
    OBVIOUS
  <2>2. IsFiniteSet(A) /\ IsFiniteSet(B) /\ Cardinality(A) + Cardinality(B) <= QueueCapacity
    BY <2>1 DEF IInv, Limited, pendingRequests
  <2>3. IsFiniteSet(C) /\ IsFiniteSet(D) /\ Cardinality(C) <= Cardinality(A) /\ Cardinality(D) <= Cardinality(B)
    BY <2>1, <2>2, FS_Subset
  <2>4. /\ Cardinality(A) \in Nat /\ Cardinality(B) \in Nat /\ Cardinality(C) \in Nat /\ Cardinality(D) \in Nat
        /\ QueueCapacity \in Nat
    BY <2>2, <2>3, FS_CardinalityType, SizesAssumption
  <2>5. Cardinality(C) + Cardinality(D) <= QueueCapacity
    BY <2>2, <2>3, <2>4
  <2> QED BY <2>1, <2>3, <2>5 DEF Limited, pendingRequests
<1> QED BY <1>2, <1>3

----------------------------------------------------------------------------
(* Request IDs *)

LEMMA IdFacts ==
  ASSUME IInv
  PROVE  /\ IdMax \in Nat \ {0} /\ lastRequestId \in 0..IdMax /\ ios \in Nat /\ MaxIos \in Nat
         /\ IsFiniteSet(Waiting) /\ Cardinality(Waiting) \in 0..ios /\ issued \in Nat /\ issued <= ios
         /\ Waiting \subseteq Busy /\ Busy \subseteq 1..ios
         /\ \A io \in Numbered : serial[io] \in 1..issued
         /\ \A p \in Pending : p.io \in Numbered
         /\ \A m \in InFlight : m.io \in Numbered
<1>1. IdMax \in Nat \ {0} /\ lastRequestId \in 0..IdMax /\ ios \in 0..MaxIos /\ MaxIos \in Nat /\ ios \in Nat
  BY SizesAssumption DEF IInv, TypeOK
<1>2. Waiting \subseteq Busy /\ Busy \subseteq 1..ios
  <2>1. PushIos(calls) \subseteq BusyIos(calls) /\ BusyIos(calls) \subseteq 1..ios
    BY <1>1, BusyFacts DEF IInv, Stack
  <2>2. PushIos(calls) = Waiting
    BY DEF PushIos, Waiting
  <2> QED BY <2>1, <2>2 DEF Busy
<1>3. IsFiniteSet(Waiting) /\ Cardinality(Waiting) \in 0..ios
  BY <1>1, <1>2, WaitingFinite
<1>4. issued \in Nat /\ issued <= ios
  BY <1>1, <1>3 DEF issued
<1>5. \A p \in Pending : p.io \in Numbered
  BY <1>2 DEF IInv, Placed, Numbered
<1>6. \A m \in InFlight : m.io \in Numbered
  BY <1>2 DEF IInv, Expected, Numbered
<1>7. \A io \in Numbered : serial[io] \in 1..issued
  BY DEF IInv, Serials
<1> QED BY <1>1, <1>2, <1>3, <1>4, <1>5, <1>6, <1>7

\* Different IDs have different ages.
LEMMA AgesDiffer ==
  ASSUME IdMax \in Nat, lastRequestId \in 1..IdMax, NEW a \in 1..IdMax, NEW b \in 1..IdMax, Age(a) = Age(b)
  PROVE  a = b
<1>1. PICK l, n : l = lastRequestId /\ n = IdMax
  OBVIOUS
<1>2. n \in Nat /\ l \in 1..n /\ a \in 1..n /\ b \in 1..n
  BY <1>1
<1>3. (IF a <= l THEN l - a ELSE l + n - a) = (IF b <= l THEN l - b ELSE l + n - b)
  BY <1>1 DEF Age
<1> QED BY <1>2, <1>3

\* What the ID of a response says.
LEMMA Matching ==
  ASSUME IInv
  PROVE  /\ \A p, q \in Pending : p.id = q.id => p = q
         /\ \A m \in InFlight, p \in Pending : m.io = p.io => m.requestId = p.id
         /\ \A m \in InFlight, p \in Pending :
              issued - serial[m.io] < IdMax /\ m.requestId = p.id => m.io = p.io
<1>1. /\ IdMax \in Nat /\ issued \in Nat
      /\ \A io \in Numbered : serial[io] \in 1..issued
      /\ \A p \in Pending : p.io \in Numbered
      /\ \A m \in InFlight : m.io \in Numbered
  BY IdFacts
<1>2. \A io, jo \in Numbered : serial[io] = serial[jo] => io = jo
  BY DEF IInv, Serials
<1>3. \A p \in Pending : p.id \in 1..IdMax /\ Age(p.id) = issued - serial[p.io]
  BY DEF IInv, IdsFit
<1>4. \A p, q \in Pending : p.io = q.io => p = q
  BY DEF IInv, Placed
<1>5. ASSUME NEW p \in Pending, NEW q \in Pending, p.id = q.id PROVE p = q
  <2>1. issued - serial[p.io] = issued - serial[q.io]
    BY <1>3, <1>5
  <2>2. serial[p.io] \in 1..issued /\ serial[q.io] \in 1..issued
    BY <1>1
  <2>3. serial[p.io] = serial[q.io]
    <3>1. PICK a, b, c : a = serial[p.io] /\ b = serial[q.io] /\ c = issued
      OBVIOUS
    <3>2. a \in 1..c /\ b \in 1..c /\ c - a = c - b /\ c \in Nat
      BY <3>1, <2>1, <2>2, <1>1
    <3>3. a = b
      BY <3>2
    <3> QED BY <3>1, <3>3
  <2> QED BY <2>3, <1>1, <1>2, <1>4
<1>6. ASSUME NEW m \in InFlight, NEW p \in Pending, m.io = p.io PROVE m.requestId = p.id
  <2>1. ios - serial[p.io] < IdMax /\ serial[p.io] \in 1..issued /\ issued <= ios /\ ios \in Nat
    BY <1>1, IdFacts DEF IInv, IdsFit
  <2>2. issued - serial[m.io] < IdMax /\ issued > 0
    <3>1. PICK a, b, c : a = serial[p.io] /\ b = issued /\ c = ios
      OBVIOUS
    <3>2. a \in 1..b /\ b \in Nat /\ b <= c /\ c \in Nat /\ c - a < IdMax
      BY <3>1, <2>1, <1>1
    <3>3. b - a < IdMax /\ b > 0
      BY <3>2, <1>1
    <3> QED BY <3>1, <3>3, <1>6
  <2>3. m.requestId \in 1..IdMax /\ Age(m.requestId) = issued - serial[m.io]
    BY <2>2 DEF IInv, IdsFit
  <2>4. Age(p.id) = Age(m.requestId) /\ p.id \in 1..IdMax
    BY <2>3, <1>3, <1>6
  <2>5. lastRequestId \in 1..IdMax
    BY <2>2 DEF IInv, Serials
  <2> QED BY <2>3, <2>4, <2>5, <1>1, AgesDiffer
<1>7. ASSUME NEW m \in InFlight, NEW p \in Pending, issued - serial[m.io] < IdMax, m.requestId = p.id
      PROVE  m.io = p.io
  <2>1. issued - serial[m.io] = issued - serial[p.io]
    BY <1>3, <1>7 DEF IInv, IdsFit
  <2>2. serial[p.io] \in 1..issued /\ serial[m.io] \in 1..issued
    BY <1>1
  <2>3. serial[m.io] = serial[p.io]
    <3>1. PICK a, b, c : a = serial[m.io] /\ b = serial[p.io] /\ c = issued
      OBVIOUS
    <3>2. a \in 1..c /\ b \in 1..c /\ c - a = c - b /\ c \in Nat
      BY <3>1, <2>1, <2>2, <1>1
    <3>3. a = b
      BY <3>2
    <3> QED BY <3>1, <3>3
  <2> QED BY <2>3, <1>1, <1>2
<1> QED BY <1>5, <1>6, <1>7

\* A step that gives no ID.
LEMMA IdsKept ==
  ASSUME IInv, NEW s, Follows(s), PushIos(s) = Waiting, UNCHANGED <<lastRequestId, serial>>,
         Pending' \subseteq Pending, Sending' => Sending /\ Top' = Top,
         \A m \in InFlight' : \E n \in InFlight : m.requestId = n.requestId /\ m.io = n.io
  PROVE  Serials' /\ IdsFit'
<1>1. issued' = issued /\ Numbered' = Numbered
  <2>1. issued' = issued
    BY DEF Follows, issued
  <2>2. ios \in Nat /\ ios' \in Nat /\ ios <= ios' /\ Waiting \subseteq 1..ios
    BY SizesAssumption, IdFacts DEF Follows
  <2>3. (1..ios') \ (Waiting \cup ((1..ios') \ (1..ios))) = (1..ios) \ Waiting
    BY <2>2
  <2> QED BY <2>1, <2>3 DEF Numbered, Follows, New
<1>2. \A i : Age(i)' = Age(i)
  BY DEF Age
<1>3. Serials'
  <2>1. Serials
    BY DEF IInv
  <2> QED BY <2>1, <1>1 DEF Serials
<1>4. IdsFit
  BY DEF IInv
<1>5. \A p \in Pending' : ios' - serial'[p.io] < IdMax /\ p.id \in 1..IdMax /\ Age(p.id)' = issued' - serial'[p.io]
  BY <1>1, <1>2, <1>4 DEF IdsFit, Follows
<1>6. ASSUME NEW m \in InFlight'
      PROVE  /\ m.requestId \in 1..IdMax
             /\ issued' - serial'[m.io] < IdMax => Age(m.requestId)' = issued' - serial'[m.io]
  <2>1. PICK n \in InFlight : m.requestId = n.requestId /\ m.io = n.io
    OBVIOUS
  <2> QED BY <2>1, <1>1, <1>2, <1>4 DEF IdsFit
<1>7. IdsFit'
  BY <1>5, <1>6 DEF IdsFit
<1> QED BY <1>3, <1>7

\* The age of an ID when another one is given.
LEMMA AgeGrows ==
  ASSUME IdMax \in Nat, lastRequestId \in 1..IdMax, lastRequestId' = nextRequestId, NEW i \in 1..IdMax,
         Age(i) + 1 < IdMax
  PROVE  Age(i)' = Age(i) + 1
<1>1. PICK l, k, n : l = lastRequestId /\ k = nextRequestId /\ n = IdMax
  OBVIOUS
<1>2. n \in Nat /\ l \in 1..n /\ i \in 1..n /\ k = IF l = n THEN 1 ELSE l + 1
  BY <1>1 DEF nextRequestId
<1>3. (IF i <= l THEN l - i ELSE l + n - i) + 1 < n
  BY <1>1 DEF Age
<1>4. (IF i <= k THEN k - i ELSE k + n - i) = (IF i <= l THEN l - i ELSE l + n - i) + 1
  BY <1>2, <1>3
<1> QED BY <1>1, <1>4 DEF Age

\* push() gives an ID: it does not come back while its last owner is pending.
LEMMA IdsAdvance ==
  ASSUME IInv, NEW t \in Waiting, NEW s, Follows(s), PushIos(s) = Waiting \ {t}, lastRequestId' = nextRequestId,
         serial' = [serial EXCEPT ![t] = issued + 1], Pending' = Pending, InFlight' = InFlight,
         Sending' => Top'.io = t
  PROVE  Serials' /\ IdsFit' /\ lastRequestId' \in 1..IdMax /\ serial' \in [Ios -> 0..MaxIos]
<1>1. /\ IdMax \in Nat \ {0} /\ lastRequestId \in 0..IdMax /\ ios \in Nat /\ MaxIos \in Nat
      /\ IsFiniteSet(Waiting) /\ Cardinality(Waiting) \in 0..ios /\ issued \in Nat /\ issued <= ios
      /\ Waiting \subseteq Busy /\ Busy \subseteq 1..ios
      /\ \A io \in Numbered : serial[io] \in 1..issued
      /\ \A p \in Pending : p.io \in Numbered
      /\ \A m \in InFlight : m.io \in Numbered
  BY IdFacts
<1>2. lastRequestId' \in 1..IdMax
  BY <1>1 DEF nextRequestId
<1>3. issued' = issued + 1 /\ issued + 1 <= ios
  <2>1. PICK S, T : S = Waiting /\ T = PushIos(s)
    OBVIOUS
  <2>2. IsFiniteSet(S) /\ t \in S /\ T = S \ {t} /\ Cardinality(S) \in 0..ios
    BY <2>1, <1>1
  <2>3. Cardinality(T) = Cardinality(S) - 1 /\ Cardinality(T) \in Nat
    BY <2>2, FS_RemoveElement, FS_CardinalityType
  <2>4. issued = ios - Cardinality(S) /\ issued' = ios - Cardinality(T)
    BY <2>1 DEF issued, Follows
  <2> QED BY <2>2, <2>3, <2>4, <1>1
<1>4. Numbered' = Numbered \cup {t} /\ t \notin Numbered /\ t \in 1..ios
  <2>1. ios \in Nat /\ ios' \in Nat /\ ios <= ios' /\ Waiting \subseteq 1..ios
    BY <1>1, SizesAssumption DEF Follows
  <2>2. (1..ios') \ ((Waiting \ {t}) \cup ((1..ios') \ (1..ios))) = ((1..ios) \ Waiting) \cup {t}
    BY <2>1
  <2> QED BY <2>1, <2>2 DEF Numbered, Follows, New
<1>5. /\ \A io \in Numbered : serial'[io] = serial[io]
      /\ serial'[t] = issued + 1
  <2>1. serial \in [Ios -> 0..MaxIos] /\ Numbered \subseteq Ios /\ t \in Ios
    <3>1. ios \in 0..MaxIos
      BY DEF IInv, TypeOK
    <3> QED BY <3>1, <1>1, <1>4, SMTT(30) DEF IInv, TypeOK, Ios, Numbered
  <2> QED BY <2>1, <1>4
<1>6. \A io \in Numbered : serial'[io] \in 1..issued /\ serial'[io] \in 1..issued + 1 /\ serial'[io] # issued + 1
  BY <1>1, <1>5
<1>7. Serials'
  <2>1. \A io \in Numbered' : serial'[io] \in 1..issued'
    <3>1. issued + 1 \in 1..issued + 1
      BY <1>1
    <3> QED BY <3>1, <1>3, <1>4, <1>5, <1>6
  <2>2. \A io, jo \in Numbered : serial[io] = serial[jo] => io = jo
    BY DEF IInv, Serials
  <2>3. \A io, jo \in Numbered' : serial'[io] = serial'[jo] => io = jo
    BY <2>2, <1>4, <1>5, <1>6
  <2>4. Sending' => serial'[Top'.io] = issued'
    BY <1>3, <1>5
  <2> QED BY <2>1, <2>3, <2>4, <1>2 DEF Serials
<1>8. ASSUME NEW io \in Numbered, NEW i \in 1..IdMax, issued + 1 - serial[io] < IdMax,
             issued - serial[io] < IdMax => Age(i) = issued - serial[io]
      PROVE  Age(i)' = issued' - serial'[io]
  <2>1. PICK a, b : a = serial[io] /\ b = issued
    OBVIOUS
  <2>2. a \in 1..b /\ b \in Nat /\ b + 1 - a < IdMax
    BY <2>1, <1>1, <1>8
  <2>3. b - a < IdMax /\ b > 0 /\ (b - a) + 1 < IdMax /\ (b - a) + 1 = (b + 1) - a
    BY <2>2, <1>1
  <2>4. lastRequestId \in 1..IdMax /\ Age(i) = b - a
    BY <2>1, <2>3, <1>8 DEF IInv, Serials
  <2>5. Age(i)' = Age(i) + 1
    BY <2>3, <2>4, <1>1, AgeGrows
  <2> QED BY <2>1, <2>3, <2>4, <2>5, <1>3, <1>5
<1>9. ASSUME NEW p \in Pending'
      PROVE  p.id \in 1..IdMax /\ ios' - serial'[p.io] < IdMax /\ Age(p.id)' = issued' - serial'[p.io]
  <2>1. p \in Pending /\ p.io \in Numbered /\ serial'[p.io] = serial[p.io]
    BY <1>1, <1>5
  <2>2. p.id \in 1..IdMax /\ ios - serial[p.io] < IdMax /\ Age(p.id) = issued - serial[p.io]
    BY <2>1 DEF IInv, IdsFit
  <2>3. issued + 1 - serial[p.io] < IdMax
    <3>1. PICK a, b, c : a = serial[p.io] /\ b = issued /\ c = ios
      OBVIOUS
    <3>2. a \in 1..b /\ b \in Nat /\ b + 1 <= c /\ c \in Nat /\ c - a < IdMax
      BY <3>1, <2>1, <2>2, <1>1, <1>3
    <3>3. b + 1 - a < IdMax
      BY <3>2, <1>1
    <3> QED BY <3>1, <3>3
  <2>4. Age(p.id)' = issued' - serial'[p.io]
    BY <2>1, <2>2, <2>3, <1>8
  <2>5. ios' - serial[p.io] < IdMax
    BY <2>1, <2>2 DEF Follows
  <2> QED BY <2>1, <2>2, <2>4, <2>5
<1>10. ASSUME NEW m \in InFlight'
       PROVE  /\ m.requestId \in 1..IdMax
              /\ issued' - serial'[m.io] < IdMax => Age(m.requestId)' = issued' - serial'[m.io]
  <2>1. m \in InFlight /\ m.io \in Numbered /\ serial'[m.io] = serial[m.io]
    BY <1>1, <1>5
  <2>2. m.requestId \in 1..IdMax /\ (issued - serial[m.io] < IdMax => Age(m.requestId) = issued - serial[m.io])
    BY <2>1 DEF IInv, IdsFit
  <2>3. ASSUME issued' - serial'[m.io] < IdMax PROVE Age(m.requestId)' = issued' - serial'[m.io]
    <3>1. issued + 1 - serial[m.io] < IdMax
      <4>1. issued' = issued + 1 /\ serial'[m.io] = serial[m.io]
        BY <2>1, <1>3
      <4>2. (issued + 1) - serial[m.io] < IdMax
        BY <4>1, <2>3, Zenon
      <4>3. issued \in Nat /\ serial[m.io] \in Int /\ IdMax \in Nat
        BY <2>1, <1>1
      <4> QED BY <4>2, <4>3
    <3> QED BY <3>1, <2>1, <2>2, <1>8
  <2> QED BY <2>2, <2>3
<1>11. IdsFit'
  BY <1>9, <1>10 DEF IdsFit
<1>12. serial' \in [Ios -> 0..MaxIos]
  <2>1. issued + 1 \in 0..MaxIos
    BY <1>1, <1>3 DEF IInv, TypeOK
  <2> QED BY <2>1 DEF IInv, TypeOK
<1> QED BY <1>2, <1>7, <1>11, <1>12

----------------------------------------------------------------------------
(* Outcomes *)

Outcomes == {"response", "timeout", "refused"}

LEMMA ResultFacts ==
  /\ Timeout # Started /\ Twice # Started /\ Twice # Timeout
  /\ \A how \in Outcomes : /\ Append(Started, how) \in Results /\ Append(Started, how) # Started
                           /\ Append(Started, how) = Timeout <=> how = "timeout"
                           /\ Append(Started, how) # Twice
  /\ Append(Timeout, "response") = Twice
  /\ \A r \in Results : (r # <<>> /\ Head(r) = "timeout") <=> r \in {Timeout, Twice}
  /\ \A r \in Results : r \in Seq(Outcomes)
<1>1. Timeout # Started /\ Twice # Started /\ Twice # Timeout
  BY DEF Timeout, Started, Twice
<1>2. /\ Append(Started, "response") = <<"response">> /\ Append(Started, "timeout") = <<"timeout">>
      /\ Append(Started, "refused") = <<"refused">> /\ Append(Timeout, "response") = Twice
  <2>1. /\ Append(Started, "response") = <<"response">> /\ Append(Started, "timeout") = <<"timeout">>
        /\ Append(Started, "refused") = <<"refused">>
    BY DEF Started
  <2>2. PICK s, u, v : s = Timeout /\ u = Append(Timeout, "response") /\ v = Twice
    OBVIOUS
  <2>3. s \in Seq(Outcomes) /\ Len(s) = 1 /\ s[1] = "timeout" /\ "response" \in Outcomes
    BY <2>2 DEF Timeout, Outcomes
  <2>4. v \in Seq(Outcomes) /\ Len(v) = 2 /\ v[1] = "timeout" /\ v[2] = "response"
    BY <2>2 DEF Twice, Outcomes
  <2>5. u = Append(s, "response")
    BY <2>2
  <2>6. u \in Seq(Outcomes) /\ Len(u) = 2 /\ u[1] = "timeout" /\ u[2] = "response"
    <3>1. PICK e : e = "response"
      OBVIOUS
    <3>2. e \in Outcomes /\ u = Append(s, e)
      BY <3>1, <2>3, <2>5
    <3>3. s \in Seq(Outcomes)
      BY <2>3
    <3>4. u \in Seq(Outcomes) /\ Len(u) = Len(s) + 1 /\ (\A i \in 1..Len(s) : u[i] = s[i]) /\ u[Len(s) + 1] = e
      BY <3>2, <3>3, AppendProperties
    <3> QED BY <3>1, <3>4, <2>3
  <2>7. \A i \in 1..Len(u) : u[i] = v[i]
    BY <2>4, <2>6
  <2>8. u = v
    BY <2>4, <2>6, <2>7, SeqEqual
  <2> QED BY <2>1, <2>2, <2>8
<1>3. <<"response">> # <<"timeout">> /\ <<"refused">> # <<"timeout">>
  OBVIOUS
<1>4. <<"response">> # Twice /\ <<"refused">> # Twice /\ <<"timeout">> # Twice
  BY DEF Twice
<1>5. <<"response">> # <<>> /\ <<"refused">> # <<>> /\ <<"timeout">> # <<>>
  OBVIOUS
<1>6. Head(<<"response">>) = "response" /\ Head(<<"refused">>) = "refused" /\ Head(Timeout) = "timeout" /\ Head(Twice) = "timeout"
  BY DEF Timeout, Twice
<1>7. \A how \in Outcomes : /\ Append(Started, how) \in Results /\ Append(Started, how) # Started
                            /\ Append(Started, how) = Timeout <=> how = "timeout"
                            /\ Append(Started, how) # Twice
  <2>1. \A how \in Outcomes : how = "response" \/ how = "timeout" \/ how = "refused"
    BY DEF Outcomes
  <2>2. Started = <<>> /\ Timeout = <<"timeout">>
    BY DEF Started, Timeout
  <2> QED BY <2>1, <2>2, <1>2, <1>3, <1>4, <1>5, Zenon DEF Results
<1>8. \A r \in Results : (r # <<>> /\ Head(r) = "timeout") <=> r \in {Timeout, Twice}
  <2>1. Started = <<>> /\ Timeout = <<"timeout">> /\ "response" # "timeout" /\ "refused" # "timeout"
    BY DEF Started, Timeout
  <2> QED BY <2>1, <1>1, <1>3, <1>4, <1>5, <1>6, Zenon DEF Results
<1>9. \A r \in Results : r \in Seq(Outcomes)
  <2>1. Started \in Seq(Outcomes) /\ Timeout \in Seq(Outcomes) /\ Twice \in Seq(Outcomes)
    BY DEF Started, Timeout, Twice, Outcomes
  <2>2. <<"refused">> \in Seq(Outcomes) /\ <<"response">> \in Seq(Outcomes)
    BY DEF Outcomes
  <2> QED BY <2>1, <2>2 DEF Results
<1> QED BY <1>1, <1>2, <1>7, <1>8, <1>9

\* Whether an I/O has been abandoned.
LEMMA AbandonedFacts ==
  ASSUME Settled
  PROVE  \A io \in Ios : TimedOut(io) <=> outcome[io] \in {Timeout, Twice}
BY ResultFacts DEF Settled, TimedOut

LEMMA OutcomeType ==
  ASSUME IInv
  PROVE  outcome \in [Ios -> Results]
<1>1. outcome \in [Ios -> Seq({"response", "timeout", "refused"})]
  BY DEF IInv, TypeOK
<1>2. \A io \in Ios : outcome[io] \in Results
  BY DEF IInv, Settled
<1> QED BY <1>1, <1>2

\* completeIo() of an I/O that is not completed, or only by a timeout.
LEMMA Completes ==
  ASSUME IInv, NEW io \in Ios, NEW how \in Outcomes, Complete(io, how),
         outcome[io] = Started \/ (outcome[io] = Timeout /\ how = "response")
  PROVE  /\ outcome' \in [Ios -> Results] /\ outcome'[io] # Started
         /\ \A o \in Ios \ {io} : outcome'[o] = outcome[o]
         /\ how = "timeout" => outcome'[io] = Timeout
         /\ how # "timeout" => (outcome'[io] \in {Timeout, Twice} <=> outcome[io] \in {Timeout, Twice})
<1>1. outcome \in [Ios -> Results]
  BY OutcomeType
<1>2. PICK r : r = Append(outcome[io], how)
  OBVIOUS
<1>3. outcome' = [outcome EXCEPT ![io] = r]
  BY <1>2 DEF Complete
<1>4. Twice \in Results
  BY DEF Results
<1>5. CASE outcome[io] = Started
  <2>1. r = Append(Started, how)
    BY <1>2, <1>5
  <2>2. r \in Results /\ r # Started /\ (r = Timeout <=> how = "timeout") /\ r # Twice
    BY <2>1, ResultFacts
  <2>3. outcome'[io] = r /\ outcome' \in [Ios -> Results] /\ \A o \in Ios \ {io} : outcome'[o] = outcome[o]
    BY <2>2, <1>1, <1>3
  <2>4. Started \notin {Timeout, Twice}
    BY ResultFacts
  <2> QED BY <2>2, <2>3, <2>4, <1>5
<1>6. CASE outcome[io] = Timeout /\ how = "response"
  <2>1. r = Twice
    BY <1>2, <1>6, ResultFacts
  <2>2. outcome'[io] = r /\ outcome' \in [Ios -> Results] /\ \A o \in Ios \ {io} : outcome'[o] = outcome[o]
    BY <2>1, <1>1, <1>3, <1>4
  <2>3. r # Started /\ "response" # "timeout"
    BY <2>1, ResultFacts
  <2> QED BY <2>1, <2>2, <2>3, <1>6
<1> QED BY <1>5, <1>6

\* No outcome changes, and no request.
LEMMA SettledKept ==
  ASSUME IInv, NEW s, Follows(s), BusyIos(s) = Busy, Visited(s) = Visiting,
         UNCHANGED <<outcome, olderRequests, newerRequests>>
  PROVE  Settled'
<1>1. Pending' = Pending /\ Visiting' = Visiting
  BY DEF Pending, Follows
<1>2. Settled
  BY DEF IInv
<1>3. \A io \in Busy' : outcome[io] = Started
  BY <1>2, SizesAssumption DEF Settled, Follows, New
<1>4. \A io \in (1..MaxIos) \ (1..ios') : outcome[io] = Started
  BY <1>2, SizesAssumption DEF Settled, Follows
<1>5. \A io \in 1..ios' : outcome[io] = Started => io \in Busy' \/ \E p \in Pending : p.io = io
  BY <1>2, SizesAssumption DEF Settled, Follows, New
<1> QED BY <1>1, <1>2, <1>3, <1>4, <1>5 DEF Settled

\* The I/O c is completed; its request may stay for a while.
LEMMA SettledCompleted ==
  ASSUME IInv, NEW s, Follows(s), NEW c \in 1..ios, outcome' \in [Ios -> Results], outcome'[c] # Started,
         \A io \in Ios \ {c} : outcome'[io] = outcome[io],
         BusyIos(s) \subseteq Busy, Busy \subseteq BusyIos(s) \cup {c}, c \notin BusyIos(s),
         Pending' \subseteq Pending, \A p \in Pending : p.io # c => p \in Pending',
         \A p \in Pending' \ Visited(s) : p.io # c /\ p \notin Visiting,
         \A p \in Visited(s) : p \in Visiting \/ p.io = c,
         \A p \in Visited(s) : p \in Pending' => outcome'[p.io] = Timeout
  PROVE  Settled'
<1>1. Settled /\ Placed
  BY DEF IInv
<1>2. /\ ios \in 0..MaxIos /\ ios' \in 0..MaxIos /\ ios <= ios' /\ MaxIos \in Nat /\ Ios = 1..MaxIos
      /\ Busy' = BusyIos(s) \cup ((1..ios') \ (1..ios)) /\ BusyIos(s) \subseteq 1..ios /\ Visiting' = Visited(s)
  BY SizesAssumption DEF Follows, New, Ios
<1>3. ASSUME NEW io \in Busy' PROVE outcome'[io] = Started
  <2>1. CASE io \in BusyIos(s)
    <3>1. io \in Busy /\ io # c /\ io \in Ios
      BY <2>1, <1>2
    <3> QED BY <3>1, <1>1 DEF Settled
  <2>2. CASE io \notin BusyIos(s)
    <3>1. io \in (1..MaxIos) \ (1..ios) /\ io # c /\ io \in Ios
      BY <2>2, <1>2, <1>3
    <3> QED BY <3>1, <1>1 DEF Settled
  <2> QED BY <2>1, <2>2
<1>4. ASSUME NEW io \in (1..MaxIos) \ (1..ios') PROVE outcome'[io] = Started
  <2>1. io \in (1..MaxIos) \ (1..ios) /\ io # c /\ io \in Ios
    BY <1>2
  <2> QED BY <2>1, <1>1 DEF Settled
<1>5. ASSUME NEW p \in Pending' \ Visiting' PROVE outcome'[p.io] = Started
  <2>1. p \in Pending \ Visiting /\ p.io # c
    BY <1>2
  <2>2. p.io \in Ios
    BY <2>1, <1>1, <1>2 DEF Placed
  <2> QED BY <2>1, <2>2, <1>1 DEF Settled
<1>6. ASSUME NEW p \in Visiting' PROVE p.io \in Ios /\ outcome'[p.io] # Started
  <2>1. CASE p.io = c
    BY <2>1, <1>2
  <2>2. CASE p.io # c
    <3>1. p \in Visiting
      BY <2>2, <1>2
    <3> QED BY <3>1, <2>2, <1>1 DEF Settled
  <2> QED BY <2>1, <2>2
<1>7. \A p \in Visiting' : p \in Pending' => outcome'[p.io] = Timeout
  BY <1>2
<1>8. ASSUME NEW io \in 1..ios', outcome'[io] = Started PROVE io \in Busy' \/ \E p \in Pending' : p.io = io
  <2>1. io # c /\ io \in Ios
    BY <1>2, <1>8
  <2>2. outcome[io] = Started
    BY <2>1, <1>8
  <2>3. CASE io \in 1..ios
    <3>1. io \in Busy \/ \E p \in Pending : p.io = io
      BY <2>2, <2>3, <1>1 DEF Settled
    <3> QED BY <3>1, <2>1, <1>2
  <2>4. CASE io \notin 1..ios
    BY <2>4, <1>2
  <2> QED BY <2>3, <2>4
<1>9. \A io \in Ios : outcome'[io] \in Results
  OBVIOUS
<1> QED BY <1>3, <1>4, <1>5, <1>6, <1>7, <1>8, <1>9 DEF Settled

\* Messages stay or go, and somebody waits for each that stays.
LEMMA ExpectedKept ==
  ASSUME IInv, NEW s, Follows(s), BusyIos(s) \subseteq Busy, Pending' \subseteq Pending,
         NothingAbandoned' => NothingAbandoned,
         \A m \in InFlight' : \E n \in InFlight :
           /\ m.io = n.io /\ m.command = n.command
           /\ \A p \in Pending : p.io = n.io => p \in Pending' \/ ~NothingAbandoned'
  PROVE  Expected'
<1>1. ASSUME NEW m \in InFlight'
      PROVE  /\ m.io \in (1..ios') \ Busy'
             /\ (\E p \in Pending' : p.io = m.io) \/ ~NothingAbandoned'
             /\ \A p \in Pending' : m.io = p.io => m.command = p.command
  <2>1. PICK n \in InFlight :
           /\ m.io = n.io /\ m.command = n.command
           /\ \A p \in Pending : p.io = n.io => p \in Pending' \/ ~NothingAbandoned'
    BY <1>1
  <2>2. /\ n.io \in (1..ios) \ Busy /\ ((\E p \in Pending : p.io = n.io) \/ ~NothingAbandoned)
        /\ \A p \in Pending : n.io = p.io => n.command = p.command
    BY DEF IInv, Expected
  <2>3. m.io \in (1..ios') \ Busy'
    BY <2>1, <2>2, SizesAssumption DEF Follows, New
  <2>4. \A p \in Pending' : m.io = p.io => m.command = p.command
    BY <2>1, <2>2
  <2> QED BY <2>1, <2>2, <2>3, <2>4
<1> QED BY <1>1 DEF Expected

MailTypes ==
  /\ toDisker \in Seq(Messages) /\ Len(toDisker) <= QueueCapacity
  /\ toWorker \in Seq(Messages) /\ Len(toWorker) <= QueueCapacity
  /\ hand \in Messages \cup {NoMessage} /\ answered \in BOOLEAN /\ died \in BOOLEAN
WorkerTypes ==
  /\ lastRequestId \in 0..IdMax
  /\ olderRequests \subseteq Requests /\ newerRequests \subseteq Requests
  /\ timeoutCheckScheduled \in BOOLEAN /\ error_ \in BOOLEAN
  /\ ios \in 0..MaxIos
  /\ outcome \in [Ios -> Results]
  /\ serial \in [Ios -> 0..MaxIos] /\ checks \in [Ios -> 0..2]

Pages == freePages + Taken + Cardinality(Paged)

LEMMA PageFacts ==
  ASSUME IInv
  PROVE  /\ Cardinality(Paged) \in Nat /\ freePages \in Nat /\ Taken \in 0..1 /\ PageCount \in Nat
         /\ Pages <= PageCount /\ Pages \in Nat
         /\ NothingAbandoned /\ ~died => Pages = PageCount
<1>1. Cardinality(Paged) \in Nat
  BY InFlightFacts DEF IInv
<1>2. freePages \in Nat /\ Taken \in 0..1 /\ PageCount \in Nat
  BY SizesAssumption DEF IInv, TypeOK, Taken
<1>3. Pages \in Nat /\ Pages <= PageCount
  BY <1>1, <1>2 DEF IInv, PagesBounded, Pages
<1>4. NothingAbandoned /\ ~died => Pages = PageCount
  BY DEF IInv, PagesInMessages, Pages, Taken, Paged
<1> QED BY <1>1, <1>2, <1>3, <1>4

\* No page is lost, unless a message is that nobody waits for.
LEMMA PagesKept ==
  ASSUME IInv, MailTypes', freePages' \in Nat, Pages' <= Pages,
         NothingAbandoned' /\ ~died' => NothingAbandoned /\ ~died /\ Pages' = Pages
  PROVE  PagesBounded' /\ PagesInMessages' /\ freePages' \in 0..PageCount
<1>1. Cardinality(Paged)' \in Nat /\ Taken' \in 0..1
  <2>1. toDisker' \in Seq(Messages) /\ toWorker' \in Seq(Messages) /\ hand' \in Messages \cup {NoMessage}
    BY DEF MailTypes
  <2>2. Cardinality(Paged)' \in Nat
    BY <2>1, FinitelyMany DEF InFlight, Paged
  <2>3. Taken' \in 0..1
    BY DEF Taken
  <2> QED BY <2>2, <2>3
<1>2. Pages \in Nat /\ PageCount \in Nat /\ Pages <= PageCount /\ (NothingAbandoned /\ ~died => Pages = PageCount)
  BY PageFacts
<1>3. Pages' = freePages' + Taken' + Cardinality(Paged)'
  BY DEF Pages
<1>4. PICK a, b, c, d : a = freePages' /\ b = Taken' /\ c = Cardinality(Paged)' /\ d = Pages
  OBVIOUS
<1>5. a + b + c <= PageCount /\ a \in 0..PageCount
  BY <1>1, <1>2, <1>3, <1>4
<1>6. PagesBounded' /\ freePages' \in 0..PageCount
  BY <1>4, <1>5 DEF PagesBounded
<1>7. PagesInMessages'
  <2>1. NothingAbandoned' /\ ~died' => Pages' = PageCount
    BY <1>2
  <2> QED BY <2>1 DEF Pages, PagesInMessages, Taken, Paged
<1> QED BY <1>6, <1>7

\* No message changes.
LEMMA MailUntouched ==
  ASSUME IInv, UNCHANGED <<toDisker, toWorker, hand, answered, died>>,
         freePages' \in Nat, freePages' + Taken' = freePages + Taken,
         NothingAbandoned' => NothingAbandoned
  PROVE  /\ Mail' /\ PagesFit' /\ PagesBounded' /\ PagesInMessages' /\ freePages' \in 0..PageCount
         /\ MailTypes' /\ InFlight' = InFlight
<1>1. MailTypes'
  BY DEF IInv, TypeOK, MailTypes
<1>2. InFlight' = InFlight /\ Held' = Held
  BY DEF InFlight, Held
<1>3. Paged' = Paged
  BY <1>2 DEF Paged
<1>4. Mail' /\ PagesFit'
  BY <1>2 DEF IInv, Mail, PagesFit
<1>5. Pages' = Pages /\ Pages \in Nat
  BY <1>3, PageFacts DEF Pages
<1>6. PagesBounded' /\ PagesInMessages' /\ freePages' \in 0..PageCount
  BY <1>1, <1>5, PagesKept
<1> QED BY <1>1, <1>2, <1>4, <1>6

LEMMA TypesAfter ==
  ASSUME WorkerTypes', MailTypes', Stack', freePages' \in 0..PageCount
  PROVE  TypeOK'
<1>1. outcome' \in [Ios -> Seq({"response", "timeout", "refused"})]
  BY ResultFacts DEF WorkerTypes, Outcomes
<1>2. Len(calls') <= MaxDepth /\ \A i \in DOMAIN calls' : calls'[i] \in Calls
  BY DEF Stack, GoodStack
<1> QED BY <1>1, <1>2 DEF TypeOK, WorkerTypes, MailTypes

\* A step that completes a pending I/O, or none.
LEMMA TimedKept ==
  ASSUME IInv, UNCHANGED <<checks, timeoutCheckScheduled>>, InCheck' <=> InCheck,
         olderRequests' \subseteq olderRequests, newerRequests' \subseteq newerRequests,
         \A io \in Ios : TimedOut(io)' => checks[io] = 2
  PROVE  Aged' /\ Timed'
<1>1. Aged /\ Timed
  BY DEF IInv
<1>2. Seen' = Seen /\ Pending' \subseteq Pending
  BY DEF Seen, Pending
<1>3. Aged'
  BY <1>1, <1>2 DEF Aged
<1>4. Timed'
  BY <1>1, <1>2 DEF Timed
<1> QED BY <1>3, <1>4

----------------------------------------------------------------------------
(* Steps that only start or end a handler *)

LEMMA QuietStep ==
  ASSUME IInv, NEW s, Follows(s), PushIos(s) = Waiting, BusyIos(s) = Busy, Visited(s) = Visiting,
         Checking(s) <=> InCheck, Sending' => Sending /\ Top' = Top, Taken' = Taken,
         UNCHANGED <<requests, error_, outcome, serial, checks, toDisker, toWorker, disker, freePages>>
  PROVE  IInv'
<1>1. /\ UNCHANGED <<lastRequestId, olderRequests, newerRequests, timeoutCheckScheduled, error_, outcome, serial, checks>>
      /\ UNCHANGED <<toDisker, toWorker, hand, answered, died, freePages>>
  BY DEF requests, disker
<1>2. Pending' = Pending /\ (InCheck' <=> InCheck)
  BY <1>1 DEF Pending, Follows
<1>3. /\ NothingAbandoned' => NothingAbandoned
      /\ \A io \in Ios : TimedOut(io)' <=> TimedOut(io)
  BY <1>1 DEF NothingAbandoned, TimedOut
<1>4. /\ Mail' /\ PagesFit' /\ PagesBounded' /\ PagesInMessages' /\ freePages' \in 0..PageCount
      /\ MailTypes' /\ InFlight' = InFlight
  <2>1. freePages' \in Nat
    BY <1>1, PageFacts
  <2> QED BY <2>1, <1>1, <1>3, MailUntouched
<1>5. Placed' /\ Limited'
  <2>1. Visited(s) \cap newerRequests' = {}
    BY <1>1 DEF IInv, Placed
  <2> QED BY <2>1, <1>1, PlacedKept
<1>6. Settled'
  BY <1>1, SettledKept
<1>7. Serials' /\ IdsFit'
  BY <1>1, <1>2, <1>4, IdsKept
<1>8. Expected'
  BY <1>1, <1>2, <1>3, <1>4, ExpectedKept
<1>9. TypeOK'
  <2>1. WorkerTypes'
    BY <1>1, OutcomeType DEF IInv, TypeOK, WorkerTypes, Follows
  <2> QED BY <2>1, <1>4, TypesAfter DEF Follows
<1>10. Aged' /\ Timed'
  <2>1. \A io \in Ios : TimedOut(io)' => checks[io] = 2
    BY <1>3 DEF IInv, Aged
  <2> QED BY <2>1, <1>1, <1>2, TimedKept
<1> QED BY <1>4, <1>5, <1>6, <1>7, <1>8, <1>9, <1>10 DEF IInv, Follows

LEMMA NotSending ==
  ASSUME ~Sending PROVE Taken = 0
BY DEF Taken, PageInHand

LEMMA NotSendingNext ==
  ASSUME ~Sending' PROVE Taken' = 0
BY DEF Taken, PageInHand

LEMMA StartFromLoop == ASSUME IInv, StartIoFromLoop PROVE IInv'
<1>1. calls = <<>> /\ StartIo(calls) /\ TypeOK /\ GoodStack(calls, ios)
  BY DEF StartIoFromLoop, IInv, Stack
<1>2. Waiting = {} /\ Busy = {} /\ Visiting = {} /\ ~InCheck /\ ~Sending /\ NoSend(calls)
  BY <1>1, EmptyStack
<1>3. Follows(calls) /\ ~Sending'
  BY <1>1, <1>2, StartIoFollows DEF Follows
<1>4. Taken' = Taken
  BY <1>2, <1>3, NotSending, NotSendingNext
<1>5. PushIos(calls) = Waiting /\ BusyIos(calls) = Busy /\ Visited(calls) = Visiting /\ (Checking(calls) <=> InCheck)
  BY DEF PushIos, Waiting, Busy, Visiting, InCheck
<1> QED BY <1>3, <1>4, <1>5, QuietStep DEF StartIoFromLoop

LEMMA Notified == ASSUME IInv, HandleNotification PROVE IInv'
<1>1. calls = <<>> /\ calls' = <<[when |-> "notification"]>> /\ ios' = ios /\ TypeOK /\ ios \in Nat
  BY SizesAssumption DEF HandleNotification, history, IInv, TypeOK
<1>2. Waiting = {} /\ Busy = {} /\ Visiting = {} /\ ~InCheck /\ ~Sending
  BY <1>1, EmptyStack
<1>3. PICK s : s = <<[when |-> "notification"]>>
  OBVIOUS
<1>4. /\ GoodStack(s, ios) /\ NoSend(s) /\ PushIos(s) = {} /\ BusyIos(s) = {} /\ Visited(s) = {} /\ ~Checking(s)
  BY <1>1, <1>3, StackStart
<1>5. Follows(s) /\ ~Sending'
  BY <1>1, <1>3, <1>4, Stays DEF Follows
<1>6. Taken' = Taken
  BY <1>2, <1>5, NotSending, NotSendingNext
<1> QED BY <1>2, <1>4, <1>5, <1>6, QuietStep DEF HandleNotification, history

LEMMA NotifiedDone == ASSUME IInv, NotificationHandled PROVE IInv'
<1>1. calls # <<>> /\ Top.when = "notification" /\ calls' = Callers /\ ios' = ios /\ Stack /\ TypeOK /\ ios \in Nat
  BY SizesAssumption DEF NotificationHandled, NoMoreResponses, Return, history, IInv, TypeOK
<1>2. PICK s : s = Callers
  OBVIOUS
<1>3. ~InPush(Top) /\ Top.when # "send"
  BY <1>1 DEF InPush
<1>4. GoodStack(s, ios) /\ NoSend(s) /\ PushIos(s) = {} /\ BusyIos(s) = {} /\ ~Checking(s) /\ Visited(s) = {}
  BY <1>1, <1>2, <1>3, StackShrinks
<1>5. Top = calls[1] /\ Waiting = {} /\ Busy = {} /\ ~Sending
  BY <1>1, <1>3, TopFacts
<1>6. ~InCheck /\ Visiting = {}
  BY <1>1, <1>5 DEF InCheck, Checking, Visiting, Visited
<1>7. Follows(s) /\ ~Sending'
  BY <1>1, <1>2, <1>4, Stays DEF Follows
<1>8. Taken' = Taken
  BY <1>5, <1>7, NotSending, NotSendingNext
<1> QED BY <1>4, <1>5, <1>6, <1>7, <1>8, QuietStep DEF NotificationHandled, history

LEMMA StartToAbandon == ASSUME IInv, StartAbandoning PROVE IInv'
<1>1. calls # <<>> /\ Top.when = "timeout" /\ ios' = ios /\ Stack /\ TypeOK /\ ios \in Nat
  BY SizesAssumption DEF StartAbandoning, NoMoreResponses, history, IInv, TypeOK
<1>2. PICK s : s = Append(Callers, [when |-> "abandon", visited |-> {}])
  OBVIOUS
<1>3. /\ GoodStack(s, ios) /\ NoSend(s) /\ PushIos(s) = {} /\ BusyIos(s) = {} /\ Checking(s) /\ Visited(s) = {}
      /\ Waiting = {} /\ Busy = {} /\ InCheck /\ ~Sending /\ Visiting = {}
  <2>1. {} \in SUBSET Requests /\ Top.when \in {"timeout", "abandon"} /\ Top.when # "abandon"
    BY <1>1
  <2> QED BY <2>1, <1>1, <1>2, StackAbandon
<1>4. calls' = s
  BY <1>2 DEF StartAbandoning
<1>5. Follows(s) /\ ~Sending'
  BY <1>1, <1>3, <1>4, Stays DEF Follows
<1>6. Taken' = Taken
  BY <1>3, <1>5, NotSending, NotSendingNext
<1> QED BY <1>3, <1>5, <1>6, QuietStep DEF StartAbandoning, history

----------------------------------------------------------------------------
(* The disker *)

\* A step of the disker: what it has to keep.
LEMMA DiskerKeeps ==
  ASSUME IInv, UNCHANGED worker, MailTypes', Mail', PagesFit',
         \A m \in InFlight' : \E n \in InFlight : m.requestId = n.requestId /\ m.io = n.io /\ m.command = n.command,
         freePages' \in Nat, freePages' + Cardinality(Paged') <= freePages + Cardinality(Paged),
         NothingAbandoned /\ ~died' =>
           ~died /\ freePages' + Cardinality(Paged') = freePages + Cardinality(Paged)
  PROVE  IInv'
<1>1. UNCHANGED <<lastRequestId, olderRequests, newerRequests, timeoutCheckScheduled, error_, calls, ios, outcome, serial, checks>>
  BY DEF worker, requests, history
<1>2. /\ Follows(calls) /\ Waiting = PushIos(calls) /\ Busy = BusyIos(calls)
      /\ Visiting = Visited(calls) /\ (InCheck <=> Checking(calls))
      /\ (Sending' <=> Sending) /\ Top' = Top /\ Taken' = Taken
  BY <1>1, SameStack
<1>3. /\ Pending' = Pending /\ (NothingAbandoned' <=> NothingAbandoned)
      /\ \A io \in Ios : TimedOut(io)' <=> TimedOut(io)
  BY <1>1 DEF Pending, NothingAbandoned, TimedOut
<1>4. Placed' /\ Limited'
  <2>1. Visited(calls) \cap newerRequests' = {}
    BY <1>1, <1>2 DEF IInv, Placed
  <2> QED BY <2>1, <1>1, <1>2, PlacedKept
<1>5. Settled'
  BY <1>1, <1>2, SettledKept
<1>6. Serials' /\ IdsFit'
  BY <1>1, <1>2, <1>3, IdsKept
<1>7. Expected'
  BY <1>1, <1>2, <1>3, ExpectedKept
<1>8. PagesBounded' /\ PagesInMessages' /\ freePages' \in 0..PageCount
  <2>1. PICK a, b, c, d, e : /\ a = freePages /\ b = Cardinality(Paged) /\ c = freePages'
                             /\ d = Cardinality(Paged') /\ e = Taken
    OBVIOUS
  <2>2. a \in Nat /\ b \in Nat /\ c \in Nat /\ e \in Nat /\ d \in Nat
    <3>1. d \in Nat
      <4>1. toDisker' \in Seq(Messages) /\ toWorker' \in Seq(Messages) /\ hand' \in Messages \cup {NoMessage}
        BY DEF MailTypes
      <4> QED BY <4>1, <2>1, FinitelyMany DEF InFlight, Paged
    <3> QED BY <3>1, <2>1, PageFacts
  <2>3. c + d <= a + b => c + e + d <= a + e + b
    BY <2>2
  <2>4. c + d = a + b => c + e + d = a + e + b
    BY <2>2
  <2>5. Pages = a + e + b /\ Pages' = c + e + d
    BY <2>1, <1>2 DEF Pages
  <2>6. Pages' <= Pages /\ (NothingAbandoned' /\ ~died' => NothingAbandoned /\ ~died /\ Pages' = Pages)
    BY <2>1, <2>3, <2>4, <2>5, <1>3
  <2> QED BY <2>6, PagesKept
<1>9. TypeOK'
  <2>1. WorkerTypes'
    BY <1>1, OutcomeType DEF IInv, TypeOK, WorkerTypes
  <2> QED BY <2>1, <1>2, <1>8, TypesAfter DEF Follows
<1>10. Aged' /\ Timed'
  <2>1. (\A io \in Ios : TimedOut(io)' => checks[io] = 2) /\ (InCheck' <=> InCheck)
    BY <1>2, <1>3 DEF IInv, Aged, Follows
  <2> QED BY <2>1, <1>1, TimedKept
<1> QED BY <1>2, <1>4, <1>5, <1>6, <1>7, <1>8, <1>9, <1>10 DEF IInv, Follows

LEMMA Popped == ASSUME IInv, DiskerPop PROVE IInv'
<1>1. /\ hand = NoMessage /\ toDisker # <<>> /\ hand' = Head(toDisker) /\ toDisker' = Tail(toDisker)
      /\ answered' = FALSE /\ UNCHANGED <<died, toWorker, freePages>> /\ UNCHANGED worker
  BY DEF DiskerPop
<1>2. MailTypes /\ Mail /\ PagesFit
  BY DEF IInv, TypeOK, MailTypes
<1>3. PICK h, t, D, E, W : /\ h = Head(toDisker) /\ t = Tail(toDisker) /\ D = SeqMessages(toDisker)
                           /\ E = SeqMessages(t) /\ W = SeqMessages(toWorker)
  OBVIOUS
<1>4. /\ t \in Seq(Messages) /\ Len(t) = Len(toDisker) - 1 /\ Distinct(t) /\ h \in D /\ h \in Messages
      /\ D = E \cup {h} /\ \A m \in E : m.io # h.io
  BY <1>1, <1>2, <1>3, TailMail DEF MailTypes, Mail
<1>5. InFlight = D \cup W /\ h \in InFlight
  BY <1>1, <1>3, <1>4 DEF InFlight
<1>6. h # NoMessage
  BY <1>5, InFlightFacts DEF IInv
<1>7. Held' = {h} /\ InFlight' = E \cup W \cup {h}
  BY <1>1, <1>3, <1>6 DEF Held, InFlight
<1>8. InFlight' = InFlight
  BY <1>4, <1>5, <1>7
<1>9. MailTypes'
  <2>1. Len(toDisker) \in Nat /\ QueueCapacity \in Nat
    BY <1>2, SizesAssumption DEF MailTypes
  <2>2. toDisker' \in Seq(Messages) /\ Len(toDisker') <= QueueCapacity
    BY <2>1, <1>1, <1>2, <1>3, <1>4 DEF MailTypes
  <2>3. toWorker' \in Seq(Messages) /\ Len(toWorker') <= QueueCapacity
    BY <1>1, <1>2 DEF MailTypes
  <2>4. hand' \in Messages
    BY <1>1, <1>3, <1>4
  <2>5. answered' \in BOOLEAN /\ died' \in BOOLEAN
    BY <1>1, <1>2 DEF MailTypes
  <2> QED BY <2>2, <2>3, <2>4, <2>5 DEF MailTypes
<1>10. Mail'
  <2>1. Apart(D, W) /\ Distinct(toWorker)
    BY <1>2, <1>3 DEF Mail
  <2>2. Apart(E, W) /\ Apart(E, {h}) /\ Apart(W, {h})
    BY <2>1, <1>4 DEF Apart
  <2> QED BY <2>1, <2>2, <1>1, <1>3, <1>4, <1>7 DEF Mail
<1>11. PagesFit'
  <2>1. (\A m \in D : Asks(m)) /\ (\A m \in W : Answers(m))
    BY <1>2, <1>3 DEF PagesFit
  <2> QED BY <2>1, <1>1, <1>3, <1>4, <1>7 DEF PagesFit
<1>12. Paged' = Paged /\ freePages' \in Nat /\ Cardinality(Paged) \in Nat
  <2>1. Paged' = Paged
    BY <1>8 DEF Paged
  <2> QED BY <2>1, <1>1, InFlightFacts, SizesAssumption DEF IInv, TypeOK
<1> QED BY <1>1, <1>8, <1>9, <1>10, <1>11, <1>12, DiskerKeeps

\* The disker changes the message that it works on.
LEMMA HandChanges ==
  ASSUME IInv, hand # NoMessage, NEW m \in Messages, m.requestId = hand.requestId, m.io = hand.io,
         m.command = hand.command,
         hand' = m, answered' = TRUE, UNCHANGED <<died, toDisker, toWorker>>, UNCHANGED worker,
         Answers(m), freePages' \in Nat,
         freePages' + (IF m.page THEN 1 ELSE 0) = freePages + (IF hand.page THEN 1 ELSE 0)
  PROVE  IInv'
<1>1. PICK h, D, W, F, G : /\ h = hand /\ D = SeqMessages(toDisker) /\ W = SeqMessages(toWorker)
                           /\ F = InFlight /\ G = InFlight'
  OBVIOUS
<1>2. MailTypes /\ Mail /\ PagesFit
  BY DEF IInv, TypeOK, MailTypes
<1>3. Held = {h} /\ F = D \cup W \cup {h} /\ h \in F
  BY <1>1 DEF Held, InFlight
<1>4. m # NoMessage
  <2>1. h.requestId # 0
    BY <1>1, <1>3, SizesAssumption DEF IInv, IdsFit
  <2> QED BY <2>1, <1>1 DEF NoMessage
<1>5. Held' = {m} /\ G = D \cup W \cup {m}
  BY <1>1, <1>4 DEF Held, InFlight
<1>6. MailTypes'
  BY <1>2 DEF MailTypes
<1>7. Apart(D, W) /\ Apart(D, {h}) /\ Apart(W, {h})
  BY <1>1, <1>2, <1>3 DEF Mail
<1>8. Mail'
  <2>1. Apart(D, {m}) /\ Apart(W, {m})
    BY <1>1, <1>7 DEF Apart
  <2> QED BY <2>1, <1>1, <1>2, <1>5, <1>7 DEF Mail
<1>9. PagesFit'
  <2>1. (\A k \in D : Asks(k)) /\ (\A k \in W : Answers(k))
    BY <1>1, <1>2 DEF PagesFit
  <2> QED BY <2>1, <1>1, <1>5 DEF PagesFit
<1>10. \A k \in G : \E n \in F : k.requestId = n.requestId /\ k.io = n.io /\ k.command = n.command
  BY <1>1, <1>3, <1>5
<1>11. freePages' + Cardinality(Paged') = freePages + Cardinality(Paged)
  <2>1. PICK P, Q, R : P = Paged /\ Q = Paged' /\ R = {k \in D \cup W : k.page}
    OBVIOUS
  <2>2. h \notin D \cup W /\ m \notin D \cup W
    BY <1>1, <1>7 DEF Apart
  <2>3. /\ P = IF h.page THEN R \cup {h} ELSE R
        /\ Q = IF m.page THEN R \cup {m} ELSE R
        /\ h \notin R /\ m \notin R
    BY <1>1, <1>3, <1>5, <2>1, <2>2, ZenonT(30) DEF Paged
  <2>4. IsFiniteSet(P) /\ R \subseteq P
    BY <2>1, <2>3, InFlightFacts DEF IInv
  <2>5. IsFiniteSet(R) /\ Cardinality(R) \in Nat
    BY <2>4, FS_Subset, FS_CardinalityType
  <2>6. Cardinality(R \cup {h}) = Cardinality(R) + 1 /\ Cardinality(R \cup {m}) = Cardinality(R) + 1
    BY <2>3, <2>5, FS_AddElement
  <2>7. /\ Cardinality(P) = Cardinality(R) + (IF h.page THEN 1 ELSE 0)
        /\ Cardinality(Q) = Cardinality(R) + (IF m.page THEN 1 ELSE 0)
    BY <2>3, <2>5, <2>6
  <2>8. freePages \in Nat
    BY SizesAssumption DEF IInv, TypeOK
  <2>9. PICK a, b : a = (IF m.page THEN 1 ELSE 0) /\ b = (IF h.page THEN 1 ELSE 0)
    OBVIOUS
  <2>10. a \in Nat /\ b \in Nat /\ freePages' + a = freePages + b
    BY <2>9, <1>1
  <2>11. Cardinality(P) = Cardinality(R) + b /\ Cardinality(Q) = Cardinality(R) + a
    BY <2>7, <2>9
  <2>12. PICK c, f, g : c = Cardinality(R) /\ f = freePages /\ g = freePages'
    OBVIOUS
  <2>13. c \in Nat /\ f \in Nat /\ g \in Nat /\ a \in Nat /\ b \in Nat /\ g + a = f + b
    BY <2>5, <2>8, <2>10, <2>12
  <2>14. g + (c + a) = f + (c + b)
    BY <2>13
  <2>15. Paged = P /\ Paged' = Q
    BY <2>1
  <2> QED BY <2>11, <2>12, <2>14, <2>15
<1>12. freePages \in Nat /\ Cardinality(Paged) \in Nat
  BY InFlightFacts, SizesAssumption DEF IInv, TypeOK
<1>13. /\ freePages' + Cardinality(Paged') <= freePages + Cardinality(Paged)
       /\ NothingAbandoned /\ ~died' => ~died
  BY <1>11, <1>12
<1> QED BY <1>1, <1>6, <1>8, <1>9, <1>10, <1>11, <1>13, DiskerKeeps

LEMMA ReadDone == ASSUME IInv, diskerRead PROVE IInv'
<1>1. /\ hand # NoMessage /\ ~answered /\ hand.command = "cmdRead" /\ answered' = TRUE
      /\ UNCHANGED <<died, toDisker, toWorker>> /\ UNCHANGED worker
  BY DEF diskerRead
<1>2. hand \in Messages /\ freePages \in Nat
  BY <1>1, SizesAssumption DEF IInv, TypeOK
<1>3. ~hand.page
  <2>1. Asks(hand)
    BY <1>1 DEF IInv, PagesFit, Held
  <2> QED BY <2>1, <1>1, <1>2 DEF Asks
<1>4. CASE freePages > 0
  <2>1. PICK failed \in BOOLEAN : hand' = [hand EXCEPT !.page = TRUE, !.xerrno = failed]
    BY <1>4 DEF diskerRead
  <2>2. PICK m : m = [hand EXCEPT !.page = TRUE, !.xerrno = failed]
    OBVIOUS
  <2>3. /\ m \in Messages /\ m.requestId = hand.requestId /\ m.io = hand.io /\ m.page = TRUE
        /\ m.command = hand.command /\ m.command = "cmdRead"
    BY <1>1, <1>2, <2>2 DEF Messages
  <2>4. freePages' = freePages - 1
    BY <1>4 DEF diskerRead
  <2>5. Answers(m)
    BY <2>3 DEF Answers
  <2>6. freePages' \in Nat /\ freePages' + (IF m.page THEN 1 ELSE 0) = freePages + (IF hand.page THEN 1 ELSE 0)
    BY <1>2, <1>3, <1>4, <2>3, <2>4
  <2> QED BY <1>1, <2>1, <2>2, <2>3, <2>5, <2>6, HandChanges
<1>5. CASE ~(freePages > 0)
  <2>1. freePages' = freePages /\ hand' = hand
    BY <1>5 DEF diskerRead
  <2>2. Answers(hand)
    BY <1>1 DEF Answers
  <2> QED BY <1>1, <1>2, <2>1, <2>2, HandChanges
<1> QED BY <1>4, <1>5

LEMMA WriteDone == ASSUME IInv, diskerWrite PROVE IInv'
<1>1. /\ hand # NoMessage /\ ~answered /\ hand.command = "cmdWrite" /\ answered' = TRUE
      /\ UNCHANGED <<died, toDisker, toWorker>> /\ UNCHANGED worker /\ freePages' = freePages + 1
  BY DEF diskerWrite
<1>2. hand \in Messages /\ freePages \in Nat
  BY <1>1, SizesAssumption DEF IInv, TypeOK
<1>3. hand.page
  <2>1. Asks(hand)
    BY <1>1 DEF IInv, PagesFit, Held
  <2> QED BY <2>1, <1>1, <1>2 DEF Asks
<1>4. PICK failed \in BOOLEAN : hand' = [hand EXCEPT !.page = FALSE, !.xerrno = failed]
  BY DEF diskerWrite
<1>5. PICK m : m = [hand EXCEPT !.page = FALSE, !.xerrno = failed]
  OBVIOUS
<1>6. /\ m \in Messages /\ m.requestId = hand.requestId /\ m.io = hand.io /\ m.page = FALSE
      /\ m.command = hand.command
  BY <1>2, <1>5 DEF Messages
<1>7. Answers(m)
  BY <1>6 DEF Answers
<1>8. freePages' \in Nat /\ freePages' + (IF m.page THEN 1 ELSE 0) = freePages + (IF hand.page THEN 1 ELSE 0)
  BY <1>1, <1>2, <1>3, <1>6
<1> QED BY <1>1, <1>4, <1>5, <1>6, <1>7, <1>8, HandChanges

LEMMA Pushed == ASSUME IInv, DiskerPush PROVE IInv'
<1>1. /\ hand # NoMessage /\ answered /\ Len(toWorker) < QueueCapacity /\ toWorker' = Append(toWorker, hand)
      /\ hand' = NoMessage /\ answered' = FALSE /\ UNCHANGED <<died, toDisker, freePages>> /\ UNCHANGED worker
  BY DEF DiskerPush
<1>2. MailTypes /\ Mail /\ PagesFit
  BY DEF IInv, TypeOK, MailTypes
<1>3. PICK h, t, D, W, V : /\ h = hand /\ t = Append(toWorker, hand) /\ D = SeqMessages(toDisker)
                           /\ W = SeqMessages(toWorker) /\ V = SeqMessages(t)
  OBVIOUS
<1>4. Held = {h} /\ h \in Messages
  BY <1>1, <1>2, <1>3 DEF Held, MailTypes
<1>5. Apart(D, W) /\ Apart(D, {h}) /\ Apart(W, {h})
  BY <1>2, <1>3, <1>4 DEF Mail
<1>6. /\ t \in Seq(Messages) /\ Len(t) = Len(toWorker) + 1 /\ Distinct(t) /\ V = W \cup {h}
  <2>1. toWorker \in Seq(Messages) /\ Distinct(toWorker) /\ \A k \in SeqMessages(toWorker) : k.io # h.io
    BY <1>2, <1>3, <1>5 DEF MailTypes, Mail, Apart
  <2> QED BY <2>1, <1>3, <1>4, AppendMail
<1>7. InFlight = D \cup W \cup {h} /\ Held' = {} /\ InFlight' = D \cup V
  BY <1>1, <1>3, <1>4 DEF InFlight, Held
<1>8. InFlight' = InFlight
  BY <1>6, <1>7
<1>9. MailTypes'
  <2>1. Len(toWorker) \in Nat /\ QueueCapacity \in Nat
    BY <1>2, SizesAssumption DEF MailTypes
  <2>2. toWorker' \in Seq(Messages) /\ Len(toWorker') <= QueueCapacity
    BY <2>1, <1>1, <1>3, <1>6
  <2>3. toDisker' \in Seq(Messages) /\ Len(toDisker') <= QueueCapacity
    BY <1>1, <1>2 DEF MailTypes
  <2>4. hand' = NoMessage
    BY <1>1
  <2>5. answered' \in BOOLEAN /\ died' \in BOOLEAN
    BY <1>1, <1>2 DEF MailTypes
  <2> QED BY <2>2, <2>3, <2>4, <2>5 DEF MailTypes
<1>10. Mail'
  <2>1. Apart(D, V) /\ Apart(D, {}) /\ Apart(V, {})
    BY <1>5, <1>6 DEF Apart
  <2> QED BY <2>1, <1>1, <1>2, <1>3, <1>6, <1>7 DEF Mail
<1>11. PagesFit'
  <2>1. (\A m \in D : Asks(m)) /\ (\A m \in W : Answers(m)) /\ Answers(h)
    BY <1>1, <1>2, <1>3, <1>4 DEF PagesFit
  <2> QED BY <2>1, <1>1, <1>3, <1>6, <1>7 DEF PagesFit
<1>12. Paged' = Paged /\ freePages' \in Nat /\ Cardinality(Paged) \in Nat
  <2>1. Paged' = Paged
    BY <1>8 DEF Paged
  <2> QED BY <2>1, <1>1, InFlightFacts, SizesAssumption DEF IInv, TypeOK
<1> QED BY <1>1, <1>8, <1>9, <1>10, <1>11, <1>12, DiskerKeeps

\* A full response queue has no response that somebody waits for, besides the
\* one in hand: there are not that many pending requests.
LEMMA FullQueueIsStale ==
  ASSUME IInv, hand # NoMessage, Len(toWorker) = QueueCapacity
  PROVE  ~NothingAbandoned
<1> SUFFICES ASSUME NothingAbandoned PROVE FALSE
  OBVIOUS
<1>1. PICK W, V, A, B : /\ W = SeqMessages(toWorker) /\ V = W \cup {hand}
                        /\ A = olderRequests /\ B = newerRequests
  OBVIOUS
<1>2. MailTypes /\ Mail /\ Expected /\ Limited /\ Placed
  BY DEF IInv, TypeOK, MailTypes
<1>3. /\ IsFiniteSet(W) /\ Cardinality(W) = QueueCapacity
  BY <1>1, <1>2, MailSize DEF MailTypes, Mail
<1>4. hand \notin W
  BY <1>1, <1>2 DEF Mail, Apart, Held
<1>5. IsFiniteSet(V) /\ Cardinality(V) = QueueCapacity + 1
  BY <1>1, <1>3, <1>4, FS_AddElement
<1>6. /\ IsFiniteSet(A) /\ IsFiniteSet(B) /\ A \cap B = {} /\ Cardinality(A) + Cardinality(B) <= QueueCapacity
  BY <1>1, <1>2 DEF Limited, Placed, pendingRequests
<1>7. IsFiniteSet(A \cup B) /\ Cardinality(A \cup B) <= QueueCapacity
  <2>1. IsFiniteSet(A \cup B) /\ Cardinality(A \cup B) = Cardinality(A) + Cardinality(B) - Cardinality(A \cap B)
    BY <1>6, FS_Union
  <2>2. Cardinality(A \cap B) = 0 /\ Cardinality(A) \in Nat /\ Cardinality(B) \in Nat
    BY <1>6, FS_EmptySet, FS_CardinalityType
  <2> QED BY <2>1, <2>2, <1>6, SizesAssumption
<1>8. \A m \in V : m \in InFlight /\ \E p \in A \cup B : p.io = m.io
  <2>1. \A m \in V : m \in InFlight
    BY <1>1 DEF InFlight
  <2>2. \A m \in InFlight : m.io \in Ios
    BY InFlightFacts DEF IInv, Messages
  <2> QED BY <2>1, <2>2, <1>1, <1>2 DEF Expected, NothingAbandoned, Pending
<1>9. \A m, n \in V : m.io = n.io => m = n
  <2>1. Apart(W, {hand}) /\ Distinct(toWorker) /\ toWorker \in Seq(Messages)
    BY <1>1, <1>2 DEF Mail, Held, MailTypes
  <2>2. \A m, n \in W : m.io = n.io => m = n
    <3>1. W = {toWorker[i] : i \in 1..Len(toWorker)}
      BY <2>1, <1>1 DEF SeqMessages
    <3> QED BY <3>1, <2>1 DEF Distinct
  <2> QED BY <2>1, <2>2, <1>1 DEF Apart
<1>10. PICK f : f = [m \in V |-> CHOOSE p \in A \cup B : p.io = m.io]
  OBVIOUS
<1>11. \A m \in V : f[m] \in A \cup B /\ f[m].io = m.io
  BY <1>8, <1>10
<1>12. f \in [V -> A \cup B]
  BY <1>10, <1>11
<1>13. f \in Injection(V, A \cup B)
  BY <1>9, <1>11, <1>12 DEF Injection, IsInjective
<1>14. Cardinality(V) <= Cardinality(A \cup B)
  BY <1>7, <1>13, FS_Injection
<1>15. Cardinality(A \cup B) \in Nat
  BY <1>7, FS_CardinalityType
<1> QED BY <1>5, <1>7, <1>14, <1>15, SizesAssumption

\* A message that the disker drops takes its page along.
LEMMA Dropped ==
  ASSUME IInv, hand # NoMessage, hand' = NoMessage, answered' = FALSE, died' \in BOOLEAN, died => died',
         UNCHANGED <<toDisker, toWorker, freePages>>, UNCHANGED worker,
         died' \/ ~NothingAbandoned
  PROVE  IInv'
<1>1. MailTypes /\ Mail /\ PagesFit
  BY DEF IInv, TypeOK, MailTypes
<1>2. Held' = {} /\ InFlight' \subseteq InFlight
  BY DEF Held, InFlight
<1>3. MailTypes'
  BY <1>1 DEF MailTypes
<1>4. Mail' /\ PagesFit'
  BY <1>1, <1>2 DEF Mail, PagesFit, Apart
<1>5. Cardinality(Paged') <= Cardinality(Paged) /\ Cardinality(Paged') \in Nat
  <2>1. PICK P, Q : P = Paged /\ Q = Paged'
    OBVIOUS
  <2>2. Q \in SUBSET P /\ IsFiniteSet(P)
    BY <1>2, <2>1, InFlightFacts DEF Paged, IInv
  <2> QED BY <2>1, <2>2, FS_Subset, FS_CardinalityType
<1>6. freePages \in Nat /\ Cardinality(Paged) \in Nat
  BY InFlightFacts, SizesAssumption DEF IInv, TypeOK
<1>7. freePages' \in Nat /\ freePages' + Cardinality(Paged') <= freePages + Cardinality(Paged)
  BY <1>5, <1>6
<1> QED BY <1>2, <1>3, <1>4, <1>7, DiskerKeeps

LEMMA PushFailed == ASSUME IInv, DiskerPushFull PROVE IInv'
<1>1. ~NothingAbandoned
  BY FullQueueIsStale DEF DiskerPushFull
<1>2. died \in BOOLEAN
  BY DEF IInv, TypeOK
<1> QED BY <1>1, <1>2, Dropped DEF DiskerPushFull

LEMMA Died == ASSUME IInv, DiskerDies PROVE IInv'
BY Dropped DEF DiskerDies

----------------------------------------------------------------------------
(* Responses *)

\* HandleResponses() takes a response from the queue.
LEMMA ResponsePopped ==
  ASSUME IInv, toWorker # <<>>, toWorker' = Tail(toWorker), UNCHANGED <<toDisker, hand, answered, died>>,
         NEW m, m = Head(toWorker)
  PROVE  /\ MailTypes' /\ Mail' /\ PagesFit' /\ m \in InFlight /\ m \in Messages /\ Answers(m)
         /\ InFlight' \subseteq InFlight /\ \A k \in InFlight' : k.io # m.io
         /\ Cardinality(Paged) = Cardinality(Paged') + (IF m.page THEN 1 ELSE 0)
         /\ Cardinality(Paged) \in Nat /\ Cardinality(Paged') \in Nat
<1>1. MailTypes /\ Mail /\ PagesFit
  BY DEF IInv, TypeOK, MailTypes
<1>2. PICK t, D, W, E, H : /\ t = Tail(toWorker) /\ D = SeqMessages(toDisker) /\ W = SeqMessages(toWorker)
                           /\ E = SeqMessages(t) /\ H = Held
  OBVIOUS
<1>3. /\ t \in Seq(Messages) /\ Len(t) = Len(toWorker) - 1 /\ Distinct(t) /\ m \in W /\ m \in Messages
      /\ W = E \cup {m} /\ \A k \in E : k.io # m.io
  BY <1>1, <1>2, TailMail DEF MailTypes, Mail
<1>4. Held' = H /\ InFlight = D \cup W \cup H /\ InFlight' = D \cup E \cup H
  BY <1>2 DEF Held, InFlight
<1>5. Apart(D, W) /\ Apart(D, H) /\ Apart(W, H) /\ Distinct(toDisker)
  BY <1>1, <1>2 DEF Mail
<1>6. MailTypes'
  <2>1. Len(toWorker) \in Nat /\ QueueCapacity \in Nat
    BY <1>1, SizesAssumption DEF MailTypes
  <2>2. toWorker' \in Seq(Messages) /\ Len(toWorker') <= QueueCapacity
    BY <2>1, <1>1, <1>2, <1>3 DEF MailTypes
  <2>3. toDisker' \in Seq(Messages) /\ Len(toDisker') <= QueueCapacity
    BY <1>1 DEF MailTypes
  <2>4. hand' \in Messages \cup {NoMessage} /\ answered' \in BOOLEAN /\ died' \in BOOLEAN
    BY <1>1 DEF MailTypes
  <2> QED BY <2>2, <2>3, <2>4 DEF MailTypes
<1>7. Mail'
  <2>1. Apart(D, E) /\ Apart(E, H)
    BY <1>3, <1>5 DEF Apart
  <2> QED BY <2>1, <1>2, <1>3, <1>4, <1>5 DEF Mail
<1>8. PagesFit' /\ Answers(m)
  <2>1. /\ \A k \in D : Asks(k)
        /\ \A k \in W : Answers(k)
        /\ \A k \in H : IF answered THEN Answers(k) ELSE Asks(k)
    BY <1>1, <1>2 DEF PagesFit
  <2>2. \A k \in E : Answers(k)
    BY <2>1, <1>3
  <2> QED BY <2>1, <2>2, <1>2, <1>3, <1>4 DEF PagesFit
<1>9. \A k \in InFlight' : k.io # m.io
  BY <1>3, <1>4, <1>5 DEF Apart
<1>10. InFlight' \subseteq InFlight /\ m \in InFlight
  BY <1>3, <1>4
<1>11. PICK P, Q : P = Paged /\ Q = Paged'
  OBVIOUS
<1>12. IsFiniteSet(P) /\ Cardinality(P) \in Nat
  BY <1>11, InFlightFacts DEF IInv
<1>13. InFlight = InFlight' \cup {m}
  BY <1>3, <1>4
<1>14. Q \in SUBSET P /\ m \notin Q /\ P = (IF m.page THEN Q \cup {m} ELSE Q)
  BY <1>9, <1>11, <1>13 DEF Paged
<1>15. IsFiniteSet(Q) /\ Cardinality(Q) \in Nat
  BY <1>12, <1>14, FS_Subset, FS_CardinalityType
<1>16. Cardinality(Q \cup {m}) = Cardinality(Q) + 1
  BY <1>14, <1>15, FS_AddElement
<1>17. Cardinality(P) = Cardinality(Q) + (IF m.page THEN 1 ELSE 0)
  BY <1>14, <1>15, <1>16
<1> QED BY <1>3, <1>6, <1>7, <1>8, <1>9, <1>10, <1>11, <1>12, <1>15, <1>17

\* A response that does not answer the request that it finds, or finds none:
\* nobody waits for it.
LEMMA AlienAnswer ==
  ASSUME IInv, NEW m \in InFlight, \A p \in Pending : p.io # m.io
  PROVE  ~NothingAbandoned
BY DEF IInv, Expected

LEMMA LateResponse == ASSUME IInv, HandleLateResponse PROVE IInv'
<1>1. PICK m : m = Head(toWorker)
  OBVIOUS
<1>2. /\ toWorker # <<>> /\ toWorker' = Tail(toWorker) /\ UNCHANGED <<toDisker, hand, answered, died>>
      /\ freePages' = freePages /\ UNCHANGED worker
      /\ \A p \in Pending : p.id # m.requestId
  BY <1>1 DEF HandleLateResponse, Popping, Pending, disker, worker
<1>3. /\ MailTypes' /\ Mail' /\ PagesFit' /\ m \in InFlight /\ m \in Messages /\ InFlight' \subseteq InFlight
      /\ Cardinality(Paged) = Cardinality(Paged') + (IF m.page THEN 1 ELSE 0)
      /\ Cardinality(Paged) \in Nat /\ Cardinality(Paged') \in Nat
  BY <1>1, <1>2, ResponsePopped
<1>4. ~NothingAbandoned
  <2>1. \A p \in Pending : p.io # m.io
    BY <1>2, <1>3, Matching
  <2> QED BY <2>1, <1>3, AlienAnswer
<1>5. freePages \in Nat
  BY SizesAssumption DEF IInv, TypeOK
<1>6. Cardinality(Paged') <= Cardinality(Paged)
  BY <1>3
<1>7. freePages' \in Nat /\ freePages' + Cardinality(Paged') <= freePages + Cardinality(Paged)
  BY <1>2, <1>3, <1>5, <1>6
<1> QED BY <1>2, <1>3, <1>4, <1>7, DiskerKeeps

LEMMA AbandonedNext ==
  ASSUME outcome' \in [Ios -> Results]
  PROVE  \A io \in Ios : TimedOut(io)' <=> outcome'[io] \in {Timeout, Twice}
<1> SUFFICES ASSUME NEW io \in Ios PROVE TimedOut(io)' <=> outcome'[io] \in {Timeout, Twice}
  OBVIOUS
<1>1. PICK r : r = outcome'[io]
  OBVIOUS
<1>2. r \in Results
  BY <1>1
<1>3. (r # <<>> /\ Head(r) = "timeout") <=> r \in {Timeout, Twice}
  BY <1>2, ResultFacts
<1> QED BY <1>1, <1>3 DEF TimedOut

\* An I/O is completed, but not by a timeout.
LEMMA NoneTimedOut ==
  ASSUME IInv, NEW c \in Ios, outcome' \in [Ios -> Results], \A o \in Ios \ {c} : outcome'[o] = outcome[o],
         outcome'[c] \in {Timeout, Twice} <=> outcome[c] \in {Timeout, Twice}
  PROVE  /\ \A io \in Ios : TimedOut(io)' <=> TimedOut(io)
         /\ NothingAbandoned' <=> NothingAbandoned
<1>1. \A io \in Ios : TimedOut(io)' <=> TimedOut(io)
  <2> SUFFICES ASSUME NEW io \in Ios PROVE TimedOut(io)' <=> TimedOut(io)
    OBVIOUS
  <2>1. TimedOut(io)' <=> outcome'[io] \in {Timeout, Twice}
    BY AbandonedNext
  <2>2. TimedOut(io) <=> outcome[io] \in {Timeout, Twice}
    BY AbandonedFacts DEF IInv
  <2>3. CASE io = c
    BY <2>1, <2>2, <2>3
  <2>4. CASE io # c
    BY <2>1, <2>2, <2>4
  <2> QED BY <2>3, <2>4
<1>2. NothingAbandoned' <=> NothingAbandoned
  BY <1>1 DEF NothingAbandoned
<1> QED BY <1>1, <1>2

LEMMA Responded == ASSUME IInv, HandleResponse PROVE IInv'
<1>1. PICK m : m = Head(toWorker)
  OBVIOUS
<1>2. /\ calls # <<>> /\ Top.when # "send" /\ toWorker # <<>> /\ toWorker' = Tail(toWorker)
      /\ UNCHANGED <<serial, checks, toDisker, hand, answered, died>>
  BY DEF HandleResponse, Popping, disker
<1>3. PICK p \in Pending : p.id = m.requestId /\ dequeueRequest(p) /\ CompleteWith(m, p)
  BY <1>1 DEF HandleResponse, Pending
<1>4. /\ MailTypes' /\ Mail' /\ PagesFit' /\ m \in InFlight /\ m \in Messages /\ Answers(m)
      /\ InFlight' \subseteq InFlight /\ \A k \in InFlight' : k.io # m.io
      /\ Cardinality(Paged) = Cardinality(Paged') + (IF m.page THEN 1 ELSE 0)
      /\ Cardinality(Paged) \in Nat /\ Cardinality(Paged') \in Nat
  BY <1>1, <1>2, ResponsePopped
<1>5. /\ Follows(calls) /\ Waiting = PushIos(calls) /\ Busy = BusyIos(calls)
      /\ Visiting = Visited(calls) /\ (InCheck <=> Checking(calls)) /\ ~Sending /\ ~Sending'
  <2>1. TypeOK /\ GoodStack(calls, ios) /\ ios \in Nat
    BY SizesAssumption DEF IInv, TypeOK, Stack
  <2>2. NoSend(calls) /\ ~Sending
    BY <2>1, <1>2, TopFacts DEF Stack
  <2>3. UNCHANGED <<calls, ios>> \/ StartIo(calls)
    BY DEF HandleResponse
  <2>4. UNCHANGED <<calls, ios>> => Follows(calls)
    BY <2>1, Stays
  <2>5. Follows(calls)
    BY <2>1, <2>2, <2>3, <2>4, StartIoFollows
  <2> QED BY <2>2, <2>5 DEF Waiting, PushIos, Busy, Visiting, InCheck, Follows
<1>6. /\ olderRequests' = olderRequests \ {p} /\ newerRequests' = newerRequests \ {p}
      /\ UNCHANGED <<lastRequestId, timeoutCheckScheduled>> /\ Pending' = Pending \ {p}
  BY <1>3 DEF dequeueRequest, Pending
<1>7. /\ p.io \in (1..ios) \ Busy /\ p.io \in Ios /\ p \in Requests
      /\ outcome[p.io] = Started \/ outcome[p.io] = Timeout
  BY <1>3 DEF IInv, TypeOK, Placed, Settled, Pending, Requests
<1>8. /\ outcome' \in [Ios -> Results] /\ outcome'[p.io] # Started
      /\ \A o \in Ios \ {p.io} : outcome'[o] = outcome[o]
      /\ outcome'[p.io] \in {Timeout, Twice} <=> outcome[p.io] \in {Timeout, Twice}
  <2>1. Complete(p.io, "response") /\ "response" \in Outcomes /\ "response" # "timeout"
    BY <1>3 DEF CompleteWith, Outcomes
  <2> QED BY <2>1, <1>7, Completes
<1>9. (\A io \in Ios : TimedOut(io)' <=> TimedOut(io)) /\ (NothingAbandoned' <=> NothingAbandoned)
  BY <1>7, <1>8, NoneTimedOut
<1>10. m.io # p.io => ~NothingAbandoned
  <2>1. ASSUME m.io # p.io, NEW q \in Pending, q.io = m.io PROVE FALSE
    <3>1. q.id = m.requestId
      BY <2>1, <1>4, Matching
    <3>2. q = p
      BY <3>1, <1>3, Matching
    <3> QED BY <3>2, <2>1
  <2> QED BY <2>1, <1>4, AlienAnswer
<1>11. Placed' /\ Limited'
  <2>1. Visited(calls) \cap newerRequests' = {} /\ BusyIos(calls) \subseteq Busy
    BY <1>5, <1>6 DEF IInv, Placed
  <2>2. olderRequests' \subseteq olderRequests /\ newerRequests' \subseteq newerRequests
    BY <1>6
  <2> QED BY <2>1, <2>2, <1>5, PlacedKept
<1>12. \A q \in Pending' : q \in Pending /\ q.io # p.io
  BY <1>3, <1>6 DEF IInv, Placed
<1>13. Settled'
  <2>1. /\ BusyIos(calls) \subseteq Busy /\ Busy \subseteq BusyIos(calls) \cup {p.io} /\ p.io \notin BusyIos(calls)
        /\ p.io \in 1..ios
    BY <1>5, <1>7
  <2>2. Pending' \subseteq Pending /\ \A q \in Pending : q.io # p.io => q \in Pending'
    BY <1>6
  <2>3. \A q \in Pending' \ Visited(calls) : q.io # p.io /\ q \notin Visiting
    BY <1>5, <1>12
  <2>4. \A q \in Visited(calls) : q \in Visiting \/ q.io = p.io
    BY <1>5
  <2>5. ASSUME NEW q \in Visited(calls), q \in Pending' PROVE outcome'[q.io] = Timeout
    <3>1. q \in Visiting /\ q \in Pending /\ q.io # p.io
      BY <2>5, <1>5, <1>12
    <3>2. outcome[q.io] = Timeout /\ q.io \in Ios
      BY <3>1 DEF IInv, Settled
    <3> QED BY <3>1, <3>2, <1>8
  <2> QED BY <2>1, <2>2, <2>3, <2>4, <2>5, <1>5, <1>8, SettledCompleted
<1>14. Serials' /\ IdsFit'
  BY <1>2, <1>4, <1>5, <1>6, IdsKept
<1>15. Expected'
  <2>1. ASSUME NEW k \in InFlight'
        PROVE  k \in InFlight /\ \A q \in Pending : q.io = k.io => q \in Pending' \/ ~NothingAbandoned'
    BY <1>4, <1>6, <1>9, <1>10
  <2>2. BusyIos(calls) \subseteq Busy /\ Pending' \subseteq Pending
    BY <1>5, <1>6
  <2> QED BY <2>1, <2>2, <1>5, <1>9, ExpectedKept
<1>16. /\ p.command = "cmdRead" => freePages' = freePages + (IF m.page THEN 1 ELSE 0)
       /\ p.command # "cmdRead" => freePages' = freePages
       /\ error_' \in BOOLEAN
  <2>1. error_ \in BOOLEAN /\ m.xerrno \in BOOLEAN /\ freePages \in Nat
    BY <1>4, SizesAssumption DEF IInv, TypeOK, Messages
  <2>2. CASE p.command = "cmdRead"
    BY <2>1, <2>2, <1>3 DEF CompleteWith, readCompleted
  <2>3. CASE p.command # "cmdRead"
    <3>1. writeCompleted(m, p)
      BY <2>3, <1>3 DEF CompleteWith
    <3> QED BY <3>1, <2>1, <2>3 DEF writeCompleted
  <2> QED BY <2>2, <2>3
<1>17. PagesBounded' /\ PagesInMessages' /\ freePages' \in 0..PageCount
  <2>1. PICK a, b, c, f, g : /\ a = (IF m.page THEN 1 ELSE 0) /\ b = Cardinality(Paged)
                             /\ c = Cardinality(Paged') /\ f = freePages /\ g = freePages'
    OBVIOUS
  <2>2. a \in Nat /\ b \in Nat /\ c \in Nat /\ f \in Nat /\ b = c + a
    BY <2>1, <1>4, SizesAssumption DEF IInv, TypeOK
  <2>3. Taken = 0 /\ Taken' = 0
    BY <1>5, NotSending, NotSendingNext
  <2>4. Pages = f + 0 + b /\ Pages' = g + 0 + c
    BY <2>1, <2>3 DEF Pages
  <2>5. g = f + a \/ g = f
    BY <2>1, <1>16
  <2>6. g \in Nat /\ Pages' <= Pages
    BY <2>2, <2>4, <2>5
  <2>7. ASSUME NothingAbandoned PROVE Pages' = Pages
    <3>1. m.command = p.command
      BY <2>7, <1>3, <1>4, <1>10 DEF IInv, Expected
    <3>2. CASE p.command = "cmdRead"
      <4>1. g = f + a
        BY <3>2, <2>1, <1>16
      <4> QED BY <4>1, <2>2, <2>4
    <3>3. CASE p.command # "cmdRead"
      <4>1. m.command = "cmdWrite"
        BY <3>1, <3>3, <1>4 DEF Messages, Commands
      <4>2. ~m.page /\ g = f
        BY <4>1, <3>3, <2>1, <1>4, <1>16 DEF Answers
      <4>3. a = 0
        BY <4>2, <2>1
      <4> QED BY <4>2, <4>3, <2>2, <2>4
    <3> QED BY <3>2, <3>3
  <2>8. NothingAbandoned' /\ ~died' => NothingAbandoned /\ ~died /\ Pages' = Pages
    BY <2>7, <1>2, <1>9
  <2> QED BY <2>1, <2>6, <2>8, <1>4, PagesKept
<1>18. TypeOK'
  <2>1. ios' \in 0..MaxIos /\ Stack'
    BY <1>5 DEF Follows
  <2>2. WorkerTypes'
    BY <2>1, <1>2, <1>6, <1>8, <1>16 DEF IInv, TypeOK, WorkerTypes
  <2> QED BY <2>1, <2>2, <1>4, <1>17, TypesAfter
<1>19. Aged' /\ Timed'
  <2>1. \A io \in Ios : TimedOut(io)' => checks[io] = 2
    BY <1>9 DEF IInv, Aged
  <2>2. InCheck' <=> InCheck
    BY <1>5 DEF Follows
  <2> QED BY <2>1, <2>2, <1>2, <1>6, TimedKept
<1> QED BY <1>4, <1>5, <1>11, <1>13, <1>14, <1>15, <1>17, <1>18, <1>19 DEF IInv, Follows

----------------------------------------------------------------------------
(* push() *)

LEMMA Prepared == ASSUME IInv, PrepareRequest PROVE IInv'
<1>1. /\ calls # <<>> /\ Top.when = "push" /\ lastRequestId' = nextRequestId
      /\ serial' = [serial EXCEPT ![Top.io] = issued + 1]
      /\ (Top.command = "cmdWrite" => freePages > 0)
      /\ freePages' = freePages - (IF Top.command = "cmdWrite" THEN 1 ELSE 0)
      /\ calls' = Append(Callers, [Top EXCEPT !.when = "send"]) /\ ios' = ios
  BY DEF PrepareRequest, NoMoreResponses, GiveId
<1>2. UNCHANGED <<olderRequests, newerRequests, timeoutCheckScheduled, error_, outcome, checks,
                  toDisker, toWorker, hand, answered, died>>
  BY DEF PrepareRequest, GiveId, disker
<1>3. Pending' = Pending /\ Stack /\ TypeOK /\ ios \in Nat
  BY <1>2, SizesAssumption DEF Pending, IInv, TypeOK
<1>4. PICK s, t : s = Append(Callers, [Top EXCEPT !.when = "send"]) /\ t = Top.io
  OBVIOUS
<1>5. /\ GoodStack(s, ios) /\ PushIos(s) = Waiting \ {t} /\ BusyIos(s) = Busy
      /\ (Checking(s) <=> InCheck) /\ Visited(s) = Visiting
      /\ s # <<>> /\ s[Len(s)].when = "send" /\ s[Len(s)].io = t /\ s[Len(s)].command = Top.command
  BY <1>1, <1>3, <1>4, StackSends
<1>6. Follows(s)
  BY <1>1, <1>3, <1>4, <1>5, Stays
<1>7. t \in Waiting /\ ~Sending
  <2>1. Top.when # "send"
    BY <1>1
  <2> QED BY <2>1, <1>1, <1>3, <1>4, TopFacts
<1>8. Sending' /\ Top'.io = t /\ Top'.command = Top.command
  BY <1>1, <1>4, <1>5 DEF Sending, Top
<1>9. freePages' \in Nat /\ freePages' + Taken' = freePages + Taken
  <2>1. Taken = 0 /\ Taken' = (IF Top.command = "cmdWrite" THEN 1 ELSE 0)
    BY <1>7, <1>8, NotSending DEF Taken, PageInHand
  <2>2. freePages \in Nat
    BY PageFacts
  <2> QED BY <2>1, <2>2, <1>1
<1>10. /\ NothingAbandoned' <=> NothingAbandoned
       /\ \A io \in Ios : TimedOut(io)' <=> TimedOut(io)
  BY <1>2 DEF NothingAbandoned, TimedOut
<1>11. /\ Mail' /\ PagesFit' /\ PagesBounded' /\ PagesInMessages' /\ freePages' \in 0..PageCount
       /\ MailTypes' /\ InFlight' = InFlight
  BY <1>2, <1>9, <1>10, MailUntouched
<1>12. Placed' /\ Limited'
  <2>1. Visited(s) \cap newerRequests' = {}
    BY <1>2, <1>5 DEF IInv, Placed
  <2> QED BY <2>1, <1>2, <1>5, <1>6, PlacedKept
<1>13. Settled'
  BY <1>2, <1>5, <1>6, SettledKept
<1>14. Serials' /\ IdsFit' /\ lastRequestId' \in 1..IdMax /\ serial' \in [Ios -> 0..MaxIos]
  BY <1>1, <1>3, <1>4, <1>5, <1>6, <1>7, <1>8, <1>11, IdsAdvance
<1>15. Expected'
  BY <1>3, <1>5, <1>6, <1>10, <1>11, ExpectedKept
<1>16. TypeOK'
  <2>1. lastRequestId' \in 0..IdMax
    BY <1>14, SizesAssumption
  <2>2. WorkerTypes'
    BY <2>1, <1>1, <1>2, <1>14, OutcomeType DEF IInv, TypeOK, WorkerTypes
  <2> QED BY <2>2, <1>6, <1>11, TypesAfter DEF Follows
<1>17. Aged' /\ Timed'
  <2>1. (\A io \in Ios : TimedOut(io)' => checks[io] = 2) /\ (InCheck' <=> InCheck)
    BY <1>5, <1>6, <1>10 DEF IInv, Aged, Follows
  <2> QED BY <2>1, <1>2, TimedKept
<1> QED BY <1>6, <1>11, <1>12, <1>13, <1>14, <1>15, <1>16, <1>17 DEF IInv, Follows

\* push() fails: the requestor is told, and may start another I/O.
LEMMA Refused ==
  ASSUME IInv, calls # <<>>, InPush(Top), Complete(Top.io, "refused"), CallBack(Callers),
         UNCHANGED <<olderRequests, newerRequests, timeoutCheckScheduled, error_, checks>>,
         UNCHANGED <<toDisker, toWorker, disker>>,
         freePages' \in Nat, freePages' = freePages + Taken,
         Follows(Callers) => Serials' /\ IdsFit' /\ lastRequestId' \in 0..IdMax /\ serial' \in [Ios -> 0..MaxIos]
  PROVE  IInv'
<1>1. UNCHANGED <<hand, answered, died>> /\ Pending' = Pending
  BY DEF disker, Pending
<1>2. Stack /\ TypeOK /\ ios \in Nat
  BY SizesAssumption DEF IInv, TypeOK
<1>3. PICK t, s : t = Top.io /\ s = Callers
  OBVIOUS
<1>4. /\ GoodStack(s, ios) /\ NoSend(s) /\ BusyIos(s) = Busy \ {t}
      /\ (Checking(s) <=> InCheck) /\ Visited(s) = Visiting
  BY <1>2, <1>3, StackShrinks
<1>5. t \in Busy /\ t \in 1..ios /\ t \in Ios
  BY <1>2, <1>3, TopFacts
<1>6. Follows(s) /\ ~Sending'
  BY <1>2, <1>3, <1>4, CallBackFollows DEF Follows
<1>7. Serials' /\ IdsFit' /\ lastRequestId' \in 0..IdMax /\ serial' \in [Ios -> 0..MaxIos]
  BY <1>3, <1>6
<1>8. outcome[t] = Started
  BY <1>5 DEF IInv, Settled
<1>9. /\ outcome' \in [Ios -> Results] /\ outcome'[t] # Started
      /\ \A o \in Ios \ {t} : outcome'[o] = outcome[o]
      /\ outcome'[t] \in {Timeout, Twice} <=> outcome[t] \in {Timeout, Twice}
  <2>1. "refused" \in Outcomes /\ "refused" # "timeout"
    BY DEF Outcomes
  <2> QED BY <2>1, <1>3, <1>5, <1>8, Completes
<1>10. (\A io \in Ios : TimedOut(io)' <=> TimedOut(io)) /\ (NothingAbandoned' <=> NothingAbandoned)
  BY <1>5, <1>9, NoneTimedOut
<1>11. /\ Mail' /\ PagesFit' /\ PagesBounded' /\ PagesInMessages' /\ freePages' \in 0..PageCount
       /\ MailTypes' /\ InFlight' = InFlight
  <2>1. Taken' = 0
    BY <1>6, NotSendingNext
  <2>2. freePages' + Taken' = freePages + Taken
    BY <2>1
  <2> QED BY <2>2, <1>1, <1>10, MailUntouched
<1>12. Placed' /\ Limited'
  <2>1. Visited(s) \cap newerRequests' = {} /\ BusyIos(s) \subseteq Busy
    BY <1>4 DEF IInv, Placed
  <2> QED BY <2>1, <1>6, PlacedKept
<1>13. Settled'
  <2>1. BusyIos(s) \subseteq Busy /\ Busy \subseteq BusyIos(s) \cup {t} /\ t \notin BusyIos(s)
    BY <1>4
  <2>2. \A q \in Pending : q.io # t
    BY <1>5 DEF IInv, Placed
  <2>3. ASSUME NEW q \in Visited(s), q \in Pending' PROVE outcome'[q.io] = Timeout
    <3>1. q \in Visiting /\ q \in Pending /\ q.io # t
      BY <2>2, <2>3, <1>1, <1>4
    <3>2. outcome[q.io] = Timeout /\ q.io \in Ios
      BY <3>1 DEF IInv, Settled
    <3> QED BY <3>1, <3>2, <1>9
  <2>4. (\A q \in Pending' \ Visited(s) : q.io # t /\ q \notin Visiting) /\ \A q \in Visited(s) : q \in Visiting \/ q.io = t
    BY <2>2, <1>1, <1>4
  <2> QED BY <2>1, <2>2, <2>3, <2>4, <1>1, <1>5, <1>6, <1>9, SettledCompleted
<1>14. Expected'
  <2>1. BusyIos(s) \subseteq Busy
    BY <1>4
  <2> QED BY <2>1, <1>1, <1>6, <1>10, <1>11, ExpectedKept
<1>15. TypeOK'
  <2>1. WorkerTypes'
    BY <1>6, <1>7, <1>9 DEF IInv, TypeOK, WorkerTypes, Follows
  <2> QED BY <2>1, <1>6, <1>11, TypesAfter DEF Follows
<1>16. Aged' /\ Timed'
  <2>1. (\A io \in Ios : TimedOut(io)' => checks[io] = 2) /\ (InCheck' <=> InCheck)
    BY <1>4, <1>6, <1>10 DEF IInv, Aged, Follows
  <2> QED BY <2>1, TimedKept
<1> QED BY <1>6, <1>7, <1>11, <1>12, <1>13, <1>14, <1>15, <1>16 DEF IInv, Follows

LEMMA RefusedWithoutPage == ASSUME IInv, PushWithoutPage PROVE IInv'
<1>1. /\ calls # <<>> /\ Top.when = "push" /\ Top.when # "send" /\ InPush(Top) /\ lastRequestId' = nextRequestId
      /\ serial' = [serial EXCEPT ![Top.io] = issued + 1] /\ CallBack(Callers) /\ Complete(Top.io, "refused")
      /\ UNCHANGED <<olderRequests, newerRequests, timeoutCheckScheduled, error_, checks>>
      /\ UNCHANGED <<toDisker, toWorker, disker>> /\ freePages' = freePages
  BY DEF PushWithoutPage, NoMoreResponses, GiveId, InPush
<1>2. Stack /\ TypeOK /\ ios \in Nat /\ freePages \in Nat
  BY SizesAssumption DEF IInv, TypeOK
<1>3. Taken = 0 /\ Top.io \in Waiting
  BY <1>1, <1>2, TopFacts, NotSending
<1>4. GoodStack(Callers, ios) /\ NoSend(Callers) /\ PushIos(Callers) = Waiting \ {Top.io}
  BY <1>1, <1>2, StackShrinks
<1>5. ASSUME Follows(Callers)
      PROVE  Serials' /\ IdsFit' /\ lastRequestId' \in 0..IdMax /\ serial' \in [Ios -> 0..MaxIos]
  <2>1. Pending' = Pending /\ InFlight' = InFlight /\ ~Sending'
    BY <1>1, <1>4, <1>5 DEF Pending, InFlight, disker, Follows
  <2>2. PICK t, s : t = Top.io /\ s = Callers
    OBVIOUS
  <2>3. t \in Waiting /\ Follows(s) /\ PushIos(s) = Waiting \ {t} /\ serial' = [serial EXCEPT ![t] = issued + 1]
    BY <2>2, <1>1, <1>3, <1>4, <1>5
  <2>4. Serials' /\ IdsFit' /\ lastRequestId' \in 1..IdMax /\ serial' \in [Ios -> 0..MaxIos]
    BY <2>1, <2>3, <1>1, IdsAdvance
  <2> QED BY <2>4, SizesAssumption
<1> QED BY <1>1, <1>2, <1>3, <1>5, Refused

LEMMA RefusedFull == ASSUME IInv, PushFull PROVE IInv'
<1>1. /\ calls # <<>> /\ Top.when = "send" /\ InPush(Top) /\ Sending
      /\ CallBack(Callers) /\ Complete(Top.io, "refused")
      /\ UNCHANGED <<lastRequestId, serial>>
      /\ UNCHANGED <<olderRequests, newerRequests, timeoutCheckScheduled, error_, checks>>
      /\ UNCHANGED <<toDisker, toWorker, disker>>
      /\ freePages' = freePages + (IF Top.command = "cmdWrite" THEN 1 ELSE 0)
  BY DEF PushFull, Sending, InPush, requests
<1>2. Stack /\ TypeOK /\ ios \in Nat /\ freePages \in Nat
  BY SizesAssumption DEF IInv, TypeOK
<1>3. freePages' = freePages + Taken /\ freePages' \in Nat
  BY <1>1, <1>2 DEF Taken, PageInHand
<1>4. GoodStack(Callers, ios) /\ NoSend(Callers) /\ PushIos(Callers) = Waiting
  BY <1>1, <1>2, StackShrinks
<1>5. ASSUME Follows(Callers)
      PROVE  Serials' /\ IdsFit' /\ lastRequestId' \in 0..IdMax /\ serial' \in [Ios -> 0..MaxIos]
  <2>1. Pending' = Pending /\ InFlight' = InFlight /\ ~Sending'
    BY <1>1, <1>4, <1>5 DEF Pending, InFlight, disker, Follows
  <2>2. Serials' /\ IdsFit'
    BY <2>1, <1>1, <1>4, <1>5, IdsKept
  <2> QED BY <2>2, <1>1 DEF IInv, TypeOK
<1> QED BY <1>1, <1>3, <1>5, Refused


\* One handler sends, so fewer than all the IDs are still to be given.
LEMMA SendingFewer ==
  ASSUME IInv, Sending
  PROVE  Cardinality(Waiting) < IdMax /\ serial[Top.io] = issued /\ lastRequestId \in 1..IdMax
         /\ ios - issued = Cardinality(Waiting)
<1>1. PICK n : n = Len(calls)
  OBVIOUS
<1>2. /\ Stack /\ ios \in Nat /\ calls # <<>> /\ Top.when = "send" /\ IdMax \in Nat /\ n \in Nat \ {0}
      /\ n <= IdMax /\ calls[n].when = "send" /\ DOMAIN calls = 1..n
  <2>1. Stack /\ ios \in Nat /\ calls # <<>> /\ Top.when = "send"
    BY SizesAssumption DEF IInv, TypeOK, Sending
  <2>2. n \in Nat \ {0} /\ calls[n].when = "send"
    BY <2>1, <1>1, TopFacts
  <2>3. n <= MaxDepth /\ DOMAIN calls = 1..n
    BY <2>1, <1>1 DEF Stack, GoodStack
  <2> QED BY <2>1, <2>2, <2>3, SizesAssumption
<1>3. PICK J : J = {j \in 1..n : calls[j].when = "push"}
  OBVIOUS
<1>4. J \subseteq 1..n - 1
  <2>1. n \notin J
    BY <1>2, <1>3
  <2> QED BY <2>1, <1>2, <1>3
<1>5. IsFiniteSet(J) /\ Cardinality(J) <= n - 1 /\ Cardinality(J) \in Nat
  <2>1. IsFiniteSet(1..n - 1) /\ Cardinality(1..n - 1) = n - 1
    <3>1. PICK k : k = n - 1
      OBVIOUS
    <3>2. k \in Nat /\ k \in Int /\ 1 \in Int
      BY <3>1, <1>2
    <3>3. IsFiniteSet(1..k) /\ Cardinality(1..k) = IF 1 > k THEN 0 ELSE k - 1 + 1
      BY <3>2, FS_Interval
    <3>4. Cardinality(1..k) = k
      BY <3>2, <3>3
    <3> QED BY <3>1, <3>3, <3>4
  <2> QED BY <2>1, <1>4, FS_Subset, FS_CardinalityType
<1>6. PICK f : f = [j \in J |-> calls[j].io]
  OBVIOUS
<1>7. f \in Surjection(J, Waiting)
  <2>1. Waiting = {calls[j].io : j \in J}
    BY <1>2, <1>3 DEF Waiting
  <2> QED BY <2>1, <1>6 DEF Surjection
<1>8. IsFiniteSet(Waiting) /\ Cardinality(Waiting) <= Cardinality(J)
  BY <1>5, <1>7, FS_Surjection
<1>9. Cardinality(Waiting) \in Nat /\ issued \in Nat /\ Busy \subseteq 1..ios
  BY IdFacts
<1>10. Cardinality(Waiting) < IdMax
  BY <1>2, <1>5, <1>8, <1>9
<1>11. serial[Top.io] = issued
  BY DEF IInv, Serials
<1>12. issued > 0
  <2>1. InPush(Top)
    BY <1>2 DEF InPush
  <2>2. Top.io \in Numbered
    BY <2>1, <1>2, TopFacts DEF Numbered
  <2>3. serial[Top.io] \in 1..issued
    BY <2>2, IdFacts
  <2> QED BY <2>3, <1>9
<1>13. ios - issued = Cardinality(Waiting)
  BY <1>2, <1>9 DEF issued
<1> QED BY <1>10, <1>11, <1>12, <1>13 DEF IInv, Serials

LEMMA RequestPushed == ASSUME IInv, PushRequest PROVE IInv'
<1>1. PICK t, n, c, w, m, r, s :
        /\ t = Top.io /\ n = lastRequestId /\ c = Top.command /\ w = (Top.command = "cmdWrite")
        /\ m = [requestId |-> n, io |-> t, command |-> c, page |-> w, xerrno |-> FALSE]
        /\ r = [id |-> n, io |-> t, command |-> c] /\ s = Callers
  OBVIOUS
<1>2. /\ Sending /\ calls' = s
      /\ toDisker' = Append(toDisker, m) /\ newerRequests' = newerRequests \cup {r}
      /\ timeoutCheckScheduled' = TRUE
      /\ checks' = [checks EXCEPT ![t] = IF InTimeoutCheck THEN 1 ELSE 0]
      /\ UNCHANGED <<lastRequestId, olderRequests, error_, ios, outcome, serial, toWorker, hand, answered, died, freePages>>
      /\ pendingRequests < QueueCapacity /\ Len(toDisker) < QueueCapacity
  BY <1>1 DEF PushRequest, Return, disker
<1>3. /\ Stack /\ TypeOK /\ ios \in Nat /\ calls # <<>> /\ Top.when = "send" /\ InPush(Top)
      /\ serial[t] = issued /\ n \in 1..IdMax /\ Cardinality(Waiting) < IdMax /\ ios - issued = Cardinality(Waiting)
  <2>1. Stack /\ TypeOK /\ ios \in Nat /\ calls # <<>> /\ Top.when = "send" /\ InPush(Top)
    BY <1>2, SizesAssumption DEF IInv, TypeOK, Sending, InPush
  <2> QED BY <2>1, <1>1, <1>2, SendingFewer
<1>4. /\ GoodStack(s, ios) /\ NoSend(s) /\ BusyIos(s) = Busy \ {t} /\ PushIos(s) = Waiting
      /\ (Checking(s) <=> InCheck) /\ Visited(s) = Visiting
  BY <1>1, <1>3, StackShrinks
<1>5. t \in Busy /\ t \in 1..ios /\ t \in Ios /\ c \in Commands /\ t \notin Waiting
  BY <1>1, <1>3, TopFacts
<1>6. Follows(s) /\ ~Sending' /\ Stack' /\ (InCheck' <=> InCheck) /\ Visiting' = Visiting
  BY <1>2, <1>3, <1>4, Stays DEF Follows
<1>7. Busy' = Busy \ {t} /\ Waiting' = Waiting /\ issued' = issued /\ Numbered' = Numbered
  <2>1. New = {} /\ ios' = ios
    BY <1>2 DEF New
  <2>2. Busy' = Busy \ {t} /\ Waiting' = Waiting
    BY <2>1, <1>4, <1>6 DEF Follows
  <2> QED BY <2>1, <2>2 DEF issued, Numbered
<1>8. outcome[t] = Started
  BY <1>5 DEF IInv, Settled
<1>9. /\ m \in Messages /\ m.requestId = n /\ m.io = t /\ m.page = w /\ m.command = c /\ Asks(m) /\ m # NoMessage
      /\ r \in Requests /\ r.id = n /\ r.io = t /\ r.command = c
  <2>1. w \in BOOLEAN /\ n \in 0..IdMax /\ n # 0
    BY <1>1, <1>3, SizesAssumption
  <2>2. m \in Messages /\ m.requestId = n /\ m.io = t /\ m.page = w /\ m.command = c
    BY <2>1, <1>1, <1>5 DEF Messages
  <2>3. r \in Requests /\ r.id = n /\ r.io = t /\ r.command = c
    BY <2>1, <1>1, <1>5 DEF Requests
  <2>4. m # NoMessage
    BY <2>1, <2>2 DEF NoMessage
  <2>5. Asks(m)
    BY <1>1, <2>2 DEF Asks
  <2> QED BY <2>2, <2>3, <2>4, <2>5
<1>10. /\ \A p \in Pending : p.io # t /\ p # r
       /\ \A k \in InFlight : k.io # t /\ k # m
       /\ r \notin Visiting
  <2>1. \A p \in Pending : p.io # t
    BY <1>5 DEF IInv, Placed
  <2>2. \A k \in InFlight : k.io # t
    BY <1>5 DEF IInv, Expected
  <2>3. r \notin Visiting
    BY <1>8, <1>9 DEF IInv, Settled
  <2> QED BY <2>1, <2>2, <2>3, <1>9
<1>11. Pending' = Pending \cup {r}
  BY <1>2 DEF Pending
<1>12. PICK d, D, E, W, H : /\ d = Append(toDisker, m) /\ D = SeqMessages(toDisker) /\ E = SeqMessages(d)
                            /\ W = SeqMessages(toWorker) /\ H = Held
  OBVIOUS
<1>13. MailTypes /\ Mail /\ PagesFit
  BY DEF IInv, TypeOK, MailTypes
<1>14. InFlight = D \cup W \cup H
  BY <1>12 DEF InFlight, Held
<1>15. d \in Seq(Messages) /\ Len(d) = Len(toDisker) + 1 /\ Distinct(d) /\ E = D \cup {m}
  <2>1. \A k \in SeqMessages(toDisker) : k.io # m.io
    BY <1>9, <1>10, <1>12, <1>14
  <2> QED BY <2>1, <1>9, <1>12, <1>13, AppendMail DEF MailTypes, Mail
<1>16. Held' = H /\ InFlight' = E \cup W \cup H /\ InFlight' = InFlight \cup {m}
  <2>1. Held' = H /\ InFlight' = E \cup W \cup H
    BY <1>2, <1>12 DEF InFlight, Held
  <2> QED BY <2>1, <1>14, <1>15
<1>17. MailTypes'
  <2>1. Len(toDisker) \in Nat /\ QueueCapacity \in Nat
    BY <1>13, SizesAssumption DEF MailTypes
  <2>2. toDisker' \in Seq(Messages) /\ Len(toDisker') <= QueueCapacity
    BY <2>1, <1>2, <1>12, <1>15
  <2>3. toWorker' \in Seq(Messages) /\ Len(toWorker') <= QueueCapacity
    BY <1>2, <1>13 DEF MailTypes
  <2>4. hand' \in Messages \cup {NoMessage} /\ answered' \in BOOLEAN /\ died' \in BOOLEAN
    BY <1>2, <1>13 DEF MailTypes
  <2> QED BY <2>2, <2>3, <2>4 DEF MailTypes
<1>18. Mail'
  <2>1. Apart(D, W) /\ Apart(D, H) /\ Apart(W, H) /\ Distinct(toWorker)
    BY <1>12, <1>13 DEF Mail
  <2>2. Apart(E, W) /\ Apart(E, H)
    BY <2>1, <1>9, <1>10, <1>14, <1>15 DEF Apart
  <2> QED BY <2>1, <2>2, <1>2, <1>12, <1>15, <1>16 DEF Mail
<1>19. PagesFit'
  <2>1. /\ \A k \in D : Asks(k)
        /\ \A k \in W : Answers(k)
        /\ \A k \in H : IF answered THEN Answers(k) ELSE Asks(k)
    BY <1>12, <1>13 DEF PagesFit
  <2>2. \A k \in E : Asks(k)
    BY <2>1, <1>9, <1>15
  <2> QED BY <2>1, <2>2, <1>2, <1>12, <1>16 DEF PagesFit
<1>20. PagesBounded' /\ PagesInMessages' /\ freePages' \in 0..PageCount
  <2>1. PICK P, Q, a, f : P = Paged /\ Q = Paged' /\ a = (IF w THEN 1 ELSE 0) /\ f = freePages
    OBVIOUS
  <2>2. IsFiniteSet(P) /\ Cardinality(P) \in Nat /\ m \notin P
    <3>1. P \subseteq InFlight
      BY <2>1 DEF Paged
    <3> QED BY <3>1, <2>1, <1>10, InFlightFacts DEF IInv
  <2>3. Q = (IF w THEN P \cup {m} ELSE P)
    BY <2>1, <1>9, <1>16 DEF Paged
  <2>4. Cardinality(P \cup {m}) = Cardinality(P) + 1
    BY <2>2, FS_AddElement
  <2>5. Cardinality(Q) = Cardinality(P) + a
    BY <2>1, <2>2, <2>3, <2>4
  <2>6. f \in Nat /\ a \in Nat
    BY <2>1, PageFacts
  <2>7. Taken = a /\ Taken' = 0
    <3>1. Taken = a
      BY <2>1, <1>1, <1>2 DEF Taken, PageInHand
    <3> QED BY <3>1, <1>6, NotSendingNext
  <2>8. PICK b : b = Cardinality(P)
    OBVIOUS
  <2>9. Pages = f + a + b /\ Pages' = f + 0 + (b + a)
    BY <2>1, <2>5, <2>7, <2>8, <1>2 DEF Pages
  <2>10. Pages' = Pages /\ Pages' <= Pages
    BY <2>2, <2>6, <2>8, <2>9
  <2>11. NothingAbandoned' /\ ~died' => NothingAbandoned /\ ~died
    BY <1>2 DEF NothingAbandoned, TimedOut
  <2>12. freePages' \in Nat
    BY <2>1, <2>6, <1>2
  <2> QED BY <2>10, <2>11, <2>12, <1>17, PagesKept
<1>21. Placed'
  <2>1. Placed
    BY DEF IInv
  <2>2. olderRequests' \cap newerRequests' = {} /\ Visiting' \cap newerRequests' = {}
    BY <2>1, <1>2, <1>6, <1>10 DEF Placed, Pending
  <2>3. \A p, q \in Pending' : p.io = q.io => p = q
    BY <2>1, <1>9, <1>10, <1>11 DEF Placed
  <2>4. \A p \in Pending' : p.io \in (1..ios') \ Busy'
    BY <2>1, <1>2, <1>5, <1>7, <1>9, <1>11 DEF Placed
  <2> QED BY <2>2, <2>3, <2>4 DEF Placed
<1>22. Limited'
  <2>1. PICK A, B : A = olderRequests /\ B = newerRequests
    OBVIOUS
  <2>2. IsFiniteSet(A) /\ IsFiniteSet(B) /\ r \notin B /\ Cardinality(A) + Cardinality(B) < QueueCapacity
    BY <2>1, <1>2, <1>10 DEF IInv, Limited, pendingRequests, Pending
  <2>3. IsFiniteSet(B \cup {r}) /\ Cardinality(B \cup {r}) = Cardinality(B) + 1
    BY <2>2, FS_AddElement
  <2>4. Cardinality(A) \in Nat /\ Cardinality(B) \in Nat /\ QueueCapacity \in Nat
    BY <2>2, FS_CardinalityType, SizesAssumption
  <2>5. Cardinality(A) + Cardinality(B \cup {r}) <= QueueCapacity
    BY <2>2, <2>3, <2>4
  <2>6. olderRequests' = A /\ newerRequests' = B \cup {r}
    BY <2>1, <1>2
  <2> QED BY <2>2, <2>3, <2>5, <2>6 DEF Limited, pendingRequests
<1>23. Settled'
  <2>1. Settled
    BY DEF IInv
  <2>2. \A p \in Pending' \ Visiting' : outcome[p.io] = Started
    BY <2>1, <1>6, <1>8, <1>9, <1>11 DEF Settled
  <2>3. ASSUME NEW io \in 1..ios, outcome[io] = Started PROVE io \in Busy' \/ \E p \in Pending' : p.io = io
    <3>1. CASE io = t
      BY <3>1, <1>9, <1>11
    <3>2. CASE io # t
      BY <3>2, <2>1, <2>3, <1>7, <1>11 DEF Settled
    <3> QED BY <3>1, <3>2
  <2>4. \A p \in Visiting' : p \in Pending' => outcome[p.io] = Timeout
    BY <2>1, <1>6, <1>10, <1>11 DEF Settled
  <2>5. \A p \in Visiting' : p.io \in Ios /\ outcome[p.io] # Started
    BY <2>1, <1>6 DEF Settled
  <2>6. (\A io \in Busy' : outcome[io] = Started) /\ outcome' = outcome /\ ios' = ios
    BY <2>1, <1>2, <1>7 DEF Settled
  <2> QED BY <2>1, <2>2, <2>3, <2>4, <2>5, <2>6 DEF Settled
<1>24. Serials'
  <2>1. Serials
    BY DEF IInv
  <2> QED BY <2>1, <1>2, <1>6, <1>7 DEF Serials
<1>25. IdsFit'
  <2>1. IdsFit /\ (\A i : Age(i)' = Age(i)) /\ serial' = serial /\ ios' = ios /\ issued' = issued
    BY <1>2, <1>7 DEF IInv, Age
  <2>2. Age(n) = 0 /\ ios - serial[t] < IdMax /\ issued - serial[t] = 0
    <3>1. issued \in Nat /\ n \in Nat
      BY <1>3, IdFacts
    <3> QED BY <3>1, <1>1, <1>3 DEF Age
  <2>3. \A p \in Pending' : /\ p.id \in 1..IdMax /\ ios' - serial'[p.io] < IdMax
                            /\ Age(p.id)' = issued' - serial'[p.io]
    <3> SUFFICES ASSUME NEW p \in Pending'
                 PROVE  p.id \in 1..IdMax /\ ios - serial[p.io] < IdMax /\ Age(p.id) = issued - serial[p.io]
      BY <2>1
    <3>1. CASE p = r
      BY <3>1, <2>2, <1>3, <1>9
    <3>2. CASE p \in Pending
      BY <3>2, <2>1 DEF IdsFit
    <3> QED BY <3>1, <3>2, <1>11
  <2>4. \A k \in InFlight' : /\ k.requestId \in 1..IdMax
                             /\ issued' - serial'[k.io] < IdMax => Age(k.requestId)' = issued' - serial'[k.io]
    <3> SUFFICES ASSUME NEW k \in InFlight'
                 PROVE  /\ k.requestId \in 1..IdMax
                        /\ issued - serial[k.io] < IdMax => Age(k.requestId) = issued - serial[k.io]
      BY <2>1
    <3>1. CASE k = m
      BY <3>1, <2>2, <1>3, <1>9
    <3>2. CASE k \in InFlight
      BY <3>2, <2>1 DEF IdsFit
    <3> QED BY <3>1, <3>2, <1>16
  <2> QED BY <2>3, <2>4 DEF IdsFit
<1>26. Expected'
  <2>1. Expected /\ ios' = ios /\ (~NothingAbandoned => ~NothingAbandoned')
    BY <1>2 DEF IInv, NothingAbandoned, TimedOut
  <2>2. \A k \in InFlight' : k.io \in (1..ios') \ Busy'
    BY <2>1, <1>5, <1>7, <1>9, <1>16 DEF Expected
  <2>3. \A k \in InFlight' : (\E p \in Pending' : p.io = k.io) \/ ~NothingAbandoned'
    BY <2>1, <1>9, <1>11, <1>16 DEF Expected
  <2>4. \A k \in InFlight', p \in Pending' : k.io = p.io => k.command = p.command
    <3> SUFFICES ASSUME NEW k \in InFlight', NEW p \in Pending', k.io = p.io PROVE k.command = p.command
      OBVIOUS
    <3>1. CASE k = m
      BY <3>1, <1>9, <1>10, <1>11
    <3>2. CASE k \in InFlight
      BY <3>2, <2>1, <1>9, <1>10, <1>11 DEF Expected
    <3> QED BY <3>1, <3>2, <1>16
  <2> QED BY <2>2, <2>3, <2>4 DEF Expected
<1>27. Seen' = Seen /\ checks' \in [Ios -> 0..2] /\ checks'[t] = Seen /\ \A io \in Ios \ {t} : checks'[io] = checks[io]
  <2>1. checks \in [Ios -> 0..2]
    BY DEF IInv, TypeOK
  <2>2. InTimeoutCheck <=> InCheck
    BY OutermostOnly DEF IInv
  <2> QED BY <2>1, <2>2, <1>2, <1>5, <1>6 DEF Seen
<1>28. Aged' /\ Timed'
  <2>1. Aged /\ \A p \in Pending : p.io \in Ios \ {t}
    BY <1>10 DEF IInv, TypeOK, Pending, Requests
  <2>2. \A p \in olderRequests' : checks'[p.io] = 1 + Seen'
    BY <2>1, <1>2, <1>27 DEF Aged, Pending
  <2>3. \A p \in newerRequests' : checks'[p.io] = Seen'
    BY <2>1, <1>2, <1>9, <1>27 DEF Aged, Pending
  <2>4. ASSUME NEW io \in Ios, TimedOut(io)' PROVE checks'[io] = 2
    <3>1. TimedOut(io)
      BY <2>4, <1>2 DEF TimedOut
    <3>2. io # t
      BY <3>1, <1>8 DEF TimedOut, Started
    <3>3. checks[io] = 2
      BY <3>1, <2>1 DEF Aged
    <3> QED BY <3>2, <3>3, <1>27
  <2>5. Timed'
    BY <1>2 DEF Timed
  <2> QED BY <2>2, <2>3, <2>4, <2>5 DEF Aged
<1>29. TypeOK'
  <2>1. ios' \in 0..MaxIos /\ outcome' \in [Ios -> Results]
    BY <1>2, OutcomeType DEF IInv, TypeOK
  <2>2. WorkerTypes'
    BY <2>1, <1>2, <1>9, <1>27 DEF IInv, TypeOK, WorkerTypes
  <2> QED BY <2>2, <1>6, <1>17, <1>20, TypesAfter
<1> QED BY <1>6, <1>18, <1>19, <1>20, <1>21, <1>22, <1>23, <1>24, <1>25, <1>26, <1>28, <1>29 DEF IInv

----------------------------------------------------------------------------
(* checkTimeouts() *)

LEMMA TimerFired == ASSUME IInv, CheckTimeouts PROVE IInv'
<1>1. /\ calls = <<>> /\ timeoutCheckScheduled' = FALSE /\ calls' = <<[when |-> "timeout"]>>
      /\ checks' = [io \in Ios |-> checks[io] + (IF io \in Tracked THEN 1 ELSE 0)]
      /\ UNCHANGED <<lastRequestId, olderRequests, newerRequests, error_, ios, outcome, serial>>
      /\ UNCHANGED <<toDisker, toWorker, hand, answered, died, freePages>>
  BY DEF CheckTimeouts, disker
<1>2. PICK s : s = <<[when |-> "timeout"]>>
  OBVIOUS
<1>3. Waiting = {} /\ Busy = {} /\ Visiting = {} /\ ~InCheck /\ ~Sending /\ TypeOK /\ ios \in Nat
  BY <1>1, EmptyStack, SizesAssumption DEF IInv, TypeOK
<1>4. /\ GoodStack(s, ios) /\ NoSend(s) /\ PushIos(s) = Waiting /\ BusyIos(s) = Busy /\ Visited(s) = Visiting
      /\ Checking(s)
  BY <1>2, <1>3, StackStart
<1>5. Follows(s) /\ ~Sending' /\ Stack' /\ InCheck' /\ Visiting' = Visiting /\ Pending' = Pending
  BY <1>1, <1>2, <1>3, <1>4, Stays DEF Follows, Pending
<1>6. /\ NothingAbandoned' <=> NothingAbandoned
      /\ \A io \in Ios : TimedOut(io)' <=> TimedOut(io)
  BY <1>1 DEF NothingAbandoned, TimedOut
<1>7. /\ Mail' /\ PagesFit' /\ PagesBounded' /\ PagesInMessages' /\ freePages' \in 0..PageCount
      /\ MailTypes' /\ InFlight' = InFlight
  <2>1. freePages' \in Nat /\ freePages' + Taken' = freePages + Taken
    BY <1>1, <1>3, <1>5, PageFacts, NotSending, NotSendingNext
  <2> QED BY <2>1, <1>1, <1>6, MailUntouched
<1>8. Placed' /\ Limited'
  <2>1. Visited(s) \cap newerRequests' = {}
    BY <1>3, <1>4
  <2> QED BY <2>1, <1>1, <1>4, <1>5, PlacedKept
<1>9. Settled'
  BY <1>1, <1>4, <1>5, SettledKept
<1>10. Serials' /\ IdsFit'
  BY <1>1, <1>4, <1>5, <1>7, IdsKept
<1>11. Expected'
  BY <1>4, <1>5, <1>6, <1>7, ExpectedKept
<1>12. Aged /\ Seen = 0 /\ Seen' = 1 /\ checks \in [Ios -> 0..2]
  BY <1>3, <1>5 DEF IInv, TypeOK, Seen
<1>13. \A io \in Ios : io \in Tracked <=> \E p \in Pending : p.io = io
  BY DEF Tracked, Pending
<1>14. \A p \in olderRequests : p.io \in Ios /\ p.io \in Tracked /\ checks[p.io] = 1
  BY <1>12 DEF IInv, TypeOK, Requests, Tracked, Aged
<1>15. \A p \in newerRequests : p.io \in Ios /\ p.io \in Tracked /\ checks[p.io] = 0
  BY <1>12 DEF IInv, TypeOK, Requests, Tracked, Aged
<1>16. \A io \in Ios : TimedOut(io) => io \notin Tracked /\ checks[io] = 2
  <2> SUFFICES ASSUME NEW io \in Ios, TimedOut(io) PROVE io \notin Tracked /\ checks[io] = 2
    OBVIOUS
  <2>1. outcome[io] # Started
    BY DEF TimedOut, Started
  <2>2. \A p \in Pending : p.io # io
    BY <2>1, <1>3 DEF IInv, Settled
  <2> QED BY <2>2, <1>12, <1>13 DEF Aged
<1>17. \A io \in Ios : checks'[io] = IF io \in Tracked THEN checks[io] + 1 ELSE checks[io]
  BY <1>1, <1>12
<1>18. \A io \in Ios : io \in Tracked => checks[io] \in 0..1
  BY <1>13, <1>14, <1>15 DEF Pending
<1>19. checks' \in [Ios -> 0..2]
  <2>1. \A io \in Ios : checks'[io] \in 0..2
    BY <1>12, <1>17, <1>18
  <2> QED BY <2>1, <1>1
<1>20. Aged' /\ Timed'
  <2>1. \A p \in olderRequests' : checks'[p.io] = 1 + Seen'
    BY <1>1, <1>12, <1>14, <1>17
  <2>2. \A p \in newerRequests' : checks'[p.io] = Seen'
    BY <1>1, <1>12, <1>15, <1>17
  <2>3. \A io \in Ios : TimedOut(io)' => checks'[io] = 2
    BY <1>6, <1>16, <1>17
  <2> QED BY <2>1, <2>2, <2>3, <1>5 DEF Aged, Timed
<1>21. TypeOK'
  <2>1. WorkerTypes'
    BY <1>1, <1>19, OutcomeType DEF IInv, TypeOK, WorkerTypes
  <2> QED BY <2>1, <1>5, <1>7, TypesAfter
<1> QED BY <1>5, <1>7, <1>8, <1>9, <1>10, <1>11, <1>20, <1>21 DEF IInv

LEMMA OlderAbandoned == ASSUME IInv, AbandonOlder PROVE IInv'
<1>1. PICK p \in olderRequests : Abandon(p)
  BY DEF AbandonOlder
<1>2. /\ calls # <<>> /\ Top.when = "abandon" /\ Complete(p.io, "timeout") /\ CallBack(Visit(p)) /\ p \notin Top.visited
      /\ UNCHANGED <<lastRequestId, olderRequests, newerRequests, timeoutCheckScheduled, error_, serial, checks>>
      /\ UNCHANGED <<toDisker, toWorker, hand, answered, died, freePages>>
  BY <1>1 DEF Abandon, Abandoning, requests, disker
<1>3. PICK v, s : v = Top.visited \cup {p} /\ s = Visit(p)
  OBVIOUS
<1>4. Stack /\ TypeOK /\ ios \in Nat /\ Top \in Calls
  <2>1. Stack /\ TypeOK /\ ios \in Nat
    BY SizesAssumption DEF IInv, TypeOK
  <2> QED BY <2>1, <1>2, TopFacts
<1>5. Top.visited \subseteq Requests /\ Top = [when |-> "abandon", visited |-> Top.visited]
  BY <1>2, <1>4, CallKinds
<1>6. v \in SUBSET Requests
  BY <1>3, <1>5 DEF IInv, TypeOK
<1>7. s = Append(Callers, [when |-> "abandon", visited |-> v])
  <2>1. [Top EXCEPT !.visited = @ \cup {p}] = [when |-> "abandon", visited |-> v]
    BY <1>3, <1>5
  <2> QED BY <2>1, <1>3 DEF Visit
<1>8. /\ GoodStack(s, ios) /\ NoSend(s) /\ PushIos(s) = {} /\ BusyIos(s) = {} /\ Checking(s) /\ Visited(s) = v
      /\ Waiting = {} /\ Busy = {} /\ InCheck /\ ~Sending /\ Visiting = Top.visited
  <2>1. Top.when \in {"timeout", "abandon"}
    BY <1>2
  <2> QED BY <2>1, <1>2, <1>4, <1>6, <1>7, StackAbandon
<1>9. Follows(s) /\ ~Sending' /\ Stack' /\ (InCheck' <=> InCheck) /\ Pending' = Pending
  BY <1>2, <1>3, <1>4, <1>8, CallBackFollows DEF Follows, Pending
<1>10. Visited(s) = Visiting \cup {p} /\ p \notin Visiting /\ p \in Pending
  BY <1>2, <1>3, <1>8 DEF Pending
<1>11. p.io \in 1..ios /\ p.io \in Ios /\ outcome[p.io] = Started
  BY <1>10 DEF IInv, TypeOK, Placed, Settled, Pending, Requests
<1>12. /\ outcome' \in [Ios -> Results] /\ outcome'[p.io] = Timeout /\ outcome'[p.io] # Started
       /\ \A o \in Ios \ {p.io} : outcome'[o] = outcome[o]
  <2>1. "timeout" \in Outcomes
    BY DEF Outcomes
  <2> QED BY <2>1, <1>2, <1>11, Completes
<1>13. TimedOut(p.io)' /\ ~NothingAbandoned'
  <2>1. TimedOut(p.io)'
    BY <1>11, <1>12, AbandonedNext
  <2> QED BY <2>1, <1>11 DEF NothingAbandoned
<1>14. /\ Mail' /\ PagesFit' /\ PagesBounded' /\ PagesInMessages' /\ freePages' \in 0..PageCount
       /\ MailTypes' /\ InFlight' = InFlight
  <2>1. freePages' \in Nat /\ freePages' + Taken' = freePages + Taken
    BY <1>2, <1>8, <1>9, PageFacts, NotSending, NotSendingNext
  <2> QED BY <2>1, <1>2, <1>13, MailUntouched
<1>15. Placed' /\ Limited'
  <2>1. Visited(s) \cap newerRequests' = {} /\ BusyIos(s) \subseteq Busy
    BY <1>2, <1>8, <1>10 DEF IInv, Placed
  <2> QED BY <2>1, <1>2, <1>9, PlacedKept
<1>16. \A q \in Pending : q # p => q.io \in Ios \ {p.io}
  BY <1>10 DEF IInv, TypeOK, Placed, Pending, Requests
<1>17. Settled'
  <2>1. BusyIos(s) \subseteq Busy /\ Busy \subseteq BusyIos(s) \cup {p.io} /\ p.io \notin BusyIos(s)
    BY <1>8
  <2>2. /\ \A q \in Pending' \ Visited(s) : q.io # p.io /\ q \notin Visiting
        /\ \A q \in Visited(s) : q \in Visiting \/ q.io = p.io
    BY <1>9, <1>10, <1>16
  <2>3. ASSUME NEW q \in Visited(s), q \in Pending' PROVE outcome'[q.io] = Timeout
    <3>1. CASE q = p
      BY <3>1, <1>12
    <3>2. CASE q # p
      <4>1. q \in Visiting /\ q \in Pending /\ q.io \in Ios \ {p.io}
        BY <3>2, <2>3, <1>9, <1>10, <1>16
      <4>2. outcome[q.io] = Timeout
        BY <4>1 DEF IInv, Settled
      <4> QED BY <4>1, <4>2, <1>12
    <3> QED BY <3>1, <3>2
  <2> QED BY <2>1, <2>2, <2>3, <1>9, <1>11, <1>12, SettledCompleted
<1>18. Serials' /\ IdsFit'
  BY <1>2, <1>8, <1>9, <1>14, IdsKept
<1>19. Expected'
  <2>1. BusyIos(s) \subseteq Busy
    BY <1>8
  <2> QED BY <2>1, <1>9, <1>13, <1>14, ExpectedKept
<1>20. Aged' /\ Timed'
  <2>1. checks[p.io] = 2
    BY <1>8 DEF IInv, Aged, Seen
  <2>2. \A io \in Ios : TimedOut(io)' => checks[io] = 2
    <3> SUFFICES ASSUME NEW io \in Ios, TimedOut(io)' PROVE checks[io] = 2
      OBVIOUS
    <3>1. CASE io = p.io
      BY <3>1, <2>1
    <3>2. CASE io # p.io
      <4>1. TimedOut(io)
        BY <3>2, <1>12 DEF TimedOut
      <4> QED BY <4>1 DEF IInv, Aged
    <3> QED BY <3>1, <3>2
  <2> QED BY <2>2, <1>2, <1>9, TimedKept
<1>21. TypeOK'
  <2>1. WorkerTypes'
    BY <1>2, <1>9, <1>12 DEF IInv, TypeOK, WorkerTypes, Follows
  <2> QED BY <2>1, <1>9, <1>14, TypesAfter
<1> QED BY <1>9, <1>14, <1>15, <1>17, <1>18, <1>19, <1>20, <1>21 DEF IInv

LEMMA Swapped == ASSUME IInv, SwapRequests PROVE IInv'
<1>1. /\ calls # <<>> /\ Top.when = "abandon" /\ olderRequests \subseteq Top.visited /\ calls' = Callers
      /\ olderRequests' = newerRequests /\ newerRequests' = {}
      /\ timeoutCheckScheduled' = (timeoutCheckScheduled \/ newerRequests # {})
      /\ UNCHANGED <<lastRequestId, error_, ios, outcome, serial, checks>>
      /\ UNCHANGED <<toDisker, toWorker, hand, answered, died, freePages>>
  BY DEF SwapRequests, Abandoning, Return, history, disker
<1>2. Stack /\ Placed /\ Settled /\ Aged /\ TypeOK /\ ios \in Nat /\ ~InPush(Top) /\ Top.when # "send"
  BY <1>1, SizesAssumption DEF IInv, TypeOK, InPush
<1>3. PICK s : s = Callers
  OBVIOUS
<1>4. /\ GoodStack(s, ios) /\ NoSend(s) /\ PushIos(s) = {} /\ BusyIos(s) = {} /\ ~Checking(s) /\ Visited(s) = {}
  BY <1>1, <1>2, <1>3, StackShrinks
<1>5. Waiting = {} /\ Busy = {} /\ ~Sending /\ InCheck /\ Visiting = Top.visited
  <2>1. Top = calls[1] /\ Waiting = {} /\ Busy = {} /\ ~Sending
    BY <1>1, <1>2, TopFacts
  <2> QED BY <2>1, <1>1 DEF InCheck, Checking, Visiting, Visited
<1>6. Follows(s) /\ ~Sending' /\ Stack' /\ ~InCheck' /\ Visiting' = {} /\ Busy' = {} /\ ios' = ios
  <2>1. Follows(s) /\ ios' = ios /\ New = {}
    BY <1>1, <1>2, <1>3, <1>4, Stays DEF New
  <2> QED BY <2>1, <1>4 DEF Follows
<1>7. olderRequests \subseteq Visiting /\ Pending' = newerRequests /\ Pending' \subseteq Pending
  BY <1>1, <1>5 DEF Pending
<1>8. /\ NothingAbandoned' <=> NothingAbandoned
      /\ \A io \in Ios : TimedOut(io)' <=> TimedOut(io)
  BY <1>1 DEF NothingAbandoned, TimedOut
<1>9. /\ Mail' /\ PagesFit' /\ PagesBounded' /\ PagesInMessages' /\ freePages' \in 0..PageCount
      /\ MailTypes' /\ InFlight' = InFlight
  <2>1. freePages' \in Nat /\ freePages' + Taken' = freePages + Taken
    BY <1>1, <1>5, <1>6, PageFacts, NotSending, NotSendingNext
  <2> QED BY <2>1, <1>1, <1>8, MailUntouched
<1>10. Placed'
  <2>1. \A p \in Pending' : p.io \in (1..ios') \ Busy'
    BY <1>2, <1>6, <1>7 DEF Placed
  <2> QED BY <2>1, <1>1, <1>2, <1>6, <1>7 DEF Placed
<1>11. Limited'
  <2>1. PICK A, B : A = olderRequests /\ B = newerRequests
    OBVIOUS
  <2>2. IsFiniteSet(A) /\ IsFiniteSet(B) /\ Cardinality(A) + Cardinality(B) <= QueueCapacity
    BY <2>1 DEF IInv, Limited, pendingRequests
  <2>3. IsFiniteSet({}) /\ Cardinality({}) = 0
    BY FS_EmptySet
  <2>4. Cardinality(A) \in Nat /\ Cardinality(B) \in Nat /\ QueueCapacity \in Nat
    BY <2>2, FS_CardinalityType, SizesAssumption
  <2>5. Cardinality(B) + Cardinality({}) <= QueueCapacity
    BY <2>2, <2>3, <2>4
  <2>6. olderRequests' = B /\ newerRequests' = {}
    BY <2>1, <1>1
  <2> QED BY <2>2, <2>3, <2>5, <2>6 DEF Limited, pendingRequests
<1>12. Settled'
  <2>1. \A p \in Pending' : p \in Pending \ Visiting
    BY <1>2, <1>7 DEF Placed
  <2>2. \A p \in Pending' : outcome[p.io] = Started
    BY <2>1, <1>2 DEF Settled
  <2>3. \A p \in Visiting : outcome[p.io] # Started
    BY <1>2 DEF Settled
  <2>4. ASSUME NEW io \in 1..ios, outcome[io] = Started PROVE \E p \in Pending' : p.io = io
    <3>1. PICK p \in Pending : p.io = io
      BY <2>4, <1>2, <1>5 DEF Settled
    <3>2. p \in newerRequests
      BY <3>1, <2>3, <2>4, <1>7 DEF Pending
    <3> QED BY <3>1, <3>2, <1>7
  <2> QED BY <2>2, <2>4, <1>1, <1>2, <1>6 DEF Settled
<1>13. Serials' /\ IdsFit'
  BY <1>1, <1>4, <1>5, <1>6, <1>7, <1>9, IdsKept
<1>14. Expected'
  <2>1. ASSUME NEW p \in Pending, p \notin Pending' PROVE ~NothingAbandoned'
    <3>1. p \in Visiting
      BY <2>1, <1>7 DEF Pending
    <3>2. outcome[p.io] = Timeout /\ p.io \in Ios
      BY <3>1, <1>2 DEF Settled
    <3>3. TimedOut(p.io)
      BY <3>2, <1>2, AbandonedFacts
    <3> QED BY <3>2, <3>3, <1>8 DEF NothingAbandoned
  <2>2. BusyIos(s) \subseteq Busy
    BY <1>4
  <2> QED BY <2>1, <2>2, <1>6, <1>7, <1>8, <1>9, ExpectedKept
<1>15. Aged' /\ Timed'
  <2>1. Seen = 1 /\ Seen' = 0
    BY <1>5, <1>6 DEF Seen
  <2>2. Aged'
    BY <2>1, <1>1, <1>2, <1>8 DEF Aged
  <2>3. Timed'
    BY <1>1, <1>7 DEF Timed
  <2> QED BY <2>2, <2>3
<1>16. TypeOK'
  <2>1. timeoutCheckScheduled' \in BOOLEAN
    BY <1>1
  <2>2. WorkerTypes'
    BY <2>1, <1>1, OutcomeType DEF IInv, TypeOK, WorkerTypes
  <2> QED BY <2>2, <1>6, <1>9, TypesAfter
<1> QED BY <1>6, <1>9, <1>10, <1>11, <1>12, <1>13, <1>14, <1>15, <1>16 DEF IInv

----------------------------------------------------------------------------
(* The invariant *)

LEMMA IInvInit == Init => IInv
<1> SUFFICES ASSUME Init PROVE IInv
  OBVIOUS
<1>1. /\ lastRequestId = 0 /\ olderRequests = {} /\ newerRequests = {} /\ calls = <<>> /\ ios = 0
      /\ outcome = [io \in Ios |-> <<>>] /\ serial = [io \in Ios |-> 0] /\ checks = [io \in Ios |-> 0]
      /\ toDisker = <<>> /\ toWorker = <<>> /\ hand = NoMessage /\ freePages = PageCount
  BY DEF Init
<1>2. Pending = {} /\ Waiting = {} /\ Busy = {} /\ Visiting = {} /\ ~InCheck /\ ~Sending
  BY <1>1, EmptyStack DEF Pending
<1>3. SeqMessages(<<>>) = {} /\ Held = {} /\ InFlight = {}
  <2>1. SeqMessages(<<>>) = {}
    BY DEF SeqMessages
  <2> QED BY <2>1, <1>1 DEF Held, InFlight
<1>4. TypeOK
  <2>1. \A io \in Ios : outcome[io] \in Seq(Outcomes)
    BY <1>1
  <2>2. outcome \in [Ios -> Seq(Outcomes)] /\ serial \in [Ios -> 0..MaxIos] /\ checks \in [Ios -> 0..2]
    BY <2>1, <1>1, SizesAssumption
  <2>3. /\ 0 \in 0..MaxIos /\ 0 \in 0..IdMax /\ PageCount \in 0..PageCount
        /\ QueueCapacity \in Nat \ {0} /\ MaxDepth \in Nat \ {0}
    BY SizesAssumption
  <2>4. timeoutCheckScheduled \in BOOLEAN /\ error_ \in BOOLEAN /\ answered \in BOOLEAN /\ died \in BOOLEAN
    BY DEF Init
  <2>5. /\ toDisker \in Seq(Messages) /\ Len(toDisker) <= QueueCapacity
        /\ toWorker \in Seq(Messages) /\ Len(toWorker) <= QueueCapacity
        /\ Len(calls) <= MaxDepth /\ DOMAIN calls = {}
    BY <2>3, <1>1
  <2> QED BY <2>2, <2>3, <2>4, <2>5, <1>1 DEF TypeOK, Outcomes
<1>5. Stack
  BY <1>1, SizesAssumption DEF Stack, GoodStack
<1>6. Limited
  <2>1. IsFiniteSet({}) /\ Cardinality({}) = 0
    BY FS_EmptySet
  <2> QED BY <2>1, <1>1, SizesAssumption DEF Limited, pendingRequests
<1>7. Placed /\ IdsFit /\ Expected
  BY <1>1, <1>2, <1>3 DEF Placed, IdsFit, Expected
<1>8. Serials
  <2>1. Numbered = {}
    BY <1>1 DEF Numbered
  <2>2. issued = 0
    BY <1>1, <1>2, FS_EmptySet DEF issued
  <2> QED BY <2>1, <2>2, <1>2 DEF Serials
<1>9. Settled
  <2>1. \A io \in Ios : outcome[io] = Started
    BY <1>1 DEF Started
  <2>2. Started \in Results
    BY DEF Results
  <2> QED BY <2>1, <2>2, <1>1, <1>2 DEF Settled, Ios
<1>10. Mail /\ PagesFit
  BY <1>1, <1>3 DEF Mail, PagesFit, Distinct, Apart
<1>11. PagesBounded /\ PagesInMessages
  <2>1. Paged = {} /\ Cardinality({}) = 0 /\ Taken = 0
    BY <1>2, <1>3, FS_EmptySet, NotSending DEF Paged
  <2>2. freePages + Taken + Cardinality(Paged) = PageCount
    BY <2>1, <1>1, SizesAssumption
  <2>3. PagesBounded
    BY <2>2, SizesAssumption DEF PagesBounded
  <2> QED BY <2>2, <2>3 DEF PagesInMessages, Paged, Taken
<1>12. Aged /\ Timed
  <2>1. \A io \in Ios : ~TimedOut(io)
    BY <1>1 DEF TimedOut
  <2> QED BY <2>1, <1>1, <1>2 DEF Aged, Timed
<1> QED BY <1>4, <1>5, <1>6, <1>7, <1>8, <1>9, <1>10, <1>11, <1>12 DEF IInv

LEMMA IInvStutters == ASSUME IInv, UNCHANGED vars PROVE IInv'
<1>1. /\ UNCHANGED <<requests, error_, outcome, serial, checks, toDisker, toWorker, disker, freePages>>
      /\ UNCHANGED <<calls, ios>>
  BY DEF vars, history
<1>2. /\ Follows(calls) /\ Waiting = PushIos(calls) /\ Busy = BusyIos(calls)
      /\ Visiting = Visited(calls) /\ InCheck = Checking(calls)
      /\ (Sending' <=> Sending) /\ Top' = Top /\ Taken' = Taken
  BY <1>1, SameStack
<1> QED BY <1>1, <1>2, QuietStep

LEMMA IInvNext == ASSUME IInv, [Next]_vars PROVE IInv'
<1>1. CASE StartIoFromLoop BY <1>1, StartFromLoop
<1>2. CASE HandleNotification BY <1>2, Notified
<1>3. CASE CheckTimeouts BY <1>3, TimerFired
<1>4. CASE HandleResponse BY <1>4, Responded
<1>5. CASE HandleLateResponse BY <1>5, LateResponse
<1>6. CASE NotificationHandled BY <1>6, NotifiedDone
<1>7. CASE PrepareRequest BY <1>7, Prepared
<1>8. CASE PushWithoutPage BY <1>8, RefusedWithoutPage
<1>9. CASE PushFull BY <1>9, RefusedFull
<1>10. CASE PushRequest BY <1>10, RequestPushed
<1>11. CASE StartAbandoning BY <1>11, StartToAbandon
<1>12. CASE AbandonOlder BY <1>12, OlderAbandoned
<1>13. CASE SwapRequests BY <1>13, Swapped
<1>14. CASE DiskerPop BY <1>14, Popped
<1>15. CASE diskerRead BY <1>15, ReadDone
<1>16. CASE diskerWrite BY <1>16, WriteDone
<1>17. CASE DiskerPush BY <1>17, Pushed
<1>18. CASE DiskerPushFull BY <1>18, PushFailed
<1>19. CASE DiskerDies BY <1>19, Died
<1>20. CASE UNCHANGED vars BY <1>20, IInvStutters
<1> QED BY <1>1, <1>2, <1>3, <1>4, <1>5, <1>6, <1>7, <1>8, <1>9, <1>10, <1>11, <1>12, <1>13, <1>14,
           <1>15, <1>16, <1>17, <1>18, <1>19, <1>20 DEF Next, WorkerStep, DiskerStep

\* The requests, the call stack, the messages and the pages of IpcIoFile fit
\* together in every state of every behaviour.
THEOREM InductiveInvariant == Spec => []IInv
BY IInvInit, IInvNext, PTL DEF Spec

----------------------------------------------------------------------------
(* What follows from it *)

\* The variables keep their types: the queues never hold more than their
\* capacity, the stack of handlers stays within the bound that is given to
\* it, and the number of free pages is never negative.
THEOREM TypeCorrect == Spec => []TypeOK
<1>1. IInv => TypeOK
  BY DEF IInv
<1> QED BY <1>1, InductiveInvariant, PTL

LEMMA OnePlacePerIo == IInv => IosAccounted
<1> SUFFICES ASSUME IInv, NEW io \in 1..ios
             PROVE  /\ outcome[io] \in {<<>>, <<"refused">>, <<"response">>, <<"timeout">>, <<"timeout", "response">>}
                    /\ (IF outcome[io] = <<>> THEN 0 ELSE 1)
                         + Cardinality({pending \in olderRequests \ Abandoned : pending.io = io})
                         + Cardinality({pending \in newerRequests : pending.io = io})
                         + Cardinality({i \in DOMAIN calls : calls[i].when \in {"push", "send"} /\ calls[i].io = io}) = 1
  BY DEF IosAccounted
<1>1. PICK O, N, W, V, d : /\ O = {pending \in olderRequests \ Abandoned : pending.io = io}
                           /\ N = {pending \in newerRequests : pending.io = io}
                           /\ W = {i \in DOMAIN calls : calls[i].when \in {"push", "send"} /\ calls[i].io = io}
                           /\ V = Visiting /\ d = (IF outcome[io] = Started THEN 0 ELSE 1)
  OBVIOUS
<1>2. Stack /\ Placed /\ Settled /\ io \in Ios
  <2>1. ios \in 0..MaxIos /\ MaxIos \in Nat
    BY SizesAssumption DEF IInv, TypeOK
  <2> QED BY <2>1 DEF IInv, Ios
<1> SUFFICES d + Cardinality(O) + Cardinality(N) + Cardinality(W) = 1
  <2>1. outcome[io] \in Results
    BY <1>2 DEF Settled
  <2>2. Results = {<<>>, <<"refused">>, <<"response">>, <<"timeout">>, <<"timeout", "response">>} /\ Started = <<>>
    BY DEF Results, Started, Timeout, Twice
  <2> QED BY <2>1, <2>2, <1>1, Zenon
<1>3. Abandoned = V
  BY <1>1, <1>2, OutermostOnly
<1>4. DOMAIN calls = 1..Len(calls)
  BY <1>2 DEF Stack, GoodStack
<1>5. Cardinality({}) = 0 /\ \A x : Cardinality({x}) = 1
  BY FS_EmptySet, FS_Singleton
<1>6. \A p \in O \cup N : p \in Pending \ V /\ p.io = io
  BY <1>1, <1>2, <1>3 DEF Pending, Placed
<1>7. \A p \in Pending \ V : p.io = io => p \in O \/ p \in N
  BY <1>1, <1>3 DEF Pending
<1>8. CASE io \in Busy
  <2>1. d = 0 /\ O = {} /\ N = {}
    BY <1>1, <1>2, <1>6, <1>8 DEF Placed, Settled
  <2>2. PICK i \in 1..Len(calls) : InPush(calls[i]) /\ calls[i].io = io
    BY <1>4, <1>8 DEF Busy, BusyIos
  <2>3. W = {i}
    <3>1. \A j \in W : j \in 1..Len(calls) /\ InPush(calls[j]) /\ calls[j].io = io
      BY <1>1, <1>4 DEF InPush
    <3>2. \A j \in W : j = i
      BY <3>1, <2>2, <1>2 DEF Stack, GoodStack
    <3>3. i \in W
      BY <2>2, <1>1, <1>4 DEF InPush
    <3> QED BY <3>2, <3>3
  <2>4. Cardinality(O) = 0 /\ Cardinality(N) = 0 /\ Cardinality(W) = 1
    BY <2>1, <2>3, <1>5
  <2> QED BY <2>1, <2>4
<1>9. CASE io \notin Busy
  <2>1. W = {}
    BY <1>1, <1>4, <1>9 DEF Busy, BusyIos, InPush
  <2>2. CASE \E p \in Pending \ V : p.io = io
    <3>1. PICK p \in Pending \ V : p.io = io
      BY <2>2
    <3>2. d = 0
      BY <3>1, <1>1, <1>2 DEF Settled
    <3>3. \A q \in O \cup N : q = p
      BY <3>1, <1>2, <1>6 DEF Placed
    <3>4. O \cap N = {}
      BY <1>1, <1>2 DEF Placed
    <3>5. (O = {p} /\ N = {}) \/ (O = {} /\ N = {p})
      BY <3>1, <3>3, <3>4, <1>7
    <3>6. Cardinality(W) = 0 /\ (\/ Cardinality(O) = 1 /\ Cardinality(N) = 0
                                 \/ Cardinality(O) = 0 /\ Cardinality(N) = 1)
      BY <3>5, <2>1, <1>5
    <3> QED BY <3>2, <3>6
  <2>3. CASE ~\E p \in Pending \ V : p.io = io
    <3>1. O = {} /\ N = {}
      BY <2>3, <1>6
    <3>2. outcome[io] # Started
      <4>1. ASSUME outcome[io] = Started PROVE FALSE
        <5>1. PICK p \in Pending : p.io = io
          BY <4>1, <1>2, <1>9 DEF Settled
        <5>2. p \in V
          BY <5>1, <2>3
        <5>3. outcome[p.io] # Started
          BY <5>2, <1>1, <1>2 DEF Settled
        <5> QED BY <5>1, <5>3, <4>1
      <4> QED BY <4>1
    <3>3. d = 1
      BY <3>2, <1>1
    <3>4. Cardinality(O) = 0 /\ Cardinality(N) = 0 /\ Cardinality(W) = 0
      BY <3>1, <2>1, <1>5
    <3> QED BY <3>3, <3>4
  <2> QED BY <2>2, <2>3
<1> QED BY <1>8, <1>9

\* Every read() and write() is in push(), pending, or completed, whatever the
\* disker does and wherever I/Os are started from; only an abandoned one can be
\* completed again.
THEOREM EveryIoAccounted == Spec => []IosAccounted
BY OnePlacePerIo, InductiveInvariant, PTL

\* A response that has not been under way for a whole cycle of IDs only matches
\* the request that it answers, although the code compares nothing but IDs that
\* wrap around.
THEOREM ResponsesMatch == Spec => []AnswersMatch
<1>1. IInv => AnswersMatch
  <2> SUFFICES ASSUME IInv PROVE AnswersMatch
    OBVIOUS
  <2>1. \A m \in InFlight : m.requestId # 0
    BY SizesAssumption DEF IInv, IdsFit
  <2> QED BY <2>1, Matching DEF AnswersMatch, Pending
<1> QED BY <1>1, InductiveInvariant, PTL

\* No pending request is left without a scheduled timeout check when the
\* worker is back in its event loop.
THEOREM TimerStaysArmed == Spec => []TimerArmed
<1>1. IInv => TimerArmed
  <2> SUFFICES ASSUME IInv, calls = <<>>, pendingRequests > 0 PROVE timeoutCheckScheduled
    BY DEF TimerArmed
  <2>1. ~InCheck
    BY EmptyStack
  <2>2. CASE Pending # {}
    BY <2>1, <2>2 DEF IInv, Timed
  <2>3. CASE Pending = {}
    <3>1. olderRequests = {} /\ newerRequests = {}
      BY <2>3 DEF Pending
    <3> QED BY <3>1, FS_EmptySet DEF pendingRequests
  <2> QED BY <2>2, <2>3
<1> QED BY <1>1, InductiveInvariant, PTL

\* checkTimeouts() only abandons a request that has been pending since before
\* the previous check.
THEOREM TimeoutsWait == Spec => []AbandonedAfterTimeout
<1>1. IInv => AbandonedAfterTimeout
  <2> SUFFICES ASSUME IInv, NEW io \in 1..ios, TimedOut(io) PROVE checks[io] = 2
    BY DEF AbandonedAfterTimeout
  <2>1. ios \in 0..MaxIos /\ MaxIos \in Nat
    BY SizesAssumption DEF IInv, TypeOK
  <2>2. io \in Ios
    BY <2>1 DEF Ios
  <2> QED BY <2>2 DEF IInv, Aged
<1> QED BY <1>1, InductiveInvariant, PTL

\* Until a request is abandoned or a disker dies, every I/O page is free, in
\* exactly one message, or about to be put into one.
THEOREM PagesNotLost == Spec => []PagesInMessages
<1>1. IInv => PagesInMessages
  BY DEF IInv
<1> QED BY <1>1, InductiveInvariant, PTL
=============================================================================
