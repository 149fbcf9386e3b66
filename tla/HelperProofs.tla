---------------------------- MODULE HelperProofs ----------------------------
(***************************************************************************)
(* What holds of a pool of helpers whatever its size, its limits and the   *)
(* number of requests: proofs of the invariants of Helper.                 *)
(***************************************************************************)
EXTENDS Helper, FiniteSetTheorems, SequenceTheorems, WellFoundedInduction, TLAPS

-----------------------------------------------------------------------------
(* The inductive invariant *)

Answers == {"own", "other", "Error", "TimedOut", "Unknown"}

Pool == [queue : Seq(Xaction), servers : Seq(Server), nActive : Int,
         overloadStart : BOOLEAN, started : 0..MaxServers,
         answers : [Requests -> Seq(Answers)], leaked : SUBSET Requests, crashed : BOOLEAN]

\* The requests in a queue, and that it has each once.
Reqs(q) == {q[k].req : k \in DOMAIN q}
Distinct(q) == \A a, b \in DOMAIN q : q[a].req = q[b].req => a = b

\* The requests that a server has to answer.
Load(srv) == Reqs(srv.requests) \cup (IF srv.replyXaction = Nil THEN {} ELSE {srv.replyXaction.req})

\* The lemmas about the steps of a call are about states in the middle of it.
\* Their context c tells what differs from the states between two calls:
\*   c.sub    the requests submitted
\*   c.extra  the server whose pending still counts a request taken out, or 0
\*   c.busy   the server whose reply is handled, or 0
\*   c.msg    what of the next reply it has read by the end of the call
\*   c.whole  whether every number was read as a whole

Counted(srv, k, c) ==
  /\ srv.pending = Len(srv.requests) + (IF srv.replyXaction = Nil THEN 0 ELSE 1)
                                     + (IF k = c.extra THEN 1 ELSE 0)
  /\ srv.pending <= Concurrency

\* A request is in one place.
Own(srv) ==
  /\ Distinct(srv.requests)
  /\ srv.replyXaction # Nil => srv.replyXaction.req \notin Reqs(srv.requests)

\* The number of what was sent tells which request it was.
Known(srv, x) ==
  /\ x.id <= srv.nextRequestId
  /\ \A a \in DOMAIN srv.requests : srv.requests[a].id = x.id => srv.requests[a] = x
Numbered(srv) ==
  /\ \A a \in DOMAIN srv.requests : srv.requests[a].id <= srv.nextRequestId
  /\ \A a, b \in DOMAIN srv.requests : srv.requests[a].id = srv.requests[b].id => a = b
  /\ \A x \in srv.inbox : Known(srv, x)
  /\ srv.msg # Nil => Known(srv, srv.msg.x)

\* Between two reads, a request that is being answered and a reply that is
\* being skipped have been read in part.
Talks(srv, k, c) ==
  IF k = c.busy THEN srv.replyXaction = Nil /\ (srv.closing \/ srv.msg = c.msg)
  ELSE \/ srv.closing
       \/ /\ srv.ignoreToEom => srv.msg # Nil
          /\ srv.replyXaction # Nil => srv.msg # Nil
          /\ srv.replyXaction # Nil /\ c.whole = TRUE => srv.msg.x = srv.replyXaction

Local(srv, k, c) == Counted(srv, k, c) /\ Own(srv) /\ Numbered(srv) /\ Talks(srv, k, c)

Live(s) == {k \in DOMAIN s.servers : ~s.servers[k].shutdown}

Apart(s) ==
  /\ Distinct(s.queue)
  /\ \A k \in DOMAIN s.servers : Reqs(s.queue) \cap Load(s.servers[k]) = {}
  /\ \A k, l \in DOMAIN s.servers : k # l => Load(s.servers[k]) \cap Load(s.servers[l]) = {}

Held(s, r) == r \in Reqs(s.queue) \/ \E k \in DOMAIN s.servers : r \in Load(s.servers[k])

\* A request that has been submitted, is in no place and was not called back.
InHand(s, r, c) == r \in c.sub /\ ~Held(s, r) /\ s.answers[r] = <<>>

Once(s, c) ==
  \A r \in Requests :
    /\ Len(s.answers[r]) <= 1
    /\ c.whole = TRUE => s.answers[r] # <<"other">>
    /\ s.answers[r] # <<>> => r \in c.sub /\ ~Held(s, r)
    /\ Held(s, r) => r \in c.sub

Sound(s, c) ==
  /\ s \in Pool
  /\ \A k \in DOMAIN s.servers : Local(s.servers[k], k, c)
  /\ Apart(s)
  /\ Once(s, c)
  /\ s.leaked \subseteq c.sub

Good(s, c) == Sound(s, c) /\ s.nActive = Cardinality(Live(s))

\* Between two calls.
Rest(sub, whole) == [sub |-> sub, extra |-> 0, busy |-> 0, msg |-> Nil, whole |-> whole]

HInv(whole) ==
  /\ Good(hlp, Rest(submitted, whole))
  /\ gone \subseteq submitted /\ submitted \subseteq Requests
  /\ reconfiguring \in BOOLEAN
  /\ exits \in 0..MaxExits /\ reconfigures \in 0..MaxReconfigures

\* No read ended within the number of a reply.
NumbersWhole == \A k \in DOMAIN hlp.servers : hlp.servers[k].msg # Nil => hlp.servers[k].msg.part # "id"

-----------------------------------------------------------------------------
(* Queues of requests *)

\* The limits of the pool.
LEMMA Limits ==
  /\ NStartup \in Nat /\ NIdle \in Nat /\ QueueSize \in Nat /\ MAX_RETRIES \in Nat
  /\ MaxExits \in Nat /\ MaxReconfigures \in Nat /\ NMax \in Nat /\ Concurrency \in Nat
  /\ MaxServers \in Nat /\ NStartup <= MaxServers /\ Concurrency >= 1 /\ Nil \notin Xaction /\ Nil \notin Message
BY HelperAssumption, NilAssumption

\* The types of a transaction.
LEMMA XactionIs ==
  ASSUME NEW x \in Xaction
  PROVE  x.req \in Requests /\ x.retries \in 0..MAX_RETRIES /\ x.id \in Nat /\ x # Nil
BY Limits DEF Xaction

\* The end of a queue.
LEMMA Appending ==
  ASSUME NEW q \in Seq(Xaction), NEW x \in Xaction
  PROVE  /\ Append(q, x) \in Seq(Xaction) /\ Len(Append(q, x)) = Len(q) + 1
         /\ Reqs(Append(q, x)) = Reqs(q) \cup {x.req}
         /\ Distinct(q) /\ x.req \notin Reqs(q) => Distinct(Append(q, x))
         /\ \A a \in DOMAIN Append(q, x) : Append(q, x)[a] = x \/ (a \in DOMAIN q /\ Append(q, x)[a] = q[a])
         /\ \A a \in DOMAIN Append(q, x) : a \notin DOMAIN q => a = Len(q) + 1
<1> DEFINE t == Append(q, x)
           n == Len(q)
<1>1. t \in Seq(Xaction) /\ n \in Nat /\ Len(t) = n + 1 /\ t[n + 1] = x /\ \A a \in 1..n : t[a] = q[a]
  OBVIOUS
<1>2. DOMAIN q = 1..n /\ DOMAIN t = 1..(n + 1)
  BY <1>1
<1> HIDE DEF t, n
<1>3. \A a : a \in 1..(n + 1) <=> a \in 1..n \/ a = n + 1
  BY <1>1
<1>4. Reqs(t) = Reqs(q) \cup {x.req}
  BY <1>1, <1>2, <1>3 DEF Reqs
<1>5. ASSUME Distinct(q), x.req \notin Reqs(q) PROVE Distinct(t)
  <2>1. \A a \in DOMAIN q : q[a].req # x.req
    BY <1>5 DEF Reqs
  <2>2. \A a, b \in 1..n : q[a].req = q[b].req => a = b
    BY <1>2, <1>5 DEF Distinct
  <2> SUFFICES ASSUME NEW a \in 1..(n + 1), NEW b \in 1..(n + 1), t[a].req = t[b].req PROVE a = b
    BY <1>2 DEF Distinct
  <2> QED BY <2>1, <2>2, <1>1, <1>2, <1>3
<1> QED BY <1>1, <1>2, <1>3, <1>4, <1>5 DEF t, n

\* The front of a queue.
LEMMA Taking ==
  ASSUME NEW q \in Seq(Xaction), q # <<>>
  PROVE  /\ Tail(q) \in Seq(Xaction) /\ Len(Tail(q)) = Len(q) - 1 /\ Len(q) \in Nat
         /\ Head(q) \in Xaction
         /\ Reqs(q) = {Head(q).req} \cup Reqs(Tail(q))
         /\ Distinct(q) => Distinct(Tail(q)) /\ Head(q).req \notin Reqs(Tail(q))
         /\ \A a \in DOMAIN Tail(q) : a + 1 \in DOMAIN q /\ Tail(q)[a] = q[a + 1]
<1> DEFINE t == Tail(q)
           n == Len(q)
           h == Head(q)
<1>1. /\ t \in Seq(Xaction) /\ n \in Nat /\ n >= 1 /\ Len(t) = n - 1
      /\ h = q[1] /\ h \in Xaction /\ \A i \in 1..(n - 1) : t[i] = q[i + 1]
  OBVIOUS
<1>2. DOMAIN q = 1..n /\ DOMAIN t = 1..(n - 1)
  BY <1>1
<1> HIDE DEF t, n, h
<1>3. \A a \in 1..(n - 1) : a + 1 \in 1..n /\ a + 1 # 1
  BY <1>1
<1>4. \A a \in 1..n : a = 1 \/ (a - 1 \in 1..(n - 1) /\ t[a - 1] = q[a])
  <2> SUFFICES ASSUME NEW a \in 1..n, a # 1 PROVE a - 1 \in 1..(n - 1) /\ t[a - 1] = q[a]
    OBVIOUS
  <2>1. a - 1 \in 1..(n - 1) /\ (a - 1) + 1 = a
    BY <1>1
  <2>2. t[a - 1] = q[(a - 1) + 1]
    BY <2>1, <1>1
  <2> QED BY <2>1, <2>2
<1>5. 1 \in 1..n
  BY <1>1
<1>6. Reqs(q) = {h.req} \cup Reqs(t)
  <2>1. \A a \in 1..n : q[a].req = h.req \/ q[a].req \in Reqs(t)
    BY <1>1, <1>2, <1>4 DEF Reqs
  <2>2. h.req \in Reqs(q)
    BY <1>1, <1>2, <1>5 DEF Reqs
  <2>3. \A a \in 1..(n - 1) : t[a].req \in Reqs(q)
    BY <1>1, <1>2, <1>3 DEF Reqs
  <2> QED BY <2>1, <2>2, <2>3, <1>2 DEF Reqs
<1>7. ASSUME Distinct(q) PROVE Distinct(t) /\ h.req \notin Reqs(t)
  <2>1. \A a, b \in 1..n : q[a].req = q[b].req => a = b
    BY <1>2, <1>7 DEF Distinct
  <2>2. ASSUME NEW a \in 1..(n - 1), NEW b \in 1..(n - 1), t[a].req = t[b].req PROVE a = b
    <3>1. t[a] = q[a + 1] /\ t[b] = q[b + 1] /\ a + 1 \in 1..n /\ b + 1 \in 1..n
      BY <1>1, <1>3
    <3>2. a + 1 = b + 1
      BY <2>1, <2>2, <3>1
    <3> QED BY <3>2
  <2>3. ASSUME NEW a \in 1..(n - 1), t[a].req = h.req PROVE FALSE
    BY <2>1, <2>3, <1>1, <1>3, <1>5
  <2> QED BY <2>2, <2>3, <1>2 DEF Distinct, Reqs
<1> QED BY <1>1, <1>2, <1>3, <1>6, <1>7 DEF t, n, h

\* Taking an element out of a sequence.
LEMMA Removing ==
  ASSUME NEW S, NEW q \in Seq(S), NEW i \in DOMAIN q
  PROVE  /\ RemoveAt(q, i) \in Seq(S) /\ Len(RemoveAt(q, i)) = Len(q) - 1 /\ Len(q) \in Nat
         /\ DOMAIN RemoveAt(q, i) = 1..(Len(q) - 1) /\ DOMAIN q = 1..Len(q)
         /\ \A a \in 1..(Len(q) - 1) : RemoveAt(q, i)[a] = q[IF a < i THEN a ELSE a + 1]
<1> DEFINE n == Len(q)
           l == SubSeq(q, 1, i - 1)
           r == SubSeq(q, i + 1, n)
<1>1. n \in Nat /\ DOMAIN q = 1..n /\ i \in 1..n
  OBVIOUS
<1>2. l \in Seq(S) /\ Len(l) = i - 1 /\ \A a \in 1..(i - 1) : l[a] = q[a]
  BY <1>1
<1>3. r \in Seq(S) /\ Len(r) = n - i /\ \A a \in 1..(n - i) : r[a] = q[a + i]
  <2>1. r \in Seq(S)
    BY <1>1
  <2>2. Len(r) = n - i
    BY <1>1
  <2>3. \A a \in 1..(n - i) : r[a] = q[(i + 1) + a - 1] /\ (i + 1) + a - 1 = a + i
    BY <1>1
  <2> QED BY <2>1, <2>2, <2>3
<1>4. RemoveAt(q, i) = l \o r
  BY DEF RemoveAt
<1> HIDE DEF n, l, r
<1>5. l \o r \in Seq(S) /\ Len(l \o r) = n - 1 /\ DOMAIN (l \o r) = 1..(n - 1)
  <2>1. l \o r \in Seq(S) /\ Len(l \o r) = Len(l) + Len(r)
    BY <1>2, <1>3, ConcatProperties
  <2>2. Len(l) + Len(r) = n - 1
    BY <1>1, <1>2, <1>3
  <2> QED BY <2>1, <2>2
<1>6. \A a \in 1..(n - 1) : (l \o r)[a] = IF a <= i - 1 THEN l[a] ELSE r[a - (i - 1)]
  BY <1>2, <1>3, <1>5, ConcatProperties
<1>7. ASSUME NEW a \in 1..(n - 1) PROVE (l \o r)[a] = q[IF a < i THEN a ELSE a + 1]
  <2>1. CASE a < i
    <3>1. a <= i - 1 /\ a \in 1..(i - 1)
      BY <2>1, <1>1
    <3> QED BY <2>1, <3>1, <1>2, <1>6
  <2>2. CASE ~(a < i)
    <3>1. ~(a <= i - 1) /\ a - (i - 1) \in 1..(n - i) /\ (a - (i - 1)) + i = a + 1
      BY <2>2, <1>1
    <3>2. r[a - (i - 1)] = q[(a - (i - 1)) + i]
      BY <3>1, <1>3
    <3> QED BY <2>2, <3>1, <3>2, <1>6
  <2> QED BY <2>1, <2>2
<1> QED BY <1>1, <1>4, <1>5, <1>7 DEF n

\* Taking a request out of a queue.
LEMMA Plucking ==
  ASSUME NEW q \in Seq(Xaction), NEW i \in DOMAIN q
  PROVE  /\ RemoveAt(q, i) \in Seq(Xaction) /\ Len(RemoveAt(q, i)) = Len(q) - 1 /\ Len(q) \in Nat
         /\ q[i] \in Xaction
         /\ Reqs(RemoveAt(q, i)) \subseteq Reqs(q) /\ q[i].req \in Reqs(q)
         /\ Distinct(q) => Distinct(RemoveAt(q, i)) /\ q[i].req \notin Reqs(RemoveAt(q, i))
         /\ \A a, b \in DOMAIN RemoveAt(q, i) :
              \E d, e \in DOMAIN q : /\ RemoveAt(q, i)[a] = q[d] /\ RemoveAt(q, i)[b] = q[e]
                                     /\ d # i /\ e # i /\ (d = e => a = b)
<1> DEFINE n == Len(q)
           t == RemoveAt(q, i)
           up(a) == IF a < i THEN a ELSE a + 1
<1>1. /\ t \in Seq(Xaction) /\ Len(t) = n - 1 /\ n \in Nat /\ DOMAIN t = 1..(n - 1) /\ DOMAIN q = 1..n
      /\ \A a \in 1..(n - 1) : t[a] = q[up(a)]
  BY Removing
<1>2. q[i] \in Xaction /\ i \in 1..n
  BY <1>1
<1>3. \A a \in 1..(n - 1) : up(a) \in 1..n /\ up(a) # i
  BY <1>1, <1>2
<1>4. \A a, b \in 1..(n - 1) : up(a) = up(b) => a = b
  BY <1>1, <1>2
<1> HIDE DEF n, t, up
<1>6. Reqs(t) \subseteq Reqs(q) /\ q[i].req \in Reqs(q)
  BY <1>1, <1>3 DEF Reqs
<1>7. ASSUME Distinct(q) PROVE Distinct(t) /\ q[i].req \notin Reqs(t)
  <2>1. \A a, b \in 1..n : q[a].req = q[b].req => a = b
    BY <1>1, <1>7 DEF Distinct
  <2>2. \A a, b \in 1..(n - 1) : t[a].req = t[b].req => a = b
    BY <2>1, <1>1, <1>3, <1>4, SMTT(30)
  <2>3. \A a \in 1..(n - 1) : t[a].req # q[i].req
    BY <2>1, <1>1, <1>2, <1>3
  <2> QED BY <2>2, <2>3, <1>1 DEF Distinct, Reqs
<1>8. ASSUME NEW a \in DOMAIN t, NEW b \in DOMAIN t
      PROVE  \E d, e \in DOMAIN q : t[a] = q[d] /\ t[b] = q[e] /\ d # i /\ e # i /\ (d = e => a = b)
  <2>1. a \in 1..(n - 1) /\ b \in 1..(n - 1)
    BY <1>1
  <2>2. up(a) \in DOMAIN q /\ up(b) \in DOMAIN q /\ up(a) # i /\ up(b) # i
    BY <2>1, <1>1, <1>3
  <2>3. t[a] = q[up(a)] /\ t[b] = q[up(b)] /\ (up(a) = up(b) => a = b)
    BY <2>1, <1>1, <1>4
  <2> QED BY <2>2, <2>3
<1>9. /\ RemoveAt(q, i) \in Seq(Xaction) /\ Len(RemoveAt(q, i)) = Len(q) - 1 /\ Len(q) \in Nat
      /\ Reqs(RemoveAt(q, i)) \subseteq Reqs(q)
      /\ Distinct(q) => Distinct(RemoveAt(q, i)) /\ q[i].req \notin Reqs(RemoveAt(q, i))
  BY <1>1, <1>6, <1>7 DEF n, t
<1> QED BY <1>2, <1>6, <1>8, <1>9, Zenon DEF t

\* The requests that stay when one is taken out.
LEMMA PluckedRest ==
  ASSUME NEW q \in Seq(Xaction), NEW i \in DOMAIN q
  PROVE  Reqs(q) \subseteq Reqs(RemoveAt(q, i)) \cup {q[i].req}
<1> DEFINE n == Len(q)
           t == RemoveAt(q, i)
           up(a) == IF a < i THEN a ELSE a + 1
           dn(a) == IF a < i THEN a ELSE a - 1
<1>1. /\ n \in Nat /\ DOMAIN t = 1..(n - 1) /\ DOMAIN q = 1..n
      /\ \A a \in 1..(n - 1) : t[a] = q[up(a)]
  BY Removing
<1>2. i \in 1..n
  BY <1>1
<1>3. \A a \in 1..n : a # i => dn(a) \in 1..(n - 1) /\ up(dn(a)) = a
  BY <1>1, <1>2
<1> HIDE DEF n, t, up, dn
<1>4. \A a \in 1..n : a # i => q[a].req \in Reqs(t)
  BY <1>1, <1>3 DEF Reqs
<1> QED BY <1>1, <1>4 DEF Reqs, t

-----------------------------------------------------------------------------
(* Changes of a pool *)

\* The types of a pool.
LEMMA PoolIs ==
  ASSUME NEW s \in Pool
  PROVE  /\ s.queue \in Seq(Xaction) /\ s.servers \in Seq(Server) /\ s.nActive \in Int
         /\ s.overloadStart \in BOOLEAN /\ s.started \in 0..MaxServers
         /\ s.answers \in [Requests -> Seq(Answers)] /\ s.leaked \in SUBSET Requests /\ s.crashed \in BOOLEAN
         /\ DOMAIN s.servers = 1..Len(s.servers) /\ Len(s.servers) \in Nat
         /\ \A k \in DOMAIN s.servers : s.servers[k] \in Server
BY DEF Pool

\* The types of a server.
LEMMA ServerIs ==
  ASSUME NEW v \in Server
  PROVE  /\ v.requests \in Seq(Xaction) /\ v.pending \in Nat /\ v.timedout \in BOOLEAN
         /\ v.shutdown \in BOOLEAN /\ v.closing \in BOOLEAN /\ v.ignoreToEom \in BOOLEAN
         /\ v.replyXaction \in Xaction \cup {Nil} /\ v.nextRequestId \in Nat
         /\ v.inbox \in SUBSET Xaction /\ v.msg \in Message \cup {Nil}
BY DEF Server

\* What the requests of a pool are.
LEMMA HeldAreRequests ==
  ASSUME NEW s \in Pool, NEW r, Held(s, r)
  PROVE  r \in Requests
<1>1. ASSUME NEW q \in Seq(Xaction), r \in Reqs(q) PROVE r \in Requests
  BY <1>1, XactionIs DEF Reqs
<1>2. CASE r \in Reqs(s.queue)
  BY <1>1, <1>2, PoolIs
<1>3. CASE \E k \in DOMAIN s.servers : r \in Load(s.servers[k])
  <2>1. PICK k \in DOMAIN s.servers : r \in Load(s.servers[k])
    BY <1>3
  <2>2. s.servers[k] \in Server
    BY PoolIs
  <2>3. s.servers[k].requests \in Seq(Xaction) /\ s.servers[k].replyXaction \in Xaction \cup {Nil}
    BY <2>2, ServerIs
  <2> QED BY <1>1, <2>1, <2>3, XactionIs DEF Load
<1> QED BY <1>2, <1>3 DEF Held

\* One server changes: what is good for it is good for the pool.
LEMMA ServerChanges ==
  ASSUME NEW s, NEW c, NEW d, Good(s, c), NEW i \in DOMAIN s.servers, NEW v \in Server, NEW t \in Pool,
         t.queue = s.queue, t.nActive = s.nActive, t.answers = s.answers, t.leaked = s.leaked,
         DOMAIN t.servers = DOMAIN s.servers, t.servers[i] = v,
         \A k \in DOMAIN s.servers \ {i} : t.servers[k] = s.servers[k],
         v.shutdown = s.servers[i].shutdown,
         Local(v, i, d), \A k \in DOMAIN s.servers \ {i} : Local(s.servers[k], k, d),
         d.sub = c.sub, d.whole = c.whole,
         \A r \in Load(v) : r \in Load(s.servers[i]) \/ InHand(s, r, c)
  PROVE  /\ Good(t, d)
         /\ \A r : InHand(s, r, c) /\ r \notin Load(v) => InHand(t, r, d)
         /\ \A r \in Load(s.servers[i]) : r \notin Load(v) => InHand(t, r, d)
<1>1. s \in Pool /\ Apart(s) /\ Once(s, c) /\ s.nActive = Cardinality(Live(s)) /\ s.leaked \subseteq c.sub
  BY DEF Good, Sound
<1>2. \A k \in DOMAIN t.servers : Local(t.servers[k], k, d)
  OBVIOUS
<1>3. Live(t) = Live(s)
  BY DEF Live
<1>4. ASSUME NEW r, Held(t, r) PROVE Held(s, r) \/ InHand(s, r, c)
  <2>1. CASE r \in Reqs(t.queue)
    BY <2>1 DEF Held
  <2>2. CASE \E k \in DOMAIN t.servers : r \in Load(t.servers[k])
    <3>1. PICK k \in DOMAIN t.servers : r \in Load(t.servers[k])
      BY <2>2
    <3>2. CASE k = i
      BY <3>1, <3>2 DEF Held
    <3>3. CASE k # i
      BY <3>1, <3>3 DEF Held
    <3> QED BY <3>2, <3>3
  <2> QED BY <2>1, <2>2, <1>4 DEF Held
<1>5. Apart(t)
  <2>1. Distinct(t.queue)
    BY <1>1 DEF Apart
  <2>2. \A k \in DOMAIN s.servers \ {i} : Load(t.servers[k]) = Load(s.servers[k])
    OBVIOUS
  <2>3. \A k \in DOMAIN s.servers : \A r \in Load(s.servers[k]) : Held(s, r)
    BY DEF Held
  <2>4. \A r \in Reqs(s.queue) : Held(s, r)
    BY DEF Held
  <2>5. \A r : InHand(s, r, c) => ~Held(s, r)
    BY DEF InHand
  <2>6. \A k, l \in DOMAIN s.servers : k # l => Load(s.servers[k]) \cap Load(s.servers[l]) = {}
    BY <1>1 DEF Apart
  <2>7. \A k \in DOMAIN s.servers : Reqs(s.queue) \cap Load(s.servers[k]) = {}
    BY <1>1 DEF Apart
  <2>8. \A k \in DOMAIN t.servers : Reqs(t.queue) \cap Load(t.servers[k]) = {}
    <3> SUFFICES ASSUME NEW k \in DOMAIN s.servers, NEW r \in Reqs(s.queue), r \in Load(t.servers[k]) PROVE FALSE
      OBVIOUS
    <3>1. CASE k = i
      BY <3>1, <2>4, <2>5, <2>7
    <3>2. CASE k # i
      BY <3>2, <2>7
    <3> QED BY <3>1, <3>2
  <2>9. \A k, l \in DOMAIN t.servers : k # l => Load(t.servers[k]) \cap Load(t.servers[l]) = {}
    <3>1. ASSUME NEW k \in DOMAIN s.servers, k # i, NEW r \in Load(v), r \in Load(s.servers[k]) PROVE FALSE
      BY <3>1, <2>3, <2>5, <2>6
    <3> SUFFICES ASSUME NEW k \in DOMAIN s.servers, NEW l \in DOMAIN s.servers, k # l,
                        NEW r \in Load(t.servers[k]), r \in Load(t.servers[l]) PROVE FALSE
      OBVIOUS
    <3>2. CASE k = i
      BY <3>1, <3>2, <2>2
    <3>3. CASE l = i
      BY <3>1, <3>3, <2>2
    <3>4. CASE k # i /\ l # i
      BY <3>4, <2>2, <2>6
    <3> QED BY <3>2, <3>3, <3>4
  <2> QED BY <2>1, <2>8, <2>9 DEF Apart
<1>6. \A r : InHand(s, r, c) => r \in d.sub /\ s.answers[r] = <<>>
  BY DEF InHand
<1>7. Once(t, d)
  <2> SUFFICES ASSUME NEW r \in Requests
               PROVE  /\ Len(t.answers[r]) <= 1
                      /\ d.whole = TRUE => t.answers[r] # <<"other">>
                      /\ t.answers[r] # <<>> => r \in d.sub /\ ~Held(t, r)
                      /\ Held(t, r) => r \in d.sub
    BY DEF Once
  <2>1. /\ Len(s.answers[r]) <= 1
        /\ c.whole = TRUE => s.answers[r] # <<"other">>
        /\ s.answers[r] # <<>> => r \in c.sub /\ ~Held(s, r)
        /\ Held(s, r) => r \in c.sub
    BY <1>1 DEF Once
  <2> QED BY <2>1, <1>4, <1>6
<1>8. Good(t, d)
  BY <1>1, <1>2, <1>3, <1>5, <1>7 DEF Good, Sound
<1>9. ASSUME NEW r, InHand(s, r, c), r \notin Load(v) PROVE InHand(t, r, d)
  <2>1. ~Held(s, r)
    BY <1>9 DEF InHand
  <2>2. ~Held(t, r)
    <3>1. ASSUME NEW k \in DOMAIN t.servers, r \in Load(t.servers[k]) PROVE FALSE
      <4>1. k # i
        BY <3>1, <1>9
      <4> QED BY <4>1, <3>1, <2>1 DEF Held
    <3> QED BY <3>1, <2>1 DEF Held
  <2> QED BY <2>2, <1>9 DEF InHand
<1>10. ASSUME NEW r \in Load(s.servers[i]), r \notin Load(v) PROVE InHand(t, r, d)
  <2>1. Held(s, r)
    BY DEF Held
  <2>2. r \in Requests
    BY <2>1, <1>1, HeldAreRequests
  <2>3. r \in c.sub /\ s.answers[r] = <<>>
    BY <2>1, <2>2, <1>1 DEF Once
  <2>4. ~Held(t, r)
    <3>1. r \notin Reqs(s.queue)
      BY <1>1 DEF Apart
    <3>2. ASSUME NEW k \in DOMAIN t.servers, r \in Load(t.servers[k]) PROVE FALSE
      <4>1. k # i
        BY <3>2, <1>10
      <4>2. r \in Load(s.servers[k])
        BY <4>1, <3>2
      <4> QED BY <4>1, <4>2, <1>1 DEF Apart
    <3> QED BY <3>1, <3>2 DEF Held
  <2> QED BY <2>3, <2>4 DEF InHand
<1> QED BY <1>8, <1>9, <1>10

\* The queue changes.
LEMMA QueueChanges ==
  ASSUME NEW s, NEW c, Good(s, c), NEW t \in Pool,
         t.servers = s.servers, t.nActive = s.nActive, t.answers = s.answers, t.leaked = s.leaked,
         Distinct(t.queue), \A r \in Reqs(t.queue) : r \in Reqs(s.queue) \/ InHand(s, r, c)
  PROVE  /\ Good(t, c)
         /\ \A r : InHand(s, r, c) /\ r \notin Reqs(t.queue) => InHand(t, r, c)
         /\ \A r \in Reqs(s.queue) : r \notin Reqs(t.queue) => InHand(t, r, c)
<1>1. s \in Pool /\ Apart(s) /\ Once(s, c) /\ s.nActive = Cardinality(Live(s)) /\ s.leaked \subseteq c.sub
      /\ \A k \in DOMAIN s.servers : Local(s.servers[k], k, c)
  BY DEF Good, Sound
<1>2. Live(t) = Live(s)
  BY DEF Live
<1>3. ASSUME NEW r, Held(t, r) PROVE Held(s, r) \/ InHand(s, r, c)
  BY <1>3 DEF Held
<1>4. Apart(t)
  <2>1. \A k \in DOMAIN t.servers : Reqs(t.queue) \cap Load(t.servers[k]) = {}
    <3> SUFFICES ASSUME NEW k \in DOMAIN s.servers, NEW r \in Reqs(t.queue), r \in Load(s.servers[k]) PROVE FALSE
      OBVIOUS
    <3>1. Held(s, r)
      BY DEF Held
    <3>2. r \in Reqs(s.queue)
      BY <3>1 DEF InHand
    <3> QED BY <3>2, <1>1 DEF Apart
  <2>2. \A k, l \in DOMAIN t.servers : k # l => Load(t.servers[k]) \cap Load(t.servers[l]) = {}
    BY <1>1 DEF Apart
  <2> QED BY <2>1, <2>2 DEF Apart
<1>5. Once(t, c)
  <2> SUFFICES ASSUME NEW r \in Requests
               PROVE  /\ Len(t.answers[r]) <= 1
                      /\ c.whole = TRUE => t.answers[r] # <<"other">>
                      /\ t.answers[r] # <<>> => r \in c.sub /\ ~Held(t, r)
                      /\ Held(t, r) => r \in c.sub
    BY DEF Once
  <2>1. /\ Len(s.answers[r]) <= 1
        /\ c.whole = TRUE => s.answers[r] # <<"other">>
        /\ s.answers[r] # <<>> => r \in c.sub /\ ~Held(s, r)
        /\ Held(s, r) => r \in c.sub
    BY <1>1 DEF Once
  <2>2. InHand(s, r, c) => r \in c.sub /\ s.answers[r] = <<>>
    BY DEF InHand
  <2> QED BY <2>1, <2>2, <1>3
<1>6. Good(t, c)
  BY <1>1, <1>2, <1>4, <1>5 DEF Good, Sound
<1>7. ASSUME NEW r, InHand(s, r, c), r \notin Reqs(t.queue) PROVE InHand(t, r, c)
  BY <1>7 DEF InHand, Held
<1>8. ASSUME NEW r \in Reqs(s.queue), r \notin Reqs(t.queue) PROVE InHand(t, r, c)
  <2>1. Held(s, r)
    BY DEF Held
  <2>2. r \in Requests
    BY <2>1, <1>1, HeldAreRequests
  <2>3. r \in c.sub /\ s.answers[r] = <<>>
    BY <2>1, <2>2, <1>1 DEF Once
  <2>4. ~Held(t, r)
    BY <1>1, <1>8 DEF Held, Apart
  <2> QED BY <2>3, <2>4 DEF InHand
<1> QED BY <1>6, <1>7, <1>8

-----------------------------------------------------------------------------
(* Callbacks *)

\* A caller whose request is in no place is called back.
LEMMA CallsBack ==
  ASSUME NEW s, NEW c, Sound(s, c), NEW r \in Requests, InHand(s, r, c),
         NEW a \in Answers, c.whole = TRUE => a # "other"
  PROVE  LET t == Callback(s, r, a)
         IN  /\ Sound(t, c) /\ t.queue = s.queue /\ t.servers = s.servers /\ t.nActive = s.nActive
             /\ \A q : InHand(s, q, c) /\ q # r => InHand(t, q, c)
<1> DEFINE t == Callback(s, r, a)
<1>1. s \in Pool /\ Once(s, c) /\ Apart(s) /\ s.leaked \subseteq c.sub /\ \A k \in DOMAIN s.servers : Local(s.servers[k], k, c)
  BY DEF Sound
<1>2. CASE r \in gone
  BY <1>2 DEF Callback
<1>3. CASE r \notin gone
  <2>1. t = [s EXCEPT !.answers[r] = Append(@, a)]
    BY <1>3 DEF Callback
  <2>2. s.answers \in [Requests -> Seq(Answers)] /\ s.answers[r] = <<>>
    BY <1>1, PoolIs DEF InHand
  <2>3. Append(<<>>, a) = <<a>> /\ <<a>> \in Seq(Answers) /\ Len(<<a>>) = 1 /\ <<a>> # <<>>
    OBVIOUS
  <2>4. <<a>> = <<"other">> => a = "other"
    OBVIOUS
  <2> DEFINE f == [s.answers EXCEPT ![r] = <<a>>]
  <2>5. t = [s EXCEPT !.answers = f]
    BY <2>1, <2>2, <2>3
  <2>6. f \in [Requests -> Seq(Answers)] /\ f[r] = <<a>> /\ \A q : q # r => f[q] = s.answers[q]
    BY <2>2, <2>3
  <2> HIDE DEF f
  <2>7. /\ t.queue = s.queue /\ t.servers = s.servers /\ t.nActive = s.nActive /\ t.answers = f
        /\ t.leaked = s.leaked /\ t \in Pool
    BY <2>5, <2>6, <1>1 DEF Pool
  <2> HIDE DEF t
  <2>8. \A q : Held(t, q) <=> Held(s, q)
    BY <2>7 DEF Held
  <2>9. Apart(t) /\ \A k \in DOMAIN t.servers : Local(t.servers[k], k, c)
    BY <2>7, <1>1 DEF Apart
  <2>10. Once(t, c)
    <3> SUFFICES ASSUME NEW q \in Requests
                 PROVE  /\ Len(t.answers[q]) <= 1
                        /\ c.whole = TRUE => t.answers[q] # <<"other">>
                        /\ t.answers[q] # <<>> => q \in c.sub /\ ~Held(t, q)
                        /\ Held(t, q) => q \in c.sub
      BY DEF Once
    <3>1. /\ Len(s.answers[q]) <= 1
          /\ c.whole = TRUE => s.answers[q] # <<"other">>
          /\ s.answers[q] # <<>> => q \in c.sub /\ ~Held(s, q)
          /\ Held(s, q) => q \in c.sub
      BY <1>1 DEF Once
    <3>2. CASE q = r
      <4>1. t.answers[q] = <<a>> /\ r \in c.sub /\ ~Held(t, q)
        BY <3>2, <2>6, <2>7, <2>8 DEF InHand
      <4>2. Len(<<a>>) <= 1
        BY <2>3
      <4> QED BY <3>2, <4>1, <4>2, <2>4
    <3>3. CASE q # r
      BY <3>1, <3>3, <2>6, <2>7, <2>8
    <3> QED BY <3>2, <3>3
  <2>11. Sound(t, c)
    BY <2>7, <2>9, <2>10, <1>1 DEF Sound
  <2>12. ASSUME NEW q, InHand(s, q, c), q # r PROVE InHand(t, q, c)
    BY <2>6, <2>7, <2>8, <2>12 DEF InHand
  <2> QED BY <2>7, <2>11, <2>12 DEF t
<1> QED BY <1>1, <1>2, <1>3

\* The same for a good pool.
LEMMA CallsBackGood ==
  ASSUME NEW s, NEW c, Good(s, c), NEW r \in Requests, InHand(s, r, c),
         NEW a \in Answers, c.whole = TRUE => a # "other"
  PROVE  Good(Callback(s, r, a), c) /\ Callback(s, r, a).servers = s.servers
<1>1. PICK t : t = Callback(s, r, a)
  OBVIOUS
<1>2. Sound(t, c) /\ t.servers = s.servers /\ t.nActive = s.nActive
  BY <1>1, CallsBack DEF Good
<1>3. Live(t) = Live(s)
  BY <1>2 DEF Live
<1> QED BY <1>1, <1>2, <1>3 DEF Good

-----------------------------------------------------------------------------
(* Dispatching and queueing *)

\* What stays of a server in the calls that dispatch requests.
Frame(s, t) ==
  \A k \in DOMAIN s.servers :
    /\ k \in DOMAIN t.servers
    /\ t.servers[k].shutdown = s.servers[k].shutdown
    /\ Len(t.servers[k].requests) >= Len(s.servers[k].requests)

\* One call after the other.
LEMMA FrameTrans ==
  ASSUME NEW s \in Pool, NEW t \in Pool, NEW u \in Pool, Frame(s, t), Frame(t, u)
  PROVE  Frame(s, u)
<1> SUFFICES ASSUME NEW k \in DOMAIN s.servers
             PROVE  /\ k \in DOMAIN u.servers
                    /\ u.servers[k].shutdown = s.servers[k].shutdown
                    /\ Len(u.servers[k].requests) >= Len(s.servers[k].requests)
  BY DEF Frame
<1>1. k \in DOMAIN t.servers /\ k \in DOMAIN u.servers /\ u.servers[k].shutdown = s.servers[k].shutdown
  BY DEF Frame
<1>2. PICK a, b, d : a = Len(s.servers[k].requests) /\ b = Len(t.servers[k].requests) /\ d = Len(u.servers[k].requests)
  OBVIOUS
<1>3. a \in Nat /\ b \in Nat /\ d \in Nat
  <2>1. s.servers[k] \in Server /\ t.servers[k] \in Server /\ u.servers[k] \in Server
    BY <1>1, PoolIs
  <2>2. s.servers[k].requests \in Seq(Xaction) /\ t.servers[k].requests \in Seq(Xaction) /\ u.servers[k].requests \in Seq(Xaction)
    BY <2>1, ServerIs
  <2>3. \A q \in Seq(Xaction) : Len(q) \in Nat
    OBVIOUS
  <2> QED BY <2>2, <2>3, <1>2
<1>4. b >= a /\ d >= b
  BY <1>1, <1>2 DEF Frame
<1> QED BY <1>1, <1>2, <1>3, <1>4

\* Nothing changes.
LEMMA FrameSame ==
  ASSUME NEW s \in Pool, NEW t, t.servers = s.servers
  PROVE  Frame(s, t)
<1> SUFFICES ASSUME NEW k \in DOMAIN s.servers PROVE Len(s.servers[k].requests) >= Len(s.servers[k].requests)
  BY DEF Frame
<1>1. s.servers[k].requests \in Seq(Xaction)
  BY PoolIs, ServerIs
<1> QED BY <1>1

\* The number of a request is new, and its server gets it.
LEMMA DispatchIs ==
  ASSUME NEW s \in Pool, NEW i \in DOMAIN s.servers, NEW x \in Xaction
  PROVE  LET t == helperDispatch(s, i, x)
             v == s.servers[i]
             w == t.servers[i]
             sent == [x EXCEPT !.id = v.nextRequestId + 1]
         IN  /\ t \in Pool /\ t.queue = s.queue /\ t.nActive = s.nActive /\ t.answers = s.answers /\ t.leaked = s.leaked
             /\ DOMAIN t.servers = DOMAIN s.servers /\ \A k \in DOMAIN s.servers \ {i} : t.servers[k] = s.servers[k]
             /\ sent \in Xaction /\ sent.req = x.req /\ sent.id = v.nextRequestId + 1
             /\ w \in Server /\ w.nextRequestId = v.nextRequestId + 1
             /\ w.shutdown = v.shutdown /\ w.closing = v.closing /\ w.ignoreToEom = v.ignoreToEom
             /\ w.replyXaction = v.replyXaction /\ w.msg = v.msg
             /\ IF x.req \in gone THEN w.requests = v.requests /\ w.inbox = v.inbox /\ w.pending = v.pending
                ELSE w.requests = Append(v.requests, sent) /\ w.inbox = v.inbox \cup {sent} /\ w.pending = v.pending + 1
<1> DEFINE v == s.servers[i]
           id == v.nextRequestId + 1
           sent == [x EXCEPT !.id = id]
           w1 == [v EXCEPT !.nextRequestId = id]
           w2 == [v EXCEPT !.nextRequestId = id, !.requests = Append(@, sent), !.inbox = @ \cup {sent}, !.pending = @ + 1]
           t == helperDispatch(s, i, x)
<1>1. v \in Server /\ s.servers \in Seq(Server)
  BY PoolIs
<1>2. v.nextRequestId \in Nat /\ v.requests \in Seq(Xaction) /\ v.inbox \in SUBSET Xaction /\ v.pending \in Nat
  BY <1>1, ServerIs
<1>3. id \in Nat /\ sent \in Xaction /\ sent.req = x.req /\ sent.id = id
  BY <1>2 DEF Xaction
<1>4. w1 \in Server /\ w1.nextRequestId = id /\ w1.shutdown = v.shutdown /\ w1.closing = v.closing /\ w1.ignoreToEom = v.ignoreToEom
      /\ w1.replyXaction = v.replyXaction /\ w1.msg = v.msg
      /\ w1.requests = v.requests /\ w1.inbox = v.inbox /\ w1.pending = v.pending
  BY <1>1, <1>3 DEF Server
<1>5. w2 \in Server /\ w2.nextRequestId = id /\ w2.shutdown = v.shutdown /\ w2.closing = v.closing /\ w2.ignoreToEom = v.ignoreToEom
      /\ w2.replyXaction = v.replyXaction /\ w2.msg = v.msg
      /\ w2.requests = Append(v.requests, sent) /\ w2.inbox = v.inbox \cup {sent} /\ w2.pending = v.pending + 1
  <2>1. PICK q, b, n, p : q = Append(v.requests, sent) /\ b = v.inbox \cup {sent} /\ n = id /\ p = v.pending + 1
    OBVIOUS
  <2>2. q \in Seq(Xaction) /\ b \in SUBSET Xaction /\ n \in Nat /\ p \in Nat
    BY <2>1, <1>2, <1>3
  <2>3. w2 = [v EXCEPT !.nextRequestId = n, !.requests = q, !.inbox = b, !.pending = p]
    BY <2>1
  <2> HIDE DEF v, sent, id, w2
  <2>4. /\ w2 \in Server /\ w2.nextRequestId = n /\ w2.shutdown = v.shutdown /\ w2.closing = v.closing
        /\ w2.ignoreToEom = v.ignoreToEom /\ w2.replyXaction = v.replyXaction /\ w2.msg = v.msg
        /\ w2.requests = q /\ w2.inbox = b /\ w2.pending = p
    BY <2>2, <2>3, <1>1 DEF Server
  <2> QED BY <2>1, <2>4
<1>6. CASE x.req \in gone
  <2>1. PICK q : q = [s.servers EXCEPT ![i] = w1]
    OBVIOUS
  <2>2. t = [s EXCEPT !.servers = q]
    BY <2>1, <1>6 DEF helperDispatch
  <2> HIDE DEF w1, t, v, sent
  <2>3. /\ q \in Seq(Server) /\ DOMAIN q = DOMAIN s.servers /\ q[i] = w1
        /\ \A k \in DOMAIN s.servers \ {i} : q[k] = s.servers[k]
    BY <2>1, <1>1, <1>4
  <2>4. t \in Pool /\ t.servers = q /\ t.queue = s.queue /\ t.nActive = s.nActive /\ t.answers = s.answers /\ t.leaked = s.leaked
    BY <2>2, <2>3 DEF Pool
  <2> QED BY <2>3, <2>4, <1>3, <1>4, <1>6 DEF t, v, sent
<1>7. CASE x.req \notin gone
  <2>1. PICK q, b : q = [s.servers EXCEPT ![i] = w2] /\ b = (s.crashed \/ v.closing)
    OBVIOUS
  <2>2. t = [s EXCEPT !.servers = q, !.crashed = b]
    <3>1. t = IF x.req \in gone THEN [s EXCEPT !.servers[i].nextRequestId = id]
              ELSE [s EXCEPT !.servers[i] = w2, !.crashed = @ \/ v.closing]
      BY DEF helperDispatch
    <3> HIDE DEF t, w2, v
    <3>2. t = [s EXCEPT !.servers[i] = w2, !.crashed = @ \/ v.closing]
      BY <3>1, <1>7
    <3>3. t = [s EXCEPT !.servers = q, !.crashed = @ \/ v.closing]
      BY <3>2, <2>1
    <3> QED BY <3>3, <2>1, Zenon
  <2> HIDE DEF w2, t, v, sent
  <2>3. /\ q \in Seq(Server) /\ DOMAIN q = DOMAIN s.servers /\ q[i] = w2
        /\ \A k \in DOMAIN s.servers \ {i} : q[k] = s.servers[k]
    BY <2>1, <1>1, <1>5
  <2>4. b \in BOOLEAN
    BY <2>1
  <2>5. t \in Pool /\ t.servers = q /\ t.queue = s.queue /\ t.nActive = s.nActive /\ t.answers = s.answers /\ t.leaked = s.leaked
    BY <2>2, <2>3, <2>4 DEF Pool
  <2> QED BY <2>3, <2>5, <1>3, <1>5, <1>7 DEF t, v, sent
<1> QED BY <1>6, <1>7

\* A server that gets a request is as it was, with one more to answer.
LEMMA Loading ==
  ASSUME NEW v \in Server, NEW w \in Server, NEW k, NEW c, Local(v, k, c), NEW y \in Xaction,
         y.req \notin Load(v), v.pending < Concurrency, y.id = v.nextRequestId + 1,
         w.nextRequestId = v.nextRequestId + 1, w.closing = v.closing, w.ignoreToEom = v.ignoreToEom,
         w.replyXaction = v.replyXaction, w.msg = v.msg,
         w.requests = Append(v.requests, y), w.inbox = v.inbox \cup {y}, w.pending = v.pending + 1
  PROVE  Local(w, k, c) /\ Load(w) = Load(v) \cup {y.req}
<1>1. /\ v.requests \in Seq(Xaction) /\ v.pending \in Nat /\ v.nextRequestId \in Nat
      /\ v.inbox \in SUBSET Xaction /\ v.msg \in Message \cup {Nil}
      /\ v.replyXaction \in Xaction \cup {Nil}
  BY ServerIs
<1>2. Counted(v, k, c) /\ Own(v) /\ Numbered(v) /\ Talks(v, k, c)
  BY DEF Local
<1>3. PICK q, u : q = v.requests /\ u = w.requests
  OBVIOUS
<1>4. /\ u \in Seq(Xaction) /\ Len(u) = Len(q) + 1 /\ Reqs(u) = Reqs(q) \cup {y.req}
      /\ Distinct(q) /\ y.req \notin Reqs(q) => Distinct(u)
      /\ \A a \in DOMAIN u : u[a] = y \/ (a \in DOMAIN q /\ u[a] = q[a])
      /\ \A a \in DOMAIN u : a \notin DOMAIN q => a = Len(q) + 1
  BY <1>1, <1>3, Appending
<1>5. Load(w) = Load(v) \cup {y.req}
  BY <1>3, <1>4 DEF Load
<1>6. Counted(w, k, c)
  <2>1. PICK n, e, f : n = Len(q) /\ e = (IF v.replyXaction = Nil THEN 0 ELSE 1) /\ f = (IF k = c.extra THEN 1 ELSE 0)
    OBVIOUS
  <2>2. n \in Nat /\ e \in Nat /\ f \in Nat /\ Concurrency \in Nat
    BY <2>1, <1>1, <1>3, Limits
  <2>3. v.pending = n + e + f /\ w.pending = v.pending + 1 /\ Len(u) = n + 1
    BY <2>1, <1>2, <1>3, <1>4 DEF Counted
  <2>4. w.pending = (n + 1) + e + f /\ w.pending <= Concurrency
    BY <2>2, <2>3, <1>1, SMTT(30)
  <2> QED BY <2>1, <2>3, <2>4, <1>3 DEF Counted
<1>7. Own(w)
  BY <1>2, <1>3, <1>4 DEF Own, Load
<1>8. Numbered(w)
  <2>1. \A a \in DOMAIN q : q[a].id <= v.nextRequestId /\ q[a].id \in Nat
    <3>1. \A a \in DOMAIN q : q[a] \in Xaction
      BY <1>1, <1>3
    <3> QED BY <3>1, <1>2, <1>3, XactionIs DEF Numbered
  <2>2. \A a, b \in DOMAIN q : q[a].id = q[b].id => a = b
    BY <1>2, <1>3 DEF Numbered
  <2>3. \A a \in DOMAIN u : u[a].id <= w.nextRequestId
    BY <2>1, <1>1, <1>4
  <2>4. \A a \in DOMAIN q : q[a].id # y.id
    BY <2>1, <1>1
  <2>5. ASSUME NEW a \in DOMAIN u, NEW b \in DOMAIN u, u[a].id = u[b].id PROVE a = b
    <3>1. CASE a \in DOMAIN q /\ b \in DOMAIN q /\ u[a] = q[a] /\ u[b] = q[b]
      BY <3>1, <2>2, <2>5
    <3>2. CASE a \notin DOMAIN q /\ b \notin DOMAIN q
      BY <3>2, <1>4
    <3>3. CASE u[a] = y /\ u[b] = y
      <4>1. a \notin DOMAIN q
        BY <3>3, <2>4, <1>3, <1>1, Appending
      <4>2. b \notin DOMAIN q
        BY <3>3, <2>4, <1>3, <1>1, Appending
      <4> QED BY <4>1, <4>2, <3>2
    <3>4. CASE u[a] = y /\ u[b] # y
      BY <3>4, <2>4, <2>5, <1>4
    <3>5. CASE u[a] # y /\ u[b] = y
      BY <3>5, <2>4, <2>5, <1>4
    <3> QED BY <3>1, <3>3, <3>4, <3>5, <1>4
  <2>6. ASSUME NEW z \in Xaction, Known(v, z) PROVE Known(w, z)
    <3>1. z.id <= v.nextRequestId /\ z.id \in Nat /\ \A a \in DOMAIN q : q[a].id = z.id => q[a] = z
      BY <2>6, <1>3, XactionIs DEF Known
    <3>2. z.id <= w.nextRequestId /\ z.id # y.id
      BY <3>1, <1>1
    <3> QED BY <3>1, <3>2, <1>3, <1>4 DEF Known
  <2>7. Known(w, y)
    BY <2>4, <1>1, <1>3, <1>4 DEF Known
  <2>8. \A z \in w.inbox : Known(w, z)
    BY <2>6, <2>7, <1>1, <1>2 DEF Numbered
  <2>9. w.msg # Nil => Known(w, w.msg.x)
    <3>1. v.msg # Nil => v.msg.x \in Xaction
      BY <1>1 DEF Message
    <3> QED BY <3>1, <2>6, <1>2 DEF Numbered
  <2> QED BY <2>3, <2>5, <2>8, <2>9, <1>3 DEF Numbered
<1>9. Talks(w, k, c)
  BY <1>2 DEF Talks
<1> QED BY <1>5, <1>6, <1>7, <1>8, <1>9 DEF Local

\* A number is skipped.
LEMMA Skipping ==
  ASSUME NEW v \in Server, NEW w \in Server, NEW k, NEW c, Local(v, k, c),
         w.nextRequestId = v.nextRequestId + 1, w.closing = v.closing, w.ignoreToEom = v.ignoreToEom,
         w.replyXaction = v.replyXaction, w.msg = v.msg,
         w.requests = v.requests, w.inbox = v.inbox, w.pending = v.pending
  PROVE  Local(w, k, c) /\ Load(w) = Load(v)
<1>1. Counted(v, k, c) /\ Own(v) /\ Numbered(v) /\ Talks(v, k, c)
  BY DEF Local
<1>2. /\ v.requests \in Seq(Xaction) /\ v.nextRequestId \in Nat
      /\ v.inbox \in SUBSET Xaction /\ v.msg \in Message \cup {Nil}
  BY ServerIs
<1>3. \A a \in DOMAIN v.requests : v.requests[a].id \in Nat
  BY <1>2, XactionIs
<1>4. \A z \in Xaction : Known(v, z) => Known(w, z)
  <2> SUFFICES ASSUME NEW z \in Xaction, Known(v, z) PROVE Known(w, z)
    OBVIOUS
  <2>1. z.id \in Nat /\ z.id <= v.nextRequestId
    BY XactionIs DEF Known
  <2>2. z.id <= w.nextRequestId
    BY <2>1, <1>2
  <2> QED BY <2>2 DEF Known
<1>5. Numbered(w)
  <2>1. \A a \in DOMAIN w.requests : w.requests[a].id <= w.nextRequestId
    <3>1. \A a \in DOMAIN v.requests : v.requests[a].id <= v.nextRequestId
      BY <1>1 DEF Numbered
    <3> QED BY <3>1, <1>2, <1>3
  <2>2. w.msg # Nil => Known(w, w.msg.x)
    <3>1. v.msg # Nil => v.msg.x \in Xaction
      BY <1>2 DEF Message
    <3> QED BY <3>1, <1>1, <1>4 DEF Numbered
  <2>3. \A z \in w.inbox : Known(w, z)
    BY <1>1, <1>2, <1>4 DEF Numbered
  <2> QED BY <2>1, <2>2, <2>3, <1>1 DEF Numbered
<1>6. Counted(w, k, c) /\ Own(w) /\ Talks(w, k, c) /\ Load(w) = Load(v)
  BY <1>1 DEF Counted, Own, Talks, Load
<1> QED BY <1>5, <1>6 DEF Local

\* A request in hand is dispatched.
LEMMA Dispatching ==
  ASSUME NEW s, NEW c, Good(s, c), NEW i \in DOMAIN s.servers, NEW x \in Xaction,
         InHand(s, x.req, c), s.servers[i].pending < Concurrency
  PROVE  /\ Good(helperDispatch(s, i, x), c) /\ Frame(s, helperDispatch(s, i, x))
         /\ helperDispatch(s, i, x).queue = s.queue
<1> DEFINE t == helperDispatch(s, i, x)
           v == s.servers[i]
           w == t.servers[i]
           y == [x EXCEPT !.id = v.nextRequestId + 1]
<1>1. s \in Pool /\ \A k \in DOMAIN s.servers : Local(s.servers[k], k, c)
  BY DEF Good, Sound
<1>2. /\ t \in Pool /\ t.queue = s.queue /\ t.nActive = s.nActive /\ t.answers = s.answers /\ t.leaked = s.leaked
      /\ DOMAIN t.servers = DOMAIN s.servers /\ \A k \in DOMAIN s.servers \ {i} : t.servers[k] = s.servers[k]
      /\ y \in Xaction /\ y.req = x.req /\ y.id = v.nextRequestId + 1
      /\ w \in Server /\ w.nextRequestId = v.nextRequestId + 1
      /\ w.shutdown = v.shutdown /\ w.closing = v.closing /\ w.ignoreToEom = v.ignoreToEom
      /\ w.replyXaction = v.replyXaction /\ w.msg = v.msg
      /\ IF x.req \in gone THEN w.requests = v.requests /\ w.inbox = v.inbox /\ w.pending = v.pending
         ELSE w.requests = Append(v.requests, y) /\ w.inbox = v.inbox \cup {y} /\ w.pending = v.pending + 1
  BY <1>1, DispatchIs
<1>3. v \in Server /\ v.requests \in Seq(Xaction) /\ Local(v, i, c) /\ v.pending < Concurrency
  BY <1>1, PoolIs, ServerIs
<1>4. y.req \notin Load(v)
  BY <1>2 DEF InHand, Held
<1> HIDE DEF t, v, w, y
<1>5. Local(w, i, c) /\ (Load(w) = Load(v) \/ Load(w) = Load(v) \cup {x.req}) /\ Len(w.requests) >= Len(v.requests)
  <2>0. \A q \in Seq(Xaction) : Len(q) \in Nat
    OBVIOUS
  <2>1. CASE x.req \in gone
    <3>1. w.requests = v.requests /\ w.inbox = v.inbox /\ w.pending = v.pending
      BY <2>1, <1>2
    <3>2. Local(w, i, c) /\ Load(w) = Load(v)
      BY <3>1, <1>2, <1>3, Skipping
    <3>3. Len(v.requests) \in Nat
      BY <1>3, <2>0
    <3> QED BY <3>1, <3>2, <3>3
  <2>2. CASE x.req \notin gone
    <3>1. w.requests = Append(v.requests, y) /\ w.inbox = v.inbox \cup {y} /\ w.pending = v.pending + 1
      BY <2>2, <1>2
    <3>2. Local(w, i, c) /\ Load(w) = Load(v) \cup {y.req}
      BY <3>1, <1>2, <1>3, <1>4, Loading
    <3>3. Len(v.requests) \in Nat /\ Len(w.requests) = Len(v.requests) + 1
      BY <3>1, <1>2, <1>3, <2>0, Appending
    <3>4. Len(w.requests) >= Len(v.requests)
      BY <3>3
    <3> QED BY <3>2, <3>4, <1>2
  <2> QED BY <2>1, <2>2
<1>6. \A r \in Load(w) : r \in Load(s.servers[i]) \/ InHand(s, r, c)
  BY <1>5 DEF v
<1>7. t.servers[i] = w /\ w.shutdown = s.servers[i].shutdown
  BY <1>2 DEF w, v
<1>8. Good(t, c)
  BY <1>1, <1>2, <1>5, <1>6, <1>7, ServerChanges
<1>9. Frame(s, t)
  <2> SUFFICES ASSUME NEW k \in DOMAIN s.servers
               PROVE  /\ k \in DOMAIN t.servers /\ t.servers[k].shutdown = s.servers[k].shutdown
                      /\ Len(t.servers[k].requests) >= Len(s.servers[k].requests)
    BY DEF Frame
  <2>1. CASE k = i
    BY <2>1, <1>2, <1>5, <1>7 DEF v
  <2>2. CASE k # i
    <3>1. t.servers[k] = s.servers[k] /\ k \in DOMAIN t.servers
      BY <2>2, <1>2
    <3>2. s.servers[k].requests \in Seq(Xaction)
      BY <1>1, PoolIs, ServerIs
    <3>3. Len(s.servers[k].requests) \in Nat
      BY <3>2
    <3> QED BY <3>1, <3>3
  <2> QED BY <2>1, <2>2
<1> QED BY <1>2, <1>8, <1>9 DEF t

\* Induction over the natural numbers, stated with a set instead of a
\* predicate: the least number outside the set would have a predecessor in it.
LEMMA NatSetInduction ==
  ASSUME NEW S, 0 \in S, \A n \in Nat : n \in S => n + 1 \in S
  PROVE  Nat \subseteq S
<1> SUFFICES ASSUME Nat \ S # {} PROVE FALSE
  OBVIOUS
<1>1. PICK x \in Nat \ S : \A y \in Nat \ S : ~ (<<y, x>> \in OpToRel(<, Nat))
  <2> DEFINE T == Nat \ S
  <2> HIDE DEF T
  <2>1. T \subseteq Nat /\ T # {}
    BY DEF T
  <2>2. \E x \in T : \A y \in T : ~ (<<y, x>> \in OpToRel(<, Nat))
    BY <2>1, NatLessThanWellFounded, WFMin
  <2> QED BY <2>2 DEF T
<1>2. \A y \in Nat \ S : ~ (y < x)
  BY <1>1 DEF OpToRel
<1>3. x # 0 /\ x - 1 \in Nat
  OBVIOUS
<1>4. x - 1 \in S
  BY <1>2, <1>3
<1>5. x - 1 + 1 \in S
  BY <1>3, <1>4
<1> QED BY <1>5

\* The least number of a set is in it.
LEMMA MinIs ==
  ASSUME NEW S, S \subseteq Nat, S # {}
  PROVE  Min(S) \in S /\ \A y \in S : Min(S) <= y
<1>1. \E x \in S : \A y \in S : x <= y
  <2>1. PICK x \in S : \A y \in S : ~ (<<y, x>> \in OpToRel(<, Nat))
    BY NatLessThanWellFounded, WFMin
  <2>2. \A y \in S : ~ (y < x)
    BY <2>1 DEF OpToRel
  <2> QED BY <2>2
<1> QED BY <1>1 DEF Min

\* The selected server accepts a request.
LEMMA FirstAvailable ==
  ASSUME NEW s \in Pool, GetFirstAvailable(s) # 0
  PROVE  /\ GetFirstAvailable(s) \in DOMAIN s.servers
         /\ s.servers[GetFirstAvailable(s)].pending < Concurrency
<1> DEFINE live == {k \in DOMAIN s.servers : ~s.servers[k].shutdown}
           first == Min(live)
           lighter == {k \in live : k > first /\ s.servers[k].pending < s.servers[first].pending}
           selected == IF lighter = {} THEN first ELSE Min(lighter)
<1>1. GetFirstAvailable(s) = IF live = {} THEN 0 ELSE IF s.servers[selected].pending >= Concurrency THEN 0 ELSE selected
  BY DEF GetFirstAvailable
<1>2. live \subseteq DOMAIN s.servers /\ lighter \subseteq live /\ DOMAIN s.servers \subseteq Nat
  BY PoolIs
<1> HIDE DEF live, lighter
<1>3. live # {} /\ ~(s.servers[selected].pending >= Concurrency) /\ GetFirstAvailable(s) = selected
  BY <1>1
<1>4. first \in live
  BY <1>2, <1>3, MinIs
<1>5. selected \in live
  <2>1. CASE lighter = {}
    BY <2>1, <1>4
  <2>2. CASE lighter # {}
    BY <2>2, <1>2, MinIs
  <2> QED BY <2>1, <2>2
<1>6. selected \in DOMAIN s.servers
  BY <1>2, <1>5
<1>7. s.servers[selected].pending \in Nat
  BY <1>6, PoolIs, ServerIs
<1> HIDE DEF selected
<1> QED BY <1>3, <1>6, <1>7, Limits

\* A round of helperKickQueue().
KickStep(t) ==
  IF GetFirstAvailable(t) = 0 THEN t
  ELSE helperDispatch([t EXCEPT !.queue = Tail(@)], GetFirstAvailable(t), Head(t.queue))
Kicks(h, s, m) == h = [n \in 0..m |-> IF n = 0 THEN s ELSE KickStep(h[n - 1])]

\* The rounds of helperKickQueue() are defined.
LEMMA KicksExist ==
  ASSUME NEW s, NEW m \in Nat
  PROVE  \E h : Kicks(h, s, m)
<1> DEFINE S == {n \in Nat : \E h : Kicks(h, s, n)}
<1>1. 0 \in S
  <2>1. Kicks([n \in 0..0 |-> s], s, 0)
    BY DEF Kicks
  <2> QED BY <2>1
<1>2. ASSUME NEW n \in Nat, n \in S PROVE n + 1 \in S
  <2>1. PICK g : Kicks(g, s, n)
    BY <1>2
  <2> DEFINE h == [k \in 0..(n + 1) |-> IF k = 0 THEN s ELSE KickStep(g[k - 1])]
  <2>2. \A k \in 0..n : h[k] = g[k]
    BY <2>1 DEF Kicks
  <2>3. \A k \in 0..(n + 1) : k # 0 => k - 1 \in 0..n
    OBVIOUS
  <2>4. h = [k \in 0..(n + 1) |-> IF k = 0 THEN s ELSE KickStep(h[k - 1])]
    BY <2>2, <2>3
  <2>5. Kicks(h, s, n + 1)
    BY <2>4 DEF Kicks
  <2> QED BY <2>5
<1>3. Nat \subseteq S
  <2> HIDE DEF S
  <2> QED BY <1>1, <1>2, NatSetInduction
<1> QED BY <1>3

\* A round takes at most one request from the queue.
LEMMA KickStepIs ==
  ASSUME NEW t, NEW c, Good(t, c), t.queue # <<>>
  PROVE  /\ Good(KickStep(t), c) /\ Frame(t, KickStep(t))
         /\ Len(KickStep(t).queue) >= Len(t.queue) - 1
<1>1. t \in Pool
  BY DEF Good, Sound
<1>2. t.queue \in Seq(Xaction) /\ Len(t.queue) \in Nat
  BY <1>1, PoolIs
<1>3. CASE GetFirstAvailable(t) = 0
  BY <1>1, <1>2, <1>3, FrameSame DEF KickStep
<1>4. CASE GetFirstAvailable(t) # 0
  <2>1. PICK u, i, x, q : q = Tail(t.queue) /\ u = [t EXCEPT !.queue = q] /\ i = GetFirstAvailable(t) /\ x = Head(t.queue)
    OBVIOUS
  <2>2. KickStep(t) = helperDispatch(u, i, x)
    BY <2>1, <1>4 DEF KickStep
  <2>3. /\ q \in Seq(Xaction) /\ Len(q) = Len(t.queue) - 1 /\ x \in Xaction
        /\ Reqs(t.queue) = {x.req} \cup Reqs(q)
        /\ Distinct(t.queue) => Distinct(q) /\ x.req \notin Reqs(q)
    BY <2>1, <1>2, Taking
  <2>4. /\ u \in Pool /\ u.queue = q /\ u.servers = t.servers /\ u.nActive = t.nActive
        /\ u.answers = t.answers /\ u.leaked = t.leaked
    BY <2>1, <2>3, <1>1 DEF Pool
  <2>5. Distinct(t.queue)
    BY DEF Good, Sound, Apart
  <2>6. Good(u, c) /\ InHand(u, x.req, c)
    <3>1. Distinct(u.queue) /\ x.req \notin Reqs(u.queue) /\ x.req \in Reqs(t.queue)
      BY <2>3, <2>4, <2>5
    <3>2. \A r \in Reqs(u.queue) : r \in Reqs(t.queue) \/ InHand(t, r, c)
      BY <2>3, <2>4
    <3> QED BY <3>1, <3>2, <2>4, QueueChanges
  <2>7. i \in DOMAIN u.servers /\ u.servers[i].pending < Concurrency
    BY <2>1, <2>4, <1>1, <1>4, FirstAvailable
  <2>8. /\ Good(helperDispatch(u, i, x), c) /\ Frame(u, helperDispatch(u, i, x))
        /\ helperDispatch(u, i, x).queue = u.queue
    BY <2>3, <2>6, <2>7, Dispatching
  <2>9. helperDispatch(u, i, x).queue = q
    BY <2>4, <2>8
  <2>10. Frame(t, helperDispatch(u, i, x))
    BY <2>8, <2>4 DEF Frame
  <2> QED BY <2>2, <2>3, <2>8, <2>9, <2>10, <1>2
<1> QED BY <1>3, <1>4

\* The queue is kicked.
LEMMA KickQueue ==
  ASSUME NEW s, NEW c, Good(s, c)
  PROVE  Good(helperKickQueue(s), c) /\ Frame(s, helperKickQueue(s))
<1>1. s \in Pool /\ s.queue \in Seq(Xaction) /\ Len(s.queue) \in Nat
  <2>1. s \in Pool
    BY DEF Good, Sound
  <2> QED BY <2>1, PoolIs
<1>2. PICK m : m = Len(s.queue)
  OBVIOUS
<1> DEFINE g == CHOOSE h : Kicks(h, s, m)
<1>3. Kicks(g, s, m)
  BY <1>1, <1>2, KicksExist
<1>4. helperKickQueue(s) = g[m]
  BY <1>2 DEF helperKickQueue, Kicks, KickStep
<1> HIDE DEF g
<1>5. g[0] = s /\ \A n \in 0..m : n # 0 => g[n] = KickStep(g[n - 1])
  <2>1. m \in Nat /\ 0 \in 0..m
    BY <1>1, <1>2
  <2>2. g = [n \in 0..m |-> IF n = 0 THEN s ELSE KickStep(g[n - 1])]
    BY <1>3 DEF Kicks
  <2>3. \A n \in 0..m : g[n] = IF n = 0 THEN s ELSE KickStep(g[n - 1])
    BY <2>2
  <2> QED BY <2>1, <2>3
<1> DEFINE S == {n \in Nat : n <= m => Good(g[n], c) /\ Frame(s, g[n]) /\ Len(g[n].queue) >= m - n}
<1>6. 0 \in S
  BY <1>1, <1>2, <1>5, FrameSame
<1>7. ASSUME NEW n \in Nat, n \in S PROVE n + 1 \in S
  <2> SUFFICES ASSUME n + 1 <= m PROVE Good(g[n + 1], c) /\ Frame(s, g[n + 1]) /\ Len(g[n + 1].queue) >= m - (n + 1)
    OBVIOUS
  <2>1. n <= m /\ n + 1 \in 0..m /\ n + 1 # 0 /\ (n + 1) - 1 = n
    BY <1>1, <1>2
  <2>2. Good(g[n], c) /\ Frame(s, g[n]) /\ Len(g[n].queue) >= m - n
    BY <2>1, <1>7
  <2>3. g[n + 1] = KickStep(g[n])
    BY <2>1, <1>5
  <2>4. PICK t : t = g[n]
    OBVIOUS
  <2>5. t \in Pool /\ t.queue \in Seq(Xaction)
    <3>1. t \in Pool
      BY <2>2, <2>4 DEF Good, Sound
    <3> QED BY <3>1, PoolIs
  <2>6. Len(t.queue) \in Nat /\ t.queue # <<>>
    <3>1. Len(t.queue) \in Nat /\ Len(t.queue) >= m - n
      BY <2>2, <2>4, <2>5
    <3>2. Len(t.queue) # 0
      BY <3>1, <1>1, <1>2
    <3> QED BY <3>1, <3>2
  <2>7. Good(KickStep(t), c) /\ Frame(t, KickStep(t)) /\ Len(KickStep(t).queue) >= Len(t.queue) - 1
    BY <2>2, <2>4, <2>6, KickStepIs
  <2>8. KickStep(t) \in Pool
    BY <2>7 DEF Good, Sound
  <2>9. Frame(s, KickStep(t))
    BY <2>2, <2>4, <2>5, <2>7, <2>8, <1>1, FrameTrans
  <2>10. Len(KickStep(t).queue) >= m - (n + 1)
    <3>1. PICK a, b : a = Len(t.queue) /\ b = Len(KickStep(t).queue)
      OBVIOUS
    <3>2. a \in Nat /\ b \in Nat
      BY <3>1, <2>5, <2>8, PoolIs
    <3> QED BY <3>1, <3>2, <2>2, <2>4, <2>7, <1>1, <1>2
  <2> QED BY <2>3, <2>4, <2>7, <2>9, <2>10
<1>8. Nat \subseteq S
  <2> HIDE DEF S
  <2> QED BY <1>6, <1>7, NatSetInduction
<1>9. m \in S /\ m <= m
  BY <1>1, <1>2, <1>8
<1> QED BY <1>4, <1>9

-----------------------------------------------------------------------------
(* Starting processes *)

\* The servers of a context are in the pool.
Within(s, c) == c.extra \in DOMAIN s.servers \cup {0} /\ c.busy \in DOMAIN s.servers \cup {0}

\* The servers of a context stay.
LEMMA WithinStays ==
  ASSUME NEW s, NEW t, NEW c, Within(s, c), Frame(s, t)
  PROVE  Within(t, c)
BY DEF Within, Frame

\* A new server has nothing to answer.
LEMMA NewServerIs ==
  ASSUME NEW k, NEW c, k # c.extra, k # c.busy
  PROVE  NewServer \in Server /\ Local(NewServer, k, c) /\ Load(NewServer) = {} /\ ~NewServer.shutdown
<1>1. <<>> \in Seq(Xaction) /\ Len(<<>>) = 0 /\ DOMAIN <<>> = {}
  OBVIOUS
<1>2. /\ NewServer.requests = <<>> /\ NewServer.pending = 0 /\ NewServer.replyXaction = Nil
      /\ NewServer.inbox = {} /\ NewServer.msg = Nil /\ ~NewServer.shutdown /\ ~NewServer.ignoreToEom
      /\ NewServer.nextRequestId = 0
  BY DEF NewServer
<1>3. NewServer \in Server
  BY <1>1 DEF NewServer, Server
<1> HIDE DEF NewServer
<1>4. Counted(NewServer, k, c)
  BY <1>1, <1>2, Limits DEF Counted
<1>5. Own(NewServer) /\ Numbered(NewServer) /\ Talks(NewServer, k, c) /\ Load(NewServer) = {}
  BY <1>1, <1>2 DEF Own, Numbered, Talks, Load, Distinct, Reqs
<1> QED BY <1>2, <1>3, <1>4, <1>5 DEF Local

\* New servers are added.
LEMMA Widening ==
  ASSUME NEW s, NEW c, Good(s, c), Within(s, c), NEW k \in Nat, s.started + k <= MaxServers
  PROVE  LET t == [s EXCEPT !.servers = @ \o [n \in 1..k |-> NewServer], !.nActive = @ + k, !.started = @ + k]
         IN  Good(t, c) /\ Frame(s, t)
<1>1. s \in Pool /\ Apart(s) /\ Once(s, c) /\ s.nActive = Cardinality(Live(s)) /\ s.leaked \subseteq c.sub
      /\ \A j \in DOMAIN s.servers : Local(s.servers[j], j, c)
  BY DEF Good, Sound
<1>2. PICK new, q, a, b, n, t : /\ new = [j \in 1..k |-> NewServer] /\ q = s.servers \o new
                                /\ a = s.nActive + k /\ b = s.started + k /\ n = Len(s.servers)
                                /\ t = [s EXCEPT !.servers = @ \o [j \in 1..k |-> NewServer],
                                                 !.nActive = @ + k, !.started = @ + k]
  OBVIOUS
<1>3. /\ s.servers \in Seq(Server) /\ s.nActive \in Int /\ s.started \in 0..MaxServers /\ n \in Nat
      /\ DOMAIN s.servers = 1..n /\ MaxServers \in Nat
  BY <1>1, <1>2, PoolIs, Limits
<1>4. NewServer \in Server
  BY NewServerIs
<1>5. new \in Seq(Server) /\ Len(new) = k /\ \A j \in 1..k : new[j] = NewServer
  <2>1. new \in [1..k -> Server]
    BY <1>2, <1>4
  <2> QED BY <2>1, <1>2
<1>6. /\ q \in Seq(Server) /\ Len(q) = n + k /\ DOMAIN q = 1..(n + k)
      /\ \A j \in 1..(n + k) : q[j] = IF j <= n THEN s.servers[j] ELSE new[j - n]
  <2>1. /\ q \in Seq(Server) /\ Len(q) = n + k
        /\ \A j \in 1..(n + k) : q[j] = IF j <= n THEN s.servers[j] ELSE new[j - n]
    BY <1>2, <1>3, <1>5, ConcatProperties
  <2> QED BY <2>1
<1>7. \A j \in 1..n : j \in 1..(n + k) /\ q[j] = s.servers[j]
  BY <1>3, <1>6
<1>8. \A j \in 1..(n + k) : j \notin 1..n => q[j] = NewServer /\ j # 0
  <2> SUFFICES ASSUME NEW j \in 1..(n + k), j \notin 1..n PROVE q[j] = NewServer /\ j # 0
    OBVIOUS
  <2>1. ~(j <= n) /\ j - n \in 1..k /\ j # 0
    BY <1>3
  <2> QED BY <2>1, <1>5, <1>6
<1>9. t \in Pool /\ t.servers = q /\ t.nActive = a /\ t.queue = s.queue /\ t.answers = s.answers /\ t.leaked = s.leaked
  <2>1. a \in Int /\ b \in 0..MaxServers
    BY <1>2, <1>3
  <2>2. t = [s EXCEPT !.servers = q, !.nActive = a, !.started = b]
    BY <1>2
  <2> QED BY <2>1, <2>2, <1>1, <1>6 DEF Pool
<1>10. /\ DOMAIN s.servers = 1..n /\ DOMAIN t.servers = 1..(n + k)
       /\ \A j \in 1..n : j \in 1..(n + k) /\ t.servers[j] = s.servers[j]
       /\ \A j \in 1..(n + k) : j \notin 1..n => t.servers[j] = NewServer /\ Load(t.servers[j]) = {}
       /\ \A j \in 1..(n + k) : Local(t.servers[j], j, c)
  <2>1. \A j \in 1..(n + k) : j \notin 1..n => t.servers[j] = NewServer /\ j # c.extra /\ j # c.busy
    BY <1>3, <1>8, <1>9 DEF Within
  <2>2. \A j \in 1..(n + k) : j \notin 1..n => Load(t.servers[j]) = {} /\ Local(t.servers[j], j, c)
    BY <2>1, NewServerIs
  <2>3. \A j \in 1..n : j \in 1..(n + k) /\ t.servers[j] = s.servers[j] /\ Local(t.servers[j], j, c)
    BY <1>1, <1>3, <1>7, <1>9
  <2> QED BY <1>3, <1>6, <1>9, <2>1, <2>2, <2>3
<1>11. \A r : Held(t, r) <=> Held(s, r)
  BY <1>9, <1>10 DEF Held
<1>12. Apart(t)
  <2>1. \A j \in 1..(n + k) : Reqs(t.queue) \cap Load(t.servers[j]) = {}
    <3> SUFFICES ASSUME NEW j \in 1..(n + k) PROVE Reqs(t.queue) \cap Load(t.servers[j]) = {}
      OBVIOUS
    <3>1. CASE j \in 1..n
      BY <3>1, <1>1, <1>9, <1>10 DEF Apart
    <3>2. CASE j \notin 1..n
      BY <3>2, <1>10
    <3> QED BY <3>1, <3>2
  <2>2. \A j, l \in 1..(n + k) : j # l => Load(t.servers[j]) \cap Load(t.servers[l]) = {}
    <3> SUFFICES ASSUME NEW j \in 1..(n + k), NEW l \in 1..(n + k), j # l
                 PROVE  Load(t.servers[j]) \cap Load(t.servers[l]) = {}
      OBVIOUS
    <3>1. CASE j \in 1..n /\ l \in 1..n
      BY <3>1, <1>1, <1>9, <1>10 DEF Apart
    <3>2. CASE j \notin 1..n \/ l \notin 1..n
      BY <3>2, <1>10
    <3> QED BY <3>1, <3>2
  <2>3. Distinct(t.queue)
    BY <1>1, <1>9 DEF Apart
  <2> QED BY <2>1, <2>2, <2>3, <1>10 DEF Apart
<1>13. Once(t, c)
  BY <1>1, <1>9, <1>11 DEF Once
<1>14. t.nActive = Cardinality(Live(t))
  <2>1. Live(s) \subseteq 1..n
    BY <1>10 DEF Live
  <2>2. PICK A, B : A = Live(s) /\ B = (n + 1)..(n + k)
    OBVIOUS
  <2>3. Live(t) = A \cup B
    <3>1. \A j : j \in 1..(n + k) <=> j \in 1..n \/ j \in B
      BY <2>2, <1>3
    <3>2. \A j \in B : j \notin 1..n /\ j \in 1..(n + k)
      BY <2>2, <1>3
    <3>3. \A j \in B : ~t.servers[j].shutdown
      <4>1. ~NewServer.shutdown
        BY DEF NewServer
      <4> QED BY <4>1, <3>2, <1>10
    <3>4. \A j \in 1..n : j \in Live(t) <=> j \in A
      BY <2>2, <1>10 DEF Live
    <3> QED BY <2>1, <2>2, <3>1, <3>2, <3>3, <3>4, <1>10 DEF Live
  <2>4. IsFiniteSet(1..n)
    BY <1>3, FS_Interval
  <2>5. IsFiniteSet(A) /\ Cardinality(A) \in Nat
    BY <2>1, <2>2, <2>4, FS_Subset, FS_CardinalityType
  <2>6. IsFiniteSet(B) /\ Cardinality(B) = k
    <3>1. n + 1 \in Int /\ n + k \in Int
      BY <1>3
    <3>2. IsFiniteSet(B) /\ Cardinality(B) = IF n + 1 > n + k THEN 0 ELSE (n + k) - (n + 1) + 1
      BY <2>2, <3>1, FS_Interval
    <3> QED BY <3>2, <1>3
  <2>7. A \cap B = {}
    BY <2>1, <2>2, <1>3
  <2>8. Cardinality(A \cup B) = Cardinality(A) + Cardinality(B) - Cardinality(A \cap B)
    BY <2>5, <2>6, FS_Union
  <2>9. Cardinality(A \cap B) = 0
    BY <2>7, FS_EmptySet
  <2> QED BY <2>2, <2>3, <2>5, <2>6, <2>8, <2>9, <1>1, <1>2, <1>9
<1>15. Good(t, c)
  BY <1>1, <1>9, <1>10, <1>12, <1>13, <1>14 DEF Good, Sound
<1>16. Frame(s, t)
  <2> SUFFICES ASSUME NEW j \in 1..n
               PROVE  j \in 1..(n + k) /\ t.servers[j] = s.servers[j] /\ Len(s.servers[j].requests) >= Len(s.servers[j].requests)
    BY <1>10 DEF Frame
  <2>1. s.servers[j].requests \in Seq(Xaction)
    BY <1>1, <1>10, PoolIs, ServerIs
  <2>2. Len(s.servers[j].requests) \in Nat
    BY <2>1
  <2> QED BY <2>2, <1>10
<1> QED BY <1>2, <1>15, <1>16

\* What helperOpenServers() may lead to.
LEMMA Opening ==
  ASSUME NEW s, NEW c, Good(s, c), Within(s, c), NEW u \in helperOpenServers(s)
  PROVE  Good(u, c) /\ Frame(s, u)
<1>1. s \in Pool
  BY DEF Good, Sound
<1>2. PICK k \in {n \in 0..Max({0, needNew(s)}) : s.started + n <= MaxServers} :
         u = helperKickQueue([s EXCEPT !.servers = @ \o [n \in 1..k |-> NewServer], !.nActive = @ + k, !.started = @ + k])
  BY DEF helperOpenServers
<1>3. Max({0, needNew(s)}) \in Int
  <2>1. needNew(s) \in Int
    BY <1>1, PoolIs, Limits DEF needNew
  <2> DEFINE m == needNew(s)
  <2> HIDE DEF m
  <2>2. m \in Int
    BY <2>1 DEF m
  <2>3. \E x \in {0, m} : \A y \in {0, m} : x >= y
    BY <2>2
  <2>4. Max({0, m}) \in {0, m}
    BY <2>3 DEF Max
  <2> QED BY <2>2, <2>4 DEF m
<1>4. k \in Nat /\ s.started + k <= MaxServers
  BY <1>2, <1>3
<1>5. PICK t : t = [s EXCEPT !.servers = @ \o [n \in 1..k |-> NewServer], !.nActive = @ + k, !.started = @ + k]
  OBVIOUS
<1>6. Good(t, c) /\ Frame(s, t)
  BY <1>4, <1>5, Widening
<1>7. u = helperKickQueue(t)
  BY <1>2, <1>5
<1>8. Good(u, c) /\ Frame(t, u)
  BY <1>6, <1>7, KickQueue
<1>9. t \in Pool /\ u \in Pool
  BY <1>6, <1>8 DEF Good, Sound
<1> QED BY <1>1, <1>6, <1>8, <1>9, FrameTrans

\* The time of an overload is noted.
LEMMA Syncing ==
  ASSUME NEW s, NEW c, Good(s, c)
  PROVE  /\ Good(syncQueueStats(s), c) /\ Frame(s, syncQueueStats(s))
         /\ syncQueueStats(s).servers = s.servers
         /\ \A r : InHand(s, r, c) => InHand(syncQueueStats(s), r, c)
<1>1. s \in Pool
  BY DEF Good, Sound
<1>2. PICK b, t : b = overloaded(s) /\ t = [s EXCEPT !.overloadStart = b]
  OBVIOUS
<1>3. syncQueueStats(s) = t
  BY <1>2 DEF syncQueueStats
<1>4. b \in BOOLEAN
  BY <1>2 DEF overloaded
<1>5. /\ t \in Pool /\ t.queue = s.queue /\ t.servers = s.servers /\ t.nActive = s.nActive
      /\ t.answers = s.answers /\ t.leaked = s.leaked
  BY <1>1, <1>2, <1>4 DEF Pool
<1>6. Distinct(t.queue) /\ \A r \in Reqs(t.queue) : r \in Reqs(s.queue)
  BY <1>5 DEF Good, Sound, Apart
<1>7. Good(t, c)
  BY <1>5, <1>6, QueueChanges
<1>8. Frame(s, t)
  BY <1>1, <1>5, FrameSame
<1>9. \A r : InHand(s, r, c) => InHand(t, r, c)
  BY <1>5 DEF InHand, Held
<1> QED BY <1>3, <1>5, <1>7, <1>8, <1>9

\* A request in hand is queued.
LEMMA Queueing ==
  ASSUME NEW s, NEW c, Good(s, c), Within(s, c), NEW x \in Xaction, InHand(s, x.req, c), NEW u \in Enqueue(s, x)
  PROVE  Good(u, c) /\ Frame(s, u)
<1>1. s \in Pool /\ s.queue \in Seq(Xaction) /\ Distinct(s.queue)
  <2>1. s \in Pool /\ Distinct(s.queue)
    BY DEF Good, Sound, Apart
  <2> QED BY <2>1, PoolIs
<1>2. PICK q, t : q = Append(s.queue, x) /\ t = [s EXCEPT !.queue = q]
  OBVIOUS
<1>3. u \in IF needNew(t) > 0 THEN helperOpenServers(t) ELSE {t}
  BY <1>2 DEF Enqueue
<1>4. /\ q \in Seq(Xaction) /\ Reqs(q) = Reqs(s.queue) \cup {x.req}
      /\ Distinct(s.queue) /\ x.req \notin Reqs(s.queue) => Distinct(q)
  BY <1>1, <1>2, Appending
<1>5. /\ t \in Pool /\ t.queue = q /\ t.servers = s.servers /\ t.nActive = s.nActive
      /\ t.answers = s.answers /\ t.leaked = s.leaked
  BY <1>1, <1>2, <1>4 DEF Pool
<1>6. x.req \notin Reqs(s.queue)
  BY DEF InHand, Held
<1>7. Good(t, c)
  <2>1. Distinct(t.queue) /\ \A r \in Reqs(t.queue) : r \in Reqs(s.queue) \/ InHand(s, r, c)
    BY <1>1, <1>4, <1>5, <1>6
  <2> QED BY <2>1, <1>5, QueueChanges
<1>8. Frame(s, t)
  BY <1>1, <1>5, FrameSame
<1>9. Within(t, c)
  BY <1>5 DEF Within
<1>10. CASE u \in helperOpenServers(t)
  <2>1. Good(u, c) /\ Frame(t, u)
    BY <1>7, <1>9, <1>10, Opening
  <2>2. u \in Pool
    BY <2>1 DEF Good, Sound
  <2> QED BY <2>1, <2>2, <1>1, <1>5, <1>8, FrameTrans
<1>11. CASE u = t
  BY <1>7, <1>8, <1>11
<1> QED BY <1>3, <1>10, <1>11

\* A request in hand is submitted, the first time or again.
LEMMA Submitting ==
  ASSUME NEW s, NEW c, Good(s, c), Within(s, c), NEW x \in Xaction, InHand(s, x.req, c), NEW u \in submitRequest(s, x)
  PROVE  Good(u, c) /\ Frame(s, u)
<1>1. s \in Pool
  BY DEF Good, Sound
<1>2. PICK i : i = GetFirstAvailable(s)
  OBVIOUS
<1>3. PICK t \in IF i # 0 THEN {helperDispatch(s, i, x)} ELSE Enqueue(s, x) : u = syncQueueStats(t)
  BY <1>2 DEF submitRequest
<1>4. Good(t, c) /\ Frame(s, t)
  <2>1. CASE i = 0
    <3>1. t \in Enqueue(s, x)
      BY <2>1, <1>3
    <3> QED BY <3>1, Queueing
  <2>2. CASE i # 0
    <3>1. t = helperDispatch(s, i, x)
      BY <2>2, <1>3
    <3>2. i \in DOMAIN s.servers /\ s.servers[i].pending < Concurrency
      BY <2>2, <1>1, <1>2, FirstAvailable
    <3> QED BY <3>1, <3>2, Dispatching
  <2> QED BY <2>1, <2>2
<1>5. Good(u, c) /\ Frame(t, u)
  BY <1>3, <1>4, Syncing
<1>6. t \in Pool /\ u \in Pool
  BY <1>4, <1>5 DEF Good, Sound
<1> QED BY <1>1, <1>4, <1>5, <1>6, FrameTrans

-----------------------------------------------------------------------------
(* Changes of one server *)

With(s, i, w) == [s EXCEPT !.servers[i] = w]

\* One server is replaced.
LEMMA Replacing ==
  ASSUME NEW s \in Pool, NEW i \in DOMAIN s.servers, NEW w \in Server
  PROVE  /\ With(s, i, w) \in Pool /\ With(s, i, w).queue = s.queue /\ With(s, i, w).nActive = s.nActive
         /\ With(s, i, w).answers = s.answers /\ With(s, i, w).leaked = s.leaked
         /\ DOMAIN With(s, i, w).servers = DOMAIN s.servers /\ With(s, i, w).servers[i] = w
         /\ \A k \in DOMAIN s.servers \ {i} : With(s, i, w).servers[k] = s.servers[k]
<1>1. PICK q, t : q = [s.servers EXCEPT ![i] = w] /\ t = With(s, i, w)
  OBVIOUS
<1>2. t = [s EXCEPT !.servers = q]
  BY <1>1 DEF With
<1>3. s.servers \in Seq(Server)
  BY PoolIs
<1>4. /\ q \in Seq(Server) /\ DOMAIN q = DOMAIN s.servers /\ q[i] = w
      /\ \A k \in DOMAIN s.servers \ {i} : q[k] = s.servers[k]
  BY <1>1, <1>3
<1>5. /\ t \in Pool /\ t.servers = q /\ t.queue = s.queue /\ t.nActive = s.nActive
      /\ t.answers = s.answers /\ t.leaked = s.leaked
  BY <1>2, <1>4 DEF Pool
<1> QED BY <1>1, <1>4, <1>5

\* The same for the rest of what a pool keeps of its servers.
LEMMA ReplacingFrame ==
  ASSUME NEW s \in Pool, NEW i \in DOMAIN s.servers, NEW w \in Server,
         w.shutdown = s.servers[i].shutdown, Len(w.requests) >= Len(s.servers[i].requests)
  PROVE  Frame(s, With(s, i, w))
<1>1. PICK t : t = With(s, i, w)
  OBVIOUS
<1>2. DOMAIN t.servers = DOMAIN s.servers /\ t.servers[i] = w /\ \A k \in DOMAIN s.servers \ {i} : t.servers[k] = s.servers[k]
  BY <1>1, Replacing
<1> SUFFICES ASSUME NEW k \in DOMAIN s.servers
             PROVE  /\ k \in DOMAIN t.servers /\ t.servers[k].shutdown = s.servers[k].shutdown
                    /\ Len(t.servers[k].requests) >= Len(s.servers[k].requests)
  BY <1>1 DEF Frame
<1>3. CASE k = i
  BY <1>2, <1>3
<1>4. CASE k # i
  <2>1. s.servers[k].requests \in Seq(Xaction)
    BY PoolIs, ServerIs
  <2>2. Len(s.servers[k].requests) \in Nat
    BY <2>1
  <2> QED BY <2>2, <1>2, <1>4
<1> QED BY <1>3, <1>4

\* The pipes of a server are closed.
LEMMA Shutting ==
  ASSUME NEW v \in Server
  PROVE  LET w == closePipes(v)
         IN  /\ w \in Server /\ w.requests = v.requests /\ w.pending = v.pending /\ w.shutdown = v.shutdown
             /\ w.closing = TRUE /\ w.replyXaction = v.replyXaction /\ w.nextRequestId = v.nextRequestId
             /\ w.inbox = {} /\ w.msg = Nil
             /\ Load(w) = Load(v)
             /\ \A k, c : Local(v, k, c) => Local(w, k, c)
<1>1. PICK w : w = [v EXCEPT !.closing = TRUE, !.inbox = {}, !.msg = Nil]
  OBVIOUS
<1>2. w = closePipes(v)
  BY <1>1 DEF closePipes
<1>3. /\ w \in Server /\ w.requests = v.requests /\ w.pending = v.pending /\ w.shutdown = v.shutdown
      /\ w.closing = TRUE /\ w.replyXaction = v.replyXaction /\ w.nextRequestId = v.nextRequestId
      /\ w.inbox = {} /\ w.msg = Nil
  BY <1>1 DEF Server
<1>4. Load(w) = Load(v)
  BY <1>3 DEF Load
<1>5. ASSUME NEW k, NEW c, Local(v, k, c) PROVE Local(w, k, c)
  <2>1. Counted(v, k, c) /\ Own(v) /\ Numbered(v) /\ Talks(v, k, c)
    BY <1>5 DEF Local
  <2>2. Counted(w, k, c)
    BY <2>1, <1>3 DEF Counted
  <2>3. Own(w)
    BY <2>1, <1>3 DEF Own
  <2>4. Numbered(w)
    BY <2>1, <1>3 DEF Numbered
  <2>5. Talks(w, k, c)
    BY <2>1, <1>3 DEF Talks
  <2> QED BY <2>2, <2>3, <2>4, <2>5 DEF Local
<1> QED BY <1>2, <1>3, <1>4, <1>5

\* The pipes of a server of a pool are closed.
LEMMA ClosingPipes ==
  ASSUME NEW s, NEW c, Good(s, c), NEW i \in DOMAIN s.servers
  PROVE  Good(closePipesSafely(s, i), c) /\ Frame(s, closePipesSafely(s, i))
<1>1. s \in Pool /\ \A k \in DOMAIN s.servers : Local(s.servers[k], k, c)
  BY DEF Good, Sound
<1>2. PICK v, w, t : v = s.servers[i] /\ w = closePipes(v) /\ t = With(s, i, w)
  OBVIOUS
<1>3. closePipesSafely(s, i) = t
  BY <1>2 DEF closePipesSafely, With
<1>4. v \in Server /\ v.requests \in Seq(Xaction) /\ Local(v, i, c)
  BY <1>1, <1>2, PoolIs, ServerIs
<1>5. w \in Server /\ w.shutdown = v.shutdown /\ w.requests = v.requests /\ Load(w) = Load(v) /\ Local(w, i, c)
  BY <1>2, <1>4, Shutting
<1>6. /\ t \in Pool /\ t.queue = s.queue /\ t.nActive = s.nActive /\ t.answers = s.answers /\ t.leaked = s.leaked
      /\ DOMAIN t.servers = DOMAIN s.servers /\ t.servers[i] = w
      /\ \A k \in DOMAIN s.servers \ {i} : t.servers[k] = s.servers[k]
  BY <1>1, <1>2, <1>5, Replacing
<1>7. w.shutdown = s.servers[i].shutdown /\ \A r \in Load(w) : r \in Load(s.servers[i]) \/ InHand(s, r, c)
  BY <1>2, <1>5
<1>8. Good(t, c)
  BY <1>1, <1>5, <1>6, <1>7, ServerChanges
<1>9. Len(w.requests) >= Len(s.servers[i].requests)
  <2>1. Len(v.requests) \in Nat
    BY <1>4
  <2> QED BY <2>1, <1>2, <1>5
<1>10. Frame(s, t)
  BY <1>1, <1>2, <1>5, <1>7, <1>9, ReplacingFrame
<1> QED BY <1>3, <1>8, <1>10

-----------------------------------------------------------------------------
(* Timeouts *)

\* The context in which a server counts one request too many.
Over(c, i) == [sub |-> c.sub, extra |-> i, busy |-> c.busy, msg |-> c.msg, whole |-> c.whole]

\* What that context is.
LEMMA OverIs ==
  ASSUME NEW c, NEW i
  PROVE  /\ Over(c, i).sub = c.sub /\ Over(c, i).extra = i /\ Over(c, i).busy = c.busy
         /\ Over(c, i).msg = c.msg /\ Over(c, i).whole = c.whole
BY DEF Over

\* The other servers count as before.
LEMMA OverOthers ==
  ASSUME NEW c, NEW i, NEW k, k # i, k # c.extra, NEW v
  PROVE  Local(v, k, c) <=> Local(v, k, Over(c, i))
<1>1. /\ Over(c, i).sub = c.sub /\ Over(c, i).extra = i /\ Over(c, i).busy = c.busy
      /\ Over(c, i).msg = c.msg /\ Over(c, i).whole = c.whole
  BY OverIs
<1>2. Counted(v, k, c) <=> Counted(v, k, Over(c, i))
  BY <1>1 DEF Counted
<1>3. Talks(v, k, c) <=> Talks(v, k, Over(c, i))
  BY <1>1 DEF Talks
<1> QED BY <1>2, <1>3 DEF Local

\* The oldest request is taken out and still counted.
LEMMA Popping ==
  ASSUME NEW v \in Server, NEW k, NEW c, Local(v, k, c), k # c.extra, v.requests # <<>>
  PROVE  LET w == [v EXCEPT !.requests = Tail(@)]
             x == Head(v.requests)
         IN  /\ w \in Server /\ Local(w, k, Over(c, k)) /\ w.shutdown = v.shutdown
             /\ w.requests = Tail(v.requests)
             /\ x \in Xaction /\ x.req \in Load(v) /\ x.req \notin Load(w) /\ Load(w) \subseteq Load(v)
<1>1. /\ Over(c, k).sub = c.sub /\ Over(c, k).extra = k /\ Over(c, k).busy = c.busy
      /\ Over(c, k).msg = c.msg /\ Over(c, k).whole = c.whole
  BY OverIs
<1>2. PICK q, u, x, w : q = v.requests /\ u = Tail(q) /\ x = Head(q) /\ w = [v EXCEPT !.requests = u]
  OBVIOUS
<1>3. q \in Seq(Xaction) /\ v.pending \in Nat
  BY <1>2, ServerIs
<1>4. /\ u \in Seq(Xaction) /\ Len(u) = Len(q) - 1 /\ Len(q) \in Nat /\ x \in Xaction
      /\ Reqs(q) = {x.req} \cup Reqs(u)
      /\ Distinct(q) => Distinct(u) /\ x.req \notin Reqs(u)
      /\ \A a \in DOMAIN u : a + 1 \in DOMAIN q /\ u[a] = q[a + 1]
  BY <1>2, <1>3, Taking
<1>5. /\ w \in Server /\ w.requests = u /\ w.pending = v.pending /\ w.shutdown = v.shutdown
      /\ w.closing = v.closing /\ w.ignoreToEom = v.ignoreToEom /\ w.replyXaction = v.replyXaction
      /\ w.nextRequestId = v.nextRequestId /\ w.inbox = v.inbox /\ w.msg = v.msg
  BY <1>2, <1>4 DEF Server
<1>6. Counted(v, k, c) /\ Own(v) /\ Numbered(v) /\ Talks(v, k, c)
  BY DEF Local
<1>7. Counted(w, k, Over(c, k))
  <2>1. PICK n, e : n = Len(q) /\ e = IF v.replyXaction = Nil THEN 0 ELSE 1
    OBVIOUS
  <2>2. n \in Nat /\ e \in Nat
    BY <2>1, <1>4
  <2>3. v.pending = n + e + 0 /\ v.pending <= Concurrency
    BY <2>1, <1>2, <1>6 DEF Counted
  <2>4. Len(u) = n - 1
    BY <2>1, <1>4
  <2>5. w.pending = Len(u) + e + 1
    BY <2>2, <2>3, <2>4, <1>5
  <2> QED BY <2>1, <2>3, <2>5, <1>1, <1>5 DEF Counted
<1>8. Own(w)
  BY <1>2, <1>4, <1>5, <1>6 DEF Own
<1>9. Numbered(w)
  <2>0. \A a \in DOMAIN u : a \in Nat
    BY <1>4
  <2>1. \A z : Known(v, z) => Known(w, z)
    BY <1>2, <1>4, <1>5 DEF Known
  <2>2. ASSUME NEW a \in DOMAIN u, NEW b \in DOMAIN u, u[a].id = u[b].id PROVE a = b
    <3>1. a + 1 = b + 1
      BY <2>2, <1>2, <1>4, <1>6 DEF Numbered
    <3> QED BY <3>1, <2>0
  <2>3. \A a \in DOMAIN u : u[a].id <= w.nextRequestId
    BY <1>2, <1>4, <1>5, <1>6 DEF Numbered
  <2> QED BY <2>1, <2>2, <2>3, <1>5, <1>6 DEF Numbered
<1>10. Talks(w, k, Over(c, k))
  BY <1>1, <1>5, <1>6 DEF Talks
<1>11. x.req \in Load(v) /\ x.req \notin Load(w) /\ Load(w) \subseteq Load(v)
  BY <1>2, <1>4, <1>5, <1>6 DEF Load, Own
<1> QED BY <1>2, <1>4, <1>5, <1>7, <1>8, <1>9, <1>10, <1>11 DEF Local

\* The request that was taken out is not counted any more.
LEMMA Discounting ==
  ASSUME NEW v \in Server, NEW k, NEW c, Local(v, k, Over(c, k)), k # c.extra
  PROVE  LET w == [v EXCEPT !.pending = @ - 1, !.timedout = TRUE]
         IN  /\ w \in Server /\ Local(w, k, c) /\ w.shutdown = v.shutdown
             /\ w.requests = v.requests /\ Load(w) = Load(v)
<1>1. /\ Over(c, k).sub = c.sub /\ Over(c, k).extra = k /\ Over(c, k).busy = c.busy
      /\ Over(c, k).msg = c.msg /\ Over(c, k).whole = c.whole
  BY OverIs
<1>2. Counted(v, k, Over(c, k)) /\ Own(v) /\ Numbered(v) /\ Talks(v, k, Over(c, k))
  BY DEF Local
<1>3. PICK p, w : p = v.pending - 1 /\ w = [v EXCEPT !.pending = p, !.timedout = TRUE]
  OBVIOUS
<1>4. PICK n, e : n = Len(v.requests) /\ e = IF v.replyXaction = Nil THEN 0 ELSE 1
  OBVIOUS
<1>5. n \in Nat /\ e \in Nat /\ v.pending \in Nat /\ Concurrency \in Nat
  BY <1>4, ServerIs, Limits
<1>6. v.pending = n + e + 1 /\ v.pending <= Concurrency
  BY <1>1, <1>2, <1>4 DEF Counted
<1>7. p \in Nat /\ p = n + e + 0 /\ p <= Concurrency
  BY <1>3, <1>5, <1>6
<1>8. /\ w \in Server /\ w.requests = v.requests /\ w.pending = p /\ w.shutdown = v.shutdown
      /\ w.closing = v.closing /\ w.ignoreToEom = v.ignoreToEom /\ w.replyXaction = v.replyXaction
      /\ w.nextRequestId = v.nextRequestId /\ w.inbox = v.inbox /\ w.msg = v.msg
  BY <1>3, <1>7 DEF Server
<1>9. Counted(w, k, c)
  BY <1>4, <1>7, <1>8 DEF Counted
<1>10. Own(w) /\ Numbered(w) /\ Load(w) = Load(v)
  BY <1>2, <1>8 DEF Own, Numbered, Known, Load
<1>11. Talks(w, k, c)
  BY <1>1, <1>2, <1>8 DEF Talks
<1> QED BY <1>3, <1>8, <1>9, <1>10, <1>11 DEF Local

\* A request is retried.
LEMMA Retrying ==
  ASSUME NEW x \in Xaction, x.retries < MAX_RETRIES
  PROVE  LET y == [x EXCEPT !.retries = @ + 1] IN y \in Xaction /\ y.req = x.req
BY Limits DEF Xaction

\* One round of checkForTimedOutRequests().
LEMMA Expiring ==
  ASSUME NEW s, NEW c, Good(s, c), Within(s, c), c.extra = 0,
         NEW i \in DOMAIN s.servers, s.servers[i].requests # <<>>, NEW u \in ExpireFront(s, i)
  PROVE  /\ Good(u, c) /\ \A k \in DOMAIN s.servers : k \in DOMAIN u.servers
         /\ Len(u.servers[i].requests) >= Len(s.servers[i].requests) - 1
<1>1. s \in Pool /\ \A k \in DOMAIN s.servers : Local(s.servers[k], k, c) /\ k # 0
  <2>1. s \in Pool /\ \A k \in DOMAIN s.servers : Local(s.servers[k], k, c)
    BY DEF Good, Sound
  <2> QED BY <2>1, PoolIs
<1>2. PICK v, w, x, p, d : /\ v = s.servers[i] /\ w = [v EXCEPT !.requests = Tail(@)] /\ x = Head(v.requests)
                           /\ p = With(s, i, w) /\ d = Over(c, i)
  OBVIOUS
<1>3. v \in Server /\ Local(v, i, c) /\ i # c.extra /\ v.requests \in Seq(Xaction) /\ v.requests # <<>>
  BY <1>1, <1>2, PoolIs, ServerIs
<1>4. /\ w \in Server /\ Local(w, i, d) /\ w.shutdown = v.shutdown /\ w.requests = Tail(v.requests)
      /\ x \in Xaction /\ x.req \in Load(v) /\ x.req \notin Load(w) /\ Load(w) \subseteq Load(v)
  BY <1>2, <1>3, Popping
<1>5. /\ p \in Pool /\ p.queue = s.queue /\ p.nActive = s.nActive /\ p.answers = s.answers /\ p.leaked = s.leaked
      /\ DOMAIN p.servers = DOMAIN s.servers /\ p.servers[i] = w
      /\ \A k \in DOMAIN s.servers \ {i} : p.servers[k] = s.servers[k]
  <2>1. p = With(s, i, w)
    BY <1>2, Zenon
  <2> QED BY <2>1, <1>1, <1>4, Replacing
<1>6. d.sub = c.sub /\ d.extra = i /\ d.busy = c.busy /\ d.msg = c.msg /\ d.whole = c.whole
  BY <1>2, OverIs
<1>7. \A k \in DOMAIN s.servers \ {i} : Local(s.servers[k], k, d)
  BY <1>1, <1>2, OverOthers
<1>8. w.shutdown = s.servers[i].shutdown /\ \A r \in Load(w) : r \in Load(s.servers[i]) \/ InHand(s, r, c)
  BY <1>2, <1>4
<1>9. x.req \in Load(s.servers[i])
  BY <1>2, <1>4
<1>10. Good(p, d) /\ InHand(p, x.req, d)
  BY <1>4, <1>5, <1>6, <1>7, <1>8, <1>9, ServerChanges
<1>11. Within(p, d)
  BY <1>5, <1>6 DEF Within
<1> DEFINE retry == RetryTimedOut /\ x.retries < MAX_RETRIES /\ x.req \notin gone
           y == [x EXCEPT !.retries = @ + 1]
<1>12. PICK t \in IF retry THEN submitRequest(p, y) ELSE {Callback(p, x.req, "TimedOut")} :
            u = [t EXCEPT !.servers[i].pending = @ - 1, !.servers[i].timedout = TRUE]
  <2>1. p = [s EXCEPT !.servers[i].requests = Tail(@)]
    BY <1>2 DEF With
  <2> QED BY <2>1, <1>2, ZenonT(30) DEF ExpireFront
<1>13. Good(t, d) /\ Frame(p, t)
  <2>1. CASE retry
    <3>1. y \in Xaction /\ y.req = x.req
      BY <2>1, <1>4, Retrying
    <3>2. t \in submitRequest(p, y)
      BY <2>1, <1>12
    <3> HIDE DEF y
    <3> QED BY <3>1, <3>2, <1>10, <1>11, Submitting
  <2>2. CASE ~retry
    <3>1. t = Callback(p, x.req, "TimedOut")
      BY <2>2, <1>12
    <3>2. x.req \in Requests /\ "TimedOut" \in Answers /\ "TimedOut" # "other"
      BY <1>4, XactionIs DEF Answers
    <3>3. Good(t, d) /\ t.servers = p.servers
      BY <3>1, <3>2, <1>10, CallsBackGood
    <3> QED BY <3>3, <1>5, FrameSame
  <2> QED BY <2>1, <2>2
<1> HIDE DEF retry, y
<1>14. t \in Pool /\ i \in DOMAIN t.servers /\ \A k \in DOMAIN t.servers : Local(t.servers[k], k, d) /\ k # 0
  <2>1. t \in Pool /\ i \in DOMAIN t.servers /\ \A k \in DOMAIN t.servers : Local(t.servers[k], k, d)
    BY <1>5, <1>13 DEF Good, Sound, Frame
  <2> QED BY <2>1, PoolIs
<1>15. PICK z, m : z = t.servers[i] /\ m = [z EXCEPT !.pending = @ - 1, !.timedout = TRUE]
  OBVIOUS
<1>16. u = With(t, i, m)
  BY <1>12, <1>15 DEF With
<1>17. z \in Server /\ Local(z, i, Over(c, i)) /\ z.requests \in Seq(Xaction)
  BY <1>2, <1>14, <1>15, PoolIs, ServerIs
<1>18. m \in Server /\ Local(m, i, c) /\ m.shutdown = z.shutdown /\ m.requests = z.requests /\ Load(m) = Load(z)
  BY <1>3, <1>15, <1>17, Discounting
<1>19. /\ u \in Pool /\ u.queue = t.queue /\ u.nActive = t.nActive /\ u.answers = t.answers /\ u.leaked = t.leaked
       /\ DOMAIN u.servers = DOMAIN t.servers /\ u.servers[i] = m
       /\ \A k \in DOMAIN t.servers \ {i} : u.servers[k] = t.servers[k]
  BY <1>14, <1>16, <1>18, Replacing
<1>20. \A k \in DOMAIN t.servers \ {i} : Local(t.servers[k], k, c)
  BY <1>2, <1>14, OverOthers
<1>21. m.shutdown = t.servers[i].shutdown /\ \A r \in Load(m) : r \in Load(t.servers[i]) \/ InHand(t, r, d)
  BY <1>15, <1>18
<1>22. Good(u, c)
  BY <1>6, <1>13, <1>14, <1>18, <1>19, <1>20, <1>21, ServerChanges
<1>23. Len(u.servers[i].requests) >= Len(s.servers[i].requests) - 1
  <2>1. PICK a, b, e : a = Len(v.requests) /\ b = Len(w.requests) /\ e = Len(z.requests)
    OBVIOUS
  <2>2. a \in Nat /\ b = a - 1
    BY <2>1, <1>3, <1>4, Taking
  <2>3. e \in Nat
    BY <2>1, <1>17
  <2>4. e >= b
    BY <2>1, <1>5, <1>13, <1>15 DEF Frame
  <2> QED BY <2>1, <2>2, <2>3, <2>4, <1>2, <1>18, <1>19
<1> QED BY <1>5, <1>13, <1>19, <1>22, <1>23 DEF Frame

\* The rounds of checkForTimedOutRequests().
RoundStep(T, i) == UNION {ExpireFront(t, i) : t \in T}
Rounds(h, B, i, m) == h = [n \in 0..m |-> IF n = 0 THEN B ELSE RoundStep(h[n - 1], i)]

\* The rounds are defined.
LEMMA RoundsExist ==
  ASSUME NEW B, NEW i, NEW m \in Nat
  PROVE  \E h : Rounds(h, B, i, m)
<1> DEFINE S == {n \in Nat : \E h : Rounds(h, B, i, n)}
<1>1. 0 \in S
  <2>1. Rounds([n \in 0..0 |-> B], B, i, 0)
    BY DEF Rounds
  <2> QED BY <2>1
<1>2. ASSUME NEW n \in Nat, n \in S PROVE n + 1 \in S
  <2>1. PICK g : Rounds(g, B, i, n)
    BY <1>2
  <2> DEFINE h == [k \in 0..(n + 1) |-> IF k = 0 THEN B ELSE RoundStep(g[k - 1], i)]
  <2>2. \A k \in 0..n : h[k] = g[k]
    BY <2>1 DEF Rounds
  <2>3. \A k \in 0..(n + 1) : k # 0 => k - 1 \in 0..n
    OBVIOUS
  <2>4. h = [k \in 0..(n + 1) |-> IF k = 0 THEN B ELSE RoundStep(h[k - 1], i)]
    BY <2>2, <2>3
  <2>5. Rounds(h, B, i, n + 1)
    BY <2>4 DEF Rounds
  <2> QED BY <2>5
<1>3. Nat \subseteq S
  <2> HIDE DEF S
  <2> QED BY <1>1, <1>2, NatSetInduction
<1> QED BY <1>3

\* The requests that have waited too long are retried or called back.
LEMMA Checking ==
  ASSUME NEW s, NEW c, Good(s, c), Within(s, c), c.extra = 0, NEW i \in DOMAIN s.servers,
         NEW u \in checkForTimedOutRequests(s, i)
  PROVE  Good(u, c) /\ \A k \in DOMAIN s.servers : k \in DOMAIN u.servers
<1>1. s \in Pool
  BY DEF Good, Sound
<1>2. PICK m : m = Len(s.servers[i].requests)
  OBVIOUS
<1>3. m \in Nat
  BY <1>1, <1>2, PoolIs, ServerIs
<1> DEFINE g == CHOOSE h : Rounds(h, {s}, i, m)
<1>4. Rounds(g, {s}, i, m)
  BY <1>3, RoundsExist
<1>5. checkForTimedOutRequests(s, i) = UNION {g[n] : n \in 0..m}
  BY <1>2 DEF checkForTimedOutRequests, Rounds, RoundStep
<1> HIDE DEF g
<1>6. g[0] = {s} /\ \A n \in 0..m : n # 0 => g[n] = RoundStep(g[n - 1], i)
  <2>1. 0 \in 0..m
    BY <1>3
  <2>2. g = [n \in 0..m |-> IF n = 0 THEN {s} ELSE RoundStep(g[n - 1], i)]
    BY <1>4 DEF Rounds
  <2>3. \A n \in 0..m : g[n] = IF n = 0 THEN {s} ELSE RoundStep(g[n - 1], i)
    BY <2>2
  <2> QED BY <2>1, <2>3
<1> DEFINE P(t, n) == /\ Good(t, c) /\ \A k \in DOMAIN s.servers : k \in DOMAIN t.servers
                      /\ Len(t.servers[i].requests) >= m - n
           S == {n \in Nat : n <= m => \A t \in g[n] : P(t, n)}
<1>7. 0 \in S
  BY <1>2, <1>3, <1>6
<1>8. ASSUME NEW n \in Nat, n \in S PROVE n + 1 \in S
  <2> SUFFICES ASSUME n + 1 <= m, NEW w \in g[n + 1] PROVE P(w, n + 1)
    OBVIOUS
  <2>1. n <= m /\ n + 1 \in 0..m /\ n + 1 # 0 /\ (n + 1) - 1 = n
    BY <1>3
  <2>2. PICK t \in g[n] : w \in ExpireFront(t, i)
    <3>1. g[n + 1] = RoundStep(g[n], i)
      BY <2>1, <1>6
    <3> QED BY <3>1 DEF RoundStep
  <2>3. P(t, n)
    BY <2>1, <1>8
  <2>4. t \in Pool /\ i \in DOMAIN t.servers
    BY <2>3 DEF Good, Sound
  <2>5. t.servers[i].requests \in Seq(Xaction)
    BY <2>4, PoolIs, ServerIs
  <2>6. PICK a : a = Len(t.servers[i].requests)
    OBVIOUS
  <2>7. a \in Nat /\ a >= m - n
    BY <2>3, <2>5, <2>6
  <2>8. t.servers[i].requests # <<>>
    <3>1. a # 0
      BY <2>7, <1>3
    <3> QED BY <3>1, <2>6
  <2>9. Within(t, c)
    BY <2>3 DEF Within
  <2>10. /\ Good(w, c) /\ \A k \in DOMAIN t.servers : k \in DOMAIN w.servers
         /\ Len(w.servers[i].requests) >= Len(t.servers[i].requests) - 1
    BY <2>2, <2>3, <2>4, <2>8, <2>9, Expiring
  <2>11. w \in Pool /\ i \in DOMAIN w.servers
    BY <2>4, <2>10 DEF Good, Sound
  <2>12. PICK b : b = Len(w.servers[i].requests)
    OBVIOUS
  <2>13. b \in Nat
    BY <2>11, <2>12, PoolIs, ServerIs
  <2>14. b >= m - (n + 1)
    BY <2>6, <2>7, <2>10, <2>12, <2>13, <1>3, SMTT(30)
  <2> QED BY <2>3, <2>10, <2>12, <2>14
<1>9. Nat \subseteq S
  <2> HIDE DEF S
  <2> QED BY <1>7, <1>8, NatSetInduction
<1>10. PICK n \in 0..m : u \in g[n]
  BY <1>5
<1>11. n \in S /\ n <= m
  BY <1>3, <1>9, <1>10
<1> QED BY <1>10, <1>11

-----------------------------------------------------------------------------
(* Replies *)

\* The end of helperReturnBuffer().
LEMMA Finishing ==
  ASSUME NEW s, NEW c, Good(s, c), NEW i \in DOMAIN s.servers
  PROVE  Good(AfterReply(s, i), c) /\ \A k \in DOMAIN s.servers : k \in DOMAIN AfterReply(s, i).servers
<1>1. AfterReply(s, i) \in {helperKickQueue(s), closePipesSafely(s, i), s}
  BY DEF AfterReply
<1>2. CASE AfterReply(s, i) = helperKickQueue(s)
  BY <1>2, KickQueue DEF Frame
<1>3. CASE AfterReply(s, i) = closePipesSafely(s, i)
  BY <1>3, ClosingPipes DEF Frame
<1>4. CASE AfterReply(s, i) = s
  BY <1>4
<1> QED BY <1>1, <1>2, <1>3, <1>4

\* A server that has read a number.
Parsed(v, number) == IF ~v.ignoreToEom /\ v.replyXaction = Nil THEN popRequest(v, number) ELSE v

\* The next thing that a server reads may be of the reply to x.
Readable(v, k, c, x, number) ==
  /\ v \in Server /\ Local(v, k, c) /\ k # c.busy /\ v.closing = FALSE
  /\ x \in Xaction /\ Known(v, x) /\ (v.msg = Nil \/ x = v.msg.x)
  /\ (c.whole = TRUE => number = x.id)

\* A number that was read as a whole tells the request.
Matches(w, c, x) == w.replyXaction # Nil /\ c.whole = TRUE => w.replyXaction = x

\* The request of a reply leaves the queue of its server.
LEMMA Parsing ==
  ASSUME NEW v, NEW k, NEW c, NEW x, NEW number, Readable(v, k, c, x, number)
  PROVE  LET w == Parsed(v, number)
         IN  /\ w \in Server /\ w.pending = v.pending /\ w.shutdown = v.shutdown /\ w.closing = v.closing
             /\ w.inbox = v.inbox /\ w.msg = v.msg /\ w.nextRequestId = v.nextRequestId
             /\ Counted(w, k, c) /\ Own(w) /\ Numbered(w) /\ Known(w, x) /\ Load(w) = Load(v)
             /\ Matches(w, c, x)
<1> /\ v \in Server /\ Local(v, k, c) /\ k # c.busy /\ v.closing = FALSE
    /\ x \in Xaction /\ Known(v, x) /\ (v.msg = Nil \/ x = v.msg.x)
    /\ (c.whole = TRUE => number = x.id)
  BY DEF Readable
<1>1. Counted(v, k, c) /\ Own(v) /\ Numbered(v) /\ Talks(v, k, c)
  BY DEF Local
<1>2. v.requests \in Seq(Xaction) /\ v.replyXaction \in Xaction \cup {Nil} /\ Nil \notin Xaction /\ v.pending \in Nat
  BY ServerIs, Limits
<1>3. v.replyXaction # Nil /\ c.whole = TRUE => v.replyXaction = x
  BY <1>1 DEF Talks
<1>4. CASE v.ignoreToEom \/ v.replyXaction # Nil
  BY <1>1, <1>3, <1>4 DEF Parsed, Matches
<1>5. CASE ~v.ignoreToEom /\ v.replyXaction = Nil
  <2>1. PICK q, found : q = v.requests /\ found = {a \in DOMAIN q : q[a].id = number}
    OBVIOUS
  <2>2. PICK w : w = popRequest(v, number) /\ w = Parsed(v, number)
    BY <1>5 DEF Parsed
  <2>3. CASE found = {}
    <3>1. w = [v EXCEPT !.ignoreToEom = TRUE]
      BY <2>1, <2>2, <2>3 DEF popRequest
    <3>2. /\ w \in Server /\ w.requests = v.requests /\ w.pending = v.pending /\ w.shutdown = v.shutdown
          /\ w.closing = v.closing /\ w.replyXaction = v.replyXaction
          /\ w.nextRequestId = v.nextRequestId /\ w.inbox = v.inbox /\ w.msg = v.msg
      BY <3>1 DEF Server
    <3>3. Counted(w, k, c)
      BY <3>2, <1>1 DEF Counted
    <3>4. Own(w) /\ Load(w) = Load(v)
      BY <3>2, <1>1 DEF Own, Load
    <3>5. Numbered(w) /\ Known(w, x)
      BY <3>2, <1>1 DEF Numbered, Known
    <3> QED BY <3>2, <3>3, <3>4, <3>5, <2>2, <1>5 DEF Matches
  <2>4. CASE found # {}
    <3>1. PICK j, u, y : j = Min(found) /\ u = RemoveAt(q, j) /\ y = q[j]
      OBVIOUS
    <3>2. found \subseteq Nat /\ found \subseteq DOMAIN q
      BY <2>1, <1>2
    <3>3. j \in found
      BY <3>1, <3>2, <2>4, MinIs
    <3>4. j \in DOMAIN q /\ y.id = number /\ q \in Seq(Xaction)
      BY <3>1, <3>3, <2>1, <1>2
    <3>5. /\ u \in Seq(Xaction) /\ Len(u) = Len(q) - 1 /\ Len(q) \in Nat /\ y \in Xaction
          /\ Reqs(u) \subseteq Reqs(q) /\ y.req \in Reqs(q)
          /\ Distinct(q) => Distinct(u) /\ y.req \notin Reqs(u)
      BY <3>1, <3>4, Plucking
    <3>6. \A a, b \in DOMAIN u : \E d, e \in DOMAIN q : u[a] = q[d] /\ u[b] = q[e] /\ d # j /\ e # j /\ (d = e => a = b)
      BY <3>1, <3>4, Plucking, SMTT(30)
    <3>7. w = [v EXCEPT !.replyXaction = y, !.requests = u]
      BY <2>1, <2>2, <2>4, <3>1 DEF popRequest
    <3>8. /\ w \in Server /\ w.requests = u /\ w.pending = v.pending /\ w.shutdown = v.shutdown
          /\ w.closing = v.closing /\ w.replyXaction = y
          /\ w.nextRequestId = v.nextRequestId /\ w.inbox = v.inbox /\ w.msg = v.msg
      BY <3>5, <3>7 DEF Server
    <3>9. Counted(w, k, c)
      <4>1. PICK n, f : n = Len(q) /\ f = IF k = c.extra THEN 1 ELSE 0
        OBVIOUS
      <4>2. n \in Nat /\ f \in Nat
        BY <4>1, <3>5
      <4>3. v.pending = n + 0 + f /\ v.pending <= Concurrency
        BY <4>1, <2>1, <1>1, <1>5 DEF Counted
      <4>4. Len(u) = n - 1 /\ y # Nil
        BY <4>1, <3>5, <1>2
      <4>5. w.pending = Len(u) + 1 + f
        BY <4>2, <4>3, <4>4, <3>8
      <4> QED BY <4>1, <4>3, <4>4, <4>5, <3>8 DEF Counted
    <3>10. Own(w)
      BY <3>5, <3>8, <2>1, <1>1 DEF Own
    <3>11. Load(w) = Load(v)
      <4>1. Reqs(q) \subseteq Reqs(u) \cup {y.req}
        BY <3>1, <3>4, PluckedRest
      <4> QED BY <4>1, <3>5, <3>8, <2>1, <1>2, <1>5 DEF Load
    <3>12. \A z : Known(v, z) => Known(w, z)
      BY <3>6, <3>8, <2>1 DEF Known
    <3>13. Numbered(w)
      <4>1. \A a \in DOMAIN u : u[a].id <= w.nextRequestId
        BY <3>6, <3>8, <2>1, <1>1 DEF Numbered
      <4>2. \A a, b \in DOMAIN u : u[a].id = u[b].id => a = b
        BY <3>6, <2>1, <1>1 DEF Numbered
      <4> QED BY <4>1, <4>2, <3>8, <3>12, <1>1 DEF Numbered
    <3>14. c.whole = TRUE => y = x
      BY <3>1, <3>4, <2>1 DEF Known
    <3>15. Matches(w, c, x)
      BY <3>8, <3>14 DEF Matches
    <3> QED BY <3>8, <3>9, <3>10, <3>11, <3>12, <3>13, <3>15, <2>2, <1>5
  <2> QED BY <2>3, <2>4
<1> QED BY <1>4, <1>5

\* The context in which the reply of a server is handled.
Busy(c, i, m) == [sub |-> c.sub, extra |-> c.extra, busy |-> i, msg |-> m, whole |-> c.whole]

\* What that context is.
LEMMA BusyIs ==
  ASSUME NEW c, NEW i, NEW m
  PROVE  /\ Busy(c, i, m).sub = c.sub /\ Busy(c, i, m).extra = c.extra /\ Busy(c, i, m).busy = i
         /\ Busy(c, i, m).msg = m /\ Busy(c, i, m).whole = c.whole
BY DEF Busy

\* Nothing differs for the other servers.
LEMMA BusyOthers ==
  ASSUME NEW c, NEW i, NEW m, NEW k, k # i, k # c.busy, NEW v
  PROVE  Local(v, k, c) <=> Local(v, k, Busy(c, i, m))
<1>1. /\ Busy(c, i, m).sub = c.sub /\ Busy(c, i, m).extra = c.extra /\ Busy(c, i, m).busy = i
      /\ Busy(c, i, m).msg = m /\ Busy(c, i, m).whole = c.whole
  BY BusyIs
<1>2. Counted(v, k, c) <=> Counted(v, k, Busy(c, i, m))
  BY <1>1 DEF Counted
<1>3. Talks(v, k, c) <=> Talks(v, k, Busy(c, i, m))
  BY <1>1 DEF Talks
<1> QED BY <1>2, <1>3 DEF Local

\* A server that has read a part of the reply to x.
PartRead(w, x, m) == [w EXCEPT !.inbox = @ \ {x}, !.msg = m]

\* A part of the reply to x is read.
LEMMA PartIsRead ==
  ASSUME NEW w \in Server, NEW k, NEW c, Counted(w, k, c), Own(w), Numbered(w),
         NEW x \in Xaction, Known(w, x), NEW m \in Message \cup {Nil}, m # Nil => m.x = x
  PROVE  LET v == PartRead(w, x, m)
         IN  /\ v \in Server /\ v.shutdown = w.shutdown /\ v.closing = w.closing /\ v.msg = m
             /\ v.replyXaction = w.replyXaction
             /\ Counted(v, k, c) /\ Own(v) /\ Numbered(v) /\ Load(v) = Load(w)
<1>1. PICK b, v : b = w.inbox \ {x} /\ v = [w EXCEPT !.inbox = b, !.msg = m]
  OBVIOUS
<1> v = PartRead(w, x, m)
  BY <1>1 DEF PartRead
<1>2. b \in SUBSET Xaction
  BY <1>1, ServerIs
<1>3. /\ v \in Server /\ v.requests = w.requests /\ v.pending = w.pending /\ v.shutdown = w.shutdown
      /\ v.closing = w.closing /\ v.replyXaction = w.replyXaction
      /\ v.nextRequestId = w.nextRequestId /\ v.inbox = b /\ v.msg = m
  BY <1>1, <1>2 DEF Server
<1>4. Counted(v, k, c)
  BY <1>3 DEF Counted
<1>5. Own(v) /\ Load(v) = Load(w)
  BY <1>3 DEF Own, Load
<1>6. \A z : Known(w, z) => Known(v, z)
  BY <1>3 DEF Known
<1>7. Numbered(v)
  <2>1. \A z \in v.inbox : Known(v, z)
    BY <1>1, <1>3, <1>6 DEF Numbered
  <2>2. v.msg # Nil => Known(v, v.msg.x)
    BY <1>3, <1>6
  <2> QED BY <2>1, <2>2, <1>3 DEF Numbered
<1> QED BY <1>1, <1>3, <1>4, <1>5, <1>7

\* The request has been answered.
LEMMA ReplyIsRead ==
  ASSUME NEW w \in Server, NEW k, NEW c, Counted(w, k, c), Own(w), Numbered(w), w.replyXaction # Nil
  PROVE  LET v == [w EXCEPT !.pending = @ - 1, !.replyXaction = Nil]
         IN  /\ v \in Server /\ v.shutdown = w.shutdown /\ v.closing = w.closing /\ v.msg = w.msg
             /\ v.replyXaction = Nil
             /\ Counted(v, k, c) /\ Own(v) /\ Numbered(v)
             /\ w.replyXaction \in Xaction /\ w.replyXaction.req \in Load(w) /\ w.replyXaction.req \notin Load(v)
             /\ Load(v) \subseteq Load(w)
<1>1. PICK p, v : p = w.pending - 1 /\ v = [w EXCEPT !.pending = p, !.replyXaction = Nil]
  OBVIOUS
<1>2. PICK n, f : n = Len(w.requests) /\ f = IF k = c.extra THEN 1 ELSE 0
  OBVIOUS
<1>3. n \in Nat /\ f \in Nat /\ w.pending \in Nat /\ Concurrency \in Nat
  BY <1>2, ServerIs, Limits
<1>4. w.pending = n + 1 + f /\ w.pending <= Concurrency
  BY <1>2 DEF Counted
<1>5. p \in Nat /\ p = n + 0 + f /\ p <= Concurrency
  BY <1>1, <1>3, <1>4 DEF Parsed
<1>6. /\ v \in Server /\ v.requests = w.requests /\ v.pending = p /\ v.shutdown = w.shutdown
      /\ v.closing = w.closing /\ v.replyXaction = Nil
      /\ v.nextRequestId = w.nextRequestId /\ v.inbox = w.inbox /\ v.msg = w.msg
  BY <1>1, <1>5 DEF Server
<1>7. Counted(v, k, c)
  BY <1>2, <1>5, <1>6 DEF Counted
<1>8. Own(v) /\ Numbered(v)
  BY <1>6 DEF Own, Numbered, Known
<1>9. w.replyXaction \in Xaction
  BY ServerIs
<1>10. w.replyXaction.req \in Load(w) /\ w.replyXaction.req \notin Load(v) /\ Load(v) \subseteq Load(w)
  BY <1>6 DEF Load, Own
<1> QED BY <1>1, <1>6, <1>7, <1>8, <1>9, <1>10

\* The callback of the request that was answered, or its retry.
LEMMA Answering ==
  ASSUME NEW s, NEW c, Good(s, c), c.extra = 0, c.busy = 0, NEW i \in DOMAIN s.servers,
         NEW w \in Server, w.shutdown = s.servers[i].shutdown, Load(w) = Load(s.servers[i]),
         Counted(w, i, c), Own(w), Numbered(w),
         NEW x, NEW result, w.replyXaction # Nil /\ c.whole = TRUE => w.replyXaction = x,
         NEW t \in Answered(With(s, i, w), i, x, result)
  PROVE  Good(t, Busy(c, i, w.msg)) /\ \A k \in DOMAIN s.servers : k \in DOMAIN t.servers
<1>1. s \in Pool /\ \A k \in DOMAIN s.servers : Local(s.servers[k], k, c) /\ k # 0
  <2>1. s \in Pool /\ \A k \in DOMAIN s.servers : Local(s.servers[k], k, c)
    BY DEF Good, Sound
  <2> QED BY <2>1, PoolIs
<1>2. PICK d, r, read : d = Busy(c, i, w.msg) /\ r = w.replyXaction /\ read = With(s, i, w)
  OBVIOUS
<1>3. d.sub = c.sub /\ d.extra = 0 /\ d.busy = i /\ d.msg = w.msg /\ d.whole = c.whole
  BY <1>2, BusyIs
<1>4. \A k \in DOMAIN s.servers \ {i} : Local(s.servers[k], k, d)
  BY <1>1, <1>2, BusyOthers
<1>5. /\ read \in Pool /\ read.queue = s.queue /\ read.nActive = s.nActive /\ read.answers = s.answers /\ read.leaked = s.leaked
      /\ DOMAIN read.servers = DOMAIN s.servers /\ read.servers[i] = w
      /\ \A k \in DOMAIN s.servers \ {i} : read.servers[k] = s.servers[k]
  BY <1>1, <1>2, Replacing
<1>6. CASE r = Nil
  <2>1. t = read
    BY <1>2, <1>5, <1>6 DEF Answered
  <2>2. Local(w, i, d)
    <3>1. Talks(w, i, d)
      BY <1>2, <1>3, <1>6 DEF Talks
    <3>2. Counted(w, i, d)
      BY <1>3 DEF Counted
    <3> QED BY <3>1, <3>2 DEF Local
  <2>3. \A q \in Load(w) : q \in Load(s.servers[i]) \/ InHand(s, q, c)
    OBVIOUS
  <2>4. Good(read, d)
    BY <2>2, <2>3, <1>3, <1>4, <1>5, ServerChanges
  <2> QED BY <2>1, <2>4, <1>2, <1>5
<1>7. CASE r # Nil
  <2>1. PICK v, done : v = [w EXCEPT !.pending = @ - 1, !.replyXaction = Nil] /\ done = With(s, i, v)
    OBVIOUS
  <2>2. /\ v \in Server /\ v.shutdown = w.shutdown /\ v.closing = w.closing /\ v.msg = w.msg
        /\ v.replyXaction = Nil /\ Counted(v, i, c) /\ Own(v) /\ Numbered(v)
        /\ r \in Xaction /\ r.req \in Load(w) /\ r.req \notin Load(v) /\ Load(v) \subseteq Load(w)
    BY <2>1, <1>2, <1>7, ReplyIsRead
  <2>3. [read EXCEPT !.servers[i].pending = @ - 1, !.servers[i].replyXaction = Nil] = done
    BY <2>1, <1>1, <1>2, <1>5, PoolIs, ZenonT(30) DEF With
  <2>4. t \in IF result = "BH" /\ r = x /\ r.retries < MAX_RETRIES /\ r.req \notin gone
              THEN submitRequest(done, [r EXCEPT !.retries = @ + 1])
              ELSE {Callback(done, r.req, IF r = x THEN "own" ELSE "other")}
    BY <2>3, <1>2, <1>5, <1>7 DEF Answered
  <2>5. done = With(s, i, v)
    BY <2>1, Zenon
  <2>6. /\ done \in Pool /\ done.queue = s.queue /\ done.nActive = s.nActive /\ done.answers = s.answers /\ done.leaked = s.leaked
        /\ DOMAIN done.servers = DOMAIN s.servers /\ done.servers[i] = v
        /\ \A k \in DOMAIN s.servers \ {i} : done.servers[k] = s.servers[k]
    BY <2>2, <2>5, <1>1, Replacing
  <2>7. Local(v, i, d)
    <3>1. Talks(v, i, d)
      BY <2>2, <1>3 DEF Talks
    <3>2. Counted(v, i, d)
      BY <2>2, <1>3 DEF Counted
    <3> QED BY <3>1, <3>2, <2>2 DEF Local
  <2>8. /\ v.shutdown = s.servers[i].shutdown /\ r.req \in Load(s.servers[i])
        /\ \A q \in Load(v) : q \in Load(s.servers[i]) \/ InHand(s, q, c)
    BY <2>2
  <2>9. Good(done, d) /\ InHand(done, r.req, d)
    BY <2>2, <2>6, <2>7, <2>8, <1>3, <1>4, ServerChanges, SMTT(30)
  <2>10. Within(done, d)
    BY <2>6, <1>3 DEF Within
  <2>11. Good(t, d) /\ Frame(done, t)
    <3>1. CASE result = "BH" /\ r = x /\ r.retries < MAX_RETRIES /\ r.req \notin gone
      <4> DEFINE y == [r EXCEPT !.retries = @ + 1]
      <4>1. y \in Xaction /\ y.req = r.req
        BY <3>1, <2>2, Retrying
      <4>2. t \in submitRequest(done, y)
        BY <3>1, <2>4
      <4> HIDE DEF y
      <4> QED BY <4>1, <4>2, <2>9, <2>10, Submitting
    <3>2. CASE ~(result = "BH" /\ r = x /\ r.retries < MAX_RETRIES /\ r.req \notin gone)
      <4>1. PICK a : a = IF r = x THEN "own" ELSE "other"
        OBVIOUS
      <4>2. t = Callback(done, r.req, a)
        BY <3>2, <4>1, <2>4
      <4>3. r.req \in Requests /\ a \in Answers
        BY <4>1, <2>2, XactionIs DEF Answers
      <4>4. d.whole = TRUE => a # "other"
        BY <4>1, <1>2, <1>3, <1>7
      <4>5. Good(t, d) /\ t.servers = done.servers
        BY <4>2, <4>3, <4>4, <2>9, CallsBackGood
      <4> QED BY <4>5, <2>6, FrameSame
    <3> QED BY <3>1, <3>2
  <2>12. \A k \in DOMAIN s.servers : k \in DOMAIN t.servers
    BY <2>6, <2>11 DEF Frame
  <2> QED BY <2>11, <2>12, <1>2
<1> QED BY <1>6, <1>7

\* What helperReturnBuffer() may lead to.
LEMMA Returning ==
  ASSUME NEW s, NEW c, Good(s, c), c.extra = 0, c.busy = 0, NEW i \in DOMAIN s.servers,
         NEW w \in Server, w.shutdown = s.servers[i].shutdown, Load(w) = Load(s.servers[i]),
         Counted(w, i, c), Own(w), Numbered(w),
         NEW x, NEW result, w.replyXaction # Nil /\ c.whole = TRUE => w.replyXaction = x,
         NEW u \in helperReturnBuffer(With(s, i, w), i, x, result)
  PROVE  Good(u, Busy(c, i, w.msg)) /\ i \in DOMAIN u.servers
<1>1. PICK t \in Answered(With(s, i, w), i, x, result) : u \in {AfterReply(z, i) : z \in checkForTimedOutRequests(t, i)}
  BY DEF helperReturnBuffer
<1>2. PICK z \in checkForTimedOutRequests(t, i) : u = AfterReply(z, i)
  BY <1>1
<1>3. PICK d : d = Busy(c, i, w.msg)
  OBVIOUS
<1>4. Good(t, d) /\ i \in DOMAIN t.servers
  BY <1>1, <1>3, Answering
<1>5. d.extra = 0 /\ d.busy = i
  BY <1>3, BusyIs
<1>6. Within(t, d)
  BY <1>4, <1>5 DEF Within
<1>7. Good(z, d) /\ i \in DOMAIN z.servers
  BY <1>2, <1>4, <1>5, <1>6, Checking
<1> QED BY <1>2, <1>3, <1>7, Finishing

\* After a read, the rest of a reply that answers nothing is skipped.
Ends(s, i, more) == [s EXCEPT !.servers[i].ignoreToEom = @ /\ more]

\* The end of a read.
LEMMA ReadEnds ==
  ASSUME NEW s, NEW c, c.extra = 0, c.busy = 0, NEW i \in DOMAIN s.servers, NEW m, Good(s, Busy(c, i, m)),
         NEW more \in BOOLEAN, more => m # Nil
  PROVE  Good(Ends(s, i, more), c)
<1>1. PICK d, v, b : d = Busy(c, i, m) /\ v = s.servers[i] /\ b = (v.ignoreToEom /\ more)
  OBVIOUS
<1>2. s \in Pool /\ \A k \in DOMAIN s.servers : Local(s.servers[k], k, d) /\ k # 0
  <2>1. s \in Pool /\ \A k \in DOMAIN s.servers : Local(s.servers[k], k, d)
    BY <1>1 DEF Good, Sound
  <2> QED BY <2>1, PoolIs
<1>3. d.sub = c.sub /\ d.extra = 0 /\ d.busy = i /\ d.msg = m /\ d.whole = c.whole
  BY <1>1, BusyIs
<1>4. v \in Server /\ Local(v, i, d) /\ b \in BOOLEAN /\ i # 0
  BY <1>1, <1>2, PoolIs
<1>5. PICK w, t : w = [v EXCEPT !.ignoreToEom = b] /\ t = With(s, i, w)
  OBVIOUS
<1>6. Ends(s, i, more) = t
  <2>1. Ends(s, i, more) = [s EXCEPT !.servers[i].ignoreToEom = b]
    BY <1>1, Zenon DEF Ends
  <2>2. [s EXCEPT !.servers[i].ignoreToEom = b] = With(s, i, [s.servers[i] EXCEPT !.ignoreToEom = b])
    BY <1>2, PoolIs DEF With
  <2> QED BY <2>1, <2>2, <1>1, <1>5, Zenon
<1>7. /\ w \in Server /\ w.requests = v.requests /\ w.pending = v.pending /\ w.shutdown = v.shutdown
      /\ w.closing = v.closing /\ w.replyXaction = v.replyXaction /\ w.ignoreToEom = b
      /\ w.nextRequestId = v.nextRequestId /\ w.inbox = v.inbox /\ w.msg = v.msg
  BY <1>4, <1>5 DEF Server
<1>8. Local(w, i, c) /\ Load(w) = Load(v)
  <2>1. Counted(v, i, d) /\ Own(v) /\ Numbered(v) /\ Talks(v, i, d)
    BY <1>4 DEF Local
  <2>2. Counted(w, i, c)
    BY <2>1, <1>3, <1>7 DEF Counted
  <2>3. Own(w) /\ Numbered(w) /\ Load(w) = Load(v)
    BY <2>1, <1>7 DEF Own, Numbered, Known, Load
  <2>4. v.replyXaction = Nil /\ (v.closing \/ v.msg = m)
    BY <2>1, <1>3 DEF Talks
  <2>5. b => m # Nil
    BY <1>1
  <2>6. Talks(w, i, c)
    BY <2>4, <2>5, <1>4, <1>7 DEF Talks
  <2> QED BY <2>2, <2>3, <2>6 DEF Local
<1>9. t = With(s, i, w)
  BY <1>5, Zenon
<1>10. /\ t \in Pool /\ t.queue = s.queue /\ t.nActive = s.nActive /\ t.answers = s.answers /\ t.leaked = s.leaked
       /\ DOMAIN t.servers = DOMAIN s.servers /\ t.servers[i] = w
       /\ \A k \in DOMAIN s.servers \ {i} : t.servers[k] = s.servers[k]
  BY <1>2, <1>7, <1>9, Replacing
<1>11. \A k \in DOMAIN s.servers \ {i} : Local(s.servers[k], k, c)
  BY <1>1, <1>2, BusyOthers
<1>12. w.shutdown = s.servers[i].shutdown /\ \A r \in Load(w) : r \in Load(s.servers[i]) \/ InHand(s, r, d)
  BY <1>1, <1>7, <1>8
<1>13. Good(s, d)
  BY <1>1
<1>14. Good(t, c)
  BY <1>3, <1>7, <1>8, <1>10, <1>11, <1>12, <1>13, ServerChanges, SMTT(30)
<1> QED BY <1>6, <1>14

-----------------------------------------------------------------------------
(* The calls made by the event loop *)

\* Between two calls, no server is in the middle of one.
LEMMA RestIs ==
  ASSUME NEW sub, NEW whole
  PROVE  /\ Rest(sub, whole).sub = sub /\ Rest(sub, whole).extra = 0 /\ Rest(sub, whole).busy = 0
         /\ Rest(sub, whole).msg = Nil /\ Rest(sub, whole).whole = whole
BY DEF Rest

\* A read from a helper.
LEMMA Reading ==
  ASSUME NEW c, Good(hlp, c), c.extra = 0, c.busy = 0,
         NEW i \in DOMAIN hlp.servers, NEW x, NEW part \in {"id", "body", "end"}, NEW result,
         helperHandleRead(i, x, part, result), c.whole = TRUE => part # "id"
  PROVE  Good(hlp', c)
<1> DEFINE srv == hlp.servers[i]
           parse == ~srv.ignoreToEom /\ srv.replyXaction = Nil
           number == IF part = "id" THEN x.id \div Radix ELSE x.id
           popped == IF parse THEN popRequest(srv, number) ELSE srv
           m == IF part = "end" THEN Nil ELSE [x |-> x, part |-> part]
           reader == [popped EXCEPT !.inbox = @ \ {x}, !.msg = m]
           read == [hlp EXCEPT !.servers[i] = reader]
           waiting == part # "end" /\ ((part = "id" /\ parse) \/ popped.replyXaction # Nil)
<1>1. /\ ~srv.closing
      /\ IF srv.msg = Nil THEN x \in srv.inbox ELSE x = srv.msg.x
      /\ \E s \in (IF waiting THEN {read}
                   ELSE {[t EXCEPT !.servers[i].ignoreToEom = @ /\ part # "end"] :
                            t \in helperReturnBuffer(read, i, x, result)}) : hlp' = s
  BY DEF helperHandleRead, Proceed
<1>2. hlp \in Pool /\ \A k \in DOMAIN hlp.servers : Local(hlp.servers[k], k, c) /\ k # 0
  <2>1. hlp \in Pool /\ \A k \in DOMAIN hlp.servers : Local(hlp.servers[k], k, c)
    BY DEF Good, Sound
  <2> QED BY <2>1, PoolIs
<1>3. srv \in Server /\ Local(srv, i, c) /\ i # c.busy
  BY <1>2, PoolIs
<1>4. Numbered(srv) /\ srv.inbox \in SUBSET Xaction /\ srv.msg \in Message \cup {Nil}
  BY <1>3, ServerIs DEF Local
<1>5. x \in Xaction /\ Known(srv, x) /\ (srv.msg = Nil \/ x = srv.msg.x)
  <2>1. CASE srv.msg = Nil
    BY <2>1, <1>1, <1>4 DEF Numbered
  <2>2. CASE srv.msg # Nil
    BY <2>2, <1>1, <1>4 DEF Numbered, Message
  <2> QED BY <2>1, <2>2
<1>6. c.whole = TRUE => number = x.id
  OBVIOUS
<1>7. m \in Message \cup {Nil} /\ (m # Nil => m.x = x) /\ (part # "end" => m # Nil)
  BY <1>5, Limits DEF Message
<1> HIDE DEF number, m
<1>8. /\ popped \in Server /\ popped.pending = srv.pending /\ popped.shutdown = srv.shutdown /\ popped.closing = srv.closing
      /\ Counted(popped, i, c) /\ Own(popped) /\ Numbered(popped) /\ Known(popped, x) /\ Load(popped) = Load(srv)
      /\ Matches(popped, c, x)
  <2>1. srv.closing = FALSE
    BY <1>1, <1>3, ServerIs
  <2>2. popped = Parsed(srv, number)
    BY DEF Parsed
  <2>3. srv \in Server /\ Local(srv, i, c) /\ x \in Xaction /\ Known(srv, x)
    BY <1>3, <1>5
  <2> HIDE DEF srv, popped, parse
  <2>4. Readable(srv, i, c, x, number)
    BY <2>1, <2>3, <1>3, <1>5, <1>6 DEF Readable
  <2> QED BY <2>2, <2>4, Parsing
<1> HIDE DEF popped
<1>9. /\ reader \in Server /\ reader.shutdown = popped.shutdown /\ reader.closing = popped.closing /\ reader.msg = m
      /\ reader.replyXaction = popped.replyXaction
      /\ Counted(reader, i, c) /\ Own(reader) /\ Numbered(reader) /\ Load(reader) = Load(popped)
  <2>1. reader = PartRead(popped, x, m)
    BY DEF PartRead
  <2> HIDE DEF reader
  <2> QED BY <2>1, <1>5, <1>7, <1>8, PartIsRead
<1>10. read = With(hlp, i, reader)
  BY DEF With
<1> HIDE DEF reader
<1>11. reader.shutdown = hlp.servers[i].shutdown /\ Load(reader) = Load(hlp.servers[i])
  BY <1>8, <1>9 DEF srv
<1>12. reader.replyXaction # Nil /\ c.whole = TRUE => reader.replyXaction = x
  BY <1>8, <1>9 DEF Matches
<1> HIDE DEF read, waiting, parse, srv
<1>13. CASE waiting
  <2>1. hlp' = read
    BY <1>1, <1>13
  <2>2. PICK t : t = read
    OBVIOUS
  <2>3. /\ t \in Pool /\ t.queue = hlp.queue /\ t.nActive = hlp.nActive /\ t.answers = hlp.answers /\ t.leaked = hlp.leaked
        /\ DOMAIN t.servers = DOMAIN hlp.servers /\ t.servers[i] = reader
        /\ \A k \in DOMAIN hlp.servers \ {i} : t.servers[k] = hlp.servers[k]
    BY <2>2, <1>2, <1>9, <1>10, Replacing
  <2>4. Talks(reader, i, c)
    <3>1. m # Nil
      BY <1>7, <1>13 DEF waiting
    <3>2. reader.replyXaction # Nil /\ c.whole = TRUE => m.x = reader.replyXaction
      BY <3>1, <1>7, <1>12
    <3> QED BY <3>1, <3>2, <1>3, <1>9 DEF Talks
  <2>5. Local(reader, i, c)
    BY <2>4, <1>9 DEF Local
  <2>6. \A r \in Load(reader) : r \in Load(hlp.servers[i]) \/ InHand(hlp, r, c)
    BY <1>11
  <2>7. Good(t, c)
    BY <2>3, <2>5, <2>6, <1>2, <1>9, <1>11, ServerChanges
  <2> QED BY <2>1, <2>2, <2>7
<1>14. CASE ~waiting
  <2>1. PICK t \in helperReturnBuffer(read, i, x, result) : hlp' = [t EXCEPT !.servers[i].ignoreToEom = @ /\ part # "end"]
    BY <1>1, <1>14
  <2>2. t \in helperReturnBuffer(With(hlp, i, reader), i, x, result)
    BY <2>1, <1>10
  <2>3. Good(t, Busy(c, i, m)) /\ i \in DOMAIN t.servers
    BY <2>2, <1>9, <1>11, <1>12, Returning
  <2>4. PICK more \in BOOLEAN : more = (part # "end")
    OBVIOUS
  <2>5. Good(Ends(t, i, more), c)
    BY <2>3, <2>4, <1>7, ReadEnds
  <2>6. hlp' = Ends(t, i, more)
    BY <2>1, <2>4, Zenon DEF Ends
  <2> QED BY <2>5, <2>6
<1> QED BY <1>13, <1>14

\* Servers change and keep what they have to answer.
LEMMA ServersChange ==
  ASSUME NEW s, NEW c, Sound(s, c), NEW t \in Pool,
         t.queue = s.queue, t.answers = s.answers, t.leaked = s.leaked, DOMAIN t.servers = DOMAIN s.servers,
         \A k \in DOMAIN s.servers : Load(t.servers[k]) = Load(s.servers[k]) /\ Local(t.servers[k], k, c)
  PROVE  Sound(t, c)
<1>1. s \in Pool /\ Apart(s) /\ Once(s, c) /\ s.leaked \subseteq c.sub
  BY DEF Sound
<1>2. \A r : Held(t, r) <=> Held(s, r)
  BY DEF Held
<1>3. Apart(t)
  <2>1. Distinct(t.queue)
    BY <1>1 DEF Apart
  <2>2. \A k \in DOMAIN t.servers : Reqs(t.queue) \cap Load(t.servers[k]) = {}
    BY <1>1 DEF Apart
  <2>3. \A k, l \in DOMAIN t.servers : k # l => Load(t.servers[k]) \cap Load(t.servers[l]) = {}
    <3> SUFFICES ASSUME NEW k \in DOMAIN s.servers, NEW l \in DOMAIN s.servers, k # l
                 PROVE  Load(t.servers[k]) \cap Load(t.servers[l]) = {}
      OBVIOUS
    <3>1. Load(s.servers[k]) \cap Load(s.servers[l]) = {}
      BY <1>1 DEF Apart
    <3> QED BY <3>1
  <2> QED BY <2>1, <2>2, <2>3 DEF Apart
<1>4. Once(t, c)
  BY <1>1, <1>2 DEF Once
<1> QED BY <1>1, <1>3, <1>4 DEF Sound

\* Shutting down is not about requests.
LEMMA ShutdownIs ==
  ASSUME NEW v \in Server
  PROVE  LET w == [v EXCEPT !.shutdown = TRUE]
         IN  /\ w \in Server /\ w.shutdown = TRUE /\ Load(w) = Load(v) /\ w.pending = v.pending
             /\ \A k, c : Local(v, k, c) => Local(w, k, c)
<1>1. PICK w : w = [v EXCEPT !.shutdown = TRUE]
  OBVIOUS
<1>2. /\ w \in Server /\ w.requests = v.requests /\ w.pending = v.pending /\ w.shutdown = TRUE
      /\ w.closing = v.closing /\ w.replyXaction = v.replyXaction /\ w.ignoreToEom = v.ignoreToEom
      /\ w.nextRequestId = v.nextRequestId /\ w.inbox = v.inbox /\ w.msg = v.msg
  BY <1>1 DEF Server
<1>3. Load(w) = Load(v)
  BY <1>2 DEF Load
<1>4. ASSUME NEW k, NEW c, Local(v, k, c) PROVE Local(w, k, c)
  <2>1. Counted(v, k, c) /\ Own(v) /\ Numbered(v) /\ Talks(v, k, c)
    BY <1>4 DEF Local
  <2>2. Counted(w, k, c)
    BY <2>1, <1>2 DEF Counted
  <2>3. Own(w) /\ Numbered(w)
    BY <2>1, <1>2 DEF Own, Numbered, Known
  <2>4. Talks(w, k, c)
    BY <2>1, <1>2 DEF Talks
  <2> QED BY <2>2, <2>3, <2>4 DEF Local
<1> QED BY <1>1, <1>2, <1>3, <1>4

\* A server that is counted out.
Leaving(s, c, i) == Sound(s, c) /\ i \in DOMAIN s.servers /\ s.nActive = Cardinality(Live(s) \ {i})

\* There are finitely many servers.
LEMMA LiveFinite ==
  ASSUME NEW s \in Pool
  PROVE  IsFiniteSet(Live(s)) /\ Cardinality(Live(s)) \in Nat
<1>1. Live(s) \subseteq 1..Len(s.servers) /\ Len(s.servers) \in Nat
  BY PoolIs DEF Live
<1>2. IsFiniteSet(1..Len(s.servers))
  BY <1>1, FS_Interval
<1>3. IsFiniteSet(Live(s))
  BY <1>1, <1>2, FS_Subset
<1> QED BY <1>3, FS_CardinalityType

\* What handleKilledServer() may lead to.
LEMMA Killing ==
  ASSUME NEW s, NEW c, Good(s, c), Within(s, c), NEW i \in DOMAIN s.servers, NEW u \in handleKilledServer(s, i)
  PROVE  Leaving(u, c, i)
<1>1. s \in Pool /\ Sound(s, c) /\ s.nActive = Cardinality(Live(s)) /\ \A k \in DOMAIN s.servers : Local(s.servers[k], k, c)
  BY DEF Good, Sound
<1>2. IsFiniteSet(Live(s)) /\ Cardinality(Live(s)) \in Nat /\ s.nActive \in Int
  BY <1>1, LiveFinite, PoolIs
<1>3. CASE s.servers[i].shutdown
  <2>1. u = s
    BY <1>3 DEF handleKilledServer
  <2>2. Live(s) \ {i} = Live(s)
    BY <1>3 DEF Live
  <2> QED BY <2>1, <2>2, <1>1 DEF Leaving
<1>4. CASE ~s.servers[i].shutdown
  <2>1. PICK a, t : a = s.nActive - 1 /\ t = [s EXCEPT !.nActive = a]
    OBVIOUS
  <2>2. u \in IF needNew(t) > 0 THEN helperOpenServers([t EXCEPT !.servers[i].shutdown = TRUE]) ELSE {t}
    BY <2>1, <1>4 DEF handleKilledServer
  <2>3. /\ t \in Pool /\ t.nActive = a /\ t.servers = s.servers /\ t.queue = s.queue
        /\ t.answers = s.answers /\ t.leaked = s.leaked
    <3>1. a \in Int /\ t = [s EXCEPT !.nActive = a]
      BY <2>1, <1>2
    <3> QED BY <3>1, <1>1 DEF Pool
  <2>4. Sound(t, c)
    <3>1. \A k \in DOMAIN s.servers : Load(t.servers[k]) = Load(s.servers[k]) /\ Local(t.servers[k], k, c)
      BY <2>3, <1>1
    <3>2. DOMAIN t.servers = DOMAIN s.servers
      BY <2>3
    <3> QED BY <3>1, <3>2, <2>3, <1>1, ServersChange
  <2>5. i \in Live(s) /\ Live(t) = Live(s)
    BY <2>3, <1>4 DEF Live
  <2>6. a = Cardinality(Live(s) \ {i})
    BY <2>1, <2>5, <1>1, <1>2, FS_RemoveElement, ZenonT(30)
  <2>7. CASE u = t
    BY <2>3, <2>4, <2>5, <2>6, <2>7 DEF Leaving
  <2>8. CASE u \in helperOpenServers([t EXCEPT !.servers[i].shutdown = TRUE])
    <3>1. PICK v, w, p : v = t.servers[i] /\ w = [v EXCEPT !.shutdown = TRUE] /\ p = With(t, i, w)
      OBVIOUS
    <3>2. [t EXCEPT !.servers[i].shutdown = TRUE] = p
      BY <3>1, <2>3, PoolIs DEF With
    <3>3. u \in helperOpenServers(p)
      BY <3>2, <2>8
    <3>4. p = With(t, i, w)
      BY <3>1, Zenon
    <3>5. v \in Server /\ Local(v, i, c)
      BY <3>1, <2>3, <1>1, PoolIs
    <3>6. w \in Server /\ w.shutdown = TRUE /\ Load(w) = Load(v) /\ Local(w, i, c)
      BY <3>1, <3>5, ShutdownIs
    <3>7. /\ p \in Pool /\ p.queue = t.queue /\ p.nActive = t.nActive /\ p.answers = t.answers /\ p.leaked = t.leaked
          /\ DOMAIN p.servers = DOMAIN t.servers /\ p.servers[i] = w
          /\ \A k \in DOMAIN t.servers \ {i} : p.servers[k] = t.servers[k]
      BY <3>4, <3>6, <2>3, Replacing
    <3>8. v = t.servers[i]
      BY <3>1, Zenon
    <3>9. \A k \in DOMAIN t.servers : Load(p.servers[k]) = Load(t.servers[k]) /\ Local(p.servers[k], k, c)
      <4> SUFFICES ASSUME NEW k \in DOMAIN t.servers PROVE Load(p.servers[k]) = Load(t.servers[k]) /\ Local(p.servers[k], k, c)
        OBVIOUS
      <4>1. CASE k = i
        BY <4>1, <3>6, <3>7, <3>8
      <4>2. CASE k # i
        BY <4>2, <3>7, <2>3, <1>1
      <4> QED BY <4>1, <4>2
    <3>10. Sound(p, c)
      BY <3>7, <3>9, <2>4, ServersChange
    <3>11. Live(p) = Live(s) \ {i}
      <4>1. p.servers[i].shutdown = TRUE /\ \A k \in DOMAIN s.servers \ {i} : p.servers[k] = s.servers[k]
        BY <3>6, <3>7, <2>3
      <4> QED BY <4>1, <3>7, <2>3 DEF Live
    <3>12. Good(p, c)
      BY <3>7, <3>10, <3>11, <2>3, <2>6 DEF Good
    <3>13. Within(p, c)
      BY <3>7, <2>3 DEF Within
    <3>14. Good(u, c) /\ Frame(p, u)
      BY <3>3, <3>12, <3>13, Opening
    <3>15. i \in DOMAIN u.servers /\ u.servers[i].shutdown = TRUE
      BY <3>6, <3>7, <3>14, <2>3 DEF Frame
    <3>16. Live(u) \ {i} = Live(u)
      BY <3>15 DEF Live
    <3> QED BY <3>14, <3>15, <3>16 DEF Good, Leaving
  <2> QED BY <2>2, <2>7, <2>8
<1> QED BY <1>3, <1>4

\* What a callback changes.
LEMMA CallbackIs ==
  ASSUME NEW s \in Pool, NEW r \in Requests, NEW a \in Answers, s.answers[r] = <<>>
  PROVE  LET t == Callback(s, r, a)
         IN  /\ t \in Pool /\ t.queue = s.queue /\ t.servers = s.servers /\ t.nActive = s.nActive /\ t.leaked = s.leaked
             /\ t.answers[r] \in {<<>>, <<a>>} /\ \A q \in Requests : q # r => t.answers[q] = s.answers[q]
<1>1. CASE r \in gone
  BY <1>1 DEF Callback
<1>2. CASE r \notin gone
  <2>1. PICK f, t : f = [s.answers EXCEPT ![r] = <<a>>] /\ t = [s EXCEPT !.answers = f]
    OBVIOUS
  <2>2. s.answers \in [Requests -> Seq(Answers)] /\ Append(<<>>, a) = <<a>> /\ <<a>> \in Seq(Answers)
    BY PoolIs
  <2>3. Callback(s, r, a) = t
    BY <2>1, <2>2, <1>2 DEF Callback
  <2>4. f \in [Requests -> Seq(Answers)] /\ f[r] = <<a>> /\ \A q \in Requests : q # r => f[q] = s.answers[q]
    BY <2>1, <2>2
  <2>5. t = [s EXCEPT !.answers = f]
    BY <2>1, Zenon
  <2>6. t \in Pool /\ t.queue = s.queue /\ t.servers = s.servers /\ t.nActive = s.nActive /\ t.leaked = s.leaked /\ t.answers = f
    BY <2>4, <2>5 DEF Pool
  <2> QED BY <2>3, <2>4, <2>6
<1> QED BY <1>1, <1>2

\* The rounds of dropQueued().
Drops(h, s, q, m) == h = [n \in 0..m |-> IF n = 0 THEN s ELSE Callback(h[n - 1], q[n].req, "Unknown")]

\* The rounds are defined.
LEMMA DropsExist ==
  ASSUME NEW s, NEW q, NEW m \in Nat
  PROVE  \E h : Drops(h, s, q, m)
<1> DEFINE S == {n \in Nat : \E h : Drops(h, s, q, n)}
<1>1. 0 \in S
  <2>1. Drops([n \in 0..0 |-> s], s, q, 0)
    BY DEF Drops
  <2> QED BY <2>1
<1>2. ASSUME NEW n \in Nat, n \in S PROVE n + 1 \in S
  <2>1. PICK g : Drops(g, s, q, n)
    BY <1>2
  <2> DEFINE h == [k \in 0..(n + 1) |-> IF k = 0 THEN s ELSE Callback(g[k - 1], q[k].req, "Unknown")]
  <2>2. \A k \in 0..n : h[k] = g[k]
    BY <2>1 DEF Drops
  <2>3. \A k \in 0..(n + 1) : k # 0 => k - 1 \in 0..n
    OBVIOUS
  <2>4. h = [k \in 0..(n + 1) |-> IF k = 0 THEN s ELSE Callback(h[k - 1], q[k].req, "Unknown")]
    BY <2>2, <2>3
  <2>5. Drops(h, s, q, n + 1)
    BY <2>4 DEF Drops
  <2> QED BY <2>5
<1>3. Nat \subseteq S
  <2> HIDE DEF S
  <2> QED BY <1>1, <1>2, NatSetInduction
<1> QED BY <1>3

\* The callers of the requests of a server are called back.
LEMMA Dropping ==
  ASSUME NEW s \in Pool, NEW i \in DOMAIN s.servers, NEW q, q = s.servers[i].requests,
         Distinct(q), \A r \in Reqs(q) : s.answers[r] = <<>>
  PROVE  LET t == dropQueued(s, i)
         IN  /\ t \in Pool /\ t.queue = s.queue /\ t.servers = s.servers /\ t.nActive = s.nActive /\ t.leaked = s.leaked
             /\ \A r \in Requests : IF r \in Reqs(q) THEN t.answers[r] \in {<<>>, <<"Unknown">>}
                                    ELSE t.answers[r] = s.answers[r]
<1>1. q \in Seq(Xaction)
  BY PoolIs, ServerIs
<1>2. PICK m : m = Len(q)
  OBVIOUS
<1>3. m \in Nat /\ DOMAIN q = 1..m /\ \A a \in 1..m : q[a] \in Xaction
  BY <1>1, <1>2
<1> DEFINE g == CHOOSE h : Drops(h, s, q, m)
<1>4. Drops(g, s, q, m)
  BY <1>3, DropsExist
<1>5. dropQueued(s, i) = g[m]
  BY <1>2 DEF dropQueued, Drops
<1> HIDE DEF g
<1>6. g[0] = s /\ \A n \in 0..m : n # 0 => g[n] = Callback(g[n - 1], q[n].req, "Unknown")
  <2>1. 0 \in 0..m
    BY <1>3
  <2>2. g = [n \in 0..m |-> IF n = 0 THEN s ELSE Callback(g[n - 1], q[n].req, "Unknown")]
    BY <1>4 DEF Drops
  <2>3. \A n \in 0..m : g[n] = IF n = 0 THEN s ELSE Callback(g[n - 1], q[n].req, "Unknown")
    BY <2>2
  <2> QED BY <2>1, <2>3
<1> DEFINE Before(n) == {q[a].req : a \in 1..n}
           P(t, n) == /\ t \in Pool /\ t.queue = s.queue /\ t.servers = s.servers /\ t.nActive = s.nActive /\ t.leaked = s.leaked
                      /\ \A r \in Requests : IF r \in Before(n) THEN t.answers[r] \in {<<>>, <<"Unknown">>}
                                             ELSE t.answers[r] = s.answers[r]
           S == {n \in Nat : n <= m => P(g[n], n)}
<1>7. 0 \in S
  <2>1. Before(0) = {}
    OBVIOUS
  <2> QED BY <2>1, <1>6
<1>8. ASSUME NEW n \in Nat, n \in S PROVE n + 1 \in S
  <2> SUFFICES ASSUME n + 1 <= m PROVE P(g[n + 1], n + 1)
    OBVIOUS
  <2>1. n <= m /\ n + 1 \in 0..m /\ n + 1 \in 1..m /\ n + 1 # 0 /\ (n + 1) - 1 = n
    BY <1>3
  <2>2. PICK t, u, x : t = g[n] /\ u = g[n + 1] /\ x = q[n + 1].req
    OBVIOUS
  <2>3. P(t, n)
    BY <2>1, <2>2, <1>8
  <2>4. u = Callback(t, x, "Unknown")
    BY <2>1, <2>2, <1>6
  <2>5. x \in Requests /\ "Unknown" \in Answers /\ x \in Reqs(q)
    BY <2>1, <2>2, <1>3, XactionIs DEF Answers, Reqs
  <2>6. x \notin Before(n)
    <3>1. \A a \in 1..n : a \in 1..m /\ a # n + 1
      BY <2>1, <1>3
    <3>2. \A a, b \in 1..m : q[a].req = q[b].req => a = b
      BY <1>3 DEF Distinct
    <3> QED BY <3>1, <3>2, <2>1, <2>2
  <2>7. Before(n + 1) = Before(n) \cup {x}
    <3>1. \A a : a \in 1..(n + 1) <=> a \in 1..n \/ a = n + 1
      OBVIOUS
    <3> QED BY <3>1, <2>2
  <2>8. t \in Pool /\ t.answers[x] = <<>>
    BY <2>3, <2>5, <2>6
  <2> HIDE DEF Before
  <2>9. /\ u \in Pool /\ u.queue = t.queue /\ u.servers = t.servers /\ u.nActive = t.nActive /\ u.leaked = t.leaked
        /\ u.answers[x] \in {<<>>, <<"Unknown">>} /\ \A r \in Requests : r # x => u.answers[r] = t.answers[r]
    BY <2>4, <2>5, <2>8, CallbackIs
  <2>10. ASSUME NEW r \in Requests
         PROVE  IF r \in Before(n + 1) THEN u.answers[r] \in {<<>>, <<"Unknown">>} ELSE u.answers[r] = s.answers[r]
    <3>1. IF r \in Before(n) THEN t.answers[r] \in {<<>>, <<"Unknown">>} ELSE t.answers[r] = s.answers[r]
      BY <2>3
    <3>2. CASE r = x
      BY <3>2, <2>7, <2>9
    <3>3. CASE r # x
      BY <3>1, <3>3, <2>7, <2>9
    <3> QED BY <3>2, <3>3
  <2> QED BY <2>2, <2>3, <2>9, <2>10
<1>9. Nat \subseteq S
  <2> HIDE DEF S
  <2> QED BY <1>7, <1>8, NatSetInduction
<1>10. P(g[m], m)
  BY <1>3, <1>9
<1>11. Before(m) = Reqs(q)
  BY <1>3 DEF Reqs
<1> QED BY <1>5, <1>10, <1>11

\* The state after the close handler of a server.
Without(s, i) ==
  [dropQueued(s, i) EXCEPT !.servers = RemoveAt(@, i),
                           !.leaked = @ \cup (IF s.servers[i].replyXaction = Nil THEN {}
                                              ELSE {s.servers[i].replyXaction.req})]

\* Which server it is does not matter to a server between two calls.
LEMMA AnyPlace ==
  ASSUME NEW v, NEW k, NEW l, NEW c, k # c.extra, k # c.busy, l # c.extra, l # c.busy, Local(v, k, c)
  PROVE  Local(v, l, c)
<1>1. Counted(v, k, c) /\ Own(v) /\ Numbered(v) /\ Talks(v, k, c)
  BY DEF Local
<1>2. Counted(v, l, c)
  BY <1>1 DEF Counted
<1>3. Talks(v, l, c)
  BY <1>1 DEF Talks
<1> QED BY <1>1, <1>2, <1>3 DEF Local

\* A server leaves the pool, and its callers are called back or leaked.
LEMMA Removed ==
  ASSUME NEW s, NEW c, NEW i, Leaving(s, c, i), c.extra = 0, c.busy = 0
  PROVE  Good(Without(s, i), c)
<1>1. /\ s \in Pool /\ Apart(s) /\ Once(s, c) /\ s.leaked \subseteq c.sub /\ i \in DOMAIN s.servers
      /\ s.nActive = Cardinality(Live(s) \ {i}) /\ \A k \in DOMAIN s.servers : Local(s.servers[k], k, c)
  BY DEF Leaving, Sound
<1>2. PICK v, q, t, u, n, gap, lk :
         /\ v = s.servers[i] /\ q = v.requests /\ t = dropQueued(s, i) /\ u = Without(s, i) /\ n = Len(s.servers)
         /\ gap = RemoveAt(s.servers, i)
         /\ lk = s.leaked \cup (IF v.replyXaction = Nil THEN {} ELSE {v.replyXaction.req})
  OBVIOUS
<1>3. /\ s.servers \in Seq(Server) /\ v \in Server /\ q \in Seq(Xaction) /\ v.replyXaction \in Xaction \cup {Nil}
      /\ s.leaked \in SUBSET Requests
  BY <1>1, <1>2, PoolIs, ServerIs
<1>4. Distinct(q)
  BY <1>1, <1>2 DEF Local, Own
<1>5. \A r \in Load(v) : r \in Requests /\ r \in c.sub /\ s.answers[r] = <<>>
  <2> SUFFICES ASSUME NEW r \in Load(v) PROVE r \in Requests /\ r \in c.sub /\ s.answers[r] = <<>>
    OBVIOUS
  <2>1. Held(s, r)
    BY <1>1, <1>2 DEF Held
  <2>2. r \in Requests
    BY <2>1, <1>1, HeldAreRequests
  <2> QED BY <2>1, <2>2, <1>1 DEF Once
<1>6. Reqs(q) \subseteq Load(v) /\ (v.replyXaction # Nil => v.replyXaction.req \in Load(v))
  BY <1>2 DEF Load
<1>7. /\ t \in Pool /\ t.queue = s.queue /\ t.servers = s.servers /\ t.nActive = s.nActive /\ t.leaked = s.leaked
      /\ \A r \in Requests : IF r \in Reqs(q) THEN t.answers[r] \in {<<>>, <<"Unknown">>}
                             ELSE t.answers[r] = s.answers[r]
  BY <1>1, <1>2, <1>4, <1>5, <1>6, Dropping
<1>8. lk \in SUBSET Requests /\ lk \subseteq c.sub
  BY <1>1, <1>2, <1>3, <1>5, <1>6
<1> DEFINE up(a) == IF a < i THEN a ELSE a + 1
<1>9. /\ gap \in Seq(Server) /\ Len(gap) = n - 1 /\ n \in Nat
      /\ DOMAIN gap = 1..(n - 1) /\ DOMAIN s.servers = 1..n /\ i \in 1..n
      /\ \A a \in 1..(n - 1) : gap[a] = s.servers[up(a)]
  BY <1>1, <1>2, <1>3, Removing
<1>10. /\ u \in Pool /\ u.queue = s.queue /\ u.servers = gap /\ u.nActive = s.nActive /\ u.leaked = lk /\ u.answers = t.answers
  <2>1. u = [t EXCEPT !.servers = gap, !.leaked = lk]
    BY <1>2, <1>7 DEF Without
  <2> QED BY <2>1, <1>7, <1>8, <1>9 DEF Pool
<1>11. \A a \in 1..(n - 1) : up(a) \in 1..n /\ up(a) # i
  BY <1>9
<1>12. \A a, b \in 1..(n - 1) : up(a) = up(b) => a = b
  BY <1>9
<1>13. \A k \in 1..n : k # i => \E a \in 1..(n - 1) : up(a) = k
  <2> SUFFICES ASSUME NEW k \in 1..n, k # i PROVE \E a \in 1..(n - 1) : up(a) = k
    OBVIOUS
  <2>1. CASE k < i
    BY <2>1, <1>9
  <2>2. CASE ~(k < i)
    <3>1. k - 1 \in 1..(n - 1) /\ up(k - 1) = k
      BY <2>2, <1>9
    <3> QED BY <3>1
  <2> QED BY <2>1, <2>2
<1> HIDE DEF up
<1>14. \A a \in DOMAIN u.servers : Local(u.servers[a], a, c)
  <2> SUFFICES ASSUME NEW a \in 1..(n - 1) PROVE Local(gap[a], a, c)
    BY <1>9, <1>10
  <2>1. Local(s.servers[up(a)], up(a), c) /\ up(a) # 0 /\ a # 0
    BY <1>1, <1>9, <1>11
  <2> QED BY <2>1, <1>9, AnyPlace
<1>15. \A r : Held(u, r) => Held(s, r) /\ r \notin Load(v)
  <2> SUFFICES ASSUME NEW r, Held(u, r) PROVE Held(s, r) /\ r \notin Load(v)
    OBVIOUS
  <2>1. CASE r \in Reqs(u.queue)
    BY <2>1, <1>1, <1>2, <1>10 DEF Held, Apart
  <2>2. CASE \E a \in DOMAIN u.servers : r \in Load(u.servers[a])
    <3>1. PICK a \in 1..(n - 1) : r \in Load(s.servers[up(a)])
      BY <2>2, <1>9, <1>10
    <3>2. up(a) \in DOMAIN s.servers /\ up(a) # i
      BY <1>9, <1>11
    <3> QED BY <3>1, <3>2, <1>1, <1>2 DEF Held, Apart
  <2> QED BY <2>1, <2>2 DEF Held
<1>16. Apart(u)
  <2>1. Distinct(u.queue)
    BY <1>1, <1>10 DEF Apart
  <2>2. \A a \in 1..(n - 1) : Reqs(s.queue) \cap Load(gap[a]) = {}
    BY <1>1, <1>9, <1>11 DEF Apart
  <2>3. ASSUME NEW a \in 1..(n - 1), NEW b \in 1..(n - 1), a # b PROVE Load(gap[a]) \cap Load(gap[b]) = {}
    <3>1. up(a) \in DOMAIN s.servers /\ up(b) \in DOMAIN s.servers /\ up(a) # up(b)
      BY <2>3, <1>9, <1>11, <1>12
    <3>2. Load(s.servers[up(a)]) \cap Load(s.servers[up(b)]) = {}
      BY <3>1, <1>1 DEF Apart
    <3> QED BY <3>2, <1>9
  <2> QED BY <2>1, <2>2, <2>3, <1>9, <1>10 DEF Apart
<1>17. Once(u, c)
  <2> SUFFICES ASSUME NEW r \in Requests
               PROVE  /\ Len(u.answers[r]) <= 1
                      /\ c.whole = TRUE => u.answers[r] # <<"other">>
                      /\ u.answers[r] # <<>> => r \in c.sub /\ ~Held(u, r)
                      /\ Held(u, r) => r \in c.sub
    BY DEF Once
  <2>1. /\ Len(s.answers[r]) <= 1
        /\ c.whole = TRUE => s.answers[r] # <<"other">>
        /\ s.answers[r] # <<>> => r \in c.sub /\ ~Held(s, r)
        /\ Held(s, r) => r \in c.sub
    BY <1>1 DEF Once
  <2>2. CASE r \in Reqs(q)
    <3>1. u.answers[r] \in {<<>>, <<"Unknown">>} /\ r \in c.sub /\ ~Held(u, r)
      BY <2>2, <1>5, <1>6, <1>7, <1>10, <1>15
    <3>2. Len(<<>>) <= 1 /\ Len(<<"Unknown">>) <= 1 /\ <<"Unknown">> # <<"other">> /\ <<>> # <<"other">>
      OBVIOUS
    <3> QED BY <3>1, <3>2
  <2>3. CASE r \notin Reqs(q)
    BY <2>1, <2>3, <1>7, <1>10, <1>15
  <2> QED BY <2>2, <2>3
<1>18. u.nActive = Cardinality(Live(u))
  <2>1. PICK A, B : A = Live(u) /\ B = Live(s) \ {i}
    OBVIOUS
  <2>2. IsFiniteSet(A)
    BY <2>1, <1>10, LiveFinite
  <2>3. A \subseteq 1..(n - 1) /\ \A a \in 1..(n - 1) : a \in A <=> up(a) \in B
    BY <2>1, <1>9, <1>10, <1>11 DEF Live
  <2>4. B \subseteq 1..n /\ i \notin B
    BY <2>1, <1>9 DEF Live
  <2> DEFINE f == [a \in A |-> up(a)]
  <2>5. f \in [A -> B] /\ \A a \in A : f[a] = up(a)
    BY <2>3
  <2> HIDE DEF f
  <2>6. \A a, b \in A : f[a] = f[b] => a = b
    BY <2>3, <2>5, <1>12
  <2>7. \A k \in B : \E a \in A : f[a] = k
    <3> SUFFICES ASSUME NEW k \in B PROVE \E a \in A : f[a] = k
      OBVIOUS
    <3>1. PICK a \in 1..(n - 1) : up(a) = k
      BY <2>4, <1>13
    <3> QED BY <3>1, <2>3, <2>5
  <2>8. f \in Bijection(A, B)
    BY <2>5, <2>6, <2>7 DEF Bijection, Injection, Surjection, IsInjective
  <2>9. ExistsBijection(A, B)
    BY <2>8 DEF ExistsBijection
  <2>10. Cardinality(B) = Cardinality(A)
    BY <2>2, <2>9, FS_Bijection
  <2> QED BY <2>1, <2>10, <1>1, <1>10
<1>19. Sound(u, c)
  BY <1>8, <1>10, <1>14, <1>16, <1>17 DEF Sound
<1> QED BY <1>2, <1>18, <1>19 DEF Good

-----------------------------------------------------------------------------
(* The calls made by the event loop *)

\* The servers of a pool are in the limits of the states between two calls.
LEMMA RestWithin ==
  ASSUME NEW s, NEW sub, NEW whole
  PROVE  Within(s, Rest(sub, whole))
BY RestIs DEF Within

\* A request that has not been submitted is in no place.
LEMMA Growing ==
  ASSUME NEW s, NEW sub, NEW whole, NEW r \in Requests, r \notin sub, Good(s, Rest(sub, whole))
  PROVE  /\ Good(s, Rest(sub \cup {r}, whole))
         /\ InHand(s, r, Rest(sub \cup {r}, whole))
<1>1. PICK c, d : c = Rest(sub, whole) /\ d = Rest(sub \cup {r}, whole)
  OBVIOUS
<1>2. /\ c.sub = sub /\ d.sub = sub \cup {r} /\ c.extra = 0 /\ d.extra = 0 /\ c.busy = 0 /\ d.busy = 0
      /\ c.whole = d.whole /\ c.msg = d.msg
  BY <1>1, RestIs
<1>3. /\ s \in Pool /\ Apart(s) /\ Once(s, c) /\ s.leaked \subseteq c.sub /\ s.nActive = Cardinality(Live(s))
      /\ \A k \in DOMAIN s.servers : Local(s.servers[k], k, c)
  BY <1>1 DEF Good, Sound
<1>4. ASSUME NEW k \in DOMAIN s.servers PROVE Local(s.servers[k], k, d)
  <2>1. PICK v : v = s.servers[k]
    OBVIOUS
  <2>2. Counted(v, k, c) /\ Own(v) /\ Numbered(v) /\ Talks(v, k, c)
    BY <2>1, <1>3 DEF Local
  <2>3. Counted(v, k, d)
    BY <2>2, <1>2 DEF Counted
  <2>4. Talks(v, k, d)
    BY <2>2, <1>2 DEF Talks
  <2> QED BY <2>1, <2>2, <2>3, <2>4 DEF Local
<1>5. Once(s, d)
  BY <1>2, <1>3 DEF Once
<1>6. s.leaked \subseteq d.sub
  BY <1>2, <1>3
<1>7. InHand(s, r, d)
  <2>1. (s.answers[r] # <<>> => r \in c.sub) /\ (Held(s, r) => r \in c.sub)
    BY <1>3 DEF Once
  <2> QED BY <2>1, <1>2 DEF InHand
<1>8. Good(s, d)
  BY <1>3, <1>4, <1>5, <1>6 DEF Good, Sound
<1> QED BY <1>1, <1>7, <1>8

\* A submission.
LEMMA Submission ==
  ASSUME NEW whole, NEW r \in Requests, Good(hlp, Rest(submitted, whole)), helperSubmit(r)
  PROVE  Good(hlp', Rest(submitted', whole))
<1>1. r \notin submitted /\ submitted' = submitted \cup {r}
  BY DEF helperSubmit
<1>2. PICK c, s, x : c = Rest(submitted \cup {r}, whole) /\ s = syncQueueStats(hlp) /\ x = [req |-> r, retries |-> 0, id |-> 0]
  OBVIOUS
<1>3. Good(hlp, c) /\ InHand(hlp, r, c)
  BY <1>1, <1>2, Growing
<1>4. Good(s, c) /\ InHand(s, r, c) /\ Within(s, c)
  BY <1>2, <1>3, Syncing, RestWithin
<1>5. x \in Xaction /\ x.req = r
  BY <1>2, Limits DEF Xaction
<1>6. CASE Proceed(submitRequest(syncQueueStats(hlp), [req |-> r, retries |-> 0, id |-> 0]))
  <2>1. PICK u \in submitRequest(s, x) : hlp' = u
    BY <1>2, <1>6 DEF Proceed
  <2>2. Good(u, c)
    BY <1>4, <1>5, Submitting
  <2> QED BY <2>1, <2>2, <1>1, <1>2
<1>7. CASE Drop(r)
  <2>1. PICK t : t = Callback(hlp, r, "Error")
    OBVIOUS
  <2>2. "Error" \in Answers /\ "Error" # "other"
    BY DEF Answers
  <2>3. Good(t, c)
    BY <2>1, <2>2, <1>3, CallsBackGood
  <2>4. Good(syncQueueStats(t), c)
    BY <2>3, Syncing
  <2>5. hlp' = syncQueueStats(t)
    BY <2>1, <1>7 DEF Drop
  <2> QED BY <2>4, <2>5, <1>1, <1>2
<1> QED BY <1>6, <1>7 DEF helperSubmit

\* The timeout of a server.
LEMMA TimingOut ==
  ASSUME NEW c, Good(hlp, c), c.extra = 0, Within(hlp, c), NEW i \in DOMAIN hlp.servers, requestTimeout(i)
  PROVE  Good(hlp', c)
<1>1. PICK u \in checkForTimedOutRequests(hlp, i) : hlp' = u
  BY DEF requestTimeout, Proceed
<1>2. Good(u, c)
  BY Checking
<1> QED BY <1>1, <1>2

\* The close handler of a server.
LEMMA ServerClosed ==
  ASSUME NEW c, Good(hlp, c), c.extra = 0, c.busy = 0, Within(hlp, c),
         NEW i \in DOMAIN hlp.servers, HelperServerClosed(i)
  PROVE  Good(hlp', c)
<1>1. PICK s \in handleKilledServer(hlp, i) : hlp' = Without(s, i)
  BY Zenon DEF HelperServerClosed, Without
<1>2. Leaving(s, c, i)
  BY Killing
<1>3. Good(Without(s, i), c)
  BY <1>2, Removed
<1> QED BY <1>1, <1>3

\* A server that is told to shut down.
Told(v, now) == LET srv == [v EXCEPT !.shutdown = TRUE] IN IF now /\ srv.pending = 0 THEN closePipes(srv) ELSE srv

\* Shutting down does not change what a server has to answer.
LEMMA ToldIs ==
  ASSUME NEW v \in Server, NEW now
  PROVE  LET w == Told(v, now)
         IN  /\ w \in Server /\ w.shutdown = TRUE /\ Load(w) = Load(v)
             /\ \A k, c : Local(v, k, c) => Local(w, k, c)
<1>1. PICK u : u = [v EXCEPT !.shutdown = TRUE]
  OBVIOUS
<1>2. u \in Server /\ u.shutdown = TRUE /\ Load(u) = Load(v) /\ \A k, c : Local(v, k, c) => Local(u, k, c)
  BY <1>1, ShutdownIs
<1>3. PICK w : w = closePipes(u)
  OBVIOUS
<1>4. w \in Server /\ w.shutdown = u.shutdown /\ Load(w) = Load(u) /\ \A k, c : Local(u, k, c) => Local(w, k, c)
  BY <1>2, <1>3, Shutting
<1>5. Told(v, now) = w \/ Told(v, now) = u
  BY <1>1, <1>3, Zenon DEF Told
<1> QED BY <1>2, <1>4, <1>5

\* All servers are shut down.
LEMMA ShuttingDown ==
  ASSUME NEW c, Good(hlp, c), helperShutdown
  PROVE  Good(hlp', c)
<1>1. /\ hlp \in Pool /\ Sound(hlp, c) /\ hlp.nActive = Cardinality(Live(hlp))
      /\ \A k \in DOMAIN hlp.servers : Local(hlp.servers[k], k, c)
  BY DEF Good, Sound
<1>2. PICK q, n : q = [k \in DOMAIN hlp.servers |-> Told(hlp.servers[k], k \in Live(hlp))]
                  /\ n = hlp.nActive - Cardinality(Live(hlp))
  OBVIOUS
<1>3. PICK t : t = [hlp EXCEPT !.nActive = n, !.servers = q]
  OBVIOUS
<1>4. hlp' = t
  BY <1>2, <1>3, Zenon DEF helperShutdown, Told, Live
<1>5. n = 0
  <2>1. Cardinality(Live(hlp)) \in Nat
    BY <1>1, LiveFinite
  <2> QED BY <2>1, <1>1, <1>2
<1>6. DOMAIN q = DOMAIN hlp.servers /\ \A k \in DOMAIN hlp.servers : q[k] = Told(hlp.servers[k], k \in Live(hlp))
  BY <1>2
<1>7. \A k \in DOMAIN hlp.servers : /\ q[k] \in Server /\ q[k].shutdown = TRUE
                                    /\ Load(q[k]) = Load(hlp.servers[k]) /\ Local(q[k], k, c)
  <2> SUFFICES ASSUME NEW k \in DOMAIN hlp.servers
               PROVE  q[k] \in Server /\ q[k].shutdown = TRUE /\ Load(q[k]) = Load(hlp.servers[k]) /\ Local(q[k], k, c)
    OBVIOUS
  <2>1. PICK now : now = (k \in Live(hlp))
    OBVIOUS
  <2>2. q[k] = Told(hlp.servers[k], now) /\ hlp.servers[k] \in Server /\ Local(hlp.servers[k], k, c)
    BY <2>1, <1>1, <1>6, PoolIs
  <2> QED BY <2>2, ToldIs
<1>8. q \in Seq(Server)
  <2>1. DOMAIN hlp.servers = 1..Len(hlp.servers) /\ Len(hlp.servers) \in Nat
    BY <1>1, PoolIs
  <2>2. q = [k \in 1..Len(hlp.servers) |-> q[k]]
    BY <2>1, <1>2
  <2> QED BY <2>1, <2>2, <1>7
<1>9. /\ t \in Pool /\ t.queue = hlp.queue /\ t.answers = hlp.answers /\ t.leaked = hlp.leaked
      /\ t.servers = q /\ t.nActive = 0
  <2>1. n \in Int
    BY <1>5
  <2> QED BY <2>1, <1>1, <1>3, <1>5, <1>8 DEF Pool
<1>10. Sound(t, c)
  BY <1>1, <1>6, <1>7, <1>9, ServersChange
<1>11. Live(t) = {}
  BY <1>6, <1>7, <1>9 DEF Live
<1>12. Cardinality(Live(t)) = 0
  BY <1>11, FS_EmptySet
<1> QED BY <1>4, <1>9, <1>10, <1>12 DEF Good

\* A pool that has been started.
LEMMA Starting ==
  ASSUME NEW whole, Init
  PROVE  Good(hlp, Rest({}, whole))
<1>1. PICK c, q, a : c = Rest({}, whole) /\ q = [k \in 1..NStartup |-> NewServer] /\ a = [r \in Requests |-> <<>>]
  OBVIOUS
<1>2. hlp = [queue |-> <<>>, servers |-> q, nActive |-> NStartup, overloadStart |-> FALSE, started |-> NStartup,
             answers |-> a, leaked |-> {}, crashed |-> FALSE]
  BY <1>1 DEF Init
<1>3. c.sub = {} /\ c.extra = 0 /\ c.busy = 0
  BY <1>1, RestIs
<1>4. NStartup \in Nat /\ NStartup <= MaxServers /\ MaxServers \in Nat
  BY Limits
<1>5. \A k \in 1..NStartup : NewServer \in Server /\ Local(NewServer, k, c) /\ Load(NewServer) = {} /\ ~NewServer.shutdown
  <2>1. \A k \in 1..NStartup : k # c.extra /\ k # c.busy
    BY <1>3, <1>4
  <2> QED BY <2>1, NewServerIs
<1>6. DOMAIN q = 1..NStartup /\ q \in Seq(Server) /\ \A k \in 1..NStartup : q[k] = NewServer
  BY <1>1, <1>4, <1>5
<1>7. a \in [Requests -> Seq(Answers)] /\ \A r \in Requests : a[r] = <<>>
  BY <1>1
<1>8. /\ hlp \in Pool /\ hlp.queue = <<>> /\ hlp.servers = q /\ hlp.nActive = NStartup
      /\ hlp.answers = a /\ hlp.leaked = {}
  <2>1. NStartup \in 0..MaxServers /\ NStartup \in Int /\ {} \in SUBSET Requests /\ <<>> \in Seq(Xaction)
    BY <1>4
  <2> QED BY <2>1, <1>2, <1>6, <1>7 DEF Pool
<1>9. Reqs(hlp.queue) = {} /\ Distinct(hlp.queue)
  BY <1>8 DEF Reqs, Distinct
<1>10. \A k \in DOMAIN hlp.servers : Local(hlp.servers[k], k, c) /\ Load(hlp.servers[k]) = {}
  BY <1>5, <1>6, <1>8
<1>11. Apart(hlp)
  BY <1>9, <1>10 DEF Apart
<1>12. \A r : ~Held(hlp, r)
  BY <1>9, <1>10 DEF Held
<1>13. Once(hlp, c)
  <2>1. Len(<<>>) <= 1 /\ <<>> # <<"other">>
    OBVIOUS
  <2> QED BY <2>1, <1>7, <1>8, <1>12 DEF Once
<1>14. Sound(hlp, c)
  BY <1>3, <1>8, <1>10, <1>11, <1>13 DEF Sound
<1>15. Live(hlp) = 1..NStartup
  BY <1>5, <1>6, <1>8 DEF Live
<1>16. Cardinality(1..NStartup) = NStartup
  BY <1>4, FS_Interval
<1> QED BY <1>1, <1>8, <1>14, <1>15, <1>16 DEF Good

\* No read ends within a number if none of them is seen to.
LEMMA NumberIsWhole ==
  ASSUME NEW c, Good(hlp, c), c.extra = 0, c.busy = 0, NumbersWhole, NumbersWhole',
         NEW i \in DOMAIN hlp.servers, NEW x, NEW part, NEW result, helperHandleRead(i, x, part, result)
  PROVE  part # "id"
<1> SUFFICES ASSUME part = "id" PROVE FALSE
  OBVIOUS
<1>1. /\ hlp \in Pool /\ DOMAIN hlp.servers = 1..Len(hlp.servers) /\ Len(hlp.servers) \in Nat
      /\ hlp.servers[i] \in Server /\ Local(hlp.servers[i], i, c) /\ i # 0
  BY PoolIs DEF Good, Sound
<1>2. PICK v : v = hlp.servers[i]
  OBVIOUS
<1>3. v.closing \in BOOLEAN /\ v.ignoreToEom \in BOOLEAN
  BY <1>1, <1>2, ServerIs
<1>4. ~v.closing /\ "id" \in NextParts(v, x)
  BY <1>2 DEF helperHandleRead
<1>5. v.msg = Nil
  BY <1>2, <1>4 DEF NextParts, NumbersWhole
<1>6. Talks(v, i, c)
  BY <1>1, <1>2 DEF Local
<1>7. ~v.ignoreToEom /\ v.replyXaction = Nil
  BY <1>1, <1>4, <1>5, <1>6 DEF Talks
<1> DEFINE reader == [popRequest(v, x.id \div Radix) EXCEPT !.inbox = @ \ {x}, !.msg = [x |-> x, part |-> "id"]]
<1>8. x \in Xaction
  BY <1>1, <1>2, <1>5, ServerIs DEF helperHandleRead
<1>9. Proceed({[hlp EXCEPT !.servers[i] = reader]})
  BY <1>2, <1>7 DEF helperHandleRead
<1>10. hlp' = With(hlp, i, reader)
  BY <1>9, Zenon DEF Proceed, With
<1>11. reader.msg = [x |-> x, part |-> "id"]
  <2>1. PICK p, b : p = popRequest(v, x.id \div Radix) /\ b = p.inbox \ {x}
    OBVIOUS
  <2>2. reader = [p EXCEPT !.inbox = b, !.msg = [x |-> x, part |-> "id"]]
    BY <2>1
  <2> QED BY <2>2
<1> HIDE DEF reader
<1>12. i \in DOMAIN hlp'.servers /\ hlp'.servers[i] = reader
  BY <1>1, <1>10, PoolIs DEF With
<1>13. hlp'.servers[i].msg # Nil /\ hlp'.servers[i].msg.part = "id"
  <2>1. PICK m : m = [x |-> x, part |-> "id"]
    OBVIOUS
  <2>2. m.part = "id"
    BY <2>1
  <2>3. m \in Message
    BY <2>1, <1>8 DEF Message
  <2> QED BY <2>1, <2>2, <2>3, <1>11, <1>12, Limits
<1> QED BY <1>12, <1>13 DEF NumbersWhole

\* What a call leads to.
LEMMA CallsKeep ==
  ASSUME NEW whole, HInv(whole), Next, whole = TRUE => NumbersWhole /\ NumbersWhole'
  PROVE  HInv(whole)'
<1>1. PICK c : c = Rest(submitted, whole)
  OBVIOUS
<1>2. /\ c.sub = submitted /\ c.extra = 0 /\ c.busy = 0 /\ c.whole = whole /\ Within(hlp, c)
  BY <1>1, RestIs, RestWithin
<1>3. /\ Good(hlp, c) /\ gone \subseteq submitted /\ submitted \subseteq Requests
      /\ reconfiguring \in BOOLEAN /\ exits \in 0..MaxExits /\ reconfigures \in 0..MaxReconfigures
  BY <1>1 DEF HInv
<1>4. MaxExits \in Nat /\ MaxReconfigures \in Nat
  BY Limits
<1>5. ASSUME NEW r \in Requests, helperSubmit(r) PROVE HInv(whole)'
  <2>1. Good(hlp', Rest(submitted', whole))
    BY <1>1, <1>3, <1>5, Submission
  <2>2. submitted' = submitted \cup {r} /\ UNCHANGED <<gone, reconfiguring, exits, reconfigures>>
    BY <1>5 DEF helperSubmit
  <2> QED BY <2>1, <2>2, <1>3 DEF HInv
<1>6. ASSUME NEW r \in Requests, callerGone(r) PROVE HInv(whole)'
  <2>1. r \in submitted /\ gone' = gone \cup {r} /\ UNCHANGED <<hlp, submitted, reconfiguring, exits, reconfigures>>
    BY <1>6 DEF callerGone
  <2> QED BY <2>1, <1>1, <1>3 DEF HInv
<1>7. ASSUME NEW part \in {"id", "body", "end"}, NEW result, Replying(part, result) PROVE HInv(whole)'
  <2>1. PICK i \in DOMAIN hlp.servers : \E x : helperHandleRead(i, x, part, result)
    BY <1>7 DEF Replying
  <2> PICK x : helperHandleRead(i, x, part, result)
    BY <2>1
  <2>2. c.whole = TRUE => part # "id"
    BY <1>2, <1>3, NumberIsWhole
  <2>3. Good(hlp', c)
    BY <2>2, <1>2, <1>3, Reading
  <2>4. UNCHANGED <<submitted, gone, reconfiguring, exits, reconfigures>>
    BY DEF helperHandleRead
  <2> QED BY <2>3, <2>4, <1>1, <1>3 DEF HInv
<1>8. ASSUME NEW i \in DOMAIN hlp.servers, accumulateFails(i) PROVE HInv(whole)'
  <2>1. hlp' = closePipesSafely(hlp, i) /\ UNCHANGED <<submitted, gone, reconfiguring, exits, reconfigures>>
    BY <1>8 DEF accumulateFails
  <2>2. Good(hlp', c)
    BY <2>1, <1>3, ClosingPipes
  <2> QED BY <2>1, <2>2, <1>1, <1>3 DEF HInv
<1>9. ASSUME NEW i \in DOMAIN hlp.servers, helperExits(i) PROVE HInv(whole)'
  <2>1. /\ hlp' = closePipesSafely(hlp, i) /\ UNCHANGED <<submitted, gone, reconfiguring, reconfigures>>
        /\ exits < MaxExits /\ exits' = exits + 1
    BY <1>9 DEF helperExits
  <2>2. Good(hlp', c)
    BY <2>1, <1>3, ClosingPipes
  <2> QED BY <2>1, <2>2, <1>1, <1>3, <1>4 DEF HInv
<1>10. ASSUME NEW i \in DOMAIN hlp.servers, requestTimeout(i) PROVE HInv(whole)'
  <2>1. Good(hlp', c)
    BY <1>2, <1>3, <1>10, TimingOut
  <2>2. UNCHANGED <<submitted, gone, reconfiguring, exits, reconfigures>>
    BY <1>10 DEF requestTimeout
  <2> QED BY <2>1, <2>2, <1>1, <1>3 DEF HInv
<1>11. ASSUME Closed PROVE HInv(whole)'
  <2>1. PICK i \in DOMAIN hlp.servers : HelperServerClosed(i)
    BY <1>11 DEF Closed
  <2>2. Good(hlp', c)
    BY <2>1, <1>2, <1>3, ServerClosed
  <2>3. UNCHANGED <<submitted, gone, reconfiguring, exits, reconfigures>>
    BY <2>1 DEF HelperServerClosed
  <2> QED BY <2>2, <2>3, <1>1, <1>3 DEF HInv
<1>12. ASSUME helperShutdown PROVE HInv(whole)'
  <2>1. Good(hlp', c)
    BY <1>3, <1>12, ShuttingDown
  <2>2. /\ UNCHANGED <<submitted, gone, exits>> /\ reconfiguring' = TRUE
        /\ reconfigures < MaxReconfigures /\ reconfigures' = reconfigures + 1
    BY <1>12 DEF helperShutdown
  <2> QED BY <2>1, <2>2, <1>1, <1>3, <1>4 DEF HInv
<1>13. ASSUME reconfigureFinish PROVE HInv(whole)'
  <2>1. PICK u \in helperOpenServers(hlp) : hlp' = u
    BY <1>13 DEF reconfigureFinish, Proceed
  <2>2. Good(u, c)
    BY <1>2, <1>3, Opening
  <2>3. UNCHANGED <<submitted, gone, exits, reconfigures>> /\ reconfiguring' = FALSE
    BY <1>13 DEF reconfigureFinish
  <2> QED BY <2>1, <2>2, <2>3, <1>1, <1>3 DEF HInv
<1> QED BY <1>5, <1>6, <1>7, <1>8, <1>9, <1>10, <1>11, <1>12, <1>13 DEF Next

\* The pool before the first call.
LEMMA StartsKept ==
  ASSUME NEW whole, Init
  PROVE  HInv(whole)
<1>1. Good(hlp, Rest({}, whole))
  BY Starting
<1>2. submitted = {} /\ gone = {} /\ reconfiguring = FALSE /\ exits = 0 /\ reconfigures = 0
  BY DEF Init
<1>3. 0 \in 0..MaxExits /\ 0 \in 0..MaxReconfigures
  BY Limits
<1>4. Good(hlp, Rest(submitted, whole))
  BY <1>1, <1>2, Zenon
<1> QED BY <1>2, <1>3, <1>4 DEF HInv

\* Between two calls nothing happens.
LEMMA StuttersKeep ==
  ASSUME NEW whole, HInv(whole), UNCHANGED vars
  PROVE  HInv(whole)'
BY DEF HInv, vars

-----------------------------------------------------------------------------
(* The theorems *)

\* The inductive invariant holds, however the replies are cut into reads.
THEOREM PoolInvariant == Spec => []HInv(FALSE)
<1>1. Init => HInv(FALSE)
  BY StartsKept
<1>2. HInv(FALSE) /\ [Next]_vars => HInv(FALSE)'
  <2>1. HInv(FALSE) /\ Next => HInv(FALSE)'
    <3>1. FALSE # TRUE
      OBVIOUS
    <3> QED BY <3>1, CallsKeep
  <2> QED BY <2>1, StuttersKeep
<1> QED BY <1>1, <1>2, PTL DEF Spec

\* Types: the counters that the asserts of handleKilledServer() and of
\* helperShutdown() are about never fall below zero.
THEOREM TypeCorrect == Spec => []TypeOK
<1>1. HInv(FALSE) => TypeOK
  <2> SUFFICES ASSUME HInv(FALSE) PROVE TypeOK
    OBVIOUS
  <2>1. PICK c : c = Rest(submitted, FALSE)
    OBVIOUS
  <2>2. c.sub = submitted
    BY <2>1, RestIs
  <2>3. hlp \in Pool /\ hlp.leaked \subseteq c.sub /\ hlp.nActive = Cardinality(Live(hlp))
    BY <2>1 DEF HInv, Good, Sound
  <2>4. hlp.nActive \in Nat
    BY <2>3, LiveFinite
  <2> QED BY <2>2, <2>3, <2>4, PoolIs DEF TypeOK, HInv, Answers
<1> QED BY <1>1, PoolInvariant, PTL

\* pending and nActive count what they stand for, for every size of the pool
\* and whatever timeouts, retries, exits and shutdowns happen.
THEOREM CountersCorrect == Spec => []CountersExact
<1>1. HInv(FALSE) => CountersExact
  <2> SUFFICES ASSUME HInv(FALSE) PROVE CountersExact
    OBVIOUS
  <2>1. PICK c : c = Rest(submitted, FALSE)
    OBVIOUS
  <2>2. c.extra = 0
    BY <2>1 DEF Rest
  <2>3. /\ hlp \in Pool /\ hlp.nActive = Cardinality(Live(hlp))
        /\ \A k \in DOMAIN hlp.servers : Local(hlp.servers[k], k, c)
    BY <2>1 DEF HInv, Good, Sound
  <2>4. ASSUME NEW k \in DOMAIN hlp.servers
        PROVE  LET srv == hlp.servers[k] IN
               /\ srv.pending = Len(srv.requests) + (IF srv.replyXaction = Nil THEN 0 ELSE 1)
               /\ srv.pending <= Concurrency
    <3>1. PICK v : v = hlp.servers[k]
      OBVIOUS
    <3>2. v \in Server /\ Len(v.requests) \in Nat /\ k # 0
      <4>1. v \in Server /\ DOMAIN hlp.servers = 1..Len(hlp.servers) /\ Len(hlp.servers) \in Nat
        BY <3>1, <2>3, PoolIs
      <4>2. v.requests \in Seq(Xaction)
        BY <4>1, ServerIs
      <4> QED BY <4>1, <4>2
    <3>3. Counted(v, k, c)
      BY <3>1, <2>3 DEF Local
    <3>4. v.pending = Len(v.requests) + (IF v.replyXaction = Nil THEN 0 ELSE 1) /\ v.pending <= Concurrency
      <4>1. PICK e, m, b : e = c.extra /\ m = Len(v.requests) /\ b = IF v.replyXaction = Nil THEN 0 ELSE 1
        OBVIOUS
      <4>2. v.pending = m + b + (IF k = e THEN 1 ELSE 0) /\ v.pending <= Concurrency
        BY <4>1, <3>3 DEF Counted
      <4>3. e = 0 /\ m \in Nat /\ b \in Nat
        BY <4>1, <3>2, <2>2
      <4>4. k # e
        BY <4>3, <3>2
      <4>5. v.pending = m + b /\ v.pending <= Concurrency
        BY <4>2, <4>3, <4>4
      <4> QED BY <4>1, <4>5, Zenon
    <3> QED BY <3>1, <3>4
  <2> QED BY <2>3, <2>4 DEF CountersExact, Live
<1> QED BY <1>1, PoolInvariant, PTL

\* No caller is called back twice, whichever of a reply, a timeout, the end of
\* its process and an overload comes first.
THEOREM CalledBackOnce == Spec => [](\A r \in Requests : Len(hlp.answers[r]) <= 1)
<1>1. HInv(FALSE) => \A r \in Requests : Len(hlp.answers[r]) <= 1
  BY DEF HInv, Good, Sound, Once
<1> QED BY <1>1, PoolInvariant, PTL

\* As long as no read ends within the number of a reply, a reply goes to the
\* caller whose request it answers.
THEOREM RepliesMatch == Spec /\ []NumbersWhole => []AnswersMatch
<1>1. Init => HInv(TRUE)
  BY StartsKept
<1>2. HInv(TRUE) /\ NumbersWhole /\ NumbersWhole' /\ [Next]_vars => HInv(TRUE)'
  <2>1. HInv(TRUE) /\ NumbersWhole /\ NumbersWhole' /\ Next => HInv(TRUE)'
    BY CallsKeep
  <2> QED BY <2>1, StuttersKeep
<1>3. HInv(TRUE) => AnswersMatch
  <2> SUFFICES ASSUME HInv(TRUE) PROVE AnswersMatch
    OBVIOUS
  <2>1. PICK c : c = Rest(submitted, TRUE)
    OBVIOUS
  <2>2. c.whole = TRUE
    BY <2>1, RestIs
  <2>3. Once(hlp, c)
    BY <2>1 DEF HInv, Good, Sound
  <2> QED BY <2>2, <2>3 DEF Once, AnswersMatch
<1> QED BY <1>1, <1>2, <1>3, PTL DEF Spec
=============================================================================
