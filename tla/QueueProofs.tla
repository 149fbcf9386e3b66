---------------------------- MODULE QueueProofs ----------------------------
(***************************************************************************)
(* Theorems about Queue, for any number of remote processes, any capacity  *)
(* and any range of unsigned int that the capacity divides.                *)
(*                                                                         *)
(* Two inductive invariants.  BufferInv is about the items: a writer that  *)
(* has passed the test for full() has room, a reader that has passed the   *)
(* test for empty() has an item.  It survives restarts of the reader.      *)
(* SignalInv is about the wake-ups: while the reader goes around its       *)
(* queues, it leaves behind only queues whose next push() will find it     *)
(* blocked.                                                                *)
(***************************************************************************)
EXTENDS Queue, Integers, Sequences, FiniteSets, Functions, FiniteSetTheorems, SequenceTheorems,
        WellFoundedInduction, TLAPS

----------------------------------------------------------------------------
(* Counting *)

\* Two sets that differ in at most one element have cardinalities that
\* differ accordingly: how a step of one process changes a count of
\* processes.
LEMMA OneElement ==
  ASSUME NEW S, NEW T, NEW e, IsFiniteSet(S), IsFiniteSet(T),
         \A x : x # e => (x \in S <=> x \in T)
  PROVE  /\ (e \in S <=> e \in T) => Cardinality(T) = Cardinality(S)
         /\ e \notin S /\ e \in T => Cardinality(T) = Cardinality(S) + 1
         /\ e \in S /\ e \notin T => Cardinality(T) = Cardinality(S) - 1
<1>1. ASSUME e \in S <=> e \in T PROVE Cardinality(T) = Cardinality(S)
  <2>1. S = T BY <1>1
  <2> QED BY <2>1
<1>2. ASSUME e \notin S, e \in T PROVE Cardinality(T) = Cardinality(S) + 1
  <2>1. T = S \cup {e} BY <1>2
  <2> QED BY <2>1, <1>2, FS_AddElement
<1>3. ASSUME e \in S, e \notin T PROVE Cardinality(T) = Cardinality(S) - 1
  <2>1. T = S \ {e} BY <1>3
  <2> QED BY <2>1, <1>3, FS_RemoveElement
<1> QED BY <1>1, <1>2, <1>3

----------------------------------------------------------------------------

----------------------------------------------------------------------------
(* Positions and slots *)

\* theIn++ and theOut++ wrap around.
LEMMA IncrementIs ==
  ASSUME NEW n \in 0..UIntMax
  PROVE  /\ Increment(n) = IF n = UIntMax THEN 0 ELSE n + 1
         /\ Increment(n) \in 0..UIntMax
BY WrapAssumption DEF Increment

\* The unsigned difference of two positions.
LEMMA DistanceIs ==
  ASSUME NEW m \in 0..UIntMax, NEW n \in 0..UIntMax
  PROVE  /\ Distance(m, n) = IF m <= n THEN n - m ELSE n - m + UIntMax + 1
         /\ Distance(m, n) \in 0..UIntMax
BY WrapAssumption DEF Distance

\* Every position has its slot in the buffer.
LEMMA SlotRange ==
  ASSUME NEW n \in 0..UIntMax
  PROVE  n % theCapacity \in 0..(theCapacity - 1)
BY CountAssumption, WrapAssumption

\* Quotient and remainder of a position.
LEMMA QuoRem ==
  ASSUME NEW n \in Nat
  PROVE  \E q \in Int : n = (theCapacity * q) + (n % theCapacity)
<1>1. /\ n = (theCapacity * (n \div theCapacity)) + (n % theCapacity)
      /\ n \div theCapacity \in Int
  BY CountAssumption
<1> QED BY <1>1

\* No multiple of the capacity lies strictly between zero and the capacity.
LEMMA NoMultiple ==
  ASSUME NEW x \in Int, NEW d \in Int, 0 < d, d < theCapacity
  PROVE  d # theCapacity * x
BY CountAssumption

\* Positions less than the capacity apart have different slots, also when
\* unsigned int wraps around between them: push() does not overwrite an item
\* that pop() has not copied.
LEMMA SlotsDiffer ==
  ASSUME NEW m \in 0..UIntMax, NEW n \in 0..UIntMax,
         0 < Distance(m, n), Distance(m, n) < theCapacity
  PROVE  m % theCapacity # n % theCapacity
<1>1. PICK a \in Int : m = (theCapacity * a) + (m % theCapacity)
  BY QuoRem, WrapAssumption
<1>2. PICK b \in Int : n = (theCapacity * b) + (n % theCapacity)
  BY QuoRem, WrapAssumption
<1>3. PICK k \in Int : UIntMax + 1 = theCapacity * k
  <2>1. PICK k \in Int : UIntMax + 1 = (theCapacity * k) + ((UIntMax + 1) % theCapacity)
    BY QuoRem, WrapAssumption
  <2> QED BY <2>1, WrapAssumption, CountAssumption
<1> SUFFICES ASSUME m % theCapacity = n % theCapacity PROVE FALSE
  OBVIOUS
<1>4. CASE m <= n
  <2>1. Distance(m, n) = theCapacity * (b - a) /\ b - a \in Int
    BY <1>1, <1>2, <1>4, DistanceIs, CountAssumption, WrapAssumption
  <2> QED BY <2>1, NoMultiple, CountAssumption
<1>5. CASE ~(m <= n)
  <2>1. Distance(m, n) = n - m + UIntMax + 1
    BY <1>5, DistanceIs
  <2>2. Distance(m, n) = theCapacity * (b - a + k) /\ b - a + k \in Int
    BY <1>1, <1>2, <1>3, <2>1, CountAssumption, WrapAssumption
  <2> QED BY <2>2, NoMultiple, CountAssumption
<1> QED BY <1>4, <1>5

----------------------------------------------------------------------------
(* The items *)

\* Between full() and ++theSize a writer has room for its item.
WriterHasRoom ==
  \A r \in Remotes : wpc[r] \in {"copy", "grow"} => theSize[r] < theCapacity

\* While it pops, the reader is at one of the queues, and between empty()
\* and --theSize that queue has an item.
Popping == {"test", "block", "retest", "unblock", "copy", "shrink"}
ReaderAtQueue ==
  /\ rpc \in Popping => theLastPopProcessId \in Remotes /\ tries \in Remotes
  /\ rpc \in {"unblock", "copy", "shrink"} => theSize[theLastPopProcessId] > 0

BufferInv == TypeOK /\ WriterHasRoom /\ ReaderAtQueue /\ ContentsIntact /\ FirstInFirstOut

\* A new queue is empty.
LEMMA BufferInit == Init => BufferInv
<1> SUFFICES ASSUME Init PROVE BufferInv
  OBVIOUS
<1> USE CountAssumption, WrapAssumption
<1>1. TypeOK
  <2>1. /\ popBlocked \in BOOLEAN /\ popSignal \in BOOLEAN /\ notifications \in Nat
        /\ wpc \in [Remotes -> WriterSteps] /\ rpc \in ReaderSteps
    BY DEF Init, WriterSteps, ReaderSteps
  <2>2. /\ theIn \in [Remotes -> 0..UIntMax] /\ theOut \in [Remotes -> 0..UIntMax]
        /\ theSize \in [Remotes -> 0..theCapacity] /\ value \in 0..UIntMax
        /\ theBuffer \in [Remotes -> [0..(theCapacity - 1) -> 0..UIntMax]]
        /\ theLastPopProcessId \in 0..remotesCount /\ tries \in 0..remotesCount
    BY DEF Init
  <2> QED BY <2>1, <2>2 DEF TypeOK
<1>2. WriterHasRoom /\ ReaderAtQueue /\ FirstInFirstOut
  BY DEF Init, WriterHasRoom, ReaderAtQueue, Popping, FirstInFirstOut, Remotes
<1>3. ContentsIntact
  <2> SUFFICES ASSUME NEW r \in Remotes
               PROVE  /\ theSize[r] = 0 /\ wpc[r] # "grow" /\ rpc # "shrink" /\ Stored(r) = 0
                      /\ \A n \in 0..UIntMax : ~ (Distance(theOut[r], n) < 0)
    BY DEF ContentsIntact
  <2> QED BY DistanceIs DEF Init, Stored
<1> QED BY <1>1, <1>2, <1>3 DEF BufferInv

\* The half of ContentsIntact that is about one queue.
Intact(r) ==
  /\ theSize[r] + (IF wpc[r] = "grow" THEN 1 ELSE 0)
       - (IF rpc = "shrink" /\ theLastPopProcessId = r THEN 1 ELSE 0) = Stored(r)
  /\ \A n \in 0..UIntMax : Distance(theOut[r], n) < Stored(r) => theBuffer[r][n % theCapacity] = n

\* A step that leaves the positions and the buffer of a queue alone, and its
\* size but for a push() or a pop() that is no longer half done, keeps the
\* items of that queue.
LEMMA IntactKept ==
  ASSUME NEW r \in Remotes, Intact(r),
         theIn'[r] = theIn[r], theOut'[r] = theOut[r], theBuffer'[r] = theBuffer[r],
         theSize'[r] + (IF wpc'[r] = "grow" THEN 1 ELSE 0)
           - (IF rpc' = "shrink" /\ theLastPopProcessId' = r THEN 1 ELSE 0) =
         theSize[r] + (IF wpc[r] = "grow" THEN 1 ELSE 0)
           - (IF rpc = "shrink" /\ theLastPopProcessId = r THEN 1 ELSE 0)
  PROVE  Intact(r)'
BY DEF Intact, Stored

\* push() copies its item behind the others and leaves them alone.
LEMMA PushCopyKeeps ==
  ASSUME BufferInv, NEW w \in Remotes, PushCopy(w)
  PROVE  BufferInv'
<1> USE CountAssumption, WrapAssumption
<1>0. /\ TypeOK /\ theIn[w] \in 0..UIntMax /\ theOut[w] \in 0..UIntMax
      /\ theSize[w] \in 0..theCapacity /\ theIn[w] % theCapacity \in 0..(theCapacity - 1)
  BY SlotRange DEF BufferInv, TypeOK
<1>1. TypeOK'
  BY <1>0, IncrementIs, SlotRange
     DEF TypeOK, PushCopy, WriterGoto, WriterSteps, reader, readerLocals
<1>2. WriterHasRoom' /\ ReaderAtQueue' /\ FirstInFirstOut'
  BY <1>0 DEF BufferInv, TypeOK, PushCopy, WriterGoto, WriterHasRoom, ReaderAtQueue,
              FirstInFirstOut, reader, readerLocals
<1>3. ASSUME NEW r \in Remotes, r # w PROVE Intact(r)'
  <2>1. Intact(r) BY DEF BufferInv, ContentsIntact, Intact
  <2> QED BY <1>0, <1>3, <2>1, IntactKept DEF TypeOK, PushCopy, WriterGoto, reader, readerLocals
<1>4. Intact(w)'
  <2>1. Intact(w) BY DEF BufferInv, ContentsIntact, Intact
  <2>2. Stored(w) = Distance(theOut[w], theIn[w]) /\ Stored(w) <= theSize[w] /\ Stored(w) < theCapacity
    BY <1>0, <2>1 DEF BufferInv, WriterHasRoom, PushCopy, WriterGoto, Intact, Stored
  <2>3. /\ theIn'[w] = Increment(theIn[w]) /\ theOut'[w] = theOut[w] /\ theSize'[w] = theSize[w]
        /\ theBuffer'[w] = [theBuffer[w] EXCEPT ![theIn[w] % theCapacity] = theIn[w]]
        /\ wpc[w] = "copy" /\ wpc'[w] = "grow"
        /\ rpc' = rpc /\ theLastPopProcessId' = theLastPopProcessId
    BY <1>0 DEF TypeOK, PushCopy, WriterGoto, reader, readerLocals
  <2>4. Stored(w)' = Stored(w) + 1
    <3>1. /\ Increment(theIn[w]) \in 0..UIntMax
          /\ Increment(theIn[w]) = IF theIn[w] = UIntMax THEN 0 ELSE theIn[w] + 1
      BY <1>0, IncrementIs
    <3>2. Distance(theOut[w], theIn[w]) =
            IF theOut[w] <= theIn[w] THEN theIn[w] - theOut[w]
            ELSE theIn[w] - theOut[w] + UIntMax + 1
      BY <1>0, DistanceIs
    <3>3. Distance(theOut[w], Increment(theIn[w])) =
            IF theOut[w] <= Increment(theIn[w]) THEN Increment(theIn[w]) - theOut[w]
            ELSE Increment(theIn[w]) - theOut[w] + UIntMax + 1
      BY <1>0, <3>1, DistanceIs
    <3>4. Distance(theOut[w], Increment(theIn[w])) = Distance(theOut[w], theIn[w]) + 1
      BY <1>0, <2>2, <3>1, <3>2, <3>3, CapacityAssumption
    <3> QED BY <2>2, <2>3, <3>4 DEF Stored
  <2>5. ASSUME NEW n \in 0..UIntMax, Distance(theOut[w], n) < Stored(w) + 1
        PROVE  theBuffer'[w][n % theCapacity] = n
    <3>1. n % theCapacity \in 0..(theCapacity - 1)
      BY SlotRange
    <3>2. CASE n = theIn[w]
      BY <1>0, <2>3, <3>1, <3>2 DEF TypeOK
    <3>3. CASE n # theIn[w]
      <4>1. /\ Distance(theOut[w], n) < Stored(w)
            /\ 0 < Distance(n, theIn[w]) /\ Distance(n, theIn[w]) < theCapacity
        <5> DEFINE o == theOut[w]
                   i == theIn[w]
        <5>1. /\ Distance(o, n) = IF o <= n THEN n - o ELSE n - o + UIntMax + 1
              /\ Distance(o, i) = IF o <= i THEN i - o ELSE i - o + UIntMax + 1
              /\ Distance(n, i) = IF n <= i THEN i - n ELSE i - n + UIntMax + 1
          BY <1>0, DistanceIs
        <5>2. /\ o \in 0..UIntMax /\ i \in 0..UIntMax /\ n # i
              /\ Distance(o, i) < theCapacity /\ Distance(o, n) < Distance(o, i) + 1
          BY <1>0, <2>2, <2>5, <3>3
        <5> HIDE DEF o, i
        <5>3. /\ Distance(o, n) < Distance(o, i)
              /\ 0 < Distance(n, i) /\ Distance(n, i) < theCapacity
          BY <5>1, <5>2
        <5> QED BY <2>2, <5>3 DEF o, i
      <4>2. n % theCapacity # theIn[w] % theCapacity
        BY <1>0, <4>1, SlotsDiffer
      <4>3. theBuffer[w][n % theCapacity] = n
        BY <2>1, <4>1 DEF Intact
      <4> QED BY <1>0, <2>3, <3>1, <4>2, <4>3 DEF TypeOK
    <3> QED BY <3>2, <3>3
  <2> QED BY <1>0, <2>1, <2>2, <2>3, <2>4, <2>5 DEF Intact
<1> QED BY <1>1, <1>2, <1>3, <1>4 DEF BufferInv, ContentsIntact, Intact

\* pop() copies the oldest item.
LEMMA PopCopyKeeps ==
  ASSUME BufferInv, PopCopy
  PROVE  BufferInv'
<1> USE CountAssumption, WrapAssumption
<1> DEFINE q == theLastPopProcessId
<1>0. /\ TypeOK /\ q \in Remotes /\ theIn[q] \in 0..UIntMax /\ theOut[q] \in 0..UIntMax
      /\ theSize[q] \in 0..theCapacity /\ theOut[q] % theCapacity \in 0..(theCapacity - 1)
      /\ theSize[q] > 0 /\ rpc = "copy"
  BY SlotRange DEF BufferInv, TypeOK, ReaderAtQueue, Popping, PopCopy, ReaderGoto
<1>1. Intact(q) BY <1>0 DEF BufferInv, ContentsIntact, Intact
<1>2. Stored(q) = Distance(theOut[q], theIn[q]) /\ Stored(q) > 0
  BY <1>0, <1>1 DEF Intact, Stored
<1>3. /\ theOut'[q] = Increment(theOut[q]) /\ theIn' = theIn /\ theSize' = theSize
      /\ theBuffer' = theBuffer /\ wpc' = wpc /\ rpc' = "shrink" /\ q' = q
  BY <1>0 DEF TypeOK, PopCopy, ReaderGoto
<1>4. value' = theOut[q]
  <2>1. Distance(theOut[q], theOut[q]) < Stored(q)
    <3>1. Distance(theOut[q], theOut[q]) = 0
      BY <1>0, DistanceIs
    <3> QED BY <1>2, <3>1
  <2> QED BY <1>0, <1>1, <2>1 DEF Intact, PopCopy
<1>5. TypeOK'
  BY <1>0, <1>4, IncrementIs DEF TypeOK, PopCopy, ReaderGoto, ReaderSteps, reader
<1>6. WriterHasRoom' /\ ReaderAtQueue' /\ FirstInFirstOut'
  BY <1>0, <1>3, <1>4 DEF BufferInv, TypeOK, PopCopy, ReaderGoto, WriterHasRoom, ReaderAtQueue,
                    Popping, FirstInFirstOut, reader
<1>7. ASSUME NEW r \in Remotes, r # q PROVE Intact(r)'
  <2>1. Intact(r) BY DEF BufferInv, ContentsIntact, Intact
  <2> QED BY <1>0, <1>7, <2>1, IntactKept DEF TypeOK, PopCopy, ReaderGoto
<1>8. Intact(q)'
  <2>1. Stored(q)' = Stored(q) - 1
    <3> DEFINE o == theOut[q]
               i == theIn[q]
    <3>1. /\ Distance(o, i) = IF o <= i THEN i - o ELSE i - o + UIntMax + 1
          /\ Increment(o) = IF o = UIntMax THEN 0 ELSE o + 1
          /\ Increment(o) \in 0..UIntMax
      BY <1>0, DistanceIs, IncrementIs
    <3>2. Distance(Increment(o), i) =
            IF Increment(o) <= i THEN i - Increment(o) ELSE i - Increment(o) + UIntMax + 1
      BY <1>0, <3>1, DistanceIs
    <3>3. o \in 0..UIntMax /\ i \in 0..UIntMax /\ Distance(o, i) > 0
      BY <1>0, <1>2
    <3>4. Stored(q) = Distance(o, i) /\ Stored(q)' = Distance(Increment(o), i)
      BY <1>2, <1>3 DEF Stored
    <3> HIDE DEF o, i
    <3>5. Distance(Increment(o), i) = Distance(o, i) - 1
      BY <3>1, <3>2, <3>3
    <3> QED BY <3>4, <3>5
  <2>2. ASSUME NEW n \in 0..UIntMax, Distance(theOut'[q], n) < Stored(q) - 1
        PROVE  Distance(theOut[q], n) < Stored(q)
    <3> DEFINE o == theOut[q]
               i == theIn[q]
    <3>1. /\ Distance(o, n) = IF o <= n THEN n - o ELSE n - o + UIntMax + 1
          /\ Distance(o, i) = IF o <= i THEN i - o ELSE i - o + UIntMax + 1
          /\ Increment(o) = IF o = UIntMax THEN 0 ELSE o + 1
      BY <1>0, DistanceIs, IncrementIs
    <3>2. Distance(Increment(o), n) =
            IF Increment(o) <= n THEN n - Increment(o) ELSE n - Increment(o) + UIntMax + 1
      BY <1>0, DistanceIs, IncrementIs
    <3> HIDE DEF o, i
    <3>3. o \in 0..UIntMax /\ i \in 0..UIntMax
      BY <1>0 DEF o, i
    <3>4. Stored(q) = Distance(o, i) /\ Distance(Increment(o), n) < Distance(o, i) - 1
      BY <1>2, <1>3, <2>2 DEF o, i
    <3>5. Distance(o, n) < Distance(o, i)
      BY <3>1, <3>2, <3>3, <3>4
    <3> QED BY <3>4, <3>5 DEF o
  <2> QED BY <1>0, <1>1, <1>3, <2>1, <2>2 DEF Intact
<1> QED BY <1>0, <1>3, <1>5, <1>6, <1>7, <1>8 DEF BufferInv, ContentsIntact, Intact

\* ++theSize: the item that was copied now counts.
LEMMA PushGrowKeeps ==
  ASSUME BufferInv, NEW w \in Remotes, PushGrow(w)
  PROVE  BufferInv'
<1> USE CountAssumption, WrapAssumption
<1>0. TypeOK /\ theSize[w] \in 0..theCapacity /\ theSize[w] < theCapacity /\ wpc[w] = "grow"
  BY DEF BufferInv, TypeOK, WriterHasRoom, PushGrow, WriterGoto
<1>1. /\ theSize' = [theSize EXCEPT ![w] = theSize[w] + 1]
      /\ wpc' = [wpc EXCEPT ![w] = IF theSize[w] = 0 THEN "blocked" ELSE "idle"]
  BY DEF PushGrow, WriterGoto
<1>2. TypeOK'
  BY <1>0, <1>1, SMTT(30) DEF TypeOK, PushGrow, WriterSteps, reader, readerLocals
<1>3. WriterHasRoom' /\ ReaderAtQueue' /\ FirstInFirstOut'
  BY <1>0, <1>1 DEF BufferInv, TypeOK, PushGrow, WriterHasRoom, ReaderAtQueue,
                    Popping, FirstInFirstOut, reader, readerLocals
<1>4. ASSUME NEW r \in Remotes PROVE Intact(r)'
  <2>1. Intact(r) BY DEF BufferInv, ContentsIntact, Intact
  <2>2. /\ theSize'[r] = (IF r = w THEN theSize[r] + 1 ELSE theSize[r])
        /\ theSize[r] \in Int
        /\ wpc'[r] = "grow" <=> r # w /\ wpc[r] = "grow"
    BY <1>0, <1>1 DEF TypeOK
  <2>3. UNCHANGED <<theIn, theOut, theBuffer, rpc, theLastPopProcessId>>
    BY DEF PushGrow, readerLocals
  <2> QED BY <1>0, <2>1, <2>2, <2>3, IntactKept
<1> QED BY <1>2, <1>3, <1>4 DEF BufferInv, ContentsIntact, Intact

\* --theSize: the item that was copied no longer counts.
LEMMA PopShrinkKeeps ==
  ASSUME BufferInv, PopShrink
  PROVE  BufferInv'
<1> USE CountAssumption, WrapAssumption
<1> DEFINE q == theLastPopProcessId
<1>0. /\ TypeOK /\ q \in Remotes /\ theSize[q] \in 0..theCapacity
      /\ theSize[q] > 0 /\ rpc = "shrink"
  BY DEF BufferInv, TypeOK, ReaderAtQueue, Popping, PopShrink, ReaderGoto
<1>1. NextQueue \in Remotes
  BY <1>0 DEF NextQueue, Remotes
<1>2. theSize' = [theSize EXCEPT ![q] = theSize[q] - 1] /\ rpc' = "test" /\ wpc' = wpc
  BY DEF PopShrink, ReaderGoto
<1>3. TypeOK'
  <2>1. rpc' \in ReaderSteps /\ theSize' \in [Remotes -> 0..theCapacity]
    BY <1>0, <1>2 DEF TypeOK, ReaderSteps
  <2>2. theLastPopProcessId' \in 0..remotesCount /\ tries' \in 0..remotesCount
    BY <1>1 DEF PopShrink, Remotes
  <2> QED BY <1>0, <2>1, <2>2 DEF TypeOK, PopShrink, reader
<1>4. WriterHasRoom' /\ ReaderAtQueue' /\ FirstInFirstOut'
  <2>1. ASSUME NEW r \in Remotes, theSize[r] < theCapacity PROVE theSize'[r] < theCapacity
    BY <1>0, <1>2, <2>1 DEF TypeOK
  <2>2. WriterHasRoom'
    BY <1>2, <2>1 DEF BufferInv, WriterHasRoom
  <2>3. ReaderAtQueue'
    BY <1>1, <1>2 DEF PopShrink, ReaderAtQueue, Popping, Remotes
  <2> QED BY <1>2, <2>2, <2>3 DEF FirstInFirstOut
<1>5. ASSUME NEW r \in Remotes PROVE Intact(r)'
  <2>1. Intact(r) BY DEF BufferInv, ContentsIntact, Intact
  <2>2. theSize'[r] = (IF r = q THEN theSize[r] - 1 ELSE theSize[r]) /\ theSize[r] \in Int
    BY <1>0, <1>2 DEF TypeOK
  <2>3. UNCHANGED <<theIn, theOut, theBuffer>>
    BY DEF PopShrink
  <2> QED BY <1>0, <1>2, <2>1, <2>2, <2>3, IntactKept
<1> QED BY <1>3, <1>4, <1>5 DEF BufferInv, ContentsIntact, Intact

\* The steps that move no item.
OtherWriterStep(w) ==
  Push(w) \/ RaiseSignalBlocked(w) \/ RaiseSignalExchange(w) \/ Notify(w)
OtherReaderStep ==
  \/ ReceiveNotification \/ ClearSignalUnblock \/ ClearSignal \/ PopTest \/ PopBlock
  \/ PopRetest \/ PopUnblock \/ Restart

LEMMA OtherWriterStepKeeps ==
  ASSUME BufferInv, NEW w \in Remotes, OtherWriterStep(w)
  PROVE  BufferInv'
<1> USE CountAssumption, WrapAssumption
<1>0. TypeOK /\ wpc[w] \in {"idle", "blocked", "exchange", "notify"}
  BY DEF BufferInv, OtherWriterStep, Push, RaiseSignalBlocked, RaiseSignalExchange, Notify, WriterGoto
<1>1. /\ UNCHANGED <<queues, readerLocals>>
      /\ wpc' = [wpc EXCEPT ![w] = wpc'[w]]
      /\ wpc'[w] \in {"idle", "copy", "exchange", "notify"}
      /\ wpc'[w] = "copy" => theSize[w] # theCapacity
  BY <1>0 DEF TypeOK, OtherWriterStep, Push, RaiseSignalBlocked, RaiseSignalExchange, Notify, WriterGoto
<1>2. popBlocked' \in BOOLEAN /\ popSignal' \in BOOLEAN /\ notifications' \in Nat
  <2>1. notifications' \in Nat
    BY <1>0 DEF TypeOK, OtherWriterStep, Push, RaiseSignalBlocked, RaiseSignalExchange, Notify
  <2>2. popBlocked' \in BOOLEAN /\ popSignal' \in BOOLEAN
    BY <1>0 DEF TypeOK, OtherWriterStep, Push, RaiseSignalBlocked, RaiseSignalExchange, Notify, reader
  <2> QED BY <2>1, <2>2
<1>3. TypeOK'
  BY <1>0, <1>1, <1>2 DEF TypeOK, WriterSteps, queues, readerLocals
<1>4. WriterHasRoom' /\ ReaderAtQueue' /\ FirstInFirstOut'
  BY <1>0, <1>1 DEF BufferInv, TypeOK, WriterHasRoom, ReaderAtQueue, FirstInFirstOut,
                    queues, readerLocals
<1>5. ASSUME NEW r \in Remotes PROVE Intact(r)'
  <2>1. Intact(r) BY DEF BufferInv, ContentsIntact, Intact
  <2>2. wpc'[r] = "grow" <=> wpc[r] = "grow"
    BY <1>0, <1>1 DEF TypeOK
  <2> QED BY <1>0, <1>1, <2>1, <2>2, IntactKept DEF TypeOK, queues, readerLocals
<1> QED BY <1>3, <1>4, <1>5 DEF BufferInv, ContentsIntact, Intact

LEMMA OtherReaderStepKeeps ==
  ASSUME BufferInv, OtherReaderStep
  PROVE  BufferInv'
<1> USE CountAssumption, WrapAssumption
<1> USE DEF ReceiveNotification, ClearSignalUnblock, ClearSignal, PopTest, PopBlock,
            PopRetest, PopUnblock, Restart, ReaderGoto, OtherReaderStep
<1>0. TypeOK /\ UNCHANGED <<queues, wpc>> /\ rpc # "shrink" /\ rpc' # "shrink"
  BY DEF BufferInv
<1>1. NextQueue \in Remotes
  BY <1>0 DEF NextQueue, Remotes, TypeOK
<1>2. /\ popBlocked' \in BOOLEAN /\ popSignal' \in BOOLEAN /\ notifications' \in Nat
      /\ rpc' \in ReaderSteps /\ value' \in 0..UIntMax
  <2>1. notifications' \in Nat /\ value' \in 0..UIntMax
    BY <1>0 DEF TypeOK
  <2>2. popBlocked' \in BOOLEAN /\ popSignal' \in BOOLEAN
    BY <1>0 DEF TypeOK, reader
  <2>3. rpc' \in ReaderSteps
    BY <1>0 DEF TypeOK, ReaderSteps
  <2> QED BY <2>1, <2>2, <2>3
<1>3. /\ theLastPopProcessId' \in 0..remotesCount /\ tries' \in 0..remotesCount
      /\ rpc' \in Popping => theLastPopProcessId' \in Remotes /\ tries' \in Remotes
  <2>1. theLastPopProcessId \in 0..remotesCount /\ tries \in 0..remotesCount
    BY <1>0 DEF TypeOK
  <2>2. rpc \in Popping => theLastPopProcessId \in Remotes /\ tries \in Remotes
    BY DEF BufferInv, ReaderAtQueue
  <2>3. CASE PopRetest
    BY <1>1, <2>1, <2>2, <2>3 DEF Popping, Remotes
  <2>4. CASE ClearSignal \/ ReceiveNotification \/ ClearSignalUnblock \/ Restart
    BY <1>1, <2>1, <2>2, <2>4 DEF Popping, Remotes
  <2>5. CASE PopTest \/ PopBlock \/ PopUnblock
    BY <2>1, <2>2, <2>5 DEF Popping
  <2> QED BY <2>3, <2>4, <2>5
<1>4. rpc' \in {"unblock", "copy"} => theSize'[theLastPopProcessId'] > 0
  BY <1>0, SMTT(30) DEF BufferInv, TypeOK, ReaderAtQueue, Popping, queues
<1>5. TypeOK'
  BY <1>0, <1>2, <1>3 DEF TypeOK, queues
<1>6. WriterHasRoom' /\ ReaderAtQueue' /\ FirstInFirstOut'
  BY <1>0, <1>3, <1>4 DEF BufferInv, WriterHasRoom, ReaderAtQueue, FirstInFirstOut, queues
<1>7. ASSUME NEW r \in Remotes PROVE Intact(r)'
  <2>1. Intact(r) BY DEF BufferInv, ContentsIntact, Intact
  <2> QED BY <1>0, <2>1, IntactKept DEF queues
<1> QED BY <1>5, <1>6, <1>7 DEF BufferInv, ContentsIntact, Intact

\* Every step keeps the items, restarts included.
LEMMA BufferNext == BufferInv /\ [Next \/ Restart]_vars => BufferInv'
<1> SUFFICES ASSUME BufferInv, [Next \/ Restart]_vars PROVE BufferInv'
  OBVIOUS
<1>1. ASSUME NEW w \in Remotes, PushFull(w) \/ Push(w) \/ WriterStep(w) PROVE BufferInv'
  <2>1. CASE PushFull(w) \/ UNCHANGED vars
    BY <2>1 DEF PushFull, vars, queues, reader, BufferInv, TypeOK, WriterHasRoom, ReaderAtQueue,
                ContentsIntact, FirstInFirstOut, Stored
  <2> QED BY <1>1, <2>1, PushCopyKeeps, PushGrowKeeps, OtherWriterStepKeeps
          DEF WriterStep, OtherWriterStep
<1>2. CASE ReaderStep \/ Restart
  BY <1>2, PopCopyKeeps, PopShrinkKeeps, OtherReaderStepKeeps DEF ReaderStep, OtherReaderStep
<1>3. CASE UNCHANGED vars
  BY <1>3 DEF vars, queues, reader, BufferInv, TypeOK, WriterHasRoom, ReaderAtQueue,
              ContentsIntact, FirstInFirstOut, Stored
<1> QED BY <1>1, <1>2, <1>3 DEF Next

\* Every state of the queues keeps BufferInv.
LEMMA BufferInvariant == RestartSpec => []BufferInv
BY BufferInit, BufferNext, PTL DEF RestartSpec

\* Without restarts a behaviour is one of those with restarts.
LEMMA SpecIsRestartSpec == Spec => RestartSpec
<1>1. [Next]_vars => [Next \/ Restart]_vars
  OBVIOUS
<1> QED BY <1>1, PTL DEF Spec, RestartSpec

\* Positions, sizes and items stay in their ranges: theSize in particular
\* never exceeds theCapacity or drops below zero, although full() and
\* empty() are tested long before theSize is changed.
THEOREM TypeCorrect == Spec => []TypeOK
<1>1. BufferInv => TypeOK
  BY DEF BufferInv
<1> QED BY <1>1, BufferInvariant, SpecIsRestartSpec, PTL

\* The items between theOut and theIn are intact and in order, whatever
\* push() and pop() interleave, when the positions wrap around, and when the
\* reading kid is restarted (a restart keeps the shared memory).
THEOREM ItemsIntact == RestartSpec => []ContentsIntact
<1>1. BufferInv => ContentsIntact
  BY DEF BufferInv
<1> QED BY <1>1, BufferInvariant, PTL

\* pop() returns the oldest item of the queue, also after a restart.
THEOREM OldestFirst == RestartSpec => []FirstInFirstOut
<1>1. BufferInv => FirstInFirstOut
  BY DEF BufferInv
<1> QED BY <1>1, BufferInvariant, PTL

----------------------------------------------------------------------------
(* The wake-ups *)

\* Queues that the reader has found empty since it last popped an item or
\* cleared the signal: the last `tries - 1' ones, going backwards from
\* theLastPopProcessId; all of them once it is back in its event loop.
LeftBehind(r) ==
  \/ rpc = "waiting"
  \/ /\ rpc \in {"test", "block", "retest"}
     /\ \/ r < theLastPopProcessId /\ theLastPopProcessId - r < tries
        \/ r > theLastPopProcessId /\ theLastPopProcessId + remotesCount - r < tries

\* block() stays in force while the reader leaves queues behind.
BlockedWhileLeaving ==
  (rpc \in {"waiting", "retest"} \/ (rpc \in {"test", "block"} /\ tries > 1)) => popBlocked

\* A queue that was left behind got its items with a push() that has raised
\* the signal or is about to.
LeftBehindGuarded ==
  \A r \in Remotes :
    LeftBehind(r) /\ theSize[r] > 0 => popSignal \/ wpc[r] \in {"blocked", "exchange"}

SignalInv == OneSignal /\ BlockedWhileLeaving /\ LeftBehindGuarded

\* The writers that are about to send a notification.
Notifiers == {r \in Remotes : wpc[r] = "notify"}

\* They can be counted, before and after any step.
LEMMA NotifiersFinite ==
  /\ IsFiniteSet(Notifiers) /\ Cardinality(Notifiers) \in Nat
  /\ IsFiniteSet(Notifiers') /\ Cardinality(Notifiers') \in Nat
<1>1. IsFiniteSet(Remotes)
  BY FS_Interval, CountAssumption DEF Remotes
<1>2. IsFiniteSet(Notifiers) /\ IsFiniteSet(Notifiers')
  BY <1>1, FS_Subset DEF Notifiers
<1> QED BY <1>2, FS_CardinalityType

\* How a step of one writer changes their number.
LEMMA NotifiersFollow ==
  ASSUME TypeOK, NEW w \in Remotes, NEW x, wpc' = [wpc EXCEPT ![w] = x]
  PROVE  /\ (wpc[w] = "notify" <=> x = "notify") => Cardinality(Notifiers') = Cardinality(Notifiers)
         /\ wpc[w] # "notify" /\ x = "notify" => Cardinality(Notifiers') = Cardinality(Notifiers) + 1
         /\ wpc[w] = "notify" /\ x # "notify" => Cardinality(Notifiers') = Cardinality(Notifiers) - 1
<1>1. IsFiniteSet(Notifiers) /\ IsFiniteSet(Notifiers')
  BY NotifiersFinite
<1>2. \A r \in Remotes : wpc'[r] = IF r = w THEN x ELSE wpc[r]
  BY DEF TypeOK
<1>3. \A r : r # w => (r \in Notifiers <=> r \in Notifiers')
  BY <1>2 DEF Notifiers
<1>4. (w \in Notifiers <=> wpc[w] = "notify") /\ (w \in Notifiers' <=> x = "notify")
  BY <1>2 DEF Notifiers
<1> HIDE DEF Notifiers
<1> QED BY <1>1, <1>3, <1>4, OneElement

\* exchange(true) lets one writer through until the reader clears the signal.
LEMMA OneSignalNext ==
  ASSUME BufferInv, OneSignal, Next
  PROVE  OneSignal'
<1> DEFINE Clearing == IF rpc \in {"clear", "clearSignal"} THEN 1 ELSE 0
<1> DEFINE n == Cardinality(Notifiers)
<1>1. TypeOK /\ notifications \in Nat /\ Clearing \in {0, 1} /\ n \in Nat /\ n' \in Nat
  BY NotifiersFinite DEF BufferInv, TypeOK
<1>2. n + notifications + Clearing = IF popSignal THEN 1 ELSE 0
  BY DEF OneSignal, SignalsPending, Notifiers
<1> SUFFICES n' + notifications' + Clearing' = IF popSignal' THEN 1 ELSE 0
  BY DEF OneSignal, SignalsPending, Notifiers
<1>3. ASSUME NEW w \in Remotes, Push(w) \/ PushCopy(w) \/ PushGrow(w) \/ RaiseSignalBlocked(w)
      PROVE  n' = n /\ UNCHANGED <<popSignal, notifications, rpc>>
  <2>1. PICK x : wpc' = [wpc EXCEPT ![w] = x] /\ x # "notify" /\ wpc[w] # "notify"
    BY <1>3 DEF Push, PushCopy, PushGrow, RaiseSignalBlocked, WriterGoto
  <2>2. n' = n
    BY <1>1, <2>1, NotifiersFollow
  <2> QED BY <1>3, <2>2 DEF Push, PushCopy, PushGrow, RaiseSignalBlocked, reader, readerLocals
<1>4. ASSUME NEW w \in Remotes, RaiseSignalExchange(w)
      PROVE  n' + notifications' + Clearing' = IF popSignal' THEN 1 ELSE 0
  <2>1. /\ wpc[w] = "exchange" /\ wpc' = [wpc EXCEPT ![w] = IF popSignal THEN "idle" ELSE "notify"]
        /\ popSignal' = TRUE /\ UNCHANGED <<notifications, rpc>>
    BY <1>4 DEF RaiseSignalExchange, WriterGoto, readerLocals
  <2>2. n' = IF popSignal THEN n ELSE n + 1
    <3>1. CASE popSignal
      <4>1. wpc' = [wpc EXCEPT ![w] = "idle"]
        BY <2>1, <3>1
      <4> QED BY <1>1, <2>1, <3>1, <4>1, NotifiersFollow, ZenonT(30)
    <3>2. CASE ~popSignal
      <4>1. wpc' = [wpc EXCEPT ![w] = "notify"]
        BY <2>1, <3>2
      <4> QED BY <1>1, <2>1, <3>2, <4>1, NotifiersFollow
    <3> QED BY <3>1, <3>2
  <2> QED BY <1>1, <1>2, <2>1, <2>2
<1>5. ASSUME NEW w \in Remotes, Notify(w)
      PROVE  n' + notifications' + Clearing' = IF popSignal' THEN 1 ELSE 0
  <2>1. /\ wpc[w] = "notify" /\ wpc' = [wpc EXCEPT ![w] = "idle"]
        /\ notifications' = notifications + 1 /\ UNCHANGED <<popSignal, rpc>>
    BY <1>5 DEF Notify, WriterGoto, reader, readerLocals
  <2>2. "idle" # "notify"
    OBVIOUS
  <2>3. n' = n - 1
    BY <1>1, <2>1, <2>2, NotifiersFollow, Zenon
  <2> QED BY <1>1, <1>2, <2>1, <2>3
<1>6. CASE ReaderStep
  <2>1. n' = n
    <3>1. wpc' = wpc
      BY <1>6 DEF ReaderStep, ReceiveNotification, ClearSignalUnblock, ClearSignal, PopTest, PopBlock,
                  PopRetest, PopUnblock, PopCopy, PopShrink
    <3> QED BY <3>1 DEF Notifiers
  <2>2. CASE ReceiveNotification
    BY <1>1, <1>2, <2>1, <2>2 DEF ReceiveNotification, ReaderGoto, reader
  <2>3. CASE ClearSignal
    BY <1>1, <1>2, <2>1, <2>3 DEF ClearSignal, ReaderGoto
  <2>4. CASE ClearSignalUnblock
    BY <1>1, <1>2, <2>1, <2>4 DEF ClearSignalUnblock, ReaderGoto
  <2>5. CASE PopTest \/ PopBlock \/ PopRetest \/ PopUnblock \/ PopCopy \/ PopShrink
    <3>1. rpc' \notin {"clear", "clearSignal"} /\ rpc \notin {"clear", "clearSignal"}
      BY <2>5 DEF PopTest, PopBlock, PopRetest, PopUnblock, PopCopy, PopShrink, ReaderGoto
    <3>2. popSignal' = popSignal /\ notifications' = notifications
      BY <2>5 DEF PopTest, PopBlock, PopRetest, PopUnblock, PopCopy, PopShrink, reader
    <3> QED BY <1>1, <1>2, <2>1, <3>1, <3>2
  <2> QED BY <1>6, <2>2, <2>3, <2>4, <2>5 DEF ReaderStep
<1>7. ASSUME NEW w \in Remotes, PushFull(w)
      PROVE  n' = n /\ UNCHANGED <<popSignal, notifications, rpc>>
  BY <1>7 DEF PushFull, vars, reader, Notifiers
<1> HIDE DEF n
<1> QED BY <1>2, <1>3, <1>4, <1>5, <1>6, <1>7 DEF Next, WriterStep

\* The reader stays blocked until it finds an item or is notified.
LEMMA BlockedNext ==
  ASSUME BufferInv, BlockedWhileLeaving, Next
  PROVE  BlockedWhileLeaving'
<1>1. ASSUME NEW w \in Remotes, PushFull(w) \/ Push(w) \/ WriterStep(w)
      PROVE  UNCHANGED <<popBlocked, rpc, tries>>
  BY <1>1 DEF PushFull, Push, WriterStep, PushCopy, PushGrow, RaiseSignalBlocked, RaiseSignalExchange,
              Notify, vars, reader, readerLocals
<1>2. CASE ReaderStep
  <2>1. CASE ReceiveNotification \/ ClearSignalUnblock \/ ClearSignal \/ PopUnblock \/ PopCopy \/ PopShrink
    BY <2>1 DEF ReceiveNotification, ClearSignalUnblock, ClearSignal, PopUnblock, PopCopy, PopShrink,
                ReaderGoto, BlockedWhileLeaving
  <2>2. CASE PopTest \/ PopBlock
    BY <2>2 DEF PopTest, PopBlock, ReaderGoto, BlockedWhileLeaving, reader
  <2>3. CASE PopRetest
    BY <2>3 DEF PopRetest, ReaderGoto, BlockedWhileLeaving, reader
  <2> QED BY <1>2, <2>1, <2>2, <2>3 DEF ReaderStep
<1> QED BY <1>1, <1>2 DEF Next, BlockedWhileLeaving

\* A push() into a queue that was left behind finds the reader blocked and
\* raises the signal; the reader leaves a queue behind only when it is empty.
LEMMA LeftBehindNext ==
  ASSUME BufferInv, BlockedWhileLeaving, LeftBehindGuarded, Next
  PROVE  LeftBehindGuarded'
<1> USE CountAssumption
<1>0. TypeOK
  BY DEF BufferInv
<1> SUFFICES ASSUME NEW r \in Remotes, LeftBehind(r)', theSize'[r] > 0
             PROVE  popSignal' \/ wpc'[r] \in {"blocked", "exchange"}
  BY DEF LeftBehindGuarded
<1>1. ASSUME NEW w \in Remotes, PushFull(w) \/ Push(w) \/ WriterStep(w)
      PROVE  popSignal' \/ wpc'[r] \in {"blocked", "exchange"}
  <2>1. UNCHANGED <<rpc, tries, theLastPopProcessId>>
    BY <1>1 DEF PushFull, Push, WriterStep, PushCopy, PushGrow, RaiseSignalBlocked, RaiseSignalExchange,
                Notify, vars, readerLocals
  <2>2. LeftBehind(r)
    BY <2>1 DEF LeftBehind
  <2>3. popBlocked
    BY <2>2 DEF LeftBehind, BlockedWhileLeaving, BufferInv, ReaderAtQueue, Popping, Remotes
  <2>4. theSize[r] > 0 => popSignal \/ wpc[r] \in {"blocked", "exchange"}
    BY <2>2 DEF LeftBehindGuarded
  <2>5. popSignal => popSignal'
    BY <1>1 DEF PushFull, Push, WriterStep, PushCopy, PushGrow, RaiseSignalBlocked, RaiseSignalExchange,
                Notify, vars, reader
  <2>6. CASE w # r
    BY <1>0, <1>1, <2>4, <2>5, <2>6
       DEF TypeOK, PushFull, Push, WriterStep, PushCopy, PushGrow, RaiseSignalBlocked,
           RaiseSignalExchange, Notify, WriterGoto, vars, queues
  <2>7. CASE w = r
    <3>1. CASE PushGrow(r)
      BY <1>0, <2>4, <2>5, <3>1 DEF TypeOK, PushGrow, WriterGoto
    <3>2. CASE RaiseSignalBlocked(r)
      BY <1>0, <2>3, <3>2 DEF TypeOK, RaiseSignalBlocked, WriterGoto
    <3>3. CASE RaiseSignalExchange(r)
      BY <3>3 DEF RaiseSignalExchange
    <3>4. CASE PushFull(r) \/ Push(r) \/ PushCopy(r) \/ Notify(r)
      BY <1>0, <2>4, <2>5, <3>4
         DEF TypeOK, PushFull, Push, PushCopy, Notify, WriterGoto, vars, queues
    <3> QED BY <1>1, <2>7, <3>1, <3>2, <3>3, <3>4 DEF WriterStep
  <2> QED BY <2>6, <2>7
<1>2. CASE ReaderStep
  <2>1. CASE ReceiveNotification \/ ClearSignalUnblock \/ PopUnblock \/ PopCopy
    BY <2>1 DEF ReceiveNotification, ClearSignalUnblock, PopUnblock, PopCopy, ReaderGoto, LeftBehind
  <2>2. CASE ClearSignal \/ PopShrink
    <3>1. tries' = 1 /\ rpc' = "test" /\ theLastPopProcessId' = NextQueue /\ NextQueue \in Remotes
      <4>1. theLastPopProcessId \in 0..remotesCount
        BY <1>0 DEF TypeOK
      <4>2. NextQueue \in Remotes
        BY <4>1 DEF NextQueue, Remotes
      <4> QED BY <2>2, <4>2 DEF ClearSignal, PopShrink, ReaderGoto
    <3> QED BY <3>1 DEF LeftBehind, Remotes
  <2>3. CASE PopTest \/ PopBlock
    <3>1. LeftBehind(r) /\ UNCHANGED <<queues, popSignal, wpc>>
      BY <2>3 DEF PopTest, PopBlock, ReaderGoto, LeftBehind, reader
    <3> QED BY <3>1 DEF LeftBehindGuarded, queues
  <2>4. CASE PopRetest
    <3>1. UNCHANGED <<theSize, popSignal, wpc>>
      BY <2>4 DEF PopRetest, reader, queues
    <3>2. /\ rpc = "retest" /\ theLastPopProcessId \in Remotes /\ tries \in Remotes
      BY <2>4 DEF PopRetest, ReaderGoto, BufferInv, ReaderAtQueue, Popping
    <3>3. theSize[theLastPopProcessId] = 0
      BY <2>4 DEF PopRetest, ReaderGoto, LeftBehind
    <3>4. r # theLastPopProcessId
      BY <3>1, <3>3
    <3>5. LeftBehind(r)
      <4>1. CASE tries = remotesCount
        BY <3>2, <3>4, <4>1 DEF LeftBehind, Remotes
      <4>2. CASE tries # remotesCount
        BY <2>4, <3>2, <3>3, <3>4, <4>2 DEF LeftBehind, PopRetest, ReaderGoto, NextQueue, Remotes
      <4> QED BY <4>1, <4>2
    <3> QED BY <3>1, <3>5 DEF LeftBehindGuarded
  <2> QED BY <1>2, <2>1, <2>2, <2>3, <2>4 DEF ReaderStep
<1> QED BY <1>1, <1>2 DEF Next

\* Every state keeps SignalInv.
LEMMA SignalInvariant == Spec => []SignalInv
<1>1. Init => SignalInv
  <2> SUFFICES ASSUME Init PROVE SignalInv
    OBVIOUS
  <2>1. Notifiers = {}
    BY DEF Init, Notifiers
  <2>2. OneSignal
    BY <2>1, FS_EmptySet DEF Init, OneSignal, SignalsPending, Notifiers
  <2>3. BlockedWhileLeaving /\ LeftBehindGuarded
    BY DEF Init, BlockedWhileLeaving, LeftBehindGuarded
  <2> QED BY <2>2, <2>3 DEF SignalInv
<1>2. BufferInv /\ SignalInv /\ [Next]_vars => SignalInv'
  <2> SUFFICES ASSUME BufferInv, SignalInv, [Next]_vars PROVE SignalInv'
    OBVIOUS
  <2>1. CASE Next
    BY <2>1, OneSignalNext, BlockedNext, LeftBehindNext DEF SignalInv
  <2>2. CASE UNCHANGED vars
    BY <2>2 DEF vars, queues, reader, SignalInv, OneSignal, SignalsPending, BlockedWhileLeaving,
                LeftBehindGuarded, LeftBehind
  <2> QED BY <2>1, <2>2
<1> QED BY <1>1, <1>2, BufferInvariant, SpecIsRestartSpec, PTL DEF Spec

\* "popSignal: whether a notification was sent and not received": at most
\* one notification is about to be sent, under way or about to be cleared,
\* however many writers find the reader blocked.
THEOREM OneSignalAtMost == Spec => []OneSignal
<1>1. SignalInv => OneSignal
  BY DEF SignalInv
<1> QED BY <1>1, SignalInvariant, PTL

\* "returns true iff the caller must notify the reader of the pushed item":
\* a reader never waits in its event loop with items in its queues unless a
\* notification is under way or a writer is about to raise the signal.
THEOREM WakeupNotLost == Spec => []NoLostWakeup
<1>1. BufferInv /\ SignalInv => NoLostWakeup
  <2> SUFFICES ASSUME BufferInv, SignalInv, rpc = "waiting", NEW r \in Remotes, theSize[r] > 0
               PROVE  \/ SignalsPending > 0
                      \/ \E w \in Remotes : wpc[w] \in {"blocked", "exchange"}
    BY DEF NoLostWakeup
  <2>1. popSignal \/ wpc[r] \in {"blocked", "exchange"}
    BY DEF SignalInv, LeftBehindGuarded, LeftBehind
  <2>2. popSignal => SignalsPending > 0
    BY DEF SignalInv, OneSignal
  <2> QED BY <2>1, <2>2
<1> QED BY <1>1, BufferInvariant, SignalInvariant, SpecIsRestartSpec, PTL
=============================================================================
