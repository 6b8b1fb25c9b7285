----------------------------- MODULE Batcher_proofs -----------------------------
(***************************************************************************)
(* Proofs about the batching of /synthesize requests, for any number of    *)
(* requests, voices and sizes of a batch: what one model call is given,    *)
(* under which lock it runs, and that the batches cannot be told from a    *)
(* service that answers one request after the other.                       *)
(***************************************************************************)
EXTENDS Batcher, SequenceTheorems, TLAPS

(* Where the first unresolved item of the batch is.                        *)
ItemInv ==
    /\ worker \in {"window", "prepare", "acquire", "running"} => next = 1 /\ batch # <<>>
    /\ worker \in {"resolve", "fail"} => next \in 1 .. Len(batch)
    /\ worker \in {"collect", "exited"} => next = Len(batch) + 1

(* What was submitted, and what else was not answered.                     *)
SubmittedInv ==
    /\ queue \in Seq(submitted)
    /\ batch \in Seq(submitted)
    /\ \A r \in Requests \ submitted : answer[r] = None

BatcherInv == TypeOK /\ ItemInv /\ SubmittedInv /\ BatchFits

-----------------------------------------------------------------------------
(* Sequences.                                                              *)

(* k items have moved from the front of queue q to the end of batch b:     *)
(* both stay sequences, and together they are what they were.              *)
Splits(S, b, q, k, front, rest) ==
    /\ front \in Seq(S)
    /\ rest \in Seq(S)
    /\ Len(front) = Len(b) + k
    /\ \A i \in 1 .. Len(b) + k : front[i] = IF i <= Len(b) THEN b[i] ELSE q[i - Len(b)]
    /\ front \o rest = b \o q

LEMMA Moved ==
    ASSUME NEW S, NEW b \in Seq(S), NEW q \in Seq(S), NEW k \in 0 .. Len(q)
    PROVE  Splits(S, b, q, k, b \o SubSeq(q, 1, k), SubSeq(q, k + 1, Len(q)))
<1>1. Len(q) \in Nat /\ Len(b) \in Nat
  BY LenProperties
<1>2. \A i \in 1 .. Len(q) : q[i] \in S
  BY ElementOfSeq
<1>3. /\ SubSeq(q, 1, k) \in Seq(S) /\ Len(SubSeq(q, 1, k)) = k
      /\ \A i \in 1 .. k : SubSeq(q, 1, k)[i] = q[i]
  <2>1. k \in Int /\ \A i \in 1 .. k : q[i] \in S
    BY <1>1, <1>2
  <2> QED BY <2>1, SubSeqProperties
<1>4. SubSeq(q, k + 1, Len(q)) \in Seq(S)
  <2>1. k + 1 \in Int /\ Len(q) \in Int /\ \A i \in k + 1 .. Len(q) : q[i] \in S
    BY <1>1, <1>2
  <2> QED BY <2>1, SubSeqProperties
<1>5. SubSeq(q, 1, k) \o SubSeq(q, k + 1, Len(q)) = q
  <2>1. 1 \in 1 .. Len(q) + 1 /\ k \in 1 - 1 .. Len(q) /\ Len(q) \in k .. Len(q)
    BY <1>1
  <2>2. SubSeq(q, 1, k) \o SubSeq(q, k + 1, Len(q)) = SubSeq(q, 1, Len(q))
    BY <2>1, ConcatAdjacentSubSeq
  <2> QED BY <2>2, SubSeqFull
<1>6. (b \o SubSeq(q, 1, k)) \o SubSeq(q, k + 1, Len(q)) = b \o q
  <2> DEFINE front == SubSeq(q, 1, k)
             rest == SubSeq(q, k + 1, Len(q))
  <2>1. b \in Seq(S) /\ front \in Seq(S) /\ rest \in Seq(S) /\ front \o rest = q
    BY <1>3, <1>4, <1>5
  <2> HIDE DEF front, rest
  <2>2. b \o (front \o rest) = (b \o front) \o rest
    <3>1. \A x, y, z \in Seq(S) : (x \o y) \o z = x \o (y \o z)
      BY ConcatAssociative
    <3> QED BY <2>1, <3>1, Zenon
  <2>3. (b \o front) \o rest = b \o q
    BY <2>1, <2>2, Zenon
  <2> QED BY <2>3 DEF front, rest
<1>7. /\ b \o SubSeq(q, 1, k) \in Seq(S)
      /\ Len(b \o SubSeq(q, 1, k)) = Len(b) + k
      /\ \A i \in 1 .. Len(b) + k :
            (b \o SubSeq(q, 1, k))[i] = IF i <= Len(b) THEN b[i] ELSE SubSeq(q, 1, k)[i - Len(b)]
  BY <1>3, ConcatProperties
<1>8. ASSUME NEW i \in 1 .. Len(b) + k, ~(i <= Len(b)) PROVE i - Len(b) \in 1 .. k
  BY <1>1, <1>8
<1> QED BY <1>3, <1>4, <1>6, <1>7, <1>8 DEF Splits

(* The oldest request and the rest of the queue.                           *)
LEMMA Seeded ==
    ASSUME NEW S, NEW q \in Seq(S), q # <<>>
    PROVE  /\ <<Head(q)>> \in Seq(S) /\ Tail(q) \in Seq(S)
           /\ <<Head(q)>> \o Tail(q) = q
           /\ Len(Tail(q)) \in Nat
<1>1. Head(q) \in S /\ Tail(q) \in Seq(S)
  BY HeadTailProperties
<1>2. Len(q) \in Nat \ {0}
  BY EmptySeq
<1>3. <<Head(q)>> \o Tail(q) = q
  <2>1. 1 \in 1 .. Len(q) /\ Len(q) \in 1 .. Len(q)
    BY <1>2
  <2>2. SubSeq(q, 1, Len(q)) = <<q[1]>> \o SubSeq(q, 1 + 1, Len(q))
    BY <2>1, SubSeqRecursiveFirst
  <2>3. Tail(q) = SubSeq(q, 2, Len(q)) /\ Head(q) = q[1] /\ SubSeq(q, 1, Len(q)) = q
    BY TailIsSubSeq, SubSeqFull
  <2> QED BY <2>2, <2>3
<1> QED BY <1>1, <1>3, LenProperties

(* Head and tail of a sequence with an element put before it.              *)
LEMMA Prefixed ==
    ASSUME NEW S, NEW e \in S, NEW t \in Seq(S)
    PROVE  /\ <<e>> \o t # <<>>
           /\ Head(<<e>> \o t) = e
           /\ Tail(<<e>> \o t) = t
<1> DEFINE all == <<e>> \o t
<1>1. <<e>> \in Seq(S) /\ Len(<<e>>) = 1 /\ <<e>>[1] = e /\ Len(t) \in Nat
  BY LenProperties
<1>2. /\ all \in Seq(S) /\ Len(all) = Len(<<e>>) + Len(t)
      /\ \A i \in 1 .. Len(<<e>>) + Len(t) :
            all[i] = IF i <= Len(<<e>>) THEN <<e>>[i] ELSE t[i - Len(<<e>>)]
  BY <1>1, ConcatProperties
<1>3. Len(all) = 1 + Len(t) /\ all[1] = e /\ \A i \in 1 .. Len(t) : all[i + 1] = t[i]
  BY <1>1, <1>2
<1> HIDE DEF all
<1>4. all # <<>> /\ Head(all) = e
  BY <1>1, <1>2, <1>3
<1>5. /\ Tail(all) \in Seq(S) /\ Len(Tail(all)) = Len(all) - 1
      /\ \A i \in 1 .. Len(Tail(all)) : Tail(all)[i] = all[i + 1]
  BY <1>2, <1>4, HeadTailProperties
<1>6. Len(Tail(all)) = Len(t) /\ \A i \in 1 .. Len(Tail(all)) : Tail(all)[i] = t[i]
  BY <1>1, <1>3, <1>5
<1>7. Tail(all) = t
  BY <1>5, <1>6, SeqEqual
<1> QED BY <1>4, <1>7 DEF all

-----------------------------------------------------------------------------
(* Taking items into a batch that has some: the types, the voices and the  *)
(* limit, and what waits.                                                  *)
LEMMA Taken ==
    ASSUME NEW S, S \subseteq Requests, NEW b \in Seq(S), NEW q \in Seq(S), b # <<>>,
           Take(b, q),
           Len(b) <= MaxBatch,
           \A i \in 1 .. Len(b) : Voice[b[i]] = Voice[b[1]]
    PROVE  /\ batch' \in Seq(S) /\ queue' \in Seq(S)
           /\ batch' # <<>> /\ Len(batch') <= MaxBatch
           /\ \A i \in 1 .. Len(batch') : Voice[batch'[i]] = Voice[batch'[1]]
           /\ batch' \o queue' = b \o q
<1>1. PICK k \in 0 .. Len(q) :
        /\ Drains(b, q, k)
        /\ batch' = b \o SubSeq(q, 1, k)
        /\ queue' = SubSeq(q, k + 1, Len(q))
  BY DEF Take
<1>2. /\ batch' \in Seq(S) /\ queue' \in Seq(S)
      /\ Len(batch') = Len(b) + k
      /\ \A i \in 1 .. Len(b) + k : batch'[i] = IF i <= Len(b) THEN b[i] ELSE q[i - Len(b)]
      /\ batch' \o queue' = b \o q
  <2>1. Splits(S, b, q, k, batch', queue')
    BY <1>1, Moved
  <2> QED BY <2>1 DEF Splits
<1>3. Len(b) \in Nat \ {0} /\ Len(q) \in Nat /\ MaxBatch \in Nat
  BY EmptySeq, LenProperties, BatcherAssumption
<1>4. Len(batch') <= MaxBatch
  BY <1>1, <1>2 DEF Drains
<1>5. batch' # <<>>
  <2>1. Len(batch') # 0
    BY <1>2, <1>3
  <2> QED BY <2>1, EmptySeq
<1>6. ASSUME NEW i \in 1 .. Len(batch') PROVE Voice[batch'[i]] = Voice[b[1]]
  <2>1. CASE i <= Len(b)
    <3>1. i \in 1 .. Len(b) /\ batch'[i] = b[i]
      BY <1>2, <1>3, <2>1
    <3> QED BY <3>1
  <2>2. CASE ~(i <= Len(b))
    <3>1. i - Len(b) \in 1 .. k /\ batch'[i] = q[i - Len(b)]
      BY <1>2, <1>3, <2>2
    <3> QED BY <1>1, <3>1 DEF Drains
  <2> QED BY <2>1, <2>2
<1>7. batch'[1] = b[1]
  BY <1>2, <1>3
<1> QED BY <1>2, <1>4, <1>5, <1>6, <1>7

-----------------------------------------------------------------------------
(* One step of the worker takes from the queue what the batch may hold.    *)
LEMMA SeedTakes ==
    ASSUME BatcherInv, Seed
    PROVE  /\ batch' \in Seq(submitted) /\ queue' \in Seq(submitted)
           /\ batch' # <<>> /\ BatchFits'
           /\ batch' \o queue' = queue
<1> DEFINE b == <<Head(queue)>>
<1>1. b \in Seq(submitted) /\ Tail(queue) \in Seq(submitted) /\ b \o Tail(queue) = queue
  BY Seeded DEF BatcherInv, SubmittedInv, Seed
<1>2. b # <<>> /\ Len(b) = 1 /\ b[1] = Head(queue)
  OBVIOUS
<1>3. Len(b) <= MaxBatch /\ \A i \in 1 .. Len(b) : Voice[b[i]] = Voice[b[1]]
  BY <1>2, BatcherAssumption
<1>4. Take(b, Tail(queue)) /\ submitted \subseteq Requests
  BY DEF Seed, BatcherInv, TypeOK
<1> HIDE DEF b
<1>5. /\ batch' \in Seq(submitted) /\ queue' \in Seq(submitted)
      /\ batch' # <<>> /\ Len(batch') <= MaxBatch
      /\ \A i \in 1 .. Len(batch') : Voice[batch'[i]] = Voice[batch'[1]]
      /\ batch' \o queue' = b \o Tail(queue)
  BY <1>1, <1>2, <1>3, <1>4, Taken
<1> QED BY <1>1, <1>5 DEF BatchFits

LEMMA WindowTakes ==
    ASSUME BatcherInv, WindowOver
    PROVE  /\ batch' \in Seq(submitted) /\ queue' \in Seq(submitted)
           /\ batch' # <<>> /\ BatchFits'
           /\ batch' \o queue' = batch \o queue
<1>1. /\ batch \in Seq(submitted) /\ queue \in Seq(submitted) /\ submitted \subseteq Requests
      /\ batch # <<>> /\ Len(batch) <= MaxBatch
      /\ \A i \in 1 .. Len(batch) : Voice[batch[i]] = Voice[batch[1]]
      /\ Take(batch, queue)
  BY DEF BatcherInv, TypeOK, ItemInv, SubmittedInv, BatchFits, WindowOver
<1> QED BY <1>1, Taken DEF BatchFits

(* Types, the place in the batch, what was submitted, and what fits.       *)
THEOREM BatcherInvariance == Spec => []BatcherInv
<1>1. Init => BatcherInv
  <2>1. <<>> \in Seq(Requests) /\ <<>> \in Seq({})
    BY EmptySeq
  <2>2. Len(<<>>) = 0
    OBVIOUS
  <2> SUFFICES ASSUME Init PROVE BatcherInv
    OBVIOUS
  <2>3. TypeOK
    <3>1. answer \in [Requests -> {None, Error} \cup Audio]
      BY DEF Init
    <3>2. FALSE \in BOOLEAN
      OBVIOUS
    <3>3. stop \in BOOLEAN
      BY <3>2 DEF Init
    <3> QED BY <2>1, <2>2, <3>1, <3>3, BatcherAssumption DEF Init, TypeOK
  <2>4. ItemInv
    BY <2>2 DEF Init, ItemInv
  <2>5. SubmittedInv
    BY <2>1 DEF Init, SubmittedInv
  <2>6. BatchFits
    BY <2>2, BatcherAssumption DEF Init, BatchFits
  <2> QED BY <2>3, <2>4, <2>5, <2>6 DEF BatcherInv
<1>2. BatcherInv /\ [Next]_vars => BatcherInv'
  <2> SUFFICES ASSUME BatcherInv, [Next]_vars PROVE BatcherInv'
    OBVIOUS
  <2> USE BatcherAssumption
  <2>0. /\ Len(batch) \in Nat /\ Len(queue) \in Nat
        /\ \A i \in 1 .. Len(batch) : batch[i] \in submitted
        /\ submitted \subseteq Requests
    BY LenProperties, ElementOfSeq DEF BatcherInv, TypeOK, SubmittedInv
  <2>1. ASSUME NEW r \in Requests, Submit(r) PROVE BatcherInv'
    <3>1. queue' \in Seq(submitted') /\ batch' \in Seq(submitted') /\ queue' \in Seq(Requests)
      <4>1. submitted' = submitted \cup {r} /\ queue' = Append(queue, r) /\ batch' = batch
        BY <2>1 DEF Submit
      <4>2. queue \in Seq(submitted') /\ batch \in Seq(submitted')
        BY <4>1, SeqMonotonic DEF BatcherInv, SubmittedInv
      <4>3. queue' \in Seq(submitted')
        BY <4>1, <4>2, AppendProperties
      <4>4. queue' \in Seq(Requests)
        BY <4>1, AppendProperties DEF BatcherInv, TypeOK
      <4> QED BY <4>1, <4>2, <4>3, <4>4
    <3> QED BY <2>1, <3>1 DEF Submit, BatcherInv, TypeOK, ItemInv, SubmittedInv, BatchFits
  <2>2. CASE Stop
    BY <2>2 DEF Stop, BatcherInv, TypeOK, ItemInv, SubmittedInv, BatchFits
  <2>3. CASE Seed
    <3>1. /\ batch' \in Seq(submitted) /\ queue' \in Seq(submitted)
          /\ batch' # <<>> /\ BatchFits'
      BY <2>3, SeedTakes
    <3>2. batch' \in Seq(Requests) /\ queue' \in Seq(Requests)
      BY <2>0, <3>1, SeqMonotonic
    <3>3. worker' \in {"prepare", "window"} /\ next' = 1
      BY <2>3 DEF Seed
    <3>4. UNCHANGED <<submitted, stop, gpu, others, answer>>
      BY <2>3 DEF Seed
    <3>5. TypeOK'
      BY <3>1, <3>2, <3>3, <3>4 DEF BatcherInv, TypeOK, BatchFits
    <3>6. ItemInv' /\ SubmittedInv'
      BY <3>1, <3>3, <3>4 DEF BatcherInv, ItemInv, SubmittedInv
    <3> QED BY <3>1, <3>5, <3>6 DEF BatcherInv
  <2>4. CASE WindowOver
    <3>1. /\ batch' \in Seq(submitted) /\ queue' \in Seq(submitted)
          /\ batch' # <<>> /\ BatchFits'
      BY <2>4, WindowTakes
    <3>2. batch' \in Seq(Requests) /\ queue' \in Seq(Requests)
      BY <2>0, <3>1, SeqMonotonic
    <3>3. worker' = "prepare" /\ next' = 1
      BY <2>4 DEF WindowOver, BatcherInv, ItemInv
    <3>4. UNCHANGED <<submitted, stop, gpu, others, answer>>
      BY <2>4 DEF WindowOver
    <3>5. TypeOK'
      BY <3>1, <3>2, <3>3, <3>4 DEF BatcherInv, TypeOK, BatchFits
    <3>6. ItemInv' /\ SubmittedInv'
      BY <3>1, <3>3, <3>4 DEF BatcherInv, ItemInv, SubmittedInv
    <3> QED BY <3>1, <3>5, <3>6 DEF BatcherInv
  <2>5. CASE Exit
    BY <2>5 DEF Exit, BatcherInv, TypeOK, ItemInv, SubmittedInv, BatchFits
  <2>6. CASE Prepare
    BY <2>6, <2>0, EmptySeq DEF Prepare, BatcherInv, TypeOK, ItemInv, SubmittedInv, BatchFits
  <2>7. CASE Acquire
    BY <2>7 DEF Acquire, BatcherInv, TypeOK, ItemInv, SubmittedInv, BatchFits
  <2>8. CASE Synthesized
    BY <2>8, <2>0, EmptySeq DEF Synthesized, BatcherInv, TypeOK, ItemInv, SubmittedInv, BatchFits
  <2>9. CASE Resolve \/ Fail
    <3>1. PICK value : Answered(value) /\ value \in {None, Error} \cup Audio
      <4>1. batch[next] \in Requests /\ batch[1] \in Requests
        BY <2>0, <2>9 DEF Resolve, Fail, BatcherInv, ItemInv
      <4>2. [text |-> batch[next], voice |-> Voice[batch[1]]] \in Audio
        BY <4>1 DEF Audio
      <4> QED BY <2>9, <4>2 DEF Resolve, Fail
    <3>2. next \in 1 .. Len(batch) /\ batch[next] \in submitted /\ worker \in {"resolve", "fail"}
      BY <2>0, <2>9 DEF Resolve, Fail, BatcherInv, ItemInv
    <3>3. UNCHANGED <<submitted, queue, batch, stop, gpu, others>>
      BY <3>1 DEF Answered
    <3>4. next' = next + 1 /\ worker' = IF next = Len(batch) THEN "collect" ELSE worker
      BY <3>1 DEF Answered
    <3>5. answer' = [answer EXCEPT ![batch[next]] = value]
      BY <3>1 DEF Answered
    <3>6. TypeOK'
      BY <3>1, <3>2, <3>3, <3>4, <3>5, <2>0 DEF BatcherInv, TypeOK
    <3>7. ItemInv'
      BY <3>2, <3>3, <3>4, <2>0 DEF ItemInv
    <3>8. SubmittedInv' /\ BatchFits'
      BY <3>2, <3>3, <3>5 DEF BatcherInv, TypeOK, SubmittedInv, BatchFits
    <3> QED BY <3>6, <3>7, <3>8 DEF BatcherInv
  <2>10. CASE OtherTakes
    BY <2>10 DEF OtherTakes, BatcherInv, TypeOK, ItemInv, SubmittedInv, BatchFits
  <2>11. CASE OtherReleases
    BY <2>11 DEF OtherReleases, BatcherInv, TypeOK, ItemInv, SubmittedInv, BatchFits
  <2>12. CASE UNCHANGED vars
    BY <2>12 DEF vars, BatcherInv, TypeOK, ItemInv, SubmittedInv, BatchFits
  <2> QED BY <2>1, <2>2, <2>3, <2>4, <2>5, <2>6, <2>7, <2>8, <2>9, <2>10, <2>11, <2>12
          DEF Next, Worker
<1> QED BY <1>1, <1>2, PTL DEF Spec

(* Types, for any constants that BatcherAssumption allows.                 *)
THEOREM TypeCorrect == Spec => []TypeOK
<1>1. BatcherInv => TypeOK
  BY DEF BatcherInv
<1> QED BY <1>1, BatcherInvariance, PTL

(* A model call speaks in one voice and for no more requests than fit.     *)
THEOREM OneVoicePerCall == Spec => []BatchFits
<1>1. BatcherInv => BatchFits
  BY DEF BatcherInv
<1> QED BY <1>1, BatcherInvariance, PTL

(* The model runs exactly while the batcher holds the GPU lock.            *)
THEOREM LockedCalls == Spec => []RunsUnderLock
<1>1. Init => RunsUnderLock
  BY DEF Init, RunsUnderLock
<1>2. TypeOK /\ RunsUnderLock /\ [Next]_vars => RunsUnderLock'
  <2> SUFFICES ASSUME TypeOK, RunsUnderLock, [Next]_vars PROVE RunsUnderLock'
    OBVIOUS
  <2> USE DEF RunsUnderLock
  <2>1. ASSUME NEW r \in Requests, Submit(r) PROVE RunsUnderLock'
    BY <2>1 DEF Submit
  <2>2. CASE Stop \/ UNCHANGED vars
    BY <2>2 DEF Stop, vars
  <2>3. CASE Seed \/ WindowOver \/ Exit \/ Prepare
    BY <2>3 DEF Seed, WindowOver, Exit, Prepare
  <2>4. CASE Acquire \/ Synthesized
    BY <2>4 DEF Acquire, Synthesized
  <2>5. CASE Resolve \/ Fail
    BY <2>5 DEF Resolve, Fail, Answered
  <2>6. CASE OtherTakes \/ OtherReleases
    BY <2>6 DEF OtherTakes, OtherReleases
  <2> QED BY <2>1, <2>2, <2>3, <2>4, <2>5, <2>6 DEF Next, Worker
<1> QED BY <1>1, <1>2, TypeCorrect, PTL DEF Spec

-----------------------------------------------------------------------------
(* Batching is invisible.                                                  *)

(* What waits: nothing of a batch that is answered, all of a new one, and  *)
(* the first open item of one that is being answered.                      *)
LEMMA WaitingOnly ==
    ASSUME BatcherInv
    PROVE  /\ Waiting \in Seq(submitted)
           /\ next = Len(batch) + 1 => Waiting = queue
           /\ next = 1 => Waiting = batch \o queue
<1> DEFINE open == SubSeq(batch, next, Len(batch))
<1>1. /\ batch \in Seq(submitted) /\ queue \in Seq(submitted)
      /\ Len(batch) \in Nat /\ next \in Nat \ {0}
  BY LenProperties DEF BatcherInv, TypeOK, SubmittedInv
<1>2. open \in Seq(submitted)
  <2>1. \A i \in next .. Len(batch) : batch[i] \in submitted
    BY <1>1, ElementOfSeq
  <2> QED BY <1>1, <2>1, SubSeqProperties
<1>3. open \o queue \in Seq(submitted)
  BY <1>1, <1>2, ConcatProperties
<1>4. ASSUME next = Len(batch) + 1 PROVE open \o queue = queue
  <2>1. open = <<>>
    BY <1>1, <1>4, SubSeqEmpty
  <2> QED BY <1>1, <2>1, ConcatEmptySeq
<1>5. ASSUME next = 1 PROVE open \o queue = batch \o queue
  BY <1>1, <1>5, SubSeqFull
<1> QED BY <1>3, <1>4, <1>5 DEF Waiting

(* Answering the first open item takes the oldest of what waits.           *)
LEMMA OldestFirst ==
    ASSUME BatcherInv, next \in 1 .. Len(batch)
    PROVE  /\ Waiting # <<>>
           /\ Head(Waiting) = batch[next]
           /\ Tail(Waiting) = SubSeq(batch, next + 1, Len(batch)) \o queue
<1> DEFINE rest == SubSeq(batch, next + 1, Len(batch))
           first == <<batch[next]>>
<1>1. /\ batch \in Seq(submitted) /\ queue \in Seq(submitted)
      /\ Len(batch) \in Nat /\ batch[next] \in submitted
  BY LenProperties, ElementOfSeq DEF BatcherInv, SubmittedInv
<1>2. rest \in Seq(submitted)
  <2>1. \A i \in next + 1 .. Len(batch) : batch[i] \in submitted
    BY <1>1, ElementOfSeq
  <2> QED BY <1>1, <2>1, SubSeqProperties
<1>3. first \in Seq(submitted) /\ Len(first) = 1 /\ first[1] = batch[next]
  BY <1>1
<1>4. Waiting = (first \o rest) \o queue
  <2>1. next \in 1 .. Len(batch) /\ Len(batch) \in next .. Len(batch)
    BY <1>1
  <2>2. SubSeq(batch, next, Len(batch)) = first \o rest
    BY <1>1, <2>1, SubSeqRecursiveFirst
  <2> QED BY <2>2 DEF Waiting
<1> HIDE DEF rest, first
<1>5. \A x, y, z \in Seq(submitted) : (x \o y) \o z = x \o (y \o z)
  BY ConcatAssociative
<1>6. Waiting = first \o (rest \o queue)
  BY <1>1, <1>2, <1>3, <1>4, <1>5, Zenon
<1>7. rest \o queue \in Seq(submitted)
  BY <1>1, <1>2, ConcatProperties
<1>8. /\ first \o (rest \o queue) # <<>>
      /\ Head(first \o (rest \o queue)) = batch[next]
      /\ Tail(first \o (rest \o queue)) = rest \o queue
  BY <1>1, <1>7, Prefixed DEF first
<1> QED BY <1>6, <1>8 DEF rest

(* A request that is submitted joins the end of what waits.                *)
LEMMA SubmitAccepts ==
    ASSUME BatcherInv, NEW r \in Requests, Submit(r)
    PROVE  Service!Accept(r)
<1> DEFINE open == SubSeq(batch, next, Len(batch))
<1>1. /\ batch \in Seq(Requests) /\ queue \in Seq(Requests)
      /\ Len(batch) \in Nat /\ next \in Nat \ {0}
  BY LenProperties DEF BatcherInv, TypeOK
<1>2. open \in Seq(Requests)
  <2>1. \A i \in next .. Len(batch) : batch[i] \in Requests
    BY <1>1, ElementOfSeq
  <2> QED BY <1>1, <2>1, SubSeqProperties
<1>3. queue' = queue \o <<r>> /\ UNCHANGED <<batch, next, answer>>
  BY <1>1, AppendIsConcat DEF Submit
<1>4. <<r>> \in Seq(Requests)
  OBVIOUS
<1>5. \A x, y, z \in Seq(Requests) : (x \o y) \o z = x \o (y \o z)
  BY ConcatAssociative
<1>6. Waiting = open \o queue /\ Waiting' = open \o (queue \o <<r>>)
  BY <1>3 DEF Waiting
<1> HIDE DEF open
<1>7. open \o (queue \o <<r>>) = (open \o queue) \o <<r>>
  BY <1>1, <1>2, <1>4, <1>5, Zenon
<1>8. open \o queue \in Seq(Requests)
  BY <1>1, <1>2, ConcatProperties
<1>9. Waiting' = Append(Waiting, r)
  BY <1>6, <1>7, <1>8, AppendIsConcat
<1>10. \A i \in 1 .. Len(Waiting) : Waiting[i] # r
  <2>1. Waiting \in Seq(submitted) /\ r \notin submitted
    BY WaitingOnly DEF Submit
  <2> QED BY <2>1, ElementOfSeq
<1>11. answer[r] = None
  BY DEF Submit, BatcherInv, SubmittedInv
<1> QED BY <1>3, <1>9, <1>10, <1>11 DEF Service!Accept

(* A future that is resolved is the oldest one, with its own voice.        *)
LEMMA ResolvingAnswers ==
    ASSUME BatcherInv, Resolve \/ Fail
    PROVE  Service!Answer
<1>1. next \in 1 .. Len(batch)
  BY DEF Resolve, Fail, BatcherInv, ItemInv
<1>2. /\ Waiting # <<>> /\ Head(Waiting) = batch[next]
      /\ Tail(Waiting) = SubSeq(batch, next + 1, Len(batch)) \o queue
  BY <1>1, OldestFirst
<1>3. Waiting' = Tail(Waiting)
  BY <1>2 DEF Waiting, Resolve, Fail, Answered
<1>4. Voice[batch[next]] = Voice[batch[1]]
  BY <1>1 DEF BatcherInv, BatchFits
<1>5. \/ answer' = [answer EXCEPT ![batch[next]] =
                        [text |-> batch[next], voice |-> Voice[batch[next]]]]
      \/ answer' = [answer EXCEPT ![batch[next]] = Error]
  BY <1>4 DEF Resolve, Fail, Answered
<1> QED BY <1>2, <1>3, <1>5 DEF Service!Answer

(* Every other step leaves what waits and what was answered alone.         *)
LEMMA StepIsTransparent ==
    ASSUME BatcherInv, [Next]_vars
    PROVE  [Service!Next]_(Service!serviceVars)
<1> USE DEF Service!serviceVars
<1>1. ASSUME NEW r \in Requests, Submit(r) PROVE Service!Next
  BY <1>1, SubmitAccepts DEF Service!Next
<1>2. CASE Resolve \/ Fail
  BY <1>2, ResolvingAnswers DEF Service!Next
<1>3. CASE Seed
  <2>1. batch' \o queue' = queue /\ batch' \in Seq(submitted)
    BY <1>3, SeedTakes
  <2>2. Waiting = queue
    BY <1>3, WaitingOnly DEF Seed, BatcherInv, ItemInv
  <2>3. Waiting' = batch' \o queue'
    <3>1. next' = 1
      BY <1>3 DEF Seed
    <3>2. SubSeq(batch', 1, Len(batch')) = batch'
      BY <2>1, SubSeqFull
    <3> QED BY <3>1, <3>2 DEF Waiting
  <2> QED BY <1>3, <2>1, <2>2, <2>3 DEF Seed
<1>4. CASE WindowOver
  <2>1. batch' \o queue' = batch \o queue /\ batch' \in Seq(submitted)
    BY <1>4, WindowTakes
  <2>2. next = 1 /\ next' = 1
    BY <1>4 DEF WindowOver, BatcherInv, ItemInv
  <2>3. Waiting = batch \o queue
    BY <2>2, WaitingOnly
  <2>4. Waiting' = batch' \o queue'
    <3>1. SubSeq(batch', 1, Len(batch')) = batch'
      BY <2>1, SubSeqFull
    <3> QED BY <2>2, <3>1 DEF Waiting
  <2> QED BY <1>4, <2>1, <2>3, <2>4 DEF WindowOver
<1>5. CASE Stop \/ Exit \/ Prepare \/ Acquire \/ Synthesized
  BY <1>5 DEF Stop, Exit, Prepare, Acquire, Synthesized, Waiting
<1>6. CASE OtherTakes \/ OtherReleases \/ UNCHANGED vars
  BY <1>6 DEF OtherTakes, OtherReleases, vars, Waiting
<1> QED BY <1>1, <1>2, <1>3, <1>4, <1>5, <1>6 DEF Next, Worker

(* The batcher implements the safety part of SynthesisService: requests    *)
(* are answered in the order of their submission, each once, with its own  *)
(* text in its own voice or with an error.                                 *)
THEOREM BatchingIsInvisible ==
    Spec => Service!Init /\ [][Service!Next]_(Service!serviceVars)
<1>1. Init => Service!Init
  <2> SUFFICES ASSUME Init PROVE Waiting = <<>> /\ answer = [r \in Requests |-> None]
    BY DEF Service!Init
  <2>1. SubSeq(batch, next, Len(batch)) = <<>> /\ queue = <<>>
    BY EmptySeq, SubSeqEmpty DEF Init
  <2> QED BY <2>1, ConcatEmptySeq, EmptySeq DEF Init, Waiting
<1>2. BatcherInv /\ [Next]_vars => [Service!Next]_(Service!serviceVars)
  BY StepIsTransparent
<1> QED BY <1>1, <1>2, BatcherInvariance, PTL DEF Spec
=============================================================================
