------------------------- MODULE StaticBuffersProofs -------------------------
(***************************************************************************)
(* Proofs about StaticBuffers for every number of clients, every capacity  *)
(* and every array size.                                                   *)
(***************************************************************************)
EXTENDS StaticBuffers, TLAPS

-----------------------------------------------------------------------------
\* A client that waits or loops still has something to get.
Wanting == \A c \in Clients : step[c] # "idle" => want[c] >= 1

\* The inductive invariant.
PoolInv == TypeOK /\ Wanting /\ NoLostWaiter

LEMMA BuffersType == Capacity \in Nat /\ Created \in Seq(Buffers) /\ Len(Created) = Capacity
  BY CapacityAssumption DEF Created, Buffers

\* What get() takes are ids, and what it leaves is a stack of ids.
LEMMA TakeTypes ==
  ASSUME ids \in Seq(Buffers), NEW k \in 0 .. Len(ids)
  PROVE  /\ Popped(k) \in Seq(Buffers)
         /\ Len(Popped(k)) = Len(ids) - k
         /\ TopIds(k) \in Seq(Buffers)
         /\ Len(TopIds(k)) = k
<1>1. Len(ids) \in Nat /\ \A i \in 1 .. Len(ids) : ids[i] \in Buffers
  OBVIOUS
<1>2. Popped(k) \in Seq(Buffers) /\ Len(Popped(k)) = Len(ids) - k
  BY <1>1 DEF Popped
<1>3. \A i \in 1 .. k : Len(ids) - i + 1 \in 1 .. Len(ids)
  BY <1>1
<1>4. TopIds(k) \in [1 .. k -> Buffers]
  BY <1>1, <1>3 DEF TopIds
<1>5. k \in Nat
  BY <1>1
<1>6. QED
  BY <1>2, <1>4, <1>5

LEMMA UpdatedSeq ==
  ASSUME NEW S, NEW s \in Seq(S), NEW i \in 1 .. Len(s), NEW x \in S
  PROVE  [s EXCEPT ![i] = x] \in Seq(S) /\ Len([s EXCEPT ![i] = x]) = Len(s)
  OBVIOUS

LEMMA SeqElement ==
  ASSUME NEW S, NEW s \in Seq(S)
  PROVE  Len(s) \in Nat /\ (s # <<>> => Len(s) >= 1) /\ \A i \in 1 .. Len(s) : s[i] \in S
  OBVIOUS

LEMMA OnlyOne == ASSUME NEW n \in Nat, n <= 1, n # 0 PROVE n = 1
  OBVIOUS

LEMMA FewestIs ==
  ASSUME NEW m \in Nat, NEW n \in Nat
  PROVE  /\ Fewest(m, n) \in Nat /\ Fewest(m, n) <= m /\ Fewest(m, n) <= n
         /\ Fewest(m, n) = m \/ Fewest(m, n) = n
  BY DEF Fewest

\* The completers after allocate() found no id.
LEMMA AwaitedIs ==
  ASSUME finalizers \in Seq(SUBSET Clients), Len(finalizers) <= 1, NEW c \in Clients
  PROVE  Awaited(c) \in Seq(SUBSET Clients) /\ Len(Awaited(c)) <= 1
<1>1. CASE finalizers # <<>>
  <2>0. Len(finalizers) \in Nat /\ \A i \in 1 .. Len(finalizers) : finalizers[i] \in SUBSET Clients
    OBVIOUS
  <2>a. Len(finalizers) # 0
    BY <1>1
  <2>b. Len(finalizers) = 1
    BY <2>0, <2>a, OnlyOne
  <2>1. Len(finalizers) = 1 /\ finalizers[1] \in SUBSET Clients
    BY <2>0, <2>b
  <2>2. Awaited(c) = [finalizers EXCEPT ![1] = finalizers[1] \union {c}]
    BY <2>1, <1>1 DEF Awaited
  <2>3. finalizers[1] \union {c} \in SUBSET Clients
    BY <2>1
  <2>4. QED
    BY <2>1, <2>2, <2>3, UpdatedSeq
<1>2. CASE finalizers = <<>>
  <2>1. Awaited(c) = <<{c}>>
    BY <1>2 DEF Awaited
  <2>2. {c} \in SUBSET Clients
    OBVIOUS
  <2>3. QED
    BY <2>1, <2>2
<1>3. QED
  BY <1>1, <1>2

\* A release leaves no completer behind, and wakes clients.
LEMMA WakeIs ==
  ASSUME finalizers \in Seq(SUBSET Clients), Len(finalizers) <= 1, woken \in SUBSET Clients,
         NEW k \in Nat \ {0}, Wake(k)
  PROVE  finalizers' = <<>> /\ woken' \in SUBSET Clients
<1>1. Len(finalizers) \in Nat /\ \A i \in 1 .. Len(finalizers) : finalizers[i] \in SUBSET Clients
  OBVIOUS
<1>2. Fewest(k, Len(finalizers)) = Len(finalizers)
  BY <1>1 DEF Fewest
<1>3. finalizers' = SubSeq(finalizers, 1, 0)
  BY <1>1, <1>2 DEF Wake
<1>4. Completed(k) = 1 .. Len(finalizers)
  BY <1>1, <1>2 DEF Completed
<1>5. UNION {finalizers[i] : i \in Completed(k)} \subseteq Clients
  BY <1>1, <1>4
<1>6. QED
  BY <1>3, <1>5 DEF Wake

-----------------------------------------------------------------------------
(* Types, and the queue of waiters. *)

LEMMA Updated ==
  ASSUME NEW S, NEW T, NEW f \in [S -> T], NEW s \in S, NEW t \in T
  PROVE  /\ [f EXCEPT ![s] = t] \in [S -> T]
         /\ [f EXCEPT ![s] = t][s] = t
         /\ \A x \in S \ {s} : [f EXCEPT ![s] = t][x] = f[x]
  OBVIOUS

LEMMA Joined ==
  ASSUME NEW S, NEW s \in Seq(S), NEW t \in Seq(S)
  PROVE  s \o t \in Seq(S)
  OBVIOUS

LEMMA Removed ==
  ASSUME NEW S, NEW s \in Seq(S), NEW i \in 1 .. Len(s)
  PROVE  SubSeq(s, 1, i - 1) \o SubSeq(s, i + 1, Len(s)) \in Seq(S)
<1>1. SubSeq(s, 1, i - 1) \in Seq(S)
  OBVIOUS
<1>2. SubSeq(s, i + 1, Len(s)) \in Seq(S)
  OBVIOUS
<1>3. QED
  BY <1>1, <1>2, Joined

LEMMA EmptyStack == ASSUME NEW S, NEW s \in Seq(S), Len(s) = 0 PROVE s = <<>>
  OBVIOUS

\* Ids that leave the stack for a client keep the types.
LEMMA TakeKeepsTypes ==
  ASSUME TypeOK, NEW c \in Clients, NEW k \in 0 .. Len(ids),
         ids' = Popped(k), held' = [held EXCEPT ![c] = @ \o TopIds(k)]
  PROVE  ids' \in Seq(Buffers) /\ held' \in [Clients -> Seq(Buffers)]
<1>1. ids \in Seq(Buffers) /\ held \in [Clients -> Seq(Buffers)]
  BY DEF TypeOK
<1>2. Popped(k) \in Seq(Buffers) /\ TopIds(k) \in Seq(Buffers)
  BY <1>1, TakeTypes
<1>3. held[c] \in Seq(Buffers)
  BY <1>1
<1>4. held[c] \o TopIds(k) \in Seq(Buffers)
  BY <1>2, <1>3, Joined
<1>5. held' \in [Clients -> Seq(Buffers)]
  BY <1>1, <1>4, Updated
<1>6. QED
  BY <1>2, <1>5

\* The loop of allocateArray: it ends with all it wanted, or with an empty stack
\* and the client in the one completer of the queue.
LEMMA LoopKeeps ==
  ASSUME PoolInv, NEW c \in Clients, NEW n \in Nat, Loop(c, n)
  PROVE  /\ ids' \in Seq(Buffers) /\ held' \in [Clients -> Seq(Buffers)]
         /\ want' \in [Clients -> Nat] /\ step' \in [Clients -> Steps]
         /\ finalizers' \in Seq(SUBSET Clients)
         /\ Wanting' /\ NoLostWaiter'
<1> DEFINE k == Fewest(n, Len(ids))
<1>1. /\ ids \in Seq(Buffers) /\ want \in [Clients -> Nat] /\ step \in [Clients -> Steps]
      /\ finalizers \in Seq(SUBSET Clients) /\ Len(finalizers) <= 1
      /\ finalizers # <<>> => ids = <<>>
  BY DEF PoolInv, TypeOK, NoLostWaiter
<1>2. Len(ids) \in Nat
  BY <1>1
<1>3. k \in Nat /\ k <= n /\ k <= Len(ids) /\ (k = n \/ k = Len(ids))
  BY <1>2, FewestIs
<1>4. k \in 0 .. Len(ids) /\ n - k \in Nat /\ (k # n => n - k >= 1)
  <2> HIDE DEF k
  <2>1. QED
    BY <1>2, <1>3
<1>5. /\ ids' = Popped(k)
      /\ held' = [held EXCEPT ![c] = @ \o TopIds(k)]
      /\ want' = [want EXCEPT ![c] = n - k]
      /\ step' = [step EXCEPT ![c] = IF k = n THEN "idle" ELSE "allocate"]
      /\ finalizers' = IF k = n THEN finalizers ELSE Awaited(c)
  BY DEF Loop
<1> HIDE DEF k
<1>6. ids' \in Seq(Buffers) /\ held' \in [Clients -> Seq(Buffers)]
  BY <1>4, <1>5, TakeKeepsTypes DEF PoolInv
<1>7. want' \in [Clients -> Nat]
  BY <1>1, <1>4, <1>5, Updated
<1>8. (IF k = n THEN "idle" ELSE "allocate") \in Steps
  BY DEF Steps
<1>9. step' \in [Clients -> Steps]
  BY <1>1, <1>5, <1>8, Updated
<1>10. finalizers' \in Seq(SUBSET Clients) /\ Len(finalizers') <= 1
  <2>1. Awaited(c) \in Seq(SUBSET Clients) /\ Len(Awaited(c)) <= 1
    BY <1>1, AwaitedIs
  <2>2. QED
    BY <1>1, <1>5, <2>1, Zenon
<1>11. Wanting'
  <2>1. ASSUME NEW d \in Clients, step'[d] # "idle" PROVE want'[d] >= 1
    <3>1. CASE d = c
      <4>1. step'[c] = (IF k = n THEN "idle" ELSE "allocate") /\ want'[c] = n - k
        BY <1>1, <1>5
      <4>2. k # n
        BY <4>1, <3>1, <2>1
      <4>3. QED
        BY <4>1, <4>2, <3>1, <1>4
    <3>2. CASE d # c
      <4>1. step'[d] = step[d] /\ want'[d] = want[d]
        BY <3>2, <1>1, <1>5
      <4>2. QED
        BY <4>1, <2>1 DEF PoolInv, Wanting
    <3>3. QED
      BY <3>1, <3>2
  <2>2. QED
    BY <2>1 DEF Wanting
<1>12. finalizers' # <<>> => ids' = <<>>
  <2>1. Popped(k) \in Seq(Buffers) /\ Len(Popped(k)) = Len(ids) - k
    BY <1>1, <1>4, TakeTypes
  <2>2. CASE k = Len(ids)
    <3>1. Len(Popped(k)) = 0
      BY <2>1, <2>2, <1>2
    <3>2. QED
      BY <3>1, <2>1, <1>5, EmptyStack
  <2>3. CASE k = n /\ k # Len(ids)
    <3>1. ids # <<>>
      <4>1. CASE ids = <<>>
        <5>1. Len(ids) = 0
          BY <4>1
        <5>2. QED
          BY <5>1, <2>3, <1>3
      <4>2. QED
        BY <4>1
    <3>2. QED
      BY <3>1, <2>3, <1>1, <1>5
  <2>4. QED
    BY <2>2, <2>3, <1>3
<1>13. QED
  BY <1>6, <1>7, <1>9, <1>10, <1>11, <1>12 DEF NoLostWaiter

-----------------------------------------------------------------------------
(* Each action keeps the invariant. *)

LEMMA AllocateArrayKeeps ==
  ASSUME PoolInv, NEW c \in Clients, NEW n \in 1 .. MaxCount, AllocateArray(c, n)
  PROVE  PoolInv'
<1>1. n \in Nat
  BY MaxCountAssumption
<1>2. Loop(c, n) /\ woken' = woken /\ calls' = [calls EXCEPT ![c] = @ + 1]
  BY DEF AllocateArray
<1>3. calls \in [Clients -> Nat] /\ woken \in SUBSET Clients
  BY DEF PoolInv, TypeOK
<1>4. calls' \in [Clients -> Nat]
  BY <1>2, <1>3
<1>5. QED
  BY <1>1, <1>2, <1>3, <1>4, LoopKeeps DEF PoolInv, TypeOK

LEMMA ResumeArrayKeeps ==
  ASSUME PoolInv, NEW c \in Clients, ResumeArray(c)
  PROVE  PoolInv'
<1>1. want[c] \in Nat /\ woken \in SUBSET Clients /\ calls \in [Clients -> Nat]
  BY DEF PoolInv, TypeOK
<1>2. Loop(c, want[c]) /\ woken' = woken \ {c} /\ calls' = calls
  BY DEF ResumeArray
<1>3. woken' \in SUBSET Clients
  BY <1>1, <1>2
<1>4. QED
  BY <1>1, <1>2, <1>3, LoopKeeps DEF PoolInv, TypeOK

LEMMA ResumeAllocateKeeps ==
  ASSUME PoolInv, NEW c \in Clients, ResumeAllocate(c)
  PROVE  PoolInv'
<1>1. /\ ids \in Seq(Buffers) /\ want \in [Clients -> Nat] /\ step \in [Clients -> Steps]
      /\ finalizers \in Seq(SUBSET Clients) /\ Len(finalizers) <= 1
      /\ finalizers # <<>> => ids = <<>>
      /\ woken \in SUBSET Clients /\ calls \in [Clients -> Nat]
      /\ held \in [Clients -> Seq(Buffers)]
  BY DEF PoolInv, TypeOK, NoLostWaiter
<1>2. step[c] = "allocate" /\ calls' = calls
  BY DEF ResumeAllocate
<1>3. CASE ids = <<>>
  <2>1. /\ finalizers' = Awaited(c) /\ woken' = woken \ {c}
        /\ ids' = ids /\ step' = step /\ want' = want /\ held' = held
    BY <1>3 DEF ResumeAllocate
  <2>2. finalizers' \in Seq(SUBSET Clients) /\ Len(finalizers') <= 1
    BY <1>1, <2>1, AwaitedIs
  <2>3. woken' \in SUBSET Clients
    BY <1>1, <2>1
  <2>4. TypeOK'
    BY <1>1, <1>2, <2>1, <2>2, <2>3 DEF TypeOK
  <2>5. Wanting'
    BY <2>1 DEF PoolInv, Wanting
  <2>6. NoLostWaiter'
    BY <2>1, <2>2, <1>3 DEF NoLostWaiter
  <2>7. QED
    BY <2>4, <2>5, <2>6 DEF PoolInv
<1>4. CASE ids # <<>>
  <2>1. /\ ids' = Popped(1)
        /\ held' = [held EXCEPT ![c] = @ \o TopIds(1)]
        /\ want' = [want EXCEPT ![c] = @ - 1]
        /\ step' = [step EXCEPT ![c] = IF want[c] = 1 THEN "idle" ELSE "array"]
        /\ woken' = (IF want[c] = 1 THEN woken \ {c} ELSE woken)
        /\ finalizers' = finalizers
    BY <1>4 DEF ResumeAllocate
  <2>2. Len(ids) \in Nat /\ Len(ids) # 0
    BY <1>1, <1>4
  <2>3. 1 \in 0 .. Len(ids)
    BY <2>2
  <2>4. ids' \in Seq(Buffers) /\ held' \in [Clients -> Seq(Buffers)]
    BY <2>1, <2>3, TakeKeepsTypes DEF PoolInv
  <2>5. want[c] \in Nat /\ want[c] >= 1
    BY <1>1, <1>2 DEF PoolInv, Wanting
  <2>6. want[c] - 1 \in Nat
    BY <2>5
  <2>7. want' \in [Clients -> Nat]
    BY <1>1, <2>1, <2>6, Updated
  <2>8. (IF want[c] = 1 THEN "idle" ELSE "array") \in Steps
    BY DEF Steps
  <2>9. step' \in [Clients -> Steps]
    BY <1>1, <2>1, <2>8, Updated
  <2>10. woken' \in SUBSET Clients
    BY <1>1, <2>1
  <2>11. TypeOK'
    BY <1>1, <1>2, <2>1, <2>4, <2>7, <2>9, <2>10 DEF TypeOK
  <2>12. ASSUME NEW d \in Clients, step'[d] # "idle" PROVE want'[d] >= 1
    <3>1. CASE d = c
      <4>1. step'[c] = (IF want[c] = 1 THEN "idle" ELSE "array") /\ want'[c] = want[c] - 1
        BY <1>1, <2>1
      <4>2. want[c] # 1
        BY <4>1, <3>1, <2>12
      <4>3. QED
        BY <4>1, <4>2, <3>1, <2>5
    <3>2. CASE d # c
      <4>1. step'[d] = step[d] /\ want'[d] = want[d]
        BY <3>2, <1>1, <2>1
      <4>2. QED
        BY <4>1, <2>12 DEF PoolInv, Wanting
    <3>3. QED
      BY <3>1, <3>2
  <2>13. NoLostWaiter'
    BY <1>1, <1>4, <2>1 DEF NoLostWaiter
  <2>14. QED
    BY <2>11, <2>12, <2>13 DEF PoolInv, Wanting
<1>5. QED
  BY <1>3, <1>4

LEMMA ReleaseKeeps ==
  ASSUME PoolInv, NEW c \in Clients, NEW i \in 1 .. Len(held[c]), Release(c, i)
  PROVE  PoolInv'
<1>1. /\ ids \in Seq(Buffers) /\ held \in [Clients -> Seq(Buffers)]
      /\ finalizers \in Seq(SUBSET Clients) /\ Len(finalizers) <= 1
      /\ woken \in SUBSET Clients
      /\ step \in [Clients -> Steps] /\ want \in [Clients -> Nat] /\ calls \in [Clients -> Nat]
  BY DEF PoolInv, TypeOK, NoLostWaiter
<1>2. /\ ids' = Append(ids, held[c][i])
      /\ held' = [held EXCEPT ![c] = SubSeq(held[c], 1, i - 1) \o SubSeq(held[c], i + 1, Len(held[c]))]
      /\ Wake(1) /\ step' = step /\ want' = want /\ calls' = calls
  BY DEF Release
<1>3. held[c] \in Seq(Buffers)
  BY <1>1
<1>4. held[c][i] \in Buffers
  BY <1>3, SeqElement
<1>5. ids' \in Seq(Buffers)
  BY <1>1, <1>2, <1>4
<1>6. held' \in [Clients -> Seq(Buffers)]
  BY <1>1, <1>2, <1>3, Removed, Updated
<1>7. finalizers' = <<>> /\ woken' \in SUBSET Clients
  BY <1>1, <1>2, WakeIs
<1>8. finalizers' \in Seq(SUBSET Clients) /\ Len(finalizers') <= 1
  BY <1>7
<1>9. TypeOK'
  BY <1>1, <1>2, <1>5, <1>6, <1>7, <1>8 DEF TypeOK
<1>10. Wanting'
  BY <1>2 DEF PoolInv, Wanting
<1>11. QED
  BY <1>7, <1>8, <1>9, <1>10 DEF PoolInv, NoLostWaiter

LEMMA ReleaseArrayKeeps ==
  ASSUME PoolInv, NEW c \in Clients, ReleaseArray(c)
  PROVE  PoolInv'
<1>1. /\ ids \in Seq(Buffers) /\ held \in [Clients -> Seq(Buffers)]
      /\ finalizers \in Seq(SUBSET Clients) /\ Len(finalizers) <= 1
      /\ woken \in SUBSET Clients
      /\ step \in [Clients -> Steps] /\ want \in [Clients -> Nat] /\ calls \in [Clients -> Nat]
  BY DEF PoolInv, TypeOK, NoLostWaiter
<1>2. /\ ids' = ids \o held[c] /\ held' = [held EXCEPT ![c] = <<>>] /\ held[c] # <<>>
      /\ Wake(Len(held[c])) /\ step' = step /\ want' = want /\ calls' = calls
  BY DEF ReleaseArray
<1>3. held[c] \in Seq(Buffers)
  BY <1>1
<1>4. ids' \in Seq(Buffers)
  BY <1>1, <1>2, <1>3, Joined
<1>5. <<>> \in Seq(Buffers)
  OBVIOUS
<1>6. held' \in [Clients -> Seq(Buffers)]
  BY <1>1, <1>2, <1>5, Updated
<1>7. Len(held[c]) \in Nat /\ Len(held[c]) # 0
  BY <1>2, <1>3
<1>8. finalizers' = <<>> /\ woken' \in SUBSET Clients
  BY <1>1, <1>2, <1>7, WakeIs
<1>9. finalizers' \in Seq(SUBSET Clients) /\ Len(finalizers') <= 1
  BY <1>8
<1>10. TypeOK'
  BY <1>1, <1>2, <1>4, <1>6, <1>8, <1>9 DEF TypeOK
<1>11. Wanting'
  BY <1>2 DEF PoolInv, Wanting
<1>12. QED
  BY <1>8, <1>9, <1>10, <1>11 DEF PoolInv, NoLostWaiter

LEMMA PoolInit == Init => PoolInv
<1> SUFFICES ASSUME Init PROVE PoolInv
  OBVIOUS
<1>1. ids \in Seq(Buffers)
  BY BuffersType DEF Init
<1>2. TypeOK
  BY <1>1 DEF Init, TypeOK, Steps
<1>3. QED
  BY <1>2 DEF Init, PoolInv, Wanting, NoLostWaiter

LEMMA PoolNext == PoolInv /\ [Next]_vars => PoolInv'
<1> SUFFICES ASSUME PoolInv, [Next]_vars PROVE PoolInv'
  OBVIOUS
<1>1. CASE UNCHANGED vars
  BY <1>1 DEF vars, PoolInv, TypeOK, Wanting, NoLostWaiter
<1>2. CASE Next
  BY <1>2, AllocateArrayKeeps, ResumeAllocateKeeps, ResumeArrayKeeps, ReleaseKeeps,
     ReleaseArrayKeeps DEF Next
<1>3. QED
  BY <1>1, <1>2

\* The types of the pool and its callers hold in every reachable state.
THEOREM TypesHold == Spec => []TypeOK
<1>1. PoolInv => TypeOK
  BY DEF PoolInv
<1>2. QED
  BY <1>1, PoolInit, PoolNext, PTL DEF Spec

\* For every capacity and any number of callers: while somebody waits in the
\* queue no buffer is free, and all who wait share one completer, so that the
\* next release wakes them all.
THEOREM WaitersKept == Spec => []NoLostWaiter
<1>1. PoolInv => NoLostWaiter
  BY DEF PoolInv
<1>2. QED
  BY <1>1, PoolInit, PoolNext, PTL DEF Spec

-----------------------------------------------------------------------------
(* Ownership. *)

\* Where the ids are after k of them moved to client c.
LEMMA TakeMoves ==
  ASSUME NEW s \in Seq(Buffers), NEW h \in Seq(Buffers), NEW k \in 0 .. Len(s)
  PROVE  LET rest == SubSeq(s, 1, Len(s) - k)
             got == h \o [i \in 1 .. k |-> s[Len(s) - i + 1]]
         IN  /\ DOMAIN rest = 1 .. Len(s) - k
             /\ \A i \in 1 .. Len(s) - k : rest[i] = s[i]
             /\ DOMAIN got = 1 .. Len(h) + k
             /\ \A j \in 1 .. Len(h) : got[j] = h[j]
             /\ \A j \in Len(h) + 1 .. Len(h) + k : got[j] = s[Len(s) - (j - Len(h)) + 1]
<1> DEFINE top == [i \in 1 .. k |-> s[Len(s) - i + 1]]
<1>1. Len(s) \in Nat /\ Len(h) \in Nat /\ k \in Nat
  OBVIOUS
<1>2. \A i \in 1 .. k : Len(s) - i + 1 \in 1 .. Len(s)
  BY <1>1
<1>3. top \in [1 .. k -> Buffers]
  BY <1>1, <1>2
<1>4. top \in Seq(Buffers) /\ Len(top) = k
  BY <1>1, <1>3
<1>5. \A i \in 1 .. k : top[i] = s[Len(s) - i + 1]
  OBVIOUS
<1> HIDE DEF top
<1>6. /\ DOMAIN (h \o top) = 1 .. Len(h) + k
      /\ \A j \in 1 .. Len(h) : (h \o top)[j] = h[j]
      /\ \A j \in Len(h) + 1 .. Len(h) + k : (h \o top)[j] = top[j - Len(h)]
  BY <1>1, <1>4
<1>7. \A j \in Len(h) + 1 .. Len(h) + k : j - Len(h) \in 1 .. k
  BY <1>1
<1>8. \A j \in Len(h) + 1 .. Len(h) + k : (h \o top)[j] = s[Len(s) - (j - Len(h)) + 1]
  BY <1>5, <1>6, <1>7
<1>9. /\ DOMAIN SubSeq(s, 1, Len(s) - k) = 1 .. Len(s) - k
      /\ \A i \in 1 .. Len(s) - k : SubSeq(s, 1, Len(s) - k)[i] = s[i]
  BY <1>1
<1>10. QED
  BY <1>6, <1>8, <1>9 DEF top

\* Taking ids from the stack gives no id two owners.
LEMMA TakeOwner ==
  ASSUME TypeOK, SingleOwner, NEW c \in Clients, NEW k \in 0 .. Len(ids),
         ids' = Popped(k), held' = [held EXCEPT ![c] = @ \o TopIds(k)]
  PROVE  SingleOwner'
<1> DEFINE L == Len(ids)
           N == Len(held[c])
<1>1. ids \in Seq(Buffers) /\ held \in [Clients -> Seq(Buffers)] /\ held[c] \in Seq(Buffers)
  BY DEF TypeOK
<1>2. L \in Nat /\ N \in Nat /\ k \in Nat /\ k <= L
  BY <1>1
<1>3. held'[c] = held[c] \o TopIds(k) /\ \A d \in Clients \ {c} : held'[d] = held[d]
  BY <1>1
<1>4. /\ DOMAIN ids' = 1 .. L - k
      /\ \A i \in 1 .. L - k : ids'[i] = ids[i]
      /\ DOMAIN held'[c] = 1 .. N + k
      /\ \A j \in 1 .. N : held'[c][j] = held[c][j]
      /\ \A j \in N + 1 .. N + k : held'[c][j] = ids[L - (j - N) + 1]
  BY <1>1, <1>3, TakeMoves DEF Popped, TopIds
<1>5. DOMAIN ids = 1 .. L /\ DOMAIN held[c] = 1 .. N
  BY <1>1
<1> HIDE DEF L, N
<1>6. ASSUME NEW j \in DOMAIN held'[c]
      PROVE  \/ j \in DOMAIN held[c] /\ held'[c][j] = held[c][j]
             \/ /\ j \in N + 1 .. N + k
                /\ L - (j - N) + 1 \in DOMAIN ids
                /\ L - (j - N) + 1 > L - k
                /\ held'[c][j] = ids[L - (j - N) + 1]
  <2>1. j \in 1 .. N \/ j \in N + 1 .. N + k
    BY <1>2, <1>4
  <2>2. CASE j \in 1 .. N
    BY <2>2, <1>4, <1>5
  <2>3. CASE j \in N + 1 .. N + k
    <3>1. L - (j - N) + 1 \in 1 .. L /\ L - (j - N) + 1 > L - k
      BY <2>3, <1>2
    <3>2. QED
      BY <2>3, <3>1, <1>4, <1>5
  <2>4. QED
    BY <2>1, <2>2, <2>3
<1>7. \A i \in DOMAIN ids' : i \in DOMAIN ids /\ ids'[i] = ids[i] /\ i <= L - k
  BY <1>2, <1>4, <1>5
<1>8. \A i, j \in DOMAIN ids' : ids'[i] = ids'[j] => i = j
  BY <1>7 DEF SingleOwner
<1>9. ASSUME NEW d \in Clients, NEW i \in DOMAIN held'[d], NEW j \in DOMAIN held'[d],
             held'[d][i] = held'[d][j]
      PROVE  i = j
  <2>1. CASE d # c
    <3>1. held'[d] = held[d]
      BY <2>1, <1>3
    <3>2. QED
      BY <3>1, <1>9 DEF SingleOwner
  <2>2. CASE d = c
    <3>1. i \in DOMAIN held[c] /\ held'[c][i] = held[c][i] /\ j \in DOMAIN held[c]
          /\ held'[c][j] = held[c][j] => i = j
      BY <1>9, <2>2 DEF SingleOwner
    <3>2. \A x \in DOMAIN ids, y \in DOMAIN held[c] : ids[x] # held[c][y]
      BY DEF SingleOwner
    <3>3. \A x, y \in DOMAIN ids : ids[x] = ids[y] => x = y
      BY DEF SingleOwner
    <3>4. i \in N + 1 .. N + k /\ j \in N + 1 .. N + k
          /\ L - (i - N) + 1 = L - (j - N) + 1 => i = j
      BY <1>2
    <3>5. QED
      BY <1>6, <1>9, <2>2, <3>1, <3>2, <3>3, <3>4
  <2>3. QED
    BY <2>1, <2>2
<1>10. ASSUME NEW d \in Clients, NEW i \in DOMAIN ids', NEW j \in DOMAIN held'[d]
       PROVE  ids'[i] # held'[d][j]
  <2>1. CASE d # c
    <3>1. held'[d] = held[d]
      BY <2>1, <1>3
    <3>2. \A x \in DOMAIN ids, y \in DOMAIN held[d] : ids[x] # held[d][y]
      BY DEF SingleOwner
    <3>3. i \in DOMAIN ids /\ ids'[i] = ids[i]
      BY <1>7
    <3>4. j \in DOMAIN held[d]
      BY <3>1, Zenon
    <3>5. ids[i] # held[d][j]
      BY <3>2, <3>3, <3>4
    <3>6. QED
      BY <3>1, <3>3, <3>5, Zenon
  <2>2. CASE d = c
    <3>1. i \in DOMAIN ids /\ ids'[i] = ids[i] /\ i <= L - k /\ i \in 1 .. L - k
      BY <1>7, <1>4
    <3>2. CASE j \in DOMAIN held[c] /\ held'[c][j] = held[c][j]
      BY <2>2, <3>1, <3>2 DEF SingleOwner
    <3>3. CASE /\ j \in N + 1 .. N + k
               /\ L - (j - N) + 1 \in DOMAIN ids
               /\ L - (j - N) + 1 > L - k
               /\ held'[c][j] = ids[L - (j - N) + 1]
      <4>1. i # L - (j - N) + 1
        BY <3>1, <3>3, <1>2
      <4>2. QED
        BY <4>1, <3>1, <3>3, <2>2 DEF SingleOwner
    <3>4. QED
      BY <1>6, <2>2, <3>2, <3>3
  <2>3. QED
    BY <2>1, <2>2
<1>11. ASSUME NEW d \in Clients \ {c}, NEW i \in DOMAIN held'[c], NEW j \in DOMAIN held'[d]
       PROVE  held'[c][i] # held'[d][j]
  <2>1. held'[d] = held[d]
    BY <1>3
  <2>2. QED
    BY <2>1, <1>6, <1>11 DEF SingleOwner
<1>12. ASSUME NEW d \in Clients, NEW e \in Clients, d # e,
              NEW i \in DOMAIN held'[d], NEW j \in DOMAIN held'[e]
       PROVE  held'[d][i] # held'[e][j]
  <2>1. CASE d = c
    BY <2>1, <1>12, <1>11
  <2>2. CASE e = c
    BY <2>2, <1>12, <1>11
  <2>3. CASE d # c /\ e # c
    <3>1. held'[d] = held[d] /\ held'[e] = held[e]
      BY <2>3, <1>3
    <3>2. \A x \in DOMAIN held[d], y \in DOMAIN held[e] : held[d][x] # held[e][y]
      BY <1>12 DEF SingleOwner
    <3>3. i \in DOMAIN held[d] /\ j \in DOMAIN held[e]
      BY <3>1, Zenon
    <3>4. QED
      BY <3>1, <3>2, <3>3, Zenon
  <2>4. QED
    BY <2>1, <2>2, <2>3
<1>13. QED
  BY <1>8, <1>9, <1>10, <1>12 DEF SingleOwner

\* Ids go back from client c: f and g say where among the ids of c the ids that
\* join the stack, and those that c keeps, come from.
Returned(c, f, g) ==
  /\ \A x \in DOMAIN ids' :
       \/ x \in DOMAIN ids /\ ids'[x] = ids[x]
       \/ x \notin DOMAIN ids /\ f[x] \in DOMAIN held[c] /\ ids'[x] = held[c][f[x]]
  /\ \A x, y \in DOMAIN ids' : x \notin DOMAIN ids /\ y \notin DOMAIN ids /\ f[x] = f[y] => x = y
  /\ \A x \in DOMAIN held'[c] : g[x] \in DOMAIN held[c] /\ held'[c][x] = held[c][g[x]]
  /\ \A x, y \in DOMAIN held'[c] : g[x] = g[y] => x = y
  /\ \A x \in DOMAIN ids', y \in DOMAIN held'[c] : x \notin DOMAIN ids => f[x] # g[y]
  /\ \A d \in Clients \ {c} : held'[d] = held[d]

\* Giving ids back gives no id two owners.
LEMMA ReturnOwner ==
  ASSUME SingleOwner, NEW c \in Clients, NEW f, NEW g, Returned(c, f, g)
  PROVE  SingleOwner'
<1>1. \A x, y \in DOMAIN ids : ids[x] = ids[y] => x = y
  BY DEF SingleOwner
<1>2. \A x, y \in DOMAIN held[c] : held[c][x] = held[c][y] => x = y
  BY DEF SingleOwner
<1>3. \A d \in Clients : \A x \in DOMAIN ids, y \in DOMAIN held[d] : ids[x] # held[d][y]
  BY DEF SingleOwner
<1>4. \A d \in Clients \ {c} :
        \A x \in DOMAIN held[c], y \in DOMAIN held[d] : held[c][x] # held[d][y]
  BY DEF SingleOwner
<1>5. ASSUME NEW x \in DOMAIN ids', NEW y \in DOMAIN ids', ids'[x] = ids'[y]
      PROVE  x = y
  BY <1>1, <1>2, <1>3, <1>5 DEF Returned
<1>6. ASSUME NEW d \in Clients, NEW x \in DOMAIN held'[d], NEW y \in DOMAIN held'[d],
             held'[d][x] = held'[d][y]
      PROVE  x = y
  <2>1. CASE d = c
    BY <2>1, <1>2, <1>6 DEF Returned
  <2>2. CASE d # c
    <3>1. held'[d] = held[d]
      BY <2>2 DEF Returned
    <3>2. \A u, v \in DOMAIN held[d] : held[d][u] = held[d][v] => u = v
      BY DEF SingleOwner
    <3>3. QED
      BY <3>1, <3>2, <1>6, Zenon
  <2>3. QED
    BY <2>1, <2>2
<1>7. ASSUME NEW d \in Clients, NEW x \in DOMAIN ids', NEW y \in DOMAIN held'[d]
      PROVE  ids'[x] # held'[d][y]
  <2>1. CASE d = c
    BY <2>1, <1>2, <1>3 DEF Returned
  <2>2. CASE d # c
    <3>1. held'[d] = held[d]
      BY <2>2 DEF Returned
    <3>2. y \in DOMAIN held[d]
      BY <3>1, Zenon
    <3>3. QED
      BY <2>2, <3>1, <3>2, <1>3, <1>4 DEF Returned
  <2>3. QED
    BY <2>1, <2>2
<1>8. ASSUME NEW d \in Clients \ {c}, NEW x \in DOMAIN held'[c], NEW y \in DOMAIN held'[d]
      PROVE  held'[c][x] # held'[d][y]
  <2>1. held'[d] = held[d]
    BY DEF Returned
  <2>2. y \in DOMAIN held[d]
    BY <2>1, Zenon
  <2>3. QED
    BY <2>1, <2>2, <1>4 DEF Returned
<1>9. ASSUME NEW d \in Clients, NEW e \in Clients, d # e,
             NEW x \in DOMAIN held'[d], NEW y \in DOMAIN held'[e]
      PROVE  held'[d][x] # held'[e][y]
  <2>1. CASE d = c
    BY <2>1, <1>9, <1>8
  <2>2. CASE e = c
    BY <2>2, <1>9, <1>8
  <2>3. CASE d # c /\ e # c
    <3>1. held'[d] = held[d] /\ held'[e] = held[e]
      BY <2>3 DEF Returned
    <3>2. \A u \in DOMAIN held[d], v \in DOMAIN held[e] : held[d][u] # held[e][v]
      BY <1>9 DEF SingleOwner
    <3>3. x \in DOMAIN held[d] /\ y \in DOMAIN held[e]
      BY <3>1, Zenon
    <3>4. held[d][x] # held[e][y]
      BY <3>2, <3>3
    <3>5. QED
      BY <3>1, <3>4, Zenon
  <2>4. QED
    BY <2>1, <2>2, <2>3
<1>10. QED
  BY <1>5, <1>6, <1>7, <1>9 DEF SingleOwner

\* Where the elements of a concatenation come from.
LEMMA JoinedIs ==
  ASSUME NEW S, NEW a \in Seq(S), NEW b \in Seq(S)
  PROVE  /\ DOMAIN (a \o b) = 1 .. Len(a) + Len(b)
         /\ \A x \in 1 .. Len(a) + Len(b) :
              (a \o b)[x] = IF x <= Len(a) THEN a[x] ELSE b[x - Len(a)]
  OBVIOUS

\* What is left of a sequence without its element i.
LEMMA WithoutIs ==
  ASSUME NEW S, NEW s \in Seq(S), NEW i \in 1 .. Len(s)
  PROVE  LET r == SubSeq(s, 1, i - 1) \o SubSeq(s, i + 1, Len(s))
         IN  /\ DOMAIN r = 1 .. Len(s) - 1
             /\ \A x \in 1 .. Len(s) - 1 : r[x] = IF x < i THEN s[x] ELSE s[x + 1]
<1>1. Len(s) \in Nat /\ i \in Nat
  OBVIOUS
<1> DEFINE a == SubSeq(s, 1, i - 1)
           b == SubSeq(s, i + 1, Len(s))
<1>2. a \in Seq(S) /\ Len(a) = i - 1 /\ \A x \in 1 .. i - 1 : a[x] = s[x]
  BY <1>1
<1>3. b \in Seq(S) /\ Len(b) = Len(s) - i /\ \A x \in 1 .. Len(s) - i : b[x] = s[i + x]
  BY <1>1
<1> HIDE DEF a, b
<1>4. /\ DOMAIN (a \o b) = 1 .. Len(a) + Len(b)
      /\ \A x \in 1 .. Len(a) + Len(b) :
           (a \o b)[x] = IF x <= Len(a) THEN a[x] ELSE b[x - Len(a)]
  BY <1>2, <1>3, JoinedIs
<1>5. Len(a) + Len(b) = Len(s) - 1
  BY <1>1, <1>2, <1>3
<1>6. ASSUME NEW x \in 1 .. Len(s) - 1
      PROVE  (a \o b)[x] = IF x < i THEN s[x] ELSE s[x + 1]
  <2>1. CASE x < i
    <3>1. x <= Len(a) /\ x \in 1 .. i - 1
      BY <2>1, <1>1, <1>2
    <3>2. QED
      BY <2>1, <3>1, <1>2, <1>4, <1>5
  <2>2. CASE ~(x < i)
    <3>1. ~(x <= Len(a)) /\ x - Len(a) \in 1 .. Len(s) - i /\ i + (x - Len(a)) = x + 1
      BY <2>2, <1>1, <1>2
    <3>2. QED
      BY <2>2, <3>1, <1>3, <1>4, <1>5
  <2>3. QED
    BY <2>1, <2>2
<1>7. QED
  BY <1>4, <1>5, <1>6 DEF a, b

LEMMA ReleaseOwner ==
  ASSUME TypeOK, SingleOwner, NEW c \in Clients, NEW i \in 1 .. Len(held[c]), Release(c, i)
  PROVE  SingleOwner'
<1> DEFINE L == Len(ids)
           N == Len(held[c])
           f == [x \in {L + 1} |-> i]
           g == [x \in 1 .. N - 1 |-> IF x < i THEN x ELSE x + 1]
<1>1. ids \in Seq(Buffers) /\ held \in [Clients -> Seq(Buffers)] /\ held[c] \in Seq(Buffers)
  BY DEF TypeOK
<1>2. /\ ids' = Append(ids, held[c][i])
      /\ held' = [held EXCEPT ![c] = SubSeq(held[c], 1, i - 1) \o SubSeq(held[c], i + 1, Len(held[c]))]
  BY DEF Release
<1>3. L \in Nat /\ N \in Nat /\ i \in 1 .. N
  BY <1>1
<1>4. DOMAIN ids = 1 .. L /\ DOMAIN held[c] = 1 .. N
  BY <1>1
<1>5. held[c][i] \in Buffers
  BY <1>1, SeqElement
<1>6. DOMAIN ids' = 1 .. L + 1 /\ ids'[L + 1] = held[c][i] /\ \A x \in 1 .. L : ids'[x] = ids[x]
  BY <1>1, <1>2, <1>5
<1>7. /\ held'[c] = SubSeq(held[c], 1, i - 1) \o SubSeq(held[c], i + 1, Len(held[c]))
      /\ \A d \in Clients \ {c} : held'[d] = held[d]
  BY <1>1, <1>2
<1>8. /\ DOMAIN held'[c] = 1 .. N - 1
      /\ \A x \in 1 .. N - 1 : held'[c][x] = IF x < i THEN held[c][x] ELSE held[c][x + 1]
  BY <1>1, <1>7, WithoutIs
<1> HIDE DEF L, N
<1>9. \A x \in 1 .. L + 1 : x \notin 1 .. L => x = L + 1
  BY <1>3
<1>10. \A x \in DOMAIN ids' : \/ x \in DOMAIN ids /\ ids'[x] = ids[x]
                              \/ x \notin DOMAIN ids /\ f[x] \in DOMAIN held[c] /\ ids'[x] = held[c][f[x]]
  BY <1>3, <1>4, <1>6, <1>9
<1>11. \A x, y \in DOMAIN ids' : x \notin DOMAIN ids /\ y \notin DOMAIN ids /\ f[x] = f[y] => x = y
  BY <1>4, <1>6, <1>9
<1>12. ASSUME NEW x \in 1 .. N - 1
       PROVE  g[x] \in 1 .. N /\ g[x] # i /\ held'[c][x] = held[c][g[x]]
  <2>1. CASE x < i
    BY <2>1, <1>3, <1>8
  <2>2. CASE ~(x < i)
    BY <2>2, <1>3, <1>8
  <2>3. QED
    BY <2>1, <2>2
<1>13. \A x \in DOMAIN held'[c] : g[x] \in DOMAIN held[c] /\ held'[c][x] = held[c][g[x]]
  BY <1>4, <1>8, <1>12
<1>14. \A x, y \in 1 .. N - 1 : g[x] = g[y] => x = y
  BY <1>3
<1>15. \A x \in DOMAIN ids', y \in DOMAIN held'[c] : x \notin DOMAIN ids => f[x] # g[y]
  BY <1>4, <1>6, <1>8, <1>9, <1>12
<1> HIDE DEF f, g
<1>16. \A x, y \in DOMAIN held'[c] : g[x] = g[y] => x = y
  BY <1>8, <1>14, Zenon
<1>17. \A d \in Clients \ {c} : held'[d] = held[d]
  BY <1>7
<1>18. Returned(c, f, g)
  BY <1>10, <1>11, <1>13, <1>15, <1>16, <1>17, Zenon DEF Returned
<1>19. QED
  BY <1>18, ReturnOwner

LEMMA ReleaseArrayOwner ==
  ASSUME TypeOK, SingleOwner, NEW c \in Clients, ReleaseArray(c)
  PROVE  SingleOwner'
<1> DEFINE L == Len(ids)
           N == Len(held[c])
           f == [x \in L + 1 .. L + N |-> x - L]
           g == [x \in {} |-> x]
<1>1. ids \in Seq(Buffers) /\ held \in [Clients -> Seq(Buffers)] /\ held[c] \in Seq(Buffers)
  BY DEF TypeOK
<1>2. ids' = ids \o held[c] /\ held' = [held EXCEPT ![c] = <<>>]
  BY DEF ReleaseArray
<1>3. L \in Nat /\ N \in Nat
  BY <1>1
<1>4. DOMAIN ids = 1 .. L /\ DOMAIN held[c] = 1 .. N
  BY <1>1
<1>5. /\ DOMAIN ids' = 1 .. L + N
      /\ \A x \in 1 .. L : ids'[x] = ids[x]
      /\ \A x \in L + 1 .. L + N : ids'[x] = held[c][x - L]
  BY <1>1, <1>2
<1>6. held'[c] = <<>> /\ \A d \in Clients \ {c} : held'[d] = held[d]
  BY <1>1, <1>2
<1>7. DOMAIN held'[c] = {}
  BY <1>6
<1> HIDE DEF L, N
<1>8. \A x \in 1 .. L + N : x \notin 1 .. L => x \in L + 1 .. L + N /\ x - L \in 1 .. N
  BY <1>3
<1>9. \A x \in DOMAIN ids' : \/ x \in DOMAIN ids /\ ids'[x] = ids[x]
                             \/ x \notin DOMAIN ids /\ f[x] \in DOMAIN held[c] /\ ids'[x] = held[c][f[x]]
  BY <1>4, <1>5, <1>8
<1>10. \A x, y \in DOMAIN ids' : x \notin DOMAIN ids /\ y \notin DOMAIN ids /\ f[x] = f[y] => x = y
  <2>1. \A x, y \in L + 1 .. L + N : x - L = y - L => x = y
    BY <1>3
  <2>2. QED
    BY <2>1, <1>4, <1>5, <1>8
<1> HIDE DEF f, g
<1>11. Returned(c, f, g)
  BY <1>6, <1>7, <1>9, <1>10 DEF Returned
<1>12. QED
  BY <1>11, ReturnOwner

LEMMA OwnerInit == Init => SingleOwner
<1> SUFFICES ASSUME Init PROVE SingleOwner
  OBVIOUS
<1>1. DOMAIN ids = 1 .. Capacity /\ \A i \in 1 .. Capacity : ids[i] = i - 1
  BY DEF Init, Created
<1>2. \A i, j \in 1 .. Capacity : i - 1 = j - 1 => i = j
  BY CapacityAssumption
<1>3. \A c \in Clients : DOMAIN held[c] = {}
  BY DEF Init
<1>4. QED
  BY <1>1, <1>2, <1>3 DEF SingleOwner

LEMMA LoopOwner ==
  ASSUME TypeOK, SingleOwner, NEW c \in Clients, NEW n \in Nat, Loop(c, n)
  PROVE  SingleOwner'
<1> DEFINE k == Fewest(n, Len(ids))
<1>1. Len(ids) \in Nat
  BY DEF TypeOK
<1>2. k \in 0 .. Len(ids)
  BY <1>1, FewestIs
<1>3. ids' = Popped(k) /\ held' = [held EXCEPT ![c] = @ \o TopIds(k)]
  BY DEF Loop
<1> HIDE DEF k
<1>4. QED
  BY <1>2, <1>3, TakeOwner

LEMMA ResumeAllocateOwner ==
  ASSUME TypeOK, SingleOwner, NEW c \in Clients, ResumeAllocate(c)
  PROVE  SingleOwner'
<1>1. CASE ids = <<>>
  <2>1. ids' = ids /\ held' = held
    BY <1>1 DEF ResumeAllocate
  <2>2. QED
    BY <2>1 DEF SingleOwner
<1>2. CASE ids # <<>>
  <2>1. ids' = Popped(1) /\ held' = [held EXCEPT ![c] = @ \o TopIds(1)]
    BY <1>2 DEF ResumeAllocate
  <2>2. ids \in Seq(Buffers)
    BY DEF TypeOK
  <2>3. 1 \in 0 .. Len(ids)
    BY <1>2, <2>2, SeqElement
  <2>4. QED
    BY <2>1, <2>3, TakeOwner
<1>3. QED
  BY <1>1, <1>2

LEMMA OwnerNext == TypeOK /\ SingleOwner /\ [Next]_vars => SingleOwner'
<1> SUFFICES ASSUME TypeOK, SingleOwner, [Next]_vars PROVE SingleOwner'
  OBVIOUS
<1>1. CASE UNCHANGED vars
  BY <1>1 DEF vars, SingleOwner
<1>2. ASSUME NEW c \in Clients, NEW n \in 1 .. MaxCount, AllocateArray(c, n)
      PROVE  SingleOwner'
  <2>1. n \in Nat /\ Loop(c, n)
    BY <1>2, MaxCountAssumption DEF AllocateArray
  <2>2. QED
    BY <2>1, LoopOwner
<1>3. ASSUME NEW c \in Clients, ResumeArray(c) PROVE SingleOwner'
  <2>1. want[c] \in Nat /\ Loop(c, want[c])
    BY <1>3 DEF TypeOK, ResumeArray
  <2>2. QED
    BY <2>1, LoopOwner
<1>4. CASE Next
  BY <1>2, <1>3, <1>4, ResumeAllocateOwner, ReleaseOwner, ReleaseArrayOwner DEF Next
<1>5. QED
  BY <1>1, <1>4

\* However get(), allocate(), allocateArray() and the two releases interleave, no
\* buffer is handed to two callers and none is on the free stack while in use.
THEOREM BuffersOwned == Spec => []SingleOwner
<1>1. PoolInv => TypeOK
  BY DEF PoolInv
<1>2. PoolInv /\ SingleOwner /\ [Next]_vars => SingleOwner'
  BY <1>1, OwnerNext
<1>3. QED
  BY <1>2, PoolInit, PoolNext, OwnerInit, PTL DEF Spec
-----------------------------------------------------------------------------
(* Nothing is lost. *)

\* The id b is in the sequence q.
On(q, b) == \E i \in DOMAIN q : q[i] = b

LEMMA JoinedOn ==
  ASSUME NEW S, NEW q \in Seq(S), NEW r \in Seq(S), NEW b, On(q, b) \/ On(r, b)
  PROVE  On(q \o r, b)
<1>1. Len(q) \in Nat /\ Len(r) \in Nat /\ DOMAIN q = 1 .. Len(q) /\ DOMAIN r = 1 .. Len(r)
  OBVIOUS
<1>2. /\ DOMAIN (q \o r) = 1 .. Len(q) + Len(r)
      /\ \A x \in 1 .. Len(q) + Len(r) :
           (q \o r)[x] = IF x <= Len(q) THEN q[x] ELSE r[x - Len(q)]
  BY JoinedIs
<1>3. ASSUME NEW i \in 1 .. Len(q), q[i] = b PROVE On(q \o r, b)
  <2>1. i \in 1 .. Len(q) + Len(r) /\ i <= Len(q)
    BY <1>1
  <2>2. QED
    BY <1>2, <1>3, <2>1 DEF On
<1>4. ASSUME NEW i \in 1 .. Len(r), r[i] = b PROVE On(q \o r, b)
  <2>1. /\ Len(q) + i \in 1 .. Len(q) + Len(r) /\ ~(Len(q) + i <= Len(q))
        /\ Len(q) + i - Len(q) = i
    BY <1>1
  <2>2. (q \o r)[Len(q) + i] = b
    BY <1>2, <1>4, <2>1
  <2>3. QED
    BY <1>2, <2>1, <2>2 DEF On
<1>5. QED
  BY <1>1, <1>3, <1>4 DEF On

\* An id of the stack stays there or is among those that get() takes.
LEMMA TakenOn ==
  ASSUME ids \in Seq(Buffers), NEW k \in 0 .. Len(ids), NEW b, On(ids, b)
  PROVE  On(Popped(k), b) \/ On(TopIds(k), b)
<1>1. Len(ids) \in Nat /\ k \in Nat /\ DOMAIN ids = 1 .. Len(ids)
  OBVIOUS
<1>2. PICK i \in 1 .. Len(ids) : ids[i] = b
  BY <1>1 DEF On
<1>3. CASE i <= Len(ids) - k
  <2>1. i \in 1 .. Len(ids) - k
    BY <1>1, <1>3
  <2>2. DOMAIN Popped(k) = 1 .. Len(ids) - k /\ \A x \in 1 .. Len(ids) - k : Popped(k)[x] = ids[x]
    BY <1>1 DEF Popped
  <2>3. QED
    BY <1>2, <2>1, <2>2 DEF On
<1>4. CASE ~(i <= Len(ids) - k)
  <2>1. Len(ids) - i + 1 \in 1 .. k /\ Len(ids) - (Len(ids) - i + 1) + 1 = i
    BY <1>1, <1>4
  <2>2. DOMAIN TopIds(k) = 1 .. k /\ TopIds(k)[Len(ids) - i + 1] = b
    BY <1>2, <2>1 DEF TopIds
  <2>3. QED
    BY <2>1, <2>2 DEF On
<1>5. QED
  BY <1>3, <1>4

\* An id that c holds is returned or kept.
LEMMA WithoutOn ==
  ASSUME NEW S, NEW q \in Seq(S), NEW i \in 1 .. Len(q), NEW b, On(q, b)
  PROVE  b = q[i] \/ On(SubSeq(q, 1, i - 1) \o SubSeq(q, i + 1, Len(q)), b)
<1> DEFINE r == SubSeq(q, 1, i - 1) \o SubSeq(q, i + 1, Len(q))
<1>1. Len(q) \in Nat /\ i \in Nat /\ DOMAIN q = 1 .. Len(q)
  OBVIOUS
<1>2. /\ DOMAIN r = 1 .. Len(q) - 1
      /\ \A x \in 1 .. Len(q) - 1 : r[x] = IF x < i THEN q[x] ELSE q[x + 1]
  BY WithoutIs
<1> HIDE DEF r
<1>3. PICK j \in 1 .. Len(q) : q[j] = b
  BY <1>1 DEF On
<1>4. CASE j < i
  <2>1. j \in 1 .. Len(q) - 1
    BY <1>1, <1>4
  <2>2. QED
    BY <1>2, <1>3, <1>4, <2>1 DEF On, r
<1>5. CASE j > i
  <2>1. j - 1 \in 1 .. Len(q) - 1 /\ ~(j - 1 < i) /\ j - 1 + 1 = j
    BY <1>1, <1>5
  <2>2. r[j - 1] = b
    BY <1>2, <1>3, <2>1
  <2>3. QED
    BY <1>2, <2>1, <2>2 DEF On, r
<1>6. CASE j = i
  BY <1>3, <1>6
<1>7. QED
  BY <1>1, <1>4, <1>5, <1>6

\* Ids that leave the stack are in the client's hands.
LEMMA TakeLosesNone ==
  ASSUME TypeOK, NoneLost, NEW c \in Clients, NEW k \in 0 .. Len(ids),
         ids' = Popped(k), held' = [held EXCEPT ![c] = @ \o TopIds(k)]
  PROVE  NoneLost'
<1>1. ids \in Seq(Buffers) /\ held \in [Clients -> Seq(Buffers)] /\ held[c] \in Seq(Buffers)
  BY DEF TypeOK
<1>2. TopIds(k) \in Seq(Buffers)
  BY <1>1, TakeTypes
<1>3. held'[c] = held[c] \o TopIds(k) /\ \A d \in Clients \ {c} : held'[d] = held[d]
  BY <1>1
<1>4. ASSUME NEW b \in Buffers PROVE On(ids', b) \/ \E d \in Clients : On(held'[d], b)
  <2>1. On(ids, b) \/ \E d \in Clients : On(held[d], b)
    BY DEF NoneLost, On
  <2>2. CASE On(ids, b)
    <3>1. On(Popped(k), b) \/ On(TopIds(k), b)
      BY <1>1, <2>2, TakenOn
    <3>2. On(TopIds(k), b) => On(held'[c], b)
      BY <1>1, <1>2, <1>3, JoinedOn
    <3>3. QED
      BY <3>1, <3>2
  <2>3. ASSUME NEW d \in Clients, On(held[d], b) PROVE On(held'[d], b)
    <3>1. CASE d = c
      BY <1>1, <1>2, <1>3, <2>3, <3>1, JoinedOn
    <3>2. CASE d # c
      BY <1>3, <2>3, <3>2
    <3>3. QED
      BY <3>1, <3>2
  <2>4. QED
    BY <2>1, <2>2, <2>3
<1>5. QED
  BY <1>4 DEF NoneLost, On

LEMMA ReleaseLosesNone ==
  ASSUME TypeOK, NoneLost, NEW c \in Clients, NEW i \in 1 .. Len(held[c]), Release(c, i)
  PROVE  NoneLost'
<1>1. ids \in Seq(Buffers) /\ held \in [Clients -> Seq(Buffers)] /\ held[c] \in Seq(Buffers)
  BY DEF TypeOK
<1>2. /\ ids' = Append(ids, held[c][i])
      /\ held' = [held EXCEPT ![c] = SubSeq(held[c], 1, i - 1) \o SubSeq(held[c], i + 1, Len(held[c]))]
  BY DEF Release
<1>3. /\ held'[c] = SubSeq(held[c], 1, i - 1) \o SubSeq(held[c], i + 1, Len(held[c]))
      /\ \A d \in Clients \ {c} : held'[d] = held[d]
  BY <1>1, <1>2
<1>4. held[c][i] \in Buffers
  BY <1>1, SeqElement
<1>5. /\ Len(ids) \in Nat /\ DOMAIN ids = 1 .. Len(ids) /\ DOMAIN ids' = 1 .. Len(ids) + 1
      /\ ids'[Len(ids) + 1] = held[c][i] /\ \A x \in 1 .. Len(ids) : ids'[x] = ids[x]
  BY <1>1, <1>2, <1>4
<1>6. /\ Len(ids) + 1 \in DOMAIN ids'
      /\ \A x \in DOMAIN ids : x \in DOMAIN ids' /\ ids'[x] = ids[x]
  BY <1>5
<1>7. ASSUME NEW b \in Buffers PROVE On(ids', b) \/ \E d \in Clients : On(held'[d], b)
  <2>1. On(ids, b) \/ \E d \in Clients : On(held[d], b)
    BY DEF NoneLost, On
  <2>2. On(ids, b) => On(ids', b)
    BY <1>6 DEF On
  <2>3. On(held[c], b) => b = held[c][i] \/ On(held'[c], b)
    BY <1>1, <1>3, WithoutOn
  <2>4. b = held[c][i] => On(ids', b)
    BY <1>5, <1>6 DEF On
  <2>5. QED
    BY <1>3, <2>1, <2>2, <2>3, <2>4
<1>8. QED
  BY <1>7 DEF NoneLost, On

LEMMA ReleaseArrayLosesNone ==
  ASSUME TypeOK, NoneLost, NEW c \in Clients, ReleaseArray(c)
  PROVE  NoneLost'
<1>1. ids \in Seq(Buffers) /\ held \in [Clients -> Seq(Buffers)] /\ held[c] \in Seq(Buffers)
  BY DEF TypeOK
<1>2. ids' = ids \o held[c] /\ held' = [held EXCEPT ![c] = <<>>]
  BY DEF ReleaseArray
<1>3. \A d \in Clients \ {c} : held'[d] = held[d]
  BY <1>1, <1>2
<1>4. \A b : On(ids, b) \/ On(held[c], b) => On(ids', b)
  BY <1>1, <1>2, JoinedOn
<1>5. ASSUME NEW b \in Buffers PROVE On(ids', b) \/ \E d \in Clients : On(held'[d], b)
  <2>1. On(ids, b) \/ \E d \in Clients : On(held[d], b)
    BY DEF NoneLost, On
  <2>2. QED
    BY <1>3, <1>4, <2>1
<1>6. QED
  BY <1>5 DEF NoneLost, On

LEMMA LoopLosesNone ==
  ASSUME TypeOK, NoneLost, NEW c \in Clients, NEW n \in Nat, Loop(c, n)
  PROVE  NoneLost'
<1> DEFINE k == Fewest(n, Len(ids))
<1>1. Len(ids) \in Nat
  BY DEF TypeOK
<1>2. k \in 0 .. Len(ids)
  BY <1>1, FewestIs
<1>3. ids' = Popped(k) /\ held' = [held EXCEPT ![c] = @ \o TopIds(k)]
  BY DEF Loop
<1> HIDE DEF k
<1>4. QED
  BY <1>2, <1>3, TakeLosesNone

LEMMA ResumeAllocateLosesNone ==
  ASSUME TypeOK, NoneLost, NEW c \in Clients, ResumeAllocate(c)
  PROVE  NoneLost'
<1>1. CASE ids = <<>>
  <2>1. ids' = ids /\ held' = held
    BY <1>1 DEF ResumeAllocate
  <2>2. QED
    BY <2>1 DEF NoneLost
<1>2. CASE ids # <<>>
  <2>1. ids' = Popped(1) /\ held' = [held EXCEPT ![c] = @ \o TopIds(1)]
    BY <1>2 DEF ResumeAllocate
  <2>2. ids \in Seq(Buffers)
    BY DEF TypeOK
  <2>3. 1 \in 0 .. Len(ids)
    BY <1>2, <2>2, SeqElement
  <2>4. QED
    BY <2>1, <2>3, TakeLosesNone
<1>3. QED
  BY <1>1, <1>2

\* Who awaits a completer of the queue.
Queued(c) == \E i \in DOMAIN finalizers : c \in finalizers[i]

Tracked(c) ==
  /\ step[c] = "allocate" <=> (c \in woken /\ step[c] # "array") \/ Queued(c)
  /\ step[c] = "array" => c \in woken
  /\ c \in woken => ~Queued(c)

LEMMA TrackedIs == WaiterTracked <=> \A c \in Clients : Tracked(c)
  BY DEF WaiterTracked, Tracked, Queued

LEMMA AwaitedQueue ==
  ASSUME finalizers \in Seq(SUBSET Clients), Len(finalizers) <= 1, NEW c \in Clients,
         finalizers' = Awaited(c)
  PROVE  \A d \in Clients : Queued(d)' <=> Queued(d) \/ d = c
<1>1. Len(finalizers) \in Nat /\ DOMAIN finalizers = 1 .. Len(finalizers)
      /\ \A i \in 1 .. Len(finalizers) : finalizers[i] \in SUBSET Clients
  OBVIOUS
<1>2. CASE finalizers # <<>>
  <2>1. Len(finalizers) = 1
    BY <1>1, <1>2, OnlyOne
  <2>2. DOMAIN finalizers = {1}
    BY <1>1, <2>1
  <2>3. finalizers' = [finalizers EXCEPT ![1] = finalizers[1] \union {c}]
    BY <1>2, <2>1 DEF Awaited
  <2>4. DOMAIN finalizers' = {1} /\ finalizers'[1] = finalizers[1] \union {c}
    BY <2>2, <2>3
  <2>5. QED
    BY <2>2, <2>4 DEF Queued
<1>3. CASE finalizers = <<>>
  <2>1. finalizers' = <<{c}>>
    BY <1>3 DEF Awaited
  <2>2. DOMAIN finalizers' = {1} /\ finalizers'[1] = {c} /\ DOMAIN finalizers = {}
    BY <1>3, <2>1
  <2>3. QED
    BY <2>2 DEF Queued
<1>4. QED
  BY <1>2, <1>3

LEMMA FewestOf == ASSUME NEW m \in Nat, NEW n \in Nat, n <= m PROVE Fewest(m, n) = n
  BY DEF Fewest

\* A release resumes all who await a completer.
LEMMA WakeQueue ==
  ASSUME finalizers \in Seq(SUBSET Clients), Len(finalizers) <= 1, woken \in SUBSET Clients,
         NEW k \in Nat \ {0}, Wake(k)
  PROVE  \A d \in Clients : ~Queued(d)' /\ (d \in woken' <=> d \in woken \/ Queued(d))
<1>1. Len(finalizers) \in Nat /\ DOMAIN finalizers = 1 .. Len(finalizers)
  OBVIOUS
<1>2. finalizers' = <<>>
  BY WakeIs
<1>3. Fewest(k, Len(finalizers)) = Len(finalizers)
  <2>1. Len(finalizers) <= k
    BY <1>1
  <2>2. k \in Nat /\ Len(finalizers) \in Nat
    BY <1>1
  <2>3. QED
    BY <2>1, <2>2, FewestOf
<1>4. Completed(k) = DOMAIN finalizers
  BY <1>1, <1>3 DEF Completed
<1>5. woken' = woken \union UNION {finalizers[i] : i \in DOMAIN finalizers}
  BY <1>4 DEF Wake
<1>6. DOMAIN finalizers' = {}
  BY <1>2
<1>7. QED
  BY <1>5, <1>6 DEF Queued

\* The loop of allocateArray leaves the client idle, or waiting in the queue.
LEMMA LoopTracks ==
  ASSUME PoolInv, WaiterTracked, NEW c \in Clients, NEW n \in Nat, Loop(c, n),
         ~Queued(c), woken' = woken \ {c}
  PROVE  WaiterTracked'
<1>1. /\ finalizers \in Seq(SUBSET Clients) /\ Len(finalizers) <= 1 /\ step \in [Clients -> Steps]
  BY DEF PoolInv, TypeOK, NoLostWaiter
<1>2. /\ step'[c] \in {"idle", "allocate"}
      /\ \A d \in Clients \ {c} : step'[d] = step[d]
      /\ step'[c] = "idle" => finalizers' = finalizers
      /\ step'[c] = "allocate" => finalizers' = Awaited(c)
  BY <1>1 DEF Loop
<1>3. CASE step'[c] = "idle"
  <2>1. \A d \in Clients : Queued(d)' <=> Queued(d)
    BY <1>2, <1>3 DEF Queued
  <2>2. ASSUME NEW d \in Clients PROVE Tracked(d)'
    <3>1. Tracked(d)
      BY TrackedIs
    <3>2. QED
      BY <1>2, <1>3, <2>1, <3>1 DEF Tracked
  <2>3. QED
    BY <2>2, TrackedIs DEF WaiterTracked, Tracked, Queued
<1>4. CASE step'[c] = "allocate"
  <2>1. \A d \in Clients : Queued(d)' <=> Queued(d) \/ d = c
    BY <1>1, <1>2, <1>4, AwaitedQueue
  <2>2. ASSUME NEW d \in Clients PROVE Tracked(d)'
    <3>1. Tracked(d)
      BY TrackedIs
    <3>2. QED
      BY <1>2, <1>4, <2>1, <3>1 DEF Tracked
  <2>3. QED
    BY <2>2 DEF WaiterTracked, Tracked, Queued
<1>5. QED
  BY <1>2, <1>3, <1>4

LEMMA ResumeAllocateTracks ==
  ASSUME PoolInv, WaiterTracked, NEW c \in Clients, ResumeAllocate(c)
  PROVE  WaiterTracked'
<1>1. /\ finalizers \in Seq(SUBSET Clients) /\ Len(finalizers) <= 1 /\ step \in [Clients -> Steps]
  BY DEF PoolInv, TypeOK, NoLostWaiter
<1>2. c \in woken /\ step[c] = "allocate" /\ Tracked(c)
  BY TrackedIs DEF ResumeAllocate
<1>3. CASE ids = <<>>
  <2>1. finalizers' = Awaited(c) /\ woken' = woken \ {c} /\ step' = step
    BY <1>3 DEF ResumeAllocate
  <2>2. \A d \in Clients : Queued(d)' <=> Queued(d) \/ d = c
    BY <1>1, <2>1, AwaitedQueue
  <2>3. ASSUME NEW d \in Clients PROVE Tracked(d)'
    <3>1. Tracked(d)
      BY TrackedIs
    <3>2. QED
      BY <1>2, <2>1, <2>2, <3>1 DEF Tracked
  <2>4. QED
    BY <2>3 DEF WaiterTracked, Tracked, Queued
<1>4. CASE ids # <<>>
  <2>1. /\ step'[c] = (IF want[c] = 1 THEN "idle" ELSE "array")
        /\ woken' = (IF want[c] = 1 THEN woken \ {c} ELSE woken)
        /\ \A d \in Clients \ {c} : step'[d] = step[d]
        /\ finalizers' = finalizers
    BY <1>1, <1>4 DEF ResumeAllocate
  <2>2. \A d \in Clients : Queued(d)' <=> Queued(d)
    BY <2>1 DEF Queued
  <2>3. ASSUME NEW d \in Clients PROVE Tracked(d)'
    <3>1. Tracked(d)
      BY TrackedIs
    <3>2. QED
      BY <1>2, <2>1, <2>2, <3>1 DEF Tracked
  <2>4. QED
    BY <2>3 DEF WaiterTracked, Tracked, Queued
<1>5. QED
  BY <1>3, <1>4

LEMMA WakeTracks ==
  ASSUME PoolInv, WaiterTracked, NEW k \in Nat \ {0}, Wake(k), step' = step
  PROVE  WaiterTracked'
<1>1. finalizers \in Seq(SUBSET Clients) /\ Len(finalizers) <= 1 /\ woken \in SUBSET Clients
  BY DEF PoolInv, TypeOK, NoLostWaiter
<1>2. \A d \in Clients : ~Queued(d)' /\ (d \in woken' <=> d \in woken \/ Queued(d))
  BY <1>1, WakeQueue
<1>3. ASSUME NEW d \in Clients PROVE Tracked(d)'
  <2>1. Tracked(d)
    BY TrackedIs
  <2>2. QED
    BY <1>2, <2>1 DEF Tracked
<1>4. QED
  BY <1>3 DEF WaiterTracked, Tracked, Queued

LEMMA NothingLostInit == Init => NoneLost /\ WaiterTracked
<1> SUFFICES ASSUME Init PROVE NoneLost /\ WaiterTracked
  OBVIOUS
<1>1. DOMAIN ids = 1 .. Capacity /\ \A i \in 1 .. Capacity : ids[i] = i - 1
  BY DEF Init, Created
<1>2. ASSUME NEW b \in Buffers PROVE \E i \in DOMAIN ids : ids[i] = b
  <2>1. b + 1 \in 1 .. Capacity /\ b + 1 - 1 = b
    BY CapacityAssumption DEF Buffers
  <2>2. \E j \in 1 .. Capacity : j - 1 = b
    BY <2>1, CapacityAssumption DEF Buffers
  <2>3. QED
    BY <1>1, <2>2
<1>3. NoneLost
  BY <1>2 DEF NoneLost
<1>4. WaiterTracked
  BY DEF Init, WaiterTracked
<1>5. QED
  BY <1>3, <1>4

LEMMA NothingLostNext == PoolInv /\ NothingLost /\ [Next]_vars => (NoneLost /\ WaiterTracked)'
<1> SUFFICES ASSUME PoolInv, NothingLost, [Next]_vars PROVE NoneLost' /\ WaiterTracked'
  OBVIOUS
<1>0. TypeOK /\ NoneLost /\ WaiterTracked
  BY DEF NothingLost
<1>1. CASE UNCHANGED vars
  BY <1>0, <1>1 DEF vars, NoneLost, WaiterTracked
<1>2. ASSUME NEW c \in Clients, NEW n \in 1 .. MaxCount, AllocateArray(c, n)
      PROVE  NoneLost' /\ WaiterTracked'
  <2>1. n \in Nat /\ Loop(c, n) /\ step[c] = "idle" /\ woken' = woken
    BY <1>2, MaxCountAssumption DEF AllocateArray
  <2>2. c \notin woken /\ ~Queued(c)
    BY <1>0, <2>1, TrackedIs DEF Tracked
  <2>3. woken' = woken \ {c}
    BY <2>1, <2>2
  <2>4. QED
    BY <1>0, <2>1, <2>2, <2>3, LoopLosesNone, LoopTracks
<1>3. ASSUME NEW c \in Clients, ResumeArray(c) PROVE NoneLost' /\ WaiterTracked'
  <2>1. want[c] \in Nat /\ Loop(c, want[c]) /\ c \in woken /\ woken' = woken \ {c}
    BY <1>0, <1>3 DEF TypeOK, ResumeArray
  <2>2. ~Queued(c)
    BY <1>0, <2>1, TrackedIs DEF Tracked
  <2>3. QED
    BY <1>0, <2>1, <2>2, LoopLosesNone, LoopTracks
<1>4. ASSUME NEW c \in Clients, NEW i \in 1 .. Len(held[c]), Release(c, i)
      PROVE  NoneLost' /\ WaiterTracked'
  <2>1. Wake(1) /\ step' = step /\ 1 \in Nat \ {0}
    BY <1>4 DEF Release
  <2>2. QED
    BY <1>0, <1>4, <2>1, ReleaseLosesNone, WakeTracks
<1>5. ASSUME NEW c \in Clients, ReleaseArray(c) PROVE NoneLost' /\ WaiterTracked'
  <2>1. Wake(Len(held[c])) /\ step' = step /\ held[c] # <<>> /\ held[c] \in Seq(Buffers)
    BY <1>0, <1>5 DEF ReleaseArray, TypeOK
  <2>2. Len(held[c]) \in Nat \ {0}
    BY <2>1
  <2>3. QED
    BY <1>0, <1>5, <2>1, <2>2, ReleaseArrayLosesNone, WakeTracks
<1>6. ASSUME NEW c \in Clients, ResumeAllocate(c) PROVE NoneLost' /\ WaiterTracked'
  BY <1>0, <1>6, ResumeAllocateLosesNone, ResumeAllocateTracks
<1>7. CASE Next
  BY <1>2, <1>3, <1>4, <1>5, <1>6, <1>7 DEF Next
<1>8. QED
  BY <1>1, <1>7

\* Through all awaits of allocate() and allocateArray() nothing is lost: every id is on
\* the free stack or in some caller's hands, and every caller inside of a call is
\* known to exactly one of the two places that can resume it.
THEOREM NothingIsLost == Spec => []NothingLost
<1>1. Init => PoolInv /\ NothingLost
  BY PoolInit, NothingLostInit DEF NothingLost, PoolInv
<1>2. PoolInv /\ NothingLost /\ [Next]_vars => (PoolInv /\ NothingLost)'
  BY PoolNext, NothingLostNext DEF NothingLost, PoolInv
<1>3. QED
  BY <1>1, <1>2, PTL DEF Spec
=============================================================================
