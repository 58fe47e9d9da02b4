------------------------ MODULE TransportClientProofs ------------------------
(***************************************************************************)
(* Proofs about TransportClient, for every number of calls, channels and   *)
(* buffers and every size of the ring.  What the channels do to the pool   *)
(* are steps of StaticBuffers, so that what is proved of the pool holds of *)
(* it here as well.  The inductive invariant says where the operations     *)
(* are; from it follow the safety properties and that the channels keep    *)
(* the promise of module ChannelPromise.                                   *)
(***************************************************************************)
EXTENDS TransportClient, FiniteSetTheorems, TLAPS

P == INSTANCE StaticBuffersProofs WITH Clients <- Calls

-----------------------------------------------------------------------------
(* The inductive invariant. *)

PoolPart == P!PoolInv /\ P!SingleOwner /\ P!NothingLost

\* Operations that wait for io_uring_submit, those in the ring, those completed.
Starts == {e.data : e \in {x \in sq : x.op = "start"}}
Submitted == kernel \union Starts
Completed == {x.data : x \in cq \union batch}

\* A cancellation of the operation is on its way.
Asked(d) == d \in cancelled \/ [op |-> "cancel", data |-> d] \in sq

\* An operation is at one place of the ring.
RingPart ==
  /\ sq \subseteq [op : {"start", "cancel"}, data : Words]
  /\ IsFiniteSet(sq) /\ Cardinality(sq) <= RingSize
  /\ kernel \subseteq Words /\ cancelled \subseteq kernel
  /\ cq \subseteq Completions /\ batch \subseteq Completions
  /\ waking \in BOOLEAN /\ (~waking => batch = {})
  /\ kernel \intersect Starts = {}
  /\ Submitted \intersect Completed = {}
  /\ \A x, y \in cq \union batch : x.data = y.data => x = y
  /\ cq \intersect batch = {}
  /\ dropped \subseteq Words /\ dropped \intersect Running = {}

\* Operations that are counted, and those of them that have a buffer.
Counts == Running \union dropped
Busy == {d \in Counts : d.event # "connect"}

Has(t, b) == \E i \in DOMAIN held[t] : held[t][i] = b

\* A buffer in an operation, or with the application, belongs to a call that has
\* started its operations; such a call has no other buffers.
BufferPart ==
  /\ call \in [Calls -> {NoCall} \union
                        [stage : {"call", "ring", "leaked"}, channel : Channels, event : Kinds]]
  /\ payloads \subseteq 0 .. Capacity - 1
  /\ \A t \in Calls : /\ call[t] = NoCall => held[t] = <<>>
                      /\ call[t].stage # "call" => step[t] = "idle"
  /\ \A d \in Busy : \E t \in Calls : call[t].stage = "ring" /\ Has(t, d.buffer)
  /\ \A b \in payloads : \E t \in Calls : call[t].stage = "ring" /\ Has(t, b)
  /\ \A d, e \in Busy : d.buffer = e.buffer => d = e
  /\ \A d \in Busy : d.buffer \notin payloads
  /\ \A t \in Calls : call[t].stage = "ring" =>
       \A b : Has(t, b) => b \in payloads \/ \E d \in Busy : d.buffer = b

\* What runs is in the map or was asked to be cancelled.
EventPart ==
  /\ events \subseteq Running
  /\ \A d \in Running : d \in events \/ Asked(d) \/ d \in Completed

Of(c) == {d \in Counts : d.channel = c}

\* _pending counts, and a channel whose end was announced has nothing left to count.
ChannelPart ==
  /\ connection \in [Channels -> {"connecting", "up", "failed"}]
  /\ pending \in [Channels -> Nat]
  /\ active \in [Channels -> BOOLEAN]
  /\ closing \in [Channels -> BOOLEAN]
  /\ closer \in [Channels -> BOOLEAN]
  /\ closeStage \in [Channels -> CloseStages]
  /\ \A c \in Channels :
       /\ IsFiniteSet(Of(c)) /\ pending[c] = Cardinality(Of(c))
       /\ active[c] => ~closer[c]
       /\ closer[c] \/ closeStage[c] \in {"finishing", "closed"} => closing[c] /\ Of(c) = {}

ClientInv == PoolPart /\ RingPart /\ BufferPart /\ EventPart /\ ChannelPart
-----------------------------------------------------------------------------
(* The pool. *)

\* The pool that the channels use is the one of the proofs.
LEMMA SamePool ==
  /\ \A t, n : Pool!AllocateArray(t, n) <=> P!AllocateArray(t, n)
  /\ \A t : Pool!ResumeAllocate(t) <=> P!ResumeAllocate(t)
  /\ \A t : Pool!ResumeArray(t) <=> P!ResumeArray(t)
  /\ \A t, i : Pool!Release(t, i) <=> P!Release(t, i)
  /\ \A t : Pool!ReleaseArray(t) <=> P!ReleaseArray(t)
  BY DEF
     Pool!AllocateArray, Pool!ResumeAllocate, Pool!ResumeArray, Pool!Release,
     Pool!ReleaseArray, Pool!Loop, Pool!Popped, Pool!TopIds, Pool!Awaited, Pool!Fewest,
     Pool!Completed, Pool!Wake, P!AllocateArray, P!ResumeAllocate, P!ResumeArray,
     P!Release, P!ReleaseArray, P!Loop, P!Popped, P!TopIds, P!Awaited, P!Fewest,
     P!Completed, P!Wake

LEMMA SamePoolSpec ==
  /\ Pool!Init <=> P!Init
  /\ Pool!Next <=> P!Next
  /\ Pool!vars = pool /\ P!vars = pool
  /\ Pool!TypeOK <=> P!TypeOK
<1>1. Pool!Init <=> P!Init
  BY DEF Pool!Init, P!Init, Pool!Created, P!Created
<1>2. Pool!Next <=> P!Next
  BY SamePool DEF Pool!Next, P!Next
<1>3. Pool!vars = pool /\ P!vars = pool
  BY DEF Pool!vars, P!vars, pool
<1>4. Pool!TypeOK <=> P!TypeOK
  BY DEF Pool!TypeOK, P!TypeOK, Pool!Buffers, P!Buffers, Pool!Steps, P!Steps
<1>5. QED
  BY <1>1, <1>2, <1>3, <1>4

LEMMA ReleaseBufferIsPool ==
  ASSUME NEW b, ReleaseBuffer(b)
  PROVE  Pool!Next
  BY DEF ReleaseBuffer, Pool!Next

\* Every step of the channels is one of the pool, or leaves it alone.
LEMMA StepIsPool == [Next]_vars => [Pool!Next]_pool
<1> SUFFICES ASSUME [Next]_vars PROVE Pool!Next \/ UNCHANGED pool
  OBVIOUS
<1>1. ASSUME NEW t \in Calls, NEW c \in Channels, NEW k \in Kinds, NEW n \in 1 .. MaxCount,
             Start(t, c, k, n)
      PROVE  Pool!Next
  BY <1>1 DEF Start, Pool!Next
<1>2. ASSUME NEW t \in Calls, Resume(t) PROVE Pool!Next
  BY <1>2 DEF Resume, Pool!Next
<1>3. ASSUME NEW t \in Calls, Return(t) PROVE UNCHANGED pool
  BY <1>3 DEF Return
<1>4. ASSUME NEW b \in payloads, ReleasePayload(b) PROVE Pool!Next
  BY <1>4, ReleaseBufferIsPool DEF ReleasePayload
<1>5. ASSUME NEW c \in Channels, Close(c) \/ CloseGracefully(c) \/ GracefulTimeout(c) \/ Finish(c)
      PROVE  UNCHANGED pool
  BY <1>5 DEF Close, CloseGracefully, GracefulTimeout, Finish
<1>6. ASSUME NEW x \in batch, Process(x) PROVE Pool!Next \/ UNCHANGED pool
  BY <1>6, ReleaseBufferIsPool DEF Process
<1>7. ASSUME NEW d \in kernel, KernelComplete(d) PROVE UNCHANGED pool
  BY <1>7 DEF KernelComplete
<1>8. ASSUME AwakeBegin \/ AwakeComplete \/ CheckTimeouts PROVE UNCHANGED pool
  BY <1>8 DEF AwakeBegin, AwakeComplete, CheckTimeouts
<1>9. CASE UNCHANGED vars
  BY <1>9 DEF vars
<1>10. QED
  BY <1>1, <1>2, <1>3, <1>4, <1>5, <1>6, <1>7, <1>8, <1>9 DEF Next

LEMMA PoolInitially == Init => PoolPart
<1> SUFFICES ASSUME Init PROVE PoolPart
  OBVIOUS
<1>1. P!Init
  BY SamePoolSpec DEF Init
<1>2. P!PoolInv /\ P!SingleOwner /\ P!NoneLost /\ P!WaiterTracked
  BY <1>1, PoolAssumption, P!PoolInit, P!OwnerInit, P!NothingLostInit
<1>3. QED
  BY <1>2 DEF PoolPart, P!PoolInv, P!NothingLost

LEMMA PoolStays == PoolPart /\ [Next]_vars => PoolPart'
<1> SUFFICES ASSUME PoolPart, [Next]_vars PROVE PoolPart'
  OBVIOUS
<1>1. [P!Next]_P!vars
  <2>1. [Pool!Next]_pool
    BY StepIsPool
  <2>2. Pool!Next => P!Next
    BY SamePoolSpec
  <2>3. QED
    BY <2>1, <2>2 DEF pool, P!vars
<1>2. P!PoolInv /\ P!SingleOwner /\ P!NothingLost /\ P!TypeOK
  BY DEF PoolPart, P!PoolInv
<1>3. P!PoolInv'
  BY <1>1, <1>2, PoolAssumption, P!PoolNext
<1>4. P!SingleOwner'
  BY <1>1, <1>2, PoolAssumption, P!OwnerNext
<1>5. P!NoneLost' /\ P!WaiterTracked'
  BY <1>1, <1>2, PoolAssumption, P!NothingLostNext
<1>6. QED
  BY <1>3, <1>4, <1>5 DEF PoolPart, P!PoolInv, P!NothingLost

-----------------------------------------------------------------------------
(* The ring. *)

\* A word is in Starts as its entry is in the submission queue.
LEMMA StartsIs ==
  ASSUME sq \subseteq [op : {"start", "cancel"}, data : Words]
  PROVE  /\ Starts \subseteq Words
         /\ \A d : d \in Starts <=> [op |-> "start", data |-> d] \in sq
<1>1. ASSUME NEW d PROVE d \in Starts <=> \E e \in sq : e.op = "start" /\ e.data = d
  BY DEF Starts
<1>2. ASSUME NEW d, NEW e \in sq, e.op = "start", e.data = d
      PROVE  e = [op |-> "start", data |-> d] /\ d \in Words
  BY <1>2
<1>3. QED
  BY <1>1, <1>2

LEMMA EntriesAre ==
  ASSUME NEW op \in {"start", "cancel"}, NEW words \in SUBSET Words
  PROVE  /\ Entries(op, words) \subseteq [op : {"start", "cancel"}, data : Words]
         /\ \A x, d : [op |-> x, data |-> d] \in Entries(op, words) <=> x = op /\ d \in words
  BY DEF Entries

\* A set that a function maps onto another.
LEMMA Onto ==
  ASSUME NEW S, IsFiniteSet(S), NEW T, NEW f \in [S -> T], \A y \in T : \E x \in S : f[x] = y
  PROVE  /\ IsFiniteSet(T) /\ Cardinality(T) <= Cardinality(S)
         /\ (\A x, y \in S : f[x] = f[y] => x = y) => Cardinality(T) = Cardinality(S)
<1>1. f \in Surjection(S, T)
  BY DEF Surjection
<1>2. (\A x, y \in S : f[x] = f[y] => x = y) => f \in Injection(S, T)
  BY DEF Injection, IsInjective
<1>3. QED
  BY <1>1, <1>2, FS_Surjection

LEMMA EntriesCount ==
  ASSUME NEW op, NEW words, IsFiniteSet(words)
  PROVE  /\ IsFiniteSet(Entries(op, words))
         /\ Cardinality(Entries(op, words)) <= Cardinality(words)
<1> DEFINE f == [w \in words |-> [op |-> op, data |-> w]]
<1>1. f \in [words -> Entries(op, words)]
  BY DEF Entries
<1>2. \A e \in Entries(op, words) : e.data \in words /\ f[e.data] = e
  BY DEF Entries
<1> HIDE DEF f
<1>3. QED
  BY <1>1, <1>2, Onto

\* Entries fit into the submission queue.
LEMMA QueueGrows ==
  ASSUME RingPart, NEW op \in {"start", "cancel"}, NEW words \in SUBSET Words,
         IsFiniteSet(words), Cardinality(words) <= Slots
  PROVE  /\ sq \union Entries(op, words) \subseteq [op : {"start", "cancel"}, data : Words]
         /\ IsFiniteSet(sq \union Entries(op, words))
         /\ Cardinality(sq \union Entries(op, words)) <= RingSize
<1>1. IsFiniteSet(sq) /\ Cardinality(sq) <= RingSize /\ sq \subseteq [op : {"start", "cancel"}, data : Words]
  BY DEF RingPart
<1>2. /\ IsFiniteSet(Entries(op, words))
      /\ Cardinality(Entries(op, words)) <= Cardinality(words)
  BY EntriesCount
<1>3. Entries(op, words) \subseteq [op : {"start", "cancel"}, data : Words]
  BY EntriesAre
<1> DEFINE E == Entries(op, words)
<1> HIDE DEF E
<1>4. /\ IsFiniteSet(sq \union E)
      /\ Cardinality(sq \union E) = Cardinality(sq) + Cardinality(E) - Cardinality(sq \intersect E)
  BY <1>1, <1>2, FS_Union DEF E
<1>5. IsFiniteSet(sq \intersect E)
  BY <1>1, FS_Subset
<1>6. /\ Cardinality(sq) \in Nat /\ Cardinality(E) \in Nat /\ Cardinality(words) \in Nat
      /\ Cardinality(sq \intersect E) \in Nat
  BY <1>1, <1>2, <1>5, FS_CardinalityType DEF E
<1>7. Cardinality(E) <= RingSize - Cardinality(sq)
  BY <1>2, <1>6, RingAssumption DEF Slots, E
<1>8. Cardinality(sq \union E) <= RingSize
  BY <1>4, <1>6, <1>7, RingAssumption
<1>9. QED
  BY <1>1, <1>3, <1>4, <1>8 DEF E

\* What a submission of new operations, or of cancellations, does to the ring.
RingMoves(new) ==
  /\ sq' \subseteq [op : {"start", "cancel"}, data : Words]
  /\ IsFiniteSet(sq') /\ Cardinality(sq') <= RingSize
  /\ kernel' \subseteq Words /\ cancelled' \subseteq kernel'
  /\ kernel' \intersect Starts' = {}
  /\ Submitted' = Submitted \union new
  /\ \A d \in Submitted : Asked(d) => Asked(d)'

\* io_uring_submit with further entries.
LEMMA FlushMoves ==
  ASSUME RingPart, NEW op \in {"start", "cancel"}, NEW words \in SUBSET Words,
         Flushed(sq \union Entries(op, words))
  PROVE  /\ RingMoves(IF op = "start" THEN words ELSE {})
         /\ op = "cancel" => \A d \in words \intersect Submitted : Asked(d)'
<1> DEFINE all == sq \union Entries(op, words)
<1>1. /\ sq \subseteq [op : {"start", "cancel"}, data : Words] /\ kernel \subseteq Words
      /\ cancelled \subseteq kernel
  BY DEF RingPart
<1>2. /\ Entries(op, words) \subseteq [op : {"start", "cancel"}, data : Words]
      /\ \A x, d : [op |-> x, data |-> d] \in Entries(op, words) <=> x = op /\ d \in words
  BY EntriesAre
<1>3. all \subseteq [op : {"start", "cancel"}, data : Words]
  BY <1>1, <1>2
<1>4. ASSUME NEW x, NEW d
      PROVE  (\E e \in all : e.op = x /\ e.data = d) <=> [op |-> x, data |-> d] \in all
  <2>1. \A e \in all : e = [op |-> e.op, data |-> e.data]
    BY <1>3
  <2>2. QED
    BY <2>1
<1>5. /\ sq' = {}
      /\ kernel' = kernel \union {e.data : e \in {x \in all : x.op = "start"}}
      /\ cancelled' = (cancelled \union {e.data : e \in {x \in all : x.op = "cancel"}})
                      \intersect kernel'
  BY DEF Flushed
<1> HIDE DEF all
<1>6. \A d : d \in kernel' <=> d \in kernel \/ [op |-> "start", data |-> d] \in all
  BY <1>4, <1>5
<1>7. \A d : d \in cancelled' <=>
        (d \in cancelled \/ [op |-> "cancel", data |-> d] \in all) /\ d \in kernel'
  BY <1>4, <1>5
<1>8. \A d : d \in Starts <=> [op |-> "start", data |-> d] \in sq
  BY <1>1, StartsIs
<1>9. Starts' = {}
  BY <1>5 DEF Starts
<1>10. \A x, d : [op |-> x, data |-> d] \in all <=>
         [op |-> x, data |-> d] \in sq \/ (x = op /\ d \in words)
  BY <1>2 DEF all
<1>11. \A d : d \in kernel' <=> d \in kernel \/ d \in Starts \/ (op = "start" /\ d \in words)
  BY <1>6, <1>8, <1>10
<1>12. Submitted' = Submitted \union (IF op = "start" THEN words ELSE {})
  BY <1>9, <1>11 DEF Submitted
<1>13. kernel' \subseteq Words
  BY <1>1, <1>11, StartsIs
<1>14. \A d \in Submitted : Asked(d) => Asked(d)'
  BY <1>7, <1>10, <1>11 DEF Submitted, Asked
<1>15. op = "cancel" => \A d \in words \intersect Submitted : Asked(d)'
  BY <1>7, <1>10, <1>11 DEF Submitted, Asked
<1>16. cancelled' \subseteq kernel'
  BY <1>7
<1>17. IsFiniteSet(sq') /\ Cardinality(sq') <= RingSize /\ sq' \subseteq [op : {"start", "cancel"}, data : Words]
  BY <1>5, FS_EmptySet, RingAssumption
<1>18. QED
  BY <1>9, <1>12, <1>13, <1>14, <1>15, <1>16, <1>17 DEF RingMoves

\* Entries are prepared and not submitted.
LEMMA QueueMoves ==
  ASSUME RingPart, NEW op \in {"start", "cancel"}, NEW words \in SUBSET Words,
         IsFiniteSet(words), Cardinality(words) <= Slots,
         op = "start" => words \intersect Submitted = {},
         sq' = sq \union Entries(op, words), UNCHANGED <<kernel, cancelled>>
  PROVE  /\ RingMoves(IF op = "start" THEN words ELSE {})
         /\ op = "cancel" => \A d \in words \intersect Submitted : Asked(d)'
<1>1. /\ sq \subseteq [op : {"start", "cancel"}, data : Words] /\ kernel \subseteq Words
      /\ cancelled \subseteq kernel /\ kernel \intersect Starts = {}
  BY DEF RingPart
<1>2. \A x, d : [op |-> x, data |-> d] \in Entries(op, words) <=> x = op /\ d \in words
  BY EntriesAre
<1>3. /\ sq' \subseteq [op : {"start", "cancel"}, data : Words]
      /\ IsFiniteSet(sq') /\ Cardinality(sq') <= RingSize
  BY QueueGrows
<1>4. \A x, d : [op |-> x, data |-> d] \in sq' <=>
        [op |-> x, data |-> d] \in sq \/ (x = op /\ d \in words)
  BY <1>2
<1>5. \A d : d \in Starts <=> [op |-> "start", data |-> d] \in sq
  BY <1>1, StartsIs
<1>6. \A d : d \in Starts' <=> [op |-> "start", data |-> d] \in sq'
  <2>1. ASSUME NEW d PROVE d \in Starts' <=> \E e \in sq' : e.op = "start" /\ e.data = d
    BY DEF Starts
  <2>2. \A e \in sq' : e = [op |-> e.op, data |-> e.data]
    BY <1>3
  <2>3. QED
    BY <2>1, <2>2
<1>7. \A d : d \in Starts' <=> d \in Starts \/ (op = "start" /\ d \in words)
  BY <1>4, <1>5, <1>6
<1>8. Submitted' = Submitted \union (IF op = "start" THEN words ELSE {})
  BY <1>7 DEF Submitted
<1>9. kernel' \intersect Starts' = {}
  BY <1>1, <1>7 DEF Submitted
<1>10. /\ \A d \in Submitted : Asked(d) => Asked(d)'
       /\ op = "cancel" => \A d \in words \intersect Submitted : Asked(d)'
  BY <1>4 DEF Asked
<1>11. QED
  BY <1>1, <1>3, <1>8, <1>9, <1>10 DEF RingMoves

LEMMA SubmitMoves ==
  ASSUME RingPart, NEW op \in {"start", "cancel"}, NEW words \in SUBSET Words,
         waking => IsFiniteSet(words) /\ Cardinality(words) <= Slots,
         op = "start" => words \intersect Submitted = {}, Submit(Entries(op, words))
  PROVE  /\ RingMoves(IF op = "start" THEN words ELSE {})
         /\ op = "cancel" => \A d \in words \intersect Submitted : Asked(d)'
<1>1. CASE waking
  BY <1>1, QueueMoves DEF Submit
<1>2. CASE ~waking
  BY <1>2, FlushMoves DEF Submit
<1>3. QED
  BY <1>1, <1>2

LEMMA RingRests ==
  ASSUME RingPart, UNCHANGED <<sq, kernel, cancelled>>
  PROVE  RingMoves({})
  BY DEF RingPart, RingMoves, Submitted, Starts, Asked

LEMMA RunningIs == Running = Submitted \union Completed /\ Counts = Submitted \union Completed \union dropped
  BY DEF Running, Submitted, Starts, Completed, Counts

LEMMA RunningNext == Running' = Submitted' \union Completed' /\ Counts' = Submitted' \union Completed' \union dropped'
  BY DEF Running, Submitted, Starts, Completed, Counts

\* The words of completions.
LEMMA CompletedWords ==
  ASSUME RingPart
  PROVE  Completed \subseteq Words /\ Running \subseteq Words /\ Counts \subseteq Words
<1>1. \A x \in cq \union batch : x.data \in Words
  BY DEF RingPart, Completions
<1>2. Completed \subseteq Words
  BY <1>1 DEF Completed
<1>3. Submitted \subseteq Words
  BY StartsIs DEF RingPart, Submitted
<1>4. QED
  BY <1>2, <1>3, RunningIs DEF RingPart

\* New operations come to the ring, and others find it full.
LEMMA RingGrows ==
  ASSUME RingPart, NEW new \in SUBSET Words, NEW lost \in SUBSET Words, RingMoves(new),
         new \intersect Counts = {}, lost \intersect (Counts \union new) = {},
         UNCHANGED <<cq, batch, waking>>, dropped' = dropped \union lost
  PROVE  RingPart' /\ Running' = Running \union new /\ Completed' = Completed
<1>1. Completed' = Completed /\ Submitted' = Submitted \union new
  BY DEF Completed, RingMoves
<1>2. Running' = Running \union new
  BY <1>1, RunningIs, RunningNext
<1>3. Submitted' \intersect Completed' = {}
  BY <1>1, RunningIs DEF RingPart
<1>4. dropped' \subseteq Words /\ dropped' \intersect Running' = {}
  BY <1>2 DEF RingPart, Counts
<1>5. QED
  BY <1>1, <1>2, <1>3, <1>4 DEF RingPart, RingMoves

\* What runs can be cancelled, if what leaves the map was asked to be.
LEMMA EventsKept ==
  ASSUME RingPart, EventPart, NEW new, RingMoves(new), new \subseteq events', events' \subseteq Running',
         \A d \in events \intersect Submitted : d \in events' \/ Asked(d)'
  PROVE  EventPart'
<1>1. ASSUME NEW d \in Running' PROVE d \in events' \/ Asked(d)' \/ d \in Completed'
  <2>1. CASE d \in Submitted
    <3>1. d \notin Completed
      BY <2>1 DEF RingPart
    <3>2. d \in events \/ Asked(d)
      BY <2>1, <3>1, RunningIs DEF EventPart
    <3>3. QED
      BY <2>1, <3>2 DEF RingMoves
  <2>2. QED
    BY <2>1, RunningNext DEF RingMoves
<1>2. QED
  BY <1>1 DEF EventPart

LEMMA BuffersRest ==
  ASSUME BufferPart, Counts' = Counts, UNCHANGED <<payloads, call, held, step>>
  PROVE  BufferPart'
<1>1. Busy' = Busy
  BY DEF Busy
<1>2. \A t, b : Has(t, b)' <=> Has(t, b)
  BY DEF Has
<1>3. QED
  BY <1>1, <1>2 DEF BufferPart

\* transport_cancel_by_fd: what leaves the map is asked to be cancelled.
LEMMA CancelMoves ==
  ASSUME RingPart, events \subseteq Running, NEW c \in Channels, NEW left \in SUBSET events,
         IsFiniteSet(Of(c)), CancelByFd(c, left)
  PROVE  /\ RingMoves({}) /\ events' \subseteq left
         /\ \A d \in left \intersect Submitted : d \in events' \/ Asked(d)'
         /\ \E stage \in {"cancelling", "failed"} : closeStage' = [closeStage EXCEPT ![c] = stage]
<1> DEFINE mine == {d \in left : d.channel = c}
<1>1. mine \subseteq Words /\ mine \subseteq Of(c)
  BY CompletedWords DEF Of, Counts
<1>2. IsFiniteSet(mine)
  BY <1>1, FS_Subset
<1>3. CASE /\ Cardinality(mine) <= Slots
           /\ events' = left \ mine
           /\ Submit(Entries("cancel", mine))
           /\ closeStage' = [closeStage EXCEPT ![c] = "cancelling"]
  <2> HIDE DEF mine
  <2>1. RingMoves({}) /\ \A d \in mine \intersect Submitted : Asked(d)'
    BY <1>1, <1>2, <1>3, SubmitMoves
  <2>2. QED
    BY <1>3, <2>1
<1>4. CASE /\ Cardinality(mine) > Slots
           /\ \E some \in SUBSET mine :
                /\ Cardinality(some) = Slots
                /\ sq' = sq \union Entries("cancel", some)
           /\ events' = left
           /\ closeStage' = [closeStage EXCEPT ![c] = "failed"]
           /\ UNCHANGED <<kernel, cancelled>>
  <2> HIDE DEF mine
  <2>1. PICK some \in SUBSET mine :
          /\ Cardinality(some) = Slots
          /\ sq' = sq \union Entries("cancel", some)
    BY <1>4
  <2>2. IsFiniteSet(some) /\ some \subseteq Words
    BY <1>1, <1>2, FS_Subset
  <2>3. Cardinality(some) <= Slots
    BY <2>1, <2>2, FS_CardinalityType
  <2>4. RingMoves({})
    BY <1>4, <2>1, <2>2, <2>3, QueueMoves
  <2>5. QED
    BY <1>4, <2>4
<1>5. QED
  BY <1>3, <1>4 DEF CancelByFd

LEMMA ForceCloseMoves ==
  ASSUME RingPart, events \subseteq Running, NEW c \in Channels, NEW count, NEW left \in SUBSET events,
         IsFiniteSet(Of(c)), ForceClose(c, count, left)
  PROVE  /\ RingMoves({}) /\ events' \subseteq left
         /\ \A d \in left \intersect Submitted : d \in events' \/ Asked(d)'
         /\ closing' = [closing EXCEPT ![c] = TRUE] /\ active' = [active EXCEPT ![c] = FALSE]
         /\ \E stage \in {"cancelling", "failed", "finishing"} :
              /\ closeStage' = [closeStage EXCEPT ![c] = stage]
              /\ stage = "finishing" => ~(count > 0)
<1>1. CASE count > 0
  BY <1>1, CancelMoves DEF ForceClose
<1>2. CASE ~(count > 0)
  BY <1>2, RingRests DEF ForceClose
<1>3. QED
  BY <1>1, <1>2

-----------------------------------------------------------------------------
(* Steps that leave the buffers alone. *)

\* What the steps of a channel and of the executor need to keep.
LEMMA RestKeeps ==
  ASSUME ClientInv, PoolPart', RingPart', EventPart', ChannelPart', Counts' = Counts,
         UNCHANGED <<payloads, call, held, step>>
  PROVE  ClientInv'
  BY BuffersRest DEF ClientInv

LEMMA CountsKept ==
  ASSUME RingPart, RingMoves({}), UNCHANGED <<cq, batch, waking, dropped>>
  PROVE  RingPart' /\ Running' = Running /\ Counts' = Counts /\ \A c : Of(c)' = Of(c)
<1>1. RingPart' /\ Running' = Running
  <2>1. dropped' = dropped \union {}
    OBVIOUS
  <2>2. RingPart' /\ Running' = Running \union {}
    BY <2>1, RingGrows
  <2>3. QED
    BY <2>2
<1>2. Counts' = Counts
  BY <1>1 DEF Counts
<1>3. QED
  BY <1>1, <1>2 DEF Of

LEMMA CloseKeeps ==
  ASSUME ClientInv, PoolPart', NEW c \in Channels, Close(c)
  PROVE  ClientInv'
<1>1. RingPart /\ EventPart /\ ChannelPart /\ events \subseteq Running /\ IsFiniteSet(Of(c))
  BY DEF ClientInv, EventPart, ChannelPart
<1>2. /\ ForceClose(c, pending[c], events) /\ UNCHANGED <<cq, batch, waking, dropped>>
      /\ UNCHANGED <<payloads, call, held, step>> /\ UNCHANGED <<connection, pending, closer>>
  BY DEF Close, pool
<1>3. /\ RingMoves({}) /\ events' \subseteq events
      /\ \A d \in events \intersect Submitted : d \in events' \/ Asked(d)'
      /\ closing' = [closing EXCEPT ![c] = TRUE] /\ active' = [active EXCEPT ![c] = FALSE]
      /\ \E stage \in {"cancelling", "failed", "finishing"} :
           /\ closeStage' = [closeStage EXCEPT ![c] = stage]
           /\ stage = "finishing" => ~(pending[c] > 0)
  BY <1>1, <1>2, ForceCloseMoves
<1>4. RingPart' /\ Running' = Running /\ Counts' = Counts /\ \A x : Of(x)' = Of(x)
  BY <1>1, <1>2, <1>3, CountsKept
<1>5. EventPart'
  BY <1>1, <1>3, <1>4, EventsKept
<1>6. pending[c] = 0 => Of(c) = {}
  BY <1>1, FS_EmptySet DEF ChannelPart
<1>7. pending[c] \in Nat
  BY <1>1 DEF ChannelPart
<1>8. ChannelPart'
  BY <1>1, <1>2, <1>3, <1>4, <1>6, <1>7 DEF ChannelPart, CloseStages
<1>9. QED
  BY <1>2, <1>4, <1>5, <1>8, RestKeeps

LEMMA GracefulTimeoutKeeps ==
  ASSUME ClientInv, PoolPart', NEW c \in Channels, GracefulTimeout(c)
  PROVE  ClientInv'
<1>1. RingPart /\ EventPart /\ ChannelPart /\ events \subseteq Running /\ IsFiniteSet(Of(c))
  BY DEF ClientInv, EventPart, ChannelPart
<1>2. /\ CancelByFd(c, events) /\ UNCHANGED <<cq, batch, waking, dropped>>
      /\ UNCHANGED <<payloads, call, held, step>> /\ UNCHANGED <<connection, pending, closing, closer>>
      /\ active' = [active EXCEPT ![c] = FALSE]
  BY DEF GracefulTimeout, pool
<1>3. /\ RingMoves({}) /\ events' \subseteq events
      /\ \A d \in events \intersect Submitted : d \in events' \/ Asked(d)'
      /\ \E stage \in {"cancelling", "failed"} : closeStage' = [closeStage EXCEPT ![c] = stage]
  BY <1>1, <1>2, CancelMoves
<1>4. RingPart' /\ Running' = Running /\ Counts' = Counts /\ \A x : Of(x)' = Of(x)
  BY <1>1, <1>2, <1>3, CountsKept
<1>5. EventPart'
  BY <1>1, <1>3, <1>4, EventsKept
<1>6. ChannelPart'
  BY <1>1, <1>2, <1>3, <1>4 DEF ChannelPart, CloseStages
<1>7. QED
  BY <1>2, <1>4, <1>5, <1>6, RestKeeps

\* Steps that do not even touch the ring.
LEMMA QuietKeeps ==
  ASSUME ClientInv, PoolPart', ChannelPart => ChannelPart', UNCHANGED <<ring, dropped, events>>,
         UNCHANGED <<payloads, call, held, step>>
  PROVE  ClientInv'
<1>1. RingPart /\ EventPart /\ ChannelPart
  BY DEF ClientInv
<1>2. RingMoves({}) /\ UNCHANGED <<cq, batch, waking, dropped>>
  BY <1>1, RingRests DEF ring
<1>3. RingPart' /\ Running' = Running /\ Counts' = Counts
  BY <1>1, <1>2, CountsKept
<1>4. EventPart'
  <2>1. events' \subseteq Running' /\ \A d \in events \intersect Submitted : d \in events' \/ Asked(d)'
    BY <1>1, <1>3 DEF EventPart
  <2>2. QED
    BY <1>1, <1>2, <2>1, EventsKept
<1>5. QED
  BY <1>1, <1>3, <1>4, RestKeeps

LEMMA CloseGracefullyKeeps ==
  ASSUME ClientInv, PoolPart', NEW c \in Channels, CloseGracefully(c)
  PROVE  ClientInv'
<1>1. /\ UNCHANGED <<ring, dropped, events>> /\ UNCHANGED <<payloads, call, held, step>>
      /\ UNCHANGED <<connection, pending, active, closer>>
      /\ closing' = [closing EXCEPT ![c] = TRUE]
      /\ closeStage' = [closeStage EXCEPT ![c] = "graceful"]
  BY DEF CloseGracefully, pool
<1>2. \A x : Of(x)' = Of(x)
  BY <1>1 DEF Of, Counts, Running, ring
<1>3. ChannelPart => ChannelPart'
  BY <1>1, <1>2 DEF ChannelPart, CloseStages
<1>4. QED
  BY <1>1, <1>3, QuietKeeps

LEMMA FinishKeeps ==
  ASSUME ClientInv, PoolPart', NEW c \in Channels, Finish(c)
  PROVE  ClientInv'
<1>1. /\ UNCHANGED <<ring, dropped, events>> /\ UNCHANGED <<payloads, call, held, step>>
      /\ UNCHANGED <<connection, pending, closing, closer>>
      /\ active' = [active EXCEPT ![c] = FALSE]
      /\ closeStage' = [closeStage EXCEPT ![c] = "closed"]
      /\ closeStage[c] = "finishing" \/ closer[c]
  BY DEF Finish, pool
<1>2. \A x : Of(x)' = Of(x)
  BY <1>1 DEF Of, Counts, Running, ring
<1>3. ChannelPart => ChannelPart'
  BY <1>1, <1>2 DEF ChannelPart, CloseStages
<1>4. QED
  BY <1>1, <1>3, QuietKeeps

\* Steps of the executor: the channels and the buffers stay as they are.
LEMMA ExecutorKeeps ==
  ASSUME ClientInv, PoolPart', RingPart', EventPart', Counts' = Counts,
         UNCHANGED <<pool, call, payloads, channel>>
  PROVE  ClientInv'
<1>1. ChannelPart'
  <2>1. \A c : Of(c)' = Of(c)
    BY DEF Of
  <2>2. QED
    BY <2>1 DEF ClientInv, ChannelPart, channel
<1>2. UNCHANGED <<payloads, call, held, step>>
  BY DEF pool
<1>3. QED
  BY <1>1, <1>2, RestKeeps

LEMMA CheckTimeoutsKeeps ==
  ASSUME ClientInv, PoolPart', CheckTimeouts
  PROVE  ClientInv'
<1>1. RingPart /\ EventPart /\ events \subseteq Running
  BY DEF ClientInv, EventPart
<1>2. PICK expired \in SUBSET events :
        events' = events \ expired /\ Submit(Entries("cancel", expired))
  BY DEF CheckTimeouts
<1>3. ~waking /\ UNCHANGED <<pool, call, payloads, channel>> /\ UNCHANGED <<cq, batch, waking, dropped>>
  BY DEF CheckTimeouts
<1>4. expired \subseteq Words
  BY <1>1, CompletedWords
<1>5. RingMoves({}) /\ \A d \in expired \intersect Submitted : Asked(d)'
  BY <1>1, <1>2, <1>3, <1>4, SubmitMoves
<1>6. RingPart' /\ Running' = Running /\ Counts' = Counts
  BY <1>1, <1>3, <1>5, CountsKept
<1>7. EventPart'
  BY <1>1, <1>2, <1>5, <1>6, EventsKept
<1>8. QED
  BY <1>3, <1>6, <1>7, ExecutorKeeps

\* io_uring_submit of what is queued.
LEMMA FlushQueue ==
  ASSUME RingPart, Flushed(sq)
  PROVE  RingMoves({})
<1>1. sq \union Entries("cancel", {}) = sq
  BY DEF Entries
<1>2. Flushed(sq \union Entries("cancel", {}))
  BY <1>1
<1>3. QED
  BY <1>2, FlushMoves

LEMMA AwakeCompleteKeeps ==
  ASSUME ClientInv, PoolPart', AwakeComplete
  PROVE  ClientInv'
<1>1. RingPart /\ EventPart /\ events \subseteq Running
  BY DEF ClientInv, EventPart
<1>2. /\ Flushed(sq) /\ batch = {} /\ waking' = FALSE
      /\ UNCHANGED <<pool, call, payloads, channel>> /\ UNCHANGED <<cq, batch, events, dropped>>
  BY DEF AwakeComplete
<1>3. RingMoves({})
  BY <1>1, <1>2, FlushQueue
<1>4. Completed' = Completed /\ Submitted' = Submitted
  BY <1>2, <1>3 DEF Completed, RingMoves
<1>5. Running' = Running /\ Counts' = Counts
  BY <1>2, <1>4, RunningIs, RunningNext
<1>6. RingPart'
  BY <1>1, <1>2, <1>3, <1>4, <1>5 DEF RingPart, RingMoves
<1>7. EventPart'
  BY <1>1, <1>2, <1>3, <1>5, EventsKept
<1>8. QED
  BY <1>2, <1>5, <1>6, <1>7, ExecutorKeeps

LEMMA AwakeBeginKeeps ==
  ASSUME ClientInv, PoolPart', AwakeBegin
  PROVE  ClientInv'
<1>1. RingPart /\ EventPart /\ events \subseteq Running
  BY DEF ClientInv, EventPart
<1>2. /\ Flushed(sq) /\ ~waking /\ waking' = TRUE /\ batch' = cq /\ cq' = {}
      /\ UNCHANGED <<pool, call, payloads, channel>> /\ UNCHANGED <<events, dropped>>
  BY DEF AwakeBegin
<1>3. RingMoves({})
  BY <1>1, <1>2, FlushQueue
<1>4. batch = {}
  BY <1>1, <1>2 DEF RingPart
<1>5. Completed' = Completed /\ Submitted' = Submitted
  BY <1>2, <1>3, <1>4 DEF Completed, RingMoves
<1>6. Running' = Running /\ Counts' = Counts
  BY <1>2, <1>5, RunningIs, RunningNext
<1>7. RingPart'
  BY <1>1, <1>2, <1>3, <1>4, <1>5, <1>6 DEF RingPart, RingMoves
<1>8. EventPart'
  BY <1>1, <1>2, <1>3, <1>6, EventsKept
<1>9. QED
  BY <1>2, <1>6, <1>7, <1>8, ExecutorKeeps

LEMMA KernelCompleteKeeps ==
  ASSUME ClientInv, PoolPart', NEW d \in kernel, KernelComplete(d)
  PROVE  ClientInv'
<1>1. RingPart /\ EventPart /\ events \subseteq Running
  BY DEF ClientInv, EventPart
<1>2. /\ kernel' = kernel \ {d} /\ cancelled' = cancelled \ {d}
      /\ UNCHANGED <<pool, call, payloads, channel>> /\ UNCHANGED <<sq, batch, waking, events, dropped>>
  BY DEF KernelComplete
<1>3. PICK result \in Results : cq' = cq \union {[data |-> d, result |-> result]}
  BY DEF KernelComplete
<1> DEFINE x == [data |-> d, result |-> result]
<1>4. x \in Completions /\ x.data = d
  BY <1>1 DEF RingPart, Completions
<1>5. cq' = cq \union {x}
  BY <1>3
<1> HIDE DEF x
<1>6. Completed' = Completed \union {d}
  BY <1>2, <1>4, <1>5 DEF Completed
<1>7. Starts' = Starts /\ d \notin Starts /\ d \notin Completed
  BY <1>1, <1>2 DEF Starts, RingPart, Submitted
<1>8. Submitted' = Submitted \ {d}
  BY <1>2, <1>7 DEF Submitted
<1>9. d \in Submitted
  BY DEF Submitted
<1>10. Running' = Running /\ Counts' = Counts
  BY <1>2, <1>6, <1>8, <1>9, RunningIs, RunningNext
<1>11. \A y \in cq \union batch : y.data # d
  BY <1>7 DEF Completed
<1>12. RingPart'
  <2>1. /\ \A y, z \in cq' \union batch' : y.data = z.data => y = z
        /\ cq' \intersect batch' = {}
    BY <1>1, <1>2, <1>4, <1>5, <1>11 DEF RingPart
  <2>2. Submitted' \intersect Completed' = {}
    BY <1>1, <1>6, <1>8 DEF RingPart
  <2>3. cq' \subseteq Completions /\ kernel' \subseteq Words /\ cancelled' \subseteq kernel'
    BY <1>1, <1>2, <1>4, <1>5 DEF RingPart
  <2>4. QED
    BY <1>1, <1>2, <1>7, <1>10, <2>1, <2>2, <2>3 DEF RingPart
<1>13. EventPart'
  <2>1. ASSUME NEW e \in Running, Asked(e), e # d PROVE Asked(e)'
    BY <1>2, <2>1 DEF Asked
  <2>2. QED
    BY <1>1, <1>2, <1>6, <1>10, <2>1 DEF EventPart
<1>14. QED
  BY <1>2, <1>10, <1>12, <1>13, ExecutorKeeps

-----------------------------------------------------------------------------
(* Calls get buffers. *)

LEMMA PoolTypes ==
  ASSUME PoolPart
  PROVE  /\ held \in [Calls -> Seq(0 .. Capacity - 1)] /\ step \in [Calls -> {"idle", "allocate", "array"}]
         /\ ids \in Seq(0 .. Capacity - 1)
  BY DEF PoolPart, P!PoolInv, P!TypeOK, P!Buffers, P!Steps

LEMMA PoolTypesNext ==
  ASSUME PoolPart'
  PROVE  /\ held' \in [Calls -> Seq(0 .. Capacity - 1)] /\ step' \in [Calls -> {"idle", "allocate", "array"}]
         /\ ids' \in Seq(0 .. Capacity - 1)
  BY DEF PoolPart, P!PoolInv, P!TypeOK, P!Buffers, P!Steps

Others(t) == \A u \in Calls \ {t} : held'[u] = held[u] /\ step'[u] = step[u]

\* A call of allocateArray concerns its client only, and takes a free id at once.
LEMMA AllocateIs ==
  ASSUME PoolPart, NEW t \in Calls, NEW n, Pool!AllocateArray(t, n)
  PROVE  /\ Others(t) /\ (n = 1 /\ ids # <<>> => step'[t] = "idle")
<1>1. P!AllocateArray(t, n)
  BY SamePool
<1>2. P!Loop(t, n)
  BY <1>1 DEF P!AllocateArray
<1>3. held \in [Calls -> Seq(0 .. Capacity - 1)] /\ step \in [Calls -> {"idle", "allocate", "array"}]
  BY PoolTypes
<1>4. Others(t)
  BY <1>2, <1>3 DEF P!Loop, Others
<1>5. ASSUME n = 1, ids # <<>> PROVE step'[t] = "idle"
  <2>1. Len(ids) \in Nat /\ Len(ids) # 0
    BY <1>5, PoolTypes
  <2>2. P!Fewest(n, Len(ids)) = n
    <3>1. ASSUME NEW l \in Nat, l # 0 PROVE P!Fewest(1, l) = 1
      BY <3>1 DEF P!Fewest
    <3>2. QED
      BY <1>5, <2>1, <3>1
  <2>3. QED
    BY <1>2, <1>3, <2>2 DEF P!Loop
<1>6. QED
  BY <1>4, <1>5

LEMMA ResumeIs ==
  ASSUME PoolPart, NEW t \in Calls, Pool!ResumeAllocate(t) \/ Pool!ResumeArray(t)
  PROVE  Others(t) /\ step[t] # "idle"
<1>1. held \in [Calls -> Seq(0 .. Capacity - 1)] /\ step \in [Calls -> {"idle", "allocate", "array"}]
  BY PoolTypes
<1>2. CASE P!ResumeAllocate(t)
  BY <1>1, <1>2 DEF P!ResumeAllocate, Others
<1>3. CASE P!ResumeArray(t)
  BY <1>1, <1>3 DEF P!ResumeArray, P!Loop, Others
<1>4. QED
  BY <1>2, <1>3, SamePool

\* A call without operations waits for buffers, gets them, or forgets them.
LEMMA CallWaits ==
  ASSUME BufferPart, Counts' = Counts, payloads' = payloads, NEW t \in Calls, Others(t),
         call[t].stage # "ring", NEW stage \in {"call", "leaked"}, NEW c \in Channels, NEW k \in Kinds,
         call' = [call EXCEPT ![t] = [stage |-> stage, channel |-> c, event |-> k]],
         stage = "leaked" => step'[t] = "idle"
  PROVE  BufferPart'
<1>1. Busy' = Busy
  BY DEF Busy
<1>2. call \in [Calls -> {NoCall} \union
                         [stage : {"call", "ring", "leaked"}, channel : Channels, event : Kinds]]
  BY DEF BufferPart
<1>3. \A u \in Calls \ {t} : call'[u] = call[u] /\ \A b : Has(u, b)' <=> Has(u, b)
  BY <1>2 DEF Others, Has
<1>4. call'[t].stage = stage /\ call'[t] # NoCall
  BY <1>2 DEF NoCall
<1>5. call' \in [Calls -> {NoCall} \union
                          [stage : {"call", "ring", "leaked"}, channel : Channels, event : Kinds]]
  BY <1>2
<1>6. \A u \in Calls : /\ call'[u] = NoCall => held'[u] = <<>>
                       /\ call'[u].stage # "call" => step'[u] = "idle"
  BY <1>3, <1>4 DEF BufferPart, Others
<1>7. \A u \in Calls : call[u].stage = "ring" => u # t /\ call'[u] = call[u]
  BY <1>3
<1>8. \A u \in Calls : call'[u].stage = "ring" => u # t /\ call'[u] = call[u]
  BY <1>3, <1>4
<1>9. QED
  BY <1>1, <1>3, <1>5, <1>6, <1>7, <1>8 DEF BufferPart

LEMMA WordIs ==
  ASSUME NEW c \in Channels, NEW k \in Kinds, NEW b
  PROVE  /\ Word(c, k, b).buffer = b /\ Word(c, k, b).channel = c /\ Word(c, k, b).event # "connect"
         /\ b \in 0 .. Capacity - 1 => Word(c, k, b) \in Words
  BY DEF Word, Kinds, Words

\* No buffer of the call is in an operation or with the application yet.
LEMMA Fresh ==
  ASSUME BufferPart, PoolPart', NEW t \in Calls, Others(t), call[t].stage # "ring"
  PROVE  /\ \A d \in Busy : ~Has(t, d.buffer)'
         /\ \A b \in payloads : ~Has(t, b)'
<1>1. ASSUME NEW u \in Calls, u # t, NEW b, Has(u, b) PROVE ~Has(t, b)'
  <2>1. Has(u, b)'
    BY <1>1 DEF Has, Others
  <2>2. \A i \in DOMAIN held'[u], j \in DOMAIN held'[t] : held'[u][i] # held'[t][j]
    BY <1>1 DEF PoolPart, P!SingleOwner
  <2>3. QED
    BY <2>1, <2>2 DEF Has
<1>2. QED
  BY <1>1 DEF BufferPart

\* A call starts operations for all of its buffers.
LEMMA CallStarts ==
  ASSUME BufferPart, PoolPart', NEW t \in Calls, Others(t), call[t].stage # "ring",
         NEW c \in Channels, NEW k \in Kinds, NEW W,
         W = {Word(c, k, held'[t][i]) : i \in DOMAIN held'[t]},
         Counts' = Counts \union W, payloads' = payloads,
         call' = [call EXCEPT ![t] = [stage |-> "ring", channel |-> c, event |-> k]],
         step'[t] = "idle"
  PROVE  BufferPart'
<1>1. call \in [Calls -> {NoCall} \union
                         [stage : {"call", "ring", "leaked"}, channel : Channels, event : Kinds]]
  BY DEF BufferPart
<1>2. \A u \in Calls \ {t} : call'[u] = call[u] /\ \A b : Has(u, b)' <=> Has(u, b)
  BY <1>1 DEF Others, Has
<1>3. call'[t].stage = "ring" /\ call'[t] # NoCall
  BY <1>1 DEF NoCall
<1>4. call' \in [Calls -> {NoCall} \union
                          [stage : {"call", "ring", "leaked"}, channel : Channels, event : Kinds]]
  BY <1>1
<1>5. \A u \in Calls : /\ call'[u] = NoCall => held'[u] = <<>>
                       /\ call'[u].stage # "call" => step'[u] = "idle"
  BY <1>2, <1>3 DEF BufferPart, Others
<1>6. /\ \A w \in W : w.event # "connect" /\ Has(t, w.buffer)'
      /\ \A b : Has(t, b)' => \E w \in W : w.buffer = b
      /\ \A v, w \in W : v.buffer = w.buffer => v = w
  BY WordIs DEF Has
<1>7. Busy' = Busy \union W
  BY <1>6 DEF Busy
<1>8. /\ \A d \in Busy : ~Has(t, d.buffer)'
      /\ \A b \in payloads : ~Has(t, b)'
  BY Fresh
<1>9. \A u \in Calls : call[u].stage = "ring" => u # t /\ call'[u] = call[u]
  BY <1>2
<1>10. \A u \in Calls : call'[u].stage = "ring" => u = t \/ (u # t /\ call'[u] = call[u])
  BY <1>2
<1>11. \A d \in Busy' : \E u \in Calls : call'[u].stage = "ring" /\ Has(u, d.buffer)'
  BY <1>2, <1>3, <1>6, <1>7, <1>9 DEF BufferPart
<1>12. \A b \in payloads' : \E u \in Calls : call'[u].stage = "ring" /\ Has(u, b)'
  BY <1>2, <1>9 DEF BufferPart
<1>13. \A d, e \in Busy' : d.buffer = e.buffer => d = e
  BY <1>6, <1>7, <1>8 DEF BufferPart
<1>14. \A d \in Busy' : d.buffer \notin payloads'
  BY <1>6, <1>7, <1>8 DEF BufferPart
<1>15. ASSUME NEW u \in Calls, call'[u].stage = "ring", NEW b, Has(u, b)'
       PROVE  b \in payloads' \/ \E d \in Busy' : d.buffer = b
  <2>1. CASE u = t
    BY <1>6, <1>7, <1>15, <2>1
  <2>2. CASE u # t
    <3>1. call[u].stage = "ring" /\ Has(u, b)
      BY <1>2, <1>15, <2>2
    <3>2. b \in payloads \/ \E d \in Busy : d.buffer = b
      BY <3>1 DEF BufferPart
    <3>3. QED
      BY <1>7, <3>2
  <2>3. QED
    BY <2>1, <2>2
<1>16. QED
  BY <1>4, <1>5, <1>11, <1>12, <1>13, <1>14, <1>15 DEF BufferPart

LEMMA UpTo == ASSUME NEW n \in Nat PROVE IsFiniteSet(1 .. n) /\ Cardinality(1 .. n) = n
<1>1. 1 \in Int /\ n \in Int
  OBVIOUS
<1>2. IsFiniteSet(1 .. n) /\ Cardinality(1 .. n) = (IF 1 > n THEN 0 ELSE n - 1 + 1)
  BY <1>1, FS_Interval
<1>3. QED
  BY <1>2

LEMMA SeqIs ==
  ASSUME NEW S, NEW q \in Seq(S)
  PROVE  Len(q) \in Nat /\ DOMAIN q = 1 .. Len(q) /\ \A i \in DOMAIN q : q[i] \in S
  OBVIOUS

\* The operations for the buffers h[a] to h[b].
WordsOf(c, k, h, a, b) == {Word(c, k, h[i]) : i \in a .. b}

\* The operations of a call: those that fit into the ring, and the rest.
LEMMA WordsSplit ==
  ASSUME NEW h \in Seq(0 .. Capacity - 1), \A i, j \in DOMAIN h : h[i] = h[j] => i = j,
         NEW c \in Channels, NEW k \in Kinds, NEW fit \in 0 .. Len(h)
  PROVE  /\ WordsOf(c, k, h, 1, Len(h)) = WordsOf(c, k, h, 1, fit) \union WordsOf(c, k, h, fit + 1, Len(h))
         /\ WordsOf(c, k, h, 1, fit) \intersect WordsOf(c, k, h, fit + 1, Len(h)) = {}
         /\ WordsOf(c, k, h, 1, Len(h)) \subseteq Words
         /\ IsFiniteSet(WordsOf(c, k, h, 1, Len(h))) /\ Cardinality(WordsOf(c, k, h, 1, Len(h))) = Len(h)
         /\ IsFiniteSet(WordsOf(c, k, h, 1, fit)) /\ Cardinality(WordsOf(c, k, h, 1, fit)) <= fit
<1> DEFINE W == WordsOf(c, k, h, 1, Len(h))
           new == WordsOf(c, k, h, 1, fit)
           lost == WordsOf(c, k, h, fit + 1, Len(h))
           f == [i \in DOMAIN h |-> Word(c, k, h[i])]
           g == [i \in 1 .. fit |-> Word(c, k, h[i])]
<1>1. Len(h) \in Nat /\ DOMAIN h = 1 .. Len(h) /\ \A i \in DOMAIN h : h[i] \in 0 .. Capacity - 1
  BY SeqIs
<1>2. \A i, j \in DOMAIN h : h[i] = h[j] => i = j
  OBVIOUS
<1>3. DOMAIN h = (1 .. fit) \union (fit + 1 .. Len(h)) /\ (1 .. fit) \intersect (fit + 1 .. Len(h)) = {}
  BY <1>1
<1>4. \A i, j \in DOMAIN h : Word(c, k, h[i]) = Word(c, k, h[j]) => i = j
  BY <1>2, WordIs
<1>5. W = {Word(c, k, h[i]) : i \in DOMAIN h}
  BY <1>1 DEF WordsOf
<1>6. new = {Word(c, k, h[i]) : i \in 1 .. fit} /\ lost = {Word(c, k, h[i]) : i \in fit + 1 .. Len(h)}
  BY DEF WordsOf
<1> HIDE DEF W, new, lost
<1>7. W = new \union lost
  BY <1>3, <1>5, <1>6
<1>8. new \intersect lost = {}
  <2>1. ASSUME NEW i \in 1 .. fit, NEW j \in fit + 1 .. Len(h) PROVE Word(c, k, h[i]) # Word(c, k, h[j])
    <3>1. i \in DOMAIN h /\ j \in DOMAIN h /\ i # j
      BY <1>3
    <3>2. QED
      BY <1>4, <3>1
  <2>2. QED
    BY <1>6, <2>1
<1>9. W \subseteq Words
  <2>1. \A i \in DOMAIN h : Word(c, k, h[i]) \in Words
    BY <1>1, WordIs
  <2>2. QED
    BY <1>5, <2>1
<1>10. IsFiniteSet(DOMAIN h) /\ Cardinality(DOMAIN h) = Len(h)
  BY <1>1, UpTo, Zenon
<1>11. fit \in Nat /\ IsFiniteSet(1 .. fit) /\ Cardinality(1 .. fit) = fit
  <2>1. fit \in Nat
    BY <1>1
  <2>2. QED
    BY <2>1, UpTo
<1>12. /\ f \in [DOMAIN h -> W] /\ (\A w \in W : \E i \in DOMAIN h : f[i] = w)
       /\ \A i, j \in DOMAIN h : f[i] = f[j] => i = j
  BY <1>4, <1>5
<1>13. g \in [1 .. fit -> new] /\ (\A w \in new : \E i \in 1 .. fit : g[i] = w)
  BY <1>6
<1> HIDE DEF f, g
<1>14. IsFiniteSet(W) /\ Cardinality(W) = Len(h)
  BY <1>10, <1>12, Onto
<1>15. IsFiniteSet(new) /\ Cardinality(new) <= fit
  BY <1>11, <1>13, Onto
<1>16. QED
  BY <1>7, <1>8, <1>9, <1>14, <1>15 DEF W, new, lost

LEMMA FewestIs ==
  ASSUME NEW m \in Nat, NEW n \in Nat
  PROVE  Fewest(m, n) \in 0 .. m /\ Fewest(m, n) <= n
  BY DEF Fewest

LEMMA SlotsIs == ASSUME RingPart PROVE Slots \in Nat
<1>1. Cardinality(sq) \in Nat /\ Cardinality(sq) <= RingSize
  BY FS_CardinalityType DEF RingPart
<1>2. QED
  BY <1>1, RingAssumption DEF Slots

\* A call has its buffers: it forgets them or starts its operations.
LEMMA ProceedKeeps ==
  ASSUME ClientInv, PoolPart', NEW t \in Calls, NEW c \in Channels, NEW k \in Kinds,
         call[t].stage # "ring", step'[t] = "idle", Others(t), Proceed(t, c, k),
         UNCHANGED <<cq, batch, waking, payloads, connection, active, closing, closer, closeStage>>
  PROVE  ClientInv'
<1>1. RingPart /\ EventPart /\ BufferPart /\ ChannelPart
  BY DEF ClientInv
<1>2. CASE closing[c]
  <2>1. /\ call' = [call EXCEPT ![t] = [stage |-> "leaked", channel |-> c, event |-> k]]
        /\ UNCHANGED <<sq, kernel, cancelled, events, dropped, pending>>
    BY <1>2 DEF Proceed
  <2>2. RingPart' /\ Running' = Running /\ Counts' = Counts /\ \A x : Of(x)' = Of(x)
    BY <1>1, <2>1, RingRests, CountsKept
  <2>3. BufferPart'
    BY <1>1, <2>1, <2>2, CallWaits
  <2>4. EventPart'
    BY <1>1, <2>1 DEF EventPart, Running, Asked, Completed
  <2>5. ChannelPart'
    BY <1>1, <2>1, <2>2 DEF ChannelPart
  <2>6. QED
    BY <2>2, <2>3, <2>4, <2>5 DEF ClientInv
<1>3. CASE ~closing[c]
  <2> DEFINE h == held'[t]
             fit == Fewest(Len(h), Slots)
             W == WordsOf(c, k, h, 1, Len(h))
             new == WordsOf(c, k, h, 1, fit)
             lost == WordsOf(c, k, h, fit + 1, Len(h))
  <2>1. /\ call' = [call EXCEPT ![t] = [stage |-> "ring", channel |-> c, event |-> k]]
        /\ events' = events \union new
        /\ dropped' = dropped \union lost
        /\ Submit(Entries("start", new))
        /\ pending' = [pending EXCEPT ![c] = @ + Len(held'[t])]
    BY <1>3 DEF Proceed, Counted, WordsOf
  <2>2. h \in Seq(0 .. Capacity - 1) /\ Len(h) \in Nat /\ DOMAIN h = 1 .. Len(h)
    <3>1. h \in Seq(0 .. Capacity - 1)
      BY PoolTypesNext
    <3> HIDE DEF h
    <3>2. QED
      BY <3>1, SeqIs
  <2>3. fit \in 0 .. Len(h) /\ fit <= Slots /\ Slots \in Nat
    BY <1>1, <2>2, FewestIs, SlotsIs
  <2>i. \A i, j \in DOMAIN h : h[i] = h[j] => i = j
    BY DEF PoolPart, P!SingleOwner
  <2>4. /\ W = new \union lost /\ new \intersect lost = {} /\ W \subseteq Words
        /\ IsFiniteSet(W) /\ Cardinality(W) = Len(h)
        /\ IsFiniteSet(new) /\ Cardinality(new) <= fit
    <3> HIDE DEF fit, h
    <3>1. QED
      BY <2>2, <2>3, <2>i, WordsSplit
  <2>5. \A w \in W : w.event # "connect" /\ w.channel = c /\ Has(t, w.buffer)'
    BY <2>2, WordIs DEF Has, WordsOf
  <2>6. W = {Word(c, k, held'[t][i]) : i \in DOMAIN held'[t]}
    BY <2>2 DEF WordsOf
  <2>7. Cardinality(new) <= Slots
    <3>1. Cardinality(new) \in Nat
      BY <2>4, FS_CardinalityType
    <3> HIDE DEF new, fit, h
    <3>2. QED
      BY <2>2, <2>3, <2>4, <3>1
  <2> HIDE DEF W, new, lost, fit
  <2>8. W \intersect Counts = {}
    <3>1. \A d \in Busy : ~Has(t, d.buffer)'
      BY <1>1, Fresh
    <3>2. QED
      BY <2>5, <3>1 DEF Busy
  <2>9. new \intersect Submitted = {} /\ new \intersect Counts = {} /\ new \subseteq Words
    BY <2>4, <2>8, RunningIs
  <2>10. RingMoves(new)
    BY <1>1, <2>1, <2>4, <2>7, <2>9, SubmitMoves
  <2>11. lost \subseteq Words /\ lost \intersect (Counts \union new) = {}
    BY <2>4, <2>8
  <2>12. RingPart' /\ Running' = Running \union new /\ Completed' = Completed
    BY <1>1, <2>1, <2>9, <2>10, <2>11, RingGrows
  <2>13. Counts' = Counts \union W
    BY <2>1, <2>4, <2>12 DEF Counts
  <2>14. BufferPart'
    BY <1>1, <2>1, <2>6, <2>13, CallStarts
  <2>15. EventPart'
    <3>1. /\ new \subseteq events' /\ events' \subseteq Running'
          /\ \A d \in events \intersect Submitted : d \in events' \/ Asked(d)'
      BY <1>1, <2>1, <2>12 DEF EventPart
    <3>2. QED
      BY <1>1, <2>10, <3>1, EventsKept
  <2>16. ChannelPart'
    <3>1. Of(c)' = Of(c) \union W /\ Of(c) \intersect W = {}
      BY <2>5, <2>8, <2>13 DEF Of
    <3>2. \A x \in Channels \ {c} : Of(x)' = Of(x)
      BY <2>5, <2>13 DEF Of
    <3>3. /\ IsFiniteSet(Of(c)) /\ pending[c] = Cardinality(Of(c)) /\ pending[c] \in Nat
          /\ pending \in [Channels -> Nat]
      BY <1>1 DEF ChannelPart
    <3>4. /\ IsFiniteSet(Of(c)')
          /\ Cardinality(Of(c)') = Cardinality(Of(c)) + Cardinality(W) - Cardinality({})
      <4>1. /\ IsFiniteSet(Of(c) \union W)
            /\ Cardinality(Of(c) \union W)
                 = Cardinality(Of(c)) + Cardinality(W) - Cardinality(Of(c) \intersect W)
        BY <2>4, <3>3, FS_Union
      <4>2. QED
        BY <3>1, <4>1, Zenon
    <3>5. Cardinality(Of(c)') = pending[c] + Len(held'[t])
      BY <2>2, <2>4, <3>3, <3>4, FS_EmptySet
    <3>6. pending' \in [Channels -> Nat] /\ pending'[c] = pending[c] + Len(held'[t])
          /\ \A x \in Channels \ {c} : pending'[x] = pending[x]
      BY <2>1, <2>2, <3>3
    <3>7. ASSUME NEW x \in Channels
          PROVE  /\ IsFiniteSet(Of(x)') /\ pending'[x] = Cardinality(Of(x)')
                 /\ active'[x] => ~closer'[x]
                 /\ closer'[x] \/ closeStage'[x] \in {"finishing", "closed"} => closing'[x] /\ Of(x)' = {}
      <4>1. CASE x = c
        BY <1>1, <1>3, <3>4, <3>5, <3>6, <4>1 DEF ChannelPart
      <4>2. CASE x # c
        BY <1>1, <3>2, <3>6, <4>2 DEF ChannelPart
      <4>3. QED
        BY <4>1, <4>2
    <3>8. QED
      BY <1>1, <3>6, <3>7 DEF ChannelPart
  <2>17. QED
    BY <2>12, <2>14, <2>15, <2>16 DEF ClientInv
<1>4. QED
  BY <1>2, <1>3

LEMMA StartKeeps ==
  ASSUME ClientInv, PoolPart', NEW t \in Calls, NEW c \in Channels, NEW k \in Kinds, NEW n,
         Start(t, c, k, n)
  PROVE  ClientInv'
<1>1. /\ call[t] = NoCall /\ (k # "many" => n = 1) /\ Pool!AllocateArray(t, n)
      /\ UNCHANGED <<cq, batch, waking, payloads, connection, active, closing, closer, closeStage>>
  BY DEF Start
<1>2. call[t].stage # "ring"
  BY <1>1 DEF NoCall
<1>3. RingPart /\ EventPart /\ BufferPart /\ ChannelPart /\ PoolPart
  BY DEF ClientInv
<1>4. Others(t) /\ (n = 1 /\ ids # <<>> => step'[t] = "idle")
  BY <1>1, <1>3, AllocateIs
<1>5. CASE k # "many" /\ ids # <<>>
  <2>1. Proceed(t, c, k)
    BY <1>5 DEF Start
  <2>2. QED
    BY <1>1, <1>2, <1>4, <1>5, <2>1, ProceedKeeps
<1>6. CASE ~(k # "many" /\ ids # <<>>)
  <2>1. /\ call' = [call EXCEPT ![t] = [stage |-> "call", channel |-> c, event |-> k]]
        /\ UNCHANGED <<sq, kernel, cancelled, events, dropped, pending>>
    BY <1>6 DEF Start
  <2>2. RingPart' /\ Running' = Running /\ Counts' = Counts /\ \A x : Of(x)' = Of(x)
    BY <1>1, <1>3, <2>1, RingRests, CountsKept
  <2>3. BufferPart'
    BY <1>1, <1>2, <1>3, <1>4, <2>1, <2>2, CallWaits
  <2>4. EventPart'
    BY <1>1, <1>3, <2>1 DEF EventPart, Running, Asked, Completed
  <2>5. ChannelPart'
    BY <1>1, <1>3, <2>1, <2>2 DEF ChannelPart
  <2>6. QED
    BY <2>2, <2>3, <2>4, <2>5 DEF ClientInv
<1>7. QED
  BY <1>5, <1>6

LEMMA ReturnKeeps ==
  ASSUME ClientInv, PoolPart', NEW t \in Calls, Return(t)
  PROVE  ClientInv'
<1>1. /\ call[t].stage = "call" /\ step[t] = "idle" /\ UNCHANGED pool
      /\ Proceed(t, call[t].channel, call[t].event)
      /\ UNCHANGED <<cq, batch, waking, payloads, connection, active, closing, closer, closeStage>>
  BY DEF Return
<1>2. call[t] \in [stage : {"call", "ring", "leaked"}, channel : Channels, event : Kinds]
  <2>1. call[t] \in {NoCall} \union
                    [stage : {"call", "ring", "leaked"}, channel : Channels, event : Kinds]
    BY DEF ClientInv, BufferPart
  <2>2. call[t] # NoCall
    BY <1>1 DEF NoCall
  <2>3. QED
    BY <2>1, <2>2
<1>3. call[t].channel \in Channels /\ call[t].event \in Kinds /\ call[t].stage # "ring"
  BY <1>1, <1>2
<1>4. Others(t) /\ step'[t] = "idle"
  BY <1>1 DEF Others, pool
<1>5. QED
  BY <1>1, <1>3, <1>4, ProceedKeeps

LEMMA ResumeKeeps ==
  ASSUME ClientInv, PoolPart', NEW t \in Calls, Resume(t)
  PROVE  ClientInv'
<1>1. /\ Pool!ResumeAllocate(t) \/ Pool!ResumeArray(t)
      /\ UNCHANGED <<call, ring, events, dropped, payloads, channel>>
  BY DEF Resume
<1>2. RingPart /\ EventPart /\ BufferPart /\ ChannelPart /\ PoolPart
  BY DEF ClientInv
<1>3. Others(t) /\ step[t] # "idle"
  BY <1>1, <1>2, ResumeIs
<1>4. /\ call \in [Calls -> {NoCall} \union
                           [stage : {"call", "ring", "leaked"}, channel : Channels, event : Kinds]]
      /\ call[t].stage = "call"
  BY <1>2, <1>3 DEF BufferPart
<1>5. call[t] \in [stage : {"call", "ring", "leaked"}, channel : Channels, event : Kinds]
  <2>1. call[t] # NoCall
    BY <1>4 DEF NoCall
  <2>2. QED
    BY <1>4, <2>1
<1>6. /\ call[t].channel \in Channels /\ call[t].event \in Kinds
      /\ call[t] = [stage |-> "call", channel |-> call[t].channel, event |-> call[t].event]
  BY <1>4, <1>5
<1>7. call' = [call EXCEPT ![t] = [stage |-> "call", channel |-> call[t].channel, event |-> call[t].event]]
  BY <1>1, <1>4, <1>6
<1>8. Counts' = Counts /\ payloads' = payloads
  BY <1>1 DEF Counts, Running, ring
<1>9. BufferPart'
  BY <1>2, <1>3, <1>4, <1>6, <1>7, <1>8, CallWaits
<1>10. RingPart'
  BY <1>1, <1>2 DEF RingPart, ring, Starts, Submitted, Completed, Running
<1>11. EventPart'
  BY <1>1, <1>2 DEF EventPart, Running, Asked, Completed, ring
<1>12. ChannelPart'
  BY <1>1, <1>2, <1>8 DEF ChannelPart, channel, Of
<1>13. QED
  BY <1>9, <1>10, <1>11, <1>12 DEF ClientInv

-----------------------------------------------------------------------------
(* Buffers go back. *)

\* release() takes the buffer from its call and leaves it all the others.
LEMMA ReleaseIs ==
  ASSUME PoolPart, NEW t \in Calls, NEW i \in 1 .. Len(held[t]), NEW b, held[t][i] = b,
         Pool!Release(t, i)
  PROVE  /\ Others(t) /\ step[t] = "idle" /\ step'[t] = "idle"
         /\ \A x : Has(t, x)' <=> Has(t, x) /\ x # b
         /\ Len(held[t]) = 1 => held'[t] = <<>> /\ \A x : Has(t, x) => x = b
<1> DEFINE h == held[t]
           r == SubSeq(h, 1, i - 1) \o SubSeq(h, i + 1, Len(h))
<1>1. held \in [Calls -> Seq(0 .. Capacity - 1)] /\ step \in [Calls -> {"idle", "allocate", "array"}]
  BY PoolTypes
<1>2. P!Release(t, i)
  BY SamePool
<1>3. /\ step[t] = "idle" /\ step' = step
      /\ held' = [held EXCEPT ![t] = SubSeq(held[t], 1, i - 1) \o SubSeq(held[t], i + 1, Len(held[t]))]
  BY <1>2 DEF P!Release
<1>4. Others(t) /\ held'[t] = r
  BY <1>1, <1>3 DEF Others
<1>5. h \in Seq(0 .. Capacity - 1)
  BY <1>1
<1>6. \A x, y \in DOMAIN h : h[x] = h[y] => x = y
  BY DEF PoolPart, P!SingleOwner
<1>7. h[i] = b /\ i \in 1 .. Len(h)
  OBVIOUS
<1> HIDE DEF h
<1>8. Len(h) \in Nat /\ DOMAIN h = 1 .. Len(h)
  BY <1>5, SeqIs
<1>9. /\ DOMAIN r = 1 .. Len(h) - 1
      /\ \A x \in 1 .. Len(h) - 1 : r[x] = IF x < i THEN h[x] ELSE h[x + 1]
  BY <1>5, <1>7, PoolAssumption, P!WithoutIs
<1>10. \A x : P!On(h, x) => x = b \/ P!On(r, x)
  BY <1>5, <1>7, PoolAssumption, P!WithoutOn
<1>r. SubSeq(h, 1, i - 1) \o SubSeq(h, i + 1, Len(h)) = r
  OBVIOUS
<1> HIDE DEF r
<1>11. ASSUME NEW x \in DOMAIN r PROVE \E y \in DOMAIN h : y # i /\ h[y] = r[x]
  <2>1. CASE x < i
    <3>1. x \in DOMAIN h /\ x # i /\ r[x] = h[x]
      BY <1>7, <1>8, <1>9, <2>1
    <3>2. QED
      BY <3>1
  <2>2. CASE ~(x < i)
    <3>1. x + 1 \in DOMAIN h /\ x + 1 # i /\ r[x] = h[x + 1]
      BY <1>7, <1>8, <1>9, <2>2
    <3>2. QED
      BY <3>1
  <2>3. QED
    BY <2>1, <2>2
<1>12. ASSUME NEW x PROVE P!On(r, x) <=> P!On(h, x) /\ x # b
  <2>1. ASSUME P!On(r, x) PROVE P!On(h, x) /\ x # b
    <3>1. PICK y \in DOMAIN r : r[y] = x
      BY <2>1 DEF P!On
    <3>2. PICK z \in DOMAIN h : z # i /\ h[z] = x
      BY <1>11, <3>1
    <3>3. x # b
      BY <1>6, <1>7, <1>8, <3>2
    <3>4. QED
      BY <3>2, <3>3 DEF P!On
  <2>2. QED
    BY <1>10, <2>1
<1>13. ASSUME Len(h) = 1 PROVE r = <<>> /\ \A x : P!On(h, x) => x = b
  <2>1. i = 1 /\ DOMAIN h = {1}
    BY <1>7, <1>8, <1>13
  <2>2. SubSeq(h, 1, 0) \o SubSeq(h, 2, 1) = <<>>
    BY <1>5, <1>13
  <2>3. r = <<>>
    BY <1>13, <1>r, <2>1, <2>2
  <2>4. QED
    BY <1>7, <2>1, <2>3 DEF P!On
<1>14. \A x : Has(t, x) <=> P!On(h, x)
  BY DEF Has, P!On, h
<1>15. \A x : Has(t, x)' <=> P!On(r, x)
  BY <1>4 DEF Has, P!On
<1>16. QED
  BY <1>3, <1>4, <1>12, <1>13, <1>14, <1>15 DEF h

\* A buffer of an operation, or of the application, goes back to the pool.
LEMMA BufferReturns ==
  ASSUME BufferPart, PoolPart, NEW b, ReleaseBuffer(b),
         Busy' = {d \in Busy : d.buffer # b}, payloads' = payloads \ {b}
  PROVE  BufferPart'
<1>0. PICK t \in Calls : \E i \in 1 .. Len(held[t]) :
        /\ held[t][i] = b
        /\ Pool!Release(t, i)
        /\ call' = [call EXCEPT ![t] = IF Len(held[t]) = 1 THEN NoCall ELSE @]
  BY DEF ReleaseBuffer
<1>1. PICK i \in 1 .. Len(held[t]) :
        /\ held[t][i] = b
        /\ Pool!Release(t, i)
        /\ call' = [call EXCEPT ![t] = IF Len(held[t]) = 1 THEN NoCall ELSE @]
  BY <1>0
<1>2. call \in [Calls -> {NoCall} \union
                         [stage : {"call", "ring", "leaked"}, channel : Channels, event : Kinds]]
  BY DEF BufferPart
<1>3. /\ Others(t) /\ step[t] = "idle" /\ step'[t] = "idle"
      /\ \A x : Has(t, x)' <=> Has(t, x) /\ x # b
      /\ Len(held[t]) = 1 => held'[t] = <<>> /\ \A x : Has(t, x) => x = b
  BY <1>1, ReleaseIs
<1>4. \A u \in Calls \ {t} : call'[u] = call[u] /\ \A x : Has(u, x)' <=> Has(u, x)
  BY <1>1, <1>2, <1>3 DEF Others, Has
<1>5. call'[t] = IF Len(held[t]) = 1 THEN NoCall ELSE call[t]
  BY <1>1, <1>2
<1>6. call' \in [Calls -> {NoCall} \union
                          [stage : {"call", "ring", "leaked"}, channel : Channels, event : Kinds]]
  BY <1>1, <1>2
<1>7. NoCall.stage = "none"
  BY DEF NoCall
<1>8. call[t] # NoCall
  <2>1. held[t] # <<>>
    <3>1. held[t] = <<>> => Len(held[t]) = 0
      OBVIOUS
    <3>2. QED
      BY <3>1
  <2>2. QED
    BY <2>1 DEF BufferPart
<1>9. \A u \in Calls : call'[u] = NoCall => held'[u] = <<>>
  BY <1>3, <1>4, <1>5, <1>8 DEF BufferPart, Others
<1>10. \A u \in Calls : call'[u].stage # "call" => step'[u] = "idle"
  BY <1>3, <1>4 DEF BufferPart, Others
<1>11. ASSUME NEW u \in Calls, call[u].stage = "ring", NEW x, Has(u, x), x # b
       PROVE  call'[u].stage = "ring" /\ Has(u, x)'
  <2>1. CASE u = t
    <3>1. Len(held[t]) # 1
      BY <1>3, <1>11, <2>1
    <3>2. QED
      BY <1>3, <1>5, <1>11, <2>1, <3>1
  <2>2. CASE u # t
    BY <1>4, <1>11, <2>2
  <2>3. QED
    BY <2>1, <2>2
<1>12. ASSUME NEW u \in Calls, call'[u].stage = "ring", NEW x, Has(u, x)'
       PROVE  call[u].stage = "ring" /\ Has(u, x)
  BY <1>3, <1>4, <1>5, <1>7, <1>12
<1>13. \A u \in Calls : \A x : Has(u, x)' /\ call'[u].stage = "ring" => x # b
  <2>1. ASSUME NEW u \in Calls, Has(u, b) PROVE u = t
    <3>1. CASE u # t
      <4>1. \A x \in DOMAIN held[u], y \in DOMAIN held[t] : held[u][x] # held[t][y]
        BY <3>1 DEF PoolPart, P!SingleOwner
      <4>2. Has(t, b)
        <5>1. held[t] \in Seq(0 .. Capacity - 1)
          BY PoolTypes
        <5>2. i \in DOMAIN held[t]
          BY <5>1, SeqIs
        <5>3. QED
          BY <1>1, <5>2 DEF Has
      <4>3. QED
        BY <2>1, <4>1, <4>2 DEF Has
    <3>2. QED
      BY <3>1
  <2>2. QED
    BY <1>3, <1>4, <2>1
<1>14. \A d \in Busy' : \E u \in Calls : call'[u].stage = "ring" /\ Has(u, d.buffer)'
  BY <1>11 DEF BufferPart
<1>15. \A x \in payloads' : \E u \in Calls : call'[u].stage = "ring" /\ Has(u, x)'
  BY <1>11 DEF BufferPart
<1>16. /\ \A d, e \in Busy' : d.buffer = e.buffer => d = e
       /\ \A d \in Busy' : d.buffer \notin payloads'
       /\ payloads' \subseteq 0 .. Capacity - 1
  BY DEF BufferPart
<1>17. ASSUME NEW u \in Calls, call'[u].stage = "ring", NEW x, Has(u, x)'
       PROVE  x \in payloads' \/ \E d \in Busy' : d.buffer = x
  <2>1. x \in payloads \/ \E d \in Busy : d.buffer = x
    BY <1>12, <1>17 DEF BufferPart
  <2>2. x # b
    BY <1>13, <1>17
  <2>3. QED
    BY <2>1, <2>2
<1>18. QED
  BY <1>6, <1>9, <1>10, <1>14, <1>15, <1>16, <1>17 DEF BufferPart

LEMMA ReleasePayloadKeeps ==
  ASSUME ClientInv, PoolPart', NEW b \in payloads, ReleasePayload(b)
  PROVE  ClientInv'
<1>1. /\ payloads' = payloads \ {b} /\ ReleaseBuffer(b)
      /\ UNCHANGED <<ring, events, dropped, channel>>
  BY DEF ReleasePayload
<1>2. RingPart /\ EventPart /\ BufferPart /\ ChannelPart /\ PoolPart
  BY DEF ClientInv
<1>3. Counts' = Counts
  BY <1>1 DEF Counts, Running, ring
<1>4. Busy' = Busy
  BY <1>3 DEF Busy
<1>5. Busy' = {d \in Busy : d.buffer # b}
  BY <1>2, <1>4 DEF BufferPart
<1>6. BufferPart'
  BY <1>1, <1>2, <1>5, BufferReturns
<1>7. RingPart'
  BY <1>1, <1>2 DEF RingPart, ring, Starts, Submitted, Completed, Running
<1>8. EventPart'
  BY <1>1, <1>2 DEF EventPart, Running, Asked, Completed, ring
<1>9. ChannelPart'
  BY <1>1, <1>2, <1>3 DEF ChannelPart, channel, Of
<1>10. QED
  BY <1>6, <1>7, <1>8, <1>9 DEF ClientInv

-----------------------------------------------------------------------------
(* Completions. *)

\* A completion leaves the batch, and its operation the ring.
LEMMA RingProcesses ==
  ASSUME RingPart, NEW x \in batch, RingMoves({}), batch' = batch \ {x},
         UNCHANGED <<cq, waking, dropped>>
  PROVE  /\ RingPart' /\ Completed' = Completed \ {x.data} /\ Submitted' = Submitted
         /\ Running' = Running \ {x.data} /\ Counts' = Counts \ {x.data}
         /\ x.data \in Completed /\ x.data \in Counts /\ x.data \in Words
<1>1. x.data \in Completed
  BY DEF Completed
<1>2. x.data \in Words /\ x.data \in Counts /\ x.data \notin Submitted /\ x.data \notin dropped
  BY <1>1, CompletedWords, RunningIs DEF RingPart
<1>3. Completed' = Completed \ {x.data}
  <2>1. \A y \in cq' \union batch' : y.data # x.data
    <3>1. ASSUME NEW y \in cq' \union batch', y.data = x.data PROVE FALSE
      <4>1. y \in cq \union batch /\ x \in cq \union batch
        BY <3>1
      <4>2. y = x
        BY <3>1, <4>1 DEF RingPart
      <4>3. QED
        BY <3>1, <4>2 DEF RingPart
    <3>2. QED
      BY <3>1
  <2>2. QED
    BY <2>1 DEF Completed
<1>4. Submitted' = Submitted
  BY DEF RingMoves
<1>5. Running' = Running \ {x.data} /\ Counts' = Counts \ {x.data}
  BY <1>2, <1>3, <1>4, RunningIs, RunningNext
<1>6. RingPart'
  BY <1>3, <1>4, <1>5 DEF RingPart, RingMoves
<1>7. QED
  BY <1>1, <1>2, <1>3, <1>4, <1>5, <1>6

\* The channel counts one operation less.
LEMMA CountedDown ==
  ASSUME ChannelPart, NEW d \in Counts, NEW c \in Channels, d.channel = c, Counts' = Counts \ {d},
         pending' = [pending EXCEPT ![c] = @ - 1]
  PROVE  /\ pending' \in [Channels -> Nat] /\ pending'[c] = pending[c] - 1
         /\ pending[c] \in Nat /\ pending[c] >= 1
         /\ \A x \in Channels : IsFiniteSet(Of(x)') /\ pending'[x] = Cardinality(Of(x)')
         /\ \A x \in Channels \ {c} : Of(x)' = Of(x)
         /\ pending[c] = 1 => Of(c)' = {}
<1>1. /\ IsFiniteSet(Of(c)) /\ pending[c] = Cardinality(Of(c)) /\ pending[c] \in Nat
      /\ pending \in [Channels -> Nat]
      /\ \A x \in Channels : IsFiniteSet(Of(x)) /\ pending[x] = Cardinality(Of(x))
  BY DEF ChannelPart
<1>2. Of(c)' = Of(c) \ {d} /\ d \in Of(c)
  BY DEF Of
<1>3. \A x \in Channels \ {c} : Of(x)' = Of(x)
  BY DEF Of
<1>4. IsFiniteSet(Of(c) \ {d}) /\ Cardinality(Of(c) \ {d}) = Cardinality(Of(c)) - 1
  BY <1>1, <1>2, FS_RemoveElement
<1>5. Cardinality(Of(c) \ {d}) \in Nat
  BY <1>4, FS_CardinalityType
<1>6. pending[c] - 1 \in Nat /\ pending[c] >= 1
  BY <1>1, <1>4, <1>5
<1>7. pending' \in [Channels -> Nat] /\ pending'[c] = pending[c] - 1
      /\ \A x \in Channels \ {c} : pending'[x] = pending[x]
  BY <1>1, <1>6
<1>8. IsFiniteSet(Of(c)') /\ Cardinality(Of(c)') = pending'[c]
  BY <1>1, <1>2, <1>4, <1>7
<1>9. pending[c] = 1 => Of(c)' = {}
  <2>1. pending[c] = 1 => Cardinality(Of(c)') = 0
    BY <1>7, <1>8
  <2>2. QED
    BY <1>8, <2>1, FS_EmptySet
<1>10. \A x \in Channels : IsFiniteSet(Of(x)') /\ pending'[x] = Cardinality(Of(x)')
  BY <1>1, <1>3, <1>7, <1>8
<1>11. QED
  BY <1>1, <1>3, <1>6, <1>7, <1>9, <1>10

LEMMA ProcessKeeps ==
  ASSUME ClientInv, PoolPart', NEW x \in batch, Process(x)
  PROVE  ClientInv'
<1> DEFINE d == x.data
           c == d.channel
           failed == active[c] /\ d.event = "read" /\ x.result # "data"
<1>1. RingPart /\ EventPart /\ BufferPart /\ ChannelPart /\ PoolPart /\ events \subseteq Running
  BY DEF ClientInv, EventPart
<1>2. /\ batch' = batch \ {x} /\ UNCHANGED <<cq, waking, dropped>>
      /\ pending' = [pending EXCEPT ![c] = @ - 1]
      /\ closer' = [closer EXCEPT ![c] = @ \/ Ended(c)]
  BY DEF Process
<1>3. \/ failed /\ ~closing[c] /\ ForceClose(c, pending[c] - 1, events \ {d})
      \/ /\ ~(failed /\ ~closing[c]) /\ events' = events \ {d}
         /\ active' = [active EXCEPT ![c] = @ /\ ~Ended(c)]
         /\ UNCHANGED <<sq, kernel, cancelled, closing, closeStage>>
  BY DEF Process, RemoveEvent, Inactive
<1>4. d \in Words /\ c \in Channels
  <2>1. d \in Words
    BY <1>1 DEF RingPart, Completions
  <2>2. QED
    BY <2>1 DEF Words
<1>5. /\ connection' \in [Channels -> {"connecting", "up", "failed"}]
      /\ \/ d.event = "connect" /\ UNCHANGED <<pool, call, payloads>>
         \/ d.event # "connect" /\ payloads' = payloads \union {d.buffer} /\ UNCHANGED <<pool, call>>
         \/ d.event # "connect" /\ ReleaseBuffer(d.buffer) /\ UNCHANGED payloads
  BY <1>1, <1>4 DEF Process, ChannelPart
<1> HIDE DEF d, failed
<1>6. IsFiniteSet(Of(c)) /\ events \ {d} \in SUBSET events
  BY <1>1, <1>4 DEF ChannelPart
<1>7. /\ RingMoves({}) /\ events' \subseteq events \ {d}
      /\ \A e \in (events \ {d}) \intersect Submitted : e \in events' \/ Asked(e)'
  <2>1. CASE failed /\ ~closing[c] /\ ForceClose(c, pending[c] - 1, events \ {d})
    BY <1>1, <1>4, <1>6, <2>1, ForceCloseMoves
  <2>2. CASE events' = events \ {d} /\ UNCHANGED <<sq, kernel, cancelled>>
    BY <1>1, <2>2, RingRests
  <2>3. QED
    BY <1>3, <2>1, <2>2
<1>8. /\ RingPart' /\ Completed' = Completed \ {d} /\ Submitted' = Submitted
      /\ Running' = Running \ {d} /\ Counts' = Counts \ {d}
      /\ d \in Completed /\ d \in Counts
  BY <1>1, <1>2, <1>7, RingProcesses DEF d
<1>9. EventPart'
  <2>1. d \notin Submitted
    BY <1>1, <1>8 DEF RingPart
  <2>2. {} \subseteq events' /\ events' \subseteq Running'
    BY <1>1, <1>7, <1>8
  <2>3. \A e \in events \intersect Submitted : e \in events' \/ Asked(e)'
    BY <1>7, <2>1
  <2>4. QED
    BY <1>1, <1>7, <2>2, <2>3, EventsKept
<1>10. BufferPart'
  <2>1. CASE d.event = "connect" /\ UNCHANGED <<pool, call, payloads>>
    <3>1. Busy' = Busy
      BY <1>8, <2>1 DEF Busy
    <3>2. \A t, b : Has(t, b)' <=> Has(t, b)
      BY <2>1 DEF Has, pool
    <3>3. step' = step /\ held' = held
      BY <2>1 DEF pool
    <3>4. QED
      BY <1>1, <2>1, <3>1, <3>2, <3>3 DEF BufferPart
  <2>2. ASSUME d.event # "connect" PROVE d \in Busy /\ Busy' = Busy \ {d}
    BY <1>8, <2>2 DEF Busy
  <2>3. CASE d.event # "connect" /\ payloads' = payloads \union {d.buffer} /\ UNCHANGED <<pool, call>>
    <3>1. \A t, b : Has(t, b)' <=> Has(t, b)
      BY <2>3 DEF Has, pool
    <3>2. step' = step /\ held' = held
      BY <2>3 DEF pool
    <3>3. d.buffer \in 0 .. Capacity - 1
      BY <1>4 DEF Words
    <3>4. d \in Busy /\ Busy' = Busy \ {d}
      BY <2>2, <2>3
    <3>5. \A b \in payloads' : \E t \in Calls : call'[t].stage = "ring" /\ Has(t, b)'
      BY <1>1, <2>3, <3>1, <3>4 DEF BufferPart
    <3>6. \A e \in Busy' : e.buffer \notin payloads'
      BY <1>1, <2>3, <3>4 DEF BufferPart
    <3>7. \A t \in Calls : call'[t].stage = "ring" =>
            \A b : Has(t, b)' => b \in payloads' \/ \E e \in Busy' : e.buffer = b
      BY <1>1, <2>3, <3>1, <3>4 DEF BufferPart
    <3>8. QED
      BY <1>1, <2>3, <3>1, <3>2, <3>3, <3>4, <3>5, <3>6, <3>7 DEF BufferPart
  <2>4. CASE d.event # "connect" /\ ReleaseBuffer(d.buffer) /\ UNCHANGED payloads
    <3>1. d \in Busy /\ Busy' = Busy \ {d}
      BY <2>2, <2>4
    <3>2. Busy' = {e \in Busy : e.buffer # d.buffer} /\ payloads' = payloads \ {d.buffer}
      BY <1>1, <2>4, <3>1 DEF BufferPart
    <3>3. QED
      BY <1>1, <2>4, <3>2, BufferReturns
  <2>5. QED
    BY <1>5, <2>1, <2>3, <2>4
<1>11. /\ pending' \in [Channels -> Nat] /\ pending'[c] = pending[c] - 1
       /\ pending[c] \in Nat /\ pending[c] >= 1
       /\ \A y \in Channels : IsFiniteSet(Of(y)') /\ pending'[y] = Cardinality(Of(y)')
       /\ \A y \in Channels \ {c} : Of(y)' = Of(y)
       /\ pending[c] = 1 => Of(c)' = {}
  BY <1>1, <1>2, <1>4, <1>8, CountedDown
<1> DEFINE e == c
<1>12. e \in Channels /\ Of(e)' \subseteq Of(e)
  BY <1>4, <1>8 DEF Of
<1>13. ChannelPart'
  <2>1. /\ closer' \in [Channels -> BOOLEAN]
        /\ closer'[e] = (closer[e] \/ Ended(e)) /\ \A y \in Channels \ {e} : closer'[y] = closer[y]
    BY <1>1, <1>2, <1>12 DEF ChannelPart
  <2>2. CASE failed /\ ~closing[c] /\ ForceClose(c, pending[c] - 1, events \ {d})
    <3>1. /\ closing' = [closing EXCEPT ![e] = TRUE] /\ active' = [active EXCEPT ![e] = FALSE]
          /\ \E stage \in {"cancelling", "failed", "finishing"} :
               /\ closeStage' = [closeStage EXCEPT ![e] = stage]
               /\ stage = "finishing" => ~(pending[e] - 1 > 0)
      BY <1>1, <1>4, <1>6, <2>2, ForceCloseMoves
    <3>2. /\ closing' \in [Channels -> BOOLEAN] /\ closing'[e] = TRUE
          /\ active' \in [Channels -> BOOLEAN] /\ active'[e] = FALSE
          /\ closeStage' \in [Channels -> CloseStages]
          /\ closeStage'[e] \in {"finishing", "closed"} => ~(pending[e] - 1 > 0)
          /\ \A y \in Channels \ {e} : /\ closing'[y] = closing[y] /\ active'[y] = active[y]
                                       /\ closeStage'[y] = closeStage[y]
      <4>1. /\ closing \in [Channels -> BOOLEAN] /\ active \in [Channels -> BOOLEAN]
            /\ closeStage \in [Channels -> CloseStages]
        BY <1>1 DEF ChannelPart
      <4>2. PICK stage \in {"cancelling", "failed", "finishing"} :
              /\ closeStage' = [closeStage EXCEPT ![e] = stage]
              /\ stage = "finishing" => ~(pending[e] - 1 > 0)
        BY <3>1
      <4>3. stage \in CloseStages /\ stage # "closed"
        BY DEF CloseStages
      <4>4. /\ closeStage' \in [Channels -> CloseStages] /\ closeStage'[e] = stage
            /\ \A y \in Channels \ {e} : closeStage'[y] = closeStage[y]
        BY <1>12, <4>1, <4>2, <4>3
      <4>5. /\ closing' \in [Channels -> BOOLEAN] /\ closing'[e] = TRUE
            /\ active' \in [Channels -> BOOLEAN] /\ active'[e] = FALSE
            /\ \A y \in Channels \ {e} : closing'[y] = closing[y] /\ active'[y] = active[y]
        BY <1>12, <3>1, <4>1
      <4>6. QED
        BY <4>2, <4>3, <4>4, <4>5
    <3>3. ~closer'[e]
      BY <1>1, <1>12, <2>1, <2>2 DEF Ended, ChannelPart
    <3>4. closeStage'[e] \in {"finishing", "closed"} => Of(e)' = {}
      <4>1. ~(pending[e] - 1 > 0) => pending[e] = 1
        BY <1>11
      <4>2. QED
        BY <1>11, <3>2, <4>1
    <3>5. ASSUME NEW y \in Channels
          PROVE  /\ active'[y] => ~closer'[y]
                 /\ closer'[y] \/ closeStage'[y] \in {"finishing", "closed"} => closing'[y] /\ Of(y)' = {}
      <4>1. CASE y = e
        BY <3>2, <3>3, <3>4, <4>1
      <4>2. CASE y # e
        BY <1>1, <1>11, <2>1, <3>2, <4>2 DEF ChannelPart
      <4>3. QED
        BY <4>1, <4>2
    <3>6. QED
      BY <1>5, <1>11, <2>1, <3>2, <3>5 DEF ChannelPart
  <2>3. CASE active' = [active EXCEPT ![c] = @ /\ ~Ended(c)] /\ UNCHANGED <<closing, closeStage>>
    <3>1. /\ active' \in [Channels -> BOOLEAN]
          /\ active'[e] = (active[e] /\ ~Ended(e))
          /\ \A y \in Channels \ {e} : active'[y] = active[y]
      BY <1>1, <1>12, <2>3 DEF ChannelPart
    <3>2. Ended(e) => closing[e] /\ Of(e)' = {}
      BY <1>11 DEF Ended
    <3>3. ASSUME NEW y \in Channels
          PROVE  /\ active'[y] => ~closer'[y]
                 /\ closer'[y] \/ closeStage'[y] \in {"finishing", "closed"} => closing'[y] /\ Of(y)' = {}
      <4>1. CASE y = e
        <5>1. /\ active[e] => ~closer[e]
              /\ closer[e] \/ closeStage[e] \in {"finishing", "closed"} => closing[e] /\ Of(e) = {}
          BY <1>1, <1>12 DEF ChannelPart
        <5>2. QED
          BY <1>12, <2>1, <2>3, <3>1, <3>2, <4>1, <5>1
      <4>2. CASE y # e
        BY <1>1, <1>11, <2>1, <2>3, <3>1, <4>2 DEF ChannelPart
      <4>3. QED
        BY <4>1, <4>2
    <3>4. QED
      BY <1>1, <1>5, <1>11, <2>1, <2>3, <3>1, <3>3 DEF ChannelPart
  <2>4. QED
    BY <1>3, <2>2, <2>3
<1>14. QED
  BY <1>8, <1>9, <1>10, <1>13 DEF ClientInv

-----------------------------------------------------------------------------
(* The theorems. *)

LEMMA ClientInitially == Init => ClientInv
<1> SUFFICES ASSUME Init PROVE ClientInv
  OBVIOUS
<1>1. PoolPart
  BY PoolInitially
<1>2. /\ sq = {} /\ kernel = {ConnectWord(c) : c \in Channels} /\ cancelled = {}
      /\ cq = {} /\ batch = {} /\ waking = FALSE /\ dropped = {}
      /\ events = {ConnectWord(c) : c \in Channels}
      /\ call = [t \in Calls |-> NoCall] /\ payloads = {}
  BY DEF Init
<1>3. \A c \in Channels : /\ ConnectWord(c) \in Words
                          /\ ConnectWord(c).channel = c /\ ConnectWord(c).event = "connect"
  BY PoolAssumption DEF ConnectWord, Word, Words
<1>4. Starts = {} /\ Completed = {} /\ Submitted = kernel
  BY <1>2 DEF Starts, Completed, Submitted
<1>5. Running = kernel /\ Counts = kernel
  BY <1>2, <1>4, RunningIs DEF Counts
<1>6. IsFiniteSet(sq) /\ Cardinality(sq) = 0
  BY <1>2, FS_EmptySet
<1>7. RingPart
  <2>1. kernel \subseteq Words
    BY <1>2, <1>3
  <2>2. Cardinality(sq) <= RingSize
    BY <1>6, RingAssumption
  <2>3. /\ sq \subseteq [op : {"start", "cancel"}, data : Words]
        /\ cancelled \subseteq kernel /\ cq \subseteq Completions /\ batch \subseteq Completions
        /\ waking \in BOOLEAN /\ (~waking => batch = {}) /\ cq \intersect batch = {}
        /\ \A x, y \in cq \union batch : x.data = y.data => x = y
        /\ dropped \subseteq Words /\ dropped \intersect Running = {}
    BY <1>2
  <2>4. kernel \intersect Starts = {} /\ Submitted \intersect Completed = {}
    BY <1>4
  <2>5. QED
    BY <1>6, <2>1, <2>2, <2>3, <2>4 DEF RingPart
<1>8. Busy = {}
  BY <1>2, <1>3, <1>5 DEF Busy
<1>9. P!Init
  BY SamePoolSpec DEF Init
<1>10. step = [t \in Calls |-> "idle"] /\ held = [t \in Calls |-> <<>>]
  BY <1>9 DEF P!Init
<1>11. BufferPart
  <2>1. \A t \in Calls : call[t] = NoCall /\ call[t].stage = "none"
    BY <1>2 DEF NoCall
  <2>2. QED
    BY <1>2, <1>8, <1>10, <2>1 DEF BufferPart
<1>12. EventPart
  BY <1>2, <1>5 DEF EventPart
<1>13. ASSUME NEW c \in Channels PROVE IsFiniteSet(Of(c)) /\ Cardinality(Of(c)) = 1
  <2>1. Of(c) = {ConnectWord(c)}
    BY <1>2, <1>3, <1>5 DEF Of
  <2>2. QED
    BY <2>1, FS_Singleton
<1>14. /\ connection = [c \in Channels |-> "connecting"]
       /\ pending = [c \in Channels |-> 1]
       /\ active = [c \in Channels |-> TRUE]
       /\ closing = [c \in Channels |-> FALSE]
       /\ closer = [c \in Channels |-> FALSE]
       /\ closeStage = [c \in Channels |-> "open"]
  BY DEF Init
<1>15. ChannelPart
  BY <1>13, <1>14 DEF ChannelPart, CloseStages
<1>16. QED
  BY <1>1, <1>7, <1>11, <1>12, <1>15 DEF ClientInv

LEMMA ClientStays == ClientInv /\ [Next]_vars => ClientInv'
<1> SUFFICES ASSUME ClientInv, [Next]_vars PROVE ClientInv'
  OBVIOUS
<1>0. PoolPart'
  BY PoolStays DEF ClientInv
<1>1. ASSUME NEW t \in Calls, NEW c \in Channels, NEW k \in Kinds, NEW n \in 1 .. MaxCount,
             Start(t, c, k, n)
      PROVE  ClientInv'
  BY <1>0, <1>1, StartKeeps
<1>2. ASSUME NEW t \in Calls, Resume(t) \/ Return(t) PROVE ClientInv'
  BY <1>0, <1>2, ResumeKeeps, ReturnKeeps
<1>3. ASSUME NEW b \in payloads, ReleasePayload(b) PROVE ClientInv'
  BY <1>0, <1>3, ReleasePayloadKeeps
<1>4. ASSUME NEW c \in Channels, Close(c) \/ CloseGracefully(c) \/ GracefulTimeout(c) \/ Finish(c)
      PROVE  ClientInv'
  BY <1>0, <1>4, CloseKeeps, CloseGracefullyKeeps, GracefulTimeoutKeeps, FinishKeeps
<1>5. ASSUME AwakeBegin PROVE ClientInv'
  BY <1>0, <1>5, AwakeBeginKeeps
<1>6. ASSUME NEW x \in batch, Process(x) PROVE ClientInv'
  BY <1>0, <1>6, ProcessKeeps
<1>7. ASSUME AwakeComplete PROVE ClientInv'
  BY <1>0, <1>7, AwakeCompleteKeeps
<1>8. ASSUME CheckTimeouts PROVE ClientInv'
  BY <1>0, <1>8, CheckTimeoutsKeeps
<1>9. ASSUME NEW d \in kernel, KernelComplete(d) PROVE ClientInv'
  BY <1>0, <1>9, KernelCompleteKeeps
<1>10. ASSUME UNCHANGED vars PROVE ClientInv'
  <2>1. /\ UNCHANGED <<call, sq, kernel, cancelled, cq, batch, waking, events, dropped, payloads>>
        /\ UNCHANGED <<connection, pending, active, closing, closer, closeStage, step, held>>
    BY <1>10 DEF vars, pool, ring, channel
  <2>2. Starts' = Starts /\ Completed' = Completed /\ Running' = Running
    BY <2>1 DEF Starts, Completed, Running
  <2>3. Submitted' = Submitted /\ Counts' = Counts
    BY <2>1, <2>2 DEF Submitted, Counts
  <2>4. Busy' = Busy /\ (\A c : Of(c)' = Of(c)) /\ (\A t, b : Has(t, b)' <=> Has(t, b))
        /\ \A d : Asked(d)' <=> Asked(d)
    BY <2>1, <2>3 DEF Busy, Of, Has, Asked
  <2>5. RingPart'
    BY <2>1, <2>2, <2>3 DEF ClientInv, RingPart
  <2>6. BufferPart'
    BY <2>1, <2>4 DEF ClientInv, BufferPart
  <2>7. EventPart'
    BY <2>1, <2>2, <2>4 DEF ClientInv, EventPart
  <2>8. ChannelPart'
    BY <2>1, <2>4 DEF ClientInv, ChannelPart
  <2>9. QED
    BY <1>0, <2>5, <2>6, <2>7, <2>8 DEF ClientInv
<1>11. QED
  BY <1>1, <1>2, <1>3, <1>4, <1>5, <1>6, <1>7, <1>8, <1>9, <1>10 DEF Next

\* A buffer with an operation or the application is held by a call: it is not free
\* (SingleOwner of the pool), and nobody else's.
LEMMA Exclusively == ClientInv => BufferExclusive
<1> SUFFICES ASSUME ClientInv PROVE BufferExclusive
  OBVIOUS
<1>1. BufferPart /\ P!SingleOwner
  BY DEF ClientInv, PoolPart
<1>2. ASSUME NEW t \in Calls, NEW b, Has(t, b) PROVE \A i \in DOMAIN ids : ids[i] # b
  BY <1>1, <1>2 DEF P!SingleOwner, Has
<1>3. \A d \in Running : d.event # "connect" => d \in Busy
  BY DEF Busy, Counts
<1>4. \A d \in Busy : \A i \in DOMAIN ids : ids[i] # d.buffer
  BY <1>1, <1>2 DEF BufferPart
<1>5. \A b \in payloads : \A i \in DOMAIN ids : ids[i] # b
  BY <1>1, <1>2 DEF BufferPart
<1>6. \A d \in Busy : d.buffer \notin payloads /\ \A x \in Busy : x.buffer = d.buffer => x = d
  BY <1>1 DEF BufferPart
<1>7. QED
  BY <1>3, <1>4, <1>5, <1>6 DEF BufferExclusive

\* No buffer leaves the pool but into a call (NothingLost of the pool), and what a
\* call holds is where BufferPart says.
LEMMA Accounted == ClientInv => BuffersAccounted
<1> SUFFICES ASSUME ClientInv, NEW b \in 0 .. Capacity - 1
             PROVE  \/ \E i \in DOMAIN ids : ids[i] = b
                    \/ \E d \in Running \union dropped : d.buffer = b /\ d.event # "connect"
                    \/ b \in payloads
                    \/ \E t \in Calls : /\ call[t].stage \in {"call", "leaked"}
                                        /\ \E i \in DOMAIN held[t] : held[t][i] = b
  BY DEF BuffersAccounted
<1>1. BufferPart /\ P!NothingLost
  BY DEF ClientInv, PoolPart
<1>2. (\E i \in DOMAIN ids : ids[i] = b) \/ \E t \in Calls : Has(t, b)
  BY <1>1, PoolAssumption DEF P!NothingLost, P!NoneLost, P!Buffers, Has
<1>3. ASSUME NEW t \in Calls, Has(t, b), call[t].stage \notin {"call", "leaked"}
      PROVE  b \in payloads \/ \E d \in Busy : d.buffer = b
  <2>1. call[t] # NoCall
    BY <1>1, <1>3 DEF BufferPart, Has
  <2>2. call[t].stage = "ring"
    BY <1>1, <1>3, <2>1 DEF BufferPart
  <2>3. QED
    BY <1>1, <1>3, <2>2 DEF BufferPart
<1>4. QED
  BY <1>2, <1>3 DEF Has, Busy, Counts

LEMMA Typed == ClientInv => TypeOK
<1> SUFFICES ASSUME ClientInv PROVE TypeOK
  OBVIOUS
<1>1. Pool!TypeOK
  BY SamePoolSpec DEF ClientInv, PoolPart, P!PoolInv
<1>2. Running \subseteq Words
  <2>1. Submitted \subseteq Words /\ Completed \subseteq Words
    BY DEF ClientInv, RingPart, Submitted, Starts, Completed, Completions
  <2>2. QED
    BY <2>1, RunningIs
<1>3. QED
  BY <1>1, <1>2 DEF TypeOK, ClientInv, RingPart, BufferPart, EventPart, ChannelPart

\* Whatever the order of calls, completions, timeouts and close(): the kernel never
\* works on a buffer that is free or with the application, no two operations share
\* one, and every buffer is in one of the places the code knows, but for the two
\* leaks that BuffersAccounted names (client.dart, provider.dart, buffers.dart).
THEOREM BuffersSafe == Spec => []BuffersInv
<1>1. ClientInv => BuffersInv
  BY Typed, Exclusively, Accounted DEF BuffersInv
<1>2. QED
  BY ClientInitially, ClientStays, <1>1, PTL DEF Spec

LEMMA OperationsAgree == ClientInv => OperationsInv
<1> SUFFICES ASSUME ClientInv PROVE OperationsInv
  OBVIOUS
<1>1. EventPart /\ ChannelPart
  BY DEF ClientInv
<1>2. PendingExact
  <2>1. \A c \in Channels : pending[c] = Cardinality(Of(c))
    BY <1>1 DEF ChannelPart
  <2>2. QED
    BY <2>1 DEF PendingExact, Of, Counts
<1>3. Cancellable
  <2>1. \A d \in Completed : \E x \in cq \union batch : x.data = d
    BY DEF Completed
  <2>2. QED
    BY <1>1, <2>1 DEF Cancellable, EventPart, Asked
<1>4. EventsRun /\ CloserOnce
  BY <1>1 DEF EventsRun, CloserOnce, EventPart, ChannelPart
<1>5. DestroyedIsQuiet
  <2>1. ASSUME NEW c \in Channels, closeStage[c] = "closed" \/ closer[c] PROVE Of(c) = {}
    BY <1>1, <2>1 DEF ChannelPart
  <2>2. QED
    BY <2>1 DEF DestroyedIsQuiet, Of, Counts
<1>6. QED
  BY <1>2, <1>3, <1>4, <1>5 DEF OperationsInv

\* _pending counts exactly the operations that will be notified and those a full
\* ring dropped; what runs can be cancelled or was asked to; the map of events holds
\* nothing that is over; _closer is completed once, and a channel is destroyed only
\* when no operation of it is left in the ring (client.dart, transport.c).
THEOREM OperationsSafe == Spec => []OperationsInv
  BY ClientInitially, ClientStays, OperationsAgree, PTL DEF Spec

-----------------------------------------------------------------------------
(* The promise to the callers. *)

Stages == [c \in Channels |-> IF closeStage[c] = "closed" THEN "closed"
                              ELSE IF closing[c] THEN "closing" ELSE "open"]

Kept == [Promise!Next]_(Promise!vars)

LEMMA PromiseRests ==
  ASSUME Counts' = Counts, payloads' = payloads, Stages' = Stages
  PROVE  Kept
  BY DEF Kept, Promise!vars, Counts, Stages

LEMMA PromiseBegins ==
  ASSUME NEW c \in Channels, Stages[c] = "open", Counts \subseteq Counts', Counts' # Counts,
         \A d \in Counts' \ Counts :
           d \in Words /\ d.channel = c /\ d.event # "connect" /\ d.buffer \notin payloads,
         \A d \in Counts' \ Counts, x \in Counts' : x.event # "connect" /\ x.buffer = d.buffer => x = d,
         payloads' = payloads, Stages' = Stages
  PROVE  Kept
<1>1. Counts' \ Counts # {}
  OBVIOUS
<1>2. Promise!Begin(c)
  BY <1>1 DEF Promise!Begin, Promise!Buffered, Counts, Stages
<1>3. QED
  BY <1>2 DEF Kept, Promise!Next

LEMMA PromiseCompletes ==
  ASSUME NEW d \in Counts, d.channel \in Channels, Stages[d.channel] # "closed", Counts' = Counts \ {d},
         \/ payloads' = payloads /\ Stages' = Stages
         \/ /\ d.event \in {"read", "receive"}
            /\ payloads' = payloads \union {d.buffer} /\ Stages' = Stages
         \/ /\ d.event = "read" /\ Stages[d.channel] = "open"
            /\ Stages' = [Stages EXCEPT ![d.channel] = "closing"] /\ payloads' = payloads
  PROVE  Kept
<1>1. Promise!Complete(d)
  BY DEF Promise!Complete, Counts, Stages
<1>2. QED
  BY <1>1 DEF Kept, Promise!Next, Counts

LEMMA PromiseCloses ==
  ASSUME NEW c \in Channels, Counts' = Counts, payloads' = payloads,
         Stages[c] = "open", Stages' = [Stages EXCEPT ![c] = "closing"]
  PROVE  Kept
<1>1. Promise!Close(c)
  BY DEF Promise!Close, Counts, Stages
<1>2. QED
  BY <1>1 DEF Kept, Promise!Next

LEMMA PromiseDestroys ==
  ASSUME NEW c \in Channels, Counts' = Counts, payloads' = payloads, Of(c) = {},
         Stages[c] = "closing", Stages' = [Stages EXCEPT ![c] = "closed"]
  PROVE  Kept
<1>1. \A d \in Counts : d.channel # c
  BY DEF Of
<1>2. Promise!Destroy(c)
  BY <1>1 DEF Promise!Destroy, Counts, Stages
<1>3. QED
  BY <1>2 DEF Kept, Promise!Next

\* Closing a channel that was not closing shows in its stage, and nowhere else.
LEMMA StageCloses ==
  ASSUME ChannelPart, NEW c \in Channels, ~closing[c], closing' = [closing EXCEPT ![c] = TRUE],
         NEW s \in CloseStages \ {"closed"}, closeStage' = [closeStage EXCEPT ![c] = s]
  PROVE  Stages[c] = "open" /\ Stages' = [Stages EXCEPT ![c] = "closing"]
<1>1. closing \in [Channels -> BOOLEAN] /\ closeStage \in [Channels -> CloseStages]
  BY DEF ChannelPart
<1>2. closeStage[c] # "closed"
  BY DEF ChannelPart
<1>3. Stages[c] = "open"
  BY <1>2 DEF Stages
<1>4. closing'[c] = TRUE /\ closeStage'[c] # "closed"
  BY <1>1
<1>5. \A x \in Channels \ {c} : closing'[x] = closing[x] /\ closeStage'[x] = closeStage[x]
  BY <1>1
<1>6. Stages' = [Stages EXCEPT ![c] = "closing"]
  BY <1>4, <1>5 DEF Stages
<1>7. QED
  BY <1>3, <1>6

\* What io_uring_submit, now or at the end of the batch, adds to the ring.
LEMMA SubmitAdds ==
  ASSUME RingPart, NEW words \in SUBSET Words, Submit(Entries("start", words))
  PROVE  Submitted' = Submitted \union words
<1>1. CASE ~waking
  <2>1. RingMoves(words)
    BY <1>1, FlushMoves DEF Submit
  <2>2. QED
    BY <2>1 DEF RingMoves
<1>2. CASE waking
  <2>1. sq' = sq \union Entries("start", words) /\ kernel' = kernel
    BY <1>2 DEF Submit
  <2>2. sq \subseteq [op : {"start", "cancel"}, data : Words]
    BY DEF RingPart
  <2>3. \A e \in Entries("start", words) : e.op = "start" /\ e.data \in words
    BY DEF Entries
  <2>4. \A w \in words : \E e \in Entries("start", words) : e.op = "start" /\ e.data = w
    <3>1. ASSUME NEW w \in words
          PROVE  [op |-> "start", data |-> w] \in Entries("start", words)
      BY EntriesAre
    <3>2. QED
      BY <3>1
  <2>5. \A w : w \in Starts' <=> \E e \in sq' : e.op = "start" /\ e.data = w
    BY DEF Starts
  <2>6. \A w : w \in Starts <=> \E e \in sq : e.op = "start" /\ e.data = w
    BY DEF Starts
  <2>7. Starts' = Starts \union words
    BY <2>1, <2>3, <2>4, <2>5, <2>6
  <2>8. QED
    BY <2>1, <2>7 DEF Submitted
<1>3. QED
  BY <1>1, <1>2

LEMMA ProceedPromises ==
  ASSUME ClientInv, ClientInv', NEW t \in Calls, NEW c \in Channels, NEW k \in Kinds, Proceed(t, c, k),
         UNCHANGED <<cq, batch, payloads, closing, closeStage>>
  PROVE  Kept
<1>1. Stages' = Stages /\ Completed' = Completed
  BY DEF Stages, Completed
<1>2. CASE closing[c]
  <2>1. UNCHANGED <<sq, kernel, dropped>>
    BY <1>2 DEF Proceed
  <2>2. Counts' = Counts
    BY <2>1 DEF Counts, Running
  <2>3. QED
    BY <1>1, <2>2, PromiseRests
<1>3. CASE ~closing[c]
  <2> DEFINE h == held'[t]
             fit == Fewest(Len(h), Slots)
             new == {Word(c, k, h[i]) : i \in 1 .. fit}
             lost == {Word(c, k, h[i]) : i \in fit + 1 .. Len(h)}
  <2>1. dropped' = dropped \union lost /\ Submit(Entries("start", new))
    BY <1>3 DEF Proceed
  <2>2. h \in Seq(0 .. Capacity - 1)
    BY PoolTypesNext DEF ClientInv
  <2>3. Len(h) \in Nat /\ DOMAIN h = 1 .. Len(h) /\ \A i \in DOMAIN h : h[i] \in 0 .. Capacity - 1
    <3> HIDE DEF h
    <3>1. QED
      BY <2>2, SeqIs
  <2>4. fit \in 0 .. Len(h)
    <3>1. Slots \in Nat
      BY SlotsIs DEF ClientInv
    <3>2. QED
      BY <2>3, <3>1, FewestIs
  <2>5. \A i \in 1 .. Len(h) : /\ Word(c, k, h[i]) \in Words /\ Word(c, k, h[i]).channel = c
                                /\ Word(c, k, h[i]).event # "connect"
    BY <2>3, WordIs
  <2> HIDE DEF h
  <2>6. \A w \in new \union lost : w \in Words /\ w.channel = c /\ w.event # "connect"
    BY <2>3, <2>4, <2>5
  <2> HIDE DEF new, lost
  <2>7. Submitted' = Submitted \union new
    BY <2>1, <2>6, SubmitAdds DEF ClientInv
  <2>8. Counts' = Counts \union new \union lost
    BY <1>1, <2>1, <2>7, RunningIs, RunningNext
  <2>9. Stages[c] = "open"
    BY <1>3 DEF Stages, ClientInv, ChannelPart
  <2>10. \A x \in Counts' : x.event # "connect" =>
           x.buffer \notin payloads' /\ \A y \in Counts' : y.event # "connect" /\ y.buffer = x.buffer => y = x
    BY DEF ClientInv, BufferPart, Busy
  <2>11. CASE Counts' = Counts
    BY <1>1, <2>11, PromiseRests
  <2>12. CASE Counts' # Counts
    <3>1. \A d \in Counts' \ Counts :
            d \in Words /\ d.channel = c /\ d.event # "connect" /\ d.buffer \notin payloads
      BY <2>6, <2>8, <2>10
    <3>2. \A d \in Counts' \ Counts, x \in Counts' : x.event # "connect" /\ x.buffer = d.buffer => x = d
      BY <2>10, <3>1
    <3>3. Counts \subseteq Counts'
      BY <2>8
    <3>4. QED
      BY <1>1, <2>9, <2>12, <3>1, <3>2, <3>3, PromiseBegins
  <2>13. QED
    BY <2>11, <2>12
<1>4. QED
  BY <1>2, <1>3

\* Steps that show neither in the ring's content nor in a channel's stage.
LEMMA QuietPromises ==
  ASSUME UNCHANGED <<sq, kernel, cq, batch, dropped, payloads, closing, closeStage>>
  PROVE  Kept
<1>1. Counts' = Counts /\ Stages' = Stages
  BY DEF Counts, Running, Stages
<1>2. QED
  BY <1>1, PromiseRests

\* The executor's steps move operations along the ring.
LEMMA ExecutorPromises ==
  ASSUME ClientInv, AwakeBegin \/ AwakeComplete \/ CheckTimeouts
  PROVE  Kept
<1>1. RingPart /\ events \subseteq Running
  BY DEF ClientInv, EventPart
<1>2. payloads' = payloads /\ Stages' = Stages /\ dropped' = dropped
  BY DEF AwakeBegin, AwakeComplete, CheckTimeouts, channel, Stages
<1>3. CASE AwakeBegin
  <2>1. Flushed(sq) /\ batch' = cq /\ cq' = {} /\ batch = {}
    BY <1>1, <1>3 DEF AwakeBegin, RingPart
  <2>2. Submitted' = Submitted /\ Completed' = Completed
    BY <1>1, <2>1, FlushQueue DEF RingMoves, Completed
  <2>3. QED
    BY <1>2, <2>2, RunningIs, RunningNext, PromiseRests
<1>4. CASE AwakeComplete
  <2>1. Flushed(sq) /\ batch' = batch /\ cq' = cq
    BY <1>4 DEF AwakeComplete
  <2>2. Submitted' = Submitted /\ Completed' = Completed
    BY <1>1, <2>1, FlushQueue DEF RingMoves, Completed
  <2>3. QED
    BY <1>2, <2>2, RunningIs, RunningNext, PromiseRests
<1>5. CASE CheckTimeouts
  <2>1. ~waking /\ batch' = batch /\ cq' = cq
    BY <1>5 DEF CheckTimeouts
  <2>2. PICK expired \in SUBSET events : Submit(Entries("cancel", expired))
    BY <1>5 DEF CheckTimeouts
  <2>3. expired \subseteq Words
    BY <1>1, CompletedWords
  <2>4. RingMoves({})
    BY <1>1, <2>1, <2>2, <2>3, SubmitMoves
  <2>5. Submitted' = Submitted /\ Completed' = Completed
    BY <2>1, <2>4 DEF RingMoves, Completed
  <2>6. QED
    BY <1>2, <2>5, RunningIs, RunningNext, PromiseRests
<1>6. QED
  BY <1>3, <1>4, <1>5

\* The kernel completes an operation: it is owed until its completion is processed.
LEMMA KernelPromises ==
  ASSUME NEW d \in kernel, KernelComplete(d)
  PROVE  Kept
<1>1. /\ kernel' = kernel \ {d}
      /\ UNCHANGED <<sq, batch, dropped, payloads, closing, closeStage>>
  BY DEF KernelComplete, channel
<1>2. PICK result \in Results : cq' = cq \union {[data |-> d, result |-> result]}
  BY DEF KernelComplete
<1> DEFINE x == [data |-> d, result |-> result]
<1>x. x.data = d /\ cq' = cq \union {x}
  BY <1>2
<1> HIDE DEF x
<1>3. Completed' = Completed \union {d}
  BY <1>1, <1>x DEF Completed
<1>4. Submitted' \union {d} = Submitted
  BY <1>1 DEF Submitted, Starts
<1>5. Counts' = Counts
  BY <1>1, <1>3, <1>4, RunningIs, RunningNext
<1>6. QED
  BY <1>1, <1>5, PromiseRests DEF Stages

\* A channel begins to close, by its application or after its graceful timeout.
LEMMA ClosePromises ==
  ASSUME ClientInv, NEW c \in Channels, Close(c) \/ GracefulTimeout(c)
  PROVE  Kept
<1>1. RingPart /\ ChannelPart /\ events \subseteq Running /\ IsFiniteSet(Of(c))
  BY DEF ClientInv, EventPart, ChannelPart
<1>2. UNCHANGED <<cq, batch, waking, dropped, payloads>>
  BY DEF Close, GracefulTimeout
<1>3. CASE Close(c)
  <2>1. ~closing[c] /\ ForceClose(c, pending[c], events)
    BY <1>3 DEF Close
  <2>2. /\ RingMoves({}) /\ closing' = [closing EXCEPT ![c] = TRUE]
        /\ \E s \in {"cancelling", "failed", "finishing"} : closeStage' = [closeStage EXCEPT ![c] = s]
    BY <1>1, <2>1, ForceCloseMoves
  <2>3. PICK s \in {"cancelling", "failed", "finishing"} : closeStage' = [closeStage EXCEPT ![c] = s]
    BY <2>2
  <2>4. s \in CloseStages \ {"closed"}
    BY DEF CloseStages
  <2>5. Counts' = Counts
    BY <1>1, <1>2, <2>2, CountsKept
  <2>6. Stages[c] = "open" /\ Stages' = [Stages EXCEPT ![c] = "closing"]
    BY <1>1, <2>1, <2>2, <2>3, <2>4, StageCloses
  <2>7. QED
    BY <1>2, <2>5, <2>6, PromiseCloses
<1>4. CASE GracefulTimeout(c)
  <2>1. closeStage[c] = "graceful" /\ CancelByFd(c, events) /\ closing' = closing
    BY <1>4 DEF GracefulTimeout
  <2>2. /\ RingMoves({})
        /\ \E s \in {"cancelling", "failed"} : closeStage' = [closeStage EXCEPT ![c] = s]
    BY <1>1, <2>1, CancelMoves
  <2>3. closeStage \in [Channels -> CloseStages]
    BY <1>1 DEF ChannelPart
  <2>4. /\ closeStage'[c] # "closed"
        /\ \A x \in Channels \ {c} : closeStage'[x] = closeStage[x]
    BY <2>2, <2>3
  <2>5. Stages' = Stages
    BY <2>1, <2>4 DEF Stages
  <2>6. Counts' = Counts
    BY <1>1, <1>2, <2>2, CountsKept
  <2>7. QED
    BY <1>2, <2>5, <2>6, PromiseRests
<1>5. QED
  BY <1>3, <1>4

LEMMA GracefullyPromises ==
  ASSUME ClientInv, NEW c \in Channels, CloseGracefully(c)
  PROVE  Kept
<1>1. /\ ~closing[c] /\ closing' = [closing EXCEPT ![c] = TRUE]
      /\ closeStage' = [closeStage EXCEPT ![c] = "graceful"]
      /\ UNCHANGED <<ring, dropped, payloads>>
  BY DEF CloseGracefully
<1>2. Stages[c] = "open" /\ Stages' = [Stages EXCEPT ![c] = "closing"]
  BY <1>1, StageCloses DEF ClientInv, CloseStages
<1>3. Counts' = Counts
  BY <1>1 DEF Counts, Running, ring
<1>4. QED
  BY <1>1, <1>2, <1>3, PromiseCloses

\* A channel is destroyed once, and when nothing of it is owed.
LEMMA FinishPromises ==
  ASSUME ClientInv, NEW c \in Channels, Finish(c)
  PROVE  Kept
<1>1. /\ closeStage[c] = "finishing" \/ (closeStage[c] \in {"graceful", "cancelling"} /\ closer[c])
      /\ closeStage' = [closeStage EXCEPT ![c] = "closed"]
      /\ UNCHANGED <<ring, dropped, payloads, closing>>
  BY DEF Finish
<1>2. closing[c] /\ Of(c) = {} /\ closeStage \in [Channels -> CloseStages]
  BY <1>1 DEF ClientInv, ChannelPart
<1>3. Stages[c] = "closing" /\ Stages' = [Stages EXCEPT ![c] = "closed"]
  BY <1>1, <1>2 DEF Stages
<1>4. Counts' = Counts
  BY <1>1 DEF Counts, Running, ring
<1>5. QED
  BY <1>1, <1>2, <1>3, <1>4, PromiseDestroys

LEMMA ReleasePromises ==
  ASSUME NEW b \in payloads, ReleasePayload(b)
  PROVE  Kept
<1>1. payloads' = payloads \ {b} /\ UNCHANGED <<ring, dropped, channel>>
  BY DEF ReleasePayload
<1>2. Counts' = Counts /\ Stages' = Stages
  BY <1>1 DEF Counts, Running, ring, Stages, channel
<1>3. Promise!GiveBack(b)
  BY <1>1, <1>2 DEF Promise!GiveBack, Counts, Stages
<1>4. QED
  BY <1>3 DEF Kept, Promise!Next

\* A completion is processed: its operation was owed, and its channel is not destroyed.
LEMMA ProcessPromises ==
  ASSUME ClientInv, NEW x \in batch, Process(x)
  PROVE  Kept
<1> DEFINE d == x.data
           c == d.channel
           arrived == active[c] /\ d.event \in {"read", "receive"} /\ x.result = "data"
           failed == active[c] /\ d.event = "read" /\ x.result # "data"
<1>1. RingPart /\ ChannelPart /\ events \subseteq Running
  BY DEF ClientInv, EventPart
<1>2. d \in Words /\ c \in Channels
  <2>1. d \in Words
    BY <1>1 DEF RingPart, Completions
  <2>2. QED
    BY <2>1 DEF Words
<1>3. batch' = batch \ {x} /\ UNCHANGED <<cq, waking, dropped>>
  BY DEF Process
<1>4. \/ ~arrived /\ payloads' = payloads
      \/ arrived /\ payloads' = payloads \union {d.buffer}
  BY DEF Process
<1>5. \/ failed /\ ~closing[c] /\ ForceClose(c, pending[c] - 1, events \ {d})
      \/ ~(failed /\ ~closing[c]) /\ UNCHANGED <<sq, kernel, cancelled, closing, closeStage>>
  BY DEF Process, RemoveEvent
<1>6. arrived => d.event \in {"read", "receive"} /\ ~failed
  OBVIOUS
<1>7. failed => d.event = "read"
  OBVIOUS
<1> HIDE DEF d, arrived, failed
<1>8. IsFiniteSet(Of(c)) /\ events \ {d} \in SUBSET events
  BY <1>1, <1>2 DEF ChannelPart
<1>9. CASE failed /\ ~closing[c] /\ ForceClose(c, pending[c] - 1, events \ {d})
  <2>1. /\ RingMoves({}) /\ closing' = [closing EXCEPT ![c] = TRUE]
        /\ \E s \in {"cancelling", "failed", "finishing"} : closeStage' = [closeStage EXCEPT ![c] = s]
    BY <1>1, <1>2, <1>8, <1>9, ForceCloseMoves
  <2>2. PICK s \in {"cancelling", "failed", "finishing"} : closeStage' = [closeStage EXCEPT ![c] = s]
    BY <2>1
  <2>3. s \in CloseStages \ {"closed"}
    BY DEF CloseStages
  <2>4. Stages[c] = "open" /\ Stages' = [Stages EXCEPT ![c] = "closing"]
    BY <1>1, <1>2, <1>9, <2>1, <2>2, <2>3, StageCloses
  <2>5. Counts' = Counts \ {d} /\ d \in Counts
    BY <1>1, <1>3, <2>1, RingProcesses DEF d
  <2>6. payloads' = payloads /\ d.event = "read"
    BY <1>4, <1>6, <1>7, <1>9
  <2>7. QED
    BY <1>2, <2>4, <2>5, <2>6, PromiseCompletes
<1>10. CASE UNCHANGED <<sq, kernel, cancelled, closing, closeStage>>
  <2>1. Counts' = Counts \ {d} /\ d \in Counts
    BY <1>1, <1>3, <1>10, RingRests, RingProcesses DEF d
  <2>2. Stages' = Stages
    BY <1>10 DEF Stages
  <2>3. d \in Of(c)
    BY <2>1 DEF Of
  <2>4. Stages[c] # "closed"
    BY <1>1, <1>2, <2>3 DEF Stages, ChannelPart
  <2>5. QED
    BY <1>2, <1>4, <1>6, <2>1, <2>2, <2>4, PromiseCompletes
<1>11. QED
  BY <1>5, <1>9, <1>10

LEMMA PromiseInitially == Init => Promise!Init
<1> SUFFICES ASSUME Init PROVE Promise!Init
  OBVIOUS
<1>1. /\ sq = {} /\ kernel = {ConnectWord(c) : c \in Channels} /\ cq = {} /\ batch = {} /\ dropped = {}
      /\ payloads = {} /\ closing = [c \in Channels |-> FALSE] /\ closeStage = [c \in Channels |-> "open"]
  BY DEF Init
<1>2. Counts = kernel
  BY <1>1 DEF Counts, Running
<1>3. \A c \in Channels : ConnectWord(c) \in Words /\ ConnectWord(c).event = "connect"
  BY PoolAssumption DEF ConnectWord, Word, Words
<1>4. Counts \subseteq {d \in Words : d.event = "connect"}
  BY <1>1, <1>2, <1>3
<1>5. Stages = [c \in Channels |-> "open"]
  BY <1>1 DEF Stages
<1>6. QED
  BY <1>1, <1>4, <1>5 DEF Promise!Init, Promise!Buffered, Counts, Stages

LEMMA StepPromises == ClientInv /\ ClientInv' /\ [Next]_vars => Kept
<1> SUFFICES ASSUME ClientInv, ClientInv', [Next]_vars PROVE Kept
  OBVIOUS
<1>1. ASSUME NEW t \in Calls, NEW c \in Channels, NEW k \in Kinds, NEW n, Start(t, c, k, n)
      PROVE  Kept
  <2>1. UNCHANGED <<cq, batch, payloads, closing, closeStage>>
    BY <1>1 DEF Start
  <2>2. Proceed(t, c, k) \/ UNCHANGED <<sq, kernel, dropped>>
    BY <1>1 DEF Start
  <2>3. QED
    BY <2>1, <2>2, ProceedPromises, QuietPromises
<1>2. ASSUME NEW t \in Calls, Return(t) PROVE Kept
  <2>1. call[t].stage = "call" /\ Proceed(t, call[t].channel, call[t].event)
        /\ UNCHANGED <<cq, batch, payloads, closing, closeStage>>
    BY <1>2 DEF Return
  <2>2. call[t] \in {NoCall} \union
                    [stage : {"call", "ring", "leaked"}, channel : Channels, event : Kinds]
    BY DEF ClientInv, BufferPart
  <2>3. call[t].channel \in Channels /\ call[t].event \in Kinds
    BY <2>1, <2>2 DEF NoCall
  <2>4. QED
    BY <2>1, <2>3, ProceedPromises
<1>3. ASSUME NEW t \in Calls, Resume(t) PROVE Kept
  BY <1>3, QuietPromises DEF Resume, ring, channel
<1>4. ASSUME NEW b \in payloads, ReleasePayload(b) PROVE Kept
  BY <1>4, ReleasePromises
<1>5. ASSUME NEW c \in Channels, Close(c) \/ CloseGracefully(c) \/ GracefulTimeout(c) \/ Finish(c)
      PROVE  Kept
  BY <1>5, ClosePromises, GracefullyPromises, FinishPromises
<1>6. ASSUME AwakeBegin \/ AwakeComplete \/ CheckTimeouts PROVE Kept
  BY <1>6, ExecutorPromises
<1>7. ASSUME NEW x \in batch, Process(x) PROVE Kept
  BY <1>7, ProcessPromises
<1>8. ASSUME NEW d \in kernel, KernelComplete(d) PROVE Kept
  BY <1>8, KernelPromises
<1>9. ASSUME UNCHANGED vars PROVE Kept
  BY <1>9, QuietPromises DEF vars, ring, channel
<1>10. QED
  BY <1>1, <1>2, <1>3, <1>4, <1>5, <1>6, <1>7, <1>8, <1>9 DEF Next

\* For every number of calls, channels and buffers and every size of the ring:
\* operations are completed at most once, with a buffer of their own meanwhile, what
\* was read stays untouched until it is released, and a channel is destroyed once,
\* after the last operation it owes a completion (client.dart, transport.c).
THEOREM ChannelsKeepPromise == Spec => PromiseKept
<1>1. ClientInv /\ ClientInv' /\ [Next]_vars => [Promise!Next]_(Promise!vars)
  BY StepPromises DEF Kept
<1>2. QED
  BY ClientInitially, ClientStays, PromiseInitially, <1>1, PTL DEF Spec, PromiseKept, Promise!Spec
====
