--------------------------- MODULE TransportClient ---------------------------
(***************************************************************************)
(* The client channels of a transport (client.dart) with what they share:  *)
(* the pool of static buffers (module StaticBuffers), the native map of    *)
(* running events with their timeouts (transport.c) and the transport's    *)
(* executor and ring (executor.c).                                         *)
(*                                                                         *)
(* A call is one of the asynchronous methods read, receive, writeSingle,   *)
(* sendSingle, writeMany and sendMany.  It takes buffers from the pool,    *)
(* perhaps after waiting for them, and starts an operation of the ring for *)
(* each.  An operation is named by the data word of its submission entry:  *)
(* descriptor, event and buffer.  Its completion is processed in a batch   *)
(* while the executor is WAKING; calls made in that time by the handlers   *)
(* of the application are queued and submitted at the end of the batch.    *)
(***************************************************************************)
EXTENDS Integers, Sequences, FiniteSets

CONSTANTS
  Calls,       \* asynchronous calls that may be under way at a time
  Channels,    \* client channels; each has a descriptor of its own
  Capacity,    \* the number of static buffers
  MaxCount,    \* the largest number of messages given to writeMany or sendMany
  MaxCalls,    \* bound of the model: how often each element of Calls is used
  RingSize     \* configuration.ring_size: submission queue entries

ASSUME RingAssumption == RingSize \in Nat \ {0}
ASSUME PoolAssumption ==
  Capacity \in Nat \ {0} /\ MaxCount \in Nat \ {0} /\ MaxCalls \in Nat

VARIABLES
  ids, finalizers, woken, step, want, held, calls,   \* of the pool
  call,        \* for each call: its stage, channel and event
  sq,          \* the submission queue: operations to start or to cancel
  kernel,      \* operations the kernel is working on
  cancelled,   \* those of them it was asked to cancel
  cq,          \* the completion queue: operations with their result
  batch,       \* completions that executor_peek returned and _process has not seen
  waking,      \* the executor's state is WAKING, not IDLE
  events,      \* transport.events: operations that can be cancelled or time out
  dropped,     \* operations that were counted but found the ring full
  payloads,    \* buffers in the hands of the application
  connection,  \* _connector of a channel: "connecting", "up" or "failed"
  pending,     \* _pending of a channel
  active,      \* _active
  closing,     \* _closing
  closer,      \* _closer is completed
  closeStage   \* how far close() got: see CloseStages

pool == <<ids, finalizers, woken, step, want, held, calls>>
ring == <<sq, kernel, cancelled, cq, batch, waking>>
channel == <<connection, pending, active, closing, closer, closeStage>>
vars == <<pool, call, ring, events, dropped, payloads, channel>>

Pool == INSTANCE StaticBuffers WITH Clients <- Calls

Kinds == {"read", "receive", "write", "many"}
Results == {"data", "zero", "error"}

\* "graceful" awaits _closer with a timeout, "cancelling" without; "finishing"
\* closes the inbound stream; "failed": transport_cancel_by_fd threw.
CloseStages == {"open", "graceful", "cancelling", "finishing", "closed", "failed"}

\* The data word of a submission entry.  writeMany starts writes.
Word(c, event, b) ==
  [channel |-> c, event |-> IF event = "many" THEN "write" ELSE event, buffer |-> b]
ConnectWord(c) == Word(c, "connect", 0)

Words == [channel : Channels, event : {"connect", "read", "receive", "write"},
          buffer : 0 .. Capacity - 1]
Completions == [data : Words, result : Results]
NoCall == [stage |-> "none"]

TypeOK ==
  /\ Pool!TypeOK
  /\ call \in [Calls -> {NoCall} \union
                        [stage : {"call", "ring", "leaked"}, channel : Channels, event : Kinds]]
  /\ sq \subseteq [op : {"start", "cancel"}, data : Words]
  /\ Cardinality(sq) <= RingSize
  /\ kernel \subseteq Words /\ cancelled \subseteq kernel
  /\ cq \subseteq Completions /\ batch \subseteq Completions
  /\ waking \in BOOLEAN
  /\ events \subseteq Words
  /\ dropped \subseteq Words
  /\ payloads \subseteq 0 .. Capacity - 1
  /\ connection \in [Channels -> {"connecting", "up", "failed"}]
  /\ pending \in [Channels -> Nat]
  /\ active \in [Channels -> BOOLEAN]
  /\ closing \in [Channels -> BOOLEAN]
  /\ closer \in [Channels -> BOOLEAN]
  /\ closeStage \in [Channels -> CloseStages]

-----------------------------------------------------------------------------
(* The ring. *)

Fewest(m, n) == IF m < n THEN m ELSE n

\* How often io_uring_get_sqe succeeds before it returns NULL.
Slots == RingSize - Cardinality(sq)

Entries(op, words) == [op : {op}, data : words]

\* io_uring_submit: operations start, and cancellations reach those that run
\* (of an operation that has completed already they change nothing).
Flushed(entries) ==
  /\ sq' = {}
  /\ kernel' = kernel \union {e.data : e \in {x \in entries : x.op = "start"}}
  /\ cancelled' = (cancelled \union {e.data : e \in {x \in entries : x.op = "cancel"}})
                  \intersect kernel'

\* Entries are prepared, then executor_submit, which submits only in state IDLE.
Submit(entries) ==
  IF waking
  THEN sq' = sq \union entries /\ UNCHANGED <<kernel, cancelled>>
  ELSE Flushed(sq \union entries)

\* transport_cancel_by_fd with the map left: cancels what runs for the channel.
\* With a full ring it returns early, cancellations prepared but not submitted
\* and the map as it was; close() then throws.
CancelByFd(c, left) ==
  LET mine == {d \in left : d.channel = c} IN
  \/ /\ Cardinality(mine) <= Slots
     /\ events' = left \ mine
     /\ Submit(Entries("cancel", mine))
     /\ closeStage' = [closeStage EXCEPT ![c] = "cancelling"]
  \/ /\ Cardinality(mine) > Slots
     /\ \E some \in SUBSET mine :
          /\ Cardinality(some) = Slots
          /\ sq' = sq \union Entries("cancel", some)
     /\ events' = left
     /\ closeStage' = [closeStage EXCEPT ![c] = "failed"]
     /\ UNCHANGED <<kernel, cancelled>>

-----------------------------------------------------------------------------
(* Calls. *)

\* _pending after a call started n operations.
Counted(c, n) == [pending EXCEPT ![c] = @ + n]

\* A call has its buffers: on a closing channel it returns an error and forgets
\* them, else it starts the operations.  The result of transport_read and its
\* like is ignored: an operation that found the ring full is counted as pending.
Proceed(t, c, k) ==
  LET buffers == held'[t]
      fit == Fewest(Len(buffers), Slots)
      started == {Word(c, k, buffers[i]) : i \in 1 .. fit}
  IN
  IF closing[c]
  THEN /\ call' = [call EXCEPT ![t] = [stage |-> "leaked", channel |-> c, event |-> k]]
       /\ UNCHANGED <<sq, kernel, cancelled, events, dropped, pending>>
  ELSE /\ call' = [call EXCEPT ![t] = [stage |-> "ring", channel |-> c, event |-> k]]
       /\ events' = events \union started
       /\ dropped' = dropped \union {Word(c, k, buffers[i]) : i \in fit + 1 .. Len(buffers)}
       /\ Submit(Entries("start", started))
       /\ pending' = Counted(c, Len(buffers))

\* The application makes a call on a connected channel, open or not.  A free
\* buffer is taken without an await; writeMany and sendMany always await.
Start(t, c, k, n) ==
  /\ call[t] = NoCall
  /\ connection[c] = "up"
  /\ k # "many" => n = 1
  /\ Pool!AllocateArray(t, n)
  /\ IF k # "many" /\ ids # <<>>
     THEN Proceed(t, c, k)
     ELSE /\ call' = [call EXCEPT ![t] = [stage |-> "call", channel |-> c, event |-> k]]
          /\ UNCHANGED <<sq, kernel, cancelled, events, dropped, pending>>
  /\ UNCHANGED <<cq, batch, waking, payloads, connection, active, closing, closer, closeStage>>

\* A waiting call goes on inside of allocate() or allocateArray().
Resume(t) ==
  /\ ~waking
  /\ Pool!ResumeAllocate(t) \/ Pool!ResumeArray(t)
  /\ UNCHANGED <<call, ring, events, dropped, payloads, channel>>

\* The await of the buffers returns: the channel may be closing by now.
Return(t) ==
  /\ ~waking
  /\ call[t].stage = "call" /\ step[t] = "idle"
  /\ UNCHANGED pool
  /\ Proceed(t, call[t].channel, call[t].event)
  /\ UNCHANGED <<cq, batch, waking, payloads, connection, active, closing, closer, closeStage>>

\* The buffer goes back to the pool; the last one ends the call.
ReleaseBuffer(b) ==
  \E t \in Calls : \E i \in 1 .. Len(held[t]) :
    /\ held[t][i] = b
    /\ Pool!Release(t, i)
    /\ call' = [call EXCEPT ![t] = IF Len(held[t]) = 1 THEN NoCall ELSE @]

\* TransportPayload.release.
ReleasePayload(b) ==
  /\ b \in payloads
  /\ payloads' = payloads \ {b}
  /\ ReleaseBuffer(b)
  /\ UNCHANGED <<ring, events, dropped, channel>>

-----------------------------------------------------------------------------
(* Closing a channel. *)

\* close() without a graceful timeout, with count operations pending.
ForceClose(c, count, left) ==
  /\ closing' = [closing EXCEPT ![c] = TRUE]
  /\ active' = [active EXCEPT ![c] = FALSE]
  /\ IF count > 0
     THEN CancelByFd(c, left)
     ELSE /\ closeStage' = [closeStage EXCEPT ![c] = "finishing"]
          /\ events' = left
          /\ UNCHANGED <<sq, kernel, cancelled>>

\* close() by the application, from the outside or from a handler, and by the
\* registry; a second close() only waits.
Close(c) ==
  /\ ~closing[c]
  /\ ForceClose(c, pending[c], events)
  /\ UNCHANGED <<pool, call, cq, batch, waking, dropped, payloads, connection, pending, closer>>

\* close(gracefulTimeout: ...) with operations pending.
CloseGracefully(c) ==
  /\ ~closing[c]
  /\ pending[c] > 0
  /\ closing' = [closing EXCEPT ![c] = TRUE]
  /\ closeStage' = [closeStage EXCEPT ![c] = "graceful"]
  /\ UNCHANGED <<pool, call, ring, events, dropped, payloads, connection, pending, active, closer>>

\* The graceful timeout passes before _closer completes.
GracefulTimeout(c) ==
  /\ ~waking
  /\ closeStage[c] = "graceful" /\ ~closer[c]
  /\ active' = [active EXCEPT ![c] = FALSE]
  /\ CancelByFd(c, events)
  /\ UNCHANGED <<pool, call, cq, batch, waking, dropped, payloads, connection, pending,
                 closing, closer>>

\* The rest of close(): the channel leaves the registry and is destroyed.
Finish(c) ==
  /\ ~waking
  /\ \/ closeStage[c] = "finishing"
     \/ closeStage[c] \in {"graceful", "cancelling"} /\ closer[c]
  /\ closeStage' = [closeStage EXCEPT ![c] = "closed"]
  /\ active' = [active EXCEPT ![c] = FALSE]
  /\ UNCHANGED <<pool, call, ring, events, dropped, payloads, connection, pending, closing, closer>>

-----------------------------------------------------------------------------
(* The executor of the transport. *)

\* _awake up to executor_peek.  (A ring full at this point is a subject of
\* module ExecutorScheduler.)
AwakeBegin ==
  /\ ~waking
  /\ cq # {}
  /\ Cardinality(sq) < RingSize
  /\ Flushed(sq)
  /\ batch' = cq
  /\ cq' = {}
  /\ waking' = TRUE
  /\ UNCHANGED <<pool, call, events, dropped, payloads, channel>>

AwakeComplete ==
  /\ waking /\ batch = {}
  /\ Flushed(sq)
  /\ waking' = FALSE
  /\ UNCHANGED <<pool, call, cq, batch, events, dropped, payloads, channel>>

\* transport_remove_event.
RemoveEvent(d) == events \ {d}

\* A bug to tell apart: any completion of a closing channel ends it.
EarlyEnded(c) == closing[c]

\* A bug to tell apart: only an active channel completes _closer.
FaultyEnded(c) == pending[c] = 1 /\ closing[c] /\ active[c]

\* The completion is the last one that the closing channel waits for.
Ended(c) == pending[c] = 1 /\ closing[c]

\* The last completion of a closing channel makes it inactive.
Inactive(c) == [active EXCEPT ![c] = @ /\ ~Ended(c)]

\* One completion in _process: the event is removed, then notifyConnect or
\* notifyData of the channel: pending is counted down, _closer completed with
\* the last operation of a closing channel.  The data of a read goes to the
\* application if the channel is still active; in every other case the buffer is
\* released.  A read that fails, or reads nothing, closes the channel.
Process(completion) ==
  LET d == completion.data
      c == d.channel
      arrived == active[c] /\ d.event \in {"read", "receive"} /\ completion.result = "data"
      failed == active[c] /\ d.event = "read" /\ completion.result # "data"
  IN
  /\ completion \in batch
  /\ batch' = batch \ {completion}
  /\ pending' = [pending EXCEPT ![c] = @ - 1]
  /\ closer' = [closer EXCEPT ![c] = @ \/ Ended(c)]
  /\ IF d.event = "connect"
     THEN /\ connection' = [connection EXCEPT ![c] =
                              IF active[c] /\ completion.result = "data" THEN "up" ELSE "failed"]
          /\ UNCHANGED <<pool, call, payloads>>
     ELSE /\ UNCHANGED connection
          /\ IF arrived
             THEN payloads' = payloads \union {d.buffer} /\ UNCHANGED <<pool, call>>
             ELSE ReleaseBuffer(d.buffer) /\ UNCHANGED payloads
  /\ IF failed /\ ~closing[c]
     THEN ForceClose(c, pending[c] - 1, RemoveEvent(d))
     ELSE /\ events' = RemoveEvent(d)
          /\ active' = Inactive(c)
          /\ UNCHANGED <<sq, kernel, cancelled, closing, closeStage>>
  /\ UNCHANGED <<cq, waking, dropped>>

\* transport_check_event_timeouts, on a timer: running operations that are over
\* their time are cancelled and forgotten, as many as the ring has entries for;
\* then executor_submit, even if there are none.
CheckTimeouts ==
  /\ ~waking
  /\ \E expired \in SUBSET events :
       /\ Cardinality(expired) <= Slots
       /\ events' = events \ expired
       /\ Submit(Entries("cancel", expired))
  /\ UNCHANGED <<pool, call, cq, batch, waking, dropped, payloads, channel>>

\* The kernel completes an operation, as asked by a cancellation or on its own.
KernelComplete(d) ==
  /\ d \in kernel
  /\ kernel' = kernel \ {d}
  /\ cancelled' = cancelled \ {d}
  /\ \E result \in (IF d.event = "read" THEN Results ELSE Results \ {"zero"}) :
       cq' = cq \union {[data |-> d, result |-> result]}
  /\ UNCHANGED <<pool, call, sq, batch, waking, events, dropped, payloads, channel>>

-----------------------------------------------------------------------------
\* The factory has called connect() of each channel.
Init ==
  /\ Pool!Init
  /\ call = [t \in Calls |-> NoCall]
  /\ sq = {} /\ kernel = {ConnectWord(c) : c \in Channels} /\ cancelled = {}
  /\ cq = {} /\ batch = {} /\ waking = FALSE
  /\ events = {ConnectWord(c) : c \in Channels}
  /\ dropped = {}
  /\ payloads = {}
  /\ connection = [c \in Channels |-> "connecting"]
  /\ pending = [c \in Channels |-> 1]
  /\ active = [c \in Channels |-> TRUE]
  /\ closing = [c \in Channels |-> FALSE]
  /\ closer = [c \in Channels |-> FALSE]
  /\ closeStage = [c \in Channels |-> "open"]

Next ==
  \/ \E t \in Calls, c \in Channels, k \in Kinds, n \in 1 .. MaxCount : Start(t, c, k, n)
  \/ \E t \in Calls : Resume(t) \/ Return(t)
  \/ \E b \in payloads : ReleasePayload(b)
  \/ \E c \in Channels :
       Close(c) \/ CloseGracefully(c) \/ GracefulTimeout(c) \/ Finish(c)
  \/ AwakeBegin
  \/ \E completion \in batch : Process(completion)
  \/ AwakeComplete
  \/ CheckTimeouts
  \/ \E d \in kernel : KernelComplete(d)

Spec == Init /\ [][Next]_vars

\* The event loop runs wake-ups, timers and continuations that are due, and the
\* kernel completes what it was asked to cancel.  Nothing makes the peer answer
\* or the application release its payloads.
Fairness ==
  /\ WF_vars(AwakeBegin)
  /\ WF_vars(AwakeComplete)
  /\ WF_vars(\E completion \in batch : Process(completion))
  /\ \A c \in Channels : WF_vars(GracefulTimeout(c)) /\ WF_vars(Finish(c))
  /\ \A d \in Words : WF_vars(d \in cancelled /\ KernelComplete(d))

LiveSpec == Spec /\ Fairness

-----------------------------------------------------------------------------
(* Properties. *)

\* Operations from the submission queue to the batch.
Running ==
  kernel \union {e.data : e \in {x \in sq : x.op = "start"}}
  \union {x.data : x \in cq \union batch}

\* The kernel never works on a buffer that the pool can hand out or that the
\* application reads, and no two operations work on the same one.
BufferExclusive ==
  /\ \A d \in Running : d.event # "connect" =>
       /\ \A i \in DOMAIN ids : ids[i] # d.buffer
       /\ d.buffer \notin payloads
       /\ \A x \in Running : x.buffer = d.buffer /\ x.event # "connect" => x = d
  /\ \A b \in payloads : \A i \in DOMAIN ids : ids[i] # b

\* _pending counts exactly the operations that will be notified, and those that
\* the full ring dropped, which never will be.
PendingExact ==
  \A c \in Channels :
    pending[c] = Cardinality({d \in Running \union dropped : d.channel = c})

\* A destroyed channel has no operation left in the ring: its address, which the
\* kernel reads, and its descriptor are not used any more.
DestroyedIsQuiet ==
  \A c \in Channels :
    closeStage[c] = "closed" \/ closer[c] => \A d \in Running : d.channel # c

\* The completion of _closer that does not test isCompleted, the one of an
\* active channel, finds it not completed.
CloserOnce == \A c \in Channels : active[c] => ~closer[c]

\* An operation that runs can still be cancelled by close() or a timeout, or has
\* been: none gets away from both the map of events and the ring.
Cancellable ==
  \A d \in Running :
    \/ d \in events \/ d \in cancelled
    \/ [op |-> "cancel", data |-> d] \in sq
    \/ \E x \in cq \union batch : x.data = d

\* The map of events holds no operation that is over.
EventsRun == events \subseteq Running

\* Every buffer is somewhere: free, in an operation, with the application, in a
\* call under way, or lost in one of two ways: by a call that found its channel
\* closing, or by a full ring.
BuffersAccounted ==
  \A b \in 0 .. Capacity - 1 :
    \/ \E i \in DOMAIN ids : ids[i] = b
    \/ \E d \in Running \union dropped : d.buffer = b /\ d.event # "connect"
    \/ b \in payloads
    \/ \E t \in Calls : /\ call[t].stage \in {"call", "leaked"}
                        /\ \E i \in DOMAIN held[t] : held[t][i] = b

\* Every buffer is in exactly one place at any time, whatever the order of calls,
\* completions, timeouts and close().
BuffersInv == TypeOK /\ BufferExclusive /\ BuffersAccounted

\* Operations and channels agree: what is pending is counted, can be cancelled and
\* is in the map of events only while it runs; the end of a channel is announced
\* once, after its last operation.
OperationsInv ==
  PendingExact /\ Cancellable /\ EventsRun /\ CloserOnce /\ DestroyedIsQuiet

\* The channels as their callers see them.  An operation that the full ring dropped
\* is owed for ever.
Promise == INSTANCE ChannelPromise WITH
  Operations <- Words,
  owed <- Running \union dropped,
  given <- payloads,
  stage <- [c \in Channels |-> IF closeStage[c] = "closed" THEN "closed"
                               ELSE IF closing[c] THEN "closing" ELSE "open"]

\* Through pool, ring, batch and close(): every operation begun is completed at most
\* once, with a buffer that is in no other operation and not with the application
\* until then; what was read is not used again before it is released; and a channel
\* is destroyed only after the last operation that it owes a completion.
PromiseKept == Promise!Spec

\* close() comes to its end, graceful or not, whatever the peer does, unless a
\* full ring dropped an operation that it waits for, or its cancellations.
CloseEnds ==
  \A c \in Channels :
    closing[c] ~> \/ closeStage[c] \in {"closed", "failed"}
                  \/ \E d \in dropped : d.channel = c
                  \/ Slots = 0

\* When all channels are closed, no call is under way and the application has
\* released its payloads, no buffer is in use.
ClosedReleasesAll ==
  /\ \A c \in Channels : closeStage[c] = "closed"
  /\ \A t \in Calls : call[t].stage # "call"
  /\ payloads = {}
  => Len(ids) = Capacity
=============================================================================
