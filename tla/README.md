# feng-shui: a verification project in TLA+

feng-shui is a set of packages in Dart and C for programs that run on
io_uring: `core` (modules, context, events, collections, hashing), `memory`
(buffers and object pools), `executor` (io_uring executors woken by one scheduler
thread), `transport` (sockets and files), `reactive` (a protocol of request
streams over the transport) and `storage` (an embedded Tarantool).  This directory
models them, checks the models with TLC and proves, with TLAPS and for every value
of the constants, the safety invariants of the buffer pool, the executors, the
client channels, the descriptors, the start and stop of threads, the box requests,
the events and libraries of core, and the credits and frames of the protocol.

## 1. Inventory

**memory.**  `MemoryStaticBuffers` (`memory/dart/lib/memory/buffers.dart`) hands
out ids from a native stack (`static_buffers.h`: `ids`, `available`,
`capacity`).  State: the stack, and `_finalizers`, a queue of completers that
callers of `allocate()` await when the stack is empty.  Hard: each `await` lets
other callers take buffers; an array call holds what it has while it waits.
Right if no id has two owners, none is lost, no waiter is forgotten.
`MemoryObjects` is a pool of Dart objects that extends itself in microtasks; the
storage takes its requests from it.  Input and output buffers (`io_buffers.h`)
grow while they are written and repeat positions in fields that Dart reads.

**executor.**  An executor (`executor.c`, `executor.dart`) is an io_uring owned
by an isolate, with a state PAUSED, IDLE, WAKING, STOPPING or STOPPED.  The
scheduler (`scheduler.c`) is one native thread with a ring of its own and a table
of registered executors.  They talk by messages from ring to ring (REGISTER,
POLL, UNREGISTER), by one-shot polls the scheduler arms on the executors' rings,
and by integers posted to the isolates' ports.  The broker (`broker.dart`,
`producer.dart`, `consumer.dart`) makes calls to native threads and runs
callbacks for theirs.  Hard: the isolates, the scheduler, the native threads and
the kernel interleave; rings can be full; shutdown waits for what is pending; the
thread is started and stopped by mutex, condition and timeout.  Right if an active
executor is always woken, every call is accounted for, and what was queued gets
submitted.

**transport.**  A transport (`transport.dart`, `transport.c`) owns an executor
and a map of running events for cancellation and timeouts.  Client channels
(`client.dart`), server channels and connections (`server.dart`) and files
(`file.dart`) take buffers from the pool, start operations and are notified of
their completions; each counts `_pending`, and `close()` waits for it to reach
zero, cancels by descriptor, and may first wait gracefully.  Hard: closing
against waiting calls, late completions, timeouts and a full ring; descriptors
that the kernel hands out again.  Right if the kernel never works on a buffer
somebody else has, `_pending` is exact, a completion reaches the channel that
started the operation, and every close ends.

**reactive.**  The requester sends payloads against credits, gathers them into
chunks and cuts large ones into fragments; the responder cuts the bytes of the
connection into frames; the broker keeps the streams.  Hard: credits that arrive
while a payload is fragmented, closing, frames cut anywhere, a broken connection.
Right if payloads arrive whole, once and in order, and credit is used.

**core.**  A context of modules, a hash map that resizes in steps
(`maps/simple.h`), intrusive lists, events that travel from native code to Dart,
shared libraries, hash functions.  Hard: long sequences of map operations in the
middle of a resize; module slots after a removal; who owns an event; libraries
that several isolates hold; hash streams at the boundaries of their blocks.

**storage.**  Start and stop of the Tarantool thread (`storage.c`), a fiber that
serves tasks from a ring (`executor.c`), some fifty box operations (`box.c`) with
MessagePack tuples (`msgpuck.h`).  Hard: timeouts of the handshakes, batches that
fail in the middle, reference counts that two threads write, requests that are
used again with what the last call left in them.

Every component with its sources and its status is listed in `PROJECT.json` under
"components", and what is hard to test, at its line, under "hazards".

## 2. Plan

| # | module | what | state |
|---|--------|------|-------|
| 1 | `StaticBuffers` (+ `StaticBuffersProofs`) | the buffer pool and its waiting callers | checked, proved |
| 2 | `ExecutorScheduler` (proofs in `ExecutorSchedulerProofs`) | executors, scheduler thread, broker | checked, proved |
| 3 | `TransportClient` (+ `TransportClientProofs`) | client channels; composes the pool of 1 | checked, proved |
| 3a | `ChannelPromise` | what client channels promise their callers; implemented by 3 | checked, proved |
| 4 | `TransportDescriptors` (+ `TransportDescriptorsProofs`) | servers, connections, files, socket options on descriptors used again | checked, proved |
| 5 | `ThreadLifecycle` (proofs in `ExecutorSchedulerProofs`) | start, stop and timeouts of the two native threads | checked, proved |
| 6 | `StorageBox` (+ `StorageBoxProofs`) | box operations, requests, references, ports | checked, proved |
| 7 | `MessagePack` | msgpuck.h and the tuples of Dart, as pure algorithms | checked |
| 8 | `XXH3`, `XXH3Vectors`, `Hashing` | the hash functions, one call against streams and builds | checked |
| 9 | `SimpleMap`, `LinkedList`, `CoreEvents`, `CoreContext`, `MemoryBuffers` (+ `CoreProofs`, `MapProofs`) | the building blocks of core and memory | checked, proved |
| 10 | `ReactiveStream`, `ReactiveResponder` (+ `ReactiveProofs`) | flow control, fragments, frames | checked, proved |

`ChannelPromise` is what `TransportClient` is checked and proved to implement
(`PromiseKept`).  A dictionary, sequences of items, and sequences
of bytes are the abstract counterparts of `SimpleMap`, `LinkedList` and
`MemoryBuffers`, kept as history variables.  "Proved" is about safety; liveness
stays with TLC, and so do the algorithms of 7 and 8 (section 6).

## 3. Modules

Definitions named `Faulty…`, `Silent…` and the like, marked "A bug to tell apart",
"Fault" or "Faulty", are not part of any specification: each is a variant of the
definition after it that some property must refute.

### StaticBuffers

`ids` is the stack (top last, so `available` is its length), `finalizers` the
queue of completers, each as the set of callers that await it, `woken` the
callers whose continuation is due.  A client is one caller: `step`, `want` and
`held` say where in `allocate`/`allocateArray` it is and what it has.  Dart runs
one piece of code at a time, so an action is what a caller does between two
awaits: `AllocateArray` (with count one it is `allocate`), `ResumeAllocate`,
`ResumeArray`, `Release`, `ReleaseArray`.  `allocate` returns to `allocateArray`
in a later microtask, which is why a resumed caller may be in step "array".
Clients release only what they hold; a double release by the application is
outside of the model.

### ExecutorScheduler

Per executor: the native `state`, `pc` (inside or outside of `_awake`), `phase`
(of the Dart object: running, awaiting `_stopper`, closed), submission entries by
kind, the completion queue with the part `executor_peek` returned, the messages
in the port, the polls armed.  For the scheduler: `registered` and `inbox`, its
completion queue, in order.  For the broker: the entries of `_calls`, those
completed by an error, those whose `_onComplete` is still to run, and the
consumers' callbacks under way.  Actions of the isolate are `Activate`,
`Deactivate`, `Call`, `Shutdown`, `Settle`, `Respond` and the parts of `_awake`
(`AwakeIgnored`, `AwakeBegin`, `Process`, `AwakeComplete`); of native threads
`Answer` and `CallDart`; of the kernel `PollFires`; of the scheduler one for
each kind of completion.  `lost` records that an executor took one of the paths
that lose its wake-up for good: a full ring in `activate` or in `_awake`, or a
`deactivate` inside of a consumer's callback, whose PAUSED is overwritten at the
end of the batch.  `AwakeComplete` has the whole end of `_awake`: the test for
STOPPING with nothing pending comes after the state was overwritten with IDLE, so the
branch to STOPPED is part of the action and is not taken.  A poll on a ring with completions fires in any later step, not
at once.  The application is taken to activate only a paused executor and to
deactivate only an active one; the code tests neither.  `executors[]` of the
scheduler thread starts empty, as a fresh thread stack is; the code does not
initialise it.

### TransportClient

Calls take buffers from the pool (`Pool == INSTANCE StaticBuffers`), then start
operations named by the data word of their submission entry (descriptor, event,
buffer).  `sq`, `kernel`, `cq` and `batch` are the stations of an operation,
`events` the native map, `cancelled` what the kernel was asked to cancel.  Per
channel: `pending`, `active`, `closing`, `closer` and how far `close()` got.
`waking` is the executor's state: entries made while a batch is processed are
submitted at its end, and nothing else of the isolate runs then except handlers
of the application, which may call and close.  A failed cancellation of an
operation that has completed changes nothing.  Timeouts may expire at any time.
`dropped` are operations that were counted although the ring was full.  The
wake-up of the executor itself is the subject of `ExecutorScheduler`; here
`AwakeBegin` needs a free entry.

### ChannelPromise

What callers of the channels may rely on, with no pool, ring, executor or order in
which a close goes on.  `owed` are the operations that were begun and not completed,
`given` the buffers with data the application has not released, `stage` says whether
a channel is open, closing or closed.  An operation begins on an open channel with a
buffer of its own and is completed once; a channel is closed once and destroyed when
nothing of it is owed.  `TransportClient` maps `owed` to the operations in its rings,
its kernel, its batch and the dropped ones, `given` to `payloads`, and `stage` to
`closing` and the end of `close()`.  Its definitions know nothing of `owed`: that
an operation is completed before the channel is destroyed comes from `_pending`, and
that its buffer is its own from the pool.

### TransportDescriptors

`table` says who opened each number, `registry` which channel each of the four
registries has under it, `chan` the channels with their `pending`, `closing` and
how far `close()` got, `ring` and `cq` the operations.  A completion carries a
number: `Process` looks the channel up under it, as `transport.dart` does, and
`op.of` remembers who started it.  `Open` runs a constructor of `client.c`,
`server.c` or `file.c` with the options of `socket.c` in their order; an option the
kernel refuses makes it return a negative flag, which goes through an `int8_t`.
`CloseServer` closes a server and its connections, `CloseDrained`,
`GracefulTimeout` and `Finish` are the continuations of `close()`.  `twice` marks
a descriptor closed by two paths for one channel (a unix client closed while it
connects); the run's constraint `Sound` leaves out what follows, because then
anybody's descriptor may be closed.  A socket whose failed option was not noticed
(`misset`) is left with descriptor 0.  One such socket closes the standard input of
the process; a second one closes 0 again, and by then a channel may have got it from
the kernel.  So the properties are about `Proper` channels: not
misset, and on descriptor 0 only while there is at most one misset (`OneMisset`).
Operations are counted, at most `MaxPending` for a channel; their buffers are in
`TransportClient`.

### ThreadLifecycle

For each service (`scheduler`, `storage`) the isolate is in a stage
(initialization, shutdown) at a point (locking, checking, waiting, expiring), and
the thread at one of its own.  `mutex` is held by one side or destroyed,
`notified` is the broadcast, `initialized` and `active` are the flags, `nop` the
wake-up of shutdown in the ring, which the thread uses up.  The scheduler looks at
`active` for each completion (`scheduler.c:48-65`), the fiber of the storage only
before a batch: `Handle` may use up a wake-up that arrives while a batch is handled
(`batched`), and the fiber goes back to its wait.  A wait may time out at any moment; what each
service does then differs, as in the code (`scheduler.c` destroys and reports,
`storage.c` returns with the mutex locked).  Taking a destroyed mutex, or freed
state, leaves the thread "stuck" or "crashed".  `EngineStops` is the end of the
storage's loop by the engine itself.

### StorageBox

The engine (external) maps keys to tuples with reference counts; a secondary
index orders keys the other way.  `request` are the requests with their tasks,
`pool` their queues with the microtask `extending`, `queue` the storage's ring,
`batch` what a handler of several tuples has done so far and which handler it is
(a local of `executor.c`: a call that is handed the same request and overwrites it
does not change the handler that runs).  A call of the isolate
(`CallPlain`, `CallMany`, `CallIterator`, the three frees) puts a task into the
ring, `Serve` runs its handler (one step for each tuple of a batch, with any of
them failing, and the commit), `Complete` gives the answer to the isolate,
`ReleaseRead` and `ReleaseWrite` are the two halves of an unsynchronised
`tuple_unref` by an isolate.  `trouble` records what the code does to itself:
"stale" (a handler found no tuple and left the output of an earlier call),
"race" (a reference count written by two threads), "shared" (a request handed out
twice by the pool), "crash".  After the first three the properties claim less, and
say so themselves (`NoEarlyFree`, `AnswersInv`).
The calls are the methods that `storage.dart` registers for the handlers.  The wrappers
of `StorageSpace` use them under their names except two: `putMany` is the call
"insert_many", and `upsert` sends its request to the handler of updates, which reads
it with another layout ("misread": the operations are taken for the key, their length
for an address).  `Failing` is a call that the engine refuses: most answer with an
error, counts and names with the number the engine returned, `truncate` as if nothing
were wrong, and the handlers of Lua destroy a port nobody has set, which may do
anything ("undefined").
`Programs` are the groups of calls that have to do with each other; between them
they are all handlers.  A port is a sequence of tuples with one reference for each
place (`Places`, `Ported`); `Ordered` are the keys a select finds, in the order of
the index, and `BatchesAssumption` says that a batch is a sequence of keys.

### MessagePack

A document is a sequence of bytes.  `Write` calls one of the encoders (native or
Dart) at a boundary value into a buffer of given room; the invariants run the
decoders, the readers, the checks (`mp_check`) and the walks (`mp_next`,
`mp_decode_array` and so on) over every document so written and over every cut of
it.  A 64-bit integer is its eight bytes.

### XXH3, XXH3Vectors, Hashing

The arithmetic is abstract: a byte of the input is its position, a word is where
its bytes come from, a hash is the sequence of words and keys mixed into it.  So
the models keep the whole control (lengths, offsets, overlapping reads, buffering)
and say nothing of the quality of a hash.  `XXH3` has the one-call paths and the
stream, `XXH3Vectors` the accumulation per instruction set, `Hashing` the others
(XXH32, XXH64, wyhash, wyhash32, polymur, murmur32) and the caller that resets,
updates and digests.

### SimpleMap

A map is a record with its slots, `exist` and `dirty` bits, size and the shadow
table of a resize under way; each function of the header is an operator from a
map to a map, and each loop over slots a recursive function (`foreach`, `Moved`,
`DeleteSlots`).  `MinBatch` and `PrimeList` stand for 256 and the list of primes, cut
down so that a resize takes several batches.  The assumptions state what the real
constants give, for all 31 primes of `__ac_prime_list` and batches of 256: no product
of smaller numbers is a multiple of a size (`PrimesAssumption`), a table has room for
the insertions made while it is moved (`BatchAssumption`), the next size for a full
table and those insertions (`GrowthAssumption`), and the last size for every key there
is (`RoomAssumption`; 2 989 699 887 keys).  `content` is the dictionary it should be.

`Next` has every call of the header but one: a `reserve` that comes to exactly the
number of buckets there are.  No code here makes it (`transport.c:20` reserves on a new
map), and section 5 says what it would do.

### LinkedList

Two functions, `next` and `prev`, over heads and items; each function of the
header is an operator on them.  `lists` is what the calls should have left, a walk
is `foreach_entry_safe` with removals by its body, `stale` are items that still
point into a list `cut_before` discarded.

### CoreEvents

`heap` holds the events, `draft` the one native code is filling, `localEvent` is
`LocalEvent._event`, `tasks` the events on their way in a task.  Actions: building
and reading fields by type, reporting an error with or without a check in Dart,
the diagnostics of the storage, printing, raising, the crash handler.

### CoreContext

`context` is the native table (containers, size and map), `launcher` and `forks`
the isolates, `library` the structures of `system.c` with who holds them.
`Launch`, `Initialize`, `Main`, `Shutdown` and `Clear` are the pieces of `launch`
between its awaits (`Clear` one native call per module), `Restore`, `ForkModule`,
`Unfork` those of a fork, `Reload` of a module with a library.

### MemoryBuffers

A buffer is a sequence of areas of an `ibuf` or `obuf` (external: library small)
with the fields of the structure beside it.  `Reserve`, `Write`, `Finalize`,
`FinalizeReserve` and `FreeBuffer`; memory may run out at any reserve.

### ReactiveStream

One direction of a stream: `input` the events of `_input`, `paused` how often the
subscription is paused, the counters of the requester, the chain of `fragments`,
`callback` the `onDone` of the write under way, `grace` how far a graceful close
got; `wire` and `back` the two directions of the connection, `peer` the other end.
`Send` is `_send` for one event, `WriteDone` the continuation of a chain,
`HandleBack` what REQUEST_N, CANCEL or COMPLETE do, `Break` a failing write with
`_terminate`.  The histories are `accepted`, the payloads the application gave, and
`wanted`, those of them that are not empty, which are the ones the peer is to get.
The connection is taken to keep the order of what is written.
Counts of REQUEST_N are at least one.

### ReactiveResponder

`data` and `readerIndex` of `ReactiveReadBuffer`; `Handle` takes a segment of any
length, then each turn of the loop is an action: `HeaderMissing`, `Refuse`,
`Dispatch`, `Incomplete`, `Torn`, `Unknown`.  A unit is three bytes, the size of
the length field, which is all that lengths differ by.  `cause` records why the
reader fell out of step; what it then takes for a header is arbitrary, and the
model stops.

### MC modules

`MCCore`, `MCAlgorithms` and `MCReactive` each run several modules that do not
interact, one at a time (variable `part`); the properties they define under the
name of a component's property are that property.

## 4. Runs

| run | properties | what it shows | distinct states |
|-----|-----------|---------------|-----------------|
| `pool` | `SingleOwner`, `NoLostWaiter`, `NothingLost`, `CallsReturn` | three callers with arrays of up to three on three buffers; calls return, or two array calls hold and wait for each other | 77 953 |
| `executor_wakeup` | `NoLostWakeUp`, `RegistrationSettles`, `CallsInv`, `DestroyedAtRest`, `CompletionsConsumed` | one executor, ring of two, two calls, an incoming call, a pause, shutdown | 87 075 |
| `client` | `BuffersInv`, `OperationsInv`, `PromiseKept`, `CloseEnds` | two calls, three buffers, ring of two; the channels implement `ChannelPromise` | 194 642 |
| `client_closed` | `ClosedReleasesAll` | violated, see section 5 | |
| `descriptors` | `DeliveredToOwner`, `OwnsDescriptor`, `ServersInv`, `EveryCloseEnds` | a listening or datagram server, a client or file, a connection, on two descriptors | 70 385 |
| `socket_options` | `OptionsReported` | violated, see section 5 | |
| `lifecycle` | `HandshakesInv`, `CallsEnd`, `StopEndsLoop` | both threads, started, stopped and started again, timeouts at any moment | 44 744 |
| `storage` | `NoEarlyFree`, `AnswersInv`, `ErrorChangesNothing` | every handler, three calls of which two at a time, two keys | 1 216 514 |
| `core` | `MapInv`, `ListsInv`, `EventsInv`, `RaisedIsOwn`, `ContextAgrees`, `LibrariesAlive`, `BytesKept` | map, lists, events, context and libraries, growing buffers | 167 857 |
| `algorithms` | `SafeNeverOverruns`, `ReadersInv`, `WalksInv`, `StreamEqualsOneShot`, `HashesInv` | MessagePack documents of three calls; hashes of every length of the short paths, streams, builds | 247 040 |
| `tuples_dart` | `DartReadsBack` | violated, see section 5 | |
| `reactive` | `DeliveredWhole`, `CreditsInv`, `FramesInSync`, `CreditIsUsed`, `CloseSettles` | three payloads, whole and fragmented; two frames cut anywhere | 414 201 |

The parts of an invariant (`…Inv`) are definitions of their own, each with the
behaviour it is about; the type invariant of a module is one of them.  Deadlock is
not checked: the bounds on calls let every instance come to rest, and the pool can
stall, which `CallsReturn` describes.

*Bounds.*  They are constants, named in the modules, and the smallest that let the
hazards happen.
- Three buffers for three callers let arrays hold and wait, and one buffer be taken
  by a third caller between wake-up and continuation.
- A ring of one or two entries is full after one or two calls of a paused or waking
  executor; one pause is enough for an UNREGISTER to meet the next REGISTER; a ring
  of two with calls of three messages lets operations be dropped, and cancellation
  stop half-way.
- Two descriptors for three channels make a number used again while an operation of
  its last owner is under way.
- Both services may be started a second time after a stop or a failure.
- In the storage one preallocated request is used up by two calls, a ring of one
  entry is filled by two answers, two keys let the second statement of a batch fail.
- Tables of 3, 7 and 17 slots moved in batches of four, with keys of which three and
  two collide in the table of seven, put insertions and deletions before, in and
  behind the part that was moved.
- Payloads of 0, 1, 3 and 6 units with frames and fragments of two and two chunks
  per write are below, at and above each limit, and 3 is not a multiple of the
  fragment.  The reader with three frames holds as well (580 664 states).
- Lengths of input and pieces of streams lie on both sides of every block, stripe
  and buffer; integers, sizes and lengths of MessagePack on both sides of every
  change of format.

*Fairness.*  Weak fairness for what the event loop, the scheduler thread, the
kernel and the native threads do by themselves: continuations, port messages,
microtasks, polls, cancellations, answers, timers, the steps of a thread between
two waits.  In `pool` also for the release of buffers by those who have them, which
the transport does at each completion.  None for calls, pauses, close and shutdown,
for data from the peer or for the release of payloads.

*Constraints.*  `descriptors` leaves out what follows a descriptor closed twice
(`Sound`).  That is reachable in the code, and described in sections 3 and 5; after
it a channel works on somebody else's descriptor and nothing can be claimed.  The
theorems about descriptors need no constraint: `Proper` says `~twice`.

## 5. What was found

Three runs show a disagreement between the code and what the repository says of it:

- `ClosedReleasesAll` (run `client_closed`).  Calls take their buffers before they
  test `_closing` (`client.dart:55, 63, 73`) and return an error without giving
  them back, while `transport/test/shutdown.dart:39` asserts that none is in use
  after closing.
- `OptionsReported` (run `socket_options`).  The number of an option that failed is
  kept in an `int8_t` (`client.h:38`); for flags of `1 << 8` and above it is zero
  and the channel counts as initialised.
- `DartReadsBack` (run `tuples_dart`).  `tupleWriteInt` writes numbers from 128 to
  255 twice (`tuples.dart:96`, a missing return).

Properties that state what the code does although one would expect better:
`DestroyedAtRest` (a shutdown that finds calls pending destroys nothing, because it
never returns: `executor_awake_begin` and `executor_awake_complete` overwrite STOPPING
before `executor.dart:77` tests it); `StopEndsLoop` (the storage's wake-up may be
swallowed by the batch it arrives in, `storage/executor.c:46-65`; then the fiber runs
on and the shutdown ends by its timeout); the exceptions in `NoLostWakeUp` (`lost`),
`CreditsInv` (credits ignored while a payload is fragmented), `FramesInSync`
(refused, cut and unknown frames), `RaisedIsOwn` (an unchecked result leaves its
event for a later call), `LibrariesAlive` (a SIGHUP takes a shared library from the
other isolates, the shutdown of the launcher from its forks).

Seen while reading, each part of a model unless it is marked with *:

- *reactive.*  A fragmented payload is never counted out of `_pending`, so later
  small payloads wait in the buffer until `chunksLimit` under infinite credit; a
  REQUEST_N while fragmenting is ignored; the end of a stream adds a credit an
  earlier payload may spend; `disassemble` throws when the payload is not a multiple
  of `fragmentSize` (by default larger than `frameMaxSize`), and the requester stays
  paused; `_closing` is never set, so a graceful close always waits for its timeout,
  and for ever if that falls into a chain of fragments; a chain goes on after close;
  an empty payload is not delivered; a COMPLETE of the peer closes our own direction
  without grace; `continue` on a refused frame skips its header only; a cut SETUP or
  REQUEST_CHANNEL throws; unknown frames are skipped three bytes short.  * A
  REQUEST_N of zero would resume without credit; chunk sizes are taken from
  `staticBuffersCapacity`, a count.
- *transport.*  A unix client closed while it connects is closed and destroyed
  twice; an accept is not counted as pending, so a server is freed with one in
  flight; destroying a client unlinks the server's socket path; an accept dropped by
  a full ring makes a server deaf.  * Multicast callbacks read a freed server;
  `O_CLOEXEC` by `F_SETFL` has no effect; the slots collected in
  `transport_cancel_by_fd` and `transport_check_event_timeouts` become stale when a
  deletion ends a resize (above 256 buckets).
- *threads.*  A wait that timed out is a failure even if the flag is set; a failed
  shutdown frees the scheduler under a live thread; timeouts of the storage leave its
  mutex locked, and a second initialization uses destroyed ones; a ring that could
  not be created is not noticed.  * `module.dart:51` of the executor dereferences a
  null scheduler.
- *storage.*  Tuples of the `*_many` handlers are referenced twice and leak with
  their ports; a missing key in `delete_many` and `update_many` crashes in
  `tuple_ref`; the end of an iterator is reported as an error; failed calls never
  release their request; `putMany` of Dart calls `insertMany` and `upsert` the handler
  of `update_single`, with a request of another layout; a failed `evaluate` or `call`
  destroys a port that was not set, a failed `truncate` is not reported; output is stale when no tuple is found.  * Some end pointers of
  batches are computed from the wrong tuple; `createIndexUpdate` does not set the
  operations, `createIndexId` not the input.
- *tuples.*  * `tupleSizeOfInt` is 1 for every number that is not negative,
  `tupleSizeOfString` too small from 256 to 65535; `tupleReadList` and
  `tupleReadMap` swap length and offset on nil; string lengths count UTF-16 units
  while UTF-8 bytes are written (part of the model with `WideStrings`);
  `mp_check_binl` reads before its assertion.
- *hashing.*  * `XXH3_128bits_digest` tests `state->seed` where the 64-bit digest
  tests `useSeed`; the default mode makes `hash_bytes_32` unreachable;
  `hasher_hash_64` and `hash_bytes_xxh64` return 32 bits;
  `hash_bytes_polymur_configured` ignores its tweak.
- *core and memory.*  A typed getter on a field of another type ends the process; an
  overwritten `LocalEvent` leaks its event, as events above the print level do;
  `system_library_reload` of a shared library frees what other isolates hold; a fork
  during a clear sees zeroed containers; allocation failures reach `memset` before
  they are checked.  * `event_format` wraps past 16 KiB; `storage_convert_error` reads
  an uninitialised string; a launch that throws leaves `_launched` set;
  `MODULES_MAXIMUM` is not checked; `clear` of the map during a resize leaves
  `resize_position`; a `reserve` on a map in use that comes to the number of buckets
  there are restarts a resize to the same size, and the `put` that ends it is on the
  branch that does not look at `upper_bound` (`simple.h:343`), so that repeated pairs
  fill the table against the assertion of `put` (the proof of `MapInv` failed here); indices of `pointer_array` are scaled twice in `remove_range`.

## 6. Proofs

Each theorem holds for every value of the constants that satisfies the named
assumptions (sizes of rings, pools and arrays positive, bounds naturals, sets of
channels and keys finite where they are counted, markers such as `NULL` not among the
values, heads of lists not among the items, and the arithmetic of the map's primes in
section 3), so for any number of callers, executors,
channels, calls and frames, any list of modules a factory returns and any sizes that
are reserved.  The invariants below were checked by TLC on the runs' instances before they were proved.
A proof has one lemma for each action, and under it one step for each conjunct the
action can disturb.

**The pool** (`StaticBuffersProofs`).
- `TypesHold`, `WaitersKept`: the invariant is `PoolInv`, types together with
  `NoLostWaiter` and `Wanting` (a caller inside a call still wants a buffer, without
  which `want - 1` need not be a natural).
- `BuffersOwned`: `SingleOwner` is inductive with the types.  Taking moves the top
  of the stack to the end of what a caller holds (`TakeOwner`); both releases are
  instances of one lemma, `ReturnOwner`, about ids that go back from a caller,
  with maps that say where each came from.
- `NothingIsLost`: no id and no caller disappears between two awaits; it needs
  `PoolInv`, which says who can be in the queue.

**Executors** (`ExecutorSchedulerProofs`).
- `WakeUpInvariant`, `WakeUpNeverLost`, `RegistrationHolds`: `NoLostWakeUp` alone is
  not inductive, because an event in the scheduler's ring leads to a wake-up only if
  the executor is registered when it is processed.  `WakeUpInv` adds
  `RegistrationSettles` (the last word of an active executor in the ring is
  REGISTER), `RunningStates` and `PausedOutside` (PAUSED appears inside of `_awake`
  only on the path recorded in `lost`).
- `CallsKept`: `CallsIInv` adds to that invariant that the batch lies in the
  completion queue, that the entries of `_calls` are those in the rings, in the
  unprocessed part of the batch, settled or failed (`Accounted`, a sum of
  cardinalities of positions in sequences), and how many wake-ups circulate, which
  bounds the messages in the port.
- `ShutdownAtRest`: `DestroyedAtRest` is inductive with `CallsIInv`, of which it needs
  the sum: nothing pending means that no call is in a ring, a batch or a microtask.
  `RestInv` adds that a callback under way is counted, which keeps a shutdown inside of
  one from destroying, and that no executor gets to STOPPED, which keeps `_stopper`
  from ending a shutdown (`Watched`).

**Client channels** (`TransportClientProofs`).
- The channels take their buffers by actions of `StaticBuffers`, so the theorems about
  the pool hold of its variables here: the module takes them with
  `INSTANCE StaticBuffersProofs`, and only what is about operations is new.
- `BuffersSafe`, `OperationsSafe`: `ClientInv` is the pool's invariants (`PoolPart`),
  one place in the ring for each operation (`RingPart`), where the buffer of an
  operation or a payload comes from (`BufferPart`), the map of events (`EventPart`),
  and `_pending` as the number of operations in flight or dropped (`ChannelPart`).
  `BuffersInv` is not inductive without the last: that a completed operation's
  buffer may be released depends on its being counted once.
- `ChannelsKeepPromise`: the refinement of `ChannelPromise`, from `ClientInv`.  A step
  into the ring is `Begin`, since a buffer that the pool has is in no operation and
  not with the application (`BufferExclusive`, `BuffersAccounted`); the processing of a
  completion is `Complete`, since only a channel that is not destroyed has one
  (`DestroyedIsQuiet`); the end of `close()` is `Destroy`, since `_pending` is zero
  only when nothing is owed (`PendingExact`).  The steps of the executor, the kernel,
  timers and the graceful close are stuttering steps.

**Descriptors** (`TransportDescriptorsProofs`).
- `DescriptorsAgree`, `DescriptorsOwned`, `CompletionsDelivered`: `Consistent` says
  that `_pending` is the number of operations, that a channel that is not closed has
  its entry in the registry and its number in the table, that entries name channels
  with that number, and that every accepted descriptor waits for an object of its
  own; `DescriptorsInv` is that, or a descriptor was closed twice.  The registries
  are what matters: an entry is removed when `close()` ends, and only because
  `_pending` is exact is no completion left that would look it up afterwards.
- The proof showed that the properties were too strong as first stated: with two
  sockets whose failed option went unnoticed, the second close of descriptor 0 hits a
  channel that was given 0 meanwhile.  The run's instance opens one such socket only.
  `Proper` now says so.
- `ServersAgree`, `ServersServe`: `Promises` adds what a server and its connections
  owe each other: an accept in the ring is that of a stream server, under its number
  (`HeardPart`); a connection belongs to a server (`ServerPart`); a server that is
  closing waits for each of its connections that is not closed, except those that
  were closing before (`WaitPart`), so none outlives it; only the factory of unix
  clients destroys a channel behind `close()` (`GonePart`).  Three of the four parts
  of `ServersInv` follow until a descriptor is closed twice, which may be anybody's.
  The fourth, that `_pending` is a natural number, needs `OneMisset` as well: with two
  channels on descriptor 0 one hears of the completions of the other, and TLC finds
  the negative count on an instance with two such sockets.

**Threads** (`ExecutorSchedulerProofs`, which extends both modules).
- `HandshakesHold`: `LifecycleInv` relates, for each service, where the isolate and
  the thread are, to the flags and the mutexes.  The delicate part is the storage,
  whose flag `initialized` survives its thread: the mutex that is not yet destroyed
  is what tells the first initialization, where the flag means something, from later
  ones.

**Storage** (`StorageBoxProofs`).
- `AnswersHold`: `BoxInv` says that without sharing all tasks in the ring and among
  the answers are different and those queued are still "sent", that requests in a
  pool that never ran empty are free and different (so nothing is shared before it
  does), and that a handler in the middle of a batch is that of the first task.  The
  bound on answers follows by counting requests that are "sent".
- `ErrorsChangeNothing`: an action property, from the same invariant; every path that
  answers with an error either has not changed the space or puts back what the batch
  found.
- `NoTupleFreedEarly`: `NoEarlyFree` compares a counter with what can still be
  reached, so the invariant is a balance.  `RefInv` says, while `trouble` has none of
  "stale", "race" and "shared": the count of every tuple is at least the number of
  keys that hold it, of answers and ports that name it (`Places` counts them), of
  references that a call in the ring will give back or an answer hands over (`Loads`),
  with those of the batch and of the half-finished release (`CountPart`).  The other
  parts say which tuples these can be (`KeysPart`, `OutputPart`, `UndoPart`,
  `HeldPart`).  There is one lemma "Gives" for each handler, about what it gives back
  and what it hands over.  An isolate that releases between its read and its write
  stores a count it read earlier; `Lowers` bounds from above what the storage can
  have done meanwhile, so the store is not too small.
- The keys of a select are now `Ordered` by the index and no longer filtered from a
  sequence, because a filter is a recursive definition; the states are the same.

**Core** (`CoreProofs`).
- `EventsHold`, `RaisedHolds`: `OwnersInv` (each event in the heap has one owner, and
  the one `LocalEvent` holds is of the last unchecked call) and `FieldsInv` (the
  fields, in order, are those of a dictionary: distinct names, typed, at most
  `EVENT_FIELDS_MAXIMUM`), with lemmas on what the setters, getters and
  `event_format` do to a list of fields.
- `LibrariesHold`: `LibraryInv` adds to `LibrariesAlive` its types and that no fork
  holds a library before the first `main` (`HeldPart`), which with `ContextInv`, saying
  where the launcher is while a fork restores, makes the launcher's library the first
  one a fork can get.  Loading never frees (`LoadAlive`), `unfork` never unloads
  (`LibraryRests`), so only `shutdown` and `reload` are left.
- `ContextHolds`: `ContextInv` says of the table that it is that of the launcher's
  list of which the first modules were removed (`TablePart`), that the list is one
  every module's dependencies come before it in, and that the modules that are up
  are a beginning of it, for the launcher and for every fork (`LauncherPart`,
  `ForkPart`); a fork that starts in a clear reads a `NULL` and fails.  `PutAll` and
  `RemoveNext` are what the two loops over the native calls do to the table.
- `BytesHold`: `BuffersInv` says that areas put one after the other hold what was
  finalized, that the fields repeat them, and that room for a pending write is still
  there (`BufferFits`).  `DoubledType` and `ContentIs` are about the two loops.
- `ListsHold`: `Whole` says that the links of a head make one ring through its items
  in both directions, that no item is in two rings, and that an item in none points
  to itself unless a `cut_before` left it behind.  One lemma for each way to change a
  ring (`RingUnlink`, `RingInsert`, `SpliceRings`, `CutRings`, `SwapRings`), from
  which every function of the header follows.  `WalkPart` says that the items a walk
  has still to meet are the rest of the list from the entry it saved, which is what
  lets the body delete or move the one it was given.
- A loop of the code is a recursive function here; that there is one follows from
  the least place where it would fail (`LeastNatural`, `Iteration`), as the rule of
  induction takes an operator.

**The map** (`MapProofs`).
- `MapHolds`: `MapInv` speaks of what searches find, so it says nothing of why they
  find it.  `BookInv` says that in each table every key is in one slot, and that the
  links of its chain before that slot are dirty (`Sound`): a search stops there or
  earlier, and never earlier at another node.  During a resize (`Running`) the shadow
  has no pair the table has not, and all those before `resize_position` (`Trails`).
- The slots used or dirty are counted: in the table they exceed the bound by one for
  each batch made, in the shadow they leave room for what is still to come (`Load`) and
  one insertion for each batch left.  This balance is what `put` relies on when it
  writes into the shadow without a resize of its own, and what leaves a slot that ends
  every search.
- A chain meets every slot because two of its slots that are equal give a product of
  numbers below the size that is a multiple of it, against `PrimesAssumption`; that
  different steps into a finite set reach all of it is then a fact about cardinalities.
- There is one lemma for each operator: `Store` on chains with a free link before or
  behind a duplicate, `Drop`, a batch (`Moved`), `start_resize`, `put`, `del`, `clear`,
  `DeleteSlots`.

**The protocol** (`ReactiveProofs`).
- `FramesStayInSync`, for every set of frames: the units between reader and peer are
  consecutive units of consecutive frames and end with the last frame sent, and the
  reader is at the first unit of the frame after those it read (`InStep`).  It is an
  invariant while `cause` is "none".
- `CreditsHold`: `FlowInv` adds that the requester is paused exactly when it may not
  send (`Gate`), what `_pending` counts (`PendingCounts`), and that a chain of
  fragments that outlives the requester overdraws its credit once (`Overdrawn`).
- `PayloadsArriveWhole`: `DeliveredWhole` speaks of whole payloads at the peer, the
  connection carries fragments.  `WholeInv` adds to `FlowInv` that what is on its way
  (frames in the connection, then the rest of the chain that is being written, then
  what the requester buffers, then the events of `_input`) is the exact continuation
  of what the peer has, payload after payload and, inside of one, fragment after
  fragment (`InFlight`).  The other parts say that only payloads have data
  (`ControlPart`), that nothing waits in the buffer behind a chain (`ChainPart`), that
  a requester whose fragmentation threw stays paused behind it (`ThrownPart`) and that
  a broken connection holds nothing (`GoneWire`).

Only model-checked:

- Liveness (`CallsReturn`, `CompletionsConsumed`, `CloseEnds`, `EveryCloseEnds`,
  `CallsEnd`, `StopEndsLoop`, `CreditIsUsed`, `CloseSettles`): fairness and `ENABLED`
  are out of the prover's reach.
- `SafeNeverOverruns`, `ReadersInv` and `WalksInv` of MessagePack and
  `StreamEqualsOneShot` and `HashesInv` of the hash functions: what algorithms that
  are recursive over data compute.  Their operators are `RECURSIVE`, and the hash
  functions multiply and shift words.

## 7. Not modelled

- The executor ids that isolates share (`module.h:37`: added atomically, read again),
  an exception that leaves `_awake` in the middle of a batch, the counters of
  `writeMany` (`provider.dart:45`) and the handlers kept per buffer id
  (`client.dart:64`): each is a race or a slip of a few lines; the hazards list says
  where.
- Multicast membership of sockets (system calls without state here), offsets of
  files, shrinking of object pools.
- Lease, keep alive and stream ids of the reactive protocol: counters and
  timestamps that connect or a timer sets once.
- `mp_read_double`, `mp_stack` and printing of MessagePack; canonical forms and the
  generation of secrets of XXH3.
- Texts: formatting of events, traces, logging.
- `pointer_array` (used by nothing in the repository), the vendored bindings, the
  bindings generator, the start-up code of Tarantool in `launcher.cc`, and
  `library.h`, a list of declarations of the embedded engine.
