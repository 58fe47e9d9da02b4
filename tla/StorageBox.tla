----------------------------- MODULE StorageBox -----------------------------
(***************************************************************************)
(* The storage seen through its box (storage/box.c): isolates send tasks   *)
(* to the ring of the storage (space.dart, index.dart, iterator.dart),     *)
(* its fiber runs their handlers one after the other (executor.c) and      *)
(* sends them back.  The engine below the handlers is external: a space    *)
(* maps keys to tuples, a tuple lives as long as it is referenced.         *)
(*                                                                         *)
(* The calls are the methods registered for the handlers (storage.dart).   *)
(* putMany of StorageSpace is the call "insert_many"; its upsert sends a   *)
(* request of its own layout to the handler of updates: "misread".         *)
(*                                                                         *)
(* A task lies inside a request taken from a pool (objects.dart).  Nobody  *)
(* resets its output, and a handler that finds no tuple leaves it alone.   *)
(***************************************************************************)
EXTENDS Integers, Sequences, FiniteSets, SequencesExt, FiniteSetsExt

CONSTANTS
  MaxKey,        \* primary keys are 1..MaxKey; the secondary index orders them the other way
  RingSize,      \* submission entries of the storage's ring
  Preallocated,  \* requests in a pool at first
  MinAvailable,  \* a pool with fewer is extended
  MaxCalls,      \* bound on calls
  MaxUnderWay,   \* bound on calls at the same time
  Batches,       \* sequences of keys
  Programs       \* sets of calls: a behaviour makes calls of one of them

ASSUME BoxAssumption ==
  {MaxKey, RingSize, Preallocated, MinAvailable, MaxCalls, MaxUnderWay} \subseteq Nat \ {0}

VARIABLES
  box,       \* the engine: space, stored keys, references, diagnostics, iterator, buffers
  request,   \* the requests made so far with their tasks
  pool,      \* for each kind of request the queue of free ones, the last is taken first
  extending, \* the pools which a microtask is going to extend
  queue,     \* tasks in the storage's ring, in order
  batch,     \* what a handler of several tuples has done so far, or nothing
  answers,   \* tasks answered but not yet submitted
  held,      \* what isolates hold: references of tuples, ports, buffers
  releasing, \* a reference count an isolate has read but not yet written
  calls,     \* calls so far
  program,   \* the calls the isolates make
  trouble    \* what went wrong so far

vars == <<box, request, pool, extending, queue, batch, answers, held, releasing, calls, program, trouble>>

\* A call stores at most two tuples.
Tuples == 1..(2 * MaxCalls)
NoTuple == 0
Keys == 1..MaxKey

ASSUME BatchesAssumption == Batches \subseteq Seq(Keys)

Output(kind, of) == [kind |-> kind, of |-> of]
NoOutput == Output("none", <<>>)

-----------------------------------------------------------------------------
(* The engine. *)

Referred(w, t, n) == [w EXCEPT !.refs[t] = @ + n]
Ok(w, t) == [w |-> w, ok |-> TRUE, tuple |-> t]

\* An operation the engine refuses records why.
Refused(w) == [w |-> [w EXCEPT !.diag = "own"], ok |-> FALSE, tuple |-> NoTuple]

\* The tuple of a key leaves the space, a new one enters it.
Erase(w, k) ==
  IF w.space[k] = NoTuple THEN w
  ELSE [Referred(w, w.space[k], -1) EXCEPT !.space[k] = NoTuple]
Store(w, k) ==
  LET t == Len(w.key) + 1 IN
  [Referred(Erase(w, k), t, 1) EXCEPT !.space[k] = t, !.key = Append(@, k)]

box_replace(w, k) == Ok(Store(w, k), Len(w.key) + 1)
box_insert(w, k) == IF w.space[k] # NoTuple THEN Refused(w) ELSE box_replace(w, k)
box_delete(w, k) == Ok(Erase(w, k), w.space[k])
box_update(w, k) == IF w.space[k] = NoTuple THEN Ok(w, NoTuple) ELSE box_replace(w, k)
box_upsert(w, k) == Ok(Store(w, k), NoTuple)
box_index_get(w, k) == Ok(w, w.space[k])

Present(w) == {k \in Keys : w.space[k] # NoTuple}
box_index_min(w, k) == Ok(w, IF Present(w) = {} THEN NoTuple ELSE w.space[Min(Present(w))])
box_index_max(w, k) == Ok(w, IF Present(w) = {} THEN NoTuple ELSE w.space[Max(Present(w))])

\* The iterator goes on to the next key; at the end there is no tuple and no error.
box_iterator_next(w) ==
  LET ahead == {k \in Present(w) : k > w.iterator} IN
  IF ahead = {} THEN Ok(w, NoTuple)
  ELSE Ok([w EXCEPT !.iterator = Min(ahead)], w.space[Min(ahead)])

\* A bug to tell apart: the changes of a failed transaction stay.
Faulty_txn_rollback(w, space) == w

\* The space is what it was; its references are too.
txn_rollback(w, space) ==
  LET in(s, t) == IF \E k \in Keys : s[k] = t THEN 1 ELSE 0 IN
  [w EXCEPT !.space = space, !.refs = [t \in Tuples |-> @[t] + in(space, t) - in(w.space, t)]]

-----------------------------------------------------------------------------
(* The calls. *)

SpaceCalls == {"put", "insert", "delete", "get", "min", "max", "put_many", "insert_many", "delete_many"}
IndexCalls == {"index_get", "index_min", "index_max"}
UpdateCalls == {"update", "update_many"}
IndexUpdateCalls == {"index_update", "index_update_many"}
TupleCalls == {"put", "insert", "delete", "get", "min", "max", "update", "upsert",
               "index_get", "index_min", "index_max", "index_update", "next", "misread"}
ManyCalls == {"put_many", "insert_many", "delete_many", "update_many", "index_update_many", "next_many"}
ValueCalls == {"count", "length", "index_count", "index_length", "id_by_name", "index_id_by_name"}
KeyCalls == TupleCalls \ {"min", "max", "index_min", "index_max", "next", "misread"}
LuaCalls == {"evaluate", "call"}
UndefinedCalls == LuaCalls \union {"misread"}
OtherCalls == ValueCalls \union LuaCalls \union
  {"truncate", "select", "index_select", "iterator", "index_iterator", "next", "next_many", "destroy",
   "free_buffer", "free_port", "free_tuple"}
Calls == SpaceCalls \union IndexCalls \union UpdateCalls \union IndexUpdateCalls \union {"upsert", "misread"} \union OtherCalls

-----------------------------------------------------------------------------
(* What a handler makes of the task: the engine afterwards, the output (kept  *)
(* if it is not set), failure and crash.                                      *)

Done(w, output) == [w |-> w, output |-> {output}, failed |-> FALSE, crash |-> FALSE]
Kept(w) == [w |-> w, output |-> {}, failed |-> FALSE, crash |-> FALSE]
Crash(w) == [w |-> w, output |-> {}, failed |-> FALSE, crash |-> TRUE]

\* The last error of the fiber, whichever call it comes from, or an empty one.
storage_send_error(w) ==
  [w |-> w, output |-> {Output("event", <<w.diag>>)}, failed |-> TRUE, crash |-> FALSE]

\* A bug to tell apart: the tuple is handed out without a reference.
FaultySingle(result) ==
  IF ~result.ok THEN storage_send_error(result.w)
  ELSE IF result.tuple = NoTuple THEN Kept(result.w)
  ELSE Done(result.w, Output("tuple", <<result.tuple>>))

\* The handlers of one tuple.
Single(result) ==
  IF ~result.ok THEN storage_send_error(result.w)
  ELSE IF result.tuple = NoTuple THEN Kept(result.w)
  ELSE Done(Referred(result.w, result.tuple, 1), Output("tuple", <<result.tuple>>))

storage_space_put_single(w, k) == Single(box_replace(w, k))
storage_space_insert_single(w, k) == Single(box_insert(w, k))
storage_space_delete_single(w, k) == Single(box_delete(w, k))
storage_space_update_single(w, k) == Single(box_update(w, k))
storage_space_upsert(w, k) == Single(box_upsert(w, k))
storage_space_get(w, k) == Single(box_index_get(w, k))
storage_space_min(w, k) == Single(box_index_min(w, k))
storage_space_max(w, k) == Single(box_index_max(w, k))
storage_index_get(w, k) == Single(box_index_get(w, k))
storage_index_min(w, k) == Single(box_index_max(w, k))
storage_index_max(w, k) == Single(box_index_min(w, k))
storage_index_update_single(w, k) == Single(box_update(w, k))

\* The places of a tuple in a port.
Places(port, t) == {i \in DOMAIN port : port[i] = t}

\* port_c_add_tuple: the port references every tuple it is given ...
Ported(w, port) == [w EXCEPT !.refs = [t \in Tuples |-> @[t] + Cardinality(Places(port, t))]]

\* ... and port_destroy gives its own references back.
Unported(w, port) == [w EXCEPT !.refs = [t \in Tuples |-> @[t] - Cardinality(Places(port, t))]]

\* The handlers of several tuples go over the batch key by key (see Item).
storage_space_put_many(w, k) == box_replace(w, k)
storage_space_insert_many(w, k) == box_insert(w, k)
storage_space_update_many(w, k) == box_update(w, k)
storage_space_delete_many(w, k) == box_delete(w, k)
storage_index_update_many(w, k) == box_update(w, k)
storage_iterator_next_many(w) == box_iterator_next(w)

\* box_select into a port, key by key, the secondary index in its own order.
Ordered(keys) ==
  [i \in 1..Cardinality(keys) |-> CHOOSE k \in keys : Cardinality({j \in keys : j < k}) = i - 1]
Selected(w, keys) ==
  LET port == [i \in DOMAIN keys |-> w.space[keys[i]]] IN Done(Ported(w, port), Output("port", port))

storage_space_select(w) == Selected(w, Ordered(Present(w)))
storage_index_select(w) == Selected(w, Reverse(Ordered(Present(w))))

\* An iterator that the engine refuses is a null pointer, answered as if it were one.
Opened(w, fault) ==
  Done(IF fault = "engine" THEN [Refused(w).w EXCEPT !.iterator = -1] ELSE [w EXCEPT !.iterator = 0],
       Output("iterator", <<>>))
storage_space_iterator(w, fault) == Opened(w, fault)
storage_index_iterator(w, fault) == Opened(w, fault)

\* The end is answered as an error, of whichever call failed last.
storage_iterator_next_single(w) ==
  LET result == box_iterator_next(w) IN
  IF w.iterator = -1 THEN Crash(w)
  ELSE IF result.tuple = NoTuple THEN storage_send_error(result.w) ELSE Single(result)

storage_iterator_destroy(w) == Kept([w EXCEPT !.iterator = -1])

storage_space_count(w) == Done(w, Output("value", <<Cardinality(Present(w))>>))
storage_space_length(w) == Done(w, Output("value", <<Cardinality(Present(w))>>))
storage_index_count(w) == Done(w, Output("value", <<Cardinality(Present(w))>>))
storage_index_length(w) == Done(w, Output("value", <<Cardinality(Present(w))>>))
storage_space_id_by_name(w) == Done(w, Output("value", <<1>>))
storage_index_id_by_name(w) == Done(w, Output("value", <<1>>))
storage_space_truncate(w) == Kept(txn_rollback(w, [k \in Keys |-> NoTuple]))

\* Lua code returns its values in a new buffer.
storage_evaluate(w) == Done([w EXCEPT !.buffers = @ + 1], Output("buffer", <<>>))
storage_call(w) == Done([w EXCEPT !.buffers = @ + 1], Output("buffer", <<>>))

storage_free_output_buffer(w) == Kept([w EXCEPT !.buffers = @ - 1])
storage_free_output_port(w, port) == Kept(Unported(w, port))
storage_free_output_tuple(w, t) == Kept(Referred(w, t, -1))

\* The engine refuses.  Counts, lengths and names answer what it returns and truncate
\* does not look.  The handlers of Lua destroy a port that nobody has set and an iterator
\* may be a null pointer: undefined, at worst a crash.
Failing(w, op, fault) ==
  IF op \in ValueCalls THEN Done(Refused(w).w, Output("value", <<-1>>))
  ELSE IF op = "truncate" THEN Kept(Refused(w).w)
  ELSE IF fault = "undefined" \/ (op = "next" /\ w.iterator = -1) THEN Crash(w)
  ELSE storage_send_error(Refused(w).w)

\* storage_space_update_single takes the operations of an upsert for the key and their
\* length for their address: no tuple with such a key, an error or a crash.
Misread(w, fault) == IF fault = "none" THEN Kept(w) ELSE Failing(w, "misread", fault)
-----------------------------------------------------------------------------
(* The requests. *)

\* Requests of the same structure share a pool.  Those of the other calls are never
\* read before they are written: they are taken together.
Kind(op) ==
  IF op \in SpaceCalls THEN "space" ELSE IF op \in IndexCalls THEN "index"
  ELSE IF op \in UpdateCalls THEN "update" ELSE IF op \in IndexUpdateCalls THEN "index_update"
  ELSE IF op \in {"upsert", "misread"} THEN "upsert" ELSE "other"
Kinds == {"space", "index", "update", "index_update", "upsert", "other"}

Made(kind) == {r \in DOMAIN request : r[1] = kind}
New(kind, n) == <<kind, Cardinality(Made(kind)) + n>>
Blank == [at |-> "free", op |-> "none", keys |-> <<>>, output |-> NoOutput, failed |-> FALSE, fresh |-> FALSE]
UnderWay(r) == request[r].at \in {"sent", "answered"}

\* MemoryObjects.allocate: from an empty queue the new request is returned and queued
\* as well, before the queue is extended to twice its length.
allocate(kind) ==
  IF pool[kind] = <<>> THEN [taken |-> New(kind, 1), pool |-> <<New(kind, 1), New(kind, 2)>>]
  ELSE [taken |-> Last(pool[kind]), pool |-> Front(pool[kind])]

\* MemoryObjects._extend in a microtask.
Extend(kind) ==
  /\ kind \in extending
  /\ extending' = extending \ {kind}
  /\ LET more == [i \in 1..Len(pool[kind]) |-> New(kind, i)] IN
     /\ pool' = [pool EXCEPT ![kind] = @ \o more]
     /\ request' = [r \in DOMAIN request \union {more[i] : i \in DOMAIN more} |->
                      IF r \in DOMAIN request THEN request[r] ELSE Blank]
  /\ UNCHANGED <<box, queue, batch, answers, held, releasing, calls, program, trouble>>

\* An isolate calls a handler: the request is filled in and sent.
Call(op, keys, holding) ==
  /\ op \in program /\ calls < MaxCalls /\ "crash" \notin trouble
  /\ Cardinality({r \in DOMAIN request : UnderWay(r)}) < MaxUnderWay
  /\ calls' = calls + 1
  /\ held' = holding
  /\ LET kind == Kind(op)
         r == allocate(kind).taken
         pooled == allocate(kind).pool
         old == IF r \in DOMAIN request THEN request[r] ELSE Blank
         sent == [old EXCEPT !.at = "sent", !.op = op, !.keys = keys, !.fresh = FALSE]
     IN /\ pool' = [pool EXCEPT ![kind] = pooled]
        /\ extending' = IF pool[kind] # <<>> /\ Len(pooled) < MinAvailable
                        THEN extending \union {kind} ELSE extending
        /\ request' = [q \in DOMAIN request \union {r} \union Range(pooled) |->
                         IF q = r THEN sent ELSE IF q \in DOMAIN request THEN request[q] ELSE Blank]
        /\ queue' = Append(queue, r)
        /\ trouble' = trouble \union (IF pool[kind] = <<>> THEN {"drained"} ELSE {})
                              \union (IF r \in DOMAIN request /\ UnderWay(r) THEN {"shared"} ELSE {})
  /\ UNCHANGED <<box, batch, answers, releasing, program>>

\* What the call needs: an iterator, or something to give back.
CallPlain == \E op \in Calls \ (ManyCalls \union {"next", "next_many", "destroy", "free_buffer", "free_port",
                                                  "free_tuple"}) :
               \E k \in IF op \in KeyCalls THEN Keys ELSE {1} : Call(op, <<k>>, held)
CallMany == \E op \in ManyCalls \ {"next_many"}, keys \in Batches : Call(op, keys, held)
CallIterator ==
  /\ held.iterator
  /\ \E op \in {"next", "next_many", "destroy"} :
       Call(op, <<1, 1>>, [held EXCEPT !.iterator = op # "destroy"])
FreeBuffer == held.buffers > 0 /\ Call("free_buffer", <<>>, [held EXCEPT !.buffers = @ - 1])
FreePort ==
  \E port \in Range(held.ports) :
    Call("free_port", port, [held EXCEPT !.ports = RemoveFirst(@, port)])
FreeTuple ==
  \E t \in Tuples :
    /\ held.tuples[t] > 0
    /\ Call("free_tuple", <<t>>, [held EXCEPT !.tuples[t] = @ - 1])

-----------------------------------------------------------------------------
(* The fiber of the storage. *)

\* Whether the engine refuses a call: the others do not ask it.
Refuses(op, fault) ==
  \/ fault = "engine" /\ op \in TupleCalls \union LuaCalls \union ValueCalls
                                \union {"truncate", "select", "index_select"}
  \/ fault = "undefined" /\ op \in UndefinedCalls

\* The handler of a task.
Handle(w, op, keys, fault) ==
  LET k == Head(keys) IN
  IF op = "misread" THEN Misread(w, fault)
  ELSE IF Refuses(op, fault) THEN Failing(w, op, fault)
  ELSE
  CASE op = "put" -> storage_space_put_single(w, k)
    [] op = "insert" -> storage_space_insert_single(w, k)
    [] op = "delete" -> storage_space_delete_single(w, k)
    [] op = "update" -> storage_space_update_single(w, k)
    [] op = "upsert" -> storage_space_upsert(w, k)
    [] op = "get" -> storage_space_get(w, k)
    [] op = "min" -> storage_space_min(w, k)
    [] op = "max" -> storage_space_max(w, k)
    [] op = "index_get" -> storage_index_get(w, k)
    [] op = "index_min" -> storage_index_min(w, k)
    [] op = "index_max" -> storage_index_max(w, k)
    [] op = "index_update" -> storage_index_update_single(w, k)
    [] op = "select" -> storage_space_select(w)
    [] op = "index_select" -> storage_index_select(w)
    [] op = "iterator" -> storage_space_iterator(w, fault)
    [] op = "index_iterator" -> storage_index_iterator(w, fault)
    [] op = "next" -> storage_iterator_next_single(w)
    [] op = "destroy" -> storage_iterator_destroy(w)
    [] op = "count" -> storage_space_count(w)
    [] op = "length" -> storage_space_length(w)
    [] op = "index_count" -> storage_index_count(w)
    [] op = "index_length" -> storage_index_length(w)
    [] op = "id_by_name" -> storage_space_id_by_name(w)
    [] op = "index_id_by_name" -> storage_index_id_by_name(w)
    [] op = "truncate" -> storage_space_truncate(w)
    [] op = "evaluate" -> storage_evaluate(w)
    [] op = "call" -> storage_call(w)
    [] op = "free_buffer" -> storage_free_output_buffer(w)
    [] op = "free_port" -> storage_free_output_port(w, keys)
    [] op = "free_tuple" -> storage_free_output_tuple(w, k)

\* The fiber's last error becomes an old one with the next task.
Later(w) == [w EXCEPT !.diag = IF @ = "own" THEN "old" ELSE @]

\* The handler of the first task returns: an entry is taken for the answer, without a
\* look at whether there is one.
Return(result) ==
  LET r == Head(queue)
      full == Len(answers) >= RingSize
  IN /\ box' = result.w
     /\ request' = [request EXCEPT
          ![r].failed = result.failed,
          ![r].fresh = result.output # {},
          ![r].output = IF result.output = {} THEN @ ELSE CHOOSE o \in result.output : TRUE]
     /\ queue' = Tail(queue)
     /\ batch' = <<>>
     /\ answers' = IF full \/ result.crash THEN answers ELSE Append(answers, r)
     /\ trouble' = trouble
          \union (IF result.crash THEN {"crash"} ELSE IF full THEN {"crash", "full"} ELSE {})
          \union (IF releasing # <<>> /\ result.w.refs[releasing[1]] # box.refs[releasing[1]]
                  THEN {"race"} ELSE {})
     /\ UNCHANGED <<pool, extending, held, releasing, calls, program>>

\* The fiber is at the first task, in the middle of a batch or not.
Running(many) == queue # <<>> /\ "crash" \notin trouble /\ (batch # <<>>) = many
Op == request[Head(queue)].op

\* One completion in the loop of storage_executor_start.
Execute(fault) ==
  /\ Running(FALSE) /\ Op \notin ManyCalls
  /\ fault = "undefined" => Op \in UndefinedCalls
  /\ Return(Handle(Later(box), Op, request[Head(queue)].keys, fault))

\* A handler of several tuples begins its transaction.
Begin ==
  /\ Running(FALSE) /\ Op \in ManyCalls
  /\ batch' = <<[op |-> Op, left |-> request[Head(queue)].keys, space |-> box.space, port |-> <<>>]>>
  /\ box' = Later(box)
  /\ UNCHANGED <<request, pool, extending, queue, answers, held, releasing, calls, program, trouble>>

Operation(w, op, k) ==
  CASE op = "put_many" -> storage_space_put_many(w, k)
    [] op = "insert_many" -> storage_space_insert_many(w, k)
    [] op = "update_many" -> storage_space_update_many(w, k)
    [] op = "delete_many" -> storage_space_delete_many(w, k)
    [] op = "index_update_many" -> storage_index_update_many(w, k)
    [] op = "next_many" -> storage_iterator_next_many(w)

\* The port is destroyed and the transaction rolled back.  The iterator has none.
Undone(w) ==
  IF batch[1].op = "next_many" THEN Unported(w, batch[1].port)
  ELSE txn_rollback(Unported(w, batch[1].port), batch[1].space)

\* The next key of the batch.  Every tuple is referenced by tuple_ref and once more by
\* port_c_add_tuple, by the iterator only there; a missing tuple is a null pointer at
\* tuple_ref, to the iterator it is the end, answered as an error.  The engine may
\* refuse a key that is fine, the port may be out of memory.
Item(fault) ==
  /\ Running(TRUE) /\ batch[1].left # <<>>
  /\ LET result == IF fault = "engine" THEN Refused(box) ELSE Operation(box, batch[1].op, Head(batch[1].left))
         iterated == batch[1].op = "next_many"
         w == IF iterated \/ result.tuple = NoTuple THEN result.w ELSE Referred(result.w, result.tuple, 1)
     IN \/ /\ result.tuple = NoTuple /\ ~iterated /\ result.ok
           /\ Return(Crash(w))
        \/ /\ ~result.ok \/ (result.tuple = NoTuple /\ iterated)
           /\ Return(IF iterated /\ box.iterator = -1 THEN Crash(w) ELSE storage_send_error(Undone(w)))
        \/ /\ result.tuple # NoTuple /\ fault = "port"
           /\ Return(storage_send_error(Undone([w EXCEPT !.diag = "own"])))
        \/ /\ result.tuple # NoTuple /\ fault = "none"
           /\ box' = Referred(w, result.tuple, 1)
           /\ batch' = <<[batch[1] EXCEPT !.left = Tail(@), !.port = Append(@, result.tuple)]>>
           /\ trouble' = IF releasing # <<>> /\ releasing[1] = result.tuple
                         THEN trouble \union {"race"} ELSE trouble
           /\ UNCHANGED <<request, pool, extending, queue, answers, held, releasing, calls, program>>

\* The end of the batch: txn_commit, which may fail and rolls back itself.
Commit(fault) ==
  /\ Running(TRUE) /\ batch[1].left = <<>>
  /\ \/ fault = "none" /\ Return(Done(box, Output("port", batch[1].port)))
     \/ /\ fault = "commit" /\ batch[1].op # "next_many"
        /\ Return(storage_send_error(Undone([box EXCEPT !.diag = "own"])))

\* A bug to tell apart: the entries stay taken.
FaultyRemaining == answers

\* io_uring_submit hands over all entries.
Remaining == <<>>

\* The completions are used up: the answers are submitted.
Submit ==
  /\ queue = <<>> /\ answers # <<>> /\ "crash" \notin trouble
  /\ answers' = Remaining
  /\ request' = [r \in DOMAIN request |->
                   IF r \in Range(answers) THEN [request[r] EXCEPT !.at = "answered"] ELSE request[r]]
  /\ UNCHANGED <<box, pool, extending, queue, batch, held, releasing, calls, program, trouble>>

-----------------------------------------------------------------------------
(* The isolates. *)

\* What the isolate takes from the output, whoever wrote it.
Taken(q) ==
  LET kind == q.output.kind IN
  IF q.op \in TupleCalls /\ kind = "tuple" THEN [held EXCEPT !.tuples[q.output.of[1]] = @ + 1]
  ELSE IF kind = "port" /\ q.fresh THEN [held EXCEPT !.ports = Append(@, q.output.of)]
  ELSE IF kind = "buffer" /\ q.fresh THEN [held EXCEPT !.buffers = @ + 1]
  ELSE IF kind = "iterator" /\ q.fresh THEN [held EXCEPT !.iterator = TRUE]
  ELSE held

\* The call ends: the request goes back to its pool, except after an error, when
\* neither the request is released nor the call forgotten.
Complete(r) ==
  /\ r \in DOMAIN request /\ request[r].at = "answered" /\ "crash" \notin trouble
  /\ LET q == request[r] IN
     IF q.failed
     THEN /\ request' = [request EXCEPT ![r].at = "lost"]
          /\ UNCHANGED <<pool, held, trouble>>
     ELSE /\ request' = [request EXCEPT ![r].at = "free", ![r].op = "none", ![r].keys = <<>>]
          /\ pool' = [pool EXCEPT ![r[1]] = Append(@, r)]
          /\ held' = Taken(q)
          /\ trouble' = trouble \union
               (IF q.op \in TupleCalls /\ ~q.fresh /\ q.output.kind # "none" THEN {"stale"} ELSE {})
  /\ UNCHANGED <<box, extending, queue, batch, answers, releasing, calls, program>>

\* storage_tuple_release runs in the isolate: it reads the count ...
ReleaseRead ==
  /\ releasing = <<>> /\ "crash" \notin trouble
  /\ \E t \in Tuples :
       /\ held.tuples[t] > 0
       /\ held' = [held EXCEPT !.tuples[t] = @ - 1]
       /\ releasing' = <<t, box.refs[t]>>
  /\ UNCHANGED <<box, request, pool, extending, queue, batch, answers, calls, program, trouble>>

\* ... and writes it, whatever the storage did to it meanwhile.
ReleaseWrite ==
  /\ releasing # <<>>
  /\ box' = [box EXCEPT !.refs[releasing[1]] = releasing[2] - 1]
  /\ releasing' = <<>>
  /\ UNCHANGED <<request, pool, extending, queue, batch, answers, held, calls, program, trouble>>

-----------------------------------------------------------------------------
Init ==
  /\ box = [space |-> [k \in Keys |-> NoTuple], key |-> <<>>, refs |-> [t \in Tuples |-> 0],
            diag |-> "none", iterator |-> -1, buffers |-> 0]
  /\ request = [r \in Kinds \X (1..Preallocated) |-> Blank]
  /\ pool = [kind \in Kinds |-> [i \in 1..Preallocated |-> <<kind, i>>]]
  /\ extending = {}
  /\ queue = <<>> /\ batch = <<>> /\ answers = <<>>
  /\ held = [tuples |-> [t \in Tuples |-> 0], ports |-> <<>>, buffers |-> 0, iterator |-> FALSE]
  /\ releasing = <<>> /\ calls = 0 /\ program \in Programs /\ trouble = {}

Serve ==
  \/ Submit
  \/ Begin
  \/ \E fault \in {"none", "engine", "undefined"} : Execute(fault)
  \/ \E fault \in {"none", "engine", "port"} : Item(fault)
  \/ \E fault \in {"none", "commit"} : Commit(fault)

Next ==
  \/ CallPlain \/ CallMany \/ CallIterator \/ FreeBuffer \/ FreePort \/ FreeTuple
  \/ Serve
  \/ \E kind \in Kinds : Extend(kind)
  \/ \E r \in DOMAIN request : Complete(r)
  \/ ReleaseRead \/ ReleaseWrite

Spec == Init /\ [][Next]_vars

-----------------------------------------------------------------------------
(* Properties. *)

InPorts(t) ==
  Cardinality({pi \in (DOMAIN held.ports) \X (1..MaxKey) :
                 pi[2] \in DOMAIN held.ports[pi[1]] /\ held.ports[pi[1]][pi[2]] = t})
Answered(t) ==
  {r \in DOMAIN request : /\ UnderWay(r) /\ request[r].fresh
                          /\ request[r].output.kind \in {"tuple", "port"}
                          /\ t \in Range(request[r].output.of)}

\* Every tuple somebody still uses is referenced by as many: by the space, by the
\* isolates that hold it, by their ports and by answers on the way.  So no tuple is
\* freed early by the handlers, as long as no isolate was given the output of an
\* earlier call, no release raced with the storage and no request was shared.
NoEarlyFree ==
  trouble \intersect {"stale", "race", "shared"} = {} =>
    \A t \in Tuples :
      box.refs[t] >= Cardinality({k \in Keys : box.space[k] = t}) + held.tuples[t] + InPorts(t)
                     + Cardinality(Answered(t)) + (IF releasing # <<>> /\ releasing[1] = t THEN 1 ELSE 0)

\* A handler that answers with an error leaves the space as it was when it began, also
\* when it fails in the middle of a batch or at its commit.
ErrorChangesNothing ==
  [][\A r \in DOMAIN request :
       UnderWay(r) /\ r \notin Range(answers) /\ r \in Range(answers') /\ request'[r].failed
         => box'.space = (IF batch = <<>> THEN box.space ELSE batch[1].space)]_vars

\* An error event tells about the call it answers, except at the end of an iterator:
\* there it is empty or the error of a call before.
ErrorsOwn ==
  \A r \in DOMAIN request :
    (r \in Range(answers) \/ request[r].at = "answered") /\ request[r].failed /\ request[r].output = Output("event", <<"old">>)
      => request[r].op \in {"next", "next_many"}

\* Two calls share a request only after its pool has run empty.
RequestsExclusive == "shared" \in trouble => "drained" \in trouble

\* The storage runs out of submission entries only while more calls are under way than
\* its ring holds: answers do not pile up over the passes of the loop.
AnswersFit ==
  "full" \in trouble => Cardinality({r \in DOMAIN request : request[r].at = "sent"}) > RingSize

\* What comes back is for the call it answers, and there is room for it.  Two calls
\* share a request only after the pool of requests has run empty; then an answer may
\* be for either of them.
AnswersInv == RequestsExclusive /\ ("shared" \notin trouble => AnswersFit /\ ErrorsOwn)
====
