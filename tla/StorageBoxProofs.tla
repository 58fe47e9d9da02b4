-------------------------- MODULE StorageBoxProofs --------------------------
(***************************************************************************)
(* Proofs about the storage: an answer is for the call it answers, a call  *)
(* that fails changes nothing, and no tuple is freed while it is needed.   *)
(* For every number of keys, of calls and of requests, every size of the   *)
(* ring and every set of batches and of programs.                          *)
(***************************************************************************)
EXTENDS StorageBox, FiniteSetTheorems, SequenceTheorems, TLAPS

BoxFields == {"space", "key", "refs", "diag", "iterator", "buffers"}
TaskFields == {"at", "op", "keys", "output", "failed", "fresh"}
BatchFields == {"op", "left", "space", "port"}

\* What is queued is still to be answered.
TaskPart ==
  /\ DOMAIN box = BoxFields
  /\ \A r \in DOMAIN request : DOMAIN request[r] = TaskFields
  /\ queue \in Seq(DOMAIN request) /\ answers \in Seq(DOMAIN request)
  /\ \A i \in DOMAIN queue : request[queue[i]].at = "sent" /\ request[queue[i]].op \in Calls

\* The handler in the middle of a batch is the one of the first task, unless
\* another call has overwritten that; an iterator does not change the space.
BatchPart ==
  batch # <<>> =>
    /\ queue # <<>> /\ DOMAIN batch[1] = BatchFields /\ batch[1].op \in ManyCalls
    /\ batch[1].op = "next_many" => box.space = batch[1].space
    /\ "shared" \notin trouble => batch[1].op = Op

\* The requests of a kind are numbered from 1.
Numbered(kind, n) == {kind} \X (1 .. n)
NamePart ==
  /\ DOMAIN request \subseteq Kinds \X Nat /\ IsFiniteSet(DOMAIN request)
  /\ \A kind \in Kinds : \E n \in Nat : Made(kind) = Numbered(kind, n)

\* Before a pool has run empty, its requests are free and different.
PoolPart ==
  /\ DOMAIN pool = Kinds /\ \A kind \in Kinds : pool[kind] \in Seq(Made(kind))
  /\ "drained" \notin trouble =>
       \A kind \in Kinds : \A i \in DOMAIN pool[kind] :
         /\ request[pool[kind][i]].at = "free"
         /\ \A j \in DOMAIN pool[kind] : pool[kind][i] = pool[kind][j] => i = j

\* Without sharing, tasks that are queued and answered are all different.
DistinctPart ==
  "shared" \notin trouble =>
    /\ \A i, j \in DOMAIN queue : queue[i] = queue[j] => i = j
    /\ \A i, j \in DOMAIN answers : answers[i] = answers[j] => i = j
    /\ \A i \in DOMAIN answers : request[answers[i]].at = "sent"
    /\ \A i \in DOMAIN answers, j \in DOMAIN queue : answers[i] # queue[j]

\* A storage that ran out of entries is gone.
FullPart == "full" \in trouble => "crash" \in trouble /\ ("shared" \notin trouble => AnswersFit)

ErrorPart == "shared" \notin trouble => ErrorsOwn

BoxInv ==
  /\ TaskPart /\ BatchPart /\ NamePart /\ PoolPart /\ RequestsExclusive
  /\ DistinctPart /\ FullPart /\ ErrorPart

-----------------------------------------------------------------------------
(* What handlers make of a task. *)

\* A result that may be returned: one that fails tells why and keeps the space.
Fits(space, result, op) ==
  /\ DOMAIN result.w = BoxFields
  /\ result.failed => /\ result.w.space = space
                      /\ \E d : /\ result.output = {Output("event", <<d>>)}
                                /\ d = "old" => op \in {"next", "next_many"}

LEMMA SpaceKept ==
  ASSUME NEW w, DOMAIN w = BoxFields
  PROVE  /\ \A t, n : DOMAIN Referred(w, t, n) = BoxFields /\ Referred(w, t, n).space = w.space
                      /\ Referred(w, t, n).diag = w.diag
         /\ \A k : DOMAIN Erase(w, k) = BoxFields /\ DOMAIN Store(w, k) = BoxFields
         /\ DOMAIN Refused(w).w = BoxFields /\ Refused(w).w.space = w.space /\ Refused(w).w.diag = "own"
<1>1. \A t, n : DOMAIN Referred(w, t, n) = BoxFields /\ Referred(w, t, n).space = w.space
                /\ Referred(w, t, n).diag = w.diag
  BY DEF Referred, BoxFields
<1>2. \A k : DOMAIN Erase(w, k) = BoxFields
  BY <1>1 DEF Erase
<1>3. \A k : DOMAIN Store(w, k) = BoxFields
  BY <1>2 DEF Store, Referred
<1>4. DOMAIN Refused(w).w = BoxFields /\ Refused(w).w.space = w.space /\ Refused(w).w.diag = "own"
  BY DEF Refused, BoxFields
<1>5. QED
  BY <1>1, <1>2, <1>3, <1>4

LEMMA ErrorFits ==
  ASSUME NEW w, DOMAIN w = BoxFields, NEW v, DOMAIN v = BoxFields, NEW op,
         v.space = w.space, v.diag = "old" => op \in {"next", "next_many"}
  PROVE  Fits(w.space, storage_send_error(v), op)
  BY DEF Fits, storage_send_error

LEMMA AnswerFits ==
  ASSUME NEW w, NEW v, DOMAIN v = BoxFields, NEW op
  PROVE  /\ \A o : Fits(w.space, Done(v, o), op)
         /\ Fits(w.space, Kept(v), op) /\ Fits(w.space, Crash(v), op)
  BY DEF Fits, Done, Kept, Crash

\* A result of the engine: it is refused and the space is kept, or it is not.
Result(w, result) ==
  /\ DOMAIN result.w = BoxFields
  /\ ~result.ok => result.w.space = w.space /\ result.w.diag = "own"

LEMMA SingleFits ==
  ASSUME NEW w, DOMAIN w = BoxFields, NEW op, NEW result, Result(w, result)
  PROVE  Fits(w.space, Single(result), op)
<1>1. CASE ~result.ok
  <2>1. Single(result) = storage_send_error(result.w)
    BY <1>1 DEF Single
  <2>2. QED
    BY <1>1, <2>1, ErrorFits DEF Result
<1>2. CASE result.ok
  <2>1. DOMAIN result.w = BoxFields /\ DOMAIN Referred(result.w, result.tuple, 1) = BoxFields
    BY SpaceKept DEF Result
  <2>2. CASE result.tuple = NoTuple
    <3>1. Single(result) = Kept(result.w)
      BY <1>2, <2>2 DEF Single
    <3>2. QED
      BY <2>1, <3>1, AnswerFits
  <2>3. CASE result.tuple # NoTuple
    <3>1. Single(result) = Done(Referred(result.w, result.tuple, 1), Output("tuple", <<result.tuple>>))
      BY <1>2, <2>3 DEF Single
    <3>2. QED
      BY <2>1, <3>1, AnswerFits
  <2>4. QED
    BY <2>2, <2>3
<1>3. QED
  BY <1>1, <1>2

LEMMA EngineResults ==
  ASSUME NEW w, DOMAIN w = BoxFields, NEW k
  PROVE  /\ Result(w, box_replace(w, k)) /\ Result(w, box_insert(w, k)) /\ Result(w, box_delete(w, k))
         /\ Result(w, box_update(w, k)) /\ Result(w, box_upsert(w, k)) /\ Result(w, box_index_get(w, k))
         /\ Result(w, box_index_min(w, k)) /\ Result(w, box_index_max(w, k))
<1>1. ASSUME NEW v, DOMAIN v = BoxFields, NEW t PROVE Result(w, Ok(v, t))
  BY <1>1 DEF Result, Ok
<1>2. Result(w, Refused(w))
  BY SpaceKept DEF Result
<1>3. DOMAIN Store(w, k) = BoxFields /\ DOMAIN Erase(w, k) = BoxFields
  BY SpaceKept
<1>4. Result(w, box_replace(w, k)) /\ Result(w, box_delete(w, k)) /\ Result(w, box_upsert(w, k))
  BY <1>1, <1>3 DEF box_replace, box_delete, box_upsert
<1>5. Result(w, box_insert(w, k)) /\ Result(w, box_update(w, k))
  BY <1>1, <1>2, <1>4 DEF box_insert, box_update
<1>6. Result(w, box_index_get(w, k)) /\ Result(w, box_index_min(w, k)) /\ Result(w, box_index_max(w, k))
  BY <1>1 DEF box_index_get, box_index_min, box_index_max
<1>7. QED
  BY <1>4, <1>5, <1>6

\* The iterator goes on and leaves the space alone.
LEMMA NextResult ==
  ASSUME NEW w, DOMAIN w = BoxFields
  PROVE  /\ DOMAIN box_iterator_next(w).w = BoxFields /\ box_iterator_next(w).w.space = w.space
         /\ box_iterator_next(w).ok = TRUE
<1>1. PICK ahead : ahead = {k \in Present(w) : k > w.iterator}
  OBVIOUS
<1>2. box_iterator_next(w) = IF ahead = {} THEN Ok(w, NoTuple)
                             ELSE Ok([w EXCEPT !.iterator = Min(ahead)], w.space[Min(ahead)])
  BY <1>1, Zenon DEF box_iterator_next
<1>3. \A v, t : Ok(v, t).w = v /\ Ok(v, t).ok = TRUE
  BY DEF Ok
<1>4. \A m : DOMAIN [w EXCEPT !.iterator = m] = BoxFields /\ [w EXCEPT !.iterator = m].space = w.space
  BY DEF BoxFields
<1>5. \/ box_iterator_next(w) = Ok(w, NoTuple)
      \/ box_iterator_next(w) = Ok([w EXCEPT !.iterator = Min(ahead)], w.space[Min(ahead)])
  BY <1>2
<1>6. \E v, t : box_iterator_next(w) = Ok(v, t) /\ DOMAIN v = BoxFields /\ v.space = w.space
  <2>1. CASE box_iterator_next(w) = Ok(w, NoTuple)
    BY <2>1, Zenon
  <2>2. CASE box_iterator_next(w) = Ok([w EXCEPT !.iterator = Min(ahead)], w.space[Min(ahead)])
    <3>1. PICK v, t : v = [w EXCEPT !.iterator = Min(ahead)] /\ t = w.space[Min(ahead)]
      OBVIOUS
    <3>2. DOMAIN v = BoxFields /\ v.space = w.space
      BY <1>4, <3>1
    <3>3. box_iterator_next(w) = Ok(v, t)
      BY <2>2, <3>1, Zenon
    <3>4. QED
      BY <3>2, <3>3, Zenon
  <2>3. QED
    BY <1>5, <2>1, <2>2
<1>7. QED
  BY <1>3, <1>6, Zenon

LEMMA HandlerShapes ==
  ASSUME NEW w, DOMAIN w = BoxFields, NEW op, NEW k, NEW keys, NEW fault
  PROVE  /\ Fits(w.space, storage_space_select(w), op) /\ Fits(w.space, storage_index_select(w), op)
         /\ Fits(w.space, storage_space_iterator(w, fault), op) /\ Fits(w.space, storage_index_iterator(w, fault), op)
         /\ Fits(w.space, storage_iterator_next_single(w), "next") /\ Fits(w.space, storage_iterator_destroy(w), op)
         /\ Fits(w.space, storage_space_count(w), op) /\ Fits(w.space, storage_space_length(w), op)
         /\ Fits(w.space, storage_index_count(w), op) /\ Fits(w.space, storage_index_length(w), op)
         /\ Fits(w.space, storage_space_id_by_name(w), op) /\ Fits(w.space, storage_index_id_by_name(w), op)
         /\ Fits(w.space, storage_space_truncate(w), op)
         /\ Fits(w.space, storage_evaluate(w), op) /\ Fits(w.space, storage_call(w), op)
         /\ Fits(w.space, storage_free_output_buffer(w), op) /\ Fits(w.space, storage_free_output_port(w, keys), op)
         /\ Fits(w.space, storage_free_output_tuple(w, k), op)
<1>1. \A x : DOMAIN Selected(w, x).w = BoxFields /\ Selected(w, x).failed = FALSE
  BY DEF Selected, Ported, Done, BoxFields
<1>2. Fits(w.space, storage_space_select(w), op) /\ Fits(w.space, storage_index_select(w), op)
  BY <1>1 DEF Fits, storage_space_select, storage_index_select
<1>3. DOMAIN Opened(w, fault).w = BoxFields /\ Opened(w, fault).failed = FALSE
  BY SpaceKept DEF Opened, Done
<1>4. Fits(w.space, storage_space_iterator(w, fault), op) /\ Fits(w.space, storage_index_iterator(w, fault), op)
  BY <1>3 DEF Fits, storage_space_iterator, storage_index_iterator
<1>5. Fits(w.space, storage_iterator_next_single(w), "next")
  <2>1. PICK result : result = box_iterator_next(w)
    OBVIOUS
  <2>2. DOMAIN result.w = BoxFields /\ result.w.space = w.space /\ Result(w, result)
    BY <2>1, NextResult DEF Result
  <2>3. storage_iterator_next_single(w) \in {Crash(w), storage_send_error(result.w), Single(result)}
    BY <2>1 DEF storage_iterator_next_single
  <2>4. QED
    BY <2>2, <2>3, AnswerFits, ErrorFits, SingleFits
<1>6. Fits(w.space, storage_iterator_destroy(w), op)
  <2>1. DOMAIN [w EXCEPT !.iterator = -1] = BoxFields
    OBVIOUS
  <2>2. QED
    BY <2>1, AnswerFits DEF storage_iterator_destroy
<1>7. /\ Fits(w.space, storage_space_count(w), op) /\ Fits(w.space, storage_space_length(w), op)
      /\ Fits(w.space, storage_index_count(w), op) /\ Fits(w.space, storage_index_length(w), op)
      /\ Fits(w.space, storage_space_id_by_name(w), op) /\ Fits(w.space, storage_index_id_by_name(w), op)
  BY AnswerFits DEF storage_space_count, storage_space_length, storage_index_count, storage_index_length,
     storage_space_id_by_name, storage_index_id_by_name
<1>8. Fits(w.space, storage_space_truncate(w), op)
  <2>1. \A s : DOMAIN txn_rollback(w, s) = BoxFields
    BY DEF txn_rollback
  <2>2. QED
    BY <2>1, AnswerFits DEF storage_space_truncate
<1>9. /\ Fits(w.space, storage_evaluate(w), op) /\ Fits(w.space, storage_call(w), op)
      /\ Fits(w.space, storage_free_output_buffer(w), op)
  <2>1. \A n : DOMAIN [w EXCEPT !.buffers = n] = BoxFields
    OBVIOUS
  <2>2. QED
    BY <2>1, AnswerFits DEF storage_evaluate, storage_call, storage_free_output_buffer
<1>10. Fits(w.space, storage_free_output_port(w, keys), op)
  <2>1. DOMAIN Unported(w, keys) = BoxFields
    BY DEF Unported
  <2>2. QED
    BY <2>1, AnswerFits DEF storage_free_output_port
<1>11. Fits(w.space, storage_free_output_tuple(w, k), op)
  <2>1. DOMAIN Referred(w, k, -1) = BoxFields
    BY DEF Referred
  <2>2. QED
    BY <2>1, AnswerFits DEF storage_free_output_tuple
<1>12. QED
  BY <1>2, <1>4, <1>5, <1>6, <1>7, <1>8, <1>9, <1>10, <1>11

LEMMA SingleHandlers ==
  ASSUME NEW w, DOMAIN w = BoxFields, NEW op, NEW k
  PROVE  /\ Fits(w.space, storage_space_put_single(w, k), op) /\ Fits(w.space, storage_space_insert_single(w, k), op)
         /\ Fits(w.space, storage_space_delete_single(w, k), op) /\ Fits(w.space, storage_space_update_single(w, k), op)
         /\ Fits(w.space, storage_space_upsert(w, k), op) /\ Fits(w.space, storage_space_get(w, k), op)
         /\ Fits(w.space, storage_space_min(w, k), op) /\ Fits(w.space, storage_space_max(w, k), op)
         /\ Fits(w.space, storage_index_get(w, k), op) /\ Fits(w.space, storage_index_min(w, k), op)
         /\ Fits(w.space, storage_index_max(w, k), op) /\ Fits(w.space, storage_index_update_single(w, k), op)
<1>1. \A result : Result(w, result) => Fits(w.space, Single(result), op)
  BY SingleFits
<1>2. QED
  BY <1>1, EngineResults DEF storage_space_put_single, storage_space_insert_single,
     storage_space_delete_single, storage_space_update_single, storage_space_upsert, storage_space_get,
     storage_space_min, storage_space_max, storage_index_get, storage_index_min, storage_index_max,
     storage_index_update_single

\* The outcomes of a call the engine refuses and of a request that is misread.
LEMMA RefusedCalls ==
  ASSUME NEW w, NEW op, NEW keys, NEW fault, op = "misread" \/ Refuses(op, fault)
  PROVE  Handle(w, op, keys, fault) \in
           {Kept(w), Kept(Refused(w).w), Crash(w), storage_send_error(Refused(w).w),
            Done(Refused(w).w, Output("value", <<-1>>))}
<1>1. \A o : Failing(w, o, fault) \in
                {Kept(Refused(w).w), Crash(w), storage_send_error(Refused(w).w),
                 Done(Refused(w).w, Output("value", <<-1>>))}
  BY DEF Failing
<1>2. Handle(w, op, keys, fault) = IF op = "misread" THEN Misread(w, fault) ELSE Failing(w, op, fault)
  BY DEF Handle
<1>3. QED
  BY <1>1, <1>2 DEF Misread

LEMMA HandleFits ==
  ASSUME NEW w, DOMAIN w = BoxFields, NEW op \in Calls \ ManyCalls, NEW keys, NEW fault
  PROVE  Fits(w.space, Handle(w, op, keys, fault), op)
<1>1. PICK k : k = Head(keys)
  OBVIOUS
<1>2. CASE op = "misread" \/ Refuses(op, fault)
  <2>1. Handle(w, op, keys, fault) \in
          {Kept(w), Kept(Refused(w).w), Crash(w), storage_send_error(Refused(w).w),
           Done(Refused(w).w, Output("value", <<-1>>))}
    BY <1>2, RefusedCalls
  <2>2. PICK v : v = Refused(w).w
    OBVIOUS
  <2>3. DOMAIN v = BoxFields /\ v.space = w.space /\ v.diag = "own"
    BY <2>2, SpaceKept
  <2>4. Fits(w.space, storage_send_error(v), op)
    BY <2>3, ErrorFits
  <2>5. /\ Fits(w.space, Kept(w), op) /\ Fits(w.space, Kept(v), op) /\ Fits(w.space, Crash(w), op)
        /\ Fits(w.space, Done(v, Output("value", <<-1>>)), op)
    BY <2>3, AnswerFits
  <2>6. QED
    BY <2>1, <2>2, <2>4, <2>5
<1>3. CASE op # "misread" /\ ~Refuses(op, fault)
  <2>1. op \in {"put", "insert", "delete", "get", "min", "max", "update", "upsert",
                "index_get", "index_min", "index_max", "index_update", "next"} \union
               {"count", "length", "index_count", "index_length", "id_by_name", "index_id_by_name"} \union
               {"evaluate", "call", "truncate", "select", "index_select", "iterator", "index_iterator",
                "destroy", "free_buffer", "free_port", "free_tuple"}
    BY <1>3 DEF Calls, ManyCalls, SpaceCalls, IndexCalls, UpdateCalls, IndexUpdateCalls, OtherCalls,
       ValueCalls, LuaCalls
  <2>2. CASE op \in {"put", "insert", "delete", "get", "min", "max", "update", "upsert"}
    BY <1>1, <1>3, <2>2, SingleHandlers DEF Handle
  <2>3. CASE op \in {"index_get", "index_min", "index_max", "index_update"}
    BY <1>1, <1>3, <2>3, SingleHandlers DEF Handle
  <2>4. CASE op \in {"next", "destroy", "select", "index_select", "iterator", "index_iterator"}
    BY <1>1, <1>3, <2>4, HandlerShapes DEF Handle
  <2>5. CASE op \in {"count", "length", "index_count", "index_length", "id_by_name", "index_id_by_name"}
    BY <1>1, <1>3, <2>5, HandlerShapes DEF Handle
  <2>6. CASE op \in {"evaluate", "call", "truncate", "free_buffer", "free_port", "free_tuple"}
    BY <1>1, <1>3, <2>6, HandlerShapes DEF Handle
  <2>7. QED
    BY <2>1, <2>2, <2>3, <2>4, <2>5, <2>6
<1>4. QED
  BY <1>2, <1>3

\* One key of a batch.
LEMMA OperationResult ==
  ASSUME NEW w, DOMAIN w = BoxFields, NEW op \in ManyCalls, NEW k
  PROVE  /\ Result(w, Operation(w, op, k))
         /\ op = "next_many" => Operation(w, op, k).w.space = w.space
<1>1. CASE op = "next_many"
  <2>1. Operation(w, op, k) = box_iterator_next(w)
    BY <1>1 DEF Operation, storage_iterator_next_many
  <2>2. QED
    BY <2>1, NextResult DEF Result
<1>2. CASE op # "next_many"
  <2>1. Operation(w, op, k) \in {box_replace(w, k), box_insert(w, k), box_update(w, k), box_delete(w, k)}
    BY <1>2 DEF Operation, ManyCalls, storage_space_put_many, storage_space_insert_many,
       storage_space_update_many, storage_space_delete_many, storage_index_update_many
  <2>2. QED
    BY <1>2, <2>1, EngineResults
<1>3. QED
  BY <1>1, <1>2

-----------------------------------------------------------------------------
(* Requests and their pools. *)

LEMMA NumberedSize ==
  ASSUME NEW kind, NEW n \in Nat
  PROVE  IsFiniteSet(Numbered(kind, n)) /\ Cardinality(Numbered(kind, n)) = n
<1> DEFINE f == [i \in 1 .. n |-> <<kind, i>>]
<1>1. f \in Bijection(1 .. n, Numbered(kind, n))
  <2>1. f \in [1 .. n -> Numbered(kind, n)]
    BY DEF Numbered
  <2>2. \A i, j \in 1 .. n : f[i] = f[j] => i = j
    OBVIOUS
  <2>3. \A x \in Numbered(kind, n) : \E i \in 1 .. n : f[i] = x
    BY DEF Numbered
  <2> HIDE DEF f
  <2>4. QED
    BY <2>1, <2>2, <2>3 DEF Bijection, Injection, IsInjective, Surjection
<1> HIDE DEF f
<1>2. IsFiniteSet(1 .. n) /\ Cardinality(1 .. n) = n
  BY FS_Interval
<1>3. QED
  BY <1>1, <1>2, FS_Bijection DEF ExistsBijection

LEMMA NewIs ==
  ASSUME NamePart, NEW kind \in Kinds, NEW n \in Nat, Made(kind) = Numbered(kind, n)
  PROVE  \A i \in Nat \ {0} : New(kind, i) = <<kind, n + i>> /\ New(kind, i) \notin DOMAIN request
<1>1. Cardinality(Made(kind)) = n
  BY NumberedSize
<1>2. SUFFICES ASSUME NEW i \in Nat \ {0} PROVE New(kind, i) = <<kind, n + i>> /\ New(kind, i) \notin DOMAIN request
  OBVIOUS
<1>3. New(kind, i) = <<kind, n + i>>
  BY <1>1 DEF New
<1>4. ASSUME New(kind, i) \in DOMAIN request PROVE FALSE
  <2>1. <<kind, n + i>> \in Made(kind)
    BY <1>3, <1>4 DEF Made
  <2>2. n + i \in 1 .. n
    BY <2>1 DEF Numbered
  <2>3. QED
    BY <2>2
<1>5. QED
  BY <1>3, <1>4

\* New requests go on with the numbers.
LEMMA NamesGrow ==
  ASSUME NamePart, NEW kind \in Kinds, NEW m \in Nat,
         DOMAIN request' = DOMAIN request \union {New(kind, i) : i \in 1 .. m}
  PROVE  NamePart'
<1>1. PICK n \in Nat : Made(kind) = Numbered(kind, n)
  BY DEF NamePart
<1>2. \A i \in 1 .. m : New(kind, i) = <<kind, n + i>>
  BY <1>1, NewIs
<1>3. PICK D : D = DOMAIN request
  OBVIOUS
<1>4. DOMAIN request' = D \union {<<kind, n + i>> : i \in 1 .. m}
  BY <1>2, <1>3
<1>5. D \subseteq Kinds \X Nat /\ IsFiniteSet(D)
  BY <1>3 DEF NamePart
<1>6. DOMAIN request' \subseteq Kinds \X Nat
  BY <1>4, <1>5
<1>7. IsFiniteSet(DOMAIN request')
  <2>1. IsFiniteSet(Numbered(kind, n + m))
    BY NumberedSize
  <2>2. {<<kind, n + i>> : i \in 1 .. m} \subseteq Numbered(kind, n + m)
    BY DEF Numbered
  <2>3. IsFiniteSet({<<kind, n + i>> : i \in 1 .. m})
    BY <2>1, <2>2, FS_Subset
  <2>4. PICK E : E = {<<kind, n + i>> : i \in 1 .. m}
    OBVIOUS
  <2>5. IsFiniteSet(E) /\ DOMAIN request' = D \union E
    BY <1>4, <2>3, <2>4
  <2>6. IsFiniteSet(D \union E)
    BY <1>5, <2>5, FS_Union
  <2>7. QED
    BY <2>5, <2>6, Zenon
<1>8. ASSUME NEW k \in Kinds PROVE \E l \in Nat : Made(k)' = Numbered(k, l)
  <2>1. Made(k) = {r \in D : r[1] = k} /\ Made(k)' = {r \in DOMAIN request' : r[1] = k}
    BY <1>3 DEF Made
  <2>2. CASE k # kind
    <3>1. Made(k)' = Made(k)
      BY <1>4, <2>1, <2>2
    <3>2. QED
      BY <3>1 DEF NamePart
  <2>3. CASE k = kind
    <3>1. Made(k)' = Made(k) \union {<<kind, n + i>> : i \in 1 .. m}
      BY <1>4, <2>1, <2>3
    <3>2. Numbered(kind, n) \union {<<kind, n + i>> : i \in 1 .. m} = Numbered(kind, n + m)
      <4>1. ASSUME NEW j \in 1 .. n + m, j \notin 1 .. n PROVE \E i \in 1 .. m : j = n + i
        <5>1. j - n \in 1 .. m /\ j = n + (j - n)
          BY <4>1
        <5>2. QED
          BY <5>1
      <4>2. \A i \in 1 .. m : n + i \in 1 .. n + m
        OBVIOUS
      <4>3. 1 .. n \subseteq 1 .. n + m
        OBVIOUS
      <4>4. QED
        BY <4>1, <4>2, <4>3 DEF Numbered
    <3>3. QED
      BY <1>1, <2>3, <3>1, <3>2
  <2>4. QED
    BY <2>2, <2>3
<1>9. QED
  BY <1>6, <1>7, <1>8 DEF NamePart

\* A request is the last of its pool, or a new one if the pool is empty.
Took(kind, r) ==
  \/ /\ pool[kind] # <<>> /\ r = pool[kind][Len(pool[kind])] /\ r \in DOMAIN request
     /\ pool' = [pool EXCEPT ![kind] = SubSeq(pool[kind], 1, Len(pool[kind]) - 1)]
     /\ DOMAIN request' = DOMAIN request
  \/ /\ pool[kind] = <<>> /\ r = New(kind, 1) /\ r \notin DOMAIN request
     /\ pool' = [pool EXCEPT ![kind] = <<New(kind, 1), New(kind, 2)>>]
     /\ DOMAIN request' = DOMAIN request \union {New(kind, 1), New(kind, 2)}
     /\ request'[New(kind, 2)] = Blank

\* A call fills in one request.
Filled(kind, r) ==
  /\ UNCHANGED <<box, batch, answers>> /\ queue' = Append(queue, r)
  /\ Took(kind, r) /\ r \in DOMAIN request' /\ r[1] = kind
  /\ DOMAIN request'[r] = TaskFields /\ request'[r].at = "sent" /\ request'[r].op \in Calls
  /\ \A q \in DOMAIN request : q # r => request'[q] = request[q]
  /\ "crash" \notin trouble /\ "full" \notin trouble'
  /\ "shared" \in trouble' <=> "shared" \in trouble \/ (r \in DOMAIN request /\ UnderWay(r))
  /\ "drained" \in trouble' <=> "drained" \in trouble \/ pool[kind] = <<>>

LEMMA KindType ==
  ASSUME NEW op
  PROVE  Kind(op) \in Kinds
  BY DEF Kind, Kinds

LEMMA CallIs ==
  ASSUME BoxInv, NEW op \in Calls, NEW keys, NEW holding, Call(op, keys, holding)
  PROVE  \E kind \in Kinds : \E r : Filled(kind, r)
<1>1. PICK kind \in Kinds : kind = Kind(op)
  BY KindType
<1>0. PICK r, pooled, old, sent :
        /\ r = allocate(kind).taken /\ pooled = allocate(kind).pool
        /\ old = (IF r \in DOMAIN request THEN request[r] ELSE Blank)
        /\ sent = [old EXCEPT !.at = "sent", !.op = op, !.keys = keys, !.fresh = FALSE]
  BY Zenon
<1>2. /\ r = allocate(kind).taken /\ pooled = allocate(kind).pool
      /\ old = (IF r \in DOMAIN request THEN request[r] ELSE Blank)
      /\ sent = [old EXCEPT !.at = "sent", !.op = op, !.keys = keys, !.fresh = FALSE]
      /\ pool' = [pool EXCEPT ![kind] = pooled]
      /\ request' = [q \in DOMAIN request \union {r} \union Range(pooled) |->
                       IF q = r THEN sent ELSE IF q \in DOMAIN request THEN request[q] ELSE Blank]
      /\ queue' = Append(queue, r)
      /\ trouble' = trouble \union (IF pool[kind] = <<>> THEN {"drained"} ELSE {})
                            \union (IF r \in DOMAIN request /\ UnderWay(r) THEN {"shared"} ELSE {})
  BY <1>0, <1>1 DEF Call
<1>3. "crash" \notin trouble /\ UNCHANGED <<box, batch, answers>>
  BY DEF Call
<1>4. TaskPart /\ NamePart /\ PoolPart /\ FullPart
  BY DEF BoxInv
<1>5. "full" \notin trouble' /\ "crash" \notin trouble'
  BY <1>2, <1>3, <1>4 DEF FullPart
<1>6. DOMAIN sent = TaskFields /\ sent.at = "sent" /\ sent.op = op
  <2>1. DOMAIN old = TaskFields
    BY <1>2, <1>4 DEF TaskPart, Blank, TaskFields
  <2>2. QED
    BY <1>2, <2>1 DEF TaskFields
<1>7. /\ "shared" \in trouble' <=> "shared" \in trouble \/ (r \in DOMAIN request /\ UnderWay(r))
      /\ "drained" \in trouble' <=> "drained" \in trouble \/ pool[kind] = <<>>
  BY <1>2
<1>8. /\ DOMAIN request' = DOMAIN request \union {r} \union Range(pooled)
      /\ request'[r] = sent
      /\ \A q \in DOMAIN request : q # r => request'[q] = request[q]
      /\ \A q \in Range(pooled) : q # r /\ q \notin DOMAIN request => request'[q] = Blank
  BY <1>2
<1>9. Took(kind, r) /\ r[1] = kind
  <2>1. PICK n \in Nat : Made(kind) = Numbered(kind, n)
    BY <1>4 DEF NamePart
  <2>2. CASE pool[kind] = <<>>
    <3>1. r = New(kind, 1) /\ pooled = <<New(kind, 1), New(kind, 2)>>
      BY <1>2, <2>2 DEF allocate
    <3>2. /\ New(kind, 1) = <<kind, n + 1>> /\ New(kind, 2) = <<kind, n + 2>>
          /\ New(kind, 1) \notin DOMAIN request /\ New(kind, 2) \notin DOMAIN request
      BY <1>4, <2>1, NewIs
    <3>3. Range(pooled) = {New(kind, 1), New(kind, 2)}
      BY <3>1 DEF Range
    <3>4. New(kind, 2) # r /\ r[1] = kind
      BY <3>1, <3>2
    <3>5. DOMAIN request' = DOMAIN request \union {New(kind, 1), New(kind, 2)} /\ request'[New(kind, 2)] = Blank
      BY <1>8, <3>1, <3>2, <3>3, <3>4
    <3>6. QED
      BY <1>2, <2>2, <3>1, <3>2, <3>4, <3>5 DEF Took
  <2>3. CASE pool[kind] # <<>>
    <3>1. r = pool[kind][Len(pool[kind])] /\ pooled = SubSeq(pool[kind], 1, Len(pool[kind]) - 1)
      BY <1>2, <2>3 DEF allocate, Last, Front
    <3>2. pool[kind] \in Seq(Made(kind)) /\ Made(kind) \subseteq DOMAIN request
      BY <1>4 DEF PoolPart, Made
    <3>3. r \in Made(kind)
      BY <2>3, <3>1, <3>2
    <3>4. Range(pooled) \subseteq DOMAIN request
      <4>1. pooled \in Seq(Made(kind))
        BY <2>3, <3>1, <3>2
      <4>2. QED
        BY <3>2, <4>1 DEF Range
    <3>5. DOMAIN request' = DOMAIN request
      BY <1>8, <3>2, <3>3, <3>4
    <3>6. QED
      BY <1>2, <2>3, <3>1, <3>2, <3>3, <3>5 DEF Took, Made
  <2>4. QED
    BY <2>2, <2>3
<1>10. Filled(kind, r)
  BY <1>2, <1>3, <1>5, <1>6, <1>7, <1>8, <1>9 DEF Filled
<1>11. QED
  BY <1>10

\* Growing sets keep their sequences.
LEMMA SeqGrows ==
  ASSUME NEW S, NEW T, S \subseteq T, NEW s \in Seq(S)
  PROVE  s \in Seq(T)
  OBVIOUS

\* Named requests of a kind that stay or are added.
LEMMA MadeGrows ==
  ASSUME DOMAIN request \subseteq DOMAIN request'
  PROVE  \A kind : Made(kind) \subseteq Made(kind)'
  BY DEF Made

LEMMA FilledNames ==
  ASSUME BoxInv, NEW kind \in Kinds, NEW r, Filled(kind, r)
  PROVE  /\ NamePart' /\ DOMAIN request \subseteq DOMAIN request'
         /\ \A q \in DOMAIN request' : DOMAIN request'[q] = TaskFields
<1>1. TaskPart /\ NamePart /\ Took(kind, r)
  BY DEF BoxInv, Filled
<1>2. CASE DOMAIN request' = DOMAIN request
  <2>1. NamePart'
    BY <1>1, <1>2 DEF NamePart, Made
  <2>2. QED
    BY <1>1, <1>2, <2>1 DEF Filled, TaskPart
<1>3. CASE DOMAIN request' = DOMAIN request \union {New(kind, 1), New(kind, 2)} /\ request'[New(kind, 2)] = Blank
           /\ r = New(kind, 1)
  <2>1. {New(kind, i) : i \in 1 .. 2} = {New(kind, 1), New(kind, 2)}
    <3>1. 1 .. 2 = {1, 2}
      OBVIOUS
    <3>2. QED
      BY <3>1
  <2>2. NamePart'
    BY <1>1, <1>3, <2>1, NamesGrow
  <2>3. DOMAIN Blank = TaskFields
    BY DEF Blank, TaskFields
  <2>4. QED
    BY <1>1, <1>3, <2>2, <2>3 DEF Filled, TaskPart
<1>4. QED
  BY <1>1, <1>2, <1>3 DEF Took

LEMMA FilledPool ==
  ASSUME BoxInv, NEW kind \in Kinds, NEW r, Filled(kind, r)
  PROVE  PoolPart' /\ RequestsExclusive'
<1>1. TaskPart /\ NamePart /\ PoolPart /\ RequestsExclusive /\ Took(kind, r) /\ r[1] = kind
  BY DEF BoxInv, Filled
<1>2. /\ "shared" \in trouble' <=> "shared" \in trouble \/ (r \in DOMAIN request /\ UnderWay(r))
      /\ "drained" \in trouble' <=> "drained" \in trouble \/ pool[kind] = <<>>
      /\ \A q \in DOMAIN request : q # r => request'[q] = request[q]
  BY DEF Filled
<1>3. \A k : Made(k) \subseteq Made(k)'
  BY FilledNames, MadeGrows
<1>4. \A k \in Kinds : pool[k] \in Seq(Made(k)) /\ pool[k] \in Seq(Made(k)')
  BY <1>1, <1>3, SeqGrows DEF PoolPart
<1>5. DOMAIN pool = Kinds
  BY <1>1 DEF PoolPart
<1>6. CASE /\ pool[kind] = <<>> /\ pool' = [pool EXCEPT ![kind] = <<New(kind, 1), New(kind, 2)>>]
           /\ DOMAIN request' = DOMAIN request \union {New(kind, 1), New(kind, 2)}
           /\ r \notin DOMAIN request
  <2>1. New(kind, 1) \in Made(kind)' /\ New(kind, 2) \in Made(kind)'
    <3>1. New(kind, 1)[1] = kind /\ New(kind, 2)[1] = kind
      BY DEF New
    <3>2. QED
      BY <1>6, <3>1 DEF Made
  <2>2. <<New(kind, 1), New(kind, 2)>> \in Seq(Made(kind)')
    BY <2>1
  <2>3. DOMAIN pool' = Kinds /\ \A k \in Kinds : pool'[k] \in Seq(Made(k)')
    BY <1>4, <1>5, <1>6, <2>2
  <2>4. QED
    BY <1>1, <1>2, <1>6, <2>3 DEF PoolPart, RequestsExclusive
<1>7. CASE /\ pool[kind] # <<>> /\ r = pool[kind][Len(pool[kind])] /\ r \in DOMAIN request
           /\ pool' = [pool EXCEPT ![kind] = SubSeq(pool[kind], 1, Len(pool[kind]) - 1)]
  <2>1. PICK s \in Seq(Made(kind)) : s = pool[kind] /\ s \in Seq(Made(kind)')
    BY <1>4
  <2>2. PICK n \in Nat : n = Len(s) /\ n > 0 /\ DOMAIN s = 1 .. n
    BY <1>7, <2>1
  <2>3. PICK t : t = SubSeq(s, 1, n - 1)
    OBVIOUS
  <2>4. t \in Seq(Made(kind)') /\ DOMAIN t = 1 .. n - 1 /\ \A i \in 1 .. n - 1 : t[i] = s[i]
    BY <2>1, <2>2, <2>3
  <2>5. DOMAIN pool' = Kinds /\ pool'[kind] = t /\ \A k \in Kinds \ {kind} : pool'[k] = pool[k]
    BY <1>5, <1>7, <2>1, <2>2, <2>3
  <2>6. \A k \in Kinds : pool'[k] \in Seq(Made(k)')
    BY <1>4, <2>4, <2>5
  <2>7. r = s[n] /\ n \in DOMAIN pool[kind]
    BY <1>7, <2>1, <2>2
  <2>8. ASSUME "drained" \notin trouble'
        PROVE  \A k \in Kinds : \A i \in DOMAIN pool'[k] :
                 /\ request'[pool'[k][i]].at = "free"
                 /\ \A j \in DOMAIN pool'[k] : pool'[k][i] = pool'[k][j] => i = j
    <3>1. \A k \in Kinds : \A i \in DOMAIN pool[k] :
                 /\ request[pool[k][i]].at = "free"
                 /\ \A j \in DOMAIN pool[k] : pool[k][i] = pool[k][j] => i = j
      BY <1>1, <1>2, <2>8 DEF PoolPart
    <3>2. ASSUME NEW k \in Kinds \ {kind}, NEW i \in DOMAIN pool[k]
          PROVE  request'[pool[k][i]] = request[pool[k][i]]
      <4>1. pool[k][i] \in Made(k)
        BY <1>4
      <4>2. pool[k][i] \in DOMAIN request /\ pool[k][i] # r
        BY <1>1, <4>1 DEF Made
      <4>3. QED
        BY <1>2, <4>2
    <3>3. ASSUME NEW i \in 1 .. n - 1
          PROVE  t[i] = pool[kind][i] /\ i \in DOMAIN pool[kind] /\ request'[t[i]] = request[pool[kind][i]]
      <4>1. t[i] = s[i] /\ i \in 1 .. n /\ i # n
        BY <2>2, <2>4
      <4>2. s[i] # s[n]
        BY <2>1, <2>2, <2>7, <3>1, <4>1
      <4>3. s[i] \in DOMAIN request
        BY <2>2, <4>1 DEF Made
      <4>4. QED
        BY <1>2, <2>1, <2>2, <2>7, <4>1, <4>2, <4>3
    <3>4. QED
      BY <2>4, <2>5, <3>1, <3>2, <3>3
  <2>9. RequestsExclusive'
    <3>1. ASSUME "drained" \notin trouble PROVE ~UnderWay(r)
      <4>1. request[r].at = "free"
        BY <1>1, <2>1, <2>7, <3>1 DEF PoolPart
      <4>2. QED
        BY <4>1 DEF UnderWay
    <3>2. QED
      BY <1>1, <1>2, <3>1 DEF RequestsExclusive
  <2>10. QED
    BY <2>5, <2>6, <2>8, <2>9 DEF PoolPart
<1>8. QED
  BY <1>1, <1>6, <1>7 DEF Took

LEMMA FilledSafe ==
  ASSUME BoxInv, NEW kind \in Kinds, NEW r, Filled(kind, r)
  PROVE  BoxInv'
<1>1. TaskPart /\ BatchPart /\ DistinctPart /\ ErrorPart
  BY DEF BoxInv
<1>2. /\ UNCHANGED <<box, batch, answers>> /\ queue' = Append(queue, r)
      /\ r \in DOMAIN request' /\ request'[r].at = "sent" /\ request'[r].op \in Calls
      /\ \A q \in DOMAIN request : q # r => request'[q] = request[q]
      /\ "full" \notin trouble'
      /\ "shared" \in trouble' <=> "shared" \in trouble \/ (r \in DOMAIN request /\ UnderWay(r))
  BY DEF Filled
<1>3. /\ NamePart' /\ PoolPart' /\ RequestsExclusive' /\ DOMAIN request \subseteq DOMAIN request'
      /\ \A q \in DOMAIN request' : DOMAIN request'[q] = TaskFields
  BY FilledNames, FilledPool
<1>4. /\ queue \in Seq(DOMAIN request) /\ queue \in Seq(DOMAIN request') /\ answers \in Seq(DOMAIN request)
      /\ answers' \in Seq(DOMAIN request')
  BY <1>1, <1>2, <1>3, SeqGrows DEF TaskPart
<1>5. PICK n \in Nat : n = Len(queue) /\ DOMAIN queue = 1 .. n /\ DOMAIN queue' = 1 .. n + 1
                        /\ queue'[n + 1] = r /\ \A i \in 1 .. n : queue'[i] = queue[i]
  <2>1. PICK q \in Seq(DOMAIN request') : q = queue
    BY <1>4
  <2>2. PICK n \in Nat : n = Len(q)
    OBVIOUS
  <2>3. DOMAIN q = 1 .. n /\ DOMAIN Append(q, r) = 1 .. n + 1 /\ Append(q, r)[n + 1] = r
        /\ \A i \in 1 .. n : Append(q, r)[i] = q[i]
    BY <2>2
  <2>4. queue' = Append(q, r)
    BY <1>2, <2>1
  <2>5. QED
    BY <2>1, <2>2, <2>3, <2>4
<1>6. queue' \in Seq(DOMAIN request')
  BY <1>2, <1>4
<1>7. \A i \in 1 .. n : queue[i] \in DOMAIN request /\ request[queue[i]].at = "sent" /\ request[queue[i]].op \in Calls
  BY <1>1, <1>4, <1>5 DEF TaskPart
<1>8. TaskPart'
  <2>1. ASSUME NEW i \in DOMAIN queue'
        PROVE  request'[queue'[i]].at = "sent" /\ request'[queue'[i]].op \in Calls
    <3>1. CASE queue'[i] = r
      BY <1>2, <3>1
    <3>2. CASE queue'[i] # r
      <4>1. i \in 1 .. n
        BY <1>5, <2>1, <3>2
      <4>2. queue'[i] = queue[i] /\ request'[queue[i]] = request[queue[i]]
        BY <1>2, <1>5, <1>7, <3>2, <4>1
      <4>3. QED
        BY <1>7, <4>1, <4>2
    <3>3. QED
      BY <3>1, <3>2
  <2>2. QED
    BY <1>1, <1>2, <1>3, <1>4, <1>6, <2>1 DEF TaskPart
<1>9. ASSUME "shared" \notin trouble'
      PROVE  /\ "shared" \notin trouble
             /\ r \in DOMAIN request => request[r].at \notin {"sent", "answered"}
  BY <1>2, <1>9 DEF UnderWay
<1>10. BatchPart'
  <2>1. SUFFICES ASSUME batch # <<>>
                 PROVE  /\ queue' # <<>> /\ DOMAIN batch[1] = BatchFields /\ batch[1].op \in ManyCalls
                        /\ batch[1].op = "next_many" => box.space = batch[1].space
                        /\ "shared" \notin trouble' => batch[1].op = Op'
    BY <1>2 DEF BatchPart
  <2>2. /\ queue # <<>> /\ DOMAIN batch[1] = BatchFields /\ batch[1].op \in ManyCalls
        /\ batch[1].op = "next_many" => box.space = batch[1].space
        /\ "shared" \notin trouble => batch[1].op = Op
    BY <1>1, <2>1 DEF BatchPart
  <2>3. n > 0 /\ Head(queue) = queue[1] /\ Head(queue') = queue[1] /\ queue' # <<>>
    <3>1. n # 0
      BY <1>4, <1>5, <2>2
    <3>2. n > 0 /\ 1 \in 1 .. n /\ 1 \in 1 .. n + 1
      BY <3>1
    <3>3. QED
      BY <1>4, <1>5, <1>6, <2>2, <3>2
  <2>4. ASSUME "shared" \notin trouble' PROVE Op' = Op
    <3>1. queue[1] \in DOMAIN request /\ request[queue[1]].at = "sent"
      BY <1>7, <2>3
    <3>2. request'[queue[1]] = request[queue[1]]
      BY <1>2, <1>9, <2>4, <3>1
    <3>3. QED
      BY <2>3, <3>2 DEF Op
  <2>5. QED
    BY <1>9, <2>2, <2>3, <2>4
<1>11. DistinctPart'
  <2>1. SUFFICES ASSUME "shared" \notin trouble'
                 PROVE  /\ \A i, j \in DOMAIN queue' : queue'[i] = queue'[j] => i = j
                        /\ \A i, j \in DOMAIN answers : answers[i] = answers[j] => i = j
                        /\ \A i \in DOMAIN answers : request'[answers[i]].at = "sent"
                        /\ \A i \in DOMAIN answers, j \in DOMAIN queue' : answers[i] # queue'[j]
    BY <1>2 DEF DistinctPart
  <2>2. /\ \A i, j \in DOMAIN queue : queue[i] = queue[j] => i = j
        /\ \A i, j \in DOMAIN answers : answers[i] = answers[j] => i = j
        /\ \A i \in DOMAIN answers : request[answers[i]].at = "sent" /\ answers[i] \in DOMAIN request
        /\ \A i \in DOMAIN answers, j \in DOMAIN queue : answers[i] # queue[j]
    BY <1>1, <1>4, <1>9, <2>1 DEF DistinctPart
  <2>3. \A i \in 1 .. n : queue[i] # r
    BY <1>7, <1>9, <2>1
  <2>4. \A i \in DOMAIN answers : answers[i] # r /\ request'[answers[i]].at = "sent"
    BY <1>2, <1>9, <2>1, <2>2
  <2>5. \A j \in 1 .. n + 1 : j \in 1 .. n \/ j = n + 1
    OBVIOUS
  <2>6. \A i, j \in DOMAIN queue' : queue'[i] = queue'[j] => i = j
    BY <1>5, <2>2, <2>3, <2>5
  <2>7. \A i \in DOMAIN answers, j \in DOMAIN queue' : answers[i] # queue'[j]
    BY <1>5, <2>2, <2>4, <2>5
  <2>8. QED
    BY <2>2, <2>4, <2>6, <2>7
<1>12. FullPart'
  BY <1>2 DEF FullPart
<1>13. ErrorPart'
  <2>1. SUFFICES ASSUME "shared" \notin trouble', NEW q \in DOMAIN request',
                        q \in Range(answers) \/ request'[q].at = "answered",
                        request'[q].failed, request'[q].output = Output("event", <<"old">>)
                 PROVE  request'[q].op \in {"next", "next_many"}
    BY <1>2 DEF ErrorPart, ErrorsOwn
  <2>2. "shared" \notin trouble /\ ErrorsOwn
    BY <1>1, <1>9, <2>1 DEF ErrorPart
  <2>3. \A i \in DOMAIN answers : answers[i] \in DOMAIN request /\ request[answers[i]].at = "sent"
    BY <1>1, <1>4, <2>2 DEF DistinctPart
  <2>4. q # r
    <3>1. r \notin Range(answers)
      BY <1>9, <2>1, <2>3 DEF Range
    <3>2. QED
      BY <1>2, <2>1, <3>1
  <2>5. q \in DOMAIN request
    <3>1. CASE q \in Range(answers)
      BY <2>3, <3>1 DEF Range
    <3>2. CASE request'[q].at = "answered" /\ q \notin DOMAIN request
      <4>1. Took(kind, r)
        BY DEF Filled
      <4>2. request'[q] = Blank
        BY <2>1, <2>4, <3>2, <4>1 DEF Took
      <4>3. QED
        BY <3>2, <4>2 DEF Blank
    <3>3. QED
      BY <2>1, <3>1, <3>2
  <2>6. request'[q] = request[q]
    BY <1>2, <2>4, <2>5
  <2>7. QED
    BY <2>1, <2>2, <2>5, <2>6 DEF ErrorsOwn
<1>14. QED
  BY <1>3, <1>8, <1>10, <1>11, <1>12, <1>13 DEF BoxInv

LEMMA CallSafe ==
  ASSUME BoxInv, CallPlain \/ CallMany \/ CallIterator \/ FreeBuffer \/ FreePort \/ FreeTuple
  PROVE  BoxInv'
<1>1. \E op \in Calls : \E keys, holding : Call(op, keys, holding)
  <2>1. ManyCalls \subseteq Calls /\ {"next", "next_many", "destroy", "free_buffer", "free_port", "free_tuple"} \subseteq Calls
    BY DEF Calls, ManyCalls, SpaceCalls, IndexCalls, UpdateCalls, IndexUpdateCalls, OtherCalls
  <2>2. QED
    BY <2>1 DEF CallPlain, CallMany, CallIterator, FreeBuffer, FreePort, FreeTuple
<1>2. QED
  BY <1>1, CallIs, FilledSafe

\* The requests of a pool that is extended are new.
LEMMA ExtendSafe ==
  ASSUME BoxInv, NEW kind \in Kinds, Extend(kind)
  PROVE  BoxInv'
<1>1. TaskPart /\ BatchPart /\ NamePart /\ PoolPart /\ RequestsExclusive /\ DistinctPart /\ FullPart /\ ErrorPart
  BY DEF BoxInv
<1>2. PICK s \in Seq(Made(kind)) : s = pool[kind]
  BY <1>1 DEF PoolPart
<1>3. PICK m \in Nat : m = Len(s)
  OBVIOUS
<1>4. PICK n \in Nat : Made(kind) = Numbered(kind, n)
  BY <1>1 DEF NamePart
<1>5. PICK more : more = [i \in 1 .. m |-> New(kind, i)]
  OBVIOUS
<1>6. \A i \in 1 .. m : more[i] = New(kind, i) /\ more[i] = <<kind, n + i>> /\ more[i] \notin DOMAIN request
  BY <1>1, <1>4, <1>5, NewIs
<1>7. /\ pool' = [pool EXCEPT ![kind] = s \o more]
      /\ request' = [r \in DOMAIN request \union {more[i] : i \in DOMAIN more} |->
                       IF r \in DOMAIN request THEN request[r] ELSE Blank]
      /\ UNCHANGED <<box, queue, batch, answers, trouble>>
  BY <1>2, <1>3, <1>5 DEF Extend
<1>8. DOMAIN more = 1 .. m /\ {more[i] : i \in 1 .. m} = {New(kind, i) : i \in 1 .. m}
  BY <1>5, <1>6
<1>9. /\ DOMAIN request' = DOMAIN request \union {New(kind, i) : i \in 1 .. m}
      /\ \A q \in DOMAIN request : request'[q] = request[q]
      /\ \A q \in DOMAIN request' : q \notin DOMAIN request => request'[q] = Blank
  BY <1>7, <1>8
<1>10. NamePart' /\ DOMAIN request \subseteq DOMAIN request'
  BY <1>1, <1>9, NamesGrow
<1>11. /\ queue \in Seq(DOMAIN request) /\ answers \in Seq(DOMAIN request)
       /\ queue \in Seq(DOMAIN request') /\ answers \in Seq(DOMAIN request')
  BY <1>1, <1>10, SeqGrows DEF TaskPart
<1>12. /\ \A i \in DOMAIN queue : queue[i] \in DOMAIN request /\ request'[queue[i]] = request[queue[i]]
       /\ \A i \in DOMAIN answers : answers[i] \in DOMAIN request /\ request'[answers[i]] = request[answers[i]]
  BY <1>9, <1>11
<1>13. DOMAIN Blank = TaskFields /\ Blank.at = "free"
  BY DEF Blank, TaskFields
<1>14. TaskPart'
  BY <1>1, <1>7, <1>9, <1>11, <1>12, <1>13 DEF TaskPart
<1>15. BatchPart'
  <2>1. queue # <<>> => Op' = Op
    <3>1. queue # <<>> => Head(queue) \in DOMAIN request
      BY <1>11
    <3>2. QED
      BY <1>7, <1>9, <3>1 DEF Op
  <2>2. QED
    BY <1>1, <1>7, <2>1 DEF BatchPart
<1>16. RequestsExclusive' /\ DistinctPart'
  BY <1>1, <1>7, <1>12 DEF RequestsExclusive, DistinctPart
<1>17. FullPart'
  <2>1. {r \in DOMAIN request' : request'[r].at = "sent"} = {r \in DOMAIN request : request[r].at = "sent"}
    BY <1>9, <1>10, <1>13
  <2>2. AnswersFit => AnswersFit'
    BY <1>7, <2>1 DEF AnswersFit
  <2>3. QED
    BY <1>1, <1>7, <2>2 DEF FullPart
<1>18. ErrorPart'
  <2>1. SUFFICES ASSUME "shared" \notin trouble, NEW q \in DOMAIN request',
                        q \in Range(answers) \/ request'[q].at = "answered",
                        request'[q].failed, request'[q].output = Output("event", <<"old">>)
                 PROVE  request'[q].op \in {"next", "next_many"}
    BY <1>7 DEF ErrorPart, ErrorsOwn
  <2>2. q \in DOMAIN request
    BY <1>9, <1>12, <1>13, <2>1 DEF Range
  <2>3. QED
    BY <1>1, <1>9, <2>1, <2>2 DEF ErrorPart, ErrorsOwn
<1>19. PoolPart'
  <2>1. \A k \in Kinds : pool[k] \in Seq(Made(k)) /\ pool[k] \in Seq(Made(k)')
    BY <1>1, <1>10, MadeGrows, SeqGrows DEF PoolPart
  <2>2. PICK M, t : M = Made(kind)' /\ t = s \o more
    OBVIOUS
  <2>3. /\ \A i \in 1 .. m : s[i] \in DOMAIN request
        /\ s \in Seq(M) /\ more \in Seq(M) /\ Len(more) = m
    <3>1. \A i \in 1 .. m : s[i] \in DOMAIN request
      BY <1>3 DEF Made
    <3>2. s \in Seq(M)
      BY <1>2, <2>1, <2>2
    <3>3. \A i \in 1 .. m : New(kind, i) \in M
      <4>1. SUFFICES ASSUME NEW i \in 1 .. m PROVE New(kind, i) \in M
        OBVIOUS
      <4>2. New(kind, i) \in DOMAIN request' /\ New(kind, i)[1] = kind
        BY <1>6, <1>9
      <4>3. QED
        BY <2>2, <4>2 DEF Made
    <3>4. more \in Seq(M) /\ Len(more) = m
      BY <1>5, <3>3
    <3>5. QED
      BY <3>1, <3>2, <3>4
  <2>4. t \in Seq(M) /\ Len(t) = m + m /\ \A i \in 1 .. m + m : t[i] = IF i <= m THEN s[i] ELSE more[i - m]
    <3>1. /\ s \o more \in Seq(M) /\ Len(s \o more) = Len(s) + Len(more)
          /\ \A i \in 1 .. Len(s) + Len(more) : (s \o more)[i] = IF i <= Len(s) THEN s[i] ELSE more[i - Len(s)]
      BY <2>3, ConcatProperties
    <3>2. QED
      BY <1>3, <2>2, <2>3, <3>1
  <2>5. DOMAIN t = 1 .. m + m /\ \A i \in 1 .. m : t[i] = s[i]
    BY <2>4
  <2>6. \A i \in 1 .. m + m : i \notin 1 .. m => i - m \in 1 .. m /\ t[i] = more[i - m]
    BY <2>4
  <2>7. DOMAIN pool' = Kinds /\ pool'[kind] = t /\ \A k \in Kinds \ {kind} : pool'[k] = pool[k]
    BY <1>1, <1>7, <2>2 DEF PoolPart
  <2>8. \A k \in Kinds : pool'[k] \in Seq(Made(k)')
    BY <2>1, <2>2, <2>4, <2>7
  <2>9. ASSUME "drained" \notin trouble
        PROVE  \A k \in Kinds : \A i \in DOMAIN pool'[k] :
                 /\ request'[pool'[k][i]].at = "free"
                 /\ \A j \in DOMAIN pool'[k] : pool'[k][i] = pool'[k][j] => i = j
    <3>1. \A k \in Kinds : \A i \in DOMAIN pool[k] :
                 /\ request[pool[k][i]].at = "free"
                 /\ \A j \in DOMAIN pool[k] : pool[k][i] = pool[k][j] => i = j
      BY <1>1, <2>9 DEF PoolPart
    <3>2. ASSUME NEW k \in Kinds, NEW i \in DOMAIN pool[k]
          PROVE  request'[pool[k][i]] = request[pool[k][i]]
      <4>1. pool[k][i] \in DOMAIN request
        <5>1. pool[k][i] \in Made(k)
          BY <2>1
        <5>2. QED
          BY <5>1 DEF Made
      <4>2. QED
        BY <1>9, <4>1
    <3>3. \A i \in 1 .. m : request'[s[i]].at = "free" /\ \A j \in 1 .. m : s[i] = s[j] => i = j
      BY <1>2, <1>3, <3>1, <3>2
    <3>4. \A i \in 1 .. m : request'[more[i]].at = "free" /\ \A j \in 1 .. m : more[i] = more[j] => i = j
      <4>1. \A i \in 1 .. m : request'[more[i]].at = "free"
        BY <1>6, <1>9, <1>13
      <4>2. \A i, j \in 1 .. m : n + i = n + j => i = j
        OBVIOUS
      <4>3. \A i, j \in 1 .. m : more[i] = more[j] => i = j
        BY <1>6, <4>2
      <4>4. QED
        BY <4>1, <4>3
    <3>5. \A i \in 1 .. m + m : request'[t[i]].at = "free"
      BY <2>5, <2>6, <3>3, <3>4
    <3>6. ASSUME NEW i \in 1 .. m + m, NEW j \in 1 .. m + m, t[i] = t[j]
          PROVE  i = j
      <4>1. CASE i \in 1 .. m
        <5>1. j \in 1 .. m
          BY <1>6, <2>3, <2>5, <2>6, <3>6, <4>1
        <5>2. QED
          BY <2>5, <3>3, <3>6, <4>1, <5>1
      <4>2. CASE i \notin 1 .. m
        <5>1. j \notin 1 .. m
          BY <1>6, <2>3, <2>5, <2>6, <3>6, <4>2
        <5>2. i - m = j - m
          BY <2>6, <3>4, <3>6, <4>2, <5>1
        <5>3. QED
          BY <5>2
      <4>3. QED
        BY <4>1, <4>2
    <3>7. QED
      BY <2>5, <2>7, <3>1, <3>2, <3>5, <3>6
  <2>10. QED
    BY <1>7, <2>7, <2>8, <2>9 DEF PoolPart
<1>20. QED
  BY <1>10, <1>14, <1>15, <1>16, <1>17, <1>18, <1>19 DEF BoxInv

\* A step that leaves the requests, the queue and the space alone.
SameTrouble == \A x \in {"drained", "shared", "full", "crash"} : x \in trouble' <=> x \in trouble

LEMMA QuietSafe ==
  ASSUME BoxInv, SameTrouble, UNCHANGED <<request, pool, queue, answers>>,
         DOMAIN box' = BoxFields, BatchPart'
  PROVE  BoxInv'
<1>1. /\ "drained" \in trouble' <=> "drained" \in trouble
      /\ "shared" \in trouble' <=> "shared" \in trouble
      /\ "full" \in trouble' <=> "full" \in trouble
      /\ "crash" \in trouble' <=> "crash" \in trouble
  BY DEF SameTrouble
<1>2. TaskPart' /\ NamePart'
  BY DEF BoxInv, TaskPart, NamePart, Made
<1>3. PoolPart' /\ RequestsExclusive'
  BY <1>1 DEF BoxInv, PoolPart, RequestsExclusive, Made
<1>4. DistinctPart' /\ FullPart' /\ ErrorPart'
  BY <1>1 DEF BoxInv, DistinctPart, FullPart, AnswersFit, ErrorPart, ErrorsOwn, Range
<1>5. QED
  BY <1>2, <1>3, <1>4 DEF BoxInv

\* The same requests in other states.
LEMMA SameNames ==
  ASSUME NamePart, DOMAIN request' = DOMAIN request
  PROVE  NamePart' /\ \A kind : Made(kind)' = Made(kind)
  BY DEF NamePart, Made

\* All answers are on their way.
LEMMA SubmitSafe ==
  ASSUME BoxInv, Submit
  PROVE  BoxInv'
<1>1. TaskPart /\ BatchPart /\ NamePart /\ PoolPart /\ RequestsExclusive /\ DistinctPart /\ FullPart /\ ErrorPart
  BY DEF BoxInv
<1>2. /\ queue = <<>> /\ "crash" \notin trouble /\ answers' = <<>>
      /\ request' = [r \in DOMAIN request |->
                       IF r \in Range(answers) THEN [request[r] EXCEPT !.at = "answered"] ELSE request[r]]
      /\ UNCHANGED <<box, pool, queue, batch, trouble>>
  BY DEF Submit, Remaining
<1>3. /\ DOMAIN request' = DOMAIN request
      /\ \A r \in DOMAIN request : r \notin Range(answers) => request'[r] = request[r]
      /\ \A r \in DOMAIN request : r \in Range(answers) => request'[r] = [request[r] EXCEPT !.at = "answered"]
  BY <1>2
<1>4. \A r \in DOMAIN request : /\ DOMAIN request'[r] = TaskFields /\ request'[r].op = request[r].op
                                /\ request'[r].failed = request[r].failed /\ request'[r].output = request[r].output
  <2>1. \A r \in DOMAIN request : DOMAIN request[r] = TaskFields
    BY <1>1 DEF TaskPart
  <2>2. QED
    BY <1>3, <2>1 DEF TaskFields
<1>5. TaskPart'
  <2>1. <<>> \in Seq(DOMAIN request) /\ DOMAIN <<>> = {}
    BY EmptySeq
  <2>2. queue' \in Seq(DOMAIN request') /\ answers' \in Seq(DOMAIN request')
    BY <1>2, <1>3, <2>1, Zenon
  <2>3. DOMAIN queue' = {} /\ DOMAIN box' = BoxFields
    BY <1>1, <1>2, <2>1 DEF TaskPart
  <2>4. QED
    BY <1>3, <1>4, <2>2, <2>3 DEF TaskPart
<1>6. BatchPart'
  BY <1>1, <1>2 DEF BatchPart
<1>7. NamePart' /\ \A kind : Made(kind)' = Made(kind)
  BY <1>1, <1>3, SameNames
<1>8. PoolPart'
  <2>1. \A kind \in Kinds : pool[kind] \in Seq(Made(kind))
    BY <1>1 DEF PoolPart
  <2>2. ASSUME "drained" \notin trouble, NEW kind \in Kinds, NEW i \in DOMAIN pool[kind]
        PROVE  request'[pool[kind][i]].at = "free"
    <3>1. request[pool[kind][i]].at = "free"
      BY <1>1, <2>2 DEF PoolPart
    <3>2. \A j \in DOMAIN answers : request[answers[j]].at = "sent"
      BY <1>1, <2>2 DEF DistinctPart, RequestsExclusive
    <3>3. pool[kind][i] \notin Range(answers)
      BY <3>1, <3>2 DEF Range
    <3>4. pool[kind][i] \in Made(kind)
      BY <2>1
    <3>5. pool[kind][i] \in DOMAIN request
      BY <3>4 DEF Made
    <3>6. QED
      BY <1>3, <3>1, <3>3, <3>5
  <2>3. QED
    BY <1>1, <1>2, <1>7, <2>1, <2>2 DEF PoolPart
<1>9. RequestsExclusive' /\ FullPart'
  BY <1>1, <1>2 DEF RequestsExclusive, FullPart
<1>10. DistinctPart'
  <2>1. DOMAIN queue' = {} /\ DOMAIN answers' = {}
    BY <1>2
  <2>2. QED
    BY <2>1 DEF DistinctPart
<1>11. ErrorPart'
  <2>1. SUFFICES ASSUME "shared" \notin trouble, NEW q \in DOMAIN request,
                        request'[q].at = "answered",
                        request'[q].failed, request'[q].output = Output("event", <<"old">>)
                 PROVE  request'[q].op \in {"next", "next_many"}
    <3>1. Range(answers') = {}
      BY <1>2 DEF Range
    <3>2. QED
      BY <1>2, <1>3, <3>1 DEF ErrorPart, ErrorsOwn
  <2>2. q \in Range(answers) \/ request[q].at = "answered"
    BY <1>3, <2>1
  <2>3. QED
    BY <1>1, <1>4, <2>1, <2>2 DEF ErrorPart, ErrorsOwn
<1>12. QED
  BY <1>5, <1>6, <1>7, <1>8, <1>9, <1>10, <1>11 DEF BoxInv

\* A call ends: its request is free again, or lost.
LEMMA CompleteSafe ==
  ASSUME BoxInv, NEW r, Complete(r)
  PROVE  BoxInv'
<1>1. TaskPart /\ BatchPart /\ NamePart /\ PoolPart /\ RequestsExclusive /\ DistinctPart /\ FullPart /\ ErrorPart
  BY DEF BoxInv
<1>2. /\ r \in DOMAIN request /\ request[r].at = "answered" /\ "crash" \notin trouble
      /\ UNCHANGED <<box, queue, batch, answers>>
  BY DEF Complete
<1>3. /\ SameTrouble
      /\ \/ request' = [request EXCEPT ![r].at = "lost"] /\ UNCHANGED pool
         \/ /\ request' = [request EXCEPT ![r].at = "free", ![r].op = "none", ![r].keys = <<>>]
            /\ pool' = [pool EXCEPT ![r[1]] = Append(@, r)]
  <2>1. CASE request[r].failed
    BY <2>1 DEF Complete, SameTrouble
  <2>2. CASE ~request[r].failed
    BY <2>2 DEF Complete, SameTrouble
  <2>3. QED
    BY <2>1, <2>2
<1>4. /\ "drained" \in trouble' <=> "drained" \in trouble
      /\ "shared" \in trouble' <=> "shared" \in trouble
      /\ "full" \notin trouble'
  BY <1>1, <1>2, <1>3 DEF SameTrouble, FullPart
<1>5. /\ DOMAIN request' = DOMAIN request /\ DOMAIN request'[r] = TaskFields
      /\ \A q \in DOMAIN request : q # r => request'[q] = request[q]
      /\ request'[r].at \in {"lost", "free"}
      /\ pool' = pool \/ (request'[r].at = "free" /\ pool' = [pool EXCEPT ![r[1]] = Append(@, r)])
  <2>1. DOMAIN request[r] = TaskFields
    BY <1>1, <1>2 DEF TaskPart
  <2>2. QED
    BY <1>2, <1>3, <2>1 DEF TaskFields
<1>6. /\ queue \in Seq(DOMAIN request)
      /\ \A i \in DOMAIN queue : queue[i] # r /\ queue[i] \in DOMAIN request /\ request'[queue[i]] = request[queue[i]]
  BY <1>1, <1>2, <1>5 DEF TaskPart
<1>7. TaskPart'
  BY <1>1, <1>2, <1>5, <1>6 DEF TaskPart
<1>8. BatchPart'
  <2>1. ASSUME batch # <<>> PROVE Op' = Op
    <3>1. queue # <<>>
      BY <1>1, <2>1 DEF BatchPart
    <3>2. Head(queue) = queue[1] /\ 1 \in DOMAIN queue
      BY <1>6, <3>1
    <3>3. QED
      BY <1>2, <1>6, <3>2 DEF Op
  <2>2. QED
    BY <1>1, <1>2, <1>4, <2>1 DEF BatchPart
<1>9. NamePart' /\ \A kind : Made(kind)' = Made(kind)
  BY <1>1, <1>5, SameNames
<1>10. PoolPart'
  <2>1. /\ DOMAIN pool = Kinds /\ r[1] \in Kinds /\ r \in Made(r[1])
        /\ \A kind \in Kinds : pool[kind] \in Seq(Made(kind))
    BY <1>1, <1>2 DEF PoolPart, NamePart, Made
  <2>2. ASSUME NEW kind \in Kinds
        PROVE  \/ pool'[kind] = pool[kind]
               \/ request'[r].at = "free" /\ r \in Made(kind) /\ pool'[kind] = Append(pool[kind], r)
    BY <1>5, <2>1
  <2>3. DOMAIN pool' = Kinds /\ \A kind \in Kinds : pool'[kind] \in Seq(Made(kind)')
    <3>1. DOMAIN pool' = Kinds
      BY <1>5, <2>1
    <3>2. ASSUME NEW kind \in Kinds PROVE pool'[kind] \in Seq(Made(kind))
      <4>1. PICK s \in Seq(Made(kind)) : s = pool[kind]
        BY <2>1
      <4>2. r \in Made(kind) => Append(s, r) \in Seq(Made(kind))
        OBVIOUS
      <4>3. QED
        BY <2>2, <4>1, <4>2
    <3>3. QED
      BY <1>9, <3>1, <3>2, Zenon
  <2>4. ASSUME "drained" \notin trouble, NEW kind \in Kinds
        PROVE  \A i \in DOMAIN pool'[kind] :
                 /\ request'[pool'[kind][i]].at = "free"
                 /\ \A j \in DOMAIN pool'[kind] : pool'[kind][i] = pool'[kind][j] => i = j
    <3>1. PICK s \in Seq(Made(kind)) : s = pool[kind]
      BY <2>1
    <3>2. PICK n \in Nat : n = Len(s)
      OBVIOUS
    <3>3. DOMAIN s = 1 .. n
      BY <3>2
    <3>4. \A i \in 1 .. n : request[s[i]].at = "free" /\ \A j \in 1 .. n : s[i] = s[j] => i = j
      BY <1>1, <2>4, <3>1, <3>3 DEF PoolPart
    <3>5. ASSUME NEW i \in 1 .. n PROVE s[i] # r /\ request'[s[i]].at = "free"
      <4>1. s[i] \in Made(kind)
        BY <3>3
      <4>2. s[i] \in DOMAIN request /\ s[i] # r
        BY <1>2, <3>4, <4>1 DEF Made
      <4>3. QED
        BY <1>5, <3>4, <4>2
    <3>6. CASE pool'[kind] = s
      BY <3>3, <3>4, <3>5, <3>6
    <3>7. CASE request'[r].at = "free" /\ pool'[kind] = Append(s, r)
      <4>1. DOMAIN Append(s, r) = 1 .. n + 1 /\ Append(s, r)[n + 1] = r /\ \A i \in 1 .. n : Append(s, r)[i] = s[i]
        BY <3>2
      <4>2. \A i \in 1 .. n + 1 : i \in 1 .. n \/ i = n + 1
        OBVIOUS
      <4>3. QED
        BY <3>4, <3>5, <3>7, <4>1, <4>2
    <3>8. QED
      BY <2>2, <3>1, <3>6, <3>7
  <2>5. QED
    BY <1>4, <2>3, <2>4 DEF PoolPart
<1>11. RequestsExclusive' /\ FullPart'
  BY <1>1, <1>4 DEF RequestsExclusive, FullPart
<1>12. ASSUME "shared" \notin trouble
       PROVE  \A i \in DOMAIN answers : answers[i] # r /\ answers[i] \in DOMAIN request
                                        /\ request'[answers[i]] = request[answers[i]]
  BY <1>1, <1>2, <1>5, <1>12 DEF DistinctPart, TaskPart
<1>13. DistinctPart'
  BY <1>1, <1>2, <1>4, <1>12 DEF DistinctPart
<1>14. ErrorPart'
  <2>1. SUFFICES ASSUME "shared" \notin trouble, NEW q \in DOMAIN request,
                        q \in Range(answers) \/ request'[q].at = "answered",
                        request'[q].failed, request'[q].output = Output("event", <<"old">>)
                 PROVE  request'[q].op \in {"next", "next_many"}
    BY <1>2, <1>4, <1>5 DEF ErrorPart, ErrorsOwn
  <2>2. q # r
    <3>1. r \notin Range(answers)
      BY <1>12, <2>1 DEF Range
    <3>2. QED
      BY <1>5, <2>1, <3>1
  <2>3. QED
    BY <1>1, <1>5, <2>1, <2>2 DEF ErrorPart, ErrorsOwn
<1>15. QED
  BY <1>7, <1>8, <1>9, <1>10, <1>11, <1>13, <1>14 DEF BoxInv

-----------------------------------------------------------------------------
(* The fiber of the storage. *)

\* As many as there are places in a sequence of different ones.
LEMMA DistinctSize ==
  ASSUME NEW S, NEW s \in Seq(S), \A i, j \in DOMAIN s : s[i] = s[j] => i = j
  PROVE  IsFiniteSet(Range(s)) /\ Cardinality(Range(s)) = Len(s)
<1>1. s \in Bijection(1 .. Len(s), Range(s))
  <2>1. DOMAIN s = 1 .. Len(s)
    OBVIOUS
  <2>2. s \in [1 .. Len(s) -> Range(s)]
    BY <2>1 DEF Range
  <2>3. \A x \in Range(s) : \E i \in 1 .. Len(s) : s[i] = x
    BY <2>1 DEF Range
  <2>4. QED
    BY <2>1, <2>2, <2>3 DEF Bijection, Injection, IsInjective, Surjection
<1>2. IsFiniteSet(1 .. Len(s)) /\ Cardinality(1 .. Len(s)) = Len(s)
  <2>1. PICK n \in Nat : n = Len(s)
    OBVIOUS
  <2>2. IsFiniteSet(1 .. n) /\ Cardinality(1 .. n) = n
    BY FS_Interval
  <2>3. QED
    BY <2>1, <2>2
<1>3. QED
  BY <1>1, <1>2, FS_Bijection DEF ExistsBijection

\* The effect of Return.
LEMMA ReturnIs ==
  ASSUME BoxInv, queue # <<>>, NEW result, Return(result)
  PROVE  /\ box' = result.w /\ queue' = Tail(queue) /\ batch' = <<>> /\ UNCHANGED pool
         /\ queue[1] \in DOMAIN request /\ DOMAIN request' = DOMAIN request
         /\ \A q \in DOMAIN request : q # queue[1] => request'[q] = request[q]
         /\ \A q \in DOMAIN request : /\ DOMAIN request'[q] = TaskFields
                                      /\ request'[q].at = request[q].at /\ request'[q].op = request[q].op
         /\ request'[queue[1]].failed = result.failed
         /\ \A o : result.output = {o} => request'[queue[1]].output = o
         /\ answers' = answers \/ (answers' = Append(answers, queue[1]) /\ Len(answers) < RingSize)
         /\ "drained" \in trouble' <=> "drained" \in trouble
         /\ "shared" \in trouble' <=> "shared" \in trouble
         /\ "crash" \in trouble => "crash" \in trouble'
         /\ "full" \in trouble' => "full" \in trouble \/ ("crash" \in trouble' /\ Len(answers) >= RingSize)
<1>1. PICK r : r = queue[1] /\ r = Head(queue) /\ r \in DOMAIN request
  BY DEF BoxInv, TaskPart
<1>2. /\ box' = result.w /\ queue' = Tail(queue) /\ batch' = <<>> /\ UNCHANGED pool
  BY DEF Return
<1>3. PICK out : request' = [request EXCEPT ![r].failed = result.failed, ![r].fresh = result.output # {},
                                            ![r].output = out]
                 /\ \A o : result.output = {o} => out = o
  <2>1. request' = [request EXCEPT
          ![r].failed = result.failed,
          ![r].fresh = result.output # {},
          ![r].output = IF result.output = {} THEN @ ELSE CHOOSE o \in result.output : TRUE]
    BY <1>1 DEF Return
  <2>2. PICK out : out = IF result.output = {} THEN request[r].output ELSE CHOOSE o \in result.output : TRUE
    OBVIOUS
  <2>3. ASSUME NEW o, result.output = {o} PROVE out = o
    BY <2>2, <2>3
  <2>4. \A q \in DOMAIN request : DOMAIN request[q] = TaskFields
    BY DEF BoxInv, TaskPart
  <2>5. request' = [request EXCEPT ![r].failed = result.failed, ![r].fresh = result.output # {}, ![r].output = out]
    BY <1>1, <2>1, <2>2, <2>4 DEF TaskFields
  <2>6. QED
    BY <2>3, <2>5
<1>4. /\ DOMAIN request' = DOMAIN request
      /\ \A q \in DOMAIN request : q # r => request'[q] = request[q]
      /\ \A q \in DOMAIN request : /\ DOMAIN request'[q] = TaskFields
                                   /\ request'[q].at = request[q].at /\ request'[q].op = request[q].op
      /\ request'[r].failed = result.failed /\ request'[r].output = out
  <2>1. \A q \in DOMAIN request : DOMAIN request[q] = TaskFields
    BY DEF BoxInv, TaskPart
  <2>2. QED
    BY <1>1, <1>3, <2>1 DEF TaskFields
<1>5. PICK n \in Nat, m \in Nat : n = Len(answers) /\ m = RingSize
  BY BoxAssumption DEF BoxInv, TaskPart
<1>6. answers' = answers \/ (answers' = Append(answers, r) /\ ~(Len(answers) >= RingSize))
  BY <1>1 DEF Return
<1>7. trouble' = trouble
          \union (IF result.crash THEN {"crash"} ELSE IF Len(answers) >= RingSize THEN {"crash", "full"} ELSE {})
          \union (IF releasing # <<>> /\ result.w.refs[releasing[1]] # box.refs[releasing[1]]
                  THEN {"race"} ELSE {})
  BY DEF Return
<1>8. /\ "drained" \in trouble' <=> "drained" \in trouble
      /\ "shared" \in trouble' <=> "shared" \in trouble
      /\ "crash" \in trouble => "crash" \in trouble'
      /\ "full" \in trouble' => "full" \in trouble \/ ("crash" \in trouble' /\ Len(answers) >= RingSize)
  BY <1>7
<1>9. answers' = answers \/ (answers' = Append(answers, r) /\ Len(answers) < RingSize)
  BY <1>5, <1>6
<1>10. QED
  BY <1>1, <1>2, <1>3, <1>4, <1>8, <1>9

LEMMA ReturnSafe ==
  ASSUME BoxInv, queue # <<>>, "crash" \notin trouble, NEW space, NEW result, NEW op,
         Fits(space, result, op), "shared" \notin trouble => op = Op, Return(result)
  PROVE  BoxInv'
<1>1. TaskPart /\ BatchPart /\ NamePart /\ PoolPart /\ RequestsExclusive /\ DistinctPart /\ FullPart /\ ErrorPart
  BY DEF BoxInv
<1>2. PICK r : r = queue[1]
  OBVIOUS
<1>3. /\ box' = result.w /\ queue' = Tail(queue) /\ batch' = <<>> /\ UNCHANGED pool
      /\ r \in DOMAIN request /\ DOMAIN request' = DOMAIN request
      /\ \A q \in DOMAIN request : q # r => request'[q] = request[q]
      /\ \A q \in DOMAIN request : /\ DOMAIN request'[q] = TaskFields
                                   /\ request'[q].at = request[q].at /\ request'[q].op = request[q].op
      /\ request'[r].failed = result.failed
      /\ \A o : result.output = {o} => request'[r].output = o
  BY <1>2, ReturnIs
<1>4. /\ answers' = answers \/ (answers' = Append(answers, r) /\ Len(answers) < RingSize)
      /\ "drained" \in trouble' <=> "drained" \in trouble
      /\ "shared" \in trouble' <=> "shared" \in trouble
      /\ "full" \in trouble' => "crash" \in trouble' /\ Len(answers) >= RingSize
  <2>1. "full" \notin trouble
    BY <1>1 DEF FullPart
  <2>2. QED
    BY <1>2, <2>1, ReturnIs
<1>5. PICK n \in Nat : n = Len(queue) /\ DOMAIN queue = 1 .. n /\ n > 0
  <2>1. queue \in Seq(DOMAIN request)
    BY <1>1 DEF TaskPart
  <2>2. QED
    BY <2>1
<1>6. /\ queue' \in Seq(DOMAIN request) /\ DOMAIN queue' = 1 .. n - 1
      /\ \A i \in 1 .. n - 1 : queue'[i] = queue[i + 1] /\ i + 1 \in 1 .. n /\ i + 1 # 1
  <2>1. PICK s \in Seq(DOMAIN request) : s = queue
    BY <1>1 DEF TaskPart
  <2>2. /\ Tail(s) \in Seq(DOMAIN request) /\ DOMAIN Tail(s) = 1 .. n - 1
        /\ \A i \in 1 .. n - 1 : Tail(s)[i] = s[i + 1] /\ i + 1 \in 1 .. n /\ i + 1 # 1
    BY <1>5, <2>1
  <2>3. QED
    BY <1>3, <2>1, <2>2
<1>7. /\ answers \in Seq(DOMAIN request) /\ answers' \in Seq(DOMAIN request)
      /\ \A i \in DOMAIN queue : queue[i] \in DOMAIN request /\ request[queue[i]].at = "sent"
                                 /\ request[queue[i]].op \in Calls
  <2>1. PICK s \in Seq(DOMAIN request) : s = answers
    BY <1>1 DEF TaskPart
  <2>2. Append(s, r) \in Seq(DOMAIN request)
    BY <1>3
  <2>3. answers' \in Seq(DOMAIN request)
    BY <1>4, <2>1, <2>2
  <2>4. queue \in Seq(DOMAIN request)
    BY <1>1 DEF TaskPart
  <2>5. QED
    BY <1>1, <2>1, <2>3, <2>4 DEF TaskPart
<1>8. TaskPart'
  <2>1. ASSUME NEW i \in DOMAIN queue'
        PROVE  request'[queue'[i]].at = "sent" /\ request'[queue'[i]].op \in Calls
    BY <1>3, <1>5, <1>6, <1>7, <2>1
  <2>2. QED
    BY <1>3, <1>6, <1>7, <2>1 DEF TaskPart, Fits
<1>9. BatchPart'
  BY <1>3 DEF BatchPart
<1>10. NamePart' /\ \A kind : Made(kind)' = Made(kind)
  BY <1>1, <1>3, SameNames
<1>11. PoolPart' /\ RequestsExclusive'
  <2>1. \A kind \in Kinds : \A i \in DOMAIN pool[kind] : request'[pool[kind][i]].at = request[pool[kind][i]].at
    <3>1. ASSUME NEW kind \in Kinds, NEW i \in DOMAIN pool[kind]
          PROVE  pool[kind][i] \in DOMAIN request
      <4>1. pool[kind][i] \in Made(kind)
        BY <1>1 DEF PoolPart
      <4>2. QED
        BY <4>1 DEF Made
    <3>2. QED
      BY <1>3, <3>1
  <2>2. QED
    BY <1>1, <1>3, <1>4, <1>10, <2>1 DEF PoolPart, RequestsExclusive
<1>12. ASSUME "shared" \notin trouble
       PROVE  /\ \A i, j \in 1 .. n : queue[i] = queue[j] => i = j
              /\ \A i, j \in DOMAIN answers : answers[i] = answers[j] => i = j
              /\ \A i \in DOMAIN answers : request[answers[i]].at = "sent" /\ answers[i] \in DOMAIN request
              /\ \A i \in DOMAIN answers, j \in 1 .. n : answers[i] # queue[j]
  <2>1. \A i \in DOMAIN answers : answers[i] \in DOMAIN request
    BY <1>7
  <2>2. QED
    BY <1>1, <1>5, <1>12, <2>1 DEF DistinctPart
<1>13. PICK m \in Nat : m = Len(answers) /\ DOMAIN answers = 1 .. m
  BY <1>7
<1>14. \/ DOMAIN answers' = 1 .. m /\ \A i \in 1 .. m : answers'[i] = answers[i]
       \/ DOMAIN answers' = 1 .. m + 1 /\ answers'[m + 1] = r /\ \A i \in 1 .. m : answers'[i] = answers[i]
  <2>1. PICK s \in Seq(DOMAIN request) : s = answers
    BY <1>7
  <2>2. DOMAIN Append(s, r) = 1 .. m + 1 /\ Append(s, r)[m + 1] = r /\ \A i \in 1 .. m : Append(s, r)[i] = s[i]
    BY <1>13, <2>1
  <2>3. QED
    BY <1>4, <1>13, <2>1, <2>2
<1>15. DistinctPart'
  <2>1. SUFFICES ASSUME "shared" \notin trouble
                 PROVE  /\ \A i, j \in DOMAIN queue' : queue'[i] = queue'[j] => i = j
                        /\ \A i, j \in DOMAIN answers' : answers'[i] = answers'[j] => i = j
                        /\ \A i \in DOMAIN answers' : request'[answers'[i]].at = "sent"
                        /\ \A i \in DOMAIN answers', j \in DOMAIN queue' : answers'[i] # queue'[j]
    BY <1>4 DEF DistinctPart
  <2>2. /\ \A i, j \in 1 .. n : queue[i] = queue[j] => i = j
        /\ \A i, j \in 1 .. m : answers[i] = answers[j] => i = j
        /\ \A i \in 1 .. m : request[answers[i]].at = "sent" /\ answers[i] \in DOMAIN request
        /\ \A i \in 1 .. m, j \in 1 .. n : answers[i] # queue[j]
    BY <1>12, <1>13, <2>1
  <2>3. \A i, j \in DOMAIN queue' : queue'[i] = queue'[j] => i = j
    <3>1. ASSUME NEW i \in 1 .. n - 1, NEW j \in 1 .. n - 1, queue'[i] = queue'[j] PROVE i = j
      <4>1. i + 1 = j + 1
        BY <1>6, <2>2, <3>1
      <4>2. QED
        BY <4>1
    <3>2. QED
      BY <1>6, <3>1
  <2>4. 1 \in 1 .. n /\ \A i \in 1 .. m + 1 : i \in 1 .. m \/ i = m + 1
    BY <1>5
  <2>5. \A i \in 1 .. m : answers[i] # r
    BY <1>2, <2>2, <2>4
  <2>6. \A i, j \in DOMAIN answers' : answers'[i] = answers'[j] => i = j
    BY <1>14, <2>2, <2>4, <2>5
  <2>7. request[r].at = "sent"
    BY <1>2, <1>5, <1>7, <2>4
  <2>8. \A i \in DOMAIN answers' : request'[answers'[i]].at = "sent"
    BY <1>3, <1>14, <2>2, <2>4, <2>7
  <2>9. \A j \in 1 .. n - 1 : queue'[j] # r
    BY <1>2, <1>6, <2>2, <2>4
  <2>10. \A i \in DOMAIN answers', j \in DOMAIN queue' : answers'[i] # queue'[j]
    BY <1>6, <1>14, <2>2, <2>4, <2>9
  <2>11. QED
    BY <2>3, <2>6, <2>8, <2>10
<1>16. FullPart'
  <2>1. SUFFICES ASSUME "full" \in trouble', "shared" \notin trouble
                 PROVE  AnswersFit'
    BY <1>4 DEF FullPart
  <2>2. PICK D : D = {q \in DOMAIN request : request[q].at = "sent"}
    OBVIOUS
  <2>3. {q \in DOMAIN request' : request'[q].at = "sent"} = D
    BY <1>3, <2>2
  <2>4. PICK A : A = Range(answers)
    OBVIOUS
  <2>5. IsFiniteSet(A) /\ Cardinality(A) = m
    BY <1>7, <1>12, <1>13, <2>1, <2>4, DistinctSize
  <2>6. r \notin A /\ A \subseteq D /\ r \in D
    <3>1. 1 \in 1 .. n
      BY <1>5
    <3>2. r \notin A
      BY <1>2, <1>12, <2>1, <2>4, <3>1 DEF Range
    <3>3. A \subseteq D
      BY <1>12, <2>1, <2>2, <2>4 DEF Range
    <3>4. QED
      BY <1>2, <1>5, <1>7, <2>2, <3>1, <3>2, <3>3
  <2>7. IsFiniteSet(D)
    <3>1. IsFiniteSet(DOMAIN request) /\ D \subseteq DOMAIN request
      BY <1>1, <2>2 DEF NamePart
    <3>2. QED
      BY <3>1, FS_Subset
  <2>8. Cardinality(A \union {r}) = m + 1 /\ IsFiniteSet(A \union {r})
    BY <2>5, <2>6, FS_AddElement
  <2>9. Cardinality(A \union {r}) <= Cardinality(D) /\ Cardinality(D) \in Nat
    <3>1. A \union {r} \subseteq D
      BY <2>6
    <3>2. QED
      BY <2>7, <3>1, FS_Subset, FS_CardinalityType
  <2>10. RingSize \in Nat /\ m >= RingSize
    BY <1>4, <1>13, <2>1, BoxAssumption
  <2>11. Cardinality(D) > RingSize
    BY <2>8, <2>9, <2>10
  <2>12. QED
    BY <2>3, <2>11 DEF AnswersFit
<1>17. ErrorPart'
  <2>1. SUFFICES ASSUME "shared" \notin trouble, NEW q \in DOMAIN request,
                        q \in Range(answers') \/ request'[q].at = "answered",
                        request'[q].failed, request'[q].output = Output("event", <<"old">>)
                 PROVE  request'[q].op \in {"next", "next_many"}
    BY <1>3, <1>4 DEF ErrorPart, ErrorsOwn
  <2>2. CASE q = r
    <3>1. PICK d : result.output = {Output("event", <<d>>)} /\ (d = "old" => op \in {"next", "next_many"})
      BY <1>3, <2>1, <2>2 DEF Fits
    <3>2. request'[r].output = Output("event", <<d>>)
      BY <1>3, <3>1
    <3>3. d = "old"
      BY <2>1, <2>2, <3>2 DEF Output
    <3>4. Op = request[r].op
      <4>1. Head(queue) = queue[1]
        BY <1>1 DEF TaskPart
      <4>2. QED
        BY <1>2, <4>1 DEF Op
    <3>5. QED
      BY <1>3, <2>1, <2>2, <3>1, <3>3, <3>4
  <2>3. CASE q # r
    <3>1. q \in Range(answers) \/ request[q].at = "answered"
      <4>1. q \in Range(answers') => q \in Range(answers)
        <5>1. \A i \in 1 .. m + 1 : i \in 1 .. m \/ i = m + 1
          OBVIOUS
        <5>2. QED
          BY <1>13, <1>14, <2>3, <5>1 DEF Range
      <4>2. QED
        BY <1>3, <2>1, <4>1
    <3>2. request'[q] = request[q]
      BY <1>3, <2>3
    <3>3. QED
      BY <1>1, <2>1, <3>1, <3>2 DEF ErrorPart, ErrorsOwn
  <2>4. QED
    BY <2>2, <2>3
<1>18. QED
  BY <1>8, <1>9, <1>10, <1>11, <1>15, <1>16, <1>17 DEF BoxInv

\* The space when the handler of the first task began.
Before == IF batch = <<>> THEN box.space ELSE batch[1].space

\* A handler returns: what it makes of the task fits it.
Returns ==
  \E result, op :
    /\ Fits(Before, result, op) /\ Return(result)
    /\ queue # <<>> /\ "crash" \notin trouble /\ ("shared" \notin trouble => op = Op)

LEMMA LaterIs ==
  ASSUME TaskPart
  PROVE  DOMAIN Later(box) = BoxFields /\ Later(box).space = box.space
  BY DEF TaskPart, Later, BoxFields

LEMMA ExecuteReturns ==
  ASSUME BoxInv, NEW fault, Execute(fault)
  PROVE  Returns
<1>1. TaskPart /\ queue # <<>> /\ "crash" \notin trouble /\ batch = <<>> /\ Op \notin ManyCalls
  BY DEF Execute, Running, BoxInv
<1>2. PICK w : w = Later(box) /\ DOMAIN w = BoxFields /\ w.space = Before
  BY <1>1, LaterIs DEF Before
<1>3. Op \in Calls \ ManyCalls
  <2>1. Head(queue) = queue[1] /\ 1 \in DOMAIN queue
    BY <1>1 DEF TaskPart
  <2>2. QED
    BY <1>1, <2>1 DEF TaskPart, Op
<1>4. Return(Handle(w, Op, request[Head(queue)].keys, fault))
  BY <1>2 DEF Execute
<1>5. Fits(Before, Handle(w, Op, request[Head(queue)].keys, fault), Op)
  BY <1>2, <1>3, HandleFits
<1>6. QED
  BY <1>1, <1>4, <1>5 DEF Returns

\* What is undone: the space is the one before.
LEMMA UndoneIs ==
  ASSUME BoxInv, batch # <<>>, NEW w, DOMAIN w = BoxFields,
         batch[1].op = "next_many" => w.space = box.space
  PROVE  DOMAIN Undone(w) = BoxFields /\ Undone(w).space = Before /\ Undone(w).diag = w.diag
<1>1. \A v, port : DOMAIN v = BoxFields =>
        DOMAIN Unported(v, port) = BoxFields /\ Unported(v, port).space = v.space /\ Unported(v, port).diag = v.diag
  BY DEF Unported, BoxFields
<1>2. \A v, space : DOMAIN v = BoxFields =>
        /\ DOMAIN txn_rollback(v, space) = BoxFields /\ txn_rollback(v, space).space = space
        /\ txn_rollback(v, space).diag = v.diag
  BY DEF txn_rollback, BoxFields
<1>3. Before = batch[1].space /\ (batch[1].op = "next_many" => w.space = Before)
  BY DEF Before, BoxInv, BatchPart
<1>4. CASE batch[1].op = "next_many"
  BY <1>1, <1>3, <1>4 DEF Undone
<1>5. CASE batch[1].op # "next_many"
  <2>1. PICK v : v = Unported(w, batch[1].port)
    OBVIOUS
  <2>2. DOMAIN v = BoxFields /\ v.diag = w.diag
    BY <1>1, <2>1
  <2>3. Undone(w) = txn_rollback(v, batch[1].space)
    BY <1>5, <2>1 DEF Undone
  <2>4. QED
    BY <1>2, <1>3, <2>2, <2>3
<1>6. QED
  BY <1>4, <1>5

\* In the middle of a batch.
LEMMA InBatch ==
  ASSUME BoxInv, Running(TRUE)
  PROVE  /\ TaskPart /\ BatchPart /\ batch # <<>> /\ queue # <<>> /\ "crash" \notin trouble
         /\ batch[1].op \in ManyCalls /\ DOMAIN batch[1] = BatchFields
         /\ batch[1].op = "next_many" => box.space = batch[1].space
         /\ "shared" \notin trouble => batch[1].op = Op
  BY DEF BoxInv, Running, BatchPart

LEMMA CommitReturns ==
  ASSUME BoxInv, NEW fault, Commit(fault)
  PROVE  Returns
<1>1. /\ batch # <<>> /\ queue # <<>> /\ "crash" \notin trouble /\ DOMAIN box = BoxFields
      /\ "shared" \notin trouble => batch[1].op = Op
  BY InBatch DEF Commit, TaskPart
<1>2. CASE Return(Done(box, Output("port", batch[1].port)))
  <2>1. Fits(Before, Done(box, Output("port", batch[1].port)), batch[1].op)
    BY <1>1 DEF Fits, Done
  <2>2. QED
    BY <1>1, <1>2, <2>1 DEF Returns
<1>3. CASE Return(storage_send_error(Undone([box EXCEPT !.diag = "own"])))
  <2>1. PICK w : w = [box EXCEPT !.diag = "own"]
    OBVIOUS
  <2>2. DOMAIN w = BoxFields /\ w.space = box.space /\ w.diag = "own"
    BY <1>1, <2>1 DEF BoxFields
  <2>3. DOMAIN Undone(w) = BoxFields /\ Undone(w).space = Before /\ Undone(w).diag = "own"
    BY <1>1, <2>2, UndoneIs
  <2>4. Fits(Before, storage_send_error(Undone(w)), batch[1].op)
    BY <2>3 DEF Fits, storage_send_error
  <2>5. QED
    BY <1>1, <1>3, <2>1, <2>4 DEF Returns
<1>4. QED
  BY <1>2, <1>3 DEF Commit

\* A batch goes on.
GoesOn ==
  /\ SameTrouble /\ UNCHANGED <<request, pool, queue, answers>> /\ DOMAIN box' = BoxFields /\ BatchPart'

LEMMA ItemReturns ==
  ASSUME BoxInv, NEW fault \in {"none", "engine", "port"}, Item(fault)
  PROVE  Returns \/ GoesOn
<1>1. /\ batch # <<>> /\ queue # <<>> /\ "crash" \notin trouble /\ DOMAIN box = BoxFields
      /\ batch[1].op \in ManyCalls /\ DOMAIN batch[1] = BatchFields
      /\ batch[1].op = "next_many" => box.space = batch[1].space
      /\ "shared" \notin trouble => batch[1].op = Op
  BY InBatch DEF Item, TaskPart
<1>2. PICK op, k : op = batch[1].op /\ k = Head(batch[1].left)
  OBVIOUS
<1>3. PICK result : result = IF fault = "engine" THEN Refused(box) ELSE Operation(box, op, k)
  OBVIOUS
<1>4. PICK w : w = IF op = "next_many" \/ result.tuple = NoTuple THEN result.w ELSE Referred(result.w, result.tuple, 1)
  OBVIOUS
<1>5. \/ Return(Crash(w))
      \/ /\ ~result.ok \/ (result.tuple = NoTuple /\ op = "next_many")
         /\ Return(IF op = "next_many" /\ box.iterator = -1 THEN Crash(w) ELSE storage_send_error(Undone(w)))
      \/ Return(storage_send_error(Undone([w EXCEPT !.diag = "own"])))
      \/ /\ box' = Referred(w, result.tuple, 1)
         /\ batch' = <<[batch[1] EXCEPT !.left = Tail(@), !.port = Append(@, result.tuple)]>>
         /\ trouble' = IF releasing # <<>> /\ releasing[1] = result.tuple
                       THEN trouble \union {"race"} ELSE trouble
         /\ UNCHANGED <<request, pool, queue, answers>>
  BY <1>2, <1>3, <1>4 DEF Item
<1>6. /\ DOMAIN result.w = BoxFields
      /\ ~result.ok => result.w.diag = "own"
      /\ op = "next_many" => result.w.space = box.space
  <2>1. CASE fault = "engine"
    BY <1>1, <1>3, <2>1, SpaceKept
  <2>2. CASE fault # "engine"
    BY <1>1, <1>2, <1>3, <2>2, OperationResult DEF Result
  <2>3. QED
    BY <2>1, <2>2
<1>7. /\ DOMAIN w = BoxFields /\ w.diag = result.w.diag /\ (op = "next_many" => w.space = box.space)
  BY <1>4, <1>6, SpaceKept
<1>8. CASE Return(Crash(w))
  <2>1. Fits(Before, Crash(w), op)
    BY <1>7 DEF Fits, Crash
  <2>2. QED
    BY <1>1, <1>2, <1>8, <2>1 DEF Returns
<1>9. CASE /\ ~result.ok \/ (result.tuple = NoTuple /\ op = "next_many")
           /\ Return(storage_send_error(Undone(w)))
  <2>1. DOMAIN Undone(w) = BoxFields /\ Undone(w).space = Before /\ Undone(w).diag = w.diag
    BY <1>1, <1>2, <1>7, UndoneIs
  <2>2. w.diag = "old" => op = "next_many"
    BY <1>6, <1>7, <1>9
  <2>3. Fits(Before, storage_send_error(Undone(w)), op)
    BY <2>1, <2>2 DEF Fits, storage_send_error
  <2>4. QED
    BY <1>1, <1>2, <1>9, <2>3 DEF Returns
<1>10. CASE Return(storage_send_error(Undone([w EXCEPT !.diag = "own"])))
  <2>1. PICK v : v = [w EXCEPT !.diag = "own"]
    OBVIOUS
  <2>2. DOMAIN v = BoxFields /\ v.space = w.space /\ v.diag = "own"
    BY <1>7, <2>1 DEF BoxFields
  <2>3. DOMAIN Undone(v) = BoxFields /\ Undone(v).space = Before /\ Undone(v).diag = "own"
    BY <1>1, <1>2, <1>7, <2>2, UndoneIs
  <2>4. Fits(Before, storage_send_error(Undone(v)), op)
    BY <2>3 DEF Fits, storage_send_error
  <2>5. QED
    BY <1>1, <1>2, <1>10, <2>1, <2>4 DEF Returns
<1>11. CASE /\ box' = Referred(w, result.tuple, 1)
            /\ batch' = <<[batch[1] EXCEPT !.left = Tail(@), !.port = Append(@, result.tuple)]>>
            /\ trouble' = IF releasing # <<>> /\ releasing[1] = result.tuple
                          THEN trouble \union {"race"} ELSE trouble
            /\ UNCHANGED <<request, pool, queue, answers>>
  <2>1. SameTrouble
    BY <1>11 DEF SameTrouble
  <2>2. DOMAIN box' = BoxFields /\ box'.space = w.space
    BY <1>7, <1>11, SpaceKept
  <2>3. PICK b : b = [batch[1] EXCEPT !.left = Tail(@), !.port = Append(@, result.tuple)]
    OBVIOUS
  <2>4. DOMAIN b = BatchFields /\ b.op = op /\ b.space = batch[1].space
    BY <1>1, <1>2, <2>3 DEF BatchFields
  <2>5. batch' = <<b>> /\ batch'[1] = b
    BY <1>11, <2>3
  <2>6. Op' = Op
    BY <1>11 DEF Op
  <2>7. "shared" \notin trouble' => "shared" \notin trouble
    BY <1>11
  <2>8. BatchPart'
    BY <1>1, <1>2, <1>7, <1>11, <2>2, <2>4, <2>5, <2>6, <2>7 DEF BatchPart
  <2>9. QED
    BY <1>11, <2>1, <2>2, <2>8 DEF GoesOn
<1>12. QED
  BY <1>5, <1>8, <1>9, <1>10, <1>11

LEMMA BeginGoesOn ==
  ASSUME BoxInv, Begin
  PROVE  GoesOn
<1>1. /\ queue # <<>> /\ Op \in ManyCalls
      /\ batch' = <<[op |-> Op, left |-> request[Head(queue)].keys, space |-> box.space, port |-> <<>>]>>
      /\ box' = Later(box) /\ UNCHANGED <<request, pool, queue, answers, trouble>>
  BY DEF Begin, Running
<1>2. DOMAIN box' = BoxFields /\ box'.space = box.space
  BY <1>1, LaterIs DEF BoxInv
<1>3. DOMAIN batch'[1] = BatchFields /\ batch'[1].op = Op /\ batch'[1].space = box.space
  BY <1>1 DEF BatchFields
<1>4. Op' = Op
  BY <1>1 DEF Op
<1>5. BatchPart'
  BY <1>1, <1>2, <1>3, <1>4 DEF BatchPart
<1>6. QED
  BY <1>1, <1>2, <1>5 DEF GoesOn, SameTrouble

\* The isolates give tuples back.
LEMMA ReleaseGoesOn ==
  ASSUME BoxInv, ReleaseRead \/ ReleaseWrite \/ UNCHANGED vars
  PROVE  GoesOn
<1>1. UNCHANGED <<request, pool, queue, batch, answers, trouble>>
  BY DEF ReleaseRead, ReleaseWrite, vars
<1>2. DOMAIN box = BoxFields
  BY DEF BoxInv, TaskPart
<1>3. DOMAIN box' = BoxFields /\ box'.space = box.space
  <2>1. CASE UNCHANGED box
    BY <1>2, <2>1
  <2>2. CASE ReleaseWrite
    BY <1>2, <2>2 DEF ReleaseWrite, BoxFields
  <2>3. QED
    BY <2>1, <2>2 DEF ReleaseRead, vars
<1>4. Op' = Op
  BY <1>1 DEF Op
<1>5. BatchPart'
  BY <1>1, <1>3, <1>4 DEF BoxInv, BatchPart
<1>6. QED
  BY <1>1, <1>3, <1>5 DEF GoesOn, SameTrouble

\* Every step of the storage answers one task, goes on or submits.
LEMMA BoxSteps ==
  ASSUME BoxInv, [Next]_vars
  PROVE  \/ CallPlain \/ CallMany \/ CallIterator \/ FreeBuffer \/ FreePort \/ FreeTuple
         \/ \E kind \in Kinds : Extend(kind)
         \/ \E r : Complete(r)
         \/ Submit \/ Returns \/ GoesOn
<1>1. CASE Begin \/ ReleaseRead \/ ReleaseWrite \/ UNCHANGED vars
  BY <1>1, BeginGoesOn, ReleaseGoesOn
<1>2. CASE \E fault \in {"none", "engine", "undefined"} : Execute(fault)
  BY <1>2, ExecuteReturns
<1>3. CASE \E fault \in {"none", "engine", "port"} : Item(fault)
  BY <1>3, ItemReturns
<1>4. CASE \E fault \in {"none", "commit"} : Commit(fault)
  BY <1>4, CommitReturns
<1>5. QED
  BY <1>1, <1>2, <1>3, <1>4 DEF Next, Serve

LEMMA BoxNext ==
  ASSUME BoxInv, [Next]_vars
  PROVE  BoxInv'
<1>1. CASE Returns
  BY <1>1, ReturnSafe DEF Returns
<1>2. CASE GoesOn
  BY <1>2, QuietSafe DEF GoesOn
<1>3. QED
  BY <1>1, <1>2, BoxSteps, CallSafe, ExtendSafe, CompleteSafe, SubmitSafe

LEMMA BoxInit ==
  ASSUME Init
  PROVE  BoxInv
<1>1. /\ DOMAIN box = BoxFields /\ queue = <<>> /\ batch = <<>> /\ answers = <<>> /\ trouble = {}
      /\ request = [r \in Kinds \X (1 .. Preallocated) |-> Blank]
      /\ pool = [kind \in Kinds |-> [i \in 1 .. Preallocated |-> <<kind, i>>]]
  BY DEF Init, BoxFields
<1>2. PICK n \in Nat : n = Preallocated
  BY BoxAssumption
<1>3. /\ DOMAIN request = Kinds \X (1 .. n) /\ \A r \in DOMAIN request : request[r] = Blank
      /\ DOMAIN Blank = TaskFields /\ Blank.at = "free"
  BY <1>1, <1>2 DEF Blank, TaskFields
<1>4. TaskPart
  <2>1. <<>> \in Seq(DOMAIN request) /\ DOMAIN <<>> = {}
    BY EmptySeq
  <2>2. queue \in Seq(DOMAIN request) /\ answers \in Seq(DOMAIN request) /\ DOMAIN queue = {}
    BY <1>1, <2>1, Zenon
  <2>3. QED
    BY <1>1, <1>3, <2>2 DEF TaskPart
<1>5. \A kind \in Kinds : Made(kind) = Numbered(kind, n)
  BY <1>3 DEF Made, Numbered
<1>6. NamePart
  <2>1. IsFiniteSet(DOMAIN request)
    <3>1. IsFiniteSet(Kinds)
      <4>1. Kinds = {"space"} \union {"index"} \union {"update"} \union {"index_update"} \union {"upsert"}
                      \union {"other"}
        BY DEF Kinds
      <4>2. QED
        BY <4>1, FS_Singleton, FS_Union
    <3>2. IsFiniteSet(1 .. n)
      BY FS_Interval
    <3>3. QED
      BY <1>3, <3>1, <3>2, FS_Product
  <2>2. DOMAIN request \subseteq Kinds \X Nat
    BY <1>3
  <2>3. QED
    BY <1>5, <2>1, <2>2 DEF NamePart
<1>7. PoolPart
  <2>1. DOMAIN pool = Kinds /\ \A kind \in Kinds : pool[kind] = [i \in 1 .. n |-> <<kind, i>>]
    BY <1>1, <1>2
  <2>2. ASSUME NEW kind \in Kinds
        PROVE  /\ pool[kind] \in Seq(Made(kind))
               /\ \A i \in DOMAIN pool[kind] :
                    /\ request[pool[kind][i]].at = "free"
                    /\ \A j \in DOMAIN pool[kind] : pool[kind][i] = pool[kind][j] => i = j
    <3>1. DOMAIN pool[kind] = 1 .. n /\ \A i \in 1 .. n : pool[kind][i] = <<kind, i>>
      BY <2>1
    <3>2. \A i \in 1 .. n : <<kind, i>> \in Made(kind) /\ <<kind, i>> \in DOMAIN request
      BY <1>3, <1>5 DEF Numbered
    <3>3. [i \in 1 .. n |-> <<kind, i>>] \in Seq(Made(kind))
      BY <3>2
    <3>4. pool[kind] \in Seq(Made(kind))
      BY <2>1, <3>3
    <3>5. \A i \in 1 .. n : request[pool[kind][i]].at = "free"
      BY <1>3, <3>1, <3>2
    <3>6. \A i, j \in 1 .. n : pool[kind][i] = pool[kind][j] => i = j
      BY <3>1
    <3>7. QED
      BY <3>1, <3>4, <3>5, <3>6
  <2>3. QED
    BY <2>1, <2>2 DEF PoolPart
<1>8. DistinctPart
  <2>1. DOMAIN queue = {} /\ DOMAIN answers = {}
    BY <1>1
  <2>2. QED
    BY <2>1 DEF DistinctPart
<1>9. ErrorPart
  <2>1. Range(answers) = {}
    BY <1>1 DEF Range
  <2>2. \A r \in DOMAIN request : request[r].at # "answered"
    BY <1>3
  <2>3. QED
    BY <2>1, <2>2 DEF ErrorPart, ErrorsOwn
<1>10. BatchPart /\ RequestsExclusive /\ FullPart
  BY <1>1 DEF BatchPart, RequestsExclusive, FullPart
<1>11. QED
  BY <1>4, <1>6, <1>7, <1>8, <1>9, <1>10 DEF BoxInv

\* However many calls there are and however their requests are taken, answered
\* and taken again: two calls share a request only after its pool has run
\* empty; without that, the storage runs out of submission entries only while
\* more calls are under way than its ring holds, and an error event is the one
\* of the call it answers, except at the end of an iterator.
THEOREM AnswersHold == Spec => []AnswersInv
<1>1. ASSUME BoxInv PROVE AnswersInv
  BY <1>1 DEF BoxInv, FullPart, ErrorPart, AnswersInv, AnswersFit
<1>2. QED
  BY <1>1, BoxInit, BoxNext, PTL DEF Spec

\* Whatever the engine refuses in a batch, at its port or at its commit, and
\* whatever other calls are sent meanwhile: the answer of a call that failed
\* leaves the space as it was when its handler began.
THEOREM ErrorsChangeNothing == Spec => ErrorChangesNothing
<1>1. ASSUME BoxInv, [Next]_vars, NEW r \in DOMAIN request,
             r \notin Range(answers), r \in Range(answers'), request'[r].failed
      PROVE  box'.space = (IF batch = <<>> THEN box.space ELSE batch[1].space)
  <2>1. answers' # answers /\ answers' # <<>>
    <3>1. Range(<<>>) = {}
      BY DEF Range
    <3>2. answers' # answers
      BY <1>1, Zenon
    <3>3. answers' # <<>>
      BY <1>1, <3>1, Zenon
    <3>4. QED
      BY <3>2, <3>3
  <2>2. ~(CallPlain \/ CallMany \/ CallIterator \/ FreeBuffer \/ FreePort \/ FreeTuple)
    BY <2>1 DEF CallPlain, CallMany, CallIterator, FreeBuffer, FreePort, FreeTuple, Call
  <2>3. ~Submit /\ ~GoesOn /\ ~(\E kind \in Kinds : Extend(kind)) /\ ~(\E q : Complete(q))
    BY <2>1 DEF Submit, Remaining, GoesOn, Extend, Complete
  <2>4. PICK result, op : Fits(Before, result, op) /\ Return(result) /\ queue # <<>>
    BY <1>1, <2>2, <2>3, BoxSteps DEF Returns
  <2>5. /\ box' = result.w /\ request'[queue[1]].failed = result.failed
        /\ answers' = Append(answers, queue[1])
    BY <1>1, <2>1, <2>4, ReturnIs
  <2>6. r = queue[1]
    <3>1. PICK s \in Seq(DOMAIN request) : s = answers
      BY <1>1 DEF BoxInv, TaskPart
    <3>2. PICK i \in DOMAIN Append(s, queue[1]) : Append(s, queue[1])[i] = r
      BY <1>1, <2>5, <3>1 DEF Range
    <3>3. i \notin DOMAIN s
      BY <1>1, <3>1, <3>2 DEF Range
    <3>4. i = Len(s) + 1
      BY <3>2, <3>3
    <3>5. QED
      BY <3>2, <3>4
  <2>7. box'.space = Before
    BY <1>1, <2>4, <2>5, <2>6 DEF Fits
  <2>8. QED
    BY <2>7 DEF Before
<1>2. ASSUME BoxInv, [Next]_vars
      PROVE  [\A r \in DOMAIN request :
                UnderWay(r) /\ r \notin Range(answers) /\ r \in Range(answers') /\ request'[r].failed
                  => box'.space = (IF batch = <<>> THEN box.space ELSE batch[1].space)]_vars
  BY <1>1, <1>2
<1>3. QED
  BY <1>2, BoxInit, BoxNext, PTL DEF Spec, ErrorChangesNothing

-----------------------------------------------------------------------------
(* References.  As long as no isolate was given the output of an earlier      *)
(* call, no release raced with the storage and no request was shared, a tuple *)
(* is referenced by at least as many as will ever give a reference back: the  *)
(* space, the isolates and their ports, the batch under way, the tasks that   *)
(* free something and the answers on their way.                               *)

Calm == trouble \intersect {"stale", "race", "shared"} = {}
FreeCalls == {"free_buffer", "free_port", "free_tuple"}

\* A space maps keys to different tuples, of those made so far.
SpaceOf(space, made) ==
  /\ space \in [Keys -> 0 .. made]
  /\ \A j, k \in Keys : space[j] = space[k] /\ space[j] # NoTuple => j = k
Typed(w) ==
  /\ DOMAIN w = BoxFields /\ w.key \in Seq(Keys) /\ w.refs \in [Tuples -> Int]
  /\ SpaceOf(w.space, Len(w.key))

\* What a call was given: keys, or the tuples of what is freed.
KeysFit(op, keys) ==
  /\ keys \in Seq(Nat)
  /\ op \notin FreeCalls => keys \in Seq(Keys)
  /\ op \in KeyCalls \union {"free_tuple"} => keys # <<>>
KeysPart ==
  \A r \in Range(queue) : request[r].fresh = FALSE /\ KeysFit(request[r].op, request[r].keys)

\* The outputs that hand over tuples.
OutputFits(output) ==
  /\ output.kind \in {"tuple", "port"} => output.of \in Seq(Nat)
  /\ output.kind = "tuple" => output.of # <<>>
OutputPart == \A r \in DOMAIN request : OutputFits(request[r].output)

\* A handler of several tuples: the space to go back to, the tuples in its port.
UndoPart ==
  batch # <<>> =>
    /\ SpaceOf(batch[1].space, Len(box.key))
    /\ batch[1].left \in Seq(Keys) /\ batch[1].port \in Seq(Nat)

\* What isolates hold; the count that one of them read is not too small.
HeldPart ==
  /\ DOMAIN held = {"tuples", "ports", "buffers", "iterator"}
  /\ held.tuples \in [Tuples -> Nat] /\ held.ports \in Seq(Seq(Nat))
  /\ releasing # <<>> =>
       releasing[1] \in Tuples /\ releasing[2] \in Int /\ releasing[2] >= box.refs[releasing[1]]

\* The tuples a request stands for: those its handler will give back, or those its
\* answer hands over.
Given(op, keys) == IF op \in {"free_tuple", "free_port"} THEN keys ELSE <<>>
Handed(output) == IF output.kind \in {"tuple", "port"} THEN output.of ELSE <<>>
Load(r) ==
  IF r \in Range(queue) THEN Given(request[r].op, request[r].keys)
  ELSE IF UnderWay(r) /\ request[r].fresh THEN Handed(request[r].output) ELSE <<>>
Loads == [r \in DOMAIN request |-> Load(r)]

\* Where a tuple is in a family of sequences.
Everywhere(f, t) == {p \in (DOMAIN f) \X Nat : p[2] \in DOMAIN f[p[1]] /\ f[p[1]][p[2]] = t}

Has(space, t) == IF \E k \in Keys : space[k] = t THEN 1 ELSE 0
Undoing == IF batch = <<>> THEN <<>> ELSE batch[1].port
Releases(t) == IF releasing # <<>> /\ releasing[1] = t THEN 1 ELSE 0

CountPart ==
  \A t \in Tuples :
    /\ IsFiniteSet(Everywhere(held.ports, t)) /\ IsFiniteSet(Everywhere(Loads, t))
    /\ box.refs[t] >= Has(box.space, t) + held.tuples[t] + Cardinality(Everywhere(held.ports, t))
                      + Cardinality(Everywhere(Loads, t)) + Cardinality(Places(Undoing, t)) + Releases(t)

RefInv == Calm => Typed(box) /\ KeysPart /\ OutputPart /\ UndoPart /\ HeldPart /\ CountPart

-----------------------------------------------------------------------------
(* Counting places. *)

LEMMA LeastNatural ==
  ASSUME NEW S, S \subseteq Nat, S # {}
  PROVE  \E x \in S : \A y \in S : x <= y
<1>1. PICK R : R = OpToRel(<, Nat)
  OBVIOUS
<1>2. IsWellFoundedOn(R, Nat)
  BY <1>1, NatLessThanWellFounded
<1>3. \A x, y \in Nat : x < y => <<x, y>> \in R
  BY <1>1 DEF OpToRel
<1>4. PICK x \in S : \A y \in S : ~(<<y, x>> \in R)
  BY <1>2, WFMin
<1>5. \A y \in S : ~(y < x)
  BY <1>3, <1>4
<1>6. \A y \in S : y \in Nat /\ x \in Nat
  OBVIOUS
<1>7. \A y \in S : x <= y
  BY <1>5, <1>6
<1>8. QED
  BY <1>7

LEMMA PlacesFinite ==
  ASSUME NEW S, NEW s \in Seq(S), NEW t
  PROVE  IsFiniteSet(Places(s, t)) /\ Cardinality(Places(s, t)) \in Nat
<1>1. IsFiniteSet(1 .. Len(s)) /\ Places(s, t) \subseteq 1 .. Len(s)
  BY FS_Interval DEF Places
<1>2. QED
  BY <1>1, FS_Subset, FS_CardinalityType

LEMMA PlacesOf ==
  ASSUME NEW t
  PROVE  /\ Cardinality(Places(<<>>, t)) = 0
         /\ \A u : Cardinality(Places(<<u>>, t)) = IF u = t THEN 1 ELSE 0
<1>1. Places(<<>>, t) = {}
  BY DEF Places
<1>2. ASSUME NEW u PROVE Places(<<u>>, t) = IF u = t THEN {1} ELSE {}
  BY DEF Places
<1>3. QED
  BY <1>1, <1>2, FS_EmptySet, FS_Singleton

LEMMA PlacesAppend ==
  ASSUME NEW S, NEW s \in Seq(S), NEW u \in S, NEW t
  PROVE  Cardinality(Places(Append(s, u), t)) = Cardinality(Places(s, t)) + (IF u = t THEN 1 ELSE 0)
<1>1. Places(Append(s, u), t) = Places(s, t) \cup (IF u = t THEN {Len(s) + 1} ELSE {})
  BY DEF Places
<1>2. Len(s) + 1 \notin Places(s, t)
  BY DEF Places
<1>3. IsFiniteSet(Places(s, t)) /\ Cardinality(Places(s, t)) \in Nat
  BY PlacesFinite
<1>4. CASE u = t
  <2>1. PICK P : P = Places(s, t)
    OBVIOUS
  <2>2. Cardinality(P \cup {Len(s) + 1}) = Cardinality(P) + 1
    BY <1>2, <1>3, <2>1, FS_AddElement
  <2>3. QED
    BY <1>1, <1>4, <2>1, <2>2
<1>5. CASE u # t
  <2>1. Places(Append(s, u), t) = Places(s, t)
    BY <1>1, <1>5
  <2>2. QED
    BY <1>3, <1>5, <2>1
<1>6. QED
  BY <1>4, <1>5

\* A head that is there counts.
LEMMA PlacesHead ==
  ASSUME NEW S, NEW s \in Seq(S), s # <<>>, NEW t
  PROVE  Cardinality(Places(s, t)) >= (IF Head(s) = t THEN 1 ELSE 0)
<1>1. IsFiniteSet(Places(s, t)) /\ Cardinality(Places(s, t)) \in Nat
  BY PlacesFinite
<1>2. CASE Head(s) = t
  <2>1. 1 \in Places(s, t)
    BY <1>2 DEF Places
  <2>2. Cardinality(Places(s, t)) # 0
    BY <1>1, <2>1, FS_EmptySet
  <2>3. QED
    BY <1>1, <1>2, <2>2
<1>3. QED
  BY <1>1, <1>2

\* Families that differ in one sequence.
OneDiffers(f, g, r, old, new) ==
  /\ old \in Seq(Nat) /\ new \in Seq(Nat)
  /\ r \in DOMAIN f => f[r] = old
  /\ r \notin DOMAIN f => old = <<>>
  /\ r \in DOMAIN g => g[r] = new
  /\ r \notin DOMAIN g => new = <<>>
  /\ \A x \in DOMAIN f : x # r => x \in DOMAIN g /\ g[x] = f[x]
  /\ \A x \in DOMAIN g : x # r /\ x \notin DOMAIN f => g[x] = <<>>

LEMMA OneChanges ==
  ASSUME NEW f, NEW g, NEW r, NEW old, NEW new, OneDiffers(f, g, r, old, new),
         NEW t, IsFiniteSet(Everywhere(f, t))
  PROVE  /\ IsFiniteSet(Everywhere(g, t))
         /\ Cardinality(Everywhere(g, t)) =
              Cardinality(Everywhere(f, t)) - Cardinality(Places(old, t)) + Cardinality(Places(new, t))
<1> USE DEF OneDiffers
<1> DEFINE P(s) == {r} \X Places(s, t)
<1>1. ASSUME NEW s \in Seq(Nat)
      PROVE  IsFiniteSet(P(s)) /\ Cardinality(P(s)) = Cardinality(Places(s, t)) /\ Cardinality(P(s)) \in Nat
  <2>1. IsFiniteSet(Places(s, t)) /\ Cardinality(Places(s, t)) \in Nat
    BY PlacesFinite
  <2>2. IsFiniteSet({r}) /\ Cardinality({r}) = 1
    BY FS_Singleton
  <2>3. IsFiniteSet(P(s)) /\ Cardinality(P(s)) = 1 * Cardinality(Places(s, t))
    BY <2>1, <2>2, FS_Product
  <2>4. QED
    BY <2>1, <2>3
<1>2. P(old) \subseteq Everywhere(f, t)
  <2>1. CASE r \in DOMAIN f
    BY <2>1 DEF Everywhere, Places
  <2>2. CASE r \notin DOMAIN f
    BY <2>2 DEF Places
  <2>3. QED
    BY <2>1, <2>2
<1>3. Everywhere(g, t) = (Everywhere(f, t) \ P(old)) \cup P(new)
  <2>1. ASSUME NEW p \in Everywhere(g, t) PROVE p \in (Everywhere(f, t) \ P(old)) \cup P(new)
    <3>1. p = <<p[1], p[2]>> /\ p[1] \in DOMAIN g /\ p[2] \in Nat /\ p[2] \in DOMAIN g[p[1]] /\ g[p[1]][p[2]] = t
      BY <2>1 DEF Everywhere
    <3>2. CASE p[1] = r
      BY <3>1, <3>2 DEF Places
    <3>3. CASE p[1] # r
      <4>1. p[1] \in DOMAIN f /\ f[p[1]] = g[p[1]]
        BY <3>1, <3>3
      <4>2. QED
        BY <3>1, <3>3, <4>1 DEF Everywhere
    <3>4. QED
      BY <3>2, <3>3
  <2>2. ASSUME NEW p \in Everywhere(f, t) \ P(old) PROVE p \in Everywhere(g, t)
    <3>1. p = <<p[1], p[2]>> /\ p[1] \in DOMAIN f /\ p[2] \in Nat /\ p[2] \in DOMAIN f[p[1]] /\ f[p[1]][p[2]] = t
      BY <2>2 DEF Everywhere
    <3>2. p[1] # r
      BY <2>2, <3>1 DEF Places
    <3>3. QED
      BY <3>1, <3>2 DEF Everywhere
  <2>3. ASSUME NEW p \in P(new) PROVE p \in Everywhere(g, t)
    <3>1. p = <<r, p[2]>> /\ p[2] \in DOMAIN new /\ new[p[2]] = t
      BY <2>3 DEF Places
    <3>2. r \in DOMAIN g
      BY <3>1
    <3>3. QED
      BY <3>1, <3>2 DEF Everywhere
  <2>4. QED
    BY <2>1, <2>2, <2>3
<1>4. (Everywhere(f, t) \ P(old)) \cap P(new) = {}
  <2>1. ASSUME NEW p \in Everywhere(f, t) \ P(old), p \in P(new) PROVE FALSE
    <3>1. p = <<r, p[2]>> /\ p[1] = r
      BY <2>1
    <3>2. r \in DOMAIN f /\ p[2] \in DOMAIN f[r] /\ f[r][p[2]] = t
      BY <2>1, <3>1 DEF Everywhere
    <3>3. p \in P(old)
      BY <3>1, <3>2 DEF Places
    <3>4. QED
      BY <2>1, <3>3
  <2>2. QED
    BY <2>1
<1>5. PICK E, F, O, N : E = Everywhere(f, t) /\ F = Everywhere(g, t) /\ O = P(old) /\ N = P(new)
  OBVIOUS
<1>6. /\ IsFiniteSet(O) /\ Cardinality(O) = Cardinality(Places(old, t))
      /\ IsFiniteSet(N) /\ Cardinality(N) = Cardinality(Places(new, t))
      /\ Cardinality(N) \in Nat /\ Cardinality(O) \in Nat
  BY <1>1, <1>5
<1>7. F = (E \ O) \cup N /\ (E \ O) \cap N = {} /\ E \cap O = O /\ IsFiniteSet(E)
  BY <1>2, <1>3, <1>4, <1>5
<1>8. IsFiniteSet(E \ O) /\ Cardinality(E \ O) = Cardinality(E) - Cardinality(O) /\ Cardinality(E) \in Nat
  BY <1>7, FS_Difference, FS_CardinalityType
<1>9. IsFiniteSet(F) /\ Cardinality(F) = Cardinality(E \ O) + Cardinality(N) - Cardinality({})
  <2>1. PICK D : D = E \ O
    OBVIOUS
  <2>2. F = D \cup N /\ D \cap N = {} /\ IsFiniteSet(D)
    BY <1>7, <1>8, <2>1
  <2>3. IsFiniteSet(D \cup N) /\ Cardinality(D \cup N) = Cardinality(D) + Cardinality(N) - Cardinality(D \cap N)
    BY <1>6, <2>2, FS_Union
  <2>4. QED
    BY <2>1, <2>2, <2>3
<1>10. Cardinality({}) = 0
  BY FS_EmptySet
<1>11. QED
  BY <1>5, <1>6, <1>8, <1>9, <1>10

-----------------------------------------------------------------------------
(* The engine keeps count. *)

\* From w to v no reference is lost: what v has less is accounted for by the space,
\* by what was given back and by what is handed over.
Balanced(w, v, back, over) ==
  /\ Typed(v) /\ Len(v.key) >= Len(w.key)
  /\ \A t \in Tuples :
       v.refs[t] - Has(v.space, t) - Cardinality(Places(over, t))
         >= w.refs[t] - Has(w.space, t) - Cardinality(Places(back, t))

LEMMA HasType == \A space, t : Has(space, t) \in {0, 1}
  BY DEF Has

LEMMA TupleTypes ==
  /\ Tuples \subseteq Nat \ {0} /\ MaxKey \in Nat \ {0} /\ Keys = 1 .. MaxKey /\ 1 \in Keys
  /\ NoTuple = 0 /\ IsFiniteSet(Keys)
<1>1. MaxKey \in Nat \ {0} /\ MaxCalls \in Nat \ {0}
  BY BoxAssumption
<1>2. IsFiniteSet(1 .. MaxKey)
  BY <1>1, FS_Interval
<1>3. 2 * MaxCalls \in Int
  BY <1>1
<1>4. 1 .. (2 * MaxCalls) \subseteq Nat \ {0}
  BY <1>3
<1>5. QED
  BY <1>1, <1>2, <1>4 DEF Tuples, Keys, NoTuple

LEMMA ReferredIs ==
  ASSUME NEW w, Typed(w), NEW t, NEW n \in Int
  PROVE  /\ Typed(Referred(w, t, n)) /\ Referred(w, t, n).space = w.space /\ Referred(w, t, n).key = w.key
         /\ \A u \in Tuples : Referred(w, t, n).refs[u] = w.refs[u] + (IF u = t THEN n ELSE 0)
<1>1. /\ DOMAIN Referred(w, t, n) = BoxFields
      /\ Referred(w, t, n).space = w.space /\ Referred(w, t, n).key = w.key
      /\ Referred(w, t, n).refs = [w.refs EXCEPT ![t] = @ + n]
  BY DEF Referred, Typed, BoxFields
<1>2. w.refs \in [Tuples -> Int]
  BY DEF Typed
<1>3. PICK refs : refs = w.refs
  OBVIOUS
<1>4. /\ [refs EXCEPT ![t] = @ + n] \in [Tuples -> Int]
      /\ \A u \in Tuples : [refs EXCEPT ![t] = @ + n][u] = refs[u] + (IF u = t THEN n ELSE 0)
  <2>1. PICK g : g = [refs EXCEPT ![t] = @ + n]
    OBVIOUS
  <2>2. /\ DOMAIN g = Tuples
        /\ \A u \in Tuples : g[u] = IF u = t THEN refs[u] + n ELSE refs[u]
    BY <1>2, <1>3, <2>1
  <2>3. \A u \in Tuples : refs[u] \in Int
    BY <1>2, <1>3
  <2>4. \A u \in Tuples : g[u] = refs[u] + (IF u = t THEN n ELSE 0) /\ g[u] \in Int
    BY <2>2, <2>3
  <2>5. g = [u \in Tuples |-> g[u]]
    BY <2>1, <2>2, <1>2, <1>3
  <2>6. g \in [Tuples -> Int]
    BY <2>4, <2>5
  <2>7. QED
    BY <2>1, <2>4, <2>6
<1>5. QED
  BY <1>1, <1>3, <1>4 DEF Typed

LEMMA Cleared ==
  ASSUME NEW space, NEW made \in Nat, SpaceOf(space, made), NEW k \in Keys
  PROVE  /\ SpaceOf([space EXCEPT ![k] = NoTuple], made)
         /\ \A t \in Tuples : Has([space EXCEPT ![k] = NoTuple], t) = Has(space, t) - (IF t = space[k] THEN 1 ELSE 0)
<1>1. PICK s : s = [space EXCEPT ![k] = NoTuple]
  OBVIOUS
<1>2. /\ s \in [Keys -> 0 .. made] /\ s[k] = NoTuple
      /\ \A j \in Keys : j # k => s[j] = space[j]
  BY <1>1 DEF SpaceOf, NoTuple
<1>3. SpaceOf(s, made)
  BY <1>2 DEF SpaceOf
<1>4. ASSUME NEW t \in Tuples PROVE Has(s, t) = Has(space, t) - (IF t = space[k] THEN 1 ELSE 0)
  <2>1. t # NoTuple
    BY TupleTypes
  <2>2. CASE t = space[k]
    <3>1. \A j \in Keys : s[j] # t
      BY <1>2, <2>1, <2>2 DEF SpaceOf
    <3>2. Has(s, t) = 0 /\ Has(space, t) = 1
      BY <2>2, <3>1 DEF Has
    <3>3. QED
      BY <2>2, <3>2
  <2>3. CASE t # space[k]
    <3>1. (\E j \in Keys : s[j] = t) <=> (\E j \in Keys : space[j] = t)
      BY <1>2, <2>1, <2>3
    <3>2. Has(s, t) = Has(space, t)
      BY <3>1 DEF Has
    <3>3. QED
      BY <2>3, <3>2, HasType
  <2>4. QED
    BY <2>2, <2>3
<1>5. QED
  BY <1>1, <1>3, <1>4

\* A tuple that leaves the space takes its reference along.
LEMMA ErasedIs ==
  ASSUME NEW w, Typed(w), NEW k \in Keys
  PROVE  /\ Typed(Erase(w, k)) /\ Erase(w, k).key = w.key /\ Erase(w, k).space = [w.space EXCEPT ![k] = NoTuple]
         /\ \A t \in Tuples : Erase(w, k).refs[t] - Has(Erase(w, k).space, t) = w.refs[t] - Has(w.space, t)
<1>1. PICK t0 : t0 = w.space[k]
  OBVIOUS
<1>2. /\ w.space \in [Keys -> 0 .. Len(w.key)] /\ Len(w.key) \in Nat /\ SpaceOf(w.space, Len(w.key))
      /\ w.refs \in [Tuples -> Int]
  BY DEF Typed, SpaceOf
<1>3. CASE t0 = NoTuple
  <2>1. Erase(w, k) = w
    BY <1>1, <1>3 DEF Erase
  <2>2. w.space = [w.space EXCEPT ![k] = NoTuple]
    BY <1>1, <1>2, <1>3
  <2>3. \A t \in Tuples : w.refs[t] - Has(w.space, t) = w.refs[t] - Has(w.space, t)
    OBVIOUS
  <2>4. QED
    BY <2>1, <2>2, <2>3
<1>4. CASE t0 # NoTuple
  <2>1. PICK v : v = Referred(w, t0, -1)
    OBVIOUS
  <2>2. /\ Typed(v) /\ v.space = w.space /\ v.key = w.key
        /\ \A u \in Tuples : v.refs[u] = w.refs[u] + (IF u = t0 THEN -1 ELSE 0)
    BY <2>1, ReferredIs
  <2>3. PICK s : s = [w.space EXCEPT ![k] = NoTuple]
    OBVIOUS
  <2>4. Erase(w, k) = [v EXCEPT !.space[k] = NoTuple]
    BY <1>1, <1>4, <2>1 DEF Erase
  <2>5. /\ DOMAIN Erase(w, k) = BoxFields /\ Erase(w, k).key = w.key /\ Erase(w, k).refs = v.refs
        /\ Erase(w, k).space = s
    BY <2>2, <2>3, <2>4 DEF Typed, BoxFields
  <2>6. /\ SpaceOf(s, Len(w.key))
        /\ \A t \in Tuples : Has(s, t) = Has(w.space, t) - (IF t = t0 THEN 1 ELSE 0)
    BY <1>1, <1>2, <2>3, Cleared
  <2>7. Typed(Erase(w, k))
    BY <2>2, <2>5, <2>6 DEF Typed
  <2>8. ASSUME NEW t \in Tuples PROVE v.refs[t] - Has(s, t) = w.refs[t] - Has(w.space, t)
    <3>1. w.refs[t] \in Int /\ Has(w.space, t) \in Int
      BY <1>2, HasType
    <3>2. QED
      BY <2>2, <2>6, <3>1
  <2>9. QED
    BY <2>3, <2>5, <2>7, <2>8
<1>5. QED
  BY <1>3, <1>4

LEMMA Entered ==
  ASSUME NEW space, NEW made \in Nat, SpaceOf(space, made), NEW k \in Keys, space[k] = NoTuple
  PROVE  /\ SpaceOf([space EXCEPT ![k] = made + 1], made + 1)
         /\ \A t \in Tuples : Has([space EXCEPT ![k] = made + 1], t) = Has(space, t) + (IF t = made + 1 THEN 1 ELSE 0)
<1>1. PICK s : s = [space EXCEPT ![k] = made + 1]
  OBVIOUS
<1>2. /\ s \in [Keys -> 0 .. made + 1] /\ s[k] = made + 1
      /\ \A j \in Keys : j # k => s[j] = space[j]
      /\ \A j \in Keys : space[j] \in 0 .. made
  BY <1>1 DEF SpaceOf
<1>3. SpaceOf(s, made + 1)
  BY <1>2 DEF SpaceOf
<1>4. ASSUME NEW t \in Tuples PROVE Has(s, t) = Has(space, t) + (IF t = made + 1 THEN 1 ELSE 0)
  <2>1. t # NoTuple
    BY TupleTypes
  <2>2. CASE t = made + 1
    <3>1. \A j \in Keys : space[j] # t
      BY <1>2, <2>2
    <3>2. Has(s, t) = 1 /\ Has(space, t) = 0
      BY <1>2, <2>2, <3>1 DEF Has
    <3>3. QED
      BY <2>2, <3>2
  <2>3. CASE t # made + 1
    <3>1. (\E j \in Keys : s[j] = t) <=> (\E j \in Keys : space[j] = t)
      BY <1>2, <2>1, <2>3
    <3>2. Has(s, t) = Has(space, t)
      BY <3>1 DEF Has
    <3>3. QED
      BY <2>3, <3>2, HasType
  <2>4. QED
    BY <2>2, <2>3
<1>5. QED
  BY <1>1, <1>3, <1>4

\* A new tuple enters the space with one reference.
LEMMA StoredIs ==
  ASSUME NEW w, Typed(w), NEW k \in Keys
  PROVE  /\ Typed(Store(w, k)) /\ Len(Store(w, k).key) = Len(w.key) + 1
         /\ \A t \in Tuples : Store(w, k).refs[t] - Has(Store(w, k).space, t) = w.refs[t] - Has(w.space, t)
<1>1. PICK e : e = Erase(w, k)
  OBVIOUS
<1>2. /\ Typed(e) /\ e.key = w.key /\ e.space = [w.space EXCEPT ![k] = NoTuple]
      /\ \A t \in Tuples : e.refs[t] - Has(e.space, t) = w.refs[t] - Has(w.space, t)
  BY <1>1, ErasedIs
<1>3. w.space \in [Keys -> 0 .. Len(w.key)] /\ Len(w.key) \in Nat /\ w.key \in Seq(Keys)
  BY DEF Typed, SpaceOf
<1>4. PICK m : m = Len(w.key) + 1
  OBVIOUS
<1>5. PICK v : v = Referred(e, m, 1)
  OBVIOUS
<1>6. /\ Typed(v) /\ v.space = e.space /\ v.key = w.key
      /\ \A u \in Tuples : v.refs[u] = e.refs[u] + (IF u = m THEN 1 ELSE 0)
  BY <1>2, <1>5, ReferredIs
<1>7. Store(w, k) = [v EXCEPT !.space[k] = m, !.key = Append(@, k)]
  BY <1>1, <1>4, <1>5 DEF Store
<1>8. PICK s : s = [e.space EXCEPT ![k] = m]
  OBVIOUS
<1>9. /\ DOMAIN Store(w, k) = BoxFields /\ Store(w, k).key = Append(w.key, k)
      /\ Store(w, k).refs = v.refs /\ Store(w, k).space = s
  BY <1>6, <1>7, <1>8 DEF Typed, BoxFields
<1>10. e.space[k] = NoTuple /\ SpaceOf(e.space, Len(w.key))
  <2>1. e.space[k] = NoTuple
    BY <1>2, <1>3
  <2>2. QED
    BY <1>2, <2>1 DEF Typed
<1>11. /\ SpaceOf(s, Len(w.key) + 1)
       /\ \A t \in Tuples : Has(s, t) = Has(e.space, t) + (IF t = m THEN 1 ELSE 0)
  BY <1>3, <1>4, <1>8, <1>10, Entered
<1>12. Append(w.key, k) \in Seq(Keys) /\ Len(Append(w.key, k)) = Len(w.key) + 1
  BY <1>3
<1>13. Typed(Store(w, k))
  BY <1>6, <1>9, <1>11, <1>12 DEF Typed
<1>14. ASSUME NEW t \in Tuples PROVE v.refs[t] - Has(s, t) = w.refs[t] - Has(w.space, t)
  <2>1. e.refs[t] \in Int /\ Has(e.space, t) \in Int /\ w.refs[t] \in Int /\ Has(w.space, t) \in Int
    BY <1>2, HasType DEF Typed
  <2>2. QED
    BY <1>2, <1>6, <1>11, <2>1
<1>15. QED
  BY <1>9, <1>12, <1>13, <1>14

LEMMA BalancedIs ==
  ASSUME NEW w, Typed(w), NEW v, Typed(v), Len(v.key) >= Len(w.key)
  PROVE  /\ (\A t \in Tuples : v.refs[t] - Has(v.space, t) = w.refs[t] - Has(w.space, t)) => Balanced(w, v, <<>>, <<>>)
         /\ v.space = w.space /\ v.refs = w.refs => Balanced(w, v, <<>>, <<>>)
<1>1. \A t \in Tuples : /\ v.refs[t] - Has(v.space, t) - Cardinality(Places(<<>>, t)) = v.refs[t] - Has(v.space, t)
                        /\ w.refs[t] - Has(w.space, t) - Cardinality(Places(<<>>, t)) = w.refs[t] - Has(w.space, t)
                        /\ w.refs[t] - Has(w.space, t) \in Int
  <2>1. ASSUME NEW t \in Tuples
        PROVE  /\ Cardinality(Places(<<>>, t)) = 0 /\ v.refs[t] \in Int /\ w.refs[t] \in Int
               /\ Has(v.space, t) \in Int /\ Has(w.space, t) \in Int
    <3>1. Cardinality(Places(<<>>, t)) = 0
      BY PlacesOf
    <3>2. v.refs[t] \in Int /\ w.refs[t] \in Int
      BY DEF Typed
    <3>3. Has(v.space, t) \in Int /\ Has(w.space, t) \in Int
      BY HasType
    <3>4. QED
      BY <3>1, <3>2, <3>3
  <2>2. QED
    BY <2>1
<1>2. ASSUME \A t \in Tuples : v.refs[t] - Has(v.space, t) = w.refs[t] - Has(w.space, t)
      PROVE  Balanced(w, v, <<>>, <<>>)
  <2>1. \A t \in Tuples : v.refs[t] - Has(v.space, t) - Cardinality(Places(<<>>, t))
                            >= w.refs[t] - Has(w.space, t) - Cardinality(Places(<<>>, t))
    BY <1>1, <1>2
  <2>2. QED
    BY <2>1 DEF Balanced
<1>3. QED
  BY <1>2

LEMMA RefusedIs ==
  ASSUME NEW w, Typed(w)
  PROVE  Typed(Refused(w).w) /\ Balanced(w, Refused(w).w, <<>>, <<>>) /\ Refused(w).tuple = NoTuple /\ Refused(w).ok = FALSE
<1>1. PICK v : v = [w EXCEPT !.diag = "own"]
  OBVIOUS
<1>2. Refused(w).w = v /\ Refused(w).tuple = NoTuple /\ Refused(w).ok = FALSE
  BY <1>1 DEF Refused
<1>3. DOMAIN v = BoxFields /\ v.space = w.space /\ v.refs = w.refs /\ v.key = w.key
  BY <1>1 DEF Typed, BoxFields
<1>4. Typed(v) /\ Len(v.key) >= Len(w.key)
  BY <1>3 DEF Typed
<1>5. QED
  BY <1>2, <1>3, <1>4, BalancedIs

\* The least and the greatest of some keys are among them.
LEMMA Extremes ==
  ASSUME NEW S, S \subseteq Keys, S # {}
  PROVE  Min(S) \in S /\ Max(S) \in S
<1>1. S \subseteq Nat /\ MaxKey \in Nat /\ \A k \in S : k \in Nat /\ k <= MaxKey
  BY TupleTypes
<1>2. PICK m \in S : \A k \in S : m <= k
  BY <1>1, LeastNatural
<1>3. Min(S) \in S
  BY <1>2 DEF Min
<1>4. PICK T : T = {MaxKey - k : k \in S}
  OBVIOUS
<1>5. T \subseteq Nat /\ T # {}
  BY <1>1, <1>4
<1>6. PICK x \in T : \A y \in T : x <= y
  BY <1>5, LeastNatural
<1>7. PICK n \in S : x = MaxKey - n
  BY <1>4, <1>6
<1>8. \A k \in S : n >= k
  <2>1. ASSUME NEW k \in S PROVE n >= k
    <3>1. MaxKey - n <= MaxKey - k
      BY <1>4, <1>6, <1>7
    <3>2. QED
      BY <1>1, <3>1
  <2>2. QED
    BY <2>1
<1>9. Max(S) \in S
  BY <1>8 DEF Max
<1>10. QED
  BY <1>3, <1>9

LEMMA PresentKeys ==
  ASSUME NEW w, Typed(w)
  PROVE  /\ Present(w) \subseteq Keys /\ IsFiniteSet(Present(w))
         /\ \A k \in Keys : w.space[k] \in Nat
         /\ Present(w) # {} => w.space[Min(Present(w))] \in Nat /\ w.space[Max(Present(w))] \in Nat
<1>1. Present(w) \subseteq Keys
  BY DEF Present
<1>2. IsFiniteSet(Present(w))
  BY <1>1, TupleTypes, FS_Subset
<1>3. \A k \in Keys : w.space[k] \in Nat
  BY DEF Typed, SpaceOf
<1>4. Present(w) # {} => Min(Present(w)) \in Keys /\ Max(Present(w)) \in Keys
  BY <1>1, Extremes
<1>5. QED
  BY <1>1, <1>2, <1>3, <1>4

\* What the engine answers.
EngineGives(w, result) == Balanced(w, result.w, <<>>, <<>>) /\ result.tuple \in Nat

LEMMA EngineCounts ==
  ASSUME NEW w, Typed(w), NEW k \in Keys
  PROVE  /\ EngineGives(w, box_replace(w, k)) /\ EngineGives(w, box_insert(w, k)) /\ EngineGives(w, box_delete(w, k))
         /\ EngineGives(w, box_update(w, k)) /\ EngineGives(w, box_upsert(w, k)) /\ EngineGives(w, box_index_get(w, k))
<1>1. ASSUME NEW v, Balanced(w, v, <<>>, <<>>), NEW t \in Nat PROVE EngineGives(w, Ok(v, t))
  BY <1>1 DEF EngineGives, Ok
<1>2. NoTuple \in Nat /\ w.space[k] \in Nat /\ Len(w.key) + 1 \in Nat /\ Len(w.key) \in Nat
  BY PresentKeys, TupleTypes DEF Typed
<1>3. Balanced(w, w, <<>>, <<>>)
  BY <1>2, BalancedIs
<1>4. Balanced(w, Store(w, k), <<>>, <<>>)
  <2>1. /\ Typed(Store(w, k)) /\ Len(Store(w, k).key) = Len(w.key) + 1
        /\ \A t \in Tuples : Store(w, k).refs[t] - Has(Store(w, k).space, t) = w.refs[t] - Has(w.space, t)
    BY StoredIs
  <2>2. Len(Store(w, k).key) >= Len(w.key)
    BY <1>2, <2>1
  <2>3. QED
    BY <2>1, <2>2, BalancedIs
<1>5. Balanced(w, Erase(w, k), <<>>, <<>>)
  <2>1. /\ Typed(Erase(w, k)) /\ Erase(w, k).key = w.key
        /\ \A t \in Tuples : Erase(w, k).refs[t] - Has(Erase(w, k).space, t) = w.refs[t] - Has(w.space, t)
    BY ErasedIs
  <2>2. Len(Erase(w, k).key) >= Len(w.key)
    BY <1>2, <2>1
  <2>3. QED
    BY <2>1, <2>2, BalancedIs
<1>6. EngineGives(w, Refused(w))
  BY <1>2, RefusedIs DEF EngineGives
<1>7. EngineGives(w, box_replace(w, k))
  BY <1>1, <1>2, <1>4 DEF box_replace
<1>8. EngineGives(w, box_insert(w, k))
  BY <1>6, <1>7 DEF box_insert
<1>9. EngineGives(w, box_delete(w, k))
  BY <1>1, <1>2, <1>5 DEF box_delete
<1>10. EngineGives(w, box_update(w, k))
  BY <1>1, <1>2, <1>3, <1>7 DEF box_update
<1>11. EngineGives(w, box_upsert(w, k)) /\ EngineGives(w, box_index_get(w, k))
  BY <1>1, <1>2, <1>3, <1>4 DEF box_upsert, box_index_get
<1>12. QED
  BY <1>7, <1>8, <1>9, <1>10, <1>11

LEMMA IndexCounts ==
  ASSUME NEW w, Typed(w), NEW k
  PROVE  /\ EngineGives(w, box_index_min(w, k)) /\ EngineGives(w, box_index_max(w, k))
         /\ EngineGives(w, box_iterator_next(w))
<1>1. ASSUME NEW v, Balanced(w, v, <<>>, <<>>), NEW t \in Nat PROVE EngineGives(w, Ok(v, t))
  BY <1>1 DEF EngineGives, Ok
<1>2. NoTuple \in Nat /\ Len(w.key) \in Nat
  BY TupleTypes DEF Typed
<1>3. Balanced(w, w, <<>>, <<>>)
  BY <1>2, BalancedIs
<1>4. EngineGives(w, box_index_min(w, k))
  <2>1. PICK t : t = (IF Present(w) = {} THEN NoTuple ELSE w.space[Min(Present(w))])
    OBVIOUS
  <2>2. t \in Nat /\ box_index_min(w, k) = Ok(w, t)
    BY <1>2, <2>1, PresentKeys DEF box_index_min
  <2>3. QED
    BY <1>1, <1>3, <2>2
<1>5. EngineGives(w, box_index_max(w, k))
  <2>1. PICK t : t = (IF Present(w) = {} THEN NoTuple ELSE w.space[Max(Present(w))])
    OBVIOUS
  <2>2. t \in Nat /\ box_index_max(w, k) = Ok(w, t)
    BY <1>2, <2>1, PresentKeys DEF box_index_max
  <2>3. QED
    BY <1>1, <1>3, <2>2
<1>6. EngineGives(w, box_iterator_next(w))
  <2>1. PICK ahead : ahead = {k1 \in Present(w) : k1 > w.iterator}
    OBVIOUS
  <2>2. box_iterator_next(w) = IF ahead = {} THEN Ok(w, NoTuple)
                               ELSE Ok([w EXCEPT !.iterator = Min(ahead)], w.space[Min(ahead)])
    BY <2>1, Zenon DEF box_iterator_next
  <2>3. CASE ahead = {}
    BY <1>1, <1>2, <1>3, <2>2, <2>3
  <2>4. CASE ahead # {}
    <3>1. PICK v, t : v = [w EXCEPT !.iterator = Min(ahead)] /\ t = w.space[Min(ahead)]
      OBVIOUS
    <3>2. Min(ahead) \in Keys
      BY <2>1, <2>4, PresentKeys, Extremes
    <3>3. t \in Nat
      BY <3>1, <3>2, PresentKeys
    <3>4. DOMAIN v = BoxFields /\ v.space = w.space /\ v.refs = w.refs /\ v.key = w.key
      BY <3>1 DEF Typed, BoxFields
    <3>5. Typed(v) /\ Len(v.key) >= Len(w.key)
      BY <1>2, <3>4 DEF Typed
    <3>6. Balanced(w, v, <<>>, <<>>)
      BY <3>4, <3>5, BalancedIs
    <3>7. box_iterator_next(w) = Ok(v, t)
      BY <2>2, <2>4, <3>1, Zenon
    <3>8. QED
      BY <1>1, <3>3, <3>6, <3>7
  <2>5. QED
    BY <2>3, <2>4
<1>7. QED
  BY <1>4, <1>5, <1>6

-----------------------------------------------------------------------------
(* The handlers keep count: what they make of a task.  They give back what    *)
(* the task stands for and hand over what their output names.                 *)

Gives(w, h, back) ==
  \E over \in Seq(Nat) :
    /\ Balanced(w, h.w, back, over)
    /\ \/ h.output = {} /\ over = <<>>
       \/ \E o : h.output = {o} /\ OutputFits(o) /\ over = Handed(o)

LEMMA PlainGives ==
  ASSUME NEW w, NEW v, NEW back, Balanced(w, v, back, <<>>)
  PROVE  /\ Gives(w, Kept(v), back) /\ Gives(w, Crash(v), back) /\ Gives(w, storage_send_error(v), back)
         /\ \A of : \A kind \in {"iterator", "value", "buffer"} : Gives(w, Done(v, Output(kind, of)), back)
<1>1. <<>> \in Seq(Nat)
  OBVIOUS
<1>2. Gives(w, Kept(v), back) /\ Gives(w, Crash(v), back)
  BY <1>1 DEF Gives, Kept, Crash
<1>3. ASSUME NEW kind \in {"iterator", "value", "buffer", "event"}, NEW of
      PROVE  OutputFits(Output(kind, of)) /\ Handed(Output(kind, of)) = <<>>
  BY <1>3 DEF OutputFits, Handed, Output
<1>4. Gives(w, storage_send_error(v), back)
  <2>1. storage_send_error(v).output = {Output("event", <<v.diag>>)} /\ storage_send_error(v).w = v
    BY DEF storage_send_error
  <2>2. QED
    BY <1>1, <1>3, <2>1 DEF Gives
<1>5. ASSUME NEW kind \in {"iterator", "value", "buffer"}, NEW of
      PROVE  Gives(w, Done(v, Output(kind, of)), back)
  <2>1. Done(v, Output(kind, of)).output = {Output(kind, of)} /\ Done(v, Output(kind, of)).w = v
    BY DEF Done
  <2>2. QED
    BY <1>1, <1>3, <2>1 DEF Gives
<1>6. QED
  BY <1>2, <1>4, <1>5

\* A port, or one tuple, is handed over with a reference for each place.
LEMMA PortGives ==
  ASSUME NEW w, NEW v, NEW back, NEW port \in Seq(Nat), Balanced(w, v, back, port)
  PROVE  Gives(w, Done(v, Output("port", port)), back)
<1>1. OutputFits(Output("port", port)) /\ Handed(Output("port", port)) = port
  BY DEF OutputFits, Handed, Output
<1>2. Done(v, Output("port", port)).output = {Output("port", port)} /\ Done(v, Output("port", port)).w = v
  BY DEF Done
<1>3. QED
  BY <1>1, <1>2 DEF Gives

LEMMA SingleGives ==
  ASSUME NEW w, Typed(w), NEW result, EngineGives(w, result)
  PROVE  Gives(w, Single(result), <<>>)
<1>1. PICK v, u : v = result.w /\ u = result.tuple
  OBVIOUS
<1>2. Balanced(w, v, <<>>, <<>>) /\ u \in Nat
  BY <1>1 DEF EngineGives
<1>3. CASE ~result.ok
  BY <1>1, <1>2, <1>3, PlainGives DEF Single
<1>4. CASE result.ok /\ u = NoTuple
  BY <1>1, <1>2, <1>4, PlainGives DEF Single
<1>5. CASE result.ok /\ u # NoTuple
  <2>1. PICK x : x = Referred(v, u, 1)
    OBVIOUS
  <2>2. Typed(v) /\ Len(v.key) >= Len(w.key)
    BY <1>2 DEF Balanced
  <2>3. /\ Typed(x) /\ x.space = v.space /\ x.key = v.key
        /\ \A t \in Tuples : x.refs[t] = v.refs[t] + (IF t = u THEN 1 ELSE 0)
    BY <2>1, <2>2, ReferredIs
  <2>4. ASSUME NEW t \in Tuples
        PROVE  x.refs[t] - Has(x.space, t) - Cardinality(Places(<<u>>, t))
                 >= w.refs[t] - Has(w.space, t) - Cardinality(Places(<<>>, t))
    <3>1. /\ Cardinality(Places(<<u>>, t)) = IF u = t THEN 1 ELSE 0
          /\ Cardinality(Places(<<>>, t)) = 0
      BY PlacesOf
    <3>2. /\ v.refs[t] \in Int /\ w.refs[t] \in Int /\ Has(v.space, t) \in Int /\ Has(w.space, t) \in Int
      BY <2>2, HasType DEF Typed
    <3>3. v.refs[t] - Has(v.space, t) - 0 >= w.refs[t] - Has(w.space, t) - 0
      BY <1>2, <3>1 DEF Balanced
    <3>4. QED
      BY <2>3, <3>1, <3>2, <3>3
  <2>5. Balanced(w, x, <<>>, <<u>>)
    BY <2>2, <2>3, <2>4 DEF Balanced
  <2>6. Single(result) = Done(x, Output("tuple", <<u>>))
    BY <1>1, <1>5, <2>1 DEF Single
  <2>7. OutputFits(Output("tuple", <<u>>)) /\ Handed(Output("tuple", <<u>>)) = <<u>> /\ <<u>> \in Seq(Nat)
    BY <1>2 DEF OutputFits, Handed, Output
  <2>8. Done(x, Output("tuple", <<u>>)).output = {Output("tuple", <<u>>)} /\ Done(x, Output("tuple", <<u>>)).w = x
    BY DEF Done
  <2>9. QED
    BY <2>5, <2>6, <2>7, <2>8 DEF Gives
<1>6. QED
  BY <1>3, <1>4, <1>5

LEMMA SinglesGive ==
  ASSUME NEW w, Typed(w), NEW k \in Keys
  PROVE  /\ Gives(w, storage_space_put_single(w, k), <<>>) /\ Gives(w, storage_space_insert_single(w, k), <<>>)
         /\ Gives(w, storage_space_delete_single(w, k), <<>>) /\ Gives(w, storage_space_update_single(w, k), <<>>)
         /\ Gives(w, storage_space_upsert(w, k), <<>>) /\ Gives(w, storage_space_get(w, k), <<>>)
         /\ Gives(w, storage_index_get(w, k), <<>>) /\ Gives(w, storage_index_update_single(w, k), <<>>)
<1>1. \A result : EngineGives(w, result) => Gives(w, Single(result), <<>>)
  BY SingleGives
<1>2. QED
  BY <1>1, EngineCounts DEF storage_space_put_single, storage_space_insert_single,
     storage_space_delete_single, storage_space_update_single, storage_space_upsert, storage_space_get,
     storage_index_get, storage_index_update_single

LEMMA ExtremesGive ==
  ASSUME NEW w, Typed(w), NEW k
  PROVE  /\ Gives(w, storage_space_min(w, k), <<>>) /\ Gives(w, storage_space_max(w, k), <<>>)
         /\ Gives(w, storage_index_min(w, k), <<>>) /\ Gives(w, storage_index_max(w, k), <<>>)
<1>1. \A result : EngineGives(w, result) => Gives(w, Single(result), <<>>)
  BY SingleGives
<1>2. QED
  BY <1>1, IndexCounts DEF storage_space_min, storage_space_max, storage_index_min, storage_index_max

LEMMA RollbackIs ==
  ASSUME NEW w, Typed(w), NEW space, SpaceOf(space, Len(w.key))
  PROVE  /\ Typed(txn_rollback(w, space)) /\ txn_rollback(w, space).key = w.key
         /\ txn_rollback(w, space).space = space
         /\ \A t \in Tuples : txn_rollback(w, space).refs[t] - Has(space, t) = w.refs[t] - Has(w.space, t)
<1>1. PICK refs : refs = [t \in Tuples |-> w.refs[t] + Has(space, t) - Has(w.space, t)]
  OBVIOUS
<1>2. txn_rollback(w, space) = [w EXCEPT !.space = space, !.refs = refs]
  BY <1>1 DEF txn_rollback, Has
<1>3. PICK v : v = [w EXCEPT !.space = space, !.refs = refs]
  OBVIOUS
<1>4. DOMAIN v = BoxFields /\ v.space = space /\ v.refs = refs /\ v.key = w.key
  BY <1>3 DEF Typed, BoxFields
<1>5. \A t \in Tuples : w.refs[t] \in Int /\ Has(space, t) \in Int /\ Has(w.space, t) \in Int
  BY HasType DEF Typed
<1>6. /\ refs \in [Tuples -> Int]
      /\ \A t \in Tuples : refs[t] - Has(space, t) = w.refs[t] - Has(w.space, t)
  BY <1>1, <1>5
<1>7. Typed(v)
  BY <1>4, <1>6 DEF Typed
<1>8. QED
  BY <1>2, <1>3, <1>4, <1>6, <1>7

LEMMA PortIs ==
  ASSUME NEW w, Typed(w), NEW port \in Seq(Nat)
  PROVE  /\ Typed(Unported(w, port)) /\ Unported(w, port).key = w.key /\ Unported(w, port).space = w.space
         /\ Typed(Ported(w, port)) /\ Ported(w, port).key = w.key /\ Ported(w, port).space = w.space
         /\ \A t \in Tuples : /\ Unported(w, port).refs[t] = w.refs[t] - Cardinality(Places(port, t))
                              /\ Ported(w, port).refs[t] = w.refs[t] + Cardinality(Places(port, t))
<1>1. ASSUME NEW t \in Tuples PROVE Cardinality(Places(port, t)) \in Int /\ w.refs[t] \in Int
  BY PlacesFinite DEF Typed
<1>2. PICK less : less = [t \in Tuples |-> w.refs[t] - Cardinality(Places(port, t))]
  OBVIOUS
<1>3. PICK more : more = [t \in Tuples |-> w.refs[t] + Cardinality(Places(port, t))]
  OBVIOUS
<1>4. Unported(w, port) = [w EXCEPT !.refs = less] /\ Ported(w, port) = [w EXCEPT !.refs = more]
  BY <1>2, <1>3 DEF Unported, Ported
<1>5. ASSUME NEW refs, NEW v, v = [w EXCEPT !.refs = refs]
      PROVE  DOMAIN v = BoxFields /\ v.space = w.space /\ v.refs = refs /\ v.key = w.key
  BY <1>5 DEF Typed, BoxFields
<1>6. less \in [Tuples -> Int] /\ more \in [Tuples -> Int]
  BY <1>1, <1>2, <1>3
<1>7. ASSUME NEW refs \in [Tuples -> Int], NEW v, v = [w EXCEPT !.refs = refs]
      PROVE  Typed(v) /\ v.key = w.key /\ v.space = w.space /\ v.refs = refs
  BY <1>5, <1>7 DEF Typed
<1>8. PICK u, v : u = Unported(w, port) /\ v = Ported(w, port)
  OBVIOUS
<1>9. Typed(u) /\ u.key = w.key /\ u.space = w.space /\ u.refs = less
  BY <1>4, <1>6, <1>7, <1>8
<1>10. Typed(v) /\ v.key = w.key /\ v.space = w.space /\ v.refs = more
  BY <1>4, <1>6, <1>7, <1>8
<1>11. \A t \in Tuples : less[t] = w.refs[t] - Cardinality(Places(port, t))
  BY <1>2
<1>12. \A t \in Tuples : more[t] = w.refs[t] + Cardinality(Places(port, t))
  BY <1>3
<1>13. QED
  BY <1>8, <1>9, <1>10, <1>11, <1>12

\* Finitely many numbers can be put in order.
LEMMA OrderedKeys ==
  ASSUME NEW S, S \subseteq Keys
  PROVE  /\ Ordered(S) \in Seq(S) /\ Reverse(Ordered(S)) \in Seq(S)
<1>1. IsFiniteSet(S) /\ S \subseteq Int /\ Cardinality(S) \in Nat
  <2>1. IsFiniteSet(S)
    BY TupleTypes, FS_Subset
  <2>3. S \subseteq Int
    BY TupleTypes
  <2>2. QED
    BY <2>1, <2>3, FS_CardinalityType
<1> DEFINE B(k) == {j \in S : j < k}
<1>2. ASSUME NEW k \in S
      PROVE  IsFiniteSet(B(k)) /\ Cardinality(B(k)) \in Nat /\ Cardinality(B(k)) + 1 <= Cardinality(S)
  <2>1. IsFiniteSet(B(k)) /\ Cardinality(B(k)) \in Nat /\ k \notin B(k)
    BY <1>1, FS_Subset, FS_CardinalityType
  <2>2. PICK b : b = B(k)
    OBVIOUS
  <2>3. IsFiniteSet(b \cup {k}) /\ Cardinality(b \cup {k}) = Cardinality(b) + 1
    BY <2>1, <2>2, FS_AddElement
  <2>4. b \cup {k} \subseteq S
    BY <2>2
  <2>5. Cardinality(b \cup {k}) <= Cardinality(S)
    BY <1>1, <2>4, FS_Subset
  <2>6. QED
    BY <2>1, <2>2, <2>3, <2>5
<1>3. ASSUME NEW j \in S, NEW k \in S, j < k PROVE Cardinality(B(j)) < Cardinality(B(k))
  <2>1. PICK a, b : a = B(j) /\ b = B(k)
    OBVIOUS
  <2>2. a \cup {j} \subseteq b /\ j \notin a
    <3>1. \A x \in S : x \in Int
      BY <1>1
    <3>2. \A x \in S : x < j => x < k
      BY <1>3, <3>1
    <3>3. ~(j < j)
      BY <3>1
    <3>4. QED
      BY <1>3, <2>1, <3>2, <3>3
  <2>3. IsFiniteSet(a) /\ IsFiniteSet(b) /\ Cardinality(a) \in Nat /\ Cardinality(b) \in Nat
    BY <1>2, <2>1
  <2>4. Cardinality(a \cup {j}) = Cardinality(a) + 1
    BY <2>2, <2>3, FS_AddElement
  <2>5. Cardinality(a \cup {j}) <= Cardinality(b)
    BY <2>2, <2>3, FS_Subset
  <2>6. QED
    BY <2>1, <2>3, <2>4, <2>5
<1>4. PICK n : n = Cardinality(S)
  OBVIOUS
<1>5. PICK f : f = [k \in S |-> Cardinality(B(k)) + 1]
  OBVIOUS
<1>6. f \in [S -> 1 .. n] /\ \A k \in S : f[k] = Cardinality(B(k)) + 1
  <2>1. \A k \in S : Cardinality(B(k)) + 1 \in 1 .. n
    BY <1>1, <1>2, <1>4
  <2> HIDE DEF B
  <2>2. QED
    BY <1>5, <2>1
<1>7. \A j, k \in S : f[j] = f[k] => j = k
  <2>1. ASSUME NEW j \in S, NEW k \in S, f[j] = f[k] PROVE j = k
    <3>1. j \in Int /\ k \in Int
      BY <1>1
    <3>2. PICK x, y : x = Cardinality(B(j)) /\ y = Cardinality(B(k))
      OBVIOUS
    <3>3. x \in Nat /\ y \in Nat /\ f[j] = x + 1 /\ f[k] = y + 1
      BY <1>2, <1>6, <3>2
    <3>4. x = y
      <4>1. x + 1 = y + 1
        BY <2>1, <3>3, Zenon
      <4>2. QED
        BY <3>3, <4>1
    <3>5. j < k => x < y
      BY <1>3, <3>2
    <3>6. k < j => y < x
      BY <1>3, <3>2
    <3>7. ~(j < k) /\ ~(k < j)
      BY <3>3, <3>4, <3>5, <3>6
    <3>8. QED
      BY <3>1, <3>7
  <2>2. QED
    BY <2>1
<1>8. f \in Injection(S, 1 .. n)
  BY <1>6, <1>7 DEF Injection, IsInjective
<1>9. f \in Surjection(S, 1 .. n)
  <2>1. IsFiniteSet(1 .. n) /\ Cardinality(1 .. n) = n
    BY <1>1, <1>4, FS_Interval
  <2>2. QED
    BY <1>4, <1>8, <2>1, FS_Injection
<1>10. \A i \in 1 .. n : \E k \in S : Cardinality(B(k)) = i - 1
  <2>1. ASSUME NEW i \in 1 .. n PROVE \E k \in S : Cardinality(B(k)) = i - 1
    <3>1. PICK k \in S : f[k] = i
      BY <1>9 DEF Surjection
    <3>2. Cardinality(B(k)) + 1 = i /\ Cardinality(B(k)) \in Nat
      BY <1>2, <1>6, <3>1
    <3>3. QED
      BY <3>2
  <2>2. QED
    BY <2>1
<1>11. Ordered(S) = [i \in 1 .. n |-> CHOOSE k \in S : Cardinality(B(k)) = i - 1]
  BY <1>4 DEF Ordered
<1>12. Ordered(S) \in Seq(S)
  <2>1. \A i \in 1 .. n : (CHOOSE k \in S : Cardinality(B(k)) = i - 1) \in S
    BY <1>10
  <2> HIDE DEF B
  <2>2. Ordered(S) \in [1 .. n -> S]
    BY <1>11, <2>1
  <2>3. QED
    BY <1>1, <1>4, <2>2
<1>13. Reverse(Ordered(S)) \in Seq(S)
  BY <1>12 DEF Reverse
<1>14. QED
  BY <1>12, <1>13

\* What counts in the engine: the space and the references.
SameCounts(w, v) == DOMAIN v = BoxFields /\ v.space = w.space /\ v.refs = w.refs /\ v.key = w.key

LEMMA SameIsBalanced ==
  ASSUME NEW w, Typed(w), NEW v, SameCounts(w, v)
  PROVE  Typed(v) /\ Balanced(w, v, <<>>, <<>>)
<1>1. Typed(v) /\ Len(v.key) \in Nat /\ Len(v.key) = Len(w.key)
  BY DEF Typed, SameCounts
<1>2. v.space = w.space /\ v.refs = w.refs /\ Len(v.key) >= Len(w.key)
  BY <1>1 DEF SameCounts
<1>3. QED
  BY <1>1, <1>2, BalancedIs

LEMMA FieldsKept ==
  ASSUME NEW w, Typed(w), NEW x
  PROVE  /\ SameCounts(w, w) /\ SameCounts(w, [w EXCEPT !.diag = x])
         /\ SameCounts(w, [w EXCEPT !.iterator = x]) /\ SameCounts(w, [w EXCEPT !.buffers = x])
  BY DEF Typed, SameCounts, BoxFields

LEMMA LaterCounts ==
  ASSUME NEW w, Typed(w)
  PROVE  SameCounts(w, Later(w))
<1>1. PICK x : x = IF w.diag = "own" THEN "old" ELSE w.diag
  OBVIOUS
<1>2. Later(w) = [w EXCEPT !.diag = x]
  BY <1>1 DEF Later
<1>3. PICK v : v = [w EXCEPT !.diag = x]
  OBVIOUS
<1>4. DOMAIN v = BoxFields /\ v.space = w.space /\ v.refs = w.refs /\ v.key = w.key
  BY <1>3 DEF Typed, BoxFields
<1>5. QED
  BY <1>2, <1>3, <1>4 DEF SameCounts

LEMMA SelectsGive ==
  ASSUME NEW w, Typed(w)
  PROVE  Gives(w, storage_space_select(w), <<>>) /\ Gives(w, storage_index_select(w), <<>>)
<1>1. ASSUME NEW keys \in Seq(Present(w)) PROVE Gives(w, Selected(w, keys), <<>>)
  <2>1. PICK port : port = [i \in DOMAIN keys |-> w.space[keys[i]]]
    OBVIOUS
  <2>2. port \in Seq(Nat)
    <3>1. \A i \in 1 .. Len(keys) : w.space[keys[i]] \in Nat
      BY PresentKeys
    <3>2. DOMAIN keys = 1 .. Len(keys) /\ Len(keys) \in Nat
      OBVIOUS
    <3>3. port \in [1 .. Len(keys) -> Nat]
      BY <2>1, <3>1, <3>2
    <3>4. QED
      BY <3>2, <3>3
  <2>3. PICK v : v = Ported(w, port)
    OBVIOUS
  <2>4. /\ Typed(v) /\ v.key = w.key /\ v.space = w.space
        /\ \A t \in Tuples : v.refs[t] = w.refs[t] + Cardinality(Places(port, t))
    BY <2>2, <2>3, PortIs
  <2>5. ASSUME NEW t \in Tuples
        PROVE  v.refs[t] - Has(v.space, t) - Cardinality(Places(port, t))
                 >= w.refs[t] - Has(w.space, t) - Cardinality(Places(<<>>, t))
    <3>1. /\ w.refs[t] \in Int /\ Has(w.space, t) \in Int /\ Cardinality(Places(port, t)) \in Int
          /\ Cardinality(Places(<<>>, t)) = 0
      BY <2>2, PlacesFinite, PlacesOf, HasType DEF Typed
    <3>2. QED
      BY <2>4, <3>1
  <2>6. Len(v.key) >= Len(w.key)
    BY <2>4 DEF Typed
  <2>7. Balanced(w, v, <<>>, port)
    BY <2>4, <2>5, <2>6 DEF Balanced
  <2>8. Selected(w, keys) = Done(v, Output("port", port))
    BY <2>1, <2>3 DEF Selected
  <2>9. QED
    BY <2>2, <2>7, <2>8, PortGives
<1>2. Ordered(Present(w)) \in Seq(Present(w)) /\ Reverse(Ordered(Present(w))) \in Seq(Present(w))
  BY PresentKeys, OrderedKeys
<1>3. QED
  BY <1>1, <1>2 DEF storage_space_select, storage_index_select

LEMMA IteratorsGive ==
  ASSUME NEW w, Typed(w), NEW fault
  PROVE  /\ Gives(w, storage_space_iterator(w, fault), <<>>) /\ Gives(w, storage_index_iterator(w, fault), <<>>)
         /\ Gives(w, storage_iterator_next_single(w), <<>>) /\ Gives(w, storage_iterator_destroy(w), <<>>)
<1>1. Gives(w, Opened(w, fault), <<>>)
  <2>1. PICK v : v = IF fault = "engine" THEN [Refused(w).w EXCEPT !.iterator = -1] ELSE [w EXCEPT !.iterator = 0]
    OBVIOUS
  <2>2. SameCounts(w, v)
    <3>1. PICK x : x = Refused(w).w
      OBVIOUS
    <3>2. Typed(x) /\ SameCounts(w, x)
      BY <3>1, RefusedIs, FieldsKept DEF Refused
    <3>3. SameCounts(x, [x EXCEPT !.iterator = -1]) /\ SameCounts(w, [w EXCEPT !.iterator = 0])
      BY <3>2, FieldsKept
    <3>4. SameCounts(w, [x EXCEPT !.iterator = -1])
      BY <3>2, <3>3 DEF SameCounts
    <3>5. QED
      BY <2>1, <3>1, <3>3, <3>4
  <2>3. Opened(w, fault) = Done(v, Output("iterator", <<>>))
    BY <2>1 DEF Opened
  <2>4. QED
    BY <2>2, <2>3, SameIsBalanced, PlainGives
<1>2. Gives(w, storage_iterator_next_single(w), <<>>)
  <2>1. PICK result : result = box_iterator_next(w)
    OBVIOUS
  <2>2. EngineGives(w, result)
    BY <2>1, IndexCounts
  <2>3. Balanced(w, w, <<>>, <<>>)
    BY FieldsKept, SameIsBalanced
  <2>4. storage_iterator_next_single(w) \in {Crash(w), storage_send_error(result.w), Single(result)}
    BY <2>1 DEF storage_iterator_next_single
  <2>5. Gives(w, Crash(w), <<>>) /\ Gives(w, storage_send_error(result.w), <<>>) /\ Gives(w, Single(result), <<>>)
    BY <2>2, <2>3, PlainGives, SingleGives DEF EngineGives
  <2>6. QED
    BY <2>4, <2>5
<1>3. Gives(w, storage_iterator_destroy(w), <<>>)
  BY FieldsKept, SameIsBalanced, PlainGives DEF storage_iterator_destroy
<1>4. QED
  BY <1>1, <1>2, <1>3 DEF storage_space_iterator, storage_index_iterator

LEMMA ValuesGive ==
  ASSUME NEW w, Typed(w)
  PROVE  /\ Gives(w, storage_space_count(w), <<>>) /\ Gives(w, storage_space_length(w), <<>>)
         /\ Gives(w, storage_index_count(w), <<>>) /\ Gives(w, storage_index_length(w), <<>>)
         /\ Gives(w, storage_space_id_by_name(w), <<>>) /\ Gives(w, storage_index_id_by_name(w), <<>>)
         /\ Gives(w, storage_evaluate(w), <<>>) /\ Gives(w, storage_call(w), <<>>)
         /\ Gives(w, storage_free_output_buffer(w), <<>>)
<1>1. Balanced(w, w, <<>>, <<>>)
  BY FieldsKept, SameIsBalanced
<1>2. \A n : Balanced(w, [w EXCEPT !.buffers = n], <<>>, <<>>)
  BY FieldsKept, SameIsBalanced
<1>3. ASSUME NEW v, Balanced(w, v, <<>>, <<>>), NEW of
      PROVE  /\ Gives(w, Done(v, Output("value", of)), <<>>) /\ Gives(w, Done(v, Output("buffer", of)), <<>>)
             /\ Gives(w, Kept(v), <<>>)
  BY <1>3, PlainGives
<1>4. /\ Gives(w, storage_space_count(w), <<>>) /\ Gives(w, storage_space_length(w), <<>>)
      /\ Gives(w, storage_index_count(w), <<>>) /\ Gives(w, storage_index_length(w), <<>>)
      /\ Gives(w, storage_space_id_by_name(w), <<>>) /\ Gives(w, storage_index_id_by_name(w), <<>>)
  BY <1>1, <1>3 DEF storage_space_count, storage_space_length, storage_index_count, storage_index_length,
     storage_space_id_by_name, storage_index_id_by_name
<1>5. Gives(w, storage_evaluate(w), <<>>) /\ Gives(w, storage_call(w), <<>>)
  BY <1>2, <1>3 DEF storage_evaluate, storage_call
<1>6. Gives(w, storage_free_output_buffer(w), <<>>)
  BY <1>2, <1>3 DEF storage_free_output_buffer
<1>7. QED
  BY <1>4, <1>5, <1>6

LEMMA FreesGive ==
  ASSUME NEW w, Typed(w), NEW keys \in Seq(Nat)
  PROVE  /\ Gives(w, storage_free_output_port(w, keys), keys)
         /\ keys # <<>> => Gives(w, storage_free_output_tuple(w, Head(keys)), keys)
         /\ Gives(w, storage_space_truncate(w), <<>>)
<1>1. \A t \in Tuples : /\ w.refs[t] \in Int /\ Has(w.space, t) \in Int /\ Cardinality(Places(keys, t)) \in Int
                        /\ Cardinality(Places(<<>>, t)) = 0
  BY PlacesFinite, PlacesOf, HasType DEF Typed
<1>2. Gives(w, storage_free_output_port(w, keys), keys)
  <2>1. PICK v : v = Unported(w, keys)
    OBVIOUS
  <2>2. /\ Typed(v) /\ v.key = w.key /\ v.space = w.space
        /\ \A t \in Tuples : v.refs[t] = w.refs[t] - Cardinality(Places(keys, t))
    BY <2>1, PortIs
  <2>3. \A t \in Tuples : v.refs[t] - Has(v.space, t) - Cardinality(Places(<<>>, t))
                            >= w.refs[t] - Has(w.space, t) - Cardinality(Places(keys, t))
    BY <1>1, <2>2
  <2>4. Len(v.key) >= Len(w.key)
    BY <2>2 DEF Typed
  <2>5. Balanced(w, v, keys, <<>>)
    BY <2>2, <2>3, <2>4 DEF Balanced
  <2>6. QED
    BY <2>1, <2>5, PlainGives DEF storage_free_output_port
<1>3. ASSUME keys # <<>> PROVE Gives(w, storage_free_output_tuple(w, Head(keys)), keys)
  <2>1. PICK k, v : k = Head(keys) /\ v = Referred(w, k, -1)
    OBVIOUS
  <2>2. /\ Typed(v) /\ v.key = w.key /\ v.space = w.space
        /\ \A t \in Tuples : v.refs[t] = w.refs[t] + (IF t = k THEN -1 ELSE 0)
    BY <2>1, ReferredIs
  <2>3. ASSUME NEW t \in Tuples
        PROVE  v.refs[t] - Has(v.space, t) - Cardinality(Places(<<>>, t))
                 >= w.refs[t] - Has(w.space, t) - Cardinality(Places(keys, t))
    <3>1. Cardinality(Places(keys, t)) >= (IF k = t THEN 1 ELSE 0)
      BY <1>3, <2>1, PlacesHead
    <3>2. QED
      BY <1>1, <2>2, <3>1
  <2>4. Len(v.key) >= Len(w.key)
    BY <2>2 DEF Typed
  <2>5. Balanced(w, v, keys, <<>>)
    BY <2>2, <2>3, <2>4 DEF Balanced
  <2>6. QED
    BY <2>1, <2>5, PlainGives DEF storage_free_output_tuple
<1>4. Gives(w, storage_space_truncate(w), <<>>)
  <2>1. PICK space : space = [k \in Keys |-> NoTuple]
    OBVIOUS
  <2>2. SpaceOf(space, Len(w.key))
    BY <2>1, TupleTypes DEF SpaceOf, Typed
  <2>3. PICK v : v = txn_rollback(w, space)
    OBVIOUS
  <2>4. /\ Typed(v) /\ v.key = w.key /\ v.space = space
        /\ \A t \in Tuples : v.refs[t] - Has(space, t) = w.refs[t] - Has(w.space, t)
    BY <2>2, <2>3, RollbackIs
  <2>5. Len(v.key) >= Len(w.key)
    BY <2>4 DEF Typed
  <2>6. Balanced(w, v, <<>>, <<>>)
    BY <2>4, <2>5, BalancedIs
  <2>7. QED
    BY <2>1, <2>3, <2>6, PlainGives DEF storage_space_truncate
<1>5. QED
  BY <1>2, <1>3, <1>4

LEMMA HandleGives ==
  ASSUME NEW w, Typed(w), NEW op \in Calls \ ManyCalls, NEW keys, KeysFit(op, keys), NEW fault
  PROVE  Gives(w, Handle(w, op, keys, fault), Given(op, keys))
<1>1. PICK k : k = Head(keys)
  OBVIOUS
<1>2. CASE op = "misread" \/ Refuses(op, fault)
  <2>1. Handle(w, op, keys, fault) \in
          {Kept(w), Kept(Refused(w).w), Crash(w), storage_send_error(Refused(w).w),
           Done(Refused(w).w, Output("value", <<-1>>))}
    BY <1>2, RefusedCalls
  <2>2. Given(op, keys) = <<>>
    BY <1>2 DEF Given, Refuses, TupleCalls, LuaCalls, ValueCalls, UndefinedCalls
  <2>3. PICK v : v = Refused(w).w
    OBVIOUS
  <2>4. Balanced(w, v, <<>>, <<>>) /\ Balanced(w, w, <<>>, <<>>)
    <3>1. SameCounts(w, w)
      BY DEF SameCounts, Typed
    <3>2. Balanced(w, w, <<>>, <<>>)
      BY <3>1, SameIsBalanced
    <3>3. QED
      BY <2>3, <3>2, RefusedIs
  <2>5. /\ Gives(w, Kept(w), <<>>) /\ Gives(w, Kept(v), <<>>) /\ Gives(w, Crash(w), <<>>)
        /\ Gives(w, storage_send_error(v), <<>>)
        /\ Gives(w, Done(v, Output("value", <<-1>>)), <<>>)
    BY <2>4, PlainGives
  <2>6. QED
    BY <2>1, <2>2, <2>3, <2>5
<1>3. CASE op # "misread" /\ ~Refuses(op, fault)
  <2>1. op \in {"put", "insert", "delete", "get", "update", "upsert", "index_get", "index_update"} \union
               {"min", "max", "index_min", "index_max"} \union
               {"count", "length", "index_count", "index_length", "id_by_name", "index_id_by_name"} \union
               {"evaluate", "call", "free_buffer"} \union {"truncate", "free_port", "free_tuple"} \union
               {"select", "index_select", "iterator", "index_iterator", "next", "destroy"}
    BY <1>3 DEF Calls, ManyCalls, SpaceCalls, IndexCalls, UpdateCalls, IndexUpdateCalls, OtherCalls,
       ValueCalls, LuaCalls
  <2>2. CASE op \in {"put", "insert", "delete", "get", "update", "upsert", "index_get", "index_update"}
    <3>1. op \in KeyCalls /\ op \notin FreeCalls /\ Given(op, keys) = <<>>
      BY <2>2 DEF KeyCalls, TupleCalls, FreeCalls, Given
    <3>2. keys \in Seq(Keys) /\ keys # <<>>
      BY <3>1 DEF KeysFit
    <3>3. k \in Keys
      BY <1>1, <3>2
    <3>4. CASE op \in {"put", "insert", "delete", "get"}
      BY <1>1, <1>3, <3>1, <3>3, <3>4, SinglesGive DEF Handle
    <3>5. CASE op \in {"update", "upsert", "index_get", "index_update"}
      BY <1>1, <1>3, <3>1, <3>3, <3>5, SinglesGive DEF Handle
    <3>6. QED
      BY <2>2, <3>4, <3>5
  <2>3. CASE op \in {"min", "max", "index_min", "index_max"}
    BY <1>1, <1>3, <2>3, ExtremesGive DEF Handle, Given
  <2>4. CASE op \in {"count", "length", "index_count", "index_length", "id_by_name", "index_id_by_name"}
    BY <1>1, <1>3, <2>4, ValuesGive DEF Handle, Given
  <2>5. CASE op \in {"evaluate", "call", "free_buffer"}
    BY <1>1, <1>3, <2>5, ValuesGive DEF Handle, Given
  <2>6. CASE op \in {"truncate", "free_port", "free_tuple"}
    <3>1. keys \in Seq(Nat) /\ op = "free_tuple" => keys # <<>>
      BY DEF KeysFit
    <3>2. keys \in Seq(Nat)
      BY DEF KeysFit
    <3>3. QED
      BY <1>1, <1>3, <2>6, <3>1, <3>2, FreesGive DEF Handle, Given
  <2>7. CASE op \in {"select", "index_select", "iterator", "index_iterator", "next", "destroy"}
    BY <1>1, <1>3, <2>7, SelectsGive, IteratorsGive DEF Handle, Given
  <2>8. QED
    BY <2>1, <2>2, <2>3, <2>4, <2>5, <2>6, <2>7
<1>4. QED
  BY <1>2, <1>3

-----------------------------------------------------------------------------
(* The steps keep count. *)

Refs == Typed(box) /\ KeysPart /\ OutputPart /\ UndoPart /\ HeldPart /\ CountPart

LEMMA TroubleStays ==
  ASSUME [Next]_vars, Calm'
  PROVE  Calm
<1>1. trouble \subseteq trouble'
  <2>1. CASE CallPlain \/ CallMany \/ CallIterator \/ FreeBuffer \/ FreePort \/ FreeTuple
    <3>1. \E op, keys, holding : Call(op, keys, holding)
      BY <2>1 DEF CallPlain, CallMany, CallIterator, FreeBuffer, FreePort, FreeTuple
    <3>2. QED
      BY <3>1 DEF Call
  <2>2. ASSUME NEW kind, Extend(kind) PROVE trouble \subseteq trouble'
    BY <2>2 DEF Extend
  <2>3. ASSUME NEW r, Complete(r) PROVE trouble \subseteq trouble'
    <3>1. \/ UNCHANGED trouble
          \/ trouble' = trouble \union (IF request[r].op \in TupleCalls /\ ~request[r].fresh /\ request[r].output.kind # "none"
                                        THEN {"stale"} ELSE {})
      BY <2>3 DEF Complete
    <3>2. QED
      BY <3>1
  <2>4. ASSUME NEW result, Return(result) PROVE trouble \subseteq trouble'
    BY <2>4 DEF Return
  <2>5. ASSUME NEW fault, Execute(fault) \/ Item(fault) \/ Commit(fault) PROVE trouble \subseteq trouble'
    <3>1. (\E result : Return(result)) \/ \E t : trouble' = IF releasing # <<>> /\ releasing[1] = t
                                                            THEN trouble \union {"race"} ELSE trouble
      BY <2>5 DEF Execute, Item, Commit
    <3>2. QED
      BY <2>4, <3>1
  <2>6. CASE Submit \/ Begin \/ ReleaseRead \/ ReleaseWrite \/ UNCHANGED vars
    BY <2>6 DEF Submit, Begin, ReleaseRead, ReleaseWrite, vars
  <2>7. QED
    BY <2>1, <2>2, <2>3, <2>5, <2>6 DEF Next, Serve
<1>2. QED
  BY <1>1 DEF Calm

LEMMA LoadType ==
  ASSUME BoxInv, Refs
  PROVE  /\ DOMAIN Loads = DOMAIN request /\ \A r \in DOMAIN request : Loads[r] = Load(r) /\ Load(r) \in Seq(Nat)
         /\ Undoing \in Seq(Nat)
<1>1. ASSUME NEW r \in DOMAIN request PROVE Load(r) \in Seq(Nat)
  <2>1. r \in Range(queue) => request[r].keys \in Seq(Nat)
    BY DEF Refs, KeysPart, KeysFit
  <2>2. request[r].output.kind \in {"tuple", "port"} => request[r].output.of \in Seq(Nat)
    BY DEF Refs, OutputPart, OutputFits
  <2>3. <<>> \in Seq(Nat)
    OBVIOUS
  <2>4. QED
    BY <2>1, <2>2, <2>3 DEF Load, Given, Handed
<1>2. Undoing \in Seq(Nat)
  BY DEF Undoing, Refs, UndoPart
<1>3. QED
  BY <1>1, <1>2 DEF Loads

\* Families with the same tuples.
LEMMA NothingChanges ==
  ASSUME NEW f, NEW g, NEW t,
         \A x \in DOMAIN f : x \in DOMAIN g /\ g[x] = f[x],
         \A x \in DOMAIN g : x \notin DOMAIN f => g[x] = <<>>
  PROVE  Everywhere(g, t) = Everywhere(f, t)
<1>1. ASSUME NEW p \in Everywhere(f, t) PROVE p \in Everywhere(g, t)
  BY <1>1 DEF Everywhere
<1>2. ASSUME NEW p \in Everywhere(g, t) PROVE p \in Everywhere(f, t)
  <2>1. p \in (DOMAIN g) \X Nat /\ p[2] \in DOMAIN g[p[1]] /\ g[p[1]][p[2]] = t
    BY <1>2 DEF Everywhere
  <2>2. p[1] \in DOMAIN f
    BY <2>1
  <2>3. QED
    BY <2>1, <2>2 DEF Everywhere
<1>3. QED
  BY <1>1, <1>2

\* The numbers that add up.
LEMMA CountTypes ==
  ASSUME BoxInv, Refs, NEW t \in Tuples
  PROVE  /\ box.refs[t] \in Int /\ Has(box.space, t) \in Int /\ held.tuples[t] \in Nat
         /\ IsFiniteSet(Everywhere(held.ports, t)) /\ Cardinality(Everywhere(held.ports, t)) \in Nat
         /\ IsFiniteSet(Everywhere(Loads, t)) /\ Cardinality(Everywhere(Loads, t)) \in Nat
         /\ Cardinality(Places(Undoing, t)) \in Nat /\ Releases(t) \in {0, 1}
         /\ box.refs[t] >= Has(box.space, t) + held.tuples[t] + Cardinality(Everywhere(held.ports, t))
                           + Cardinality(Everywhere(Loads, t)) + Cardinality(Places(Undoing, t)) + Releases(t)
<1>1. box.refs[t] \in Int /\ Has(box.space, t) \in Int
  BY HasType DEF Refs, Typed
<1>2. held.tuples[t] \in Nat /\ Releases(t) \in {0, 1}
  BY DEF Refs, HeldPart, Releases
<1>3. /\ IsFiniteSet(Everywhere(held.ports, t)) /\ IsFiniteSet(Everywhere(Loads, t))
      /\ box.refs[t] >= Has(box.space, t) + held.tuples[t] + Cardinality(Everywhere(held.ports, t))
                        + Cardinality(Everywhere(Loads, t)) + Cardinality(Places(Undoing, t)) + Releases(t)
  BY DEF Refs, CountPart
<1>4. Cardinality(Everywhere(held.ports, t)) \in Nat /\ Cardinality(Everywhere(Loads, t)) \in Nat
  BY <1>3, FS_CardinalityType
<1>5. Cardinality(Places(Undoing, t)) \in Nat
  BY LoadType, PlacesFinite
<1>6. QED
  BY <1>1, <1>2, <1>3, <1>4, <1>5

\* A call loads its request with what it frees.
LEMMA CallLoads ==
  ASSUME BoxInv, Refs, Calm', NEW op \in Calls, NEW keys, KeysFit(op, keys), NEW holding, Call(op, keys, holding)
  PROVE  /\ KeysPart' /\ OutputPart' /\ UndoPart' /\ UNCHANGED <<box, batch, releasing>> /\ held' = holding
         /\ \A t \in Tuples :
              /\ IsFiniteSet(Everywhere(Loads, t)')
              /\ Cardinality(Everywhere(Loads, t)') =
                   Cardinality(Everywhere(Loads, t)) + Cardinality(Places(Given(op, keys), t))
<1>1. PICK kind, r : kind \in Kinds /\ Filled(kind, r)
  BY CallIs
<1>2. UNCHANGED <<box, batch, releasing>> /\ held' = holding
  BY DEF Call
<1>3. "shared" \notin trouble' /\ "shared" \notin trouble /\ (r \in DOMAIN request => ~UnderWay(r))
  BY <1>1 DEF Filled, Calm
<1>4. /\ queue \in Seq(DOMAIN request) /\ queue' = Append(queue, r) /\ r \in DOMAIN request'
      /\ DOMAIN request \subseteq DOMAIN request'
      /\ \A q \in DOMAIN request : q # r => request'[q] = request[q]
      /\ \A q \in DOMAIN request' : q \in DOMAIN request \/ q = r \/ request'[q] = Blank
  BY <1>1 DEF BoxInv, TaskPart, Filled, Took
<1>5. request'[r].op = op /\ request'[r].keys = keys /\ request'[r].fresh = FALSE /\ OutputFits(request'[r].output)
  <2>1. PICK x, old, sent :
          /\ old = (IF x \in DOMAIN request THEN request[x] ELSE Blank)
          /\ sent = [old EXCEPT !.at = "sent", !.op = op, !.keys = keys, !.fresh = FALSE]
          /\ x \in DOMAIN request' /\ request'[x] = sent /\ queue' = Append(queue, x)
    BY DEF Call
  <2>2. x = r
    <3>1. PICK s \in Seq(DOMAIN request') : s = queue
      BY <1>4, SeqGrows
    <3>2. Append(s, x) = Append(s, r) /\ x \in DOMAIN request' /\ r \in DOMAIN request'
      BY <1>4, <2>1, <3>1
    <3>3. Append(s, x)[Len(s) + 1] = x /\ Append(s, r)[Len(s) + 1] = r
      BY <3>2
    <3>4. QED
      BY <3>2, <3>3
  <2>3. DOMAIN old = TaskFields /\ OutputFits(old.output)
    <3>1. CASE x \in DOMAIN request
      BY <2>1, <3>1 DEF BoxInv, TaskPart, Refs, OutputPart
    <3>2. CASE x \notin DOMAIN request
      BY <2>1, <3>2 DEF Blank, TaskFields, OutputFits, NoOutput, Output
    <3>3. QED
      BY <3>1, <3>2
  <2>4. sent.op = op /\ sent.keys = keys /\ sent.fresh = FALSE /\ sent.output = old.output
    BY <2>1, <2>3 DEF TaskFields
  <2>5. QED
    BY <2>1, <2>2, <2>3, <2>4
<1>6. r \notin Range(queue)
  <2>1. ASSUME r \in Range(queue) PROVE FALSE
    <3>1. PICK i \in DOMAIN queue : r = queue[i]
      BY <2>1 DEF Range
    <3>2. request[r].at = "sent" /\ r \in DOMAIN request
      BY <1>4, <3>1 DEF BoxInv, TaskPart
    <3>3. QED
      BY <1>3, <3>2 DEF UnderWay
  <2>2. QED
    BY <2>1
<1>7. \A q : q \in Range(queue') <=> q \in Range(queue) \/ q = r
  <2>1. PICK s \in Seq(DOMAIN request') : s = queue
    BY <1>4, SeqGrows
  <2>2. /\ DOMAIN Append(s, r) = 1 .. Len(s) + 1 /\ DOMAIN s = 1 .. Len(s) /\ Len(s) \in Nat
        /\ \A i \in 1 .. Len(s) : Append(s, r)[i] = s[i]
        /\ Append(s, r)[Len(s) + 1] = r
    BY <1>4
  <2>3. ASSUME NEW q \in Range(Append(s, r)) PROVE q \in Range(s) \/ q = r
    BY <2>2 DEF Range
  <2>4. ASSUME NEW q \in Range(s) PROVE q \in Range(Append(s, r))
    BY <2>2 DEF Range
  <2>5. r \in Range(Append(s, r))
    BY <2>2 DEF Range
  <2>6. QED
    BY <1>4, <2>1, <2>3, <2>4, <2>5
<1>8. \A q \in Range(queue) : q \in DOMAIN request
  BY <1>4 DEF Range
<1>9. KeysPart'
  <2>1. ASSUME NEW q \in Range(queue') PROVE request'[q].fresh = FALSE /\ KeysFit(request'[q].op, request'[q].keys)
    <3>1. CASE q = r
      BY <1>5, <3>1
    <3>2. CASE q # r
      BY <1>4, <1>7, <1>8, <3>2 DEF Refs, KeysPart
    <3>3. QED
      BY <3>1, <3>2
  <2>2. QED
    BY <2>1 DEF KeysPart
<1>10. OutputPart'
  <2>1. OutputFits(Blank.output)
    BY DEF OutputFits, Blank, NoOutput, Output
  <2>2. ASSUME NEW q \in DOMAIN request' PROVE OutputFits(request'[q].output)
    BY <1>4, <1>5, <2>1 DEF Refs, OutputPart
  <2>3. QED
    BY <2>2 DEF OutputPart
<1>11. UndoPart'
  BY <1>2 DEF Refs, UndoPart
<1>12. PICK f, g : f = Loads /\ g = Loads'
  OBVIOUS
<1>13. DOMAIN f = DOMAIN request /\ DOMAIN g = DOMAIN request' /\ \A q \in DOMAIN request' : g[q] = Load(q)'
  BY <1>12 DEF Loads
<1>14. ASSUME NEW q \in DOMAIN request, q # r PROVE g[q] = f[q]
  <2>1. Load(q)' = Load(q)
    BY <1>4, <1>7, <1>14 DEF Load, UnderWay
  <2>2. QED
    BY <1>4, <1>12, <1>13, <2>1, LoadType
<1>15. ASSUME NEW q \in DOMAIN request', q # r, q \notin DOMAIN request PROVE g[q] = <<>>
  <2>1. request'[q] = Blank /\ q \notin Range(queue')
    BY <1>4, <1>7, <1>8, <1>15
  <2>2. Load(q)' = <<>>
    BY <2>1 DEF Load, UnderWay, Blank
  <2>3. QED
    BY <1>13, <2>2
<1>16. g[r] = Given(op, keys)
  <2>1. Load(r)' = Given(op, keys)
    BY <1>5, <1>7 DEF Load
  <2>2. QED
    BY <1>4, <1>13, <2>1
<1>17. r \in DOMAIN f => f[r] = <<>>
  BY <1>3, <1>6, <1>12, <1>13, LoadType DEF Load
<1>18. Given(op, keys) \in Seq(Nat) /\ <<>> \in Seq(Nat)
  BY DEF Given, KeysFit
<1>19. ASSUME NEW t \in Tuples
       PROVE  /\ IsFiniteSet(Everywhere(g, t))
              /\ Cardinality(Everywhere(g, t)) = Cardinality(Everywhere(f, t)) + Cardinality(Places(Given(op, keys), t))
  <2>1. IsFiniteSet(Everywhere(f, t)) /\ Cardinality(Everywhere(f, t)) \in Nat
    BY <1>12, CountTypes
  <2>2. /\ IsFiniteSet(Everywhere(g, t))
        /\ Cardinality(Everywhere(g, t)) =
             Cardinality(Everywhere(f, t)) - Cardinality(Places(<<>>, t)) + Cardinality(Places(Given(op, keys), t))
    <3>1. \A x \in DOMAIN f : x # r => x \in DOMAIN g /\ g[x] = f[x]
      BY <1>4, <1>13, <1>14
    <3>2. \A x \in DOMAIN g : x # r /\ x \notin DOMAIN f => g[x] = <<>>
      BY <1>13, <1>15
    <3>3. r \in DOMAIN g
      BY <1>4, <1>13
    <3>4. PICK old, new : old = <<>> /\ new = Given(op, keys)
      OBVIOUS
    <3>5. OneDiffers(f, g, r, old, new)
      BY <1>16, <1>17, <1>18, <3>1, <3>2, <3>3, <3>4 DEF OneDiffers
    <3>6. /\ IsFiniteSet(Everywhere(g, t))
          /\ Cardinality(Everywhere(g, t)) =
               Cardinality(Everywhere(f, t)) - Cardinality(Places(old, t)) + Cardinality(Places(new, t))
      BY <2>1, <3>5, OneChanges
    <3>7. QED
      BY <3>4, <3>6
  <2>3. Cardinality(Places(<<>>, t)) = 0 /\ Cardinality(Places(Given(op, keys), t)) \in Nat
    BY <1>18, PlacesOf, PlacesFinite
  <2>4. QED
    BY <2>1, <2>2, <2>3
<1>20. QED
  BY <1>2, <1>9, <1>10, <1>11, <1>12, <1>19

LEMMA PartIs ==
  ASSUME NEW S, NEW s \in Seq(S), NEW k \in 1 .. Len(s) + 1, NEW l \in k - 1 .. Len(s)
  PROVE  /\ SubSeq(s, k, l) \in Seq(S) /\ Len(SubSeq(s, k, l)) = l - k + 1
         /\ \A i \in 1 .. l - k + 1 : SubSeq(s, k, l)[i] = s[k + i - 1]
  BY SubSeqProperties

\* A port that is taken out of a sequence of ports.
LEMMA Removed ==
  ASSUME NEW ports \in Seq(Seq(Nat)), NEW p \in Range(ports), NEW t, IsFiniteSet(Everywhere(ports, t))
  PROVE  /\ RemoveFirst(ports, p) \in Seq(Seq(Nat)) /\ IsFiniteSet(Everywhere(RemoveFirst(ports, p), t))
         /\ Cardinality(Everywhere(RemoveFirst(ports, p), t)) =
              Cardinality(Everywhere(ports, t)) - Cardinality(Places(p, t))
<1>1. PICK n \in Nat : n = Len(ports) /\ DOMAIN ports = 1 .. n
  OBVIOUS
<1>2. PICK I : I = {i \in 1 .. n : ports[i] = p}
  OBVIOUS
<1>3. I # {} /\ I \subseteq Nat
  BY <1>1, <1>2 DEF Range
<1>4. PICK m : m = Min(I)
  OBVIOUS
<1>5. m \in 1 .. n /\ ports[m] = p
  <2>1. PICK x \in I : \A y \in I : x <= y
    BY <1>3, LeastNatural
  <2>2. m \in I
    BY <1>4, <2>1 DEF Min
  <2>3. QED
    BY <1>2, <2>2
<1>6. PICK rest : rest = SubSeq(ports, 1, m - 1) \o SubSeq(ports, m + 1, n)
  OBVIOUS
<1>7. RemoveFirst(ports, p) = rest
  <2>1. \E i \in 1 .. Len(ports) : ports[i] = p
    BY <1>1, <1>5
  <2>2. SelectInSeq(ports, LAMBDA v : v = p) = m
    BY <1>1, <1>2, <1>3, <1>4 DEF SelectInSeq
  <2>3. RemoveFirst(ports, p) = RemoveAt(ports, m)
    BY <2>1, <2>2 DEF RemoveFirst
  <2>4. QED
    BY <1>1, <1>6, <2>3 DEF RemoveAt
<1>8. /\ rest \in Seq(Seq(Nat)) /\ DOMAIN rest = 1 .. n - 1
      /\ \A i \in 1 .. n - 1 : rest[i] = IF i < m THEN ports[i] ELSE ports[i + 1]
  <2>1. PICK a, b : a = SubSeq(ports, 1, m - 1) /\ b = SubSeq(ports, m + 1, n)
    OBVIOUS
  <2>2. /\ a \in Seq(Seq(Nat)) /\ Len(a) = m - 1 /\ \A i \in 1 .. m - 1 : a[i] = ports[i]
    <3>1. 1 \in 1 .. Len(ports) + 1 /\ m - 1 \in 0 .. Len(ports) /\ 1 - 1 = 0 /\ (m - 1) - 1 + 1 = m - 1
      BY <1>1, <1>5
    <3>2. /\ a \in Seq(Seq(Nat)) /\ Len(a) = m - 1 /\ \A i \in 1 .. m - 1 : a[i] = ports[1 + i - 1]
      BY <2>1, <3>1, PartIs
    <3>3. \A i \in 1 .. m - 1 : 1 + i - 1 = i
      OBVIOUS
    <3>4. QED
      BY <3>2, <3>3
  <2>3. /\ b \in Seq(Seq(Nat)) /\ Len(b) = n - m /\ \A i \in 1 .. n - m : b[i] = ports[m + i]
    <3>1. PICK k : k = m + 1
      OBVIOUS
    <3>2. k \in 1 .. Len(ports) + 1 /\ n \in k - 1 .. Len(ports) /\ n - k + 1 = n - m
      BY <1>1, <1>5, <3>1
    <3>3. /\ SubSeq(ports, k, n) \in Seq(Seq(Nat)) /\ Len(SubSeq(ports, k, n)) = n - k + 1
          /\ \A i \in 1 .. n - k + 1 : SubSeq(ports, k, n)[i] = ports[k + i - 1]
      BY <3>2, PartIs
    <3>4. b = SubSeq(ports, k, n) /\ \A i \in 1 .. n - m : k + i - 1 = m + i
      BY <1>1, <1>5, <2>1, <3>1
    <3>5. QED
      BY <3>2, <3>3, <3>4
  <2>4. /\ a \o b \in Seq(Seq(Nat)) /\ Len(a \o b) = Len(a) + Len(b)
        /\ \A i \in 1 .. Len(a) + Len(b) : (a \o b)[i] = IF i <= Len(a) THEN a[i] ELSE b[i - Len(a)]
    BY <2>2, <2>3, ConcatProperties
  <2>5. Len(a) + Len(b) = n - 1 /\ n - 1 \in Nat
    BY <1>1, <1>5, <2>2, <2>3
  <2>6. ASSUME NEW i \in 1 .. n - 1 PROVE (a \o b)[i] = IF i < m THEN ports[i] ELSE ports[i + 1]
    <3>1. (a \o b)[i] = IF i <= m - 1 THEN a[i] ELSE b[i - (m - 1)]
      BY <2>2, <2>4, <2>5
    <3>2. CASE i < m
      <4>1. i \in 1 .. m - 1 /\ i <= m - 1
        BY <1>1, <1>5, <3>2
      <4>2. QED
        BY <2>2, <3>1, <3>2, <4>1
    <3>3. CASE ~(i < m)
      <4>1. i - (m - 1) \in 1 .. n - m /\ m + (i - (m - 1)) = i + 1 /\ ~(i <= m - 1)
        BY <1>1, <1>5, <3>3
      <4>2. b[i - (m - 1)] = ports[m + (i - (m - 1))]
        BY <2>3, <4>1
      <4>3. QED
        BY <3>1, <3>3, <4>1, <4>2
    <3>4. QED
      BY <3>2, <3>3
  <2>7. rest = a \o b
    BY <1>6, <2>1
  <2>8. rest \in Seq(Seq(Nat)) /\ DOMAIN rest = 1 .. n - 1
    BY <2>4, <2>5, <2>7
  <2>9. QED
    BY <2>6, <2>7, <2>8
<1>9. PICK h : h = [ports EXCEPT ![m] = <<>>]
  OBVIOUS
<1>10. DOMAIN h = 1 .. n /\ h[m] = <<>> /\ \A i \in 1 .. n : i # m => h[i] = ports[i]
  BY <1>1, <1>5, <1>9
<1>11. /\ IsFiniteSet(Everywhere(h, t))
       /\ Cardinality(Everywhere(h, t)) = Cardinality(Everywhere(ports, t)) - Cardinality(Places(p, t))
  <2>1. PICK new : new = <<>>
    OBVIOUS
  <2>2. p \in Seq(Nat) /\ new \in Seq(Nat)
    BY <1>1, <1>5, <2>1
  <2>3. OneDiffers(ports, h, m, p, new)
    BY <1>1, <1>5, <1>10, <2>1, <2>2 DEF OneDiffers
  <2>4. Cardinality(Places(new, t)) = 0
    BY <2>1, PlacesOf
  <2>5. /\ IsFiniteSet(Everywhere(h, t))
        /\ Cardinality(Everywhere(h, t)) =
             Cardinality(Everywhere(ports, t)) - Cardinality(Places(p, t)) + Cardinality(Places(new, t))
    BY <2>3, OneChanges
  <2>6. Cardinality(Everywhere(ports, t)) \in Nat /\ Cardinality(Places(p, t)) \in Nat
    BY <2>2, FS_CardinalityType, PlacesFinite
  <2>7. QED
    BY <2>4, <2>5, <2>6
<1>12. PICK S, T : S = Everywhere(h, t) /\ T = Everywhere(rest, t)
  OBVIOUS
<1>13. PICK f : f = [q \in S |-> <<IF q[1] < m THEN q[1] ELSE q[1] - 1, q[2]>>]
  OBVIOUS
<1> DEFINE Place(q) == IF q[1] < m THEN q[1] ELSE q[1] - 1
<1>21. ASSUME NEW q \in S PROVE f[q] = <<Place(q), q[2]>>
  BY <1>13
<1>14. ASSUME NEW q \in S
       PROVE  /\ q = <<q[1], q[2]>> /\ q[1] \in 1 .. n /\ q[1] # m /\ q[2] \in Nat
              /\ q[2] \in DOMAIN ports[q[1]] /\ ports[q[1]][q[2]] = t
  <2>1. q = <<q[1], q[2]>> /\ q[1] \in 1 .. n /\ q[2] \in Nat /\ q[2] \in DOMAIN h[q[1]] /\ h[q[1]][q[2]] = t
    BY <1>10, <1>12 DEF Everywhere
  <2>2. q[1] # m
    BY <1>10, <2>1
  <2>3. QED
    BY <1>10, <2>1, <2>2
<1>15. ASSUME NEW q \in S PROVE f[q] \in T
  <2>1. CASE q[1] < m
    <3>1. q[1] \in 1 .. n - 1 /\ rest[q[1]] = ports[q[1]] /\ f[q] = <<q[1], q[2]>>
      <4>1. q[1] \in 1 .. n - 1
        BY <1>1, <1>5, <1>14, <2>1
      <4>2. f[q] = <<q[1], q[2]>>
        BY <1>21, <2>1
      <4>3. QED
        BY <1>8, <2>1, <4>1, <4>2
    <3>2. QED
      BY <1>8, <1>12, <1>14, <3>1 DEF Everywhere
  <2>2. CASE q[1] > m
    <3>1. PICK i : i = q[1] - 1
      OBVIOUS
    <3>2. i \in 1 .. n - 1 /\ i + 1 = q[1] /\ ~(i < m) /\ ~(q[1] < m)
      <4>1. q[1] \in 1 .. n /\ m \in 1 .. n /\ q[1] > m
        BY <1>5, <1>14, <2>2
      <4>2. QED
        BY <1>1, <3>1, <4>1
    <3>3. rest[i] = ports[q[1]]
      BY <1>8, <3>2
    <3>4. f[q] = <<i, q[2]>>
      BY <1>21, <3>1, <3>2
    <3>5. q[2] \in Nat /\ q[2] \in DOMAIN rest[i] /\ rest[i][q[2]] = t /\ i \in DOMAIN rest
      BY <1>8, <1>14, <3>2, <3>3
    <3>6. PICK j : j = q[2]
      OBVIOUS
    <3>7. <<i, j>> \in Everywhere(rest, t)
      BY <3>5, <3>6 DEF Everywhere
    <3>8. QED
      BY <1>12, <3>4, <3>6, <3>7
  <2>3. QED
    BY <1>1, <1>5, <1>14, <2>1, <2>2
<1>16. ASSUME NEW q \in S, NEW u \in S, f[q] = f[u] PROVE q = u
  <2>1. f[q] = <<Place(q), q[2]>> /\ f[u] = <<Place(u), u[2]>>
    BY <1>21
  <2>2. Place(q) = Place(u) /\ q[2] = u[2]
    <3> HIDE DEF Place
    <3>1. <<Place(q), q[2]>> = <<Place(u), u[2]>>
      BY <1>16, <2>1
    <3>2. QED
      BY <3>1
  <2>3. q[1] \in Int /\ u[1] \in Int /\ m \in Int /\ q[1] # m /\ u[1] # m
    BY <1>1, <1>5, <1>14
  <2>4. q[1] = u[1]
    BY <2>2, <2>3
  <2>5. QED
    BY <1>14, <2>2, <2>4
<1>17. ASSUME NEW v \in T PROVE \E q \in S : f[q] = v
  <2>1. /\ v = <<v[1], v[2]>> /\ v[1] \in 1 .. n - 1 /\ v[2] \in Nat
        /\ v[2] \in DOMAIN rest[v[1]] /\ rest[v[1]][v[2]] = t
    BY <1>8, <1>12, <1>17 DEF Everywhere
  <2>2. PICK i : i = IF v[1] < m THEN v[1] ELSE v[1] + 1
    OBVIOUS
  <2>3. i \in 1 .. n /\ i # m /\ (IF i < m THEN i ELSE i - 1) = v[1]
    BY <1>1, <1>5, <2>1, <2>2
  <2>4. ports[i] = rest[v[1]]
    BY <1>8, <2>1, <2>2
  <2>5. h[i] = rest[v[1]]
    BY <1>10, <2>3, <2>4
  <2>6. PICK q : q = <<i, v[2]>>
    OBVIOUS
  <2>7. q \in S
    BY <1>10, <1>12, <2>1, <2>3, <2>5, <2>6 DEF Everywhere
  <2>8. f[q] = v
    BY <1>21, <2>1, <2>3, <2>6, <2>7
  <2>9. QED
    BY <2>7, <2>8
<1>18. ExistsBijection(S, T)
  <2>1. f \in [S -> T]
    BY <1>13, <1>15
  <2>2. f \in Bijection(S, T)
    BY <1>16, <1>17, <2>1 DEF Bijection, Injection, Surjection, IsInjective
  <2>3. QED
    BY <2>2 DEF ExistsBijection
<1>19. IsFiniteSet(T) /\ Cardinality(T) = Cardinality(S)
  BY <1>11, <1>12, <1>18, FS_Bijection
<1>20. QED
  BY <1>7, <1>8, <1>11, <1>12, <1>19

\* What isolates hold, as far as it counts.
Holding(h) ==
  /\ DOMAIN h = {"tuples", "ports", "buffers", "iterator"}
  /\ h.tuples \in [Tuples -> Nat] /\ h.ports \in Seq(Seq(Nat))

LEMMA CallKeeps ==
  ASSUME BoxInv, Refs, Calm', NEW op \in Calls, NEW keys, KeysFit(op, keys), NEW holding, Call(op, keys, holding),
         Holding(holding),
         \A t \in Tuples :
           /\ IsFiniteSet(Everywhere(holding.ports, t))
           /\ holding.tuples[t] + Cardinality(Everywhere(holding.ports, t)) + Cardinality(Places(Given(op, keys), t))
                <= held.tuples[t] + Cardinality(Everywhere(held.ports, t))
  PROVE  Refs'
<1>1. /\ KeysPart' /\ OutputPart' /\ UndoPart' /\ UNCHANGED <<box, batch, releasing>> /\ held' = holding
      /\ \A t \in Tuples :
           /\ IsFiniteSet(Everywhere(Loads, t)')
           /\ Cardinality(Everywhere(Loads, t)') =
                Cardinality(Everywhere(Loads, t)) + Cardinality(Places(Given(op, keys), t))
  BY CallLoads
<1>2. Typed(box)'
  BY <1>1 DEF Refs, Typed
<1>3. HeldPart'
  BY <1>1 DEF Refs, HeldPart, Holding
<1>4. ASSUME NEW t \in Tuples
      PROVE  /\ IsFiniteSet(Everywhere(held.ports, t)') /\ IsFiniteSet(Everywhere(Loads, t)')
             /\ box'.refs[t] >= Has(box.space, t)' + held'.tuples[t] + Cardinality(Everywhere(held.ports, t)')
                                + Cardinality(Everywhere(Loads, t)') + Cardinality(Places(Undoing, t)') + Releases(t)'
  <2>1. /\ box'.refs = box.refs /\ Has(box.space, t)' = Has(box.space, t)
        /\ Places(Undoing, t)' = Places(Undoing, t) /\ Releases(t)' = Releases(t)
        /\ Everywhere(held.ports, t)' = Everywhere(holding.ports, t)
    BY <1>1 DEF Has, Undoing, Releases, Places, Everywhere
  <2>2. PICK a, b, c, d, e, x : /\ a = Has(box.space, t) /\ b = Cardinality(Everywhere(held.ports, t))
                                /\ c = Cardinality(Everywhere(Loads, t)) /\ d = Cardinality(Places(Undoing, t))
                                /\ e = Cardinality(Everywhere(holding.ports, t))
                                /\ x = Cardinality(Places(Given(op, keys), t))
    OBVIOUS
  <2>3. /\ box.refs[t] \in Int /\ a \in Int /\ held.tuples[t] \in Nat /\ b \in Nat /\ c \in Nat /\ d \in Nat
        /\ Releases(t) \in {0, 1}
        /\ box.refs[t] >= a + held.tuples[t] + b + c + d + Releases(t)
    BY <2>2, CountTypes
  <2>4. holding.tuples[t] \in Nat /\ e \in Nat /\ x \in Nat
    <3>1. Given(op, keys) \in Seq(Nat)
      BY DEF Given, KeysFit
    <3>2. QED
      BY <2>2, <3>1, PlacesFinite, FS_CardinalityType DEF Holding
  <2>5. holding.tuples[t] + e + x <= held.tuples[t] + b
    BY <2>2
  <2>6. box.refs[t] >= a + holding.tuples[t] + e + (c + x) + d + Releases(t)
    BY <2>3, <2>4, <2>5
  <2>7. IsFiniteSet(Everywhere(holding.ports, t))
    OBVIOUS
  <2>8. Cardinality(Everywhere(Loads, t)') = c + x /\ held' = holding
    BY <1>1, <2>2
  <2>9. QED
    BY <1>1, <2>1, <2>2, <2>6, <2>7, <2>8
<1>5. CountPart'
  BY <1>4 DEF CountPart
<1>6. QED
  BY <1>1, <1>2, <1>3, <1>5 DEF Refs

\* A call that frees nothing.
LEMMA PlainCallKeeps ==
  ASSUME BoxInv, Refs, Calm', NEW op \in Calls, op \notin {"free_tuple", "free_port"}, NEW keys, KeysFit(op, keys),
         NEW holding, Call(op, keys, holding), Holding(holding),
         holding.tuples = held.tuples, holding.ports = held.ports
  PROVE  Refs'
<1>1. ASSUME NEW t \in Tuples
      PROVE  /\ IsFiniteSet(Everywhere(holding.ports, t))
             /\ holding.tuples[t] + Cardinality(Everywhere(holding.ports, t)) + Cardinality(Places(Given(op, keys), t))
                  <= held.tuples[t] + Cardinality(Everywhere(held.ports, t))
  <2>1. Given(op, keys) = <<>>
    BY DEF Given
  <2>2. Cardinality(Places(Given(op, keys), t)) = 0
    BY <2>1, PlacesOf
  <2>3. /\ held.tuples[t] \in Nat /\ IsFiniteSet(Everywhere(held.ports, t))
        /\ Cardinality(Everywhere(held.ports, t)) \in Nat
    BY CountTypes
  <2>4. QED
    BY <2>2, <2>3
<1>2. QED
  BY <1>1, CallKeeps

LEMMA HoldingIs ==
  ASSUME Refs
  PROVE  /\ Holding(held)
         /\ \A b, i : /\ Holding([held EXCEPT !.buffers = b]) /\ [held EXCEPT !.buffers = b].tuples = held.tuples
                      /\ [held EXCEPT !.buffers = b].ports = held.ports
                      /\ Holding([held EXCEPT !.iterator = i]) /\ [held EXCEPT !.iterator = i].tuples = held.tuples
                      /\ [held EXCEPT !.iterator = i].ports = held.ports
BY DEF Refs, HeldPart, Holding

LEMMA CallPlainRefs ==
  ASSUME BoxInv, Refs, Calm', CallPlain
  PROVE  Refs'
<1>1. PICK op \in Calls \ (ManyCalls \union {"next", "next_many", "destroy", "free_buffer", "free_port", "free_tuple"}) :
        \E k \in IF op \in KeyCalls THEN Keys ELSE {1} : Call(op, <<k>>, held)
  BY DEF CallPlain
<1>2. PICK k \in Keys : Call(op, <<k>>, held)
  BY <1>1, TupleTypes
<1>3. <<k>> \in Seq(Nat) /\ <<k>> \in Seq(Keys) /\ <<k>> # <<>>
  BY TupleTypes
<1>4. KeysFit(op, <<k>>)
  BY <1>3 DEF KeysFit
<1>5. QED
  BY <1>1, <1>2, <1>4, PlainCallKeeps, HoldingIs

LEMMA CallManyRefs ==
  ASSUME BoxInv, Refs, Calm', CallMany
  PROVE  Refs'
<1>1. PICK op \in ManyCalls \ {"next_many"}, keys \in Batches : Call(op, keys, held)
  BY DEF CallMany
<1>2. keys \in Seq(Keys)
  BY BatchesAssumption
<1>3. keys \in Seq(Nat)
  BY <1>2, TupleTypes
<1>4. op \notin KeyCalls \union {"free_tuple"} /\ op \in Calls /\ op \notin {"free_tuple", "free_port"}
  BY DEF ManyCalls, KeyCalls, TupleCalls, Calls, SpaceCalls, UpdateCalls, IndexUpdateCalls, OtherCalls
<1>5. KeysFit(op, keys)
  BY <1>2, <1>3, <1>4 DEF KeysFit
<1>6. QED
  BY <1>1, <1>4, <1>5, PlainCallKeeps, HoldingIs

LEMMA CallIteratorRefs ==
  ASSUME BoxInv, Refs, Calm', CallIterator
  PROVE  Refs'
<1>1. PICK op \in {"next", "next_many", "destroy"} : Call(op, <<1, 1>>, [held EXCEPT !.iterator = op # "destroy"])
  BY DEF CallIterator
<1>2. <<1, 1>> \in Seq(Nat) /\ <<1, 1>> \in Seq(Keys) /\ <<1, 1>> # <<>>
  BY TupleTypes
<1>3. KeysFit(op, <<1, 1>>)
  BY <1>2 DEF KeysFit
<1>4. op \in Calls /\ op \notin {"free_tuple", "free_port"}
  BY <1>1 DEF Calls, OtherCalls
<1>5. QED
  BY <1>1, <1>3, <1>4, PlainCallKeeps, HoldingIs

LEMMA FreeBufferRefs ==
  ASSUME BoxInv, Refs, Calm', FreeBuffer
  PROVE  Refs'
<1>1. Call("free_buffer", <<>>, [held EXCEPT !.buffers = held.buffers - 1])
  BY DEF FreeBuffer
<1>2. <<>> \in Seq(Nat) /\ "free_buffer" \in Calls /\ "free_buffer" \notin KeyCalls \union {"free_tuple"}
      /\ "free_buffer" \in FreeCalls
  BY DEF Calls, OtherCalls, KeyCalls, TupleCalls, FreeCalls
<1>3. KeysFit("free_buffer", <<>>)
  BY <1>2 DEF KeysFit
<1>4. QED
  BY <1>1, <1>2, <1>3, PlainCallKeeps, HoldingIs

LEMMA FreePortRefs ==
  ASSUME BoxInv, Refs, Calm', FreePort
  PROVE  Refs'
<1>1. PICK port \in Range(held.ports) :
        Call("free_port", port, [held EXCEPT !.ports = RemoveFirst(held.ports, port)])
  BY DEF FreePort
<1>2. PICK rest, holding : rest = RemoveFirst(held.ports, port) /\ holding = [held EXCEPT !.ports = rest]
  OBVIOUS
<1>3. held.ports \in Seq(Seq(Nat)) /\ Holding(held)
  BY DEF Refs, HeldPart, Holding
<1>4. port \in Seq(Nat)
  BY <1>3 DEF Range
<1>5. "free_port" \in Calls /\ "free_port" \in FreeCalls /\ "free_port" \notin KeyCalls \union {"free_tuple"}
  BY DEF Calls, OtherCalls, KeyCalls, TupleCalls, FreeCalls
<1>6. KeysFit("free_port", port) /\ Given("free_port", port) = port
  BY <1>4, <1>5 DEF KeysFit, Given
<1>7. 1 \in Tuples
  <2>1. MaxCalls \in Nat \ {0}
    BY BoxAssumption
  <2>2. QED
    BY <2>1 DEF Tuples
<1>8. ASSUME NEW t \in Tuples
      PROVE  /\ rest \in Seq(Seq(Nat)) /\ IsFiniteSet(Everywhere(rest, t))
             /\ Cardinality(Everywhere(rest, t)) = Cardinality(Everywhere(held.ports, t)) - Cardinality(Places(port, t))
             /\ Cardinality(Everywhere(held.ports, t)) \in Nat /\ Cardinality(Places(port, t)) \in Nat
             /\ held.tuples[t] \in Nat
  <2>1. IsFiniteSet(Everywhere(held.ports, t)) /\ Cardinality(Everywhere(held.ports, t)) \in Nat /\ held.tuples[t] \in Nat
    BY CountTypes
  <2>2. Cardinality(Places(port, t)) \in Nat
    BY <1>4, PlacesFinite
  <2>3. QED
    BY <1>2, <1>3, <2>1, <2>2, Removed
<1>9. Holding(holding) /\ holding.tuples = held.tuples /\ holding.ports = rest
  BY <1>2, <1>3, <1>7, <1>8 DEF Holding
<1>10. ASSUME NEW t \in Tuples
       PROVE  /\ IsFiniteSet(Everywhere(holding.ports, t))
              /\ holding.tuples[t] + Cardinality(Everywhere(holding.ports, t))
                   + Cardinality(Places(Given("free_port", port), t))
                   <= held.tuples[t] + Cardinality(Everywhere(held.ports, t))
  BY <1>6, <1>8, <1>9
<1>11. Call("free_port", port, holding)
  BY <1>1, <1>2
<1>12. QED
  BY <1>5, <1>6, <1>9, <1>10, <1>11, CallKeeps

LEMMA FreeTupleRefs ==
  ASSUME BoxInv, Refs, Calm', FreeTuple
  PROVE  Refs'
<1>1. PICK u \in Tuples : /\ held.tuples[u] > 0
                          /\ Call("free_tuple", <<u>>, [held EXCEPT !.tuples[u] = @ - 1])
  BY DEF FreeTuple
<1>2. PICK tuples, holding : tuples = [held.tuples EXCEPT ![u] = @ - 1] /\ holding = [held EXCEPT !.tuples[u] = @ - 1]
  OBVIOUS
<1>3. Holding(held)
  BY DEF Refs, HeldPart, Holding
<1>4. /\ tuples \in [Tuples -> Nat]
      /\ \A t \in Tuples : tuples[t] = held.tuples[t] - (IF t = u THEN 1 ELSE 0)
  BY <1>1, <1>2, <1>3 DEF Holding
<1>5. Holding(holding) /\ holding.tuples = tuples /\ holding.ports = held.ports
  BY <1>2, <1>3, <1>4 DEF Holding
<1>6. <<u>> \in Seq(Nat) /\ <<u>> # <<>> /\ "free_tuple" \in Calls /\ "free_tuple" \in FreeCalls
  BY TupleTypes DEF Calls, OtherCalls, FreeCalls
<1>7. KeysFit("free_tuple", <<u>>) /\ Given("free_tuple", <<u>>) = <<u>>
  BY <1>6 DEF KeysFit, Given
<1>8. ASSUME NEW t \in Tuples
      PROVE  /\ IsFiniteSet(Everywhere(holding.ports, t))
             /\ holding.tuples[t] + Cardinality(Everywhere(holding.ports, t))
                  + Cardinality(Places(Given("free_tuple", <<u>>), t))
                  <= held.tuples[t] + Cardinality(Everywhere(held.ports, t))
  <2>1. /\ IsFiniteSet(Everywhere(held.ports, t)) /\ Cardinality(Everywhere(held.ports, t)) \in Nat
        /\ held.tuples[t] \in Nat
    BY CountTypes
  <2>2. Cardinality(Places(<<u>>, t)) = IF u = t THEN 1 ELSE 0
    BY PlacesOf
  <2>3. QED
    BY <1>4, <1>5, <1>7, <2>1, <2>2
<1>9. Call("free_tuple", <<u>>, holding)
  BY <1>1, <1>2
<1>10. QED
  BY <1>5, <1>6, <1>7, <1>8, <1>9, CallKeeps

\* What isolates hold and what is on its way.
Owed(t) == held.tuples[t] + Cardinality(Everywhere(held.ports, t)) + Cardinality(Everywhere(Loads, t))
Finite(t) == IsFiniteSet(Everywhere(held.ports, t)) /\ IsFiniteSet(Everywhere(Loads, t))

LEMMA OwedNoMore ==
  ASSUME BoxInv, Refs, UNCHANGED <<box, batch, releasing>>, KeysPart', OutputPart', Holding(held'),
         \A t \in Tuples : Finite(t)' /\ Owed(t)' <= Owed(t)
  PROVE  Refs'
<1>1. Typed(box)' /\ UndoPart' /\ HeldPart'
  BY DEF Refs, Typed, UndoPart, HeldPart, Holding
<1>2. ASSUME NEW t \in Tuples
      PROVE  /\ IsFiniteSet(Everywhere(held.ports, t)') /\ IsFiniteSet(Everywhere(Loads, t)')
             /\ box'.refs[t] >= Has(box.space, t)' + held'.tuples[t] + Cardinality(Everywhere(held.ports, t)')
                                + Cardinality(Everywhere(Loads, t)') + Cardinality(Places(Undoing, t)') + Releases(t)'
  <2>1. /\ box'.refs = box.refs /\ Has(box.space, t)' = Has(box.space, t)
        /\ Places(Undoing, t)' = Places(Undoing, t) /\ Releases(t)' = Releases(t)
    BY DEF Has, Undoing, Releases, Places
  <2>2. Finite(t)' /\ Owed(t)' <= Owed(t)
    OBVIOUS
  <2>3. IsFiniteSet(Everywhere(held.ports, t)') /\ IsFiniteSet(Everywhere(Loads, t)')
    BY <2>2 DEF Finite
  <2>4. PICK a, b, c, d, e, x : /\ a = Has(box.space, t) /\ b = Cardinality(Everywhere(held.ports, t))
                                /\ c = Cardinality(Everywhere(Loads, t)) /\ d = Cardinality(Places(Undoing, t))
                                /\ e = Cardinality(Everywhere(held.ports, t)') /\ x = Cardinality(Everywhere(Loads, t)')
    OBVIOUS
  <2>5. /\ box.refs[t] \in Int /\ a \in Int /\ held.tuples[t] \in Nat /\ b \in Nat /\ c \in Nat /\ d \in Nat
        /\ Releases(t) \in {0, 1}
        /\ box.refs[t] >= a + held.tuples[t] + b + c + d + Releases(t)
    BY <2>4, CountTypes
  <2>6. e \in Nat /\ x \in Nat /\ held'.tuples[t] \in Nat
    BY <2>3, <2>4, FS_CardinalityType DEF Holding
  <2>7. held'.tuples[t] + e + x <= held.tuples[t] + b + c
    BY <2>2, <2>4 DEF Owed
  <2>8. box.refs[t] >= a + held'.tuples[t] + e + x + d + Releases(t)
    BY <2>5, <2>6, <2>7
  <2>9. QED
    BY <2>1, <2>3, <2>4, <2>8
<1>3. CountPart'
  BY <1>2 DEF CountPart
<1>4. QED
  BY <1>1, <1>3 DEF Refs

\* The requests stand for what they stood for.
LEMMA LoadsKept ==
  ASSUME BoxInv, Refs, UNCHANGED <<box, batch, held, releasing>>, KeysPart', OutputPart',
         \A r \in DOMAIN request : r \in DOMAIN request' /\ Load(r)' = Load(r),
         \A r \in DOMAIN request' : r \notin DOMAIN request => Load(r)' = <<>>
  PROVE  Refs'
<1>1. PICK f, g : f = Loads /\ g = Loads'
  OBVIOUS
<1>2. /\ DOMAIN f = DOMAIN request /\ \A r \in DOMAIN request : f[r] = Load(r)
      /\ DOMAIN g = DOMAIN request' /\ \A r \in DOMAIN request' : g[r] = Load(r)'
  BY <1>1 DEF Loads
<1>3. /\ \A x \in DOMAIN f : x \in DOMAIN g /\ g[x] = f[x]
      /\ \A x \in DOMAIN g : x \notin DOMAIN f => g[x] = <<>>
  BY <1>2
<1>4. ASSUME NEW t \in Tuples PROVE Finite(t)' /\ Owed(t)' <= Owed(t)
  <2>1. Everywhere(g, t) = Everywhere(f, t)
    BY <1>3, NothingChanges
  <2>2. Everywhere(Loads, t)' = Everywhere(Loads, t) /\ Everywhere(held.ports, t)' = Everywhere(held.ports, t)
    <3>1. Everywhere(held.ports, t)' = Everywhere(held.ports, t)
      BY DEF Everywhere
    <3>2. QED
      BY <1>1, <2>1, <3>1
  <2>3. /\ held.tuples[t] \in Nat /\ IsFiniteSet(Everywhere(held.ports, t)) /\ IsFiniteSet(Everywhere(Loads, t))
        /\ Cardinality(Everywhere(held.ports, t)) \in Nat /\ Cardinality(Everywhere(Loads, t)) \in Nat
    BY CountTypes
  <2>4. Owed(t)' = Owed(t)
    BY <2>2 DEF Owed
  <2>5. QED
    BY <2>2, <2>3, <2>4 DEF Finite, Owed
<1>5. Holding(held')
  BY HoldingIs
<1>6. QED
  BY <1>4, <1>5, OwedNoMore

LEMMA ExtendRefs ==
  ASSUME BoxInv, Refs, NEW kind, Extend(kind)
  PROVE  Refs'
<1>1. /\ DOMAIN request \subseteq DOMAIN request'
      /\ \A q \in DOMAIN request : request'[q] = request[q]
      /\ \A q \in DOMAIN request' : q \notin DOMAIN request => request'[q] = Blank
      /\ UNCHANGED <<box, queue, batch, held, releasing>>
  BY DEF Extend
<1>2. \A q \in Range(queue) : q \in DOMAIN request
  BY DEF BoxInv, TaskPart, Range
<1>3. KeysPart'
  BY <1>1, <1>2 DEF Refs, KeysPart
<1>4. OutputPart'
  <2>1. OutputFits(Blank.output)
    BY DEF OutputFits, Blank, NoOutput, Output
  <2>2. ASSUME NEW q \in DOMAIN request' PROVE OutputFits(request'[q].output)
    BY <1>1, <2>1 DEF Refs, OutputPart
  <2>3. QED
    BY <2>2 DEF OutputPart
<1>5. \A r \in DOMAIN request : r \in DOMAIN request' /\ Load(r)' = Load(r)
  BY <1>1 DEF Load, UnderWay
<1>6. ASSUME NEW r \in DOMAIN request', r \notin DOMAIN request PROVE Load(r)' = <<>>
  <2>1. r \notin Range(queue') /\ request'[r] = Blank
    BY <1>1, <1>2, <1>6
  <2>2. QED
    BY <2>1 DEF Load, UnderWay, Blank
<1>7. QED
  BY <1>1, <1>3, <1>4, <1>5, <1>6, LoadsKept

LEMMA SubmitRefs ==
  ASSUME BoxInv, Refs, Calm', Submit
  PROVE  Refs'
<1>1. /\ queue = <<>> /\ UNCHANGED <<box, queue, batch, held, releasing, trouble>>
      /\ request' = [r \in DOMAIN request |->
                       IF r \in Range(answers) THEN [request[r] EXCEPT !.at = "answered"] ELSE request[r]]
  BY DEF Submit
<1>2. Range(queue) = {}
  BY <1>1 DEF Range
<1>3. \A r \in Range(answers) : request[r].at = "sent"
  BY <1>1 DEF BoxInv, DistinctPart, Calm, Range
<1>4. DOMAIN request' = DOMAIN request
  BY <1>1
<1>5. ASSUME NEW r \in DOMAIN request
      PROVE  /\ request'[r].output = request[r].output /\ request'[r].fresh = request[r].fresh
             /\ UnderWay(r)' = UnderWay(r)
  <2>1. DOMAIN request[r] = TaskFields
    BY DEF BoxInv, TaskPart
  <2>2. CASE r \in Range(answers)
    <3>1. request'[r] = [request[r] EXCEPT !.at = "answered"] /\ request[r].at = "sent"
      BY <1>1, <1>3, <2>2
    <3>2. QED
      BY <2>1, <3>1 DEF TaskFields, UnderWay
  <2>3. CASE r \notin Range(answers)
    BY <1>1, <2>3 DEF UnderWay
  <2>4. QED
    BY <2>2, <2>3
<1>6. KeysPart'
  BY <1>1, <1>2 DEF KeysPart
<1>7. OutputPart'
  BY <1>4, <1>5 DEF Refs, OutputPart
<1>8. ASSUME NEW r \in DOMAIN request PROVE Load(r)' = Load(r)
  BY <1>1, <1>2, <1>5 DEF Load
<1>9. QED
  BY <1>1, <1>4, <1>6, <1>7, <1>8, LoadsKept

\* What the isolate takes is what the request stood for.
LEMMA TakenIs ==
  ASSUME BoxInv, Refs, NEW q, OutputFits(q.output),
         ~(q.op \in TupleCalls /\ ~q.fresh /\ q.output.kind # "none"), NEW t \in Tuples
  PROVE  /\ Holding(Taken(q)) /\ IsFiniteSet(Everywhere(Taken(q).ports, t))
         /\ Taken(q).tuples[t] + Cardinality(Everywhere(Taken(q).ports, t))
              <= held.tuples[t] + Cardinality(Everywhere(held.ports, t))
                 + Cardinality(Places(IF q.fresh THEN Handed(q.output) ELSE <<>>, t))
<1>1. PICK of, load : of = q.output.of /\ load = IF q.fresh THEN Handed(q.output) ELSE <<>>
  OBVIOUS
<1>2. load \in Seq(Nat)
  BY <1>1 DEF OutputFits, Handed
<1>3. PICK b, l : b = Cardinality(Everywhere(held.ports, t)) /\ l = Cardinality(Places(load, t))
  OBVIOUS
<1>4. b \in Nat /\ l \in Nat /\ held.tuples[t] \in Nat /\ IsFiniteSet(Everywhere(held.ports, t))
  BY <1>2, <1>3, CountTypes, PlacesFinite
<1>5. Holding(held)
  BY HoldingIs
<1>6. ASSUME NEW h, Holding(h), h.tuples = held.tuples, h.ports = held.ports, Taken(q) = h
      PROVE  /\ Holding(Taken(q)) /\ IsFiniteSet(Everywhere(Taken(q).ports, t))
             /\ Taken(q).tuples[t] + Cardinality(Everywhere(Taken(q).ports, t)) <= held.tuples[t] + b + l
  BY <1>3, <1>4, <1>6
<1>7. CASE q.op \in TupleCalls /\ q.output.kind = "tuple"
  <2>1. load = of /\ of # <<>>
    BY <1>1, <1>7 DEF Handed, OutputFits
  <2>2. PICK u : u = of[1]
    OBVIOUS
  <2>3. Head(of) = u
    BY <1>2, <2>1, <2>2
  <2>4. l >= IF u = t THEN 1 ELSE 0
    BY <1>2, <1>3, <2>1, <2>3, PlacesHead
  <2>5. PICK tuples, h : tuples = [held.tuples EXCEPT ![u] = @ + 1] /\ h = [held EXCEPT !.tuples[u] = @ + 1]
    OBVIOUS
  <2>6. tuples \in [Tuples -> Nat] /\ tuples[t] = held.tuples[t] + (IF u = t THEN 1 ELSE 0)
    <3>1. PICK had \in [Tuples -> Nat] : had = held.tuples
      BY <1>5 DEF Holding
    <3>2. \A v \in Tuples : had[v] \in Nat /\ had[v] + 1 \in Nat
      OBVIOUS
    <3>3. tuples = [had EXCEPT ![u] = had[u] + 1]
      BY <2>5, <3>1
    <3>4. /\ DOMAIN tuples = Tuples
          /\ \A v \in Tuples : v # u => tuples[v] = had[v]
          /\ u \in Tuples => tuples[u] = had[u] + 1
      BY <3>3
    <3>5. tuples = [v \in Tuples |-> tuples[v]]
      BY <3>1, <3>3
    <3>6. \A v \in Tuples : tuples[v] \in Nat
      BY <3>2, <3>4
    <3>7. tuples \in [Tuples -> Nat]
      BY <3>5, <3>6
    <3>8. tuples[t] = had[t] + (IF u = t THEN 1 ELSE 0)
      BY <3>2, <3>4
    <3>9. QED
      BY <3>1, <3>7, <3>8
  <2>7. Holding(h) /\ h.tuples = tuples /\ h.ports = held.ports
    BY <1>5, <2>5, <2>6 DEF Holding
  <2>8. Taken(q) = h
    BY <1>1, <1>7, <2>2, <2>5 DEF Taken
  <2>9. tuples[t] + b <= held.tuples[t] + b + l
    BY <1>4, <2>4, <2>6
  <2>10. QED
    BY <1>1, <1>3, <1>4, <2>7, <2>8, <2>9
<1>8. CASE ~(q.op \in TupleCalls /\ q.output.kind = "tuple") /\ q.output.kind = "port" /\ q.fresh
  <2>1. load = of /\ of \in Seq(Nat)
    BY <1>1, <1>2, <1>8 DEF Handed
  <2>2. PICK f, g : f = held.ports /\ g = Append(held.ports, of)
    OBVIOUS
  <2>3. f \in Seq(Seq(Nat)) /\ \E n \in Nat : n = Len(f) /\ DOMAIN f = 1 .. n
    BY <1>5, <2>2 DEF Holding
  <2> PICK n \in Nat : n = Len(f) /\ DOMAIN f = 1 .. n
    BY <2>3
  <2>4. g \in Seq(Seq(Nat)) /\ DOMAIN g = 1 .. n + 1 /\ g[n + 1] = of /\ \A i \in 1 .. n : g[i] = f[i]
    BY <2>1, <2>2, <2>3
  <2>5. PICK none : none = <<>>
    OBVIOUS
  <2>6. OneDiffers(f, g, n + 1, none, of)
    <3>1. none \in Seq(Nat) /\ of \in Seq(Nat)
      BY <2>1, <2>5
    <3>2. n + 1 \notin DOMAIN f /\ n + 1 \in DOMAIN g
      BY <2>3, <2>4
    <3>3. \A x \in DOMAIN f : x \in DOMAIN g /\ g[x] = f[x]
      BY <2>3, <2>4
    <3>4. \A x \in DOMAIN g : x # n + 1 => x \in DOMAIN f
      BY <2>3, <2>4
    <3>5. QED
      BY <2>4, <2>5, <3>1, <3>2, <3>3, <3>4 DEF OneDiffers
  <2>7. /\ IsFiniteSet(Everywhere(g, t))
        /\ Cardinality(Everywhere(g, t)) = b - Cardinality(Places(none, t)) + Cardinality(Places(of, t))
    BY <1>3, <1>4, <2>2, <2>6, OneChanges
  <2>8. Cardinality(Places(none, t)) = 0
    BY <2>5, PlacesOf
  <2>9. Cardinality(Everywhere(g, t)) = b + l
    BY <1>3, <1>4, <2>1, <2>7, <2>8
  <2>10. PICK h : h = [held EXCEPT !.ports = g]
    OBVIOUS
  <2>11. Holding(h) /\ h.tuples = held.tuples /\ h.ports = g
    BY <1>5, <2>4, <2>10 DEF Holding
  <2>12. Taken(q) = h
    BY <1>1, <1>8, <2>2, <2>10 DEF Taken
  <2>13. held.tuples[t] + Cardinality(Everywhere(g, t)) <= held.tuples[t] + b + l
    BY <1>4, <2>9
  <2>14. QED
    BY <1>1, <1>3, <2>7, <2>11, <2>12, <2>13
<1>9. CASE ~(q.op \in TupleCalls /\ q.output.kind = "tuple") /\ ~(q.output.kind = "port" /\ q.fresh)
  <2>1. \/ Taken(q) = [held EXCEPT !.buffers = held.buffers + 1]
        \/ Taken(q) = [held EXCEPT !.iterator = TRUE]
        \/ Taken(q) = held
    BY <1>9 DEF Taken
  <2>2. QED
    BY <1>1, <1>3, <1>5, <1>6, <2>1, HoldingIs
<1>10. QED
  BY <1>7, <1>8, <1>9

LEMMA CompleteRefs ==
  ASSUME BoxInv, Refs, Calm', NEW r, Complete(r)
  PROVE  Refs'
<1>1. /\ r \in DOMAIN request /\ request[r].at = "answered"
      /\ UNCHANGED <<box, queue, batch, answers, releasing>>
  BY DEF Complete
<1>2. DOMAIN request[r] = TaskFields
  BY <1>1 DEF BoxInv, TaskPart
<1>3. PICK load : load = IF request[r].fresh THEN Handed(request[r].output) ELSE <<>>
  OBVIOUS
<1>4. OutputFits(request[r].output)
  BY <1>1 DEF Refs, OutputPart
<1>5. load \in Seq(Nat) /\ <<>> \in Seq(Nat)
  BY <1>3, <1>4 DEF OutputFits, Handed
<1>6. ASSUME NEW t \in Tuples
      PROVE  /\ Holding(held') /\ IsFiniteSet(Everywhere(held'.ports, t))
             /\ held'.tuples[t] + Cardinality(Everywhere(held'.ports, t))
                  <= held.tuples[t] + Cardinality(Everywhere(held.ports, t)) + Cardinality(Places(load, t))
  <2>1. CASE request[r].failed
    <3>1. held' = held
      BY <2>1 DEF Complete
    <3>2. /\ held.tuples[t] \in Nat /\ IsFiniteSet(Everywhere(held.ports, t))
          /\ Cardinality(Everywhere(held.ports, t)) \in Nat /\ Cardinality(Places(load, t)) \in Nat
      BY <1>5, CountTypes, PlacesFinite
    <3>3. QED
      BY <3>1, <3>2, HoldingIs
  <2>2. CASE ~request[r].failed
    <3>1. PICK q : q = request[r]
      OBVIOUS
    <3>2. /\ held' = Taken(q)
          /\ trouble' = trouble \union
               (IF q.op \in TupleCalls /\ ~q.fresh /\ q.output.kind # "none" THEN {"stale"} ELSE {})
      BY <2>2, <3>1 DEF Complete
    <3>3. ~(q.op \in TupleCalls /\ ~q.fresh /\ q.output.kind # "none")
      BY <3>2 DEF Calm
    <3>4. OutputFits(q.output) /\ load = IF q.fresh THEN Handed(q.output) ELSE <<>>
      BY <1>3, <1>4, <3>1
    <3>5. QED
      BY <3>2, <3>3, <3>4, TakenIs
  <2>3. QED
    BY <2>1, <2>2
<1>7. /\ DOMAIN request' = DOMAIN request /\ \A q \in DOMAIN request : q # r => request'[q] = request[q]
      /\ request'[r].at \in {"lost", "free"} /\ request'[r].output = request[r].output
  <2>1. \/ request' = [request EXCEPT ![r].at = "lost"]
        \/ request' = [request EXCEPT ![r].at = "free", ![r].op = "none", ![r].keys = <<>>]
    BY DEF Complete
  <2>2. QED
    BY <1>1, <1>2, <2>1 DEF TaskFields
<1>8. \A q \in Range(queue) : q \in DOMAIN request /\ q # r
  BY <1>1 DEF BoxInv, TaskPart, Range
<1>9. KeysPart'
  BY <1>1, <1>7, <1>8 DEF Refs, KeysPart
<1>10. OutputPart'
  BY <1>1, <1>4, <1>7 DEF Refs, OutputPart
<1>11. PICK f, g : f = Loads /\ g = Loads'
  OBVIOUS
<1>12. /\ DOMAIN f = DOMAIN request /\ \A q \in DOMAIN request : f[q] = Load(q)
       /\ DOMAIN g = DOMAIN request /\ \A q \in DOMAIN request : g[q] = Load(q)'
  BY <1>7, <1>11 DEF Loads
<1>13. \A q \in DOMAIN request : q # r => Load(q)' = Load(q)
  BY <1>1, <1>7 DEF Load, UnderWay
<1>14. Load(r) = load /\ Load(r)' = <<>>
  BY <1>1, <1>3, <1>7, <1>8 DEF Load, UnderWay
<1>15. PICK none : none = <<>>
  OBVIOUS
<1>16. OneDiffers(f, g, r, load, none)
  BY <1>1, <1>5, <1>12, <1>13, <1>14, <1>15 DEF OneDiffers
<1>17. ASSUME NEW t \in Tuples PROVE Holding(held') /\ Finite(t)' /\ Owed(t)' <= Owed(t)
  <2>1. PICK a, b, c, d, e, x :
          /\ a = held.tuples[t] /\ b = Cardinality(Everywhere(held.ports, t)) /\ c = Cardinality(Everywhere(f, t))
          /\ d = held'.tuples[t] /\ e = Cardinality(Everywhere(held'.ports, t)) /\ x = Cardinality(Places(load, t))
    OBVIOUS
  <2>2. /\ Holding(held') /\ IsFiniteSet(Everywhere(held'.ports, t)) /\ d + e <= a + b + x
        /\ d \in Nat /\ e \in Nat /\ x \in Nat
    <3>1. Holding(held') /\ IsFiniteSet(Everywhere(held'.ports, t)) /\ d + e <= a + b + x
      BY <1>6, <2>1
    <3>2. QED
      BY <1>5, <2>1, <3>1, FS_CardinalityType, PlacesFinite DEF Holding
  <2>3. a \in Nat /\ b \in Nat /\ c \in Nat /\ IsFiniteSet(Everywhere(f, t))
    BY <1>11, <2>1, CountTypes
  <2>4. /\ IsFiniteSet(Everywhere(g, t))
        /\ Cardinality(Everywhere(g, t)) = c - x + Cardinality(Places(none, t))
    BY <1>16, <2>1, <2>3, OneChanges
  <2>5. Cardinality(Places(none, t)) = 0
    BY <1>15, PlacesOf
  <2>6. Cardinality(Everywhere(g, t)) = c - x
    BY <2>2, <2>3, <2>4, <2>5
  <2>7. d + e + (c - x) <= a + b + c
    BY <2>2, <2>3
  <2>8. Owed(t) = a + b + c /\ Owed(t)' = d + e + (c - x)
    BY <1>11, <2>1, <2>6 DEF Owed
  <2>9. QED
    BY <1>11, <2>2, <2>4, <2>7, <2>8 DEF Finite
<1>18. 1 \in Tuples
  <2>1. MaxCalls \in Nat \ {0}
    BY BoxAssumption
  <2>2. QED
    BY <2>1 DEF Tuples
<1>19. QED
  BY <1>1, <1>9, <1>10, <1>17, <1>18, OwedNoMore

-----------------------------------------------------------------------------
(* The fiber keeps count. *)

\* What a returning handler has to give back: what its task stands for, or its port.
Back == IF batch = <<>> THEN Load(Head(queue)) ELSE batch[1].port

LEMMA ReturnWrites ==
  ASSUME BoxInv, queue # <<>>, "shared" \notin trouble, NEW result, Return(result)
  PROVE  /\ queue[1] = Head(queue) /\ queue[1] \in DOMAIN request /\ request[queue[1]].at = "sent"
         /\ queue[1] \in Range(queue)
         /\ \A q : q \in Range(queue') <=> q \in Range(queue) /\ q # queue[1]
         /\ request'[queue[1]].fresh = (result.output # {})
         /\ result.output = {} => request'[queue[1]].output = request[queue[1]].output
<1>1. PICK r : r = queue[1]
  OBVIOUS
<1>2. queue \in Seq(DOMAIN request)
  BY DEF BoxInv, TaskPart
<1>3. PICK n \in Nat : n = Len(queue) /\ DOMAIN queue = 1 .. n /\ n > 0
  BY <1>2
<1>4. r = Head(queue) /\ r \in DOMAIN request /\ request[r].at = "sent" /\ r \in Range(queue)
  <2>1. 1 \in DOMAIN queue
    BY <1>3
  <2>2. QED
    BY <1>1, <1>2, <2>1 DEF BoxInv, TaskPart, Range
<1>5. /\ DOMAIN Tail(queue) = 1 .. n - 1
      /\ \A i \in 1 .. n - 1 : Tail(queue)[i] = queue[i + 1] /\ i + 1 \in 1 .. n /\ i + 1 # 1
  BY <1>2, <1>3
<1>6. \A i, j \in 1 .. n : queue[i] = queue[j] => i = j
  BY <1>3 DEF BoxInv, DistinctPart
<1>7. queue' = Tail(queue)
  BY DEF Return
<1>8. ASSUME NEW q \in Range(Tail(queue)) PROVE q \in Range(queue) /\ q # r
  <2>1. PICK i \in 1 .. n - 1 : q = Tail(queue)[i]
    BY <1>5 DEF Range
  <2>2. 1 \in 1 .. n /\ q = queue[i + 1] /\ i + 1 \in 1 .. n /\ i + 1 # 1
    BY <1>3, <1>5, <2>1
  <2>3. QED
    BY <1>1, <1>3, <1>6, <2>2 DEF Range
<1>9. ASSUME NEW q \in Range(queue), q # r PROVE q \in Range(Tail(queue))
  <2>1. PICK i \in 1 .. n : q = queue[i]
    BY <1>3 DEF Range
  <2>2. i - 1 \in 1 .. n - 1 /\ (i - 1) + 1 = i
    BY <1>1, <1>9, <2>1
  <2>3. Tail(queue)[i - 1] = q
    BY <1>5, <2>1, <2>2
  <2>4. QED
    BY <1>5, <2>2, <2>3 DEF Range
<1>10. /\ request'[r].fresh = (result.output # {})
       /\ result.output = {} => request'[r].output = request[r].output
  <2>1. request' = [request EXCEPT
          ![r].failed = result.failed,
          ![r].fresh = result.output # {},
          ![r].output = IF result.output = {} THEN @ ELSE CHOOSE o \in result.output : TRUE]
    BY <1>4 DEF Return
  <2>2. PICK out, fresh : /\ out = IF result.output = {} THEN request[r].output ELSE CHOOSE o \in result.output : TRUE
                          /\ fresh = (result.output # {})
    OBVIOUS
  <2>3. \A q \in DOMAIN request : DOMAIN request[q] = TaskFields
    BY DEF BoxInv, TaskPart
  <2>4. request' = [request EXCEPT ![r].failed = result.failed, ![r].fresh = fresh, ![r].output = out]
    BY <1>4, <2>1, <2>2, <2>3 DEF TaskFields
  <2>5. request'[r].fresh = fresh /\ request'[r].output = out
    BY <1>4, <2>3, <2>4 DEF TaskFields
  <2>6. QED
    BY <2>2, <2>5
<1>11. QED
  BY <1>1, <1>4, <1>7, <1>8, <1>9, <1>10, Zenon

LEMMA ReturnRefs ==
  ASSUME BoxInv, Refs, Calm, Calm', queue # <<>>, NEW result, Return(result), Gives(box, result, Back),
         batch # <<>> => Load(Head(queue)) = <<>>
  PROVE  Refs'
<1>1. PICK r : r = queue[1]
  OBVIOUS
<1>2. "shared" \notin trouble /\ "race" \notin trouble'
  BY DEF Calm
<1>3. /\ r = Head(queue) /\ r \in DOMAIN request /\ request[r].at = "sent" /\ r \in Range(queue)
      /\ \A q : q \in Range(queue') <=> q \in Range(queue) /\ q # r
      /\ request'[r].fresh = (result.output # {})
      /\ result.output = {} => request'[r].output = request[r].output
  BY <1>1, <1>2, ReturnWrites
<1>4. /\ box' = result.w /\ batch' = <<>> /\ DOMAIN request' = DOMAIN request
      /\ \A q \in DOMAIN request : q # r => request'[q] = request[q]
      /\ request'[r].at = "sent"
      /\ \A o : result.output = {o} => request'[r].output = o
  <2>1. /\ box' = result.w /\ batch' = <<>> /\ DOMAIN request' = DOMAIN request
        /\ \A q \in DOMAIN request : q # queue[1] => request'[q] = request[q]
        /\ \A q \in DOMAIN request : request'[q].at = request[q].at
        /\ \A o : result.output = {o} => request'[queue[1]].output = o
    BY ReturnIs
  <2>2. request'[r].at = "sent"
    BY <1>3, <2>1
  <2>3. QED
    BY <1>1, <2>1, <2>2, Zenon
<1>5. UNCHANGED <<held, releasing>> /\ (releasing # <<>> => box'.refs[releasing[1]] = box.refs[releasing[1]])
  BY <1>2, <1>4 DEF Return
<1>6. PICK over \in Seq(Nat) :
        /\ Balanced(box, result.w, Back, over)
        /\ \/ result.output = {} /\ over = <<>>
           \/ \E o : result.output = {o} /\ OutputFits(o) /\ over = Handed(o)
  BY DEF Gives
<1>7. Typed(box)'
  BY <1>4, <1>6 DEF Balanced, Typed
<1>8. \A q \in Range(queue) : q \in DOMAIN request
  BY DEF BoxInv, TaskPart, Range
<1>9. KeysPart'
  BY <1>3, <1>4, <1>8 DEF Refs, KeysPart
<1>10. OutputPart'
  <2>1. OutputFits(request'[r].output)
    BY <1>3, <1>4, <1>6 DEF Refs, OutputPart
  <2>2. QED
    BY <1>4, <2>1 DEF Refs, OutputPart
<1>11. UndoPart'
  BY <1>4 DEF UndoPart
<1>12. HeldPart'
  BY <1>5 DEF Refs, HeldPart
<1>13. Load(r)' = over
  <2>1. UnderWay(r)' /\ r \notin Range(queue')
    BY <1>3, <1>4 DEF UnderWay
  <2>2. CASE result.output = {} /\ over = <<>>
    BY <1>3, <2>1, <2>2 DEF Load
  <2>3. ASSUME NEW o, result.output = {o}, over = Handed(o) PROVE Load(r)' = over
    <3>1. request'[r].fresh = TRUE /\ request'[r].output = o
      BY <1>3, <1>4, <2>3
    <3>2. QED
      BY <2>1, <2>3, <3>1 DEF Load
  <2>4. QED
    BY <1>6, <2>2, <2>3
<1>14. \A q \in DOMAIN request : q # r => Load(q)' = Load(q)
  BY <1>3, <1>4 DEF Load, UnderWay
<1>15. PICK f, g, load, back : f = Loads /\ g = Loads' /\ load = Load(r) /\ back = Back
  OBVIOUS
<1>16. /\ DOMAIN f = DOMAIN request /\ \A q \in DOMAIN request : f[q] = Load(q)
       /\ DOMAIN g = DOMAIN request /\ \A q \in DOMAIN request : g[q] = Load(q)'
  BY <1>4, <1>15 DEF Loads
<1>17. load \in Seq(Nat)
  BY <1>3, <1>15, LoadType
<1>18. OneDiffers(f, g, r, load, over)
  BY <1>3, <1>6, <1>13, <1>14, <1>15, <1>16, <1>17 DEF OneDiffers
<1>19. ASSUME NEW t \in Tuples
       PROVE  /\ IsFiniteSet(Everywhere(held.ports, t)') /\ IsFiniteSet(Everywhere(Loads, t)')
              /\ box'.refs[t] >= Has(box.space, t)' + held'.tuples[t] + Cardinality(Everywhere(held.ports, t)')
                                 + Cardinality(Everywhere(Loads, t)') + Cardinality(Places(Undoing, t)') + Releases(t)'
  <2>1. PICK w : w = result.w
    OBVIOUS
  <2>2. PICK a, b, c, d, l, o, k, s :
          /\ a = Has(box.space, t) /\ b = Cardinality(Everywhere(held.ports, t)) /\ c = Cardinality(Everywhere(f, t))
          /\ d = Cardinality(Places(Undoing, t)) /\ l = Cardinality(Places(load, t))
          /\ o = Cardinality(Places(over, t)) /\ k = Cardinality(Places(back, t)) /\ s = Has(w.space, t)
    OBVIOUS
  <2>3. /\ box.refs[t] \in Int /\ a \in Int /\ held.tuples[t] \in Nat /\ b \in Nat /\ c \in Nat /\ d \in Nat
        /\ Releases(t) \in {0, 1} /\ IsFiniteSet(Everywhere(f, t)) /\ IsFiniteSet(Everywhere(held.ports, t))
        /\ box.refs[t] >= a + held.tuples[t] + b + c + d + Releases(t)
    BY <1>15, <2>2, CountTypes
  <2>4. l \in Nat /\ o \in Nat /\ s \in Int /\ w.refs[t] \in Int
    <3>1. l \in Nat /\ o \in Nat
      BY <1>6, <1>17, <2>2, PlacesFinite
    <3>2. s \in Int /\ w.refs[t] \in Int
      BY <1>6, <2>1, <2>2, HasType DEF Balanced, Typed
    <3>3. QED
      BY <3>1, <3>2
  <2>5. k = l + d /\ k \in Nat
    <3>1. PICK none : none = <<>>
      OBVIOUS
    <3>2. Cardinality(Places(none, t)) = 0
      BY <3>1, PlacesOf
    <3>3. CASE batch = <<>>
      <4>1. back = load /\ Undoing = none
        BY <1>3, <1>15, <3>1, <3>3 DEF Back, Undoing
      <4>2. QED
        BY <2>2, <2>4, <3>2, <4>1
    <3>4. CASE batch # <<>>
      <4>1. back = Undoing /\ load = none
        BY <1>3, <1>15, <3>1, <3>4 DEF Back, Undoing
      <4>2. QED
        BY <2>2, <2>3, <3>2, <4>1
    <3>5. QED
      BY <3>3, <3>4
  <2>6. w.refs[t] - s - o >= box.refs[t] - a - k
    BY <1>6, <1>15, <2>1, <2>2 DEF Balanced
  <2>7. IsFiniteSet(Everywhere(g, t)) /\ Cardinality(Everywhere(g, t)) = c - l + o
    BY <1>18, <2>2, <2>3, OneChanges
  <2>8. w.refs[t] >= s + held.tuples[t] + b + (c - l + o) + 0 + Releases(t)
    <3>1. PICK p, q, h, y : p = w.refs[t] /\ q = box.refs[t] /\ h = held.tuples[t] /\ y = Releases(t)
      OBVIOUS
    <3>2. p \in Int /\ q \in Int /\ h \in Int /\ y \in Int /\ a \in Int /\ b \in Int /\ c \in Int /\ d \in Int
          /\ l \in Int /\ o \in Int /\ k \in Int /\ s \in Int
      BY <2>3, <2>4, <2>5, <3>1
    <3>3. q >= a + h + b + c + d + y /\ k = l + d /\ p - s - o >= q - a - k
      BY <2>3, <2>5, <2>6, <3>1
    <3>4. p >= s + h + b + (c - l + o) + 0 + y
      BY <3>2, <3>3
    <3>5. QED
      BY <3>1, <3>4
  <2>9. Cardinality(Places(Undoing, t)') = 0
    <3>1. Undoing' = <<>>
      BY <1>4 DEF Undoing
    <3>2. Places(Undoing, t)' = Places(<<>>, t)
      BY <3>1 DEF Places
    <3>3. QED
      BY <3>2, PlacesOf
  <2>10. /\ box'.refs[t] = w.refs[t] /\ Has(box.space, t)' = s /\ Releases(t)' = Releases(t)
         /\ held'.tuples[t] = held.tuples[t] /\ Everywhere(held.ports, t)' = Everywhere(held.ports, t)
    BY <1>4, <1>5, <2>1, <2>2 DEF Releases, Everywhere, Has
  <2>11. QED
    BY <1>15, <2>2, <2>3, <2>7, <2>8, <2>9, <2>10
<1>20. CountPart'
  BY <1>19 DEF CountPart
<1>21. QED
  BY <1>7, <1>9, <1>10, <1>11, <1>12, <1>20 DEF Refs

LEMMA OpIs ==
  ASSUME BoxInv, Refs, queue # <<>>
  PROVE  /\ Head(queue) \in Range(queue) /\ Op \in Calls /\ Op = request[Head(queue)].op
         /\ KeysFit(Op, request[Head(queue)].keys)
         /\ Load(Head(queue)) = Given(Op, request[Head(queue)].keys)
<1>1. Head(queue) = queue[1] /\ 1 \in DOMAIN queue
  BY DEF BoxInv, TaskPart
<1>2. Head(queue) \in Range(queue) /\ Op \in Calls
  BY <1>1 DEF BoxInv, TaskPart, Range, Op
<1>3. QED
  BY <1>2 DEF Refs, KeysPart, Op, Load

LEMMA ExecuteRefs ==
  ASSUME BoxInv, Refs, Calm, Calm', NEW fault, Execute(fault)
  PROVE  Refs'
<1>1. PICK keys : keys = request[Head(queue)].keys
  OBVIOUS
<1>2. PICK result : result = Handle(Later(box), Op, keys, fault)
  OBVIOUS
<1>3. queue # <<>> /\ batch = <<>> /\ Op \notin ManyCalls /\ Return(result)
  BY <1>1, <1>2 DEF Execute, Running
<1>4. Op \in Calls \ ManyCalls /\ KeysFit(Op, keys) /\ Back = Given(Op, keys)
  BY <1>1, <1>3, OpIs DEF Back
<1>5. Typed(box) /\ SameCounts(box, Later(box))
  BY LaterCounts DEF Refs
<1>6. PICK w : w = Later(box) /\ Typed(w)
  BY <1>5, SameIsBalanced
<1>7. Gives(w, result, Back)
  BY <1>2, <1>4, <1>6, HandleGives
<1>8. \A over : Balanced(w, result.w, Back, over) => Balanced(box, result.w, Back, over)
  BY <1>5, <1>6 DEF Balanced, SameCounts
<1>9. Gives(box, result, Back)
  BY <1>7, <1>8 DEF Gives
<1>10. QED
  BY <1>3, <1>9, ReturnRefs

\* In a batch, as long as no request was shared, the first task names no tuple.
LEMMA BatchRefs ==
  ASSUME BoxInv, Refs, Calm, Running(TRUE)
  PROVE  /\ batch # <<>> /\ queue # <<>> /\ batch[1].op \in ManyCalls /\ DOMAIN batch[1] = BatchFields
         /\ Load(Head(queue)) = <<>> /\ Back = batch[1].port /\ Undoing = batch[1].port
         /\ SpaceOf(batch[1].space, Len(box.key)) /\ batch[1].left \in Seq(Keys) /\ batch[1].port \in Seq(Nat)
<1>1. /\ batch # <<>> /\ queue # <<>> /\ batch[1].op \in ManyCalls /\ DOMAIN batch[1] = BatchFields
      /\ batch[1].op = Op
  BY InBatch DEF Calm
<1>2. Load(Head(queue)) = <<>>
  BY <1>1, OpIs DEF Given, ManyCalls
<1>3. QED
  BY <1>1, <1>2 DEF Back, Undoing, Refs, UndoPart

LEMMA BalancedWider ==
  ASSUME NEW w, Typed(w), NEW v, Balanced(w, v, <<>>, <<>>), NEW port \in Seq(Nat)
  PROVE  Balanced(w, v, port, <<>>)
<1>1. ASSUME NEW t \in Tuples
      PROVE  v.refs[t] - Has(v.space, t) - Cardinality(Places(<<>>, t))
               >= w.refs[t] - Has(w.space, t) - Cardinality(Places(port, t))
  <2>1. PICK a, b, c, d, e : /\ a = v.refs[t] /\ b = Has(v.space, t) /\ c = w.refs[t] /\ d = Has(w.space, t)
                             /\ e = Cardinality(Places(port, t))
    OBVIOUS
  <2>2. Cardinality(Places(<<>>, t)) = 0 /\ e \in Nat
    BY <2>1, PlacesOf, PlacesFinite
  <2>3. a \in Int /\ b \in Int /\ c \in Int /\ d \in Int
    BY <2>1, HasType DEF Balanced, Typed
  <2>4. a - b - 0 >= c - d - 0
    BY <2>1, <2>2 DEF Balanced
  <2>5. a - b - 0 >= c - d - e
    BY <2>2, <2>3, <2>4
  <2>6. QED
    BY <2>1, <2>2, <2>5
<1>2. QED
  BY <1>1 DEF Balanced

\* What is undone keeps count: the port gives back its references.
LEMMA UndoneGives ==
  ASSUME BoxInv, Refs, batch # <<>>, NEW w, Balanced(box, w, <<>>, <<>>)
  PROVE  Balanced(box, Undone(w), batch[1].port, <<>>)
<1>1. PICK port, space : port = batch[1].port /\ space = batch[1].space
  OBVIOUS
<1>2. port \in Seq(Nat) /\ SpaceOf(space, Len(box.key)) /\ Len(box.key) \in Nat /\ Typed(box)
  BY <1>1 DEF Refs, UndoPart, Typed
<1>3. Typed(w) /\ Len(w.key) >= Len(box.key) /\ Len(w.key) \in Nat
  BY DEF Balanced, Typed
<1>4. PICK v : v = Unported(w, port)
  OBVIOUS
<1>5. /\ Typed(v) /\ v.key = w.key /\ v.space = w.space
      /\ \A t \in Tuples : v.refs[t] = w.refs[t] - Cardinality(Places(port, t))
  BY <1>2, <1>3, <1>4, PortIs
<1>6. PICK u : u = Undone(w)
  OBVIOUS
<1>7. /\ Typed(u) /\ u.key = w.key
      /\ \A t \in Tuples : u.refs[t] - Has(u.space, t) = v.refs[t] - Has(v.space, t)
  <2>1. CASE batch[1].op = "next_many"
    <3>1. u = v
      BY <1>1, <1>4, <1>6, <2>1 DEF Undone
    <3>2. QED
      BY <1>5, <3>1
  <2>2. CASE batch[1].op # "next_many"
    <3>1. u = txn_rollback(v, space)
      BY <1>1, <1>4, <1>6, <2>2 DEF Undone
    <3>2. 0 .. Len(box.key) \subseteq 0 .. Len(v.key)
      BY <1>2, <1>3, <1>5
    <3>3. SpaceOf(space, Len(v.key))
      BY <1>2, <3>2 DEF SpaceOf
    <3>4. /\ Typed(u) /\ u.key = v.key /\ u.space = space
          /\ \A t \in Tuples : u.refs[t] - Has(space, t) = v.refs[t] - Has(v.space, t)
      BY <1>5, <3>1, <3>3, RollbackIs
    <3>5. QED
      BY <1>5, <3>4
  <2>3. QED
    BY <2>1, <2>2
<1>8. ASSUME NEW t \in Tuples
      PROVE  u.refs[t] - Has(u.space, t) - Cardinality(Places(<<>>, t))
               >= box.refs[t] - Has(box.space, t) - Cardinality(Places(port, t))
  <2>1. PICK a, b, c, d, e, x, y, z :
          /\ a = u.refs[t] /\ b = Has(u.space, t) /\ c = v.refs[t] /\ d = Has(v.space, t)
          /\ e = Cardinality(Places(port, t)) /\ x = w.refs[t] /\ y = box.refs[t] /\ z = Has(box.space, t)
    OBVIOUS
  <2>2. Cardinality(Places(<<>>, t)) = 0 /\ e \in Nat
    BY <1>2, <2>1, PlacesOf, PlacesFinite
  <2>3. a \in Int /\ b \in Int /\ c \in Int /\ d \in Int /\ x \in Int /\ y \in Int /\ z \in Int
    BY <1>2, <1>3, <1>5, <1>7, <2>1, HasType DEF Typed
  <2>4. a - b = c - d /\ c = x - e
    BY <1>5, <1>7, <2>1
  <2>5. x - d - 0 >= y - z - 0
    BY <1>5, <2>1, <2>2 DEF Balanced
  <2>6. a - b - 0 >= y - z - e
    BY <2>2, <2>3, <2>4, <2>5
  <2>7. QED
    BY <2>1, <2>2, <2>6
<1>9. QED
  BY <1>1, <1>3, <1>6, <1>7, <1>8 DEF Balanced

LEMMA CommitRefs ==
  ASSUME BoxInv, Refs, Calm, Calm', NEW fault, Commit(fault)
  PROVE  Refs'
<1>1. PICK port : port = batch[1].port
  OBVIOUS
<1>2. /\ batch # <<>> /\ queue # <<>> /\ Load(Head(queue)) = <<>> /\ Back = port /\ port \in Seq(Nat) /\ Typed(box)
  BY <1>1, BatchRefs DEF Commit, Refs
<1>3. CASE Return(Done(box, Output("port", port)))
  <2>1. Balanced(box, box, port, port)
    <3>1. ASSUME NEW t \in Tuples
          PROVE  box.refs[t] - Has(box.space, t) - Cardinality(Places(port, t)) \in Int
      <4>1. Cardinality(Places(port, t)) \in Nat
        BY <1>2, PlacesFinite
      <4>2. QED
        BY <1>2, <4>1, HasType DEF Typed
    <3>2. Len(box.key) \in Nat
      BY <1>2 DEF Typed
    <3>3. QED
      BY <1>2, <3>1, <3>2 DEF Balanced
  <2>2. Gives(box, Done(box, Output("port", port)), Back)
    BY <1>2, <2>1, PortGives
  <2>3. QED
    BY <1>2, <1>3, <2>2, ReturnRefs
<1>4. CASE Return(storage_send_error(Undone([box EXCEPT !.diag = "own"])))
  <2>1. PICK w : w = [box EXCEPT !.diag = "own"]
    OBVIOUS
  <2>2. Balanced(box, w, <<>>, <<>>)
    BY <1>2, <2>1, FieldsKept, SameIsBalanced
  <2>3. Balanced(box, Undone(w), Back, <<>>)
    BY <1>1, <1>2, <2>2, UndoneGives
  <2>4. Gives(box, storage_send_error(Undone(w)), Back)
    BY <2>3, PlainGives
  <2>5. QED
    BY <1>2, <1>4, <2>1, <2>4, ReturnRefs
<1>5. QED
  BY <1>1, <1>3, <1>4 DEF Commit

\* A step that leaves the requests alone: what the engine has more is as much as its
\* port and the isolates hold more.
LEMMA StepRefs ==
  ASSUME BoxInv, Refs, UNCHANGED <<request, queue>>, held'.ports = held.ports,
         Typed(box)', UndoPart', HeldPart',
         \A t \in Tuples :
           /\ Cardinality(Places(Undoing, t))' \in Nat
           /\ box'.refs[t] - Has(box.space, t)' - held'.tuples[t] - Cardinality(Places(Undoing, t))' - Releases(t)'
                >= box.refs[t] - Has(box.space, t) - held.tuples[t] - Cardinality(Places(Undoing, t)) - Releases(t)
  PROVE  Refs'
<1>1. KeysPart' /\ OutputPart'
  BY DEF Refs, KeysPart, OutputPart
<1>2. Loads' = Loads
  BY DEF Loads, Load, UnderWay
<1>3. ASSUME NEW t \in Tuples
      PROVE  /\ IsFiniteSet(Everywhere(held.ports, t)') /\ IsFiniteSet(Everywhere(Loads, t)')
             /\ box'.refs[t] >= Has(box.space, t)' + held'.tuples[t] + Cardinality(Everywhere(held.ports, t)')
                                + Cardinality(Everywhere(Loads, t)') + Cardinality(Places(Undoing, t)') + Releases(t)'
  <2>1. Everywhere(held.ports, t)' = Everywhere(held.ports, t) /\ Everywhere(Loads, t)' = Everywhere(Loads, t)
    BY <1>2 DEF Everywhere
  <2>2. PICK a, b, c, d, e, f, g :
          /\ a = Has(box.space, t) /\ b = Cardinality(Everywhere(held.ports, t)) /\ c = Cardinality(Everywhere(Loads, t))
          /\ d = Cardinality(Places(Undoing, t)) /\ e = Releases(t) /\ f = held.tuples[t] /\ g = box.refs[t]
    OBVIOUS
  <2>3. PICK k, l, m, n, o :
          /\ k = Has(box.space, t)' /\ l = Cardinality(Places(Undoing, t)') /\ m = Releases(t)' /\ n = held'.tuples[t]
          /\ o = box'.refs[t]
    OBVIOUS
  <2>4. /\ g \in Int /\ a \in Int /\ f \in Int /\ b \in Int /\ c \in Int /\ d \in Int /\ e \in Int
        /\ IsFiniteSet(Everywhere(held.ports, t)) /\ IsFiniteSet(Everywhere(Loads, t))
        /\ g >= a + f + b + c + d + e
    <3>1. Releases(t) \in Int
      BY CountTypes
    <3>2. QED
      BY <2>2, <3>1, CountTypes
  <2>5. k \in Int /\ l \in Int /\ m \in Int /\ n \in Int /\ o \in Int
    <3>1. k \in Int
      BY <2>3, HasType
    <3>2. n \in Int /\ o \in Int
      BY <2>3 DEF HeldPart, Typed
    <3>3. m \in Int
      BY <2>3 DEF Releases
    <3>4. l \in Int
      BY <2>3
    <3>5. QED
      BY <3>1, <3>2, <3>3, <3>4
  <2>6. o - k - n - l - m >= g - a - f - d - e
    BY <2>2, <2>3
  <2>7. o >= k + n + b + c + l + m
    BY <2>4, <2>5, <2>6
  <2>8. QED
    BY <2>1, <2>2, <2>3, <2>4, <2>7
<1>4. CountPart'
  BY <1>3 DEF CountPart
<1>5. QED
  BY <1>1, <1>4 DEF Refs

LEMMA BeginRefs ==
  ASSUME BoxInv, Refs, Calm, Begin
  PROVE  Refs'
<1>1. PICK keys, none : keys = request[Head(queue)].keys /\ none = <<>>
  OBVIOUS
<1>2. /\ queue # <<>> /\ batch = none /\ Op \in ManyCalls
      /\ batch' = <<[op |-> Op, left |-> keys, space |-> box.space, port |-> none]>>
      /\ box' = Later(box) /\ UNCHANGED <<request, queue, held, releasing>>
  BY <1>1 DEF Begin, Running
<1>3. Typed(box) /\ SameCounts(box, Later(box))
  BY LaterCounts DEF Refs
<1>4. Typed(box)' /\ box'.space = box.space /\ box'.refs = box.refs /\ box'.key = box.key
  <2>1. PICK w : w = Later(box)
    OBVIOUS
  <2>2. Typed(w) /\ w.space = box.space /\ w.refs = box.refs /\ w.key = box.key
    BY <1>3, <2>1, SameIsBalanced DEF SameCounts
  <2>3. QED
    BY <1>2, <2>1, <2>2 DEF Typed
<1>5. keys \in Seq(Keys)
  BY <1>1, <1>2, OpIs DEF KeysFit, ManyCalls, FreeCalls
<1>6. /\ batch' # <<>> /\ batch'[1].space = box.space /\ batch'[1].left = keys /\ batch'[1].port = none
  BY <1>2
<1>7. none \in Seq(Nat)
  BY <1>1
<1>8. UndoPart'
  BY <1>3, <1>4, <1>5, <1>6, <1>7 DEF UndoPart, Typed
<1>9. HeldPart'
  BY <1>2, <1>4 DEF Refs, HeldPart
<1>10. Undoing = none /\ Undoing' = none
  BY <1>1, <1>2, <1>6 DEF Undoing
<1>11. ASSUME NEW t \in Tuples
       PROVE  /\ Cardinality(Places(Undoing, t))' \in Nat
              /\ box'.refs[t] - Has(box.space, t)' - held'.tuples[t] - Cardinality(Places(Undoing, t))' - Releases(t)'
                   >= box.refs[t] - Has(box.space, t) - held.tuples[t] - Cardinality(Places(Undoing, t)) - Releases(t)
  <2>1. /\ box'.refs[t] = box.refs[t] /\ Has(box.space, t)' = Has(box.space, t) /\ held'.tuples[t] = held.tuples[t]
        /\ Cardinality(Places(Undoing, t))' = Cardinality(Places(Undoing, t)) /\ Releases(t)' = Releases(t)
    BY <1>2, <1>4, <1>10 DEF Has, Releases, Places
  <2>2. box.refs[t] - Has(box.space, t) - held.tuples[t] - Cardinality(Places(Undoing, t)) - Releases(t) \in Int
    BY CountTypes
  <2>3. Cardinality(Places(Undoing, t)) \in Nat
    BY CountTypes
  <2>4. QED
    BY <2>1, <2>2, <2>3
<1>12. QED
  BY <1>2, <1>4, <1>8, <1>9, <1>11, StepRefs

\* An isolate reads a count and writes it back one less: nobody else changed it.
LEMMA ReleaseRefs ==
  ASSUME BoxInv, Refs, ReleaseRead \/ ReleaseWrite
  PROVE  Refs'
<1>1. UNCHANGED <<request, queue, batch>>
  BY DEF ReleaseRead, ReleaseWrite
<1>2. Holding(held) /\ Typed(box)
  BY HoldingIs DEF Refs
<1>3. CASE ReleaseRead
  <2>1. PICK u \in Tuples : /\ held.tuples[u] > 0 /\ held' = [held EXCEPT !.tuples[u] = @ - 1]
                            /\ releasing' = <<u, box.refs[u]>>
    BY <1>3 DEF ReleaseRead
  <2>2. releasing = <<>> /\ box' = box
    BY <1>3 DEF ReleaseRead
  <2>3. PICK tuples : tuples = [held.tuples EXCEPT ![u] = @ - 1]
    OBVIOUS
  <2>4. tuples \in [Tuples -> Nat] /\ \A t \in Tuples : tuples[t] = held.tuples[t] - (IF t = u THEN 1 ELSE 0)
    BY <1>2, <2>1, <2>3 DEF Holding
  <2>5. Holding(held') /\ held'.tuples = tuples /\ held'.ports = held.ports
    BY <1>2, <2>1, <2>3, <2>4 DEF Holding
  <2>6. /\ releasing' # <<>> /\ releasing'[1] = u /\ releasing'[2] = box.refs[u] /\ box.refs[u] \in Int
    BY <1>2, <2>1 DEF Typed
  <2>7. HeldPart'
    BY <2>2, <2>5, <2>6 DEF HeldPart, Holding
  <2>8. Typed(box)' /\ UndoPart'
    BY <1>1, <1>2, <2>2 DEF Refs, UndoPart, Typed
  <2>9. ASSUME NEW t \in Tuples
        PROVE  /\ Cardinality(Places(Undoing, t))' \in Nat
               /\ box'.refs[t] - Has(box.space, t)' - held'.tuples[t] - Cardinality(Places(Undoing, t))' - Releases(t)'
                    >= box.refs[t] - Has(box.space, t) - held.tuples[t] - Cardinality(Places(Undoing, t)) - Releases(t)
    <3>1. /\ Has(box.space, t)' = Has(box.space, t) /\ Places(Undoing, t)' = Places(Undoing, t)
      BY <1>1, <2>2 DEF Has, Undoing, Places
    <3>2. /\ Releases(t) = 0 /\ Releases(t)' = IF t = u THEN 1 ELSE 0
      BY <2>2, <2>6 DEF Releases
    <3>3. PICK a, b, c, d : /\ a = box.refs[t] /\ b = Has(box.space, t) /\ c = Cardinality(Places(Undoing, t))
                            /\ d = held.tuples[t]
      OBVIOUS
    <3>4. a \in Int /\ b \in Int /\ c \in Nat /\ d \in Int
      BY <3>3, CountTypes
    <3>5. a - b - (d - (IF t = u THEN 1 ELSE 0)) - c - (IF t = u THEN 1 ELSE 0) >= a - b - d - c - 0
      BY <3>4
    <3>6. QED
      BY <2>2, <2>4, <2>5, <3>1, <3>2, <3>3, <3>4, <3>5
  <2>10. QED
    BY <1>1, <2>5, <2>7, <2>8, <2>9, StepRefs
<1>4. CASE ReleaseWrite
  <2>1. PICK u, n : u = releasing[1] /\ n = releasing[2]
    OBVIOUS
  <2>2. /\ releasing # <<>> /\ releasing' = <<>> /\ held' = held /\ box' = [box EXCEPT !.refs[u] = n - 1]
    BY <1>4, <2>1 DEF ReleaseWrite
  <2>3. u \in Tuples /\ n \in Int /\ n >= box.refs[u]
    BY <2>1, <2>2 DEF Refs, HeldPart
  <2>4. PICK refs : refs = [box.refs EXCEPT ![u] = n - 1]
    OBVIOUS
  <2>5. /\ refs \in [Tuples -> Int] /\ refs[u] = n - 1
        /\ \A t \in Tuples : t # u => refs[t] = box.refs[t]
    BY <1>2, <2>3, <2>4 DEF Typed
  <2>6. DOMAIN box' = BoxFields /\ box'.space = box.space /\ box'.key = box.key /\ box'.refs = refs
    BY <1>2, <2>2, <2>4 DEF Typed, BoxFields
  <2>7. Typed(box)' /\ UndoPart'
    BY <1>1, <1>2, <2>5, <2>6 DEF Refs, UndoPart, Typed
  <2>8. HeldPart'
    BY <2>2 DEF Refs, HeldPart
  <2>9. ASSUME NEW t \in Tuples
        PROVE  /\ Cardinality(Places(Undoing, t))' \in Nat
               /\ box'.refs[t] - Has(box.space, t)' - held'.tuples[t] - Cardinality(Places(Undoing, t))' - Releases(t)'
                    >= box.refs[t] - Has(box.space, t) - held.tuples[t] - Cardinality(Places(Undoing, t)) - Releases(t)
    <3>1. /\ Has(box.space, t)' = Has(box.space, t) /\ Places(Undoing, t)' = Places(Undoing, t)
      BY <1>1, <2>6 DEF Has, Undoing, Places
    <3>2. /\ Releases(t)' = 0 /\ Releases(t) = IF t = u THEN 1 ELSE 0
      BY <2>1, <2>2 DEF Releases
    <3>3. PICK a, b, c, d, e : /\ a = box.refs[t] /\ b = Has(box.space, t) /\ c = Cardinality(Places(Undoing, t))
                               /\ d = held.tuples[t] /\ e = refs[t]
      OBVIOUS
    <3>4. a \in Int /\ b \in Int /\ c \in Nat /\ d \in Int /\ e \in Int
      BY <2>5, <3>3, CountTypes
    <3>5. e >= a - (IF t = u THEN 1 ELSE 0)
      BY <2>3, <2>5, <3>3, <3>4
    <3>6. e - b - d - c - 0 >= a - b - d - c - (IF t = u THEN 1 ELSE 0)
      BY <3>4, <3>5
    <3>7. QED
      BY <2>2, <2>6, <3>1, <3>2, <3>3, <3>4, <3>6
  <2>10. QED
    BY <1>1, <2>2, <2>7, <2>8, <2>9, StepRefs
<1>5. QED
  BY <1>3, <1>4

\* The engine references no other tuple than the one it answers.
Lowers(w, v, u) == \A x \in Tuples : x # u => v.refs[x] <= w.refs[x]

LEMMA StoreLowers ==
  ASSUME NEW w, Typed(w), NEW k \in Keys
  PROVE  /\ \A u : Lowers(w, w, u) /\ Lowers(w, Erase(w, k), u)
         /\ Lowers(w, Store(w, k), Len(w.key) + 1)
<1>1. \A x \in Tuples : w.refs[x] \in Int
  BY DEF Typed
<1>2. PICK e : e = Erase(w, k)
  OBVIOUS
<1>3. Typed(e) /\ e.key = w.key
  BY <1>2, ErasedIs
<1>4. \A x \in Tuples : e.refs[x] <= w.refs[x] /\ e.refs[x] \in Int
  <2>1. CASE w.space[k] = NoTuple
    <3>1. e = w
      BY <1>2, <2>1 DEF Erase
    <3>2. QED
      BY <1>1, <3>1
  <2>2. CASE w.space[k] # NoTuple
    <3>1. PICK s, v : s = w.space[k] /\ v = Referred(w, s, -1)
      OBVIOUS
    <3>2. Typed(v) /\ \A x \in Tuples : v.refs[x] = w.refs[x] + (IF x = s THEN -1 ELSE 0)
      BY <3>1, ReferredIs
    <3>3. e = [v EXCEPT !.space[k] = NoTuple]
      BY <1>2, <2>2, <3>1 DEF Erase
    <3>4. e.refs = v.refs
      BY <3>2, <3>3 DEF Typed, BoxFields
    <3>5. QED
      BY <1>1, <3>2, <3>4
  <2>3. QED
    BY <2>1, <2>2
<1>5. Lowers(w, Store(w, k), Len(w.key) + 1)
  <2>1. PICK t, v : t = Len(w.key) + 1 /\ v = Referred(e, t, 1)
    OBVIOUS
  <2>2. Typed(v) /\ \A x \in Tuples : v.refs[x] = e.refs[x] + (IF x = t THEN 1 ELSE 0)
    BY <1>3, <2>1, ReferredIs
  <2>3. PICK s : s = Store(w, k)
    OBVIOUS
  <2>4. s = [v EXCEPT !.space[k] = t, !.key = Append(@, k)]
    BY <1>2, <2>1, <2>3 DEF Store
  <2>5. s.refs = v.refs
    BY <2>2, <2>4 DEF Typed, BoxFields
  <2>6. \A x \in Tuples : x # t => s.refs[x] <= w.refs[x]
    BY <1>4, <2>2, <2>5
  <2>7. QED
    BY <2>1, <2>3, <2>6 DEF Lowers
<1>6. QED
  BY <1>1, <1>2, <1>4, <1>5 DEF Lowers

LEMMA OperationCounts ==
  ASSUME NEW w, Typed(w), NEW op \in ManyCalls, NEW k \in Keys
  PROVE  /\ EngineGives(w, Operation(w, op, k))
         /\ Lowers(w, Operation(w, op, k).w, Operation(w, op, k).tuple)
<1>1. CASE op = "next_many"
  <2>1. Operation(w, op, k) = box_iterator_next(w)
    BY <1>1 DEF Operation, storage_iterator_next_many
  <2>2. box_iterator_next(w).w.refs = w.refs
    <3>1. PICK ahead : ahead = {j \in Present(w) : j > w.iterator}
      OBVIOUS
    <3>2. box_iterator_next(w) = IF ahead = {} THEN Ok(w, NoTuple)
                                 ELSE Ok([w EXCEPT !.iterator = Min(ahead)], w.space[Min(ahead)])
      BY <3>1, Zenon DEF box_iterator_next
    <3>3. PICK m, s : m = Min(ahead) /\ s = w.space[Min(ahead)]
      OBVIOUS
    <3>4. box_iterator_next(w) = Ok(w, NoTuple) \/ box_iterator_next(w) = Ok([w EXCEPT !.iterator = m], s)
      BY <3>2, <3>3
    <3>5. [w EXCEPT !.iterator = m].refs = w.refs
      BY DEF Typed, BoxFields
    <3>6. \A v, t : Ok(v, t).w = v
      BY DEF Ok
    <3>7. QED
      BY <3>4, <3>5, <3>6
  <2>3. Lowers(w, box_iterator_next(w).w, box_iterator_next(w).tuple)
    BY <2>2 DEF Lowers, Typed
  <2>4. QED
    BY <2>1, <2>3, IndexCounts
<1>2. CASE op # "next_many"
  <2>1. Operation(w, op, k) \in {box_replace(w, k), box_insert(w, k), box_update(w, k), box_delete(w, k)}
    BY <1>2 DEF Operation, ManyCalls, storage_space_put_many, storage_space_insert_many,
       storage_space_update_many, storage_space_delete_many, storage_index_update_many
  <2>2. Lowers(w, box_replace(w, k).w, box_replace(w, k).tuple)
    BY StoreLowers DEF box_replace, Ok
  <2>3. Lowers(w, box_delete(w, k).w, box_delete(w, k).tuple)
    BY StoreLowers DEF box_delete, Ok
  <2>4. Refused(w).w.refs = w.refs
    BY DEF Refused, Typed, BoxFields
  <2>5. Lowers(w, box_insert(w, k).w, box_insert(w, k).tuple)
    BY <2>2, <2>4 DEF box_insert, Lowers, Typed
  <2>6. Lowers(w, box_update(w, k).w, box_update(w, k).tuple)
    <3>1. \A u : Lowers(w, Ok(w, u).w, u)
      BY StoreLowers DEF Ok
    <3>2. Ok(w, NoTuple).tuple = NoTuple
      BY DEF Ok
    <3>3. QED
      BY <2>2, <3>1, <3>2 DEF box_update
  <2>7. QED
    BY <2>1, <2>2, <2>3, <2>5, <2>6, EngineCounts
<1>3. QED
  BY <1>1, <1>2

LEMMA ItemRefs ==
  ASSUME BoxInv, Refs, Calm, Calm', NEW fault, Item(fault)
  PROVE  Refs'
<1>1. PICK op, k, port : op = batch[1].op /\ k = Head(batch[1].left) /\ port = batch[1].port
  OBVIOUS
<1>2. PICK result : result = IF fault = "engine" THEN Refused(box) ELSE Operation(box, op, k)
  OBVIOUS
<1>3. PICK w : w = IF op = "next_many" \/ result.tuple = NoTuple THEN result.w ELSE Referred(result.w, result.tuple, 1)
  OBVIOUS
<1>4. /\ batch # <<>> /\ queue # <<>> /\ op \in ManyCalls /\ DOMAIN batch[1] = BatchFields
      /\ Load(Head(queue)) = <<>> /\ Back = port /\ Undoing = port
      /\ SpaceOf(batch[1].space, Len(box.key)) /\ batch[1].left \in Seq(Keys) /\ port \in Seq(Nat)
  BY <1>1, BatchRefs DEF Item
<1>5. k \in Keys /\ Tail(batch[1].left) \in Seq(Keys)
  <2>1. batch[1].left # <<>>
    BY DEF Item
  <2>2. QED
    BY <1>1, <1>4, <2>1
<1>6. Typed(box)
  BY DEF Refs
<1>7. EngineGives(box, result) /\ Lowers(box, result.w, result.tuple)
  <2>1. CASE fault = "engine"
    <3>1. EngineGives(box, Refused(box))
      <4>1. Balanced(box, Refused(box).w, <<>>, <<>>) /\ Refused(box).tuple = NoTuple
        BY <1>6, RefusedIs
      <4>2. NoTuple \in Nat
        BY TupleTypes
      <4>3. QED
        BY <4>1, <4>2, Zenon DEF EngineGives
    <3>2. Refused(box).w.refs = box.refs
      BY <1>6 DEF Refused, Typed, BoxFields
    <3>3. Lowers(box, Refused(box).w, Refused(box).tuple)
      BY <1>6, <3>2 DEF Lowers, Typed
    <3>4. QED
      BY <1>2, <2>1, <3>1, <3>3
  <2>2. CASE fault # "engine"
    BY <1>2, <1>4, <1>5, <1>6, <2>2, OperationCounts
  <2>3. QED
    BY <2>1, <2>2
<1>8. PICK u, v : u = result.tuple /\ v = result.w
  OBVIOUS
<1>9. u \in Nat /\ Typed(v) /\ Balanced(box, v, <<>>, <<>>) /\ Lowers(box, v, u)
  BY <1>7, <1>8 DEF EngineGives, Balanced
<1>10. /\ Typed(w) /\ w.space = v.space /\ w.key = v.key
       /\ \A t \in Tuples : w.refs[t] = v.refs[t] + (IF t = u /\ op # "next_many" /\ u # NoTuple THEN 1 ELSE 0)
  <2>1. CASE op = "next_many" \/ u = NoTuple
    <3>1. w = v /\ \A t \in Tuples : v.refs[t] \in Int
      BY <1>3, <1>8, <1>9, <2>1 DEF Typed
    <3>2. QED
      BY <1>9, <2>1, <3>1
  <2>2. CASE ~(op = "next_many" \/ u = NoTuple)
    <3>1. w = Referred(v, u, 1)
      BY <1>3, <1>8, <2>2
    <3>2. /\ Typed(w) /\ w.space = v.space /\ w.key = v.key
          /\ \A t \in Tuples : w.refs[t] = v.refs[t] + (IF t = u THEN 1 ELSE 0)
      BY <1>9, <3>1, ReferredIs
    <3>3. QED
      BY <2>2, <3>2
  <2>3. QED
    BY <2>1, <2>2
<1>11. Balanced(box, w, <<>>, <<>>)
  <2>1. ASSUME NEW t \in Tuples
        PROVE  w.refs[t] - Has(w.space, t) - Cardinality(Places(<<>>, t))
                 >= box.refs[t] - Has(box.space, t) - Cardinality(Places(<<>>, t))
    <3>1. PICK a, b, c, d, e : /\ a = w.refs[t] /\ b = Has(v.space, t) /\ c = v.refs[t] /\ d = box.refs[t]
                               /\ e = Has(box.space, t)
      OBVIOUS
    <3>2. Cardinality(Places(<<>>, t)) = 0
      BY PlacesOf
    <3>3. a \in Int /\ b \in Int /\ c \in Int /\ d \in Int /\ e \in Int
      BY <1>6, <1>9, <1>10, <3>1, HasType DEF Typed
    <3>4. c - b - 0 >= d - e - 0 /\ a >= c
      BY <1>9, <1>10, <3>1, <3>2, <3>3 DEF Balanced
    <3>5. a - b - 0 >= d - e - 0
      BY <3>3, <3>4
    <3>6. QED
      BY <1>10, <3>1, <3>2, <3>5
  <2>2. QED
    BY <1>9, <1>10, <2>1 DEF Balanced
<1>12. \/ Return(Crash(w))
       \/ Return(storage_send_error(Undone(w)))
       \/ Return(storage_send_error(Undone([w EXCEPT !.diag = "own"])))
       \/ /\ u # NoTuple /\ box' = Referred(w, u, 1)
          /\ batch' = <<[batch[1] EXCEPT !.left = Tail(@), !.port = Append(@, u)]>>
          /\ trouble' = IF releasing # <<>> /\ releasing[1] = u THEN trouble \union {"race"} ELSE trouble
          /\ UNCHANGED <<request, queue, held, releasing>>
  BY <1>1, <1>2, <1>3, <1>8 DEF Item
<1>13. CASE Return(Crash(w))
  <2>1. Balanced(box, w, Back, <<>>)
    BY <1>4, <1>6, <1>11, BalancedWider
  <2>2. Gives(box, Crash(w), Back)
    BY <2>1, PlainGives
  <2>3. QED
    BY <1>4, <1>13, <2>2, ReturnRefs
<1>14. ASSUME NEW x, Balanced(box, x, <<>>, <<>>), Return(storage_send_error(Undone(x)))
       PROVE  Refs'
  <2>1. Balanced(box, Undone(x), Back, <<>>)
    BY <1>1, <1>4, <1>14, UndoneGives
  <2>2. Gives(box, storage_send_error(Undone(x)), Back)
    BY <2>1, PlainGives
  <2>3. QED
    BY <1>4, <1>14, <2>2, ReturnRefs
<1>15. CASE Return(storage_send_error(Undone([w EXCEPT !.diag = "own"])))
  <2>1. PICK x : x = [w EXCEPT !.diag = "own"]
    OBVIOUS
  <2>2. SameCounts(w, x)
    BY <1>10, <2>1, FieldsKept
  <2>3. Balanced(box, x, <<>>, <<>>)
    BY <1>10, <1>11, <2>2, SameIsBalanced DEF Balanced, SameCounts
  <2>4. QED
    BY <1>14, <1>15, <2>1, <2>3
<1>16. CASE /\ u # NoTuple /\ box' = Referred(w, u, 1)
            /\ batch' = <<[batch[1] EXCEPT !.left = Tail(@), !.port = Append(@, u)]>>
            /\ trouble' = IF releasing # <<>> /\ releasing[1] = u THEN trouble \union {"race"} ELSE trouble
            /\ UNCHANGED <<request, queue, held, releasing>>
  <2>1. PICK x : x = Referred(w, u, 1)
    OBVIOUS
  <2>2. /\ Typed(x) /\ x.space = v.space /\ x.key = v.key
        /\ \A t \in Tuples : x.refs[t] = w.refs[t] + (IF t = u THEN 1 ELSE 0)
    BY <1>10, <2>1, ReferredIs
  <2>3. Typed(box)' /\ box' = x
    BY <1>16, <2>1, <2>2 DEF Typed
  <2>4. PICK b, more : b = [batch[1] EXCEPT !.left = Tail(@), !.port = Append(@, u)] /\ more = Append(port, u)
    OBVIOUS
  <2>5. b.left = Tail(batch[1].left) /\ b.port = more /\ b.space = batch[1].space
    BY <1>1, <1>4, <2>4 DEF BatchFields
  <2>6. batch' # <<>> /\ batch'[1] = b
    BY <1>16, <2>4
  <2>7. more \in Seq(Nat)
    BY <1>4, <1>9, <2>4
  <2>8. UndoPart'
    <3>1. Len(v.key) >= Len(box.key) /\ Len(v.key) \in Nat /\ Len(box.key) \in Nat
      BY <1>6, <1>9 DEF Balanced, Typed
    <3>2. 0 .. Len(box.key) \subseteq 0 .. Len(x.key)
      BY <2>2, <3>1
    <3>3. SpaceOf(batch[1].space, Len(x.key))
      BY <1>4, <3>2 DEF SpaceOf
    <3>4. QED
      BY <1>5, <2>3, <2>5, <2>6, <2>7, <3>3 DEF UndoPart
  <2>9. HeldPart'
    <3>1. ASSUME releasing # <<>>
          PROVE  releasing[1] \in Tuples /\ releasing[2] \in Int /\ releasing[2] >= x.refs[releasing[1]]
      <4>1. PICK s, n : s = releasing[1] /\ n = releasing[2]
        OBVIOUS
      <4>2. s \in Tuples /\ n \in Int /\ n >= box.refs[s]
        BY <3>1, <4>1 DEF Refs, HeldPart
      <4>3. s # u
        BY <1>16, <3>1, <4>1 DEF Calm
      <4>4. v.refs[s] <= box.refs[s]
        BY <1>9, <4>2, <4>3 DEF Lowers
      <4>5. x.refs[s] = v.refs[s] + 0 + 0
        BY <1>10, <2>2, <4>2, <4>3
      <4>6. v.refs[s] \in Int /\ box.refs[s] \in Int
        BY <1>6, <1>9, <4>2 DEF Typed
      <4>7. QED
        BY <4>1, <4>2, <4>4, <4>5, <4>6
    <3>2. QED
      BY <1>16, <2>3, <3>1 DEF Refs, HeldPart
  <2>10. Undoing' = more
    BY <2>5, <2>6 DEF Undoing
  <2>11. ASSUME NEW t \in Tuples
         PROVE  /\ Cardinality(Places(Undoing, t))' \in Nat
                /\ box'.refs[t] - Has(box.space, t)' - held'.tuples[t] - Cardinality(Places(Undoing, t))' - Releases(t)'
                     >= box.refs[t] - Has(box.space, t) - held.tuples[t] - Cardinality(Places(Undoing, t)) - Releases(t)
    <3>1. PICK a, c, d, e, f, g, h, i, one :
            /\ a = x.refs[t] /\ c = v.refs[t] /\ d = box.refs[t] /\ e = Has(box.space, t)
            /\ f = Has(v.space, t) /\ g = held.tuples[t] /\ h = Releases(t) /\ i = Cardinality(Places(port, t))
            /\ one = IF u = t THEN 1 ELSE 0
      OBVIOUS
    <3>2. Cardinality(Places(more, t)) = i + one
      <4>1. Cardinality(Places(Append(port, u), t)) = Cardinality(Places(port, t)) + (IF u = t THEN 1 ELSE 0)
        BY <1>4, <1>9, PlacesAppend
      <4>2. QED
        BY <2>4, <3>1, <4>1, Zenon
    <3>3. Releases(t) \in Int
      BY CountTypes
    <3>4. a \in Int /\ c \in Int /\ d \in Int /\ e \in Int /\ f \in Int /\ g \in Int /\ h \in Int /\ i \in Nat
          /\ one \in Nat
      <4>1. a \in Int /\ c \in Int /\ f \in Int
        BY <1>9, <2>2, <3>1, HasType DEF Typed
      <4>2. d \in Int /\ e \in Int /\ g \in Int /\ h \in Int /\ i \in Nat
        BY <1>4, <3>1, <3>3, CountTypes
      <4>3. QED
        BY <3>1, <4>1, <4>2
    <3>5. c - f - 0 >= d - e - 0
      <4>1. Cardinality(Places(<<>>, t)) = 0
        BY PlacesOf
      <4>2. QED
        BY <1>9, <3>1, <4>1 DEF Balanced
    <3>6. a >= c + one
      BY <1>10, <2>2, <3>1, <3>4
    <3>7. a - f - g - (i + one) - h >= d - e - g - i - h
      BY <3>4, <3>5, <3>6
    <3>8. /\ box'.refs[t] = a /\ Has(box.space, t)' = f /\ held'.tuples[t] = g /\ Releases(t)' = h
          /\ Cardinality(Places(Undoing, t))' = i + one /\ i + one \in Nat
      <4>1. box'.refs[t] = a /\ Has(box.space, t)' = f
        BY <2>2, <2>3, <3>1 DEF Has
      <4>2. held'.tuples[t] = g /\ Releases(t)' = h
        BY <1>16, <3>1 DEF Releases
      <4>3. Cardinality(Places(Undoing, t))' = i + one
        BY <2>10, <3>2
      <4>4. QED
        BY <3>4, <4>1, <4>2, <4>3
    <3>9. QED
      BY <1>4, <3>1, <3>7, <3>8
  <2>12. held'.ports = held.ports /\ UNCHANGED <<request, queue>>
    BY <1>16
  <2>13. QED
    BY <2>3, <2>8, <2>9, <2>11, <2>12, StepRefs
<1>17. QED
  BY <1>11, <1>12, <1>13, <1>14, <1>15, <1>16

-----------------------------------------------------------------------------
(* No tuple is freed early. *)

LEMMA RefNext ==
  ASSUME BoxInv, RefInv, [Next]_vars
  PROVE  RefInv'
<1>1. SUFFICES ASSUME Calm' PROVE Refs'
  BY DEF RefInv, Refs
<1>2. Calm /\ Refs
  BY <1>1, TroubleStays DEF RefInv, Refs
<1>3. CASE UNCHANGED vars
  <2>1. KeysPart' /\ OutputPart' /\ UNCHANGED <<request, box, batch, held, releasing>>
    BY <1>2, <1>3 DEF vars, Refs, KeysPart, OutputPart
  <2>2. \A r \in DOMAIN request : r \in DOMAIN request' /\ Load(r)' = Load(r)
    BY <1>3 DEF vars, Load, UnderWay
  <2>3. \A r \in DOMAIN request' : r \in DOMAIN request
    BY <2>1
  <2>4. QED
    BY <1>2, <2>1, <2>2, <2>3, LoadsKept
<1>4. CASE CallPlain \/ CallMany \/ CallIterator \/ FreeBuffer \/ FreePort \/ FreeTuple
  BY <1>1, <1>2, <1>4, CallPlainRefs, CallManyRefs, CallIteratorRefs, FreeBufferRefs, FreePortRefs, FreeTupleRefs
<1>5. CASE Serve
  <2>1. CASE Submit \/ Begin
    BY <1>1, <1>2, <2>1, SubmitRefs, BeginRefs
  <2>2. ASSUME NEW fault, Execute(fault) \/ Item(fault) \/ Commit(fault) PROVE Refs'
    BY <1>1, <1>2, <2>2, ExecuteRefs, ItemRefs, CommitRefs
  <2>3. QED
    BY <1>5, <2>1, <2>2 DEF Serve
<1>6. CASE \/ \E kind \in Kinds : Extend(kind)
           \/ \E r \in DOMAIN request : Complete(r)
  BY <1>1, <1>2, <1>6, ExtendRefs, CompleteRefs
<1>7. CASE ReleaseRead \/ ReleaseWrite
  BY <1>2, <1>7, ReleaseRefs
<1>8. QED
  BY <1>3, <1>4, <1>5, <1>6, <1>7 DEF Next

LEMMA RefInit ==
  ASSUME Init
  PROVE  RefInv
<1>1. PICK none : none = <<>>
  OBVIOUS
<1>2. /\ box = [space |-> [k \in Keys |-> NoTuple], key |-> none, refs |-> [t \in Tuples |-> 0],
                diag |-> "none", iterator |-> -1, buffers |-> 0]
      /\ request = [r \in Kinds \X (1 .. Preallocated) |-> Blank]
      /\ queue = none /\ batch = none /\ releasing = none
      /\ held = [tuples |-> [t \in Tuples |-> 0], ports |-> none, buffers |-> 0, iterator |-> FALSE]
  BY <1>1 DEF Init
<1>3. none \in Seq(Keys) /\ none \in Seq(Seq(Nat)) /\ Len(none) = 0 /\ DOMAIN none = {} /\ Range(none) = {}
  BY <1>1 DEF Range
<1>4. Typed(box)
  <2>1. SpaceOf([k \in Keys |-> NoTuple], 0)
    BY DEF SpaceOf, NoTuple
  <2>2. [t \in Tuples |-> 0] \in [Tuples -> Int]
    OBVIOUS
  <2>3. DOMAIN box = BoxFields /\ box.space = [k \in Keys |-> NoTuple] /\ box.key = none /\ box.refs = [t \in Tuples |-> 0]
    BY <1>2 DEF BoxFields
  <2>4. QED
    BY <1>3, <2>1, <2>2, <2>3 DEF Typed
<1>5. KeysPart
  BY <1>2, <1>3 DEF KeysPart
<1>6. OutputPart
  BY <1>2 DEF OutputPart, OutputFits, Blank, NoOutput, Output
<1>7. UndoPart
  BY <1>1, <1>2 DEF UndoPart
<1>8. HeldPart
  <2>1. [t \in Tuples |-> 0] \in [Tuples -> Nat]
    OBVIOUS
  <2>2. DOMAIN held = {"tuples", "ports", "buffers", "iterator"} /\ held.tuples = [t \in Tuples |-> 0] /\ held.ports = none
    BY <1>2
  <2>3. QED
    BY <1>1, <1>2, <1>3, <2>1, <2>2 DEF HeldPart
<1>9. ASSUME NEW t \in Tuples
      PROVE  /\ IsFiniteSet(Everywhere(held.ports, t)) /\ IsFiniteSet(Everywhere(Loads, t))
             /\ box.refs[t] >= Has(box.space, t) + held.tuples[t] + Cardinality(Everywhere(held.ports, t))
                               + Cardinality(Everywhere(Loads, t)) + Cardinality(Places(Undoing, t)) + Releases(t)
  <2>1. held.ports = none /\ held.tuples[t] = 0 /\ box.refs[t] = 0
    BY <1>2
  <2>2. Everywhere(held.ports, t) = {}
    BY <1>3, <2>1 DEF Everywhere
  <2>3. Everywhere(Loads, t) = {}
    <3>1. \A r \in DOMAIN request : Load(r) = none
      BY <1>1, <1>2, <1>3 DEF Load, UnderWay, Blank
    <3>2. \A r \in DOMAIN Loads : Loads[r] = none
      BY <3>1 DEF Loads
    <3>3. QED
      BY <1>3, <3>2 DEF Everywhere
  <2>4. Cardinality(Places(Undoing, t)) = 0
    <3>1. Undoing = <<>>
      BY <1>1, <1>2 DEF Undoing
    <3>2. QED
      BY <3>1, PlacesOf
  <2>5. Has(box.space, t) = 0 /\ Releases(t) = 0
    <3>1. box.space = [k \in Keys |-> NoTuple]
      BY <1>2
    <3>2. t # NoTuple
      BY TupleTypes
    <3>3. QED
      BY <1>1, <1>2, <3>1, <3>2 DEF Has, Releases
  <2>6. IsFiniteSet({}) /\ Cardinality({}) = 0
    BY FS_EmptySet
  <2>7. QED
    BY <2>1, <2>2, <2>3, <2>4, <2>5, <2>6
<1>10. CountPart
  BY <1>9 DEF CountPart
<1>11. QED
  BY <1>4, <1>5, <1>6, <1>7, <1>8, <1>10 DEF RefInv

\* The keys of a tuple, at most one.
LEMMA KeysOf ==
  ASSUME Refs, NEW t \in Tuples
  PROVE  Cardinality({k \in Keys : box.space[k] = t}) = Has(box.space, t)
<1>1. PICK S : S = {k \in Keys : box.space[k] = t}
  OBVIOUS
<1>2. \A j, k \in S : j = k
  <2>1. t # NoTuple
    BY TupleTypes
  <2>2. QED
    BY <1>1, <2>1 DEF Refs, Typed, SpaceOf
<1>3. CASE S = {}
  <2>1. Has(box.space, t) = 0
    BY <1>1, <1>3 DEF Has
  <2>2. QED
    BY <1>1, <1>3, <2>1, FS_EmptySet
<1>4. CASE S # {}
  <2>1. PICK k : S = {k} /\ k \in Keys /\ box.space[k] = t
    BY <1>1, <1>2, <1>4
  <2>2. Has(box.space, t) = 1
    BY <2>1 DEF Has
  <2>3. QED
    BY <1>1, <2>1, <2>2, FS_Singleton
<1>5. QED
  BY <1>3, <1>4

\* The ports of the isolates.
LEMMA PortsOf ==
  ASSUME BoxInv, Refs, NEW t \in Tuples
  PROVE  InPorts(t) \in Nat /\ InPorts(t) <= Cardinality(Everywhere(held.ports, t))
<1>1. PICK S : S = {pi \in (DOMAIN held.ports) \X (1..MaxKey) :
                      pi[2] \in DOMAIN held.ports[pi[1]] /\ held.ports[pi[1]][pi[2]] = t}
  OBVIOUS
<1>2. S \subseteq Everywhere(held.ports, t)
  <2>1. 1 .. MaxKey \subseteq Nat
    BY TupleTypes
  <2>2. QED
    BY <1>1, <2>1 DEF Everywhere
<1>3. IsFiniteSet(Everywhere(held.ports, t))
  BY CountTypes
<1>4. QED
  BY <1>1, <1>2, <1>3, FS_Subset, FS_CardinalityType DEF InPorts

\* The answers on their way.
LEMMA AnsweredIs ==
  ASSUME BoxInv, Refs, NEW t \in Tuples
  PROVE  Cardinality(Answered(t)) \in Nat /\ Cardinality(Answered(t)) <= Cardinality(Everywhere(Loads, t))
<1>1. PICK E : E = Everywhere(Loads, t)
  OBVIOUS
<1>2. IsFiniteSet(E)
  BY <1>1, CountTypes
<1>3. PICK R : R = {p[1] : p \in E}
  OBVIOUS
<1>4. IsFiniteSet(R) /\ Cardinality(R) <= Cardinality(E) /\ Cardinality(R) \in Nat /\ Cardinality(E) \in Nat
  <2>1. PICK f : f = [p \in E |-> p[1]]
    OBVIOUS
  <2>2. f \in Surjection(E, R)
    BY <1>3, <2>1 DEF Surjection
  <2>3. IsFiniteSet(R) /\ Cardinality(R) <= Cardinality(E)
    BY <1>2, <2>2, FS_Surjection
  <2>4. QED
    BY <1>2, <2>3, FS_CardinalityType
<1>5. ASSUME NEW r \in Answered(t) PROVE r \in R
  <2>1. /\ r \in DOMAIN request /\ UnderWay(r) /\ request[r].fresh
        /\ request[r].output.kind \in {"tuple", "port"} /\ t \in Range(request[r].output.of)
    BY DEF Answered
  <2>2. r \notin Range(queue)
    BY <2>1 DEF Refs, KeysPart
  <2>3. PICK of : of = request[r].output.of
    OBVIOUS
  <2>4. Loads[r] = of /\ r \in DOMAIN Loads
    BY <2>1, <2>2, <2>3 DEF Loads, Load, Handed
  <2>5. of \in Seq(Nat)
    BY <2>1, <2>3 DEF Refs, OutputPart, OutputFits
  <2>6. PICK j \in DOMAIN of : of[j] = t
    BY <2>1, <2>3 DEF Range
  <2>7. j \in Nat
    BY <2>5, <2>6
  <2>8. <<r, j>> \in E
    BY <1>1, <2>4, <2>6, <2>7 DEF Everywhere
  <2>9. QED
    BY <1>3, <2>8
<1>6. Answered(t) \subseteq R
  BY <1>5
<1>7. PICK A : A = Answered(t)
  OBVIOUS
<1>8. Cardinality(A) <= Cardinality(R) /\ Cardinality(A) \in Nat
  BY <1>4, <1>6, <1>7, FS_Subset, FS_CardinalityType
<1>9. QED
  BY <1>1, <1>4, <1>7, <1>8

\* Whatever isolates store, take, hold and give back, whichever handler fails in the
\* middle of a batch and however tasks and answers overlap: as long as no isolate was
\* given the output of an earlier call, no release raced with the storage and no
\* request was shared, no handler gives back a reference somebody still needs.
THEOREM NoTupleFreedEarly == Spec => []NoEarlyFree
<1>1. ASSUME BoxInv, RefInv PROVE NoEarlyFree
  <2>1. SUFFICES ASSUME Calm, NEW t \in Tuples
                 PROVE  box.refs[t] >= Cardinality({k \in Keys : box.space[k] = t}) + held.tuples[t] + InPorts(t)
                                       + Cardinality(Answered(t)) + (IF releasing # <<>> /\ releasing[1] = t THEN 1 ELSE 0)
    BY DEF NoEarlyFree, Calm
  <2>2. Refs
    BY <1>1, <2>1 DEF RefInv, Refs
  <2>3. PICK a, b, c, d, e, f, g, x, y :
          /\ a = box.refs[t] /\ b = Has(box.space, t) /\ c = held.tuples[t]
          /\ d = Cardinality(Everywhere(held.ports, t)) /\ e = Cardinality(Everywhere(Loads, t))
          /\ f = Cardinality(Places(Undoing, t)) /\ g = Releases(t)
          /\ x = InPorts(t) /\ y = Cardinality(Answered(t))
    OBVIOUS
  <2>4. /\ a \in Int /\ b \in Int /\ c \in Nat /\ d \in Nat /\ e \in Nat /\ f \in Nat /\ g \in {0, 1}
        /\ a >= b + c + d + e + f + g
    BY <1>1, <2>2, <2>3, CountTypes
  <2>5. x \in Nat /\ x <= d /\ y \in Nat /\ y <= e
    BY <1>1, <2>2, <2>3, PortsOf, AnsweredIs
  <2>6. a >= b + c + x + y + g
    BY <2>4, <2>5
  <2>7. Cardinality({k \in Keys : box.space[k] = t}) = b
    BY <2>2, <2>3, KeysOf
  <2>8. g = IF releasing # <<>> /\ releasing[1] = t THEN 1 ELSE 0
    BY <2>3 DEF Releases
  <2>9. QED
    BY <2>3, <2>6, <2>7, <2>8
<1>2. Init => BoxInv /\ RefInv
  BY BoxInit, RefInit
<1>3. BoxInv /\ RefInv /\ [Next]_vars => (BoxInv /\ RefInv)'
  BY BoxNext, RefNext
<1>4. QED
  BY <1>1, <1>2, <1>3, PTL DEF Spec
=============================================================================
