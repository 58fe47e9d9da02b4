---------------------------- MODULE MemoryBuffers ----------------------------
(***************************************************************************)
(* The growing buffers of memory/native/memory/io_buffers.h: an input      *)
(* buffer is one contiguous area (ibuf), an output buffer a list of areas  *)
(* (obuf).  The program reserves room, writes into it through the pointer  *)
(* it got and finalizes what it wrote.  The native side repeats sizes and  *)
(* positions in fields of the structure, which Dart reads.                 *)
(*                                                                         *)
(* The areas come from a slab cache under a quota.  ibuf, obuf and mempool *)
(* are of the library small and modelled by what io_buffers.h uses them    *)
(* for.  A byte is the number of the write that put it there.              *)
(***************************************************************************)
EXTENDS Integers, Sequences

CONSTANTS
    Input, Output,  \* the addresses the two pools can give out
    Sizes,          \* the sizes the program reserves; 0 asks for the start capacity
    StartCapacity,
    MaxBytes,       \* bound: the bytes written to one buffer
    NULL

VARIABLES
    buffer,     \* the buffers that are allocated, with their ibuf or obuf
    reserved,   \* what the program wrote at the pointer it got last, or NULL
    written,    \* history: the bytes finalized so far
    crashed     \* memset was given a null pointer

vars == <<buffer, reserved, written, crashed>>

Buffer == Input \cup Output

(***************************************************************************)
(* The library: areas as records [capacity, bytes], the last one in use.   *)
(***************************************************************************)
\* ibuf_create, obuf_create: nothing is taken before the first reserve.
created == [areas |-> <<>>, used |-> 0, unused |-> 0, vectors |-> 0, size |-> 0]

Top(b) == b.areas[Len(b.areas)]

Room(b) == IF b.areas = <<>> THEN 0 ELSE Top(b).capacity - Len(Top(b).bytes)

\* The capacity is doubled until n fits.
Doubled(from, n) ==
    LET capacity[k \in 0 .. n] ==
            IF k = 0 THEN from
            ELSE IF capacity[k - 1] >= n THEN capacity[k - 1] ELSE 2 * capacity[k - 1]
    IN capacity[n]

\* ibuf_reserve moves what was finalized to a larger area.
ibuf_reserve(b, n) ==
    IF Room(b) >= n THEN b
    ELSE LET bytes == IF b.areas = <<>> THEN <<>> ELSE Top(b).bytes
             from == IF b.areas = <<>> THEN StartCapacity ELSE Top(b).capacity
         IN [b EXCEPT !.areas = <<[capacity |-> Doubled(from, Len(bytes) + n), bytes |-> bytes]>>]

\* obuf_reserve begins another area; one that is still empty is replaced.
obuf_reserve(b, n) ==
    IF Room(b) >= n THEN b
    ELSE LET from == IF b.areas = <<>> THEN StartCapacity ELSE 2 * Top(b).capacity
             new == [capacity |-> Doubled(from, n), bytes |-> <<>>]
         IN [b EXCEPT !.areas = IF b.areas # <<>> /\ Top(b).bytes = <<>>
                                THEN Append(SubSeq(@, 1, Len(@) - 1), new) ELSE Append(@, new)]

\* ibuf_alloc, obuf_alloc advance over what lies at the reserved pointer.
alloc(b, bytes) == [b EXCEPT !.areas[Len(b.areas)].bytes = @ \o bytes]
-----------------------------------------------------------------------------
(***************************************************************************)
(* io_buffers.h.                                                           *)
(***************************************************************************)
\* The fields of struct memory_input_buffer after a call.
input_fields(b) == [b EXCEPT !.used = Len(Top(b).bytes), !.unused = Room(b)]

\* What the first n vectors of a buffer hold, one after the other.
Content(areas, n) ==
    LET upto[i \in 0 .. n] == IF i = 0 THEN <<>> ELSE upto[i - 1] \o areas[i].bytes
    IN upto[n]

\* Those of struct memory_output_buffer.
output_fields(b) == [b EXCEPT !.vectors = Len(b.areas),
                              !.size = Len(Content(b.areas, Len(b.areas)))]

Wanted(n) == IF n = 0 THEN StartCapacity ELSE n

memory_input_buffer_reserve(b, n) == input_fields(ibuf_reserve(b, Wanted(n)))

memory_input_buffer_finalize(b, bytes) == input_fields(alloc(b, bytes))

memory_input_buffer_finalize_reserve(b, bytes, n) ==
    memory_input_buffer_reserve(alloc(b, bytes), n)

memory_output_buffer_reserve(b, n) == output_fields(obuf_reserve(b, Wanted(n)))

memory_output_buffer_finalize(b, bytes) == output_fields(alloc(b, bytes))

\* Fault: room is made before the bytes are accepted, so they are looked for
\* in the new area.
Faulty_output_finalize_reserve(b, bytes, n) ==
    LET r == obuf_reserve(b, Wanted(n)) IN
        output_fields(alloc(r, IF r = b THEN bytes ELSE [i \in DOMAIN bytes |-> 0]))

memory_output_buffer_finalize_reserve(b, bytes, n) ==
    memory_output_buffer_reserve(alloc(b, bytes), n)

reserve(x, b, n) == IF x \in Input THEN memory_input_buffer_reserve(b, n)
                                   ELSE memory_output_buffer_reserve(b, n)

finalize(x, b, bytes) == IF x \in Input THEN memory_input_buffer_finalize(b, bytes)
                                        ELSE memory_output_buffer_finalize(b, bytes)

finalize_reserve(x, b, bytes, n) ==
    IF x \in Input THEN memory_input_buffer_finalize_reserve(b, bytes, n)
                   ELSE memory_output_buffer_finalize_reserve(b, bytes, n)

(***************************************************************************)
(* The program.                                                            *)
(***************************************************************************)
Init ==
    /\ buffer = [x \in Buffer |-> NULL]
    /\ reserved = [x \in Buffer |-> NULL]
    /\ written = [x \in Buffer |-> <<>>]
    /\ crashed = FALSE

\* memory_pool_allocate zeroes the object before anyone looks at it: when
\* the quota is used up that is a write through a null pointer.
memory_pool_allocate(x) ==
    /\ buffer[x] = NULL
    /\ \/ buffer' = [buffer EXCEPT ![x] = created] /\ UNCHANGED crashed
       \/ crashed' = TRUE /\ UNCHANGED buffer
    /\ UNCHANGED <<reserved, written>>

\* memory_io_buffers_allocate_input and _output.
Allocate(x) == memory_pool_allocate(x)

\* A reserve that finds no memory writes through the null pointer too,
\* unless it was asked for 0 bytes; then it returns null.
NoMemory(x, n) ==
    /\ crashed' = (n # 0)
    /\ reserved' = [reserved EXCEPT ![x] = NULL]

Grows(x, b, n) == reserve(x, b, n).areas # b.areas

Reserve(x, n) ==
    /\ buffer[x] # NULL /\ Len(written[x]) + n <= MaxBytes
    /\ \/ /\ buffer' = [buffer EXCEPT ![x] = reserve(x, @, n)]
          /\ reserved' = [reserved EXCEPT ![x] = <<>>]
          /\ UNCHANGED <<written, crashed>>
       \/ Grows(x, buffer[x], n) /\ NoMemory(x, n) /\ UNCHANGED <<buffer, written>>

\* The program writes one byte at the reserved pointer, inside the room it has.
Write(x) ==
    /\ buffer[x] # NULL /\ reserved[x] # NULL
    /\ Len(reserved[x]) < Room(buffer[x])
    /\ Len(written[x]) + Len(reserved[x]) < MaxBytes
    /\ reserved' = [reserved EXCEPT ![x] = Append(@, Len(written[x]) + Len(@) + 1)]
    /\ UNCHANGED <<buffer, written, crashed>>

\* finalize(delta): the bytes after delta stay behind the pointer.
Finalize(x, delta) ==
    /\ buffer[x] # NULL /\ reserved[x] # NULL /\ delta <= Len(reserved[x])
    /\ buffer' = [buffer EXCEPT ![x] = finalize(x, @, SubSeq(reserved[x], 1, delta))]
    /\ reserved' = [reserved EXCEPT ![x] = SubSeq(@, delta + 1, Len(@))]
    /\ written' = [written EXCEPT ![x] = @ \o SubSeq(reserved[x], 1, delta)]
    /\ UNCHANGED crashed

\* Without memory for the reserve the bytes are accepted all the same, but
\* the fields of an input buffer are not brought up to date.
FinalizeReserve(x, delta, n) ==
    /\ buffer[x] # NULL /\ reserved[x] # NULL /\ delta <= Len(reserved[x])
    /\ Len(written[x]) + delta + n <= MaxBytes
    /\ LET bytes == SubSeq(reserved[x], 1, delta)
           accepted == alloc(buffer[x], bytes)
       IN /\ written' = [written EXCEPT ![x] = @ \o bytes]
          /\ \/ /\ buffer' = [buffer EXCEPT ![x] = finalize_reserve(x, @, bytes, n)]
                /\ reserved' = [reserved EXCEPT ![x] = <<>>]
                /\ UNCHANGED crashed
             \/ /\ Grows(x, accepted, n) /\ NoMemory(x, n)
                /\ buffer' = [buffer EXCEPT ![x] = IF x \in Input THEN accepted ELSE output_fields(accepted)]

\* memory_io_buffers_free_input and _output, and memory_pool_free.
FreeBuffer(x) ==
    /\ buffer[x] # NULL
    /\ buffer' = [buffer EXCEPT ![x] = NULL]
    /\ reserved' = [reserved EXCEPT ![x] = NULL]
    /\ written' = [written EXCEPT ![x] = <<>>]
    /\ UNCHANGED crashed

Next ==
    /\ ~crashed
    /\ \E x \in Buffer :
        \/ Allocate(x) \/ Write(x) \/ FreeBuffer(x)
        \/ \E n \in Sizes : Reserve(x, n)
        \/ \E delta \in 0 .. MaxBytes :
            Finalize(x, delta) \/ \E n \in Sizes : FinalizeReserve(x, delta, n)

Spec == Init /\ [][Next]_vars
-----------------------------------------------------------------------------
\* What was finalized is what the other side reads, in order and once: Dart
\* through readPosition and used, the transport through content and vectors,
\* however often the buffer moved or began another area in between, as long
\* as the last reserve found memory.
BytesKept ==
    \A x \in Buffer : buffer[x] # NULL /\ reserved[x] # NULL =>
        IF x \in Input
        THEN /\ buffer[x].areas # <<>> => SubSeq(Top(buffer[x]).bytes, 1, buffer[x].used) = written[x]
             /\ buffer[x].used = Len(written[x])
             /\ buffer[x].unused = Room(buffer[x])
        ELSE /\ Content(buffer[x].areas, buffer[x].vectors) = written[x]
             /\ buffer[x].size = Len(written[x])
=============================================================================
