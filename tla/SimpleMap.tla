----------------------------- MODULE SimpleMap -----------------------------
(***************************************************************************)
(* The open addressing hash table of core/native/maps/simple.h: double     *)
(* hashing, an "exist" and a "dirty" bit per slot, and an incremental      *)
(* resize that moves the slots in batches into a shadow table while put    *)
(* and del keep both tables up to date.                                    *)
(*                                                                         *)
(* A table is a record [n, slots, size, n_dirty].  A slot holds a node     *)
(* <<key, value>> or Free (the exist bit is off; p[] is not read then) and *)
(* its dirty bit.  The whole map is the record kept in the variable map;   *)
(* the functions of the header are operators from a map to a map.  The     *)
(* statistics (resize_cnt, memsize, dump) are left out.                    *)
(***************************************************************************)
EXTENDS Integers, Sequences, FiniteSets, Functions

CONSTANTS
    Key, Value,     \* what the nodes hold
    Free,           \* the node of a slot whose exist bit is off
    Hash,           \* simple_map_hash of every key
    PrimeList,      \* __ac_prime_list, cut down to its first few sizes
    MinBatch,       \* the 256 of start_resize
    Reserves        \* the sizes the callers pass to reserve

ASSUME MapAssumption ==
    /\ Hash \in [Key -> Nat]
    /\ MinBatch \in Nat \ {0}
    /\ PrimeList \in Seq(Nat) /\ Len(PrimeList) > 0
    /\ \A i \in DOMAIN PrimeList : PrimeList[i] > 2
    /\ Reserves \subseteq Nat
    /\ Free \notin Value /\ Free \notin Key \X Value

\* The sizes are primes: no product of smaller numbers is a multiple of one.
ASSUME PrimesAssumption ==
    \A i \in DOMAIN PrimeList : LET n == PrimeList[i] IN
        \A a, b \in 1 .. n - 1 : (a * b) % n # 0

\* What 256 and a density of 0.7 give every table that needs several
\* batches: room for the insertions made while they run.
ASSUME BatchAssumption ==
    \A i \in DOMAIN PrimeList : LET n == PrimeList[i] IN
        n <= MinBatch \/ n - ((n * 7) \div 10) > 1 + ((n - 1) \div MinBatch)

\* Each size leaves room for a full table of a smaller one and the insertions
\* made while it is moved, and the last for all keys there are.
Insertions(n) == 1 + ((n - 1) \div MinBatch)
ASSUME GrowthAssumption ==
    \A i, j \in DOMAIN PrimeList : LET n == PrimeList[i] IN
        i < j => ((n * 7) \div 10) + Insertions(n) <= (PrimeList[j] * 7) \div 10
ASSUME RoomAssumption ==
    LET n == PrimeList[Len(PrimeList)] IN
        IsFiniteSet(Key) /\ Cardinality(Key) + Insertions(n) <= (n * 7) \div 10

VARIABLES
    map,        \* struct simple_map_t, its shadow included
    content     \* history: what the calls made so far should have left in it

vars == <<map, content>>

None == Free    \* "no value"

(***************************************************************************)
(* Tables.                                                                 *)
(***************************************************************************)
\* new: a zeroed table of n buckets.
Empty(n) == [n |-> n, slots |-> [i \in 0 .. n - 1 |-> [node |-> Free, dirty |-> FALSE]],
             size |-> 0, n_dirty |-> 0]

upper_bound(t) == (t.n * 7) \div 10

exist(t, i) == t.slots[i].node # Free

\* simple_map_cmp says "equal" of the node in slot i.
Same(t, i, k) == exist(t, i) /\ t.slots[i].node[1] = k

\* The j-th slot of the overflow chain of k: j steps of next_slot.
Chain(t, k, j) == ((Hash[k] % t.n) + (j * (1 + (Hash[k] % (t.n - 1))))) % t.n

First(S) == CHOOSE j \in S : \A i \in S : j <= i

\* The length at which the search for k stops: a hit, or a link that no
\* insertion has passed.  Without one the loop of find never ends.
Stops(t, k) ==
    {j \in 0 .. t.n - 1 : LET i == Chain(t, k, j) IN Same(t, i, k) \/ ~t.slots[i].dirty}

\* find and get: the slot of k, or n (simple_map_end).
find(t, k) ==
    IF Stops(t, k) = {} THEN t.n
    ELSE LET i == Chain(t, k, First(Stops(t, k))) IN IF Same(t, i, k) THEN i ELSE t.n

find_value(t, k) == LET i == find(t, k) IN IF i = t.n THEN None ELSE t.slots[i].node[2]

\* simple_map_foreach: the nodes it visits, in the order of the slots.
foreach(t) ==
    LET visited[i \in 0 .. t.n] ==
            IF i = 0 THEN <<>>
            ELSE IF exist(t, i - 1) THEN Append(visited[i - 1], t.slots[i - 1].node)
                 ELSE visited[i - 1]
    IN visited[t.n]

\* random: the next used slot after rnd, or the first used one.
random(t, rnd) ==
    LET used == {i \in 0 .. t.n - 1 : exist(t, i)}
        next == {i \in used : i > rnd % t.n}
    IN IF next # {} THEN First(next) ELSE IF used # {} THEN First(used) ELSE t.n

\* put_slot and the assignment to p[x] that follows every call of it.  The
\* links passed on the way are marked dirty; the first unused link is taken
\* only when the rest of the chain holds no duplicate.
Store(t, k, v) ==
    LET At(j) == Chain(t, k, j)
        save  == First({j \in 0 .. t.n - 1 : ~exist(t, At(j)) \/ Same(t, At(j), k)})
        last  == First({j \in save .. t.n - 1 : ~t.slots[At(j)].dirty})
        twins == {j \in save + 1 .. last : Same(t, At(j), k)}
        found == Same(t, At(save), k)
        x     == IF found \/ twins = {} THEN At(save) ELSE At(First(twins))
        fresh == ~found /\ twins = {}
        passed == {At(j) : j \in 0 .. save - 1}
    IN [n |-> t.n,
        slots |-> [i \in 0 .. t.n - 1 |->
                     [node |-> IF i = x THEN <<k, v>> ELSE t.slots[i].node,
                      dirty |-> t.slots[i].dirty \/ i \in passed]],
        size |-> IF fresh THEN t.size + 1 ELSE t.size,
        n_dirty |-> IF fresh /\ ~t.slots[At(save)].dirty THEN t.n_dirty + 1 ELSE t.n_dirty]

\* The part of del that concerns one table.
Drop(t, x) == [t EXCEPT !.slots[x].node = Free, !.size = @ - 1,
                        !.n_dirty = IF t.slots[x].dirty THEN @ ELSE @ - 1]

(***************************************************************************)
(* Resizing.                                                               *)
(***************************************************************************)
NoTable == Empty(0)

\* Its loop: the slots of h are put into the shadow one by one, up to end.
Copy(h, i, s) == IF exist(h, i) THEN Store(s, h.slots[i].node[1], h.slots[i].node[2]) ELSE s
Moved(m, end) ==
    LET upto[i \in m.position .. end] ==
            IF i = m.position THEN m.shadow ELSE Copy(m.h, i - 1, upto[i - 1])
    IN upto[end]

\* resize: move the next batch into the shadow; past the last slot the
\* shadow becomes the table, or the program aborts if their sizes differ.
Resize(m) ==
    LET end   == IF m.position + m.batch < m.h.n THEN m.position + m.batch ELSE m.h.n
        moved == Moved(m, end)
    IN IF end < m.h.n
       THEN [m EXCEPT !.shadow = moved, !.position = end]
       ELSE [m EXCEPT !.h = moved, !.shadow = NoTable, !.position = 0,
                      !.failed = @ \/ moved.size # m.h.size]

start_resize(m, buckets, batch) ==
    IF m.position > 0 \/ buckets < m.h.n THEN m
    ELSE LET fit   == {i \in m.prime .. Len(PrimeList) : PrimeList[i] >= buckets}
             prime == IF fit = {} THEN Len(PrimeList) ELSE First(fit)
             want  == IF batch > 0 THEN batch ELSE m.h.n \div (256 * 1024)
         IN Resize([m EXCEPT !.prime = prime,
                             !.batch = IF want < MinBatch THEN MinBatch ELSE want,
                             !.shadow = Empty(PrimeList[prime])])

\* Fault: a put that leaves the shadow to the batches still to come.
Faulty_put(m, k, v) ==
    LET ready == IF m.position > 0 THEN Resize(m)
                 ELSE IF m.h.n_dirty >= upper_bound(m.h) THEN start_resize(m, m.h.n + 1, 0)
                 ELSE m
    IN [ready EXCEPT !.h = Store(@, k, v)]

\* put (and put_copy).  The recursive put into the shadow must not find the
\* shadow full: the shadow's own shadow is itself.
put(m, k, v) ==
    LET ready == IF m.position > 0 THEN Resize(m)
                 ELSE IF m.h.n_dirty >= upper_bound(m.h) THEN start_resize(m, m.h.n + 1, 0)
                 ELSE m
        both  == IF ready.position = 0 THEN ready
                 ELSE [ready EXCEPT !.shadow = Store(@, k, v),
                                    !.failed = @ \/ ready.shadow.n_dirty >= upper_bound(ready.shadow)]
    IN [both EXCEPT !.h = Store(@, k, v)]

\* del and del_resize: the node leaves the table and, during a resize, the
\* shadow, and the resize goes on.
del(m, x) ==
    IF x = m.h.n \/ ~exist(m.h, x) THEN m
    ELSE LET less == [m EXCEPT !.h = Drop(@, x)]
             y    == find(m.shadow, m.h.slots[x].node[1])
         IN IF m.position = 0 THEN less
            ELSE Resize(IF y = m.shadow.n THEN less ELSE [less EXCEPT !.shadow = Drop(@, y)])

\* clear: the buckets of the prime reached so far, but prime 0 again, and
\* n_dirty as it was.
clear(m) == [m EXCEPT !.h = [Empty(PrimeList[m.prime]) EXCEPT !.n_dirty = m.h.n_dirty],
                      !.prime = 1, !.shadow = NoTable]

reserve(m, size) == start_resize(m, (size * 10) \div 7, m.h.size)

\* The callers that walk the map, note the slots of some nodes and delete
\* them slot by slot: transport_cancel_by_fd, transport_check_event_timeouts.
DeleteSlots(m, S) ==
    LET after[i \in 0 .. m.h.n] ==
            IF i = 0 THEN m
            ELSE IF exist(m.h, i - 1) /\ m.h.slots[i - 1].node[1] \in S THEN del(after[i - 1], i - 1)
                 ELSE after[i - 1]
    IN after[m.h.n]
-----------------------------------------------------------------------------
(***************************************************************************)
(* The specification: the calls of the map's users.                        *)
(***************************************************************************)
Init ==
    /\ map = [h |-> Empty(PrimeList[1]), shadow |-> NoTable, position |-> 0, batch |-> 0,
              prime |-> 1, failed |-> FALSE]
    /\ content = [k \in Key |-> None]

Put(k, v) == /\ map' = put(map, k, v)
             /\ content' = [content EXCEPT ![k] = v]

\* remove, and find followed by del as transport_remove_event has it.
Delete(k) == /\ map' = del(map, find(map.h, k))
             /\ content' = [content EXCEPT ![k] = None]

\* Nobody clears a map; the header allows it only between two resizes, as
\* resize_position survives a clear.
Clear == /\ map.position = 0
         /\ map' = clear(map)
         /\ content' = [k \in Key |-> None]

Reserve(size) == map' = reserve(map, size) /\ UNCHANGED content

\* The slots noted are those of the table before the first del: when a del
\* of the loop ends the resize, the later slots are those of another table.
\* Only without a resize is the outcome what the caller asked for.  Two
\* slots suffice: one del ends the resize, the other comes after it.
Expire(S) ==
    /\ Cardinality(S) = 2
    /\ map' = DeleteSlots(map, S)
    /\ content' = IF map.position = 0 THEN [k \in Key |-> IF k \in S THEN None ELSE content[k]]
                                      ELSE [k \in Key |-> find_value(map'.h, k)]

\* reserve of a size that comes to just the buckets there are is left out, as
\* nobody asks for it: it restarts a resize to the same size, the put that
\* ends it does not look at upper_bound, and repeated they fill the table.
Next ==
    \/ \E k \in Key, v \in Value : Put(k, v)
    \/ \E k \in Key : Delete(k)
    \/ Clear
    \/ \E size \in Reserves : (size * 10) \div 7 # map.h.n /\ Reserve(size)
    \/ \E S \in SUBSET Key : Expire(S)

Spec == Init /\ [][Next]_vars
-----------------------------------------------------------------------------
(***************************************************************************)
(* Properties.                                                             *)
(***************************************************************************)
Tables == {map.h} \cup (IF map.position > 0 THEN {map.shadow} ELSE {})

\* The map answers as a dictionary would: find returns the value put last
\* and not removed since, foreach meets every entry once, size counts them.
\* Dirty chains, duplicates past an unused link and a resize in any phase
\* must not show; a resize ends with as many entries as it began with (the
\* abort() of resize), and its batches outrun the insertions.
MapAgrees ==
    /\ ~map.failed
    /\ \A k \in Key : find_value(map.h, k) = content[k]
    /\ LET seen == foreach(map.h) IN
        /\ map.h.size = Len(seen)
        /\ Range(seen) = {<<k, content[k]>> : k \in {k \in Key : content[k] # None}}
    /\ map.h.size > 0 => \A rnd \in 0 .. map.h.n : random(map.h, rnd) < map.h.n

\* Every search ends: in the table and in the shadow some slot was never
\* used nor passed, so the loops of find, get and put_slot meet it (a prime
\* number of buckets lets every chain visit every slot).
SearchEnds ==
    \A t \in Tables : \E i \in 0 .. t.n - 1 : ~exist(t, i) /\ ~t.slots[i].dirty

\* The map is a dictionary to its callers, in every phase of a resize, and no
\* search of it runs for ever.
MapInv == MapAgrees /\ SearchEnds
=============================================================================
