---------------------- MODULE TransportDescriptorsProofs ----------------------
(***************************************************************************)
(* Proofs about TransportDescriptors, for every number of channels and     *)
(* descriptors and whatever the application opens: a channel owns its      *)
(* descriptor until it closes it, and hears of its own operations.         *)
(***************************************************************************)
EXTENDS TransportDescriptors, FiniteSetTheorems, TLAPS

-----------------------------------------------------------------------------
(* The inductive invariant. *)

Records ==
  [kind : AllKinds \union {"connection"}, fd : Fds, pending : Int,
   stage : Stages, server : Channels \union {None}, active : BOOLEAN,
   closing : BOOLEAN, closer : BOOLEAN, graceful : BOOLEAN, up : BOOLEAN,
   failing : BOOLEAN, gone : BOOLEAN, misset : BOOLEAN, deaf : BOOLEAN,
   waits : SUBSET Channels, late : SUBSET Channels]
OpRecords ==
  [event : Events, fd : Fds, of : Channels, cancelled : BOOLEAN, serial : Nat]

\* Operations with their identity, which a cancellation does not change.
Ops == ring \union {x.op : x \in cq}
Key(o) == <<o.event, o.of, o.serial>>
Keys == {Key(o) : o \in Ops}

\* The operations that a channel has to hear of.
Pending(c) == {k \in Keys : k[2] = c /\ k[1] # "accept"}

\* Descriptor 0 is only in one hand.
Sure(c) == /\ c \in Used /\ chan[c].stage # "refused"
           /\ chan[c].fd = 0 => OneMisset

Live(c) == c \in Used /\ chan[c].stage \notin {"closed", "refused"} /\ ~chan[c].gone

TypePart ==
  /\ table \in [Fds -> Channels \union Nobody]
  /\ chan \in [Channels -> {Unused} \union Records]
  /\ registry \in [Registries -> [Fds -> Channels \union {None}]]
  /\ ring \subseteq OpRecords /\ IsFiniteSet(ring)
  /\ cq \subseteq [op : OpRecords, result : Int] /\ IsFiniteSet(cq)

\* No two operations have the same identity.
RingPart ==
  /\ \A o, p \in ring : Key(o) = Key(p) => o = p
  /\ \A x, y \in cq : Key(x.op) = Key(y.op) => x = y
  /\ \A o \in ring, x \in cq : Key(o) # Key(x.op)

\* What the fields of a channel say together.
Shape(ch) ==
  /\ ch.closing <=> ch.stage \notin {"open", "refused"}
  /\ ch.closer => ch.closing
  /\ ch.failing => ch.kind = "unix"
  /\ ch.misset => ch.fd = 0
  /\ ch.stage = "refused" => ch.server = None /\ ~ch.failing

ShapePart == \A c \in Used : Shape(chan[c])

\* An operation is on the descriptor of its channel.
OpsPart ==
  \A o \in Ops : o.event # "accept" =>
    o.of \in Used /\ chan[o.of].stage # "refused" /\ o.fd = chan[o.of].fd

\* _pending counts, and what waits for the last operation waits for all.
Counts(c) ==
  /\ IsFiniteSet(Pending(c)) /\ chan[c].pending = Cardinality(Pending(c))
  /\ \/ chan[c].stage \in {"finishing", "closed"} \/ chan[c].closer
     \/ chan[c].failing \/ chan[c].gone
     => Pending(c) = {}
  /\ ~(chan[c].failing /\ chan[c].gone)
  /\ ~chan[c].up => chan[c].pending <= 1
  /\ chan[c].failing \/ chan[c].gone \/ (\E k \in Pending(c) : k[1] = "connect")
     => ~chan[c].up

CountPart == \A c \in Channels : Sure(c) => Counts(c)

Place(c) ==
  /\ registry[RegistryOf(chan[c].kind)][chan[c].fd] = c
  /\ table[chan[c].fd] = IF chan[c].misset THEN "stdin" ELSE c

PlacePart ==
  /\ \A c \in Channels : Sure(c) /\ Live(c) => Place(c)
  /\ (\A c \in Used : ~chan[c].misset)
     => table[0] = "stdin" /\ \A c \in Used : chan[c].fd = 0 => chan[c].stage = "refused"

EntryPart ==
  \A r \in Registries, f \in Fds : registry[r][f] # None =>
    LET d == registry[r][f] IN
    d \in Used /\ chan[d].stage # "refused" /\ RegistryOf(chan[d].kind) = r /\ chan[d].fd = f

Accepted == {f \in Fds : table[f] = "accepted"}

\* A descriptor that was accepted waits for an object, and there is one for each.
AcceptPart ==
  /\ \A x \in cq : x.op.event = "accept" /\ x.result > 0
       => x.result \in Fds /\ table[x.result] = "accepted"
  /\ \A x, y \in cq : /\ x.op.event = "accept" /\ y.op.event = "accept"
                      /\ x.result > 0 /\ x.result = y.result
                      => x = y
  /\ Cardinality(Accepted) <= Cardinality(Channels \ Used)

Consistent ==
  TypePart /\ RingPart /\ ShapePart /\ OpsPart /\ CountPart /\ PlacePart /\ EntryPart /\ AcceptPart

\* Nothing is claimed once a descriptor was closed twice.
DescriptorsInv == twice \/ Consistent

-----------------------------------------------------------------------------
(* The fields of a channel. *)

\* What closing leaves alone.
Kept(old, new) ==
  /\ new.kind = old.kind /\ new.fd = old.fd /\ new.misset = old.misset
  /\ new.up = old.up /\ new.failing = old.failing /\ new.gone = old.gone

LEMMA FieldTypes ==
  ASSUME NEW ch \in Records
  PROVE  /\ ch.kind \in AllKinds \union {"connection"} /\ ch.fd \in Fds /\ ch.pending \in Int
         /\ ch.stage \in Stages /\ ch.server \in Channels \union {None}
         /\ {ch.active, ch.closing, ch.closer, ch.graceful, ch.up, ch.failing, ch.gone, ch.misset,
             ch.deaf} \subseteq BOOLEAN
         /\ ch # Unused
  BY DEF Records, Unused, Stages

LEMMA ClosingIs ==
  ASSUME NEW ch \in Records, NEW g \in BOOLEAN
  PROVE  /\ Closing(ch, g) \in Records /\ Kept(ch, Closing(ch, g))
         /\ Closing(ch, g).pending = ch.pending /\ Closing(ch, g).closer = ch.closer
         /\ Closing(ch, g).closing = TRUE
         /\ Closing(ch, g).stage = IF ch.pending = 0 THEN "finishing"
                                   ELSE IF g THEN "graceful" ELSE "cancelling"
  BY DEF Closing, Records, Kept, Stages

LEMMA CountedIs ==
  ASSUME NEW ch \in Records
  PROVE  /\ Counted(ch) \in Records /\ Kept(ch, Counted(ch))
         /\ Counted(ch).pending = ch.pending - 1
         /\ Counted(ch).closer = (ch.closer \/ (ch.pending = 1 /\ ch.closing))
         /\ Counted(ch).closing = ch.closing /\ Counted(ch).stage = ch.stage
<1> DEFINE last == ch.pending = 1 /\ ch.closing
           a == ch.active /\ ~last
           b == ch.closer \/ last
<1>1. a \in BOOLEAN /\ b \in BOOLEAN /\ ch.pending - 1 \in Int
  BY FieldTypes
<1>2. Counted(ch) = [ch EXCEPT !.pending = ch.pending - 1, !.active = a, !.closer = b]
  BY DEF Counted
<1> HIDE DEF a, b
<1>3. /\ Counted(ch) \in Records /\ Kept(ch, Counted(ch))
      /\ Counted(ch).pending = ch.pending - 1 /\ Counted(ch).closer = b
      /\ Counted(ch).closing = ch.closing /\ Counted(ch).stage = ch.stage
  <2>1. Counted(ch) \in Records
    BY <1>1, <1>2 DEF Records
  <2>2. Kept(ch, Counted(ch)) /\ Counted(ch).pending = ch.pending - 1
    BY <1>2 DEF Records, Kept
  <2>3. Counted(ch).closer = b
    BY <1>2 DEF Records
  <2>4. Counted(ch).closing = ch.closing /\ Counted(ch).stage = ch.stage
    BY <1>2 DEF Records
  <2>5. QED
    BY <2>1, <2>2, <2>3, <2>4
<1>4. QED
  BY <1>3 DEF b

LEMMA NewIs ==
  ASSUME NEW k \in AllKinds \union {"connection"}, NEW f \in Fds, NEW s \in Channels \union {None}
  PROVE  /\ NewChannel(k, f, s) \in Records
         /\ NewChannel(k, f, s).kind = k /\ NewChannel(k, f, s).fd = f
         /\ NewChannel(k, f, s).pending = Connects(k) /\ NewChannel(k, f, s).stage = "open"
         /\ NewChannel(k, f, s).up = (k \notin Connecting)
         /\ ~NewChannel(k, f, s).closing /\ ~NewChannel(k, f, s).closer
         /\ ~NewChannel(k, f, s).failing /\ ~NewChannel(k, f, s).gone
         /\ ~NewChannel(k, f, s).misset
  BY DEF NewChannel, Records, Stages, Connects

LEMMA RegistryTypes == \A k : RegistryOf(k) \in Registries
  BY DEF RegistryOf, Registries

-----------------------------------------------------------------------------
(* Numbers and sets. *)

\* The least element of a set of natural numbers.
LEMMA MinIs ==
  ASSUME NEW S \in SUBSET Nat, S # {}
  PROVE  Min(S) \in S
<1> DEFINE R == {ss \in Nat \X Nat : ss[1] < ss[2]}
<1>0. OpToRel(<, Nat) = R
  BY Zenon DEF OpToRel
<1>1. IsWellFoundedOn(R, Nat)
  BY <1>0, NatLessThanWellFounded, Zenon
<1> HIDE DEF R
<1>2. PICK x \in S : \A y \in S : ~(<<y, x>> \in R)
  BY <1>1, WFMin
<1>3. \A y \in S : x <= y
  <2>1. ASSUME NEW y \in S, y < x PROVE <<y, x>> \in R
    BY <2>1 DEF R
  <2>2. \A y \in S : ~(y < x)
    BY <1>2, <2>1
  <2>3. QED
    BY <2>2
<1>4. QED
  BY <1>3 DEF Min

LEMMA Onto ==
  ASSUME NEW S, IsFiniteSet(S), NEW T, NEW f \in [S -> T], \A y \in T : \E x \in S : f[x] = y
  PROVE  IsFiniteSet(T) /\ Cardinality(T) <= Cardinality(S)
<1>1. f \in Surjection(S, T)
  BY DEF Surjection
<1>2. QED
  BY <1>1, FS_Surjection

LEMMA UpTo == ASSUME NEW n \in Nat PROVE IsFiniteSet(1 .. n) /\ Cardinality(1 .. n) = n
<1>1. 1 \in Int /\ n \in Int
  OBVIOUS
<1>2. IsFiniteSet(1 .. n) /\ Cardinality(1 .. n) = (IF 1 > n THEN 0 ELSE n - 1 + 1)
  BY <1>1, FS_Interval
<1>3. QED
  BY <1>2

\* The kernel hands out a free descriptor.
LEMMA FreeIs == ASSUME FreeFds # {} PROVE Min(FreeFds) \in Fds /\ table[Min(FreeFds)] = "free"
<1>1. FreeFds \in SUBSET Nat
  BY ChannelsAssumption DEF FreeFds, Fds
<1>2. Min(FreeFds) \in FreeFds
  BY <1>1, MinIs
<1>3. QED
  BY <1>2 DEF FreeFds

-----------------------------------------------------------------------------
(* Operations. *)

\* The same operations, cancelled, completed or as they were.
SameOps ==
  /\ Keys' = Keys
  /\ \A o \in Ops' : \E p \in Ops : p.event = o.event /\ p.of = o.of /\ p.fd = o.fd

\* The two halves of the ring are well formed.
RingOk == RingPart /\ ring \subseteq OpRecords /\ IsFiniteSet(ring)
          /\ cq \subseteq [op : OpRecords, result : Int] /\ IsFiniteSet(cq)

LEMMA OpTypes ==
  ASSUME RingOk, NEW o \in Ops
  PROVE  o \in OpRecords /\ o.event \in Events /\ o.fd \in Fds /\ o.of \in Channels /\ o.serial \in Nat
  BY DEF RingOk, Ops, OpRecords

LEMMA RingRests ==
  ASSUME RingOk, UNCHANGED <<ring, cq>>
  PROVE  RingOk' /\ SameOps
<1>1. RingOk'
  BY DEF RingOk, RingPart, Key
<1>2. Ops' = Ops
  BY DEF Ops
<1>3. QED
  BY <1>1, <1>2 DEF SameOps, Keys, Key

\* The same operations in the ring, cancelled or not.
SameRing(R) ==
  /\ R \subseteq OpRecords /\ IsFiniteSet(R)
  /\ \A o, p \in R : Key(o) = Key(p) => o = p
  /\ {Key(o) : o \in R} = {Key(o) : o \in ring}
  /\ \A o \in R : \E p \in ring : p.event = o.event /\ p.of = o.of /\ p.fd = o.fd

LEMMA SameAsIs == ASSUME RingOk PROVE SameRing(ring)
  BY DEF RingOk, RingPart, SameRing

LEMMA SameCancelled == ASSUME RingOk, NEW S PROVE SameRing(transport_cancel_by_fd(S))
<1> DEFINE F(o) == IF o.fd \in S THEN [o EXCEPT !.cancelled = TRUE] ELSE o
           R == transport_cancel_by_fd(S)
           f == [o \in ring |-> F(o)]
<1>1. R = {F(o) : o \in ring}
  BY DEF transport_cancel_by_fd
<1>2. ASSUME NEW o \in OpRecords
      PROVE  /\ F(o) \in OpRecords /\ Key(F(o)) = Key(o)
             /\ F(o).event = o.event /\ F(o).of = o.of /\ F(o).fd = o.fd
  BY DEF OpRecords, Key
<1>3. ring \subseteq OpRecords /\ IsFiniteSet(ring) /\ RingPart
  BY DEF RingOk
<1>4. f \in [ring -> R] /\ \A y \in R : \E x \in ring : f[x] = y
  BY <1>1
<1> HIDE DEF F, R
<1>5. IsFiniteSet(R)
  BY <1>3, <1>4, Onto
<1>6. R \subseteq OpRecords
  BY <1>1, <1>2, <1>3
<1>7. ASSUME NEW o \in R, NEW p \in R, Key(o) = Key(p) PROVE o = p
  <2>1. PICK a \in ring : o = F(a)
    BY <1>1
  <2>2. PICK b \in ring : p = F(b)
    BY <1>1
  <2>3. Key(a) = Key(b)
    BY <1>2, <1>3, <1>7, <2>1, <2>2
  <2>4. a = b
    BY <1>3, <2>3 DEF RingPart
  <2>5. QED
    BY <2>1, <2>2, <2>4
<1>8. {Key(o) : o \in R} = {Key(o) : o \in ring}
  BY <1>1, <1>2, <1>3
<1>9. \A o \in R : \E p \in ring : p.event = o.event /\ p.of = o.of /\ p.fd = o.fd
  BY <1>1, <1>2, <1>3
<1>10. QED
  BY <1>5, <1>6, <1>7, <1>8, <1>9 DEF SameRing, R

LEMMA RingStays ==
  ASSUME RingOk, SameRing(ring'), cq' = cq
  PROVE  RingOk' /\ SameOps
<1>1. \A o \in ring', x \in cq : Key(o) # Key(x.op)
  <2>1. ASSUME NEW o \in ring', NEW x \in cq PROVE Key(o) # Key(x.op)
    <3>1. PICK a \in ring : Key(a) = Key(o)
      BY DEF SameRing
    <3>2. QED
      BY <3>1 DEF RingOk, RingPart
  <2>2. QED
    BY <2>1
<1>2. RingPart'
  BY <1>1 DEF SameRing, RingOk, RingPart, Key
<1>3. RingOk'
  BY <1>2 DEF RingOk, SameRing
<1>4. Keys' = Keys
  <2>1. Keys = {Key(o) : o \in ring} \union {Key(x.op) : x \in cq}
    BY DEF Keys, Ops
  <2>2. Keys' = {Key(o) : o \in ring'} \union {Key(x.op) : x \in cq}
    BY DEF Keys, Ops, Key
  <2>3. QED
    BY <2>1, <2>2 DEF SameRing
<1>5. \A o \in Ops' : \E p \in Ops : p.event = o.event /\ p.of = o.of /\ p.fd = o.fd
  BY DEF Ops, SameRing
<1>6. QED
  BY <1>3, <1>4, <1>5 DEF SameOps

\* An operation ends: it is the same one in the completion queue.
LEMMA RingCompletes ==
  ASSUME RingOk, NEW o \in ring, NEW n \in Int,
         ring' = ring \ {o}, cq' = cq \union {[op |-> o, result |-> n]}
  PROVE  RingOk' /\ SameOps
<1>1. ring \subseteq OpRecords /\ IsFiniteSet(ring) /\ RingPart /\ IsFiniteSet(cq)
      /\ cq \subseteq [op : OpRecords, result : Int]
  BY DEF RingOk
<1>2. IsFiniteSet(ring') /\ IsFiniteSet(cq')
  BY <1>1, FS_RemoveElement, FS_AddElement
<1>3. ring' \subseteq OpRecords /\ cq' \subseteq [op : OpRecords, result : Int]
  BY <1>1
<1>4. [op |-> o, result |-> n].op = o
  OBVIOUS
<1>5. RingPart'
  BY <1>1, <1>4 DEF RingPart, Key
<1>6. Ops' = Ops
  BY <1>4 DEF Ops
<1>7. QED
  BY <1>2, <1>3, <1>5, <1>6 DEF RingOk, SameOps, Keys, Key

\* The operations of a channel for one event.
Running(e, c) == {o \in Ops : o.event = e /\ o.of = c}

\* A new operation has an identity of its own.
LEMMA StartedIs ==
  ASSUME RingOk, NEW e \in Events, NEW f \in Fds, NEW c \in Channels
  PROVE  /\ Started(e, f, c) \in OpRecords /\ Started(e, f, c).event = e
         /\ Started(e, f, c).of = c /\ Started(e, f, c).fd = f
         /\ Key(Started(e, f, c)) \notin Keys
         /\ Key(Started(e, f, c))[1] = e /\ Key(Started(e, f, c))[2] = c
         /\ IsFiniteSet(Running(e, c))
         /\ Started(e, f, c).serial \in 1 .. Cardinality(Running(e, c)) + 1
<1> DEFINE running == {o \in ring \union {x.op : x \in cq} : o.event = e /\ o.of = c}
           serials == {o.serial : o \in running}
           n == Cardinality(running)
           m == Min(1 .. n + 1 \ serials)
           g == [o \in running |-> o.serial]
           h == [x \in cq |-> x.op]
<1>1. IsFiniteSet(ring) /\ IsFiniteSet(cq)
  BY DEF RingOk
<1>2. IsFiniteSet({x.op : x \in cq})
  <2>1. h \in [cq -> {x.op : x \in cq}] /\ \A y \in {x.op : x \in cq} : \E x \in cq : h[x] = y
    OBVIOUS
  <2>2. QED
    BY <1>1, <2>1, Onto
<1>3. IsFiniteSet(ring \union {x.op : x \in cq})
  BY <1>1, <1>2, FS_Union
<1>4. IsFiniteSet(running)
  BY <1>3, FS_Subset
<1>5. n \in Nat
  BY <1>4, FS_CardinalityType
<1>6. IsFiniteSet(serials) /\ Cardinality(serials) <= n
  <2>1. g \in [running -> serials] /\ \A y \in serials : \E x \in running : g[x] = y
    OBVIOUS
  <2>2. QED
    BY <1>4, <2>1, Onto
<1>7. 1 .. n + 1 \ serials # {}
  <2>1. SUFFICES ASSUME 1 .. n + 1 \subseteq serials PROVE FALSE
    OBVIOUS
  <2>2. IsFiniteSet(1 .. n + 1) /\ Cardinality(1 .. n + 1) = n + 1
    <3>1. n + 1 \in Nat
      BY <1>5
    <3>2. QED
      BY <3>1, UpTo
  <2>3. Cardinality(1 .. n + 1) <= Cardinality(serials)
    BY <1>6, <2>1, FS_Subset
  <2>4. Cardinality(serials) \in Nat
    BY <1>6, FS_CardinalityType
  <2>5. QED
    BY <1>5, <1>6, <2>2, <2>3, <2>4
<1>8. m \in 1 .. n + 1 \ serials
  <2>1. 1 .. n + 1 \ serials \in SUBSET Nat
    BY <1>5
  <2>2. QED
    BY <1>7, <2>1, MinIs
<1>9. m \in Nat /\ m \notin serials
  BY <1>5, <1>8
<1>10. Started(e, f, c) = [event |-> e, fd |-> f, of |-> c, cancelled |-> FALSE, serial |-> m]
  BY DEF Started
<1>a. IsFiniteSet(Running(e, c)) /\ n = Cardinality(Running(e, c))
  BY <1>4 DEF Ops, Running
<1>b. m \in 1 .. n + 1
  BY <1>8
<1> HIDE DEF m, n
<1>11. /\ Started(e, f, c) \in OpRecords /\ Started(e, f, c).event = e
       /\ Started(e, f, c).of = c /\ Started(e, f, c).fd = f /\ Started(e, f, c).serial = m
  BY <1>9, <1>10 DEF OpRecords
<1>12. Key(Started(e, f, c)) = <<e, c, m>>
  BY <1>11 DEF Key
<1>13. <<e, c, m>> \notin Keys
  <2>1. SUFFICES ASSUME NEW o \in Ops, Key(o) = <<e, c, m>> PROVE FALSE
    BY DEF Keys
  <2>2. o.event = e /\ o.of = c /\ o.serial = m
    BY <2>1 DEF Key
  <2>3. o \in running
    BY <2>2 DEF Ops
  <2>4. QED
    BY <1>9, <2>2, <2>3
<1>14. QED
  BY <1>a, <1>b, <1>11, <1>12, <1>13

\* The ring with one more operation.
LEMMA RingGrows ==
  ASSUME RingOk, NEW o \in OpRecords, Key(o) \notin Keys, ring' = ring \union {o}, cq' = cq
  PROVE  RingOk' /\ Keys' = Keys \union {Key(o)} /\ Ops' = Ops \union {o}
<1>1. ring \subseteq OpRecords /\ IsFiniteSet(ring) /\ RingPart /\ IsFiniteSet(cq)
      /\ cq \subseteq [op : OpRecords, result : Int]
  BY DEF RingOk
<1>2. IsFiniteSet(ring')
  BY <1>1, FS_AddElement
<1>3. (\A p \in ring : Key(p) # Key(o)) /\ (\A x \in cq : Key(x.op) # Key(o))
  BY DEF Keys, Ops
<1>4. RingPart'
  BY <1>1, <1>3 DEF RingPart, Key
<1>5. RingOk'
  BY <1>1, <1>2, <1>4 DEF RingOk
<1>6. Ops' = Ops \union {o}
  BY DEF Ops
<1>7. QED
  BY <1>5, <1>6 DEF Keys, Key

\* A completion is taken from the queue, and what still runs may be cancelled.
LEMMA RingLoses ==
  ASSUME RingOk, NEW x \in cq, cq' = cq \ {x}, SameRing(ring')
  PROVE  /\ RingOk' /\ Keys' = Keys \ {Key(x.op)} /\ Key(x.op) \in Keys
         /\ \A o \in Ops' : \E p \in Ops : p.event = o.event /\ p.of = o.of /\ p.fd = o.fd
<1>1. ring \subseteq OpRecords /\ IsFiniteSet(ring) /\ RingPart /\ IsFiniteSet(cq)
      /\ cq \subseteq [op : OpRecords, result : Int]
  BY DEF RingOk
<1>2. IsFiniteSet(cq')
  BY <1>1, FS_RemoveElement
<1>3. \A o \in ring', y \in cq : Key(o) # Key(y.op)
  <2>1. ASSUME NEW o \in ring', NEW y \in cq PROVE Key(o) # Key(y.op)
    <3>1. PICK a \in ring : Key(a) = Key(o)
      BY DEF SameRing
    <3>2. QED
      BY <1>1, <3>1 DEF RingPart
  <2>2. QED
    BY <2>1
<1>4. RingPart'
  BY <1>1, <1>3 DEF RingPart, Key, SameRing
<1>5. RingOk'
  BY <1>1, <1>2, <1>4 DEF RingOk, SameRing
<1>6. Keys = {Key(o) : o \in ring} \union {Key(y.op) : y \in cq}
  BY DEF Keys, Ops
<1>7. Keys' = {Key(o) : o \in ring'} \union {Key(y.op) : y \in cq \ {x}}
  BY DEF Keys, Ops, Key
<1>8. (\A o \in ring : Key(o) # Key(x.op)) /\ (\A y \in cq \ {x} : Key(y.op) # Key(x.op))
  BY <1>1 DEF RingPart
<1>9. Keys' = Keys \ {Key(x.op)} /\ Key(x.op) \in Keys
  BY <1>6, <1>7, <1>8 DEF SameRing
<1>10. \A o \in Ops' : \E p \in Ops : p.event = o.event /\ p.of = o.of /\ p.fd = o.fd
  BY DEF Ops, SameRing
<1>11. QED
  BY <1>5, <1>9, <1>10

\* The operations that the channels have to hear of, one more and one less.
LEMMA PendingGrows ==
  ASSUME NEW k, Keys' = Keys \union {k}, k[1] # "accept"
  PROVE  /\ Pending(k[2])' = Pending(k[2]) \union {k}
         /\ \A c : c # k[2] => Pending(c)' = Pending(c)
  BY DEF Pending

LEMMA PendingShrinks ==
  ASSUME NEW k, Keys' = Keys \ {k}
  PROVE  /\ k[1] # "accept" => Pending(k[2])' = Pending(k[2]) \ {k}
         /\ \A c : c # k[2] \/ k[1] = "accept" => Pending(c)' = Pending(c)
  BY DEF Pending

-----------------------------------------------------------------------------
(* Steps that leave descriptors and registries alone. *)

\* A channel stays the one it is.
Stays(old, new) ==
  /\ new \in Records /\ Shape(new)
  /\ new.kind = old.kind /\ new.fd = old.fd /\ new.misset = old.misset
  /\ new.stage = "refused" <=> old.stage = "refused"
  /\ old.stage = "closed" => new.stage = "closed"
  /\ old.gone => new.gone

\* The operation is one of a channel that was given to the application.
Belongs(o) == o.of \in Used /\ chan[o.of].stage # "refused" /\ o.fd = chan[o.of].fd

LEMMA ConsistentIs ==
  ASSUME Consistent
  PROVE  /\ RingOk /\ ShapePart /\ OpsPart /\ CountPart /\ PlacePart /\ EntryPart /\ AcceptPart
         /\ table \in [Fds -> Channels \union Nobody]
         /\ chan \in [Channels -> {Unused} \union Records]
         /\ registry \in [Registries -> [Fds -> Channels \union {None}]]
         /\ \A c \in Used : chan[c] \in Records
  BY DEF Consistent, RingOk, TypePart, Used

LEMMA ConsistentWhen ==
  ASSUME RingOk, ShapePart, OpsPart, CountPart, PlacePart, EntryPart, AcceptPart,
         table \in [Fds -> Channels \union Nobody],
         chan \in [Channels -> {Unused} \union Records],
         registry \in [Registries -> [Fds -> Channels \union {None}]]
  PROVE  Consistent
  BY DEF Consistent, RingOk, TypePart

LEMMA FrameKeeps ==
  ASSUME Consistent, RingOk', UNCHANGED <<table, registry>>, cq' \subseteq cq,
         chan' \in [Channels -> {Unused} \union Records],
         \A c \in Channels : chan'[c] = Unused <=> chan[c] = Unused,
         \A c \in Used : Stays(chan[c], chan'[c]),
         \A o \in Ops' : o.event # "accept" => Belongs(o),
         \A c \in Channels : Sure(c) => Counts(c)'
  PROVE  Consistent'
<1>0. /\ ShapePart /\ OpsPart /\ CountPart /\ PlacePart /\ EntryPart /\ AcceptPart
      /\ table \in [Fds -> Channels \union Nobody]
      /\ registry \in [Registries -> [Fds -> Channels \union {None}]]
  BY ConsistentIs
<1>1. Used' = Used /\ Used \subseteq Channels
  BY DEF Used
<1>2. \A c \in Used : /\ chan'[c].kind = chan[c].kind /\ chan'[c].fd = chan[c].fd
                      /\ chan'[c].misset = chan[c].misset
                      /\ chan'[c].stage = "refused" <=> chan[c].stage = "refused"
                      /\ chan[c].stage = "closed" => chan'[c].stage = "closed"
                      /\ chan[c].gone => chan'[c].gone
  BY DEF Stays
<1>3. OneMisset' <=> OneMisset
  BY <1>1, <1>2 DEF OneMisset
<1>4. ASSUME NEW c \in Channels
      PROVE  (Sure(c)' <=> Sure(c)) /\ (Live(c)' => Live(c))
  BY <1>1, <1>2, <1>3 DEF Sure, Live
<1>5. ShapePart'
  BY <1>1 DEF ShapePart, Stays, Shape
<1>6. OpsPart'
  BY <1>1, <1>2 DEF OpsPart, Belongs
<1>7. CountPart'
  BY <1>4 DEF CountPart
<1>8. PlacePart'
  <2>1. ASSUME NEW c \in Channels, Sure(c)', Live(c)' PROVE Place(c)'
    <3>1. Place(c) /\ c \in Used
      BY <1>0, <1>4, <2>1 DEF PlacePart, Live
    <3>2. QED
      BY <1>2, <3>1 DEF Place
  <2>2. (\A c \in Used' : ~chan'[c].misset)
        => table'[0] = "stdin" /\ \A c \in Used' : chan'[c].fd = 0 => chan'[c].stage = "refused"
    BY <1>0, <1>1, <1>2 DEF PlacePart
  <2>3. QED
    BY <2>1, <2>2 DEF PlacePart
<1>9. EntryPart'
  <2>1. ASSUME NEW r \in Registries, NEW f \in Fds, registry'[r][f] # None
        PROVE  LET d == registry'[r][f] IN
               /\ d \in Used' /\ chan'[d].stage # "refused"
               /\ RegistryOf(chan'[d].kind) = r /\ chan'[d].fd = f
    BY <1>0, <1>1, <1>2, <2>1 DEF EntryPart
  <2>2. QED
    BY <2>1 DEF EntryPart
<1>10. AcceptPart'
  BY <1>0, <1>1 DEF AcceptPart, Accepted
<1>11. QED
  BY <1>0, <1>5, <1>6, <1>7, <1>8, <1>9, <1>10, ConsistentWhen DEF Consistent, RingOk, TypePart

\* The same operations belong to the same channels.
LEMMA SameBelong ==
  ASSUME Consistent, SameOps
  PROVE  /\ \A o \in Ops' : o.event # "accept" => Belongs(o)
         /\ \A c : Pending(c)' = Pending(c)
<1>1. OpsPart
  BY ConsistentIs
<1>2. \A o \in Ops' : \E p \in Ops : p.event = o.event /\ p.of = o.of /\ p.fd = o.fd
  BY DEF SameOps
<1>3. \A o \in Ops' : o.event # "accept" => Belongs(o)
  BY <1>1, <1>2 DEF OpsPart, Belongs
<1>4. \A c : Pending(c)' = Pending(c)
  BY DEF SameOps, Pending
<1>5. QED
  BY <1>3, <1>4

\* What close() does to a channel while it has operations.
Moved(old, new) ==
  /\ Stays(old, new) /\ new.pending = old.pending /\ new.closer = old.closer
  /\ new.up = old.up /\ new.failing = old.failing /\ new.gone = old.gone
  /\ new.stage = "closed" => old.stage = "closed"
  /\ new.stage = "finishing" => old.stage = "finishing" \/ old.pending = 0

LEMMA MovesKeep ==
  ASSUME Consistent, RingOk', UNCHANGED <<table, registry>>, cq' \subseteq cq,
         \A o \in Ops' : o.event # "accept" => Belongs(o),
         \A c \in Channels : Pending(c)' = Pending(c),
         chan' \in [Channels -> {Unused} \union Records],
         \A c \in Channels : chan'[c] = Unused <=> chan[c] = Unused,
         \A c \in Used : Moved(chan[c], chan'[c])
  PROVE  Consistent'
<1>1. \A c \in Used : Stays(chan[c], chan'[c])
  BY DEF Moved
<1>2. ASSUME NEW c \in Channels, Sure(c) PROVE Counts(c)'
  <2>1. Counts(c) /\ c \in Used
    BY <1>2, ConsistentIs DEF CountPart, Sure
  <2>2. Moved(chan[c], chan'[c])
    BY <2>1
  <2>3. chan[c].pending = 0 => Pending(c) = {}
    BY <2>1, FS_EmptySet DEF Counts
  <2>4. QED
    BY <2>1, <2>2, <2>3 DEF Counts, Moved
<1>3. QED
  BY <1>1, <1>2, FrameKeeps

LEMMA MovedKeeps ==
  ASSUME Consistent, RingOk', SameOps, UNCHANGED <<table, registry, cq>>,
         chan' \in [Channels -> {Unused} \union Records],
         \A c \in Channels : chan'[c] = Unused <=> chan[c] = Unused,
         \A c \in Used : Moved(chan[c], chan'[c])
  PROVE  Consistent'
<1>1. /\ \A o \in Ops' : o.event # "accept" => Belongs(o)
      /\ \A c : Pending(c)' = Pending(c)
  BY SameBelong
<1>2. QED
  BY <1>1, MovesKeep

\* A channel that is not touched.
LEMMA MovedSelf == ASSUME NEW ch \in Records, Shape(ch) PROVE Moved(ch, ch)
  BY DEF Moved, Stays

\* The start of close().
LEMMA ClosingMoves ==
  ASSUME NEW ch \in Records, Shape(ch), ch.stage \notin {"closed", "refused"}, NEW g \in BOOLEAN
  PROVE  Moved(ch, Closing(ch, g))
<1>1. /\ Closing(ch, g) \in Records /\ Kept(ch, Closing(ch, g))
      /\ Closing(ch, g).pending = ch.pending /\ Closing(ch, g).closer = ch.closer
      /\ Closing(ch, g).closing = TRUE
      /\ Closing(ch, g).stage = IF ch.pending = 0 THEN "finishing"
                                ELSE IF g THEN "graceful" ELSE "cancelling"
  BY ClosingIs
<1>2. Closing(ch, g).stage \in {"finishing", "graceful", "cancelling"}
  BY <1>1
<1>3. Shape(Closing(ch, g))
  BY <1>1, <1>2 DEF Shape, Kept
<1>4. QED
  BY <1>1, <1>2, <1>3 DEF Moved, Stays, Kept

\* The ring after close(), with cancellations or without.
LEMMA CancelledRing ==
  ASSUME RingOk, NEW cs, NEW g, ring' = Cancelled(cs, g), cq' = cq
  PROVE  RingOk' /\ SameOps
<1>1. CASE g
  BY <1>1, SameAsIs, RingStays DEF Cancelled
<1>2. CASE ~g
  BY <1>2, SameCancelled, RingStays DEF Cancelled
<1>3. QED
  BY <1>1, <1>2

LEMMA CloseKeeps ==
  ASSUME Consistent, NEW c \in Channels, NEW g \in BOOLEAN, Close(c, g)
  PROVE  Consistent'
<1>1. /\ c \in Used /\ chan[c].stage = "open"
      /\ chan' = [chan EXCEPT ![c] = Closing(chan[c], g)]
      /\ ring' = Cancelled({c}, g) /\ UNCHANGED <<table, registry, cq>>
  BY DEF Close, FirstClose
<1>2. /\ RingOk /\ ShapePart /\ chan \in [Channels -> {Unused} \union Records]
      /\ \A x \in Used : chan[x] \in Records
  BY ConsistentIs
<1>3. Moved(chan[c], Closing(chan[c], g)) /\ Closing(chan[c], g) \in Records
  BY <1>1, <1>2, ClosingMoves, ClosingIs DEF ShapePart
<1>4. /\ chan' \in [Channels -> {Unused} \union Records] /\ chan'[c] = Closing(chan[c], g)
      /\ \A x \in Channels \ {c} : chan'[x] = chan[x]
  BY <1>1, <1>2, <1>3
<1>5. chan'[c] # Unused /\ chan[c] # Unused
  BY <1>1, <1>3, <1>4, FieldTypes DEF Used
<1>6. \A x \in Channels : chan'[x] = Unused <=> chan[x] = Unused
  BY <1>4, <1>5
<1>7. \A x \in Used : Moved(chan[x], chan'[x])
  <2>1. ASSUME NEW x \in Used, x # c PROVE Moved(chan[x], chan'[x])
    BY <1>2, <1>4, <2>1, MovedSelf DEF ShapePart, Used
  <2>2. QED
    BY <1>3, <1>4, <2>1
<1>8. RingOk' /\ SameOps
  BY <1>1, <1>2, CancelledRing
<1>9. QED
  BY <1>1, <1>4, <1>6, <1>7, <1>8, MovedKeeps

LEMMA CloseDrainedKeeps ==
  ASSUME Consistent, NEW c \in Channels, CloseDrained(c)
  PROVE  Consistent'
<1> DEFINE g == chan[c].graceful
<1>1. /\ c \in Used /\ chan[c].stage = "draining"
      /\ chan' = [chan EXCEPT ![c] = Closing(chan[c], g)]
      /\ ring' = Cancelled({c}, g) /\ UNCHANGED <<table, registry, cq>>
  BY DEF CloseDrained
<1>2. /\ RingOk /\ ShapePart /\ chan \in [Channels -> {Unused} \union Records]
      /\ \A x \in Used : chan[x] \in Records
  BY ConsistentIs
<1>g. g \in BOOLEAN
  BY <1>1, <1>2, FieldTypes
<1> HIDE DEF g
<1>3. Moved(chan[c], Closing(chan[c], g)) /\ Closing(chan[c], g) \in Records
  BY <1>g, <1>1, <1>2, ClosingMoves, ClosingIs DEF ShapePart
<1>4. /\ chan' \in [Channels -> {Unused} \union Records] /\ chan'[c] = Closing(chan[c], g)
      /\ \A x \in Channels \ {c} : chan'[x] = chan[x]
  BY <1>1, <1>2, <1>3
<1>5. chan'[c] # Unused /\ chan[c] # Unused
  BY <1>1, <1>3, <1>4, FieldTypes DEF Used
<1>6. \A x \in Channels : chan'[x] = Unused <=> chan[x] = Unused
  BY <1>4, <1>5
<1>7. \A x \in Used : Moved(chan[x], chan'[x])
  <2>1. ASSUME NEW x \in Used, x # c PROVE Moved(chan[x], chan'[x])
    BY <1>2, <1>4, <2>1, MovedSelf DEF ShapePart, Used
  <2>2. QED
    BY <1>3, <1>4, <2>1
<1>8. RingOk' /\ SameOps
  BY <1>1, <1>2, CancelledRing
<1>9. QED
  BY <1>1, <1>4, <1>6, <1>7, <1>8, MovedKeeps

LEMMA GracefulTimeoutKeeps ==
  ASSUME Consistent, NEW c \in Channels, GracefulTimeout(c)
  PROVE  Consistent'
<1> DEFINE n == [chan[c] EXCEPT !.stage = "cancelling", !.active = FALSE]
<1>1. /\ c \in Used /\ chan[c].stage = "graceful"
      /\ chan' = [chan EXCEPT ![c].stage = "cancelling", ![c].active = FALSE]
      /\ ring' = transport_cancel_by_fd({chan[c].fd}) /\ UNCHANGED <<table, registry, cq>>
  BY DEF GracefulTimeout
<1>2. /\ RingOk /\ ShapePart /\ chan \in [Channels -> {Unused} \union Records]
      /\ \A x \in Used : chan[x] \in Records
  BY ConsistentIs
<1>3. /\ n \in Records /\ Kept(chan[c], n) /\ n.pending = chan[c].pending
      /\ n.closer = chan[c].closer /\ n.closing = chan[c].closing /\ n.stage = "cancelling"
  BY <1>1, <1>2 DEF Records, Kept, Stages
<1>4. /\ chan' \in [Channels -> {Unused} \union Records] /\ chan'[c] = n
      /\ \A x \in Channels \ {c} : chan'[x] = chan[x]
  <2>1. c \in Channels /\ chan' = [chan EXCEPT ![c] = n]
    BY <1>1, <1>2
  <2>2. QED
    BY <1>2, <1>3, <2>1
<1> HIDE DEF n
<1>5. Moved(chan[c], n)
  <2>1. Shape(chan[c])
    BY <1>1, <1>2 DEF ShapePart
  <2>2. Shape(n)
    BY <1>1, <1>3, <2>1 DEF Shape, Kept
  <2>3. QED
    BY <1>1, <1>3, <2>2 DEF Moved, Stays, Kept
<1>6. \A x \in Channels : chan'[x] = Unused <=> chan[x] = Unused
  BY <1>1, <1>3, <1>4, FieldTypes DEF Used
<1>7. \A x \in Used : Moved(chan[x], chan'[x])
  <2>1. ASSUME NEW x \in Used, x # c PROVE Moved(chan[x], chan'[x])
    BY <1>2, <1>4, <2>1, MovedSelf DEF ShapePart, Used
  <2>2. QED
    BY <1>4, <1>5, <2>1
<1>8. RingOk' /\ SameOps
  BY <1>1, <1>2, SameCancelled, RingStays
<1>9. QED
  BY <1>1, <1>4, <1>6, <1>7, <1>8, MovedKeeps

LEMMA CloseServerKeeps ==
  ASSUME Consistent, NEW s \in Channels, NEW g \in BOOLEAN, CloseServer(s, g)
  PROVE  Consistent'
<1> DEFINE mine == {x \in Used : chan[x].server = s /\ chan[x].stage # "closed"}
           fresh == {x \in mine : ~chan[x].closing}
           n == [chan[s] EXCEPT !.closing = TRUE, !.stage = "draining",
                                !.graceful = g, !.waits = fresh, !.late = mine \ fresh]
<1>1. /\ s \in Used /\ chan[s].stage = "open"
      /\ chan' = [x \in Channels |->
                   IF x \in fresh THEN Closing(chan[x], g) ELSE IF x # s THEN chan[x] ELSE n]
      /\ ring' = Cancelled(fresh, g) /\ UNCHANGED <<table, registry, cq>>
  BY DEF CloseServer, FirstClose
<1>2. /\ RingOk /\ ShapePart /\ chan \in [Channels -> {Unused} \union Records]
      /\ \A x \in Used : chan[x] \in Records
  BY ConsistentIs
<1>3. fresh \subseteq Used /\ fresh \subseteq Channels /\ mine \ fresh \subseteq Channels
  BY DEF Used
<1>4. ASSUME NEW x \in fresh
      PROVE  chan[x].stage # "closed" /\ ~chan[x].closing /\ chan[x].server = s
  OBVIOUS
<1> HIDE DEF fresh, mine
<1>5. /\ n \in Records /\ Kept(chan[s], n) /\ n.pending = chan[s].pending
      /\ n.closer = chan[s].closer /\ n.closing = TRUE /\ n.stage = "draining"
  <2>1. chan[s] \in Records
    BY <1>1, <1>2
  <2>2. n \in Records
    BY <1>3, <2>1 DEF Records, Stages
  <2>3. Kept(chan[s], n) /\ n.pending = chan[s].pending /\ n.closer = chan[s].closer
    BY <2>1 DEF Records, Kept
  <2>4. n.closing = TRUE /\ n.stage = "draining"
    BY <2>1 DEF Records
  <2>5. QED
    BY <2>2, <2>3, <2>4
<1> HIDE DEF n
<1>6. Moved(chan[s], n)
  <2>1. Shape(chan[s])
    BY <1>1, <1>2 DEF ShapePart
  <2>2. Shape(n)
    BY <1>1, <1>5, <2>1 DEF Shape, Kept
  <2>3. QED
    BY <1>1, <1>5, <2>2 DEF Moved, Stays, Kept
<1>7. ASSUME NEW x \in fresh
      PROVE  Closing(chan[x], g) \in Records /\ Moved(chan[x], Closing(chan[x], g))
  <2>1. chan[x] \in Records /\ Shape(chan[x])
    BY <1>2, <1>3 DEF ShapePart
  <2>2. s # None
    BY ChannelsAssumption
  <2>3. chan[x].stage \notin {"closed", "refused"}
    BY <1>4, <2>1, <2>2 DEF Shape
  <2>4. QED
    BY <2>1, <2>3, ClosingMoves, ClosingIs
<1>8. chan' \in [Channels -> {Unused} \union Records]
  BY <1>1, <1>2, <1>5, <1>7
<1>9. \A x \in Channels : chan'[x] = Unused <=> chan[x] = Unused
  BY <1>1, <1>2, <1>3, <1>5, <1>7, FieldTypes DEF Used
<1>10. \A x \in Used : Moved(chan[x], chan'[x])
  <2>1. ASSUME NEW x \in Used PROVE Moved(chan[x], chan'[x])
    <3>1. CASE x \in fresh
      BY <1>1, <1>3, <1>7, <3>1
    <3>2. CASE x \notin fresh /\ x = s
      BY <1>1, <1>6, <3>2
    <3>3. CASE x \notin fresh /\ x # s
      <4>1. chan'[x] = chan[x]
        BY <1>1, <3>3 DEF Used
      <4>2. QED
        BY <1>2, <4>1, MovedSelf DEF ShapePart
    <3>4. QED
      BY <3>1, <3>2, <3>3
  <2>2. QED
    BY <2>1
<1>11. RingOk' /\ SameOps
  BY <1>1, <1>2, CancelledRing
<1>12. QED
  BY <1>1, <1>8, <1>9, <1>10, <1>11, MovedKeeps

-----------------------------------------------------------------------------
(* Operations begin and end. *)

LEMMA OperateKeeps ==
  ASSUME Consistent, NEW c \in Channels, NEW e \in Events, Operate(c, e)
  PROVE  Consistent'
<1> DEFINE n == [chan[c] EXCEPT !.pending = @ + 1]
           o == Started(e, chan[c].fd, c)
<1>1. /\ c \in Used /\ chan[c].stage = "open" /\ chan[c].up
      /\ e \in {"message", "read", "write"}
      /\ ring' = ring \union {o} /\ UNCHANGED <<table, registry, cq>>
  BY DEF Operate
<1>2. /\ RingOk /\ ShapePart /\ OpsPart /\ CountPart
      /\ chan \in [Channels -> {Unused} \union Records]
      /\ \A x \in Used : chan[x] \in Records
  BY ConsistentIs
<1>3. chan[c] \in Records /\ Shape(chan[c])
  BY <1>1, <1>2 DEF ShapePart
<1>4. /\ n \in Records /\ Kept(chan[c], n) /\ n.pending = chan[c].pending + 1
      /\ n.closer = chan[c].closer /\ n.closing = chan[c].closing /\ n.stage = "open"
      /\ n.server = chan[c].server
  <2>1. chan[c].pending + 1 \in Int
    BY <1>3, FieldTypes
  <2>2. n \in Records
    BY <1>3, <2>1 DEF Records
  <2>3. Kept(chan[c], n) /\ n.pending = chan[c].pending + 1
    BY <1>3 DEF Records, Kept
  <2>4. n.closer = chan[c].closer /\ n.closing = chan[c].closing
    BY <1>3 DEF Records
  <2>5. n.stage = "open" /\ n.server = chan[c].server
    BY <1>1, <1>3 DEF Records
  <2>6. QED
    BY <2>2, <2>3, <2>4, <2>5
<1>5. /\ chan' \in [Channels -> {Unused} \union Records] /\ chan'[c] = n
      /\ \A x \in Channels \ {c} : chan'[x] = chan[x]
  <2>1. chan' = [chan EXCEPT ![c] = n]
    BY <1>2 DEF Operate
  <2>2. QED
    BY <1>2, <1>4, <2>1
<1>6. /\ o \in OpRecords /\ o.event = e /\ o.of = c /\ o.fd = chan[c].fd
      /\ Key(o) \notin Keys /\ Key(o)[1] = e /\ Key(o)[2] = c
  <2>1. chan[c].fd \in Fds
    BY <1>3, FieldTypes
  <2>2. QED
    BY <1>2, <2>1, StartedIs
<1> HIDE DEF n, o
<1>7. RingOk' /\ Keys' = Keys \union {Key(o)} /\ Ops' = Ops \union {o}
  BY <1>1, <1>2, <1>6, RingGrows
<1>8. Pending(c)' = Pending(c) \union {Key(o)} /\ Key(o) \notin Pending(c)
      /\ \A x : x # c => Pending(x)' = Pending(x)
  BY <1>1, <1>6, <1>7, PendingGrows DEF Pending
<1>9. \A x \in Channels : chan'[x] = Unused <=> chan[x] = Unused
  BY <1>1, <1>4, <1>5, FieldTypes DEF Used
<1>10. Stays(chan[c], n)
  BY <1>1, <1>3, <1>4 DEF Stays, Shape, Kept
<1>11. \A x \in Used : Stays(chan[x], chan'[x])
  <2>1. ASSUME NEW x \in Used, x # c PROVE Stays(chan[x], chan'[x])
    BY <1>2, <1>5, <2>1 DEF ShapePart, Used, Stays
  <2>2. QED
    BY <1>5, <1>10, <2>1
<1>12. \A p \in Ops' : p.event # "accept" => Belongs(p)
  BY <1>1, <1>2, <1>6, <1>7 DEF OpsPart, Belongs
<1>13. ASSUME NEW x \in Channels, Sure(x) PROVE Counts(x)'
  <2>1. Counts(x)
    BY <1>2, <1>13 DEF CountPart
  <2>2. CASE x # c
    BY <1>5, <1>8, <2>1, <2>2 DEF Counts
  <2>3. CASE x = c
    <3>1. /\ IsFiniteSet(Pending(c)) /\ chan[c].pending = Cardinality(Pending(c))
          /\ ~chan[c].failing /\ ~chan[c].gone /\ (\A k \in Pending(c) : k[1] # "connect")
      BY <1>1, <2>1, <2>3 DEF Counts
    <3>2. IsFiniteSet(Pending(c)') /\ Cardinality(Pending(c)') = Cardinality(Pending(c)) + 1
      BY <1>8, <3>1, FS_AddElement
    <3>3. ~chan[c].closer
      BY <1>1, <1>3 DEF Shape
    <3>4. \A k \in Pending(c)' : k[1] # "connect"
      BY <1>1, <1>6, <1>8, <3>1
    <3>5. QED
      BY <1>1, <1>4, <1>5, <2>3, <3>1, <3>2, <3>3, <3>4 DEF Counts, Kept
  <2>4. QED
    BY <2>2, <2>3
<1>14. QED
  BY <1>1, <1>5, <1>7, <1>9, <1>11, <1>12, <1>13, FrameKeeps

\* What a channel makes of the end of an operation.
Heard(old, new, e) ==
  /\ Stays(old, new) /\ new.pending = old.pending - 1 /\ new.gone = old.gone
  /\ new.closer => old.closer \/ old.pending = 1
  /\ new.stage = "closed" => old.stage = "closed"
  /\ new.stage = "finishing" => old.stage = "finishing" \/ old.pending = 1
  /\ e # "connect" => new.up = old.up /\ new.failing = old.failing
  /\ new.failing => ~new.up \/ e # "connect"

\* An operation of a channel that is sure of its descriptor is delivered to it.
LEMMA SureHears ==
  ASSUME Consistent, NEW o \in Ops, o.event # "accept", Sure(o.of)
  PROVE  registry[RegistryOf(chan[o.of].kind)][o.fd] = o.of /\ o.fd = chan[o.of].fd
<1>1. OpsPart /\ CountPart /\ PlacePart /\ RingOk
  BY ConsistentIs
<1>2. o.of \in Channels /\ o.of \in Used /\ o.fd = chan[o.of].fd
  BY <1>1, OpTypes DEF OpsPart
<1>3. Key(o) \in Pending(o.of)
  BY DEF Pending, Keys, Key
<1>4. Counts(o.of)
  BY <1>1, <1>2 DEF CountPart
<1>5. Live(o.of)
  BY <1>2, <1>3, <1>4 DEF Live, Counts, Sure
<1>6. Place(o.of)
  BY <1>1, <1>2, <1>5 DEF PlacePart
<1>7. QED
  BY <1>2, <1>6 DEF Place

LEMMA HeardKeeps ==
  ASSUME Consistent, NEW x \in cq, cq' = cq \ {x}, x.op.event # "accept", SameRing(ring'),
         UNCHANGED <<table, registry>>,
         NEW c, c = registry[RegistryOf(chan[x.op.of].kind)][x.op.fd],
         chan' \in [Channels -> {Unused} \union Records],
         \A y \in Channels : y # c => chan'[y] = chan[y],
         c # None => Heard(chan[c], chan'[c], x.op.event)
  PROVE  Consistent'
<1> DEFINE o == x.op
           k == Key(x.op)
<1>1. /\ RingOk /\ ShapePart /\ OpsPart /\ CountPart /\ EntryPart
      /\ chan \in [Channels -> {Unused} \union Records]
      /\ \A y \in Used : chan[y] \in Records
      /\ registry \in [Registries -> [Fds -> Channels \union {None}]]
  BY ConsistentIs
<1>2. o \in Ops
  BY DEF Ops
<1>3. o.of \in Used /\ o.of \in Channels /\ o.fd = chan[o.of].fd /\ o.fd \in Fds
      /\ chan[o.of].stage # "refused"
  BY <1>1, <1>2, OpTypes DEF OpsPart
<1>4. c # None => /\ c \in Used /\ c \in Channels /\ chan[c].stage # "refused"
                  /\ chan[c].fd = o.fd
  <2>1. RegistryOf(chan[o.of].kind) \in Registries
    BY RegistryTypes
  <2>2. QED
    BY <1>1, <1>3, <2>1 DEF EntryPart, Used
<1>5. /\ RingOk' /\ Keys' = Keys \ {k} /\ k \in Keys
      /\ \A p \in Ops' : \E q \in Ops : q.event = p.event /\ q.of = p.of /\ q.fd = p.fd
  BY <1>1, RingLoses
<1>6. k[1] = o.event /\ k[2] = o.of
  BY DEF Key
<1> HIDE DEF k
<1>7. /\ Pending(o.of)' = Pending(o.of) \ {k} /\ k \in Pending(o.of)
      /\ \A y : y # o.of => Pending(y)' = Pending(y)
  <2>1. k[1] # "accept"
    BY <1>6
  <2>2. Pending(k[2])' = Pending(k[2]) \ {k} /\ \A y : y # k[2] => Pending(y)' = Pending(y)
    BY <1>5, <2>1, PendingShrinks
  <2>3. QED
    BY <1>5, <1>6, <2>1, <2>2 DEF Pending
<1> HIDE DEF o
<1>8. \A p \in Ops' : p.event # "accept" => Belongs(p)
  BY <1>1, <1>5 DEF OpsPart, Belongs
<1>9. \A y \in Channels : chan'[y] = Unused <=> chan[y] = Unused
  <2>1. c # None => chan'[c] # Unused /\ chan[c] # Unused
    BY <1>1, <1>4, FieldTypes DEF Heard, Stays
  <2>2. QED
    BY <2>1, ChannelsAssumption
<1>10. \A y \in Used : Stays(chan[y], chan'[y])
  <2>1. ASSUME NEW y \in Used, y # c PROVE Stays(chan[y], chan'[y])
    BY <1>1, <2>1 DEF ShapePart, Used, Stays
  <2>2. ASSUME NEW y \in Used, y = c PROVE Stays(chan[y], chan'[y])
    BY <2>2, ChannelsAssumption DEF Heard, Used
  <2>3. QED
    BY <2>1, <2>2
<1>11. Sure(o.of) => c = o.of
  BY <1>2, SureHears DEF o
<1>12. ASSUME NEW y \in Channels, Sure(y) PROVE Counts(y)'
  <2>1. Counts(y)
    BY <1>1, <1>12 DEF CountPart
  <2>2. CASE y # o.of
    <3>1. y # c
      <4>1. SUFFICES ASSUME y = c PROVE FALSE
        OBVIOUS
      <4>2. c # None
        BY <4>1, ChannelsAssumption
      <4>3. Sure(o.of)
        BY <1>3, <1>4, <1>12, <4>1, <4>2 DEF Sure
      <4>4. QED
        BY <1>11, <2>2, <4>1, <4>3
    <3>2. chan'[y] = chan[y] /\ Pending(y)' = Pending(y)
      BY <1>7, <2>2, <3>1
    <3>3. QED
      BY <2>1, <3>2 DEF Counts
  <2>3. CASE y = o.of
    <3>1. c = y /\ c # None
      BY <1>11, <1>12, <2>3, ChannelsAssumption
    <3>2. Heard(chan[y], chan'[y], k[1])
      BY <1>6, <3>1 DEF o
    <3>3. k \in Pending(y) /\ Pending(y)' = Pending(y) \ {k}
      BY <1>7, <2>3
    <3>4. IsFiniteSet(Pending(y)) /\ chan[y].pending = Cardinality(Pending(y))
      BY <2>1 DEF Counts
    <3>5. IsFiniteSet(Pending(y)') /\ Cardinality(Pending(y)') = chan[y].pending - 1
      BY <3>3, <3>4, FS_RemoveElement
    <3>6. chan'[y].pending = Cardinality(Pending(y)') /\ chan[y].pending \in Nat
      BY <3>2, <3>4, <3>5, FS_CardinalityType DEF Heard
    <3>7. chan[y].pending = 1 => Pending(y)' = {}
      BY <3>5, FS_EmptySet
    <3>8. /\ chan[y].stage \notin {"finishing", "closed"} /\ ~chan[y].closer
          /\ ~chan[y].failing /\ ~chan[y].gone
      BY <2>1, <3>3 DEF Counts
    <3>9. k[1] = "connect" => ~chan[y].up /\ chan[y].pending = 1 /\ Pending(y)' = {}
      <4>1. k[1] = "connect" => ~chan[y].up /\ chan[y].pending <= 1
        BY <2>1, <3>3 DEF Counts
      <4>2. chan[y].pending # 0
        BY <3>3, <3>4, FS_EmptySet
      <4>3. QED
        BY <3>6, <3>7, <4>1, <4>2
    <3>10. chan'[y].gone = chan[y].gone
      BY <3>2 DEF Heard
    <3>11. /\ chan'[y].stage \in {"finishing", "closed"} \/ chan'[y].closer => Pending(y)' = {}
           /\ chan'[y].failing => k[1] = "connect" /\ ~chan'[y].up
           /\ ~chan'[y].gone
      BY <3>2, <3>7, <3>8, <3>10 DEF Heard
    <3>12. ~chan'[y].up => chan'[y].pending <= 1
      <4>1. chan'[y].pending = chan[y].pending - 1
        BY <3>2 DEF Heard
      <4>2. k[1] # "connect" => chan'[y].up = chan[y].up
        BY <3>2 DEF Heard
      <4>3. ~chan[y].up => chan[y].pending <= 1
        BY <2>1 DEF Counts
      <4>4. CASE k[1] = "connect"
        BY <3>6, <3>9, <4>1, <4>4
      <4>5. CASE k[1] # "connect"
        BY <3>6, <4>1, <4>2, <4>3, <4>5
      <4>6. QED
        BY <4>4, <4>5
    <3>13. (\E j \in Pending(y)' : j[1] = "connect") => ~chan'[y].up
      <4>1. CASE k[1] = "connect"
        BY <3>9, <4>1
      <4>2. CASE k[1] # "connect"
        BY <2>1, <3>2, <3>3, <4>2 DEF Heard, Counts
      <4>3. QED
        BY <4>1, <4>2
    <3>14. QED
      BY <3>5, <3>6, <3>9, <3>11, <3>12, <3>13 DEF Counts
  <2>4. QED
    BY <2>2, <2>3
<1>13. QED
  BY <1>5, <1>8, <1>9, <1>10, <1>12, FrameKeeps

LEMMA CountedHeard ==
  ASSUME NEW ch \in Records, Shape(ch), NEW e, e # "connect"
  PROVE  Heard(ch, Counted(ch), e) /\ Shape(Counted(ch))
<1>1. /\ Counted(ch) \in Records /\ Kept(ch, Counted(ch))
      /\ Counted(ch).pending = ch.pending - 1
      /\ Counted(ch).closer = (ch.closer \/ (ch.pending = 1 /\ ch.closing))
      /\ Counted(ch).closing = ch.closing /\ Counted(ch).stage = ch.stage
  BY CountedIs
<1>2. Counted(ch).server = ch.server
  BY DEF Counted, Records
<1>3. Shape(Counted(ch))
  BY <1>1, <1>2 DEF Shape, Kept
<1>4. QED
  BY <1>1, <1>3 DEF Heard, Stays, Kept

\* A failed read or write that closes the channel.
LEMMA FatalHeard ==
  ASSUME NEW ch \in Records, Shape(ch), NEW e, e # "connect", ch.stage \notin {"closed", "refused"}
  PROVE  Closing(Counted(ch), FALSE) \in Records /\ Heard(ch, Closing(Counted(ch), FALSE), e)
<1> DEFINE m == Counted(ch)
           n == Closing(m, FALSE)
<1>1. m \in Records /\ Heard(ch, m, e) /\ Shape(m) /\ m.stage = ch.stage
  BY CountedHeard, CountedIs
<1>2. ch.pending \in Int
  BY FieldTypes
<1> HIDE DEF m
<1>3. Moved(m, n) /\ n \in Records
  BY <1>1, ClosingMoves, ClosingIs
<1> HIDE DEF n
<1>4. Stays(ch, n)
  BY <1>1, <1>3 DEF Heard, Moved, Stays
<1>5. /\ n.pending = ch.pending - 1 /\ n.gone = ch.gone
      /\ n.closer => ch.closer \/ ch.pending = 1
      /\ n.up = ch.up /\ n.failing = ch.failing
      /\ n.stage = "closed" => ch.stage = "closed"
  BY <1>1, <1>3 DEF Heard, Moved
<1>6. n.stage = "finishing" => ch.stage = "finishing" \/ ch.pending = 1
  <2>1. n.stage = "finishing" => m.stage = "finishing" \/ m.pending = 0
    BY <1>3 DEF Moved
  <2>2. m.pending = ch.pending - 1
    BY <1>1 DEF Heard
  <2>3. QED
    BY <1>1, <1>2, <2>1, <2>2
<1>7. Heard(ch, n, e)
  BY <1>4, <1>5, <1>6 DEF Heard
<1>8. QED
  BY <1>3, <1>7 DEF n, m

\* The end of connect().
LEMMA ConnectHeard ==
  ASSUME NEW ch \in Records, Shape(ch), ch.stage # "refused", NEW u \in BOOLEAN, NEW w \in BOOLEAN,
         w => ~u /\ ch.kind = "unix"
  PROVE  /\ [Counted(ch) EXCEPT !.up = u, !.failing = w] \in Records
         /\ Heard(ch, [Counted(ch) EXCEPT !.up = u, !.failing = w], "connect")
<1> DEFINE m == Counted(ch)
           n == [m EXCEPT !.up = u, !.failing = w]
<1>1. /\ m \in Records /\ Kept(ch, m) /\ m.pending = ch.pending - 1
      /\ m.closer = (ch.closer \/ (ch.pending = 1 /\ ch.closing))
      /\ m.closing = ch.closing /\ m.stage = ch.stage
  BY CountedIs
<1>2. m.server = ch.server
  BY DEF Counted, Records
<1> HIDE DEF m
<1>3. n \in Records
  BY <1>1 DEF Records
<1>4. n.up = u /\ n.failing = w
  BY <1>1 DEF Records
<1>5. /\ n.kind = m.kind /\ n.fd = m.fd /\ n.misset = m.misset /\ n.gone = m.gone
  BY <1>1 DEF Records
<1>6. n.pending = m.pending /\ n.closer = m.closer /\ n.closing = m.closing
  BY <1>1 DEF Records
<1>7. n.stage = m.stage /\ n.server = m.server
  BY <1>1 DEF Records
<1> HIDE DEF n
<1>8. Shape(n)
  BY <1>1, <1>2, <1>4, <1>5, <1>6, <1>7 DEF Shape, Kept
<1>9. Stays(ch, n)
  BY <1>1, <1>3, <1>5, <1>7, <1>8 DEF Stays, Kept
<1>10. Heard(ch, n, "connect")
  BY <1>1, <1>4, <1>5, <1>6, <1>7, <1>9 DEF Heard, Kept
<1>11. QED
  BY <1>3, <1>10 DEF n, m

LEMMA ProcessDataKeeps ==
  ASSUME Consistent, NEW x \in cq, Process(x), x.op.event # "accept"
  PROVE  Consistent'
<1> DEFINE o == x.op
           c == registry[RegistryOf(chan[x.op.of].kind)][x.op.fd]
<1>1. /\ RingOk /\ ShapePart /\ OpsPart /\ EntryPart
      /\ chan \in [Channels -> {Unused} \union Records]
      /\ \A y \in Used : chan[y] \in Records
      /\ registry \in [Registries -> [Fds -> Channels \union {None}]]
  BY ConsistentIs
<1>2. o \in Ops /\ o.fd \in Fds
  BY <1>1, OpTypes DEF Ops
<1>3. c # None => /\ c \in Used /\ c \in Channels /\ chan[c].stage # "refused"
                  /\ chan[c] \in Records /\ Shape(chan[c])
  <2>1. RegistryOf(chan[o.of].kind) \in Registries
    BY RegistryTypes
  <2>2. c # None => c \in Used /\ chan[c].stage # "refused"
    BY <1>2, <2>1, <1>1 DEF EntryPart
  <2>3. QED
    BY <1>1, <2>2 DEF Used, ShapePart
<1>4. /\ cq' = cq \ {x}
      /\ IF c = None THEN UNCHANGED <<table, chan, registry, ring>>
         ELSE IF o.event = "connect" THEN NotifyConnect(c, x.result)
         ELSE NotifyData(c, o.event, x.result)
  BY DEF Process
<1> HIDE DEF c
<1>5. CASE c = None
  <2>1. UNCHANGED <<table, chan, registry, ring>>
    BY <1>4, <1>5
  <2>2. SameRing(ring')
    BY <1>1, <2>1, SameAsIs
  <2>3. QED
    BY <1>1, <1>4, <1>5, <2>1, <2>2, HeardKeeps DEF c
<1>6. CASE c # None /\ o.event = "connect"
  <2> DEFINE u == chan[c].active /\ x.result = 0
             w == ~u /\ chan[c].kind = "unix"
             n == [Counted(chan[c]) EXCEPT !.up = u, !.failing = w]
  <2>1. NotifyConnect(c, x.result)
    BY <1>4, <1>6
  <2>2. chan' = [chan EXCEPT ![c] = n] /\ UNCHANGED <<table, registry, ring>>
    BY <2>1 DEF NotifyConnect
  <2>3. u \in BOOLEAN /\ w \in BOOLEAN /\ (w => ~u /\ chan[c].kind = "unix")
    BY <1>3, <1>6, FieldTypes
  <2> HIDE DEF u, w
  <2>4. n \in Records /\ Heard(chan[c], n, "connect")
    BY <1>3, <1>6, <2>3, ConnectHeard
  <2> HIDE DEF n
  <2>5. /\ chan' \in [Channels -> {Unused} \union Records]
        /\ \A y \in Channels : y # c => chan'[y] = chan[y]
        /\ Heard(chan[c], chan'[c], x.op.event)
    BY <1>1, <1>3, <1>6, <2>2, <2>4
  <2>6. SameRing(ring')
    BY <1>1, <2>2, SameAsIs
  <2>7. QED
    BY <1>4, <2>2, <2>5, <2>6, HeardKeeps DEF c
<1>7. CASE c # None /\ o.event # "connect"
  <2> DEFINE fatal == /\ x.result < 0 /\ chan[c].active /\ ~chan[c].closing
                      /\ \/ chan[c].kind = "connection"
                         \/ chan[c].kind \in Connecting /\ o.event = "read"
             n == IF fatal THEN Closing(Counted(chan[c]), FALSE) ELSE Counted(chan[c])
  <2>1. NotifyData(c, o.event, x.result)
    BY <1>4, <1>7
  <2>2. /\ chan' = [chan EXCEPT ![c] = n] /\ UNCHANGED <<table, registry>>
        /\ ring' = IF fatal /\ chan[c].pending > 1 THEN transport_cancel_by_fd({chan[c].fd}) ELSE ring
    BY <2>1 DEF NotifyData
  <2>3. n \in Records /\ Heard(chan[c], n, o.event)
    <3>1. CASE fatal
      <4>1. chan[c].stage \notin {"closed", "refused"}
        BY <1>3, <1>7, <3>1 DEF Shape
      <4>2. QED
        BY <1>3, <1>7, <3>1, <4>1, FatalHeard
    <3>2. CASE ~fatal
      BY <1>3, <1>7, <3>2, CountedHeard, CountedIs
    <3>3. QED
      BY <3>1, <3>2
  <2>4. SameRing(ring')
    <3>1. CASE ring' = ring
      BY <1>1, <3>1, SameAsIs
    <3>2. CASE ring' = transport_cancel_by_fd({chan[c].fd})
      BY <1>1, <3>2, SameCancelled
    <3>3. QED
      BY <2>2, <3>1, <3>2
  <2> HIDE DEF n, fatal
  <2>5. /\ chan' \in [Channels -> {Unused} \union Records]
        /\ \A y \in Channels : y # c => chan'[y] = chan[y]
        /\ Heard(chan[c], chan'[c], x.op.event)
    BY <1>1, <1>3, <1>7, <2>2, <2>3
  <2>7. QED
    BY <1>4, <2>2, <2>4, <2>5, HeardKeeps DEF c
<1>8. QED
  BY <1>5, <1>6, <1>7

-----------------------------------------------------------------------------
(* Descriptors are closed. *)

\* A channel that is sure of its descriptor is the only one on it.
LEMMA SureAlone ==
  ASSUME Consistent, NEW c \in Channels, NEW y \in Channels, Sure(y), Live(y),
         c \in Used, chan[c].stage # "refused", chan[c].fd = chan[y].fd, Sure(c) => Live(c)
  PROVE  c = y
<1>1. Sure(c) /\ Live(c)
  BY DEF Sure
<1>2. Place(c) /\ Place(y) /\ ShapePart /\ c \in Used /\ y \in Used
  BY <1>1, ConsistentIs DEF PlacePart, Sure
<1>3. CASE chan[c].misset /\ chan[y].misset
  <2>1. chan[y].fd = 0
    BY <1>2, <1>3 DEF ShapePart, Shape
  <2>2. QED
    BY <1>2, <1>3, <2>1 DEF Sure, OneMisset
<1>4. CASE ~(chan[c].misset /\ chan[y].misset)
  BY <1>2, <1>4, ChannelsAssumption DEF Place, Nobody
<1>5. QED
  BY <1>3, <1>4

LEMMA AcceptedFinite == IsFiniteSet(Accepted) /\ Cardinality(Accepted) \in Nat
<1>1. 0 \in Int /\ MaxFd \in Int
  BY ChannelsAssumption
<1>2. IsFiniteSet(Fds)
  BY <1>1, FS_Interval DEF Fds
<1>3. IsFiniteSet(Accepted)
  BY <1>2, FS_Subset DEF Accepted
<1>4. QED
  BY <1>3, FS_CardinalityType

\* A channel closes its descriptor.
LEMMA ShutKeeps ==
  ASSUME Consistent, NEW c \in Channels, c \in Used, chan[c].stage # "refused",
         Sure(c) => Live(c), UNCHANGED <<ring, cq>>,
         chan' \in [Channels -> {Unused} \union Records],
         \A y \in Channels : y # c => chan'[y] = chan[y],
         Stays(chan[c], chan'[c]), chan'[c].stage = "closed" \/ chan'[c].gone,
         Sure(c) => Counts(c)',
         table' = Shut(chan[c].fd),
         registry' = [registry EXCEPT ![RegistryOf(chan[c].kind)][chan[c].fd] = None]
  PROVE  Consistent'
<1> DEFINE f == chan[c].fd
           q == RegistryOf(chan[c].kind)
<1>1. /\ RingOk /\ ShapePart /\ OpsPart /\ CountPart /\ PlacePart /\ EntryPart /\ AcceptPart
      /\ table \in [Fds -> Channels \union Nobody]
      /\ chan \in [Channels -> {Unused} \union Records]
      /\ registry \in [Registries -> [Fds -> Channels \union {None}]]
      /\ \A y \in Used : chan[y] \in Records
  BY ConsistentIs
<1>2. f \in Fds /\ q \in Registries /\ chan[c] \in Records
  BY <1>1, FieldTypes, RegistryTypes
<1>3. Used' = Used /\ Used \subseteq Channels
  <2>1. chan'[c] # Unused
    BY FieldTypes DEF Stays
  <2>2. QED
    BY <2>1 DEF Used
<1>4. \A y \in Used : Stays(chan[y], chan'[y])
  <2>1. ASSUME NEW y \in Used, y # c PROVE Stays(chan[y], chan'[y])
    BY <1>1, <1>3, <2>1 DEF ShapePart, Stays
  <2>2. QED
    BY <2>1
<1>5. \A y \in Used : /\ chan'[y].kind = chan[y].kind /\ chan'[y].fd = chan[y].fd
                      /\ chan'[y].misset = chan[y].misset
                      /\ chan'[y].stage = "refused" <=> chan[y].stage = "refused"
                      /\ chan[y].stage = "closed" => chan'[y].stage = "closed"
                      /\ chan[y].gone => chan'[y].gone
  BY <1>4 DEF Stays
<1>6. OneMisset' <=> OneMisset
  BY <1>3, <1>5 DEF OneMisset
<1>7. ASSUME NEW y \in Channels
      PROVE  (Sure(y)' <=> Sure(y)) /\ (Live(y)' => Live(y) /\ y # c)
  BY <1>3, <1>5, <1>6 DEF Sure, Live
<1>8. RingOk' /\ SameOps
  BY <1>1, RingRests
<1>9. /\ \A o \in Ops' : o.event # "accept" => Belongs(o)
      /\ \A y : Pending(y)' = Pending(y)
  BY <1>8, SameBelong
<1>10. /\ table' \in [Fds -> Channels \union Nobody] /\ table'[f] = "free"
       /\ \A g \in Fds : g # f => table'[g] = table[g]
  BY <1>1, <1>2 DEF Shut, Nobody
<1>11. /\ registry' \in [Registries -> [Fds -> Channels \union {None}]]
       /\ \A r \in Registries, g \in Fds :
            registry'[r][g] = IF r = q /\ g = f THEN None ELSE registry[r][g]
  BY <1>1, <1>2
<1> HIDE DEF f, q
<1>12. ShapePart'
  BY <1>3, <1>4 DEF ShapePart, Stays, Shape
<1>13. OpsPart'
  BY <1>3, <1>5, <1>9 DEF OpsPart, Belongs
<1>14. CountPart'
  <2>1. ASSUME NEW y \in Channels, Sure(y)', y # c PROVE Counts(y)'
    <3>1. Counts(y) /\ chan'[y] = chan[y] /\ Pending(y)' = Pending(y)
      BY <1>1, <1>7, <1>9, <2>1 DEF CountPart
    <3>2. QED
      BY <3>1 DEF Counts
  <2>2. QED
    BY <1>7, <2>1 DEF CountPart
<1>15. PlacePart'
  <2>1. ASSUME NEW y \in Channels, Sure(y)', Live(y)' PROVE Place(y)'
    <3>1. Sure(y) /\ Live(y) /\ y # c /\ y \in Used
      BY <1>7, <2>1 DEF Live
    <3>2. Place(y)
      BY <1>1, <3>1 DEF PlacePart
    <3>3. chan[y].fd # f
      BY <3>1, SureAlone DEF f
    <3>4. chan[y].fd \in Fds /\ RegistryOf(chan[y].kind) \in Registries
      BY <1>1, <3>1, FieldTypes, RegistryTypes
    <3>5. table'[chan[y].fd] = table[chan[y].fd]
          /\ registry'[RegistryOf(chan[y].kind)][chan[y].fd] = registry[RegistryOf(chan[y].kind)][chan[y].fd]
      BY <1>10, <1>11, <3>3, <3>4
    <3>6. QED
      BY <1>5, <3>1, <3>2, <3>5 DEF Place
  <2>2. ASSUME \A y \in Used' : ~chan'[y].misset
        PROVE  table'[0] = "stdin" /\ \A y \in Used' : chan'[y].fd = 0 => chan'[y].stage = "refused"
    <3>1. table[0] = "stdin" /\ \A y \in Used : chan[y].fd = 0 => chan[y].stage = "refused"
      BY <1>1, <1>3, <1>5, <2>2 DEF PlacePart
    <3>2. f # 0 /\ 0 \in Fds
      BY <3>1, ChannelsAssumption DEF f, Fds
    <3>3. QED
      BY <1>3, <1>5, <1>10, <3>1, <3>2
  <2>3. QED
    BY <2>1, <2>2 DEF PlacePart
<1>16. EntryPart'
  <2>1. ASSUME NEW r \in Registries, NEW g \in Fds, registry'[r][g] # None
        PROVE  LET d == registry'[r][g] IN
               /\ d \in Used' /\ chan'[d].stage # "refused"
               /\ RegistryOf(chan'[d].kind) = r /\ chan'[d].fd = g
    <3>1. registry'[r][g] = registry[r][g]
      BY <1>11, <2>1
    <3>2. QED
      BY <1>1, <1>3, <1>5, <2>1, <3>1 DEF EntryPart
  <2>2. QED
    BY <2>1 DEF EntryPart
<1>17. AcceptPart'
  <2>1. ASSUME f > 0 PROVE table[f] = c
    <3>1. Sure(c)
      BY <2>1 DEF Sure, f
    <3>2. Place(c) /\ Shape(chan[c])
      BY <1>1, <3>1 DEF PlacePart, ShapePart
    <3>3. ~chan[c].misset
      BY <2>1, <3>2 DEF Shape, f
    <3>4. QED
      BY <3>2, <3>3 DEF Place, f
  <2>2. ASSUME NEW x \in cq, x.op.event = "accept", x.result > 0
        PROVE  x.result \in Fds /\ table'[x.result] = "accepted"
    <3>1. x.result \in Fds /\ table[x.result] = "accepted"
      BY <1>1, <2>2 DEF AcceptPart
    <3>2. x.result # f
      BY <2>1, <2>2, <3>1, ChannelsAssumption DEF Nobody
    <3>3. QED
      BY <1>10, <3>1, <3>2
  <2>3. Accepted' \subseteq Accepted
    BY <1>2, <1>10 DEF Accepted
  <2>4. Cardinality(Accepted') <= Cardinality(Accepted) /\ Cardinality(Accepted') \in Nat
    <3>1. IsFiniteSet(Accepted') /\ Cardinality(Accepted') <= Cardinality(Accepted)
      BY <2>3, AcceptedFinite, FS_Subset
    <3>2. QED
      BY <3>1, FS_CardinalityType
  <2>5. Cardinality(Channels \ Used) \in Nat
    BY ChannelsAssumption, FS_Difference, FS_CardinalityType
  <2>6. Cardinality(Accepted') <= Cardinality(Channels \ Used')
    BY <1>1, <1>3, <2>4, <2>5, AcceptedFinite DEF AcceptPart
  <2>7. QED
    BY <1>1, <2>2, <2>6 DEF AcceptPart
<1>18. QED
  BY <1>8, <1>10, <1>11, <1>12, <1>13, <1>14, <1>15, <1>16, <1>17 DEF Consistent, RingOk, TypePart

LEMMA FinishKeeps ==
  ASSUME Consistent, NEW c \in Channels, Finish(c), ~twice'
  PROVE  Consistent'
<1> DEFINE n == [chan[c] EXCEPT !.stage = "closed", !.active = FALSE, !.graceful = FALSE,
                                !.waits = {}, !.deaf = FALSE]
<1>1. /\ c \in Used /\ Quiet(chan[c]) /\ ~chan[c].gone
      /\ table' = Shut(chan[c].fd)
      /\ registry' = [registry EXCEPT ![RegistryOf(chan[c].kind)][chan[c].fd] = None]
      /\ chan' = [chan EXCEPT ![c] = n] /\ UNCHANGED <<ring, cq>>
  BY DEF Finish
<1>2. /\ RingOk /\ ShapePart /\ CountPart /\ chan \in [Channels -> {Unused} \union Records]
      /\ chan[c] \in Records
  BY <1>1, ConsistentIs
<1>3. Shape(chan[c])
  BY <1>1, <1>2 DEF ShapePart
<1>4. chan[c].stage \in {"finishing", "graceful", "cancelling"} /\ (chan[c].stage = "finishing" \/ chan[c].closer)
  BY <1>1 DEF Quiet
<1>5. n \in Records /\ n.stage = "closed"
  <2>1. n \in Records
    BY <1>2 DEF Records, Stages
  <2>2. n.stage = "closed"
    BY <1>2 DEF Records
  <2>3. QED
    BY <2>1, <2>2
<1>6. Kept(chan[c], n)
  BY <1>2 DEF Records, Kept
<1>7. n.pending = chan[c].pending /\ n.closing = chan[c].closing
  BY <1>2 DEF Records
<1>8. n.closer = chan[c].closer
  BY <1>2 DEF Records
<1> HIDE DEF n
<1>9. chan' \in [Channels -> {Unused} \union Records] /\ chan'[c] = n
      /\ \A y \in Channels : y # c => chan'[y] = chan[y]
  BY <1>1, <1>2, <1>5
<1>10. Stays(chan[c], n)
  <2>1. Shape(n)
    BY <1>3, <1>4, <1>5, <1>6, <1>7, <1>8 DEF Shape, Kept
  <2>2. QED
    BY <1>1, <1>4, <1>5, <1>6, <2>1 DEF Stays, Kept
<1>11. Live(c)
  BY <1>1, <1>4 DEF Live
<1>12. Sure(c) => Counts(c)'
  <2>1. SUFFICES ASSUME Sure(c) PROVE Counts(c)'
    OBVIOUS
  <2>2. Counts(c) /\ Pending(c) = {}
    BY <1>2, <1>4, <2>1 DEF CountPart, Counts
  <2>3. Pending(c)' = Pending(c)
    BY <1>1, <1>2, RingRests, SameBelong
  <2>4. QED
    BY <1>6, <1>7, <1>8, <1>9, <2>2, <2>3 DEF Counts, Kept
<1>13. chan[c].stage # "refused" /\ (chan'[c].stage = "closed" \/ chan'[c].gone)
  BY <1>4, <1>5, <1>9
<1>14. QED
  BY <1>1, <1>9, <1>10, <1>11, <1>12, <1>13, ShutKeeps

LEMMA ConnectFailedKeeps ==
  ASSUME Consistent, NEW c \in Channels, ConnectFailed(c), ~twice'
  PROVE  Consistent'
<1> DEFINE n == [chan[c] EXCEPT !.failing = FALSE, !.gone = TRUE]
<1>1. /\ c \in Used /\ chan[c].failing /\ chan[c].stage # "closed"
      /\ table' = Shut(chan[c].fd)
      /\ registry' = [registry EXCEPT !["clients"][chan[c].fd] = None]
      /\ UNCHANGED <<ring, cq>>
  BY DEF ConnectFailed
<1>2. /\ RingOk /\ ShapePart /\ CountPart /\ chan \in [Channels -> {Unused} \union Records]
      /\ chan[c] \in Records
  BY <1>1, ConsistentIs
<1>3. Shape(chan[c]) /\ chan[c].kind = "unix" /\ chan[c].stage # "refused"
  BY <1>1, <1>2 DEF ShapePart, Shape
<1>4. RegistryOf(chan[c].kind) = "clients"
  BY <1>3 DEF RegistryOf, Listening
<1>5. chan' = [chan EXCEPT ![c] = n]
  BY <1>2 DEF ConnectFailed
<1>6. n \in Records /\ n.gone = TRUE /\ n.failing = FALSE
  <2>1. n \in Records
    BY <1>2 DEF Records
  <2>2. n.gone = TRUE /\ n.failing = FALSE
    BY <1>2 DEF Records
  <2>3. QED
    BY <2>1, <2>2
<1>7. n.kind = chan[c].kind /\ n.fd = chan[c].fd /\ n.misset = chan[c].misset
  BY <1>2 DEF Records
<1>8. n.pending = chan[c].pending /\ n.closing = chan[c].closing /\ n.up = chan[c].up
  BY <1>2 DEF Records
<1>9. n.closer = chan[c].closer /\ n.stage = chan[c].stage /\ n.server = chan[c].server
  BY <1>2 DEF Records
<1> HIDE DEF n
<1>10. chan' \in [Channels -> {Unused} \union Records] /\ chan'[c] = n
       /\ \A y \in Channels : y # c => chan'[y] = chan[y]
  BY <1>2, <1>5, <1>6
<1>11. Stays(chan[c], n)
  <2>1. Shape(n)
    BY <1>3, <1>6, <1>7, <1>8, <1>9 DEF Shape
  <2>2. QED
    BY <1>1, <1>6, <1>7, <1>9, <2>1 DEF Stays
<1>12. Sure(c) => Live(c) /\ Counts(c)'
  <2>1. SUFFICES ASSUME Sure(c) PROVE Live(c) /\ Counts(c)'
    OBVIOUS
  <2>2. Counts(c)
    BY <1>2, <2>1 DEF CountPart
  <2>3. ~chan[c].gone /\ Pending(c) = {} /\ ~chan[c].up
    BY <1>1, <2>2 DEF Counts
  <2>4. Pending(c)' = Pending(c)
    BY <1>1, <1>2, RingRests, SameBelong
  <2>5. Counts(c)'
    BY <1>6, <1>8, <1>10, <2>2, <2>3, <2>4 DEF Counts
  <2>6. QED
    BY <1>1, <1>3, <2>3, <2>5 DEF Live
<1>13. QED
  BY <1>1, <1>3, <1>4, <1>6, <1>10, <1>11, <1>12, ShutKeeps

-----------------------------------------------------------------------------
(* Descriptors are taken. *)

\* Only descriptors without a channel are touched.
LEMMA TableKeeps ==
  ASSUME Consistent, RingOk', UNCHANGED <<chan, registry>>,
         \A o \in Ops' : o.event # "accept" => Belongs(o),
         \A y \in Channels : Pending(y)' = Pending(y),
         table' \in [Fds -> Channels \union Nobody],
         \A g \in Fds : table'[g] = table[g] \/ table[g] \in {"free", "accepted"},
         AcceptPart'
  PROVE  Consistent'
<1>1. /\ ShapePart /\ OpsPart /\ CountPart /\ PlacePart /\ EntryPart
      /\ chan \in [Channels -> {Unused} \union Records]
      /\ registry \in [Registries -> [Fds -> Channels \union {None}]]
      /\ \A y \in Used : chan[y] \in Records
  BY ConsistentIs
<1>2. Used' = Used
  BY DEF Used
<1>3. OneMisset' <=> OneMisset
  BY <1>2 DEF OneMisset
<1>4. ASSUME NEW y \in Channels PROVE (Sure(y)' <=> Sure(y)) /\ (Live(y)' <=> Live(y))
  BY <1>2, <1>3 DEF Sure, Live
<1>5. ShapePart' /\ OpsPart' /\ EntryPart'
  BY <1>1, <1>2 DEF ShapePart, OpsPart, Belongs, EntryPart, Shape
<1>6. CountPart'
  <2>1. ASSUME NEW y \in Channels, Sure(y)' PROVE Counts(y)'
    <3>1. Counts(y) /\ Pending(y)' = Pending(y)
      BY <1>1, <1>4, <2>1 DEF CountPart
    <3>2. QED
      BY <3>1 DEF Counts
  <2>2. QED
    BY <2>1 DEF CountPart
<1>7. PlacePart'
  <2>1. ASSUME NEW y \in Channels, Sure(y)', Live(y)' PROVE Place(y)'
    <3>1. Place(y) /\ y \in Used
      BY <1>1, <1>4, <2>1 DEF PlacePart, Live
    <3>2. chan[y].fd \in Fds
      BY <1>1, <3>1, FieldTypes
    <3>3. table[chan[y].fd] \notin {"free", "accepted"}
      BY <3>1, ChannelsAssumption DEF Place, Nobody
    <3>4. table'[chan[y].fd] = table[chan[y].fd]
      BY <3>2, <3>3
    <3>5. QED
      BY <3>1, <3>4 DEF Place
  <2>2. ASSUME \A y \in Used' : ~chan'[y].misset
        PROVE  table'[0] = "stdin" /\ \A y \in Used' : chan'[y].fd = 0 => chan'[y].stage = "refused"
    <3>1. table[0] = "stdin" /\ \A y \in Used : chan[y].fd = 0 => chan[y].stage = "refused"
      BY <1>1, <1>2, <2>2 DEF PlacePart
    <3>2. 0 \in Fds
      BY ChannelsAssumption DEF Fds
    <3>3. table'[0] = table[0]
      BY <3>1, <3>2
    <3>4. QED
      BY <1>2, <3>1, <3>3
  <2>3. QED
    BY <2>1, <2>2 DEF PlacePart
<1>8. QED
  BY <1>1, <1>5, <1>6, <1>7 DEF Consistent, RingOk, TypePart

LEMMA UnusedFinite == IsFiniteSet(Channels \ Used) /\ Cardinality(Channels \ Used) \in Nat
  BY ChannelsAssumption, FS_Difference, FS_CardinalityType

LEMMA KernelCompleteKeeps ==
  ASSUME Consistent, NEW o \in ring, KernelComplete(o)
  PROVE  Consistent'
<1>1. /\ RingOk /\ AcceptPart /\ table \in [Fds -> Channels \union Nobody]
      /\ UNCHANGED <<chan, registry>> /\ ring' = ring \ {o}
  BY ConsistentIs DEF KernelComplete
<1>2. Used' = Used
  BY <1>1 DEF Used
<1>3. ASSUME NEW n \in Int, cq' = cq \union {[op |-> o, result |-> n]}
      PROVE  /\ RingOk' /\ \A p \in Ops' : p.event # "accept" => Belongs(p)
             /\ \A y \in Channels : Pending(y)' = Pending(y)
  <2>1. RingOk' /\ SameOps
    BY <1>1, <1>3, RingCompletes
  <2>2. QED
    BY <2>1, SameBelong
<1>4. ASSUME NEW n \in Int, cq' = cq \union {[op |-> o, result |-> n]}, UNCHANGED table,
             n > 0 => o.event # "accept"
      PROVE  Consistent'
  <2>1. Accepted' = Accepted
    BY <1>4 DEF Accepted
  <2>2. \A x \in cq' : x.op.event = "accept" /\ x.result > 0 => x \in cq
    BY <1>4
  <2>3. AcceptPart'
    BY <1>1, <1>2, <1>4, <2>1, <2>2 DEF AcceptPart
  <2>4. QED
    BY <1>1, <1>3, <1>4, <2>3, TableKeeps
<1>5. ASSUME o.event = "accept", FreeFds # {}, ObjectLeft,
             cq' = cq \union {[op |-> o, result |-> Min(FreeFds)]},
             table' = [table EXCEPT ![Min(FreeFds)] = "accepted"]
      PROVE  Consistent'
  <2> DEFINE f == Min(FreeFds)
  <2>1. f \in Fds /\ table[f] = "free" /\ f \in Int
    BY <1>5, FreeIs DEF Fds
  <2> HIDE DEF f
  <2>2. cq' = cq \union {[op |-> o, result |-> f]} /\ table' = [table EXCEPT ![f] = "accepted"]
    BY <1>5 DEF f
  <2>3. /\ table' \in [Fds -> Channels \union Nobody] /\ table'[f] = "accepted"
        /\ \A g \in Fds : g # f => table'[g] = table[g]
    BY <1>1, <2>1, <2>2 DEF Nobody
  <2>4. Accepted' = Accepted \union {f} /\ f \notin Accepted
    BY <2>1, <2>3 DEF Accepted
  <2>5. Cardinality(Accepted') = Cardinality(Accepted) + 1
    BY <2>4, AcceptedFinite, FS_AddElement
  <2>6. Cardinality(Accepted') <= Cardinality(Channels \ Used')
    <3>1. Cardinality(Accepted) < Cardinality(Channels \ Used)
      BY <1>5 DEF ObjectLeft, Accepted
    <3>2. QED
      BY <1>2, <2>5, <3>1, AcceptedFinite, UnusedFinite
  <2>7. \A x \in cq : x.op.event = "accept" /\ x.result > 0
          => x.result \in Fds /\ x.result # f /\ table'[x.result] = "accepted"
    BY <1>1, <2>1, <2>3 DEF AcceptPart
  <2>8. [op |-> o, result |-> f].result = f
    OBVIOUS
  <2>9. ASSUME NEW x \in cq', x.op.event = "accept", x.result > 0
        PROVE  x.result \in Fds /\ table'[x.result] = "accepted"
    BY <2>1, <2>2, <2>3, <2>7, <2>9
  <2>10. ASSUME NEW x \in cq', NEW y \in cq', x.op.event = "accept", y.op.event = "accept",
                x.result > 0, x.result = y.result
         PROVE  x = y
    BY <1>1, <2>2, <2>7, <2>8, <2>10 DEF AcceptPart
  <2>11. AcceptPart'
    BY <2>6, <2>9, <2>10 DEF AcceptPart
  <2>12. QED
    BY <1>1, <1>3, <2>1, <2>2, <2>3, <2>11, TableKeeps
<1>6. QED
  <2>1. CASE cq' = cq \union {[op |-> o, result |-> -1]} /\ UNCHANGED table
    BY <1>4, <2>1
  <2>2. CASE /\ o.event # "accept" /\ UNCHANGED table
             /\ cq' = cq \union {[op |-> o, result |-> IF o.event = "connect" THEN 0 ELSE 1]}
    BY <1>4, <2>2
  <2>3. QED
    BY <1>5, <2>1, <2>2 DEF KernelComplete

\* A new channel: the factory refused it, it has the descriptor that was free, or
\* it stands for descriptor 0 because the failure of its socket was not seen.
Placed(c, f) ==
  \/ chan'[c].stage = "refused" /\ registry' = registry
  \/ /\ chan'[c].stage = "open"
     /\ registry' = [registry EXCEPT ![RegistryOf(chan'[c].kind)][chan'[c].fd] = c]
     /\ \/ /\ ~chan'[c].misset /\ chan'[c].fd = f
           /\ table'[f] = c /\ table[f] \in {"free", "accepted"}
        \/ chan'[c].misset /\ chan'[c].fd = 0

LEMMA NewKeeps ==
  ASSUME Consistent, RingOk', NEW c \in Channels, chan[c] = Unused,
         chan' \in [Channels -> {Unused} \union Records], chan'[c] \in Records, Shape(chan'[c]),
         \A y \in Channels : y # c => (chan'[y] = Unused <=> chan[y] = Unused),
         \A y \in Used : Moved(chan[y], chan'[y]),
         \A y \in Channels : y # c => Pending(y)' = Pending(y),
         \A o \in Ops' : o.event # "accept" =>
           Belongs(o) \/ (o.of = c /\ chan'[c].stage # "refused" /\ o.fd = chan'[c].fd),
         chan'[c].stage # "refused" => Counts(c)',
         NEW f \in Fds, table' \in [Fds -> Channels \union Nobody],
         \A g \in Fds : g # f => table'[g] = table[g],
         table'[f] = table[f] \/ table[f] \in {"free", "accepted"},
         Placed(c, f), AcceptPart'
  PROVE  Consistent'
<1>1. /\ ShapePart /\ OpsPart /\ CountPart /\ PlacePart /\ EntryPart
      /\ chan \in [Channels -> {Unused} \union Records]
      /\ registry \in [Registries -> [Fds -> Channels \union {None}]]
      /\ \A y \in Used : chan[y] \in Records
  BY ConsistentIs
<1>2. chan'[c] # Unused /\ chan'[c].fd \in Fds /\ RegistryOf(chan'[c].kind) \in Registries
  BY FieldTypes, RegistryTypes
<1>3. /\ Used' = Used \union {c} /\ c \notin Used /\ Used \subseteq Channels
      /\ \A y \in Used : y # c
  BY <1>2 DEF Used
<1>4. \A y \in Used : /\ chan'[y].kind = chan[y].kind /\ chan'[y].fd = chan[y].fd
                      /\ chan'[y].misset = chan[y].misset
                      /\ chan'[y].stage = "refused" <=> chan[y].stage = "refused"
                      /\ chan[y].stage = "closed" => chan'[y].stage = "closed"
                      /\ chan[y].gone => chan'[y].gone
                      /\ Shape(chan'[y])
  BY DEF Moved, Stays
<1>5. OneMisset' => OneMisset
  BY <1>3, <1>4 DEF OneMisset
<1>6. ASSUME NEW y \in Used PROVE (Sure(y)' => Sure(y)) /\ (Live(y)' => Live(y))
  BY <1>3, <1>4, <1>5 DEF Sure, Live
<1>7. /\ registry' \in [Registries -> [Fds -> Channels \union {None}]]
      /\ \A r \in Registries, g \in Fds :
           \/ registry'[r][g] = registry[r][g]
           \/ /\ chan'[c].stage = "open" /\ r = RegistryOf(chan'[c].kind) /\ g = chan'[c].fd
              /\ registry'[r][g] = c
  <2>1. CASE registry' = registry
    BY <1>1, <2>1
  <2>2. CASE /\ chan'[c].stage = "open"
             /\ registry' = [registry EXCEPT ![RegistryOf(chan'[c].kind)][chan'[c].fd] = c]
    BY <1>1, <1>2, <2>2
  <2>3. QED
    BY <2>1, <2>2 DEF Placed
<1>8. ShapePart'
  BY <1>3, <1>4 DEF ShapePart, Shape
<1>9. OpsPart'
  BY <1>3, <1>4 DEF OpsPart, Belongs
<1>10. CountPart'
  <2>1. ASSUME NEW y \in Channels, Sure(y)', y # c PROVE Counts(y)'
    <3>1. y \in Used /\ Counts(y) /\ Pending(y)' = Pending(y)
      BY <1>1, <1>3, <1>6, <2>1 DEF CountPart, Sure
    <3>2. Moved(chan[y], chan'[y])
      BY <3>1
    <3>3. chan[y].pending = 0 => Pending(y) = {}
      BY <3>1, FS_EmptySet DEF Counts
    <3>4. QED
      BY <3>1, <3>2, <3>3 DEF Counts, Moved
  <2>2. QED
    BY <2>1 DEF CountPart, Sure
<1>11. PlacePart'
  <2>0. 0 \in Fds
    BY ChannelsAssumption DEF Fds
  <2>1. chan'[c].misset /\ OneMisset' =>
          /\ table[0] = "stdin"
          /\ \A y \in Used : chan[y].fd = 0 => chan[y].stage = "refused"
    BY <1>1, <1>3, <1>4 DEF OneMisset, PlacePart
  <2>2. table[0] = "stdin" => table'[0] = "stdin"
    BY <2>0
  <2>3. ASSUME NEW y \in Channels, Sure(y)', Live(y)', y # c PROVE Place(y)'
    <3>1. y \in Used /\ Sure(y) /\ Live(y)
      BY <1>3, <1>6, <2>3 DEF Sure
    <3>2. Place(y) /\ chan[y].fd \in Fds /\ RegistryOf(chan[y].kind) \in Registries
      BY <1>1, <3>1, FieldTypes, RegistryTypes DEF PlacePart
    <3>3. table[chan[y].fd] \notin {"free", "accepted"}
      BY <3>2, ChannelsAssumption DEF Place, Nobody
    <3>4. table'[chan[y].fd] = table[chan[y].fd]
      BY <3>2, <3>3
    <3>5. chan'[c].stage = "open" => chan[y].fd # chan'[c].fd
      <4>1. SUFFICES ASSUME chan'[c].stage = "open", chan[y].fd = chan'[c].fd PROVE FALSE
        OBVIOUS
      <4>2. CASE chan'[c].fd = f /\ table[f] \in {"free", "accepted"}
        BY <3>3, <4>1, <4>2
      <4>3. CASE chan'[c].misset /\ chan'[c].fd = 0
        <5>1. OneMisset'
          BY <1>4, <2>3, <3>1, <4>1, <4>3 DEF Sure
        <5>2. QED
          BY <2>1, <3>1, <4>1, <4>3, <5>1 DEF Live
      <4>4. QED
        BY <4>1, <4>2, <4>3 DEF Placed
    <3>6. registry'[RegistryOf(chan[y].kind)][chan[y].fd] = registry[RegistryOf(chan[y].kind)][chan[y].fd]
      BY <1>7, <3>2, <3>5
    <3>7. QED
      BY <1>4, <3>1, <3>2, <3>4, <3>6 DEF Place
  <2>4. ASSUME Sure(c)', Live(c)' PROVE Place(c)'
    <3>1. chan'[c].stage # "refused"
      BY <2>4 DEF Sure
    <3>2. registry'[RegistryOf(chan'[c].kind)][chan'[c].fd] = c
      BY <1>1, <1>2, <3>1 DEF Placed
    <3>3. table'[chan'[c].fd] = IF chan'[c].misset THEN "stdin" ELSE c
      <4>1. CASE ~chan'[c].misset
        BY <3>1, <4>1 DEF Placed
      <4>2. CASE chan'[c].misset
        <5>1. chan'[c].fd = 0
          BY <3>1, <4>2 DEF Placed
        <5>2. OneMisset'
          BY <2>4, <5>1 DEF Sure
        <5>3. QED
          BY <2>1, <2>2, <4>2, <5>1, <5>2
      <4>3. QED
        BY <4>1, <4>2
    <3>4. QED
      BY <3>2, <3>3 DEF Place
  <2>5. ASSUME \A y \in Used' : ~chan'[y].misset
        PROVE  table'[0] = "stdin" /\ \A y \in Used' : chan'[y].fd = 0 => chan'[y].stage = "refused"
    <3>1. table[0] = "stdin" /\ \A y \in Used : chan[y].fd = 0 => chan[y].stage = "refused"
      BY <1>1, <1>3, <1>4, <2>5 DEF PlacePart
    <3>2. chan'[c].fd = 0 => chan'[c].stage = "refused"
      BY <1>3, <2>5, <3>1 DEF Placed
    <3>3. QED
      BY <1>3, <1>4, <2>2, <3>1, <3>2
  <2>6. QED
    BY <2>3, <2>4, <2>5 DEF PlacePart
<1>12. EntryPart'
  <2>1. ASSUME NEW r \in Registries, NEW g \in Fds, registry'[r][g] # None
        PROVE  LET d == registry'[r][g] IN
               /\ d \in Used' /\ chan'[d].stage # "refused"
               /\ RegistryOf(chan'[d].kind) = r /\ chan'[d].fd = g
    <3>1. CASE registry'[r][g] = registry[r][g]
      BY <1>1, <1>3, <1>4, <2>1, <3>1 DEF EntryPart
    <3>2. CASE registry'[r][g] # registry[r][g]
      BY <1>3, <1>7, <3>2
    <3>3. QED
      BY <3>1, <3>2
  <2>2. QED
    BY <2>1 DEF EntryPart
<1>13. QED
  BY <1>7, <1>8, <1>9, <1>10, <1>11, <1>12 DEF Consistent, RingOk, TypePart

\* An object that was not used yet has no operations.
LEMMA NoneYet ==
  ASSUME Consistent, NEW c \in Channels, chan[c] = Unused
  PROVE  Pending(c) = {}
<1>1. OpsPart
  BY ConsistentIs
<1>2. c \notin Used
  BY DEF Used
<1>3. ASSUME NEW o \in Ops, Key(o)[2] = c, Key(o)[1] # "accept" PROVE FALSE
  <2>1. o.of = c /\ o.event # "accept"
    BY <1>3 DEF Key
  <2>2. QED
    BY <1>1, <1>2, <2>1 DEF OpsPart
<1>4. QED
  BY <1>3 DEF Pending, Keys

\* One object less, for a descriptor that no connection has.
LEMMA OpeningAccepts ==
  ASSUME Consistent, NEW c \in Channels, chan[c] = Unused, ObjectLeft, cq' = cq,
         Used' = Used \union {c},
         \A g \in Fds : table'[g] = table[g] \/ (table[g] = "free" /\ table'[g] # "accepted")
  PROVE  AcceptPart'
<1>1. AcceptPart /\ c \notin Used
  BY ConsistentIs DEF Used
<1>2. Accepted' = Accepted
  BY DEF Accepted
<1>3. Channels \ Used' = (Channels \ Used) \ {c}
  OBVIOUS
<1>4. Cardinality(Channels \ Used') = Cardinality(Channels \ Used) - 1
  BY <1>1, <1>3, UnusedFinite, FS_RemoveElement
<1>5. Cardinality(Accepted) < Cardinality(Channels \ Used)
  BY DEF ObjectLeft, Accepted
<1>6. Cardinality(Accepted') <= Cardinality(Channels \ Used')
  BY <1>2, <1>4, <1>5, AcceptedFinite, UnusedFinite
<1>7. \A x \in cq : x.op.event = "accept" /\ x.result > 0
        => x.result \in Fds /\ table'[x.result] = "accepted"
  BY <1>1 DEF AcceptPart
<1>8. QED
  BY <1>1, <1>6, <1>7 DEF AcceptPart

LEMMA RefuseKeeps ==
  ASSUME Consistent, NEW c \in Channels, chan[c] = Unused, ObjectLeft, NEW k \in AllKinds,
         Refuse(c, k), cq' = cq, NEW h \in Fds,
         \/ UNCHANGED table
         \/ table[h] = "free" /\ table' = [table EXCEPT ![h] = "lost"]
  PROVE  Consistent'
<1> DEFINE m == NewChannel(k, 0, None)
           n == [m EXCEPT !.stage = "refused"]
<1>1. /\ RingOk /\ ShapePart /\ OpsPart /\ chan \in [Channels -> {Unused} \union Records]
      /\ table \in [Fds -> Channels \union Nobody] /\ \A y \in Used : chan[y] \in Records
  BY ConsistentIs
<1>2. chan' = [chan EXCEPT ![c] = n] /\ UNCHANGED <<registry, ring>>
  BY DEF Refuse
<1>3. m \in Records /\ ~m.closing /\ ~m.closer /\ ~m.failing /\ ~m.misset
  <2>1. 0 \in Fds
    BY ChannelsAssumption DEF Fds
  <2>2. QED
    BY <2>1, NewIs
<1>4. m.server = None
  BY DEF NewChannel
<1> HIDE DEF m
<1>5. n \in Records /\ n.stage = "refused"
  <2>1. n \in Records
    BY <1>3 DEF Records, Stages
  <2>2. n.stage = "refused"
    BY <1>3 DEF Records
  <2>3. QED
    BY <2>1, <2>2
<1>6. n.closing = m.closing /\ n.closer = m.closer /\ n.failing = m.failing
  BY <1>3 DEF Records
<1>7. n.misset = m.misset /\ n.server = m.server
  BY <1>3 DEF Records
<1> HIDE DEF n
<1>8. Shape(n)
  BY <1>3, <1>4, <1>5, <1>6, <1>7 DEF Shape
<1>9. /\ chan' \in [Channels -> {Unused} \union Records] /\ chan'[c] = n
      /\ \A y \in Channels : y # c => chan'[y] = chan[y]
  BY <1>1, <1>2, <1>5
<1>10. Used' = Used \union {c} /\ c \notin Used /\ Used \subseteq Channels
  BY <1>5, <1>9, FieldTypes DEF Used
<1>11. \A y \in Used : Moved(chan[y], chan'[y])
  BY <1>1, <1>9, <1>10, MovedSelf DEF ShapePart
<1>12. RingOk' /\ SameOps
  BY <1>1, <1>2, RingRests
<1>13. /\ \A o \in Ops' : o.event # "accept" => Belongs(o)
       /\ \A y : Pending(y)' = Pending(y)
  BY <1>12, SameBelong
<1>14. /\ table' \in [Fds -> Channels \union Nobody]
       /\ \A g \in Fds : g # h => table'[g] = table[g]
       /\ table'[h] = table[h] \/ (table[h] = "free" /\ table'[h] = "lost")
  BY <1>1 DEF Nobody
<1>15. AcceptPart'
  BY <1>10, <1>14, OpeningAccepts
<1>16. Placed(c, h)
  BY <1>2, <1>5, <1>9 DEF Placed
<1>17. QED
  BY <1>5, <1>8, <1>9, <1>11, <1>12, <1>13, <1>14, <1>15, <1>16, NewKeeps

\* The channel that a factory or an accepted connection makes.
Made(k, f, s, b) == [NewChannel(k, f, s) EXCEPT !.misset = b]

LEMMA NewShape ==
  ASSUME NEW k \in AllKinds \union {"connection"}, NEW f \in Fds, NEW s \in Channels \union {None},
         NEW b \in BOOLEAN, b => f = 0
  PROVE  LET n == Made(k, f, s, b) IN
         /\ n \in Records /\ Shape(n) /\ n.kind = k /\ n.fd = f /\ n.misset = b
         /\ n.pending = Connects(k) /\ n.stage = "open" /\ n.up = (k \notin Connecting)
         /\ ~n.closer /\ ~n.failing /\ ~n.gone
<1> DEFINE m == NewChannel(k, f, s)
           n == Made(k, f, s, b)
<1>1. /\ m \in Records /\ m.kind = k /\ m.fd = f /\ m.pending = Connects(k) /\ m.stage = "open"
      /\ m.up = (k \notin Connecting) /\ ~m.closing /\ ~m.closer /\ ~m.failing /\ ~m.gone
  BY NewIs
<1>2. n = [m EXCEPT !.misset = b]
  BY DEF Made
<1> HIDE DEF m, n
<1>3. n \in Records /\ n.misset = b
  <2>1. n \in Records
    BY <1>1, <1>2 DEF Records
  <2>2. n.misset = b
    BY <1>1, <1>2 DEF Records
  <2>3. QED
    BY <2>1, <2>2
<1>4. n.kind = k /\ n.fd = f /\ n.pending = Connects(k)
  BY <1>1, <1>2 DEF Records
<1>5. n.stage = "open" /\ n.up = (k \notin Connecting)
  BY <1>1, <1>2 DEF Records
<1>6. ~n.closing /\ ~n.closer /\ ~n.failing /\ ~n.gone
  BY <1>1, <1>2 DEF Records
<1>7. Shape(n)
  BY <1>3, <1>4, <1>5, <1>6 DEF Shape
<1>8. QED
  BY <1>3, <1>4, <1>5, <1>6, <1>7 DEF n

\* The counters of a new channel.
LEMMA NewCounts ==
  ASSUME NEW c \in Channels, NEW k \in AllKinds \union {"connection"},
         chan'[c].pending = Connects(k), chan'[c].stage = "open",
         chan'[c].up = (k \notin Connecting),
         ~chan'[c].closer, ~chan'[c].failing, ~chan'[c].gone,
         IF k \in Connecting THEN \E j : Pending(c)' = {j} ELSE Pending(c)' = {}
  PROVE  Counts(c)'
<1>1. CASE k \in Connecting
  <2>1. PICK j : Pending(c)' = {j}
    BY <1>1
  <2>2. IsFiniteSet(Pending(c)') /\ Cardinality(Pending(c)') = 1
    BY <2>1, FS_Singleton
  <2>3. chan'[c].pending = 1 /\ ~chan'[c].up
    BY <1>1 DEF Connects
  <2>4. QED
    BY <2>2, <2>3 DEF Counts
<1>2. CASE k \notin Connecting
  <2>1. IsFiniteSet(Pending(c)') /\ Cardinality(Pending(c)') = 0 /\ Pending(c)' = {}
    BY <1>2, FS_EmptySet
  <2>2. QED
    BY <1>2, <2>1 DEF Counts, Connects
<1>3. QED
  BY <1>1, <1>2

LEMMA RegisterKeeps ==
  ASSUME Consistent, NEW c \in Channels, chan[c] = Unused, ObjectLeft, NEW k \in AllKinds,
         NEW f \in Fds, NEW b \in BOOLEAN, NEW h \in Fds, table[h] = "free",
         Register(c, k, f, b), b => f = 0, ~b => f = h,
         table' = [table EXCEPT ![h] = IF b THEN "lost" ELSE c], cq' = cq
  PROVE  Consistent'
<1> DEFINE n == Made(k, f, None, b)
<1>1. /\ RingOk /\ ShapePart /\ OpsPart /\ chan \in [Channels -> {Unused} \union Records]
      /\ table \in [Fds -> Channels \union Nobody] /\ \A y \in Used : chan[y] \in Records
  BY ConsistentIs
<1>2. /\ chan' = [chan EXCEPT ![c] = n]
      /\ registry' = [registry EXCEPT ![RegistryOf(k)][f] = c]
  BY DEF Register, Made
<1>3. /\ n \in Records /\ Shape(n) /\ n.kind = k /\ n.fd = f /\ n.misset = b
      /\ n.pending = Connects(k) /\ n.stage = "open" /\ n.up = (k \notin Connecting)
      /\ ~n.closer /\ ~n.failing /\ ~n.gone
  <2>1. k \in AllKinds \union {"connection"} /\ None \in Channels \union {None}
    OBVIOUS
  <2>2. QED
    BY <2>1, NewShape
<1> HIDE DEF n
<1>4. /\ chan' \in [Channels -> {Unused} \union Records] /\ chan'[c] = n
      /\ \A y \in Channels : y # c => chan'[y] = chan[y]
  BY <1>1, <1>2, <1>3
<1>5. Used' = Used \union {c} /\ c \notin Used /\ Used \subseteq Channels
  BY <1>3, <1>4, FieldTypes DEF Used
<1>6. \A y \in Used : Moved(chan[y], chan'[y])
  BY <1>1, <1>4, <1>5, MovedSelf DEF ShapePart
<1>7. Pending(c) = {}
  BY NoneYet
<1>8. /\ RingOk' /\ \A y \in Channels : y # c => Pending(y)' = Pending(y)
      /\ IF k \in Connecting THEN \E j : Pending(c)' = {j} ELSE Pending(c)' = {}
      /\ \A o \in Ops' : o.event # "accept" => Belongs(o) \/ (o.of = c /\ o.fd = f)
  <2>1. ASSUME NEW e \in Events, ring' = ring \union {Started(e, f, c)}
        PROVE  /\ RingOk' /\ \A y \in Channels : y # c => Pending(y)' = Pending(y)
               /\ IF e # "accept" THEN \E j : Pending(c)' = {j} ELSE Pending(c)' = {}
               /\ \A o \in Ops' : o.event # "accept" => Belongs(o) \/ (o.of = c /\ o.fd = f)
    <3> DEFINE o == Started(e, f, c)
    <3>1. /\ o \in OpRecords /\ o.event = e /\ o.of = c /\ o.fd = f
          /\ Key(o) \notin Keys /\ Key(o)[1] = e /\ Key(o)[2] = c
      BY <1>1, StartedIs
    <3> HIDE DEF o
    <3>2. RingOk' /\ Keys' = Keys \union {Key(o)} /\ Ops' = Ops \union {o}
      BY <1>1, <2>1, <3>1, RingGrows DEF o
    <3>3. \A p \in Ops' : p.event # "accept" => Belongs(p) \/ (p.of = c /\ p.fd = f)
      BY <1>1, <3>1, <3>2 DEF OpsPart, Belongs
    <3>4. \A y : Pending(y)' = IF y = c /\ e # "accept" THEN Pending(y) \union {Key(o)} ELSE Pending(y)
      BY <3>1, <3>2 DEF Pending
    <3>5. IF e # "accept" THEN \E j : Pending(c)' = {j} ELSE Pending(c)' = {}
      BY <1>7, <3>4
    <3>6. QED
      BY <3>2, <3>3, <3>4, <3>5
  <2>2. CASE k \in Connecting
    <3>1. ring' = ring \union {Started("connect", f, c)} /\ "connect" \in Events
      <4>1. k \notin Listening
        BY <2>2 DEF Connecting, Listening
      <4>2. QED
        BY <2>2, <4>1 DEF Register, Events
    <3>2. QED
      BY <2>1, <2>2, <3>1
  <2>3. CASE k \notin Connecting /\ k \in Listening
    <3>1. ring' = ring \union {Started("accept", f, c)} /\ "accept" \in Events
      BY <2>3 DEF Register, Events
    <3>2. QED
      BY <2>1, <2>3, <3>1
  <2>4. CASE k \notin Connecting /\ k \notin Listening
    <3>1. ring' = ring
      BY <2>4 DEF Register
    <3>2. RingOk' /\ SameOps
      BY <1>1, <3>1, RingRests
    <3>3. QED
      BY <1>7, <2>4, <3>2, SameBelong
  <2>5. QED
    BY <2>2, <2>3, <2>4
<1>9. Counts(c)'
  BY <1>3, <1>4, <1>8, NewCounts
<1>10. /\ table' \in [Fds -> Channels \union Nobody] /\ table'[h] = IF b THEN "lost" ELSE c
       /\ \A g \in Fds : g # h => table'[g] = table[g]
  BY <1>1 DEF Nobody
<1>11. AcceptPart'
  <2>1. table'[h] # "accepted"
    BY <1>10, ChannelsAssumption DEF Nobody
  <2>2. QED
    BY <1>5, <1>10, <2>1, OpeningAccepts
<1>12. Placed(c, h)
  BY <1>2, <1>3, <1>4, <1>10 DEF Placed
<1>13. \A o \in Ops' : o.event # "accept" =>
         Belongs(o) \/ (o.of = c /\ chan'[c].stage # "refused" /\ o.fd = chan'[c].fd)
  BY <1>3, <1>4, <1>8
<1>14. QED
  BY <1>3, <1>4, <1>6, <1>8, <1>9, <1>10, <1>11, <1>12, <1>13, NewKeeps

LEMMA InitializeKeeps ==
  ASSUME Consistent, NEW r \in Openings, NEW k \in AllKinds, NEW result, Initialize(r, k, result)
  PROVE  Consistent'
<1> DEFINE c == r.channel
           f == Min(FreeFds)
<1>1. c \in Channels /\ chan[c] = Unused /\ ObjectLeft /\ cq' = cq /\ 0 \in Fds
  BY OpeningsAssumption, ChannelsAssumption DEF Initialize, Fds
<1>2. CASE Refuse(c, k) /\ UNCHANGED table
  BY <1>1, <1>2, RefuseKeeps
<1>3. CASE FreeFds # {} /\ table' = [table EXCEPT ![f] = c] /\ Register(c, k, f, FALSE)
  <2>1. f \in Fds /\ table[f] = "free"
    BY <1>3, FreeIs
  <2>2. QED
    BY <1>1, <1>3, <2>1, RegisterKeeps
<1>4. CASE FreeFds # {} /\ table' = [table EXCEPT ![f] = "lost"] /\ Refuse(c, k)
  <2>1. f \in Fds /\ table[f] = "free"
    BY <1>4, FreeIs
  <2>2. QED
    BY <1>1, <1>4, <2>1, RefuseKeeps
<1>5. CASE FreeFds # {} /\ table' = [table EXCEPT ![f] = "lost"] /\ Register(c, k, 0, TRUE)
  <2>1. f \in Fds /\ table[f] = "free"
    BY <1>5, FreeIs
  <2>2. QED
    BY <1>1, <1>5, <2>1, RegisterKeeps
<1>6. QED
  BY <1>2, <1>3, <1>4, <1>5 DEF Initialize

LEMMA OpenKeeps ==
  ASSUME Consistent, NEW r \in Openings, Open(r)
  PROVE  Consistent'
<1>1. \E k \in AllKinds : \E result : Initialize(r, k, result)
  BY DEF Open, AllKinds, transport_server_initialize_tcp, transport_server_initialize_udp,
         transport_server_initialize_unix_stream, transport_client_initialize_tcp,
         transport_client_initialize_udp, transport_client_initialize_unix_stream,
         transport_file_open
<1>2. QED
  BY <1>1, InitializeKeeps

-----------------------------------------------------------------------------
(* The accept loop. *)

\* An accept is heard of, and perhaps the next one is asked for.
LEMMA RingTurns ==
  ASSUME Consistent, NEW x \in cq, cq' = cq \ {x}, x.op.event = "accept",
         \/ ring' = ring
         \/ \E s \in Channels : ring' = ring \union {Started("accept", x.op.fd, s)}
  PROVE  /\ RingOk' /\ \A y : Pending(y)' = Pending(y)
         /\ \A o \in Ops' : o.event # "accept" => Belongs(o)
<1>1. RingOk /\ OpsPart /\ x.op \in Ops
  BY ConsistentIs DEF Ops
<1>2. /\ ring \subseteq OpRecords /\ IsFiniteSet(ring) /\ RingPart /\ IsFiniteSet(cq)
      /\ cq \subseteq [op : OpRecords, result : Int] /\ x.op.fd \in Fds
  BY <1>1, OpTypes DEF RingOk
<1>3. IsFiniteSet(cq')
  BY <1>2, FS_RemoveElement
<1>4. Keys = {Key(o) : o \in ring} \union {Key(y.op) : y \in cq}
  BY DEF Keys, Ops
<1>5. Keys' = {Key(o) : o \in ring'} \union {Key(y.op) : y \in cq \ {x}}
  BY DEF Keys, Ops, Key
<1>6. Key(x.op)[1] = "accept"
  BY DEF Key
<1>7. CASE ring' = ring
  <2>1. RingOk'
    BY <1>2, <1>3, <1>7 DEF RingOk, RingPart, Key
  <2>2. Ops' \subseteq Ops
    BY <1>7 DEF Ops
  <2>3. \A k : k[1] # "accept" => (k \in Keys' <=> k \in Keys)
    BY <1>4, <1>5, <1>6, <1>7
  <2>4. \A y : Pending(y)' = Pending(y)
    BY <2>3 DEF Pending
  <2>5. QED
    BY <1>1, <2>1, <2>2, <2>4 DEF OpsPart, Belongs
<1>8. ASSUME NEW s \in Channels, ring' = ring \union {Started("accept", x.op.fd, s)}
      PROVE  /\ RingOk' /\ \A y : Pending(y)' = Pending(y)
             /\ \A o \in Ops' : o.event # "accept" => Belongs(o)
  <2> DEFINE n == Started("accept", x.op.fd, s)
  <2>0. "accept" \in Events
    BY DEF Events
  <2>1. n \in OpRecords /\ n.event = "accept" /\ Key(n) \notin Keys /\ Key(n)[1] = "accept"
    BY <1>1, <1>2, <2>0, StartedIs
  <2> HIDE DEF n
  <2>2. ring' = ring \union {n}
    BY <1>8 DEF n
  <2>3. IsFiniteSet(ring') /\ ring' \subseteq OpRecords
    BY <1>2, <2>1, <2>2, FS_AddElement
  <2>4. (\A p \in ring : Key(p) # Key(n)) /\ (\A y \in cq : Key(y.op) # Key(n))
    BY <1>4, <2>1
  <2>5. RingPart'
    BY <1>2, <2>2, <2>4 DEF RingPart, Key
  <2>6. RingOk'
    BY <1>2, <1>3, <2>3, <2>5 DEF RingOk
  <2>7. Ops' \subseteq Ops \union {n}
    BY <2>2 DEF Ops
  <2>8. \A k : k[1] # "accept" => (k \in Keys' <=> k \in Keys)
    BY <1>4, <1>5, <1>6, <2>1, <2>2
  <2>9. \A y : Pending(y)' = Pending(y)
    BY <2>8 DEF Pending
  <2>10. QED
    BY <1>1, <2>1, <2>6, <2>7, <2>9 DEF OpsPart, Belongs
<1>9. QED
  BY <1>7, <1>8

\* The descriptor of a connection is given to a channel, or lost.
LEMMA AcceptTaken ==
  ASSUME Consistent, NEW x \in cq, cq' = cq \ {x}, x.op.event = "accept", x.result > 0,
         \A g \in Fds : g # x.result => table'[g] = table[g], table'[x.result] # "accepted"
  PROVE  /\ x.result \in Fds /\ table[x.result] = "accepted"
         /\ Cardinality(Accepted') = Cardinality(Accepted) - 1
         /\ Cardinality(Accepted) \in Nat /\ Cardinality(Accepted) # 0
         /\ Cardinality(Accepted') <= Cardinality(Channels \ Used') => AcceptPart'
<1>1. AcceptPart
  BY ConsistentIs
<1>2. x.result \in Fds /\ table[x.result] = "accepted"
  BY <1>1 DEF AcceptPart
<1>3. Accepted' = Accepted \ {x.result} /\ x.result \in Accepted
  BY <1>2 DEF Accepted
<1>4. Cardinality(Accepted') = Cardinality(Accepted) - 1 /\ Cardinality(Accepted) \in Nat
  BY <1>3, AcceptedFinite, FS_RemoveElement
<1>5. Cardinality(Accepted) # 0
  BY <1>3, AcceptedFinite, FS_EmptySet
<1>6. \A y \in cq' : y.op.event = "accept" /\ y.result > 0
        => y.result \in Fds /\ table'[y.result] = "accepted"
  BY <1>1 DEF AcceptPart
<1>7. Cardinality(Accepted') <= Cardinality(Channels \ Used') => AcceptPart'
  BY <1>1, <1>6 DEF AcceptPart
<1>8. QED
  BY <1>2, <1>4, <1>5, <1>7

\* The completion of an accept that brought no descriptor.
LEMMA AcceptEmpty ==
  ASSUME Consistent, cq' \subseteq cq, UNCHANGED table, Used' = Used
  PROVE  AcceptPart'
<1>1. AcceptPart /\ Accepted' = Accepted
  BY ConsistentIs DEF Accepted
<1>2. QED
  BY <1>1 DEF AcceptPart

LEMMA ProcessAcceptKeeps ==
  ASSUME Consistent, NEW x \in cq, Process(x), x.op.event = "accept"
  PROVE  Consistent'
<1> DEFINE s == registry[RegistryOf(chan[x.op.of].kind)][x.op.fd]
<1>1. /\ RingOk /\ ShapePart /\ EntryPart /\ AcceptPart
      /\ table \in [Fds -> Channels \union Nobody]
      /\ chan \in [Channels -> {Unused} \union Records]
      /\ \A y \in Used : chan[y] \in Records
      /\ registry \in [Registries -> [Fds -> Channels \union {None}]]
  BY ConsistentIs
<1>2. x.op.fd \in Fds /\ x.result \in Int
  BY <1>1, OpTypes DEF Ops, RingOk
<1>3. s # None => s \in Used /\ s \in Channels /\ chan[s] \in Records /\ Shape(chan[s])
  <2>1. RegistryOf(chan[x.op.of].kind) \in Registries
    BY RegistryTypes
  <2>2. s # None => s \in Used
    BY <1>1, <1>2, <2>1 DEF EntryPart
  <2>3. QED
    BY <1>1, <2>2 DEF Used, ShapePart
<1>4. cq' = cq \ {x} /\ NotifyAccept(s, x.op.fd, x.result)
  BY DEF Process
<1> HIDE DEF s
<1>5. ASSUME UNCHANGED <<chan, registry, ring>>,
             table' = IF x.result > 0 THEN [table EXCEPT ![x.result] = "lost"] ELSE table
      PROVE  Consistent'
  <2>1. /\ RingOk' /\ \A y : Pending(y)' = Pending(y)
        /\ \A o \in Ops' : o.event # "accept" => Belongs(o)
    BY <1>4, <1>5, RingTurns
  <2>2. Used' = Used
    BY <1>5 DEF Used
  <2>3. CASE x.result > 0
    <3>1. x.result \in Fds /\ table[x.result] = "accepted"
      BY <1>1, <2>3 DEF AcceptPart
    <3>2. /\ table' \in [Fds -> Channels \union Nobody] /\ table'[x.result] = "lost"
          /\ \A g \in Fds : g # x.result => table'[g] = table[g]
      BY <1>1, <1>5, <2>3, <3>1 DEF Nobody
    <3>3. /\ Cardinality(Accepted') = Cardinality(Accepted) - 1 /\ Cardinality(Accepted) \in Nat
          /\ Cardinality(Accepted') <= Cardinality(Channels \ Used') => AcceptPart'
      BY <1>4, <2>3, <3>2, AcceptTaken
    <3>4. AcceptPart'
      <4>1. Cardinality(Accepted) <= Cardinality(Channels \ Used)
        BY <1>1 DEF AcceptPart
      <4>2. QED
        BY <2>2, <3>3, <4>1, UnusedFinite
    <3>5. \A g \in Fds : table'[g] = table[g] \/ table[g] \in {"free", "accepted"}
      BY <3>1, <3>2
    <3>6. QED
      BY <1>5, <2>1, <3>2, <3>4, <3>5, TableKeeps
  <2>4. CASE ~(x.result > 0)
    <3>1. UNCHANGED table
      BY <1>5, <2>4
    <3>2. AcceptPart'
      BY <1>4, <2>2, <3>1, AcceptEmpty
    <3>3. QED
      BY <1>1, <1>5, <2>1, <3>1, <3>2, TableKeeps
  <2>5. QED
    BY <2>3, <2>4
<1>6. ASSUME s # None, ~chan[s].closing, NEW full \in BOOLEAN,
             ring' = ring \/ ring' = ring \union {Started("accept", x.op.fd, s)},
             x.result > 0 =>
               LET y == CHOOSE y \in Channels : chan[y] = Unused IN
               /\ table' = [table EXCEPT ![x.result] = y]
               /\ registry' = [registry EXCEPT !["connections"][x.result] = y]
               /\ chan' = [chan EXCEPT ![y] = NewChannel("connection", x.result, s),
                                       ![s].deaf = @ \/ full],
             ~(x.result > 0) =>
               /\ chan' = [chan EXCEPT ![s].deaf = @ \/ full]
               /\ UNCHANGED <<table, registry>>
      PROVE  Consistent'
  <2> DEFINE b == chan[s].deaf \/ full
             n == [chan[s] EXCEPT !.deaf = b]
  <2>1. /\ s \in Used /\ s \in Channels /\ chan[s] \in Records /\ Shape(chan[s])
        /\ chan[s] # Unused /\ b \in BOOLEAN
    BY <1>3, <1>6, FieldTypes
  <2>2. /\ RingOk' /\ \A y : Pending(y)' = Pending(y)
        /\ \A o \in Ops' : o.event # "accept" => Belongs(o)
    BY <1>4, <1>6, <2>1, RingTurns
  <2>b. n = [chan[s] EXCEPT !.deaf = chan[s].deaf \/ full]
    OBVIOUS
  <2> HIDE DEF b
  <2>3. n \in Records /\ Kept(chan[s], n)
    <3>1. n \in Records
      BY <2>1 DEF Records
    <3>2. Kept(chan[s], n)
      BY <2>1 DEF Records, Kept
    <3>3. QED
      BY <3>1, <3>2
  <2>4. n.pending = chan[s].pending /\ n.closer = chan[s].closer
    BY <2>1 DEF Records
  <2>5. n.closing = chan[s].closing /\ n.stage = chan[s].stage /\ n.server = chan[s].server
    BY <2>1 DEF Records
  <2> HIDE DEF n
  <2>6. Moved(chan[s], n)
    <3>1. Shape(n)
      BY <2>1, <2>3, <2>4, <2>5 DEF Shape, Kept
    <3>2. QED
      BY <2>3, <2>4, <2>5, <3>1 DEF Moved, Stays, Kept
  <2>7. CASE ~(x.result > 0)
    <3>1. chan' = [chan EXCEPT ![s] = n] /\ UNCHANGED <<table, registry>>
      BY <1>6, <2>7, <2>b
    <3>2. /\ chan' \in [Channels -> {Unused} \union Records] /\ chan'[s] = n
          /\ \A y \in Channels : y # s => chan'[y] = chan[y]
      BY <1>1, <2>1, <2>3, <3>1
    <3>3. \A y \in Channels : chan'[y] = Unused <=> chan[y] = Unused
      BY <2>1, <2>3, <3>2, FieldTypes
    <3>4. \A y \in Used : Moved(chan[y], chan'[y])
      <4>1. ASSUME NEW y \in Used, y # s PROVE Moved(chan[y], chan'[y])
        BY <1>1, <3>2, <4>1, MovedSelf DEF ShapePart, Used
      <4>2. QED
        BY <2>6, <3>2, <4>1
    <3>5. QED
      BY <1>4, <2>2, <3>1, <3>2, <3>3, <3>4, MovesKeep
  <2>8. CASE x.result > 0
    <3> DEFINE f == x.result
               m == NewChannel("connection", f, s)
    <3>1. f \in Fds /\ table[f] = "accepted"
      BY <1>1, <2>8 DEF AcceptPart
    <3>2. \E y \in Channels : chan[y] = Unused
      <4>1. f \in Accepted
        BY <3>1 DEF Accepted
      <4>2. Cardinality(Accepted) # 0 /\ Cardinality(Accepted) \in Nat
        BY <4>1, AcceptedFinite, FS_EmptySet
      <4>3. Cardinality(Channels \ Used) # 0
        BY <1>1, <4>2, UnusedFinite DEF AcceptPart
      <4>4. Channels \ Used # {}
        BY <4>3, FS_EmptySet
      <4>5. QED
        BY <4>4 DEF Used
    <3>3. PICK c \in Channels :
            /\ chan[c] = Unused
            /\ table' = [table EXCEPT ![f] = c]
            /\ registry' = [registry EXCEPT !["connections"][f] = c]
            /\ chan' = [chan EXCEPT ![c] = m, ![s].deaf = @ \/ full]
      BY <1>6, <2>8, <3>2
    <3>4. c # s /\ c \notin Used
      BY <2>1, <3>3 DEF Used
    <3>5. /\ m \in Records /\ m.kind = "connection" /\ m.fd = f
          /\ m.pending = Connects("connection") /\ m.stage = "open"
          /\ m.up = ("connection" \notin Connecting)
          /\ ~m.closing /\ ~m.closer /\ ~m.failing /\ ~m.gone /\ ~m.misset
      BY <2>1, <3>1, NewIs
    <3> HIDE DEF m
    <3>6. Shape(m)
      BY <3>5 DEF Shape
    <3>7. /\ chan' \in [Channels -> {Unused} \union Records] /\ chan'[c] = m /\ chan'[s] = n
          /\ \A y \in Channels : y # c /\ y # s => chan'[y] = chan[y]
      BY <1>1, <2>1, <2>3, <2>b, <3>3, <3>4, <3>5
    <3>8. \A y \in Channels : y # c => (chan'[y] = Unused <=> chan[y] = Unused)
      BY <2>1, <2>3, <3>7, FieldTypes
    <3>9. Used' = Used \union {c}
      BY <3>3, <3>5, <3>7, <3>8, FieldTypes DEF Used
    <3>10. \A y \in Used : Moved(chan[y], chan'[y])
      <4>1. ASSUME NEW y \in Used, y # s PROVE Moved(chan[y], chan'[y])
        BY <1>1, <3>4, <3>7, <4>1, MovedSelf DEF ShapePart, Used
      <4>2. QED
        BY <2>6, <3>7, <4>1
    <3>11. Counts(c)'
      <4>1. Pending(c)' = {}
        BY <2>2, <3>3, NoneYet
      <4>2. "connection" \notin Connecting
        BY DEF Connecting
      <4>3. QED
        BY <3>3, <3>5, <3>7, <4>1, <4>2, NewCounts
    <3>12. /\ table' \in [Fds -> Channels \union Nobody] /\ table'[f] = c
           /\ \A g \in Fds : g # f => table'[g] = table[g]
      BY <1>1, <3>1, <3>3
    <3>13. AcceptPart'
      <4>1. table'[f] # "accepted"
        BY <3>3, <3>12, ChannelsAssumption DEF Nobody
      <4>2. /\ Cardinality(Accepted') = Cardinality(Accepted) - 1 /\ Cardinality(Accepted) \in Nat
            /\ Cardinality(Accepted') <= Cardinality(Channels \ Used') => AcceptPart'
        BY <1>4, <2>8, <3>12, <4>1, AcceptTaken
      <4>3. Channels \ Used' = (Channels \ Used) \ {c}
        BY <3>9
      <4>4. Cardinality(Channels \ Used') = Cardinality(Channels \ Used) - 1
        BY <3>3, <3>4, <4>3, UnusedFinite, FS_RemoveElement
      <4>5. Cardinality(Accepted) <= Cardinality(Channels \ Used)
        BY <1>1 DEF AcceptPart
      <4>6. QED
        BY <4>2, <4>4, <4>5, UnusedFinite
    <3>14. Placed(c, f)
      <4>1. RegistryOf("connection") = "connections"
        BY DEF RegistryOf, Listening
      <4>2. /\ chan'[c].stage = "open" /\ chan'[c].kind = "connection" /\ chan'[c].fd = f
            /\ ~chan'[c].misset
        BY <3>5, <3>7
      <4>3. registry' = [registry EXCEPT ![RegistryOf(chan'[c].kind)][chan'[c].fd] = c]
        BY <3>3, <4>1, <4>2, Zenon
      <4>4. QED
        BY <3>1, <3>12, <4>2, <4>3 DEF Placed
    <3>15. QED
      BY <2>2, <3>1, <3>3, <3>5, <3>6, <3>7, <3>8, <3>10, <3>11, <3>12, <3>13, <3>14, NewKeeps
  <2>9. QED
    BY <2>7, <2>8
<1>7. CASE s = None \/ (s # None /\ chan[s].closing)
  BY <1>4, <1>5, <1>7 DEF NotifyAccept
<1>8. CASE ~(s = None \/ (s # None /\ chan[s].closing))
  <2>1. PICK full \in BOOLEAN :
          /\ IF x.result > 0
             THEN LET y == CHOOSE y \in Channels : chan[y] = Unused IN
                  /\ table' = [table EXCEPT ![x.result] = y]
                  /\ registry' = [registry EXCEPT !["connections"][x.result] = y]
                  /\ chan' = [chan EXCEPT ![y] = NewChannel("connection", x.result, s),
                                          ![s].deaf = @ \/ full]
             ELSE /\ chan' = [chan EXCEPT ![s].deaf = @ \/ full]
                  /\ UNCHANGED <<table, registry>>
          /\ ring' = ring \/ ring' = ring \union {Started("accept", x.op.fd, s)}
    BY <1>4, <1>8 DEF NotifyAccept
  <2>2. QED
    BY <1>6, <1>8, <2>1
<1>9. QED
  BY <1>7, <1>8

-----------------------------------------------------------------------------
(* The theorems. *)

LEMMA InitHolds == Init => Consistent
<1> SUFFICES ASSUME Init PROVE Consistent
  OBVIOUS
<1>1. \A c \in Channels : chan[c] = Unused
  BY DEF Init
<1>2. Used = {} /\ Ops = {}
  BY <1>1 DEF Used, Ops, Init
<1>3. TypePart
  BY FS_EmptySet DEF TypePart, Init, Nobody
<1>4. RingPart /\ ShapePart /\ OpsPart /\ CountPart
  BY <1>2 DEF Init, RingPart, ShapePart, OpsPart, CountPart, Sure
<1>5. PlacePart
  <2>1. 0 \in Fds
    BY ChannelsAssumption DEF Fds
  <2>2. table[0] = "stdin"
    BY <2>1 DEF Init
  <2>3. QED
    BY <1>2, <2>2 DEF PlacePart, Sure
<1>6. EntryPart
  BY DEF Init, EntryPart
<1>7. AcceptPart
  <2>1. Accepted = {}
    BY DEF Init, Accepted
  <2>2. Cardinality(Accepted) = 0
    BY <2>1, FS_EmptySet
  <2>3. Cardinality(Accepted) <= Cardinality(Channels \ Used)
    BY <2>2, UnusedFinite
  <2>4. QED
    BY <2>3 DEF AcceptPart, Init
<1>8. QED
  BY <1>3, <1>4, <1>5, <1>6, <1>7 DEF Consistent

LEMMA Rests == ASSUME Consistent, UNCHANGED vars PROVE Consistent'
<1>1. UNCHANGED <<table, chan, registry, ring, cq>>
  BY DEF vars
<1>2. /\ RingOk /\ ShapePart /\ chan \in [Channels -> {Unused} \union Records]
      /\ \A c \in Used : chan[c] \in Records
  BY ConsistentIs
<1>3. RingOk' /\ SameOps
  BY <1>1, <1>2, RingRests
<1>4. \A c \in Used : Moved(chan[c], chan'[c])
  BY <1>1, <1>2, MovedSelf DEF ShapePart
<1>5. QED
  BY <1>1, <1>2, <1>3, <1>4, MovedKeeps

LEMMA StepKeeps == ASSUME Consistent, [Next]_vars, ~twice' PROVE Consistent'
<1>1. ASSUME NEW r \in Openings, Open(r) PROVE Consistent'
  BY <1>1, OpenKeeps
<1>2. ASSUME NEW c \in Channels, NEW e \in Events, Operate(c, e) PROVE Consistent'
  BY <1>2, OperateKeeps
<1>3. ASSUME NEW c \in Channels, NEW g \in BOOLEAN, Close(c, g) PROVE Consistent'
  BY <1>3, CloseKeeps
<1>4. ASSUME NEW c \in Channels, NEW g \in BOOLEAN, CloseServer(c, g) PROVE Consistent'
  BY <1>4, CloseServerKeeps
<1>5. ASSUME NEW c \in Channels, CloseDrained(c) PROVE Consistent'
  BY <1>5, CloseDrainedKeeps
<1>6. ASSUME NEW c \in Channels, GracefulTimeout(c) PROVE Consistent'
  BY <1>6, GracefulTimeoutKeeps
<1>7. ASSUME NEW c \in Channels, Finish(c) PROVE Consistent'
  BY <1>7, FinishKeeps
<1>8. ASSUME NEW c \in Channels, ConnectFailed(c) PROVE Consistent'
  BY <1>8, ConnectFailedKeeps
<1>9. ASSUME NEW o \in ring, KernelComplete(o) PROVE Consistent'
  BY <1>9, KernelCompleteKeeps
<1>10. ASSUME NEW x \in cq, Process(x) PROVE Consistent'
  BY <1>10, ProcessDataKeeps, ProcessAcceptKeeps
<1>11. CASE UNCHANGED vars
  BY <1>11, Rests
<1>12. QED
  BY <1>1, <1>2, <1>3, <1>4, <1>5, <1>6, <1>7, <1>8, <1>9, <1>10, <1>11 DEF Next

\* Once two paths of the code have closed one descriptor, this stays so.
LEMMA TwiceStays == ASSUME [Next]_vars, twice PROVE twice'
<1>1. ASSUME NEW r \in Openings, Open(r) PROVE twice'
  BY <1>1 DEF Open, Initialize, transport_server_initialize_tcp, transport_server_initialize_udp,
              transport_server_initialize_unix_stream, transport_client_initialize_tcp,
              transport_client_initialize_udp, transport_client_initialize_unix_stream,
              transport_file_open
<1>2. ASSUME NEW c \in Channels,
             (\E e \in Events : Operate(c, e)) \/ (\E g \in BOOLEAN : Close(c, g) \/ CloseServer(c, g))
      PROVE  twice'
  BY <1>2 DEF Operate, Close, CloseServer
<1>3. ASSUME NEW c \in Channels,
             CloseDrained(c) \/ GracefulTimeout(c) \/ Finish(c) \/ ConnectFailed(c)
      PROVE  twice'
  BY <1>3 DEF CloseDrained, GracefulTimeout, Finish, ConnectFailed
<1>4. ASSUME NEW o \in ring, KernelComplete(o) PROVE twice'
  BY <1>4 DEF KernelComplete
<1>5. ASSUME NEW x \in cq, Process(x) PROVE twice'
  BY <1>5 DEF Process
<1>6. CASE UNCHANGED vars
  BY <1>6 DEF vars
<1>7. QED
  BY <1>1, <1>2, <1>3, <1>4, <1>5, <1>6 DEF Next

\* The inductive invariant of sockets, servers, clients and files: unless a
\* descriptor was closed twice, counters, registries, descriptors and operations
\* agree.
THEOREM DescriptorsAgree == Spec => []DescriptorsInv
<1>1. Init => DescriptorsInv
  BY InitHolds DEF DescriptorsInv
<1>2. DescriptorsInv /\ [Next]_vars => DescriptorsInv'
  <2> SUFFICES ASSUME DescriptorsInv, [Next]_vars PROVE DescriptorsInv'
    OBVIOUS
  <2>1. CASE twice
    BY <2>1, TwiceStays DEF DescriptorsInv
  <2>2. CASE ~twice
    <3>1. Consistent
      BY <2>2 DEF DescriptorsInv
    <3>2. CASE twice'
      BY <3>2 DEF DescriptorsInv
    <3>3. CASE ~twice'
      BY <3>1, <3>3, StepKeeps DEF DescriptorsInv
    <3>4. QED
      BY <3>2, <3>3
  <2>3. QED
    BY <2>1, <2>2
<1>3. QED
  BY <1>1, <1>2, PTL DEF Spec

\* A channel that is neither closed nor refused owns its descriptor, however many
\* channels, descriptors and connections there are and in whatever order the kernel
\* ends operations: no close() of another channel shuts it down (system_shutdown_descriptor).
THEOREM DescriptorsOwned == Spec => []OwnsDescriptor
<1>1. DescriptorsInv => OwnsDescriptor
  <2> SUFFICES ASSUME DescriptorsInv, NEW c \in Channels, Proper(c),
                      chan[c].stage \notin {"closed", "refused"}, ~chan[c].gone
               PROVE  table[chan[c].fd] = c
    BY DEF OwnsDescriptor
  <2>1. Consistent
    BY DEF DescriptorsInv, Proper
  <2>2. Sure(c) /\ Live(c) /\ ~chan[c].misset
    BY DEF Proper, Sure, Live, Used
  <2>3. Place(c)
    BY <2>1, <2>2, ConsistentIs DEF PlacePart
  <2>4. QED
    BY <2>2, <2>3 DEF Place
<1>2. QED
  BY <1>1, DescriptorsAgree, PTL

\* The completion of an operation is delivered to the channel that counts it as
\* pending, although a completion carries a descriptor only: close() keeps the entry
\* of the registry until the channel has heard of all its operations.
THEOREM CompletionsDelivered == Spec => []DeliveredToOwner
<1>1. DescriptorsInv => DeliveredToOwner
  <2> SUFFICES ASSUME DescriptorsInv, NEW o \in Ops, o.event # "accept", Proper(o.of)
               PROVE  registry[RegistryOf(chan[o.of].kind)][o.fd] = o.of
    BY DEF DeliveredToOwner, Ops
  <2>1. Consistent
    BY DEF DescriptorsInv, Proper
  <2>2. OpsPart
    BY <2>1, ConsistentIs
  <2>3. Sure(o.of)
    BY <2>2 DEF OpsPart, Proper, Sure
  <2>4. QED
    BY <2>1, <2>3, SureHears
<1>2. QED
  BY <1>1, DescriptorsAgree, PTL

-----------------------------------------------------------------------------
(* What servers promise: the inductive invariant. *)

\* A channel that the accept loop works for.
Serving(c) ==
  /\ c \in Used /\ chan[c].stage # "refused"
  /\ RegistryOf(chan[c].kind) = "servers"

\* An accept is on the descriptor of the server that asked for it.
HeardPart ==
  \A o \in Ops : o.event = "accept" => Serving(o.of) /\ o.fd = chan[o.of].fd

\* Only the factory of unix clients destroys a channel behind the back of close().
GonePart == \A c \in Used : chan[c].gone => chan[c].kind = "unix"

\* A connection belongs to a server, which is no connection.
ServerPart ==
  \A x \in Used : chan[x].server # None =>
    chan[x].kind = "connection" /\ Serving(chan[x].server)

\* A server that is closing waits for each of its connections, or did.
WaitPart ==
  \A x \in Used : chan[x].server # None /\ chan[x].stage # "closed" =>
    LET s == chan[chan[x].server] IN
    s.closing => x \in s.late \/ (s.stage = "draining" /\ x \in s.waits)

Promises ==
  HeardPart /\ GonePart /\ AcceptUnderWay /\ ServerPart /\ WaitPart /\ FileRemoved

\* The accepts under way are at most one for each server there was.
Accepts == {k \in Keys : k[1] = "accept"}
Servers == {c \in Channels : Serving(c)}

MaxSerial == MaxPending + Cardinality(Channels)

BoundPart ==
  /\ path \in BOOLEAN /\ twice \in BOOLEAN
  /\ \A c \in Used : chan[c].stage = "refused" => chan[c].pending \in Nat
  /\ \A x \in cq : x.result \in -1 .. MaxFd
  /\ IsFiniteSet(Accepts) /\ Cardinality(Accepts) <= Cardinality(Servers)
  /\ OneMisset => \A k \in Keys : k[3] \in 1 .. MaxSerial

ServeInv == twice \/ (Consistent /\ Promises /\ BoundPart)

-----------------------------------------------------------------------------
(* The promises step by step. *)

\* A channel in a step: what it is stays, and it does not open again.
Goes(old, new) ==
  /\ new.kind = old.kind /\ new.fd = old.fd /\ new.misset = old.misset
  /\ new.server = old.server
  /\ new.stage = "refused" <=> old.stage = "refused"
  /\ new.stage = "open" => old.stage = "open"
  /\ new.gone => old.gone \/ old.kind = "unix"
  /\ old.deaf /\ new.stage = "open" => new.deaf
  /\ old.stage = "refused" => new = old

\* A server in a step that does not begin to close one and does not end its wait.
Waits(old, new) ==
  /\ old.stage = "closed" => new.stage = "closed"
  /\ new.closing => old.closing \/ RegistryOf(old.kind) # "servers"
  /\ new.late = old.late
  /\ old.stage = "draining" => new.stage = "draining" /\ new.waits = old.waits

\* A channel that was not there before.
Fresh(y) ==
  LET n == chan'[y] IN
  /\ n.stage \in {"open", "refused"} /\ ~n.gone /\ ~n.closing /\ n.pending \in Nat
  /\ n.server # None => /\ n.kind = "connection" /\ Serving(n.server)
                        /\ ~chan'[n.server].closing

Grows ==
  /\ \A y \in Used : y \in Used' /\ Goes(chan[y], chan'[y])
  /\ \A y \in Used' : y \in Used \/ Fresh(y)

\* A server has an accept under way.
Hears(s) == \E o \in Ops : o.event = "accept" /\ o.of = s

\* The same accepts, cancelled, completed or as they were.
SameAccepts ==
  /\ Accepts' = Accepts
  /\ \A o \in Ops' : o.event = "accept" =>
       \E p \in Ops : p.event = o.event /\ p.of = o.of /\ p.fd = o.fd

LEMMA SameOpsAccepts == ASSUME SameOps PROVE SameAccepts
  BY DEF SameOps, SameAccepts, Accepts

LEMMA HearsIs == \A s : Hears(s) <=> \E k \in Accepts : k[2] = s
<1>1. \A o : Key(o)[1] = o.event /\ Key(o)[2] = o.of
  BY DEF Key
<1>2. QED
  BY <1>1 DEF Hears, Keys, Accepts

LEMMA HearsNow == \A s : Hears(s)' <=> \E k \in Accepts' : k[2] = s
<1>1. \A o : Key(o)[1] = o.event /\ Key(o)[2] = o.of
  BY DEF Key
<1>2. \A k : k \in Accepts' <=> k[1] = "accept" /\ \E o \in Ops' : k = Key(o)
  BY DEF Accepts, Keys, Key
<1>3. \A s : Hears(s)' <=> \E o \in Ops' : o.event = "accept" /\ o.of = s
  BY DEF Hears
<1>4. QED
  BY <1>1, <1>2, <1>3

LEMMA HearsSame == ASSUME Accepts' = Accepts PROVE \A s : Hears(s)' <=> Hears(s)
  BY HearsIs, HearsNow

LEMMA AcceptIs ==
  AcceptUnderWay <=>
    \A s \in Used : chan[s].kind \in Listening /\ ~chan[s].closing /\ chan[s].stage = "open"
                    /\ Proper(s) => chan[s].deaf \/ Hears(s)
  BY DEF AcceptUnderWay, Hears, Ops

LEMMA ServingStays == ASSUME Grows, NEW c, Serving(c) PROVE Serving(c)'
  BY DEF Grows, Goes, Serving

LEMMA ProperBefore ==
  ASSUME Grows, ~twice, NEW s \in Used, Proper(s)'
  PROVE  Proper(s)
<1>1. Goes(chan[s], chan'[s])
  BY DEF Grows
<1>2. chan[s] # Unused /\ ~chan[s].misset /\ chan'[s].fd = chan[s].fd
  BY <1>1 DEF Used, Proper, Goes
<1>3. OneMisset' => OneMisset
  BY DEF OneMisset, Grows, Goes
<1>4. QED
  BY <1>2, <1>3 DEF Proper

LEMMA HeardHolds ==
  ASSUME HeardPart, Grows,
         \A o \in Ops' : o.event = "accept" =>
           \/ \E p \in Ops : p.event = o.event /\ p.of = o.of /\ p.fd = o.fd
           \/ Serving(o.of)' /\ o.fd = chan'[o.of].fd
  PROVE  HeardPart'
<1>1. ASSUME NEW o \in Ops', o.event = "accept" PROVE Serving(o.of)' /\ o.fd = chan'[o.of].fd
  <2>1. CASE \E p \in Ops : p.event = o.event /\ p.of = o.of /\ p.fd = o.fd
    <3>1. Serving(o.of) /\ o.fd = chan[o.of].fd
      BY <1>1, <2>1 DEF HeardPart
    <3>2. Goes(chan[o.of], chan'[o.of])
      BY <3>1 DEF Serving, Grows
    <3>3. QED
      BY <3>1, <3>2, ServingStays DEF Goes
  <2>2. QED
    BY <1>1, <2>1
<1>2. QED
  BY <1>1 DEF HeardPart

LEMMA GoneHolds == ASSUME GonePart, Grows PROVE GonePart'
  BY DEF GonePart, Grows, Goes, Fresh

LEMMA ServerHolds == ASSUME ServerPart, Grows PROVE ServerPart'
<1>1. ASSUME NEW x \in Used', NEW s, s = chan'[x].server, s # None
      PROVE  chan'[x].kind = "connection" /\ Serving(s)'
  <2>1. CASE x \in Used
    <3>1. Goes(chan[x], chan'[x])
      BY <2>1 DEF Grows
    <3>2. chan[x].kind = "connection" /\ Serving(s)
      BY <1>1, <2>1, <3>1 DEF ServerPart, Goes
    <3>3. QED
      BY <3>1, <3>2, ServingStays DEF Goes
  <2>2. CASE x \notin Used
    <3>1. chan'[x].kind = "connection" /\ Serving(s)
      BY <1>1, <2>2 DEF Grows, Fresh
    <3>2. QED
      BY <3>1, ServingStays
  <2>3. QED
    BY <2>1, <2>2
<1>2. QED
  BY <1>1 DEF ServerPart, Serving

LEMMA WaitHolds ==
  ASSUME ServerPart, WaitPart, ShapePart, Grows, \A y \in Used : Waits(chan[y], chan'[y])
  PROVE  WaitPart'
<1>1. ASSUME NEW x \in Used', chan'[x].server # None, chan'[x].stage # "closed",
             chan'[chan'[x].server].closing
      PROVE  \/ x \in chan'[chan'[x].server].late
             \/ chan'[chan'[x].server].stage = "draining" /\ x \in chan'[chan'[x].server].waits
  <2>1. x \in Used
    BY <1>1 DEF Grows, Fresh
  <2>2. Goes(chan[x], chan'[x]) /\ Waits(chan[x], chan'[x])
    BY <2>1 DEF Grows
  <2> DEFINE s == chan[x].server
  <2>3. chan'[x].server = s /\ s # None /\ chan[x].stage # "closed"
    BY <1>1, <2>2 DEF Goes, Waits
  <2>4. Serving(s)
    BY <2>1, <2>3 DEF ServerPart
  <2>5. Waits(chan[s], chan'[s])
    BY <2>4 DEF Serving
  <2>6. chan[s].closing
    BY <1>1, <2>3, <2>4, <2>5 DEF Waits, Serving
  <2>7. x \in chan[s].late \/ (chan[s].stage = "draining" /\ x \in chan[s].waits)
    BY <2>1, <2>3, <2>6 DEF WaitPart
  <2>8. QED
    BY <2>3, <2>5, <2>7 DEF Waits
<1>2. QED
  BY <1>1 DEF WaitPart

LEMMA AcceptHolds ==
  ASSUME AcceptUnderWay, Grows, ~twice, ShapePart,
         \A y \in Used : Hears(y) /\ chan[y].kind \in Listening /\ Proper(y)
                         /\ chan'[y].stage = "open" => chan'[y].deaf \/ Hears(y)',
         \A y \in Used' : chan'[y].kind \in Listening /\ chan'[y].stage = "open"
                          => y \in Used \/ Hears(y)'
  PROVE  AcceptUnderWay'
<1>1. ASSUME NEW s \in Used', chan'[s].kind \in Listening, chan'[s].stage = "open", Proper(s)'
      PROVE  chan'[s].deaf \/ Hears(s)'
  <2>1. CASE s \in Used
    <3>1. Goes(chan[s], chan'[s]) /\ Proper(s)
      BY <1>1, <2>1, ProperBefore DEF Grows
    <3>2. chan[s].kind \in Listening /\ chan[s].stage = "open" /\ ~chan[s].closing
      BY <1>1, <2>1, <3>1 DEF Goes, ShapePart, Shape
    <3>3. chan[s].deaf \/ Hears(s)
      BY <2>1, <3>1, <3>2, AcceptIs
    <3>4. QED
      BY <1>1, <2>1, <3>1, <3>2, <3>3 DEF Goes
  <2>2. QED
    BY <1>1, <2>1
<1>2. QED
  BY <1>1 DEF AcceptUnderWay, Hears, Ops

\* The file: it is only there for a server that will remove it.
Holds(s) == chan[s].kind = "unixserver" /\ chan[s].stage \notin {"closed", "refused"}

LEMMA FileHolds ==
  ASSUME FileRemoved, Grows,
         path' => path \/ \E s \in Used' : Holds(s)',
         \A y \in Used : chan[y].kind = "unixserver" /\ chan'[y].stage = "closed"
                         => chan[y].stage = "closed" \/ ~path'
  PROVE  FileRemoved'
<1>1. SUFFICES ASSUME path' PROVE \E s \in Used' : Holds(s)'
  BY DEF FileRemoved, Holds
<1>2. CASE path
  <2>1. PICK s \in Used : Holds(s)
    BY <1>2 DEF FileRemoved, Holds
  <2>2. Goes(chan[s], chan'[s]) /\ s \in Used'
    BY DEF Grows
  <2>3. Holds(s)'
    BY <1>1, <2>1, <2>2 DEF Goes, Holds
  <2>4. QED
    BY <2>2, <2>3
<1>3. QED
  BY <1>1, <1>2

\* The steps that leave the accepts and the file as they are.
LEMMA PromisesKeep ==
  ASSUME Consistent, Promises, ~twice, Grows, SameAccepts, path' => path, WaitPart',
         \A y \in Used : chan[y].kind = "unixserver" /\ chan'[y].stage = "closed"
                         => chan[y].stage = "closed" \/ ~path',
         \A y \in Used' : chan'[y].kind \in Listening /\ chan'[y].stage = "open" => y \in Used
  PROVE  Promises' /\ Grows
<1>1. HeardPart'
  BY HeardHolds DEF Promises, SameAccepts
<1>2. \A y : Hears(y)' <=> Hears(y)
  BY HearsSame DEF SameAccepts
<1>3. AcceptUnderWay'
  BY <1>2, ConsistentIs, AcceptHolds DEF Promises
<1>4. FileRemoved'
  BY FileHolds DEF Promises
<1>5. QED
  BY <1>1, <1>3, <1>4, GoneHolds, ServerHolds DEF Promises

\* A step of one channel.
LEMMA OneChannel ==
  ASSUME Consistent, NEW c \in Used, NEW n \in Records, chan' = [chan EXCEPT ![c] = n],
         Goes(chan[c], n)
  PROVE  /\ c \in Channels /\ Used' = Used /\ Grows /\ chan'[c] = n
         /\ \A y \in Channels : y # c => chan'[y] = chan[y]
<1>1. chan \in [Channels -> {Unused} \union Records] /\ c \in Channels /\ chan[c] # Unused
  BY ConsistentIs DEF Used
<1>2. chan'[c] = n /\ \A y \in Channels : y # c => chan'[y] = chan[y]
  BY <1>1
<1>3. Used' = Used
  BY <1>1, <1>2, FieldTypes DEF Used
<1>4. \A y \in Used : Goes(chan[y], chan'[y])
  BY <1>2 DEF Goes, Used
<1>5. QED
  BY <1>1, <1>2, <1>3, <1>4 DEF Grows

LEMMA OneKeeps ==
  ASSUME Consistent, Promises, ~twice, NEW c \in Used, NEW n \in Records,
         chan' = [chan EXCEPT ![c] = n], Goes(chan[c], n), Waits(chan[c], n),
         SameAccepts, path' => path,
         chan[c].kind = "unixserver" /\ n.stage = "closed" => chan[c].stage = "closed" \/ ~path'
  PROVE  Promises' /\ Grows
<1>1. /\ Used' = Used /\ Grows /\ chan'[c] = n
      /\ \A y \in Channels : y # c => chan'[y] = chan[y]
  BY OneChannel
<1>2. \A y \in Used : Waits(chan[y], chan'[y])
  BY <1>1 DEF Waits, Used
<1>3. WaitPart'
  BY <1>1, <1>2, ConsistentIs, WaitHolds DEF Promises
<1>4. \A y \in Used : chan[y].kind = "unixserver" /\ chan'[y].stage = "closed"
                      => chan[y].stage = "closed" \/ ~path'
  BY <1>1 DEF Used
<1>5. QED
  BY <1>1, <1>3, <1>4, PromisesKeep

\* The start of close().
LEMMA ClosingGoes ==
  ASSUME NEW ch \in Records, Shape(ch), ch.stage \notin {"closed", "refused"}, NEW g \in BOOLEAN
  PROVE  /\ Goes(ch, Closing(ch, g))
         /\ Closing(ch, g).late = ch.late /\ Closing(ch, g).waits = ch.waits
         /\ Closing(ch, g).server = ch.server
<1> DEFINE n == Closing(ch, g)
<1>1. /\ n \in Records /\ Kept(ch, n)
      /\ n.stage = IF ch.pending = 0 THEN "finishing" ELSE IF g THEN "graceful" ELSE "cancelling"
  BY ClosingIs
<1>2. n.server = ch.server /\ n.late = ch.late /\ n.waits = ch.waits
  BY DEF Closing, Records
<1> HIDE DEF n
<1>3. Goes(ch, n)
  BY <1>1, <1>2 DEF Goes, Kept
<1>4. QED
  BY <1>2, <1>3 DEF n

LEMMA CancelsSame ==
  ASSUME Consistent, NEW cs, NEW g, ring' = Cancelled(cs, g), cq' = cq
  PROVE  SameAccepts
  BY ConsistentIs, CancelledRing, SameOpsAccepts

LEMMA ClosePromises ==
  ASSUME Consistent, Promises, ~twice, NEW c \in Channels, NEW g \in BOOLEAN, Close(c, g)
  PROVE  Promises' /\ Grows
<1> DEFINE n == Closing(chan[c], g)
<1>1. /\ c \in Used /\ chan[c].stage = "open" /\ RegistryOf(chan[c].kind) # "servers"
      /\ chan' = [chan EXCEPT ![c] = n]
      /\ ring' = Cancelled({c}, g) /\ UNCHANGED <<cq, path>>
  BY DEF Close, FirstClose
<1>2. chan[c] \in Records /\ Shape(chan[c])
  BY <1>1, ConsistentIs DEF ShapePart
<1>3. /\ n \in Records /\ Goes(chan[c], n) /\ n.late = chan[c].late
      /\ n.stage \in {"finishing", "graceful", "cancelling"}
  BY <1>1, <1>2, ClosingGoes, ClosingIs
<1> HIDE DEF n
<1>4. Waits(chan[c], n)
  BY <1>1, <1>3 DEF Waits
<1>5. QED
  BY <1>1, <1>3, <1>4, CancelsSame, OneKeeps

LEMMA TimeoutPromises ==
  ASSUME Consistent, Promises, ~twice, NEW c \in Channels, GracefulTimeout(c)
  PROVE  Promises' /\ Grows
<1> DEFINE n == [chan[c] EXCEPT !.stage = "cancelling", !.active = FALSE]
<1>1. /\ c \in Used /\ chan[c].stage = "graceful" /\ chan \in [Channels -> {Unused} \union Records]
      /\ ring' = transport_cancel_by_fd({chan[c].fd}) /\ UNCHANGED <<cq, path>>
  BY ConsistentIs DEF GracefulTimeout
<1>2. chan' = [chan EXCEPT ![c] = n]
  BY <1>1 DEF GracefulTimeout
<1>3. chan[c] \in Records
  BY <1>1, ConsistentIs
<1>4. n \in Records /\ n.stage = "cancelling"
  BY <1>3 DEF Records, Stages
<1>5. n.kind = chan[c].kind /\ n.fd = chan[c].fd /\ n.misset = chan[c].misset
  BY <1>3 DEF Records
<1>6. n.server = chan[c].server /\ n.gone = chan[c].gone /\ n.late = chan[c].late
  BY <1>3 DEF Records
<1>7. n.closing = chan[c].closing
  BY <1>3 DEF Records
<1> HIDE DEF n
<1>8. Goes(chan[c], n) /\ Waits(chan[c], n)
  BY <1>1, <1>4, <1>5, <1>6, <1>7 DEF Goes, Waits
<1>9. SameAccepts
  BY <1>1, ConsistentIs, SameCancelled, RingStays, SameOpsAccepts
<1>10. QED
  BY <1>1, <1>2, <1>4, <1>8, <1>9, OneKeeps

LEMMA FinishPromises ==
  ASSUME Consistent, Promises, ~twice, NEW c \in Channels, Finish(c)
  PROVE  Promises' /\ Grows
<1> DEFINE n == [chan[c] EXCEPT !.stage = "closed", !.active = FALSE, !.graceful = FALSE,
                                !.waits = {}, !.deaf = FALSE]
<1>1. /\ c \in Used /\ Quiet(chan[c]) /\ path' = destroy(chan[c].kind)
      /\ chan' = [chan EXCEPT ![c] = n] /\ UNCHANGED <<ring, cq>>
  BY DEF Finish
<1>2. chan[c] \in Records
  BY <1>1, ConsistentIs
<1>3. chan[c].stage \in {"finishing", "graceful", "cancelling"}
  BY <1>1 DEF Quiet
<1>4. n \in Records
  BY <1>2 DEF Records, Stages
<1>5. n.kind = chan[c].kind /\ n.fd = chan[c].fd /\ n.misset = chan[c].misset
  BY <1>2 DEF Records
<1>6. n.server = chan[c].server /\ n.gone = chan[c].gone /\ n.late = chan[c].late
  BY <1>2 DEF Records
<1>7. n.closing = chan[c].closing /\ n.stage = "closed"
  BY <1>2 DEF Records
<1> HIDE DEF n
<1>8. Goes(chan[c], n) /\ Waits(chan[c], n)
  BY <1>3, <1>5, <1>6, <1>7 DEF Goes, Waits
<1>9. SameAccepts
  BY <1>1, ConsistentIs, RingRests, SameOpsAccepts
<1>10. (path' => path) /\ (chan[c].kind = "unixserver" => ~path')
  BY <1>1 DEF destroy
<1>11. QED
  BY <1>1, <1>4, <1>8, <1>9, <1>10, OneKeeps

LEMMA FailedPromises ==
  ASSUME Consistent, Promises, ~twice, NEW c \in Channels, ConnectFailed(c)
  PROVE  Promises' /\ Grows
<1> DEFINE n == [chan[c] EXCEPT !.failing = FALSE, !.gone = TRUE]
<1>1. /\ c \in Used /\ chan[c].failing /\ path' = destroy("unix") /\ UNCHANGED <<ring, cq>>
      /\ chan \in [Channels -> {Unused} \union Records]
  BY ConsistentIs DEF ConnectFailed
<1>2. chan[c] \in Records /\ Shape(chan[c])
  BY <1>1, ConsistentIs DEF ShapePart
<1>3. chan' = [chan EXCEPT ![c] = n]
  BY <1>1 DEF ConnectFailed
<1>4. n \in Records
  BY <1>2 DEF Records
<1>5. n.kind = chan[c].kind /\ n.fd = chan[c].fd /\ n.misset = chan[c].misset
  BY <1>2 DEF Records
<1>6. n.server = chan[c].server /\ n.late = chan[c].late /\ n.waits = chan[c].waits
  BY <1>2 DEF Records
<1>7. n.closing = chan[c].closing /\ n.stage = chan[c].stage /\ n.deaf = chan[c].deaf
  BY <1>2 DEF Records
<1>8. chan[c].kind = "unix" /\ chan[c].stage # "refused"
  BY <1>1, <1>2 DEF Shape
<1> HIDE DEF n
<1>9. Goes(chan[c], n) /\ Waits(chan[c], n)
  BY <1>5, <1>6, <1>7, <1>8 DEF Goes, Waits
<1>10. SameAccepts
  BY <1>1, ConsistentIs, RingRests, SameOpsAccepts
<1>11. path' => path
  BY <1>1 DEF destroy
<1>12. QED
  BY <1>1, <1>3, <1>4, <1>7, <1>9, <1>10, <1>11, OneKeeps

\* A server begins to close: it waits for its connections, all of them.
LEMMA CloseServerPromises ==
  ASSUME Consistent, Promises, ~twice, NEW s \in Channels, NEW g \in BOOLEAN, CloseServer(s, g)
  PROVE  Promises' /\ Grows
<1> DEFINE mine == {x \in Used : chan[x].server = s /\ chan[x].stage # "closed"}
           fresh == {x \in mine : ~chan[x].closing}
           n == [chan[s] EXCEPT !.closing = TRUE, !.stage = "draining",
                                !.graceful = g, !.waits = fresh, !.late = mine \ fresh]
<1>1. /\ s \in Used /\ chan[s].stage = "open" /\ RegistryOf(chan[s].kind) = "servers"
      /\ chan' = [x \in Channels |->
                   IF x \in fresh THEN Closing(chan[x], g) ELSE IF x # s THEN chan[x] ELSE n]
      /\ ring' = Cancelled(fresh, g) /\ UNCHANGED <<cq, path>>
  BY Zenon DEF CloseServer, FirstClose
<1>2. /\ chan[s] \in Records /\ ShapePart /\ Used \subseteq Channels
      /\ \A x \in Used : chan[x] \in Records
  <2>1. Used \subseteq Channels
    BY DEF Used
  <2>2. s \in Used
    BY Zenon DEF CloseServer
  <2>3. QED
    BY <2>1, <2>2, ConsistentIs
<1>3. fresh \subseteq Used /\ mine \ fresh \subseteq Channels /\ fresh \subseteq Channels
  BY <1>2
<1>4. \A x \in Used : chan[x].server = s /\ chan[x].stage # "closed"
                      => x \in fresh \/ x \in mine \ fresh
  OBVIOUS
<1>5. ASSUME NEW x \in fresh
      PROVE  chan[x].stage # "closed" /\ ~chan[x].closing /\ chan[x].server = s
  OBVIOUS
<1> HIDE DEF fresh, mine
<1>7. n \in Records
  BY <1>2, <1>3 DEF Records, Stages
<1>8. n.kind = chan[s].kind /\ n.fd = chan[s].fd /\ n.misset = chan[s].misset
  BY <1>2 DEF Records
<1>9. n.server = chan[s].server /\ n.gone = chan[s].gone /\ n.stage = "draining"
  BY <1>2 DEF Records
<1>10. n.waits = fresh /\ n.late = mine \ fresh
  BY <1>2 DEF Records
<1> HIDE DEF n
<1>11. Goes(chan[s], n)
  BY <1>1, <1>8, <1>9 DEF Goes
<1>12. s # None /\ chan[s].server = None
  <2>1. s # None
    BY ChannelsAssumption
  <2>2. "servers" # RegistryOf("connection")
    BY DEF RegistryOf, Listening
  <2>3. QED
    BY <1>1, <2>1, <2>2 DEF Promises, ServerPart
<1>13. ASSUME NEW x \in fresh
       PROVE  /\ Closing(chan[x], g) \in Records /\ Goes(chan[x], Closing(chan[x], g))
              /\ Closing(chan[x], g).late = chan[x].late /\ x # s
              /\ chan[x].kind = "connection" /\ chan[x].stage # "draining"
  <2>1. chan[x] \in Records /\ Shape(chan[x]) /\ x \in Used
    BY <1>2, <1>3 DEF ShapePart
  <2>2. chan[x].server = s /\ chan[x].stage \notin {"closed", "refused", "draining"}
    BY <1>5, <1>12, <2>1 DEF Shape
  <2>3. chan[x].kind = "connection"
    BY <1>12, <2>1, <2>2 DEF Promises, ServerPart
  <2>4. QED
    BY <1>12, <2>1, <2>2, <2>3, ClosingGoes, ClosingIs
<1>14. chan'[s] = n /\ \A x \in Used : x # s /\ x \notin fresh => chan'[x] = chan[x]
  BY <1>1, <1>2, <1>13
<1>15. \A x \in fresh : chan'[x] = Closing(chan[x], g)
  BY <1>1, <1>3
<1>16. \A x \in Used : Goes(chan[x], chan'[x])
  <2>1. ASSUME NEW x \in Used PROVE Goes(chan[x], chan'[x])
    <3>1. CASE x \in fresh
      BY <1>13, <1>15, <3>1
    <3>2. CASE x = s
      BY <1>11, <1>14, <3>2
    <3>3. CASE x \notin fresh /\ x # s
      BY <1>14, <3>3 DEF Goes
    <3>4. QED
      BY <3>1, <3>2, <3>3
  <2>2. QED
    BY <2>1
<1>17. Used' = Used
  <2>1. \A x \in Channels : chan'[x] = Unused <=> chan[x] = Unused
    BY <1>1, <1>2, <1>3, <1>7, <1>13, <1>14, FieldTypes DEF Used
  <2>2. QED
    BY <2>1 DEF Used
<1>18. Grows
  BY <1>16, <1>17 DEF Grows
<1>19. ASSUME NEW y \in Used, y # s PROVE Waits(chan[y], chan'[y])
  <2>1. CASE y \in fresh
    <3>1. RegistryOf(chan[y].kind) # "servers"
      BY <1>13, <2>1 DEF RegistryOf, Listening
    <3>2. QED
      BY <1>5, <1>13, <1>15, <2>1, <3>1 DEF Waits
  <2>2. CASE y \notin fresh
    BY <1>14, <1>19, <2>2 DEF Waits
  <2>3. QED
    BY <2>1, <2>2
<1>20. WaitPart'
  <2>1. ASSUME NEW x \in Used, NEW t, t = chan'[x].server, t # None,
               chan'[x].stage # "closed", chan'[t].closing
        PROVE  x \in chan'[t].late \/ (chan'[t].stage = "draining" /\ x \in chan'[t].waits)
    <3>1. chan[x].server = t
      BY <1>16, <2>1 DEF Goes
    <3>2. Serving(t)
      BY <2>1, <3>1 DEF Promises, ServerPart
    <3>3. chan[x].stage # "closed"
      <4>1. CASE x = s
        BY <1>1, <4>1
      <4>2. CASE x # s
        BY <1>19, <2>1, <4>2 DEF Waits
      <4>3. QED
        BY <4>1, <4>2
    <3>4. CASE t = s
      BY <1>4, <1>9, <1>10, <1>14, <3>1, <3>3, <3>4
    <3>5. CASE t # s
      <4>1. Waits(chan[t], chan'[t])
        BY <1>19, <3>2, <3>5 DEF Serving
      <4>2. chan[t].closing
        BY <2>1, <3>2, <4>1 DEF Waits, Serving
      <4>3. x \in chan[t].late \/ (chan[t].stage = "draining" /\ x \in chan[t].waits)
        BY <2>1, <3>1, <3>3, <4>2 DEF Promises, WaitPart
      <4>4. QED
        BY <4>1, <4>3 DEF Waits
    <3>6. QED
      BY <3>4, <3>5
  <2>2. QED
    BY <1>17, <2>1 DEF WaitPart
<1>21. \A y \in Used : chan'[y].stage = "closed" => chan[y].stage = "closed"
  <2>1. ASSUME NEW y \in Used, chan'[y].stage = "closed" PROVE chan[y].stage = "closed"
    <3>1. CASE y \in fresh
      BY <1>2, <1>3, <1>15, <2>1, <3>1, ClosingIs
    <3>2. CASE y \notin fresh
      BY <1>9, <1>14, <2>1, <3>2
    <3>3. QED
      BY <3>1, <3>2
  <2>2. QED
    BY <2>1
<1>22. QED
  BY <1>1, <1>17, <1>18, <1>20, <1>21, CancelsSame, PromisesKeep

\* The connections that a server waited for are closed when it goes on.
LEMMA DrainedPromises ==
  ASSUME Consistent, Promises, ~twice, NEW c \in Channels, CloseDrained(c)
  PROVE  Promises' /\ Grows
<1> DEFINE g == chan[c].graceful
           n == Closing(chan[c], g)
<1>1. /\ c \in Used /\ chan[c].stage = "draining" /\ Drained(c)
      /\ chan' = [chan EXCEPT ![c] = n]
      /\ ring' = Cancelled({c}, g) /\ UNCHANGED <<cq, path>>
  BY DEF CloseDrained
<1>2. chan[c] \in Records /\ Shape(chan[c])
  BY <1>1, ConsistentIs DEF ShapePart
<1>3. g \in BOOLEAN
  BY <1>2, FieldTypes
<1> HIDE DEF g
<1>4. /\ n \in Records /\ Goes(chan[c], n) /\ n.late = chan[c].late
      /\ n.stage \in {"finishing", "graceful", "cancelling"}
  BY <1>1, <1>2, <1>3, ClosingGoes, ClosingIs
<1> HIDE DEF n
<1>5. /\ Used' = Used /\ Grows /\ chan'[c] = n
      /\ \A y \in Channels : y # c => chan'[y] = chan[y]
  BY <1>1, <1>4, OneChannel
<1>6. \A y \in Used : chan'[y].stage = "closed" => chan[y].stage = "closed"
  BY <1>4, <1>5 DEF Used
<1>7. WaitPart'
  <2>1. ASSUME NEW x \in Used, NEW t, t = chan'[x].server, t # None,
               chan'[x].stage # "closed", chan'[t].closing
        PROVE  x \in chan'[t].late \/ (chan'[t].stage = "draining" /\ x \in chan'[t].waits)
    <3>1. chan[x].server = t
      BY <1>5, <2>1 DEF Grows, Goes
    <3>2. Serving(t) /\ chan[x].kind = "connection"
      BY <2>1, <3>1 DEF Promises, ServerPart
    <3>3. chan[x].stage # "closed"
      BY <1>1, <1>5, <2>1 DEF Used
    <3>4. CASE t = c
      <4>1. chan[c].closing
        BY <1>1, <1>2 DEF Shape
      <4>2. x \in chan[c].late \/ x \in chan[c].waits
        BY <2>1, <3>1, <3>3, <3>4, <4>1 DEF Promises, WaitPart
      <4>3. x \in chan[c].late
        BY <1>1, <3>3, <4>2 DEF Drained
      <4>4. QED
        BY <1>4, <1>5, <3>4, <4>3
    <3>5. CASE t # c
      BY <1>5, <2>1, <3>1, <3>2, <3>3, <3>5 DEF Promises, WaitPart, Serving, Used
    <3>6. QED
      BY <3>4, <3>5
  <2>2. QED
    BY <1>5, <2>1 DEF WaitPart
<1>8. QED
  BY <1>1, <1>5, <1>6, <1>7, CancelsSame, PromisesKeep

\* Data operations begin and end: the accepts are as they were.
LEMMA OperatePromises ==
  ASSUME Consistent, Promises, ~twice, NEW c \in Channels, NEW e \in Events, Operate(c, e)
  PROVE  Promises' /\ Grows
<1> DEFINE n == [chan[c] EXCEPT !.pending = @ + 1]
           o == Started(e, chan[c].fd, c)
<1>1. /\ c \in Used /\ chan[c].stage = "open"
      /\ e \in {"message", "read", "write"}
      /\ ring' = ring \union {o} /\ UNCHANGED <<cq, path>>
      /\ RingOk /\ chan \in [Channels -> {Unused} \union Records]
  BY ConsistentIs DEF Operate
<1>2. chan[c] \in Records /\ chan[c].fd \in Fds /\ chan[c].pending + 1 \in Int
  BY <1>1, ConsistentIs, FieldTypes
<1>3. chan' = [chan EXCEPT ![c] = n]
  BY <1>1 DEF Operate
<1>4. n \in Records
  BY <1>2 DEF Records
<1>5. n.kind = chan[c].kind /\ n.fd = chan[c].fd /\ n.misset = chan[c].misset
  BY <1>2 DEF Records
<1>6. n.server = chan[c].server /\ n.late = chan[c].late /\ n.waits = chan[c].waits
  BY <1>2 DEF Records
<1>7. n.closing = chan[c].closing /\ n.stage = chan[c].stage /\ n.deaf = chan[c].deaf
  BY <1>2 DEF Records
<1>8. n.gone = chan[c].gone
  BY <1>2 DEF Records
<1>9. o \in OpRecords /\ o.event = e /\ Key(o) \notin Keys /\ Key(o)[1] = e
  BY <1>1, <1>2, StartedIs
<1> HIDE DEF n, o
<1>10. Goes(chan[c], n) /\ Waits(chan[c], n)
  BY <1>1, <1>5, <1>6, <1>7, <1>8 DEF Goes, Waits
<1>11. Keys' = Keys \union {Key(o)} /\ Ops' = Ops \union {o}
  BY <1>1, <1>9, RingGrows
<1>12. SameAccepts
  BY <1>1, <1>9, <1>11 DEF SameAccepts, Accepts
<1>13. QED
  BY <1>1, <1>3, <1>4, <1>7, <1>10, <1>12, OneKeeps

LEMMA DataPromises ==
  ASSUME Consistent, Promises, ~twice, NEW x \in cq, Process(x), x.op.event # "accept"
  PROVE  Promises' /\ Grows
<1> DEFINE c == registry[RegistryOf(chan[x.op.of].kind)][x.op.fd]
<1>1. /\ RingOk /\ EntryPart /\ ShapePart /\ chan \in [Channels -> {Unused} \union Records]
  BY ConsistentIs
<1>2. /\ cq' = cq \ {x} /\ UNCHANGED path
      /\ IF c = None THEN UNCHANGED <<chan, ring>>
         ELSE IF x.op.event = "connect" THEN NotifyConnect(c, x.result)
         ELSE NotifyData(c, x.op.event, x.result)
  BY DEF Process
<1>3. ASSUME SameRing(ring') PROVE SameAccepts
  <2>1. /\ Keys' = Keys \ {Key(x.op)}
        /\ \A o \in Ops' : \E p \in Ops : p.event = o.event /\ p.of = o.of /\ p.fd = o.fd
    BY <1>1, <1>2, <1>3, RingLoses
  <2>2. Key(x.op)[1] # "accept"
    BY DEF Key
  <2>3. QED
    BY <2>1, <2>2 DEF SameAccepts, Accepts
<1>4. c # None => c \in Used /\ chan[c] \in Records /\ Shape(chan[c]) /\ chan[c].stage # "refused"
  <2>1. x.op.fd \in Fds /\ RegistryOf(chan[x.op.of].kind) \in Registries
    BY <1>1, OpTypes, RegistryTypes DEF Ops
  <2>2. QED
    BY <1>1, <2>1, ConsistentIs DEF EntryPart, ShapePart
<1> HIDE DEF c
<1>5. ASSUME NEW n \in Records, c # None, chan' = [chan EXCEPT ![c] = n], SameRing(ring'),
             Goes(chan[c], n), Waits(chan[c], n), n.stage = "closed" => chan[c].stage = "closed"
      PROVE  Promises' /\ Grows
  BY <1>2, <1>3, <1>4, <1>5, OneKeeps
<1>6. CASE c = None
  <2>1. Used' = Used /\ Grows /\ \A y \in Used : Waits(chan[y], chan'[y])
    BY <1>2, <1>6 DEF Used, Grows, Goes, Waits
  <2>2. WaitPart'
    BY <1>1, <2>1, WaitHolds DEF Promises
  <2>3. SameAccepts
    BY <1>1, <1>2, <1>3, <1>6, SameAsIs
  <2>4. QED
    BY <1>2, <1>6, <2>1, <2>2, <2>3, PromisesKeep
<1> DEFINE m == Counted(chan[c])
<1>7. ASSUME c # None
      PROVE  /\ m \in Records /\ Shape(m) /\ Kept(chan[c], m) /\ m.closing = chan[c].closing
             /\ m.stage = chan[c].stage /\ m.server = chan[c].server /\ m.deaf = chan[c].deaf
             /\ m.late = chan[c].late /\ m.waits = chan[c].waits
  <2>1. chan[c] \in Records /\ Shape(chan[c])
    BY <1>4, <1>7
  <2>2. m \in Records /\ Kept(chan[c], m) /\ m.closing = chan[c].closing /\ m.stage = chan[c].stage
    BY <2>1, CountedIs
  <2>3. m.server = chan[c].server /\ m.deaf = chan[c].deaf
    BY <2>1 DEF Counted, Records
  <2>4. m.late = chan[c].late /\ m.waits = chan[c].waits
    BY <2>1 DEF Counted, Records
  <2>5. Shape(m)
    BY <2>1, <2>2, <2>3, CountedIs DEF Shape, Kept
  <2>6. QED
    BY <2>2, <2>3, <2>4, <2>5
<1> HIDE DEF m
<1>8. CASE c # None /\ x.op.event = "connect"
  <2> DEFINE u == chan[c].active /\ x.result = 0
             w == ~u /\ chan[c].kind = "unix"
             n == [m EXCEPT !.up = u, !.failing = w]
  <2>1. chan' = [chan EXCEPT ![c] = n] /\ UNCHANGED ring
    BY <1>2, <1>8 DEF NotifyConnect, m
  <2>2. u \in BOOLEAN /\ w \in BOOLEAN /\ m \in Records
    BY <1>4, <1>7, <1>8, FieldTypes
  <2> HIDE DEF u, w
  <2>3. n \in Records /\ n.kind = m.kind /\ n.fd = m.fd
    BY <2>2 DEF Records
  <2>4. n.misset = m.misset /\ n.server = m.server /\ n.stage = m.stage
    BY <2>2 DEF Records
  <2>5. n.gone = m.gone /\ n.deaf = m.deaf /\ n.late = m.late
    BY <2>2 DEF Records
  <2>6. n.waits = m.waits /\ n.closing = m.closing
    BY <2>2 DEF Records
  <2> HIDE DEF n
  <2>7. Goes(chan[c], n) /\ Waits(chan[c], n)
    BY <1>4, <1>7, <1>8, <2>3, <2>4, <2>5, <2>6 DEF Goes, Waits, Kept
  <2>8. n.stage = chan[c].stage
    BY <1>7, <1>8, <2>4
  <2>9. QED
    BY <1>1, <1>5, <1>8, <2>1, <2>3, <2>7, <2>8, SameAsIs
<1>9. CASE c # None /\ x.op.event # "connect"
  <2> DEFINE fatal == /\ x.result < 0 /\ chan[c].active /\ ~chan[c].closing
                      /\ \/ chan[c].kind = "connection"
                         \/ chan[c].kind \in Connecting /\ x.op.event = "read"
  <2>1. /\ chan' = [chan EXCEPT ![c] = IF fatal THEN Closing(m, FALSE) ELSE m]
        /\ ring' = IF fatal /\ chan[c].pending > 1 THEN transport_cancel_by_fd({chan[c].fd}) ELSE ring
    BY <1>2, <1>9 DEF NotifyData, m
  <2>2. SameRing(ring')
    <3>1. CASE ring' = ring
      BY <1>1, <3>1, SameAsIs
    <3>2. CASE ring' = transport_cancel_by_fd({chan[c].fd})
      BY <1>1, <3>2, SameCancelled
    <3>3. QED
      BY <2>1, <3>1, <3>2
  <2>3. CASE ~fatal
    <3>1. Goes(chan[c], m) /\ Waits(chan[c], m)
      BY <1>4, <1>7, <1>9 DEF Goes, Waits, Kept
    <3>2. QED
      BY <1>5, <1>7, <1>9, <2>1, <2>2, <2>3, <3>1
  <2>4. CASE fatal
    <3> DEFINE n == Closing(m, FALSE)
    <3>1. chan[c].stage \notin {"closed", "refused"} /\ chan[c].stage = "open"
      BY <1>4, <1>9, <2>4 DEF Shape
    <3>2. RegistryOf(chan[c].kind) # "servers"
      BY <2>4 DEF RegistryOf, Listening, Connecting
    <3>3. /\ n \in Records /\ Goes(m, n) /\ n.late = m.late
          /\ n.stage \in {"finishing", "cancelling"}
      BY <1>7, <1>9, <3>1, ClosingGoes, ClosingIs
    <3>4. chan' = [chan EXCEPT ![c] = n]
      BY <2>1, <2>4
    <3> HIDE DEF n
    <3>5. Goes(chan[c], n) /\ Waits(chan[c], n)
      BY <1>7, <1>9, <3>1, <3>2, <3>3 DEF Goes, Waits, Kept
    <3>6. QED
      BY <1>5, <1>9, <2>2, <3>3, <3>4, <3>5
  <2>5. QED
    BY <2>3, <2>4
<1>10. QED
  BY <1>6, <1>8, <1>9

-----------------------------------------------------------------------------
(* The kernel, the factories and the accept loop. *)

LEMMA CompletePromises ==
  ASSUME Consistent, Promises, ~twice, NEW o \in ring, KernelComplete(o)
  PROVE  Promises' /\ Grows
<1>1. UNCHANGED <<chan, path>> /\ ring' = ring \ {o} /\ RingOk
  BY ConsistentIs DEF KernelComplete
<1>2. \E n \in Int : cq' = cq \union {[op |-> o, result |-> n]}
  <2>1. FreeFds # {} => Min(FreeFds) \in Int
    BY FreeIs DEF Fds
  <2>2. CASE cq' = cq \union {[op |-> o, result |-> -1]}
    BY <2>2
  <2>3. CASE cq' = cq \union {[op |-> o, result |-> IF o.event = "connect" THEN 0 ELSE 1]}
    BY <2>3
  <2>4. CASE FreeFds # {} /\ cq' = cq \union {[op |-> o, result |-> Min(FreeFds)]}
    BY <2>1, <2>4
  <2>5. QED
    BY <2>2, <2>3, <2>4 DEF KernelComplete
<1>3. SameAccepts
  BY <1>1, <1>2, RingCompletes, SameOpsAccepts
<1>4. Used' = Used /\ Grows /\ \A y \in Used : Waits(chan[y], chan'[y])
  BY <1>1 DEF Used, Grows, Goes, Waits
<1>5. WaitPart'
  BY <1>4, ConsistentIs, WaitHolds DEF Promises
<1>6. QED
  BY <1>1, <1>3, <1>4, <1>5, PromisesKeep

LEMMA RestPromises == ASSUME Consistent, Promises, ~twice, UNCHANGED vars PROVE Promises' /\ Grows
<1>1. UNCHANGED <<chan, ring, cq, path>>
  BY DEF vars
<1>2. SameAccepts
  BY <1>1, ConsistentIs, RingRests, SameOpsAccepts
<1>3. Used' = Used /\ Grows /\ \A y \in Used : Waits(chan[y], chan'[y])
  BY <1>1 DEF Used, Grows, Goes, Waits
<1>4. WaitPart'
  BY <1>3, ConsistentIs, WaitHolds DEF Promises
<1>5. QED
  BY <1>1, <1>2, <1>3, <1>4, PromisesKeep

\* A new channel, with all that was there before.
LEMMA NewGrows ==
  ASSUME Consistent, NEW c \in Channels, chan[c] = Unused,
         chan' \in [Channels -> {Unused} \union Records], chan'[c] \in Records,
         \A y \in Used : chan'[y] # Unused /\ Goes(chan[y], chan'[y]),
         \A y \in Channels : y # c /\ y \notin Used => chan'[y] = chan[y],
         Fresh(c)
  PROVE  Grows /\ Used' = Used \union {c} /\ c \notin Used
<1>1. Used' = Used \union {c} /\ c \notin Used
  BY FieldTypes DEF Used
<1>2. QED
  BY <1>1 DEF Grows

LEMMA RefusePromises ==
  ASSUME Consistent, Promises, ~twice, NEW c \in Channels, chan[c] = Unused, NEW k \in AllKinds,
         Refuse(c, k), cq' = cq
  PROVE  Promises' /\ Accepts' = Accepts /\ Ops' = Ops /\ Grows /\ Used' = Used \union {c}
         /\ (path' => path) /\ chan'[c].pending \in Nat
<1> DEFINE m == NewChannel(k, 0, None)
           n == [m EXCEPT !.stage = "refused"]
<1>1. /\ RingOk /\ ShapePart /\ chan \in [Channels -> {Unused} \union Records]
  BY ConsistentIs
<1>2. chan' = [chan EXCEPT ![c] = n] /\ ring' = ring /\ (path' => path)
  BY DEF Refuse
<1>3. m \in Records /\ ~m.closing /\ ~m.gone /\ m.pending \in Nat
  <2>1. 0 \in Fds
    BY ChannelsAssumption DEF Fds
  <2>2. QED
    BY <2>1, NewIs DEF Connects
<1>4. m.server = None
  BY DEF NewChannel
<1> HIDE DEF m
<1>5. n \in Records /\ n.stage = "refused"
  <2>1. n \in Records
    BY <1>3 DEF Records, Stages
  <2>2. n.stage = "refused"
    BY <1>3 DEF Records
  <2>3. QED
    BY <2>1, <2>2
<1>6. n.closing = m.closing /\ n.gone = m.gone
  BY <1>3 DEF Records
<1>7. n.pending = m.pending /\ n.server = m.server
  BY <1>3 DEF Records
<1> HIDE DEF n
<1>8. /\ chan' \in [Channels -> {Unused} \union Records] /\ chan'[c] = n
      /\ \A y \in Channels : y # c => chan'[y] = chan[y]
  BY <1>1, <1>2, <1>5
<1>9. Fresh(c)
  BY <1>3, <1>4, <1>5, <1>6, <1>7, <1>8 DEF Fresh
<1>10. \A y \in Used : y \in Channels /\ y # c /\ chan'[y] = chan[y] /\ chan[y] # Unused
  BY <1>8 DEF Used
<1>11. Grows /\ Used' = Used \union {c} /\ c \notin Used
  BY <1>5, <1>8, <1>9, <1>10, NewGrows DEF Goes
<1>12. SameAccepts /\ Ops' = Ops
  BY <1>1, <1>2, RingRests, SameOpsAccepts DEF Ops
<1>13. WaitPart'
  BY <1>1, <1>10, <1>11, WaitHolds DEF Promises, Waits
<1>14. \A y \in Used' : chan'[y].stage = "open" => y \in Used
  BY <1>5, <1>8, <1>11
<1>15. \A y \in Used : chan'[y].stage = "closed" => chan[y].stage = "closed"
  BY <1>10
<1>16. Promises'
  BY <1>2, <1>11, <1>12, <1>13, <1>14, <1>15, PromisesKeep
<1>17. QED
  BY <1>2, <1>3, <1>7, <1>8, <1>11, <1>12, <1>16 DEF SameAccepts

LEMMA RegisterPromises ==
  ASSUME Consistent, Promises, ~twice, NEW c \in Channels, chan[c] = Unused, NEW k \in AllKinds,
         NEW f \in Fds, NEW b \in BOOLEAN, b => f = 0, Register(c, k, f, b), cq' = cq,
         path' => path \/ (k = "unixserver" /\ ~b)
  PROVE  Promises' /\ Grows /\ Used' = Used \union {c} /\ c \notin Used
         /\ chan'[c].stage = "open" /\ chan'[c].kind = k
<1> DEFINE n == Made(k, f, None, b)
<1>1. /\ RingOk /\ ShapePart /\ chan \in [Channels -> {Unused} \union Records]
  BY ConsistentIs
<1>2. chan' = [chan EXCEPT ![c] = n]
  BY DEF Register, Made
<1>3. /\ n \in Records /\ Shape(n) /\ n.kind = k /\ n.fd = f
      /\ n.pending = Connects(k) /\ n.stage = "open" /\ ~n.gone
  <2>1. k \in AllKinds \union {"connection"} /\ None \in Channels \union {None}
    OBVIOUS
  <2>2. QED
    BY <2>1, NewShape
<1>4. n.server = None
  <2> DEFINE m == NewChannel(k, f, None)
  <2>1. m.server = None
    BY DEF NewChannel
  <2>2. m \in Records
    <3>1. k \in AllKinds \union {"connection"} /\ None \in Channels \union {None}
      OBVIOUS
    <3>2. QED
      BY <3>1, NewIs
  <2>3. n = [m EXCEPT !.misset = b]
    BY DEF Made
  <2> HIDE DEF m, n
  <2>4. QED
    BY <2>1, <2>2, <2>3 DEF Records
<1> HIDE DEF n
<1>5. /\ chan' \in [Channels -> {Unused} \union Records] /\ chan'[c] = n
      /\ \A y \in Channels : y # c => chan'[y] = chan[y]
  BY <1>1, <1>2, <1>3
<1>6. Fresh(c)
  BY <1>3, <1>4, <1>5 DEF Fresh, Connects, Shape
<1>7. \A y \in Used : y \in Channels /\ y # c /\ chan'[y] = chan[y] /\ chan[y] # Unused
  BY <1>5 DEF Used
<1>8. Grows /\ Used' = Used \union {c} /\ c \notin Used
  BY <1>3, <1>5, <1>6, <1>7, NewGrows DEF Goes
<1>9. WaitPart'
  BY <1>1, <1>7, <1>8, WaitHolds DEF Promises, Waits
<1>10. \A y \in Used : chan'[y].stage = "closed" => chan[y].stage = "closed"
  BY <1>7
<1>11. FileRemoved'
  <2>1. c \in Used' /\ (k = "unixserver" => Holds(c)')
    BY <1>3, <1>5, <1>8 DEF Holds
  <2>2. path' => path \/ \E s \in Used' : Holds(s)'
    BY <2>1
  <2>3. QED
    BY <1>8, <1>10, <2>2, FileHolds DEF Promises
<1>12. k \in Listening => k \notin Connecting /\ RegistryOf(k) = "servers"
  BY DEF Listening, Connecting, RegistryOf
<1>13. ASSUME NEW e \in Events, ring' = ring \union {Started(e, f, c)}, e = "accept" <=> k \in Listening
       PROVE  /\ \A o \in Ops' : o.event = "accept" =>
                   \/ \E p \in Ops : p.event = o.event /\ p.of = o.of /\ p.fd = o.fd
                   \/ Serving(o.of)' /\ o.fd = chan'[o.of].fd
              /\ \A y : Hears(y) => Hears(y)'
              /\ k \in Listening => Hears(c)'
  <2> DEFINE o == Started(e, f, c)
  <2>1. o.event = e /\ o.of = c /\ o.fd = f
    BY <1>1, StartedIs
  <2> HIDE DEF o
  <2>2. Ops' = Ops \union {o}
    BY <1>13 DEF Ops, o
  <2>3. e = "accept" => Serving(c)'
    BY <1>3, <1>5, <1>8, <1>12, <1>13 DEF Serving
  <2>4. QED
    BY <1>3, <1>5, <1>13, <2>1, <2>2, <2>3 DEF Hears
<1>14. /\ \A o \in Ops' : o.event = "accept" =>
            \/ \E p \in Ops : p.event = o.event /\ p.of = o.of /\ p.fd = o.fd
            \/ Serving(o.of)' /\ o.fd = chan'[o.of].fd
       /\ \A y : Hears(y) => Hears(y)'
       /\ k \in Listening => Hears(c)'
  <2>1. CASE k \in Connecting
    <3>1. ring' = ring \union {Started("connect", f, c)} /\ "connect" \in Events
      BY <1>12, <2>1 DEF Register, Events
    <3>2. QED
      BY <1>12, <1>13, <2>1, <3>1
  <2>2. CASE k \in Listening
    <3>1. ring' = ring \union {Started("accept", f, c)} /\ "accept" \in Events
      BY <1>12, <2>2 DEF Register, Events
    <3>2. QED
      BY <1>13, <2>2, <3>1
  <2>3. CASE k \notin Connecting /\ k \notin Listening
    <3>1. ring' = ring
      BY <2>3 DEF Register
    <3>2. Ops' = Ops
      BY <3>1 DEF Ops
    <3>3. QED
      BY <2>3, <3>2 DEF Hears
  <2>4. QED
    BY <2>1, <2>2, <2>3
<1>15. HeardPart'
  BY <1>8, <1>14, HeardHolds DEF Promises
<1>16. AcceptUnderWay'
  <2>1. \A y \in Used' : chan'[y].kind \in Listening => y \in Used \/ Hears(y)'
    BY <1>3, <1>5, <1>8, <1>14
  <2>2. QED
    BY <1>1, <1>8, <1>14, <2>1, AcceptHolds DEF Promises
<1>17. QED
  BY <1>3, <1>5, <1>8, <1>9, <1>11, <1>15, <1>16, GoneHolds, ServerHolds DEF Promises

LEMMA InitializePromises ==
  ASSUME Consistent, Promises, ~twice, NEW r \in Openings, NEW k \in AllKinds, NEW result,
         Initialize(r, k, result)
  PROVE  Promises' /\ Grows
<1> DEFINE c == r.channel
           f == Min(FreeFds)
<1>1. c \in Channels /\ chan[c] = Unused /\ cq' = cq /\ 0 \in Fds
  BY OpeningsAssumption, ChannelsAssumption DEF Initialize, Fds
<1>2. FreeFds # {} => f \in Fds
  BY FreeIs
<1> HIDE DEF f
<1>3. CASE Refuse(c, k)
  BY <1>1, <1>3, RefusePromises
<1>4. CASE FreeFds # {} /\ Register(c, k, f, FALSE) /\ path' = (path \/ k = "unixserver")
  BY <1>1, <1>2, <1>4, RegisterPromises
<1>5. CASE Register(c, k, 0, TRUE) /\ UNCHANGED path
  BY <1>1, <1>5, RegisterPromises
<1>6. QED
  BY <1>3, <1>4, <1>5 DEF Initialize, f

LEMMA OpenPromises ==
  ASSUME Consistent, Promises, ~twice, NEW r \in Openings, Open(r)
  PROVE  Promises' /\ Grows
<1>1. \E k \in AllKinds : \E result : Initialize(r, k, result)
  BY DEF Open, AllKinds, transport_server_initialize_tcp, transport_server_initialize_udp,
         transport_server_initialize_unix_stream, transport_client_initialize_tcp,
         transport_client_initialize_udp, transport_client_initialize_unix_stream,
         transport_file_open
<1>2. QED
  BY <1>1, InitializePromises

\* What an accept turns into: it is over, and the server that heard of it may have
\* asked for the next one.
LEMMA TurnsAccepts ==
  ASSUME Consistent, NEW x \in cq, cq' = cq \ {x}, x.op.event = "accept",
         NEW s \in Channels,
         ring' = ring \/ ring' = ring \union {Started("accept", x.op.fd, s)}
  PROVE  /\ \A o \in Ops' : o \in Ops \/ (o.event = "accept" /\ o.of = s /\ o.fd = x.op.fd)
         /\ \A y : Hears(y) /\ y # x.op.of => Hears(y)'
         /\ ring' = ring \union {Started("accept", x.op.fd, s)} => Hears(s)'
<1> DEFINE n == Started("accept", x.op.fd, s)
<1>1. RingOk /\ x.op \in Ops /\ "accept" \in Events
  BY ConsistentIs DEF Ops, Events
<1>2. n.event = "accept" /\ n.of = s /\ n.fd = x.op.fd
  BY <1>1, OpTypes, StartedIs
<1> HIDE DEF n
<1>3. ring' = ring \/ ring' = ring \union {n}
  BY DEF n
<1>4. \A o \in Ops : o.of # x.op.of => o \in Ops'
  BY <1>3 DEF Ops
<1>5. \A o \in Ops' : o \in Ops \/ o = n
  BY <1>3 DEF Ops
<1>6. ring' = ring \union {n} => n \in Ops'
  BY DEF Ops
<1>7. QED
  BY <1>2, <1>4, <1>5, <1>6 DEF Hears, n

\* The server whose accept it was hears of it, and no other, unless the descriptor
\* is another's by now.
LEMMA AcceptPromises ==
  ASSUME Consistent, Promises, ~twice, NEW x \in cq, Process(x), x.op.event = "accept"
  PROVE  Promises' /\ Grows
<1> DEFINE s == registry[RegistryOf(chan[x.op.of].kind)][x.op.fd]
<1>1. /\ RingOk /\ ShapePart /\ EntryPart /\ AcceptPart /\ PlacePart
      /\ chan \in [Channels -> {Unused} \union Records]
      /\ \A y \in Used : chan[y] \in Records
  BY ConsistentIs
<1>2. x.op.fd \in Fds /\ x.op \in Ops
  BY <1>1, OpTypes DEF Ops
<1>3. Serving(x.op.of) /\ x.op.fd = chan[x.op.of].fd
  BY <1>2 DEF Promises, HeardPart
<1>4. s # None => /\ s \in Used /\ s \in Channels /\ chan[s] \in Records /\ Shape(chan[s])
                  /\ Serving(s) /\ chan[s].fd = x.op.fd
  <2>1. RegistryOf(chan[x.op.of].kind) \in Registries /\ RegistryOf(chan[x.op.of].kind) = "servers"
    BY <1>3, RegistryTypes DEF Serving
  <2>2. s # None => /\ s \in Used /\ chan[s].stage # "refused" /\ chan[s].fd = x.op.fd
                    /\ RegistryOf(chan[s].kind) = "servers"
    BY <1>1, <1>2, <2>1 DEF EntryPart
  <2> HIDE DEF s
  <2>3. QED
    BY <1>1, <2>2 DEF Used, ShapePart, Serving
<1>5. cq' = cq \ {x} /\ NotifyAccept(s, x.op.fd, x.result) /\ UNCHANGED path
  BY DEF Process
\* An open server with an accept hears of it.
<1>6. ASSUME Proper(x.op.of), chan[x.op.of].stage = "open" PROVE s = x.op.of
  <2>1. x.op.of \in Used /\ x.op.of \in Channels /\ ~chan[x.op.of].gone
    <3>1. RegistryOf("unix") # "servers"
      BY DEF RegistryOf, Listening
    <3>2. QED
      BY <1>3, <3>1 DEF Serving, Used, Promises, GonePart
  <2>2. Sure(x.op.of) /\ Live(x.op.of)
    BY <1>3, <1>6, <2>1 DEF Sure, Live, Proper, Serving
  <2>3. Place(x.op.of)
    BY <1>1, <2>1, <2>2 DEF PlacePart
  <2>4. QED
    BY <1>3, <2>3 DEF Place
<1> HIDE DEF s
\* What is left to show, when channels and accepts are those of the code.
<1>7. ASSUME NEW t \in Channels, Grows, \A y \in Used : Waits(chan[y], chan'[y]),
             \A y \in Used : chan'[y].stage = "closed" => chan[y].stage = "closed",
             \A y \in Used' : y \in Used \/ chan'[y].kind \notin Listening,
             \/ ring' = ring
             \/ ring' = ring \union {Started("accept", x.op.fd, t)} /\ t = s,
             Proper(x.op.of) /\ chan'[x.op.of].stage = "open"
               => t = x.op.of /\ (chan'[t].deaf \/ ring' = ring \union {Started("accept", x.op.fd, t)})
      PROVE  Promises' /\ Grows
  <2>1. /\ \A o \in Ops' : o \in Ops \/ (o.event = "accept" /\ o.of = t /\ o.fd = x.op.fd)
        /\ \A y : Hears(y) /\ y # x.op.of => Hears(y)'
        /\ ring' = ring \union {Started("accept", x.op.fd, t)} => Hears(t)'
    BY <1>5, <1>7, TurnsAccepts
  <2>2. WaitPart'
    BY <1>1, <1>7, WaitHolds DEF Promises
  <2>3. FileRemoved'
    BY <1>5, <1>7, FileHolds DEF Promises
  <2>4. ASSUME NEW o \in Ops', o.event = "accept"
        PROVE  \/ \E p \in Ops : p.event = o.event /\ p.of = o.of /\ p.fd = o.fd
               \/ Serving(o.of)' /\ o.fd = chan'[o.of].fd
    <3>1. CASE o \in Ops
      BY <3>1
    <3>2. CASE o \notin Ops
      <4>1. ring' # ring /\ o.of = t /\ o.fd = x.op.fd
        BY <1>5, <2>1, <2>4, <3>2 DEF Ops
      <4>2. Serving(t) /\ chan[t].fd = x.op.fd
        BY <1>4, <1>7, <4>1, ChannelsAssumption
      <4>3. Serving(t)' /\ chan'[t].fd = chan[t].fd
        BY <1>7, <4>2, ServingStays DEF Serving, Grows, Goes
      <4>4. QED
        BY <4>1, <4>2, <4>3
    <3>3. QED
      BY <3>1, <3>2
  <2>5. HeardPart'
    BY <1>7, <2>4, HeardHolds DEF Promises
  <2>6. ASSUME NEW y \in Used, Hears(y), Proper(y), chan'[y].stage = "open"
        PROVE  chan'[y].deaf \/ Hears(y)'
    <3>1. CASE y # x.op.of
      BY <2>1, <2>6, <3>1
    <3>2. CASE y = x.op.of
      <4>1. t = y /\ (chan'[t].deaf \/ ring' = ring \union {Started("accept", x.op.fd, t)})
        BY <1>7, <2>6, <3>2
      <4>2. QED
        BY <2>1, <4>1
    <3>3. QED
      BY <3>1, <3>2
  <2>7. AcceptUnderWay'
    BY <1>1, <1>7, <2>6, AcceptHolds DEF Promises
  <2>8. QED
    BY <1>7, <2>2, <2>3, <2>5, <2>7, GoneHolds, ServerHolds DEF Promises
<1>8. CASE s = None \/ (s # None /\ chan[s].closing)
  <2>1. UNCHANGED <<chan, ring>>
    BY <1>5, <1>8 DEF NotifyAccept
  <2>2. ~(Proper(x.op.of) /\ chan[x.op.of].stage = "open")
    <3>1. x.op.of \in Channels /\ Shape(chan[x.op.of])
      BY <1>1, <1>3 DEF Serving, Used, ShapePart
    <3>2. QED
      BY <1>6, <1>8, <3>1, ChannelsAssumption DEF Shape
  <2>3. x.op.of \in Channels
    BY <1>3 DEF Serving, Used
  <2>4. Used' = Used /\ Grows /\ \A y \in Used : Waits(chan[y], chan'[y])
    BY <2>1 DEF Used, Grows, Goes, Waits
  <2>5. QED
    BY <1>7, <2>1, <2>2, <2>3, <2>4
<1>9. CASE ~(s = None \/ (s # None /\ chan[s].closing))
  <2>1. PICK full \in BOOLEAN :
          /\ IF x.result > 0
             THEN LET y == CHOOSE y \in Channels : chan[y] = Unused IN
                    chan' = [chan EXCEPT ![y] = NewChannel("connection", x.result, s),
                                         ![s].deaf = @ \/ full]
             ELSE chan' = [chan EXCEPT ![s].deaf = @ \/ full]
          /\ ring' = IF ~full THEN ring \union {Started("accept", x.op.fd, s)} ELSE ring
    BY <1>5, <1>9 DEF NotifyAccept, rearms
  <2> DEFINE b == chan[s].deaf \/ full
             n == [chan[s] EXCEPT !.deaf = b]
  <2>2. /\ s \in Used /\ s \in Channels /\ chan[s] \in Records /\ Shape(chan[s])
        /\ chan[s] # Unused /\ b \in BOOLEAN /\ ~chan[s].closing /\ Serving(s)
        /\ (full => b) /\ (chan[s].deaf => b)
    BY <1>4, <1>9, FieldTypes
  <2>3. n = [chan[s] EXCEPT !.deaf = chan[s].deaf \/ full]
    OBVIOUS
  <2> HIDE DEF b
  <2>4. n \in Records /\ n.deaf = b
    <3>1. n \in Records
      BY <2>2 DEF Records
    <3>2. n.deaf = b
      BY <2>2 DEF Records
    <3>3. QED
      BY <3>1, <3>2
  <2>5. n.kind = chan[s].kind /\ n.fd = chan[s].fd /\ n.misset = chan[s].misset
    BY <2>2 DEF Records
  <2>6. n.server = chan[s].server /\ n.late = chan[s].late /\ n.waits = chan[s].waits
    BY <2>2 DEF Records
  <2>7. n.closing = chan[s].closing /\ n.stage = chan[s].stage /\ n.gone = chan[s].gone
    BY <2>2 DEF Records
  <2> HIDE DEF n
  <2>8. Goes(chan[s], n) /\ Waits(chan[s], n)
    BY <2>2, <2>4, <2>5, <2>6, <2>7 DEF Goes, Waits, Serving
  <2>9. ASSUME Grows, chan'[s] = n, \A y \in Used : y # s => chan'[y] = chan[y],
               \A y \in Used' : y \in Used \/ chan'[y].kind \notin Listening
        PROVE  Promises' /\ Grows
    <3>1. \A y \in Used : Waits(chan[y], chan'[y])
      BY <2>8, <2>9 DEF Waits
    <3>2. \A y \in Used : chan'[y].stage = "closed" => chan[y].stage = "closed"
      BY <2>7, <2>9
    <3>3. \/ ring' = ring
          \/ ring' = ring \union {Started("accept", x.op.fd, s)}
      BY <2>1
    <3>4. chan'[s].deaf \/ ring' = ring \union {Started("accept", x.op.fd, s)}
      BY <2>1, <2>2, <2>4, <2>9
    <3>5. Proper(x.op.of) /\ chan'[x.op.of].stage = "open" => s = x.op.of
      BY <1>3, <1>6, <2>9 DEF Grows, Goes, Serving
    <3>6. QED
      BY <1>7, <2>2, <2>9, <3>1, <3>2, <3>3, <3>4, <3>5
  <2>10. CASE ~(x.result > 0)
    <3>1. chan' = [chan EXCEPT ![s] = n]
      BY <2>1, <2>3, <2>10
    <3>2. /\ Used' = Used /\ Grows /\ chan'[s] = n
          /\ \A y \in Channels : y # s => chan'[y] = chan[y]
      BY <2>2, <2>4, <2>8, <3>1, OneChannel
    <3>3. QED
      BY <2>9, <3>2 DEF Used
  <2>11. CASE x.result > 0
    <3> DEFINE m == NewChannel("connection", x.result, s)
    <3>1. \E y \in Channels : chan[y] = Unused
      <4>1. x.result \in Accepted
        BY <1>1, <2>11 DEF AcceptPart, Accepted
      <4>2. Cardinality(Accepted) # 0 /\ Cardinality(Accepted) \in Nat
        BY <4>1, AcceptedFinite, FS_EmptySet
      <4>3. Cardinality(Channels \ Used) # 0
        BY <1>1, <4>2, UnusedFinite DEF AcceptPart
      <4>4. Channels \ Used # {}
        BY <4>3, FS_EmptySet
      <4>5. QED
        BY <4>4 DEF Used
    <3>2. PICK c \in Channels :
            /\ chan[c] = Unused
            /\ chan' = [chan EXCEPT ![c] = m, ![s].deaf = @ \/ full]
      BY <2>1, <2>11, <3>1
    <3>3. c # s /\ c \notin Used
      BY <2>2, <3>2 DEF Used
    <3>4. /\ m \in Records /\ m.kind = "connection" /\ m.pending = Connects("connection")
          /\ m.stage = "open" /\ ~m.closing /\ ~m.gone
      <4>1. x.result \in Fds
        BY <1>1, <2>11 DEF AcceptPart
      <4>2. QED
        BY <2>2, <4>1, NewIs
    <3>5. m.server = s
      BY DEF NewChannel
    <3> HIDE DEF m
    <3>6. /\ chan' \in [Channels -> {Unused} \union Records] /\ chan'[c] = m /\ chan'[s] = n
          /\ \A y \in Channels : y # c /\ y # s => chan'[y] = chan[y]
      BY <1>1, <2>2, <2>3, <2>4, <3>2, <3>3, <3>4
    <3>7. Fresh(c)
      BY <2>2, <2>7, <3>4, <3>5, <3>6 DEF Fresh, Connects
    <3>8. \A y \in Used : y \in Channels /\ (y # s => chan'[y] = chan[y])
      BY <3>3, <3>6 DEF Used
    <3>9. \A y \in Used : chan'[y] # Unused /\ Goes(chan[y], chan'[y])
      <4>1. chan'[s] # Unused
        BY <2>4, <3>6, FieldTypes
      <4>2. QED
        BY <2>8, <3>6, <3>8, <4>1 DEF Goes, Used
    <3>10. Grows /\ Used' = Used \union {c}
      BY <2>2, <3>2, <3>4, <3>6, <3>7, <3>9, NewGrows
    <3>11. \A y \in Used' : y \in Used \/ chan'[y].kind \notin Listening
      BY <3>4, <3>6, <3>10 DEF Listening
    <3>12. QED
      BY <2>9, <3>6, <3>8, <3>10, <3>11
  <2>12. QED
    BY <2>10, <2>11
<1>10. QED
  BY <1>8, <1>9

LEMMA InitPromises == Init => Promises
<1> SUFFICES ASSUME Init PROVE Promises
  OBVIOUS
<1>1. Used = {} /\ Ops = {} /\ ~path
  BY DEF Used, Ops, Init
<1>2. QED
  BY <1>1 DEF Promises, HeardPart, GonePart, AcceptUnderWay, ServerPart, WaitPart, FileRemoved

LEMMA StepPromises == ASSUME Consistent, Promises, [Next]_vars, ~twice PROVE Promises' /\ Grows
<1>1. ASSUME NEW r \in Openings, Open(r) PROVE Promises' /\ Grows
  BY <1>1, OpenPromises
<1>2. ASSUME NEW c \in Channels, NEW e \in Events, Operate(c, e) PROVE Promises' /\ Grows
  BY <1>2, OperatePromises
<1>3. ASSUME NEW c \in Channels, NEW g \in BOOLEAN, Close(c, g) PROVE Promises' /\ Grows
  BY <1>3, ClosePromises
<1>4. ASSUME NEW c \in Channels, NEW g \in BOOLEAN, CloseServer(c, g) PROVE Promises' /\ Grows
  BY <1>4, CloseServerPromises
<1>5. ASSUME NEW c \in Channels, CloseDrained(c) PROVE Promises' /\ Grows
  BY <1>5, DrainedPromises
<1>6. ASSUME NEW c \in Channels, GracefulTimeout(c) PROVE Promises' /\ Grows
  BY <1>6, TimeoutPromises
<1>7. ASSUME NEW c \in Channels, Finish(c) PROVE Promises' /\ Grows
  BY <1>7, FinishPromises
<1>8. ASSUME NEW c \in Channels, ConnectFailed(c) PROVE Promises' /\ Grows
  BY <1>8, FailedPromises
<1>9. ASSUME NEW o \in ring, KernelComplete(o) PROVE Promises' /\ Grows
  BY <1>9, CompletePromises
<1>10. ASSUME NEW x \in cq, Process(x) PROVE Promises' /\ Grows
  BY <1>10, DataPromises, AcceptPromises
<1>11. CASE UNCHANGED vars
  BY <1>11, RestPromises
<1>12. QED
  BY <1>1, <1>2, <1>3, <1>4, <1>5, <1>6, <1>7, <1>8, <1>9, <1>10, <1>11 DEF Next

-----------------------------------------------------------------------------
(* The bounds. *)

LEMMA ServersFinite == IsFiniteSet(Servers) /\ Cardinality(Servers) \in Nat
                       /\ Cardinality(Servers) <= Cardinality(Channels) /\ Cardinality(Channels) \in Nat
<1>1. Servers \subseteq Channels
  BY DEF Servers
<1>2. QED
  BY <1>1, ChannelsAssumption, FS_Subset, FS_CardinalityType

LEMMA ServersGrow == ASSUME Grows PROVE Servers \subseteq Servers'
  BY ServingStays DEF Servers

LEMMA ServersMore ==
  ASSUME Grows, \A c \in Channels : c \in Channels
  PROVE  IsFiniteSet(Servers') /\ Cardinality(Servers') \in Nat
         /\ Cardinality(Servers) <= Cardinality(Servers')
<1>1. Servers' \subseteq Channels
  BY DEF Servers
<1>2. QED
  BY <1>1, ServersGrow, ChannelsAssumption, FS_Subset, FS_CardinalityType

\* The serial number of a new operation is bounded by those like it.
LEMMA StartedSerial ==
  ASSUME RingOk, NEW e \in Events, NEW f \in Fds, NEW c \in Channels,
         NEW K, IsFiniteSet(K), \A k \in Keys : k[1] = e /\ k[2] = c => k \in K
  PROVE  Started(e, f, c).serial \in 1 .. Cardinality(K) + 1
<1> DEFINE running == Running(e, c)
           g == [o \in running |-> Key(o)]
<1>1. \A o, p \in Ops : Key(o) = Key(p) => o = p
  BY DEF RingOk, RingPart, Ops
<1>2. \A o : Key(o)[1] = o.event /\ Key(o)[2] = o.of
  BY DEF Key
<1>3. g \in Injection(running, K)
  <2>1. \A o \in running : Key(o) \in K
    BY <1>2 DEF Keys, Running
  <2>2. \A o, p \in running : g[o] = g[p] => o = p
    BY <1>1 DEF Running
  <2>3. g \in [running -> K]
    BY <2>1
  <2>4. QED
    BY <2>2, <2>3 DEF Injection, IsInjective
<1>4. Cardinality(running) <= Cardinality(K)
  BY <1>3, FS_Injection
<1>5. IsFiniteSet(running) /\ Started(e, f, c).serial \in 1 .. Cardinality(running) + 1
  BY StartedIs
<1> HIDE DEF running
<1>6. Cardinality(running) \in Nat /\ Cardinality(K) \in Nat
  BY <1>5, FS_CardinalityType
<1>7. QED
  BY <1>4, <1>5, <1>6

\* Steps that ask for no accept and hear of none.
LEMMA BoundsKeep ==
  ASSUME BoundPart, Grows, Accepts' = Accepts, path' \in BOOLEAN, twice' \in BOOLEAN,
         \A x \in cq' : x \in cq \/ x.result \in -1 .. MaxFd,
         OneMisset => \A k \in Keys' : k \in Keys \/ k[3] \in 1 .. MaxSerial
  PROVE  BoundPart'
<1>1. Cardinality(Servers) <= Cardinality(Servers') /\ Cardinality(Servers') \in Nat
  BY ServersMore
<1>2. IsFiniteSet(Accepts') /\ Cardinality(Accepts') <= Cardinality(Servers')
  <2>1. Cardinality(Accepts) \in Nat /\ Cardinality(Servers) \in Nat
    BY ServersFinite, FS_CardinalityType DEF BoundPart
  <2>2. QED
    BY <1>1, <2>1 DEF BoundPart
<1>3. OneMisset' => OneMisset
  BY DEF OneMisset, Grows, Goes
<1>4. \A c \in Used' : chan'[c].stage = "refused" => chan'[c].pending \in Nat
  BY DEF Grows, Goes, Fresh, BoundPart
<1>5. \A x \in cq' : x.result \in -1 .. MaxFd
  BY DEF BoundPart
<1>6. OneMisset' => \A k \in Keys' : k[3] \in 1 .. MaxSerial
  BY <1>3 DEF BoundPart
<1>7. QED
  BY <1>2, <1>4, <1>5, <1>6 DEF BoundPart, MaxSerial

LEMMA SameBounds ==
  ASSUME BoundPart, Grows, SameOps, path' \in BOOLEAN, twice' \in BOOLEAN,
         \A x \in cq' : x \in cq \/ x.result \in -1 .. MaxFd
  PROVE  BoundPart'
  BY BoundsKeep, SameOpsAccepts DEF SameOps, SameAccepts

LEMMA OperateBounds ==
  ASSUME Consistent, BoundPart, Grows, NEW c \in Channels, NEW e \in Events, Operate(c, e)
  PROVE  BoundPart'
<1> DEFINE o == Started(e, chan[c].fd, c)
<1>1. /\ c \in Used /\ chan[c].stage = "open" /\ chan[c].pending < MaxPending
      /\ e \in {"message", "read", "write"} /\ chan[c] \in Records
      /\ ring' = ring \union {o} /\ UNCHANGED <<cq, path, twice>> /\ RingOk
  BY ConsistentIs DEF Operate
<1>2. chan[c].fd \in Fds
  BY <1>1, FieldTypes
<1>3. o \in OpRecords /\ o.event = e /\ Key(o) \notin Keys /\ Key(o)[1] = e
  BY <1>1, <1>2, StartedIs
<1>4. ASSUME OneMisset PROVE o.serial \in 1 .. MaxSerial
  <2>1. Counts(c)
    BY <1>1, <1>4, ConsistentIs DEF CountPart, Sure
  <2>2. IsFiniteSet(Pending(c)) /\ Cardinality(Pending(c)) < MaxPending
    BY <1>1, <2>1 DEF Counts
  <2>3. \A k \in Keys : k[1] = e /\ k[2] = c => k \in Pending(c)
    BY <1>1 DEF Pending
  <2>4. o.serial \in 1 .. Cardinality(Pending(c)) + 1
    BY <1>1, <1>2, <2>2, <2>3, StartedSerial
  <2>5. Cardinality(Pending(c)) \in Nat
    BY <2>2, FS_CardinalityType
  <2> HIDE DEF o
  <2>6. QED
    BY <2>2, <2>4, <2>5, ServersFinite, BoundsAssumption DEF MaxSerial
<1>5. Key(o)[3] = o.serial
  BY DEF Key
<1> HIDE DEF o
<1>6. Keys' = Keys \union {Key(o)}
  BY <1>1, <1>3, RingGrows
<1>7. Accepts' = Accepts
  BY <1>1, <1>3, <1>6 DEF Accepts
<1>8. QED
  BY <1>1, <1>4, <1>5, <1>6, <1>7, BoundsKeep DEF BoundPart

LEMMA CompleteBounds ==
  ASSUME Consistent, BoundPart, Grows, NEW o \in ring, KernelComplete(o)
  PROVE  BoundPart'
<1>1. UNCHANGED <<path, twice>> /\ ring' = ring \ {o} /\ RingOk
  BY ConsistentIs DEF KernelComplete
<1>2. \E n \in -1 .. MaxFd : cq' = cq \union {[op |-> o, result |-> n]}
  <2>1. -1 \in -1 .. MaxFd /\ 0 \in -1 .. MaxFd /\ 1 \in -1 .. MaxFd
    BY ChannelsAssumption, BoundsAssumption
  <2>2. CASE cq' = cq \union {[op |-> o, result |-> -1]}
    BY <2>1, <2>2
  <2>3. CASE cq' = cq \union {[op |-> o, result |-> IF o.event = "connect" THEN 0 ELSE 1]}
    BY <2>1, <2>3
  <2>4. CASE FreeFds # {} /\ cq' = cq \union {[op |-> o, result |-> Min(FreeFds)]}
    <3>1. Min(FreeFds) \in -1 .. MaxFd
      BY <2>4, FreeIs, ChannelsAssumption DEF Fds
    <3>2. QED
      BY <2>4, <3>1
  <2>5. QED
    BY <2>2, <2>3, <2>4 DEF KernelComplete
<1>3. SameOps
  BY <1>1, <1>2, RingCompletes
<1>4. \A x \in cq' : x \in cq \/ x.result \in -1 .. MaxFd
  BY <1>2
<1>5. QED
  BY <1>1, <1>3, <1>4, SameBounds DEF BoundPart

LEMMA DataBounds ==
  ASSUME Consistent, BoundPart, Grows, NEW x \in cq, Process(x), x.op.event # "accept"
  PROVE  BoundPart'
<1> DEFINE c == registry[RegistryOf(chan[x.op.of].kind)][x.op.fd]
<1>1. RingOk
  BY ConsistentIs
<1>2. /\ cq' = cq \ {x} /\ UNCHANGED <<path, twice>>
      /\ IF c = None THEN UNCHANGED ring
         ELSE IF x.op.event = "connect" THEN NotifyConnect(c, x.result)
         ELSE NotifyData(c, x.op.event, x.result)
  BY DEF Process
<1> HIDE DEF c
<1>3. SameRing(ring')
  <2>1. CASE ring' = ring
    BY <1>1, <2>1, SameAsIs
  <2>2. CASE ring' = transport_cancel_by_fd({chan[c].fd})
    BY <1>1, <2>2, SameCancelled
  <2>3. QED
    BY <1>2, <2>1, <2>2 DEF NotifyConnect, NotifyData
<1>4. Keys' = Keys \ {Key(x.op)} /\ Key(x.op)[1] # "accept"
  BY <1>1, <1>2, <1>3, RingLoses DEF Key
<1>5. Accepts' = Accepts
  BY <1>4 DEF Accepts
<1>6. QED
  BY <1>2, <1>4, <1>5, BoundsKeep DEF BoundPart

LEMMA AcceptBounds ==
  ASSUME Consistent, Promises, BoundPart, Grows, NEW x \in cq, Process(x), x.op.event = "accept"
  PROVE  BoundPart'
<1> DEFINE s == registry[RegistryOf(chan[x.op.of].kind)][x.op.fd]
           n == Started("accept", x.op.fd, s)
           k == Key(x.op)
<1>1. RingOk /\ x.op \in Ops /\ "accept" \in Events
  BY ConsistentIs DEF Ops, Events
<1>2. x.op.fd \in Fds
  BY <1>1, OpTypes
<1>3. /\ cq' = cq \ {x} /\ UNCHANGED <<path, twice>>
      /\ ring' = ring \/ (s # None /\ ring' = ring \union {n})
  <2>1. cq' = cq \ {x} /\ UNCHANGED <<path, twice>> /\ NotifyAccept(s, x.op.fd, x.result)
    BY DEF Process
  <2> HIDE DEF s
  <2>2. QED
    BY <2>1 DEF NotifyAccept
<1>4. s \in Channels \union {None}
  BY <1>2, ConsistentIs, RegistryTypes
<1> HIDE DEF s
<1>5. ASSUME s # None
      PROVE  n.event = "accept" /\ Key(n)[1] = "accept" /\ n.serial \in 1 .. Cardinality(Accepts) + 1
  <2>1. \A j \in Keys : j[1] = "accept" /\ j[2] = s => j \in Accepts
    BY DEF Accepts
  <2>2. QED
    BY <1>1, <1>2, <1>4, <1>5, <2>1, StartedIs, StartedSerial DEF BoundPart
<1>6. Key(n)[3] = n.serial
  BY DEF Key
<1> HIDE DEF n
<1>7. k \in Accepts
  BY <1>1 DEF Accepts, Keys, Key
<1>8. Keys' \subseteq (Keys \ {k}) \union (IF s # None THEN {Key(n)} ELSE {})
  <2>1. Keys' = {Key(o) : o \in ring'} \union {Key(y.op) : y \in cq \ {x}}
    BY <1>3 DEF Keys, Ops, Key
  <2>2. \A o \in ring : Key(o) \in Keys /\ Key(o) # k
    BY <1>1 DEF RingOk, RingPart, Keys, Ops
  <2>3. \A y \in cq \ {x} : Key(y.op) \in Keys /\ Key(y.op) # k
    BY <1>1 DEF RingOk, RingPart, Keys, Ops
  <2>4. QED
    BY <1>3, <2>1, <2>2, <2>3
<1> HIDE DEF k
<1> DEFINE A == (Accepts \ {k}) \union (IF s # None THEN {Key(n)} ELSE {})
<1>9. Accepts' \subseteq A
  BY <1>8 DEF Accepts
<1>10. IsFiniteSet(A) /\ Cardinality(A) <= Cardinality(Accepts)
  <2>1. IsFiniteSet(Accepts)
    BY DEF BoundPart
  <2>2. /\ IsFiniteSet(Accepts \ {k}) /\ Cardinality(Accepts \ {k}) = Cardinality(Accepts) - 1
        /\ Cardinality(Accepts) \in Nat
    BY <1>7, <2>1, FS_RemoveElement, FS_CardinalityType
  <2>3. CASE s = None
    BY <2>2, <2>3
  <2>4. CASE s # None
    <3>1. A = (Accepts \ {k}) \union {Key(n)}
      BY <2>4
    <3>2. /\ IsFiniteSet(A)
          /\ Cardinality(A) = Cardinality(Accepts \ {k}) \/ Cardinality(A) = Cardinality(Accepts \ {k}) + 1
      BY <2>2, <3>1, FS_AddElement
    <3>3. QED
      BY <2>2, <3>2
  <2>5. QED
    BY <2>3, <2>4
<1> HIDE DEF A
<1>11. IsFiniteSet(Accepts') /\ Cardinality(Accepts') <= Cardinality(Servers')
  <2>1. IsFiniteSet(Accepts') /\ Cardinality(Accepts') <= Cardinality(A)
    BY <1>9, <1>10, FS_Subset
  <2>2. Cardinality(Accepts) <= Cardinality(Servers) /\ Cardinality(Servers) <= Cardinality(Servers')
    BY ServersMore DEF BoundPart
  <2>3. /\ Cardinality(Accepts) \in Nat /\ Cardinality(Servers) \in Nat /\ Cardinality(Servers') \in Nat
        /\ Cardinality(A) \in Nat /\ Cardinality(Accepts') \in Nat
    BY <1>10, <2>1, ServersFinite, ServersMore, FS_CardinalityType DEF BoundPart
  <2>4. QED
    BY <1>10, <2>1, <2>2, <2>3
<1>12. s # None => Key(n)[3] \in 1 .. MaxSerial
  <2>1. /\ Cardinality(Accepts) \in Nat /\ Cardinality(Accepts) <= Cardinality(Servers)
        /\ Cardinality(Servers) \in Nat /\ Cardinality(Channels) \in Nat
        /\ Cardinality(Servers) <= Cardinality(Channels)
    BY ServersFinite, FS_CardinalityType DEF BoundPart
  <2>2. QED
    BY <1>5, <1>6, <2>1, BoundsAssumption DEF MaxSerial
<1>13. OneMisset' => OneMisset
  BY DEF OneMisset, Grows, Goes
<1>14. OneMisset' => \A j \in Keys' : j[3] \in 1 .. MaxSerial
  BY <1>8, <1>12, <1>13 DEF BoundPart
<1>15. \A c \in Used' : chan'[c].stage = "refused" => chan'[c].pending \in Nat
  BY DEF Grows, Goes, Fresh, BoundPart
<1>16. QED
  BY <1>3, <1>11, <1>14, <1>15 DEF BoundPart, MaxSerial

\* The first operation of a channel; a server's is an accept.
LEMMA RegisterBounds ==
  ASSUME Consistent, Promises, BoundPart, Grows, NEW c \in Channels, chan[c] = Unused,
         NEW k \in AllKinds, NEW f \in Fds, NEW b, Register(c, k, f, b),
         c \in Used', chan'[c].stage = "open", chan'[c].kind = k,
         UNCHANGED <<cq, twice>>, path' \in BOOLEAN
  PROVE  BoundPart'
<1>1. RingOk /\ OpsPart /\ c \notin Used
  BY ConsistentIs DEF Used
<1>2. k \in Listening => k \notin Connecting /\ RegistryOf(k) = "servers"
  BY DEF Listening, Connecting, RegistryOf
\* It has no operation yet.
<1>3. \A j \in Keys : j[2] # c
  <2>1. \A o \in Ops : o.of # c
    BY <1>1 DEF OpsPart, Promises, HeardPart, Serving
  <2>2. QED
    BY <2>1 DEF Keys, Key
<1>4. ASSUME NEW e \in Events
      PROVE  /\ Started(e, f, c).serial = 1 /\ Key(Started(e, f, c))[3] \in 1 .. MaxSerial
             /\ Started(e, f, c) \in OpRecords
             /\ Key(Started(e, f, c)) \notin Keys /\ Key(Started(e, f, c))[1] = e
  <2>1. IsFiniteSet({}) /\ Cardinality({}) = 0
    BY FS_EmptySet
  <2>2. Started(e, f, c).serial \in 1 .. Cardinality({}) + 1
    BY <1>1, <1>3, <2>1, StartedSerial
  <2>3. Started(e, f, c).serial = 1
    BY <2>1, <2>2
  <2>4. Key(Started(e, f, c))[3] = Started(e, f, c).serial
    BY DEF Key
  <2>5. 1 \in 1 .. MaxSerial
    BY ServersFinite, BoundsAssumption DEF MaxSerial
  <2>6. /\ Started(e, f, c) \in OpRecords
        /\ Key(Started(e, f, c)) \notin Keys /\ Key(Started(e, f, c))[1] = e
    BY <1>1, StartedIs
  <2>7. QED
    BY <2>3, <2>4, <2>5, <2>6
<1>5. CASE k \in Connecting
  <2> DEFINE o == Started("connect", f, c)
  <2>1. ring' = ring \union {o} /\ "connect" \in Events
    BY <1>2, <1>5 DEF Register, Events
  <2>2. /\ o \in OpRecords /\ Key(o)[3] \in 1 .. MaxSerial /\ Key(o) \notin Keys
        /\ Key(o)[1] = "connect"
    BY <1>4, <2>1
  <2> HIDE DEF o
  <2>3. Keys' = Keys \union {Key(o)}
    BY <1>1, <2>1, <2>2, RingGrows
  <2>4. Accepts' = Accepts
    BY <2>2, <2>3 DEF Accepts
  <2>5. QED
    BY <2>2, <2>3, <2>4, BoundsKeep DEF BoundPart
<1>6. CASE k \notin Connecting /\ k \notin Listening
  <2>1. ring' = ring
    BY <1>6 DEF Register
  <2>2. SameOps
    BY <1>1, <2>1, RingRests
  <2>3. QED
    BY <2>2, SameBounds DEF BoundPart
<1>7. CASE k \in Listening
  <2> DEFINE o == Started("accept", f, c)
  <2>1. ring' = ring \union {o} /\ "accept" \in Events
    BY <1>2, <1>7 DEF Register, Events
  <2>2. /\ o \in OpRecords /\ Key(o)[3] \in 1 .. MaxSerial /\ Key(o) \notin Keys
        /\ Key(o)[1] = "accept"
    BY <1>4, <2>1
  <2> HIDE DEF o
  <2>3. Keys' = Keys \union {Key(o)}
    BY <1>1, <2>1, <2>2, RingGrows
  <2>4. Accepts' = Accepts \union {Key(o)} /\ Key(o) \notin Accepts
    BY <2>2, <2>3 DEF Accepts
  <2>5. /\ IsFiniteSet(Accepts') /\ Cardinality(Accepts') = Cardinality(Accepts) + 1
        /\ Cardinality(Accepts) \in Nat
    BY <2>4, FS_AddElement, FS_CardinalityType DEF BoundPart
  <2>6. Cardinality(Servers) + 1 <= Cardinality(Servers')
    <3>1. c \notin Servers /\ c \in Servers'
      BY <1>1, <1>2, <1>7 DEF Servers, Serving
    <3>2. Servers \union {c} \subseteq Servers'
      BY <3>1, ServersGrow
    <3>3. /\ IsFiniteSet(Servers \union {c})
          /\ Cardinality(Servers \union {c}) = Cardinality(Servers) + 1
      BY <3>1, ServersFinite, FS_AddElement
    <3>4. Cardinality(Servers \union {c}) <= Cardinality(Servers')
      BY <3>2, ServersMore, FS_Subset
    <3>5. QED
      BY <3>3, <3>4
  <2>7. Cardinality(Accepts') <= Cardinality(Servers')
    BY <2>5, <2>6, ServersFinite, ServersMore DEF BoundPart
  <2>8. OneMisset' => OneMisset
    BY DEF OneMisset, Grows, Goes
  <2>9. OneMisset' => \A j \in Keys' : j[3] \in 1 .. MaxSerial
    BY <2>2, <2>3, <2>8 DEF BoundPart
  <2>10. \A y \in Used' : chan'[y].stage = "refused" => chan'[y].pending \in Nat
    BY DEF Grows, Goes, Fresh, BoundPart
  <2>11. QED
    BY <2>5, <2>7, <2>9, <2>10 DEF BoundPart, MaxSerial
<1>8. QED
  BY <1>5, <1>6, <1>7

LEMMA InitializeBounds ==
  ASSUME Consistent, Promises, BoundPart, ~twice, NEW r \in Openings, NEW k \in AllKinds,
         NEW result, Initialize(r, k, result)
  PROVE  BoundPart'
<1> DEFINE c == r.channel
           f == Min(FreeFds)
<1>1. c \in Channels /\ chan[c] = Unused /\ UNCHANGED <<cq, twice>> /\ 0 \in Fds
  BY OpeningsAssumption, ChannelsAssumption DEF Initialize, Fds
<1>2. FreeFds # {} => f \in Fds
  BY FreeIs
<1> HIDE DEF f
<1>3. ASSUME Refuse(c, k) PROVE BoundPart'
  <2>1. Accepts' = Accepts /\ Ops' = Ops /\ Grows
    BY <1>1, <1>3, RefusePromises
  <2>2. Keys' = Keys
    BY <2>1 DEF Keys, Key
  <2>3. path' \in BOOLEAN
    BY <1>3 DEF Refuse
  <2>4. QED
    BY <1>1, <2>1, <2>2, <2>3, BoundsKeep DEF BoundPart
<1>4. ASSUME NEW g \in Fds, NEW b \in BOOLEAN, b => g = 0, Register(c, k, g, b),
             path' = (path \/ (k = "unixserver" /\ ~b))
      PROVE  BoundPart'
  <2>1. Grows /\ c \in Used' /\ chan'[c].stage = "open" /\ chan'[c].kind = k
    <3>1. path' => path \/ (k = "unixserver" /\ ~b)
      BY <1>4
    <3>2. Register(c, k, g, b) /\ (b => g = 0) /\ cq' = cq
      BY <1>1, <1>4
    <3>3. /\ Grows /\ Used' = Used \union {c} /\ chan'[c].stage = "open" /\ chan'[c].kind = k
      BY <1>1, <3>1, <3>2, RegisterPromises
    <3>4. QED
      BY <3>3
  <2>2. path' \in BOOLEAN
    BY <1>4
  <2>3. QED
    BY <1>1, <1>4, <2>1, <2>2, RegisterBounds
<1>5. CASE FreeFds # {} /\ Register(c, k, f, FALSE) /\ path' = (path \/ k = "unixserver")
  BY <1>2, <1>4, <1>5
<1>6. CASE Register(c, k, 0, TRUE) /\ UNCHANGED path
  <2>1. path \in BOOLEAN
    BY DEF BoundPart
  <2>2. QED
    BY <1>1, <1>4, <1>6, <2>1
<1>7. QED
  BY <1>3, <1>5, <1>6 DEF Initialize, f

LEMMA OpenBounds ==
  ASSUME Consistent, Promises, BoundPart, ~twice, NEW r \in Openings, Open(r)
  PROVE  BoundPart'
<1>1. \E k \in AllKinds : \E result : Initialize(r, k, result)
  BY DEF Open, AllKinds, transport_server_initialize_tcp, transport_server_initialize_udp,
         transport_server_initialize_unix_stream, transport_client_initialize_tcp,
         transport_client_initialize_udp, transport_client_initialize_unix_stream,
         transport_file_open
<1>2. QED
  BY <1>1, InitializeBounds

LEMMA StepBounds ==
  ASSUME Consistent, Promises, BoundPart, [Next]_vars, ~twice
  PROVE  BoundPart'
<1>1. Grows /\ RingOk
  BY StepPromises, ConsistentIs
<1>2. ASSUME NEW r \in Openings, Open(r) PROVE BoundPart'
  BY <1>2, OpenBounds
<1>3. ASSUME NEW c \in Channels, NEW e \in Events, Operate(c, e) PROVE BoundPart'
  BY <1>1, <1>3, OperateBounds
<1>4. ASSUME SameOps, path' \in BOOLEAN, twice' \in BOOLEAN, cq' = cq PROVE BoundPart'
  BY <1>1, <1>4, SameBounds
<1>5. ASSUME NEW cs, NEW g, ring' = Cancelled(cs, g), UNCHANGED <<cq, path, twice>> PROVE BoundPart'
  BY <1>1, <1>4, <1>5, CancelledRing DEF BoundPart
<1>6. ASSUME NEW c \in Channels, NEW g \in BOOLEAN, Close(c, g) PROVE BoundPart'
  BY <1>5, <1>6 DEF Close
<1>7. ASSUME NEW c \in Channels, NEW g \in BOOLEAN, CloseServer(c, g) PROVE BoundPart'
  <2>1. UNCHANGED <<cq, path, twice>> /\ \E cs : ring' = Cancelled(cs, g)
    BY <1>7, Zenon DEF CloseServer
  <2>2. QED
    BY <1>5, <2>1
<1>8. ASSUME NEW c \in Channels, CloseDrained(c) PROVE BoundPart'
  BY <1>5, <1>8 DEF CloseDrained
<1>9. ASSUME NEW c \in Channels, GracefulTimeout(c) PROVE BoundPart'
  <2>1. ring' = transport_cancel_by_fd({chan[c].fd}) /\ UNCHANGED <<cq, path, twice>>
    BY <1>9 DEF GracefulTimeout
  <2>2. SameOps
    BY <1>1, <2>1, SameCancelled, RingStays
  <2>3. QED
    BY <1>4, <2>1, <2>2 DEF BoundPart
<1>10. ASSUME NEW c \in Channels, Finish(c) PROVE BoundPart'
  <2>1. UNCHANGED <<ring, cq>> /\ path' \in BOOLEAN /\ twice' \in BOOLEAN
    BY <1>10 DEF Finish, destroy
  <2>2. QED
    BY <1>1, <1>4, <2>1, RingRests
<1>11. ASSUME NEW c \in Channels, ConnectFailed(c) PROVE BoundPart'
  <2>1. UNCHANGED <<ring, cq>> /\ path' \in BOOLEAN /\ twice' \in BOOLEAN
    BY <1>11 DEF ConnectFailed, destroy
  <2>2. QED
    BY <1>1, <1>4, <2>1, RingRests
<1>12. ASSUME NEW o \in ring, KernelComplete(o) PROVE BoundPart'
  BY <1>1, <1>12, CompleteBounds
<1>13. ASSUME NEW x \in cq, Process(x) PROVE BoundPart'
  BY <1>1, <1>13, DataBounds, AcceptBounds
<1>14. CASE UNCHANGED vars
  <2>1. UNCHANGED <<ring, cq, path, twice>>
    BY <1>14 DEF vars
  <2>2. QED
    BY <1>1, <1>4, <2>1, RingRests DEF BoundPart
<1>15. QED
  BY <1>2, <1>3, <1>6, <1>7, <1>8, <1>9, <1>10, <1>11, <1>12, <1>13, <1>14 DEF Next

LEMMA InitBounds == Init => BoundPart
<1> SUFFICES ASSUME Init PROVE BoundPart
  OBVIOUS
<1>1. Used = {} /\ Ops = {} /\ cq = {} /\ path = FALSE /\ twice = FALSE
  BY DEF Used, Ops, Init
<1>2. Keys = {} /\ Accepts = {}
  BY <1>1 DEF Keys, Accepts
<1>3. IsFiniteSet(Accepts) /\ Cardinality(Accepts) = 0
  BY <1>2, FS_EmptySet
<1>4. Cardinality(Accepts) <= Cardinality(Servers)
  BY <1>3, ServersFinite
<1>5. QED
  BY <1>1, <1>2, <1>3, <1>4 DEF BoundPart

-----------------------------------------------------------------------------
(* What servers promise: the theorems. *)

\* Unless a descriptor was closed twice, counters, registries, descriptors and
\* operations agree, servers keep what they promise, and the operations under way
\* stay within bounds.
THEOREM ServersAgree == Spec => []ServeInv
<1>1. Init => ServeInv
  BY InitHolds, InitPromises, InitBounds DEF ServeInv
<1>2. ServeInv /\ [Next]_vars => ServeInv'
  <2> SUFFICES ASSUME ServeInv, [Next]_vars PROVE ServeInv'
    OBVIOUS
  <2>1. CASE twice \/ twice'
    BY <2>1, TwiceStays DEF ServeInv
  <2>2. CASE ~twice /\ ~twice'
    <3>1. Consistent /\ Promises /\ BoundPart
      BY <2>2 DEF ServeInv
    <3>2. QED
      BY <2>2, <3>1, StepKeeps, StepPromises, StepBounds DEF ServeInv
  <2>3. QED
    BY <2>1, <2>2
<1>3. QED
  BY <1>1, <1>2, PTL DEF Spec

LEMMA TypesHold == ASSUME Consistent, BoundPart, OneMisset PROVE TypeOK
<1>1. /\ RingOk /\ CountPart /\ table \in [Fds -> Channels \union Nobody]
      /\ registry \in [Registries -> [Fds -> Channels \union {None}]]
      /\ \A c \in Used : chan[c] \in Records
  BY ConsistentIs
<1>2. ASSUME NEW c \in Used PROVE chan[c].pending \in Nat
  <2>1. CASE chan[c].stage = "refused"
    BY <2>1 DEF BoundPart
  <2>2. CASE chan[c].stage # "refused"
    <3>1. c \in Channels /\ Sure(c)
      BY <2>2 DEF Sure, Used
    <3>2. Counts(c)
      BY <1>1, <3>1 DEF CountPart
    <3>3. QED
      BY <3>2, FS_CardinalityType DEF Counts
  <2>3. QED
    BY <2>1, <2>2
<1>3. \A c \in Used :
        chan[c] \in [kind : AllKinds \union {"connection"}, fd : Fds, pending : Nat,
                     stage : Stages, server : Channels \union {None}, active : BOOLEAN,
                     closing : BOOLEAN, closer : BOOLEAN, graceful : BOOLEAN, up : BOOLEAN,
                     failing : BOOLEAN, gone : BOOLEAN, misset : BOOLEAN, deaf : BOOLEAN,
                     waits : SUBSET Channels, late : SUBSET Channels]
  BY <1>1, <1>2 DEF Records
<1>4. ASSUME NEW o \in Ops PROVE o \in Operations
  <2>1. o \in OpRecords /\ o.serial \in 1 .. MaxSerial
    <3>1. Key(o) \in Keys /\ Key(o)[3] = o.serial
      BY DEF Keys, Key
    <3>2. QED
      BY <1>1, <3>1, OpTypes DEF BoundPart
  <2>2. QED
    BY <2>1 DEF OpRecords, Operations, MaxSerial
<1>5. ring \subseteq Operations
  BY <1>4 DEF Ops
<1>6. cq \subseteq [op : Operations, result : -1 .. MaxFd]
  BY <1>1, <1>4 DEF Ops, RingOk, BoundPart
<1>7. QED
  BY <1>1, <1>3, <1>5, <1>6 DEF TypeOK, BoundPart

\* A stream server that is not closing has an accept under way whatever the last one
\* ended with, a closed server has no connection left but those that were closing
\* already, and the file of a unix socket does not outlive the last unix server,
\* however many servers, connections and descriptors there are.  Two sockets whose
\* failure was not seen share descriptor 0, and one counts what the other started:
\* the types, which bound what it counts, are not claimed then, and nothing is after
\* a descriptor closed twice.
THEOREM ServersServe ==
  Spec => [](~twice => AcceptUnderWay /\ ConnectionsCloseFirst /\ FileRemoved
                       /\ (OneMisset => ServersInv))
<1> DEFINE Served == AcceptUnderWay /\ ConnectionsCloseFirst /\ FileRemoved
                     /\ (OneMisset => ServersInv)
<1>1. ServeInv => (~twice => Served)
  <2> SUFFICES ASSUME ServeInv, ~twice PROVE Served
    OBVIOUS
  <2>1. Consistent /\ Promises /\ BoundPart
    BY DEF ServeInv
  <2>2. OneMisset => TypeOK
    BY <2>1, TypesHold
  <2>3. ConnectionsCloseFirst
    <3>1. ASSUME NEW s \in Used, chan[s].stage = "closed", NEW x \in Used, chan[x].server = s,
                 chan[x].stage # "closed"
          PROVE  x \in chan[s].late
      <4>1. s # None /\ Shape(chan[s])
        BY <2>1, ConsistentIs, ChannelsAssumption DEF Used, ShapePart
      <4>2. chan[s].closing
        BY <3>1, <4>1 DEF Shape
      <4>3. QED
        BY <2>1, <3>1, <4>1, <4>2 DEF Promises, WaitPart
    <3>2. QED
      BY <3>1 DEF ConnectionsCloseFirst
  <2>4. QED
    BY <2>1, <2>2, <2>3 DEF ServersInv, Promises
<1>2. QED
  BY <1>1, ServersAgree, PTL
=============================================================================
