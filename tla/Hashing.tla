------------------------------- MODULE Hashing -------------------------------
(***************************************************************************)
(* The hash functions of core/native/hashing: hashes in one call (wyhash,  *)
(* wyhash32, polymur, murmur32, XXH32, XXH64 and the XXH3 family), hashes  *)
(* of a stream fed piece by piece, and the builds of XXH3.                 *)
(*                                                                         *)
(* Data as in XXH3: a byte of the input is its position and a hash is the  *)
(* words mixed into it, in order.  The caller either hashes n bytes in one *)
(* call, or resets a stream and updates it; the pieces it passes follow    *)
(* each other, so the total says which bytes a digest must stand for.      *)
(***************************************************************************)
EXTENDS Integers, Sequences, SequencesExt, FiniteSets, XXH3, XXH3Vectors

CONSTANTS
    Lengths,     \* the lengths hashed in one call
    Pieces,      \* the lengths of the pieces of a stream, per algorithm
    MaxUpdates,  \* updates of one stream
    MaxResets,   \* times a stream's state is reused
    SecretSizes, \* sizes of the secrets given by the caller
    Alignments   \* addresses of a piece, modulo 4

HashingAssumption ==
    /\ Lengths \subseteq Nat
    /\ \A a \in DOMAIN Pieces : Pieces[a] \subseteq Nat
    /\ MaxUpdates \in Nat /\ MaxResets \in Nat
    /\ \A size \in SecretSizes : size >= XXH3_SECRET_SIZE_MIN
    /\ Alignments \subseteq 0..3

VARIABLES
    call,    \* the hash in one call, or the build, looked at
    algo,    \* the algorithm of the stream
    stream,  \* its state
    mode,    \* how the XXH3 stream was reset
    updates, \* updates since the reset
    resets

vars == <<call, algo, stream, mode, updates, resets>>

Input(from, n) == [i \in 1..n |-> from + i - 1]

-----------------------------------------------------------------------------
(* XXH32 and XXH64: four lanes of blocks of B bytes, then the tail.        *)

\* Blocks of b from offset o: the words of the four lanes, in order.
Rounds(b, o, count, B) == [i \in 1..(4 * count) |-> Read(b, o + (B \div 4) * (i - 1), B \div 4)]

XXH32_finalize(b, o, len) ==
    LET n == len % 16
    IN  [i \in 1..(n \div 4) |-> Read(b, o + 4 * (i - 1), 4)]
          \o [i \in 1..(n % 4) |-> Read(b, o + 4 * (n \div 4) + (i - 1), 1)]

XXH64_finalize(b, o, len) ==
    LET n == len % 32
        m == n % 8
        at == o + 8 * (n \div 8)
    IN  [i \in 1..(n \div 8) |-> Read(b, o + 8 * (i - 1), 8)]
          \o (IF m >= 4 THEN << Read(b, at, 4) >> ELSE <<>>)
          \o [i \in 1..(m % 4) |-> Read(b, at + (m - (m % 4)) + (i - 1), 1)]

XXH32_endian_align(b) ==
    LET blocks == Len(b) \div 16
    IN  [lanes |-> Rounds(b, 0, blocks, 16), large |-> Len(b) >= 16, length |-> Len(b),
         tail |-> XXH32_finalize(b, 16 * blocks, Len(b) % 16)]

XXH64_endian_align(b) ==
    LET blocks == Len(b) \div 32
    IN  [lanes |-> Rounds(b, 0, blocks, 32), large |-> Len(b) >= 32, length |-> Len(b),
         tail |-> XXH64_finalize(b, 32 * blocks, Len(b))]

XXH32(b) == XXH32_endian_align(b)
XXH64(b) == XXH64_endian_align(b)

LaneReset(B) == [v |-> <<>>, mem |-> [i \in 1..B |-> -1], memsize |-> 0, total |-> 0, large |-> FALSE]
XXH32_reset == LaneReset(16)
XXH64_reset == LaneReset(32)

\* Less than a block in all: kept.  Otherwise the kept bytes are completed to
\* a block, whole blocks are taken from the input, and the rest is kept.
LaneUpdate(s, b, B) ==
    LET len == Len(b)
        first == IF s.memsize = 0 THEN 0 ELSE B - s.memsize
        full == Copy(s.mem, s.memsize, b, 0, first)
        v1 == IF s.memsize = 0 THEN s.v ELSE s.v \o Rounds(full, 0, 1, B)
        mem1 == IF s.memsize = 0 THEN s.mem ELSE full
        blocks == (len - first) \div B
        at == first + B * blocks
        seen == [s EXCEPT !.total = @ + len, !.large = @ \/ len >= B \/ s.total + len >= B]
    IN  IF s.memsize + len < B
        THEN [seen EXCEPT !.mem = Copy(@, s.memsize, b, 0, len), !.memsize = @ + len]
        ELSE [seen EXCEPT !.v = v1 \o Rounds(b, first, blocks, B),
                          !.mem = Copy(mem1, 0, b, at, len - at), !.memsize = len - at]

\* Faulty: memsize is not reset when its block is complete.
Faulty_XXH32_update(s, b) ==
    LET t == LaneUpdate(s, b, 16)
    IN  IF t.memsize = 0 THEN [t EXCEPT !.memsize = s.memsize] ELSE t

XXH32_update(s, b) == LaneUpdate(s, b, 16)
XXH64_update(s, b) == LaneUpdate(s, b, 32)

XXH32_digest(s) ==
    [lanes |-> s.v, large |-> s.large, length |-> s.total, tail |-> XXH32_finalize(s.mem, 0, s.memsize)]

\* The tail is as long as the total says, not as memsize does.
XXH64_digest(s) ==
    [lanes |-> s.v, large |-> s.total >= 32, length |-> s.total, tail |-> XXH64_finalize(s.mem, 0, s.total)]

-----------------------------------------------------------------------------
(* murmur32: blocks of 4 bytes and a carry of up to 3.  c is a word, low   *)
(* byte first; its top n bytes are the carry.                              *)

MurmurStart == [h |-> <<>>, c |-> <<-1, -1, -1, -1>>, n |-> 0]

DOBYTE(s, byte) ==
    LET c == Tail(s.c) \o <<byte>>
    IN  IF s.n = 3 THEN [h |-> Append(s.h, c), c |-> <<-1, -1, -1, -1>>, n |-> 0]
        ELSE [s EXCEPT !.c = c, !.n = @ + 1]
DOBYTES(s, bytes) == FoldLeft(DOBYTE, s, bytes)

\* A word w after a carry of n bytes makes one block and leaves a carry of n.
DOWORD(s, w) ==
    [s EXCEPT !.h = Append(@, SubSeq(s.c, 5 - s.n, 4) \o SubSeq(w, 1, 4 - s.n)),
              !.c = IF s.n = 0 THEN @ ELSE w]

\* Bytes up to an aligned address (or, where a word may be read anywhere, up
\* to an empty carry), whole words, the rest; the carry's count replaces the
\* low byte of c.
murmur32_process(s, b, align, unaligned_safe) ==
    LET i == IF unaligned_safe THEN (4 - s.n) % 4 ELSE (4 - align) % 4
        take == IF i <= Len(b) THEN i ELSE 0
        s1 == DOBYTES(s, SubSeq(b, 1, take))
        words == (Len(b) - take) \div 4
        Word(k) == SubSeq(b, take + 4 * (k - 1) + 1, take + 4 * k)
        s2 == FoldLeft(DOWORD, s1, [k \in 1..words |-> Word(k)])
        s3 == DOBYTES(s2, SubSeq(b, take + 4 * words + 1, Len(b)))
    IN  [s3 EXCEPT !.c[1] = -1]

murmur32_result(s, total) == [h |-> s.h, tail |-> SubSeq(s.c, 5 - s.n, 4), length |-> total]

murmur32(b) == murmur32_result(murmur32_process(MurmurStart, b, 0, FALSE), Len(b))

-----------------------------------------------------------------------------
(* wyhash, wyhash32 and polymur, in one call only.                         *)

_wyr3(b, o, k) == << Read(b, o, 1), Read(b, o + k \div 2, 1), Read(b, o + k - 1, 1) >>

wyhash(b) ==
    LET len == Len(b)
        q == 4 * (len \div 8)
        far == IF len >= 48 THEN len \div 48 ELSE 0
        rest == len - 48 * far
        near == IF rest > 16 THEN (rest - 1) \div 16 ELSE 0
        p == 48 * far + 16 * near
        i == rest - 16 * near
        W(o) == Read(b, o, 8)
    IN  CASE len = 0 -> <<>>
          [] len \in 1..3 -> _wyr3(b, 0, len)
          [] len \in 4..16 -> << Read(b, 0, 4), Read(b, q, 4), Read(b, len - 4, 4), Read(b, len - 4 - q, 4) >>
          [] OTHER -> [j \in 1..((6 * far) + (2 * near)) |-> W(8 * (j - 1))] \o << W(p + i - 16), W(p + i - 8) >>

wyhash32(b) ==
    LET len == Len(b)
        rounds == IF len > 8 THEN (len - 1) \div 8 ELSE 0
        p == 8 * rounds
        i == len - p
        last == CASE i >= 4 -> << Read(b, p, 4), Read(b, p + i - 4, 4) >>
                  [] i \in 1..3 -> _wyr3(b, p, i)
                  [] OTHER -> <<>>
    IN  [j \in 1..(2 * rounds) |-> Read(b, 4 * (j - 1), 4)] \o last

\* 8 bytes are read, 7 are kept: the low ones, or the high ones.
Low7(word) == IF word[1] < 0 THEN word ELSE <<word[1], 7>>
High7(word) == IF word[1] < 0 THEN word ELSE <<word[1] + 1, 7>>

polymur_load_le_u64_0_8(b, o, len) ==
    CASE len = 0 -> <<>>
      [] len \in 1..3 -> << Read(b, o, 1), Read(b, o + len \div 2, 1), Read(b, o + len - 1, 1) >>
      [] OTHER -> << Read(b, o, 4), Read(b, o + len - 4, 4) >>

\* Faulty: the rounds go on while 49 bytes are left.
Faulty_poly611(b) ==
    LET rounds == Len(b) \div 49
    IN  [j \in 1..(7 * rounds) |-> Low7(Read(b, 7 * (j - 1), 8))]
          \o polymur_load_le_u64_0_8(b, 49 * rounds, Len(b) - 49 * rounds)

\* Rounds of 49 bytes while 50 are left, then what is left by its length.
polymur_hash_poly611(b) ==
    LET rounds == IF Len(b) >= 50 THEN (Len(b) - 1) \div 49 ELSE 0
        p == 49 * rounds
        len == Len(b) - p
        M(o) == Low7(Read(b, p + o, 8))
        m012 == << M(0), M((len - 7) \div 2), High7(Read(b, p + len - 8, 8)) >>
        tail == CASE len <= 7 -> polymur_load_le_u64_0_8(b, p, len)
                  [] len \in 8..21 -> m012
                  [] OTHER -> m012 \o << M(7), M(14), M(len - 21), M(len - 14) >>
    IN  [j \in 1..(7 * rounds) |-> Low7(Read(b, 7 * (j - 1), 8))] \o tail

polymur_hash(b) == polymur_hash_poly611(b)

-----------------------------------------------------------------------------
(* What a hasher's mode selects; a mode without a function of the width is *)
(* declared unreachable, and the default is polymur at 64 bits.            *)

hasher_hash_32(hasher) ==
    CASE hasher = "wyhash" -> "wyhash32" [] hasher = "murmur" -> "murmur32"
      [] hasher = "xxhash" -> "XXH32" [] OTHER -> "unreachable"
hasher_hash_64(hasher) ==
    CASE hasher = "wyhash" -> "wyhash" [] hasher = "polymur" -> "polymur"
      [] hasher = "xxhash" -> "XXH64" [] OTHER -> "unreachable"

\* The words a hash in one call reads, and its keys.
Whole(c) ==
    LET b == Input(0, c.length)
        T(terms) == [i \in DOMAIN terms |-> terms[i][1]]
        secret == userSecret(c.size)
    IN  CASE c.name = "wyhash" -> wyhash(b)
          [] c.name = "wyhash32" -> wyhash32(b)
          [] c.name = "polymur" -> polymur_hash(b)
          [] c.name = "murmur32" ->
                LET bytes == FlattenSeq(Append(murmur32(b).h, murmur32(b).tail))
                IN  [i \in DOMAIN bytes |-> <<bytes[i], 1>>]
          [] c.name = "XXH32" -> XXH32(b).lanes \o XXH32(b).tail
          [] c.name = "XXH64" -> XXH64(b).lanes \o XXH64(b).tail
          [] c.name = "XXH3_64" -> T(XXH3_64bits_withSecret(b, secret).terms)
          [] c.name = "XXH3_128" -> T(XXH3_128bits_withSecret(b, secret).terms)

Keys(c) ==
    LET b == Input(0, c.length)
        K(terms) == { terms[i][2] : i \in DOMAIN terms }
        secret == userSecret(c.size)
    IN  CASE c.name = "XXH3_64" -> K(XXH3_64bits_withSecret(b, secret).terms)
          [] c.name = "XXH3_128" -> K(XXH3_128bits_withSecret(b, secret).terms)
          [] OTHER -> {}

-----------------------------------------------------------------------------
NoCall == [name |-> "none", length |-> 0, size |-> 0, build |-> [isa |-> "scalar", lanes |-> 8]]

Init == /\ call = NoCall
        /\ algo = "none" /\ stream = XXH3_state /\ mode = [kind |-> "default", seed |-> 0, size |-> 0]
        /\ updates = 0 /\ resets = 0

Idle == call.name = "none" /\ algo = "none"

\* hash_bytes_*, hasher_hash_32 and hasher_hash_64, of n bytes.
HashBytes(hasher, width, n) ==
    LET name == IF width = 32 THEN hasher_hash_32(hasher) ELSE hasher_hash_64(hasher)
    IN  /\ Idle
        /\ name # "unreachable"
        /\ call' = [NoCall EXCEPT !.name = name, !.length = n]
        /\ UNCHANGED <<algo, stream, mode, updates, resets>>

HashXXH3(name, n, size) ==
    /\ Idle
    /\ call' = [NoCall EXCEPT !.name = name, !.length = n, !.size = size]
    /\ UNCHANGED <<algo, stream, mode, updates, resets>>

Build(v) ==
    /\ Idle
    /\ call' = [NoCall EXCEPT !.name = "build", !.build = v]
    /\ UNCHANGED <<algo, stream, mode, updates, resets>>

StartStream(a, s) ==
    /\ Idle
    /\ algo' = a /\ stream' = s
    /\ UNCHANGED <<call, mode, updates, resets>>

Modes == [kind : {"default"}, seed : {0}, size : {0}]
           \cup [kind : {"secret"}, seed : {0}, size : SecretSizes]
           \cup [kind : {"seed"}, seed : {0, 1, 2}, size : {0}]
           \cup [kind : {"secretandseed"}, seed : {0, 1}, size : SecretSizes]

ResetXXH3(s, m) ==
    CASE m.kind = "default" -> XXH3_64bits_reset(s)
      [] m.kind = "secret" -> XXH3_64bits_reset_withSecret(s, userSecret(m.size))
      [] m.kind = "seed" -> XXH3_64bits_reset_withSeed(s, m.seed)
      [] m.kind = "secretandseed" -> XXH3_64bits_reset_withSecretandSeed(s, userSecret(m.size), m.seed)

\* A state is reset before its first update, and again when it is reused.
Reset(m) ==
    /\ call.name = "none" /\ algo \in {"none", "XXH3"}
    /\ resets < MaxResets
    /\ algo' = "XXH3" /\ stream' = ResetXXH3(stream, m) /\ mode' = m
    /\ updates' = 0 /\ resets' = resets + 1
    /\ UNCHANGED call

Total == CASE algo = "XXH3" -> stream.totalLen
           [] algo \in {"XXH32", "XXH64"} -> stream.total
           [] algo = "murmur32" -> stream.total
           [] OTHER -> 0

UpdateXXH(n) ==
    /\ algo \in {"XXH32", "XXH64", "XXH3"}
    /\ updates < MaxUpdates
    /\ LET b == Input(Total, n)
       IN  stream' = CASE algo = "XXH32" -> XXH32_update(stream, b)
                       [] algo = "XXH64" -> XXH64_update(stream, b)
                       [] algo = "XXH3" -> XXH3_update(stream, b)
    /\ updates' = updates + 1
    /\ UNCHANGED <<call, algo, mode, resets>>

UpdateMurmur(n, align, unaligned_safe) ==
    /\ algo = "murmur32"
    /\ updates < MaxUpdates
    /\ stream' = [state |-> murmur32_process(stream.state, Input(Total, n), align, unaligned_safe),
                  total |-> stream.total + n]
    /\ updates' = updates + 1
    /\ UNCHANGED <<call, algo, mode, resets>>

Next ==
    \/ \E hasher \in {"wyhash", "murmur", "xxhash", "polymur"}, width \in {32, 64}, n \in Lengths :
            HashBytes(hasher, width, n)
    \/ \E name \in {"XXH3_64", "XXH3_128"}, n \in Lengths, size \in SecretSizes : HashXXH3(name, n, size)
    \/ \E v \in Builds : Build(v)
    \/ StartStream("XXH32", XXH32_reset)
    \/ StartStream("XXH64", XXH64_reset)
    \/ StartStream("murmur32", [state |-> MurmurStart, total |-> 0])
    \/ \E m \in Modes : Reset(m)
    \/ \E n \in Pieces[algo] : UpdateXXH(n)
    \/ \E n \in Pieces[algo], align \in Alignments, safe \in BOOLEAN : UpdateMurmur(n, align, safe)

Spec == Init /\ [][Next]_vars

-----------------------------------------------------------------------------
(* The one-call hash of the same bytes, for the way the state was reset.   *)

Whole64(b) ==
    CASE mode.kind = "default" -> XXH3_64bits(b)
      [] mode.kind = "secret" -> XXH3_64bits_withSecret(b, userSecret(mode.size))
      [] mode.kind = "seed" -> XXH3_64bits_withSeed(b, mode.seed)
      [] mode.kind = "secretandseed" -> XXH3_64bits_withSecretandSeed(b, userSecret(mode.size), mode.seed)

Whole128(b) ==
    CASE mode.kind = "default" -> XXH3_128bits(b)
      [] mode.kind = "secret" -> XXH3_128bits_withSecret(b, userSecret(mode.size))
      [] mode.kind = "seed" -> XXH3_128bits_withSeed(b, mode.seed)
      [] mode.kind = "secretandseed" -> XXH3_128bits_withSecretandSeed(b, userSecret(mode.size), mode.seed)

\* A short input, a secret and the seed 0: the 128 bit digest takes the
\* secret, the call takes the default secret.
SeedZero == mode.kind = "secretandseed" /\ mode.seed = 0 /\ Total <= XXH3_MIDSIZE_MAX

\* However the input is cut into pieces (down to empty ones, at any address),
\* and whatever the state was used for before, the digest of a stream mixes
\* the same words with the same keys, in the same order, as hashing the bytes
\* in one call: XXH32_update, XXH64_update, XXH3_update and murmur32_process.
StreamEqualsOneShot ==
    LET b == Input(0, Total)
    IN  CASE algo = "XXH32" -> XXH32_digest(stream) = XXH32(b)
          [] algo = "XXH64" -> XXH64_digest(stream) = XXH64(b)
          [] algo = "murmur32" -> murmur32_result(stream.state, Total) = murmur32(b)
          [] algo = "XXH3" -> /\ XXH3_64bits_digest(stream) = Whole64(b)
                              /\ SeedZero \/ XXH3_128bits_digest(stream) = Whole128(b)
          [] OTHER -> TRUE

\* A hash in one call reads every byte of its input, none before or after it,
\* and no byte outside the secret, at every length: the overlapping last
\* words of wyhash, polymur and XXH3, and the offsets into a shortest secret.
ReadsExact ==
    call.name \notin {"none", "build"} =>
        LET words == ToSet(Whole(call))
        IN  /\ \A w \in words : w[1] >= 0
            /\ UNION { w[1]..(w[1] + w[2] - 1) : w \in words } = 0..(call.length - 1)
            /\ \A k \in Keys(call) : k[1] >= 0

\* Every build adds the same products and the same swapped lanes to the same
\* accumulators, scrambles them with the same lanes of the secret and derives
\* the same secret from a seed: a hash does not depend on the processor.
BuildsAgree ==
    call.name = "build" =>
        LET scalar == [isa |-> "scalar", lanes |-> 8]
        IN  /\ SameSum(XXH3_accumulate_of(call.build, 3), XXH3_accumulate_of(scalar, 3))
            /\ SameSum(XXH3_scrambleAcc_of(call.build), XXH3_scrambleAcc_of(scalar))
            /\ XXH3_initCustomSecret_of(call.build) = XXH3_initCustomSecret_of(scalar)
=============================================================================
