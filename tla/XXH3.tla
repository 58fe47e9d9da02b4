-------------------------------- MODULE XXH3 --------------------------------
(***************************************************************************)
(* The XXH3 family of core/native/hashing/xxhash.h: 64 and 128 bit hashes  *)
(* in one call, the streaming state, and the accumulation written once per *)
(* instruction set.                                                        *)
(*                                                                         *)
(* Arithmetic is abstracted.  A byte of the input is its position, so a    *)
(* buffer is a sequence of positions (-1 for a byte that is not of the     *)
(* input), a word is where its bytes come from, and a hash value is the    *)
(* sequence of <<word, key>> pairs mixed into it, the key being a place in *)
(* the secret, together with the secret, the seed and the length.          *)
(***************************************************************************)
EXTENDS Integers, Sequences, SequencesExt, FiniteSets

-----------------------------------------------------------------------------
(* Reads of the input and of the secret.                                   *)

NoWord == <<0, 0>>

\* w bytes at offset o: the position of the first one and w, or a torn word
\* when they are outside the buffer or not consecutive bytes of the input.
Read(b, o, w) ==
    IF /\ o >= 0
       /\ o + w <= Len(b)
       /\ b[o + 1] >= 0
       /\ \A k \in 1..(w - 1) : b[o + 1 + k] = b[o + 1] + k
    THEN <<b[o + 1], w>>
    ELSE <<-1, w>>

\* w bytes of the secret at offset o.
Key(secret, o, w) ==
    IF o >= 0 /\ o + w <= secret.size THEN <<o, w>> ELSE <<-1, w>>

XXH3_SECRET_SIZE_MIN == 136
XXH_SECRET_DEFAULT_SIZE == 192
XXH_STRIPE_LEN == 64
XXH_SECRET_CONSUME_RATE == 8
XXH3_INTERNALBUFFER_SIZE == 256
XXH3_MIDSIZE_MAX == 240

XXH3_kSecret == [kind |-> "kSecret", seed |-> 0, size |-> XXH_SECRET_DEFAULT_SIZE]
customSecret(seed) == [kind |-> "custom", seed |-> seed, size |-> XXH_SECRET_DEFAULT_SIZE]
userSecret(size) == [kind |-> "user", seed |-> 0, size |-> size]

Hash(secret, seed, length, terms) ==
    [secret |-> secret, seed |-> seed, length |-> length, terms |-> terms]

-----------------------------------------------------------------------------
(* Short inputs, 64 bits.                                                  *)

XXH3_len_1to3_64b(b, secret) ==
    LET n == Len(b)
    IN  << <<Read(b, 0, 1), Key(secret, 0, 4)>>,
           <<Read(b, n \div 2, 1), Key(secret, 4, 4)>>,
           <<Read(b, n - 1, 1), Key(secret, 0, 4)>> >>

XXH3_len_4to8_64b(b, secret) ==
    << <<Read(b, 0, 4), Key(secret, 8, 8)>>,
       <<Read(b, Len(b) - 4, 4), Key(secret, 16, 8)>> >>

XXH3_len_9to16_64b(b, secret) ==
    << <<Read(b, 0, 8), Key(secret, 24, 16)>>,
       <<Read(b, Len(b) - 8, 8), Key(secret, 40, 16)>> >>

XXH3_len_0to16_64b(b, secret) ==
    CASE Len(b) > 8  -> XXH3_len_9to16_64b(b, secret)
      [] Len(b) \in 4..8 -> XXH3_len_4to8_64b(b, secret)
      [] Len(b) \in 1..3 -> XXH3_len_1to3_64b(b, secret)
      [] OTHER -> << <<NoWord, Key(secret, 56, 8)>>, <<NoWord, Key(secret, 64, 8)>> >>

XXH3_mix16B(b, o, secret, so) ==
    << <<Read(b, o, 8), Key(secret, so, 8)>>,
       <<Read(b, o + 8, 8), Key(secret, so + 8, 8)>> >>

\* From the middle of the input outwards, one 16-byte block of each half.
XXH3_len_17to128_64b(b, secret) ==
    LET m == (Len(b) - 1) \div 32
        Round(i) == XXH3_mix16B(b, 16 * i, secret, 32 * i)
                      \o XXH3_mix16B(b, Len(b) - 16 * (i + 1), secret, (32 * i) + 16)
    IN  FlattenSeq([j \in 1..(m + 1) |-> Round(m + 1 - j)])

XXH3_len_129to240_64b(b, secret) ==
    LET nbRounds == Len(b) \div 16
    IN  FlattenSeq([i \in 1..8 |-> XXH3_mix16B(b, 16 * (i - 1), secret, 16 * (i - 1))])
          \o XXH3_mix16B(b, Len(b) - 16, secret, XXH3_SECRET_SIZE_MIN - 17)
          \o FlattenSeq([i \in 1..(nbRounds - 8) |->
                XXH3_mix16B(b, 16 * (i + 7), secret, (16 * (i - 1)) + 3)])

-----------------------------------------------------------------------------
(* Short inputs, 128 bits.                                                 *)

XXH3_len_1to3_128b(b, secret) ==
    XXH3_len_1to3_64b(b, secret) \o << <<NoWord, Key(secret, 8, 4)>>, <<NoWord, Key(secret, 12, 4)>> >>

XXH3_len_4to8_128b(b, secret) ==
    << <<Read(b, 0, 4), Key(secret, 16, 8)>>,
       <<Read(b, Len(b) - 4, 4), Key(secret, 24, 8)>> >>

XXH3_len_9to16_128b(b, secret) ==
    << <<Read(b, 0, 8), Key(secret, 32, 16)>>,
       <<Read(b, Len(b) - 8, 8), Key(secret, 48, 16)>> >>

XXH3_len_0to16_128b(b, secret) ==
    CASE Len(b) > 8  -> XXH3_len_9to16_128b(b, secret)
      [] Len(b) \in 4..8 -> XXH3_len_4to8_128b(b, secret)
      [] Len(b) \in 1..3 -> XXH3_len_1to3_128b(b, secret)
      [] OTHER -> << <<NoWord, Key(secret, 64, 16)>>, <<NoWord, Key(secret, 80, 16)>> >>

XXH128_mix32B(b, o1, o2, secret, so) ==
    XXH3_mix16B(b, o1, secret, so) \o XXH3_mix16B(b, o2, secret, so + 16)

XXH3_len_17to128_128b(b, secret) ==
    LET m == (Len(b) - 1) \div 32
        Round(i) == XXH128_mix32B(b, 16 * i, Len(b) - 16 * (i + 1), secret, 32 * i)
    IN  FlattenSeq([j \in 1..(m + 1) |-> Round(m + 1 - j)])

XXH3_len_129to240_128b(b, secret) ==
    LET rounds == (Len(b) - 128) \div 32
    IN  FlattenSeq([i \in 1..4 |->
            XXH128_mix32B(b, 32 * (i - 1), (32 * (i - 1)) + 16, secret, 32 * (i - 1))])
          \o FlattenSeq([i \in 1..rounds |->
                XXH128_mix32B(b, 96 + (32 * i), 112 + (32 * i), secret, 3 + (32 * (i - 1)))])
          \o XXH128_mix32B(b, Len(b) - 16, Len(b) - 32, secret, XXH3_SECRET_SIZE_MIN - 17 - 16)

-----------------------------------------------------------------------------
(* Long inputs: stripes of 64 bytes, a scramble after each block of the    *)
(* stripes that the secret is long enough for.                             *)

XXH3_accumulate(acc, b, o, secret, so, nbStripes) ==
    acc \o [n \in 1..nbStripes |->
              <<Read(b, o + XXH_STRIPE_LEN * (n - 1), XXH_STRIPE_LEN),
                Key(secret, so + XXH_SECRET_CONSUME_RATE * (n - 1), XXH_STRIPE_LEN)>>]

XXH3_scrambleAcc(acc, secret, so) ==
    Append(acc, <<NoWord, Key(secret, so, XXH_STRIPE_LEN)>>)

XXH3_hashLong_internal_loop(b, secret) ==
    LET len == Len(b)
        perBlock == (secret.size - XXH_STRIPE_LEN) \div XXH_SECRET_CONSUME_RATE
        block_len == XXH_STRIPE_LEN * perBlock
        nb_blocks == (len - 1) \div block_len
        Block(n) == XXH3_scrambleAcc(
                        XXH3_accumulate(<<>>, b, n * block_len, secret, 0, perBlock),
                        secret, secret.size - XXH_STRIPE_LEN)
        blocks == FlattenSeq([n \in 1..nb_blocks |-> Block(n - 1)])
        nbStripes == ((len - 1) - (block_len * nb_blocks)) \div XXH_STRIPE_LEN
        partial == XXH3_accumulate(blocks, b, nb_blocks * block_len, secret, 0, nbStripes)
    IN  XXH3_accumulate(partial, b, len - XXH_STRIPE_LEN, secret,
                        secret.size - XXH_STRIPE_LEN - 7, 1)

\* The accumulators two by two with the secret from offset so.
XXH3_mergeAccs(acc, secret, so) ==
    acc \o [i \in 1..4 |-> <<NoWord, Key(secret, so + 16 * (i - 1), 16)>>]

Merge64(acc, secret) == XXH3_mergeAccs(acc, secret, 11)
Merge128(acc, secret) == XXH3_mergeAccs(Merge64(acc, secret), secret, secret.size - 64 - 11)

XXH3_hashLong_64b_internal(b, secret) ==
    Hash(secret, 0, Len(b), Merge64(XXH3_hashLong_internal_loop(b, secret), secret))
XXH3_hashLong_128b_internal(b, secret) ==
    Hash(secret, 0, Len(b), Merge128(XXH3_hashLong_internal_loop(b, secret), secret))

\* The secret of a long input that is given a seed.
XXH3_hashLong_withSeed_secret(seed) == IF seed = 0 THEN XXH3_kSecret ELSE customSecret(seed)

\* The three ways a long input gets its secret, as the f_hashLong argument.
XXH3_64bits_internal(b, seed, secret, longSecret) ==
    LET n == Len(b)
    IN  CASE n <= 16 -> Hash(secret, seed, n, XXH3_len_0to16_64b(b, secret))
          [] n \in 17..128 -> Hash(secret, seed, n, XXH3_len_17to128_64b(b, secret))
          [] n \in 129..XXH3_MIDSIZE_MAX -> Hash(secret, seed, n, XXH3_len_129to240_64b(b, secret))
          [] OTHER -> XXH3_hashLong_64b_internal(b, longSecret)

XXH3_128bits_internal(b, seed, secret, longSecret) ==
    LET n == Len(b)
    IN  CASE n <= 16 -> Hash(secret, seed, n, XXH3_len_0to16_128b(b, secret))
          [] n \in 17..128 -> Hash(secret, seed, n, XXH3_len_17to128_128b(b, secret))
          [] n \in 129..XXH3_MIDSIZE_MAX -> Hash(secret, seed, n, XXH3_len_129to240_128b(b, secret))
          [] OTHER -> XXH3_hashLong_128b_internal(b, longSecret)

XXH3_64bits(b) == XXH3_64bits_internal(b, 0, XXH3_kSecret, XXH3_kSecret)
XXH3_64bits_withSecret(b, secret) == XXH3_64bits_internal(b, 0, secret, secret)
XXH3_64bits_withSeed(b, seed) ==
    XXH3_64bits_internal(b, seed, XXH3_kSecret, XXH3_hashLong_withSeed_secret(seed))
XXH3_64bits_withSecretandSeed(b, secret, seed) ==
    XXH3_64bits_internal(b, seed, XXH3_kSecret, secret)

XXH3_128bits(b) == XXH3_128bits_internal(b, 0, XXH3_kSecret, XXH3_kSecret)
XXH3_128bits_withSecret(b, secret) == XXH3_128bits_internal(b, 0, secret, secret)
XXH3_128bits_withSeed(b, seed) ==
    XXH3_128bits_internal(b, seed, XXH3_kSecret, XXH3_hashLong_withSeed_secret(seed))
XXH3_128bits_withSecretandSeed(b, secret, seed) ==
    XXH3_128bits_internal(b, seed, XXH3_kSecret, secret)

-----------------------------------------------------------------------------
(* Streaming.                                                              *)

\* What malloc and XXH3_INITSTATE leave in a new state: no seed, no secret.
NoSecret == [kind |-> "NULL", seed |-> 0, size |-> 0]

XXH3_state == [acc |-> <<>>, customSecret |-> NoSecret, buffer |-> <<>>, bufferedSize |-> 0,
               useSeed |-> FALSE, nbStripesSoFar |-> 0, totalLen |-> 0, perBlock |-> 0,
               secretLimit |-> 0, seed |-> 0, extSecret |-> NoSecret]

\* The buffer keeps the bytes of the stream before: none is of this input.
XXH3_reset_internal(s, seed, secret, secretSize) ==
    [s EXCEPT !.acc = <<>>, !.bufferedSize = 0, !.nbStripesSoFar = 0, !.totalLen = 0,
              !.buffer = [i \in 1..XXH3_INTERNALBUFFER_SIZE |-> -1],
              !.seed = seed, !.useSeed = seed # 0, !.extSecret = secret,
              !.secretLimit = secretSize - XXH_STRIPE_LEN,
              !.perBlock = (secretSize - XXH_STRIPE_LEN) \div XXH_SECRET_CONSUME_RATE]

XXH3_64bits_reset(s) == XXH3_reset_internal(s, 0, XXH3_kSecret, XXH_SECRET_DEFAULT_SIZE)
XXH3_64bits_reset_withSecret(s, secret) == XXH3_reset_internal(s, 0, secret, secret.size)

\* The derived secret is kept when the state already holds the seed.
XXH3_64bits_reset_withSeed(s, seed) ==
    LET fresh == seed # s.seed \/ s.extSecret # NoSecret
        derived == IF fresh THEN [s EXCEPT !.customSecret = customSecret(seed)] ELSE s
    IN  IF seed = 0 THEN XXH3_64bits_reset(s)
        ELSE XXH3_reset_internal(derived, seed, NoSecret, XXH_SECRET_DEFAULT_SIZE)

XXH3_64bits_reset_withSecretandSeed(s, secret, seed) ==
    [XXH3_reset_internal(s, seed, secret, secret.size) EXCEPT !.useSeed = TRUE]

stateSecret(s) == IF s.extSecret = NoSecret THEN s.customSecret ELSE s.extSecret

Copy(to, o, from, fromO, n) ==
    [i \in DOMAIN to |-> IF i \in (o + 1)..(o + n) THEN from[i - o + fromO] ELSE to[i]]

\* Whole blocks first, the first one cut by what the stream already has, then
\* the rest: the accumulators, the stripes of the open block, the end offset.
RECURSIVE XXH3_consumeBlocks(_, _, _, _, _, _, _)
XXH3_consumeBlocks(s, acc, b, o, nbStripes, now, so) ==
    LET acc1 == XXH3_scrambleAcc(XXH3_accumulate(acc, b, o, stateSecret(s), so, now),
                                 stateSecret(s), s.secretLimit)
    IN  IF nbStripes - now >= s.perBlock
        THEN XXH3_consumeBlocks(s, acc1, b, o + now * XXH_STRIPE_LEN, nbStripes - now, s.perBlock, 0)
        ELSE [acc |-> acc1, at |-> o + now * XXH_STRIPE_LEN, left |-> nbStripes - now, soFar |-> 0, so |-> 0]

XXH3_consumeStripes(s, b, o, nbStripes) ==
    LET now == s.perBlock - s.nbStripesSoFar
        so == s.nbStripesSoFar * XXH_SECRET_CONSUME_RATE
        c == IF nbStripes >= now
             THEN XXH3_consumeBlocks(s, s.acc, b, o, nbStripes, now, so)
             ELSE [acc |-> s.acc, at |-> o, left |-> nbStripes, soFar |-> s.nbStripesSoFar, so |-> so]
    IN  [acc |-> XXH3_accumulate(c.acc, b, c.at, stateSecret(s), c.so, c.left),
         at |-> c.at + c.left * XXH_STRIPE_LEN,
         soFar |-> c.soFar + c.left]

\* A small input is buffered.  Otherwise the buffer is filled and consumed,
\* then all of the input but its last 1 to 64 bytes when more than a buffer of
\* it is left (the last consumed stripe is kept at the end of the buffer), and
\* what remains is buffered.
XXH3_update(s0, b) ==
    LET len == Len(b)
        s == [s0 EXCEPT !.totalLen = @ + len]
        loadSize == IF s.bufferedSize = 0 THEN 0 ELSE XXH3_INTERNALBUFFER_SIZE - s.bufferedSize
        filled == Copy(s.buffer, s.bufferedSize, b, 0, loadSize)
        c1 == XXH3_consumeStripes(s, filled, 0, XXH3_INTERNALBUFFER_SIZE \div XXH_STRIPE_LEN)
        s1 == IF s.bufferedSize = 0 THEN s
              ELSE [s EXCEPT !.buffer = filled, !.acc = c1.acc, !.nbStripesSoFar = c1.soFar]
        long == len - loadSize > XXH3_INTERNALBUFFER_SIZE
        c2 == XXH3_consumeStripes(s1, b, loadSize, (len - 1 - loadSize) \div XXH_STRIPE_LEN)
        s2 == IF ~long THEN s1
              ELSE [s1 EXCEPT !.acc = c2.acc, !.nbStripesSoFar = c2.soFar,
                        !.buffer = Copy(@, XXH3_INTERNALBUFFER_SIZE - XXH_STRIPE_LEN,
                                        b, c2.at - XXH_STRIPE_LEN, XXH_STRIPE_LEN)]
        at == IF long THEN c2.at ELSE loadSize
    IN  IF len <= XXH3_INTERNALBUFFER_SIZE - s.bufferedSize
        THEN [s EXCEPT !.buffer = Copy(@, s.bufferedSize, b, 0, len), !.bufferedSize = @ + len]
        ELSE [s2 EXCEPT !.buffer = Copy(@, 0, b, at, len - at), !.bufferedSize = len - at]

\* The stripes left in the buffer and the last 64 bytes of the input, which
\* reach back into the end of the buffer when it holds fewer.
XXH3_digest_long(s) ==
    LET enough == s.bufferedSize >= XXH_STRIPE_LEN
        catchup == XXH_STRIPE_LEN - s.bufferedSize
        c == XXH3_consumeStripes(s, s.buffer, 0, (s.bufferedSize - 1) \div XXH_STRIPE_LEN)
        lastStripe == IF enough
            THEN SubSeq(s.buffer, s.bufferedSize - XXH_STRIPE_LEN + 1, s.bufferedSize)
            ELSE SubSeq(s.buffer, XXH3_INTERNALBUFFER_SIZE - catchup + 1, XXH3_INTERNALBUFFER_SIZE)
                   \o SubSeq(s.buffer, 1, s.bufferedSize)
    IN  XXH3_accumulate(IF enough THEN c.acc ELSE s.acc, lastStripe, 0, stateSecret(s), s.secretLimit - 7, 1)

ShortInput(s) == SubSeq(s.buffer, 1, s.totalLen)

\* A short input is hashed from the buffer, in one call.
XXH3_64bits_digest(s) ==
    CASE s.totalLen > XXH3_MIDSIZE_MAX ->
            Hash(stateSecret(s), 0, s.totalLen, Merge64(XXH3_digest_long(s), stateSecret(s)))
      [] s.totalLen <= XXH3_MIDSIZE_MAX /\ s.useSeed ->
            XXH3_64bits_withSeed(ShortInput(s), s.seed)
      [] OTHER -> XXH3_64bits_withSecret(ShortInput(s), [stateSecret(s) EXCEPT !.size = s.secretLimit + XXH_STRIPE_LEN])

\* Asks for a seed that is not 0 where the 64 bit digest asks for useSeed.
XXH3_128bits_digest(s) ==
    CASE s.totalLen > XXH3_MIDSIZE_MAX ->
            Hash(stateSecret(s), 0, s.totalLen, Merge128(XXH3_digest_long(s), stateSecret(s)))
      [] s.totalLen <= XXH3_MIDSIZE_MAX /\ s.seed # 0 ->
            XXH3_128bits_withSeed(ShortInput(s), s.seed)
      [] OTHER -> XXH3_128bits_withSecret(ShortInput(s), [stateSecret(s) EXCEPT !.size = s.secretLimit + XXH_STRIPE_LEN])
=============================================================================
