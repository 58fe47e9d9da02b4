----------------------------- MODULE XXH3Vectors -----------------------------
(***************************************************************************)
(* The accumulation and the scramble of xxhash.h as written for each       *)
(* instruction set.  A stripe is 8 lanes of 64 bits, or 16 words of 32     *)
(* bits.  A round is the sequence of its contributions: "add" of the input *)
(* words x and y (low and high half) to an accumulator, "mul" of the keyed *)
(* words x and y.  A scramble is, per accumulator, the secret's lane and   *)
(* the low and the high word it multiplies.                                *)
(***************************************************************************)
EXTENDS Integers, Sequences, SequencesExt

LaneXor1(l) == IF l % 2 = 0 THEN l + 1 ELSE l - 1

\* The rounds of lanes from..to-1, and of count vectors of width lanes.
Lanes(from, to, Round(_)) == FlattenSeq([i \in 1..(to - from) |-> Round(from + i - 1)])
Vectors(count, width, Round(_)) ==
    FlattenSeq([i \in 1..count |-> Lanes(width * (i - 1), width * i, Round)])

\* _mm*_shuffle_epi32: within each group of 4 words.
shuffle_epi32(perm, w) == 4 * (w \div 4) + perm[(w % 4) + 1]

-----------------------------------------------------------------------------
(* Accumulate one stripe.                                                  *)

XXH3_scalarRound(l) ==
    << <<"add", LaneXor1(l), 2 * l, 2 * l + 1>>, <<"mul", l, 2 * l, 2 * l + 1>> >>

XXH3_accumulate_512_scalar == Lanes(0, 8, XXH3_scalarRound)

\* data_swap by _MM_SHUFFLE(1, 0, 3, 2), the high words by a 64 bit shift.
x86Round(l) ==
    << <<"add", l, shuffle_epi32(<<2, 3, 0, 1>>, 2 * l), shuffle_epi32(<<2, 3, 0, 1>>, 2 * l + 1)>>,
       <<"mul", l, 2 * l, 2 * l + 1>> >>

XXH3_accumulate_512_avx512 == Vectors(1, 8, x86Round)
XXH3_accumulate_512_avx2 == Vectors(2, 4, x86Round)

\* sse2 takes the high words by _MM_SHUFFLE(0, 3, 0, 1).
sse2Round(l) == << x86Round(l)[1], <<"mul", l, 2 * l, shuffle_epi32(<<1, 0, 3, 0>>, 2 * l)>> >>
XXH3_accumulate_512_sse2 == Vectors(4, 2, sse2Round)

\* Faulty: the scalar lanes start one late.
FaultyNeon(NEON_LANES) ==
    LET Pair(l) == << <<"add", l, 2 * LaneXor1(l), 2 * LaneXor1(l) + 1>>, <<"mul", l, 2 * l, 2 * l + 1>> >>
    IN  Lanes(NEON_LANES + 1, 8, XXH3_scalarRound) \o Lanes(0, NEON_LANES, Pair)

\* XXH3_NEON_LANES lanes in vectors, four lanes at a time with the words of
\* two vectors unzipped, then two at a time; the other lanes as scalars.
XXH3_accumulate_512_neon(NEON_LANES) ==
    LET Swap(l) == <<"add", l, 2 * LaneXor1(l), 2 * LaneXor1(l) + 1>>
        quads == (NEON_LANES \div 2) \div 2
        unzipped(i, odd, k) == (4 * i) + (2 * k) + odd
        Quad(i) == FlattenSeq([k \in 1..4 |->
            << Swap((2 * i) + (k - 1)),
               <<"mul", (2 * i) + (k - 1), unzipped(i, 0, k - 1), unzipped(i, 1, k - 1)>> >>])
        Pair(l) == << Swap(l), <<"mul", l, 2 * l, 2 * l + 1>> >>
    IN  Lanes(NEON_LANES, 8, XXH3_scalarRound)
          \o FlattenSeq([q \in 1..quads |-> Quad(2 * (q - 1))])
          \o Lanes(4 * quads, NEON_LANES, Pair)

\* The high word by a rotation, the swap by a permutation of the two halves.
vsxRound(l) ==
    LET half == l % 2
        permuted == 2 * (l \div 2) + ((half + 1) % 2)
        rotated(w) == IF w % 2 = 0 THEN w + 1 ELSE w - 1
    IN  << <<"mul", l, 2 * l, rotated(2 * l)>>, <<"add", l, 2 * permuted, 2 * permuted + 1>> >>
XXH3_accumulate_512_vsx == Vectors(4, 2, vsxRound)

\* ACCRND: a vector of width lanes from an offset, swapped by kSwap.
ACCRND(offset, width) ==
    FlattenSeq([j \in 1..width |->
        LET l == offset + (j - 1)
            s == offset + LaneXor1(j - 1)
        IN  << <<"add", l, 2 * s, 2 * s + 1>>, <<"mul", l, 2 * l, 2 * l + 1>> >>])

\* By the number of lanes of a vector of this processor.
XXH3_accumulate_512_sve(element_count) ==
    CASE element_count >= 8 -> ACCRND(0, 8)
      [] element_count = 2 -> ACCRND(0, 2) \o ACCRND(2, 2) \o ACCRND(4, 2) \o ACCRND(6, 2)
      [] OTHER -> ACCRND(0, 4) \o ACCRND(4, 4)

\* XXH3_ACCUMULATE_TEMPLATE: stripe n, with the secret n lanes further on.
ACCUMULATE_TEMPLATE(round, nbStripes) ==
    FlattenSeq([n \in 1..nbStripes |-> [i \in DOMAIN round |-> <<8 * (n - 1), n - 1, round[i]>>]])

\* sve steps its own pointers: 8 lanes of input and 1 of secret per stripe.
RECURSIVE XXH3_accumulate_sve(_, _, _, _)
XXH3_accumulate_sve(element_count, xinput, xsecret, nbStripes) ==
    LET round == XXH3_accumulate_512_sve(element_count)
    IN  IF nbStripes = 0 THEN <<>>
        ELSE [i \in DOMAIN round |-> <<xinput, xsecret, round[i]>>]
               \o XXH3_accumulate_sve(element_count, xinput + 8, xsecret + 1, nbStripes - 1)

-----------------------------------------------------------------------------
(* Scramble the accumulators.                                              *)

XXH3_scalarScrambleRound(l) == << <<l, l, 2 * l, 2 * l + 1>> >>
XXH3_scrambleAcc_scalar == Lanes(0, 8, XXH3_scalarScrambleRound)
XXH3_scrambleAcc_avx512 == Vectors(1, 8, XXH3_scalarScrambleRound)
XXH3_scrambleAcc_avx2 == Vectors(2, 4, XXH3_scalarScrambleRound)

sse2ScrambleRound(l) == << <<l, l, 2 * l, shuffle_epi32(<<1, 0, 3, 0>>, 2 * l)>> >>
XXH3_scrambleAcc_sse2 == Vectors(4, 2, sse2ScrambleRound)

\* The high words are multiplied in place by { 0, prime, 0, prime }.
XXH3_scrambleAcc_neon(NEON_LANES) ==
    LET Pair(l) == << <<l, l, 2 * l, 2 * l + 1>> >>
    IN  Lanes(NEON_LANES, 8, XXH3_scalarScrambleRound) \o Lanes(0, 2 * (NEON_LANES \div 2), Pair)

XXH3_scrambleAcc_vsx == Vectors(4, 2, XXH3_scalarScrambleRound)

-----------------------------------------------------------------------------
(* The secret derived from a seed: the sign of the seed in each lane.      *)

XXH3_initCustomSecret_scalar == FlattenSeq([i \in 1..12 |-> << "+", "-" >>])
\* mask_sub 0xAA: the odd lanes of each of 3 vectors of 8 are negated.
XXH3_initCustomSecret_avx512 ==
    FlattenSeq([i \in 1..3 |-> [j \in 1..8 |-> IF (170 \div 2^(j - 1)) % 2 = 1 THEN "-" ELSE "+"]])
XXH3_initCustomSecret_avx2 == FlattenSeq([i \in 1..6 |-> Reverse(<<"-", "+", "-", "+">>)])
XXH3_initCustomSecret_sse2 == FlattenSeq([i \in 1..12 |-> Reverse(<<"-", "+">>)])

-----------------------------------------------------------------------------
(* A build is an instruction set and the lanes its vectors are used for.   *)

Builds == { [isa |-> i, lanes |-> 8] : i \in {"scalar", "avx512", "avx2", "sse2", "vsx"} }
            \cup { [isa |-> "neon", lanes |-> l] : l \in {2, 4, 6, 8} }
            \cup { [isa |-> "sve", lanes |-> l] : l \in {2, 4, 6, 8, 16} }

XXH3_accumulate_512_of(v) ==
    CASE v.isa = "scalar" -> XXH3_accumulate_512_scalar
      [] v.isa = "avx512" -> XXH3_accumulate_512_avx512
      [] v.isa = "avx2" -> XXH3_accumulate_512_avx2
      [] v.isa = "sse2" -> XXH3_accumulate_512_sse2
      [] v.isa = "vsx" -> XXH3_accumulate_512_vsx
      [] v.isa = "neon" -> XXH3_accumulate_512_neon(v.lanes)
      [] v.isa = "sve" -> XXH3_accumulate_512_sve(v.lanes)

XXH3_accumulate_of(v, nbStripes) ==
    IF v.isa = "sve" THEN XXH3_accumulate_sve(v.lanes, 0, 0, nbStripes)
    ELSE ACCUMULATE_TEMPLATE(XXH3_accumulate_512_of(v), nbStripes)

\* sve scrambles with the scalar code.
XXH3_scrambleAcc_of(v) ==
    CASE v.isa = "avx512" -> XXH3_scrambleAcc_avx512
      [] v.isa = "avx2" -> XXH3_scrambleAcc_avx2
      [] v.isa = "sse2" -> XXH3_scrambleAcc_sse2
      [] v.isa = "vsx" -> XXH3_scrambleAcc_vsx
      [] v.isa = "neon" -> XXH3_scrambleAcc_neon(v.lanes)
      [] OTHER -> XXH3_scrambleAcc_scalar

XXH3_initCustomSecret_of(v) ==
    CASE v.isa = "avx512" -> XXH3_initCustomSecret_avx512
      [] v.isa = "avx2" -> XXH3_initCustomSecret_avx2
      [] v.isa = "sse2" -> XXH3_initCustomSecret_sse2
      [] OTHER -> XXH3_initCustomSecret_scalar

\* Two sequences of contributions have the same sum.
SameSum(s, t) == Len(s) = Len(t) /\ ToSet(s) = ToSet(t)
=============================================================================
