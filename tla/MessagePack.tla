------------------------------ MODULE MessagePack ------------------------------
(***************************************************************************)
(* The MessagePack codec of the storage (assets/msgpuck.h), which box.c     *)
(* reads tuples with, and the writers and readers of tuples in Dart         *)
(* (core/tuples.dart).  A document is a sequence of bytes; a position is    *)
(* the index of the next byte.  An integer of 64 bits is the sequence of    *)
(* its eight bytes, most significant first, as mp_store_u64 writes it;      *)
(* sizes and lengths are numbers.  A writer composes one document, value    *)
(* by value, into a buffer of given capacity.                               *)
(***************************************************************************)
EXTENDS Integers, Sequences, SequencesExt, FiniteSets

CONSTANTS
    Numbers,     \* the 64-bit integers written by the native side
    DartNumbers, \* the integers written by Dart
    Sizes,       \* sizes of arrays and maps
    Lengths,     \* lengths of strings, binaries and extensions
    Repeats,     \* how many equal values a caller writes in a loop
    Capacities,  \* room given to the writer
    MaxPayload,  \* the longest payload that is copied
    MaxValues,   \* calls of the writer
    WideStrings  \* whether Dart strings may have characters of two bytes

ASSUME MessagePackAssumption ==
    /\ Numbers \cup DartNumbers \subseteq [1 .. 8 -> 0 .. 255]
    /\ Sizes \cup Lengths \cup Repeats \cup Capacities \cup {MaxPayload, MaxValues} \subseteq Nat
    /\ WideStrings \in BOOLEAN

VARIABLES
    writer,  \* who writes the document, "native" or "dart"
    size,    \* the room the writer was given
    data_sz, \* what is left of it, negative once it did not suffice
    data,    \* the bytes written
    whole,   \* the bytes of all values, as if there were room for all
    todo,    \* values the document still needs
    owed,    \* bytes of payload announced and not yet copied
    last,    \* the value written last, and where it starts
    calls

vars == <<writer, size, data_sz, data, whole, todo, owed, last, calls>>

-----------------------------------------------------------------------------
(* Bytes.                                                                   *)

\* mp_store_u8, u16 and u32 of a size: its bytes, most significant first.
mp_store(n, width) == [i \in 1 .. width |-> (n \div 256 ^ (width - i)) % 256]

\* Bytes past the end of the document have an arbitrary value.
Byte(b, p) == IF p \in DOMAIN b THEN b[p] ELSE 0

mp_load(b, p, width) ==
    FoldLeft(LAMBDA n, i : 256 * n + Byte(b, p + i - 1), 0, [i \in 1 .. width |-> i])

Bytes(b, p, width) == [i \in 1 .. width |-> Byte(b, p + i - 1)]

\* The bits of a byte that a mask of the form 2^k selects.
Bit(c, mask) == (c \div mask) % 2

\* An integer of `width` bytes as one of 64 bits, zero or sign extended.
Unsigned(d) == [i \in 1 .. 8 - Len(d) |-> 0] \o d
Signed(d) == [i \in 1 .. 8 - Len(d) |-> IF d[1] >= 128 THEN 255 ELSE 0] \o d

\* num <= UINTw_MAX, and INTw_MIN <= num <= INTw_MAX.
FitsUnsigned(num, width) == \A i \in 1 .. 8 - width : num[i] = 0
FitsSigned(num, width) == num = Signed(SubSeq(num, 9 - width, 8))
Negative(num) == num[1] >= 128

\* What a reader returns: the value, and where it continues.
Read(value, next) == [value |-> value, next |-> next]

\* mp_parser_hint: bytes that follow the first one, or minus the number of
\* values that follow it, or a code below MP_HINT for a size in the document.
MP_HINT == -32
MP_HINT_INVALID == MP_HINT - 10
mp_parser_hint(c) ==
    CASE c <= 127 \/ c >= 224      -> 0
      [] c \in 128 .. 143          -> -2 * (c - 128)
      [] c \in 144 .. 159          -> -(c - 144)
      [] c \in 160 .. 191          -> c - 160
      [] c \in {192, 194, 195}     -> 0
      [] c = 193                   -> MP_HINT_INVALID
      [] c \in 196 .. 198          -> MP_HINT - (c - 196)
      [] c \in 199 .. 201          -> MP_HINT - 7 - (c - 199)
      [] c = 202                   -> 4
      [] c = 203                   -> 8
      [] c \in 204 .. 207          -> 2 ^ (c - 204)
      [] c \in 208 .. 211          -> 2 ^ (c - 208)
      [] c \in 212 .. 216          -> 2 ^ (c - 212) + 1
      [] c \in 217 .. 219          -> MP_HINT - (c - 217)
      [] c \in 220 .. 223          -> MP_HINT - 3 - (c - 220)

mp_type_hint(c) ==
    CASE c <= 127 \/ c \in 204 .. 207          -> "uint"
      [] c >= 224 \/ c \in 208 .. 211          -> "int"
      [] c \in 128 .. 143 \cup {222, 223}      -> "map"
      [] c \in 144 .. 159 \cup {220, 221}      -> "array"
      [] c \in 160 .. 191 \cup {217, 218, 219} -> "str"
      [] c \in {196, 197, 198}                 -> "bin"
      [] c \in {194, 195}                      -> "bool"
      [] c = 202                               -> "float"
      [] c = 203                               -> "double"
      [] c \in 199 .. 201 \cup 212 .. 216      -> "ext"
      [] c \in {192, 193}                      -> "nil"

mp_ext_hint(len) == CASE len = 1 -> 212 [] len = 2 -> 213 [] len = 4 -> 214
                      [] len = 8 -> 215 [] len = 16 -> 216 [] OTHER -> 0

mp_typeof(c) == mp_type_hint(c)

-----------------------------------------------------------------------------
(* Arrays and maps.  A check returns the bytes missing between the end of    *)
(* the data (the first position after it) and the end of the header.         *)

mp_sizeof_array(n) == IF n <= 15 THEN 1 ELSE IF n <= 65535 THEN 3 ELSE 5

mp_encode_array(n) ==
    IF n <= 15 THEN <<144 + n>>
    ELSE IF n <= 65535 THEN <<220>> \o mp_store(n, 2)
    ELSE <<221>> \o mp_store(n, 4)

mp_check_array(b, cur, end) ==
    IF Bit(b[cur], 64) = 0 THEN cur + 1 - end
    ELSE 2 * 2 ^ Bit(b[cur], 1) - (end - (cur + 1))

mp_decode_array_slowpath(c, b, p) ==
    IF Bit(c, 1) = 0 THEN Read(mp_load(b, p, 2), p + 2) ELSE Read(mp_load(b, p, 4), p + 4)

mp_decode_array(b, p) ==
    IF Bit(b[p], 64) = 0 THEN Read(b[p] % 16, p + 1)
    ELSE mp_decode_array_slowpath(b[p], b, p + 1)

mp_sizeof_map(n) == IF n <= 15 THEN 1 ELSE IF n <= 65535 THEN 3 ELSE 5

mp_encode_map(n) ==
    IF n <= 15 THEN <<128 + n>>
    ELSE IF n <= 65535 THEN <<222>> \o mp_store(n, 2)
    ELSE <<223>> \o mp_store(n, 4)

mp_check_map(b, cur, end) ==
    IF b[cur] \div 16 = 8 THEN cur + 1 - end
    ELSE 2 * 2 ^ Bit(b[cur], 1) - (end - (cur + 1))

mp_decode_map(b, p) ==
    CASE b[p] = 222 -> Read(mp_load(b, p + 1, 2), p + 3)
      [] b[p] = 223 -> Read(mp_load(b, p + 1, 4), p + 5)
      [] OTHER      -> Read(b[p] % 16, p + 1)

-----------------------------------------------------------------------------
(* Strings, binaries and extensions: headers, then the payload.             *)

mp_sizeof_strl(len) ==
    IF len <= 31 THEN 1 ELSE IF len <= 255 THEN 2 ELSE IF len <= 65535 THEN 3 ELSE 5

mp_encode_strl(len) ==
    IF len <= 31 THEN <<160 + len>>
    ELSE IF len <= 255 THEN <<217>> \o mp_store(len, 1)
    ELSE IF len <= 65535 THEN <<218>> \o mp_store(len, 2)
    ELSE <<219>> \o mp_store(len, 4)

mp_check_strl(b, cur, end) ==
    IF b[cur] \div 32 = 5 THEN cur + 1 - end
    ELSE (2 ^ (b[cur] % 4)) \div 2 - (end - (cur + 1))

mp_decode_strl(b, p) ==
    CASE b[p] = 217 -> Read(mp_load(b, p + 1, 1), p + 2)
      [] b[p] = 218 -> Read(mp_load(b, p + 1, 2), p + 3)
      [] b[p] = 219 -> Read(mp_load(b, p + 1, 4), p + 5)
      [] OTHER      -> Read(b[p] % 32, p + 1)

mp_sizeof_binl(len) == IF len <= 255 THEN 2 ELSE IF len <= 65535 THEN 3 ELSE 5

mp_encode_binl(len) ==
    IF len <= 255 THEN <<196>> \o mp_store(len, 1)
    ELSE IF len <= 65535 THEN <<197>> \o mp_store(len, 2)
    ELSE <<198>> \o mp_store(len, 4)

mp_check_binl(b, cur, end) == 2 ^ (b[cur] % 4) - (end - (cur + 1))

mp_decode_binl(b, p) ==
    CASE b[p] = 196 -> Read(mp_load(b, p + 1, 1), p + 2)
      [] b[p] = 197 -> Read(mp_load(b, p + 1, 2), p + 3)
      [] b[p] = 198 -> Read(mp_load(b, p + 1, 4), p + 5)

mp_decode_strbinl(b, p) ==
    IF mp_typeof(b[p]) = "bin" THEN mp_decode_binl(b, p) ELSE mp_decode_strl(b, p)

mp_sizeof_extl(len) ==
    IF mp_ext_hint(len) # 0 THEN 2
    ELSE IF len <= 255 THEN 3 ELSE IF len <= 65535 THEN 4 ELSE 6

mp_encode_extl(type, len) ==
    (IF mp_ext_hint(len) # 0 THEN <<mp_ext_hint(len)>>
     ELSE IF len <= 255 THEN <<199>> \o mp_store(len, 1)
     ELSE IF len <= 65535 THEN <<200>> \o mp_store(len, 2)
     ELSE <<201>> \o mp_store(len, 4)) \o <<type>>

mp_check_extl(b, cur, end) ==
    IF b[cur] \div 16 = 13 THEN 1 - (end - (cur + 1))
    ELSE 2 ^ (b[cur] - 199) + 1 - (end - (cur + 1))

\* A bug to tell apart: the type of an extension of fixed length is not skipped.
Faulty_decode_extl(b, p) ==
    CASE b[p] \in 212 .. 216 -> Read(2 ^ (b[p] - 212), p + 1)
      [] b[p] = 199          -> Read(mp_load(b, p + 1, 1), p + 3)
      [] b[p] = 200          -> Read(mp_load(b, p + 1, 2), p + 4)
      [] b[p] = 201          -> Read(mp_load(b, p + 1, 4), p + 6)

\* The length and, after it, the type.
mp_decode_extl(b, p) ==
    CASE b[p] \in 212 .. 216 -> Read(2 ^ (b[p] - 212), p + 2)
      [] b[p] = 199          -> Read(mp_load(b, p + 1, 1), p + 3)
      [] b[p] = 200          -> Read(mp_load(b, p + 1, 2), p + 4)
      [] b[p] = 201          -> Read(mp_load(b, p + 1, 4), p + 6)

\* The payload: bytes that are no valid start of a value.
mp_memcpy(len) == [i \in 1 .. len |-> 193]

mp_sizeof_str(len) == mp_sizeof_strl(len) + len
mp_encode_str(len) == mp_encode_strl(len) \o mp_memcpy(len)
mp_decode_str(b, p) == LET l == mp_decode_strl(b, p) IN Read(l.value, l.next + l.value)
mp_sizeof_bin(len) == mp_sizeof_binl(len) + len
mp_encode_bin(len) == mp_encode_binl(len) \o mp_memcpy(len)
mp_decode_bin(b, p) == LET l == mp_decode_binl(b, p) IN Read(l.value, l.next + l.value)
mp_decode_strbin(b, p) == LET l == mp_decode_strbinl(b, p) IN Read(l.value, l.next + l.value)
mp_sizeof_ext(len) == mp_sizeof_extl(len) + len
mp_encode_ext(type, len) == mp_encode_extl(type, len) \o mp_memcpy(len)
mp_decode_ext(b, p) == LET l == mp_decode_extl(b, p) IN Read(l.value, l.next + l.value)

-----------------------------------------------------------------------------
(* Integers.                                                                *)

mp_sizeof_uint(num) ==
    IF FitsUnsigned(num, 1) /\ num[8] <= 127 THEN 1
    ELSE IF FitsUnsigned(num, 1) THEN 2 ELSE IF FitsUnsigned(num, 2) THEN 3
    ELSE IF FitsUnsigned(num, 4) THEN 5 ELSE 9

mp_sizeof_int(num) ==
    IF FitsSigned(num, 1) /\ num[8] >= 224 THEN 1
    ELSE IF FitsSigned(num, 1) THEN 2 ELSE IF FitsSigned(num, 2) THEN 3
    ELSE IF FitsSigned(num, 4) THEN 5 ELSE 9

Low(num, width) == SubSeq(num, 9 - width, 8)

mp_encode_uint(num) ==
    IF FitsUnsigned(num, 1) /\ num[8] <= 127 THEN <<num[8]>>
    ELSE IF FitsUnsigned(num, 1) THEN <<204>> \o Low(num, 1)
    ELSE IF FitsUnsigned(num, 2) THEN <<205>> \o Low(num, 2)
    ELSE IF FitsUnsigned(num, 4) THEN <<206>> \o Low(num, 4)
    ELSE <<207>> \o num

mp_encode_int(num) ==
    IF FitsSigned(num, 1) /\ num[8] >= 224 THEN <<num[8]>>
    ELSE IF FitsSigned(num, 1) THEN <<208>> \o Low(num, 1)
    ELSE IF FitsSigned(num, 2) THEN <<209>> \o Low(num, 2)
    ELSE IF FitsSigned(num, 4) THEN <<210>> \o Low(num, 4)
    ELSE <<211>> \o num

\* mp_check_int is the same.
mp_check_uint(b, cur, end) == mp_parser_hint(b[cur]) - (end - (cur + 1))

mp_decode_uint(b, p) ==
    LET width == 2 ^ (b[p] - 204) IN
    IF b[p] \in 204 .. 207 THEN Read(Unsigned(Bytes(b, p + 1, width)), p + 1 + width)
    ELSE Read(Unsigned(<<b[p]>>), p + 1)

mp_decode_int(b, p) ==
    LET width == 2 ^ (b[p] - 208) IN
    IF b[p] \in 208 .. 211 THEN Read(Signed(Bytes(b, p + 1, width)), p + 1 + width)
    ELSE Read(Signed(<<b[p]>>), p + 1)

\* Whether a comes before b, of equally long sequences of bytes.
Before(a, b) == \E i \in DOMAIN a : a[i] < b[i] /\ \A j \in 1 .. i - 1 : a[j] = b[j]
Sign(n) == IF n < 0 THEN -1 ELSE IF n > 0 THEN 1 ELSE 0

mp_compare_uint(a, b) ==
    LET r == a[1] - b[1] IN
    IF r # 0 THEN Sign(r)
    ELSE IF a[1] <= 127 \/ Tail(a) = Tail(b) THEN 0
    ELSE IF Before(Tail(a), Tail(b)) THEN -1 ELSE 1

\* mp_read_int8, 16, 32 and 64: a number of at most `width` bytes, either sign.
Refuse(p) == Read(<<>>, p)
mp_read_int(b, p, width) ==
    LET c == b[p]
        n == 2 ^ (c % 4)
    IN  CASE c \in 208 .. 211 /\ n <= width -> mp_decode_int(b, p)
          [] c \in 204 .. 207 /\ n < width  -> mp_decode_uint(b, p)
          [] c \in 204 .. 207 /\ n = width  ->
               IF b[p + 1] >= 128 THEN Refuse(p) ELSE mp_decode_uint(b, p)
          [] OTHER -> IF c < 224 /\ c > 127 THEN Refuse(p) ELSE Read(Signed(<<c>>), p + 1)

mp_read_int8(b, p) == mp_read_int(b, p, 1)
mp_read_int16(b, p) == mp_read_int(b, p, 2)
mp_read_int32(b, p) == mp_read_int(b, p, 4)
mp_read_int64(b, p) == mp_read_int(b, p, 8)

-----------------------------------------------------------------------------
(* Nil, booleans and floating point numbers, the latter as their bytes.     *)

mp_encode_nil == <<192>>
mp_encode_bool(val) == <<IF val THEN 195 ELSE 194>>
mp_decode_bool(b, p) == Read(b[p] = 195, p + 1)
mp_encode_float(bytes) == <<202>> \o bytes
mp_encode_double(bytes) == <<203>> \o bytes
mp_decode_float(b, p) == Read(Bytes(b, p + 1, 4), p + 5)
mp_decode_double(b, p) == Read(Bytes(b, p + 1, 8), p + 9)

\* mp_check_nil and mp_check_bool; mp_check_float and mp_check_double.
mp_check_nil(cur, end) == 1 - (end - cur)
mp_check_float(cur, end, width) == 1 + width - (end - cur)

-----------------------------------------------------------------------------
(* Skipping a value, and checking one.  A scan is at position p, has k       *)
(* values to go and has read no byte after `top`.                            *)

Reach(s, n) == [s EXCEPT !.p = @ + n, !.top = IF s.p + n - 1 > @ THEN s.p + n - 1 ELSE @]

\* Bytes of the size that follows the first byte, for a hint below MP_HINT.
SizeWidth(l) == CASE MP_HINT - l \in 0 .. 2 -> 2 ^ (MP_HINT - l)
                  [] MP_HINT - l \in {3, 5} -> 2
                  [] MP_HINT - l \in {4, 6} -> 4
                  [] MP_HINT - l \in 7 .. 9 -> 2 ^ (MP_HINT - l - 7)

WordFits(k) == k > 8

\* The loop over words of eight bytes that all equal c.
RECURSIVE SkipWords(_, _, _)
SkipWords(b, s, c) ==
    IF ~WordFits(s.k) THEN s
    ELSE LET t == Reach(s, 8) IN
         IF \E i \in 0 .. 7 : Byte(b, s.p + i) # c THEN [t EXCEPT !.p = s.p]
         ELSE SkipWords(b, [t EXCEPT !.k = @ - 8], c)

\* One value (or header) of mp_next_slowpath, without the k-- of its loop.
SlowStep(b, s0) ==
    LET c == Byte(b, s0.p)
        s == Reach(s0, 1)
        l == mp_parser_hint(c)
        w == SizeWidth(l)
        n == mp_load(b, s.p, w)
    IN  CASE l = 0 /\ s.k % 64 = 0 -> SkipWords(b, s, c)
          [] l >= 0 /\ ~(l = 0 /\ s.k % 64 = 0) -> [s EXCEPT !.p = @ + l]
          [] l < 0 /\ l > MP_HINT -> [s EXCEPT !.k = @ - l]
          [] MP_HINT - l \in 0 .. 2 -> [Reach(s, w) EXCEPT !.p = @ + n]
          [] MP_HINT - l \in {3, 4} -> [Reach(s, w) EXCEPT !.k = @ + n]
          [] MP_HINT - l \in {5, 6} -> [Reach(s, w) EXCEPT !.k = @ + 2 * n]
          [] MP_HINT - l \in 7 .. 9 -> [Reach(s, w + 1) EXCEPT !.p = @ + n]

RECURSIVE mp_next_slowpath(_, _)
mp_next_slowpath(b, s) ==
    IF s.k <= 0 \/ s.p > Len(b) THEN s
    ELSE LET t == SlowStep(b, s) IN mp_next_slowpath(b, [t EXCEPT !.k = @ - 1])

RECURSIVE NextLoop(_, _)
NextLoop(b, s0) ==
    IF s0.k <= 0 \/ s0.p > Len(b) THEN s0
    ELSE LET c == Byte(b, s0.p)
             s == Reach(s0, 1)
             l == mp_parser_hint(c)
             More(t) == NextLoop(b, [t EXCEPT !.k = @ - 1])
         IN  CASE l >= 0 -> More([s EXCEPT !.p = @ + l])
               [] c = 217 -> More([Reach(s, 1) EXCEPT !.p = @ + Byte(b, s.p)])
               [] c # 217 /\ l < 0 /\ l > MP_HINT -> More([s EXCEPT !.k = @ - l])
               [] OTHER -> mp_next_slowpath(b, s0)

mp_next(b, p) == NextLoop(b, [p |-> p, k |-> 1, top |-> p - 1])

\* Results of mp_check: "ok", or the kind of error; k is trunc_count.
Enough(s, n, end) == end - s.p >= n
Trunc(s) == [s EXCEPT !.err = "trunc"]

\* A bug to tell apart: the payload of a string is not asked for.
FaultyCheckStr(s, w, n, end) ==
    IF ~Enough(s, w, end) THEN Trunc(s) ELSE [s EXCEPT !.p = @ + w + n]

CheckStr(s, w, n, end) ==
    IF ~Enough(s, w, end) \/ ~Enough([s EXCEPT !.p = @ + w], n, end) THEN Trunc(s)
    ELSE [s EXCEPT !.p = @ + w + n]

CheckSize(s, w, more, end) ==
    IF ~Enough(s, w, end) THEN Trunc(s) ELSE [s EXCEPT !.p = @ + w, !.k = @ + more]

\* mp_check_ext_data, which the application may replace, accepts all.
RECURSIVE CheckLoop(_, _, _)
CheckLoop(b, s0, end) ==
    IF s0.k <= 0 \/ s0.err # "ok" THEN s0
    ELSE IF ~Enough(s0, 1, end) THEN Trunc(s0)
    ELSE LET l == mp_parser_hint(b[s0.p])
             s == [s0 EXCEPT !.p = @ + 1]
             w == SizeWidth(l)
             n == mp_load(b, s.p, w)
             t == CASE l >= 0 -> IF Enough(s, l, end) THEN [s EXCEPT !.p = @ + l] ELSE Trunc(s)
                    [] l < 0 /\ l > MP_HINT -> [s EXCEPT !.k = @ - l]
                    [] MP_HINT - l \in 0 .. 2 -> CheckStr(s, w, n, end)
                    [] MP_HINT - l \in {3, 4} -> CheckSize(s, w, n, end)
                    [] MP_HINT - l \in {5, 6} -> CheckSize(s, w, 2 * n, end)
                    [] MP_HINT - l \in 7 .. 9 -> CheckStr(s, w + 1, n, end)
                    [] l = MP_HINT_INVALID -> [s EXCEPT !.err = "ill"]
         IN  CheckLoop(b, IF t.err = "ok" THEN [t EXCEPT !.k = @ - 1] ELSE t, end)

\* `end` is the first position after the data.
mp_check(b, p, end) == CheckLoop(b, [p |-> p, k |-> 1, err |-> "ok"], end)

mp_check_exact(b, p, end) ==
    LET s == mp_check(b, p, end) IN
    IF s.err = "ok" /\ s.p # end THEN [s EXCEPT !.err = "junk"] ELSE s

-----------------------------------------------------------------------------
(* Dart.  tupleWriteInt, tupleSizeOfInt and the rest of core/tuples.dart.    *)

NonNegative(num) == ~Negative(num)

\* For 128 .. 255 the branch of one byte lacks a return: the number is
\* written again, with two bytes.
tupleWriteInt(num) ==
    IF NonNegative(num)
    THEN IF FitsUnsigned(num, 1) /\ num[8] <= 127 THEN <<num[8]>>
         ELSE (IF FitsUnsigned(num, 1) THEN <<204>> \o Low(num, 1) ELSE <<>>) \o
              (IF FitsUnsigned(num, 2) THEN <<205>> \o Low(num, 2)
               ELSE IF FitsUnsigned(num, 4) THEN <<206>> \o Low(num, 4)
               ELSE <<207>> \o num)
    ELSE mp_encode_int(num)

tupleReadInt(b, p) ==
    IF b[p] <= 127 \/ b[p] >= 224 THEN Read(Signed(<<b[p]>>), p + 1)
    ELSE IF b[p] \in 204 .. 207 THEN mp_decode_uint(b, p) ELSE mp_decode_int(b, p)

\* The UTF-8 bytes of a string of `len` code units.
encode(len, wide) == IF wide THEN [i \in 1 .. 2 * len |-> 195 - 26 * ((i + 1) % 2)]
                     ELSE [i \in 1 .. len |-> 97]

\* The header counts code units and so does what is returned: bytes after
\* as many as there are code units are overwritten by what follows.
tupleWriteString(len, wide) == mp_encode_strl(len) \o SubSeq(encode(len, wide), 1, len)

tupleReadString(b, p) == LET l == mp_decode_strl(b, p) IN
    Read(Bytes(b, l.next, l.value), l.next + l.value)

tupleWriteBinary(len) == mp_encode_bin(len)
tupleWriteList(len) == mp_encode_array(len)
tupleWriteMap(len) == mp_encode_map(len)

-----------------------------------------------------------------------------
(* The writer.  A caller writes a document from the outside in; a header of  *)
(* n values makes the document longer by n.                                  *)

Value(type, arg) == [type |-> type, arg |-> arg]

Init ==
    /\ writer \in {"native", "dart"}
    /\ size \in Capacities
    /\ data_sz = size
    /\ data = <<>> /\ whole = <<>>
    /\ todo = 1 /\ owed = 0 /\ calls = 0
    /\ last = [value |-> Value("none", 0), at |-> 1]

\* A bug to tell apart: the bytes are written before the room is looked at.
FaultySafe(bytes, sizeof) ==
    /\ data_sz' = data_sz - sizeof
    /\ data' = IF data_sz < 0 THEN data ELSE data \o bytes

\* The body of every mp_encode_*_safe.
Safe(bytes, sizeof) ==
    /\ data_sz' = data_sz - sizeof
    /\ data' = IF data_sz - sizeof < 0 THEN data ELSE data \o bytes

\* A value of `sizeof` bytes is written; it stands for one of the values the
\* document needs and asks for `more`.
Write(value, bytes, sizeof, more) ==
    /\ todo > 0 /\ owed = 0 /\ calls < MaxValues
    /\ Safe(bytes, sizeof)
    /\ whole' = whole \o bytes
    /\ todo' = todo - 1 + more
    /\ last' = [value |-> value, at |-> Len(whole) + 1]
    /\ calls' = calls + 1
    /\ UNCHANGED <<writer, size>>

Native(value, bytes, sizeof, more) ==
    /\ writer = "native"
    /\ Write(value, bytes, sizeof, more)
    /\ UNCHANGED owed

mp_encode_array_safe ==
    \E n \in Sizes : Native(Value("array", n), mp_encode_array(n), mp_sizeof_array(n), n)

mp_encode_map_safe ==
    \E n \in Sizes : Native(Value("map", n), mp_encode_map(n), mp_sizeof_map(n), 2 * n)

mp_encode_uint_safe ==
    \E num \in Numbers : Native(Value("uint", num), mp_encode_uint(num), mp_sizeof_uint(num), 0)

mp_encode_int_safe ==
    \E num \in {n \in Numbers : Negative(n)} :
        Native(Value("int", num), mp_encode_int(num), mp_sizeof_int(num), 0)

mp_encode_str_safe ==
    \E len \in {l \in Lengths : l <= MaxPayload} :
        Native(Value("str", len), mp_encode_str(len), mp_sizeof_str(len), 0)

mp_encode_bin_safe ==
    \E len \in {l \in Lengths : l <= MaxPayload} :
        Native(Value("bin", len), mp_encode_bin(len), mp_sizeof_bin(len), 0)

mp_encode_ext_safe ==
    \E len \in {l \in Lengths : l <= MaxPayload} :
        Native(Value("ext", len), mp_encode_ext(7, len), mp_sizeof_ext(len), 0)

\* Only a header; the payload is copied later.
Header(value, bytes, sizeof, len) ==
    /\ writer = "native"
    /\ Write(value, bytes, sizeof, 0)
    /\ owed' = len

mp_encode_strl_safe ==
    \E len \in Lengths : Header(Value("strl", len), mp_encode_strl(len), mp_sizeof_strl(len), len)

mp_encode_binl_safe ==
    \E len \in Lengths : Header(Value("binl", len), mp_encode_binl(len), mp_sizeof_binl(len), len)

mp_encode_extl_safe ==
    \E len \in Lengths : Header(Value("extl", len), mp_encode_extl(7, len), mp_sizeof_extl(len), len)

mp_memcpy_safe ==
    /\ owed \in 1 .. MaxPayload
    /\ Safe(mp_memcpy(owed), owed)
    /\ whole' = whole \o mp_memcpy(owed)
    /\ owed' = 0
    /\ UNCHANGED <<writer, size, todo, last, calls>>

mp_encode_nil_safe == Native(Value("nil", 0), mp_encode_nil, 1, 0)

mp_encode_bool_safe ==
    \E val \in BOOLEAN : Native(Value("bool", val), mp_encode_bool(val), 1, 0)

mp_encode_float_safe ==
    Native(Value("float", <<63, 128, 0, 193>>), mp_encode_float(<<63, 128, 0, 193>>), 5, 0)

mp_encode_double_safe ==
    \E num \in Numbers : Native(Value("double", num), mp_encode_double(num), 9, 0)

\* A caller encodes n equal values in a loop.
Loop ==
    \E n \in Repeats \cap 2 .. todo, c \in {192, 195, 7} :
        /\ writer = "native" /\ owed = 0 /\ calls < MaxValues
        /\ Safe([i \in 1 .. n |-> c], n)
        /\ whole' = whole \o [i \in 1 .. n |-> c]
        /\ todo' = todo - n
        /\ last' = [value |-> Value("none", 0), at |-> 1]
        /\ calls' = calls + 1
        /\ UNCHANGED <<writer, size, owed>>

\* Dart writes into room its caller reserved: nothing is tested.
Dart(value, bytes, more) ==
    /\ writer = "dart"
    /\ todo > 0 /\ calls < MaxValues
    /\ data' = data \o bytes /\ whole' = whole \o bytes
    /\ todo' = todo - 1 + more
    /\ last' = [value |-> value, at |-> Len(whole) + 1]
    /\ calls' = calls + 1
    /\ UNCHANGED <<writer, size, data_sz, owed>>

DartInt == \E num \in DartNumbers : Dart(Value("dart int", num), tupleWriteInt(num), 0)
DartString ==
    \E len \in {l \in Lengths : l <= MaxPayload}, wide \in {FALSE, WideStrings} :
        Dart(Value("dart str", encode(len, wide)), tupleWriteString(len, wide), 0)
DartBinary ==
    \E len \in {l \in Lengths : l <= MaxPayload} : Dart(Value("bin", len), tupleWriteBinary(len), 0)
DartList == \E n \in Sizes : Dart(Value("array", n), tupleWriteList(n), n)
DartMap == \E n \in Sizes : Dart(Value("map", n), tupleWriteMap(n), 2 * n)

Next ==
    \/ mp_encode_array_safe \/ mp_encode_map_safe
    \/ mp_encode_uint_safe \/ mp_encode_int_safe
    \/ mp_encode_str_safe \/ mp_encode_bin_safe \/ mp_encode_ext_safe
    \/ mp_encode_strl_safe \/ mp_encode_binl_safe \/ mp_encode_extl_safe \/ mp_memcpy_safe
    \/ mp_encode_nil_safe \/ mp_encode_bool_safe \/ mp_encode_float_safe \/ mp_encode_double_safe
    \/ Loop
    \/ DartInt \/ DartString \/ DartBinary \/ DartList \/ DartMap

Spec == Init /\ [][Next]_vars

-----------------------------------------------------------------------------
(* Properties.                                                              *)

TypeOK ==
    /\ data_sz \in Int /\ size \in Nat /\ {todo, owed, calls} \subseteq Nat
    /\ data \in Seq(0 .. 255) /\ whole \in Seq(0 .. 255)

(* The protocol of the safe encoders: a caller that only looks at data_sz     *)
(* in the end knows what it needs.  Nothing is written past the room given,   *)
(* what is written is a prefix of the document, data_sz is the room minus the *)
(* size of the whole document even when that is negative (so each mp_sizeof_* *)
(* tells what its mp_encode_* writes), and as long as it is not negative      *)
(* nothing is missing.                                                        *)
SafeNeverOverruns ==
    writer = "native" =>
        /\ Len(data) <= size
        /\ IsPrefix(data, whole)
        /\ Len(whole) = size - data_sz
        /\ data_sz >= 0 => data = whole

\* How long the header of the value written last is, and the check for it.
HeaderCheck(type, cur, end) ==
    CASE type = "array"                    -> mp_check_array(whole, cur, end)
      [] type = "map"                      -> mp_check_map(whole, cur, end)
      [] type \in {"str", "strl"}          -> mp_check_strl(whole, cur, end)
      [] type \in {"bin", "binl"}          -> mp_check_binl(whole, cur, end)
      [] type \in {"ext", "extl"}          -> mp_check_extl(whole, cur, end)
      [] type \in {"uint", "int"}          -> mp_check_uint(whole, cur, end)
      [] type \in {"nil", "bool"}          -> mp_check_nil(cur, end)
      [] type = "float"                    -> mp_check_float(cur, end, 4)
      [] type = "double"                   -> mp_check_float(cur, end, 8)

\* Where the reader of the type continues after a value or a header.
Decoded(type, p) ==
    CASE type = "array"  -> mp_decode_array(whole, p)
      [] type = "map"    -> mp_decode_map(whole, p)
      [] type = "str"    -> mp_decode_str(whole, p)
      [] type = "bin"    -> mp_decode_bin(whole, p)
      [] type = "ext"    -> mp_decode_ext(whole, p)
      [] type = "strl"   -> mp_decode_strl(whole, p)
      [] type = "binl"   -> mp_decode_binl(whole, p)
      [] type = "extl"   -> mp_decode_extl(whole, p)
      [] type = "uint"   -> mp_decode_uint(whole, p)
      [] type = "int"    -> mp_decode_int(whole, p)
      [] type = "bool"   -> mp_decode_bool(whole, p)
      [] type = "float"  -> mp_decode_float(whole, p)
      [] type = "double" -> mp_decode_double(whole, p)
      [] type = "nil"    -> Read(0, p + 1)

Payload(type) == type \in {"str", "bin", "ext"}
Written == last.value.type # "none" /\ (owed = 0 => ~last.value.type \in {"strl", "binl", "extl"})
NativeValue == last.value.type \notin {"dart int", "dart str"}

(* What a reader of the native side gets is what was written, whoever wrote  *)
(* it: mp_decode_* returns the value and stops where it ends, and each       *)
(* mp_check_* says for every end of the data how many bytes of the header    *)
(* are missing, and nothing else.                                            *)
ReadsBack ==
    Written /\ NativeValue =>
        LET type == last.value.type
            r == Decoded(type, last.at)
            header == IF Payload(type) THEN r.next - last.value.arg ELSE r.next
        IN  /\ r.value = last.value.arg
            /\ r.next = Len(whole) + 1
            /\ mp_typeof(whole[last.at]) =
                 (CASE type = "strl" -> "str" [] type = "binl" -> "bin"
                    [] type = "extl" -> "ext" [] OTHER -> type)
            /\ type \in {"str", "bin"} => mp_decode_strbin(whole, last.at) = r
            /\ \A end \in last.at + 1 .. header :
                 HeaderCheck(type, last.at, end) = header - end

(* The readers with a range take exactly the numbers in it, of either sign:  *)
(* mp_read_int8 .. 64 return the number written, and refuse, without moving, *)
(* each one that does not fit; mp_compare_uint orders encoded numbers as     *)
(* the numbers are ordered, for every pair.                                  *)
IntegersKeepOrder ==
    last.value.type \in {"uint", "int"} =>
        LET num == last.value.arg
            Reads(width, r) ==
                IF FitsSigned(num, width) /\ (last.value.type = "uint" => ~Negative(num))
                THEN r = Read(num, Len(whole) + 1) ELSE r = Refuse(last.at)
        IN  /\ Reads(1, mp_read_int8(whole, last.at)) /\ Reads(2, mp_read_int16(whole, last.at))
            /\ Reads(4, mp_read_int32(whole, last.at)) /\ Reads(8, mp_read_int64(whole, last.at))
            /\ last.value.type = "uint" => \A other \in Numbers :
                 mp_compare_uint(SubSeq(whole, last.at, Len(whole)), mp_encode_uint(other)) =
                   IF Before(num, other) THEN -1 ELSE IF num = other THEN 0 ELSE 1

Complete == todo = 0 /\ owed = 0

(* mp_next, which box.c walks the tuples of a request with, stops exactly     *)
(* after a complete document, and reads no byte after it: not even when its   *)
(* slow path looks at eight bytes at a time for runs of equal values.         *)
NextStopsAtEnd ==
    Complete => LET s == mp_next(whole, 1) IN s.p = Len(whole) + 1 /\ s.top <= Len(whole)

(* mp_check accepts a complete document, and no proper part of it; of a       *)
(* document that is still being written it says how many values are missing. *)
(* mp_check_exact refuses one more byte.                                      *)
CheckCountsMissing ==
    /\ Complete =>
        /\ LET s == mp_check(whole, 1, Len(whole) + 1) IN s.err = "ok" /\ s.p = Len(whole) + 1
        /\ \A end \in 2 .. Len(whole) : mp_check(whole, 1, end).err = "trunc"
        /\ mp_check_exact(whole \o <<192>>, 1, Len(whole) + 2).err = "junk"
    /\ ~Complete /\ owed = 0 =>
        LET s == mp_check(whole, 1, Len(whole) + 1) IN s.err = "trunc" /\ s.k = todo

(* What Dart reads is what Dart wrote, as the tests of the tuples expect.    *)
DartReadsBack ==
    /\ last.value.type = "dart int" =>
         tupleReadInt(whole, last.at) = Read(last.value.arg, Len(whole) + 1)
    /\ last.value.type = "dart str" =>
         tupleReadString(whole, last.at) = Read(last.value.arg, Len(whole) + 1)

(* Every reader of a single value takes what was written, numbers in every     *)
(* width included.                                                            *)
ReadersInv == ReadsBack /\ IntegersKeepOrder

(* The two walks over a whole document, mp_next and mp_check, agree with how it *)
(* was written and with each other on where it ends.                          *)
WalksInv == TypeOK /\ NextStopsAtEnd /\ CheckCountsMissing
=============================================================================
