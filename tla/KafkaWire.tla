------------------------------ MODULE KafkaWire ------------------------------
(***************************************************************************)
(* The wire layer of the Kafka client: packet_encoder, packet_decoder and  *)
(* the two-pass encode().                                                  *)
(*                                                                         *)
(* A message body is described by two layouts, one for its encode() and    *)
(* one for its decode(): tuples of items, an item for every put or get the *)
(* function makes.  Put and Get interpret the items as packet_encoder and  *)
(* packet_decoder do.  The wire is a sequence of tokens, a token for every *)
(* value put: its representation ("i8", "i16", "i32", "i64", "uv" for an   *)
(* unsigned varint, "raw" for bytes) and its value, which is kept for      *)
(* lengths only.  Reading a token as another representation stands for     *)
(* reading the wrong bytes.                                                *)
(***************************************************************************)
EXTENDS Integers, Sequences, SequencesExt

----------------------------------------------------------------------------
(* Layout items.                                                           *)

Item(k, f, sub) == [k |-> k, f |-> f, sub |-> sub]

I8(f)    == Item("i8", f, <<>>)
I16(f)   == Item("i16", f, <<>>)
I32(f)   == Item("i32", f, <<>>)
I64(f)   == Item("i64", f, <<>>)
Bool(f)  == I8(f)               \* putBool is putInt8
KErr(f)  == I16(f)              \* putKError is putInt16
Dur(f)   == I32(f)              \* putDurationMs is putInt32
F64(f)   == I64(f)              \* putFloat64 is putInt64
Uuid(f)  == Item("uuid", f, <<>>)
Str(f)   == Item("str", f, <<>>)
NStr(f)  == Item("nstr", f, <<>>)
Bytes(f) == Item("bytes", f, <<>>)
I32s(f)  == Item("i32s", f, <<>>)
NI32s(f) == Item("ni32s", f, <<>>)
I64s(f)  == Item("i64s", f, <<>>)
Strs(f)  == Item("strs", f, <<>>)
Tags     == Item("tags", "tags", <<>>)

\* putArrayLength(size) and a loop, getArrayLength(n) and a loop
Arr(f, sub)  == Item("arr", f, sub)
\* the encoder writes length -1 for an empty array
NArr(f, sub) == Item("narr", f, sub)
\* the decoder returns from its function when the array is empty
ArrOrReturn(f, sub) == Item("arr_or_return", f, sub)
\* the decoder returns an error when the array is empty, or has length -1
ArrNotEmpty(f, sub) == Item("arr_not_empty", f, sub)
ArrNotNull(f, sub)  == Item("arr_not_null", f, sub)
\* the decoder reads a value and drops it
Lost(sub) == Item("lost", "", sub)
\* a LengthField of four bytes in any mode, and the bytes it counts
Blob(f) == Item("blob", f, <<>>)
\* a string that is never empty
Name(f) == Item("name", f, <<>>)
\* a tagged field that is present when c.err
TaggedErr(f) == Item("tagged_err", f, <<>>)
\* a call of another encode() or decode(), a frame of its own
Call(sub) == Item("call", "", sub)
\* a decode() whose result is tested the wrong way round
CallInverted(sub) == Item("call_inverted", "", sub)
\* several items, and items present in some versions only
All(sub)     == Item("all", "", sub)
Nothing      == All(<<>>)
Opt(c, item) == IF c THEN item ELSE Nothing
Fail         == Item("fail", "", <<>>)   \* the function gives up with an error
Return       == Item("return", "", <<>>)

----------------------------------------------------------------------------
(* Encoding.  c.flex: the body is encoded between __push_flexible and      *)
(* __pop_flexible; c.sizes: the lengths of arrays by nesting depth; c.str: *)
(* the length of strings and byte arrays; c.err: error codes are set.      *)
(* What is put is the length the PREP pass adds up, the tokens the REAL    *)
(* pass writes and the values.                                             *)

Tok(k, n) == [k |-> k, n |-> n]
Width(t) == CASE t.k = "raw" -> t.n
              [] t.k = "i8"  -> 1
              [] t.k = "i16" -> 2
              [] t.k = "i32" -> 4
              [] t.k = "i64" -> 8
              [] t.k = "uv"  -> IF t.n < 128 THEN 1 ELSE IF t.n < 16384 THEN 2 ELSE 3

\* The bytes of a wire, summed by halves: a long one nests little.
Size(wire) ==
    LET RECURSIVE Sum(_, _)
        Sum(i, j) == CASE i > j -> 0
                       [] i = j -> Width(wire[i])
                       [] i < j -> LET k == (i + j) \div 2 IN Sum(i, k) + Sum(k + 1, j)
    IN  Sum(1, Len(wire))

Wrote(prep, wire, put) == [prep |-> prep, wire |-> wire, put |-> put, ok |-> TRUE]
\* most puts add to m_length in PREP what they write in REAL
Same(wire, put) == Wrote(Size(wire), wire, put)
Joined(a, b) == IF ~a.ok THEN a
                ELSE [prep |-> a.prep + b.prep, wire |-> a.wire \o b.wire,
                      put |-> a.put \o b.put, ok |-> b.ok]

RawBytes(n) == IF n = 0 THEN <<>> ELSE <<Tok("raw", n)>>
putUVarint(n) == <<Tok("uv", n)>>
putArrayLength(c, n) == IF c.flex THEN putUVarint(n + 1) ELSE <<Tok("i32", n)>>
putString(c, n) == (IF c.flex THEN putUVarint(n + 1) ELSE <<Tok("i16", n)>>) \o RawBytes(n)
putNullableString(c, n) ==
    IF n > 0 THEN putString(c, n)
    ELSE IF c.flex THEN putUVarint(0) ELSE <<Tok("i16", -1)>>
putBytes(c, n) ==
    IF c.flex THEN putUVarint(n + 1) \o RawBytes(n)
    ELSE IF n = 0 THEN <<Tok("i32", -1)>> ELSE <<Tok("i32", n)>> \o RawBytes(n)
putEmptyTaggedFieldArray(c) == IF c.flex THEN putUVarint(0) ELSE <<>>

Copies(n, s) == [i \in 1..n * Len(s) |-> s[((i - 1) % Len(s)) + 1]]
putInt32Array(c, n) == putArrayLength(c, n) \o Copies(n, <<Tok("i32", 0)>>)
putNullableInt32Array(c, n) ==
    IF n > 0 THEN putInt32Array(c, n)
    ELSE IF c.flex THEN putUVarint(0) ELSE <<Tok("i32", -1)>>
putInt64Array(c, n) == putArrayLength(c, n) \o Copies(n, <<Tok("i64", 0)>>)

\* In flexible mode the PREP pass of putStringArray counts four bytes for
\* every string, whatever its length.
putStringArray(c, n) ==
    LET wire == putArrayLength(c, n) \o Copies(n, putString(c, c.str))
    IN  Wrote(IF c.flex THEN Size(putArrayLength(c, n)) + 4 * n ELSE Size(wire),
              wire, Copies(n, <<<<"string", c.str>>>>))

SizeAt(c) == c.sizes[IF c.depth < Len(c.sizes) THEN c.depth + 1 ELSE Len(c.sizes)]
Deeper(c) == [c EXCEPT !.depth = @ + 1]

RECURSIVE Put(_, _)
PutAll(items, c) == FoldLeft(LAMBDA a, it : Joined(a, Put(it, c)), Same(<<>>, <<>>), items)
Put(it, c) ==
    LET n == SizeAt(c)
        element == PutAll(it.sub, Deeper(c))
        array(wire) == Joined(Same(wire, <<<<it.f, n>>>>),
            IF n = 0 THEN Same(<<>>, <<>>)
            ELSE [element EXCEPT !.prep = n * @, !.wire = Copies(n, @), !.put = Copies(n, @)])
    IN CASE it.k \in {"i8", "i16", "i32", "i64"} -> Same(<<Tok(it.k, 0)>>, <<<<it.f, 0>>>>)
         [] it.k = "uuid"  -> Same(RawBytes(16), <<<<it.f, 16>>>>)
         [] it.k = "str"   -> Same(putString(c, c.str), <<<<it.f, c.str>>>>)
         [] it.k = "nstr"  -> Same(putNullableString(c, c.str), <<<<it.f, c.str>>>>)
         [] it.k = "bytes" -> Same(putBytes(c, c.str), <<<<it.f, c.str>>>>)
         [] it.k = "i32s"  -> Same(putInt32Array(c, n), <<<<it.f, n>>>>)
         [] it.k = "ni32s" -> Same(putNullableInt32Array(c, n), <<<<it.f, n>>>>)
         [] it.k = "i64s"  -> Same(putInt64Array(c, n), <<<<it.f, n>>>>)
         [] it.k = "strs"  -> Joined(Same(<<>>, <<<<it.f, n>>>>), putStringArray(c, n))
         [] it.k = "tags"  -> Same(putEmptyTaggedFieldArray(c), <<>>)
         [] it.k = "blob"  -> Same(<<Tok("i32", 1)>> \o RawBytes(1), <<<<it.f, 1>>>>)
         [] it.k = "name"  -> Same(putString(c, 1), <<<<it.f, 1>>>>)
         [] it.k = "tagged_err" ->
              IF c.err THEN Same(putUVarint(1) \o putUVarint(0) \o putUVarint(2) \o <<Tok("i16", 0)>>,
                                 <<<<it.f, 0>>>>)
              ELSE Same(putEmptyTaggedFieldArray(c), <<>>)
         [] it.k = "arr"   -> array(putArrayLength(c, n))
         [] it.k = "narr"  -> array(putArrayLength(c, IF n = 0 THEN -1 ELSE n))
         [] it.k \in {"all", "call"} -> PutAll(it.sub, c)
         [] it.k = "fail"  -> [Same(<<>>, <<>>) EXCEPT !.ok = FALSE]

----------------------------------------------------------------------------
(* Decoding.  A reader is the tokens left, the values got and how the      *)
(* function stands: still reading, returned early, or failed.              *)

Reader(wire) == [wire |-> wire, got |-> <<>>, st |-> "ok"]
Failed(r)    == [r EXCEPT !.st = "err"]
Got(r, f, n) == [r EXCEPT !.got = Append(@, <<f, n>>)]
NonNeg(n)    == IF n < 0 THEN 0 ELSE n

\* The next token, when it has the representation asked for: the getters' tests for
\* data that is missing or malformed.
NextIs(r, k) == r.st = "ok" /\ r.wire # <<>> /\ Head(r.wire).k = k
Skip(r)      == [r EXCEPT !.wire = Tail(@)]

getRawBytes(r, n) ==
    IF r.st # "ok" \/ n = 0 THEN r
    ELSE IF n > 0 /\ NextIs(r, "raw") /\ Head(r.wire).n = n THEN Skip(r) ELSE Failed(r)

\* A length with representation k and what follows it, after(reader, length).
Length(r, k, after(_, _)) ==
    IF r.st # "ok" THEN r
    ELSE IF ~NextIs(r, k) THEN Failed(r)
    ELSE after(Skip(r), Head(r.wire).n)

\* The four bytes of a length n ORed as signed chars: the lowest one of 0x80 or more,
\* byte k, sets every bit above it. (Byte 3 is the sign of n itself.)
OrOfChars(n) ==
    LET negative == {k \in 0..2 : (n \div 256^k) % 256 >= 128}
    IN  IF negative = {} THEN n
        ELSE LET above == 256^(Min(negative) + 1) IN (n % above) - above

\* getArrayLength: in fixed mode the OR of the bytes, and too much is an error; in
\* flexible mode one less than u, the varint read; a null array (0) has length 0.
MaxResponseSize == 104857600
getArrayLength(c, u) == IF ~c.flex THEN OrOfChars(u) ELSE IF u = 0 THEN 0 ELSE u - 1
ArrayLength(r, c, after(_, _)) ==
    Length(r, IF c.flex THEN "uv" ELSE "i32", LAMBDA q, u :
        IF ~c.flex /\ OrOfChars(u) > MaxResponseSize THEN Failed(q)
        ELSE after(q, getArrayLength(c, u)))

\* getString and getNullableString: a null string is read as an empty one.
getString(r, c, f) ==
    LET body(q, n) == getRawBytes(Got(q, f, NonNeg(n)), NonNeg(n))
    IN  IF c.flex THEN Length(r, "uv", LAMBDA q, u : body(q, u - 1)) ELSE Length(r, "i16", body)

\* getBytes: -1 is null in fixed mode, an error in flexible mode.
getBytes(r, c, f) ==
    IF c.flex THEN Length(r, "uv", LAMBDA q, u : getRawBytes(Got(q, f, u - 1), u - 1))
    ELSE Length(r, "i32", LAMBDA q, n : getRawBytes(Got(q, f, NonNeg(n)), IF n = -1 THEN 0 ELSE n))

\* A loop of n steps, left at an error; halved, so that a long one nests little.
Repeat(r, n, op(_)) ==
    LET RECURSIVE Steps(_, _)
        Steps(q, k) == IF q.st # "ok" \/ k <= 0 THEN q
                       ELSE IF k = 1 THEN op(q)
                       ELSE Steps(Steps(q, k \div 2), k - k \div 2)
    IN  Steps(r, n)

\* getRawBytes of n bytes, whatever values they are. Part of a value stands for the
\* wrong bytes.
skipBytes(r, n) ==
    LET ends == {i \in 0..Len(r.wire) : Size(SubSeq(r.wire, 1, i)) = n}
    IN  IF r.st # "ok" THEN r
        ELSE IF ends = {} THEN Failed(r)
        ELSE [r EXCEPT !.wire = SubSeq(@, Min(ends) + 1, Len(@))]

\* getEmptyTaggedFieldArray: a tag is its number, its length and that many bytes.
skipTag(r) == Length(r, "uv", LAMBDA q, tag_id : Length(q, "uv", skipBytes))
getEmptyTaggedFieldArray(r, c) ==
    IF ~c.flex THEN r ELSE Length(r, "uv", LAMBDA q, tag_count : Repeat(q, tag_count, skipTag))

\* getTaggedFieldArray with a handler for tag 0, which getTaggedFieldArray
\* calls on the same decoder after it has read the field's bytes itself.
getTaggedFieldArray(r, f) ==
    Length(r, "uv", LAMBDA q, tag_count :
        IF tag_count = 0 THEN q
        ELSE LET bytes == Length(Skip(q), "uv", LAMBDA s, n : s)
             IN  IF NextIs(bytes, "i16") /\ NextIs(Skip(bytes), "i16")
                 THEN Got(Skip(Skip(bytes)), f, 0) ELSE Failed(bytes))

getInt(r, k, f) == IF r.st # "ok" THEN r ELSE IF NextIs(r, k) THEN Got(Skip(r), f, 0) ELSE Failed(r)
\* the elements of an array of integers are not got one by one
skipInt(r, k) == IF r.st # "ok" THEN r ELSE IF NextIs(r, k) THEN Skip(r) ELSE Failed(r)

getInt32Array(r, c, f) ==
    ArrayLength(r, c, LAMBDA q, n : Repeat(Got(q, f, NonNeg(n)), n, LAMBDA s : skipInt(s, "i32")))
getInt64Array(r, c, f) ==
    ArrayLength(r, c, LAMBDA q, n : Repeat(Got(q, f, NonNeg(n)), n, LAMBDA s : skipInt(s, "i64")))
getStringArray(r, c, f) ==
    ArrayLength(r, c, LAMBDA q, n : Repeat(Got(q, f, NonNeg(n)), n, LAMBDA s : getString(s, c, "string")))

\* The end of a function's frame: a return is over, an error is passed on.
EndOfCall(r) == IF r.st = "ret" THEN [r EXCEPT !.st = "ok"] ELSE r

RECURSIVE Get(_, _, _)
GetAll(r, items, c) == FoldLeft(LAMBDA q, it : IF q.st = "ok" THEN Get(q, it, c) ELSE q, r, items)
Get(r, it, c) ==
    LET array(empty(_, _)) == ArrayLength(r, c, LAMBDA q, n :
            IF n <= 0 THEN empty(Got(q, it.f, 0), n)
            ELSE Repeat(Got(q, it.f, n), n, LAMBDA s : GetAll(s, it.sub, c)))
    IN CASE it.k \in {"i8", "i16", "i32", "i64"} -> getInt(r, it.k, it.f)
         [] it.k = "uuid"  -> getRawBytes(Got(r, it.f, 16), 16)
         [] it.k \in {"str", "nstr"} -> getString(r, c, it.f)
         [] it.k = "bytes" -> getBytes(r, c, it.f)
         [] it.k \in {"i32s", "ni32s"} -> getInt32Array(r, c, it.f)
         [] it.k = "i64s"  -> getInt64Array(r, c, it.f)
         [] it.k = "strs"  -> getStringArray(r, c, it.f)
         [] it.k = "tags"  -> getEmptyTaggedFieldArray(r, c)
         [] it.k = "blob"  -> Length(r, "i32", LAMBDA q, n : getRawBytes(Got(q, it.f, n), n))
         [] it.k = "name"  -> getString(r, c, it.f)
         [] it.k = "tagged_err" -> getTaggedFieldArray(r, it.f)
         [] it.k = "lost"  -> [GetAll(r, it.sub, c) EXCEPT !.got = r.got]
         [] it.k = "arr"   -> array(LAMBDA q, n : q)
         [] it.k = "arr_or_return" -> array(LAMBDA q, n : [q EXCEPT !.st = "ret"])
         [] it.k = "arr_not_empty" -> array(LAMBDA q, n : Failed(q))
         [] it.k = "arr_not_null"  -> array(LAMBDA q, n : IF n < 0 THEN Failed(q) ELSE q)
         [] it.k = "all"  -> GetAll(r, it.sub, c)
         [] it.k = "call" -> EndOfCall(GetAll(r, it.sub, c))
         \* `if (!decode(...)) return ErrDecodeError': success is taken for failure
         [] it.k = "call_inverted" ->
              LET q == EndOfCall(GetAll(r, it.sub, c))
              IN  IF q.st = "ok" THEN Failed(q) ELSE [q EXCEPT !.st = "ok"]
         [] it.k = "return" -> [r EXCEPT !.st = "ret"]
         [] it.k = "fail"   -> Failed(r)

----------------------------------------------------------------------------
(* What a message type declares besides its layouts: its valid versions,   *)
(* the first flexible one, its header version and the Kafka release each   *)
(* version needs.                                                          *)

Never == 99
Meta(lo, hi, flex, header, required) ==
    [lo |-> lo, hi |-> hi, flex |-> flex, header |-> header, required |-> required]
\* header_version(): the base version, one more from version `from' on
From(from, base) == [v \in 0..15 |-> IF v >= from THEN base + 1 ELSE base]
Always(h) == [v \in 0..15 |-> h]
\* A message type, with its layouts for every valid version.
Msg(kind, encode(_), decode(_), meta) ==
    [kind |-> kind, meta |-> meta, encode |-> [v \in meta.lo..meta.hi |-> encode(v)],
     decode |-> [v \in meta.lo..meta.hi |-> decode(v)]]
Request(encode(_), decode(_), meta)  == Msg("request", encode, decode, meta)
Response(encode(_), decode(_), meta) == Msg("response", encode, decode, meta)
\* What is carried as bytes in other messages has no header.
Payload(encode(_), decode(_), hi) ==
    Msg("payload", encode, decode, Meta(0, hi, Never, Always(0), [v \in 1..hi + 1 |-> 0]))

\* KafkaVersion: four numbers, compared lexicographically by IsAtLeast; the
\* constants of version.h differ in the first three.
KafkaVersion(a, b, c) == 10000 * a + 100 * b + c
IsAtLeast(a, b) == a >= b
\* KafkaVersion::operator>=, which is not that order: the major numbers alone,
\* or any later pair of equal and ordered numbers, make it true.
GreaterOrEqual(a, b) ==
    LET n(x, i) == CASE i = 0 -> x \div 10000 [] i = 1 -> (x \div 100) % 100
                     [] i = 2 -> x % 100 [] i = 3 -> 0
    IN  \/ n(a, 0) >= n(b, 0)
        \/ \E i \in 0..2 : n(a, i) = n(b, i) /\ n(a, i + 1) >= n(b, i + 1)
V0_8_2  == KafkaVersion(0, 8, 2)
V0_9    == KafkaVersion(0, 9, 0)
V0_10_0 == KafkaVersion(0, 10, 0)
V0_10_1 == KafkaVersion(0, 10, 1)
V0_10_2 == KafkaVersion(0, 10, 2)
V0_11   == KafkaVersion(0, 11, 0)
V1_0    == KafkaVersion(1, 0, 0)
V1_1    == KafkaVersion(1, 1, 0)
V2_0    == KafkaVersion(2, 0, 0)
V2_1    == KafkaVersion(2, 1, 0)
V2_2    == KafkaVersion(2, 2, 0)
V2_3    == KafkaVersion(2, 3, 0)
V2_4    == KafkaVersion(2, 4, 0)
V2_5    == KafkaVersion(2, 5, 0)
V2_6    == KafkaVersion(2, 6, 0)
V2_7    == KafkaVersion(2, 7, 0)
V2_8    == KafkaVersion(2, 8, 0)
V3_0    == KafkaVersion(3, 0, 0)
V3_2    == KafkaVersion(3, 2, 0)
V3_3    == KafkaVersion(3, 3, 0)
V3_8    == KafkaVersion(3, 8, 0)
=============================================================================
