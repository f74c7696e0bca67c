----------------------------- MODULE ProtoCodec -----------------------------
(***************************************************************************)
(* The protobuf codecs generated by gogoproto for the messages of          *)
(* x/reward/types/types.pb.go, x/oracle/types/info.pb.go and               *)
(* x/delegation/types/genesis.pb.go.  Every generated message has the same *)
(* four functions, instances of one template: Size, MarshalToSizedBuffer   *)
(* (which writes the fields backwards from the end of a buffer of exactly  *)
(* Size bytes), Marshal, and Unmarshal (which reads varint tags, checks    *)
(* the wire type of each known field, and hands unknown fields to skip).   *)
(* The template is written once here, as operators over a schema; each     *)
(* message's generated code is its schema: the field numbers, their wire  *)
(* types, and how each field is stored.                                     *)
(*                                                                         *)
(* Integers have the widths of the code, scaled: IntBits stands for the    *)
(* 64 bits of Go's int and uint64 (and the `shift >= 64` overflow check),  *)
(* Int32Bits for the 32 bits of int32.  A Go panic (an index or slice out  *)
(* of range) is the result Panic.                                          *)
(***************************************************************************)
EXTENDS Integers, Sequences, SequencesExt, FiniteSets, Bitwise, TLC

CONSTANTS
    IntBits,     \* width of Go int / uint64 (64 in the code)
    Int32Bits,   \* width of Go int32 (32 in the code)
    Null,        \* a nil message pointer
    MsgTypes,    \* the messages whose codec is exercised
    Samples,     \* MsgTypes -> set of sequences of 1..2 values to encode back to back
    RawInputs    \* byte strings handed to Unmarshal as they are

ASSUME IntBits \in 8..20 /\ Int32Bits \in 4..IntBits

Bytes == 0..255

(***************************************************************************)
(* Machine integers.                                                       *)
(***************************************************************************)
UInt(x)            == x % (2^IntBits)                        \* uint64(x)
Signed(x, w)       == LET u == x % (2^w) IN IF u >= 2^(w-1) THEN u - 2^w ELSE u
AsInt(x)           == Signed(x, IntBits)                     \* int(x)
AsInt32(x)         == Signed(x, Int32Bits)                   \* int32(x)

RECURSIVE BitLen(_)
BitLen(x) == IF x = 0 THEN 0 ELSE 1 + BitLen(x \div 2)       \* math_bits.Len64

(* Mutant: sov without `x|1`, so that zero has an empty encoding.         *)
SovWithoutOr(x) == (BitLen(x) + 6) \div 7

(* sovTypes: the length of the varint encoding of x.                       *)
Sov(x) == (BitLen(IF x % 2 = 0 THEN x + 1 ELSE x) + 6) \div 7

(* Mutant: the `for v >= 1<<7` loop is dropped; v is stored in one byte.  *)
VarintBytesUnsplit(v) == <<v>>

(* The bytes encodeVarintTypes writes for v, low group first.              *)
RECURSIVE VarintBytes(_)
VarintBytes(v) ==
    IF v >= 128 THEN <<(v % 128) + 128>> \o VarintBytes(v \div 128) ELSE <<v>>

(***************************************************************************)
(* Schemas.  A field is stored as a string or bytes, a uint64, an int32 or *)
(* a bool varint, a repeated string, a map<uint64,string>, or an embedded *)
(* message: non-nullable, a nullable pointer, or repeated.                 *)
(***************************************************************************)
Str           == [kind |-> "string"]
U64           == [kind |-> "uint64"]
I32           == [kind |-> "int32"]
Bool          == [kind |-> "bool"]
RepStr        == [kind |-> "repstring"]
MapU64Str     == [kind |-> "map"]
Msg(t)        == [kind |-> "msg", of |-> t]
OptMsg(t)     == [kind |-> "optmsg", of |-> t]
RepMsg(t)     == [kind |-> "repmsg", of |-> t]

WireType(k) == IF k.kind \in {"uint64", "int32", "bool"} THEN 0 ELSE 2
Tag(f, k)   == f * 8 + WireType(k)

(* x/reward/types/types.pb.go                                              *)
PoolSchema             == 1 :> Str @@ 2 :> RepMsg("Pool_Reward")
Pool_RewardSchema      == 1 :> Str @@ 2 :> RepMsg("Coin")
(* x/oracle/types/info.pb.go                                               *)
ChainSchema            == 1 :> Str @@ 2 :> Str
TokenSchema            == 1 :> Str @@ 2 :> U64 @@ 3 :> Str @@ 4 :> I32 @@ 5 :> Bool @@ 6 :> Str
EndpointSchema         == 1 :> MapU64Str @@ 2 :> MapU64Str
SourceSchema           == 1 :> Str @@ 2 :> OptMsg("Endpoint") @@ 3 :> Bool @@ 4 :> Bool
(* x/delegation/types/genesis.pb.go                                        *)
GenesisStateSchema     == 1 :> RepMsg("StakerToOperator") @@ 2 :> RepMsg("DelegationStates")
                          @@ 3 :> RepMsg("StakersByOperator") @@ 4 :> RepMsg("UndelegationRecord")
DelegationStatesSchema == 1 :> Str @@ 2 :> Msg("DelegationAmounts")
StakersByOperatorSchema == 1 :> Str @@ 2 :> RepStr
DelegationsByStakerSchema == 1 :> Str @@ 2 :> RepMsg("DelegatedSingleAssetInfo")
StakerToOperatorSchema == 1 :> Str @@ 2 :> Str
(* Messages of packages not under src/ (sdk.Coin and the delegation types *)
(* of other files), generated by the same template; one string field.     *)
ExternalSchema         == 1 :> Str

Schema ==
    [m \in {"Pool", "Pool_Reward", "Chain", "Token", "Endpoint", "Source", "GenesisState",
            "DelegationStates", "StakersByOperator", "DelegationsByStaker", "StakerToOperator",
            "Coin", "DelegationAmounts", "UndelegationRecord", "DelegatedSingleAssetInfo"} |->
        CASE m = "Pool"                -> PoolSchema
          [] m = "Pool_Reward"         -> Pool_RewardSchema
          [] m = "Chain"               -> ChainSchema
          [] m = "Token"               -> TokenSchema
          [] m = "Endpoint"            -> EndpointSchema
          [] m = "Source"              -> SourceSchema
          [] m = "GenesisState"        -> GenesisStateSchema
          [] m = "DelegationStates"    -> DelegationStatesSchema
          [] m = "StakersByOperator"   -> StakersByOperatorSchema
          [] m = "DelegationsByStaker" -> DelegationsByStakerSchema
          [] m = "StakerToOperator"    -> StakerToOperatorSchema
          [] OTHER                     -> ExternalSchema]

(* The zero value of a message: Reset() / &T{}.                            *)
RECURSIVE Default(_)
Default(t) ==
    [f \in DOMAIN Schema[t] |->
        LET k == Schema[t][f] IN
        CASE k.kind = "string"  -> <<>>
          [] k.kind \in {"uint64", "int32"} -> 0
          [] k.kind = "bool"    -> FALSE
          [] k.kind \in {"repstring", "repmsg"} -> <<>>
          [] k.kind = "map"     -> <<>>
          [] k.kind = "msg"     -> Default(k.of)
          [] k.kind = "optmsg"  -> Null]

(***************************************************************************)
(* Size: the generated Size(), field by field.  Tags are one byte.         *)
(***************************************************************************)
MapKeys(mp) == SetToSortSeq(DOMAIN mp, <)

Fields(t) == SetToSortSeq(DOMAIN Schema[t], <)

SumSeq(s) == FoldLeft(LAMBDA a, b : a + b, 0, s)

LenField(l) == 1 + l + Sov(l)

MapEntrySize(k, v) == 1 + Sov(k) + 1 + Len(v) + Sov(Len(v))

RECURSIVE Size(_, _)
Size(t, m) ==
    LET FieldSize(k, v) ==
            CASE k.kind = "string"    -> IF Len(v) > 0 THEN LenField(Len(v)) ELSE 0
              [] k.kind = "uint64"    -> IF v # 0 THEN 1 + Sov(v) ELSE 0
              [] k.kind = "int32"     -> IF v # 0 THEN 1 + Sov(UInt(v)) ELSE 0
              [] k.kind = "bool"      -> IF v THEN 2 ELSE 0
              [] k.kind = "repstring" -> SumSeq([j \in DOMAIN v |-> LenField(Len(v[j]))])
              [] k.kind = "repmsg"    -> SumSeq([j \in DOMAIN v |-> LenField(Size(k.of, v[j]))])
              [] k.kind = "msg"       -> LenField(Size(k.of, v))
              [] k.kind = "optmsg"    -> IF v # Null THEN LenField(Size(k.of, v)) ELSE 0
              [] k.kind = "map"       ->
                    MapThenSumSet(LAMBDA key : LET e == MapEntrySize(key, v[key]) IN e + 1 + Sov(e),
                                  DOMAIN v)
    IN  SumSeq([j \in 1..Len(Fields(t)) |-> FieldSize(Schema[t][Fields(t)[j]], m[Fields(t)[j]])])

(***************************************************************************)
(* MarshalToSizedBuffer writes backwards from index i of dAtA, a buffer   *)
(* of `size` bytes that holds zeros below i.  The state of a write is      *)
(* [out, i, size, ok] with out = dAtA[i:size]; an index out of range is a  *)
(* panic (ok = FALSE).  `desc` is the set of map fields whose entries the  *)
(* Go map iteration happens to visit in descending key order.             *)
(***************************************************************************)
Zeros(n) == [j \in 1..n |-> 0]

(* dAtA[at:at+len(bs)] = bs, for at <= i; the state then starts at `at`.   *)
WriteAt(st, at, bs) ==
    IF ~st.ok \/ at < 0 \/ at + Len(bs) > st.size THEN [st EXCEPT !.ok = FALSE]
    ELSE LET old == Zeros(st.i - at) \o st.out
         IN  [st EXCEPT !.out = bs \o SubSeq(old, Len(bs) + 1, Len(old)), !.i = at]

(* i--; dAtA[i] = b                                                        *)
PutByte(st, b) == WriteAt(st, st.i - 1, <<b>>)

(* i -= len(s); copy(dAtA[i:], s)                                          *)
PutBytes(st, s) == WriteAt(st, st.i - Len(s), s)

(* i = encodeVarintTypes(dAtA, i, v): offset -= sov(v), then the varint   *)
(* is written forwards from there.                                         *)
EncodeVarint(st, v) == WriteAt(st, st.i - Sov(v), VarintBytes(v))

PutLenDelimited(st, s, tag) == PutByte(EncodeVarint(PutBytes(st, s), Len(s)), tag)

RECURSIVE MarshalToSizedBuffer(_, _, _, _)
(* An embedded message: its own MarshalToSizedBuffer on dAtA[:i], whose   *)
(* result n moves i down, then the varint n and the tag.                   *)
PutMsg(st, t, v, tag, desc) ==
    LET sub == MarshalToSizedBuffer(t, v, [out |-> <<>>, i |-> st.i, size |-> st.i, ok |-> st.ok], desc)
        st1 == [out |-> sub.out \o st.out, i |-> sub.i, size |-> st.size, ok |-> sub.ok]
    IN  PutByte(EncodeVarint(st1, st.i - sub.i), tag)

(* One map entry, as Endpoint.MarshalToSizedBuffer writes it.               *)
PutMapEntry(st, k, v, tag) ==
    LET st1 == PutByte(EncodeVarint(PutByte(EncodeVarint(PutBytes(st, v), Len(v)), 18), k), 8)
    IN  PutByte(EncodeVarint(st1, st.i - st1.i), tag)

(* The elements of a repeated field from the last one down, so that they  *)
(* appear in order: `for iNdEx := len(m.X) - 1; iNdEx >= 0; iNdEx--`.     *)
RECURSIVE PutStrings(_, _, _)
PutStrings(st, vs, tag) ==
    IF vs = <<>> \/ ~st.ok THEN st
    ELSE PutStrings(PutLenDelimited(st, Last(vs), tag), Front(vs), tag)

RECURSIVE PutMsgs(_, _, _, _, _)
PutMsgs(st, t, vs, tag, desc) ==
    IF vs = <<>> \/ ~st.ok THEN st
    ELSE PutMsgs(PutMsg(st, t, Last(vs), tag, desc), t, Front(vs), tag, desc)

(* `for k := range m.X`: the entries in the order `keys`.                  *)
RECURSIVE PutMapEntries(_, _, _, _)
PutMapEntries(st, mp, keys, tag) ==
    IF keys = <<>> \/ ~st.ok THEN st
    ELSE PutMapEntries(PutMapEntry(st, Head(keys), mp[Head(keys)], tag), mp, Tail(keys), tag)

PutField(st, t, f, v, desc) ==
    LET k == Schema[t][f]
        tag == Tag(f, k)
        order == IF f \in desc THEN Reverse(MapKeys(v)) ELSE MapKeys(v)
    IN CASE k.kind = "string"    -> IF Len(v) > 0 THEN PutLenDelimited(st, v, tag) ELSE st
         [] k.kind = "uint64"    -> IF v # 0 THEN PutByte(EncodeVarint(st, v), tag) ELSE st
         [] k.kind = "int32"     -> IF v # 0 THEN PutByte(EncodeVarint(st, UInt(v)), tag) ELSE st
         [] k.kind = "bool"      -> IF v THEN PutByte(PutByte(st, 1), tag) ELSE st
         [] k.kind = "repstring" -> PutStrings(st, v, tag)
         [] k.kind = "repmsg"    -> PutMsgs(st, k.of, v, tag, desc)
         [] k.kind = "msg"       -> PutMsg(st, k.of, v, tag, desc)
         [] k.kind = "optmsg"    -> IF v # Null THEN PutMsg(st, k.of, v, tag, desc) ELSE st
         [] k.kind = "map"       -> PutMapEntries(st, v, order, tag)

(* The fields from the highest number down, so that they appear in        *)
(* ascending order.                                                         *)
RECURSIVE PutFields(_, _, _, _, _)
PutFields(st, t, m, fs, desc) ==
    IF fs = <<>> \/ ~st.ok THEN st
    ELSE PutFields(PutField(st, t, Last(fs), m[Last(fs)], desc), t, m, Front(fs), desc)

MarshalToSizedBuffer(t, m, st, desc) == PutFields(st, t, m, Fields(t), desc)

(* Marshal: a buffer of Size() bytes, filled from its end, and dAtA[:n].  *)
Marshal(t, m, desc) ==
    LET size == Size(t, m)
        st   == MarshalToSizedBuffer(t, m, [out |-> <<>>, i |-> size, size |-> size, ok |-> TRUE], desc)
    IN  IF st.ok THEN [ok |-> TRUE, bytes |-> SubSeq(Zeros(st.i) \o st.out, 1, size - st.i)]
        ELSE [ok |-> FALSE, bytes |-> <<>>]

(***************************************************************************)
(* Unmarshal.  Every step returns [err, i, v]: an error name, or "none"   *)
(* with the index reached and the value read.                              *)
(***************************************************************************)
Ok(i, v)  == [err |-> "none", i |-> i, v |-> v]
Fail(e)   == [err |-> e, i |-> 0, v |-> 0]
Failed(r) == r.err # "none"

(* The varint loop: `x |= uint64(b&0x7F) << shift` until a byte below     *)
(* 0x80, failing on `shift >= 64` and on the end of the input.             *)
RECURSIVE ReadVarintFrom(_, _, _, _)
ReadVarintFrom(d, i, shift, acc) ==
    IF shift >= IntBits THEN Fail("ErrIntOverflow")
    ELSE IF i >= Len(d) THEN Fail("ErrUnexpectedEOF")
    ELSE LET b    == d[i + 1]
             acc2 == acc | UInt((b % 128) * 2^shift)
         IN  IF b < 128 THEN Ok(i + 1, acc2) ELSE ReadVarintFrom(d, i + 1, shift + 7, acc2)

ReadVarint(d, i) == ReadVarintFrom(d, i, 0, 0)

(* Mutant: the `< 0` check of the length is dropped.                      *)
ReadLenAtNoSignCheck(d, r) ==
    CASE Failed(r)                       -> r
      [] AsInt(r.i + AsInt(r.v)) < 0      -> Fail("ErrInvalidLength")
      [] AsInt(r.i + AsInt(r.v)) > Len(d) -> Fail("ErrUnexpectedEOF")
      [] OTHER -> [err |-> "none", i |-> r.i, v |-> AsInt(r.i + AsInt(r.v))]

(* A length whose varint r was read: as int, `< 0` and `postIndex < 0` are *)
(* ErrInvalidLength, `postIndex > l` is io.ErrUnexpectedEOF.  The value is *)
(* postIndex; the bytes are dAtA[i:postIndex].                             *)
ReadLenAt(d, r) ==
    CASE Failed(r)                       -> r
      [] AsInt(r.v) < 0                   -> Fail("ErrInvalidLength")
      [] AsInt(r.i + AsInt(r.v)) < 0      -> Fail("ErrInvalidLength")
      [] AsInt(r.i + AsInt(r.v)) > Len(d) -> Fail("ErrUnexpectedEOF")
      [] OTHER -> [err |-> "none", i |-> r.i, v |-> AsInt(r.i + AsInt(r.v))]

ReadLen(d, i) == ReadLenAt(d, ReadVarint(d, i))

(* dAtA[lo:hi], or a panic.                                                *)
InSlice(d, lo, hi) == 0 <= lo /\ lo <= hi /\ hi <= Len(d)

(* skipTypes on dAtA[iNdEx:]: one field, groups included.  SkipWire is the *)
(* position and group depth after the field whose tag is r, lr the varint *)
(* after the tag.                                                          *)
SkipWire(r, lr, depth) ==
    CASE r.v % 8 = 0 -> IF Failed(lr) THEN lr ELSE Ok(lr.i, depth)
      [] r.v % 8 = 1 -> Ok(AsInt(r.i + 8), depth)
      [] r.v % 8 = 2 -> CASE Failed(lr)      -> lr
                          [] AsInt(lr.v) < 0 -> Fail("ErrInvalidLength")
                          [] OTHER           -> Ok(AsInt(lr.i + AsInt(lr.v)), depth)
      [] r.v % 8 = 3 -> Ok(r.i, depth + 1)
      [] r.v % 8 = 4 -> IF depth = 0 THEN Fail("ErrUnexpectedEndOfGroup") ELSE Ok(r.i, depth - 1)
      [] r.v % 8 = 5 -> Ok(AsInt(r.i + 4), depth)
      [] OTHER       -> Fail("ErrIllegalWireType")

SkipTag(d, r, depth) == IF Failed(r) THEN r ELSE SkipWire(r, ReadVarint(d, r.i), depth)

RECURSIVE SkipFrom(_, _, _)
SkipTo(d, nx) ==
    CASE Failed(nx) -> nx
      [] nx.i < 0   -> Fail("ErrInvalidLength")
      [] nx.v = 0   -> Ok(nx.i, 0)
      [] OTHER      -> SkipFrom(d, nx.i, nx.v)

SkipFrom(d, i, depth) ==
    IF i >= Len(d) THEN Fail("ErrUnexpectedEOF")
    ELSE SkipTo(d, SkipTag(d, ReadVarint(d, i), depth))

(* The default case: iNdEx = preIndex; skippy := skip(dAtA[iNdEx:]); the   *)
(* checks against the end `bound` (l, or postIndex in a map entry).        *)
SkipFieldEnd(s, pre, bound) ==
    CASE Failed(s)                       -> s
      [] s.i < 0 \/ AsInt(pre + s.i) < 0 -> Fail("ErrInvalidLength")
      [] pre + s.i > bound               -> Fail("ErrUnexpectedEOF")
      [] OTHER                           -> Ok(pre + s.i, 0)

SkipField(d, pre, bound) == SkipFieldEnd(SkipFrom(SubSeq(d, pre + 1, Len(d)), 0, 0), pre, bound)

(* Mutant: an entry for a key already present is dropped.                 *)
AddKeyKeepFirst(mp, k, v) == [x \in DOMAIN mp \cup {k} |-> IF x \in DOMAIN mp THEN mp[x] ELSE v]

(* m.Offchain[mapkey] = mapvalue                                           *)
AddKey(mp, k, v) == [x \in DOMAIN mp \cup {k} |-> IF x = k THEN v ELSE mp[x]]

(* One map entry of Endpoint.Unmarshal, up to postIndex; key and value     *)
(* reads are bounded by l, not by postIndex; `mapkey |=` accumulates.      *)
(* MapEntryField reads the field whose tag is r and returns the entry so  *)
(* far.                                                                    *)
MapEntryKey(kr, val) == IF Failed(kr) THEN kr ELSE Ok(kr.i, [key |-> kr.v, value |-> val])

MapEntryValue(d, vr, key) ==
    CASE Failed(vr)              -> vr
      [] ~InSlice(d, vr.i, vr.v) -> Fail("Panic")
      [] OTHER -> Ok(vr.v, [key |-> key, value |-> SubSeq(d, vr.i + 1, vr.v)])

MapEntrySkip(sk, key, val) == IF Failed(sk) THEN sk ELSE Ok(sk.i, [key |-> key, value |-> val])

MapEntryField(d, i, post, key, val, r) ==
    CASE Failed(r)                 -> r
      [] AsInt32(r.v \div 8) = 1   -> MapEntryKey(ReadVarintFrom(d, r.i, 0, key), val)
      [] AsInt32(r.v \div 8) = 2   -> MapEntryValue(d, ReadLen(d, r.i), key)
      [] OTHER                     -> MapEntrySkip(SkipField(d, i, post), key, val)

RECURSIVE MapEntryFrom(_, _, _, _, _)
MapEntryNext(d, post, nx) ==
    IF Failed(nx) THEN nx ELSE MapEntryFrom(d, nx.i, post, nx.v.key, nx.v.value)

MapEntryFrom(d, i, post, key, val) ==
    IF i >= post THEN Ok(i, [key |-> key, value |-> val])
    ELSE MapEntryNext(d, post, MapEntryField(d, i, post, key, val, ReadVarint(d, i)))

RECURSIVE Unmarshal(_, _, _)

(* A varint field f of kind `kind` whose varint r was read.                *)
ReadScalar(kind, f, r, m) ==
    CASE Failed(r)         -> r
      [] kind = "uint64"   -> Ok(r.i, [m EXCEPT ![f] = r.v])
      [] kind = "int32"    -> Ok(r.i, [m EXCEPT ![f] = AsInt32(r.v)])
      [] OTHER             -> Ok(r.i, [m EXCEPT ![f] = (r.v # 0)])

(* What an embedded message is unmarshalled into: the receiver's own for a *)
(* non-nullable field, a new one for a nil pointer or a repeated element.  *)
EmbeddedBase(k, v) ==
    CASE k.kind = "optmsg" /\ v = Null -> Default(k.of)
      [] k.kind \in {"msg", "optmsg"}  -> v
      [] OTHER                         -> Default(k.of)

ReadMapEntry(f, post, e, m) ==
    IF Failed(e) THEN e ELSE Ok(post, [m EXCEPT ![f] = AddKey(@, e.v.key, e.v.value)])

ReadEmbedded(k, f, post, sub, m) ==
    CASE Failed(sub)        -> sub
      [] k.kind = "repmsg"  -> Ok(post, [m EXCEPT ![f] = Append(@, sub.v)])
      [] OTHER              -> Ok(post, [m EXCEPT ![f] = sub.v])

(* A length-delimited field f of schema k whose length lr was read.       *)
ReadDelimited(k, f, d, lr, m) ==
    CASE Failed(lr)                -> lr
      [] k.kind = "map"            -> ReadMapEntry(f, lr.v, MapEntryFrom(d, lr.i, lr.v, 0, <<>>), m)
      [] ~InSlice(d, lr.i, lr.v)   -> Fail("Panic")
      [] k.kind = "string"         -> Ok(lr.v, [m EXCEPT ![f] = SubSeq(d, lr.i + 1, lr.v)])
      [] k.kind = "repstring"      -> Ok(lr.v, [m EXCEPT ![f] = Append(@, SubSeq(d, lr.i + 1, lr.v))])
      [] OTHER -> ReadEmbedded(k, f, lr.v,
                               Unmarshal(k.of, SubSeq(d, lr.i + 1, lr.v), EmbeddedBase(k, m[f])), m)

(* The case of a known field f of schema k, after its tag.                 *)
ReadFieldOf(k, f, wt, d, i, m) ==
    CASE wt # WireType(k)  -> Fail("ErrWrongWireType")
      [] WireType(k) = 0   -> ReadScalar(k.kind, f, ReadVarint(d, i), m)
      [] OTHER             -> ReadDelimited(k, f, d, ReadLen(d, i), m)

ReadField(t, f, wt, d, i, m) == ReadFieldOf(Schema[t][f], f, wt, d, i, m)

(* One turn of the loop of Unmarshal after the tag r: the field's case or  *)
(* skip.                                                                    *)
SkipUnknown(sk, m) == IF Failed(sk) THEN sk ELSE Ok(sk.i, m)

UnmarshalField(t, d, i, m, r) ==
    CASE Failed(r)                                -> r
      [] r.v % 8 = 4                              -> Fail("ErrEndGroup")
      [] AsInt32(r.v \div 8) <= 0                 -> Fail("ErrIllegalTag")
      [] AsInt32(r.v \div 8) \in DOMAIN Schema[t] -> ReadField(t, AsInt32(r.v \div 8), r.v % 8, d, r.i, m)
      [] OTHER                                    -> SkipUnknown(SkipField(d, i, Len(d)), m)

(* The loop of Unmarshal; at the end `iNdEx > l` is io.ErrUnexpectedEOF.    *)
RECURSIVE UnmarshalFrom(_, _, _, _)
UnmarshalNext(t, d, x) == IF Failed(x) THEN x ELSE UnmarshalFrom(t, d, x.i, x.v)

UnmarshalFrom(t, d, i, m) ==
    CASE i > Len(d)  -> Fail("ErrUnexpectedEOF")
      [] i = Len(d)  -> Ok(i, m)
      [] OTHER       -> UnmarshalNext(t, d, UnmarshalField(t, d, i, m, ReadVarint(d, i)))

(* Unmarshal merges into the receiver m.                                   *)
Unmarshal(t, d, m) == UnmarshalFrom(t, d, 0, m)

(***************************************************************************)
(* The reference: protobuf's merge of m2 into m1, which is what decoding  *)
(* the concatenation of two encodings must produce.  A scalar or string   *)
(* is replaced when m2's is set, repeated fields are appended, embedded   *)
(* messages are merged, map entries of m2 replace those of m1.             *)
(***************************************************************************)
IsDefaultScalar(k, v) ==
    CASE k.kind = "string" -> v = <<>>
      [] k.kind = "bool"   -> v = FALSE
      [] OTHER             -> v = 0

RECURSIVE MergeRef(_, _, _)
MergeRef(t, m1, m2) ==
    [f \in DOMAIN Schema[t] |->
        LET k == Schema[t][f] IN
        CASE k.kind \in {"repstring", "repmsg"} -> m1[f] \o m2[f]
          [] k.kind = "msg"                     -> MergeRef(k.of, m1[f], m2[f])
          [] k.kind = "optmsg" /\ m2[f] = Null  -> m1[f]
          [] k.kind = "optmsg" /\ m1[f] = Null  -> m2[f]
          [] k.kind = "optmsg"                  -> MergeRef(k.of, m1[f], m2[f])
          [] k.kind = "map"                     ->
                [x \in DOMAIN m1[f] \cup DOMAIN m2[f] |->
                    IF x \in DOMAIN m2[f] THEN m2[f][x] ELSE m1[f][x]]
          [] IsDefaultScalar(k, m2[f])          -> m1[f]
          [] OTHER                              -> m2[f]]

(***************************************************************************)
(* A use of one codec: values are marshalled one after the other into a   *)
(* byte string (as a stream or a store entry written in parts is), and the *)
(* bytes are unmarshalled into a fresh value.  A byte string that does not *)
(* come from Marshal is unmarshalled as it is; what it decodes to is      *)
(* marshalled and decoded again.                                           *)
(***************************************************************************)
VARIABLES
    msgType,   \* the message type of the codec
    pending,   \* values still to be marshalled
    sent,      \* values marshalled so far
    wire,      \* the bytes written so far
    result     \* Null, or what Unmarshal returned

vars == <<msgType, pending, sent, wire, result>>

MapFieldNums == {f \in 1..2 : Schema["Endpoint"][f].kind = "map"}

Init ==
    /\ msgType \in MsgTypes
    /\ \/ pending \in Samples[msgType] /\ wire = <<>>
       \/ pending = <<>> /\ wire \in RawInputs
    /\ sent = <<>>
    /\ result = Null

(* Marshal the next value; `desc` is the Go map iteration order.  A panic  *)
(* of MarshalToSizedBuffer ends the use.                                   *)
MarshalNext ==
    /\ pending # <<>>
    /\ \E desc \in SUBSET MapFieldNums :
         LET out == Marshal(msgType, Head(pending), desc)
         IN  IF out.ok
             THEN /\ wire' = wire \o out.bytes
                  /\ sent' = Append(sent, Head(pending))
                  /\ pending' = Tail(pending)
                  /\ UNCHANGED <<msgType, result>>
             ELSE /\ result' = Fail("Panic")
                  /\ pending' = <<>>
                  /\ UNCHANGED <<msgType, sent, wire>>

UnmarshalWire ==
    /\ pending = <<>>
    /\ result = Null
    /\ result' = Unmarshal(msgType, wire, Default(msgType))
    /\ UNCHANGED <<msgType, pending, sent, wire>>

(* A value decoded from raw bytes is encoded again.                         *)
ReencodeDecoded ==
    /\ sent = <<>>
    /\ result # Null
    /\ ~Failed(result)
    /\ pending' = <<result.v>>
    /\ wire' = <<>>
    /\ result' = Null
    /\ UNCHANGED <<msgType, sent>>

Next == MarshalNext \/ UnmarshalWire \/ ReencodeDecoded

Spec == Init /\ [][Next]_vars

(***************************************************************************)
(* Properties                                                              *)
(***************************************************************************)
Errors == {"none", "Panic", "ErrIntOverflow", "ErrUnexpectedEOF", "ErrInvalidLength",
           "ErrUnexpectedEndOfGroup", "ErrIllegalWireType", "ErrEndGroup", "ErrIllegalTag",
           "ErrWrongWireType"}

(* The codec state holds byte strings and Unmarshal results.               *)
TypeOK ==
    /\ msgType \in MsgTypes
    /\ wire \in Seq(Bytes)
    /\ Len(sent) + Len(pending) <= 2
    /\ result = Null \/ result.err \in Errors

(* Neither Marshal nor Unmarshal ever panics, whatever the bytes: every    *)
(* length read from the input is checked (`< 0`, `postIndex < 0`,          *)
(* `postIndex > l`) before dAtA[iNdEx:postIndex] is sliced, also after    *)
(* int overflow, and MarshalToSizedBuffer never writes outside the buffer  *)
(* Size() allocated.                                                       *)
NoPanic == result # Null => result.err # "Panic"

(* Unmarshal of the concatenated encodings of the values sent is their     *)
(* protobuf merge: a single value decodes to itself, fields set in both   *)
(* take the later value, repeated fields are concatenated, embedded        *)
(* messages (Source.Entry, DelegationStates.States) are merged into, map   *)
(* entries are unioned; whatever the Go map order Marshal used.            *)
DecodesToMerge ==
    result # Null /\ sent # <<>> =>
        result = Ok(Len(wire), FoldLeft(LAMBDA a, b : MergeRef(msgType, a, b), Default(msgType), sent))

(* Marshal's output depends only on the value: the bytes are those of the  *)
(* encoding that visits the map keys in ascending order.                   *)
MarshalIsDeterministic ==
    sent # <<>> => wire = FoldLeft(LAMBDA w, v : w \o Marshal(msgType, v, {}).bytes, <<>>, sent)

====
