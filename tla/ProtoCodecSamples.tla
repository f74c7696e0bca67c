------------------------- MODULE ProtoCodecSamples -------------------------
(***************************************************************************)
(* The values and byte strings a use of ProtoCodec is checked on.  A value *)
(* of a message is a tuple indexed by field number; a string is a tuple of *)
(* bytes; a map<uint64,string> is a function from keys.  The samples set  *)
(* every kind of field to a non-zero value in one of them: a multi-byte    *)
(* ChainID, a negative Decimal, a map with two entries, a nested           *)
(* Source.Entry, repeated strings with an empty one, a repeated message    *)
(* whose first element is all defaults.                                    *)
(***************************************************************************)
EXTENDS Integers, Sequences, SequencesExt

CONSTANT NullPtr

\* info.pb.go
Token1  == << <<65>>, 200, <<>>, -3, TRUE, <<66, 67>> >>
Token2  == << <<>>, 1, <<0>>, 0, FALSE, <<>> >>
Entry1  == << (5 :> <<1>> @@ 300 :> <<>>), <<>> >>
Entry2  == << (5 :> <<2>>), (7 :> <<3>>) >>
Source1 == << <<83>>, Entry1, FALSE, TRUE >>
Source2 == << <<>>, Entry2, TRUE, FALSE >>
Source3 == << <<84>>, NullPtr, FALSE, FALSE >>
\* types.pb.go
Coin1   == << <<67>> >>
Reward1 == << <<82>>, <<Coin1>> >>
Reward0 == << <<>>, <<>> >>
Pool1   == << <<80>>, <<Reward1>> >>
Pool2   == << <<>>, <<Reward0, Reward1>> >>
\* genesis.pb.go
States1 == << <<3>>, << <<4>> >> >>
States2 == << <<>>, << <<5>> >> >>
Genesis1 == << << << <<1>>, <<2>> >> >>, <<States1>>, << << <<5>>, << <<>>, <<6>> >> >> >>, <<>> >>
Genesis2 == << <<>>, <<States2>>, <<>>, << << <<7>> >> >> >>

Values ==
    "Token" :> {Token1, Token2} @@ "Source" :> {Source1, Source2, Source3}
    @@ "Pool" :> {Pool1, Pool2} @@ "DelegationStates" :> {States1, States2}
    @@ "GenesisState" :> {Genesis1, Genesis2}

MCMsgTypes == DOMAIN Values

(* One or two values of the type, encoded back to back.                    *)
MCSamples == [t \in MCMsgTypes |-> {s \in BoundedSeq(Values[t], 2) : s # <<>>}]

(* Every byte string of up to three bytes over: tags of fields 1 to 4     *)
(* (field 3, unknown to most messages, with every wire type), lengths and  *)
(* varint bytes 0, 1, 0x7f, 0x80 (continued) and 0xff.                     *)
Alphabet == {0, 1, 8, 9, 10, 12, 16, 18, 25, 26, 27, 28, 29, 32, 127, 128, 255}

MCRawInputs == BoundedSeq(Alphabet, 3)
=============================================================================
