---------------------------- MODULE DogfoodKeys ----------------------------
(***************************************************************************)
(* The store keys of the dogfood module (x/dogfood/types/keys.go): one     *)
(* prefix byte per kind of entry, followed by an account address or by the *)
(* 8-byte big-endian form of a height, epoch or id.  The module's store is *)
(* a byte-keyed map iterated in byte order, so two entries must never meet *)
(* under one key, and the entries of one kind must come out in numeric    *)
(* order.                                                                  *)
(*                                                                         *)
(* A key is a sequence of bytes.  A uint64 has Uint64Bytes bytes instead   *)
(* of 8, and an int64 the same width with its sign; heights past that      *)
(* width behave like those within it.                                      *)
(***************************************************************************)
EXTENDS Integers, Sequences, SequencesExt, FiniteSets

CONSTANTS
    Uint64Bytes,  \* width of sdk.Uint64ToBigEndian (8 in the code)
    Addresses,    \* sdk.AccAddress arguments, as byte sequences
    Heights,      \* int64 heights and epochs passed to the keys
    IDs,          \* uint64 validator set ids
    MaxWrites     \* bound on the entries written (model bound)

Bytes == 0..255

(* The prefix bytes, iota + 1 in declaration order.                        *)
ExocoreValidatorBytePrefix          == 1
QueuedOperationsByte                == 2
OptOutsToFinishBytePrefix           == 3
OperatorOptOutFinishEpochBytePrefix == 4
ConsensusAddrsToPruneBytePrefix     == 5
UnbondingReleaseMaturityBytePrefix  == 6
PendingOperationsByte               == 7
PendingOptOutsByte                  == 8
PendingConsensusAddrsByte           == 9
PendingUndelegationsByte            == 10
ValidatorSetBytePrefix              == 11
ValidatorSetIDBytePrefix            == 12
(* Mutant: a prefix added without moving the ones after it.                *)
HeaderBytePrefixReused              == 12
HeaderBytePrefix                    == 13

(* SafeInt64ToUint64: (0, false) for a negative value.                     *)
SafeInt64ToUint64(id) ==
    IF id < 0 THEN [v |-> 0, ok |-> FALSE] ELSE [v |-> id, ok |-> TRUE]

(* Mutant: the bytes are not reduced modulo 256.                           *)
Uint64ToBigEndianUnmasked(n) ==
    [i \in 1..Uint64Bytes |-> n \div 256 ^ (Uint64Bytes - i)]

(* Mutant: the least significant byte first.                               *)
Uint64ToBigEndianReversed(n) ==
    [i \in 1..Uint64Bytes |-> (n \div 256 ^ (i - 1)) % 256]

(* sdk.Uint64ToBigEndian: the most significant byte first.                 *)
Uint64ToBigEndian(n) ==
    [i \in 1..Uint64Bytes |-> (n \div 256 ^ (Uint64Bytes - i)) % 256]

(* The shape of every key of an int64: nil and false for a negative one.   *)
Int64Key(prefix, x) ==
    IF SafeInt64ToUint64(x).ok
    THEN [key |-> <<prefix>> \o Uint64ToBigEndian(SafeInt64ToUint64(x).v), ok |-> TRUE]
    ELSE [key |-> <<>>, ok |-> FALSE]

Found(key) == [key |-> key, ok |-> TRUE]

ExocoreValidatorKey(a)          == Found(<<ExocoreValidatorBytePrefix>> \o a)
ValidatorSetKey(id)             == Found(<<ValidatorSetBytePrefix>> \o Uint64ToBigEndian(id))
ValidatorSetIDKey(h)            == Int64Key(ValidatorSetIDBytePrefix, h)
HeaderKey(h)                    == Int64Key(HeaderBytePrefix, h)
QueuedOperationsKey             == Found(<<QueuedOperationsByte>>)
OptOutsToFinishKey(e)           == Int64Key(OptOutsToFinishBytePrefix, e)
OperatorOptOutFinishEpochKey(a) == Found(<<OperatorOptOutFinishEpochBytePrefix>> \o a)
ConsensusAddrsToPruneKey(e)     == Int64Key(ConsensusAddrsToPruneBytePrefix, e)
UnbondingReleaseMaturityKey(e)  == Int64Key(UnbondingReleaseMaturityBytePrefix, e)
PendingOperationsKey            == Found(<<PendingOperationsByte>>)
PendingOptOutsKey               == Found(<<PendingOptOutsByte>>)
PendingConsensusAddrsKey        == Found(<<PendingConsensusAddrsByte>>)
PendingUndelegationsKey         == Found(<<PendingUndelegationsByte>>)

(***************************************************************************)
(* An entry is a kind and its argument; KeyOf is the key function of its   *)
(* kind.                                                                   *)
(***************************************************************************)
AddressKinds   == {"ExocoreValidator", "OperatorOptOutFinishEpoch"}
Int64Kinds     == {"ValidatorSetID", "Header", "OptOutsToFinish",
                   "ConsensusAddrsToPrune", "UnbondingReleaseMaturity"}
SingletonKinds == {"QueuedOperations", "PendingOperations", "PendingOptOuts",
                   "PendingConsensusAddrs", "PendingUndelegations"}

Entries ==
    [kind : AddressKinds, arg : Addresses]
    \cup [kind : Int64Kinds, arg : Heights]
    \cup [kind : {"ValidatorSet"}, arg : IDs]
    \cup [kind : SingletonKinds, arg : {0}]

KeyOf(e) ==
    CASE e.kind = "ExocoreValidator"          -> ExocoreValidatorKey(e.arg)
      [] e.kind = "OperatorOptOutFinishEpoch" -> OperatorOptOutFinishEpochKey(e.arg)
      [] e.kind = "ValidatorSet"              -> ValidatorSetKey(e.arg)
      [] e.kind = "ValidatorSetID"            -> ValidatorSetIDKey(e.arg)
      [] e.kind = "Header"                    -> HeaderKey(e.arg)
      [] e.kind = "OptOutsToFinish"           -> OptOutsToFinishKey(e.arg)
      [] e.kind = "ConsensusAddrsToPrune"     -> ConsensusAddrsToPruneKey(e.arg)
      [] e.kind = "UnbondingReleaseMaturity"  -> UnbondingReleaseMaturityKey(e.arg)
      [] e.kind = "QueuedOperations"          -> QueuedOperationsKey
      [] e.kind = "PendingOperations"         -> PendingOperationsKey
      [] e.kind = "PendingOptOuts"            -> PendingOptOutsKey
      [] e.kind = "PendingConsensusAddrs"     -> PendingConsensusAddrsKey
      [] e.kind = "PendingUndelegations"      -> PendingUndelegationsKey

VARIABLES
    store,    \* key -> the entry last written under it
    written,  \* the entries written so far
    lastOk    \* whether the last key function returned ok

vars == <<store, written, lastOk>>

Init == store = <<>> /\ written = {} /\ lastOk = TRUE

(* A caller builds the key of e and, when it is ok, writes e under it.     *)
(* Past MaxWrites entries, only entries already written are written again. *)
Write(e) ==
    /\ Cardinality(written) < MaxWrites \/ e \in written
    /\ LET k == KeyOf(e) IN
         IF k.ok THEN /\ store' = (k.key :> e) @@ store
                      /\ written' = written \cup {e}
                      /\ lastOk' = TRUE
                 ELSE /\ lastOk' = FALSE
                      /\ UNCHANGED <<store, written>>

Next == \E e \in Entries : Write(e)

Spec == Init /\ [][Next]_vars

(***************************************************************************)
(* Properties                                                              *)
(***************************************************************************)
(* bytes.Compare(s, t) < 0.                                                *)
BytesLess(s, t) ==
    \/ IsStrictPrefix(s, t)
    \/ \E i \in 1..Len(s) :
          /\ i <= Len(t)
          /\ SubSeq(s, 1, i - 1) = SubSeq(t, 1, i - 1)
          /\ s[i] < t[i]

TypeOK ==
    /\ \A k \in DOMAIN store : k \in Seq(Bytes)
    /\ written \subseteq Entries
    /\ lastOk \in BOOLEAN

(* No write ever overwrites another entry: every entry written is still   *)
(* the one stored under its key, whatever else was written since, so the  *)
(* prefix bytes of keys.go are distinct and every key function is         *)
(* injective.                                                              *)
EntriesKeepTheirKeys == \A e \in written : store[KeyOf(e).key] = e

(* Iterating one prefix of the store in byte order visits the heights,    *)
(* epochs and ids of ValidatorSetIDKey, HeaderKey, OptOutsToFinishKey,    *)
(* ConsensusAddrsToPruneKey, UnbondingReleaseMaturityKey and              *)
(* ValidatorSetKey in numeric order.                                      *)
StoreOrderIsNumericOrder ==
    \A e1, e2 \in written :
        /\ e1.kind = e2.kind
        /\ e1.kind \in Int64Kinds \cup {"ValidatorSet"}
        /\ e1.arg < e2.arg
        => BytesLess(KeyOf(e1).key, KeyOf(e2).key)

=============================================================================
