--------------------------- MODULE OracleRecovery ---------------------------
(***************************************************************************)
(* One node of the chain running the oracle module across crashes.         *)
(*                                                                         *)
(* The node keeps the committed aggregator context `agc`, the cache `cs`   *)
(* and the process-wide common.MaxNonce in memory (x/oracle/keeper/        *)
(* single.go); a crash loses all three.  The first access in a block,      *)
(* GetAggregatorContext, rebuilds the context: recacheAggregatorContext    *)
(* replays the persisted recent messages and parameter snapshots since the *)
(* last validator-set change, or initAggregatorContext starts afresh when  *)
(* no replay marker has been persisted yet.                                *)
(*                                                                         *)
(* Around it the module models the live block pipeline (spec 2, 4.1, 4.2): *)
(* price messages, a parameter update, EndBlock (seal, validator-set       *)
(* change, new params, prepare the next rounds) and the cache commit that  *)
(* writes the replay markers.  The ghost `live` is the context of the same *)
(* node had it never crashed: it takes the same live steps and never       *)
(* replays, so comparing the two tells whether recovery is exact.          *)
(***************************************************************************)
EXTENDS OracleAggregator, TLC

CONSTANTS
    PowerTables,            \* validator sets the chain may switch between
    InitParams,             \* params in the store when the oracle starts
    InitPowers,             \* validator set when the oracle starts
    DefaultMaxNonce,        \* common.MaxNonce as a freshly started process has it
    SealOnValidatorUpdate,  \* live EndBlock force-seals open rounds on a validator change
    MaxHeight,              \* last block height explored
    None,                   \* absent store entry / no change in this block
    Nil                     \* nil *AggregatorContext

ASSUME /\ PowerTables \subseteq PowerTable
       /\ InitParams \in ParamIds /\ InitPowers \in PowerTables
       /\ DefaultMaxNonce \in Nat \ {0}
       /\ SealOnValidatorUpdate \in BOOLEAN
       /\ MaxHeight \in Nat \ {0}

VARIABLES
    height,          \* the block being executed (ctx.BlockHeight())
    \* process memory, lost on a crash
    agc,             \* committed aggregator context, or Nil
    agcCheckTx,      \* speculative context of the CheckTx path, or Nil
    commonMaxNonce,  \* common.MaxNonce, written by setCommonParams
    cs,              \* the cache: params and validator items with update flags
    blockMsgs,       \* price messages accepted in this block (cached, committed at EndBlock)
    blockParams,     \* a parameter update delivered in this block, or None
    \* durable store
    paramsCur,       \* k.GetParams
    powersCur,       \* k.GetAllExocoreValidators
    recentParams,    \* height -> params snapshot (GetAllRecentParamsAsMap)
    recentMsgs,      \* height -> set of messages (GetAllRecentMsgAsMap)
    valUpdateBlock,  \* GetValidatorUpdateBlock, or None
    prices,          \* finalized round results
    \* ghost: the same node without crashes
    live, liveMaxNonce, livePrices, lastValChange,
    liveAtBlockStart   \* live as the previous block committed it

storeVars  == <<paramsCur, powersCur, recentParams, recentMsgs, valUpdateBlock, prices>>
ghostVars  == <<live, liveMaxNonce, livePrices, lastValChange, liveAtBlockStart>>
vars == <<height, agc, agcCheckTx, commonMaxNonce, cs, blockMsgs, blockParams, storeVars, ghostVars>>

Msg == [validator : Validators, feeder : Feeders, price : Prices]
PriceRecord == [feeder : Feeders, based : Nat, price : Prices]

MaxNonceOf(p) == ParamsTable[p].maxNonce

(***************************************************************************)
(* The cache (package x/oracle/keeper/cache): one slot for the params and  *)
(* one for the validator powers, each with the flag that CommitCache      *)
(* reads.  SkipCommit clears the flags of what the cache holds now.        *)
(***************************************************************************)
EmptyCache == [p |-> None, pUpdate |-> FALSE, v |-> None, vUpdate |-> FALSE]
AddCacheP(c, x) == [c EXCEPT !.p = x, !.pUpdate = TRUE]
AddCacheV(c, t) == [c EXCEPT !.v = t, !.vUpdate = TRUE]
(* Mutant: a recached cache is committed again.                           *)
SkipCommitNone(c) == c

SkipCommit(c) == [c EXCEPT !.pUpdate = FALSE, !.vUpdate = FALSE]

(***************************************************************************)
(* recacheAggregatorContext                                                *)
(***************************************************************************)
(* from = height - common.MaxNonce + 1, moved past the last validator     *)
(* update block.  common.MaxNonce is read before any params are loaded.    *)
ReplayFrom(h) ==
    LET from0 == h - commonMaxNonce + 1
    IN  IF valUpdateBlock >= from0 THEN valUpdateBlock + 1 ELSE from0

(* The params loop: apply the latest snapshot below `bound` that is newer *)
(* than the last one applied (agc.SetParams and setCommonParams).  The     *)
(* Go map is visited in random order, but the snapshot applied last is     *)
(* always the latest one below the bound.                                  *)
(* Mutant: the snapshot taking effect at the bound itself is applied.     *)
AdvanceParamsInclusive(st, bound) ==
    LET cands == {b \in DOMAIN recentParams : b <= bound /\ b > st.prev}
    IN  IF cands = {} THEN st
        ELSE LET b == Max(cands) IN
             [st EXCEPT !.agc = SetParams(@, recentParams[b]),
                        !.prev = b,
                        !.maxNonce = MaxNonceOf(recentParams[b])]

AdvanceParams(st, bound) ==
    LET cands == {b \in DOMAIN recentParams : b < bound /\ b > st.prev}
    IN  IF cands = {} THEN st
        ELSE LET b == Max(cands) IN
             [st EXCEPT !.agc = SetParams(@, recentParams[b]),
                        !.prev = b,
                        !.maxNonce = MaxNonceOf(recentParams[b])]

MsgsAt(b) == IF b \in DOMAIN recentMsgs THEN recentMsgs[b] ELSE {}

(* One replayed block: params, PrepareRoundEndBlock(from-1), FillPrice of  *)
(* every recorded message without validation, SealRound(from, false) with  *)
(* its results discarded.                                                  *)
ReplayBlock(st, from) ==
    LET s1 == AdvanceParams(st, from)
        a2 == PrepareRoundEndBlock(s1.agc, from - 1, s1.maxNonce)
        a3 == FoldSet(LAMBDA m, a : FillPrice(a, m.validator, m.feeder, m.price), a2, MsgsAt(from))
    IN  [s1 EXCEPT !.agc = SealRound(a3, from, FALSE, s1.maxNonce)]

RECURSIVE ReplayBlocks(_, _, _)
ReplayBlocks(st, from, to) ==
    IF from >= to THEN st ELSE ReplayBlocks(ReplayBlock(st, from), from + 1, to)

(* The replay proper, from the power table to PrepareRoundEndBlock(to-1);  *)
(* when from >= to only the latest snapshot is applied.                    *)
ReplayWindow(h) ==
    LET from == ReplayFrom(h)
        st0  == [agc |-> SetValidatorPowers(NewAggregatorContext, powersCur),
                 prev |-> 0, maxNonce |-> commonMaxNonce]
        last == recentParams[Max(DOMAIN recentParams)]
    IN  IF from >= h
        THEN [st0 EXCEPT !.agc = SetParams(@, last), !.maxNonce = MaxNonceOf(last)]
        ELSE LET s == AdvanceParams(ReplayBlocks(st0, from, h), h)
             IN  [s EXCEPT !.agc = PrepareRoundEndBlock(@, h - 1, s.maxNonce)]

HasReplayMarkers == valUpdateBlock # None /\ DOMAIN recentParams # {}

(* After the replay the current params are applied once more.             *)
Recache(h) ==
    LET s == ReplayWindow(h)
    IN  [agc |-> SetParams(s.agc, paramsCur), maxNonce |-> MaxNonceOf(paramsCur)]

(* initAggregatorContext: current params and powers, rounds primed at h-1. *)
InitAggregatorContext(h) ==
    PrepareRoundEndBlock(
        SetValidatorPowers(SetParams(NewAggregatorContext, paramsCur), powersCur),
        h - 1, MaxNonceOf(paramsCur))

(* ResetAggregatorContext, ResetAggregatorContextCheckTx and ResetCache    *)
(* drop the process-wide singletons.                                      *)
ResetAggregatorContext == Nil

(* Mutant: the speculative context survives the commit.                  *)
KeepAggregatorContextCheckTx == agcCheckTx

ResetAggregatorContextCheckTx == Nil

ResetCache == EmptyCache

(***************************************************************************)
(* The body shared by both paths of GetAggregatorContext once no context  *)
(* is held: after c.ResetCaches(), recacheAggregatorContext if the store   *)
(* has replay markers, initAggregatorContext otherwise.  Both write        *)
(* common.MaxNonce and add the params and validator items to the cache.   *)
(***************************************************************************)
Rebuild(h) ==
    IF HasReplayMarkers
    THEN LET r == Recache(h) IN
         [agc |-> r.agc, maxNonce |-> r.maxNonce, recached |-> TRUE,
          cache |-> AddCacheP(AddCacheV(EmptyCache, powersCur), paramsCur)]
    ELSE [agc |-> InitAggregatorContext(h), maxNonce |-> MaxNonceOf(paramsCur),
          recached |-> FALSE,
          cache |-> AddCacheV(AddCacheP(EmptyCache, paramsCur), powersCur)]

(* GetAggregatorContext on the deliver path, at the first access after the *)
(* process started: rebuild; a recached cache is marked SkipCommit.        *)
GetAggregatorContext ==
    /\ agc = Nil
    /\ LET b == Rebuild(height) IN
       /\ agc' = b.agc
       /\ commonMaxNonce' = b.maxNonce
       /\ cs' = IF b.recached THEN SkipCommit(b.cache) ELSE b.cache
    \* the ghost starts with the very first context of the node
    /\ live' = IF live = Nil THEN agc' ELSE live
    /\ liveMaxNonce' = IF live = Nil THEN commonMaxNonce' ELSE liveMaxNonce
    /\ lastValChange' = IF live = Nil THEN height ELSE lastValChange
    /\ liveAtBlockStart' = IF live = Nil THEN agc' ELSE liveAtBlockStart
    /\ UNCHANGED <<height, agcCheckTx, blockMsgs, blockParams, storeVars, livePrices>>

(* GetAggregatorContext on the CheckTx path when no speculative context is *)
(* held: a copy of the committed context, or, when there is none yet, a    *)
(* context rebuilt from the store into agcCheckTx alone; the rebuild still *)
(* resets the shared cache and sets common.MaxNonce, and is not marked     *)
(* SkipCommit.                                                              *)
CheckTxGetContext ==
    /\ agcCheckTx = Nil
    /\ IF agc # Nil
       THEN /\ agcCheckTx' = agc
            /\ UNCHANGED <<commonMaxNonce, cs>>
       ELSE LET b == Rebuild(height) IN
            /\ agcCheckTx' = b.agc
            /\ commonMaxNonce' = b.maxNonce
            /\ cs' = b.cache
    /\ UNCHANGED <<height, agc, blockMsgs, blockParams, storeVars, ghostVars>>

(* A price checked in the mempool against the speculative context and     *)
(* filled into it; the committed context is not touched.                  *)
CheckTxPrice(v, f, p) ==
    /\ agcCheckTx # Nil
    /\ agcCheckTx.powers[v] > 0
    /\ IsOpen(agcCheckTx, f)
    /\ agcCheckTx.rounds[f].votes[v] = NoPrice
    /\ agcCheckTx' = FillPrice(agcCheckTx, v, f, p)
    /\ UNCHANGED <<height, agc, commonMaxNonce, cs, blockMsgs, blockParams, storeVars, ghostVars>>

(***************************************************************************)
(* Live block steps (spec 4.2, 6).                                         *)
(***************************************************************************)
(* A price message passes the checks against the committed context (the   *)
(* validator has power, the round is open, no price from it yet), is      *)
(* filled in and cached for persistence.                                   *)
DeliverPrice(v, f, p) ==
    /\ agc # Nil
    /\ agc.powers[v] > 0
    /\ IsOpen(agc, f)
    /\ agc.rounds[f].votes[v] = NoPrice
    /\ agc' = FillPrice(agc, v, f, p)
    /\ live' = FillPrice(live, v, f, p)
    /\ blockMsgs' = blockMsgs \cup {[validator |-> v, feeder |-> f, price |-> p]}
    /\ UNCHANGED <<height, agcCheckTx, commonMaxNonce, cs, blockParams, storeVars,
                   liveMaxNonce, livePrices, lastValChange, liveAtBlockStart>>

(* A parameter update stores the new params and puts them in the cache.    *)
UpdateParams(p) ==
    /\ agc # Nil
    /\ blockParams = None
    /\ p # paramsCur
    /\ blockParams' = p
    /\ cs' = AddCacheP(cs, p)
    /\ UNCHANGED <<height, agc, agcCheckTx, commonMaxNonce, blockMsgs, storeVars, ghostVars>>

(* EndBlock on one context: SealRound(height) under the old params, force *)
(* on a validator change if the chain does so; the new power table; the    *)
(* params from the cache; PrepareRoundEndBlock(height) under them.         *)
EndBlockContext(a, maxNonce, t, c) ==
    LET force  == t # None /\ SealOnValidatorUpdate
        sealed == SealRound(a, height, force, maxNonce)
        a1     == IF t = None THEN sealed ELSE SetValidatorPowers(sealed, t)
        a2     == IF c.pUpdate THEN SetParams(a1, c.p) ELSE a1
        mn     == IF c.pUpdate THEN MaxNonceOf(c.p) ELSE maxNonce
    IN  [agc |-> PrepareRoundEndBlock(a2, height, mn), maxNonce |-> mn,
         sealed |-> SealedPrices(a, force)]

(* EndBlock with validator-set change t (None: no change), then           *)
(* CommitCache: the block's messages, the params snapshot and the         *)
(* validator update block are persisted when their cache flag is set; at  *)
(* commit the speculative context is dropped (ResetAggregatorContextCheckTx). *)
EndBlock(t) ==
    /\ agc # Nil
    /\ height < MaxHeight
    /\ t = None \/ t # powersCur
    /\ LET c   == IF t = None THEN cs ELSE AddCacheV(cs, t)
           me  == EndBlockContext(agc, commonMaxNonce, t, c)
           gh  == EndBlockContext(live, liveMaxNonce, t, c)
       IN  /\ agc' = me.agc
           /\ commonMaxNonce' = me.maxNonce
           /\ prices' = prices \cup me.sealed
           /\ live' = gh.agc
           /\ liveAtBlockStart' = gh.agc
           /\ liveMaxNonce' = gh.maxNonce
           /\ livePrices' = livePrices \cup gh.sealed
           /\ recentMsgs' = IF blockMsgs = {} THEN recentMsgs
                            ELSE (height :> blockMsgs) @@ recentMsgs
           /\ recentParams' = IF c.pUpdate THEN (height :> c.p) @@ recentParams
                              ELSE recentParams
           /\ valUpdateBlock' = IF c.vUpdate THEN height ELSE valUpdateBlock
    /\ paramsCur' = IF blockParams = None THEN paramsCur ELSE blockParams
    /\ powersCur' = IF t = None THEN powersCur ELSE t
    /\ lastValChange' = IF t = None THEN lastValChange ELSE height
    /\ cs' = ResetCache
    /\ agcCheckTx' = ResetAggregatorContextCheckTx
    /\ blockMsgs' = {}
    /\ blockParams' = None
    /\ height' = height + 1

(* The process stops and restarts: memory is lost, the store keeps what   *)
(* the last EndBlock committed.  A block that had started is not          *)
(* committed and is executed again, so its deliveries are discarded; the   *)
(* ghost, which stands for the same chain, rolls back to the block start.  *)
Crash ==
    /\ agc # Nil
    /\ agc' = ResetAggregatorContext
    /\ agcCheckTx' = ResetAggregatorContextCheckTx
    /\ cs' = ResetCache
    /\ commonMaxNonce' = DefaultMaxNonce
    /\ blockMsgs' = {}
    /\ blockParams' = None
    /\ live' = liveAtBlockStart
    /\ UNCHANGED <<height, storeVars, liveMaxNonce, livePrices, lastValChange, liveAtBlockStart>>

Init ==
    /\ height = 1
    /\ agc = Nil
    /\ agcCheckTx = Nil
    /\ commonMaxNonce = DefaultMaxNonce
    /\ cs = EmptyCache
    /\ blockMsgs = {}
    /\ blockParams = None
    /\ paramsCur = InitParams
    /\ powersCur = InitPowers
    /\ recentParams = <<>>
    /\ recentMsgs = <<>>
    /\ valUpdateBlock = None
    /\ prices = {}
    /\ live = Nil
    /\ liveMaxNonce = DefaultMaxNonce
    /\ livePrices = {}
    /\ lastValChange = None
    /\ liveAtBlockStart = Nil

Next ==
    \/ GetAggregatorContext
    \/ \E v \in Validators, f \in Feeders, p \in Prices : DeliverPrice(v, f, p)
    \/ \E p \in ParamIds : UpdateParams(p)
    \/ CheckTxGetContext
    \/ \E v \in Validators, f \in Feeders, p \in Prices : CheckTxPrice(v, f, p)
    \/ \E t \in PowerTables \cup {None} : EndBlock(t)
    \/ Crash

Spec == Init /\ [][Next]_vars

(***************************************************************************)
(* Properties                                                              *)
(***************************************************************************)
(* Every variable has its type; in particular every round the contexts    *)
(* hold has a base block that is a natural number, which the uint64 block *)
(* arithmetic of PrepareRoundEndBlock(ctx.BlockHeight()-1) relies on.     *)
TypeOK ==
    /\ height \in 1..MaxHeight
    /\ agc \in Context \cup {Nil}
    /\ live \in Context \cup {Nil}
    /\ agcCheckTx \in Context \cup {Nil}
    /\ commonMaxNonce \in Nat /\ liveMaxNonce \in Nat
    /\ cs \in [p : ParamIds \cup {None}, pUpdate : BOOLEAN,
               v : PowerTables \cup {None}, vUpdate : BOOLEAN]
    /\ blockMsgs \subseteq Msg
    /\ blockParams \in ParamIds \cup {None}
    /\ paramsCur \in ParamIds /\ powersCur \in PowerTables
    /\ DOMAIN recentParams \subseteq 1..MaxHeight
    /\ DOMAIN recentMsgs \subseteq 1..MaxHeight
    /\ valUpdateBlock \in (1..MaxHeight) \cup {None}
    /\ prices \subseteq PriceRecord /\ livePrices \subseteq PriceRecord

(* Recovery is exact: whenever the node holds a context, rebuilt by        *)
(* recacheAggregatorContext or not, it equals the context of the same node *)
(* had it never restarted, and so does common.MaxNonce.                   *)
RecoveredContextMatchesLive ==
    agc # Nil => agc = live /\ commonMaxNonce = liveMaxNonce

(* The prices the node persisted are exactly those an uninterrupted node   *)
(* would have persisted: restarts never lose nor invent a round result.    *)
PersistedPricesMatchLive == prices = livePrices

(* The persisted validator update block, from which recacheAggregatorContext *)
(* starts its replay, is the height of the last real validator-set change *)
(* (or of the oracle's first start): a restart must not move it.           *)
ReplayMarkerIsLastChange ==
    valUpdateBlock # None => valUpdateBlock = lastValChange

(* The mempool judges a price against the same round the block will: while *)
(* both contexts are held, the speculative context of the CheckTx path has *)
(* the committed params and powers and, for every feeder, a round with the *)
(* same base block and the same open/closed status.                        *)
SpeculativeRoundsMatchCommitted ==
    agcCheckTx # Nil /\ agc # Nil =>
        /\ agcCheckTx.params = agc.params
        /\ agcCheckTx.powers = agc.powers
        /\ \A f \in Feeders :
              \/ agcCheckTx.rounds[f] = NoRound /\ agc.rounds[f] = NoRound
              \/ /\ agcCheckTx.rounds[f] # NoRound /\ agc.rounds[f] # NoRound
                 /\ agcCheckTx.rounds[f].based = agc.rounds[f].based
                 /\ agcCheckTx.rounds[f].status = agc.rounds[f].status

=============================================================================
