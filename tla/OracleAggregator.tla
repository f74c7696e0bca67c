-------------------------- MODULE OracleAggregator --------------------------
(***************************************************************************)
(* The aggregator context of the oracle module (package                    *)
(* x/oracle/keeper/aggregator, not part of src/): per-feeder round state,  *)
(* the validator power table and the active parameters, and the four       *)
(* primitives that both live block execution and the recovery replay of   *)
(* x/oracle/keeper/single.go call: SetParams, SetValidatorPowers,          *)
(* PrepareRoundEndBlock, FillPrice and SealRound.                          *)
(*                                                                         *)
(* This module has no variables: a context is a record value, and each     *)
(* primitive is an operator from a context to a context, so that the live *)
(* path and the replay path provably run the same code.  Modelled from     *)
(* spec.md sections 3 and 4.2.                                             *)
(***************************************************************************)
EXTENDS Integers, FiniteSets, FiniteSetsExt

CONSTANTS
    Feeders,         \* token feeder ids
    Validators,      \* validator consensus addresses
    Prices,          \* the price values a validator may report (integers)
    ParamIds,        \* names of parameter snapshots
    ParamsTable,     \* ParamIds -> [maxNonce, thresholdA, thresholdB]
    FeederStart,     \* Feeders -> start base block
    FeederInterval,  \* Feeders -> round interval in blocks
    NoPrice,         \* a validator has not voted in the open round
    NoRound,         \* the context holds no round for a feeder
    NoParams         \* SetParams has not been called on the context

ASSUME /\ Prices \subseteq Nat
       /\ \A f \in Feeders : FeederStart[f] \in Nat /\ FeederInterval[f] \in Nat \ {0}
       /\ \A p \in ParamIds : ParamsTable[p].maxNonce \in Nat \ {0}

Votes == [Validators -> Prices \cup {NoPrice}]
NoVotes == [v \in Validators |-> NoPrice]

Round == [based : Nat, status : {"open", "closed"}, votes : Votes]

PowerTable == [Validators -> Nat]

Context == [params : ParamIds \cup {NoParams},
            powers : PowerTable,
            rounds : [Feeders -> Round \cup {NoRound}]]

(* aggregator.NewAggregatorContext: no params, no powers, no rounds.       *)
NewAggregatorContext ==
    [params |-> NoParams,
     powers |-> [v \in Validators |-> 0],
     rounds |-> [f \in Feeders |-> NoRound]]

(* SetParams / SetValidatorPowers replace the whole snapshot at once.      *)
SetParams(agc, p) == [agc EXCEPT !.params = p]
SetValidatorPowers(agc, t) == [agc EXCEPT !.powers = t]

IsOpen(agc, f) == agc.rounds[f] # NoRound /\ agc.rounds[f].status = "open"

(* Closing a round drops its accumulated votes (its worker).               *)
Closed(r) == [r EXCEPT !.status = "closed", !.votes = NoVotes]

(***************************************************************************)
(* PrepareRoundEndBlock(block): at the end of `block`, place every active  *)
(* feeder on the round whose base block is the latest interval boundary   *)
(* not after `block`.  A feeder seen for the first time gets a round that  *)
(* is open only while its nonce window (maxNonce blocks) is still running; *)
(* an existing round is replaced by a fresh open one at an interval        *)
(* boundary, and closed once the window has passed.  The window bound is   *)
(* the process-wide common.MaxNonce, passed in explicitly.                 *)
(***************************************************************************)
(* Mutant: the check that a feeder has started is dropped.               *)
PrepareRoundEndBlockNoStartCheck(agc, block, maxNonce) ==
    LET prepared(r, f) ==
            LET left  == (block - FeederStart[f]) % FeederInterval[f]
                fresh == [based |-> block - left, status |-> "open", votes |-> NoVotes]
            IN  CASE r = NoRound -> IF left < maxNonce THEN fresh ELSE Closed(fresh)
                  [] left = 0    -> fresh
                  [] r.status = "open" /\ left >= maxNonce -> Closed(r)
                  [] OTHER       -> r
    IN  IF agc.params = NoParams THEN agc
        ELSE [agc EXCEPT !.rounds = [f \in Feeders |-> prepared(@[f], f)]]

PrepareRoundEndBlock(agc, block, maxNonce) ==
    LET prepared(r, f) ==
            LET left  == (block - FeederStart[f]) % FeederInterval[f]
                fresh == [based |-> block - left, status |-> "open", votes |-> NoVotes]
            IN  CASE r = NoRound -> IF left < maxNonce THEN fresh ELSE Closed(fresh)
                  [] left = 0    -> fresh
                  [] r.status = "open" /\ left >= maxNonce -> Closed(r)
                  [] OTHER       -> r
    IN  IF agc.params = NoParams
        THEN agc    \* nil params carry no token feeders
        ELSE [agc EXCEPT !.rounds =
                [f \in Feeders |-> IF block < FeederStart[f] THEN @[f]
                                   ELSE prepared(@[f], f)]]

(* FillPrice records a validator's price in an open round; a second price  *)
(* of the same validator for the same round, or a price for a round that  *)
(* is not open, changes nothing.                                           *)
FillPrice(agc, v, f, p) ==
    IF IsOpen(agc, f) /\ agc.rounds[f].votes[v] = NoPrice
    THEN [agc EXCEPT !.rounds[f].votes[v] = p]
    ELSE agc

(***************************************************************************)
(* Power-weighted aggregation (spec 4.2): a price is accepted when the     *)
(* power backing it reaches thresholdA percent of the total power; the     *)
(* round finalizes when the accepted power reaches thresholdB percent.     *)
(* The final price is the accepted price with the most backing, the lower *)
(* price on a tie, so that it does not depend on arrival order.  The      *)
(* result is NoPrice when the round does not finalize.                     *)
(***************************************************************************)
PowerOf(powers, vs) == MapThenSumSet(LAMBDA v : powers[v], vs)

RoundResult(agc, f) ==
    LET votes   == agc.rounds[f].votes
        par     == ParamsTable[agc.params]
        total   == PowerOf(agc.powers, Validators)
        back(p) == PowerOf(agc.powers, {v \in Validators : votes[v] = p})
        acc     == {p \in Prices : back(p) > 0 /\ back(p) * 100 >= par.thresholdA * total}
    IN  IF /\ agc.params # NoParams
           /\ acc # {}
           /\ MapThenSumSet(back, acc) * 100 >= par.thresholdB * total
        THEN CHOOSE p \in acc : \A q \in acc : back(q) < back(p) \/ (back(q) = back(p) /\ p <= q)
        ELSE NoPrice

(***************************************************************************)
(* SealRound(height, force): an open round that reaches the thresholds is  *)
(* finalized and closed; an open round is closed without a price when it  *)
(* is forced or when its nonce window has passed.                          *)
(***************************************************************************)
Finalizes(agc, f, force) == IsOpen(agc, f) /\ ~force /\ RoundResult(agc, f) # NoPrice

SealRound(agc, height, force, maxNonce) ==
    LET expires(f) == IsOpen(agc, f) /\ (force \/ height - agc.rounds[f].based >= maxNonce)
    IN  [agc EXCEPT !.rounds =
            [f \in Feeders |-> IF Finalizes(agc, f, force) \/ expires(f)
                               THEN Closed(@[f]) ELSE @[f]]]

(* The prices SealRound reports as finalized.                              *)
SealedPrices(agc, force) ==
    {[feeder |-> f, based |-> agc.rounds[f].based, price |-> RoundResult(agc, f)] :
        f \in {g \in Feeders : Finalizes(agc, g, force)}}

=============================================================================
