-------------------------- MODULE MCOracleRecovery --------------------------
(* Model values for OracleRecovery: one feeder whose rounds start every 3  *)
(* blocks from block 1, two validators of unequal power, two parameter    *)
(* snapshots that differ in window length and thresholds.                 *)
EXTENDS OracleRecovery

CONSTANTS pa, pb, f1, v1, v2

MCFeederStart == f1 :> 1
MCFeederInterval == f1 :> 3

(* pa: window of 2 blocks, one validator of power 2 out of 3 can finalize; *)
(* pb: window of 3 blocks, both validators must agree.                     *)
MCParamsTable ==
    pa :> [maxNonce |-> 2, thresholdA |-> 50, thresholdB |-> 60]
 @@ pb :> [maxNonce |-> 3, thresholdA |-> 50, thresholdB |-> 100]

MCPowersA == v1 :> 2 @@ v2 :> 1
MCPowersB == v1 :> 1 @@ v2 :> 2

(* A single validator set: the chain never changes it.                     *)
MCPowerTablesFixed == {MCPowersA}
(* Two validator sets the chain switches between.                          *)
MCPowerTablesSwitching == {MCPowersA, MCPowersB}

(* Restarts whose replay window holds at least one block.  A restart in   *)
(* the block right after the last replay marker takes the from >= to     *)
(* branch of recacheAggregatorContext, which is checked on its own by the *)
(* run that expects RecoveredContextMatchesLive to fail.                  *)
RestartReplaysABlock ==
    (agc # Nil /\ agc' = Nil) => (valUpdateBlock = None \/ height > valUpdateBlock + 1)
=============================================================================
