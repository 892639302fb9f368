--------------------------- MODULE RegistryAlone ---------------------------
(***************************************************************************)
(* pallet-agent-registry as the only pallet that reserves funds.  The      *)
(* penalties, which dispute resolution applies in the runtime, may strike  *)
(* any DID at any time here.                                               *)
(***************************************************************************)
EXTENDS AgentRegistry

CONSTANTS GuiltySlash, FalseSlash      \* reputation points of the two penalties

ASSUME RegistryAloneAssumption == GuiltySlash \in Nat /\ FalseSlash \in Nat

vars == <<block, balances, registryVars>>

Init == SystemInit /\ BalancesInit /\ RegistryInit

Call == RegistryCall /\ UNCHANGED block

PenalizeProvider ==
    /\ \E did \in Did : slash_reputation_for_guilty_delivery(did, GuiltySlash, balances)
    /\ UNCHANGED block

PenalizeFalseDisputer ==
    /\ \E did \in Did : slash_reputation(did, FalseSlash)
    /\ UNCHANGED <<block, balances, ControllerAgents, ActiveAgentCount, StarGivers,
                   DisputeStrikes, slashed>>

NewBlock == AdvanceBlock /\ UNCHANGED <<balances, registryVars>>

Next == Call \/ PenalizeProvider \/ PenalizeFalseDisputer \/ NewBlock

Spec == Init /\ [][Next]_vars

-----------------------------------------------------------------------------
TypeOK == block \in Nat /\ balances \in Ledger /\ RegistryTypeOK

\* A controller's reserve is the deposits of its agents, short of at most what
\* DepositSlashed events burned: the unreserve of the full deposit of a slashed
\* agent (lib.rs:622) never takes more than the slashes took.
DepositsBacked ==
    \A a \in Account :
        /\ balances[a].reserved <= Deposits(a)
        /\ balances[a].reserved + slashed[a] >= Deposits(a)
=============================================================================
