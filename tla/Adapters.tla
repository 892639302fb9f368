------------------------------ MODULE Adapters ------------------------------
(***************************************************************************)
(* The runtime's adapters: how pallet-vector-db's AgentLookup,             *)
(* ReputationHandler and EscrowHandler reach the other two pallets.        *)
(* EscrowHandler forwards lock, release and refund of Escrow unchanged.    *)
(***************************************************************************)
EXTENDS Escrow, AgentRegistry

CONSTANTS ProviderGuiltySlash, FalseDisputeSlash    \* reputation points

ASSUME SlashAssumption == ProviderGuiltySlash \in Nat /\ FalseDisputeSlash \in Nat

\* controller_of(did) = Some(account)
controlled_by(did, account) == did \in Registered /\ AgentProfiles[did].controller = account

is_active_verified(did) ==
    did \in Registered /\ AgentProfiles[did].status = "Active" /\ AgentProfiles[did].is_verified

\* Mutant: the penalty works on the ledger from before the refund.
penalize_provider_stale(did, ledger) ==
    slash_reputation_for_guilty_delivery(did, ProviderGuiltySlash, balances)

penalize_provider(did, ledger) ==
    slash_reputation_for_guilty_delivery(did, ProviderGuiltySlash, ledger)

\* Mutant: a refuted dispute counts as a strike.
penalize_false_disputer_strike(did) ==
    /\ slash_reputation(did, FalseDisputeSlash)
    /\ DisputeStrikes' = [DisputeStrikes EXCEPT ![did] = @ + 1]
    /\ UNCHANGED <<ControllerAgents, ActiveAgentCount, StarGivers, slashed>>

penalize_false_disputer(did) ==
    /\ slash_reputation(did, FalseDisputeSlash)
    /\ UNCHANGED <<ControllerAgents, ActiveAgentCount, StarGivers, DisputeStrikes, slashed>>
=============================================================================
