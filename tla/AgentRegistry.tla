--------------------------- MODULE AgentRegistry ---------------------------
(***************************************************************************)
(* pallet-agent-registry: DID profiles, their controllers, peer stars and  *)
(* the reputation and deposit penalties that dispute resolution applies.   *)
(*                                                                         *)
(* Free-form profile data (metadata, label) is folded into capabilities.   *)
(* ControllerAgents holds each BoundedVec as a set: a DID is pushed only   *)
(* when it has no profile, and every listed DID has one (IndexConsistent). *)
(***************************************************************************)
EXTENDS Balances, FiniteSets

CONSTANTS Did,                     \* the identities, one per ML-DSA key pair
          Authorized,              \* <<did, controller>>: whom a key signs a challenge for
          CapabilityBitmap,        \* the capability values callers use
          StatusInput,             \* the statuses callers ask for
          StarPair,                \* the <<giver, receiver>> pairs callers name
          MaxAgents,               \* bound of ControllerAgents (64 in the code)
          REPLAY_WINDOW,
          StarCooldown,
          RegistrationDeposit,
          StrikeThreshold,
          DepositSlashPerStrike

AgentStatus == {"Active", "Suspended", "Revoked"}

ASSUME RegistryAssumption ==
    /\ IsFiniteSet(Did)
    /\ Authorized \subseteq Did \X Account
    /\ StatusInput \subseteq AgentStatus
    /\ StarPair \subseteq Did \X Did
    /\ MaxAgents \in Nat /\ REPLAY_WINDOW \in Nat
    /\ StarCooldown \in Nat \ {0}
    /\ RegistrationDeposit \in Nat /\ DepositSlashPerStrike \in Nat
    /\ StrikeThreshold \in Nat \ {0}

VARIABLES AgentProfiles,           \* StorageMap Did -> AgentProfile
          ControllerAgents,        \* StorageMap AccountId -> bounded list of Did
          ActiveAgentCount,
          StarGivers,              \* (giver, receiver) -> block of the last star, 0 = none
          DisputeStrikes,          \* Did -> strikes
          slashed                  \* history: sum of the DepositSlashed amounts per controller

registryVars == <<AgentProfiles, ControllerAgents, ActiveAgentCount,
                  StarGivers, DisputeStrikes, slashed>>

AgentProfile == [controller : Account, capabilities : CapabilityBitmap,
                 reputation_score : Nat, status : AgentStatus,
                 registered_at : Nat, is_verified : BOOLEAN]

RegistryInit ==
    /\ AgentProfiles = EmptyMap
    /\ ControllerAgents = [a \in Account |-> {}]
    /\ ActiveAgentCount = 0
    /\ StarGivers = [pair \in Did \X Did |-> 0]
    /\ DisputeStrikes = [d \in Did |-> 0]
    /\ slashed = [a \in Account |-> 0]

Registered == DOMAIN AgentProfiles

-----------------------------------------------------------------------------
(***************************************************************************)
(* Registration.  A signature is known by the challenge it was made over;  *)
(* the genesis hash and the hash of the challenge block are fixed by the   *)
(* chain and signed_at_block.  Keys sign for the controllers in Authorized,*)
(* at any past block.                                                      *)
(***************************************************************************)
Signatures ==
    {[did |-> p[1], controller |-> p[2], signed_at |-> b] : p \in Authorized, b \in 0..block}

\* Mutant: the challenge does not bind the controller.
verify_unbound(did, controller, signed_at_block, signature) ==
    signature.did = did /\ signature.signed_at = signed_at_block

verify(did, controller, signed_at_block, signature) ==
    signature = [did |-> did, controller |-> controller, signed_at |-> signed_at_block]

InReplayWindow(signed_at_block) ==
    /\ signed_at_block <= block                               \* InvalidChallengeBlock
    /\ block - signed_at_block <= REPLAY_WINDOW               \* ChallengeExpired

\* Mutant: no deposit is taken.
DepositLedger_free(controller) == balances

DepositLedger(controller) == Reserve(balances, controller, RegistrationDeposit)

register_agent(controller, did, signature, signed_at_block, capabilities) ==
    /\ did \notin Registered                                  \* DidAlreadyRegistered
    /\ Cardinality(ControllerAgents[controller]) < MaxAgents  \* TooManyAgentsForController
    /\ InReplayWindow(signed_at_block)
    /\ verify(did, controller, signed_at_block, signature)    \* InvalidQuantumProof
    /\ CanReserve(balances, controller, RegistrationDeposit)  \* InsufficientBalanceForDeposit
    /\ balances' = DepositLedger(controller)
    /\ AgentProfiles' = Put(AgentProfiles, did,
          [controller |-> controller, capabilities |-> capabilities,
           reputation_score |-> 0, status |-> "Active",
           registered_at |-> block, is_verified |-> TRUE])
    /\ ControllerAgents' = [ControllerAgents EXCEPT ![controller] = @ \cup {did}]
    /\ ActiveAgentCount' = ActiveAgentCount + 1
    /\ UNCHANGED <<StarGivers, DisputeStrikes, slashed>>

\* Mutant: Revoked agents can still be changed.
Governs_revoked(caller, did) ==
    did \in Registered /\ AgentProfiles[did].controller = caller

\* The guard shared by update_profile, set_agent_status and deregister_agent.
Governs(caller, did) ==
    /\ did \in Registered                                     \* DidNotFound
    /\ AgentProfiles[did].controller = caller                 \* NotController
    /\ AgentProfiles[did].status # "Revoked"                  \* AgentRevoked, AgentAlreadyRevoked

update_profile(caller, did, capabilities) ==
    /\ Governs(caller, did)
    /\ AgentProfiles' = [AgentProfiles EXCEPT ![did].capabilities = capabilities]
    /\ UNCHANGED <<balances, ControllerAgents, ActiveAgentCount, StarGivers,
                   DisputeStrikes, slashed>>

set_agent_status(caller, did, new_status) ==
    /\ Governs(caller, did)
    /\ AgentProfiles' = [AgentProfiles EXCEPT ![did].status = new_status]
    /\ ActiveAgentCount' = IF new_status = "Revoked" THEN saturating_sub(ActiveAgentCount, 1)
                           ELSE ActiveAgentCount
    /\ UNCHANGED <<balances, ControllerAgents, StarGivers, DisputeStrikes, slashed>>

\* Mutant: the reverse index is not pruned.
deregister_agent_unpruned(caller, did) ==
    /\ Governs(caller, did)
    /\ balances' = Unreserve(balances, caller, RegistrationDeposit)
    /\ AgentProfiles' = Drop(AgentProfiles, did)
    /\ ActiveAgentCount' = saturating_sub(ActiveAgentCount, 1)
    /\ UNCHANGED <<ControllerAgents, StarGivers, DisputeStrikes, slashed>>

deregister_agent(caller, did) ==
    /\ Governs(caller, did)
    /\ balances' = Unreserve(balances, caller, RegistrationDeposit)
    /\ ControllerAgents' = [ControllerAgents EXCEPT ![caller] = @ \ {did}]
    /\ AgentProfiles' = Drop(AgentProfiles, did)
    /\ ActiveAgentCount' = saturating_sub(ActiveAgentCount, 1)
    /\ UNCHANGED <<StarGivers, DisputeStrikes, slashed>>

-----------------------------------------------------------------------------
(***************************************************************************)
(* Peer stars.  Ownership of the giver is read from the reverse index; the *)
(* giver's own status is not looked at.                                    *)
(***************************************************************************)
\* Mutant: off by one.
CooldownElapsed_early(last_star) == last_star > 0 => block + 1 >= last_star + StarCooldown

CooldownElapsed(last_star) == last_star > 0 => block >= last_star + StarCooldown

give_star(caller, giver_did, receiver) ==
    /\ giver_did \in ControllerAgents[caller]                 \* NotController
    /\ giver_did # receiver                                   \* CannotStarSelf
    /\ receiver \in Registered                                \* DidNotFound
    /\ AgentProfiles[receiver].status # "Revoked"             \* AgentRevoked
    /\ AgentProfiles[receiver].controller # caller            \* CannotStarSameController
    /\ CooldownElapsed(StarGivers[<<giver_did, receiver>>])   \* CooldownNotExpired
    /\ StarGivers' = [StarGivers EXCEPT ![<<giver_did, receiver>>] = block]
    /\ AgentProfiles' = [AgentProfiles EXCEPT ![receiver].reputation_score = @ + 1]
    /\ UNCHANGED <<balances, ControllerAgents, ActiveAgentCount, DisputeStrikes, slashed>>

remove_star(caller, giver_did, receiver) ==
    /\ giver_did \in ControllerAgents[caller]                 \* NotController
    /\ StarGivers[<<giver_did, receiver>>] > 0                \* NotStarred
    /\ receiver \in Registered                                \* DidNotFound, rolls the reset back
    /\ StarGivers' = [StarGivers EXCEPT ![<<giver_did, receiver>>] = 0]
    /\ AgentProfiles' = [AgentProfiles EXCEPT ![receiver].reputation_score = saturating_sub(@, 1)]
    /\ UNCHANGED <<balances, ControllerAgents, ActiveAgentCount, DisputeStrikes, slashed>>

-----------------------------------------------------------------------------
(***************************************************************************)
(* Penalties, called by trusted runtime code.  They cannot fail: on an     *)
(* unknown DID they do nothing.                                            *)
(***************************************************************************)
\* Mutant: the subtraction does not saturate.
slash_reputation_below(did, amount) ==
    AgentProfiles' =
        IF did \in Registered
        THEN [AgentProfiles EXCEPT ![did].reputation_score = @ - amount]
        ELSE AgentProfiles

\* Mutant: an unknown DID is an error, which fails the calling extrinsic.
slash_reputation_fails(did, amount) ==
    /\ did \in Registered
    /\ AgentProfiles' = [AgentProfiles EXCEPT ![did].reputation_score = saturating_sub(@, amount)]

slash_reputation(did, amount) ==
    AgentProfiles' =
        IF did \in Registered
        THEN [AgentProfiles EXCEPT ![did].reputation_score = saturating_sub(@, amount)]
        ELSE AgentProfiles

\* Mutant: off by one.
ReachesThreshold_late(strikes) == strikes > StrikeThreshold

ReachesThreshold(strikes) == strikes >= StrikeThreshold

\* Mutant: slash_reserved's second result, what could not be slashed, is taken
\* for what was.
Removed_rest(ledger, controller) ==
    DepositSlashPerStrike - Slashable(ledger, controller, DepositSlashPerStrike)

\* The amount that DepositSlashed reports.
Removed(ledger, controller) == Slashable(ledger, controller, DepositSlashPerStrike)

\* The strike that reaches the threshold resets the counter and burns part of
\* the controller's reserve.
Strike(did, ledger) ==
    LET controller == AgentProfiles[did].controller IN
    \/ /\ ~ReachesThreshold(DisputeStrikes[did] + 1)
       /\ DisputeStrikes' = [DisputeStrikes EXCEPT ![did] = @ + 1]
       /\ balances' = ledger
       /\ UNCHANGED slashed
    \/ /\ ReachesThreshold(DisputeStrikes[did] + 1)
       /\ DisputeStrikes' = [DisputeStrikes EXCEPT ![did] = 0]
       /\ balances' = SlashReserved(ledger, controller, DepositSlashPerStrike)
       /\ slashed' = [slashed EXCEPT ![controller] = @ + Removed(ledger, controller)]

\* ledger is the ledger left by what the caller did before.
slash_reputation_for_guilty_delivery(did, amount, ledger) ==
    /\ slash_reputation(did, amount)
    /\ \/ did \in Registered /\ Strike(did, ledger)
       \/ /\ did \notin Registered
          /\ balances' = ledger
          /\ UNCHANGED <<DisputeStrikes, slashed>>
    /\ UNCHANGED <<ControllerAgents, ActiveAgentCount, StarGivers>>

-----------------------------------------------------------------------------
\* A signed extrinsic of this pallet.
RegistryCall ==
    \E caller \in Account, did \in Did :
        \/ \E sig \in Signatures, at \in 0..block, cap \in CapabilityBitmap :
              register_agent(caller, did, sig, at, cap)
        \/ \E cap \in CapabilityBitmap : update_profile(caller, did, cap)
        \/ \E s \in StatusInput : set_agent_status(caller, did, s)
        \/ deregister_agent(caller, did)
        \/ \E receiver \in Did :
              /\ <<did, receiver>> \in StarPair
              /\ give_star(caller, did, receiver) \/ remove_star(caller, did, receiver)

-----------------------------------------------------------------------------
(***************************************************************************)
(* Correctness.                                                            *)
(***************************************************************************)
RegistryTypeOK ==
    /\ IsMap(AgentProfiles, Did, AgentProfile)
    /\ ControllerAgents \in [Account -> SUBSET Did]
    /\ ActiveAgentCount \in Nat
    /\ StarGivers \in [Did \X Did -> Nat]
    /\ DisputeStrikes \in [Did -> Nat]
    /\ slashed \in [Account -> Nat]

\* The reverse index lists exactly the DIDs that a controller's profiles name,
\* so the ownership test of give_star and remove_star (lib.rs:502, 571), which
\* reads only the index, agrees with the profiles.
IndexConsistent ==
    \A a \in Account, d \in Did :
        d \in ControllerAgents[a] <=> d \in Registered /\ AgentProfiles[d].controller = a

NotRevoked == {d \in Registered : AgentProfiles[d].status # "Revoked"}

\* ActiveAgentCount is the number of non-revoked profiles: no path through
\* set_agent_status and deregister_agent (lib.rs:484, 634) counts an agent out
\* twice, which the saturating subtraction would hide.
AgentCountExact == ActiveAgentCount = Cardinality(NotRevoked)

\* A profile names a controller its key has signed for, under every order of
\* registration, deregistration and re-registration (lib.rs:376-394).
ControllerAuthorized ==
    \A d \in Registered : <<d, AgentProfiles[d].controller>> \in Authorized

\* The strike counter never rests at the threshold: the offence that reaches
\* it slashes and resets (lib.rs:700-707), also for a DID that left and came
\* back with its old strikes.
StrikesBelowThreshold == \A d \in Did : DisputeStrikes[d] < StrikeThreshold

\* One star per giver and cooldown window, plus one: no interleaving of stars,
\* removals (which clear the cooldown), slashes and re-registrations raises a
\* score faster (lib.rs:534-550, 575-589).
ReputationBounded ==
    \A d \in Registered :
        AgentProfiles[d].reputation_score
            <= Cardinality({g \in Did : <<g, d>> \in StarPair}) * (1 + (block - 1) \div StarCooldown)

RevokedStays ==
    \A d \in Registered :
        AgentProfiles[d].status = "Revoked" =>
            /\ d \in DOMAIN AgentProfiles'
            /\ AgentProfiles'[d] = [AgentProfiles[d] EXCEPT
                                      !.reputation_score = AgentProfiles'[d].reputation_score]

\* Revoked is terminal (lib.rs:71, 92): the profile stays for ever, with its
\* status, controller, capabilities and registration block.
RevokedIsTerminal == [][RevokedStays]_registryVars

\* The deposits the controller's listed agents should hold.
Deposits(a) == RegistrationDeposit * Cardinality(ControllerAgents[a])
=============================================================================
