------------------------ MODULE AgentRegistryProofs ------------------------
(***************************************************************************)
(* What the extrinsics and the penalties of pallet-agent-registry preserve,*)
(* whoever calls them: the types, the reverse index, the agent count, the  *)
(* controllers, the strikes, the deposits, the issuance and the scores.    *)
(* The theorems that use it are in RegistryAloneProofs, for the pallet on  *)
(* its own, and in RuntimeProofs, for the runtime.                         *)
(***************************************************************************)
EXTENDS AgentRegistry, EscrowProofs

(***************************************************************************)
(* Types.  One lemma per pallet: its extrinsics keep the types of what they*)
(* write.                                                                  *)
(***************************************************************************)
LEMMA SlashReputationType ==
    ASSUME RegistryTypeOK, NEW did, NEW amount \in Nat, slash_reputation(did, amount)
    PROVE  IsMap(AgentProfiles, Did, AgentProfile)'
<1>1. CASE did \in Registered
  <2> DEFINE row == [AgentProfiles[did] EXCEPT
                        !.reputation_score = saturating_sub(@, amount)]
  <2>1. row \in AgentProfile
    BY <1>1 DEF RegistryTypeOK, IsMap, AgentProfile, Registered, saturating_sub
  <2>2. AgentProfiles' = [AgentProfiles EXCEPT ![did] = row]
    BY <1>1, Zenon DEF slash_reputation, RegistryTypeOK, IsMap
  <2> QED BY <2>1, <2>2, UpdateType, Zenon DEF RegistryTypeOK
<1>2. CASE did \notin Registered
  BY <1>2, Zenon DEF slash_reputation, RegistryTypeOK
<1> QED BY <1>1, <1>2, Zenon

LEMMA GuiltyType ==
    ASSUME RegistryTypeOK, NEW did \in Did, NEW amount \in Nat, NEW ledger \in Ledger,
           slash_reputation_for_guilty_delivery(did, amount, ledger)
    PROVE  RegistryTypeOK' /\ balances' \in Ledger
<1>1. IsMap(AgentProfiles, Did, AgentProfile)'
  BY SlashReputationType, Zenon DEF slash_reputation_for_guilty_delivery
<1>2. CASE did \in Registered
  <2>1. AgentProfiles[did].controller \in Account
    BY <1>2, Zenon DEF RegistryTypeOK, IsMap, AgentProfile, Registered
  <2>2. /\ SlashReserved(ledger, AgentProfiles[did].controller, DepositSlashPerStrike) \in Ledger
        /\ Slashable(ledger, AgentProfiles[did].controller, DepositSlashPerStrike) \in Nat
    BY <2>1, SlashType, RegistryAssumption, Zenon
  <2>3. /\ DisputeStrikes' \in [Did -> Nat] /\ slashed' \in [Account -> Nat]
        /\ balances' \in Ledger
    BY <1>2, <2>1, <2>2
    DEF slash_reputation_for_guilty_delivery, Strike, Removed, RegistryTypeOK
  <2> QED BY <1>1, <2>3, Zenon DEF slash_reputation_for_guilty_delivery, RegistryTypeOK
<1>3. CASE did \notin Registered
  BY <1>1, <1>3, Zenon DEF slash_reputation_for_guilty_delivery, RegistryTypeOK
<1> QED BY <1>2, <1>3, Zenon

LEMMA RegistryType ==
    ASSUME RegistryTypeOK, balances \in Ledger, block \in Nat, RegistryCall
    PROVE  RegistryTypeOK' /\ balances' \in Ledger
<1>1. PICK caller \in Account, did \in Did :
        \/ \E sig \in Signatures, at \in 0..block, cap \in CapabilityBitmap :
              register_agent(caller, did, sig, at, cap)
        \/ \E cap \in CapabilityBitmap : update_profile(caller, did, cap)
        \/ \E st \in StatusInput : set_agent_status(caller, did, st)
        \/ deregister_agent(caller, did)
        \/ \E receiver \in Did : give_star(caller, did, receiver)
        \/ \E receiver \in Did : remove_star(caller, did, receiver)
  BY Zenon DEF RegistryCall
<1>2. ASSUME NEW sig \in Signatures, NEW at \in 0..block, NEW cap \in CapabilityBitmap,
             register_agent(caller, did, sig, at, cap)
      PROVE  RegistryTypeOK' /\ balances' \in Ledger
  <2> DEFINE row == [controller |-> caller, capabilities |-> cap, reputation_score |-> 0,
                     status |-> "Active", registered_at |-> block, is_verified |-> TRUE]
  <2>1. row \in AgentProfile
    BY Zenon DEF AgentProfile, AgentStatus
  <2>2. IsMap(AgentProfiles, Did, AgentProfile)'
    BY <1>2, <2>1, PutType, Zenon DEF register_agent, RegistryTypeOK
  <2>3. balances' \in Ledger
    BY <1>2, ReserveType, RegistryAssumption, Zenon DEF register_agent, DepositLedger
  <2> QED BY <1>2, <2>2, <2>3 DEF register_agent, RegistryTypeOK
<1>3. ASSUME NEW cap \in CapabilityBitmap, update_profile(caller, did, cap)
      PROVE  RegistryTypeOK' /\ balances' \in Ledger
  BY <1>3 DEF update_profile, Governs, Registered, RegistryTypeOK, IsMap, AgentProfile
<1>4. ASSUME NEW st \in StatusInput, set_agent_status(caller, did, st)
      PROVE  RegistryTypeOK' /\ balances' \in Ledger
  BY <1>4, RegistryAssumption
  DEF set_agent_status, Governs, Registered, RegistryTypeOK, IsMap, AgentProfile, saturating_sub
<1>5. ASSUME deregister_agent(caller, did)
      PROVE  RegistryTypeOK' /\ balances' \in Ledger
  <2>1. balances' \in Ledger
    BY <1>5, UnreserveType, RegistryAssumption, Zenon DEF deregister_agent
  <2>2. IsMap(AgentProfiles, Did, AgentProfile)'
    BY <1>5, DropType, Zenon DEF deregister_agent, RegistryTypeOK
  <2> QED BY <1>5, <2>1, <2>2 DEF deregister_agent, RegistryTypeOK, saturating_sub
<1>6. ASSUME NEW receiver \in Did, give_star(caller, did, receiver)
      PROVE  RegistryTypeOK' /\ balances' \in Ledger
  <2>1. IsMap(AgentProfiles, Did, AgentProfile)'
    BY <1>6 DEF give_star, Registered, RegistryTypeOK, IsMap, AgentProfile
  <2> QED BY <1>6, <2>1, Zenon DEF give_star, RegistryTypeOK
<1>7. ASSUME NEW receiver \in Did, remove_star(caller, did, receiver)
      PROVE  RegistryTypeOK' /\ balances' \in Ledger
  <2>1. saturating_sub(AgentProfiles[receiver].reputation_score, 1) \in Nat
    BY <1>7 DEF remove_star, Registered, RegistryTypeOK, IsMap, AgentProfile, saturating_sub
  <2>2. IsMap(AgentProfiles, Did, AgentProfile)'
    BY <1>7, <2>1 DEF remove_star, Registered, RegistryTypeOK, IsMap, AgentProfile
  <2> QED BY <1>7, <2>2, Zenon DEF remove_star, RegistryTypeOK
<1> QED BY <1>1, <1>2, <1>3, <1>4, <1>5, <1>6, <1>7, Zenon

-----------------------------------------------------------------------------
(***************************************************************************)
(* Index, count, controllers and strikes.                                  *)
(***************************************************************************)
RegistryInv ==
    /\ IndexConsistent
    /\ ControllerAuthorized
    /\ StrikesBelowThreshold
    /\ AgentCountExact

LEMMA NotRevokedFinite == ASSUME RegistryTypeOK PROVE IsFiniteSet(NotRevoked)
<1>1. NotRevoked \in SUBSET Did
  BY Zenon DEF NotRevoked, Registered, RegistryTypeOK, IsMap
<1> QED BY <1>1, FS_Subset, RegistryAssumption, Zenon

LEMMA RegistryInvInit == RegistryInit => RegistryInv
<1> SUFFICES ASSUME RegistryInit PROVE RegistryInv
  BY Zenon
<1>1. Registered = {} /\ NotRevoked = {}
  BY Zenon DEF RegistryInit, EmptyMap, Registered, NotRevoked
<1> QED
  BY <1>1, FS_EmptySet, RegistryAssumption
  DEF RegistryInit, RegistryInv, IndexConsistent, ControllerAuthorized,
      StrikesBelowThreshold, AgentCountExact

\* A step that keeps the controllers and statuses of the profiles.
SameAgents ==
    /\ Registered' = Registered
    /\ \A d \in Registered : /\ AgentProfiles'[d].controller = AgentProfiles[d].controller
                             /\ AgentProfiles'[d].status = AgentProfiles[d].status
    /\ UNCHANGED <<ControllerAgents, ActiveAgentCount>>

LEMMA SameAgentsInv ==
    ASSUME RegistryTypeOK, RegistryInv, SameAgents, StrikesBelowThreshold'
    PROVE  RegistryInv'
<1>1. NotRevoked' = NotRevoked
  BY Zenon DEF SameAgents, NotRevoked
<1> QED BY <1>1, Zenon DEF SameAgents, RegistryInv, IndexConsistent, ControllerAuthorized, AgentCountExact

\* A write to other fields of one profile.
LEMMA ScoreKeepsAgent ==
    ASSUME RegistryTypeOK, NEW did \in Registered, NEW n,
           AgentProfiles' = [AgentProfiles EXCEPT ![did].reputation_score = n],
           UNCHANGED <<ControllerAgents, ActiveAgentCount>>
    PROVE  SameAgents
<1>1. AgentProfiles[did] \in AgentProfile
  BY Zenon DEF Registered, RegistryTypeOK, IsMap
<1> QED BY <1>1, Zenon DEF SameAgents, Registered, AgentProfile, RegistryTypeOK, IsMap

LEMMA SlashKeepsAgents ==
    ASSUME RegistryTypeOK, NEW did, NEW amount, slash_reputation(did, amount),
           UNCHANGED <<ControllerAgents, ActiveAgentCount>>
    PROVE  SameAgents
<1>1. CASE did \in Registered
  BY <1>1, ScoreKeepsAgent, Zenon DEF slash_reputation
<1>2. CASE did \notin Registered
  BY <1>2, Zenon DEF slash_reputation, SameAgents, Registered
<1> QED BY <1>1, <1>2, Zenon

LEMMA GuiltyInv ==
    ASSUME RegistryTypeOK, RegistryInv, NEW did \in Did, NEW amount, NEW ledger,
           slash_reputation_for_guilty_delivery(did, amount, ledger)
    PROVE  RegistryInv'
<1>1. SameAgents
  BY SlashKeepsAgents, Zenon DEF slash_reputation_for_guilty_delivery
<1>2. StrikesBelowThreshold'
  BY RegistryAssumption
  DEF slash_reputation_for_guilty_delivery, Strike, ReachesThreshold, RegistryTypeOK,
      RegistryInv, StrikesBelowThreshold
<1> QED BY <1>1, <1>2, SameAgentsInv, Zenon

LEMMA RegisterAgentInv ==
    ASSUME RegistryTypeOK, RegistryInv, NEW caller \in Account, NEW did \in Did,
           NEW sig \in Signatures, NEW at, NEW cap, register_agent(caller, did, sig, at, cap)
    PROVE  RegistryInv'
<1>1. /\ did \notin Registered
      /\ Registered' = Registered \cup {did}
      /\ \A d \in Registered : AgentProfiles'[d] = AgentProfiles[d]
      /\ AgentProfiles'[did].controller = caller
      /\ AgentProfiles'[did].status = "Active"
      /\ ControllerAgents' = [ControllerAgents EXCEPT ![caller] = @ \cup {did}]
      /\ UNCHANGED DisputeStrikes
  BY Zenon DEF register_agent, Registered, Put
<1>2. <<did, caller>> \in Authorized
  <2>1. PICK p \in Authorized, b \in 0..block :
          sig = [did |-> p[1], controller |-> p[2], signed_at |-> b]
    BY DEF Signatures
  <2>2. p[1] = did /\ p[2] = caller
    BY <2>1 DEF register_agent, verify
  <2> QED BY <2>2, RegistryAssumption
<1>3. IndexConsistent'
  BY <1>1 DEF RegistryInv, IndexConsistent, RegistryTypeOK
<1>4. ControllerAuthorized'
  BY <1>1, <1>2, Zenon DEF RegistryInv, ControllerAuthorized
<1>5. AgentCountExact'
  <2>1. did \notin NotRevoked /\ NotRevoked' = NotRevoked \cup {did}
    BY <1>1, Zenon DEF NotRevoked
  <2>2. Cardinality(NotRevoked') = Cardinality(NotRevoked) + 1
    BY <2>1, NotRevokedFinite, FS_AddElement, Zenon
  <2> QED BY <2>2, Zenon DEF register_agent, RegistryInv, AgentCountExact
<1> QED BY <1>1, <1>3, <1>4, <1>5, Zenon DEF RegistryInv, StrikesBelowThreshold

\* One agent leaves the non-revoked population, and the subtraction does not
\* saturate.
LEMMA CountsAgentOut ==
    ASSUME RegistryTypeOK, AgentCountExact, NEW did \in NotRevoked,
           NotRevoked' = NotRevoked \ {did},
           ActiveAgentCount' = saturating_sub(ActiveAgentCount, 1)
    PROVE  AgentCountExact'
<1>1. IsFiniteSet(NotRevoked') /\ Cardinality(NotRevoked') = Cardinality(NotRevoked) - 1
  BY NotRevokedFinite, FS_RemoveElement, Zenon
<1>2. Cardinality(NotRevoked') \in Nat /\ Cardinality(NotRevoked) \in Nat
  BY <1>1, NotRevokedFinite, FS_CardinalityType, Zenon
<1> QED BY <1>1, <1>2 DEF AgentCountExact, saturating_sub

LEMMA SetStatusInv ==
    ASSUME RegistryTypeOK, RegistryInv, NEW caller, NEW did, NEW st \in StatusInput,
           set_agent_status(caller, did, st)
    PROVE  RegistryInv'
<1>1. /\ did \in Registered /\ AgentProfiles[did].status # "Revoked"
      /\ AgentProfiles[did] \in AgentProfile
      /\ UNCHANGED <<ControllerAgents, DisputeStrikes>>
  BY Zenon DEF set_agent_status, Governs, Registered, RegistryTypeOK, IsMap
<1>2. /\ Registered' = Registered
      /\ \A d \in Registered \ {did} : AgentProfiles'[d] = AgentProfiles[d]
      /\ AgentProfiles'[did].controller = AgentProfiles[did].controller
      /\ AgentProfiles'[did].status = st
  BY <1>1, Zenon DEF set_agent_status, Registered, RegistryTypeOK, IsMap, AgentProfile
<1>3. IndexConsistent' /\ ControllerAuthorized' /\ StrikesBelowThreshold'
  BY <1>1, <1>2 DEF RegistryInv, IndexConsistent, ControllerAuthorized, StrikesBelowThreshold
<1>4. CASE st = "Revoked"
  <2>1. did \in NotRevoked /\ NotRevoked' = NotRevoked \ {did}
    BY <1>1, <1>2, <1>4, Zenon DEF NotRevoked
  <2> QED BY <1>3, <1>4, <2>1, CountsAgentOut, Zenon DEF set_agent_status, RegistryInv
<1>5. CASE st # "Revoked"
  <2>1. NotRevoked' = NotRevoked
    BY <1>1, <1>2, <1>5, Zenon DEF NotRevoked
  <2> QED BY <1>3, <1>5, <2>1, Zenon DEF set_agent_status, RegistryInv, AgentCountExact
<1> QED BY <1>4, <1>5, Zenon

LEMMA DeregisterInv ==
    ASSUME RegistryTypeOK, RegistryInv, NEW caller \in Account, NEW did,
           deregister_agent(caller, did)
    PROVE  RegistryInv'
<1>1. /\ did \in Registered /\ AgentProfiles[did].status # "Revoked"
      /\ AgentProfiles[did].controller = caller
      /\ Registered' = Registered \ {did}
      /\ \A d \in Registered \ {did} : AgentProfiles'[d] = AgentProfiles[d]
      /\ ControllerAgents' = [ControllerAgents EXCEPT ![caller] = @ \ {did}]
      /\ UNCHANGED DisputeStrikes
  BY Zenon DEF deregister_agent, Governs, Registered, Drop
<1>2. IndexConsistent'
  BY <1>1 DEF RegistryInv, IndexConsistent, RegistryTypeOK
<1>3. ControllerAuthorized' /\ StrikesBelowThreshold'
  BY <1>1, Zenon DEF RegistryInv, ControllerAuthorized, StrikesBelowThreshold
<1>4. did \in NotRevoked /\ NotRevoked' = NotRevoked \ {did}
  BY <1>1, Zenon DEF NotRevoked
<1> QED BY <1>2, <1>3, <1>4, CountsAgentOut, Zenon DEF deregister_agent, RegistryInv

LEMMA RegistryCallInv ==
    ASSUME RegistryTypeOK, RegistryInv, RegistryCall
    PROVE  RegistryInv'
<1>1. ASSUME NEW caller, NEW did, NEW cap, update_profile(caller, did, cap)
      PROVE  RegistryInv'
  <2>1. did \in Registered /\ AgentProfiles[did] \in AgentProfile
    BY <1>1, Zenon DEF update_profile, Governs, Registered, RegistryTypeOK, IsMap
  <2>2. SameAgents
    BY <1>1, <2>1, Zenon DEF update_profile, SameAgents, Registered, AgentProfile, RegistryTypeOK, IsMap
  <2> QED BY <1>1, <2>2, SameAgentsInv, Zenon DEF update_profile, RegistryInv, StrikesBelowThreshold
<1>2. ASSUME NEW caller, NEW did, NEW receiver,
             give_star(caller, did, receiver) \/ remove_star(caller, did, receiver)
      PROVE  RegistryInv'
  <2>1. SameAgents
    BY <1>2, ScoreKeepsAgent, Zenon DEF give_star, remove_star
  <2> QED BY <1>2, <2>1, SameAgentsInv, Zenon DEF give_star, remove_star, RegistryInv, StrikesBelowThreshold
<1> QED BY <1>1, <1>2, RegisterAgentInv, SetStatusInv, DeregisterInv, Zenon DEF RegistryCall

-----------------------------------------------------------------------------
(***************************************************************************)
(* The deposits.  other is what other pallets claim of the same reserve.   *)
(***************************************************************************)
WithDeposits(other) == [a \in Account |-> Deposits(a) + other[a]]

LEMMA DepositFacts ==
    ASSUME NEW n \in Nat
    PROVE  /\ RegistrationDeposit * n \in Nat
           /\ RegistrationDeposit * (n + 1) = RegistrationDeposit * n + RegistrationDeposit
BY RegistryAssumption

LEMMA DepositsType ==
    ASSUME RegistryTypeOK, NEW a \in Account
    PROVE  /\ IsFiniteSet(ControllerAgents[a]) /\ Cardinality(ControllerAgents[a]) \in Nat
           /\ Deposits(a) \in Nat
<1>1. ControllerAgents[a] \in SUBSET Did
  BY Zenon DEF RegistryTypeOK
<1>2. IsFiniteSet(ControllerAgents[a]) /\ Cardinality(ControllerAgents[a]) \in Nat
  BY <1>1, FS_Subset, FS_CardinalityType, RegistryAssumption, Zenon
<1> QED BY <1>2, DepositFacts, Zenon DEF Deposits

LEMMA WithDepositsType ==
    ASSUME RegistryTypeOK, NEW other \in [Account -> Nat]
    PROVE  WithDeposits(other) \in [Account -> Nat]
BY DepositsType DEF WithDeposits

LEMMA RegisterDeposits ==
    ASSUME RegistryTypeOK, IndexConsistent, NEW c \in Account, NEW did \in Did, NEW sig, NEW at,
           NEW cap, register_agent(c, did, sig, at, cap), NEW a \in Account
    PROVE  Deposits(a)' = IF a = c THEN Deposits(a) + RegistrationDeposit ELSE Deposits(a)
<1>1. /\ ControllerAgents' = [ControllerAgents EXCEPT ![c] = @ \cup {did}]
      /\ did \notin ControllerAgents[c]
  BY Zenon DEF register_agent, IndexConsistent
<1>2. ControllerAgents'[a] = IF a = c THEN ControllerAgents[a] \cup {did} ELSE ControllerAgents[a]
  BY <1>1, Zenon DEF RegistryTypeOK
<1>3. CASE a = c
  <2>1. PICK n \in Nat : n = Cardinality(ControllerAgents[a])
    BY DepositsType, Zenon
  <2>2. /\ IsFiniteSet(ControllerAgents[a]) /\ did \notin ControllerAgents[a]
        /\ ControllerAgents'[a] = ControllerAgents[a] \cup {did}
    BY <1>1, <1>2, <1>3, DepositsType, Zenon
  <2>3. Cardinality(ControllerAgents'[a]) = n + 1
    BY <2>1, <2>2, FS_AddElement, Zenon
  <2> QED BY <1>3, <2>1, <2>3, DepositFacts, Zenon DEF Deposits
<1>4. CASE a # c
  BY <1>2, <1>4, Zenon DEF Deposits
<1> QED BY <1>3, <1>4, Zenon

LEMMA DeregisterDeposits ==
    ASSUME RegistryTypeOK, IndexConsistent, NEW c \in Account, NEW did \in Did,
           deregister_agent(c, did), NEW a \in Account
    PROVE  /\ Deposits(a)' \in Nat
           /\ Deposits(a) = IF a = c THEN Deposits(a)' + RegistrationDeposit ELSE Deposits(a)'
<1>1. /\ ControllerAgents' = [ControllerAgents EXCEPT ![c] = @ \ {did}]
      /\ did \in ControllerAgents[c]
  BY Zenon DEF deregister_agent, Governs, IndexConsistent
<1>2. ControllerAgents'[a] = IF a = c THEN ControllerAgents[a] \ {did} ELSE ControllerAgents[a]
  BY <1>1, Zenon DEF RegistryTypeOK
<1>3. CASE a = c
  <2>1. /\ IsFiniteSet(ControllerAgents'[a])
        /\ Cardinality(ControllerAgents'[a]) = Cardinality(ControllerAgents[a]) - 1
    BY <1>1, <1>2, <1>3, DepositsType, FS_RemoveElement
  <2>2. PICK n \in Nat : /\ Cardinality(ControllerAgents'[a]) = n
                         /\ Cardinality(ControllerAgents[a]) = n + 1
    BY <2>1, DepositsType, FS_CardinalityType
  <2> QED BY <1>3, <2>2, DepositFacts, Zenon DEF Deposits
<1>4. CASE a # c
  BY <1>2, <1>4, DepositsType, Zenon DEF Deposits
<1> QED BY <1>3, <1>4, Zenon

\* Only registering and deregistering touch the ledger or a controller's set of DIDs.
LEMMA MoneyCalls ==
    ASSUME RegistryCall
    PROVE  \/ \E c \in Account, did \in Did : \E sig, at, cap : register_agent(c, did, sig, at, cap)
           \/ \E c \in Account, did \in Did : deregister_agent(c, did)
           \/ UNCHANGED <<balances, ControllerAgents, slashed>>
<1> DEFINE Idle == UNCHANGED <<balances, ControllerAgents, slashed>>
<1>1. ASSUME NEW c, NEW did, NEW x,
             \/ update_profile(c, did, x) \/ set_agent_status(c, did, x)
             \/ give_star(c, did, x) \/ remove_star(c, did, x)
      PROVE  Idle
  BY <1>1, Zenon DEF update_profile, set_agent_status, give_star, remove_star
<1> HIDE DEF Idle
<1>2. \/ \E c \in Account, did \in Did : \E sig, at, cap : register_agent(c, did, sig, at, cap)
      \/ \E c \in Account, did \in Did : deregister_agent(c, did)
      \/ Idle
  BY <1>1, Zenon DEF RegistryCall
<1> QED BY <1>2, Zenon DEF Idle

\* An extrinsic of this pallet changes the reserve as it changes the deposits.
LEMMA RegistryCovers ==
    ASSUME RegistryTypeOK, IndexConsistent, balances \in Ledger,
           NEW other \in [Account -> Nat], RegistryCall,
           Covers(balances, slashed, WithDeposits(other))
    PROVE  Covers(balances', slashed', WithDeposits(other)')
<1> DEFINE claims == WithDeposits(other)
<1>1. claims \in [Account -> Nat] /\ slashed \in [Account -> Nat]
  BY WithDepositsType, Zenon DEF RegistryTypeOK
<1>2. ASSUME UNCHANGED <<balances, ControllerAgents, slashed>>
      PROVE  Covers(balances', slashed', claims')
  BY <1>2, Zenon DEF WithDeposits, Deposits
<1>3. ASSUME NEW c \in Account, NEW did \in Did, NEW sig, NEW at, NEW cap,
             register_agent(c, did, sig, at, cap)
      PROVE  Covers(balances', slashed', claims')
  <2>1. OneMore(claims, claims', c, RegistrationDeposit)
    <3>1. ASSUME NEW a \in Account
          PROVE  claims'[a] = IF a = c THEN claims[a] + RegistrationDeposit ELSE claims[a]
      <4>1. Deposits(a)' = IF a = c THEN Deposits(a) + RegistrationDeposit ELSE Deposits(a)
        BY <1>3, RegisterDeposits, Zenon
      <4>2. Deposits(a) \in Nat /\ other[a] \in Nat /\ RegistrationDeposit \in Nat
        BY DepositsType, RegistryAssumption, Zenon
      <4>3. claims[a] = Deposits(a) + other[a] /\ claims'[a] = Deposits(a)' + other[a]
        BY Zenon DEF WithDeposits
      <4> HIDE DEF claims
      <4> QED BY <4>1, <4>2, <4>3
    <3> QED BY <3>1, Zenon DEF OneMore
  <2>2. balances' = Reserve(balances, c, RegistrationDeposit) /\ slashed' = slashed
    BY <1>3, Zenon DEF register_agent, DepositLedger
  <2> HIDE DEF claims
  <2> QED BY <1>1, <2>1, <2>2, ReserveCovers, RegistryAssumption, Zenon DEF claims
<1>4. ASSUME NEW c \in Account, NEW did \in Did, deregister_agent(c, did)
      PROVE  Covers(balances', slashed', claims')
  <2>1. OneMore(claims', claims, c, RegistrationDeposit) /\ claims' \in [Account -> Nat]
    <3>1. ASSUME NEW a \in Account
          PROVE  /\ claims[a] = IF a = c THEN claims'[a] + RegistrationDeposit ELSE claims'[a]
                 /\ Deposits(a)' + other[a] \in Nat
      BY <1>4, DeregisterDeposits, RegistryAssumption DEF WithDeposits
    <3> QED BY <3>1, Zenon DEF OneMore, WithDeposits
  <2>2. /\ balances' = Unreserve(balances, c, RegistrationDeposit) /\ slashed' = slashed
        /\ Takes(balances, balances', c, RegistrationDeposit)
    BY <1>4, UnreserveTakes, RegistryAssumption, Zenon DEF deregister_agent
  <2> HIDE DEF claims
  <2> QED BY <1>1, <2>1, <2>2, TakeCovers, RegistryAssumption, Zenon DEF claims
<1> HIDE DEF claims
<1> QED BY <1>2, <1>3, <1>4, MoneyCalls, Zenon DEF claims

\* A penalty burns what it adds to the burned amount, whatever the claims are.
LEMMA GuiltyCovers ==
    ASSUME RegistryTypeOK, NEW did \in Did, NEW amount, NEW ledger \in Ledger,
           NEW claims \in [Account -> Nat], Covers(ledger, slashed, claims),
           slash_reputation_for_guilty_delivery(did, amount, ledger)
    PROVE  Covers(balances', slashed', claims) /\ UNCHANGED ControllerAgents
<1>1. UNCHANGED ControllerAgents
  BY Zenon DEF slash_reputation_for_guilty_delivery
<1>2. CASE balances' = ledger /\ UNCHANGED slashed
  BY <1>1, <1>2, Zenon
<1>3. CASE did \in Registered /\ Strike(did, ledger)
  <2>1. PICK c \in Account : c = AgentProfiles[did].controller
    BY <1>3, Zenon DEF RegistryTypeOK, IsMap, AgentProfile, Registered
  <2>2. CASE /\ balances' = SlashReserved(ledger, c, DepositSlashPerStrike)
             /\ slashed' = [slashed EXCEPT ![c] = @ + Slashable(ledger, c, DepositSlashPerStrike)]
    BY <1>1, <2>2, SlashCovers, RegistryAssumption, Zenon DEF RegistryTypeOK
  <2> QED BY <1>2, <1>3, <2>1, <2>2, Zenon DEF Strike, Removed
<1> QED BY <1>2, <1>3, Zenon DEF slash_reputation_for_guilty_delivery

-----------------------------------------------------------------------------
(***************************************************************************)
(* The issuance.                                                           *)
(***************************************************************************)
LEMMA RegistryIssuance ==
    ASSUME balances \in Ledger, RegistryCall
    PROVE  Issuance(balances') = Issuance(balances) /\ UNCHANGED slashed
<1>1. ASSUME NEW c \in Account, NEW did \in Did, NEW sig, NEW at, NEW cap,
             register_agent(c, did, sig, at, cap)
      PROVE  Issuance(balances') = Issuance(balances) /\ UNCHANGED slashed
  BY <1>1, ReserveIssuance, RegistryAssumption, Zenon DEF register_agent, DepositLedger
<1>2. ASSUME NEW c \in Account, NEW did \in Did, deregister_agent(c, did)
      PROVE  Issuance(balances') = Issuance(balances) /\ UNCHANGED slashed
  BY <1>2, UnreserveIssuance, RegistryAssumption, Zenon DEF deregister_agent
<1>3. ASSUME UNCHANGED <<balances, ControllerAgents, slashed>>
      PROVE  Issuance(balances') = Issuance(balances) /\ UNCHANGED slashed
  BY <1>3, Zenon
<1> QED BY <1>1, <1>2, <1>3, MoneyCalls, Zenon

LEMMA GuiltyIssuance ==
    ASSUME RegistryTypeOK, NEW did \in Did, NEW amount, NEW ledger \in Ledger,
           slash_reputation_for_guilty_delivery(did, amount, ledger)
    PROVE  Issuance(balances') + SumFunctionOnSet(slashed', Account)
             = Issuance(ledger) + SumFunctionOnSet(slashed, Account)
<1>1. CASE balances' = ledger /\ UNCHANGED slashed
  BY <1>1, Zenon
<1>2. CASE did \in Registered /\ Strike(did, ledger)
  <2>1. PICK c \in Account : c = AgentProfiles[did].controller
    BY <1>2, Zenon DEF RegistryTypeOK, IsMap, AgentProfile, Registered
  <2>2. CASE /\ balances' = SlashReserved(ledger, c, DepositSlashPerStrike)
             /\ slashed' = [slashed EXCEPT ![c] = @ + Slashable(ledger, c, DepositSlashPerStrike)]
    <3>1. PICK x \in Nat : x = Slashable(ledger, c, DepositSlashPerStrike)
      BY SlashType, RegistryAssumption, Zenon
    <3>2. Issuance(balances') = Issuance(ledger) - x
      BY <2>2, <3>1, SlashIssuance, RegistryAssumption, Zenon
    <3>3. /\ \A a \in Account : slashed[a] \in Nat /\ slashed'[a] \in Nat
          /\ \A a \in Account \ {c} : slashed[a] = slashed'[a]
          /\ slashed'[c] = slashed[c] + x
      BY <2>2, <3>1 DEF RegistryTypeOK
    <3>4. SumFunctionOnSet(slashed', Account)
            = SumFunctionOnSet(slashed, Account) - slashed[c] + slashed'[c]
      <4>1. IsFiniteSet(Account)
        BY BalancesAssumption, Zenon
      <4> QED BY <3>3, <4>1, SumChange
    <3>5. SumFunctionOnSet(slashed, Account) \in Nat /\ Issuance(ledger) \in Nat
      BY <3>3, SumType, WealthType, BalancesAssumption, Zenon DEF Issuance
    <3>6. slashed[c] \in Nat /\ slashed'[c] = slashed[c] + x
      BY <3>3, Zenon
    <3> QED BY <3>2, <3>4, <3>5, <3>6
  <2> QED BY <1>1, <1>2, <2>1, <2>2, Zenon DEF Strike, Removed
<1> QED BY <1>1, <1>2, Zenon DEF slash_reputation_for_guilty_delivery

-----------------------------------------------------------------------------
(***************************************************************************)
(* Reputation.  ReputationBounded is not inductive: it says nothing of what*)
(* a giver may still do.  Allowance(d)[g] is how many of g's stars the     *)
(* score of d may hold: after a star in block b, one for every full        *)
(* cooldown before b and one more; after a removal, one for every full     *)
(* cooldown up to now, since the next star may come at once.               *)
(***************************************************************************)
Givers(d) == {g \in Did : <<g, d>> \in StarPair}

\* The full cooldowns before block b.
Windows(b) == (b - 1) \div StarCooldown

AllowanceIn(stars, now, d) ==
    [g \in Did |-> IF stars[<<g, d>>] > 0 THEN 1 + Windows(stars[<<g, d>>]) ELSE Windows(now)]

Allowance(d) == AllowanceIn(StarGivers, block, d)

ScoreWithin(d) ==
    AgentProfiles[d].reputation_score <= SumFunctionOnSet(Allowance(d), Givers(d))

ScoreInv ==
    /\ block >= 1
    /\ \A pair \in Did \X Did : StarGivers[pair] <= block
    /\ \A d \in Registered : ScoreWithin(d)

\* Division by the cooldown: its definition, monotony, and one more per cooldown.
LEMMA DivBounds ==
    ASSUME NEW a \in Nat, NEW k \in Nat \ {0}
    PROVE  a \div k \in Nat /\ k * (a \div k) <= a /\ a < k * (a \div k) + k
OBVIOUS

LEMMA DivGap ==
    ASSUME NEW p \in Int, NEW q \in Int, NEW a \in Nat, NEW b \in Nat, NEW k \in Nat \ {0},
           k * p <= a, b < k * q + k, a <= b
    PROVE  p <= q
<1> SUFFICES ASSUME q + 1 <= p PROVE FALSE
  OBVIOUS
<1>1. k * (q + 1) <= k * p
  OBVIOUS
<1>2. k * (q + 1) = k * q + k
  OBVIOUS
<1> QED BY <1>1, <1>2

LEMMA DivMonotone ==
    ASSUME NEW a \in Nat, NEW b \in Nat, NEW k \in Nat \ {0}, a <= b
    PROVE  a \div k <= b \div k
BY DivBounds, DivGap

LEMMA DivNext ==
    ASSUME NEW a \in Nat, NEW b \in Nat, NEW k \in Nat \ {0}, a + k <= b
    PROVE  a \div k + 1 <= b \div k
<1>1. k * (a \div k + 1) <= a + k
  BY DivBounds
<1> QED BY <1>1, DivBounds, DivGap

LEMMA WindowFacts ==
    ASSUME NEW b \in Nat \ {0}
    PROVE  /\ Windows(b) \in Nat
           /\ \A c \in Nat \ {0} : b <= c => Windows(b) <= Windows(c)
           /\ \A c \in Nat \ {0} : b + StarCooldown <= c => Windows(b) + 1 <= Windows(c)
<1>1. StarCooldown \in Nat \ {0} /\ b - 1 \in Nat
  BY RegistryAssumption
<1>2. Windows(b) \in Nat
  BY <1>1, DivBounds, Zenon DEF Windows
<1>3. ASSUME NEW c \in Nat \ {0}, b <= c PROVE Windows(b) <= Windows(c)
  BY <1>1, <1>3, DivMonotone DEF Windows
<1>4. ASSUME NEW c \in Nat \ {0}, b + StarCooldown <= c PROVE Windows(b) + 1 <= Windows(c)
  BY <1>1, <1>4, DivNext DEF Windows
<1> QED BY <1>2, <1>3, <1>4, Zenon

LEMMA AllowanceType ==
    ASSUME NEW stars \in [Did \X Did -> Nat], NEW now \in Nat \ {0}, NEW d \in Did
    PROVE  /\ IsFiniteSet(Givers(d)) /\ Givers(d) \subseteq Did
           /\ \A g \in Did : AllowanceIn(stars, now, d)[g] \in Nat
<1>1. Givers(d) \in SUBSET Did
  BY Zenon DEF Givers
<1>2. ASSUME NEW g \in Did PROVE AllowanceIn(stars, now, d)[g] \in Nat
  <2>1. stars[<<g, d>>] \in Nat
    BY Zenon
  <2> QED BY <2>1, WindowFacts DEF AllowanceIn
<1> QED BY <1>1, <1>2, FS_Subset, RegistryAssumption, Zenon

LEMMA ScoreInvInit == SystemInit /\ RegistryInit => ScoreInv
BY DEF SystemInit, RegistryInit, EmptyMap, Registered, ScoreInv

\* A step that gives no star.
LEMMA ScoreKept ==
    ASSUME RegistryTypeOK, RegistryTypeOK', ScoreInv, block \in Nat, block' \in Nat,
           block <= block', UNCHANGED StarGivers,
           \A d \in Registered' :
              \/ AgentProfiles'[d].reputation_score = 0
              \/ /\ d \in Registered
                 /\ AgentProfiles'[d].reputation_score <= AgentProfiles[d].reputation_score
    PROVE  ScoreInv'
<1>1. block >= 1 /\ block' >= 1
  BY DEF ScoreInv
<1>2. \A pair \in Did \X Did : StarGivers'[pair] <= block'
  BY DEF ScoreInv, RegistryTypeOK
<1>3. ASSUME NEW d \in Registered' PROVE ScoreWithin(d)'
  <2>1. d \in Did /\ AgentProfiles'[d].reputation_score \in Nat
    BY Zenon DEF RegistryTypeOK, IsMap, AgentProfile, Registered
  <2>2. /\ IsFiniteSet(Givers(d)) /\ Givers(d) \subseteq Did
        /\ \A g \in Did : Allowance(d)[g] \in Nat /\ Allowance(d)'[g] \in Nat
    <3>1. /\ StarGivers \in [Did \X Did -> Nat] /\ StarGivers' \in [Did \X Did -> Nat]
          /\ block \in Nat \ {0} /\ block' \in Nat \ {0}
      BY <1>1 DEF RegistryTypeOK
    <3>2. /\ \A g \in Did : AllowanceIn(StarGivers, block, d)[g] \in Nat
          /\ \A g \in Did : AllowanceIn(StarGivers', block', d)[g] \in Nat
      BY <2>1, <3>1, AllowanceType, Zenon
    <3>3. IsFiniteSet(Givers(d)) /\ Givers(d) \subseteq Did
      BY <2>1, <3>1, AllowanceType, Zenon
    <3> QED BY <3>2, <3>3, Zenon DEF Allowance
  <2>3. ASSUME NEW g \in Did PROVE Allowance(d)[g] <= Allowance(d)'[g]
    <3>1. Windows(block) <= Windows(block')
      BY <1>1, WindowFacts
    <3>2. Allowance(d)[g] \in Nat /\ Allowance(d)'[g] \in Nat
      BY <2>2, Zenon
    <3> QED BY <3>1, <3>2 DEF Allowance, AllowanceIn
  <2>4. /\ SumFunctionOnSet(Allowance(d), Givers(d)) <= SumFunctionOnSet(Allowance(d)', Givers(d))
        /\ SumFunctionOnSet(Allowance(d), Givers(d)) \in Nat
        /\ SumFunctionOnSet(Allowance(d)', Givers(d)) \in Nat
    BY <2>2, <2>3, SumMonotone, SumType, Zenon
  <2>5. AgentProfiles'[d].reputation_score <= SumFunctionOnSet(Allowance(d)', Givers(d))
    <3>1. CASE AgentProfiles'[d].reputation_score = 0
      BY <2>4, <3>1
    <3>2. CASE /\ d \in Registered
               /\ AgentProfiles'[d].reputation_score <= AgentProfiles[d].reputation_score
      <4>1. AgentProfiles[d].reputation_score \in Nat
        BY <3>2, Zenon DEF RegistryTypeOK, IsMap, AgentProfile, Registered
      <4> QED BY <2>1, <2>4, <3>2, <4>1 DEF ScoreInv, ScoreWithin
    <3> QED BY <3>1, <3>2, Zenon
  <2> QED BY <2>5, Zenon DEF ScoreWithin, Givers
<1> QED BY <1>1, <1>2, <1>3, Zenon DEF ScoreInv

\* A step that writes the star of g for r, and the score of r with it.
LEMMA StarChange ==
    ASSUME RegistryTypeOK, RegistryTypeOK', ScoreInv, block \in Nat, UNCHANGED block,
           NEW g \in Did, NEW r \in Registered, <<g, r>> \in StarPair, NEW b \in 0..block,
           StarGivers' = [StarGivers EXCEPT ![<<g, r>>] = b],
           Registered' = Registered,
           \A d \in Registered \ {r} : AgentProfiles'[d] = AgentProfiles[d],
           \/ AgentProfiles'[r].reputation_score = 0
           \/ AgentProfiles'[r].reputation_score - AgentProfiles[r].reputation_score
                 <= Allowance(r)'[g] - Allowance(r)[g]
    PROVE  ScoreInv'
<1>1. block >= 1 /\ block' >= 1 /\ r \in Did
  BY Zenon DEF ScoreInv, RegistryTypeOK, IsMap, Registered
<1>2. \A pair \in Did \X Did :
         StarGivers'[pair] = IF pair = <<g, r>> THEN b ELSE StarGivers[pair]
  BY Zenon DEF RegistryTypeOK
<1>3. \A pair \in Did \X Did : StarGivers'[pair] <= block'
  BY <1>2 DEF ScoreInv
<1>4. ASSUME NEW d \in Registered', d # r PROVE ScoreWithin(d)'
  <2>1. \A h \in Did : <<h, d>> \in Did \X Did /\ <<h, d>> # <<g, r>>
    BY <1>4, Zenon DEF RegistryTypeOK, IsMap, Registered
  <2>2. Allowance(d)' = Allowance(d)
    BY <1>2, <2>1 DEF Allowance, AllowanceIn
  <2> QED BY <1>4, <2>2, Zenon DEF ScoreInv, ScoreWithin, Givers
<1>5. ScoreWithin(r)'
  <2>1. /\ IsFiniteSet(Givers(r)) /\ Givers(r) \subseteq Did /\ g \in Givers(r)
        /\ \A h \in Did : Allowance(r)[h] \in Nat /\ Allowance(r)'[h] \in Nat
    <3>1. /\ StarGivers \in [Did \X Did -> Nat] /\ StarGivers' \in [Did \X Did -> Nat]
          /\ block \in Nat \ {0} /\ block' \in Nat \ {0}
      BY <1>1 DEF RegistryTypeOK
    <3>2. /\ \A h \in Did : AllowanceIn(StarGivers, block, r)[h] \in Nat
          /\ \A h \in Did : AllowanceIn(StarGivers', block', r)[h] \in Nat
      BY <1>1, <3>1, AllowanceType, Zenon
    <3>3. IsFiniteSet(Givers(r)) /\ Givers(r) \subseteq Did
      BY <1>1, <3>1, AllowanceType, Zenon
    <3> QED BY <3>2, <3>3, Zenon DEF Allowance, Givers
  <2>2. ASSUME NEW h \in Did \ {g} PROVE Allowance(r)[h] = Allowance(r)'[h]
    <3>1. StarGivers'[<<h, r>>] = StarGivers[<<h, r>>]
      BY <1>1, <1>2, Zenon
    <3> QED BY <3>1, Zenon DEF Allowance, AllowanceIn
  <2>3. SumFunctionOnSet(Allowance(r)', Givers(r))
          = SumFunctionOnSet(Allowance(r), Givers(r)) - Allowance(r)[g] + Allowance(r)'[g]
    BY <2>1, <2>2, SumChange
  <2>4. /\ SumFunctionOnSet(Allowance(r), Givers(r)) \in Nat
        /\ SumFunctionOnSet(Allowance(r)', Givers(r)) \in Nat
    BY <2>1, SumType, Zenon
  <2>5. AgentProfiles[r].reputation_score \in Nat /\ AgentProfiles'[r].reputation_score \in Nat
    BY Zenon DEF RegistryTypeOK, IsMap, AgentProfile, Registered
  <2>6. AgentProfiles[r].reputation_score <= SumFunctionOnSet(Allowance(r), Givers(r))
    BY Zenon DEF ScoreInv, ScoreWithin
  <2>7. Allowance(r)[g] \in Nat /\ Allowance(r)'[g] \in Nat
    BY <2>1, Zenon
  <2>8. AgentProfiles'[r].reputation_score <= SumFunctionOnSet(Allowance(r)', Givers(r))
    BY <2>3, <2>4, <2>5, <2>6, <2>7
  <2> QED BY <2>8, Zenon DEF ScoreWithin, Givers
<1> QED BY <1>1, <1>3, <1>4, <1>5, Zenon DEF ScoreInv

\* The row of the receiver, with a new score, and the other rows.
LEMMA ScoreWritten ==
    ASSUME RegistryTypeOK, NEW r \in Registered, NEW n,
           AgentProfiles' = [AgentProfiles EXCEPT ![r].reputation_score = n]
    PROVE  /\ Registered' = Registered /\ AgentProfiles'[r].reputation_score = n
           /\ \A d \in Registered \ {r} : AgentProfiles'[d] = AgentProfiles[d]
<1>1. AgentProfiles[r] \in AgentProfile
  BY Zenon DEF Registered, RegistryTypeOK, IsMap
<1> QED BY <1>1, Zenon DEF Registered, AgentProfile, RegistryTypeOK, IsMap

LEMMA GiveStarScore ==
    ASSUME RegistryTypeOK, RegistryTypeOK', ScoreInv, block \in Nat, UNCHANGED block,
           NEW caller, NEW g \in Did, NEW r \in Did, <<g, r>> \in StarPair,
           give_star(caller, g, r)
    PROVE  ScoreInv'
<1>1. PICK last \in Nat : last = StarGivers[<<g, r>>]
  BY Zenon DEF RegistryTypeOK
<1>2. /\ r \in Registered /\ CooldownElapsed(last)
      /\ StarGivers' = [StarGivers EXCEPT ![<<g, r>>] = block]
      /\ AgentProfiles' = [AgentProfiles EXCEPT ![r].reputation_score
                              = AgentProfiles[r].reputation_score + 1]
  BY <1>1, Zenon DEF give_star
<1>3. block \in Nat \ {0} /\ block \in 0..block
  BY DEF ScoreInv
<1>4. Allowance(r)[g] = IF last > 0 THEN 1 + Windows(last) ELSE Windows(block)
  BY <1>1, Zenon DEF Allowance, AllowanceIn
<1>5. Allowance(r)'[g] = 1 + Windows(block)
  <2>1. StarGivers'[<<g, r>>] = block
    BY <1>2, Zenon DEF RegistryTypeOK
  <2> QED BY <1>3, <2>1 DEF Allowance, AllowanceIn
<1>6. Windows(block) \in Nat /\ (last > 0 => Windows(last) \in Nat /\ Windows(last) + 1 <= Windows(block))
  BY <1>2, <1>3, WindowFacts, RegistryAssumption DEF CooldownElapsed
<1>7. AgentProfiles[r].reputation_score \in Nat
  BY <1>2, Zenon DEF RegistryTypeOK, IsMap, AgentProfile, Registered
<1>8. AgentProfiles'[r].reputation_score - AgentProfiles[r].reputation_score
        <= Allowance(r)'[g] - Allowance(r)[g]
  BY <1>2, <1>4, <1>5, <1>6, <1>7, ScoreWritten
<1> QED BY <1>2, <1>3, <1>8, ScoreWritten, StarChange, Zenon

LEMMA RemoveStarScore ==
    ASSUME RegistryTypeOK, RegistryTypeOK', ScoreInv, block \in Nat, UNCHANGED block,
           NEW caller, NEW g \in Did, NEW r \in Did, <<g, r>> \in StarPair,
           remove_star(caller, g, r)
    PROVE  ScoreInv'
<1>1. PICK last \in Nat \ {0} : last = StarGivers[<<g, r>>]
  BY DEF RegistryTypeOK, remove_star
<1>2. /\ r \in Registered
      /\ StarGivers' = [StarGivers EXCEPT ![<<g, r>>] = 0]
      /\ AgentProfiles' = [AgentProfiles EXCEPT ![r].reputation_score
                              = saturating_sub(AgentProfiles[r].reputation_score, 1)]
  BY Zenon DEF remove_star
<1>3. block \in Nat \ {0} /\ 0 \in 0..block /\ last <= block
  BY <1>1 DEF ScoreInv
<1>4. Allowance(r)[g] = 1 + Windows(last)
  BY <1>1 DEF Allowance, AllowanceIn
<1>5. Allowance(r)'[g] = Windows(block)
  <2>1. StarGivers'[<<g, r>>] = 0
    BY <1>2, Zenon DEF RegistryTypeOK
  <2> QED BY <2>1 DEF Allowance, AllowanceIn
<1>6. Windows(block) \in Nat /\ Windows(last) \in Nat /\ Windows(last) <= Windows(block)
  BY <1>3, WindowFacts, Zenon
<1>7. AgentProfiles[r].reputation_score \in Nat
  BY <1>2, Zenon DEF RegistryTypeOK, IsMap, AgentProfile, Registered
<1>8. \/ AgentProfiles'[r].reputation_score = 0
      \/ AgentProfiles'[r].reputation_score - AgentProfiles[r].reputation_score
            <= Allowance(r)'[g] - Allowance(r)[g]
  <2>1. PICK n : n = saturating_sub(AgentProfiles[r].reputation_score, 1)
    BY Zenon
  <2>2. n = 0 \/ n = AgentProfiles[r].reputation_score - 1
    BY <1>7, <2>1, Zenon DEF saturating_sub
  <2>3. AgentProfiles'[r].reputation_score = n
    BY <1>2, <2>1, ScoreWritten, Zenon
  <2> QED BY <1>4, <1>5, <1>6, <1>7, <2>2, <2>3
<1> QED BY <1>2, <1>3, <1>8, ScoreWritten, StarChange, Zenon

\* A penalty only lowers scores.
LEMMA SlashScore ==
    ASSUME RegistryTypeOK, RegistryTypeOK', ScoreInv, block \in Nat, UNCHANGED <<block, StarGivers>>,
           NEW did, NEW amount \in Nat, slash_reputation(did, amount)
    PROVE  ScoreInv'
<1>1. \A d \in Registered : AgentProfiles[d].reputation_score \in Nat
  BY Zenon DEF RegistryTypeOK, IsMap, AgentProfile, Registered
<1>2. CASE did \in Registered
  <2>1. PICK n : n = saturating_sub(AgentProfiles[did].reputation_score, amount)
    BY Zenon
  <2>2. n \in Nat /\ n <= AgentProfiles[did].reputation_score
    BY <1>1, <1>2, <2>1 DEF saturating_sub
  <2>3. AgentProfiles' = [AgentProfiles EXCEPT ![did].reputation_score = n]
    BY <1>2, <2>1, Zenon DEF slash_reputation
  <2>4. \A d \in Registered' :
           /\ d \in Registered
           /\ AgentProfiles'[d].reputation_score <= AgentProfiles[d].reputation_score
    <3>1. /\ Registered' = Registered /\ AgentProfiles'[did].reputation_score = n
          /\ \A d \in Registered \ {did} : AgentProfiles'[d] = AgentProfiles[d]
      BY <1>2, <2>3, ScoreWritten, Zenon
    <3> QED BY <1>1, <2>2, <3>1
  <2> QED BY <2>4, ScoreKept
<1>3. CASE did \notin Registered
  BY <1>1, <1>3, ScoreKept DEF slash_reputation, Registered
<1> QED BY <1>2, <1>3, Zenon

LEMMA RegistryCallScore ==
    ASSUME RegistryTypeOK, RegistryTypeOK', ScoreInv, block \in Nat, UNCHANGED block, RegistryCall
    PROVE  ScoreInv'
<1>1. \A d \in Registered : AgentProfiles[d] \in AgentProfile /\ AgentProfiles[d].reputation_score \in Nat
  BY Zenon DEF RegistryTypeOK, IsMap, AgentProfile, Registered
<1>2. ASSUME UNCHANGED StarGivers,
             \A d \in Registered' :
                \/ AgentProfiles'[d].reputation_score = 0
                \/ /\ d \in Registered
                   /\ AgentProfiles'[d].reputation_score = AgentProfiles[d].reputation_score
      PROVE  ScoreInv'
  BY <1>1, <1>2, ScoreKept
<1>3. ASSUME NEW c, NEW did, NEW sig, NEW at, NEW cap, register_agent(c, did, sig, at, cap)
      PROVE  ScoreInv'
  <2>1. \A d \in Registered' : AgentProfiles'[d] =
           IF d = did THEN [controller |-> c, capabilities |-> cap, reputation_score |-> 0,
                            status |-> "Active", registered_at |-> block, is_verified |-> TRUE]
           ELSE AgentProfiles[d]
    BY <1>3, Zenon DEF register_agent, Put, Registered
  <2>2. Registered' = Registered \cup {did} /\ UNCHANGED StarGivers
    BY <1>3, Zenon DEF register_agent, Put, Registered
  <2> QED BY <1>2, <2>1, <2>2
<1>4. ASSUME NEW c, NEW did, NEW v, update_profile(c, did, v) \/ set_agent_status(c, did, v)
      PROVE  ScoreInv'
  <2>1. /\ did \in Registered /\ UNCHANGED StarGivers
        /\ \/ AgentProfiles' = [AgentProfiles EXCEPT ![did].capabilities = v]
           \/ AgentProfiles' = [AgentProfiles EXCEPT ![did].status = v]
    BY <1>4, Zenon DEF update_profile, set_agent_status, Governs
  <2>2. /\ Registered' = Registered
        /\ \A d \in Registered :
              AgentProfiles'[d].reputation_score = AgentProfiles[d].reputation_score
    BY <1>1, <2>1 DEF Registered, AgentProfile
  <2> QED BY <1>2, <2>1, <2>2, Zenon
<1>5. ASSUME NEW c, NEW did, deregister_agent(c, did)
      PROVE  ScoreInv'
  <2>1. /\ Registered' = Registered \ {did} /\ UNCHANGED StarGivers
        /\ \A d \in Registered' : AgentProfiles'[d] = AgentProfiles[d]
    BY <1>5, Zenon DEF deregister_agent, Drop, Registered
  <2> QED BY <1>2, <2>1, Zenon
<1> QED BY <1>3, <1>4, <1>5, GiveStarScore, RemoveStarScore, Zenon DEF RegistryCall

\* A step that leaves the scores and the stars alone, perhaps at a later block.
LEMMA ScoreIdle ==
    ASSUME RegistryTypeOK, RegistryTypeOK', ScoreInv, block \in Nat, block' \in Nat,
           block <= block', UNCHANGED <<AgentProfiles, StarGivers>>
    PROVE  ScoreInv'
<1>1. \A d \in Registered : AgentProfiles[d].reputation_score \in Nat
  BY Zenon DEF RegistryTypeOK, IsMap, AgentProfile, Registered
<1>2. \A d \in Registered' :
         /\ d \in Registered
         /\ AgentProfiles'[d].reputation_score <= AgentProfiles[d].reputation_score
  BY <1>1 DEF Registered
<1> QED BY <1>2, ScoreKept, Zenon

\* A guilty verdict lowers the score of the provider.
LEMMA GuiltyScore ==
    ASSUME RegistryTypeOK, RegistryTypeOK', ScoreInv, block \in Nat, UNCHANGED block,
           NEW did, NEW amount \in Nat, NEW ledger,
           slash_reputation_for_guilty_delivery(did, amount, ledger)
    PROVE  ScoreInv'
BY SlashScore, Zenon DEF slash_reputation_for_guilty_delivery

LEMMA ScoreInvBounds ==
    ASSUME RegistryTypeOK, block \in Nat, ScoreInv
    PROVE  ReputationBounded
<1> SUFFICES ASSUME NEW d \in Registered
             PROVE  AgentProfiles[d].reputation_score
                      <= Cardinality(Givers(d)) * (1 + Windows(block))
  BY Zenon DEF ReputationBounded, Givers, Windows
<1>1. d \in Did /\ block \in Nat \ {0} /\ AgentProfiles[d].reputation_score \in Nat
  BY DEF ScoreInv, RegistryTypeOK, IsMap, Registered, AgentProfile
<1>2. /\ IsFiniteSet(Givers(d)) /\ Givers(d) \subseteq Did
      /\ \A g \in Did : Allowance(d)[g] \in Nat
  BY <1>1, AllowanceType, Zenon DEF Allowance, RegistryTypeOK
<1>3. PICK b \in Nat : b = 1 + Windows(block)
  BY <1>1, WindowFacts
<1>4. ASSUME NEW g \in Did PROVE Allowance(d)[g] <= b
  <2>1. PICK last \in Nat : last = StarGivers[<<g, d>>] /\ last <= block
    BY <1>1, Zenon DEF RegistryTypeOK, ScoreInv
  <2>2. Windows(block) \in Nat /\ (last > 0 => Windows(last) \in Nat /\ Windows(last) <= Windows(block))
    BY <1>1, <2>1, WindowFacts
  <2>3. Allowance(d)[g] = IF last > 0 THEN 1 + Windows(last) ELSE Windows(block)
    BY <2>1, Zenon DEF Allowance, AllowanceIn
  <2> QED BY <1>3, <2>2, <2>3
<1>5. SumFunctionOnSet(Allowance(d), Givers(d)) <= Cardinality(Givers(d)) * b
  BY <1>2, <1>4, SumBound, Zenon
<1>6. /\ SumFunctionOnSet(Allowance(d), Givers(d)) \in Nat
      /\ Cardinality(Givers(d)) * b \in Nat
  BY <1>2, SumType, FS_CardinalityType
<1> QED BY <1>1, <1>3, <1>5, <1>6 DEF ScoreInv, ScoreWithin
=============================================================================
