--------------------------- MODULE RuntimeProofs ---------------------------
(***************************************************************************)
(* The runtime as a whole, for any accounts, agents, offers and parameters:*)
(* it implements Deal, the registry keeps its invariants in it, and the    *)
(* money it holds and owes.                                                *)
(***************************************************************************)
EXTENDS RuntimeMoney, RuntimeDealProofs

-----------------------------------------------------------------------------
(***************************************************************************)
(* The runtime implements Deal.                                            *)
(***************************************************************************)
\* The phase and the money of every deal but cid are left alone.
OnlyDeal(cid) ==
    \A id \in CommitmentId \ {cid} : PhaseOf(id)' = PhaseOf(id) /\ MoneyOf(id)' = MoneyOf(id)

\* Deal cid, and no other, goes from <<p, m>> to <<q, n>>.
Moves(cid, p, m, q, n) ==
    /\ OnlyDeal(cid)
    /\ PhaseOf(cid) = p /\ MoneyOf(cid) = m
    /\ PhaseOf(cid)' = q /\ MoneyOf(cid)' = n

LEMMA MoveRefined ==
    ASSUME NEW cid \in CommitmentId, NEW p, NEW m, NEW q, NEW n, Moves(cid, p, m, q, n)
    PROVE  D!Move(cid, p, m, q, n)
BY Zenon DEF D!Move, Moves, OnlyDeal

LEMMA RefinesInit == Init => D!Init
BY Zenon DEF Init, EscrowInit, VectorDbInit, EmptyMap, D!Init, PhaseOf, MoneyOf, Committed

LEMMA RegisterCommitmentRefined ==
    ASSUME TypeOK, DealInv, NEW caller \in Account, NEW o \in Offer,
           register_commitment(caller, o)
    PROVE  \E id \in CommitmentId : D!MakeOffer(id)
<1>0. PICK cid \in CommitmentId : cid = commitment_id(o)
  BY VectorDbAssumption, Zenon DEF register_commitment, WellFormed, commitment_id, CommitmentId, TypeOK
<1>1. /\ cid \notin Committed
      /\ Committed' = Committed \cup {cid}
      /\ \A id \in Committed : VectorCommitments'[id] = VectorCommitments[id]
      /\ VectorCommitments'[cid].status = "Pending"
      /\ UNCHANGED <<Escrows, DisputeRecords>>
  BY <1>0, Zenon DEF register_commitment, Committed, Put
<1>2. cid[4] = block /\ block \in Nat
  BY <1>0, HorizonAssumption DEF commitment_id, TypeOK
<1>3. cid \notin DOMAIN Escrows
  BY <1>1, <1>2 DEF DealInv, NoIdReuse
<1>4. Moves(cid, "Absent", "none", "Offered", "none")
  BY <1>1, <1>3, Zenon DEF Moves, OnlyDeal, PhaseOf, MoneyOf, StatusOf, VerdictIs
<1> QED BY <1>4, MoveRefined, Zenon DEF D!MakeOffer

LEMMA AcknowledgeRefined ==
    ASSUME TypeOK, DealInv, NEW caller, NEW cid \in Committed, acknowledge_commitment(caller, cid)
    PROVE  D!Fund(cid)
<1>1. cid \in CommitmentId
  BY Zenon DEF Committed, TypeOK, IsMap
<1>2. /\ Committed' = Committed /\ StatusOf(cid) = "Pending"
      /\ \A id \in Committed \ {cid} : VectorCommitments'[id] = VectorCommitments[id]
      /\ UNCHANGED DisputeRecords
  BY Zenon DEF acknowledge_commitment, InStatus, StatusOf, Committed, TypeOK, IsMap
<1>3. VectorCommitments'[cid].status = "Active"
  <2>1. VectorCommitments[cid] \in VectorCommitment
    BY Zenon DEF Committed, TypeOK, IsMap
  <2> QED BY <2>1, Zenon DEF acknowledge_commitment, Committed, VectorCommitment, TypeOK, IsMap
<1>4. /\ cid \notin DOMAIN Escrows
      /\ DOMAIN Escrows' = DOMAIN Escrows \cup {cid}
      /\ \A id \in DOMAIN Escrows : Escrows'[id] = Escrows[id]
      /\ Escrows'[cid].status = "Locked"
  BY Zenon DEF acknowledge_commitment, lock, Put
<1>5. Moves(cid, "Offered", "none", "Funded", "held")
  BY <1>2, <1>3, <1>4, Zenon DEF Moves, OnlyDeal, PhaseOf, MoneyOf, StatusOf, VerdictIs
<1> QED BY <1>1, <1>5, MoveRefined, Zenon DEF D!Fund

LEMMA CloseRefined ==
    ASSUME TypeOK, DealInv, NEW caller, NEW cid \in Committed, NEW h, NEW n,
           close_commitment(caller, cid, h, n)
    PROVE  D!Pay(cid)
<1>1. cid \in CommitmentId
  BY Zenon DEF Committed, TypeOK, IsMap
<1>2. /\ StatusOf(cid) = "Active" /\ EscrowIs(cid, "Locked")
      /\ VectorCommitments' = SetStatus(cid, "Settled")
      /\ UNCHANGED DisputeRecords
  BY Zenon DEF close_commitment, InStatus, StatusOf, DealInv, EscrowBacksDeal
<1>3. SettledAs(cid, "Released")
  BY SettleEffect, Zenon DEF close_commitment
<1>4. Moves(cid, "Funded", "held", "Paid", "paid")
  BY <1>2, <1>3, SetStatusEffect
  DEF Moves, OnlyDeal, PhaseOf, MoneyOf, StatusOf, VerdictIs, EscrowIs, SettledAs
<1> QED BY <1>1, <1>4, MoveRefined, Zenon DEF D!Pay

LEMMA RaiseDisputeRefined ==
    ASSUME TypeOK, DealInv, NEW caller, NEW cid \in Committed, NEW i,
           raise_dispute(caller, cid, i)
    PROVE  D!Contest(cid)
<1>1. cid \in CommitmentId
  BY Zenon DEF Committed, TypeOK, IsMap
<1>2. /\ StatusOf(cid) = "Active" /\ EscrowIs(cid, "Locked")
      /\ VectorCommitments' = SetStatus(cid, "Disputed")
      /\ UNCHANGED Escrows
  BY Zenon DEF raise_dispute, InStatus, StatusOf, DealInv, EscrowBacksDeal
<1>3. /\ DOMAIN DisputeRecords' = DOMAIN DisputeRecords \cup {cid}
      /\ \A id \in DOMAIN DisputeRecords \ {cid} : DisputeRecords'[id] = DisputeRecords[id]
  BY Zenon DEF raise_dispute, Put
<1>4. Moves(cid, "Funded", "held", "Contested", "held")
  BY <1>2, <1>3, SetStatusEffect
  DEF Moves, OnlyDeal, PhaseOf, MoneyOf, StatusOf, VerdictIs, EscrowIs
<1> QED BY <1>1, <1>4, MoveRefined, Zenon DEF D!Contest

LEMMA ResolveRefined ==
    ASSUME TypeOK, DealInv, NEW cid \in Committed, StatusOf(cid) = "Disputed"
    PROVE  /\ Resolve(cid, "ClaimantUnsubstantiated") /\ release(cid) => D!Pay(cid)
           /\ Resolve(cid, "ProviderGuilty") /\ refund(cid) => D!Return(cid)
<1>1. cid \in CommitmentId /\ cid \in DOMAIN DisputeRecords /\ EscrowIs(cid, "Locked")
  BY Zenon DEF Committed, TypeOK, IsMap, DealInv, RecordsMatchStatus, EscrowBacksDeal
<1>2. ASSUME NEW verdict, Resolve(cid, verdict)
      PROVE  /\ VectorCommitments' = SetStatus(cid, "DisputeResolved")
             /\ DOMAIN DisputeRecords' = DOMAIN DisputeRecords
             /\ \A id \in DOMAIN DisputeRecords \ {cid} : DisputeRecords'[id] = DisputeRecords[id]
             /\ DisputeRecords'[cid].verdict = verdict
  <2>1. DisputeRecords[cid] \in DisputeRecord
    BY <1>1, Zenon DEF TypeOK, IsMap
  <2> QED BY <1>1, <1>2, <2>1, Zenon DEF Resolve, TypeOK, IsMap, DisputeRecord
<1>3. ASSUME Resolve(cid, "ClaimantUnsubstantiated"), release(cid) PROVE D!Pay(cid)
  <2>1. Moves(cid, "Contested", "held", "Paid", "paid")
    BY <1>1, <1>2, <1>3, SetStatusEffect, SettleEffect
    DEF Moves, OnlyDeal, PhaseOf, MoneyOf, StatusOf, VerdictIs, EscrowIs, SettledAs
  <2> QED BY <1>1, <2>1, MoveRefined, Zenon DEF D!Pay
<1>4. ASSUME Resolve(cid, "ProviderGuilty"), refund(cid) PROVE D!Return(cid)
  <2>1. Moves(cid, "Contested", "held", "Returned", "returned")
    BY <1>1, <1>2, <1>4, SetStatusEffect, SettleEffect
    DEF Moves, OnlyDeal, PhaseOf, MoneyOf, StatusOf, VerdictIs, EscrowIs, SettledAs
  <2> QED BY <1>1, <2>1, MoveRefined, Zenon DEF D!Return
<1> QED BY <1>3, <1>4, Zenon

LEMMA ExpireRefined ==
    ASSUME TypeOK, DealInv, NEW cid \in Committed, expire_commitment(cid)
    PROVE  D!LapseOffer(cid) \/ D!Abandon(cid)
<1>1. cid \in CommitmentId
  BY Zenon DEF Committed, TypeOK, IsMap
<1>2. /\ Committed' = Committed \ {cid}
      /\ \A id \in Committed \ {cid} : VectorCommitments'[id] = VectorCommitments[id]
      /\ UNCHANGED <<DisputeRecords, Escrows>>
  BY Zenon DEF expire_commitment, Committed, Drop
<1>3. CASE StatusOf(cid) = "Pending"
  <2>1. cid \notin DOMAIN Escrows
    BY <1>3, Zenon DEF DealInv, EscrowBacksDeal
  <2>2. Moves(cid, "Offered", "none", "Absent", "none")
    BY <1>2, <1>3, <2>1, Zenon DEF Moves, OnlyDeal, PhaseOf, MoneyOf, StatusOf, VerdictIs
  <2> QED BY <1>1, <2>2, MoveRefined, Zenon DEF D!LapseOffer
<1>4. CASE StatusOf(cid) = "Active"
  <2>1. EscrowIs(cid, "Locked")
    BY <1>4, Zenon DEF DealInv, EscrowBacksDeal
  <2>2. Moves(cid, "Funded", "held", "Abandoned", "held")
    BY <1>2, <1>4, <2>1, Zenon DEF Moves, OnlyDeal, PhaseOf, MoneyOf, StatusOf, VerdictIs, EscrowIs
  <2> QED BY <1>1, <2>2, MoveRefined, Zenon DEF D!Abandon
<1> QED BY <1>3, <1>4, Zenon DEF expire_commitment, Expirable, InStatus, StatusOf

LEMMA RefinesStep ==
    TypeOK /\ DealInv /\ [Next]_vars
        => [D!Next]_<<[id \in CommitmentId |-> PhaseOf(id)], [id \in CommitmentId |-> MoneyOf(id)]>>
<1> SUFFICES ASSUME TypeOK, DealInv, [Next]_vars
             PROVE  D!Next \/ UNCHANGED <<[id \in CommitmentId |-> PhaseOf(id)],
                                          [id \in CommitmentId |-> MoneyOf(id)]>>
  BY Zenon
<1>1. Committed \subseteq CommitmentId
  BY Zenon DEF Committed, TypeOK, IsMap
<1>2. ASSUME UNCHANGED <<Escrows, vectorDbVars>>
      PROVE  UNCHANGED <<[id \in CommitmentId |-> PhaseOf(id)], [id \in CommitmentId |-> MoneyOf(id)]>>
  BY <1>2, Zenon DEF vectorDbVars, PhaseOf, MoneyOf, Committed, StatusOf, VerdictIs
<1>3. ASSUME NEW caller \in Account, NEW cid \in Committed,
             \/ acknowledge_commitment(caller, cid)
             \/ \E h \in MerkleRoot, n \in ChunkCount : close_commitment(caller, cid, h, n)
             \/ \E i \in ChunkIndex : raise_dispute(caller, cid, i)
             \/ counter_dispute(caller, cid)
             \/ finalize_dispute(cid)
             \/ expire_commitment(cid)
      PROVE  D!Next
  <2>1. /\ counter_dispute(caller, cid) => D!Pay(cid)
        /\ finalize_dispute(cid) => D!Return(cid)
    BY ResolveRefined, Zenon DEF counter_dispute, finalize_dispute, InStatus, StatusOf
  <2>2. \/ D!LapseOffer(cid) \/ D!Fund(cid) \/ D!Abandon(cid)
        \/ D!Contest(cid) \/ D!Pay(cid) \/ D!Return(cid)
    BY <1>3, <2>1, AcknowledgeRefined, CloseRefined, RaiseDisputeRefined, ExpireRefined
  <2> QED BY <1>1, <2>2, Zenon DEF D!Next
<1>4. CASE Deals
  <2>1. ASSUME NEW caller \in Account, NEW o \in Offer, register_commitment(caller, o)
        PROVE  D!Next
    BY <2>1, RegisterCommitmentRefined, Zenon DEF D!Next
  <2> QED BY <1>3, <1>4, <2>1, Zenon DEF Deals, VectorDbCall, Committed
<1> QED BY <1>2, <1>4, Zenon DEF Next, Agents, Transfers, NewBlock, vars

\* The runtime implements Deal, through every interleaving of deals, changes to
\* the registry, transfers and blocks: the status of a deal and the place of
\* its money change in one step, once each, and only along Deal's moves.
THEOREM RuntimeImplementsDeal == Spec => ImplementsDeal
<1>1. Init => D!Init
  BY RefinesInit, Zenon
<1> QED BY <1>1, RefinesStep, DealInvariant, PTL DEF Spec, ImplementsDeal, D!Spec

-----------------------------------------------------------------------------
(***************************************************************************)
(* The registry inside the runtime: the reverse index, the agent count, the *)
(* controllers and the strikes.                                            *)
(***************************************************************************)
\* What an extrinsic of the vector-db pallet can do to the registry.
LEMMA PenaltiesOnly ==
    ASSUME TypeOK, VectorDbCall
    PROVE  \/ UNCHANGED registryVars
           \/ \E did \in Did : penalize_false_disputer(did)
           \/ \E did \in Did, ledger \in Ledger : penalize_provider(did, ledger)
<1>1. ASSUME NEW id \in DOMAIN VectorCommitments
      PROVE  VectorCommitments[id].provider \in Did /\ VectorCommitments[id].consumer \in Did
  BY Zenon DEF TypeOK, IsMap, VectorCommitment
<1>2. ASSUME NEW id \in DOMAIN VectorCommitments, finalize_dispute(id)
      PROVE  \E did \in Did, ledger \in Ledger : penalize_provider(did, ledger)
  BY <1>1, <1>2, RefundType, Zenon DEF finalize_dispute
<1> QED
  BY <1>1, <1>2, ZenonT(30)
  DEF VectorDbCall, register_commitment, acknowledge_commitment, close_commitment,
      raise_dispute, counter_dispute, expire_commitment

LEMMA RegistryInvStep == TypeOK /\ RegistryInv /\ [Next]_vars => RegistryInv'
<1> SUFFICES ASSUME TypeOK, RegistryInv, [Next]_vars PROVE RegistryInv'
  BY Zenon
<1>1. RegistryTypeOK
  BY Zenon DEF TypeOK
<1>2. ASSUME UNCHANGED registryVars PROVE RegistryInv'
  BY <1>2, Zenon DEF registryVars, RegistryInv, IndexConsistent, ControllerAuthorized,
              StrikesBelowThreshold, AgentCountExact, NotRevoked, Registered
<1>3. ASSUME NEW did, penalize_false_disputer(did) PROVE RegistryInv'
  <2>1. SameAgents
    BY <1>1, <1>3, SlashKeepsAgents, Zenon DEF penalize_false_disputer
  <2> QED
    BY <1>1, <1>3, <2>1, SameAgentsInv, Zenon
    DEF penalize_false_disputer, RegistryInv, StrikesBelowThreshold
<1>4. ASSUME NEW did \in Did, NEW ledger, penalize_provider(did, ledger) PROVE RegistryInv'
  BY <1>1, <1>4, GuiltyInv, Zenon DEF penalize_provider
<1>5. CASE Deals
  BY <1>2, <1>3, <1>4, <1>5, PenaltiesOnly DEF Deals
<1>6. CASE Agents
  BY <1>1, <1>6, RegistryCallInv, Zenon DEF Agents
<1> QED BY <1>2, <1>5, <1>6, Zenon DEF Next, Transfers, NewBlock, vars

\* The inductive invariant of the registry holds in every reachable state.
THEOREM RegistryInvariant == Spec => []RegistryInv
<1>1. Init => RegistryInv
  BY RegistryInvInit, Zenon DEF Init
<1> QED BY <1>1, TypeCorrect, RegistryInvStep, PTL DEF Spec

\* The reverse index and the profiles always name the same controllers.
THEOREM IndexAlwaysConsistent == Spec => []IndexConsistent
BY RegistryInvariant, PTL DEF RegistryInv

\* ActiveAgentCount is the number of non-revoked profiles.
THEOREM AgentCountCorrect == Spec => []AgentCountExact
BY RegistryInvariant, PTL DEF RegistryInv

\* Nobody but an account that the agent's key signed for ever controls it.
THEOREM ControllersAuthorized == Spec => []ControllerAuthorized
BY RegistryInvariant, PTL DEF RegistryInv

\* The strike that reaches the threshold always resets the counter.
THEOREM StrikesStayBelow == Spec => []StrikesBelowThreshold
BY RegistryInvariant, PTL DEF RegistryInv

-----------------------------------------------------------------------------
(***************************************************************************)
(* Revoked is terminal.                                                    *)
(***************************************************************************)
LEMMA ScoreKeepsRevoked ==
    ASSUME RegistryTypeOK, NEW did \in Registered, NEW n,
           AgentProfiles' = [AgentProfiles EXCEPT ![did].reputation_score = n]
    PROVE  RevokedStays
<1>1. \A d \in Registered : AgentProfiles[d] \in AgentProfile
  BY Zenon DEF Registered, RegistryTypeOK, IsMap
<1>2. \A d \in Registered \ {did} :
         /\ d \in DOMAIN AgentProfiles'
         /\ AgentProfiles'[d] = AgentProfiles[d]
         /\ AgentProfiles[d] = [AgentProfiles[d] EXCEPT
                                  !.reputation_score = AgentProfiles[d].reputation_score]
  BY <1>1, Zenon DEF Registered, RegistryTypeOK, IsMap, AgentProfile
<1>3. /\ did \in DOMAIN AgentProfiles'
      /\ AgentProfiles'[did] = [AgentProfiles[did] EXCEPT !.reputation_score = n]
      /\ AgentProfiles'[did].reputation_score = n
  BY <1>1, Zenon DEF Registered, RegistryTypeOK, IsMap, AgentProfile
<1> QED BY <1>2, <1>3, Zenon DEF RevokedStays

\* A step that changes, at most, a profile that is not Revoked.
LEMMA OthersKeepRevoked ==
    ASSUME RegistryTypeOK, NEW did,
           did \in Registered => AgentProfiles[did].status # "Revoked",
           \A d \in Registered \ {did} :
               d \in DOMAIN AgentProfiles' /\ AgentProfiles'[d] = AgentProfiles[d]
    PROVE  RevokedStays
<1>1. \A d \in Registered : AgentProfiles[d] \in AgentProfile
  BY Zenon DEF Registered, RegistryTypeOK, IsMap
<1>2. \A d \in Registered \ {did} :
         AgentProfiles[d] = [AgentProfiles[d] EXCEPT
                                !.reputation_score = AgentProfiles[d].reputation_score]
  BY <1>1, Zenon DEF AgentProfile
<1> QED BY <1>2, Zenon DEF RevokedStays

LEMMA RevokedStep == TypeOK /\ [Next]_vars => [RevokedStays]_registryVars
<1> SUFFICES ASSUME TypeOK, Next PROVE RevokedStays \/ UNCHANGED registryVars
  BY Zenon DEF vars
<1>1. RegistryTypeOK
  BY Zenon DEF TypeOK
<1>2. ASSUME NEW did, NEW amount, slash_reputation(did, amount)
      PROVE  RevokedStays
  <2>1. CASE did \in Registered
    BY <1>1, <1>2, <2>1, ScoreKeepsRevoked, Zenon DEF slash_reputation
  <2>2. CASE did \notin Registered
    BY <1>1, <1>2, <2>2, OthersKeepRevoked DEF slash_reputation, Registered
  <2> QED BY <2>1, <2>2, Zenon
<1>3. CASE Deals
  BY <1>2, <1>3, PenaltiesOnly, Zenon
  DEF Deals, penalize_false_disputer, penalize_provider, slash_reputation_for_guilty_delivery
<1>4. CASE Agents
  <2>1. ASSUME NEW caller, NEW did, NEW sig, NEW at, NEW cap,
               register_agent(caller, did, sig, at, cap)
        PROVE  RevokedStays
    BY <1>1, <2>1, OthersKeepRevoked DEF register_agent, Put, Registered
  <2>2. ASSUME NEW caller, NEW did, NEW new,
               \/ update_profile(caller, did, new)
               \/ set_agent_status(caller, did, new)
               \/ deregister_agent(caller, did)
        PROVE  RevokedStays
    <3>1. AgentProfiles[did].status # "Revoked"
      BY <2>2, Zenon DEF update_profile, set_agent_status, deregister_agent, Governs
    <3>2. \A d \in Registered \ {did} :
             d \in DOMAIN AgentProfiles' /\ AgentProfiles'[d] = AgentProfiles[d]
      BY <1>1, <2>2, Zenon
      DEF update_profile, set_agent_status, deregister_agent, Drop, Registered,
          RegistryTypeOK, IsMap
    <3> QED BY <1>1, <3>1, <3>2, OthersKeepRevoked, Zenon
  <2>3. ASSUME NEW caller, NEW did, NEW receiver,
               give_star(caller, did, receiver) \/ remove_star(caller, did, receiver)
        PROVE  RevokedStays
    BY <1>1, <2>3, ScoreKeepsRevoked, Zenon DEF give_star, remove_star
  <2> QED BY <1>4, <2>1, <2>2, <2>3, Zenon DEF Agents, RegistryCall
<1> QED BY <1>3, <1>4, Zenon DEF Next, Transfers, NewBlock

\* A Revoked agent is never removed, restored, re-registered or handed over.
THEOREM RevocationIsTerminal == Spec => RevokedIsTerminal
BY TypeCorrect, RevokedStep, PTL DEF Spec, RevokedIsTerminal

-----------------------------------------------------------------------------
(***************************************************************************)
(* What the reserves owe.  Deposits and escrows are covered together, since*)
(* the reserve does not tell them apart.                                   *)
(***************************************************************************)
Locked == [a \in Account |-> LockedOn(a)]

MoneyInv == ReserveCoversClaims /\ IsFiniteSet(DOMAIN Escrows)

LEMMA ClaimsCovered ==
    /\ ReserveCoversClaims <=> Covers(balances, slashed, WithDeposits(Locked))
    /\ ReserveCoversClaims' <=> Covers(balances', slashed', WithDeposits(Locked)')
BY Zenon DEF ReserveCoversClaims, Claims, Covers, WithDeposits, Locked

LEMMA ClaimsType ==
    ASSUME TypeOK, IsFiniteSet(DOMAIN Escrows)
    PROVE  /\ balances \in Ledger /\ slashed \in [Account -> Nat]
           /\ Locked \in [Account -> Nat] /\ WithDeposits(Locked) \in [Account -> Nat]
           /\ \A a \in Account : Deposits(a) \in Nat /\ LockedOn(a) \in Nat
           /\ \A a \in Account : WithDeposits(Locked)[a] = Deposits(a) + LockedOn(a)
<1>1. balances \in Ledger /\ slashed \in [Account -> Nat] /\ RegistryTypeOK
      /\ EscrowTypeOK(CommitmentId)
  BY Zenon DEF TypeOK, RegistryTypeOK
<1>2. \A a \in Account : Deposits(a) \in Nat /\ LockedOn(a) \in Nat
  BY <1>1, DepositsType, LockedType, Zenon
<1> QED BY <1>1, <1>2 DEF Locked, WithDeposits

\* What an extrinsic of the vector-db pallet does to the money.
LEMMA MoneyCases ==
    ASSUME TypeOK, VectorDbCall
    PROVE  \/ UNCHANGED <<Escrows, balances, ControllerAgents, DisputeStrikes, slashed>>
           \/ \E id, payee : \E payer \in Account, amount \in Nat :
                 /\ lock(id, payer, payee, amount)
                 /\ UNCHANGED <<ControllerAgents, DisputeStrikes, slashed>>
           \/ \E id : release(id) /\ UNCHANGED <<ControllerAgents, DisputeStrikes, slashed>>
           \/ \E id \in DOMAIN VectorCommitments : finalize_dispute(id)
<1>1. ASSUME NEW caller \in Account, NEW id \in DOMAIN VectorCommitments,
             acknowledge_commitment(caller, id)
      PROVE  \E cid, payee : \E payer \in Account, amount \in Nat :
                 /\ lock(cid, payer, payee, amount)
                 /\ UNCHANGED <<ControllerAgents, DisputeStrikes, slashed>>
  <2>1. VectorCommitments[id].price \in Nat
    BY Zenon DEF TypeOK, IsMap, VectorCommitment
  <2> QED BY <1>1, <2>1, Zenon DEF acknowledge_commitment, registryVars
<1>2. ASSUME NEW caller, NEW id,
             \/ \E h \in MerkleRoot, n \in ChunkCount : close_commitment(caller, id, h, n)
             \/ counter_dispute(caller, id)
      PROVE  release(id) /\ UNCHANGED <<ControllerAgents, DisputeStrikes, slashed>>
  BY <1>2, Zenon DEF close_commitment, counter_dispute, penalize_false_disputer, registryVars
<1>3. ASSUME NEW caller, NEW id,
             \/ \E o \in Offer : register_commitment(caller, o)
             \/ \E i \in ChunkIndex : raise_dispute(caller, id, i)
             \/ expire_commitment(id)
      PROVE  UNCHANGED <<Escrows, balances, ControllerAgents, DisputeStrikes, slashed>>
  BY <1>3, Zenon DEF register_commitment, raise_dispute, expire_commitment, registryVars
<1> QED BY <1>1, <1>2, <1>3, Zenon DEF VectorDbCall

LEMMA LockCovered ==
    ASSUME TypeOK, MoneyInv, NEW id, NEW payee, NEW payer \in Account, NEW amount \in Nat,
           lock(id, payer, payee, amount), UNCHANGED <<ControllerAgents, slashed>>
    PROVE  MoneyInv'
<1>1. EscrowTypeOK(CommitmentId) /\ IsFiniteSet(DOMAIN Escrows)
  BY Zenon DEF TypeOK, MoneyInv
<1>2. /\ IsFiniteSet(DOMAIN Escrows')
      /\ \A a \in Account : LockedOn(a)' = IF a = payer THEN LockedOn(a) + amount ELSE LockedOn(a)
  BY <1>1, LockClaims, Zenon
<1>3. \A a \in Account : WithDeposits(Locked)'[a] = Deposits(a) + LockedOn(a)'
  BY Zenon DEF WithDeposits, Locked, Deposits
<1>4. OneMore(WithDeposits(Locked), WithDeposits(Locked)', payer, amount)
  BY <1>1, <1>2, <1>3, ClaimsType DEF OneMore
<1>5. Covers(Reserve(balances, payer, amount), slashed, WithDeposits(Locked)')
  BY <1>1, <1>4, ClaimsType, ClaimsCovered, ReserveCovers, Zenon DEF MoneyInv
<1>6. Covers(balances', slashed', WithDeposits(Locked)')
  BY <1>5, Zenon DEF lock
<1> QED BY <1>2, <1>6, ClaimsCovered, Zenon DEF MoneyInv

\* An escrow leaves Locked while its amount, or what there is of it, leaves the
\* payer's reserve.
LEMMA SettleCovered ==
    ASSUME TypeOK, MoneyInv, NEW id, IsLocked(id), NEW status \in EscrowStatus \ {"Locked"},
           Escrows' = [Escrows EXCEPT ![id].status = status], UNCHANGED ControllerAgents,
           NEW new, Takes(balances, new, Escrows[id].payer, Escrows[id].amount)
    PROVE  /\ IsFiniteSet(DOMAIN Escrows') /\ WithDeposits(Locked)' \in [Account -> Nat]
           /\ Covers(new, slashed, WithDeposits(Locked)')
<1>1. EscrowTypeOK(CommitmentId) /\ IsFiniteSet(DOMAIN Escrows)
  BY Zenon DEF TypeOK, MoneyInv
<1>2. PICK payer \in Account, amount \in Nat : payer = Escrows[id].payer /\ amount = Escrows[id].amount
  BY <1>1, Zenon DEF EscrowTypeOK, IsMap, EscrowRecord, IsLocked
<1>3. /\ IsFiniteSet(DOMAIN Escrows')
      /\ \A a \in Account : LockedOn(a)' \in Nat
      /\ \A a \in Account : LockedOn(a) = IF a = payer THEN LockedOn(a)' + amount ELSE LockedOn(a)'
  BY <1>1, <1>2, SettleClaims, Zenon
<1>4. /\ \A a \in Account : WithDeposits(Locked)'[a] = Deposits(a) + LockedOn(a)'
      /\ WithDeposits(Locked)' = [a \in Account |-> Deposits(a) + LockedOn(a)']
  BY Zenon DEF WithDeposits, Locked, Deposits
<1>5. OneMore(WithDeposits(Locked)', WithDeposits(Locked), payer, amount)
  BY <1>1, <1>3, <1>4, ClaimsType DEF OneMore
<1>6. WithDeposits(Locked)' \in [Account -> Nat]
  BY <1>1, <1>3, <1>4, ClaimsType
<1>7. Covers(new, slashed, WithDeposits(Locked)')
  BY <1>1, <1>2, <1>5, <1>6, ClaimsType, ClaimsCovered, TakeCovers DEF MoneyInv
<1> QED BY <1>3, <1>6, <1>7, Zenon

LEMMA ReleaseCovered ==
    ASSUME TypeOK, MoneyInv, NEW id, release(id), UNCHANGED <<ControllerAgents, slashed>>
    PROVE  MoneyInv'
<1>1. /\ Escrows[id].payer \in Account /\ Escrows[id].payee \in Account
      /\ Escrows[id].amount \in Nat /\ balances \in Ledger
  BY Zenon DEF release, IsLocked, TypeOK, EscrowTypeOK, IsMap, EscrowRecord
<1>2. Takes(balances, balances', Escrows[id].payer, Escrows[id].amount)
  BY <1>1, RepatriateTakes, Zenon DEF release
<1>3. /\ IsFiniteSet(DOMAIN Escrows')
      /\ Covers(balances', slashed, WithDeposits(Locked)')
  BY <1>2, SettleCovered, Zenon DEF release, EscrowStatus
<1> QED BY <1>3, ClaimsCovered, Zenon DEF MoneyInv

\* The slash takes from the ledger that the refund leaves.
LEMMA FinalizeCovered ==
    ASSUME TypeOK, MoneyInv, NEW id \in DOMAIN VectorCommitments, finalize_dispute(id)
    PROVE  MoneyInv'
<1>1. /\ Escrows[id].payer \in Account /\ Escrows[id].amount \in Nat /\ balances \in Ledger
      /\ VectorCommitments[id].provider \in Did /\ RegistryTypeOK
  BY Zenon DEF finalize_dispute, refund, IsLocked, TypeOK, EscrowTypeOK, IsMap, EscrowRecord,
         VectorCommitment
<1>2. /\ Takes(balances, RefundLedger(id), Escrows[id].payer, Escrows[id].amount)
      /\ RefundLedger(id) \in Ledger
  BY <1>1, UnreserveTakes, UnreserveType DEF RefundLedger
<1>3. UNCHANGED ControllerAgents
  BY Zenon DEF finalize_dispute, penalize_provider, slash_reputation_for_guilty_delivery
<1>4. /\ IsFiniteSet(DOMAIN Escrows') /\ WithDeposits(Locked)' \in [Account -> Nat]
      /\ Covers(RefundLedger(id), slashed, WithDeposits(Locked)')
  BY <1>2, <1>3, SettleCovered, Zenon DEF finalize_dispute, refund, EscrowStatus
<1>5. Covers(balances', slashed', WithDeposits(Locked)')
  BY <1>1, <1>2, <1>4, GuiltyCovers DEF finalize_dispute, penalize_provider
<1> QED BY <1>4, <1>5, ClaimsCovered DEF MoneyInv

LEMMA MoneyStep == TypeOK /\ RegistryInv /\ MoneyInv /\ [Next]_vars => MoneyInv'
<1> SUFFICES ASSUME TypeOK, RegistryInv, MoneyInv, [Next]_vars PROVE MoneyInv'
  BY Zenon
<1>1. /\ RegistryTypeOK /\ IndexConsistent /\ balances \in Ledger
      /\ IsFiniteSet(DOMAIN Escrows) /\ Covers(balances, slashed, WithDeposits(Locked))
  BY ClaimsCovered, Zenon DEF TypeOK, RegistryInv, MoneyInv
<1>2. ASSUME UNCHANGED <<Escrows, ControllerAgents, slashed>>,
             \A a \in Account : balances'[a].reserved = balances[a].reserved
      PROVE  MoneyInv'
  <2>1. WithDeposits(Locked)' = WithDeposits(Locked)
    BY <1>2, Zenon DEF WithDeposits, Locked, Deposits, LockedOn, LockedFrom, IsLocked
  <2>2. Covers(balances', slashed', WithDeposits(Locked)')
    BY <1>1, <1>2, <2>1 DEF Covers
  <2> QED BY <1>1, <1>2, <2>2, ClaimsCovered DEF MoneyInv
<1>3. CASE Agents
  <2>1. PICK other \in [Account -> Nat] : other = Locked
    BY <1>1, ClaimsType, Zenon
  <2>2. Covers(balances', slashed', WithDeposits(other)')
    BY <1>1, <1>3, <2>1, RegistryCovers DEF Agents
  <2>3. Locked' = other /\ WithDeposits(Locked)' = WithDeposits(other)'
    BY <1>3, <2>1, Zenon DEF Agents, WithDeposits, Locked, LockedOn, LockedFrom, IsLocked
  <2> QED BY <1>1, <1>3, <2>2, <2>3, ClaimsCovered DEF MoneyInv, Agents
<1>4. CASE Deals
  BY <1>2, <1>4, MoneyCases, LockCovered, ReleaseCovered, FinalizeCovered DEF Deals
<1>5. CASE Transfers
  <2>1. \A a \in Account : balances'[a].reserved = balances[a].reserved
    BY <1>1, <1>5 DEF Transfers, transfer_all, Ledger
  <2> QED BY <1>2, <1>5, <2>1 DEF Transfers, registryVars
<1> QED BY <1>2, <1>3, <1>4, <1>5 DEF Next, NewBlock, vars, registryVars

LEMMA MoneyInit == Init => MoneyInv
<1> SUFFICES ASSUME Init PROVE MoneyInv
  BY Zenon
<1>1. DOMAIN Escrows = {} /\ \A a : LockedFrom(a) = {}
  BY Zenon DEF Init, EscrowInit, EmptyMap, LockedFrom
<1>2. \A a : LockedOn(a) = 0
  BY <1>1, SumEmpty, Zenon DEF LockedOn
<1>3. \A a \in Account : Deposits(a) = 0
  BY FS_EmptySet, RegistryAssumption DEF Init, RegistryInit, Deposits
<1>4. ReserveCoversClaims
  BY <1>2, <1>3 DEF Init, BalancesInit, RegistryInit, ReserveCoversClaims, Claims
<1> QED BY <1>1, <1>4, FS_EmptySet, Zenon DEF MoneyInv

LEMMA MoneyInvariant == Spec => [](TypeOK /\ RegistryInv /\ MoneyInv)
BY MoneyInit, MoneyStep, TypeCorrect, RegistryInvariant, PTL DEF Spec

\* Whatever the order of registrations, locks, slashes, releases, refunds,
\* deregistrations and transfers, an account's reserve is its deposits and its
\* Locked escrows, short of at most what was burned from it.
THEOREM ReservesCoverClaims == Spec => []ReserveCoversClaims
BY MoneyInvariant, PTL DEF MoneyInv

LEMMA PayeeAlive == TypeOK /\ RegistryInv /\ MoneyInv => UnslashedPayeeAlive
<1> SUFFICES ASSUME TypeOK, RegistryInv, MoneyInv, NEW id \in Committed, NEW payee,
                    payee = Escrows[id].payee,
                    controlled_by(VectorCommitments[id].provider, payee), slashed[payee] = 0
             PROVE  Exists(balances, payee)
  BY Zenon DEF UnslashedPayeeAlive
<1>1. PICK did \in Registered : did = VectorCommitments[id].provider
                               /\ AgentProfiles[did].controller = payee
  BY Zenon DEF controlled_by
<1>2. payee \in Account /\ did \in ControllerAgents[payee]
  BY <1>1 DEF TypeOK, RegistryTypeOK, IsMap, AgentProfile, Registered, RegistryInv, IndexConsistent
<1>3. /\ IsFiniteSet(ControllerAgents[payee]) /\ Cardinality(ControllerAgents[payee]) \in Nat
      /\ Deposits(payee) \in Nat /\ LockedOn(payee) \in Nat
  BY <1>2, DepositsType, ClaimsType, Zenon DEF TypeOK, MoneyInv
<1>4. Cardinality(ControllerAgents[payee]) # 0
  BY <1>2, <1>3, FS_EmptySet, Zenon
<1>5. PICK n \in Nat : Cardinality(ControllerAgents[payee]) = n + 1
  <2>1. \A k \in Nat : k # 0 => \E n \in Nat : k = n + 1
    <3>1. \A k \in Nat : k # 0 => k - 1 \in Nat /\ k = (k - 1) + 1
      OBVIOUS
    <3> QED BY <3>1, Zenon
  <2> QED BY <1>3, <1>4, <2>1, Zenon
<1>6. Deposits(payee) > 0
  BY <1>5, DepositFacts, PositiveDeposit, RegistryAssumption DEF Deposits
<1>7. balances[payee].free \in Nat /\ balances[payee].reserved \in Nat
  BY <1>2, ZenonT(30) DEF TypeOK, Ledger
<1>8. balances[payee].reserved >= Deposits(payee) + LockedOn(payee)
  BY <1>2, <1>3, <1>7 DEF MoneyInv, ReserveCoversClaims, Claims
<1> QED BY <1>3, <1>6, <1>7, <1>8 DEF Exists

\* A payee that controls the provider of a deal in flight, and was never slashed,
\* exists: the repatriate_reserved of close and counter cannot fail with a dead
\* beneficiary.
THEOREM PayeesStayAlive == Spec => []UnslashedPayeeAlive
BY MoneyInvariant, PayeeAlive, PTL

-----------------------------------------------------------------------------
(***************************************************************************)
(* Settlement in full.                                                     *)
(***************************************************************************)
LEMMA SlashKeepsFree ==
    ASSUME RegistryTypeOK, NEW did, NEW amount, NEW ledger \in Ledger,
           slash_reputation_for_guilty_delivery(did, amount, ledger), NEW a \in Account
    PROVE  balances'[a].free = ledger[a].free
BY DEF slash_reputation_for_guilty_delivery, Strike, SlashReserved, Ledger

LEMMA StepIsEntry ==
    ASSUME TypeOK, [Next]_vars
    PROVE  UNCHANGED Escrows \/ EscrowEntry
<1>1. CASE Deals
  BY <1>1, MoneyCases, Zenon DEF Deals, EscrowEntry, finalize_dispute
<1> QED BY <1>1, Zenon DEF Next, Agents, Transfers, NewBlock, vars

\* The step that refunds an escrow is the finalisation of its dispute.
LEMMA RefundIsFinal ==
    ASSUME TypeOK, [Next]_vars, NEW id, Settles(id, "Refunded")
    PROVE  id \in DOMAIN VectorCommitments /\ finalize_dispute(id)
<1>1. id \in DOMAIN Escrows /\ Escrows[id].status = "Locked" /\ Escrows'[id].status = "Refunded"
  BY Zenon DEF Settles
<1>2. VectorDbCall
  BY <1>1, Zenon DEF Next, Agents, Deals, Transfers, NewBlock, vars
<1>3. ASSUME NEW k, NEW payee, NEW payer, NEW amount, lock(k, payer, payee, amount) PROVE FALSE
  BY <1>1, <1>3, Zenon DEF lock, Put
<1>4. ASSUME NEW k, NEW s \in {"Released", "Refunded"}, Escrows' = [Escrows EXCEPT ![k].status = s]
      PROVE  k = id /\ s = "Refunded"
  <2>1. k = id
    BY <1>1, <1>4, Zenon
  <2>2. Escrows[id] \in EscrowRecord
    BY <1>1, Zenon DEF TypeOK, EscrowTypeOK, IsMap
  <2>3. Escrows'[id] = [Escrows[id] EXCEPT !.status = s]
    BY <1>1, <1>4, <2>1, Zenon
  <2> QED BY <1>1, <2>1, <2>2, <2>3 DEF EscrowRecord
<1>5. ASSUME NEW k, release(k) PROVE FALSE
  <2>1. PICK s \in {"Released", "Refunded"} :
           s = "Released" /\ Escrows' = [Escrows EXCEPT ![k].status = s]
    BY <1>5, Zenon DEF release
  <2> QED BY <1>4, <2>1, Zenon
<1>6. ASSUME NEW k, finalize_dispute(k) PROVE k = id
  BY <1>4, <1>6, Zenon DEF finalize_dispute, refund
<1> QED BY <1>1, <1>2, <1>3, <1>5, <1>6, MoneyCases, Zenon

LEMMA SettleStep ==
    TypeOK /\ MoneyInv /\ [Next]_vars =>
        [\A id \in DOMAIN Escrows :
            slashed[Escrows[id].payer] = 0 => PaysInFull(id) /\ RefundsInFull(id)]_vars
<1> SUFFICES ASSUME TypeOK, MoneyInv, [Next]_vars, NEW id \in DOMAIN Escrows,
                    slashed[Escrows[id].payer] = 0
             PROVE  PaysInFull(id) /\ RefundsInFull(id)
  BY Zenon
<1>1. /\ EscrowTypeOK(CommitmentId) /\ IsFiniteSet(DOMAIN Escrows) /\ balances \in Ledger
      /\ RegistryTypeOK
  BY Zenon DEF TypeOK, MoneyInv
<1>2. PICK payer \in Account, amount \in Nat : payer = Escrows[id].payer /\ amount = Escrows[id].amount
  BY <1>1, Zenon DEF EscrowTypeOK, IsMap, EscrowRecord
<1>3. ASSUME IsLocked(id) PROVE amount <= balances[payer].reserved
  <2>1. amount <= LockedOn(payer)
    BY <1>1, <1>2, <1>3, LockedBound
  <2>2. Deposits(payer) \in Nat /\ LockedOn(payer) \in Nat
    BY <1>1, <1>2, ClaimsType, Zenon
  <2>3. balances[payer].reserved \in Nat /\ balances[payer].reserved + 0 >= Deposits(payer) + LockedOn(payer)
    BY <1>1, <1>2, Zenon DEF MoneyInv, ReserveCoversClaims, Claims, Ledger
  <2> QED BY <2>1, <2>2, <2>3
<1>4. CASE Settles(id, "Released")
  <2>1. release(id)
    BY <1>1, <1>4, StepIsEntry, OnlySettler
  <2>2. PaysInFull(id)
    BY <1>1, <1>2, <1>3, <2>1, ReleasePays, Zenon DEF release
  <2> QED BY <1>4, <2>2, Zenon DEF RefundsInFull, Settles
<1>5. CASE Settles(id, "Refunded")
  <2>1. id \in DOMAIN VectorCommitments /\ finalize_dispute(id) /\ IsLocked(id)
    BY <1>5, RefundIsFinal, Zenon DEF finalize_dispute, refund
  <2>2. RefundLedger(id)[payer].free = balances[payer].free + amount
    BY <1>1, <1>2, <1>3, <2>1, RefundPays
  <2>3. balances'[payer].free = RefundLedger(id)[payer].free
    BY <1>1, <1>2, <2>1, RefundType, SlashKeepsFree DEF finalize_dispute, penalize_provider
  <2> QED BY <1>2, <1>5, <2>2, <2>3 DEF RefundsInFull, PaysInFull, Settles
<1> QED BY <1>4, <1>5, Zenon DEF PaysInFull, RefundsInFull

\* The escrows of a payer that was never slashed are released and refunded in
\* full, whatever else is reserved on the account.
THEOREM UnslashedSettlements == Spec => UnslashedSettlesInFull
BY MoneyInvariant, SettleStep, PTL DEF Spec, UnslashedSettlesInFull

-----------------------------------------------------------------------------
(***************************************************************************)
(* Conservation.                                                           *)
(***************************************************************************)
LEMMA ConservedIssuance ==
    /\ MoneyConserved <=> Issuance(balances) + SumFunctionOnSet(slashed, Account) = Total(Endowment)
    /\ MoneyConserved' <=> Issuance(balances') + SumFunctionOnSet(slashed', Account) = Total(Endowment)
BY Zenon DEF MoneyConserved, Total, Issuance, Wealth

LEMMA FinalizeIssuance ==
    ASSUME TypeOK, NEW id \in DOMAIN VectorCommitments, finalize_dispute(id)
    PROVE  Issuance(balances') + SumFunctionOnSet(slashed', Account)
             = Issuance(balances) + SumFunctionOnSet(slashed, Account)
<1>1. /\ Escrows[id].payer \in Account /\ Escrows[id].amount \in Nat /\ balances \in Ledger
      /\ VectorCommitments[id].provider \in Did /\ RegistryTypeOK
  BY Zenon DEF finalize_dispute, refund, IsLocked, TypeOK, EscrowTypeOK, IsMap, EscrowRecord,
         VectorCommitment
<1>2. RefundLedger(id) \in Ledger /\ Issuance(RefundLedger(id)) = Issuance(balances)
  BY <1>1, UnreserveType, UnreserveIssuance DEF RefundLedger
<1>3. Issuance(balances') + SumFunctionOnSet(slashed', Account)
        = Issuance(RefundLedger(id)) + SumFunctionOnSet(slashed, Account)
  BY <1>1, <1>2, GuiltyIssuance DEF finalize_dispute, penalize_provider
<1> QED BY <1>2, <1>3, Zenon

LEMMA ConservedStep == TypeOK /\ MoneyConserved /\ [Next]_vars => MoneyConserved'
<1> SUFFICES ASSUME TypeOK, MoneyConserved, [Next]_vars
             PROVE  Issuance(balances') + SumFunctionOnSet(slashed', Account)
                      = Issuance(balances) + SumFunctionOnSet(slashed, Account)
  BY ConservedIssuance, Zenon
<1>1. balances \in Ledger
  BY Zenon DEF TypeOK
<1>2. CASE Agents
  BY <1>1, <1>2, RegistryIssuance DEF Agents
<1>3. CASE Deals
  <2>1. ASSUME NEW id, NEW payee, NEW payer \in Account, NEW amount \in Nat,
               lock(id, payer, payee, amount)
        PROVE  Issuance(balances') = Issuance(balances)
    BY <1>1, <2>1, ReserveIssuance DEF lock
  <2>2. ASSUME NEW id, release(id) PROVE Issuance(balances') = Issuance(balances)
    <3>1. /\ Escrows[id].payer \in Account /\ Escrows[id].payee \in Account
          /\ Escrows[id].amount \in Nat
      BY <2>2 DEF release, IsLocked, TypeOK, EscrowTypeOK, IsMap, EscrowRecord
    <3> QED BY <1>1, <2>2, <3>1, RepatriateIssuance DEF release
  <2> QED BY <1>3, <2>1, <2>2, MoneyCases, FinalizeIssuance DEF Deals
<1>4. CASE Transfers
  <2>1. Issuance(balances)' = Issuance(balances) /\ UNCHANGED slashed
    BY <1>1, <1>4, TransferIssuance DEF Transfers, registryVars
  <2> QED BY <2>1, Zenon
<1> QED BY <1>2, <1>3, <1>4 DEF Next, NewBlock, vars, registryVars

\* The free and reserved balances and what was burned always add up to the
\* genesis endowment: no handler creates or loses money.
THEOREM MoneyAlwaysConserved == Spec => []MoneyConserved
<1>1. Init => MoneyConserved
  <2> SUFFICES ASSUME Init PROVE MoneyConserved
    OBVIOUS
  <2>1. \A a \in Account : Wealth(balances)[a] = Endowment[a]
    BY BalancesAssumption DEF Init, BalancesInit, Wealth
  <2>2. Issuance(balances) = Total(Endowment)
    BY <2>1, SumSame, BalancesAssumption DEF Issuance, Total
  <2>3. SumFunctionOnSet(slashed, Account) = 0
    <3>1. \A a \in Account : slashed[a] \in Nat /\ slashed[a] <= 0
      BY DEF Init, RegistryInit
    <3>2. /\ SumFunctionOnSet(slashed, Account) \in Nat
          /\ SumFunctionOnSet(slashed, Account) <= Cardinality(Account) * 0
      BY <3>1, SumType, SumBound, BalancesAssumption
    <3>3. Cardinality(Account) * 0 = 0
      BY FS_CardinalityType, BalancesAssumption
    <3> QED BY <3>2, <3>3
  <2>4. Total(Endowment) \in Nat
    BY SumType, BalancesAssumption, Zenon DEF Total
  <2> QED BY <2>2, <2>3, <2>4, ConservedIssuance
<1> QED BY <1>1, ConservedStep, TypeCorrect, PTL DEF Spec

-----------------------------------------------------------------------------
(***************************************************************************)
(* Reputation.                                                             *)
(***************************************************************************)
LEMMA ScoreStep == TypeOK /\ TypeOK' /\ ScoreInv /\ [Next]_vars => ScoreInv'
<1> SUFFICES ASSUME TypeOK, TypeOK', ScoreInv, [Next]_vars PROVE ScoreInv'
  BY Zenon
<1>1. RegistryTypeOK /\ RegistryTypeOK' /\ block \in Nat /\ block' \in Nat
  BY HorizonAssumption DEF TypeOK
<1>2. ASSUME block <= block', UNCHANGED registryVars PROVE ScoreInv'
  BY <1>1, <1>2, ScoreIdle DEF registryVars
<1>3. CASE Agents
  BY <1>1, <1>3, RegistryCallScore DEF Agents
<1>4. CASE Deals
  <2>1. ASSUME NEW did, penalize_false_disputer(did) PROVE ScoreInv'
    BY <1>1, <1>4, <2>1, SlashScore, SlashAssumption DEF Deals, penalize_false_disputer
  <2>2. ASSUME NEW did, NEW ledger, penalize_provider(did, ledger) PROVE ScoreInv'
    BY <1>1, <1>4, <2>2, GuiltyScore, SlashAssumption DEF Deals, penalize_provider
  <2> QED BY <1>1, <1>2, <1>4, <2>1, <2>2, PenaltiesOnly DEF Deals
<1>5. CASE NewBlock
  BY <1>1, <1>2, <1>5 DEF NewBlock, AdvanceBlock
<1> QED BY <1>1, <1>2, <1>3, <1>4, <1>5 DEF Next, Transfers, vars

\* Also between penalties that resolve real disputes, no agent's score exceeds one
\* star for every giver plus one for every cooldown that has passed.
THEOREM ReputationStaysBounded == Spec => []ReputationBounded
<1>1. Init => ScoreInv
  BY ScoreInvInit, Zenon DEF Init
<1>2. TypeOK /\ ScoreInv => ReputationBounded
  BY ScoreInvBounds, HorizonAssumption DEF TypeOK
<1> QED BY <1>1, <1>2, ScoreStep, TypeCorrect, PTL DEF Spec

-----------------------------------------------------------------------------
(***************************************************************************)
(* Punishment.  A verdict pays for one strike, and StrikeThreshold strikes *)
(* for one burn: the strike that burns takes StrikeThreshold - 1 earlier   *)
(* ones off the counter, which StrikesBelowThreshold provides.             *)
(***************************************************************************)
PunishInv == PunishedOnlyForGuilt /\ IsFiniteSet(DOMAIN DisputeRecords)

\* burned and strikes are paid for by that many verdicts.
PaidFor(burned, strikes, verdicts) ==
    StrikeThreshold * burned + DepositSlashPerStrike * strikes <= DepositSlashPerStrike * verdicts

LEMMA PaidArithmetic ==
    ASSUME NEW burned \in Nat, NEW strikes \in Nat, NEW verdicts \in Nat,
           PaidFor(burned, strikes, verdicts)
    PROVE  /\ PaidFor(burned, strikes, verdicts + 1)
           /\ PaidFor(burned, strikes + 1, verdicts + 1)
           /\ \A x \in 0..DepositSlashPerStrike, left \in Nat :
                 strikes = left + (StrikeThreshold - 1) => PaidFor(burned + x, left, verdicts + 1)
<1>1. PICK t \in Nat, d \in Nat : StrikeThreshold = t + 1 /\ DepositSlashPerStrike = d
  <2>1. StrikeThreshold - 1 \in Nat /\ StrikeThreshold = (StrikeThreshold - 1) + 1
    BY RegistryAssumption
  <2> QED BY <2>1, RegistryAssumption, Zenon
<1>2. (t + 1) * burned \in Nat /\ d * strikes \in Nat /\ d * verdicts \in Nat /\ d * t \in Nat
  OBVIOUS
<1>3. d * (verdicts + 1) = d * verdicts + d /\ d * (strikes + 1) = d * strikes + d
  OBVIOUS
<1>4. ASSUME NEW x \in 0..d, NEW left \in Nat, strikes = left + t
      PROVE  (t + 1) * (burned + x) + d * left <= d * (verdicts + 1)
  <2>1. PICK y \in Nat : d = x + y /\ x \in Nat
    BY <1>4
  <2>2. (t + 1) * (burned + x) = (t + 1) * burned + (t + 1) * x /\ (t + 1) * x \in Nat
    BY <2>1
  <2>3. (t + 1) * x + (t + 1) * y = (t + 1) * d /\ (t + 1) * y \in Nat
    BY <2>1
  <2>4. (t + 1) * d = d * t + d
    OBVIOUS
  <2>5. d * strikes = d * left + d * t /\ d * left \in Nat
    BY <1>4
  <2>6. (t + 1) * burned + d * strikes <= d * verdicts
    BY <1>1, Zenon DEF PaidFor
  <2> QED BY <1>2, <1>3, <2>2, <2>3, <2>4, <2>5, <2>6
<1>5. (t + 1) * burned + d * strikes <= d * verdicts
  BY <1>1, Zenon DEF PaidFor
<1> QED BY <1>1, <1>2, <1>3, <1>4, <1>5 DEF PaidFor

\* What a guilty verdict does to the sums.
LEMMA StrikeSums ==
    ASSUME RegistryTypeOK, StrikesBelowThreshold, NEW did \in Did, NEW amount, NEW ledger \in Ledger,
           slash_reputation_for_guilty_delivery(did, amount, ledger),
           NEW burned, burned = SumFunctionOnSet(slashed, Account),
           NEW strikes, strikes = SumFunctionOnSet(DisputeStrikes, Did)
    PROVE  /\ burned \in Nat /\ strikes \in Nat
           /\ \/ /\ SumFunctionOnSet(slashed', Account) = burned
                 /\ SumFunctionOnSet(DisputeStrikes', Did) \in {strikes, strikes + 1}
              \/ \E x \in 0..DepositSlashPerStrike, left \in Nat :
                    /\ SumFunctionOnSet(slashed', Account) = burned + x
                    /\ SumFunctionOnSet(DisputeStrikes', Did) = left
                    /\ strikes = left + (StrikeThreshold - 1)
<1>1. /\ \A a \in Account : slashed[a] \in Nat
      /\ \A d \in Did : DisputeStrikes[d] \in Nat
      /\ DisputeStrikes \in [Did -> Nat] /\ slashed \in [Account -> Nat]
  BY Zenon DEF RegistryTypeOK
<1>2. burned \in Nat /\ strikes \in Nat
  BY <1>1, SumType, BalancesAssumption, RegistryAssumption
<1>3. CASE UNCHANGED <<DisputeStrikes, slashed>>
  BY <1>2, <1>3, Zenon
<1>4. CASE DisputeStrikes' = [DisputeStrikes EXCEPT ![did] = @ + 1] /\ UNCHANGED slashed
  <2>1. /\ \A d \in Did : DisputeStrikes[d] \in Nat /\ DisputeStrikes'[d] \in Nat
        /\ \A d \in Did \ {did} : DisputeStrikes[d] = DisputeStrikes'[d]
        /\ DisputeStrikes'[did] = DisputeStrikes[did] + 1
    BY <1>1, <1>4
  <2>2. SumFunctionOnSet(DisputeStrikes', Did) = strikes - DisputeStrikes[did] + DisputeStrikes'[did]
    BY <2>1, SumChange, RegistryAssumption
  <2> QED BY <1>2, <1>4, <2>1, <2>2
<1>5. ASSUME did \in Registered, NEW c \in Account, ReachesThreshold(DisputeStrikes[did] + 1),
             DisputeStrikes' = [DisputeStrikes EXCEPT ![did] = 0],
             slashed' = [slashed EXCEPT ![c] = @ + Slashable(ledger, c, DepositSlashPerStrike)]
      PROVE  \E x \in 0..DepositSlashPerStrike, left \in Nat :
                    /\ SumFunctionOnSet(slashed', Account) = burned + x
                    /\ SumFunctionOnSet(DisputeStrikes', Did) = left
                    /\ strikes = left + (StrikeThreshold - 1)
  <2>1. PICK x \in 0..DepositSlashPerStrike : x = Slashable(ledger, c, DepositSlashPerStrike)
    BY <1>5, RegistryAssumption DEF Slashable, Least, Ledger
  <2>2. /\ \A d \in Did : DisputeStrikes[d] \in Nat /\ DisputeStrikes'[d] \in Nat
        /\ \A d \in Did \ {did} : DisputeStrikes[d] = DisputeStrikes'[d]
        /\ DisputeStrikes'[did] = 0
    BY <1>1, <1>5, Zenon
  <2>3. /\ SumFunctionOnSet(DisputeStrikes', Did) = strikes - DisputeStrikes[did] + DisputeStrikes'[did]
        /\ SumFunctionOnSet(DisputeStrikes', Did) \in Nat
    BY <2>2, SumChange, SumType, RegistryAssumption
  <2>4. DisputeStrikes[did] = StrikeThreshold - 1
    BY <1>1, <1>5, RegistryAssumption DEF ReachesThreshold, StrikesBelowThreshold
  <2>5. /\ \A a \in Account : slashed[a] \in Nat /\ slashed'[a] \in Nat
        /\ \A a \in Account \ {c} : slashed[a] = slashed'[a]
        /\ slashed'[c] = slashed[c] + x /\ x \in Nat
    BY <1>1, <1>5, <2>1, RegistryAssumption
  <2>6. SumFunctionOnSet(slashed', Account) = burned - slashed[c] + slashed'[c]
    <3>1. IsFiniteSet(Account)
      BY BalancesAssumption, Zenon
    <3> QED BY <2>5, <3>1, SumChange
  <2>7. SumFunctionOnSet(slashed', Account) = burned + x
    BY <1>2, <2>5, <2>6
  <2>8. PICK left \in Nat : left = SumFunctionOnSet(DisputeStrikes', Did)
    BY <2>3, Zenon
  <2>9. strikes = left + (StrikeThreshold - 1)
    BY <1>2, <2>2, <2>3, <2>4, <2>8, RegistryAssumption
  <2> QED BY <2>7, <2>8, <2>9, Zenon
<1>6. did \in Registered => AgentProfiles[did].controller \in Account
  BY Zenon DEF RegistryTypeOK, IsMap, AgentProfile, Registered
<1>7. CASE did \in Registered /\ Strike(did, ledger)
  BY <1>2, <1>4, <1>5, <1>6, <1>7, Zenon DEF Strike, Removed
<1> QED BY <1>2, <1>3, <1>7 DEF slash_reputation_for_guilty_delivery

\* The records of the vector-db pallet gain a guilty verdict only by finalisation.
LEMMA VerdictsKept ==
    ASSUME TypeOK, DealInv, VectorDbCall, IsFiniteSet(DOMAIN DisputeRecords)
    PROVE  /\ IsFiniteSet(DOMAIN DisputeRecords')
           /\ \/ /\ GuiltyVerdicts' = GuiltyVerdicts
                 /\ \A id : ~finalize_dispute(id)
              \/ \E id \in DOMAIN VectorCommitments :
                    finalize_dispute(id) /\ GuiltyVerdicts' = GuiltyVerdicts \cup {id}
                                         /\ id \notin GuiltyVerdicts
<1>1. ASSUME UNCHANGED DisputeRecords
      PROVE  IsFiniteSet(DOMAIN DisputeRecords') /\ GuiltyVerdicts' = GuiltyVerdicts
  BY <1>1, Zenon DEF GuiltyVerdicts, VerdictIs
<1>2. ASSUME NEW caller, NEW id, NEW i, raise_dispute(caller, id, i)
      PROVE  IsFiniteSet(DOMAIN DisputeRecords') /\ GuiltyVerdicts' = GuiltyVerdicts
  <2>1. /\ id \notin DOMAIN DisputeRecords
        /\ DOMAIN DisputeRecords' = DOMAIN DisputeRecords \cup {id}
        /\ DisputeRecords'[id].verdict = NoVerdict
        /\ \A k \in DOMAIN DisputeRecords : DisputeRecords'[k] = DisputeRecords[k]
    BY <1>2, Zenon DEF raise_dispute, Put
  <2>2. IsFiniteSet(DOMAIN DisputeRecords')
    BY <2>1, FS_AddElement, Zenon
  <2>3. NoVerdict # "ProviderGuilty"
    BY Zenon DEF NoVerdict
  <2> QED BY <2>1, <2>2, <2>3 DEF GuiltyVerdicts, VerdictIs
<1>3. ASSUME NEW id, InStatus(id, "Disputed"), id \in DOMAIN DisputeRecords, NEW verdict,
             Resolve(id, verdict)
      PROVE  /\ IsFiniteSet(DOMAIN DisputeRecords') /\ id \notin GuiltyVerdicts
             /\ GuiltyVerdicts' = IF verdict = "ProviderGuilty" THEN GuiltyVerdicts \cup {id}
                                  ELSE GuiltyVerdicts
  <2>1. DisputeRecords[id].verdict = NoVerdict /\ DisputeRecords[id] \in DisputeRecord
    BY <1>3 DEF DealInv, RecordsMatchStatus, VerdictIs, InStatus, StatusOf, TypeOK, IsMap
  <2>2. /\ DOMAIN DisputeRecords' = DOMAIN DisputeRecords
        /\ DisputeRecords'[id].verdict = verdict
        /\ \A k \in DOMAIN DisputeRecords \ {id} : DisputeRecords'[k] = DisputeRecords[k]
    BY <1>3, <2>1, Zenon DEF Resolve, DisputeRecord
  <2>3. id \notin GuiltyVerdicts
    BY <2>1, Zenon DEF GuiltyVerdicts, VerdictIs, NoVerdict
  <2> QED BY <1>3, <2>2, <2>3 DEF GuiltyVerdicts, VerdictIs
<1>4. ASSUME NEW caller, NEW id, counter_dispute(caller, id)
      PROVE  IsFiniteSet(DOMAIN DisputeRecords') /\ GuiltyVerdicts' = GuiltyVerdicts
  <2>1. PICK verdict : verdict = "ClaimantUnsubstantiated" /\ Resolve(id, verdict)
    BY <1>4, Zenon DEF counter_dispute
  <2> QED BY <1>3, <1>4, <2>1 DEF counter_dispute
<1>5. ASSUME NEW id, finalize_dispute(id)
      PROVE  /\ IsFiniteSet(DOMAIN DisputeRecords') /\ id \notin GuiltyVerdicts
             /\ GuiltyVerdicts' = GuiltyVerdicts \cup {id}
  <2>1. PICK verdict : verdict = "ProviderGuilty" /\ Resolve(id, verdict)
    BY <1>5, Zenon DEF finalize_dispute
  <2> QED BY <1>3, <1>5, <2>1 DEF finalize_dispute
<1>6. ASSUME NEW caller, NEW id,
             \/ \E o \in Offer : register_commitment(caller, o)
             \/ acknowledge_commitment(caller, id)
             \/ \E h \in MerkleRoot, n \in ChunkCount : close_commitment(caller, id, h, n)
             \/ expire_commitment(id)
      PROVE  UNCHANGED DisputeRecords
  BY <1>6, Zenon DEF register_commitment, acknowledge_commitment, close_commitment, expire_commitment
<1>7. ASSUME NEW id, finalize_dispute(id) PROVE GuiltyVerdicts' # GuiltyVerdicts
  BY <1>5, <1>7, Zenon
<1> QED BY <1>1, <1>2, <1>4, <1>5, <1>6, <1>7, Zenon DEF VectorDbCall

\* Not even a registration under a DID that was struck before.
LEMMA CallsStrikeNobody ==
    ASSUME RegistryCall
    PROVE  UNCHANGED <<slashed, DisputeStrikes>>
<1>1. PICK c \in Account, did \in Did :
        \/ \E sig \in Signatures, at \in 0..block, cap \in CapabilityBitmap :
              register_agent(c, did, sig, at, cap)
        \/ \E cap \in CapabilityBitmap : update_profile(c, did, cap)
        \/ \E s \in StatusInput : set_agent_status(c, did, s)
        \/ deregister_agent(c, did)
        \/ \E r \in Did : give_star(c, did, r) \/ remove_star(c, did, r)
  BY Zenon DEF RegistryCall
<1>2. ASSUME NEW sig, NEW at, NEW cap, register_agent(c, did, sig, at, cap)
      PROVE  UNCHANGED <<slashed, DisputeStrikes>>
  BY <1>2, Zenon DEF register_agent
<1>3. ASSUME NEW v, update_profile(c, did, v) \/ set_agent_status(c, did, v)
      PROVE  UNCHANGED <<slashed, DisputeStrikes>>
  BY <1>3, Zenon DEF update_profile, set_agent_status
<1>4. ASSUME NEW r, deregister_agent(c, did) \/ give_star(c, did, r) \/ remove_star(c, did, r)
      PROVE  UNCHANGED <<slashed, DisputeStrikes>>
  BY <1>4, Zenon DEF deregister_agent, give_star, remove_star
<1> QED BY <1>1, <1>2, <1>3, <1>4, Zenon

LEMMA PunishStep ==
    TypeOK /\ DealInv /\ RegistryInv /\ PunishInv /\ [Next]_vars => PunishInv'
<1> SUFFICES ASSUME TypeOK, DealInv, RegistryInv, PunishInv, [Next]_vars PROVE PunishInv'
  BY Zenon
<1>1. /\ RegistryTypeOK /\ StrikesBelowThreshold /\ IsFiniteSet(DOMAIN DisputeRecords)
      /\ IsFiniteSet(GuiltyVerdicts) /\ Cardinality(GuiltyVerdicts) \in Nat
  BY FS_Subset, FS_CardinalityType DEF TypeOK, RegistryInv, PunishInv, GuiltyVerdicts
<1>2. ASSUME UNCHANGED <<slashed, DisputeStrikes, GuiltyVerdicts>>, IsFiniteSet(DOMAIN DisputeRecords')
      PROVE  PunishInv'
  BY <1>2, Zenon DEF PunishInv, PunishedOnlyForGuilt, Total
<1>3. CASE Agents
  <2>1. UNCHANGED <<slashed, DisputeStrikes, DisputeRecords>>
    BY <1>3, CallsStrikeNobody, Zenon DEF Agents, vectorDbVars
  <2> QED BY <1>1, <1>2, <2>1 DEF GuiltyVerdicts, VerdictIs
<1>4. ASSUME NEW id \in DOMAIN VectorCommitments, finalize_dispute(id), id \notin GuiltyVerdicts,
             GuiltyVerdicts' = GuiltyVerdicts \cup {id}, IsFiniteSet(DOMAIN DisputeRecords')
      PROVE  PunishInv'
  <2>1. PICK did \in Did : did = VectorCommitments[id].provider
    BY Zenon DEF TypeOK, IsMap, VectorCommitment
  <2>2. PICK ledger \in Ledger : ledger = RefundLedger(id)
    BY <1>4, RefundType DEF finalize_dispute
  <2>3. slash_reputation_for_guilty_delivery(did, ProviderGuiltySlash, ledger)
    BY <1>4, <2>1, <2>2 DEF finalize_dispute, penalize_provider
  <2>4. PICK burned, strikes, verdicts : /\ burned = SumFunctionOnSet(slashed, Account)
                                         /\ strikes = SumFunctionOnSet(DisputeStrikes, Did)
                                         /\ verdicts = Cardinality(GuiltyVerdicts)
    BY Zenon
  <2>5. PaidFor(burned, strikes, verdicts)
    BY <2>4, Zenon DEF PunishInv, PunishedOnlyForGuilt, Total, PaidFor
  <2>6. Cardinality(GuiltyVerdicts') = verdicts + 1 /\ verdicts \in Nat
    BY <1>1, <1>4, <2>4, FS_AddElement, ZenonT(30)
  <2>7. /\ burned \in Nat /\ strikes \in Nat
        /\ \/ /\ SumFunctionOnSet(slashed', Account) = burned
              /\ SumFunctionOnSet(DisputeStrikes', Did) \in {strikes, strikes + 1}
           \/ \E x \in 0..DepositSlashPerStrike, left \in Nat :
                 /\ SumFunctionOnSet(slashed', Account) = burned + x
                 /\ SumFunctionOnSet(DisputeStrikes', Did) = left
                 /\ strikes = left + (StrikeThreshold - 1)
    BY <1>1, <2>3, <2>4, StrikeSums
  <2>8. /\ PaidFor(burned, strikes, verdicts + 1)
        /\ PaidFor(burned, strikes + 1, verdicts + 1)
        /\ \A x \in 0..DepositSlashPerStrike, left \in Nat :
              strikes = left + (StrikeThreshold - 1) => PaidFor(burned + x, left, verdicts + 1)
    BY <2>5, <2>6, <2>7, PaidArithmetic, Zenon
  <2>9. PaidFor(SumFunctionOnSet(slashed', Account), SumFunctionOnSet(DisputeStrikes', Did),
                Cardinality(GuiltyVerdicts'))
    BY <2>6, <2>7, <2>8
  <2> QED BY <1>4, <2>9 DEF PunishInv, PunishedOnlyForGuilt, Total, PaidFor
<1>5. CASE Deals
  <2>1. ASSUME GuiltyVerdicts' = GuiltyVerdicts, \A id : ~finalize_dispute(id),
               IsFiniteSet(DOMAIN DisputeRecords')
        PROVE  PunishInv'
    <3>1. UNCHANGED <<slashed, DisputeStrikes>>
      BY <1>5, <2>1, MoneyCases DEF Deals
    <3> QED BY <1>2, <2>1, <3>1
  <2> QED BY <1>1, <1>4, <1>5, <2>1, VerdictsKept DEF Deals
<1> QED
  BY <1>1, <1>2, <1>3, <1>5
  DEF Next, Transfers, NewBlock, vars, registryVars, vectorDbVars, GuiltyVerdicts, VerdictIs

\* Strikes and burned deposits are paid for by recorded guilty verdicts, one
\* verdict for a strike and StrikeThreshold of them for a burn: none counts twice,
\* and neither a refuted dispute nor a new registration adds any.
THEOREM PunishmentNeedsGuilt == Spec => []PunishedOnlyForGuilt
<1>1. Init => PunishInv
  <2> SUFFICES ASSUME Init PROVE PunishInv
    OBVIOUS
  <2>1. DOMAIN DisputeRecords = {} /\ GuiltyVerdicts = {} /\ Cardinality(GuiltyVerdicts) = 0
    BY FS_EmptySet, Zenon DEF Init, VectorDbInit, EmptyMap, GuiltyVerdicts
  <2>2. /\ \A a \in Account : slashed[a] \in Nat /\ slashed[a] <= 0
        /\ \A d \in Did : DisputeStrikes[d] \in Nat /\ DisputeStrikes[d] <= 0
    BY DEF Init, RegistryInit
  <2>3. /\ SumFunctionOnSet(slashed, Account) \in Nat
        /\ SumFunctionOnSet(slashed, Account) <= Cardinality(Account) * 0
    BY <2>2, SumType, SumBound, BalancesAssumption
  <2>4. /\ SumFunctionOnSet(DisputeStrikes, Did) \in Nat
        /\ SumFunctionOnSet(DisputeStrikes, Did) <= Cardinality(Did) * 0
    BY <2>2, SumType, SumBound, RegistryAssumption
  <2>5. Cardinality(Account) * 0 = 0 /\ Cardinality(Did) * 0 = 0
    BY FS_CardinalityType, BalancesAssumption, RegistryAssumption
  <2>6. SumFunctionOnSet(slashed, Account) = 0 /\ SumFunctionOnSet(DisputeStrikes, Did) = 0
    BY <2>3, <2>4, <2>5
  <2>7. PunishedOnlyForGuilt
    BY <2>1, <2>6, RegistryAssumption DEF PunishedOnlyForGuilt, Total
  <2> QED BY <2>1, <2>7, FS_EmptySet DEF PunishInv
<1>2. Spec => []PunishInv
  BY <1>1, PunishStep, DealInvariant, RegistryInvariant, PTL DEF Spec
<1> QED BY <1>2, PTL DEF PunishInv
=============================================================================
