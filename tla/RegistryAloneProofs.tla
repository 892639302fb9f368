------------------------ MODULE RegistryAloneProofs ------------------------
(***************************************************************************)
(* pallet-agent-registry by itself, for any accounts, agents, deposit and  *)
(* penalties: its types, its deposits and its reputation scores.           *)
(*                                                                         *)
(* unreserve and slash_reserved take what there is, up to what is asked,   *)
(* and the pallet looks at neither result before it deletes a profile.     *)
(* The argument for the deposits: with every deletion the deposits owed    *)
(* fall by one deposit and the reserve by no more than that; with every    *)
(* strike the reserve falls by exactly what is added to the burned amount. *)
(* The argument for the scores is ScoreInv of AgentRegistryProofs.         *)
(***************************************************************************)
EXTENDS RegistryAlone, AgentRegistryProofs

\* No other pallet reserves anything.
NoClaims == [a \in Account |-> 0]

Inv == TypeOK /\ RegistryInv /\ DepositsBacked /\ ScoreInv

LEMMA BackedIsCovered ==
    ASSUME RegistryTypeOK
    PROVE  DepositsBacked <=> Covers(balances, slashed, WithDeposits(NoClaims))
<1>1. \A a \in Account : WithDeposits(NoClaims)[a] = Deposits(a)
  BY DepositsType DEF WithDeposits, NoClaims
<1> QED BY <1>1, Zenon DEF DepositsBacked, Covers

LEMMA BackedIsCoveredNext ==
    ASSUME RegistryTypeOK', Covers(balances', slashed', WithDeposits(NoClaims)')
    PROVE  DepositsBacked'
<1>1. \A a \in Account : WithDeposits(NoClaims)'[a] = Deposits(a)'
  <2>1. ASSUME NEW a \in Account PROVE Deposits(a)' \in Nat
    <3>1. ControllerAgents'[a] \in SUBSET Did
      BY Zenon DEF RegistryTypeOK
    <3>2. Cardinality(ControllerAgents'[a]) \in Nat
      BY <3>1, FS_Subset, FS_CardinalityType, RegistryAssumption, Zenon
    <3> QED BY <3>2, DepositFacts, Zenon DEF Deposits
  <2> QED BY <2>1 DEF WithDeposits, NoClaims
<1> QED BY <1>1, Zenon DEF DepositsBacked, Covers

LEMMA BackedStep == Inv /\ RegistryTypeOK' /\ [Next]_vars => DepositsBacked'
<1> SUFFICES ASSUME Inv, RegistryTypeOK', [Next]_vars PROVE DepositsBacked'
  BY Zenon
<1>1. /\ RegistryTypeOK /\ balances \in Ledger /\ IndexConsistent
      /\ NoClaims \in [Account -> Nat] /\ WithDeposits(NoClaims) \in [Account -> Nat]
  BY WithDepositsType, Zenon DEF Inv, TypeOK, RegistryInv, NoClaims
<1>2. Covers(balances, slashed, WithDeposits(NoClaims))
  BY <1>1, BackedIsCovered, Zenon DEF Inv
<1>3. ASSUME UNCHANGED <<balances, ControllerAgents, slashed>> PROVE DepositsBacked'
  BY <1>3, Zenon DEF Inv, DepositsBacked, Deposits
<1>4. CASE Call
  BY <1>1, <1>2, <1>4, RegistryCovers, BackedIsCoveredNext, Zenon DEF Call
<1>5. CASE PenalizeProvider
  <2>1. Covers(balances', slashed', WithDeposits(NoClaims)) /\ UNCHANGED ControllerAgents
    BY <1>1, <1>2, <1>5, GuiltyCovers, Zenon DEF PenalizeProvider
  <2>2. WithDeposits(NoClaims)' = WithDeposits(NoClaims)
    BY <2>1, Zenon DEF WithDeposits, Deposits, NoClaims
  <2> QED BY <2>1, <2>2, BackedIsCoveredNext, Zenon
<1> QED
  BY <1>3, <1>4, <1>5, Zenon DEF Next, PenalizeFalseDisputer, NewBlock, vars, registryVars

LEMMA ScoreStep == Inv /\ TypeOK' /\ [Next]_vars => ScoreInv'
<1> SUFFICES ASSUME Inv, TypeOK', [Next]_vars PROVE ScoreInv'
  BY Zenon
<1>1. RegistryTypeOK /\ RegistryTypeOK' /\ ScoreInv /\ block \in Nat /\ block' \in Nat
  BY Zenon DEF Inv, TypeOK
<1>2. CASE Call
  BY <1>1, <1>2, RegistryCallScore, Zenon DEF Call
<1>3. CASE PenalizeProvider
  BY <1>1, <1>3, GuiltyScore, RegistryAloneAssumption, Zenon DEF PenalizeProvider
<1>4. CASE PenalizeFalseDisputer
  BY <1>1, <1>4, SlashScore, RegistryAloneAssumption, Zenon DEF PenalizeFalseDisputer
<1>5. CASE NewBlock
  BY <1>1, <1>5, ScoreIdle DEF NewBlock, AdvanceBlock, registryVars
<1>6. CASE UNCHANGED vars
  BY <1>1, <1>6, ScoreIdle DEF vars, registryVars
<1> QED BY <1>2, <1>3, <1>4, <1>5, <1>6, Zenon DEF Next

LEMMA TypeStep == TypeOK /\ [Next]_vars => TypeOK'
<1> SUFFICES ASSUME TypeOK, [Next]_vars PROVE TypeOK'
  BY Zenon
<1>1. RegistryTypeOK /\ balances \in Ledger /\ block \in Nat
  BY Zenon DEF TypeOK
<1>2. ASSUME UNCHANGED <<balances, registryVars>> PROVE RegistryTypeOK' /\ balances' \in Ledger
  BY <1>1, <1>2, Zenon DEF registryVars, RegistryTypeOK
<1>3. CASE Call
  BY <1>1, <1>3, RegistryType, Zenon DEF Call, TypeOK
<1>4. CASE PenalizeProvider
  BY <1>1, <1>4, GuiltyType, RegistryAloneAssumption, Zenon DEF PenalizeProvider, TypeOK
<1>5. CASE PenalizeFalseDisputer
  <2>1. IsMap(AgentProfiles, Did, AgentProfile)'
    BY <1>1, <1>5, SlashReputationType, RegistryAloneAssumption, Zenon DEF PenalizeFalseDisputer
  <2> QED BY <1>1, <1>5, <2>1, Zenon DEF PenalizeFalseDisputer, RegistryTypeOK, TypeOK
<1>6. CASE NewBlock
  BY <1>1, <1>2, <1>6 DEF NewBlock, AdvanceBlock, TypeOK
<1> QED BY <1>1, <1>2, <1>3, <1>4, <1>5, <1>6, Zenon DEF Next, vars, TypeOK

LEMMA RegistryStep == TypeOK /\ RegistryInv /\ [Next]_vars => RegistryInv'
<1> SUFFICES ASSUME TypeOK, RegistryInv, [Next]_vars PROVE RegistryInv'
  BY Zenon
<1>1. RegistryTypeOK
  BY Zenon DEF TypeOK
<1>2. ASSUME UNCHANGED registryVars PROVE RegistryInv'
  BY <1>2, Zenon DEF registryVars, RegistryInv, IndexConsistent, ControllerAuthorized,
              StrikesBelowThreshold, AgentCountExact, NotRevoked, Registered
<1>3. CASE PenalizeFalseDisputer
  <2>1. SameAgents
    BY <1>1, <1>3, SlashKeepsAgents, Zenon DEF PenalizeFalseDisputer
  <2> QED
    BY <1>1, <1>3, <2>1, SameAgentsInv, Zenon DEF PenalizeFalseDisputer, RegistryInv, StrikesBelowThreshold
<1> QED
  BY <1>1, <1>2, <1>3, RegistryCallInv, GuiltyInv, Zenon DEF Next, Call, PenalizeProvider, NewBlock, vars

LEMMA InvInit == Init => Inv
<1> SUFFICES ASSUME Init PROVE Inv
  BY Zenon
<1>1. RegistryInv /\ ScoreInv
  BY RegistryInvInit, ScoreInvInit, Zenon DEF Init
<1>2. TypeOK
  BY EmptyMapType, BalancesAssumption, Zenon
  DEF Init, SystemInit, BalancesInit, RegistryInit, TypeOK, Ledger, RegistryTypeOK
<1>3. DepositsBacked
  <2>1. Cardinality({}) = 0 /\ RegistrationDeposit * 0 = 0
    BY FS_EmptySet, RegistryAssumption
  <2> QED BY <2>1 DEF Init, BalancesInit, RegistryInit, DepositsBacked, Deposits
<1> QED BY <1>1, <1>2, <1>3, Zenon DEF Inv

LEMMA Invariant == Spec => []Inv
<1>1. Inv /\ [Next]_vars => Inv'
  BY BackedStep, ScoreStep, TypeStep, RegistryStep, Zenon DEF Inv, TypeOK
<1> QED BY <1>1, InvInit, PTL DEF Spec

\* Every storage map of the registry, the ledger and the block number keep their
\* types under every call, penalty and new block; no subtraction on a reserve goes
\* below zero.
THEOREM RegistryTypeCorrect == Spec => []TypeOK
BY Invariant, PTL DEF Inv

\* With any penalties at any time, the reserve of a controller is the deposits of
\* its agents, short of at most what DepositSlashed events have burned
\* (register_agent, deregister_agent, slash_reputation_for_guilty_delivery).
THEOREM DepositsAlwaysBacked == Spec => []DepositsBacked
BY Invariant, PTL DEF Inv

\* The score of an agent is at most one star for every giver plus one for every
\* cooldown that has passed, in any order of give_star, remove_star, penalties,
\* removal and registration under the same DID.
THEOREM ReputationAlwaysBounded == Spec => []ReputationBounded
<1>1. Inv => ReputationBounded
  BY ScoreInvBounds, Zenon DEF Inv, TypeOK
<1> QED BY <1>1, Invariant, PTL
=============================================================================
