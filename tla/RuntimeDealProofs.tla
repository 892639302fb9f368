------------------------- MODULE RuntimeDealProofs -------------------------
(***************************************************************************)
(* Runtime is type correct, and in it a commitment, its escrow and its     *)
(* records always agree, for any accounts, agents, offers and parameters.  *)
(*                                                                         *)
(* EscrowBacksDeal is not inductive: expire_commitment leaves escrows whose*)
(* commitment is gone, and only NoIdReuse keeps a later commitment from    *)
(* meeting one; resolution relies on the dispute record that               *)
(* RecordsMatchStatus provides.                                            *)
(***************************************************************************)
EXTENDS Runtime, AgentRegistryProofs

-----------------------------------------------------------------------------
(***************************************************************************)
(* Types.                                                                  *)
(***************************************************************************)
\* The part of TypeOK that the vector-db and escrow pallets write.
DealTypeOK ==
    /\ EscrowTypeOK(CommitmentId)
    /\ IsMap(VectorCommitments, CommitmentId, VectorCommitment)
    /\ ActiveCommitmentCount \in Nat
    /\ IsMap(StreamReceipts, CommitmentId, StreamReceipt)
    /\ IsMap(DisputeRecords, CommitmentId, DisputeRecord)

LEMMA SetStatusType ==
    ASSUME TypeOK, NEW id \in DOMAIN VectorCommitments, NEW status \in CommitmentStatus
    PROVE  IsMap(SetStatus(id, status), CommitmentId, VectorCommitment)
BY DEF TypeOK, IsMap, SetStatus, VectorCommitment

LEMMA CountDownType == ASSUME TypeOK, CountDown PROVE ActiveCommitmentCount' \in Nat
BY DEF TypeOK, CountDown, saturating_sub

LEMMA ReleaseType ==
    ASSUME TypeOK, NEW id, release(id)
    PROVE  EscrowTypeOK(CommitmentId)' /\ balances' \in Ledger
<1>1. Escrows[id] \in EscrowRecord /\ id \in DOMAIN Escrows
  BY Zenon DEF release, IsLocked, TypeOK, EscrowTypeOK, IsMap
<1>2. balances' \in Ledger
  BY <1>1, RepatriateType, Zenon DEF release, TypeOK, EscrowRecord
<1>3. EscrowTypeOK(CommitmentId)'
  BY <1>1, Zenon DEF release, TypeOK, EscrowTypeOK, IsMap, EscrowRecord, EscrowStatus
<1> QED BY <1>2, <1>3, Zenon

LEMMA RefundType ==
    ASSUME TypeOK, NEW id, refund(id)
    PROVE  EscrowTypeOK(CommitmentId)' /\ RefundLedger(id) \in Ledger
<1>1. Escrows[id] \in EscrowRecord /\ id \in DOMAIN Escrows
  BY Zenon DEF refund, IsLocked, TypeOK, EscrowTypeOK, IsMap
<1>2. RefundLedger(id) \in Ledger
  BY <1>1, UnreserveType, Zenon DEF RefundLedger, TypeOK, EscrowRecord
<1>3. EscrowTypeOK(CommitmentId)'
  BY <1>1, Zenon DEF refund, TypeOK, EscrowTypeOK, IsMap, EscrowRecord, EscrowStatus
<1> QED BY <1>2, <1>3, Zenon

LEMMA ResolveType ==
    ASSUME TypeOK, NEW id \in DOMAIN VectorCommitments, NEW verdict \in DisputeVerdict,
           Resolve(id, verdict)
    PROVE  /\ IsMap(VectorCommitments, CommitmentId, VectorCommitment)'
           /\ ActiveCommitmentCount' \in Nat
           /\ IsMap(StreamReceipts, CommitmentId, StreamReceipt)'
           /\ IsMap(DisputeRecords, CommitmentId, DisputeRecord)'
<1>1. IsMap(VectorCommitments, CommitmentId, VectorCommitment)'
  BY SetStatusType, Zenon DEF Resolve, CommitmentStatus
<1>2. IsMap(DisputeRecords, CommitmentId, DisputeRecord)'
  BY ZenonT(20) DEF Resolve, TypeOK, IsMap, DisputeRecord
<1> QED BY <1>1, <1>2, CountDownType, Zenon DEF Resolve, TypeOK

LEMMA WindowType == effective_dispute_window \in Nat
BY VectorDbAssumption, Zenon DEF effective_dispute_window, NoOverride

LEMMA RegisterCommitmentType ==
    ASSUME TypeOK, NEW caller \in Account, NEW o \in Offer, register_commitment(caller, o)
    PROVE  DealTypeOK'
<1> DEFINE row == [provider |-> o.provider, consumer |-> o.consumer,
                   merkle_root |-> o.merkle_root, total_chunks |-> o.total_chunks,
                   status |-> "Pending", created_at |-> block,
                   expires_at |-> block + o.expires_in_blocks, acknowledged_at |-> NoBlock,
                   price |-> o.price]
<1>1. /\ o.provider \in Did /\ o.consumer \in Did /\ o.merkle_root \in MerkleRoot
      /\ o.total_chunks \in Nat /\ o.expires_in_blocks \in Nat /\ o.price \in Nat
  BY VectorDbAssumption, Zenon DEF register_commitment, WellFormed
<1>2. block \in 1..Horizon /\ block \in Nat
  BY HorizonAssumption DEF TypeOK
<1>3. row \in VectorCommitment
  BY <1>1, <1>2 DEF VectorCommitment, CommitmentStatus, NoBlock
<1>4. commitment_id(o) \in CommitmentId
  BY <1>1, <1>2, Zenon DEF commitment_id, CommitmentId
<1>5. IsMap(VectorCommitments, CommitmentId, VectorCommitment)'
  BY <1>3, <1>4, PutType, Zenon DEF register_commitment, TypeOK
<1> QED BY <1>5 DEF register_commitment, TypeOK, DealTypeOK, EscrowTypeOK

LEMMA AcknowledgeType ==
    ASSUME TypeOK, NEW caller \in Account, NEW id \in DOMAIN VectorCommitments,
           acknowledge_commitment(caller, id)
    PROVE  DealTypeOK' /\ balances' \in Ledger
<1> DEFINE payee == AgentProfiles[VectorCommitments[id].provider].controller
           record == [payer |-> caller, payee |-> payee, amount |-> VectorCommitments[id].price,
                      status |-> "Locked", locked_at |-> block]
<1>1. id \in CommitmentId /\ VectorCommitments[id] \in VectorCommitment /\ block \in Nat
  BY HorizonAssumption DEF TypeOK, IsMap
<1>2. payee \in Account
  BY Zenon DEF acknowledge_commitment, Registered, TypeOK, RegistryTypeOK, IsMap, AgentProfile
<1>3. record \in EscrowRecord
  BY <1>1, <1>2, Zenon DEF EscrowRecord, EscrowStatus, VectorCommitment
<1>4. EscrowTypeOK(CommitmentId)'
  BY <1>1, <1>3, PutType, Zenon DEF acknowledge_commitment, lock, TypeOK, EscrowTypeOK
<1>5. balances' \in Ledger
  BY <1>1, ReserveType, Zenon DEF acknowledge_commitment, lock, TypeOK, VectorCommitment
<1>6. IsMap(VectorCommitments, CommitmentId, VectorCommitment)'
  BY <1>1, Zenon DEF acknowledge_commitment, TypeOK, IsMap, VectorCommitment, CommitmentStatus
<1> QED BY <1>4, <1>5, <1>6, Zenon DEF acknowledge_commitment, TypeOK, DealTypeOK

LEMMA CloseType ==
    ASSUME TypeOK, NEW caller, NEW id \in DOMAIN VectorCommitments, NEW h \in MerkleRoot,
           NEW n \in ChunkCount, close_commitment(caller, id, h, n)
    PROVE  DealTypeOK' /\ balances' \in Ledger
<1>1. id \in CommitmentId /\ block \in Nat /\ n \in Nat
  BY HorizonAssumption, VectorDbAssumption DEF TypeOK, IsMap
<1>2. [final_stream_hash |-> h, chunk_count |-> n, submitted_at |-> block] \in StreamReceipt
  BY <1>1, Zenon DEF StreamReceipt
<1>3. IsMap(StreamReceipts, CommitmentId, StreamReceipt)'
  BY <1>1, <1>2, PutType, Zenon DEF close_commitment, TypeOK
<1>4. IsMap(VectorCommitments, CommitmentId, VectorCommitment)'
  BY SetStatusType, Zenon DEF close_commitment, CommitmentStatus
<1> QED BY <1>3, <1>4, ReleaseType, CountDownType, Zenon DEF close_commitment, TypeOK, DealTypeOK

LEMMA RaiseDisputeType ==
    ASSUME TypeOK, NEW caller, NEW id \in DOMAIN VectorCommitments, NEW i \in ChunkIndex,
           raise_dispute(caller, id, i)
    PROVE  DealTypeOK'
<1> DEFINE record == [merkle_root |-> VectorCommitments[id].merkle_root,
                      disputed_chunk_index |-> i, raised_at |-> block,
                      counter_deadline |-> block + effective_dispute_window,
                      verdict |-> NoVerdict]
<1>1. id \in CommitmentId /\ VectorCommitments[id] \in VectorCommitment
      /\ block \in Nat /\ i \in Nat
  BY HorizonAssumption, VectorDbAssumption DEF TypeOK, IsMap
<1>2. record \in DisputeRecord
  BY <1>1, WindowType DEF DisputeRecord, VectorCommitment
<1>3. IsMap(DisputeRecords, CommitmentId, DisputeRecord)'
  BY <1>1, <1>2, PutType, Zenon DEF raise_dispute, TypeOK
<1>4. IsMap(VectorCommitments, CommitmentId, VectorCommitment)'
  BY SetStatusType, Zenon DEF raise_dispute, CommitmentStatus
<1> QED BY <1>3, <1>4, Zenon DEF raise_dispute, TypeOK, DealTypeOK, EscrowTypeOK

LEMMA CounterType ==
    ASSUME TypeOK, NEW caller, NEW id \in DOMAIN VectorCommitments, counter_dispute(caller, id)
    PROVE  DealTypeOK' /\ RegistryTypeOK' /\ balances' \in Ledger
<1>1. EscrowTypeOK(CommitmentId)' /\ balances' \in Ledger
  BY ReleaseType, Zenon DEF counter_dispute
<1>2. RegistryTypeOK'
  BY SlashReputationType, SlashAssumption, Zenon
  DEF counter_dispute, penalize_false_disputer, TypeOK, RegistryTypeOK
<1> QED BY <1>1, <1>2, ResolveType, Zenon DEF counter_dispute, DisputeVerdict, DealTypeOK

LEMMA FinalizeType ==
    ASSUME TypeOK, NEW id \in DOMAIN VectorCommitments, finalize_dispute(id)
    PROVE  DealTypeOK' /\ RegistryTypeOK' /\ balances' \in Ledger
<1>1. EscrowTypeOK(CommitmentId)' /\ RefundLedger(id) \in Ledger
  BY RefundType, Zenon DEF finalize_dispute
<1>2. VectorCommitments[id].provider \in Did
  BY Zenon DEF TypeOK, IsMap, VectorCommitment
<1>3. RegistryTypeOK' /\ balances' \in Ledger
  BY <1>1, <1>2, GuiltyType, SlashAssumption, Zenon DEF finalize_dispute, penalize_provider, TypeOK
<1> QED BY <1>1, <1>3, ResolveType, Zenon DEF finalize_dispute, DisputeVerdict, DealTypeOK

LEMMA ExpireType ==
    ASSUME TypeOK, NEW id, expire_commitment(id)
    PROVE  DealTypeOK'
BY DropType, CountDownType, Zenon DEF expire_commitment, TypeOK, DealTypeOK, EscrowTypeOK

LEMMA TypeInit == Init => TypeOK
<1> SUFFICES ASSUME Init PROVE TypeOK
  BY Zenon
<1>1. block \in 1..Horizon
  BY HorizonAssumption DEF Init, SystemInit
<1>2. balances \in Ledger
  BY BalancesAssumption, Zenon DEF Init, BalancesInit, Ledger
<1>3. RegistryTypeOK
  BY EmptyMapType, Zenon DEF Init, RegistryInit, RegistryTypeOK
<1> QED BY <1>1, <1>2, <1>3, EmptyMapType, Zenon DEF Init, EscrowInit, VectorDbInit, TypeOK, EscrowTypeOK

LEMMA VectorDbType ==
    ASSUME TypeOK, VectorDbCall
    PROVE  DealTypeOK' /\ RegistryTypeOK' /\ balances' \in Ledger
<1>1. ASSUME UNCHANGED registryVars PROVE RegistryTypeOK'
  BY <1>1, Zenon DEF TypeOK, RegistryTypeOK, registryVars, IsMap
<1>2. PICK caller \in Account :
        \/ \E o \in Offer : register_commitment(caller, o)
        \/ \E id \in DOMAIN VectorCommitments :
              \/ acknowledge_commitment(caller, id)
              \/ \E h \in MerkleRoot, n \in ChunkCount : close_commitment(caller, id, h, n)
              \/ \E i \in ChunkIndex : raise_dispute(caller, id, i)
              \/ counter_dispute(caller, id)
              \/ finalize_dispute(id)
              \/ expire_commitment(id)
  BY Zenon DEF VectorDbCall
<1>3. CASE \E o \in Offer : register_commitment(caller, o)
  BY <1>1, <1>3, RegisterCommitmentType, Zenon DEF register_commitment, TypeOK
<1>4. ASSUME NEW id \in DOMAIN VectorCommitments, acknowledge_commitment(caller, id)
      PROVE  DealTypeOK' /\ RegistryTypeOK' /\ balances' \in Ledger
  BY <1>1, <1>4, AcknowledgeType, Zenon DEF acknowledge_commitment
<1>5. ASSUME NEW id \in DOMAIN VectorCommitments, NEW h \in MerkleRoot, NEW n \in ChunkCount,
             close_commitment(caller, id, h, n)
      PROVE  DealTypeOK' /\ RegistryTypeOK' /\ balances' \in Ledger
  BY <1>1, <1>5, CloseType, Zenon DEF close_commitment
<1>6. ASSUME NEW id \in DOMAIN VectorCommitments, NEW i \in ChunkIndex,
             raise_dispute(caller, id, i)
      PROVE  DealTypeOK' /\ RegistryTypeOK' /\ balances' \in Ledger
  BY <1>1, <1>6, RaiseDisputeType, Zenon DEF raise_dispute, TypeOK
<1>7. ASSUME NEW id \in DOMAIN VectorCommitments, expire_commitment(id)
      PROVE  DealTypeOK' /\ RegistryTypeOK' /\ balances' \in Ledger
  BY <1>1, <1>7, ExpireType, Zenon DEF expire_commitment, TypeOK
<1> QED BY <1>2, <1>3, <1>4, <1>5, <1>6, <1>7, CounterType, FinalizeType

LEMMA TypeStep == TypeOK /\ [Next]_vars => TypeOK'
<1> SUFFICES ASSUME TypeOK, [Next]_vars PROVE TypeOK'
  BY Zenon
<1>1. block \in Nat
  BY HorizonAssumption DEF TypeOK
<1>2. ASSUME UNCHANGED <<Escrows, vectorDbVars>> PROVE DealTypeOK'
  BY <1>2, Zenon DEF vectorDbVars, DealTypeOK, TypeOK, EscrowTypeOK, IsMap
<1>3. ASSUME UNCHANGED registryVars PROVE RegistryTypeOK'
  BY <1>3, Zenon DEF TypeOK, RegistryTypeOK, registryVars, IsMap
<1>4. CASE Agents
  BY <1>1, <1>2, <1>4, RegistryType, Zenon DEF Agents, TypeOK, DealTypeOK
<1>5. CASE Deals
  BY <1>5, VectorDbType, Zenon DEF Deals, TypeOK, DealTypeOK
<1>6. CASE Transfers
  BY <1>2, <1>3, <1>6, TransferType DEF Transfers, TypeOK, DealTypeOK
<1>7. CASE NewBlock
  <2>1. block' \in 1..Horizon
    BY <1>7, HorizonAssumption DEF NewBlock, AdvanceBlock, TypeOK
  <2> QED BY <1>2, <1>3, <1>7, <2>1 DEF NewBlock, TypeOK, DealTypeOK
<1>8. CASE UNCHANGED vars
  BY <1>2, <1>3, <1>8, Zenon DEF vars, TypeOK, DealTypeOK
<1> QED BY <1>4, <1>5, <1>6, <1>7, <1>8, Zenon DEF Next

\* Every reachable state is well typed: no balance, counter or score goes below
\* zero, every stored row has its declared shape, and every id is a commitment's.
THEOREM TypeCorrect == Spec => []TypeOK
BY TypeInit, TypeStep, PTL DEF Spec

-----------------------------------------------------------------------------
(***************************************************************************)
(* Commitments, escrows and records.                                       *)
(***************************************************************************)
DealInv == EscrowBacksDeal /\ RecordsMatchStatus /\ NoIdReuse

LEMMA DealInit == Init => DealInv
BY Zenon DEF Init, SystemInit, EscrowInit, VectorDbInit, EmptyMap, DealInv, EscrowBacksDeal,
       RecordsMatchStatus, NoIdReuse, Committed

LEMMA RegisterCommitmentInv ==
    ASSUME TypeOK, DealInv, NEW caller, NEW o \in Offer, register_commitment(caller, o),
           UNCHANGED block
    PROVE  DealInv'
<1> DEFINE cid == commitment_id(o)
<1>1. /\ cid \notin Committed
      /\ Committed' = Committed \cup {cid}
      /\ \A id \in Committed : VectorCommitments'[id] = VectorCommitments[id]
      /\ VectorCommitments'[cid].status = "Pending"
      /\ VectorCommitments'[cid].created_at = block
      /\ VectorCommitments'[cid].expires_at = block + o.expires_in_blocks
  BY Zenon DEF register_commitment, Committed, Put
<1>2. cid[4] = block /\ block \in Nat /\ o.expires_in_blocks \in Nat \ {0}
  BY VectorDbAssumption, HorizonAssumption DEF commitment_id, TypeOK, register_commitment, WellFormed
<1>3. cid \notin DOMAIN Escrows
  BY <1>1, <1>2 DEF DealInv, NoIdReuse
<1>4. UNCHANGED <<Escrows, StreamReceipts, DisputeRecords>>
  BY Zenon DEF register_commitment
<1>5. EscrowBacksDeal'
  BY <1>1, <1>3, <1>4 DEF DealInv, EscrowBacksDeal, StatusOf, EscrowIs, VerdictIs
<1>6. RecordsMatchStatus'
  BY <1>1, <1>4, Zenon DEF DealInv, RecordsMatchStatus, StatusOf, VerdictIs
<1>7. NoIdReuse'
  BY <1>1, <1>2, <1>4 DEF DealInv, NoIdReuse
<1> QED BY <1>5, <1>6, <1>7, Zenon DEF DealInv

LEMMA AcknowledgeInv ==
    ASSUME TypeOK, DealInv, NEW caller, NEW cid \in Committed,
           acknowledge_commitment(caller, cid), UNCHANGED block
    PROVE  DealInv'
<1>1. /\ Committed' = Committed
      /\ \A id \in Committed \ {cid} : VectorCommitments'[id] = VectorCommitments[id]
      /\ VectorCommitments[cid].status = "Pending"
  BY Zenon DEF acknowledge_commitment, InStatus, Committed, TypeOK, IsMap
<1>2. /\ VectorCommitments'[cid].status = "Active"
      /\ VectorCommitments'[cid].acknowledged_at = block
      /\ VectorCommitments'[cid].price = VectorCommitments[cid].price
      /\ VectorCommitments'[cid].created_at = VectorCommitments[cid].created_at
      /\ VectorCommitments'[cid].expires_at = VectorCommitments[cid].expires_at
  <2>1. VectorCommitments[cid] \in VectorCommitment
    BY Zenon DEF Committed, TypeOK, IsMap
  <2> QED BY <2>1, Zenon DEF acknowledge_commitment, Committed, VectorCommitment, TypeOK, IsMap
<1>3. /\ cid \notin DOMAIN Escrows
      /\ DOMAIN Escrows' = DOMAIN Escrows \cup {cid}
      /\ \A id \in DOMAIN Escrows : Escrows'[id] = Escrows[id]
      /\ Escrows'[cid].status = "Locked"
      /\ Escrows'[cid].amount = VectorCommitments[cid].price
      /\ Escrows'[cid].locked_at = block
  BY Zenon DEF acknowledge_commitment, lock, Put
<1>4. UNCHANGED <<StreamReceipts, DisputeRecords>>
  BY Zenon DEF acknowledge_commitment
<1>5. EscrowBacksDeal'
  BY <1>1, <1>2, <1>3, <1>4 DEF DealInv, EscrowBacksDeal, StatusOf, EscrowIs, VerdictIs
<1>6. RecordsMatchStatus'
  BY <1>1, <1>2, <1>4 DEF DealInv, RecordsMatchStatus, StatusOf, VerdictIs
<1>7. NoIdReuse'
  BY <1>1, <1>2, <1>3 DEF DealInv, NoIdReuse
<1> QED BY <1>5, <1>6, <1>7, Zenon DEF DealInv

\* What close, raise, counter and finalize do to the row: its status changes,
\* and nothing else of it or of another row.
LEMMA SetStatusEffect ==
    ASSUME TypeOK, NEW cid \in Committed, NEW status, VectorCommitments' = SetStatus(cid, status)
    PROVE  /\ Committed' = Committed
           /\ \A id \in Committed \ {cid} : VectorCommitments'[id] = VectorCommitments[id]
           /\ VectorCommitments'[cid].status = status
           /\ VectorCommitments'[cid].acknowledged_at = VectorCommitments[cid].acknowledged_at
           /\ VectorCommitments'[cid].price = VectorCommitments[cid].price
           /\ VectorCommitments'[cid].created_at = VectorCommitments[cid].created_at
           /\ VectorCommitments'[cid].expires_at = VectorCommitments[cid].expires_at
<1>1. VectorCommitments[cid] \in VectorCommitment
  BY Zenon DEF Committed, TypeOK, IsMap
<1> QED BY <1>1, Zenon DEF SetStatus, Committed, VectorCommitment, TypeOK, IsMap

\* What release and refund do to the escrow's record.
SettledAs(cid, status) ==
    /\ DOMAIN Escrows' = DOMAIN Escrows
    /\ \A id \in DOMAIN Escrows \ {cid} : Escrows'[id] = Escrows[id]
    /\ Escrows'[cid].status = status
    /\ Escrows'[cid].amount = Escrows[cid].amount
    /\ Escrows'[cid].locked_at = Escrows[cid].locked_at

LEMMA SettleEffect ==
    ASSUME TypeOK, NEW cid
    PROVE  /\ release(cid) => SettledAs(cid, "Released")
           /\ refund(cid) => SettledAs(cid, "Refunded")
<1>1. ASSUME IsLocked(cid), NEW status, Escrows' = [Escrows EXCEPT ![cid].status = status]
      PROVE  SettledAs(cid, status)
  <2>1. Escrows[cid] \in EscrowRecord /\ cid \in DOMAIN Escrows
    BY <1>1, Zenon DEF IsLocked, TypeOK, EscrowTypeOK, IsMap
  <2> QED BY <1>1, <2>1, Zenon DEF EscrowRecord, SettledAs, TypeOK, EscrowTypeOK, IsMap
<1> QED BY <1>1, Zenon DEF release, refund

LEMMA CloseInv ==
    ASSUME TypeOK, DealInv, NEW caller, NEW cid \in Committed, NEW h, NEW n,
           close_commitment(caller, cid, h, n), UNCHANGED block
    PROVE  DealInv'
<1>1. StatusOf(cid) = "Active" /\ VectorCommitments' = SetStatus(cid, "Settled")
  BY Zenon DEF close_commitment, InStatus, StatusOf
<1>2. SettledAs(cid, "Released")
  BY SettleEffect, Zenon DEF close_commitment
<1>3. /\ DOMAIN StreamReceipts' = DOMAIN StreamReceipts \cup {cid}
      /\ UNCHANGED DisputeRecords
  BY Zenon DEF close_commitment, Put
<1>4. EscrowBacksDeal'
  BY <1>1, <1>2, <1>3, SetStatusEffect
  DEF SettledAs, DealInv, EscrowBacksDeal, StatusOf, EscrowIs, VerdictIs
<1>5. RecordsMatchStatus'
  BY <1>1, <1>3, SetStatusEffect DEF DealInv, RecordsMatchStatus, StatusOf, VerdictIs
<1>6. NoIdReuse'
  BY <1>1, <1>2, SetStatusEffect DEF SettledAs, DealInv, NoIdReuse
<1> QED BY <1>4, <1>5, <1>6, Zenon DEF DealInv

LEMMA RaiseDisputeInv ==
    ASSUME TypeOK, DealInv, NEW caller, NEW cid \in Committed, NEW i,
           raise_dispute(caller, cid, i), UNCHANGED block
    PROVE  DealInv'
<1>1. StatusOf(cid) = "Active" /\ VectorCommitments' = SetStatus(cid, "Disputed")
  BY Zenon DEF raise_dispute, InStatus, StatusOf
<1>2. /\ DOMAIN DisputeRecords' = DOMAIN DisputeRecords \cup {cid}
      /\ \A id \in DOMAIN DisputeRecords \ {cid} : DisputeRecords'[id] = DisputeRecords[id]
      /\ DisputeRecords'[cid].verdict = NoVerdict
  BY Zenon DEF raise_dispute, Put
<1>3. UNCHANGED <<Escrows, StreamReceipts>>
  BY Zenon DEF raise_dispute
<1>4. EscrowBacksDeal'
  BY <1>1, <1>2, <1>3, SetStatusEffect DEF DealInv, EscrowBacksDeal, StatusOf, EscrowIs, VerdictIs
<1>5. RecordsMatchStatus'
  BY <1>1, <1>2, <1>3, SetStatusEffect DEF DealInv, RecordsMatchStatus, StatusOf, VerdictIs
<1>6. NoIdReuse'
  BY <1>1, <1>3, SetStatusEffect DEF DealInv, NoIdReuse
<1> QED BY <1>4, <1>5, <1>6, Zenon DEF DealInv

\* The verdict and the move of the money, in one step.
LEMMA ResolveInv ==
    ASSUME TypeOK, DealInv, NEW cid \in Committed, StatusOf(cid) = "Disputed", NEW verdict,
           NEW status,
           \/ verdict = "ClaimantUnsubstantiated" /\ status = "Released"
           \/ verdict = "ProviderGuilty" /\ status = "Refunded",
           Resolve(cid, verdict), SettledAs(cid, status), UNCHANGED block
    PROVE  DealInv'
<1>1. cid \in DOMAIN DisputeRecords /\ VectorCommitments' = SetStatus(cid, "DisputeResolved")
  BY Zenon DEF Resolve, DealInv, RecordsMatchStatus
<1>2. /\ DOMAIN DisputeRecords' = DOMAIN DisputeRecords
      /\ \A id \in DOMAIN DisputeRecords \ {cid} : DisputeRecords'[id] = DisputeRecords[id]
      /\ DisputeRecords'[cid].verdict = verdict
  <2>1. DisputeRecords[cid] \in DisputeRecord
    BY <1>1, Zenon DEF TypeOK, IsMap
  <2> QED BY <1>1, <2>1, Zenon DEF Resolve, TypeOK, IsMap, DisputeRecord
<1>3. UNCHANGED StreamReceipts
  BY Zenon DEF Resolve
<1>4. EscrowBacksDeal'
  BY <1>1, <1>2, SetStatusEffect
  DEF SettledAs, DealInv, EscrowBacksDeal, StatusOf, EscrowIs, VerdictIs
<1>5. RecordsMatchStatus'
  BY <1>1, <1>2, <1>3, SetStatusEffect
  DEF DealInv, RecordsMatchStatus, StatusOf, VerdictIs, NoVerdict
<1>6. NoIdReuse'
  BY <1>1, SetStatusEffect DEF SettledAs, DealInv, NoIdReuse
<1> QED BY <1>4, <1>5, <1>6, Zenon DEF DealInv

LEMMA CounterInv ==
    ASSUME TypeOK, DealInv, NEW caller, NEW cid \in Committed, counter_dispute(caller, cid),
           UNCHANGED block
    PROVE  DealInv'
BY ResolveInv, SettleEffect, Zenon DEF counter_dispute, InStatus, StatusOf

LEMMA FinalizeInv ==
    ASSUME TypeOK, DealInv, NEW cid \in Committed, finalize_dispute(cid), UNCHANGED block
    PROVE  DealInv'
BY ResolveInv, SettleEffect, Zenon DEF finalize_dispute, InStatus, StatusOf

LEMMA ExpireInv ==
    ASSUME TypeOK, DealInv, NEW cid \in Committed, expire_commitment(cid), UNCHANGED block
    PROVE  DealInv'
<1>1. /\ Committed' = Committed \ {cid}
      /\ \A id \in Committed \ {cid} : VectorCommitments'[id] = VectorCommitments[id]
      /\ StatusOf(cid) \in {"Pending", "Active"}
      /\ UNCHANGED <<StreamReceipts, DisputeRecords, Escrows>>
  BY Zenon DEF expire_commitment, Expirable, InStatus, StatusOf, Committed, Drop
<1>2. cid[4] < block
  <2>1. /\ VectorCommitments[cid].expires_at \in Nat /\ VectorCommitments[cid].created_at \in Nat
        /\ block \in Nat
    BY HorizonAssumption DEF Committed, TypeOK, IsMap, VectorCommitment
  <2> QED BY <2>1 DEF expire_commitment, BeforeExpiry, DealInv, NoIdReuse
<1>3. EscrowBacksDeal'
  BY <1>1 DEF DealInv, EscrowBacksDeal, StatusOf, EscrowIs, VerdictIs
<1>4. RecordsMatchStatus'
  BY <1>1, Zenon DEF DealInv, RecordsMatchStatus, StatusOf, VerdictIs
<1>5. NoIdReuse'
  BY <1>1, <1>2, Zenon DEF DealInv, NoIdReuse
<1> QED BY <1>3, <1>4, <1>5, Zenon DEF DealInv

LEMMA DealStep == TypeOK /\ DealInv /\ [Next]_vars => DealInv'
<1> SUFFICES ASSUME TypeOK, DealInv, [Next]_vars PROVE DealInv'
  BY Zenon
<1>1. ASSUME UNCHANGED <<Escrows, vectorDbVars>>, block' = block \/ block' = block + 1
      PROVE  DealInv'
  <2>1. block \in Nat /\ \A id \in DOMAIN Escrows \cup Committed : id[4] \in Nat
    BY HorizonAssumption DEF Committed, TypeOK, EscrowTypeOK, IsMap, CommitmentId
  <2>2. EscrowBacksDeal' /\ RecordsMatchStatus'
    BY <1>1 DEF vectorDbVars, DealInv, EscrowBacksDeal, RecordsMatchStatus, Committed, StatusOf,
                EscrowIs, VerdictIs
  <2>3. NoIdReuse'
    BY <1>1, <2>1 DEF vectorDbVars, DealInv, NoIdReuse, Committed
  <2> QED BY <2>2, <2>3, Zenon DEF DealInv
<1>2. CASE Deals
  BY <1>2, RegisterCommitmentInv, AcknowledgeInv, CloseInv, RaiseDisputeInv, CounterInv,
     FinalizeInv, ExpireInv
  DEF Deals, VectorDbCall, Committed
<1> QED BY <1>1, <1>2, Zenon DEF Next, Agents, Transfers, NewBlock, AdvanceBlock, vars

\* The inductive invariant holds in every reachable state.
THEOREM DealInvariant == Spec => [](TypeOK /\ DealInv)
BY TypeInit, TypeStep, DealInit, DealStep, PTL DEF Spec

\* The commitment's status and its escrow always agree: money is held exactly
\* for the acknowledged deals and has gone where the decision says.
THEOREM EscrowAlwaysBacksDeal == Spec => []EscrowBacksDeal
BY DealInvariant, PTL DEF DealInv

\* Receipts exist exactly for settled deals, dispute records for disputed ones.
THEOREM RecordsAlwaysMatchStatus == Spec => []RecordsMatchStatus
BY DealInvariant, PTL DEF DealInv

\* An id whose commitment has been removed is never given out again.
THEOREM IdsNeverReused == Spec => []NoIdReuse
BY DealInvariant, PTL DEF DealInv

-----------------------------------------------------------------------------
(***************************************************************************)
(* Decisions are final.                                                    *)
(***************************************************************************)
LEMMA DecidedStep == TypeOK /\ DealInv /\ [Next]_vars => [DecidedStays]_vars
<1> SUFFICES ASSUME TypeOK, DealInv, [Next]_vars, NEW id \in Committed \ Open
             PROVE  /\ id \in DOMAIN VectorCommitments'
                    /\ VectorCommitments'[id] = VectorCommitments[id]
                    /\ Escrows'[id] = Escrows[id]
                    /\ id \in DOMAIN DisputeRecords => DisputeRecords'[id] = DisputeRecords[id]
                    /\ id \in DOMAIN StreamReceipts => StreamReceipts'[id] = StreamReceipts[id]
  BY Zenon DEF DecidedStays
<1>1. StatusOf(id) \in {"Settled", "DisputeResolved"} /\ id \in DOMAIN Escrows
  BY Zenon DEF Open, StatusOf, Committed, TypeOK, IsMap, VectorCommitment, CommitmentStatus,
         DealInv, EscrowBacksDeal, EscrowIs
<1>2. ASSUME NEW caller \in Account, NEW o \in Offer, register_commitment(caller, o)
      PROVE  /\ id \in DOMAIN VectorCommitments'
             /\ VectorCommitments'[id] = VectorCommitments[id]
             /\ UNCHANGED <<Escrows, StreamReceipts, DisputeRecords>>
  BY <1>2, Zenon DEF register_commitment, Put, Committed
<1>3. ASSUME NEW cid \in Committed, cid # id, NEW status,
             \/ VectorCommitments' = SetStatus(cid, status)
             \/ VectorCommitments' = Drop(VectorCommitments, cid)
             \/ VectorCommitments' = [VectorCommitments EXCEPT ![cid].status = "Active",
                                                              ![cid].acknowledged_at = block]
      PROVE  id \in DOMAIN VectorCommitments' /\ VectorCommitments'[id] = VectorCommitments[id]
  BY <1>3, Zenon DEF SetStatus, Drop, Committed, TypeOK, IsMap
<1>4. ASSUME NEW caller \in Account, NEW cid \in Committed,
             \/ acknowledge_commitment(caller, cid)
             \/ \E h \in MerkleRoot, n \in ChunkCount : close_commitment(caller, cid, h, n)
             \/ \E i \in ChunkIndex : raise_dispute(caller, cid, i)
             \/ counter_dispute(caller, cid)
             \/ finalize_dispute(cid)
             \/ expire_commitment(cid)
      PROVE  /\ id \in DOMAIN VectorCommitments'
             /\ VectorCommitments'[id] = VectorCommitments[id]
             /\ Escrows'[id] = Escrows[id]
             /\ id \in DOMAIN DisputeRecords => DisputeRecords'[id] = DisputeRecords[id]
             /\ id \in DOMAIN StreamReceipts => StreamReceipts'[id] = StreamReceipts[id]
  <2>1. cid # id
    BY <1>1, <1>4, Zenon DEF acknowledge_commitment, close_commitment, raise_dispute, counter_dispute,
                      finalize_dispute, expire_commitment, Expirable, InStatus, StatusOf
  <2>2. id \in DOMAIN VectorCommitments' /\ VectorCommitments'[id] = VectorCommitments[id]
    BY <1>3, <1>4, <2>1, Zenon
    DEF acknowledge_commitment, close_commitment, raise_dispute, counter_dispute,
        finalize_dispute, expire_commitment, Resolve
  <2>3. Escrows'[id] = Escrows[id]
    BY <1>1, <1>4, <2>1, SettleEffect
    DEF acknowledge_commitment, close_commitment, raise_dispute, counter_dispute,
        finalize_dispute, expire_commitment, SettledAs, lock, Put
  <2>4. /\ id \in DOMAIN DisputeRecords => DisputeRecords'[id] = DisputeRecords[id]
        /\ id \in DOMAIN StreamReceipts => StreamReceipts'[id] = StreamReceipts[id]
    BY <1>4, <2>1, Zenon
    DEF acknowledge_commitment, close_commitment, raise_dispute, counter_dispute,
        finalize_dispute, expire_commitment, Resolve, Put
  <2> QED BY <2>2, <2>3, <2>4, Zenon
<1>5. CASE Deals
  BY <1>2, <1>4, <1>5, Zenon DEF Deals, VectorDbCall, Committed
<1> QED BY <1>5, Zenon DEF Next, Agents, Transfers, NewBlock, vars, vectorDbVars, Committed

\* No step of anybody changes a settled or resolved commitment, its escrow, its
\* receipt or its dispute record.
THEOREM DecisionsAreFinal == Spec => DecidedIsFinal
BY DealInvariant, DecidedStep, PTL DEF Spec, DecidedIsFinal

-----------------------------------------------------------------------------
(***************************************************************************)
(* The life of an escrow record.                                           *)
(***************************************************************************)
LEMMA RecordLifeStep == TypeOK /\ [Next]_vars => [RecordLife]_Escrows
<1> SUFFICES ASSUME TypeOK, [Next]_vars, Escrows' # Escrows PROVE RecordLife
  BY Zenon
<1>1. CASE Deals
  BY <1>1, EntryKeepsLife, ZenonT(30)
  DEF Deals, VectorDbCall, register_commitment, acknowledge_commitment, close_commitment,
      raise_dispute, counter_dispute, finalize_dispute, expire_commitment, EscrowEntry
<1> QED BY <1>1, Zenon DEF Next, Agents, Transfers, NewBlock, vars

\* In the whole runtime the escrow ledger is an audit trail: records are created
\* Locked, leave Locked at most once, and otherwise never change or go.
THEOREM EscrowLedgerIsAudit == Spec => EscrowRecordLife
BY DealInvariant, RecordLifeStep, PTL DEF Spec, EscrowRecordLife

-----------------------------------------------------------------------------
(***************************************************************************)
(* The count of open commitments.                                          *)
(***************************************************************************)
CountInv == IsFiniteSet(Open) /\ CommitmentCountExact

LEMMA CountInit == Init => CountInv
<1> SUFFICES ASSUME Init PROVE CountInv
  OBVIOUS
<1>1. Open = {}
  BY Zenon DEF Init, VectorDbInit, EmptyMap, Open, Committed
<1> QED BY <1>1, FS_EmptySet, Zenon DEF Init, VectorDbInit, CountInv, CommitmentCountExact

\* A decision takes one commitment out of the open population and counts one
\* down, and the subtraction does not saturate.
LEMMA CountsOneOut ==
    ASSUME CountInv, NEW cid \in Open, Open' = Open \ {cid}, CountDown
    PROVE  CountInv'
<1>1. IsFiniteSet(Open') /\ Cardinality(Open') = Cardinality(Open) - 1
  BY FS_RemoveElement, Zenon DEF CountInv
<1>2. Cardinality(Open') \in Nat /\ Cardinality(Open) \in Nat
  BY <1>1, FS_CardinalityType, Zenon DEF CountInv
<1> QED BY <1>1, <1>2 DEF CountInv, CommitmentCountExact, CountDown, saturating_sub

LEMMA DealCountStep ==
    ASSUME TypeOK, DealInv, CountInv, VectorDbCall
    PROVE  CountInv'
<1>1. ASSUME NEW caller \in Account, NEW o \in Offer, register_commitment(caller, o)
      PROVE  CountInv'
  <2>1. PICK cid : cid = commitment_id(o)
    BY Zenon
  <2>2. cid \notin Open /\ Open' = Open \cup {cid}
    BY <1>1, <2>1, Zenon DEF register_commitment, Put, Open, StatusOf, Committed
  <2>3. IsFiniteSet(Open') /\ Cardinality(Open') = Cardinality(Open) + 1
    BY <2>2, FS_AddElement, Zenon DEF CountInv
  <2> QED BY <1>1, <2>3, Zenon DEF register_commitment, CountInv, CommitmentCountExact
<1>2. ASSUME NEW caller, NEW cid \in Committed, acknowledge_commitment(caller, cid)
      PROVE  CountInv'
  <2>1. VectorCommitments[cid] \in VectorCommitment
    BY Zenon DEF Committed, TypeOK, IsMap
  <2>2. /\ Committed' = Committed /\ VectorCommitments'[cid].status = "Active"
        /\ VectorCommitments[cid].status = "Pending"
        /\ \A id \in Committed \ {cid} : VectorCommitments'[id] = VectorCommitments[id]
    BY <1>2, <2>1, Zenon
    DEF acknowledge_commitment, InStatus, Committed, VectorCommitment, TypeOK, IsMap
  <2>3. Open' = Open
    BY <2>2, Zenon DEF Open, StatusOf
  <2> QED BY <1>2, <2>3, Zenon DEF acknowledge_commitment, CountInv, CommitmentCountExact
<1>3. ASSUME NEW caller, NEW cid \in Committed, NEW i, raise_dispute(caller, cid, i)
      PROVE  CountInv'
  <2>1. StatusOf(cid) = "Active" /\ VectorCommitments' = SetStatus(cid, "Disputed")
    BY <1>3, Zenon DEF raise_dispute, InStatus, StatusOf
  <2>2. Open' = Open
    BY <2>1, SetStatusEffect DEF Open, StatusOf
  <2> QED BY <1>3, <2>2, Zenon DEF raise_dispute, CountInv, CommitmentCountExact
<1>4. ASSUME NEW cid \in Open, NEW status \in {"Settled", "DisputeResolved"}, CountDown,
             VectorCommitments' = SetStatus(cid, status)
      PROVE  CountInv'
  <2>1. Open' = Open \ {cid}
    BY <1>4, SetStatusEffect DEF Open, StatusOf
  <2> QED BY <1>4, <2>1, CountsOneOut, Zenon
<1>5. ASSUME NEW caller, NEW cid \in Committed, NEW h, NEW n, close_commitment(caller, cid, h, n)
      PROVE  CountInv'
  BY <1>4, <1>5, Zenon DEF close_commitment, InStatus, Open, StatusOf
<1>6. ASSUME NEW caller, NEW cid \in Committed,
             counter_dispute(caller, cid) \/ finalize_dispute(cid)
      PROVE  CountInv'
  BY <1>4, <1>6, Zenon DEF counter_dispute, finalize_dispute, Resolve, InStatus, Open, StatusOf
<1>7. ASSUME NEW cid \in Committed, expire_commitment(cid)
      PROVE  CountInv'
  <2>1. cid \in Open /\ Open' = Open \ {cid}
    BY <1>7, Zenon DEF expire_commitment, Expirable, InStatus, Drop, Open, StatusOf, Committed
  <2> QED BY <1>7, <2>1, CountsOneOut, Zenon DEF expire_commitment
<1> QED BY <1>1, <1>2, <1>3, <1>5, <1>6, <1>7 DEF VectorDbCall, Committed

LEMMA CountStep == TypeOK /\ DealInv /\ CountInv /\ [Next]_vars => CountInv'
<1> SUFFICES ASSUME TypeOK, DealInv, CountInv, [Next]_vars PROVE CountInv'
  BY Zenon
<1>1. ASSUME UNCHANGED vectorDbVars PROVE CountInv'
  BY <1>1, Zenon DEF vectorDbVars, CountInv, CommitmentCountExact, Open, Committed, StatusOf
<1> QED BY <1>1, DealCountStep, Zenon DEF Next, Agents, Deals, Transfers, NewBlock, vars

\* ActiveCommitmentCount is the number of undecided commitments.
THEOREM CommitmentCountCorrect == Spec => []CommitmentCountExact
<1>1. Spec => []CountInv
  BY CountInit, CountStep, DealInvariant, PTL DEF Spec
<1> QED BY <1>1, PTL DEF CountInv
=============================================================================
