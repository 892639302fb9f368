------------------------------ MODULE VectorDb ------------------------------
(***************************************************************************)
(* pallet-vector-db: Merkle-root commitments between a provider and a      *)
(* consumer, their settlement, and the adjudication of disputes.           *)
(*                                                                         *)
(* A commitment id is the hash of provider, consumer, root and block; it is*)
(* modelled by that tuple, so distinct preimages have distinct ids.        *)
(* Metadata and the received chunk hash, which no handler reads, are left  *)
(* out.                                                                    *)
(***************************************************************************)
EXTENDS Adapters

CONSTANTS MerkleRoot, ZeroRoot,    \* ZeroRoot is [0u8; 32]
          Offer,                   \* the arguments register_commitment is called with
          Provable,                \* <<root, total_chunks, index>> with a verifying chunk and proof
          ChunkIndex,              \* the chunk indices consumers dispute
          ChunkCount,              \* the chunk counts consumers report
          DisputeWindow,
          DisputeWindowOverride,   \* set at genesis, or NoOverride
          MaxCommitmentLifetime,
          MaxCommitments           \* bound: commitments in storage at once

NoOverride == -1        \* DisputeWindowOverride = None

ASSUME VectorDbAssumption ==
    /\ Offer \subseteq [provider : Did, consumer : Did, merkle_root : MerkleRoot \cup {ZeroRoot},
                        total_chunks : Nat, expires_in_blocks : Nat, price : Nat]
    /\ ChunkIndex \subseteq Nat /\ ChunkCount \subseteq Nat
    /\ DisputeWindow \in Nat /\ DisputeWindowOverride \in Nat \cup {NoOverride}
    /\ MaxCommitmentLifetime \in Nat /\ MaxCommitments \in Nat

VARIABLES VectorCommitments,       \* StorageMap CommitmentId -> VectorCommitment
          ActiveCommitmentCount,
          StreamReceipts,          \* StorageMap CommitmentId -> StreamReceipt
          DisputeRecords           \* StorageMap CommitmentId -> DisputeRecord

vectorDbVars == <<VectorCommitments, ActiveCommitmentCount, StreamReceipts, DisputeRecords>>

\* The enum's sixth variant, Expired, is never stored: expiry removes the record.
CommitmentStatus == {"Pending", "Active", "Settled", "Disputed", "DisputeResolved"}

DisputeVerdict == {"ProviderGuilty", "ClaimantUnsubstantiated"}

NoVerdict == "None"

NoBlock == 0        \* acknowledged_at = None

CommitmentId == Did \X Did \X MerkleRoot \X (1..Horizon)

VectorCommitment == [provider : Did, consumer : Did, merkle_root : MerkleRoot,
                     total_chunks : Nat, status : CommitmentStatus, created_at : Nat,
                     expires_at : Nat, acknowledged_at : Nat, price : Nat]

StreamReceipt == [final_stream_hash : MerkleRoot, chunk_count : Nat, submitted_at : Nat]

DisputeRecord == [merkle_root : MerkleRoot, disputed_chunk_index : Nat, raised_at : Nat,
                  counter_deadline : Nat, verdict : DisputeVerdict \cup {NoVerdict}]

VectorDbInit ==
    /\ VectorCommitments = EmptyMap
    /\ ActiveCommitmentCount = 0
    /\ StreamReceipts = EmptyMap
    /\ DisputeRecords = EmptyMap

-----------------------------------------------------------------------------
\* Mutant: the block is not part of the preimage.
commitment_id_blockless(o) == <<o.provider, o.consumer, o.merkle_root, 1>>

commitment_id(o) == <<o.provider, o.consumer, o.merkle_root, block>>

\* Mutant: the zero root is accepted.
WellFormed_zero(o) ==
    /\ o.provider # o.consumer
    /\ o.total_chunks > 0
    /\ o.expires_in_blocks \in 1..MaxCommitmentLifetime

\* Mutant: an expiry in the current block is accepted.
WellFormed_instant(o) ==
    /\ o.provider # o.consumer
    /\ o.total_chunks > 0
    /\ o.merkle_root # ZeroRoot
    /\ o.expires_in_blocks <= MaxCommitmentLifetime

\* The checks of register_commitment on its arguments alone.
WellFormed(o) ==
    /\ o.provider # o.consumer                                 \* SelfTrade
    /\ o.total_chunks > 0                                      \* TotalChunksMustBePositive
    /\ o.merkle_root # ZeroRoot                                \* InvalidMerkleRoot
    /\ o.expires_in_blocks > 0                                 \* ExpiryMustBePositive
    /\ o.expires_in_blocks <= MaxCommitmentLifetime            \* ExpiryTooFar

register_commitment(caller, o) ==
    /\ Cardinality(DOMAIN VectorCommitments) < MaxCommitments
    /\ WellFormed(o)
    /\ controlled_by(o.provider, caller)                       \* ProviderNotEligible, NotProvider
    /\ is_active_verified(o.provider)                          \* ProviderNotEligible
    /\ is_active_verified(o.consumer)                          \* ConsumerNotEligible
    /\ commitment_id(o) \notin DOMAIN VectorCommitments        \* CommitmentAlreadyExists
    /\ VectorCommitments' = Put(VectorCommitments, commitment_id(o),
          [provider |-> o.provider, consumer |-> o.consumer, merkle_root |-> o.merkle_root,
           total_chunks |-> o.total_chunks, status |-> "Pending", created_at |-> block,
           expires_at |-> block + o.expires_in_blocks, acknowledged_at |-> NoBlock,
           price |-> o.price])
    /\ ActiveCommitmentCount' = ActiveCommitmentCount + 1
    /\ UNCHANGED <<StreamReceipts, DisputeRecords, Escrows, balances, registryVars>>

\* A commitment in the given status (CommitmentNotFound, NotPending, NotActive, NotDisputed).
InStatus(id, status) ==
    id \in DOMAIN VectorCommitments /\ VectorCommitments[id].status = status

BeforeExpiry(id) == block < VectorCommitments[id].expires_at   \* CommitmentExpiredError

\* NotConsumer, ConsumerNotEligible; the DID argument must be the consumer's.
CalledByConsumer(caller, id) ==
    /\ controlled_by(VectorCommitments[id].consumer, caller)
    /\ is_active_verified(VectorCommitments[id].consumer)

SetStatus(id, status) == [VectorCommitments EXCEPT ![id].status = status]

\* The commitment leaves the open population.
CountDown == ActiveCommitmentCount' = saturating_sub(ActiveCommitmentCount, 1)

acknowledge_commitment(caller, id) ==
    /\ InStatus(id, "Pending")
    /\ BeforeExpiry(id)
    /\ CalledByConsumer(caller, id)
    /\ VectorCommitments[id].provider \in Registered           \* ProviderNotEligible
    /\ lock(id, caller, AgentProfiles[VectorCommitments[id].provider].controller,
            VectorCommitments[id].price)
    /\ VectorCommitments' = [VectorCommitments EXCEPT ![id].status = "Active",
                                                      ![id].acknowledged_at = block]
    /\ UNCHANGED <<ActiveCommitmentCount, StreamReceipts, DisputeRecords, registryVars>>

close_commitment(caller, id, final_stream_hash, chunk_count) ==
    /\ InStatus(id, "Active")
    /\ BeforeExpiry(id)
    /\ CalledByConsumer(caller, id)
    /\ final_stream_hash = VectorCommitments[id].merkle_root   \* StreamHashMismatch
    /\ StreamReceipts' = Put(StreamReceipts, id,
          [final_stream_hash |-> final_stream_hash, chunk_count |-> chunk_count,
           submitted_at |-> block])
    /\ VectorCommitments' = SetStatus(id, "Settled")
    /\ CountDown
    /\ release(id)
    /\ UNCHANGED <<DisputeRecords, registryVars>>

effective_dispute_window ==
    IF DisputeWindowOverride = NoOverride THEN DisputeWindow ELSE DisputeWindowOverride

raise_dispute(caller, id, disputed_chunk_index) ==
    /\ InStatus(id, "Active")
    /\ BeforeExpiry(id)
    /\ CalledByConsumer(caller, id)
    /\ id \notin DOMAIN DisputeRecords                         \* DisputeAlreadyRaised
    /\ disputed_chunk_index < VectorCommitments[id].total_chunks  \* ChunkIndexOutOfBounds
    /\ DisputeRecords' = Put(DisputeRecords, id,
          [merkle_root |-> VectorCommitments[id].merkle_root,
           disputed_chunk_index |-> disputed_chunk_index, raised_at |-> block,
           counter_deadline |-> block + effective_dispute_window, verdict |-> NoVerdict])
    /\ VectorCommitments' = SetStatus(id, "Disputed")
    /\ UNCHANGED <<ActiveCommitmentCount, StreamReceipts, Escrows, balances, registryVars>>

\* MerkleProof::verify for the disputed chunk: whether a chunk and a proof that
\* verify exist is a matter of the committed root.
ProofVerifies(id) ==
    <<VectorCommitments[id].merkle_root, VectorCommitments[id].total_chunks,
      DisputeRecords[id].disputed_chunk_index>> \in Provable

WithinWindow(id) == block <= DisputeRecords[id].counter_deadline   \* DisputeWindowExpired

WindowOver(id) == block > DisputeRecords[id].counter_deadline      \* DisputeWindowStillOpen

\* Mutant: a resolved dispute stays in the count.
Resolve_uncounted(id, verdict) ==
    /\ DisputeRecords' = [DisputeRecords EXCEPT ![id].verdict = verdict]
    /\ VectorCommitments' = SetStatus(id, "DisputeResolved")
    /\ UNCHANGED <<ActiveCommitmentCount, StreamReceipts>>

Resolve(id, verdict) ==
    /\ DisputeRecords' = [DisputeRecords EXCEPT ![id].verdict = verdict]
    /\ VectorCommitments' = SetStatus(id, "DisputeResolved")
    /\ CountDown
    /\ UNCHANGED StreamReceipts

counter_dispute(caller, id) ==
    /\ InStatus(id, "Disputed")
    /\ controlled_by(VectorCommitments[id].provider, caller)   \* ProviderNotEligible, NotProvider
    /\ is_active_verified(VectorCommitments[id].provider)      \* ProviderNotEligible
    /\ id \in DOMAIN DisputeRecords                            \* CommitmentNotFound
    /\ WithinWindow(id)
    /\ DisputeRecords[id].disputed_chunk_index
          < VectorCommitments[id].total_chunks                 \* ChunkIndexOutOfBounds
    /\ ProofVerifies(id)                                       \* InvalidMerkleProof
    /\ Resolve(id, "ClaimantUnsubstantiated")
    /\ release(id)
    /\ penalize_false_disputer(VectorCommitments[id].consumer)

\* Signed by anyone.
finalize_dispute(id) ==
    /\ InStatus(id, "Disputed")
    /\ id \in DOMAIN DisputeRecords                            \* CommitmentNotFound
    /\ WindowOver(id)
    /\ Resolve(id, "ProviderGuilty")
    /\ refund(id)
    /\ penalize_provider(VectorCommitments[id].provider, RefundLedger(id))

\* Mutant: any commitment can be reclaimed.
Expirable_any(id) == id \in DOMAIN VectorCommitments

\* Mutant: only unacknowledged commitments can be reclaimed.
Expirable_pending(id) == InStatus(id, "Pending")

Expirable(id) == InStatus(id, "Pending") \/ InStatus(id, "Active")

\* Signed by anyone.  The record is removed; nothing is said to the escrow.
expire_commitment(id) ==
    /\ Expirable(id)                                           \* AlreadyFinalized
    /\ ~BeforeExpiry(id)                                       \* NotYetExpired
    /\ VectorCommitments' = Drop(VectorCommitments, id)
    /\ CountDown
    /\ UNCHANGED <<StreamReceipts, DisputeRecords, Escrows, balances, registryVars>>

-----------------------------------------------------------------------------
\* A signed extrinsic of this pallet.
VectorDbCall ==
    \E caller \in Account :
        \/ \E o \in Offer : register_commitment(caller, o)
        \/ \E id \in DOMAIN VectorCommitments :
              \/ acknowledge_commitment(caller, id)
              \/ \E h \in MerkleRoot, n \in ChunkCount : close_commitment(caller, id, h, n)
              \/ \E i \in ChunkIndex : raise_dispute(caller, id, i)
              \/ counter_dispute(caller, id)
              \/ finalize_dispute(id)
              \/ expire_commitment(id)
=============================================================================
