------------------------------ MODULE Runtime ------------------------------
(***************************************************************************)
(* The ArthNeura runtime: the registry, vector-db and escrow pallets wired *)
(* together over one balances ledger.  Signed extrinsics of any account, in*)
(* any order, interleave with the production of blocks.                    *)
(***************************************************************************)
EXTENDS VectorDb

vars == <<block, balances, Escrows, registryVars, vectorDbVars>>

Init ==
    /\ SystemInit
    /\ BalancesInit
    /\ EscrowInit
    /\ RegistryInit
    /\ VectorDbInit

Agents == RegistryCall /\ UNCHANGED <<block, Escrows, vectorDbVars>>

Deals == VectorDbCall /\ UNCHANGED block

Transfers ==
    /\ \E from, to \in Account : transfer_all(from, to)
    /\ UNCHANGED <<block, Escrows, registryVars, vectorDbVars>>

NewBlock == AdvanceBlock /\ UNCHANGED <<balances, Escrows, registryVars, vectorDbVars>>

Next == Agents \/ Deals \/ Transfers \/ NewBlock

Spec == Init /\ [][Next]_vars

(***************************************************************************)
(* Blocks keep coming, and the two permissionless clean-up extrinsics are  *)
(* submitted by somebody as long as they would succeed.  Nothing is assumed*)
(* of the parties to a deal.                                               *)
(***************************************************************************)
Finalize == \E id \in DOMAIN VectorCommitments : finalize_dispute(id) /\ UNCHANGED block

Expire == \E id \in DOMAIN VectorCommitments : expire_commitment(id) /\ UNCHANGED block

FairSpec == Spec /\ WF_vars(NewBlock) /\ WF_vars(Finalize) /\ WF_vars(Expire)

-----------------------------------------------------------------------------
TypeOK ==
    /\ block \in 1..Horizon
    /\ balances \in Ledger
    /\ EscrowTypeOK(CommitmentId)
    /\ RegistryTypeOK
    /\ IsMap(VectorCommitments, CommitmentId, VectorCommitment)
    /\ ActiveCommitmentCount \in Nat
    /\ IsMap(StreamReceipts, CommitmentId, StreamReceipt)
    /\ IsMap(DisputeRecords, CommitmentId, DisputeRecord)

Committed == DOMAIN VectorCommitments

StatusOf(id) == VectorCommitments[id].status

(***************************************************************************)
(* The commitment and its escrow, kept by two pallets, always agree: no    *)
(* money is held for an offer, an acknowledged deal holds exactly its price*)
(* since its acknowledgement, a settled one has paid, and a resolved one   *)
(* has paid or refunded as its verdict says.  So none of the escrow's      *)
(* errors can fail a close, a counter or a permissionless finalisation     *)
(* (vector-db lib.rs:590-600, 665, 847, 899).                              *)
(***************************************************************************)
EscrowIs(id, status) ==
    /\ id \in DOMAIN Escrows
    /\ Escrows[id].status = status
    /\ Escrows[id].amount = VectorCommitments[id].price
    /\ Escrows[id].locked_at = VectorCommitments[id].acknowledged_at

VerdictIs(id, verdict) == id \in DOMAIN DisputeRecords /\ DisputeRecords[id].verdict = verdict

EscrowBacksDeal ==
    \A id \in Committed :
        /\ StatusOf(id) = "Pending" => id \notin DOMAIN Escrows
        /\ StatusOf(id) \in {"Active", "Disputed"} => EscrowIs(id, "Locked")
        /\ StatusOf(id) = "Settled" => EscrowIs(id, "Released")
        /\ StatusOf(id) = "DisputeResolved" =>
              \/ VerdictIs(id, "ClaimantUnsubstantiated") /\ EscrowIs(id, "Released")
              \/ VerdictIs(id, "ProviderGuilty") /\ EscrowIs(id, "Refunded")

\* A receipt exists exactly for the settled deals ("an active dispute must
\* never write a receipt", lib.rs:734-738), a dispute record exactly for the
\* deals that were disputed, with no verdict until they are resolved.
RecordsMatchStatus ==
    /\ DOMAIN StreamReceipts = {id \in Committed : StatusOf(id) = "Settled"}
    /\ DOMAIN DisputeRecords = {id \in Committed : StatusOf(id) \in {"Disputed", "DisputeResolved"}}
    /\ \A id \in DOMAIN DisputeRecords :
          VerdictIs(id, NoVerdict) <=> StatusOf(id) = "Disputed"

\* An escrow whose commitment has been removed belongs to an earlier block, so
\* a new commitment, whose id holds the current block, never meets an old
\* escrow and acknowledging it never fails with EscrowAlreadyExists
\* (escrow lib.rs:167-169, vector-db lib.rs:510-522).
NoIdReuse ==
    /\ \A id \in DOMAIN Escrows \ Committed : id[4] < block
    /\ \A id \in Committed : /\ VectorCommitments[id].created_at = id[4]
                             /\ id[4] <= block
                             /\ id[4] < VectorCommitments[id].expires_at

Open == {id \in Committed : StatusOf(id) \in {"Pending", "Active", "Disputed"}}

\* ActiveCommitmentCount is the number of commitments still to be decided: no
\* ending counts one out twice, which saturating_sub would hide (lib.rs:541,
\* 663, 845, 897, 944).
CommitmentCountExact == ActiveCommitmentCount = Cardinality(Open)

\* A decision is for ever: no later call, of any party and after any change to
\* the registry, alters a settled or resolved commitment, its receipt, its
\* dispute record or its escrow, or takes it out of storage (lib.rs:927-933).
DecidedStays ==
    \A id \in Committed \ Open :
        /\ id \in DOMAIN VectorCommitments'
        /\ VectorCommitments'[id] = VectorCommitments[id]
        /\ Escrows'[id] = Escrows[id]
        /\ id \in DOMAIN DisputeRecords => DisputeRecords'[id] = DisputeRecords[id]
        /\ id \in DOMAIN StreamReceipts => StreamReceipts'[id] = StreamReceipts[id]

DecidedIsFinal == [][DecidedStays]_vars

-----------------------------------------------------------------------------
(***************************************************************************)
(* Refinement: the phase of a deal is read from the vector-db pallet, and  *)
(* the whereabouts of its money from the escrow pallet.                    *)
(***************************************************************************)
PhaseOf(id) ==
    IF id \notin Committed THEN IF id \in DOMAIN Escrows THEN "Abandoned" ELSE "Absent"
    ELSE IF StatusOf(id) = "Pending" THEN "Offered"
    ELSE IF StatusOf(id) = "Active" THEN "Funded"
    ELSE IF StatusOf(id) = "Disputed" THEN "Contested"
    ELSE IF StatusOf(id) = "DisputeResolved" /\ VerdictIs(id, "ProviderGuilty") THEN "Returned"
    ELSE "Paid"

MoneyOf(id) ==
    IF id \notin DOMAIN Escrows THEN "none"
    ELSE IF Escrows[id].status = "Locked" THEN "held"
    ELSE IF Escrows[id].status = "Released" THEN "paid"
    ELSE "returned"

D == INSTANCE Deal WITH Id <- CommitmentId,
                        phase <- [id \in CommitmentId |-> PhaseOf(id)],
                        money <- [id \in CommitmentId |-> MoneyOf(id)]

\* The runtime implements Deal: every extrinsic is one move of one deal, with
\* status and money changing together, or touches no deal at all.
ImplementsDeal == D!Spec

-----------------------------------------------------------------------------
(***************************************************************************)
(* Liveness, under FairSpec and as far as the explored blocks reach.       *)
(***************************************************************************)
Overdue(id) == id \in Committed /\ StatusOf(id) = "Disputed"
                                /\ DisputeRecords[id].counter_deadline < Horizon

\* Every dispute is resolved, with a verdict and its money moved, whatever the
\* parties, their registrations and their balances do: nothing can keep the
\* permissionless finalize_dispute from succeeding (lib.rs:66-79, 861-909).
DisputesResolve ==
    \A id \in CommitmentId :
        Overdue(id) ~> id \in Committed /\ StatusOf(id) = "DisputeResolved"

\* Every commitment leaves the open population: by the end of its lifetime and
\* of the window of a dispute raised in its last block, it is decided or its
\* storage is reclaimed (lib.rs:911-948).
OpenDealsEnd ==
    \A id \in CommitmentId :
        id \in Open /\ VectorCommitments[id].expires_at + effective_dispute_window <= Horizon
            ~> id \notin Open
=============================================================================
