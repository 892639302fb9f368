------------------------------- MODULE Escrow -------------------------------
(***************************************************************************)
(* pallet-escrow: one record per deal, and three internal entry points     *)
(* (not extrinsics) that lock, release or refund the payer's funds.        *)
(*                                                                         *)
(* Each entry point returns a Result that the caller propagates with `?',  *)
(* so its checks are guards of the calling extrinsic.                      *)
(***************************************************************************)
EXTENDS Balances, Functions

VARIABLE Escrows        \* StorageMap EscrowId -> EscrowRecord

EscrowStatus == {"Locked", "Released", "Refunded"}

EscrowRecord == [payer : Account, payee : Account, amount : Nat,
                 status : EscrowStatus, locked_at : Nat]

EscrowInit == Escrows = EmptyMap

IsLocked(escrow_id) ==
    escrow_id \in DOMAIN Escrows /\ Escrows[escrow_id].status = "Locked"

\* Mutant: funds the payer does not have.
lock_unfunded(escrow_id, payer, payee, amount) ==
    /\ escrow_id \notin DOMAIN Escrows
    /\ balances' = Reserve(balances, payer, amount)
    /\ Escrows' = Put(Escrows, escrow_id,
                      [payer |-> payer, payee |-> payee, amount |-> amount,
                       status |-> "Locked", locked_at |-> block])

\* Mutant: an id may be locked again.
lock_again(escrow_id, payer, payee, amount) ==
    /\ CanReserve(balances, payer, amount)
    /\ balances' = Reserve(balances, payer, amount)
    /\ Escrows' = Put(Escrows, escrow_id,
                      [payer |-> payer, payee |-> payee, amount |-> amount,
                       status |-> "Locked", locked_at |-> block])

lock(escrow_id, payer, payee, amount) ==
    /\ escrow_id \notin DOMAIN Escrows                    \* EscrowAlreadyExists
    /\ CanReserve(balances, payer, amount)                \* InsufficientBalanceForEscrow
    /\ balances' = Reserve(balances, payer, amount)
    /\ Escrows' = Put(Escrows, escrow_id,
                      [payer |-> payer, payee |-> payee, amount |-> amount,
                       status |-> "Locked", locked_at |-> block])

\* repatriate_reserved reports what it could not move; the code drops that
\* remainder and records the escrow as Released.
release(escrow_id) ==
    /\ IsLocked(escrow_id)                                \* EscrowNotFound, EscrowNotLocked
    /\ LET record == Escrows[escrow_id] IN
       /\ CanRepatriate(balances, record.payer, record.payee, record.amount)
       /\ balances' = RepatriateReserved(balances, record.payer, record.payee, record.amount)
    /\ Escrows' = [Escrows EXCEPT ![escrow_id].status = "Released"]

\* Mutant: the payee's reserve is returned.
RefundLedger_payee(escrow_id) ==
    Unreserve(balances, Escrows[escrow_id].payee, Escrows[escrow_id].amount)

\* The ledger after the unreserve of refund.  It is not primed here because
\* finalize_dispute goes on to slash from it.
RefundLedger(escrow_id) ==
    Unreserve(balances, Escrows[escrow_id].payer, Escrows[escrow_id].amount)

\* Mutant: a settled escrow is refunded.
refund_settled(escrow_id) ==
    /\ escrow_id \in DOMAIN Escrows
    /\ Escrows' = [Escrows EXCEPT ![escrow_id].status = "Refunded"]

refund(escrow_id) ==
    /\ IsLocked(escrow_id)                                \* EscrowNotFound, EscrowNotLocked
    /\ Escrows' = [Escrows EXCEPT ![escrow_id].status = "Refunded"]

-----------------------------------------------------------------------------
(***************************************************************************)
(* What any caller can rely on.                                            *)
(***************************************************************************)
EscrowTypeOK(Id) == IsMap(Escrows, Id, EscrowRecord)

LockedFrom(a) == {id \in DOMAIN Escrows : Escrows[id].payer = a /\ IsLocked(id)}

\* The amounts of the records that are Locked on payer a.
LockedOn(a) == SumFunctionOnSet([id \in DOMAIN Escrows |-> Escrows[id].amount], LockedFrom(a))

RecordLife ==
    /\ DOMAIN Escrows \subseteq DOMAIN Escrows'
    /\ \A id \in DOMAIN Escrows' \ DOMAIN Escrows : Escrows'[id].status = "Locked"
    /\ \A id \in DOMAIN Escrows :
          \/ Escrows'[id] = Escrows[id]
          \/ /\ Escrows[id].status = "Locked"
             /\ \E s \in {"Released", "Refunded"} :
                   Escrows'[id] = [Escrows[id] EXCEPT !.status = s]

\* The escrow ledger is an audit trail (lib.rs:59-61, 128-134): records are
\* created Locked, are never removed, keep their payer, payee, amount and lock
\* block for ever, and leave Locked at most once.
EscrowRecordLife == [][RecordLife]_Escrows

\* The step of escrow id from Locked to s.
Settles(id, s) ==
    /\ id \in DOMAIN Escrows /\ Escrows[id].status = "Locked"
    /\ Escrows'[id].status = s

\* A release moves the whole amount out of the payer's reserve into the
\* payee's free balance: the FundsReleased event of lib.rs:148-154 reports
\* exactly what moved.
PaysInFull(id) ==
    LET e == Escrows[id] IN
    Settles(id, "Released") =>
        /\ balances'[e.payer].reserved = balances[e.payer].reserved - e.amount
        /\ balances'[e.payee].free = balances[e.payee].free + e.amount

\* A refund moves the whole amount back into the payer's free balance.
RefundsInFull(id) ==
    LET e == Escrows[id] IN
    Settles(id, "Refunded") =>
        balances'[e.payer].free = balances[e.payer].free + e.amount
=============================================================================
