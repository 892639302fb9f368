----------------------------- MODULE EscrowAlone -----------------------------
(***************************************************************************)
(* pallet-escrow as the only pallet that reserves funds, driven by an      *)
(* arbitrary trusted caller: any entry point, on any escrow id, at any     *)
(* time, with accounts moving their free funds around in between.          *)
(***************************************************************************)
EXTENDS Escrow

CONSTANTS EscrowId,     \* the ids the caller uses
          Amount        \* the amounts it locks

ASSUME EscrowAloneAssumption == Amount \subseteq Nat

vars == <<block, balances, Escrows>>

Init == SystemInit /\ BalancesInit /\ EscrowInit

Lock == /\ \E id \in EscrowId, payer, payee \in Account, amount \in Amount :
              lock(id, payer, payee, amount)
        /\ UNCHANGED block

Release == (\E id \in EscrowId : release(id)) /\ UNCHANGED block

Refund == /\ \E id \in EscrowId : refund(id) /\ balances' = RefundLedger(id)
          /\ UNCHANGED block

Transfer == (\E from, to \in Account : transfer_all(from, to)) /\ UNCHANGED <<block, Escrows>>

NewBlock == AdvanceBlock /\ UNCHANGED <<balances, Escrows>>

Next == Lock \/ Release \/ Refund \/ Transfer \/ NewBlock

Spec == Init /\ [][Next]_vars

-----------------------------------------------------------------------------
TypeOK == block \in Nat /\ balances \in Ledger /\ EscrowTypeOK(EscrowId)

\* The reserved balance of every account is exactly the sum of its Locked
\* escrows: lock, release and refund (lib.rs:188-279) neither lose a reserve
\* nor leave one behind, in whatever order they interleave over escrows that
\* share a payer.
ReservedIsLocked == \A a \in Account : balances[a].reserved = LockedOn(a)

\* Every release and refund moves the amount the record names.
EscrowSettlesInFull ==
    [][\A id \in DOMAIN Escrows : PaysInFull(id) /\ RefundsInFull(id)]_vars
=============================================================================
