------------------------------ MODULE Balances ------------------------------
(***************************************************************************)
(* pallet_balances (external) as the escrow and registry pallets use it    *)
(* through ReservableCurrency.  An account has a free balance and ONE      *)
(* anonymous reserved balance: nothing records which pallet reserved what. *)
(*                                                                         *)
(* The operators are functions from ledger to ledger, so that a handler    *)
(* making two calls in a row applies the second to the result of the first.*)
(***************************************************************************)
EXTENDS FrameSystem, FiniteSets

CONSTANTS Account,             \* the accounts that sign extrinsics
          Endowment,           \* free balance of each account at genesis
          ExistentialDeposit   \* an account below it does not exist

ASSUME BalancesAssumption ==
    /\ IsFiniteSet(Account)
    /\ Endowment \in [Account -> Nat]
    /\ ExistentialDeposit \in Nat \ {0}

VARIABLE balances              \* the ledger

Ledger == [Account -> [free : Nat, reserved : Nat]]

BalancesInit == balances = [a \in Account |-> [free |-> Endowment[a], reserved |-> 0]]

Least(m, n) == IF m <= n THEN m ELSE n

Exists(ledger, who) == ledger[who].free + ledger[who].reserved > 0

\* reserve: a zero reservation always succeeds, any other one must leave the
\* existential deposit free.
CanReserve(ledger, who, value) ==
    \/ value = 0
    \/ ledger[who].free >= value + ExistentialDeposit

Reserve(ledger, who, value) ==
    [ledger EXCEPT ![who] = [free |-> @.free - value, reserved |-> @.reserved + value]]

\* unreserve: moves what there is, up to value; it cannot fail.
Unreserve(ledger, who, value) ==
    LET actual == Least(value, ledger[who].reserved) IN
    [ledger EXCEPT ![who] = [free |-> @.free + actual, reserved |-> @.reserved - actual]]

\* slash_reserved: burns what there is, up to value.
Slashable(ledger, who, value) == Least(value, ledger[who].reserved)

SlashReserved(ledger, who, value) ==
    [ledger EXCEPT ![who] = [free |-> @.free,
                             reserved |-> @.reserved - Slashable(ledger, who, value)]]

\* repatriate_reserved(.., Free): fails only when the beneficiary is dead, and
\* otherwise moves what there is, up to value.
CanRepatriate(ledger, from, to, value) ==
    value = 0 \/ from = to \/ Exists(ledger, to)

RepatriateReserved(ledger, from, to, value) ==
    IF from = to THEN Unreserve(ledger, from, value)
    ELSE LET actual == Least(value, ledger[from].reserved) IN
         [ledger EXCEPT ![from] = [free |-> @.free, reserved |-> @.reserved - actual],
                        ![to]   = [free |-> @.free + actual, reserved |-> @.reserved]]

(***************************************************************************)
(* transfer_all(to, keep_alive = false): the one balance call of the       *)
(* accounts themselves that is modelled.  It empties and so kills an       *)
(* account without reserves, and leaves the existential deposit otherwise. *)
(***************************************************************************)
Transferable(ledger, who) ==
    IF ledger[who].reserved = 0 THEN ledger[who].free
    ELSE saturating_sub(ledger[who].free, ExistentialDeposit)

transfer_all(from, to) ==
    /\ from # to
    /\ Transferable(balances, from) > 0
    /\ balances[to].free + Transferable(balances, from) >= ExistentialDeposit
    /\ balances' = [balances EXCEPT
                      ![from] = [free |-> @.free - Transferable(balances, from),
                                 reserved |-> @.reserved],
                      ![to]   = [free |-> @.free + Transferable(balances, from),
                                 reserved |-> @.reserved]]
=============================================================================
