---------------------------- MODULE RuntimeMoney ----------------------------
(***************************************************************************)
(* What the runtime owes and holds, in total.  Registration deposits and   *)
(* escrows share one anonymous reserve per account.                        *)
(***************************************************************************)
EXTENDS Runtime

\* 100 UNIT in the runtime (configs/mod.rs:177).
ASSUME PositiveDeposit == RegistrationDeposit > 0

Claims(a) == Deposits(a) + LockedOn(a)

\* An account's reserve is never more than its deposits and Locked escrows, and
\* falls short of them by at most what DepositSlashed events burned, whatever
\* the order of slashes, refunds, releases and deregistrations (registry
\* lib.rs:622, 711; escrow lib.rs:234, 266).  An account that was never slashed
\* can always honour every claim.
ReserveCoversClaims ==
    \A a \in Account :
        /\ balances[a].reserved <= Claims(a)
        /\ balances[a].reserved + slashed[a] >= Claims(a)

Total(f) == SumFunctionOnSet(f, Account)

\* No extrinsic creates money, and none destroys any but what the
\* DepositSlashed events (registry lib.rs:710-719) report.
MoneyConserved ==
    Total([a \in Account |-> balances[a].free + balances[a].reserved]) + Total(slashed)
        = Total(Endowment)

GuiltyVerdicts == {id \in DOMAIN DisputeRecords : VerdictIs(id, "ProviderGuilty")}

\* Strikes and burned deposits never exceed what the recorded guilty verdicts
\* pay for, StrikeThreshold verdicts per burn: a refuted dispute costs no
\* strike and no verdict counts twice, also for a DID that deregisters and
\* returns (registry lib.rs:671-720, runtime reputation_handler.rs:24-39).
PunishedOnlyForGuilt ==
    StrikeThreshold * Total(slashed)
      + DepositSlashPerStrike * SumFunctionOnSet(DisputeStrikes, Did)
        <= DepositSlashPerStrike * Cardinality(GuiltyVerdicts)

\* The payee of a deal in flight, as long as it still controls the provider and
\* was never slashed, is an account that can be paid: its own deposit keeps it
\* alive, so neither the consumer's close nor the provider's counter can fail
\* on a dead payee (vector-db lib.rs:594-596, 665, 847).
UnslashedPayeeAlive ==
    \A id \in Committed :
        LET payee == Escrows[id].payee IN
        /\ StatusOf(id) \in {"Active", "Disputed"}
        /\ controlled_by(VectorCommitments[id].provider, payee)
        /\ slashed[payee] = 0
        => Exists(balances, payee)

\* As long as the payer has never been slashed, its deals settle in full: a
\* release moves, and a refund gives back, exactly the amount that was locked,
\* also in the step whose verdict burns the deposit of the provider (escrow
\* lib.rs:234, 266; registry lib.rs:711).
UnslashedSettlesInFull ==
    [][\A id \in DOMAIN Escrows :
          slashed[Escrows[id].payer] = 0 => PaysInFull(id) /\ RefundsInFull(id)]_vars

\* "Escrowed at acknowledge_commitment, released or refunded depending on how
\* the commitment settles" (vector-db lib.rs:200-203): an escrow is Locked only
\* while there is a commitment through which it can still be settled.
LockedHasDeal == \A id \in DOMAIN Escrows : IsLocked(id) => id \in Open

\* "Locked funds moved from payer to payee" (escrow lib.rs:148), "or funds could
\* appear to move when they didn't" (lib.rs:23-25): every release in the runtime
\* moves the amount it reports.
ReleasePaysInFull == [][\A id \in DOMAIN Escrows : PaysInFull(id)]_vars
=============================================================================
