------------------------- MODULE EscrowAloneProofs -------------------------
(***************************************************************************)
(* pallet-escrow on its own keeps exactly what it owes, for any accounts,  *)
(* ids and amounts.                                                        *)
(*                                                                         *)
(* ReservedIsLocked is inductive with the types and the finiteness of the  *)
(* storage map.  It is what makes release and refund pay in full: the      *)
(* balances pallet moves no more than the reserve, which holds at least the*)
(* amount of every Locked record.                                          *)
(***************************************************************************)
EXTENDS EscrowAlone, EscrowProofs

Inv == TypeOK /\ IsFiniteSet(DOMAIN Escrows) /\ ReservedIsLocked

LEMMA InvInit == Init => Inv
<1> SUFFICES ASSUME Init PROVE Inv
  BY Zenon
<1>1. DOMAIN Escrows = {} /\ \A a : LockedFrom(a) = {}
  BY Zenon DEF Init, EscrowInit, EmptyMap, LockedFrom
<1>2. TypeOK
  BY EmptyMapType, BalancesAssumption, Zenon
  DEF Init, SystemInit, BalancesInit, EscrowInit, TypeOK, Ledger, EscrowTypeOK
<1>3. \A a : LockedOn(a) = 0
  BY <1>1, SumEmpty, Zenon DEF LockedOn
<1>4. ReservedIsLocked
  BY <1>3, Zenon DEF Init, BalancesInit, ReservedIsLocked
<1> QED BY <1>1, <1>2, <1>4, FS_EmptySet, Zenon DEF Inv

\* ReservedIsLocked as a case of Covers, with nothing burned.
NoBurn == [a \in Account |-> 0]

Locked == [a \in Account |-> LockedOn(a)]

LEMMA ExactIsCovered ==
    ASSUME NEW ledger \in Ledger, NEW claims \in [Account -> Nat]
    PROVE  Covers(ledger, NoBurn, claims)
             <=> \A a \in Account : ledger[a].reserved = claims[a]
<1>1. \A a \in Account : ledger[a].reserved \in Nat /\ claims[a] \in Nat
  BY Zenon DEF Ledger
<1> QED BY <1>1 DEF Covers, NoBurn

LEMMA InvCovers ==
    ASSUME Inv
    PROVE  /\ balances \in Ledger /\ EscrowTypeOK(EscrowId) /\ IsFiniteSet(DOMAIN Escrows)
           /\ NoBurn \in [Account -> Nat] /\ Locked \in [Account -> Nat]
           /\ Covers(balances, NoBurn, Locked)
<1>1. balances \in Ledger /\ EscrowTypeOK(EscrowId) /\ IsFiniteSet(DOMAIN Escrows)
  BY Zenon DEF Inv, TypeOK
<1>2. Locked \in [Account -> Nat]
  BY <1>1, LockedType, Zenon DEF Locked
<1>3. \A a \in Account : balances[a].reserved = Locked[a]
  BY Zenon DEF Inv, ReservedIsLocked, Locked
<1> QED BY <1>1, <1>2, <1>3, ExactIsCovered, Zenon DEF NoBurn

LEMMA CoveredIsExact ==
    ASSUME balances' \in Ledger, Locked' \in [Account -> Nat], Covers(balances', NoBurn, Locked')
    PROVE  ReservedIsLocked'
<1>1. \A a \in Account : balances'[a].reserved = Locked'[a]
  BY ExactIsCovered, Zenon
<1> QED BY <1>1, Zenon DEF ReservedIsLocked, Locked

LEMMA LockStep ==
    ASSUME Inv, NEW id \in EscrowId, NEW payer \in Account, NEW payee \in Account,
           NEW amount \in Nat, lock(id, payer, payee, amount), UNCHANGED block
    PROVE  Inv'
<1>1. [payer |-> payer, payee |-> payee, amount |-> amount,
       status |-> "Locked", locked_at |-> block] \in EscrowRecord
  BY Zenon DEF Inv, TypeOK, EscrowRecord, EscrowStatus
<1>2. EscrowTypeOK(EscrowId)'
  BY <1>1, InvCovers, PutType, Zenon DEF lock, EscrowTypeOK
<1>3. balances' = Reserve(balances, payer, amount) /\ balances' \in Ledger
  BY InvCovers, ReserveType, Zenon DEF lock
<1>4. /\ IsFiniteSet(DOMAIN Escrows')
      /\ \A a : LockedOn(a)' = IF a = payer THEN LockedOn(a) + amount ELSE LockedOn(a)
  BY InvCovers, LockClaims, Zenon
<1>5. OneMore(Locked, Locked', payer, amount) /\ Locked' \in [Account -> Nat]
  BY <1>4, InvCovers DEF OneMore, Locked
<1>6. Covers(balances', NoBurn, Locked')
  BY <1>3, <1>5, InvCovers, ReserveCovers, Zenon
<1> QED BY <1>2, <1>3, <1>4, <1>5, <1>6, CoveredIsExact, Zenon DEF Inv, TypeOK

\* A release or a refund: the record is settled and the reserve of its payer
\* falls by the amount, or by what there is.
LEMMA SettleStep ==
    ASSUME Inv, NEW id, IsLocked(id), NEW status \in EscrowStatus \ {"Locked"},
           Escrows' = [Escrows EXCEPT ![id].status = status],
           balances' \in Ledger, UNCHANGED block,
           Takes(balances, balances', Escrows[id].payer, Escrows[id].amount)
    PROVE  Inv'
<1>1. id \in DOMAIN Escrows /\ Escrows[id] \in EscrowRecord
  BY InvCovers, Zenon DEF IsLocked, EscrowTypeOK, IsMap
<1>2. EscrowTypeOK(EscrowId)'
  BY <1>1, InvCovers, Zenon DEF EscrowTypeOK, IsMap, EscrowRecord
<1>3. Escrows[id].payer \in Account /\ Escrows[id].amount \in Nat
  BY <1>1, Zenon DEF EscrowRecord
<1>4. /\ IsFiniteSet(DOMAIN Escrows')
      /\ \A a : LockedOn(a)' \in Nat
      /\ \A a : LockedOn(a) = IF a = Escrows[id].payer
                              THEN LockedOn(a)' + Escrows[id].amount ELSE LockedOn(a)'
  BY InvCovers, SettleClaims, Zenon
<1>5. /\ Locked' \in [Account -> Nat]
      /\ OneMore(Locked', Locked, Escrows[id].payer, Escrows[id].amount)
  BY <1>4, Zenon DEF OneMore, Locked
<1>6. Covers(balances', NoBurn, Locked')
  BY <1>3, <1>5, InvCovers, TakeCovers
<1> QED BY <1>2, <1>4, <1>5, <1>6, CoveredIsExact, Zenon DEF Inv, TypeOK

\* The two ways the ledger changes when a record is settled.
LEMMA SettleLedger ==
    ASSUME Inv, NEW id, IsLocked(id),
           \/ balances' = RepatriateReserved(balances, Escrows[id].payer, Escrows[id].payee,
                                             Escrows[id].amount)
           \/ balances' = RefundLedger(id)
    PROVE  /\ balances' \in Ledger
           /\ Takes(balances, balances', Escrows[id].payer, Escrows[id].amount)
<1>1. Escrows[id].payer \in Account /\ Escrows[id].payee \in Account /\ Escrows[id].amount \in Nat
  BY InvCovers, Zenon DEF IsLocked, EscrowTypeOK, IsMap, EscrowRecord
<1>2. CASE balances' = RepatriateReserved(balances, Escrows[id].payer, Escrows[id].payee,
                                          Escrows[id].amount)
  BY <1>1, <1>2, InvCovers, RepatriateType, RepatriateTakes, Zenon
<1>3. CASE balances' = RefundLedger(id)
  BY <1>1, <1>3, InvCovers, UnreserveType, UnreserveTakes, Zenon DEF RefundLedger
<1> QED BY <1>2, <1>3, Zenon

LEMMA InvStep == Inv /\ [Next]_vars => Inv'
<1> SUFFICES ASSUME Inv, [Next]_vars PROVE Inv'
  BY Zenon
<1>1. ASSUME UNCHANGED Escrows, block' \in Nat, balances' \in Ledger,
             \A a \in Account : balances'[a].reserved = balances[a].reserved
      PROVE  Inv'
  <2>1. \A a : LockedOn(a)' = LockedOn(a)
    BY <1>1, Zenon DEF LockedOn, LockedFrom, IsLocked
  <2> QED BY <1>1, <2>1, Zenon DEF Inv, TypeOK, EscrowTypeOK, ReservedIsLocked
<1>2. block \in Nat
  BY Zenon DEF Inv, TypeOK
<1>3. CASE Lock
  BY <1>3, LockStep, EscrowAloneAssumption, Zenon DEF Lock
<1>4. CASE Release
  <2>1. PICK id \in EscrowId : release(id)
    BY <1>4, Zenon DEF Release
  <2>2. /\ IsLocked(id) /\ Escrows' = [Escrows EXCEPT ![id].status = "Released"]
        /\ balances' = RepatriateReserved(balances, Escrows[id].payer, Escrows[id].payee,
                                          Escrows[id].amount)
        /\ UNCHANGED block
    BY <1>4, <2>1, Zenon DEF release, Release
  <2>3. "Released" \in EscrowStatus \ {"Locked"}
    BY Zenon DEF EscrowStatus
  <2> QED BY <2>2, <2>3, SettleLedger, SettleStep, Zenon
<1>5. CASE Refund
  <2>1. PICK id \in EscrowId : refund(id) /\ balances' = RefundLedger(id) /\ UNCHANGED block
    BY <1>5, Zenon DEF Refund
  <2>2. IsLocked(id) /\ Escrows' = [Escrows EXCEPT ![id].status = "Refunded"]
    BY <2>1, Zenon DEF refund
  <2>3. "Refunded" \in EscrowStatus \ {"Locked"}
    BY Zenon DEF EscrowStatus
  <2> QED BY <2>1, <2>2, <2>3, SettleLedger, SettleStep, Zenon
<1>6. CASE Transfer
  <2>1. PICK from \in Account, to \in Account : transfer_all(from, to)
    BY <1>6, Zenon DEF Transfer
  <2>2. \A a \in Account : balances'[a].reserved = balances[a].reserved
    BY <2>1, InvCovers, Zenon DEF transfer_all, Ledger
  <2> QED BY <1>1, <1>2, <1>6, <2>1, <2>2, InvCovers, TransferType, Zenon DEF Transfer
<1>7. CASE NewBlock
  BY <1>1, <1>2, <1>7, InvCovers DEF NewBlock, AdvanceBlock
<1>8. CASE UNCHANGED vars
  BY <1>1, <1>2, <1>8, InvCovers, Zenon DEF vars
<1> QED BY <1>3, <1>4, <1>5, <1>6, <1>7, <1>8, Zenon DEF Next

LEMMA InvAlways == Spec => []Inv
BY InvInit, InvStep, PTL DEF Spec

\* No balance goes below zero and every record keeps its shape, whoever calls
\* lock, release and refund and in whatever order.
THEOREM EscrowTypeCorrect == Spec => []TypeOK
BY InvAlways, PTL DEF Inv

\* The reserve of every account is always exactly the sum of its Locked escrows
\* (lock, release and refund of lib.rs:188-279).
THEOREM ReserveIsExact == Spec => []ReservedIsLocked
BY InvAlways, PTL DEF Inv

LEMMA StepIsEntry ==
    ASSUME [Next]_vars
    PROVE  UNCHANGED Escrows \/ EscrowEntry
BY Zenon DEF Next, Lock, Release, Refund, Transfer, NewBlock, vars, EscrowEntry

\* Driven by any caller, the escrow ledger is an audit trail: records are created
\* Locked, leave Locked at most once, and otherwise never change or go.
THEOREM EscrowAloneIsAudit == Spec => EscrowRecordLife
<1>1. [Next]_vars => [RecordLife]_Escrows
  BY StepIsEntry, EntryKeepsLife, Zenon
<1> QED BY <1>1, PTL DEF Spec, EscrowRecordLife

LEMMA FullStep ==
    ASSUME Inv, [Next]_vars, NEW id \in DOMAIN Escrows
    PROVE  PaysInFull(id) /\ RefundsInFull(id)
<1>1. balances \in Ledger /\ EscrowTypeOK(EscrowId) /\ IsFiniteSet(DOMAIN Escrows)
  BY InvCovers, Zenon
<1>2. ASSUME IsLocked(id)
      PROVE  Escrows[id].amount <= balances[Escrows[id].payer].reserved
  <2>1. Escrows[id].payer \in Account
    BY <1>1, Zenon DEF EscrowTypeOK, IsMap, EscrowRecord
  <2> QED BY <1>1, <1>2, <2>1, LockedBound, Zenon DEF Inv, ReservedIsLocked
<1>3. ASSUME Settles(id, "Released") PROVE PaysInFull(id)
  <2>1. release(id)
    BY <1>1, <1>3, StepIsEntry, OnlySettler, Zenon
  <2> QED BY <1>1, <1>2, <2>1, ReleasePays, Zenon DEF release
<1>4. ASSUME Settles(id, "Refunded") PROVE RefundsInFull(id)
  <2>1. refund(id) /\ IsLocked(id)
    BY <1>1, <1>4, StepIsEntry, OnlySettler, Zenon DEF Settles, IsLocked
  <2>2. /\ DOMAIN Escrows' = DOMAIN Escrows /\ Escrows'[id].status = "Refunded"
        /\ Escrows'[id] # Escrows[id]
        /\ \A k \in DOMAIN Escrows \ {id} : Escrows'[k] = Escrows[k]
    BY <1>4, <2>1, Zenon DEF refund, Settles
  <2>3. ASSUME NEW k, release(k) PROVE FALSE
    <3>1. Escrows[k] \in EscrowRecord /\ k \in DOMAIN Escrows
      BY <1>1, <2>3, Zenon DEF release, IsLocked, EscrowTypeOK, IsMap
    <3>2. Escrows'[k].status = "Released" /\ Escrows[k].status = "Locked"
      BY <2>3, <3>1, Zenon DEF release, IsLocked, EscrowRecord
    <3> QED BY <2>2, <3>1, <3>2, Zenon
  <2>4. ASSUME NEW k, refund(k) PROVE k = id
    <3>1. Escrows[k] \in EscrowRecord /\ k \in DOMAIN Escrows
      BY <1>1, <2>4, Zenon DEF refund, IsLocked, EscrowTypeOK, IsMap
    <3>2. Escrows'[k].status = "Refunded" /\ Escrows[k].status = "Locked"
      BY <2>4, <3>1, Zenon DEF refund, IsLocked, EscrowRecord
    <3> QED BY <2>2, <3>1, <3>2, Zenon
  <2>5. balances' = RefundLedger(id)
    BY <2>2, <2>3, <2>4, Zenon
    DEF Next, Lock, lock, Put, Release, Refund, Transfer, NewBlock, vars
  <2> QED BY <1>1, <1>2, <2>1, <2>5, RefundPays, Zenon DEF RefundsInFull
<1> QED BY <1>3, <1>4, Zenon DEF PaysInFull, RefundsInFull

\* Every release pays the payee, and every refund the payer, the whole amount of
\* the record, although the balances pallet would move less without an error.
THEOREM SettlementsInFull == Spec => EscrowSettlesInFull
<1>1. Inv /\ [Next]_vars =>
        [\A id \in DOMAIN Escrows : PaysInFull(id) /\ RefundsInFull(id)]_vars
  BY FullStep, Zenon
<1> QED BY <1>1, InvAlways, PTL DEF Spec, EscrowSettlesInFull
=============================================================================
