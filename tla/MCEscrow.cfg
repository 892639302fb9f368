\* pallet-escrow with an arbitrary caller and no other user of the reserves.
CONSTANTS
    alice = alice
    bob = bob
    e1 = e1
    e2 = e2
    e3 = e3
    Account <- MCAccount
    Endowment <- MCEndowment
    ExistentialDeposit = 1
    EscrowId <- MCEscrowId
    Amount <- MCAmount
    Horizon = 2
SYMMETRY MCSymmetry
SPECIFICATION Spec
INVARIANTS
    TypeOK
    ReservedIsLocked
PROPERTIES
    EscrowRecordLife
    EscrowSettlesInFull
