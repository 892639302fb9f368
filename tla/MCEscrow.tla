------------------------------ MODULE MCEscrow ------------------------------
(***************************************************************************)
(* Two parties, three escrows, amounts that include zero, the whole free   *)
(* balance and more than it.                                               *)
(***************************************************************************)
EXTENDS EscrowAlone, TLC

CONSTANTS alice, bob, e1, e2, e3

MCAccount == {alice, bob}
MCEndowment == alice :> 4 @@ bob :> 2
MCEscrowId == {e1, e2, e3}
MCAmount == {0, 1, 2}
MCSymmetry == Permutations(MCEscrowId)
=============================================================================
