---------------------------- MODULE FrameSystem ----------------------------
(***************************************************************************)
(* The part of Substrate's frame_system and frame_support that the pallets *)
(* use: the block number, storage maps and saturating arithmetic.          *)
(*                                                                         *)
(* Extrinsics are executed one at a time inside a block, and a dispatchable*)
(* that returns an error is rolled back, so one extrinsic is one step and a*)
(* failing extrinsic is no step at all.                                    *)
(***************************************************************************)
EXTENDS Integers

CONSTANT Horizon        \* bound: the last block that is explored

ASSUME HorizonAssumption == Horizon \in Nat \ {0}

VARIABLE block          \* frame_system::Pallet::block_number()

\* Block 0 is genesis; extrinsics execute from block 1 on.
SystemInit == block = 1

AdvanceBlock == block < Horizon /\ block' = block + 1

(***************************************************************************)
(* A StorageMap is a function whose domain is the set of present keys.     *)
(***************************************************************************)
EmptyMap == [k \in {} |-> 0]

Put(map, k, v) == [x \in DOMAIN map \cup {k} |-> IF x = k THEN v ELSE map[x]]

Drop(map, k) == [x \in DOMAIN map \ {k} |-> map[x]]

\* The map has keys in K and rows in R.
IsMap(map, K, R) == DOMAIN map \subseteq K /\ map \in [DOMAIN map -> R]

saturating_sub(a, b) == IF a >= b THEN a - b ELSE 0
=============================================================================
