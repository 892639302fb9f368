----------------------------- MODULE MCRuntime -----------------------------
(***************************************************************************)
(* alice's d1 sells to bob's d2, and in some instances d2 to d1 as well;   *)
(* where keys are shared, d1 may come back under bob.                      *)
(***************************************************************************)
EXTENDS RuntimeMoney, TLC

CONSTANTS alice, bob, d1, d2, r1, zero

MCAccount == {alice, bob}
MCEndowment == alice :> 5 @@ bob :> 6
MCDid == {d1, d2}
OwnKeys == {<<d1, alice>>, <<d2, bob>>}
SharedKey == {<<d1, alice>>, <<d1, bob>>, <<d2, bob>>}
NoStars == {}
NoStatus == {}
SuspendOnly == {"Suspended"}
AllStatus == AgentStatus
Fixed == NoOverride

\* d1's commitments with one chunk or two; chunk 0 of the root can be proved.
OfferOf(p, c, root, n, life, price) ==
    [provider |-> p, consumer |-> c, merkle_root |-> root, total_chunks |-> n,
     expires_in_blocks |-> life, price |-> price]
OneOffer == {OfferOf(d1, d2, r1, 2, 2, 2)}
BothWays == OneOffer \cup {OfferOf(d2, d1, r1, 2, 2, 1)}
BadOffers == {OfferOf(d1, d1, r1, 2, 2, 2), OfferOf(d1, d2, zero, 2, 2, 2),
              OfferOf(d1, d2, r1, 0, 2, 2), OfferOf(d1, d2, r1, 2, 0, 2),
              OfferOf(d1, d2, r1, 2, 9, 2)}
AllOffers == OneOffer \cup BadOffers
FirstChunk == {<<r1, 2, 0>>}
=============================================================================
