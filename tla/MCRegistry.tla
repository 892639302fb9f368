----------------------------- MODULE MCRegistry -----------------------------
(***************************************************************************)
(* Two controllers.  d1 answers to alice; the key of d2 signs for either,  *)
(* so that it can leave one and return under the other, and d2 gives d1    *)
(* stars.  alice can pay two deposits, bob one, and none after a slash.    *)
(***************************************************************************)
EXTENDS RegistryAlone, TLC

CONSTANTS alice, bob, d1, d2

MCAccount == {alice, bob}
MCEndowment == alice :> 5 @@ bob :> 3
MCDid == {d1, d2}
SharedKey == {<<d1, alice>>, <<d2, alice>>, <<d2, bob>>}
OneStar == {<<d2, d1>>}
AllStatus == AgentStatus
=============================================================================
