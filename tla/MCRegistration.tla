--------------------------- MODULE MCRegistration ---------------------------
(***************************************************************************)
(* Three invocations with the default key label, or two that may have      *)
(* different ones, in one directory.  Homes meet in the copies of their    *)
(* directory and at the door, whose table does not tell them apart.        *)
(***************************************************************************)
EXTENDS Registration, TLC

CONSTANTS p1, p2, p3, d1, k1, k2

MCProcess == {p1, p2, p3}
TwoProcesses == {p1, p2}
MCDirectory == {d1}
MCKeyLabel == {k1, k2}
OneKeyLabel == {k1}
MCDefaultLabel == k1
MCSymmetry == Permutations(MCProcess)
=============================================================================
