-------------------------------- MODULE Deal --------------------------------
(***************************************************************************)
(* What the vector-db and escrow pallets promise together, as one machine: *)
(* the phase of each deal and the whereabouts of its money change in the   *)
(* same step, one deal at a time.  Runtime is shown to implement it.       *)
(*                                                                         *)
(*   Absent -> Offered -> Funded -> Paid                                   *)
(*                          |-> Contested -> Paid                          *)
(*                                      |-> Returned                       *)
(*                                                                         *)
(* An offer may lapse and its id is then Absent again; a funded deal that  *)
(* lapses is Abandoned, and its id is spent.                               *)
(***************************************************************************)
CONSTANT Id

VARIABLES phase,        \* Id -> where the deal stands
          money         \* Id -> where its price is

Phase == {"Absent", "Offered", "Funded", "Contested", "Paid", "Returned", "Abandoned"}

Money == {"none", "held", "paid", "returned"}

Init ==
    /\ phase = [id \in Id |-> "Absent"]
    /\ money = [id \in Id |-> "none"]

\* Deal id, in phase p with its money in m, goes on to phase q and money n.
Move(id, p, m, q, n) ==
    /\ phase[id] = p /\ money[id] = m
    /\ phase' = [phase EXCEPT ![id] = q]
    /\ money' = [money EXCEPT ![id] = n]

MakeOffer(id) == Move(id, "Absent", "none", "Offered", "none")

LapseOffer(id) == Move(id, "Offered", "none", "Absent", "none")

Fund(id) == Move(id, "Offered", "none", "Funded", "held")

Abandon(id) == Move(id, "Funded", "held", "Abandoned", "held")

Contest(id) == Move(id, "Funded", "held", "Contested", "held")

Pay(id) ==
    \/ Move(id, "Funded", "held", "Paid", "paid")
    \/ Move(id, "Contested", "held", "Paid", "paid")

Return(id) == Move(id, "Contested", "held", "Returned", "returned")

Next ==
    \E id \in Id :
        \/ MakeOffer(id) \/ LapseOffer(id) \/ Fund(id) \/ Abandon(id)
        \/ Contest(id) \/ Pay(id) \/ Return(id)

Spec == Init /\ [][Next]_<<phase, money>>
=============================================================================
