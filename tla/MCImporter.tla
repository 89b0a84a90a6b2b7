----------------------------- MODULE MCImporter -----------------------------
(***************************************************************************)
(* A transfer between two accounts, and one voucher.  Two versions share   *)
(* an updated_at, so that ingest() accepts them in any order.              *)
(***************************************************************************)
EXTENDS Importer, TLC

CONSTANTS t1, a1, a2, v1

Version(state, at, day, amounts, fees) ==
    [state |-> state, at |-> at, day |-> day, legs |-> DOMAIN amounts, bad |-> {},
     amount |-> amounts @@ [a \in Account |-> 0],
     fee |-> fees @@ [a \in Account |-> 0]]

NoLegs == [a \in {} |-> 0]

Transfer(x, y) == (a1 :> x) @@ (a2 :> y)

\* Booked with a fee on either leg, and taken back.
TransferPayload ==
    {Version("completed", 1, 1, Transfer(2, -2), a2 :> 1),
     Version("completed", 1, 1, Transfer(2, -2), a1 :> 1),
     Version("reverted", 2, 0, NoLegs, NoLegs)}

\* A fee is deducted from the first leg, and makes the second wait for review.
Policies == (a1 :> {"Deduct fee from amount"}) @@ (a2 :> {"Review"})
=============================================================================
