----------------------------- MODULE MCExpenses ------------------------------
(***************************************************************************)
(* A small instance of Expenses.  The receipt of one expense is of a       *)
(* format that is not supported; the other has another receipt later.      *)
(***************************************************************************)
EXTENDS Expenses

CONSTANTS e1, e2, first, second, exe

Receipts == [e \in {e1, e2} |-> IF e = e1 THEN <<{exe}>> ELSE <<{first}, {second}>>]
=============================================================================
