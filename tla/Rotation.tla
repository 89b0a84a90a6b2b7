------------------------------ MODULE Rotation ------------------------------
(***************************************************************************)
(* Queues that are rows of a table, read with order_by on a time and with  *)
(* limit_page_length: what was touched last comes last.  An order is a     *)
(* relation: <<x, y>> says that x's time is before y's, or not set yet.    *)
(* The database may return rows that are not related in any order.         *)
(***************************************************************************)
EXTENDS Integers, FiniteSets

Lower(x, y) == IF x < y THEN x ELSE y

First(x, queue, order) == x \in queue /\ \A y \in queue : <<y, x>> \notin order

\* What a query for the first so many rows of a queue may return.
IsBatch(batch, queue, order, limit) ==
    /\ Cardinality(batch) = Lower(limit, Cardinality(queue))
    /\ \A x \in batch, y \in queue \ batch : <<y, x>> \notin order

Without(xs, order) == {pair \in order : pair[1] \notin xs /\ pair[2] \notin xs}

\* The time of the rows xs becomes now, after that of any other of the rows all.
Touched(xs, all, order) == Without(xs, order) \cup (all \ xs) \X xs
=============================================================================
