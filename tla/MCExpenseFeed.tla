---------------------------- MODULE MCExpenseFeed ----------------------------
(***************************************************************************)
(* Small instances of ExpenseFeed: an expense that can be looked up, and   *)
(* one that cannot.                                                        *)
(***************************************************************************)
EXTENDS ExpenseFeed

CONSTANTS good, bad
=============================================================================
