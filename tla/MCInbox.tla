------------------------------- MODULE MCInbox -------------------------------
(***************************************************************************)
(* Small instances of Inbox: a transaction that can be imported, and one   *)
(* whose final version cannot.                                             *)
(***************************************************************************)
EXTENDS Inbox

CONSTANTS good, bad

\* The bank tells of both versions of one, and of the final one of the other.
BothAndLast == [x \in {good, bad} |-> IF x = good THEN {1, 2} ELSE {2}]
=============================================================================
