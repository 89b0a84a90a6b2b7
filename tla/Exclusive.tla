------------------------------ MODULE Exclusive ------------------------------
(***************************************************************************)
(* What connection_lock promises its callers: one of them at a time works  *)
(* on a connection.                                                        *)
(***************************************************************************)
CONSTANTS Run, NoRun

VARIABLE worker     \* the one that works on the connection, or NoRun

Init == worker = NoRun

Enter(p) == worker = NoRun /\ worker' = p

Leave == worker # NoRun /\ worker' = NoRun

Next == Leave \/ \E p \in Run : Enter(p)

Spec == Init /\ [][Next]_worker
=============================================================================
