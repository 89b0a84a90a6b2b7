------------------------------- MODULE MCLease -------------------------------
(***************************************************************************)
(* Two jobs and a request, in ticks of about five minutes.                 *)
(***************************************************************************)
EXTENDS Lease

CONSTANTS sync, extra, refresh, nobody
=============================================================================
