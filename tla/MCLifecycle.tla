----------------------------- MODULE MCLifecycle -----------------------------
(***************************************************************************)
(* Two requests, which may ask for two backfills, and the job.             *)
(***************************************************************************)
EXTENDS Lifecycle

CONSTANTS r1, r2, may, june
=============================================================================
