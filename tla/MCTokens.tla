------------------------------- MODULE MCTokens -------------------------------
(***************************************************************************)
(* A job and a request; an access token lives for three ticks.             *)
(***************************************************************************)
EXTENDS Tokens

CONSTANTS job, desk, nobody
=============================================================================
