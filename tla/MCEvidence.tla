------------------------------ MODULE MCEvidence ------------------------------
(***************************************************************************)
(* A company in pounds with accounts in dollars and euros, and catalogues  *)
(* of two rows.                                                            *)
(***************************************************************************)
EXTENDS Evidence

CONSTANTS eur, gbp, usd, category, group

ByName == <<eur, gbp, usd>>
Catalogue == <<category, group>>
=============================================================================
