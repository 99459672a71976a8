-------------------------- MODULE MCResearchLedger --------------------------
(***************************************************************************)
(* Small instance of ResearchLedger for TLC.                               *)
(***************************************************************************)
EXTENDS ResearchLedger
=============================================================================
