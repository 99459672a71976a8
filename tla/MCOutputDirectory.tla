------------------------- MODULE MCOutputDirectory --------------------------
(***************************************************************************)
(* Small instances of OutputDirectory for TLC.                             *)
(***************************************************************************)
EXTENDS OutputDirectory
=============================================================================
