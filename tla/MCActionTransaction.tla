------------------------ MODULE MCActionTransaction -------------------------
(***************************************************************************)
(* Small instances of ActionTransaction for TLC: the requests and files    *)
(* are the model values of the configurations.                             *)
(***************************************************************************)
EXTENDS ActionTransaction
=============================================================================
