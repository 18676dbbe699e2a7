-------------------------- MODULE MCRegistryHistory --------------------------
(* The instances of MCRegistry, with the history variable. *)
EXTENDS MCRegistry, RegistryHistory
=============================================================================
