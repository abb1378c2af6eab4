-------------------------- MODULE MCModelService --------------------------
(* Instances of ModelService for TLC. *)
EXTENDS ModelService
============================================================================
