----------------------------- MODULE MCImmunity -----------------------------
(***************************************************************************)
(* A small instance of Immunity: two trainings and two requests, over two  *)
(* logs the LLM parses and one it does not, with room for two in the cache.*)
(***************************************************************************)
EXTENDS Immunity

=============================================================================
