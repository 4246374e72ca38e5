----------------------------- MODULE MCHydrator -----------------------------
(* Instances of the cache and its hydrator for model checking.             *)
EXTENDS Hydrator
=============================================================================
