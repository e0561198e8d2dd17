------------------------------ MODULE MCReload ------------------------------
(* Model-checking instance of Reload; the bounds are given in the .cfg.  *)
EXTENDS Reload, TLC
=============================================================================
