------------------------------- MODULE MCProxy -------------------------------
(* Model-checking instance of Proxy: the callers are model values given in *)
(* the .cfg files.                                                          *)
EXTENDS Proxy, TLC

\* Calls are interchangeable.
CallerSymmetry == Permutations(Callers)
=============================================================================
