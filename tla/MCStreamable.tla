---------------------------- MODULE MCStreamable ----------------------------
(* Model-checking instance of Streamable: model values for the replicas, *)
(* handlers and sessions are given in the .cfg files.                     *)
EXTENDS Streamable, TLC

\* Handlers are interchangeable.
WorkerSymmetry == Permutations(Workers)
=============================================================================
