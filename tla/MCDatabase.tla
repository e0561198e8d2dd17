------------------------------ MODULE MCDatabase ------------------------------
EXTENDS Database, TLC

\* Clients and message ids are interchangeable model values.
ClientSymmetry == Permutations(Clients) \cup Permutations(MsgIds)

=============================================================================
