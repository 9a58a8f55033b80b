---------------------------- MODULE MCReplication ----------------------------
(* Replication over a small authority, for TLC.                            *)
EXTENDS Replication, TLC

Symmetry == Permutations(Keys) \union Permutations(Values)

=============================================================================
