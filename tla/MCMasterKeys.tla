---------------------------- MODULE MCMasterKeys ----------------------------
(* Model values for MasterKeys: principals and commands are interchangeable. *)
EXTENDS MasterKeys, TLC
\* Behaviours are followed up to the first overlap of two commands.
UpToClash == ~clash
Symmetry == Permutations(Princ) \cup Permutations(Tools) \cup Permutations(Threads)
=============================================================================
