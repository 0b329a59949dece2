------------------------------- MODULE MCLog -------------------------------
(* Log on small instances.                                                *)
EXTENDS Log, TLC

\* Processes and blocks are interchangeable: only safety runs use this.
Symmetry == Permutations(Procs) \cup Permutations(Blocks)
==============================================================================
