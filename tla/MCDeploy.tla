------------------------------- MODULE MCDeploy -------------------------------
(* Deploy with PutFile and Activate twice each, and a command that reads between.
   Processes differ in nothing but their names. *)
EXTENDS Deploy, TLC

Symmetry == Permutations(Procs)
===============================================================================
