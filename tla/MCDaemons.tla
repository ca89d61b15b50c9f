------------------------------ MODULE MCDaemons -------------------------------
(* Daemons with two versions of the binaries. *)
EXTENDS Daemons
===============================================================================
