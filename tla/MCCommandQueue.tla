---- MODULE MCCommandQueue ----
(* CommandQueue with a few commands and faults; X-Poll-Interval is 0, idle or
   absent. *)
EXTENDS CommandQueue
====
