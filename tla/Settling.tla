------------------------------- MODULE Settling -------------------------------
(***************************************************************************)
(* A natural number that is never raised from some moment on keeps one     *)
(* value in the end.  This holds of every behaviour and every state        *)
(* function f, since the natural numbers have no infinite descent; it is   *)
(* an induction over a temporal formula, for which the installed provers   *)
(* have no rule.  A theorem about liveness names the functions of which it *)
(* uses this as hypotheses Settles(f), and uses nothing else of the kind.  *)
(***************************************************************************)
EXTENDS Naturals

Settles(f) == [](f \in Nat) /\ <>[][f' <= f]_f => \E n \in Nat : <>[](f = n)
===============================================================================
