------------------------------ MODULE MCCmdAuth ------------------------------
(* CmdAuth with two handlers; one unit of time is the margin, Ttl - Window. *)
EXTENDS CmdAuth, TLC

HandlerSymmetry == Permutations(Handlers) \union Permutations(Requests)

(* The dashboard's clock: the same, ahead, and as far ahead as the window lets
   in. *)
ClockSkews == {-1, 0, 1, Window}

(* What later steps read.  A request whose window is closed and that no handler
   has is done with, but for its nonce; what a handler remembers between two
   requests does not matter, nor when a nonce was entered that is no longer in
   the cache.  An old value of swept is never later than an entry still to
   come, so that it only matters whether CacheIsSwept holds now. *)
Done(r) == /\ stamp[r] # None /\ stamp[r] + Window < now
           /\ \A h \in Handlers : pc[h] = "idle" \/ req[h] # r

LiveState ==
    <<now, pc, cache, AtMostOnce, AtMostTwice, CacheIsSwept,
      [r \in Requests |->
          IF Done(r) THEN <<>> ELSE <<stamp[r], skew[r], ran[r], held[r]>>],
      [r \in Requests |-> IF cache[r] = None THEN 0 ELSE entered[r]],
      [h \in Handlers |-> IF pc[h] = "idle" THEN <<>> ELSE <<req[h]>>],
      [h \in Handlers |-> IF pc[h] \in {"clock", "lock"} THEN seen[h] ELSE 0],
      [h \in Handlers |-> IF pc[h] = "lock" THEN clock[h] ELSE 0]>>
===============================================================================
