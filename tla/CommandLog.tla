------------------------------ MODULE CommandLog ------------------------------
(***************************************************************************)
(* What the queue of CommandQueue promises the backend, without polls,     *)
(* responses, wake-ups or restarts: commands are queued, run one at a      *)
(* time, and the result of a run reaches the backend or is lost.  No       *)
(* command runs again once its result is there.  Where a command is tried  *)
(* again until then, none overtakes one that has not run yet; where it is  *)
(* not, the commands that run do so once each and in the order queued.     *)
(***************************************************************************)
EXTENDS Naturals

CONSTANT MaxCommands          \* bound: commands queued in a behaviour

Commands == 1 .. MaxCommands

VARIABLES again,      \* is a command tried again until its result is there
          issued,     \* the commands queued so far are 1 .. issued
          executed,   \* executed[c]: how often c was run
          current,    \* the command whose result is under way, or 0
          reported    \* the commands whose result the backend has

vars == <<again, issued, executed, current, reported>>

Init == /\ again \in BOOLEAN
        /\ issued = 0
        /\ executed = [c \in Commands |-> 0]
        /\ current = 0
        /\ reported = {}

Issue == /\ issued < MaxCommands
         /\ issued' = issued + 1
         /\ UNCHANGED <<again, executed, current, reported>>

Ran(c) == executed[c] > 0

MayRun(c) == /\ current = 0
             /\ c \notin reported
             /\ again  => \A d \in Commands : d < c => Ran(d)
             /\ ~again => \A d \in Commands : Ran(d) => d < c

(* The run of c returns, or ends without a result. *)
Run(c) == /\ MayRun(c)
          /\ executed' = [executed EXCEPT ![c] = @ + 1]
          /\ current' \in {c, 0}
          /\ UNCHANGED <<again, issued, reported>>

Report == /\ current # 0
          /\ reported' = reported \union {current}
          /\ current' = 0
          /\ UNCHANGED <<again, issued, executed>>

Lose == /\ current # 0
        /\ current' = 0
        /\ UNCHANGED <<again, issued, executed, reported>>

Next == Issue \/ (\E c \in 1 .. issued : Run(c)) \/ Report \/ Lose

Spec == Init /\ [][Next]_vars
===============================================================================
