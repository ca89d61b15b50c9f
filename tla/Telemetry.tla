------------------------------- MODULE Telemetry -------------------------------
(***************************************************************************)
(* nexus-link-agent: the loop that collects telemetry and pushes it on the *)
(* ticks of a tokio interval (main.rs, collector.rs, pusher.rs).  An error *)
(* of either is logged, and the loop goes on with the next tick.  What a   *)
(* payload says is left out; when it was collected is kept.                *)
(*                                                                         *)
(* Time passes in units.  Clocks that only matter up to a bound stop at it. *)
(***************************************************************************)
EXTENDS Integers

CONSTANTS Period,       \* agent.push_sec
          Timeout,      \* of a request to the backend, and of one to Docker
          Work,         \* what a collection takes at most, and a push, if all is well
          Horizon       \* bound: where the clocks stop

ASSUME TelemetryOK == /\ Period \in Nat \ {0} /\ Timeout \in Nat \ {0}
                      /\ Work \in Nat /\ 2 * Work < Period
                      /\ Horizon \in Nat /\ Horizon > Period + Timeout + 2 * Work

VARIABLES pc,       \* where the loop is
          lag,      \* how long the next tick has been due; negative before
          spent,    \* how long the loop has been at this request, or at the
                    \* metrics of the GPUs since something changed
          answer,   \* what becomes of the request under way
          stamp,    \* how long ago its payload was collected
          age,      \* how long ago the last payload was that the backend has
          docker,   \* Docker answers, "accepts" also where there is none
          gpu,      \* nvidia-smi returns, or there is none
          backend,  \* the backend answers
          calm      \* how long all has been well, without a restart (history)

clocks == <<lag, spent, stamp, age, calm>>
host   == <<docker, gpu, backend>>
vars   == <<pc, answer, clocks, host>>

Answers == {"accepts", "refuses", "silent"}
Well == docker = "accepts" /\ gpu /\ backend = "accepts"

Init == /\ pc = "tick" /\ answer = "silent"
        /\ lag = 0 /\ spent = 0 /\ stamp = 0
        /\ age = Horizon /\ calm = 0
        /\ docker = "accepts" /\ gpu = TRUE /\ backend = "accepts"

-------------------------------------------------------------------------------
(* Mutant of Tick: the tick is not counted. *)
TickUncounted == /\ pc = "tick" /\ lag >= 0
                 /\ pc' = "collect"
                 /\ spent' = 0 /\ answer' = docker
                 /\ UNCHANGED <<lag, stamp, age, calm, host>>

(* interval.tick(): due at multiples of the period.  Ticks that were missed are
   made up for at once, MissedTickBehavior::Burst being the default. *)
Tick == /\ pc = "tick" /\ lag >= 0
        /\ pc' = "collect"
        /\ lag' = lag - Period
        /\ spent' = 0 /\ answer' = docker
        /\ UNCHANGED <<stamp, age, calm, host>>

(* An error, or no answer in time. *)
Failed == \/ answer = "refuses"
          \/ answer = "silent" /\ spent >= Timeout

(* collect_container_metrics lists the containers, none without Docker, and asks
   for the statistics of each. *)
Collect == /\ pc = "collect" /\ answer = "accepts"
           /\ pc' = "gpu"
           /\ UNCHANGED <<answer, clocks, host>>

(* If the list fails the round is over; statistics that fail count as zeros, and
   those of the next container follow. *)
CollectFails == /\ pc = "collect" /\ Failed
                /\ pc' \in {"tick", "collect", "gpu"}
                /\ answer' = docker
                /\ spent' = 0
                /\ UNCHANGED <<lag, stamp, age, calm, host>>

(* collect_gpu_metrics waits for nvidia-smi without a timeout.  The payload gets
   its timestamp, and push_telemetry sends it. *)
CollectGpu == /\ pc = "gpu" /\ gpu
              /\ pc' = "push"
              /\ stamp' = 0 /\ spent' = 0
              /\ answer' = backend
              /\ UNCHANGED <<lag, age, calm, host>>

(* Mutant of Pushed: a sleep after the push instead of the interval. *)
PushedThenSleeps ==
    /\ pc = "push" /\ answer = "accepts"
    /\ pc' = "tick"
    /\ age' = stamp /\ lag' = -Period
    /\ UNCHANGED <<spent, stamp, calm, answer, host>>

Pushed == /\ pc = "push" /\ answer = "accepts"
          /\ pc' = "tick"
          /\ age' = stamp
          /\ UNCHANGED <<lag, spent, stamp, calm, answer, host>>

(* The payload is dropped. *)
PushFails == /\ pc = "push" /\ Failed
             /\ pc' = "tick"
             /\ UNCHANGED <<answer, clocks, host>>

-------------------------------------------------------------------------------
(* The host and the network (external) change; an answer under way is lost with
   the one who owed it. *)
Change == /\ docker' \in Answers /\ gpu' \in BOOLEAN /\ backend' \in Answers
          /\ host' # host
          /\ answer' = IF \/ pc = "collect" /\ docker' # docker
                          \/ pc = "push" /\ backend' # backend
                       THEN "silent" ELSE answer
          /\ spent' = IF pc = "gpu" THEN 0 ELSE spent
          /\ calm' = 0
          /\ UNCHANGED <<pc, lag, stamp, age>>

(* The agent stops and systemd starts it again: the first tick is at once. *)
Restart == /\ pc' = "tick" /\ answer' = "silent"
           /\ lag' = 0 /\ spent' = 0 /\ stamp' = 0 /\ calm' = 0
           /\ UNCHANGED <<age, host>>

(* What limits the time before the loop's next step: a tick that is due, a round
   in which all is well, and the timeouts.  Nothing limits nvidia-smi. *)
Waits == \/ pc = "tick" /\ lag < 0
         \/ pc = "gpu" /\ (gpu => spent < Work)
         \/ /\ pc \in {"collect", "push"}
            /\ spent < IF answer = "silent" THEN Timeout ELSE Work

Later(clock) == IF clock < Horizon THEN clock + 1 ELSE clock

Pass == /\ Waits
        /\ lag' = Later(lag) /\ spent' = Later(spent) /\ stamp' = Later(stamp)
        /\ age' = Later(age)
        /\ calm' = IF Well THEN Later(calm) ELSE 0
        /\ UNCHANGED <<pc, answer, host>>

Loop == Tick \/ Collect \/ CollectFails \/ CollectGpu \/ Pushed \/ PushFails
Next == Loop \/ Change \/ Restart \/ Pass

Spec == Init /\ [][Next]_vars

(* Time passes, and the loop goes on whenever nothing holds it up. *)
FairSpec == Spec /\ WF_vars(Pass) /\ WF_vars(Loop)

-------------------------------------------------------------------------------
TypeOK == /\ pc \in {"tick", "collect", "gpu", "push"}
          /\ lag \in -Period .. Horizon
          /\ spent \in 0 .. Horizon /\ stamp \in 0 .. Horizon
          /\ age \in 0 .. Horizon /\ calm \in 0 .. Horizon
          /\ answer \in Answers
          /\ docker \in Answers /\ gpu \in BOOLEAN /\ backend \in Answers

(* Once all has been well for the time that the last failure may hold the loop
   up and one round, the backend always has a payload that is no older than a
   period and a round. *)
Recovery == (IF Timeout > Period THEN Timeout ELSE Period) + 2 * Work
Fresh == calm > Recovery => age <= Period + 2 * Work

(* When all stays well the loop gets back to its schedule, however many ticks an
   outage has left due: the burst that makes up for them ends. *)
CatchesUp == <>[](calm > 0) => []<>(pc = "tick" /\ lag < 0)
===============================================================================
