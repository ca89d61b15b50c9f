---------------------------- MODULE Telemetry_proofs ----------------------------
(* Proofs about Telemetry, for every period, timeout and duration of a round that
   satisfies TelemetryOK. *)
EXTENDS Telemetry, Settling, TLAPS

LEMMA LaterIs ==
    ASSUME NEW clock \in Int, clock <= Horizon
    PROVE  /\ Later(clock) \in Int /\ Later(clock) <= Horizon
           /\ Later(clock) >= clock /\ Later(clock) <= clock + 1
           /\ clock < Horizon => Later(clock) = clock + 1
BY TelemetryOK DEF TelemetryOK, Later

LEMMA TypeStep == TypeOK /\ [Next]_vars => TypeOK'
<1> SUFFICES ASSUME TypeOK, [Next]_vars PROVE TypeOK'
  OBVIOUS
<1> USE TelemetryOK DEF TelemetryOK, TypeOK, host, clocks, Answers
<1>1. CASE Tick
  BY <1>1 DEF Tick
<1>2. CASE Collect
  BY <1>2 DEF Collect
<1>3. CASE CollectFails
  BY <1>3 DEF CollectFails
<1>4. CASE CollectGpu
  BY <1>4 DEF CollectGpu
<1>5. CASE Pushed
  BY <1>5 DEF Pushed
<1>6. CASE PushFails
  BY <1>6 DEF PushFails
<1>7. CASE Change
  BY <1>7 DEF Change
<1>8. CASE Restart
  BY <1>8 DEF Restart
<1>9. CASE Pass
  BY <1>9, LaterIs DEF Pass
<1>10. CASE UNCHANGED vars
  BY <1>10 DEF vars
<1> QED BY <1>1, <1>2, <1>3, <1>4, <1>5, <1>6, <1>7, <1>8, <1>9, <1>10, Zenon
        DEF Next, Loop

LEMMA TypeInit == Init => TypeOK
BY TelemetryOK DEF TelemetryOK, Init, TypeOK, Answers

(***************************************************************************)
(* Every variable has its type; the tick is never ahead by more than a     *)
(* period.                                                                 *)
(***************************************************************************)
THEOREM TypeCorrect == Spec => []TypeOK
BY TypeInit, TypeStep, PTL DEF Spec

-------------------------------------------------------------------------------
(* The payload under way was collected after the tick, and one that is accepted
   within the time that a push takes. *)
PushOK == pc = "push" =>
    /\ stamp <= lag + Period
    /\ answer = "accepts" => stamp <= spent /\ spent <= Work

LEMMA PushStep == TypeOK /\ PushOK /\ [Next]_vars => PushOK'
<1> SUFFICES ASSUME TypeOK, PushOK, [Next]_vars, pc' = "push" PROVE PushOK'
  BY DEF PushOK
<1> USE TelemetryOK DEF TelemetryOK, TypeOK, PushOK, host, clocks
<1>1. CASE CollectGpu
  BY <1>1 DEF CollectGpu
<1>2. CASE Change
  BY <1>2 DEF Change
<1>3. CASE Pass
  <2>1. /\ stamp' <= stamp + 1 /\ stamp' <= Horizon
        /\ lag < Horizon => lag' = lag + 1
        /\ lag' >= lag /\ lag' <= Horizon
        /\ spent' >= spent
        /\ spent < Horizon => spent' = spent + 1
        /\ pc = "push" /\ answer' = answer /\ Waits
    BY <1>3, LaterIs DEF Pass
  <2>2. stamp' <= lag' + Period
    BY <1>3, <2>1, TypeStep DEF Pass
  <2>3. answer = "accepts" => stamp' <= spent' /\ spent' <= Work
    BY <2>1, LaterIs, <1>3 DEF Waits, Pass
  <2> QED BY <2>1, <2>2, <2>3
<1>4. CASE UNCHANGED vars
  BY <1>4 DEF vars
<1>5. Tick \/ Collect \/ CollectFails \/ Pushed \/ PushFails \/ Restart => pc' # "push"
  BY DEF Tick, Collect, CollectFails, Pushed, PushFails, Restart
<1> QED BY <1>1, <1>2, <1>3, <1>4, <1>5, Zenon DEF Next, Loop

-------------------------------------------------------------------------------
(* How long it takes at most, while all is well, until the backend has its next
   payload: what is left of the request under way, if it is going to fail, or
   until the tick is due, whichever is longer, and what is left of a round. *)
Left(limit) == IF spent < limit THEN limit - spent ELSE 0
Wait        == IF lag < 0 THEN -lag ELSE 0
Limit       == IF answer = "silent" THEN Timeout ELSE Work
Doomed      == pc \in {"collect", "push"} /\ answer # "accepts"

Remaining ==
    IF pc = "tick" THEN Wait + 2 * Work
    ELSE IF Doomed THEN (IF Left(Limit) > Wait THEN Left(Limit) ELSE Wait) + 2 * Work
    ELSE IF pc = "push" THEN Left(Work)
    ELSE Left(Work) + Work

(* While all is well there is time left for the first payload, or the last one
   will not be too old when the next comes. *)
FreshInv ==
    /\ calm > 0 => Well
    /\ Well => \/ calm + Remaining <= Recovery
               \/ age + Remaining <= Period + 2 * Work

LEMMA RemainingIs ==
    TypeOK => /\ Remaining \in Int /\ Remaining >= 0 /\ Remaining <= Recovery
              /\ Recovery \in Nat
BY TelemetryOK DEF TelemetryOK, TypeOK, Remaining, Left, Wait, Limit, Doomed, Recovery

LEMMA RemainingStays ==
    TypeOK' => Remaining' \in Int /\ Remaining' <= Recovery'
<1> DEFINE Bounded == TypeOK => Remaining \in Int /\ Remaining <= Recovery
<1>1. Bounded
  BY RemainingIs
<1> HIDE DEF Bounded
<1>2. Bounded'
  BY <1>1, PTL
<1> QED BY <1>2 DEF Bounded

(* A step of the loop does not put the next payload off, but for the one that
   delivers it. *)
LEMMA LoopRemains ==
    ASSUME TypeOK, Well, Tick \/ Collect \/ CollectFails \/ CollectGpu \/ PushFails
    PROVE  Remaining' <= Remaining /\ UNCHANGED <<calm, age, host>>
<1> USE TelemetryOK DEF TelemetryOK, TypeOK, Remaining, Left, Wait, Limit, Doomed,
                        host, clocks, Well
<1>1. CASE Tick
  BY <1>1 DEF Tick
<1>2. CASE Collect
  BY <1>2 DEF Collect
<1>3. CASE CollectFails
  BY <1>3 DEF CollectFails, Failed
<1>4. CASE CollectGpu
  BY <1>4 DEF CollectGpu
<1>5. CASE PushFails
  BY <1>5 DEF PushFails, Failed
<1> QED BY <1>1, <1>2, <1>3, <1>4, <1>5

(* Time that passes brings it nearer. *)
LEMMA PassBrings ==
    ASSUME TypeOK, Well, Pass
    PROVE  Remaining' + 1 <= Remaining /\ age' <= age + 1 /\ calm' <= calm + 1
<1> USE TelemetryOK DEF TelemetryOK, TypeOK
<1>1. age' <= age + 1 /\ calm' <= calm + 1
  BY LaterIs DEF Pass
<1>2. /\ lag' = Later(lag) /\ spent' = Later(spent) /\ UNCHANGED <<pc, answer>>
      /\ Waits /\ gpu
  BY DEF Pass, Well
<1>3. /\ lag' \in Int /\ lag' >= lag /\ (lag < 0 => lag' = lag + 1)
      /\ spent' \in Int /\ (spent < Timeout \/ spent < Work => spent' = spent + 1)
  BY <1>2, LaterIs
<1>4. CASE pc = "tick"
  BY <1>1, <1>2, <1>3, <1>4 DEF Waits, Remaining, Wait, Left, Limit, Doomed
<1>5. CASE Doomed
  BY <1>1, <1>2, <1>3, <1>5 DEF Waits, Remaining, Wait, Left, Limit, Doomed
<1>6. CASE pc # "tick" /\ ~Doomed
  BY <1>1, <1>2, <1>3, <1>6 DEF Waits, Remaining, Wait, Left, Limit, Doomed
<1> QED BY <1>1, <1>4, <1>5, <1>6

(* The arithmetic of both, for any numbers: r and s for Remaining. *)
LEMMA Unmoved ==
    ASSUME NEW c \in Int, NEW a \in Int, NEW r \in Int, NEW s \in Int,
           NEW k \in Int, NEW m \in Int, c + r <= k \/ a + r <= m, s <= r
    PROVE  c + s <= k \/ a + s <= m
OBVIOUS

LEMMA Nearer ==
    ASSUME NEW c \in Int, NEW a \in Int, NEW r \in Int, NEW s \in Int,
           NEW k \in Int, NEW m \in Int, c + r <= k \/ a + r <= m,
           NEW d \in Int, NEW b \in Int, d <= c + 1, b <= a + 1, s + 1 <= r
    PROVE  d + s <= k \/ b + s <= m
OBVIOUS

LEMMA FreshStep == TypeOK /\ PushOK /\ FreshInv /\ [Next]_vars => FreshInv'
<1> SUFFICES ASSUME TypeOK, PushOK, FreshInv, [Next]_vars PROVE FreshInv'
  OBVIOUS
<1>a. TypeOK'
  BY TypeStep
<1>b. Recovery' = Recovery
  BY DEF Recovery
<1>c. Remaining \in Int /\ Remaining' \in Int
  BY <1>a, RemainingIs, RemainingStays
<1>d. /\ calm \in Int /\ calm' \in Int /\ age \in Int /\ age' \in Int
      /\ Recovery \in Int
  BY <1>a, RemainingIs DEF TypeOK
<1>1. CASE Tick \/ Collect \/ CollectFails \/ CollectGpu \/ PushFails
  <2>1. UNCHANGED calm /\ (Well' <=> Well)
    BY <1>1 DEF Tick, Collect, CollectFails, CollectGpu, PushFails, clocks, host, Well
  <2>2. Well => Remaining' <= Remaining /\ UNCHANGED <<calm, age>>
    BY <1>1, LoopRemains
  <2>3. Well => \/ calm' + Remaining' <= Recovery'
                \/ age' + Remaining' <= Period + 2 * Work
    <3> DEFINE bound == Period + 2 * Work
    <3> HIDE DEF bound
    <3>1. Well => calm + Remaining <= Recovery \/ age + Remaining <= bound
      BY DEF FreshInv, bound
    <3>2. bound \in Int
      BY TelemetryOK DEF TelemetryOK, bound
    <3>3. Well => calm' + Remaining' <= Recovery \/ age' + Remaining' <= bound
      <4> SUFFICES ASSUME Well
                   PROVE  calm' + Remaining' <= Recovery \/ age' + Remaining' <= bound
        OBVIOUS
      <4>1. calm + Remaining <= Recovery \/ age + Remaining <= bound
        BY <3>1
      <4>2. Remaining' <= Remaining /\ calm' = calm /\ age' = age
        BY <2>2
      <4> QED BY <1>c, <1>d, <3>2, <4>1, <4>2, Unmoved, Zenon
    <3> QED BY <1>b, <3>3 DEF bound
  <2> QED BY <2>1, <2>3 DEF FreshInv
<1>2. CASE Pushed
  <2>1. /\ pc = "push" /\ pc' = "tick" /\ answer = "accepts" /\ age' = stamp
        /\ UNCHANGED <<lag, calm>> /\ (Well' <=> Well)
    BY <1>2 DEF Pushed, host, Well
  <2>2. stamp <= lag + Period /\ stamp <= Work
    BY <2>1, TelemetryOK DEF PushOK, TelemetryOK, TypeOK
  <2>3. age' + Remaining' <= Period + 2 * Work
    BY <2>1, <2>2, TelemetryOK DEF TelemetryOK, TypeOK, Remaining, Wait
  <2> QED BY <2>1, <2>3 DEF FreshInv
<1>3. CASE Change \/ Restart
  <2>1. calm' = 0
    BY <1>3 DEF Change, Restart
  <2>2. Remaining' <= Recovery'
    BY <1>a, RemainingStays
  <2> QED BY <1>c, <2>1, <2>2 DEF FreshInv
<1>4. CASE Pass
  <2>1. (Well' <=> Well) /\ (calm' > 0 => Well)
    BY <1>4 DEF Pass, host, Well
  <2>2. Well => /\ Remaining' + 1 <= Remaining
                /\ age' <= age + 1 /\ calm' <= calm + 1
    BY <1>4, PassBrings
  <2>3. Well => \/ calm' + Remaining' <= Recovery'
                \/ age' + Remaining' <= Period + 2 * Work
    <3> DEFINE bound == Period + 2 * Work
    <3> HIDE DEF bound
    <3>1. Well => calm + Remaining <= Recovery \/ age + Remaining <= bound
      BY DEF FreshInv, bound
    <3>2. bound \in Int
      BY TelemetryOK DEF TelemetryOK, bound
    <3>3. Well => calm' + Remaining' <= Recovery \/ age' + Remaining' <= bound
      <4> SUFFICES ASSUME Well
                   PROVE  calm' + Remaining' <= Recovery \/ age' + Remaining' <= bound
        OBVIOUS
      <4>1. calm + Remaining <= Recovery \/ age + Remaining <= bound
        BY <3>1
      <4>2. Remaining' + 1 <= Remaining /\ age' <= age + 1 /\ calm' <= calm + 1
        BY <2>2
      <4> QED BY <1>c, <1>d, <3>2, <4>1, <4>2, Nearer, Zenon
    <3> QED BY <1>b, <3>3 DEF bound
  <2> QED BY <2>1, <2>3 DEF FreshInv
<1>5. CASE UNCHANGED vars
  BY <1>5 DEF vars, clocks, host, FreshInv, Well, Remaining, Left, Wait, Limit, Doomed,
              Recovery
<1> QED BY <1>1, <1>2, <1>3, <1>4, <1>5, Zenon DEF Next, Loop

LEMMA FreshCorrect == Spec => [](TypeOK /\ FreshInv)
<1>1. Init => PushOK
  BY DEF Init, PushOK
<1>2. Init => FreshInv
  <2> SUFFICES ASSUME Init PROVE FreshInv
    OBVIOUS
  <2>1. calm = 0 /\ TypeOK
    BY TypeInit DEF Init
  <2> QED BY <2>1, RemainingIs DEF FreshInv
<1> QED BY <1>1, <1>2, TypeInit, TypeStep, PushStep, FreshStep, PTL DEF Spec

(***************************************************************************)
(* Once all has been well for long enough, what the backend has is never   *)
(* older than a period and a round, whatever failed or hung before, and    *)
(* however many ticks that has left due.                                   *)
(***************************************************************************)
THEOREM FreshAlways == Spec => []Fresh
<1>1. TypeOK /\ FreshInv => Fresh
  <2> SUFFICES ASSUME TypeOK, FreshInv, calm > Recovery
               PROVE  age <= Period + 2 * Work
    BY DEF Fresh
  <2>1. Remaining \in Int /\ Remaining >= 0 /\ Recovery \in Nat
    BY RemainingIs
  <2>2. calm \in Int /\ age \in Int
    BY DEF TypeOK
  <2>3. Well
    BY <2>1, <2>2 DEF FreshInv
  <2> QED BY <2>1, <2>2, <2>3, TelemetryOK DEF FreshInv, TelemetryOK
<1> QED BY <1>1, FreshCorrect, PTL

-------------------------------------------------------------------------------
(***************************************************************************)
(* Liveness.  The weak fairness of Pass and Loop is stated with guards in  *)
(* the place of ENABLED, of which the provers have no notion: Pass moves a *)
(* clock whenever the loop waits for something that comes, and some step   *)
(* of Loop that changes a variable can be taken in every state of CanLoop. *)
(***************************************************************************)
CanPass == Waits /\ (pc = "gpu" => gpu)
CanLoop == \/ pc = "tick" /\ lag >= 0
           \/ pc = "gpu" /\ gpu
           \/ pc \in {"collect", "push"} /\ (answer = "accepts" \/ Failed)

PassFair == []<>~CanPass \/ []<><<Pass>>_vars
LoopFair == []<>~CanLoop \/ []<><<Loop>>_vars

OnSchedule == pc = "tick" /\ lag < 0
Behind     == calm > 0 /\ ~OnSchedule

(* While all is well: the time that the round under way may still take, and its
   steps; and how far the loop will be behind after the round, at most. *)
TimeLeft == IF pc = "tick" THEN 0
            ELSE IF pc = "push" THEN Left(Limit)
            ELSE IF Doomed THEN Left(Limit) + 2 * Work ELSE Left(Work) + Work
StepsLeft == IF pc = "tick" THEN 0
             ELSE IF pc = "push" THEN 1
             ELSE IF pc = "gpu" THEN 2
             ELSE IF Doomed THEN 4 ELSE 3
RoundLeft == TimeLeft + StepsLeft
Backlog   == lag + Period + TimeLeft

LEMMA LeftTyped == TypeOK => RoundLeft \in Nat /\ Backlog \in Nat
BY TelemetryOK DEF TelemetryOK, TypeOK, RoundLeft, Backlog, TimeLeft, StepsLeft,
                   Left, Limit, Doomed

(* A tick brings the schedule nearer by a period, of which the round takes a
   part only; no other step of the loop puts it off, nor does time. *)
BacklogFalls == /\ Backlog' <= Backlog
                /\ Tick => Backlog' < Backlog

(* Within the round time and steps run out. *)
RoundFalls == Tick \/ RoundLeft' < RoundLeft

LEMMA BehindStep ==
    ASSUME TypeOK, TypeOK', FreshInv, Behind, Behind', Next
    PROVE  BacklogFalls /\ RoundFalls
<1>1. Well /\ (Loop \/ Pass)
  BY DEF FreshInv, Behind, Next, Change, Restart, TypeOK
<1> USE TelemetryOK DEF TelemetryOK, TypeOK, Well, host, clocks, BacklogFalls,
        RoundFalls, Backlog, RoundLeft, TimeLeft, StepsLeft, Left, Limit, Doomed
<1>2. CASE Tick
  BY <1>1, <1>2 DEF Tick
<1>3. CASE Collect
  BY <1>1, <1>3 DEF Collect, Tick
<1>4. CASE CollectFails
  BY <1>1, <1>4 DEF CollectFails, Failed, Tick
<1>5. CASE CollectGpu
  BY <1>1, <1>5 DEF CollectGpu, Tick
<1>6. CASE Pushed
  BY <1>1, <1>6 DEF Pushed, Tick
<1>7. CASE PushFails
  BY <1>1, <1>7 DEF PushFails, Failed, Tick
<1>8. CASE Pass
  <2>1. /\ lag' = Later(lag) /\ spent' = Later(spent) /\ UNCHANGED <<pc, answer>>
        /\ Waits /\ gpu
    BY <1>1, <1>8 DEF Pass
  <2>2. /\ lag' \in Int /\ lag' >= lag /\ lag' <= lag + 1
        /\ spent' \in Int /\ (spent < Timeout \/ spent < Work => spent' = spent + 1)
    BY <2>1, LaterIs
  <2>3. pc # "tick" /\ ~Tick
    BY <2>1 DEF Behind, OnSchedule, Waits, Tick
  <2> QED BY <2>1, <2>2, <2>3 DEF Waits
<1> QED BY <1>1, <1>2, <1>3, <1>4, <1>5, <1>6, <1>7, <1>8 DEF Loop

LEMMA BehindMoves == TypeOK /\ FreshInv /\ Behind => CanPass \/ CanLoop
<1> SUFFICES ASSUME TypeOK, FreshInv, Behind, ~CanLoop PROVE CanPass
  OBVIOUS
<1>1. gpu /\ lag \in Int /\ spent \in Int
  BY DEF FreshInv, Behind, Well, TypeOK
<1>2. pc \in {"collect", "push"} /\ answer = "silent" /\ ~(spent >= Timeout)
  BY <1>1 DEF TypeOK, Answers, Behind, OnSchedule, CanLoop, Failed
<1>3. spent < Timeout
  BY <1>1, <1>2, TelemetryOK DEF TelemetryOK
<1> QED BY <1>2, <1>3 DEF CanPass, Waits

(* Once all stays well the loop is on its schedule again and again, however   *)
(* many ticks are due, whatever request is still to time out: a tick that is  *)
(* made up for takes the schedule a period nearer, and its round takes less.  *)
THEOREM CatchesUpAlways ==
    Spec /\ PassFair /\ LoopFair /\ Settles(Backlog) /\ Settles(RoundLeft)
        => CatchesUp
<1> DEFINE Inv  == TypeOK /\ FreshInv
           Fair == PassFair /\ LoopFair /\ Settles(RoundLeft)
           Held(m) == <>[](Backlog = m)
<1> HIDE DEF Fair, Held
<1>1. Spec => []Inv /\ [][Next]_vars
  BY FreshCorrect, PTL DEF Spec
<1>2. Inv /\ Inv' /\ [Next]_vars /\ Behind /\ Behind'
          => [Backlog' <= Backlog]_Backlog
  <2>1. UNCHANGED vars => Backlog' = Backlog
    BY DEF vars, clocks, Backlog, TimeLeft, Left, Limit, Doomed
  <2> QED BY <2>1, BehindStep DEF BacklogFalls
<1>3. Spec => [](Backlog \in Nat)
  BY <1>1, LeftTyped, PTL
<1>4. Spec /\ <>[]Behind => <>[][Backlog' <= Backlog]_Backlog
  BY <1>1, <1>2, PTL
<1>5. Spec /\ Settles(Backlog) /\ <>[]Behind => \E n \in Nat : <>[](Backlog = n)
  BY <1>3, <1>4 DEF Settles
<1>6. ASSUME NEW m \in Nat
      PROVE  Spec /\ Fair /\ <>[](Backlog = m) => []<>~Behind
  <2> DEFINE Level == Backlog = m
             Typed == RoundLeft \in Nat
  <2>1. Inv /\ Inv' /\ [Next]_vars /\ Behind /\ Behind' /\ Level /\ Level'
            => RoundLeft' < RoundLeft \/ UNCHANGED vars
    <3> SUFFICES ASSUME Inv, Inv', Next, Behind, Behind', Level, Level'
                 PROVE  RoundLeft' < RoundLeft
      OBVIOUS
    <3>1. ~Tick
      BY BehindStep, LeftTyped DEF BacklogFalls
    <3> QED BY <3>1, BehindStep DEF RoundFalls
  <2>2. UNCHANGED vars => RoundLeft' = RoundLeft
    BY DEF vars, clocks, RoundLeft, TimeLeft, StepsLeft, Left, Limit, Doomed
  <2>3. Typed /\ Typed' /\ (RoundLeft' < RoundLeft \/ UNCHANGED vars)
            => [RoundLeft' <= RoundLeft]_RoundLeft
    BY <2>2
  <2>4. Spec => []Typed
    BY <1>1, LeftTyped, PTL
  <2>5. Spec /\ <>[]Behind /\ <>[]Level => <>[][RoundLeft' <= RoundLeft]_RoundLeft
    BY <1>1, <2>1, <2>3, <2>4, PTL
  <2>6. Spec /\ <>[]Level /\ Settles(RoundLeft) /\ <>[]Behind
            => \E n \in Nat : <>[](RoundLeft = n)
    BY <2>4, <2>5 DEF Settles
  <2>7. ASSUME NEW n \in Nat
        PROVE  Spec /\ PassFair /\ LoopFair /\ <>[](Backlog = m)
                    /\ <>[](RoundLeft = n) => []<>~Behind
    <3> DEFINE Still == RoundLeft = n
    <3>1. Still /\ Still' => ~(RoundLeft' < RoundLeft)
      OBVIOUS
    <3>2. UNCHANGED vars => /\ CanPass => CanPass'
                            /\ CanLoop => CanLoop'
      BY DEF vars, clocks, host, CanPass, CanLoop, Waits, Failed
    <3>3. <<Pass>>_vars \/ <<Loop>>_vars => ~UNCHANGED vars
      OBVIOUS
    <3> QED BY <1>1, <2>1, <3>1, <3>2, <3>3, BehindMoves, PTL DEF PassFair, LoopFair
  <2>8. Spec /\ PassFair /\ LoopFair /\ <>[](Backlog = m)
             /\ (\E n \in Nat : <>[](RoundLeft = n)) => []<>~Behind
    BY <2>7
  <2> QED BY <2>6, <2>8, PTL DEF Fair
<1>7. ASSUME NEW m \in Nat PROVE Spec /\ Fair /\ Held(m) => []<>~Behind
  BY <1>6 DEF Held
<1>8. Spec /\ Fair /\ (\E n \in Nat : Held(n)) => []<>~Behind
  BY <1>7
<1>9. Spec /\ Settles(Backlog) /\ <>[]Behind => \E n \in Nat : Held(n)
  BY <1>5 DEF Held
<1>10. Spec /\ PassFair /\ LoopFair /\ Settles(Backlog) /\ Settles(RoundLeft) => ~<>[]Behind
  BY <1>8, <1>9, PTL DEF Fair
<1>11. ([]<>OnSchedule \/ <>[]~OnSchedule) /\ (<>[](calm > 0) /\ <>[]~OnSchedule => <>[]Behind)
  BY PTL DEF Behind
<1> QED BY <1>10, <1>11, PTL DEF CatchesUp, OnSchedule
===============================================================================
