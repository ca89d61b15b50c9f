---------------------------- MODULE CmdAuth_proofs ----------------------------
(***************************************************************************)
(* Proofs about CmdAuth, for any window and time to live, any difference   *)
(* of the clocks, and any number of requests and handlers.                 *)
(***************************************************************************)
EXTENDS CmdAuth, TLAPS

LEMMA TypeStep == TypeOK /\ [Next]_vars => TypeOK'
<1> SUFFICES ASSUME TypeOK, [Next]_vars PROVE TypeOK'
  OBVIOUS
<1> USE TimesOK DEF TypeOK, handlerVars, cacheVars, Leave
<1>1. CASE UNCHANGED vars
  BY <1>1 DEF vars
<1>2. CASE Tick
  BY <1>2 DEF Tick
<1>3. ASSUME NEW r \in Requests, Sign(r) PROVE TypeOK'
  BY <1>3 DEF Sign
<1>4. ASSUME NEW h \in Handlers, require_cmd_auth(h) PROVE TypeOK'
  <2>1. ASSUME NEW r \in Requests, Arrive(h, r) PROVE TypeOK'
    BY <2>1 DEF Arrive
  <2>2. CASE ReadClock(h)
    BY <2>2 DEF ReadClock
  <2>3. CASE CheckNonce(h)
    <3>1. Retained(clock[h]) \in [Requests -> Int \union {None}]
      BY DEF Retained
    <3>2. req[h] \in Requests /\ clock[h] + Ttl \in Int /\ now \in Nat
      BY <2>3 DEF CheckNonce
    <3>3. cache' \in [Requests -> Int \union {None}]
      BY <2>3, <3>1, <3>2 DEF CheckNonce, Enter
    <3>4. entered' \in [Requests -> Nat]
      BY <2>3, <3>2 DEF CheckNonce, Enter
    <3>5. held' \in [Requests -> Nat] /\ swept' \in Nat
      <4>1. ASSUME NEW n \in Nat PROVE Later(n, now - seen[h]) \in Nat
        BY DEF Later
      <4> QED BY <2>3, <3>2, <4>1 DEF CheckNonce, Observe, Later
    <3> QED BY <2>3, <3>3, <3>4, <3>5 DEF CheckNonce
  <2>4. CASE Proceed(h)
    BY <2>4 DEF Proceed
  <2>5. CASE Refuse(h)
    BY <2>5 DEF Refuse
  <2> QED BY <1>4, <2>1, <2>2, <2>3, <2>4, <2>5 DEF require_cmd_auth
<1>5. CASE Restart
  BY <1>5 DEF Restart
<1> QED BY <1>1, <1>2, <1>3, <1>4, <1>5 DEF Next

(* Every variable keeps its type, and a handler at work has a signed request. *)
THEOREM TypeCorrect == Spec => []TypeOK
<1>1. Init => TypeOK
  BY DEF Init, TypeOK
<1> QED BY <1>1, TypeStep, PTL DEF Spec

-------------------------------------------------------------------------------
(***************************************************************************)
(* Why a request runs once.  A copy of r that is between its checks came   *)
(* after r was signed and within its window (Prompt).  So a request that   *)
(* passed the nonce check was entered until Ttl after it was signed: its   *)
(* nonce is there, or that time has passed (Remembered).  A copy that      *)
(* finds no nonce then was checked held[r] or less before, in the window:  *)
(* r is not InTime.                                                        *)
(***************************************************************************)
Passed(r) == ran[r] > 0 \/ \E h \in Handlers : pc[h] = "body" /\ req[h] = r

Until(r) == stamp[r] - skew[r] + Ttl

Stamps == \A r \in Requests : stamp[r] # None => stamp[r] - skew[r] <= now

Prompt == \A h \in Handlers :
    /\ pc[h] \in {"clock", "lock"} =>
          /\ seen[h] <= now
          /\ seen[h] <= stamp[req[h]] + Window
          /\ stamp[req[h]] - skew[req[h]] <= seen[h]
    /\ pc[h] = "lock" => seen[h] <= clock[h] /\ clock[h] <= now

Remembered == \A r \in Requests : Passed(r) =>
    /\ stamp[r] # None
    /\ \/ cache[r] # None /\ cache[r] >= Until(r)
       \/ now >= Until(r)

RunsOnce ==
    /\ \A r \in Requests : InTime(r) => ran[r] <= 1
    /\ \A h \in Handlers : pc[h] = "body" /\ InTime(req[h]) => ran[req[h]] = 0

OnceInv == Stamps /\ Prompt /\ Remembered /\ RunsOnce /\ OneCopyPasses

LEMMA StampsStep == TypeOK /\ Stamps /\ [Next]_vars => Stamps'
<1> SUFFICES ASSUME TypeOK, Stamps, [Next]_vars PROVE Stamps'
  OBVIOUS
<1> USE TimesOK DEF TypeOK, Stamps, handlerVars, cacheVars
<1>1. CASE UNCHANGED vars
  BY <1>1 DEF vars
<1>2. CASE Tick
  BY <1>2 DEF Tick
<1>3. ASSUME NEW r \in Requests, Sign(r) PROVE Stamps'
  BY <1>3 DEF Sign
<1>4. ASSUME NEW h \in Handlers, require_cmd_auth(h) PROVE Stamps'
  BY <1>4 DEF require_cmd_auth, Arrive, ReadClock, CheckNonce, Proceed, Refuse
<1>5. CASE Restart
  BY <1>5 DEF Restart
<1> QED BY <1>1, <1>2, <1>3, <1>4, <1>5 DEF Next

LEMMA PromptStep == TypeOK /\ Stamps /\ Prompt /\ [Next]_vars => Prompt'
<1> SUFFICES ASSUME TypeOK, Stamps, Prompt, [Next]_vars PROVE Prompt'
  OBVIOUS
<1> USE TimesOK DEF TypeOK, Stamps, Prompt, handlerVars, cacheVars, Leave
<1>1. CASE UNCHANGED vars
  BY <1>1 DEF vars
<1>2. CASE Tick
  BY <1>2 DEF Tick
<1>3. ASSUME NEW r \in Requests, Sign(r) PROVE Prompt'
  <2>1. \A h \in Handlers : pc[h] # "idle" =>
           /\ stamp'[req[h]] = stamp[req[h]]
           /\ skew'[req[h]] = skew[req[h]]
    BY <1>3 DEF Sign
  <2> QED BY <1>3, <2>1 DEF Sign
<1>4. ASSUME NEW h \in Handlers, require_cmd_auth(h) PROVE Prompt'
  <2>1. ASSUME NEW r \in Requests, Arrive(h, r) PROVE Prompt'
    <3>1. stamp[r] \in Int /\ stamp[r] - skew[r] <= now /\ now <= stamp[r] + Window
      BY <2>1 DEF Arrive
    <3>2. pc'[h] = "clock" /\ req'[h] = r /\ seen'[h] = now
      BY <2>1 DEF Arrive
    <3>3. \A g \in Handlers : g # h =>
             pc'[g] = pc[g] /\ req'[g] = req[g] /\ seen'[g] = seen[g]
      BY <2>1 DEF Arrive
    <3>4. UNCHANGED <<now, stamp, skew, clock>>
      BY <2>1 DEF Arrive
    <3> QED BY <3>1, <3>2, <3>3, <3>4
  <2>2. CASE ReadClock(h)
    BY <2>2 DEF ReadClock
  <2>3. CASE CheckNonce(h) \/ Proceed(h) \/ Refuse(h)
    BY <2>3 DEF CheckNonce, Proceed, Refuse
  <2> QED BY <1>4, <2>1, <2>2, <2>3 DEF require_cmd_auth
<1>5. CASE Restart
  BY <1>5 DEF Restart
<1> QED BY <1>1, <1>2, <1>3, <1>4, <1>5 DEF Next

(* What no handler's step but the critical section and the execution touches. *)
LEMMA OtherSteps ==
    ASSUME TypeOK, Remembered, RunsOnce, OneCopyPasses,
           UNCHANGED <<cache, ran, held>>,
           now <= now',
           \A h \in Handlers :
               pc'[h] = "body" => pc[h] = "body" /\ req'[h] = req[h],
           \A r \in Requests :
               stamp[r] # None => stamp'[r] = stamp[r] /\ skew'[r] = skew[r],
           now' \in Nat
    PROVE  Remembered' /\ RunsOnce' /\ OneCopyPasses'
<1>1. \A r \in Requests : Passed(r)' => Passed(r)
  BY DEF Passed
<1>2. Remembered'
  <2> SUFFICES ASSUME NEW r \in Requests, Passed(r)'
               PROVE  /\ stamp'[r] # None
                      /\ \/ cache'[r] # None /\ cache'[r] >= Until(r)'
                         \/ now' >= Until(r)'
    BY DEF Remembered
  <2>1. /\ stamp[r] # None /\ stamp'[r] = stamp[r] /\ skew'[r] = skew[r]
        /\ cache'[r] = cache[r]
        /\ \/ cache[r] # None /\ cache[r] >= stamp[r] - skew[r] + Ttl
           \/ now >= stamp[r] - skew[r] + Ttl
    BY <1>1 DEF Remembered, Until
  <2>2. /\ stamp[r] \in Int /\ skew[r] \in Int /\ Ttl \in Int
        /\ now \in Nat
    BY <2>1, TimesOK DEF TypeOK
  <2> QED BY <2>1, <2>2 DEF Until
<1>3. \A r \in Requests : Passed(r) => (InTime(r)' => InTime(r))
  BY DEF Remembered, InTime
<1>4. RunsOnce'
  <2>1. \A r \in Requests : ~Passed(r) => ran[r] = 0
    BY DEF Passed, TypeOK
  <2>2. \A r \in Requests : InTime(r)' => ran'[r] <= 1
    BY <1>3, <2>1 DEF RunsOnce, TypeOK
  <2>3. \A h \in Handlers : pc'[h] = "body" /\ InTime(req[h])' => ran'[req[h]] = 0
    BY <1>3 DEF RunsOnce, TypeOK, Passed
  <2> QED BY <2>2, <2>3 DEF RunsOnce, InTime
<1>5. OneCopyPasses'
  BY <1>3 DEF OneCopyPasses, TypeOK, Passed, InTime
<1> QED BY <1>2, <1>4, <1>5

LEMMA OnceStep == TypeOK /\ OnceInv /\ [Next]_vars => OnceInv'
<1> SUFFICES ASSUME TypeOK, OnceInv, [Next]_vars
             PROVE  Remembered' /\ RunsOnce' /\ OneCopyPasses'
  BY StampsStep, PromptStep DEF OnceInv
<1> USE DEF OnceInv
<1>0. TypeOK'
  BY TypeStep
<1>1. CASE UNCHANGED vars
  BY <1>1 DEF vars, handlerVars, cacheVars, Remembered, RunsOnce, OneCopyPasses,
              Passed, InTime, Until
<1>2. CASE Tick
  BY <1>0, <1>2, OtherSteps DEF Tick, TypeOK, handlerVars, cacheVars
<1>3. ASSUME NEW r \in Requests, Sign(r)
      PROVE  Remembered' /\ RunsOnce' /\ OneCopyPasses'
  BY <1>0, <1>3, OtherSteps DEF Sign, TypeOK, handlerVars, cacheVars
<1>4. ASSUME NEW h \in Handlers, require_cmd_auth(h)
      PROVE  Remembered' /\ RunsOnce' /\ OneCopyPasses'
  <2>1. ASSUME NEW r \in Requests, Arrive(h, r)
        PROVE  Remembered' /\ RunsOnce' /\ OneCopyPasses'
    BY <1>0, <2>1, OtherSteps DEF Arrive, TypeOK, Leave, cacheVars
  <2>2. CASE ReadClock(h)
    BY <1>0, <2>2, OtherSteps DEF ReadClock, TypeOK, Leave, cacheVars
  <2>3. CASE Refuse(h)
    BY <1>0, <2>3, OtherSteps DEF Refuse, TypeOK, Leave, cacheVars
  <2>4. CASE Proceed(h)
    <3> DEFINE s == req[h]
    <3>1. /\ pc[h] = "body" /\ s \in Requests
          /\ ran' = [ran EXCEPT ![s] = @ + 1]
          /\ pc' = [pc EXCEPT ![h] = "idle"]
          /\ UNCHANGED <<now, stamp, skew, req, cache, held>>
      BY <2>4 DEF Proceed, Leave, cacheVars, TypeOK
    <3>2. \A r \in Requests : Passed(r)' => Passed(r)
      BY <3>1 DEF Passed, TypeOK
    <3>3. Remembered'
      BY <3>1, <3>2 DEF Remembered, Until
    <3>4. \A r \in Requests : InTime(r)' = InTime(r)
      BY <3>1 DEF InTime
    <3>5. \A g \in Handlers :
             /\ pc'[g] = "body" => pc[g] = "body" /\ g # h
             /\ pc[g] = "body" => req[g] \in Requests
      BY <3>1 DEF TypeOK
    <3>6. \A g \in Handlers : pc'[g] = "body" /\ InTime(req[g]) => req[g] # s
      BY <3>1, <3>5 DEF OneCopyPasses
    <3>7. \A r \in Requests : InTime(r) => ran'[r] <= 1
      BY <3>1 DEF RunsOnce, TypeOK
    <3>8. \A g \in Handlers :
             pc'[g] = "body" /\ InTime(req[g]) => ran'[req[g]] = 0
      BY <3>1, <3>5, <3>6 DEF RunsOnce, TypeOK
    <3>9. RunsOnce'
      BY <3>1, <3>4, <3>5, <3>7, <3>8 DEF RunsOnce, InTime
    <3>10. OneCopyPasses'
      BY <3>1, <3>4, <3>5 DEF OneCopyPasses, InTime
    <3> QED BY <3>3, <3>9, <3>10
  <2>5. CASE CheckNonce(h)
    <3> DEFINE s == req[h]
               kept == Retained(clock[h])
    <3>1. /\ pc[h] = "lock" /\ s \in Requests /\ stamp[s] \in Int
          /\ skew[s] \in Int /\ now \in Nat /\ seen[h] \in Nat /\ clock[h] \in Nat
          /\ Window \in Nat /\ Ttl \in Nat
          /\ UNCHANGED <<now, stamp, skew, req, ran>>
          /\ held' = [held EXCEPT ![s] = Later(held[s], now - seen[h])]
      BY <2>5, TimesOK DEF CheckNonce, Observe, TypeOK
    <3>2. /\ clock[h] <= now /\ seen[h] <= clock[h]
          /\ seen[h] <= stamp[s] + Window
          /\ stamp[s] - skew[s] <= seen[h]
      BY <3>1 DEF Prompt
    <3>3. ASSUME NEW r \in Requests, Passed(r)
          PROVE  /\ stamp[r] # None
                 /\ \/ kept[r] # None /\ kept[r] >= Until(r)
                    \/ now >= Until(r)
      <4>1. /\ stamp[r] # None
            /\ \/ cache[r] # None /\ cache[r] >= Until(r)
               \/ now >= Until(r)
        BY <3>3 DEF Remembered
      <4>2. Until(r) \in Int /\ cache[r] \in Int \union {None}
        BY <4>1, <3>1 DEF Until, TypeOK
      <4> QED BY <3>1, <3>2, <4>1, <4>2, TimesOK DEF Retained
    <3>4. \A r \in Requests : InTime(r)' => InTime(r)
      <4> SUFFICES ASSUME NEW r \in Requests PROVE held'[r] >= held[r] /\ held'[r] \in Nat
        BY <3>1 DEF InTime, TypeOK
      <4> QED BY <1>0, <3>1 DEF Later, TypeOK
    <3>5. CASE kept[s] # None /\ cache' = kept /\ pc' = [pc EXCEPT ![h] = "idle"]
      <4>1. \A r \in Requests : Passed(r)' => Passed(r)
        BY <3>1, <3>5 DEF Passed, TypeOK
      <4>2. Remembered'
        BY <3>1, <3>3, <3>5, <4>1 DEF Remembered, Until
      <4>3. \A g \in Handlers : pc'[g] = "body" => pc[g] = "body" /\ req[g] \in Requests
        BY <3>5 DEF TypeOK
      <4>4. RunsOnce'
        BY <3>1, <3>4, <4>3 DEF RunsOnce, InTime
      <4>5. OneCopyPasses'
        BY <3>1, <3>4, <4>3 DEF OneCopyPasses, InTime
      <4> QED BY <4>2, <4>4, <4>5
    <3>6. CASE /\ kept[s] = None
               /\ cache' = [kept EXCEPT ![s] = clock[h] + Ttl]
               /\ pc' = [pc EXCEPT ![h] = "body"]
      <4>1. Passed(s) => ~InTime(s)'
        <5> SUFFICES ASSUME Passed(s) PROVE ~InTime(s)'
          OBVIOUS
        <5>1. now >= stamp[s] - skew[s] + Ttl
          BY <3>1, <3>3, <3>6 DEF Until
        <5>2. held'[s] >= now - seen[h] /\ held'[s] \in Nat
          BY <1>0, <3>1 DEF Later, TypeOK
        <5>3. ~(skew[s] + Window + held'[s] < Ttl)
          BY <3>1, <3>2, <5>1, <5>2
        <5> QED BY <3>1, <5>3 DEF InTime
      <4>2. \A r \in Requests : Passed(r)' => Passed(r) \/ r = s
        BY <3>1, <3>6 DEF Passed, TypeOK
      <4>3. cache'[s] # None /\ cache'[s] >= stamp[s] - skew[s] + Ttl
        <5>1. cache'[s] = clock[h] + Ttl
          BY <3>1, <3>6 DEF Retained
        <5>2. clock[h] + Ttl \in Int
          BY <3>1
        <5> QED BY <3>1, <3>2, <5>1, <5>2, TimesOK
      <4>4. \A r \in Requests : r # s => cache'[r] = kept[r]
        BY <3>6 DEF Retained
      <4>5. Remembered'
        <5> SUFFICES ASSUME NEW r \in Requests, Passed(r)'
                     PROVE  /\ stamp[r] # None
                            /\ \/ cache'[r] # None /\ cache'[r] >= Until(r)
                               \/ now >= Until(r)
          BY <3>1 DEF Remembered, Until
        <5>1. CASE r = s
          BY <3>1, <4>3, <5>1, TimesOK DEF Until
        <5>2. CASE r # s
          BY <3>3, <4>2, <4>4, <5>2
        <5> QED BY <5>1, <5>2
      <4>6. \A g \in Handlers : pc[g] = "body" /\ InTime(s)' => req[g] # s
        BY <4>1 DEF Passed
      <4>7. InTime(s)' => ran[s] = 0
        BY <3>1, <4>1 DEF Passed, TypeOK
      <4>8. \A g \in Handlers : pc'[g] = "body" =>
               \/ g = h
               \/ pc[g] = "body" /\ req[g] \in Requests
        BY <3>6 DEF TypeOK
      <4>9. RunsOnce'
        BY <3>1, <3>4, <4>7, <4>8 DEF RunsOnce, InTime
      <4>10. OneCopyPasses'
        BY <3>1, <3>4, <4>6, <4>8 DEF OneCopyPasses, InTime
      <4> QED BY <4>5, <4>9, <4>10
    <3> QED BY <2>5, <3>5, <3>6 DEF CheckNonce, Enter, Leave
  <2> QED BY <1>4, <2>1, <2>2, <2>3, <2>4, <2>5 DEF require_cmd_auth
<1>5. CASE Restart
  BY <1>5 DEF Restart, Remembered, RunsOnce, OneCopyPasses, Passed, TypeOK
<1> QED BY <1>1, <1>2, <1>3, <1>4, <1>5 DEF Next

LEMMA OnceAlways == Spec => [](TypeOK /\ OnceInv)
<1>1. Init => TypeOK /\ OnceInv
  BY DEF Init, TypeOK, OnceInv, Stamps, Prompt, Remembered, RunsOnce,
         OneCopyPasses, Passed, InTime
<1> QED BY <1>1, TypeStep, OnceStep, PTL DEF Spec

(* A signed request runs at most once while the service runs, as long as the
   difference of the clocks and the handling of its copies stay within the
   margin. *)
THEOREM RunsAtMostOnce == Spec => []AtMostOnce
<1>1. OnceInv => AtMostOnce
  BY DEF OnceInv, RunsOnce, AtMostOnce
<1> QED BY <1>1, OnceAlways, PTL

-------------------------------------------------------------------------------
(* A nonce in the cache expires later than the cache was cleaned to, unless it
   came in when that cleaning was over; and it expires Ttl after it came, or
   before. *)
SweptInv ==
    /\ swept <= now
    /\ \A r \in Requests : cache[r] # None =>
          /\ entered[r] <= now
          /\ cache[r] <= entered[r] + Ttl
          /\ swept < cache[r] \/ swept <= entered[r]

LEMMA SweptStep == TypeOK /\ Prompt /\ SweptInv /\ [Next]_vars => SweptInv'
<1> SUFFICES ASSUME TypeOK, Prompt, SweptInv, [Next]_vars PROVE SweptInv'
  OBVIOUS
<1> USE TimesOK DEF TypeOK, SweptInv, handlerVars, cacheVars
<1>1. CASE UNCHANGED vars
  BY <1>1 DEF vars
<1>2. CASE Tick
  BY <1>2 DEF Tick
<1>3. ASSUME NEW r \in Requests, Sign(r) PROVE SweptInv'
  BY <1>3 DEF Sign
<1>4. ASSUME NEW h \in Handlers, require_cmd_auth(h) PROVE SweptInv'
  <2>1. CASE CheckNonce(h)
    <3> DEFINE s == req[h]
               kept == Retained(clock[h])
    <3>1. /\ s \in Requests /\ clock[h] <= now /\ now' = now
          /\ now \in Nat /\ clock[h] \in Nat /\ swept \in Nat
          /\ swept' = Later(swept, clock[h])
      BY <2>1 DEF CheckNonce, Observe, Prompt
    <3>2. swept' <= now /\ (swept' = swept \/ swept' = clock[h])
      BY <3>1 DEF Later
    <3>3. ASSUME NEW r \in Requests, kept[r] # None
          PROVE  cache[r] # None /\ kept[r] = cache[r] /\ clock[h] < kept[r]
      BY <3>1, <3>3 DEF Retained
    <3>4. ASSUME NEW r \in Requests, cache'[r] # None
          PROVE  \/ cache'[r] = kept[r] /\ entered'[r] = entered[r]
                 \/ cache'[r] = clock[h] + Ttl /\ entered'[r] = now
      BY <2>1, <3>1, <3>4 DEF CheckNonce, Enter, Retained
    <3>5. ASSUME NEW r \in Requests, cache'[r] # None
          PROVE  /\ entered'[r] <= now
                 /\ cache'[r] <= entered'[r] + Ttl
                 /\ swept' < cache'[r] \/ swept' <= entered'[r]
      <4>1. CASE cache'[r] = kept[r] /\ entered'[r] = entered[r]
        BY <3>1, <3>2, <3>3, <3>5, <4>1
      <4>2. CASE cache'[r] = clock[h] + Ttl /\ entered'[r] = now
        BY <3>1, <3>2, <4>2
      <4> QED BY <3>4, <3>5, <4>1, <4>2
    <3> QED BY <3>1, <3>2, <3>5
  <2>2. CASE \/ \E r \in Requests : Arrive(h, r)
             \/ ReadClock(h) \/ Proceed(h) \/ Refuse(h)
    BY <2>2 DEF Arrive, ReadClock, Proceed, Refuse
  <2> QED BY <1>4, <2>1, <2>2 DEF require_cmd_auth
<1>5. CASE Restart
  BY <1>5 DEF Restart
<1> QED BY <1>1, <1>2, <1>3, <1>4, <1>5 DEF Next

(* No nonce outlives a cleaning that comes Ttl or more after it was entered. *)
THEOREM NoncesAreSwept == Spec => []CacheIsSwept
<1>1. Init => SweptInv
  BY DEF Init, SweptInv
<1>2. OnceInv => Prompt
  BY DEF OnceInv
<1>3. TypeOK /\ SweptInv => CacheIsSwept
  BY TimesOK DEF TypeOK, SweptInv, CacheIsSwept
<1> QED BY <1>1, <1>2, <1>3, SweptStep, OnceAlways, PTL DEF Spec
===============================================================================
