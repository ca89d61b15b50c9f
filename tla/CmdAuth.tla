------------------------------- MODULE CmdAuth -------------------------------
(***************************************************************************)
(* require_cmd_auth (middleware/cmd_auth.rs) for a signed write: the       *)
(* timestamp window, the in-memory cache of nonces, then the body and its  *)
(* signature.  Copies of one request may arrive several times and be       *)
(* handled together, on several threads of the runtime.                    *)
(*                                                                         *)
(* Utc::now() is called twice, and the lock is taken later still, so three *)
(* moments matter: the timestamp check, the second reading of the clock,   *)
(* and the critical section.                                               *)
(***************************************************************************)
EXTENDS Integers

CONSTANTS Requests,     \* signed requests, each with a nonce of its own
          Handlers,     \* the handlers that may run together
          Window,       \* how far a timestamp may be from the clock: 5 min
          Ttl,          \* how long a nonce is kept: 6 min
          Skews,        \* bound: by how much the dashboard's clock may differ
          Lag,          \* bound: how long the checks of one copy may take
          MaxTime,      \* bound: the clock stops there
          None          \* no timestamp, no request, no entry

(* Types only: nothing is assumed of how far the clocks are apart, or of how
   long a handler waits for the lock. *)
ASSUME TimesOK == /\ Window \in Nat /\ Ttl \in Nat \ {0}
                  /\ Skews \subseteq Int /\ Lag \in Nat /\ MaxTime \in Nat
                  /\ None \notin Int \union Requests

VARIABLES now,          \* the node's clock
          stamp,        \* X-Nexus-Timestamp of each request, once it is signed
          pc, req,      \* where each handler is, with which request
          seen,         \* its first reading of the clock
          clock,        \* its second
          cache,        \* NONCE_CACHE: the expiry of each nonce, or None
          \* History, of what happened since the service started:
          ran,          \* how often each request was executed
          skew,         \* how far ahead its timestamp was when it was signed
          held,         \* the longest time a copy of it took from its timestamp
                        \* check to the critical section
          entered,      \* when its nonce was entered
          swept         \* the latest time up to which the cache was cleaned

handlerVars == <<pc, req, seen, clock>>
cacheVars == <<cache, held, entered, swept>>
vars == <<now, stamp, skew, handlerVars, cacheVars, ran>>

Init == /\ now = 0
        /\ stamp = [r \in Requests |-> None]
        /\ pc = [h \in Handlers |-> "idle"]
        /\ req = [h \in Handlers |-> None]
        /\ seen = [h \in Handlers |-> 0]
        /\ clock = [h \in Handlers |-> 0]
        /\ cache = [r \in Requests |-> None]
        /\ ran = [r \in Requests |-> 0]
        /\ skew = [r \in Requests |-> 0]
        /\ held = [r \in Requests |-> 0]
        /\ entered = [r \in Requests |-> 0]
        /\ swept = 0

(* Time passes; as a bound, not more than Lag while a handler is between its
   checks. *)
Tick == /\ now < MaxTime
        /\ \A h \in Handlers : pc[h] \in {"clock", "lock"} => now < seen[h] + Lag
        /\ now' = now + 1
        /\ UNCHANGED <<stamp, skew, handlerVars, cacheVars, ran>>

(* The dashboard (external) signs a request with its own clock. *)
Sign(r) == /\ stamp[r] = None
           /\ \E d \in Skews : /\ stamp' = [stamp EXCEPT ![r] = now + d]
                               /\ skew' = [skew EXCEPT ![r] = d]
           /\ UNCHANGED <<now, handlerVars, cacheVars, ran>>

Leave(h, label) == pc' = [pc EXCEPT ![h] = label]

(* A copy of r arrives and passes the gates before the nonce.  One outside
   the window is refused without a trace. *)
Arrive(h, r) ==
    /\ pc[h] = "idle"
    /\ stamp[r] # None
    /\ stamp[r] - Window <= now /\ now <= stamp[r] + Window
    /\ Leave(h, "clock")
    /\ req' = [req EXCEPT ![h] = r]
    /\ seen' = [seen EXCEPT ![h] = now]
    /\ UNCHANGED <<now, stamp, skew, clock, cacheVars, ran>>

ReadClock(h) ==
    /\ pc[h] = "clock"
    /\ Leave(h, "lock")
    /\ clock' = [clock EXCEPT ![h] = now]
    /\ UNCHANGED <<now, stamp, skew, req, seen, cacheVars, ran>>

(* retain: what has expired by the handler's clock is dropped. *)
RetainedAll(t) == cache     \* mutant: nothing is dropped

Retained(t) == [r \in Requests |->
                   IF cache[r] # None /\ cache[r] > t THEN cache[r] ELSE None]

Later(s, t) == IF s < t THEN t ELSE s

(* The history of a critical section: how long this copy took to get there. *)
Observe(h) ==
    /\ held' = [held EXCEPT ![req[h]] = Later(@, now - seen[h])]
    /\ swept' = Later(swept, clock[h])

Enter(h, expiry) ==
    /\ cache' = [Retained(clock[h]) EXCEPT ![req[h]] = expiry]
    /\ entered' = [entered EXCEPT ![req[h]] = now]

(* Mutant of CheckNonce: the nonce is kept for the window only. *)
CheckNonceWindow(h) ==
    /\ pc[h] = "lock"
    /\ Retained(clock[h])[req[h]] = None
    /\ Enter(h, clock[h] + Window)
    /\ Leave(h, "body")
    /\ Observe(h)
    /\ UNCHANGED <<now, stamp, skew, req, seen, clock, ran>>

(* The critical section: a nonce in the cache is refused, another is entered. *)
CheckNonce(h) ==
    /\ pc[h] = "lock"
    /\ \/ /\ Retained(clock[h])[req[h]] # None
          /\ cache' = Retained(clock[h])
          /\ UNCHANGED entered
          /\ Leave(h, "idle")
       \/ /\ Retained(clock[h])[req[h]] = None
          /\ Enter(h, clock[h] + Ttl)
          /\ Leave(h, "body")
    /\ Observe(h)
    /\ UNCHANGED <<now, stamp, skew, req, seen, clock, ran>>

(* The body arrives, the signature matches, and the request is executed. *)
Proceed(h) ==
    /\ pc[h] = "body"
    /\ Leave(h, "idle")
    /\ ran' = [ran EXCEPT ![req[h]] = @ + 1]
    /\ UNCHANGED <<now, stamp, skew, req, seen, clock, cacheVars>>

(* The body is too long or breaks off, or does not match its signature; or the
   client is gone.  The nonce stays used. *)
Refuse(h) ==
    /\ pc[h] = "body"
    /\ Leave(h, "idle")
    /\ UNCHANGED <<now, stamp, skew, req, seen, clock, cacheVars, ran>>

(* The service restarts; the cache is in memory only. *)
Restart == /\ pc' = [h \in Handlers |-> "idle"]
           /\ cache' = [r \in Requests |-> None]
           /\ ran' = [r \in Requests |-> 0]
           /\ held' = [r \in Requests |-> 0]
           /\ entered' = [r \in Requests |-> 0]
           /\ swept' = 0
           /\ UNCHANGED <<now, stamp, skew, req, seen, clock>>

require_cmd_auth(h) ==
    \/ \E r \in Requests : Arrive(h, r)
    \/ ReadClock(h) \/ CheckNonce(h) \/ Proceed(h) \/ Refuse(h)

Next == \/ Tick
        \/ \E r \in Requests : Sign(r)
        \/ \E h \in Handlers : require_cmd_auth(h)
        \/ Restart

Spec == Init /\ [][Next]_vars

-------------------------------------------------------------------------------
TypeOK == /\ now \in Nat
          /\ stamp \in [Requests -> Int \union {None}]
          /\ pc \in [Handlers -> {"idle", "clock", "lock", "body"}]
          /\ req \in [Handlers -> Requests \union {None}]
          /\ \A h \in Handlers : pc[h] # "idle" =>
                req[h] \in Requests /\ stamp[req[h]] \in Int
          /\ seen \in [Handlers -> Nat]
          /\ clock \in [Handlers -> Nat]
          /\ cache \in [Requests -> Int \union {None}]
          /\ ran \in [Requests -> Nat]
          /\ skew \in [Requests -> Int]
          /\ held \in [Requests -> Nat]
          /\ entered \in [Requests -> Nat]
          /\ swept \in Nat

(* The time to live covers the window of r: the difference of the clocks and
   the handling of its copies take less than the margin, Ttl - Window. *)
InTime(r) == skew[r] + Window + held[r] < Ttl

(* A request is executed at most once while the service runs, however many
   copies of it arrive, at whatever time, and are handled together, unless the
   dashboard's clock is ahead and its copies are held up by more than the
   minute by which the nonces outlive the window: the cache is cleaned by
   clocks that were read before the lock was taken, in any order. *)
AtMostOnce == \A r \in Requests : InTime(r) => ran[r] <= 1

(* Whatever the two clocks show, at most twice: a timestamp is in the window
   for ten minutes, and a nonce is kept for six of them. *)
AtMostTwice == \A r \in Requests : Window + held[r] < Ttl => ran[r] <= 2

(* The cache does not grow for good: a nonce that was entered Ttl or more
   before the latest cleaning is gone, although the handlers clean by clocks
   they read before, and enter nonces that another one has cleaned past. *)
CacheIsSwept == \A r \in Requests :
    cache[r] # None => swept < entered[r] + Ttl

(* Of the copies in flight no two are past the nonce check together. *)
OneCopyPasses ==
    \A g, h \in Handlers :
        /\ pc[g] = "body" /\ pc[h] = "body"
        /\ req[g] = req[h] /\ InTime(req[g])
        => g = h
===============================================================================
