------------------------- MODULE CommandQueue_proofs -------------------------
(* Proofs about CommandQueue, for any number of commands and faults. *)
EXTENDS CommandQueue, Settling, FiniteSetTheorems, WellFoundedInduction, TLAPS

Precedes == {p \in Nat \X Nat : p[1] < p[2]}

(***************************************************************************)
(* A set of commands that is not empty has an oldest one.                  *)
(***************************************************************************)
LEMMA OldestIsLeast ==
    ASSUME NEW S \in SUBSET Nat, S # {}
    PROVE  Oldest(S) \in S /\ \A d \in S : Oldest(S) <= d
<1>1. IsWellFoundedOn(Precedes, Nat)
  BY NatLessThanWellFounded, Zenon DEF OpToRel, Precedes
<1>2. PICK c \in S : \A d \in S : <<d, c>> \notin Precedes
  BY <1>1, WFMin
<1>3. ASSUME NEW d \in S PROVE c <= d
  <2>1. ~(d < c)
    BY <1>2, <1>3, Zenon DEF Precedes
  <2> QED BY <2>1
<1> QED BY <1>3 DEF Oldest

LEMMA BatchHasOldest ==
    ASSUME PollTypeOK, batch # {} PROVE Oldest(batch) \in batch
<1>1. batch \in SUBSET Nat
  BY QueueOK DEF QueueOK, PollTypeOK, Commands
<1> QED BY <1>1, OldestIsLeast

(***************************************************************************)
(* The type invariant in three parts, each inductive: the poll loop, the   *)
(* session of the listener, and the flags.                                 *)
(***************************************************************************)
LEMMA NextCommandType ==
    ASSUME PollTypeOK, NextCommand
    PROVE  /\ pc' \in {"wait", "execute"}
           /\ batch' \in SUBSET Commands
           /\ pc' = "execute" => batch' # {}
           /\ interval' \in {Default} \union (Hints \ {0})
           /\ hint' \in Hints \union {NoHint}
<1> DEFINE rest == batch \ {Oldest(batch)}
<1>1. CASE /\ rest # {} /\ pc' = "execute" /\ batch' = rest
           /\ UNCHANGED <<interval, hint>>
  BY <1>1 DEF PollTypeOK
<1>2. CASE PollReturns(hint)
  BY <1>2, QueueOK DEF QueueOK, PollTypeOK, PollReturns
<1> QED BY <1>1, <1>2 DEF NextCommand

LEMMA PollTypeStep == PollTypeOK /\ [Next]_vars => PollTypeOK'
<1> SUFFICES ASSUME PollTypeOK, [Next]_vars PROVE PollTypeOK'
  OBVIOUS
<1> USE QueueOK
    DEF QueueOK, PollTypeOK, Commands, backendVars, pollVars, historyVars,
        PollReturns, Fault
<1>1. pc \in {"execute", "patch"} => Oldest(batch) \in Commands
  BY BatchHasOldest
<1>2. Listed \in SUBSET Commands
  BY DEF Listed, Pending
<1>3. CASE UNCHANGED vars
  BY <1>3 DEF vars
<1>4. CASE Issue
  BY <1>4 DEF Issue
<1>5. CASE Select
  <2>1. CASE Timer
    BY <2>1 DEF Timer
  <2>2. CASE WakeUp
    BY <2>2 DEF WakeUp
  <2> QED BY <1>5, <2>1, <2>2 DEF Select
<1>6. CASE Listener
  <2>1. CASE NotifyWakes
    BY <2>1 DEF NotifyWakes
  <2>2. CASE ListenerStep
    BY <2>2 DEF ListenerStep
  <2>3. CASE ListenerFault
    BY <2>3 DEF ListenerFault
  <2> QED BY <1>6, <2>1, <2>2, <2>3 DEF Listener
<1>7. CASE Poll
  <2>1. CASE Serve
    BY <1>2, <2>1 DEF Serve
  <2>2. CASE NothingPending
    BY <2>2 DEF NothingPending
  <2>3. CASE Received
    BY <2>3 DEF Received
  <2>4. CASE Refused
    BY <2>4 DEF Refused
  <2>5. CASE FetchFails
    BY <2>5 DEF FetchFails
  <2>6. CASE Execute
    <3>1. executed' \in [Commands -> Nat] /\ lost' = lost
      BY <1>1, <2>6 DEF Execute
    <3>2. pc = "execute" /\ pc' = "patch"
      BY <2>6 DEF Execute
    <3>3. UNCHANGED <<issued, handed, reported, interval, batch, hint, faults>>
      BY <2>6 DEF Execute
    <3> QED BY <3>1, <3>2, <3>3
  <2>7. CASE PatchApplied
    BY <1>1, <2>7, NextCommandType DEF PatchApplied
  <2>8. CASE PatchLost
    <3>1. lost' \in [Commands -> Nat] /\ faults' \in 0 .. MaxFaults
      BY <1>1, <2>8 DEF PatchLost
    <3>2. UNCHANGED <<backendVars, executed>> /\ NextCommand
      BY <2>8 DEF PatchLost
    <3> QED BY <3>1, <3>2, NextCommandType
  <2>9. CASE ExecutePanics
    <3>1. executed' \in [Commands -> Nat]
      BY <1>1, <2>9 DEF ExecutePanics
    <3>2. lost' \in [Commands -> Nat]
      BY <1>1, <2>9 DEF ExecutePanics
    <3>3. /\ pc' = "ended" /\ batch' = {} /\ hint' = NoHint
          /\ interval' = Default
          /\ UNCHANGED <<issued, handed, reported, faults>>
      BY <2>9 DEF ExecutePanics
    <3> QED BY <3>1, <3>2, <3>3
  <2> QED BY <1>7, <2>1, <2>2, <2>3, <2>4, <2>5, <2>6, <2>7, <2>8, <2>9 DEF Poll
<1>8. CASE Stop
  BY <1>1, <1>8 DEF Stop
<1>9. CASE Start
  BY <1>9 DEF Start
<1> QED BY <1>3, <1>4, <1>5, <1>6, <1>7, <1>8, <1>9 DEF Next

SessionOK == /\ session \in {"connect", "listen", "stream", "wait", "down"}
             /\ backoff \in 1 .. MAX_BACKOFF_SECS

LEMMA SessionStep == SessionOK /\ [Next]_vars => SessionOK'
<1> SUFFICES ASSUME SessionOK, [Next]_vars PROVE SessionOK'
  OBVIOUS
<1> USE QueueOK DEF QueueOK, SessionOK, listenerVars
<1>1. CASE UNCHANGED vars \/ Issue \/ Select \/ Start \/ Stop
  BY <1>1 DEF vars, Issue, Select, Timer, WakeUp, Start, Stop
<1>2. CASE NotifyWakes \/ ListenerStep
  BY <1>2 DEF NotifyWakes, ListenerStep, L!Notified, L!Connect, L!Listen,
              L!Reconnect
<1>3. CASE ListenerFault
  BY <1>3 DEF ListenerFault, L!SessionFails, L!SessionEnds
<1>4. CASE Poll
  BY <1>4 DEF Poll, Serve, NothingPending, Received, Refused, FetchFails,
              Execute, ExecutePanics, PatchApplied, PatchLost
<1> QED BY <1>1, <1>2, <1>3, <1>4 DEF Next, Listener

FlagsOK == /\ sent \in BOOLEAN /\ permit \in BOOLEAN
           /\ owed \in BOOLEAN /\ redelivers \in BOOLEAN

LEMMA FlagsStep == FlagsOK /\ [Next]_vars => FlagsOK'
<1> SUFFICES ASSUME FlagsOK, [Next]_vars PROVE FlagsOK'
  OBVIOUS
<1> USE DEF FlagsOK, listenerVars, backendVars, historyVars
<1>1. CASE UNCHANGED vars \/ Issue \/ Select \/ Start \/ Stop
  BY <1>1, Zenon DEF vars, Issue, Select, Timer, WakeUp, Start, Stop
<1>2. CASE NotifyWakes \/ ListenerStep \/ ListenerFault
  BY <1>2, Zenon
     DEF NotifyWakes, ListenerStep, ListenerFault, L!Notified, L!Connect,
         L!Listen, L!Reconnect, L!SessionFails, L!SessionEnds
<1>3. CASE Poll
  BY <1>3, Zenon
     DEF Poll, Serve, NothingPending, Received, Refused, FetchFails,
         Execute, ExecutePanics, PatchApplied, PatchLost
<1> QED BY <1>1, <1>2, <1>3 DEF Next, Listener

LEMMA TypeParts == TypeOK <=> PollTypeOK /\ SessionOK /\ FlagsOK
BY Zenon DEF TypeOK, L!ListenerTypeOK, SessionOK, FlagsOK

(***************************************************************************)
(* Every variable has its type: the interval of the loop is never zero,    *)
(* and the backoff of the listener stays within its maximum.               *)
(***************************************************************************)
THEOREM TypeCorrect == Spec => []TypeOK
<1>1. Init => PollTypeOK
  BY QueueOK DEF QueueOK, Init, PollTypeOK, Commands
<1>2. Init => SessionOK
  BY QueueOK DEF QueueOK, Init, L!ListenerInit, SessionOK
<1>3. Init => FlagsOK
  BY Zenon DEF Init, L!ListenerInit, FlagsOK
<1> QED BY <1>1, <1>2, <1>3, PollTypeStep, SessionStep, FlagsStep, TypeParts,
           PTL DEF Spec

-------------------------------------------------------------------------------
(* What makes the count of executions inductive: the loop only holds commands
   the backend has no result of, and holds none outside a poll. *)
BatchOK == /\ batch \subseteq Pending
           /\ pc \in {"wait", "fetch", "ended", "down"} => batch = {}

CountInv == BatchOK /\ ExecutionsAccounted

LEMMA CountStep ==
    PollTypeOK /\ CountInv /\ [Next]_vars => CountInv'
<1> SUFFICES ASSUME PollTypeOK, CountInv, [Next]_vars PROVE CountInv'
  OBVIOUS
<1> USE QueueOK
    DEF QueueOK, PollTypeOK, Commands, backendVars, pollVars, historyVars,
        PollReturns, CountInv, BatchOK, ExecutionsAccounted, Pending, InPatch,
        One
<1>1. pc \in {"execute", "patch"} => Oldest(batch) \in batch
  BY BatchHasOldest
<1>2. CASE UNCHANGED vars
  BY <1>2 DEF vars
<1>3. CASE Issue
  BY <1>3 DEF Issue
<1>4. CASE Select
  <2>1. CASE Timer
    BY <2>1 DEF Timer
  <2>2. CASE WakeUp
    BY <2>2 DEF WakeUp
  <2> QED BY <1>4, <2>1, <2>2 DEF Select
<1>5. CASE Listener
  <2>1. CASE NotifyWakes
    BY <2>1 DEF NotifyWakes
  <2>2. CASE ListenerStep
    BY <2>2 DEF ListenerStep
  <2>3. CASE ListenerFault
    BY <2>3 DEF ListenerFault
  <2> QED BY <1>5, <2>1, <2>2, <2>3 DEF Listener
<1>6. CASE Poll
  <2>1. CASE Serve
    BY <2>1 DEF Serve, Listed
  <2>2. CASE NothingPending
    BY <2>2 DEF NothingPending
  <2>3. CASE Received
    BY <2>3 DEF Received
  <2>4. CASE Refused
    BY <2>4 DEF Refused
  <2>5. CASE FetchFails
    BY <2>5 DEF FetchFails
  <2>6. CASE Execute
    BY <1>1, <2>6 DEF Execute
  <2>7. ASSUME pc = "patch", NextCommand
        PROVE  /\ pc' \in {"execute", "wait"}
               /\ batch' \subseteq batch \ {Oldest(batch)}
               /\ pc' = "wait" => batch' = {}
    BY <2>7 DEF NextCommand
  <2>8. CASE PatchApplied
    <3>1. /\ pc = "patch" /\ NextCommand
          /\ reported' = reported \union {Oldest(batch)}
          /\ UNCHANGED <<issued, executed, lost>>
      BY <2>8 DEF PatchApplied
    <3>2. BatchOK'
      BY <2>7, <3>1
    <3>3. Oldest(batch) \notin reported
      BY <1>1, <3>1
    <3>4. ExecutionsAccounted'
      BY <2>7, <3>1, <3>3
    <3> QED BY <3>2, <3>4
  <2>9. CASE PatchLost
    <3>1. /\ pc = "patch" /\ NextCommand
          /\ lost' = [lost EXCEPT ![Oldest(batch)] = @ + 1]
          /\ UNCHANGED <<issued, reported, executed>>
      BY <2>9 DEF PatchLost
    <3>2. BatchOK'
      BY <2>7, <3>1
    <3>3. ExecutionsAccounted'
      BY <1>1, <2>7, <3>1
    <3> QED BY <3>2, <3>3
  <2>10. CASE ExecutePanics
    BY <1>1, <2>10 DEF ExecutePanics
  <2> QED BY <1>6, <2>1, <2>2, <2>3, <2>4, <2>5, <2>6, <2>8, <2>9, <2>10
          DEF Poll
<1>7. CASE Stop
  BY <1>1, <1>7 DEF Stop
<1>8. CASE Start
  BY <1>8 DEF Start
<1> QED BY <1>2, <1>3, <1>4, <1>5, <1>6, <1>7, <1>8 DEF Next

LEMMA CountCorrect == Spec => [](PollTypeOK /\ CountInv)
<1>1. Init => PollTypeOK
  BY QueueOK DEF QueueOK, Init, PollTypeOK, Commands
<1>2. Init => CountInv
  BY QueueOK DEF QueueOK, Init, CountInv, BatchOK, ExecutionsAccounted,
                 Pending, InPatch, One, Commands
<1> QED BY <1>1, <1>2, PollTypeStep, CountStep, PTL DEF Spec

(***************************************************************************)
(* Every execution is accounted for by a result the backend has, a result  *)
(* that was lost, or the PATCH under way: no command runs twice unless its *)
(* result was lost, and no result is of a command that did not run.        *)
(***************************************************************************)
THEOREM Accounted == Spec => []ExecutionsAccounted
<1>1. CountInv => ExecutionsAccounted
  BY DEF CountInv
<1> QED BY <1>1, CountCorrect, PTL

LEMMA OneBackend == [Next]_vars => redelivers' = redelivers
<1> SUFFICES ASSUME [Next]_vars PROVE redelivers' = redelivers
  OBVIOUS
<1> USE DEF backendVars
<1>1. CASE UNCHANGED vars \/ Issue \/ Select \/ Start \/ Stop
  BY <1>1, Zenon DEF vars, Issue, Select, Timer, WakeUp, Start, Stop
<1>2. CASE Listener
  BY <1>2, Zenon DEF Listener, NotifyWakes, ListenerStep, ListenerFault
<1>3. CASE Poll
  BY <1>3, Zenon
     DEF Poll, Serve, NothingPending, Received, Refused, FetchFails,
         Execute, ExecutePanics, PatchApplied, PatchLost
<1> QED BY <1>1, <1>2, <1>3, Zenon DEF Next

(***************************************************************************)
(* The order of execution.  The strengthening says of the response in hand *)
(* that whatever it omits ahead of a command it lists has run.             *)
(***************************************************************************)
OrderInv == InOrder /\ (redelivers =>
    \A d \in batch : \A c \in Commands :
        c < d => c \in batch \/ executed[c] > 0)

LEMMA OrderStep ==
    PollTypeOK /\ CountInv /\ OrderInv /\ [Next]_vars => OrderInv'
<1> SUFFICES ASSUME PollTypeOK, CountInv, OrderInv, [Next]_vars, redelivers
             PROVE  OrderInv'
  BY OneBackend DEF OrderInv, InOrder
<1> USE QueueOK
    DEF QueueOK, PollTypeOK, Commands, backendVars, pollVars, historyVars,
        PollReturns, OrderInv, InOrder
<1>1. pc \in {"execute", "patch"} =>
        /\ Oldest(batch) \in batch
        /\ \A d \in batch : Oldest(batch) <= d
  BY OldestIsLeast
<1>2. CASE UNCHANGED vars
  BY <1>2 DEF vars
<1>3. CASE Issue
  BY <1>3 DEF Issue
<1>4. CASE Select
  <2>1. CASE Timer
    BY <2>1 DEF Timer
  <2>2. CASE WakeUp
    BY <2>2 DEF WakeUp
  <2> QED BY <1>4, <2>1, <2>2 DEF Select
<1>5. CASE Listener
  <2>1. CASE NotifyWakes
    BY <2>1 DEF NotifyWakes
  <2>2. CASE ListenerStep
    BY <2>2 DEF ListenerStep
  <2>3. CASE ListenerFault
    BY <2>3 DEF ListenerFault
  <2> QED BY <1>5, <2>1, <2>2, <2>3 DEF Listener
<1>6. CASE Poll
  <2>1. CASE Serve
    <3>1. ASSUME NEW c \in Commands, c \in reported PROVE executed[c] > 0
      <4>1. /\ executed[c] = lost[c] + 1 + One(InPatch(c))
            /\ lost[c] \in Nat /\ executed[c] \in Nat
        BY <3>1 DEF CountInv, ExecutionsAccounted, One
      <4>2. One(InPatch(c)) \in Nat
        BY DEF One
      <4> QED BY ONLY <4>1, <4>2
    <3>2. batch' = Pending
      BY <2>1 DEF Serve, Listed
    <3> QED BY <2>1, <3>1, <3>2 DEF Serve, Pending
  <2>2. CASE NothingPending
    BY <2>2 DEF NothingPending
  <2>3. CASE Received
    BY <2>3 DEF Received
  <2>4. CASE Refused
    BY <2>4 DEF Refused
  <2>5. CASE FetchFails
    BY <2>5 DEF FetchFails
  <2>6. CASE Execute \/ ExecutePanics
    <3>1. ASSUME NEW c \in Commands, c < Oldest(batch) PROVE executed[c] > 0
      <4>1. Oldest(batch) \in batch /\ \A d \in batch : Oldest(batch) <= d
        BY <1>1, <2>6 DEF Execute, ExecutePanics
      <4>2. c \in Nat /\ Oldest(batch) \in Nat
        <5>1. c \in Commands /\ Oldest(batch) \in Commands
          BY ONLY <3>1, <4>1, PollTypeOK DEF PollTypeOK
        <5> QED BY ONLY <5>1, QueueOK DEF QueueOK, Commands
      <4>3. c \notin batch
        <5>1. ~(Oldest(batch) <= c)
          BY <3>1, <4>2
        <5> QED BY <4>1, <5>1
      <4> QED BY <3>1, <4>1, <4>3
    <3>2. /\ executed' = [executed EXCEPT ![Oldest(batch)] = @ + 1]
          /\ batch' = batch \/ batch' = {}
      BY <2>6 DEF Execute, ExecutePanics
    <3>3. Oldest(batch) \in Commands
      BY <1>1, <2>6 DEF Execute, ExecutePanics
    <3>4. \A c \in Commands : executed'[c] \in Nat /\ executed'[c] >= executed[c]
      BY <3>2, <3>3
    <3>5. executed'[Oldest(batch)] > 0
      BY <3>2, <3>3
    <3>6. \A c \in Commands : executed[c] > 0 => executed'[c] > 0
      BY <3>4
    <3>7. InOrder'
      <4> SUFFICES ASSUME NEW c \in Commands, NEW d \in Commands, c < d,
                          executed'[d] > 0
                   PROVE  executed'[c] > 0
        BY DEF InOrder
      <4>1. CASE d = Oldest(batch)
        BY <3>1, <3>6, <4>1
      <4>2. CASE d # Oldest(batch)
        <5>1. executed[d] > 0
          BY <3>2, <3>3, <4>2
        <5> QED BY <3>6, <5>1
      <4> QED BY <4>1, <4>2
    <3>8. \A d \in batch' : \A c \in Commands :
              c < d => c \in batch' \/ executed'[c] > 0
      BY <3>2, <3>6
    <3> QED BY ONLY <3>7, <3>8 DEF OrderInv
  <2>7. CASE PatchApplied \/ PatchLost
    <3>1. executed[Oldest(batch)] > 0
      <4>1. pc = "patch" /\ Oldest(batch) \in Commands
        BY <1>1, <2>7 DEF PatchApplied, PatchLost
      <4>2. executed[Oldest(batch)] =
                lost[Oldest(batch)] + One(Oldest(batch) \in reported) + 1
        BY <4>1 DEF CountInv, ExecutionsAccounted, InPatch, One
      <4> QED BY <4>1, <4>2 DEF One
    <3>2. batch' = batch \ {Oldest(batch)} \/ batch' = {}
      BY <2>7 DEF PatchApplied, PatchLost, NextCommand
    <3>3. executed' = executed
      BY <2>7 DEF PatchApplied, PatchLost
    <3> QED BY <3>1, <3>2, <3>3
  <2> QED BY <1>6, <2>1, <2>2, <2>3, <2>4, <2>5, <2>6, <2>7 DEF Poll
<1>7. CASE Stop
  BY <1>7 DEF Stop
<1>8. CASE Start
  BY <1>8 DEF Start
<1> QED BY <1>2, <1>3, <1>4, <1>5, <1>6, <1>7, <1>8 DEF Next

THEOREM Ordered == Spec => []InOrder
<1>1. Init => OrderInv
  BY QueueOK DEF QueueOK, Init, OrderInv, InOrder, Commands
<1>2. OrderInv => InOrder
  BY DEF OrderInv
<1> QED BY <1>1, <1>2, CountCorrect, OrderStep, PTL DEF Spec

-------------------------------------------------------------------------------
(* A backend that lists once: it has handed out the commands up to some number,
   the loop holds some of the last of them, and only the one whose PATCH is
   under way has been executed. *)
HandedInv == /\ batch \subseteq handed /\ reported \subseteq handed
             /\ handed \subseteq 1 .. issued
             /\ \A c \in Commands : executed[c] > 0 => c \in handed
             /\ \A c \in 1 .. issued, d \in handed : c \notin handed => d < c

RunsInv == /\ \A c \in Commands : executed[c] <= 1
           /\ \A c \in batch : executed[c] > 0 => InPatch(c)
           /\ \A c \in batch, d \in Commands : executed[d] > 0 => d <= c

OnceInv == ~redelivers => HandedInv /\ RunsInv

LEMMA OnceStep ==
    PollTypeOK /\ CountInv /\ OnceInv /\ [Next]_vars => OnceInv'
<1> SUFFICES ASSUME PollTypeOK, CountInv, HandedInv, RunsInv, [Next]_vars,
                    ~redelivers
             PROVE  HandedInv' /\ RunsInv'
  BY OneBackend DEF OnceInv
<1> USE QueueOK
    DEF QueueOK, PollTypeOK, Commands, backendVars, pollVars, historyVars,
        PollReturns, HandedInv, RunsInv, InPatch
<1>1. pc \in {"execute", "patch"} =>
        /\ Oldest(batch) \in batch
        /\ \A d \in batch : Oldest(batch) <= d
  BY OldestIsLeast
<1>2. CASE UNCHANGED vars
  BY <1>2 DEF vars
<1>3. CASE Issue
  BY <1>3 DEF Issue
<1>4. CASE Select
  BY <1>4 DEF Select, Timer, WakeUp, CountInv, BatchOK
<1>5. CASE Listener
  <2>1. CASE NotifyWakes
    BY <2>1 DEF NotifyWakes
  <2>2. CASE ListenerStep
    BY <2>2 DEF ListenerStep
  <2>3. CASE ListenerFault
    BY <2>3 DEF ListenerFault
  <2> QED BY <1>5, <2>1, <2>2, <2>3 DEF Listener
<1>6. CASE Poll
  <2>1. CASE Serve
    <3>1. /\ pc = "fetch" /\ pc' = "response"
          /\ batch' = (1 .. issued) \ handed /\ handed' = 1 .. issued
          /\ UNCHANGED <<issued, reported, executed>>
      BY <2>1 DEF Serve, Listed, Pending
    <3> QED BY <3>1
  <2>2. CASE NothingPending \/ Received \/ Refused \/ FetchFails
    <3>1. /\ pc \in {"fetch", "response"}
          /\ batch' = batch \/ batch' = {}
          /\ UNCHANGED <<issued, handed, reported, executed>>
      BY <2>2 DEF NothingPending, Received, Refused, FetchFails
    <3> QED BY <3>1
  <2>3. CASE Execute
    <3>1. /\ pc = "execute" /\ pc' = "patch" /\ batch' = batch
          /\ executed' = [executed EXCEPT ![Oldest(batch)] = @ + 1]
          /\ UNCHANGED <<issued, handed, reported>>
      BY <2>3 DEF Execute
    <3>2. executed[Oldest(batch)] = 0
      <4>1. Oldest(batch) \in batch /\ Oldest(batch) \in Commands
        BY <1>1, <3>1
      <4>2. executed[Oldest(batch)] \in Nat
        BY <4>1
      <4>3. ~(executed[Oldest(batch)] > 0)
        BY <3>1, <4>1
      <4> QED BY ONLY <4>2, <4>3
    <3> QED BY <1>1, <3>1, <3>2
  <2>4. CASE ExecutePanics
    <3>1. /\ pc = "execute" /\ batch' = {}
          /\ executed' = [executed EXCEPT ![Oldest(batch)] = @ + 1]
          /\ UNCHANGED <<issued, handed, reported>>
      BY <2>4 DEF ExecutePanics
    <3>2. executed[Oldest(batch)] = 0
      <4>1. Oldest(batch) \in batch /\ Oldest(batch) \in Commands
        BY <1>1, <3>1
      <4>2. executed[Oldest(batch)] \in Nat
        BY <4>1
      <4>3. ~(executed[Oldest(batch)] > 0)
        BY <3>1, <4>1
      <4> QED BY ONLY <4>2, <4>3
    <3> QED BY <1>1, <3>1, <3>2
  <2>5. CASE PatchApplied \/ PatchLost
    <3>1. /\ batch' \subseteq batch \ {Oldest(batch)}
          /\ reported' \subseteq reported \union {Oldest(batch)}
          /\ UNCHANGED <<issued, handed, executed>>
          /\ pc = "patch"
      BY <2>5 DEF PatchApplied, PatchLost, NextCommand
    <3> QED BY <1>1, <3>1
  <2> QED BY <1>6, <2>1, <2>2, <2>3, <2>4, <2>5 DEF Poll
<1>7. CASE Stop
  BY <1>7 DEF Stop
<1>8. CASE Start
  BY <1>8 DEF Start, CountInv, BatchOK
<1> QED BY <1>2, <1>3, <1>4, <1>5, <1>6, <1>7, <1>8 DEF Next

LEMMA OnceCorrect == Spec => []OnceInv
<1>1. Init => OnceInv
  BY QueueOK DEF QueueOK, Init, OnceInv, HandedInv, RunsInv, Commands
<1> QED BY <1>1, CountCorrect, OnceStep, PTL DEF Spec

(***************************************************************************)
(* A backend that lists each command once has each executed at most once,  *)
(* whatever responses, results and processes are lost.                     *)
(***************************************************************************)
THEOREM Once == Spec => []ListedOnce
<1>1. OnceInv => ListedOnce
  BY DEF OnceInv, RunsInv, ListedOnce
<1> QED BY <1>1, OnceCorrect, PTL

-------------------------------------------------------------------------------
(* Every state of the loop keeps a NOTIFY that no poll has covered: either    *)
(* the permit is there or the GET is still to be answered.                    *)
LEMMA WakeStep == NoLostWakeUp /\ [Next]_vars => NoLostWakeUp'
<1> SUFFICES ASSUME NoLostWakeUp, [Next]_vars, owed'
             PROVE  permit' \/ pc' = "fetch"
  BY DEF NoLostWakeUp
<1> USE DEF NoLostWakeUp, listenerVars, backendVars, pollVars, historyVars,
            PollReturns
<1>1. CASE UNCHANGED vars
  BY <1>1, Zenon DEF vars
<1>2. CASE Issue
  BY <1>2, Zenon DEF Issue
<1>3. CASE Timer \/ WakeUp
  BY <1>3, Zenon DEF Timer, WakeUp
<1>4. CASE Poll
  <2>1. CASE Serve \/ Refused
    <3>1. owed' = FALSE
      BY <2>1, Zenon DEF Serve, Refused
    <3> QED BY <3>1, Zenon
  <2>2. CASE NothingPending \/ Received \/ Execute \/ ExecutePanics
    <3>1. UNCHANGED <<owed, permit>> /\ pc # "fetch"
      BY <2>2 DEF NothingPending, Received, Execute, ExecutePanics
    <3> QED BY <3>1, Zenon
  <2>3. CASE FetchFails
    <3>1. owed /\ pc # "fetch" /\ permit' = permit
      BY <2>3, Zenon DEF FetchFails
    <3> QED BY <3>1, Zenon
  <2>4. CASE PatchApplied \/ PatchLost
    <3>1. UNCHANGED <<owed, permit>> /\ pc # "fetch"
      BY <2>4 DEF PatchApplied, PatchLost
    <3> QED BY <3>1, Zenon
  <2> QED BY <1>4, <2>1, <2>2, <2>3, <2>4 DEF Poll
<1>5. CASE Listener
  <2>1. CASE NotifyWakes
    <3>1. permit' = TRUE
      BY <2>1, Zenon DEF NotifyWakes, L!Notified
    <3> QED BY <3>1, Zenon
  <2>2. CASE ListenerStep
    <3>1. UNCHANGED <<owed, permit, pc>>
      BY <2>2, Zenon DEF ListenerStep, L!Connect, L!Listen, L!Reconnect
    <3> QED BY <3>1, Zenon
  <2>3. CASE ListenerFault
    <3>1. UNCHANGED <<owed, permit, pc>>
      BY <2>3, Zenon DEF ListenerFault, L!SessionFails, L!SessionEnds
    <3> QED BY <3>1, Zenon
  <2> QED BY <1>5, <2>1, <2>2, <2>3 DEF Listener
<1>6. CASE Stop
  <2>1. owed' = FALSE
    BY <1>6, Zenon DEF Stop
  <2> QED BY <2>1, Zenon
<1>7. CASE Start
  BY <1>7, Zenon DEF Start
<1> QED BY <1>1, <1>2, <1>3, <1>4, <1>5, <1>6, <1>7 DEF Next, Select

(* No wake-up is lost between two polls (main.rs 90-123 with the Notify of    *)
(* pg_listener.rs), for every number of commands, faults and hints.           *)
THEOREM WakeUpKept == Spec => []NoLostWakeUp
<1>1. Init => NoLostWakeUp
  BY Zenon DEF Init, NoLostWakeUp
<1> QED BY <1>1, WakeStep, PTL DEF Spec
-------------------------------------------------------------------------------
(***************************************************************************)
(* The queue implements CommandLog.  A step that runs no command and       *)
(* reports none changes nothing there; the others are one step each.       *)
(***************************************************************************)
LEMMA LogInit == Init => Log!Init
<1> SUFFICES ASSUME Init PROVE Log!Init
  OBVIOUS
<1>1. redelivers \in BOOLEAN
  BY Zenon DEF Init
<1>2. /\ issued = 0 /\ reported = {} /\ pc = "wait"
      /\ executed = [c \in Commands |-> 0]
  BY DEF Init
<1> QED BY <1>1, <1>2 DEF Log!Init, Log!Commands, Commands, UnderWay

(* The oldest command in hand is one that the log may run next. *)
LEMMA MayRunOldest ==
    ASSUME PollTypeOK, CountInv, OrderInv, OnceInv, pc = "execute"
    PROVE  Oldest(batch) \in 1 .. issued /\ Log!MayRun(Oldest(batch))
<1> DEFINE c == Oldest(batch)
<1>1. c \in batch /\ \A d \in batch : c <= d
  <2>1. batch \in SUBSET Nat /\ batch # {}
    BY QueueOK DEF QueueOK, PollTypeOK, Commands
  <2> QED BY <2>1, OldestIsLeast
<1>2. c \in 1 .. issued /\ c \notin reported
  BY <1>1 DEF CountInv, BatchOK, Pending
<1>3. UnderWay = 0
  BY DEF UnderWay
<1>4. ASSUME redelivers, NEW d \in Commands, d < c PROVE executed[d] > 0
  <2>1. d \in batch \/ executed[d] > 0
    BY <1>1, <1>4 DEF OrderInv
  <2>2. c \in Nat /\ d \in Nat
    BY <1>2, QueueOK DEF QueueOK, PollTypeOK, Commands
  <2>3. d \notin batch
    BY <1>1, <1>4, <2>2
  <2> QED BY <2>1, <2>3
<1>5. ASSUME ~redelivers, NEW d \in Commands, executed[d] > 0 PROVE d < c
  <2>1. d <= c /\ ~(executed[c] > 0)
    BY <1>1, <1>5 DEF OnceInv, RunsInv, InPatch
  <2>2. c \in Nat /\ d \in Nat
    BY <1>2, QueueOK DEF QueueOK, PollTypeOK, Commands
  <2>3. d # c
    BY <1>5, <2>1
  <2> QED BY <2>1, <2>2, <2>3
<1>6. redelivers => \A d \in Commands : d < c => executed[d] > 0
  BY <1>4
<1>7. ~redelivers => \A d \in Commands : executed[d] > 0 => d < c
  BY <1>5
<1> QED BY <1>2, <1>3, <1>6, <1>7, Zenon
        DEF Log!MayRun, Log!Ran, Log!Commands, Commands

LEMMA LogStep ==
    PollTypeOK /\ CountInv /\ OrderInv /\ OnceInv /\ [Next]_vars
        => [Log!Next]_(Log!vars)
<1> SUFFICES ASSUME PollTypeOK, CountInv, OrderInv, OnceInv, [Next]_vars
             PROVE  Log!Next \/ UNCHANGED Log!vars
  OBVIOUS
<1> DEFINE Same == UNCHANGED <<redelivers, issued, executed, reported>>
<1>1. ASSUME Same, pc # "patch", pc' # "patch" PROVE UNCHANGED Log!vars
  BY <1>1 DEF Log!vars, UnderWay
<1>2. ASSUME pc = "patch", pc' # "patch" PROVE UnderWay # 0 /\ UnderWay' = 0
  <2>1. Oldest(batch) \in 1 .. issued
    BY <1>2, BatchHasOldest DEF PollTypeOK, CountInv, BatchOK, Pending
  <2> QED BY <1>2, <2>1, QueueOK DEF UnderWay, QueueOK, PollTypeOK
<1>3. CASE UNCHANGED vars
  BY <1>3 DEF vars, backendVars, pollVars, historyVars, Log!vars, UnderWay
<1>4. CASE Issue
  <2>1. UNCHANGED <<redelivers, executed, reported, UnderWay>>
    BY <1>4 DEF Issue, pollVars, historyVars, UnderWay
  <2> QED BY <1>4, <2>1 DEF Issue, Log!Next, Log!Issue
<1>5. CASE Listener
  <2>1. UNCHANGED <<backendVars, pollVars, executed>>
    BY <1>5, Zenon DEF Listener, NotifyWakes, ListenerStep, ListenerFault,
                       historyVars
  <2> QED BY <2>1 DEF backendVars, pollVars, Log!vars, UnderWay
<1>6. CASE Timer \/ WakeUp \/ Start \/ Serve \/ NothingPending \/ Received
             \/ Refused \/ FetchFails
  <2>1. Same /\ pc # "patch"
    BY <1>6 DEF Timer, WakeUp, Start, Serve, NothingPending, Received,
                Refused, FetchFails, backendVars, historyVars
  <2>2. pc' # "patch"
    BY <1>6 DEF Timer, WakeUp, Start, Serve, NothingPending, Received,
                Refused, FetchFails, PollReturns
  <2> QED BY <1>1, <2>1, <2>2
<1>7. CASE Execute \/ ExecutePanics
  <2>1. /\ pc = "execute"
        /\ executed' = [executed EXCEPT ![Oldest(batch)] = @ + 1]
        /\ UNCHANGED <<redelivers, issued, reported>>
    BY <1>7 DEF Execute, ExecutePanics, backendVars
  <2>2. UnderWay' \in {Oldest(batch), 0}
    BY <1>7 DEF Execute, ExecutePanics, pollVars, UnderWay
  <2>3. Oldest(batch) \in 1 .. issued /\ Log!MayRun(Oldest(batch))
    BY <2>1, MayRunOldest
  <2>4. Log!Run(Oldest(batch))
    BY <2>1, <2>2, <2>3 DEF Log!Run
  <2> QED BY <2>3, <2>4 DEF Log!Next
<1>8. CASE PatchApplied
  <2>1. /\ pc = "patch"
        /\ reported' = reported \union {Oldest(batch)}
        /\ UNCHANGED <<redelivers, issued, executed>>
    BY <1>8 DEF PatchApplied, historyVars
  <2>2. pc' # "patch"
    BY <1>8 DEF PatchApplied, NextCommand, PollReturns
  <2>3. UnderWay = Oldest(batch)
    BY <2>1 DEF UnderWay
  <2> QED BY <1>2, <2>1, <2>2, <2>3 DEF Log!Next, Log!Report
<1>9. CASE PatchLost \/ Stop
  <2>1. Same
    BY <1>9 DEF PatchLost, Stop, backendVars
  <2>2. pc' # "patch"
    BY <1>9 DEF PatchLost, Stop, NextCommand, PollReturns
  <2>3. CASE pc = "patch"
    BY <1>2, <2>1, <2>2, <2>3 DEF Log!Next, Log!Lose
  <2>4. CASE pc # "patch"
    BY <1>1, <2>1, <2>2, <2>4
  <2> QED BY <2>3, <2>4
<1> QED BY <1>3, <1>4, <1>5, <1>6, <1>7, <1>8, <1>9 DEF Next, Select, Poll

(* Whatever polls fail, results, sessions and processes are lost, the backend *)
(* sees the runs that CommandLog allows: one at a time, in the order queued,  *)
(* none of a command whose result it has, and with a backend that lists a     *)
(* command once none twice.                                                   *)
THEOREM ImplementsLog == Spec => Promise
<1>1. Spec => []OrderInv
  <2>1. Init => OrderInv
    BY QueueOK DEF QueueOK, Init, OrderInv, InOrder, Commands
  <2> QED BY <2>1, CountCorrect, OrderStep, PTL DEF Spec
<1> QED BY <1>1, LogInit, LogStep, CountCorrect, OnceCorrect,
           PTL DEF Spec, Promise, Log!Spec

-------------------------------------------------------------------------------
(***************************************************************************)
(* Liveness.  The weak fairness of an action is stated with its guard in   *)
(* the place of ENABLED, of which the provers have no notion: some step of *)
(* Poll can be taken in every state of a poll, one of Select whenever the  *)
(* loop waits, and so on, and each of them changes a variable.  What is    *)
(* used about descending numbers is named as hypotheses (see Settling).    *)
(***************************************************************************)
Polling == pc \in {"fetch", "response", "execute", "patch"}

PollFair     == []<>~Polling                    \/ []<><<Poll>>_vars
SelectFair   == []<>~(pc = "wait")              \/ []<><<Select>>_vars
WakeFair     == []<>~(pc = "wait" /\ permit)    \/ []<><<WakeUp>>_vars
StartFair    == []<>~(pc = "down")              \/ []<><<Start>>_vars

(* How many steps a poll may still take, unless it fails before. *)
PollRank == IF pc = "fetch" THEN 2 * MaxCommands + 3
            ELSE IF pc = "response" THEN 2 * Cardinality(batch) + 2
            ELSE IF pc = "execute"  THEN 2 * Cardinality(batch) + 1
            ELSE IF pc = "patch"    THEN 2 * Cardinality(batch) ELSE 0

(* A poll goes on to its end. *)
PollShrinks == /\ Poll => PollRank' < PollRank
               /\ Polling /\ Polling' => PollRank' <= PollRank

LEMMA BatchSize ==
    ASSUME NEW S \in SUBSET Commands
    PROVE  IsFiniteSet(S) /\ Cardinality(S) \in 0 .. MaxCommands
<1>1. IsFiniteSet(Commands) /\ Cardinality(Commands) = MaxCommands
  BY FS_Interval, QueueOK DEF QueueOK, Commands
<1>2. IsFiniteSet(S) /\ Cardinality(S) <= MaxCommands /\ Cardinality(S) \in Nat
  BY <1>1, FS_Subset, FS_CardinalityType
<1> QED BY <1>2, QueueOK DEF QueueOK

LEMMA RankTyped == PollTypeOK => PollRank \in Nat
<1>1. batch \in SUBSET Commands => Cardinality(batch) \in 0 .. MaxCommands
  BY BatchSize
<1> QED BY <1>1, QueueOK DEF PollTypeOK, PollRank, QueueOK

LEMMA RankStep == PollTypeOK /\ [Next]_vars => [PollShrinks]_vars
<1> SUFFICES ASSUME PollTypeOK, Next PROVE PollShrinks
  BY DEF PollShrinks
<1>a. batch \in SUBSET Commands /\ batch' \in SUBSET Commands
  BY PollTypeStep DEF PollTypeOK
<1>b. /\ Cardinality(batch) \in 0 .. MaxCommands
      /\ Cardinality(batch)' \in 0 .. MaxCommands
      /\ MaxCommands \in Nat
  BY <1>a, BatchSize, QueueOK DEF QueueOK
<1>c. PollRank \in Nat /\ PollRank' \in Nat
  BY <1>b DEF PollRank
<1>1. ASSUME Poll PROVE PollRank' < PollRank
  <2>1. CASE Serve
    <3>1. pc = "fetch" /\ pc' = "response"
      BY <2>1 DEF Serve
    <3> QED BY <1>b, <3>1 DEF PollRank
  <2>2. CASE NothingPending \/ Refused \/ FetchFails \/ ExecutePanics
    <3>1. pc \in {"fetch", "response", "execute"} /\ pc' \in {"wait", "ended"}
      BY <2>2 DEF NothingPending, Refused, FetchFails, ExecutePanics, PollReturns
    <3>2. PollRank' = 0
      BY <3>1 DEF PollRank
    <3>3. PollRank > 0
      BY <1>b, <3>1 DEF PollRank
    <3> QED BY <3>2, <3>3
  <2>3. CASE Received
    <3>1. pc = "response" /\ pc' = "execute" /\ batch' = batch
      BY <2>3 DEF Received
    <3> QED BY <1>b, <3>1 DEF PollRank
  <2>4. CASE Execute
    <3>1. pc = "execute" /\ pc' = "patch" /\ batch' = batch
      BY <2>4 DEF Execute, pollVars
    <3> QED BY <1>b, <3>1 DEF PollRank
  <2>5. CASE PatchApplied \/ PatchLost
    <3>1. pc = "patch" /\ NextCommand
      BY <2>5 DEF PatchApplied, PatchLost
    <3>2. Oldest(batch) \in batch
      BY <3>1, BatchHasOldest DEF PollTypeOK
    <3>3. Cardinality(batch \ {Oldest(batch)}) = Cardinality(batch) - 1
      BY <1>a, <3>2, BatchSize, FS_RemoveElement
    <3>4. Cardinality(batch) # 0
      BY <1>a, <3>2, BatchSize, FS_EmptySet
    <3>5. CASE pc' = "execute" /\ batch' = batch \ {Oldest(batch)}
      <4>1. Cardinality(batch)' = Cardinality(batch) - 1
        BY <3>3, <3>5
      <4> QED BY <1>b, <3>1, <3>5, <4>1 DEF PollRank
    <3>6. CASE pc' = "wait"
      <4>1. PollRank' = 0
        BY <3>6 DEF PollRank
      <4>2. PollRank > 0
        BY <1>b, <3>1, <3>4 DEF PollRank
      <4> QED BY <4>1, <4>2
    <3> QED BY <3>1, <3>5, <3>6 DEF NextCommand, PollReturns
  <2> QED BY <1>1, <2>1, <2>2, <2>3, <2>4, <2>5 DEF Poll
<1>2. ASSUME Polling, Polling', ~Poll PROVE PollRank' <= PollRank
  <2>1. UNCHANGED <<pc, batch>>
    BY <1>2 DEF Polling, Next, Issue, Select, Timer, WakeUp, Listener,
                NotifyWakes, ListenerStep, ListenerFault, Stop, Start, pollVars
  <2>2. PollRank' = PollRank
    BY <2>1 DEF PollRank
  <2> QED BY <1>c, <2>2
<1>3. Poll => PollRank' <= PollRank
  BY <1>1, <1>c
<1> QED BY <1>1, <1>2, <1>3 DEF PollShrinks

(* A poll comes to its end after a bounded number of its own steps, whatever  *)
(* fails and whatever else happens: each lowers PollRank, and nothing but the *)
(* next poll raises it (poll_and_execute, poller.rs 47-125).                  *)
THEOREM PollsShrink == Spec => [](PollRank \in Nat) /\ [][PollShrinks]_vars
BY CountCorrect, RankTyped, RankStep, PTL DEF Spec

LEMMA PollsEnd == Spec /\ PollFair /\ Settles(PollRank) => []<>~Polling
<1>1. [PollShrinks]_vars /\ Polling /\ Polling' => [PollRank' <= PollRank]_PollRank
  BY DEF PollShrinks, PollRank, vars, pollVars
<1>2. Spec /\ <>[]Polling => <>[][PollRank' <= PollRank]_PollRank
  BY <1>1, PollsShrink, PTL
<1>3. Spec => [](PollRank \in Nat)
  BY PollsShrink, PTL
<1>4. ASSUME NEW n \in Nat
      PROVE  Spec /\ PollFair /\ <>[](PollRank = n) => []<>~Polling
  <2>1. <<Poll>>_vars /\ [PollShrinks]_vars /\ PollRank \in Nat /\ PollRank = n
            => ~(PollRank = n)'
    BY DEF PollShrinks
  <2> QED BY <2>1, PollsShrink, PTL DEF PollFair
<1>5. Spec /\ Settles(PollRank) /\ <>[]Polling
          => \E n \in Nat : <>[](PollRank = n)
  BY <1>2, <1>3 DEF Settles
<1>6. Spec /\ PollFair /\ (\E n \in Nat : <>[](PollRank = n)) => []<>~Polling
  BY <1>4
<1> QED BY <1>5, <1>6, PTL

(***************************************************************************)
(* Only a stop takes the loop or the listener down, both at once, and      *)
(* nothing is owed to a loop that is down.                                 *)
(***************************************************************************)
DownInv == /\ pc = "down" <=> session = "down"
           /\ owed => pc # "down"

LEMMA DownStep == PollTypeOK /\ DownInv /\ [Next]_vars => DownInv'
<1> SUFFICES ASSUME PollTypeOK, DownInv, [Next]_vars PROVE DownInv'
  OBVIOUS
<1> USE DEF DownInv, listenerVars, backendVars, pollVars, historyVars
<1>1. CASE UNCHANGED vars \/ Issue \/ Select \/ Start \/ Stop
  BY <1>1 DEF vars, Issue, Select, Timer, WakeUp, Start, Stop
<1>2. CASE NotifyWakes
  BY <1>2 DEF NotifyWakes, L!Notified
<1>3. CASE ListenerStep
  BY <1>3 DEF ListenerStep, L!Connect, L!Listen, L!Reconnect
<1>4. CASE ListenerFault
  BY <1>4 DEF ListenerFault, L!SessionFails, L!SessionEnds
<1>5. CASE Poll
  <2>1. /\ pc # "down" /\ pc' # "down" /\ session' = session
    BY <1>5 DEF Poll, Serve, NothingPending, Received, Refused, FetchFails,
                Execute, ExecutePanics, PatchApplied, PatchLost, PollReturns,
                NextCommand
  <2> QED BY <2>1
<1> QED BY <1>1, <1>2, <1>3, <1>4, <1>5 DEF Next, Listener

LEMMA DownCorrect == Spec => []DownInv
<1>1. Init => DownInv
  BY DEF Init, L!ListenerInit, DownInv
<1> QED BY <1>1, DownStep, CountCorrect, PTL DEF Spec

(* A NOTIFY that has arrived leads to a poll, without the help of the timer,  *)
(* unless the loop has ended (main.rs 97-103).                                *)
THEOREM WakesUp ==
    Spec /\ PollFair /\ WakeFair /\ Settles(PollRank) => WokenIsFetched
<1> DEFINE Waits == pc = "wait" /\ permit
           Asks  == pc = "fetch"
           Over  == ~owed \/ pc = "ended"
<1>1. PollTypeOK /\ DownInv /\ NoLostWakeUp /\ ~Over => Waits \/ Polling
  BY DEF PollTypeOK, DownInv, NoLostWakeUp, Polling
<1>2. PollTypeOK /\ NoLostWakeUp /\ Waits /\ ~Over /\ [Next]_vars /\ ~Over'
          => Waits' \/ Asks'
  <2> SUFFICES ASSUME PollTypeOK, Waits, [Next]_vars, ~Over'
               PROVE  Waits' \/ Asks'
    OBVIOUS
  <2> USE DEF listenerVars, pollVars
  <2>1. CASE UNCHANGED vars \/ Issue \/ Select \/ Start \/ Stop
    BY <2>1, Zenon DEF vars, Issue, Select, Timer, WakeUp, Start, Stop
  <2>2. CASE NotifyWakes
    BY <2>2, Zenon DEF NotifyWakes, L!Notified
  <2>3. CASE ListenerStep
    BY <2>3, Zenon DEF ListenerStep, L!Connect, L!Listen, L!Reconnect
  <2>4. CASE ListenerFault
    BY <2>4, Zenon DEF ListenerFault, L!SessionFails, L!SessionEnds
  <2>5. ~Poll
    BY DEF Poll, Serve, NothingPending, Received, Refused, FetchFails,
           Execute, ExecutePanics, PatchApplied, PatchLost
  <2> QED BY <2>1, <2>2, <2>3, <2>4, <2>5, Zenon DEF Next, Listener
<1>3. <<WakeUp>>_vars => Asks'
  BY DEF WakeUp
<1>4. Asks /\ [Next]_vars /\ ~Over' => Asks'
  <2> SUFFICES ASSUME Asks, [Next]_vars, owed' PROVE Asks'
    OBVIOUS
  <2> USE DEF pollVars
  <2>1. CASE UNCHANGED vars \/ Issue \/ Select \/ Listener \/ Start
    BY <2>1 DEF vars, Issue, Select, Timer, WakeUp, Start, Listener,
                NotifyWakes, ListenerStep, ListenerFault
  <2>2. CASE Poll
    <3>1. CASE Serve \/ Refused
      <4>1. owed' = FALSE
        BY <3>1, Zenon DEF Serve, Refused
      <4> QED BY <4>1, Zenon
    <3>2. CASE FetchFails
      <4>1. owed' = (owed /\ pc # "fetch")
        BY <3>2, Zenon DEF FetchFails
      <4> QED BY <4>1, Zenon
    <3> QED BY <2>2, <3>1, <3>2
            DEF Poll, NothingPending, Received, Execute, ExecutePanics,
                PatchApplied, PatchLost
  <2>3. CASE Stop
    <3>1. owed' = FALSE
      BY <2>3, Zenon DEF Stop
    <3> QED BY <3>1, Zenon
  <2> QED BY <2>1, <2>2, <2>3 DEF Next
<1>5. Asks => Polling
  BY DEF Polling
<1> QED BY <1>1, <1>2, <1>3, <1>4, <1>5, CountCorrect, DownCorrect, WakeUpKept,
           PollsEnd, PTL DEF Spec, WakeFair, WokenIsFetched

-------------------------------------------------------------------------------
FaultsLeft == MaxFaults - faults

(* From some moment on nothing fails any more. *)
LEMMA FaultsEnd ==
    Spec /\ Settles(FaultsLeft) => \E n \in Nat : <>[](FaultsLeft = n)
<1>1. PollTypeOK => FaultsLeft \in Nat
  BY QueueOK DEF QueueOK, PollTypeOK, FaultsLeft
<1>2. PollTypeOK /\ [Next]_vars => [FaultsLeft' <= FaultsLeft]_FaultsLeft
  <2> SUFFICES ASSUME PollTypeOK, [Next]_vars PROVE FaultsLeft' <= FaultsLeft
    OBVIOUS
  <2>1. faults' = faults \/ faults' = faults + 1
    BY DEF vars, Next, Issue, Select, Timer, WakeUp, Listener, NotifyWakes,
           ListenerStep, ListenerFault, Stop, Start, Poll, Serve,
           NothingPending, Received, Refused, FetchFails, Execute,
           ExecutePanics, PatchApplied, PatchLost, Fault
  <2> QED BY <2>1, QueueOK DEF QueueOK, PollTypeOK, FaultsLeft
<1>3. Spec => [](FaultsLeft \in Nat) /\ <>[][FaultsLeft' <= FaultsLeft]_FaultsLeft
  BY <1>1, <1>2, CountCorrect, PTL DEF Spec
<1> QED BY <1>3 DEF Settles

LEMMA NoFault ==
    ASSUME PollTypeOK, FaultsLeft' = FaultsLeft PROVE ~Fault
BY QueueOK DEF QueueOK, PollTypeOK, FaultsLeft, Fault

-------------------------------------------------------------------------------
(* If nothing polls the connection while LISTEN is awaited, the listener is   *)
(* never subscribed (pg_listener.rs 130), and no NOTIFY ever wakes the      *)
(* loop: whatever happens, it leaves its wait by the timer alone.             *)
Unsubscribed == session # "stream" /\ ~sent /\ ~permit /\ ~owed

THEOREM NeverSubscribes == ASSUME ~Driven PROVE Spec => []Unsubscribed
<1> USE DEF Unsubscribed
<1>1. Init => Unsubscribed
  BY DEF Init, L!ListenerInit
<1>2. Unsubscribed /\ [Next]_vars => Unsubscribed'
  <2> SUFFICES ASSUME Unsubscribed, [Next]_vars PROVE Unsubscribed'
    OBVIOUS
  <2> USE DEF listenerVars, historyVars
  <2>1. CASE UNCHANGED vars
    BY <2>1 DEF vars
  <2>2. CASE Issue \/ Select \/ Start \/ Stop
    <3>1. session' # "stream"
      BY <2>2 DEF Issue, Select, Timer, WakeUp, Start, Stop
    <3>2. CASE Issue
      BY <3>1, <3>2, Zenon DEF Issue
    <3>3. CASE Stop
      BY <3>1, <3>3, Zenon DEF Stop
    <3>4. CASE Select
      <4>1. UNCHANGED <<sent, permit, owed>>
        BY <3>4 DEF Select, Timer, WakeUp
      <4> QED BY <3>1, <4>1
    <3>5. CASE Start
      <4>1. UNCHANGED <<sent, permit, owed>>
        BY <3>5 DEF Start
      <4> QED BY <3>1, <4>1
    <3> QED BY <2>2, <3>2, <3>3, <3>4, <3>5
  <2>3. CASE Listener
    BY <2>3 DEF Listener, NotifyWakes, ListenerStep, ListenerFault, L!Notified,
                L!Connect, L!Listen, L!Reconnect, L!SessionFails, L!SessionEnds
  <2>4. CASE Poll
    <3>1. UNCHANGED listenerVars
      BY <2>4 DEF Poll, Serve, NothingPending, Received, Refused, FetchFails,
                  Execute, ExecutePanics, PatchApplied, PatchLost
    <3>2. ~owed'
      BY <2>4, Zenon DEF Poll, Serve, NothingPending, Received, Refused,
         FetchFails, Execute, ExecutePanics, PatchApplied, PatchLost
    <3> QED BY <3>1, <3>2
  <2> QED BY <2>1, <2>2, <2>3, <2>4 DEF Next
<1> QED BY <1>1, <1>2, PTL DEF Spec

-------------------------------------------------------------------------------
(* The first command whose result the backend does not have. *)
Unreported   == (1 .. MaxCommands + 1) \ reported
Frontier     == Oldest(Unreported)
FrontierLeft == MaxCommands + 1 - Frontier

LEMMA FrontierIsFirst ==
    ASSUME NEW R \in SUBSET Commands
    PROVE  /\ Oldest((1 .. MaxCommands + 1) \ R) \in (1 .. MaxCommands + 1) \ R
           /\ \A c \in Commands : c < Oldest((1 .. MaxCommands + 1) \ R) => c \in R
<1> DEFINE S == (1 .. MaxCommands + 1) \ R
<1>1. S \in SUBSET Nat /\ MaxCommands + 1 \in S
  BY QueueOK DEF QueueOK, Commands
<1>2. Oldest(S) \in S /\ \A d \in S : Oldest(S) <= d
  BY <1>1, OldestIsLeast
<1>3. ASSUME NEW c \in Commands, c < Oldest(S) PROVE c \in R
  <2>1. ~(Oldest(S) <= c)
    BY <1>1, <1>2, <1>3 DEF Commands
  <2> QED BY <1>2, <2>1, QueueOK DEF QueueOK, Commands
<1> QED BY <1>2, <1>3

LEMMA FrontierStep ==
    PollTypeOK /\ [Next]_vars => [FrontierLeft' <= FrontierLeft]_FrontierLeft
<1> SUFFICES ASSUME PollTypeOK, [Next]_vars PROVE FrontierLeft' <= FrontierLeft
  OBVIOUS
<1>1. reported \in SUBSET Commands /\ reported' \in SUBSET Commands
  BY PollTypeStep DEF PollTypeOK
<1>2. reported \subseteq reported'
  BY DEF vars, backendVars, Next, Issue, Select, Timer, WakeUp, Listener,
         NotifyWakes, ListenerStep, ListenerFault, Stop, Start, Poll, Serve,
         NothingPending, Received, Refused, FetchFails, Execute,
         ExecutePanics, PatchApplied, PatchLost
<1>3. /\ Frontier \in 1 .. MaxCommands + 1 /\ Frontier \notin reported
      /\ Frontier' \in 1 .. MaxCommands + 1 /\ Frontier' \notin reported'
      /\ \A c \in Commands : c < Frontier => c \in reported
  BY <1>1, FrontierIsFirst DEF Frontier, Unreported
<1>4. ~(Frontier' < Frontier)
  <2> SUFFICES ASSUME Frontier' < Frontier PROVE FALSE
    OBVIOUS
  <2>1. Frontier' \in Commands
    BY <1>3, QueueOK DEF QueueOK, Commands
  <2>2. Frontier' \in reported
    BY <1>3, <2>1
  <2> QED BY <1>2, <1>3, <2>2
<1>5. \A a, b \in 1 .. MaxCommands + 1 :
          ~(b < a) => MaxCommands + 1 - b <= MaxCommands + 1 - a
  BY QueueOK DEF QueueOK
<1> QED BY <1>3, <1>4, <1>5, Zenon DEF FrontierLeft

LEMMA FrontierEnds ==
    Spec /\ Settles(FrontierLeft) => \E m \in Nat : <>[](FrontierLeft = m)
<1>1. PollTypeOK => FrontierLeft \in Nat
  <2> SUFFICES ASSUME PollTypeOK PROVE FrontierLeft \in Nat
    OBVIOUS
  <2>1. Frontier \in 1 .. MaxCommands + 1
    BY FrontierIsFirst DEF PollTypeOK, Frontier, Unreported
  <2> QED BY <2>1, QueueOK DEF QueueOK, FrontierLeft
<1>2. Spec => [](FrontierLeft \in Nat)
              /\ <>[][FrontierLeft' <= FrontierLeft]_FrontierLeft
  BY <1>1, FrontierStep, CountCorrect, PTL DEF Spec
<1> QED BY <1>2 DEF Settles

(* The loop holds the first command without a result and is to run it next,   *)
(* or runs it or reports it.                                                  *)
InHand(d) == /\ pc \in {"response", "execute", "patch"}
             /\ d \in batch
             /\ Oldest(batch) = d

(* The state in which a queued command would have to stay for ever. *)
Stuck(d) == /\ redelivers
            /\ d \in Commands /\ d \in Pending
            /\ \A c \in Commands : c < d => c \in reported
            /\ pc # "ended"

LEMMA ServesFirst ==
    ASSUME PollTypeOK, NEW d, Stuck(d), Serve PROVE InHand(d)'
<1>1. pc' = "response" /\ batch' = Pending
  BY DEF Serve, Listed, Stuck
<1>2. Pending \in SUBSET Nat /\ Pending \in SUBSET Commands
  BY QueueOK DEF QueueOK, PollTypeOK, Pending, Commands
<1>3. Oldest(Pending) \in Pending /\ \A c \in Pending : Oldest(Pending) <= c
  BY <1>2, OldestIsLeast DEF Stuck
<1>4. ~(Oldest(Pending) < d)
  BY <1>2, <1>3 DEF Stuck, Pending
<1>5. Oldest(Pending) = d
  <2>1. Oldest(Pending) \in Nat /\ d \in Nat /\ Oldest(Pending) <= d
    BY <1>2, <1>3 DEF Stuck
  <2> QED BY <1>4, <2>1
<1>6. Oldest(batch)' = d /\ d \in batch'
  BY <1>1, <1>5 DEF Stuck
<1> QED BY <1>1, <1>6 DEF InHand

(* Without faults the loop keeps what it has in hand until it is reported. *)
LEMMA StaysInHand ==
    ASSUME PollTypeOK, FaultsLeft' = FaultsLeft, NEW d, Stuck(d), Stuck(d)',
           InHand(d), [Next]_vars
    PROVE  InHand(d)'
<1>1. ~Fault
  BY NoFault
<1>2. CASE UNCHANGED <<pc, batch>>
  BY <1>2 DEF InHand
<1>3. CASE Received \/ Execute
  BY <1>3 DEF Received, Execute, InHand, pollVars
<1>4. CASE PatchApplied
  <2>1. d \in reported'
    BY <1>4 DEF PatchApplied, InHand
  <2> QED BY <2>1 DEF Stuck, Pending
<1>5. CASE NothingPending \/ ExecutePanics
  BY <1>5 DEF NothingPending, ExecutePanics, InHand, Stuck
<1>6. ~Refused /\ ~FetchFails /\ ~PatchLost /\ ~Stop /\ ~ListenerFault
  BY <1>1 DEF Refused, FetchFails, PatchLost, Stop, ListenerFault
<1>7. CASE Issue \/ NotifyWakes \/ ListenerStep \/ UNCHANGED vars
  BY <1>2, <1>7 DEF Issue, NotifyWakes, ListenerStep, vars, pollVars
<1>8. ~Timer /\ ~WakeUp /\ ~Serve /\ ~Start
  BY DEF InHand, Timer, WakeUp, Serve, Start
<1> QED BY <1>3, <1>4, <1>5, <1>6, <1>7, <1>8
        DEF Next, Select, Poll, Listener

LEMMA NotStuck ==
    ASSUME NEW d, NEW n
    PROVE  Spec /\ PollFair /\ SelectFair /\ StartFair /\ Settles(PollRank)
               => ~<>[](Stuck(d) /\ FaultsLeft = n)
<1> DEFINE Held == Stuck(d) /\ FaultsLeft = n
           Down == pc = "down"
           Wait == pc = "wait"
           Ask  == pc = "fetch"
           Hand == InHand(d)
<1>1. PollTypeOK /\ Held => Polling \/ Wait \/ Down
  BY DEF PollTypeOK, Stuck, Polling
<1>2. Start => Wait'
  BY DEF Start
<1>3. Select => Ask'
  BY DEF Select, Timer, WakeUp
<1>4. PollTypeOK /\ Held /\ Held' /\ [Next]_vars
          => /\ Down => Down' \/ Wait'
             /\ Wait => Wait' \/ Ask'
             /\ Ask => Ask' \/ Hand'
  <2> SUFFICES ASSUME PollTypeOK, Held, Held', [Next]_vars,
                      pc \in {"down", "wait", "fetch"}, pc' # pc
               PROVE  \/ Down /\ Wait'
                      \/ Wait /\ Ask'
                      \/ Ask /\ Hand'
    BY DEF vars
  <2>1. ~Refused /\ ~FetchFails /\ ~Stop
    BY NoFault DEF Refused, FetchFails, Stop
  <2>2. CASE Start \/ Select
    BY <2>2, <1>2, <1>3 DEF Start, Select, Timer, WakeUp
  <2>3. CASE Serve
    BY <2>3, ServesFirst DEF Serve
  <2>4. ~Issue /\ ~Listener /\ ~UNCHANGED vars
    BY DEF Issue, Listener, NotifyWakes, ListenerStep, ListenerFault, vars,
           pollVars
  <2> QED BY <2>1, <2>2, <2>3, <2>4
          DEF Next, Poll, NothingPending, Received, Execute, ExecutePanics,
              PatchApplied, PatchLost
<1>5. PollTypeOK /\ Held /\ Held' /\ [Next]_vars /\ Hand => Hand'
  BY StaysInHand
<1>6. Ask \/ Hand => Polling
  BY DEF Polling, InHand
<1>7. /\ Down => ~Polling /\ ~Wait
      /\ Wait => ~Polling
  BY DEF Polling
<1> QED BY <1>1, <1>2, <1>3, <1>4, <1>5, <1>6, <1>7, CountCorrect, PollsEnd,
           PTL DEF Spec, SelectFair, StartFair

(* With a backend that lists a command until its result is reported, every    *)
(* queued command is executed and its result reported, after whatever         *)
(* responses, results, sessions and processes were lost, unless the output of *)
(* a command has made the loop panic (README.md 313-319, main.rs 90-123).     *)
THEOREM Reports ==
    Spec /\ PollFair /\ SelectFair /\ StartFair
         /\ Settles(PollRank) /\ Settles(FaultsLeft) /\ Settles(FrontierLeft)
        => ReportedUnlessEnded
<1> DEFINE Fair == PollFair /\ SelectFair /\ StartFair /\ Settles(PollRank)
<1>1. [Next]_vars /\ redelivers => redelivers'
  BY OneBackend, Zenon
<1>2. PollTypeOK /\ [Next]_vars
          => issued \in Nat /\ issued' \in Nat /\ issued <= issued'
  <2> SUFFICES ASSUME PollTypeOK, [Next]_vars
               PROVE  issued \in Nat /\ issued' \in Nat /\ issued <= issued'
    OBVIOUS
  <2>1. issued' = issued \/ issued' = issued + 1
    BY DEF vars, backendVars, Next, Issue, Select, Timer, WakeUp, Listener,
           NotifyWakes, ListenerStep, ListenerFault, Stop, Start, Poll, Serve,
           NothingPending, Received, Refused, FetchFails, Execute,
           ExecutePanics, PatchApplied, PatchLost
  <2> QED BY <2>1 DEF PollTypeOK
<1>3. ASSUME NEW c \in Commands, NEW m \in Nat, NEW n \in Nat,
             NEW d \in Int, d = MaxCommands + 1 - m
      PROVE  Spec /\ Fair /\ redelivers
                  /\ <>[](FrontierLeft = m) /\ <>[](FaultsLeft = n)
                 => ((c <= issued) ~> (c \in reported \/ pc = "ended"))
  <2> DEFINE Queued(e) == e <= issued
             Ended     == pc = "ended"
  <2>1. PollTypeOK /\ FrontierLeft = m =>
            /\ Frontier = d
            /\ d \in 1 .. MaxCommands + 1 /\ d \notin reported
            /\ \A e \in Commands : e < d => e \in reported
    <3> SUFFICES ASSUME PollTypeOK, FrontierLeft = m
                 PROVE  /\ Frontier = d
                        /\ d \in 1 .. MaxCommands + 1 /\ d \notin reported
                        /\ \A e \in Commands : e < d => e \in reported
      OBVIOUS
    <3>1. /\ Frontier \in (1 .. MaxCommands + 1) \ reported
          /\ \A e \in Commands : e < Frontier => e \in reported
      BY FrontierIsFirst DEF PollTypeOK, Frontier, Unreported
    <3>2. Frontier = d
      BY <1>3, <3>1, QueueOK DEF QueueOK, FrontierLeft
    <3> QED BY <3>1, <3>2
  <2>2. PollTypeOK /\ FrontierLeft = m /\ redelivers /\ Queued(d) /\ ~Ended
            => Stuck(d)
    <3> SUFFICES ASSUME PollTypeOK, FrontierLeft = m, redelivers, Queued(d), ~Ended
                 PROVE  Stuck(d)
      OBVIOUS
    <3>1. d \in Commands /\ d \in Pending
      BY <2>1, QueueOK DEF QueueOK, PollTypeOK, Commands, Pending
    <3> QED BY <2>1, <3>1 DEF Stuck
  <2>3. PollTypeOK /\ FrontierLeft = m /\ ~Queued(d) /\ Queued(c) => c \in reported
    BY <2>1, QueueOK DEF QueueOK, PollTypeOK, Commands
  <2>4. PollTypeOK /\ [Next]_vars /\ Queued(c) => Queued(c)'
    BY <1>2, QueueOK DEF QueueOK, Commands
  <2>5. PollTypeOK /\ FrontierLeft = m /\ [Next]_vars /\ Queued(d) => Queued(d)'
    BY <1>2, <2>1, QueueOK DEF QueueOK
  <2>6. Spec /\ Fair => ~<>[](Stuck(d) /\ FaultsLeft = n)
    BY NotStuck
  <2> HIDE DEF Queued, Ended
  <2>7. Spec /\ Fair /\ redelivers /\ <>[](FrontierLeft = m) /\ <>[](FaultsLeft = n)
            => (Queued(c) ~> (c \in reported \/ Ended))
    BY <1>1, <2>2, <2>3, <2>4, <2>5, <2>6, CountCorrect, PTL DEF Spec
  <2> QED BY <2>7 DEF Queued, Ended
<1>4. ASSUME NEW c \in Commands, NEW m \in Nat, NEW n \in Nat
      PROVE  Spec /\ Fair /\ redelivers
                  /\ <>[](FrontierLeft = m) /\ <>[](FaultsLeft = n)
                 => ((c <= issued) ~> (c \in reported \/ pc = "ended"))
  <2>1. PICK d \in Int : d = MaxCommands + 1 - m
    BY QueueOK DEF QueueOK
  <2> QED BY <1>3, <2>1
<1>5. ASSUME NEW c \in Commands
      PROVE  Spec /\ Fair /\ redelivers
                  /\ Settles(FaultsLeft) /\ Settles(FrontierLeft)
                 => ((c <= issued) ~> (c \in reported \/ pc = "ended"))
  BY <1>4, FaultsEnd, FrontierEnds
<1> QED BY <1>5 DEF ReportedUnlessEnded
===============================================================================
