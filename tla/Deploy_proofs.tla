---------------------------- MODULE Deploy_proofs -----------------------------
(* Proofs about Deploy, for any number of commands, handlers and processes: it
   is an implementation of the queue, and what the queue guarantees about the
   order of commands carries over to the compose file and the containers. *)
EXTENDS Deploy, CommandQueue_proofs

-------------------------------------------------------------------------------
(* Every step is one of the queue, or leaves its variables alone. *)
LEMMA StepIsQueueStep == [DeployNext]_allVars => [Next]_vars
<1> SUFFICES ASSUME [DeployNext]_allVars PROVE [Next]_vars
  OBVIOUS
<1>1. CASE UNCHANGED allVars
  BY <1>1, Zenon DEF allVars
<1>2. CASE QueueStep
  BY <1>2, Zenon DEF QueueStep, Next, Poll
<1>3. CASE Command
  <2>1. Command => Execute \/ ExecutePanics \/ UNCHANGED vars
    BY Zenon DEF Command, ReadCommand, PutFile, Activate, SpawnFails, UpReturns,
                 UpPanics, UpTimesOut
  <2> QED BY <1>3, <2>1, Zenon DEF Next, Poll
<1>4. CASE Handler \/ Machine
  BY <1>4, Zenon DEF Handler, HandlerActivates, HandlerGivesUp, Machine, UpReads,
                     UpSucceeds, UpFails
<1>5. CASE StopAll
  BY <1>5, Zenon DEF StopAll, Next
<1> QED BY <1>1, <1>2, <1>3, <1>4, <1>5, Zenon DEF DeployNext

(***************************************************************************)
(* The machine, with everything the commands do to it, is a refinement of  *)
(* the queue: whatever is proved of CommandQueue holds of it.              *)
(***************************************************************************)
THEOREM ImplementsQueue == DeploySpec => Spec
<1>1. DeployInit => Init
  BY DEF DeployInit
<1> QED BY <1>1, StepIsQueueStep, PTL DEF DeploySpec, Spec

(* The commands of this machine run as the log of the queue allows: in order,  *)
(* one at a time, none again whose result is there, whatever else activates.  *)
THEOREM ImplementsLogToo == DeploySpec => Promise
BY ImplementsQueue, ImplementsLog, PTL

(* What the queue guarantees, as far as it is used below. *)
QueueInv == PollTypeOK /\ CountInv /\ OrderInv /\ OnceInv

LEMMA QueueCorrect == Spec => []QueueInv
<1>1. Init => OrderInv
  BY QueueOK DEF QueueOK, Init, OrderInv, InOrder, Commands
<1> QED BY <1>1, CountCorrect, OrderStep, OnceCorrect, PTL DEF Spec, QueueInv

-------------------------------------------------------------------------------
(* The newest of a set of commands. *)
LEMMA NewestIs ==
    ASSUME NEW S \in SUBSET Nat, NEW c \in S \union {0}, \A d \in S : c >= d
    PROVE  NewestOf(S) = c
<1>1. ASSUME NEW x \in S \union {0}, \A d \in S : x >= d PROVE x = c
  <2>1. x \in Nat /\ c \in Nat
    OBVIOUS
  <2>2. c \in S => x >= c
    BY <1>1
  <2>3. x \in S => c >= x
    OBVIOUS
  <2> QED BY <1>1, <2>1, <2>2, <2>3
<1> QED BY <1>1 DEF NewestOf

LEMMA NewestInSet ==
    ASSUME NEW S \in SUBSET Commands, S # {}
    PROVE  NewestOf(S) \in S /\ \A d \in S : NewestOf(S) >= d
<1> DEFINE T == {MaxCommands - x : x \in S}
<1>1. MaxCommands \in Nat /\ \A x \in S : x \in 1 .. MaxCommands
  BY QueueOK DEF QueueOK, Commands
<1>2. T \in SUBSET Nat /\ T # {}
  BY <1>1
<1>3. Oldest(T) \in T /\ \A t \in T : Oldest(T) <= t
  BY <1>2, OldestIsLeast
<1>4. PICK c \in S : Oldest(T) = MaxCommands - c
  BY <1>3
<1>5. ASSUME NEW d \in S PROVE c >= d
  <2>1. MaxCommands - c <= MaxCommands - d
    BY <1>3, <1>4
  <2> QED BY <1>1, <2>1
<1>6. NewestOf(S) = c
  BY <1>1, <1>5, NewestIs
<1> QED BY <1>5, <1>6

(* A command that is executed for the first time is newer than any that was. *)
LEMMA FirstIsNewest ==
    ASSUME QueueInv, pc = "execute", lost[Oldest(batch)] = 0
    PROVE  /\ Oldest(batch) \in Commands
           /\ executed[Oldest(batch)] = 0
           /\ \A d \in Commands : executed[d] > 0 => d < Oldest(batch)
<1> DEFINE c == Oldest(batch)
<1>1. c \in batch /\ c \in Commands
  BY BatchHasOldest DEF QueueInv, PollTypeOK
<1>2. executed[c] = 0
  <2>1. c \notin reported
    BY <1>1 DEF QueueInv, CountInv, BatchOK, Pending
  <2>2. executed[c] = lost[c] + One(c \in reported) + One(InPatch(c))
    BY <1>1 DEF QueueInv, CountInv, ExecutionsAccounted
  <2> QED BY <2>1, <2>2 DEF One, InPatch
<1>3. ASSUME NEW d \in Commands, executed[d] > 0 PROVE d < c
  <2>1. d \in Nat /\ c \in Nat
    BY <1>1, QueueOK DEF Commands, QueueOK
  <2>2. d # c
    BY <1>2, <1>3
  <2>3. CASE redelivers
    <3>1. ~(c < d)
      BY <1>1, <1>2, <1>3, <2>3 DEF QueueInv, OrderInv, InOrder
    <3> QED BY <2>1, <2>2, <3>1
  <2>4. CASE ~redelivers
    <3>1. d <= c
      BY <1>1, <1>3, <2>4 DEF QueueInv, OnceInv, RunsInv
    <3> QED BY <2>1, <2>2, <3>1
  <2> QED BY <2>3, <2>4
<1> QED BY <1>1, <1>2, <1>3

(* What the steps of the queue leave alone. *)
LEMMA QueueStepKeeps ==
    ASSUME QueueInv, QueueStep
    PROVE  /\ UNCHANGED deployVars
           /\ executed' = executed
           /\ \A c \in Commands : lost'[c] = 0 => lost[c] = 0
           /\ pc = "execute" => pc' = "execute" /\ batch' = batch
           /\ pc' = "patch" => pc = "patch" /\ batch' = batch
<1> USE DEF backendVars, pollVars, historyVars, PollReturns
<1>1. UNCHANGED deployVars
  BY DEF QueueStep
<1>2. CASE PatchLost
  <2>1. Oldest(batch) \in Commands
    BY <1>2, BatchHasOldest DEF PatchLost, QueueInv, PollTypeOK
  <2>2. lost' = [lost EXCEPT ![Oldest(batch)] = @ + 1] /\ lost \in [Commands -> Nat]
    BY <1>2 DEF PatchLost, QueueInv, PollTypeOK
  <2>3. pc = "patch" /\ pc' \in {"execute", "wait"} /\ executed' = executed
    BY <1>2 DEF PatchLost, NextCommand
  <2> QED BY <1>1, <2>1, <2>2, <2>3
<1>3. CASE PatchApplied
  BY <1>1, <1>3 DEF PatchApplied, NextCommand
<1>4. CASE Issue \/ Select \/ Start
  BY <1>1, <1>4 DEF Issue, Select, Timer, WakeUp, Start
<1>5. CASE Listener
  BY <1>1, <1>5 DEF Listener, NotifyWakes, ListenerStep, ListenerFault
<1>6. CASE Serve \/ NothingPending \/ Received \/ Refused \/ FetchFails
  BY <1>1, <1>6 DEF Serve, NothingPending, Received, Refused, FetchFails
<1> QED BY <1>2, <1>3, <1>4, <1>5, <1>6 DEF QueueStep

-------------------------------------------------------------------------------
(* The steps of the machine as the processes see them: one is spawned for a
   caller that has none, one is given up, or one goes on. *)
LEMMA NoProcessTyped == NoProcess \in Process
BY DEF NoProcess, Process, Versions

LEMMA SpawnTyped ==
    ASSUME DeployTypeOK, NEW caller \in Callers, SpawnFor(caller)
    PROVE  /\ proc' \in [Procs -> Process] /\ quiet' \in BOOLEAN
           /\ \A p, q \in Procs :
                  proc'[p].by = proc'[q].by /\ proc'[p].by # Nobody => p = q
<1> DEFINE new == [at |-> "started", by |-> caller, version |-> 0, ok |-> FALSE]
<1>1. PICK p \in Procs : proc' = [proc EXCEPT ![p] = new]
  BY Zenon DEF SpawnFor
<1>2. new \in Process /\ new.by = caller
  BY DEF Process, Versions
<1> HIDE DEF new
<1>3. proc' \in [Procs -> Process]
  BY <1>1, <1>2 DEF DeployTypeOK
<1>4. \A q \in Procs : proc'[q] = IF q = p THEN new ELSE proc[q]
  BY <1>1 DEF DeployTypeOK
<1>5. \A q, r \in Procs : proc'[q].by = proc'[r].by /\ proc'[q].by # Nobody => q = r
  BY <1>2, <1>4, Zenon DEF DeployTypeOK, SpawnFor
<1>6. quiet' \in BOOLEAN
  BY DEF SpawnFor
<1> QED BY <1>3, <1>5, <1>6

LEMMA ProcStepTyped ==
    ASSUME DeployTypeOK, NEW p \in Procs, NEW new \in Process,
           new.by \in {proc[p].by, Nobody}, proc' = [proc EXCEPT ![p] = new]
    PROVE  /\ proc' \in [Procs -> Process]
           /\ \A q, r \in Procs :
                  proc'[q].by = proc'[r].by /\ proc'[q].by # Nobody => q = r
<1>1. proc' \in [Procs -> Process]
  BY DEF DeployTypeOK
<1>2. \A q \in Procs : proc'[q] = IF q = p THEN new ELSE proc[q]
  BY DEF DeployTypeOK
<1>3. \A q, r \in Procs : proc'[q].by = proc'[r].by /\ proc'[q].by # Nobody => q = r
  BY <1>2, Zenon DEF DeployTypeOK
<1> QED BY <1>1, <1>3

LEMMA GivenUpTyped ==
    ASSUME DeployTypeOK, NEW p \in Procs, NEW caller, GivenUp(p, caller)
    PROVE  /\ proc' \in [Procs -> Process]
           /\ \A q, r \in Procs :
                  proc'[q].by = proc'[r].by /\ proc'[q].by # Nobody => q = r
<1> DEFINE new == [proc[p] EXCEPT !.by = Nobody]
<1>1. new \in Process /\ new.by = Nobody
  BY DEF DeployTypeOK, Process
<1>2. proc' = [proc EXCEPT ![p] = new]
  BY DEF GivenUp
<1> QED BY <1>1, <1>2, ProcStepTyped

LEMMA ReturnedTyped ==
    ASSUME DeployTypeOK, NEW p \in Procs, Returned(p)
    PROVE  /\ proc' \in [Procs -> Process]
           /\ \A q, r \in Procs :
                  proc'[q].by = proc'[r].by /\ proc'[q].by # Nobody => q = r
<1>1. NoProcess.by = Nobody /\ proc' = [proc EXCEPT ![p] = NoProcess]
  BY DEF NoProcess, Returned
<1> QED BY <1>1, NoProcessTyped, ProcStepTyped

LEMMA EndedTyped ==
    ASSUME DeployTypeOK, NEW p \in Procs, NEW ok \in BOOLEAN
    PROVE  Ended(p, ok) \in Process /\ Ended(p, ok).by \in {proc[p].by, Nobody}
<1>1. CASE proc[p].by = Poller
  <2>1. Ended(p, ok) = [proc[p] EXCEPT !.at = "done", !.ok = ok, !.version = 0]
    BY <1>1 DEF Ended
  <2>2. proc[p] \in Process /\ 0 \in Versions /\ "done" \in {"none", "started", "read", "done"}
    BY DEF DeployTypeOK, Versions
  <2>3. [proc[p] EXCEPT !.at = "done", !.ok = ok, !.version = 0] \in Process
    BY <2>2 DEF Process
  <2>4. [proc[p] EXCEPT !.at = "done", !.ok = ok, !.version = 0].by = proc[p].by
    BY <2>2 DEF Process
  <2> QED BY <2>1, <2>3, <2>4
<1>2. CASE proc[p].by # Poller
  BY <1>2, NoProcessTyped DEF Ended, NoProcess
<1> QED BY <1>1, <1>2

LEMMA ExecuteFacts ==
    ASSUME QueueInv, Execute
    PROVE  /\ Current \in Commands
           /\ pc = "execute" /\ pc' = "patch"
           /\ batch' = batch /\ lost' = lost
           /\ executed' = [executed EXCEPT ![Current] = @ + 1]
BY BatchHasOldest DEF QueueInv, PollTypeOK, Execute, Current, pollVars

LEMMA DeployTypeStep ==
    QueueInv /\ DeployTypeOK /\ [DeployNext]_allVars => DeployTypeOK'
<1> SUFFICES ASSUME QueueInv, DeployTypeOK, [DeployNext]_allVars
             PROVE  DeployTypeOK'
  OBVIOUS
<1>a. Poller \in Callers /\ \A h \in Handlers : h \in Callers
  BY DEF Callers
<1>b. Execute => Current \in Commands
  BY ExecuteFacts
<1>1. CASE UNCHANGED allVars \/ QueueStep
  <2>1. UNCHANGED deployVars
    BY <1>1, QueueStepKeeps, Zenon DEF allVars
  <2> QED BY <2>1, Zenon DEF deployVars, DeployTypeOK
<1>2. CASE ReadCommand \/ PutFile
  <2>1. file' \in Versions
    BY <1>2, <1>b DEF ReadCommand, PutFile, DeployTypeOK, Versions
  <2>2. outcome' \in [Commands -> {"none", "completed", "failed"}]
    BY <1>2, <1>b DEF ReadCommand, PutFile, DeployTypeOK
  <2>3. UNCHANGED <<stack, proc, quiet>>
    BY <1>2, Zenon DEF ReadCommand, PutFile
  <2> QED BY <2>1, <2>2, <2>3, Zenon DEF DeployTypeOK
<1>3. CASE Activate \/ HandlerActivates
  <2>1. PICK caller \in Callers : SpawnFor(caller)
    BY <1>3, <1>a, Zenon DEF Activate, HandlerActivates
  <2>2. UNCHANGED <<file, stack, outcome>>
    BY <1>3, Zenon DEF Activate, HandlerActivates
  <2> QED BY <2>1, <2>2, SpawnTyped, Zenon DEF DeployTypeOK
<1>4. CASE SpawnFails
  <2>1. outcome' \in [Commands -> {"none", "completed", "failed"}]
    BY <1>4, <1>b DEF SpawnFails, DeployTypeOK
  <2>2. UNCHANGED <<file, stack, proc, quiet>>
    BY <1>4, Zenon DEF SpawnFails
  <2> QED BY <2>1, <2>2, Zenon DEF DeployTypeOK
<1>5. CASE UpReturns \/ UpTimesOut
  <2>1. outcome' \in [Commands -> {"none", "completed", "failed"}]
    BY <1>5, <1>b DEF UpReturns, UpTimesOut, DeployTypeOK
  <2>2. PICK p \in Procs : Returned(p) \/ GivenUp(p, Poller)
    BY <1>5, Zenon DEF UpReturns, UpTimesOut
  <2>3. UNCHANGED <<file, stack>> /\ quiet' \in {quiet, FALSE}
    BY <1>5, Zenon DEF UpReturns, UpTimesOut
  <2>4. quiet' \in BOOLEAN
    BY <2>3 DEF DeployTypeOK
  <2> QED BY <2>1, <2>2, <2>3, <2>4, ReturnedTyped, GivenUpTyped, Zenon
          DEF DeployTypeOK
<1>6. CASE UpPanics
  <2>1. PICK p \in Procs : Returned(p)
    BY <1>6, Zenon DEF UpPanics
  <2>2. UNCHANGED <<file, stack, outcome, quiet>>
    BY <1>6, Zenon DEF UpPanics
  <2> QED BY <2>1, <2>2, ReturnedTyped, Zenon DEF DeployTypeOK
<1>7. CASE HandlerGivesUp
  <2>1. PICK h \in Handlers, p \in Procs : GivenUp(p, h)
    BY <1>7, Zenon DEF HandlerGivesUp
  <2>2. UNCHANGED <<file, stack, outcome, quiet>>
    BY <1>7, Zenon DEF HandlerGivesUp
  <2> QED BY <2>1, <2>2, GivenUpTyped, Zenon DEF DeployTypeOK
<1>8. CASE UpReads
  <2>1. PICK p \in Procs :
            proc' = [proc EXCEPT ![p].at = "read", ![p].version = file]
    BY <1>8, Zenon DEF UpReads
  <2> DEFINE new == [proc[p] EXCEPT !.at = "read", !.version = file]
  <2>2. new \in Process /\ new.by = proc[p].by
    BY DEF DeployTypeOK, Process
  <2>3. proc' = [proc EXCEPT ![p] = new]
    BY <2>1
  <2>4. UNCHANGED <<file, stack, outcome, quiet>>
    BY <1>8, Zenon DEF UpReads
  <2> HIDE DEF new
  <2> QED BY <2>2, <2>3, <2>4, ProcStepTyped, Zenon DEF DeployTypeOK
<1>9. CASE UpSucceeds
  <2>1. PICK p \in Procs :
            /\ proc' = [proc EXCEPT ![p] = Ended(p, TRUE)]
            /\ stack' \in {proc[p].version} \union IF quiet THEN {} ELSE {Mixed}
    BY <1>9, Zenon DEF UpSucceeds
  <2>2. stack' \in Versions \union {Mixed}
    BY <2>1 DEF DeployTypeOK, Process
  <2>3. UNCHANGED <<file, outcome, quiet>>
    BY <1>9, Zenon DEF UpSucceeds
  <2>4. Ended(p, TRUE) \in Process /\ Ended(p, TRUE).by \in {proc[p].by, Nobody}
    BY EndedTyped
  <2> QED BY <2>1, <2>2, <2>3, <2>4, ProcStepTyped, Zenon DEF DeployTypeOK
<1>10. CASE UpFails
  <2>1. PICK p \in Procs :
            /\ proc' = [proc EXCEPT ![p] = Ended(p, FALSE)]
            /\ stack' \in {stack, Mixed}
    BY <1>10, Zenon DEF UpFails
  <2>2. stack' \in Versions \union {Mixed}
    BY <2>1 DEF DeployTypeOK
  <2>3. UNCHANGED <<file, outcome, quiet>>
    BY <1>10, Zenon DEF UpFails
  <2>4. Ended(p, FALSE) \in Process /\ Ended(p, FALSE).by \in {proc[p].by, Nobody}
    BY EndedTyped
  <2> QED BY <2>1, <2>2, <2>3, <2>4, ProcStepTyped, Zenon DEF DeployTypeOK
<1>11. CASE StopAll
  <2>1. \A p \in Procs : Orphaned(p) \in Process /\ Orphaned(p).by = Nobody
    <3> SUFFICES ASSUME NEW p \in Procs
                 PROVE  Orphaned(p) \in Process /\ Orphaned(p).by = Nobody
      OBVIOUS
    <3>1. CASE Running(p)
      BY <3>1 DEF Orphaned, DeployTypeOK, Process
    <3>2. CASE ~Running(p)
      BY <3>2, NoProcessTyped DEF Orphaned, NoProcess
    <3> QED BY <3>1, <3>2
  <2>2. /\ proc' \in [Procs -> Process]
        /\ \A p \in Procs : proc'[p].by = Nobody
    <3>1. CASE proc' = [p \in Procs |-> NoProcess]
      BY <3>1, NoProcessTyped DEF NoProcess
    <3>2. CASE proc' = [p \in Procs |-> Orphaned(p)]
      BY <2>1, <3>2
    <3> QED BY <1>11, <3>1, <3>2 DEF StopAll
  <2>3. stack' \in Versions \union {Mixed} /\ quiet' = FALSE
    BY <1>11 DEF StopAll, DeployTypeOK
  <2>4. UNCHANGED <<file, outcome>>
    BY <1>11, Zenon DEF StopAll
  <2> QED BY <2>2, <2>3, <2>4 DEF DeployTypeOK
<1> QED BY <1>1, <1>2, <1>3, <1>4, <1>5, <1>6, <1>7, <1>8, <1>9, <1>10, <1>11, Zenon
        DEF DeployNext, Command, Handler, Machine

LEMMA DeployTypeCorrect == DeploySpec => [](QueueInv /\ DeployTypeOK)
<1>1. DeployInit => DeployTypeOK
  <2> SUFFICES ASSUME DeployInit PROVE DeployTypeOK
    OBVIOUS
  <2>1. /\ proc \in [Procs -> Process]
        /\ \A p \in Procs : proc[p].by = Nobody
    BY NoProcessTyped DEF DeployInit, NoProcess
  <2>2. file \in Versions /\ stack \in Versions \union {Mixed} /\ quiet \in BOOLEAN
    BY DEF DeployInit, Versions
  <2>3. outcome \in [Commands -> {"none", "completed", "failed"}]
    BY DEF DeployInit
  <2> QED BY <2>1, <2>2, <2>3, Zenon DEF DeployTypeOK
<1>2. DeploySpec => []QueueInv
  BY ImplementsQueue, QueueCorrect, PTL
<1> QED BY <1>1, <1>2, DeployTypeStep, PTL DEF DeploySpec

(***************************************************************************)
(* The compose file, the containers and the processes have their types,    *)
(* and no caller ever waits for two processes.                             *)
(***************************************************************************)
THEOREM DeployTypeAlways == DeploySpec => []DeployTypeOK
BY DeployTypeCorrect, PTL

-------------------------------------------------------------------------------
(* The poll loop's process exists while one Activate is executed. *)
PollerInv == \A p \in Procs :
    /\ proc[p].at = "done" => proc[p].by = Poller
    /\ proc[p].by = Poller => pc = "execute" /\ Current \in Activates

(* What a process that is replaced by another, or by none, has to satisfy. *)
LEMMA PollerProcStep ==
    ASSUME DeployTypeOK, PollerInv, NEW p \in Procs, NEW new \in Process,
           proc' = [proc EXCEPT ![p] = new], UNCHANGED <<pc, batch>>,
           new.at = "done" => new.by = Poller,
           new.by = Poller => pc = "execute" /\ Current \in Activates
    PROVE  PollerInv'
<1>1. \A q \in Procs : proc'[q] = IF q = p THEN new ELSE proc[q]
  BY DEF DeployTypeOK
<1>2. Current' = Current
  BY DEF Current
<1> QED BY <1>1, <1>2, Zenon DEF PollerInv

(* Nobody but the poll loop has its process, so when it is gone none is left. *)
LEMMA PollerLeaves ==
    ASSUME DeployTypeOK, PollerInv, NEW p \in Procs, proc[p].by = Poller,
           NEW new \in Process, proc' = [proc EXCEPT ![p] = new],
           new.at # "done", new.by = Nobody
    PROVE  PollerInv'
<1>1. \A q \in Procs : proc'[q] = IF q = p THEN new ELSE proc[q]
  BY DEF DeployTypeOK
<1>2. Poller # Nobody
  BY DeployOK DEF DeployOK
<1>3. \A q \in Procs : q # p => proc[q].by # Poller
  BY <1>2, Zenon DEF DeployTypeOK
<1> QED BY <1>1, <1>2, <1>3, Zenon DEF PollerInv

LEMMA PollerStep ==
    QueueInv /\ DeployTypeOK /\ PollerInv /\ [DeployNext]_allVars => PollerInv'
<1> SUFFICES ASSUME QueueInv, DeployTypeOK, PollerInv, [DeployNext]_allVars
             PROVE  PollerInv'
  OBVIOUS
<1>a. Poller # Nobody /\ Poller \notin Handlers /\ Nobody \notin Handlers
  BY DeployOK DEF DeployOK
<1>b. ASSUME Execute \/ ExecutePanics, NEW p \in Procs, Returned(p) \/ GivenUp(p, Poller)
      PROVE  PollerInv'
  <2>1. proc[p].by = Poller
    BY <1>b, Zenon DEF Returned, GivenUp, PollerInv
  <2>2. CASE Returned(p)
    <3>1. proc' = [proc EXCEPT ![p] = NoProcess]
      BY <2>2 DEF Returned
    <3>2. NoProcess.at # "done" /\ NoProcess.by = Nobody
      BY DEF NoProcess
    <3> QED BY <2>1, <3>1, <3>2, NoProcessTyped, PollerLeaves, Zenon
  <2>3. CASE GivenUp(p, Poller)
    <3> DEFINE new == [proc[p] EXCEPT !.by = Nobody]
    <3>1. new \in Process /\ new.by = Nobody /\ new.at = proc[p].at
      BY DEF DeployTypeOK, Process
    <3>2. proc' = [proc EXCEPT ![p] = new] /\ proc[p].at # "done"
      BY <2>3 DEF GivenUp, Running
    <3> HIDE DEF new
    <3> QED BY <2>1, <3>1, <3>2, PollerLeaves, Zenon
  <2> QED BY <1>b, <2>2, <2>3
<1>c. ASSUME NEW caller \in Callers, SpawnFor(caller), UNCHANGED vars,
             caller = Poller => pc = "execute" /\ Current \in Activates
      PROVE  PollerInv'
  <2> DEFINE new == [at |-> "started", by |-> caller, version |-> 0, ok |-> FALSE]
  <2>1. PICK p \in Procs : proc' = [proc EXCEPT ![p] = new]
    BY <1>c, Zenon DEF SpawnFor
  <2>2. new \in Process /\ new.by = caller /\ new.at # "done"
    BY DEF Process, Versions
  <2>3. UNCHANGED <<pc, batch>>
    BY <1>c DEF vars, pollVars
  <2> HIDE DEF new
  <2> QED BY <1>c, <2>1, <2>2, <2>3, PollerProcStep, Zenon
<1>1. CASE UNCHANGED allVars
  <2>1. UNCHANGED <<pc, batch, proc>>
    BY <1>1 DEF allVars, vars, pollVars, deployVars
  <2> QED BY <2>1 DEF PollerInv, Current
<1>2. CASE QueueStep
  <2>1. proc' = proc /\ (pc = "execute" => pc' = "execute" /\ batch' = batch)
    BY <1>2, QueueStepKeeps, Zenon DEF deployVars
  <2> QED BY <2>1 DEF PollerInv, Current
<1>3. CASE ReadCommand \/ PutFile \/ SpawnFails
  <2>1. proc' = proc /\ \A p \in Procs : proc[p].by # Poller
    <3>1. CASE ReadCommand \/ PutFile
      <4>1. Current \notin Activates
        BY <3>1, DeployOK DEF ReadCommand, PutFile, DeployOK
      <4> QED BY <3>1, <4>1, Zenon DEF ReadCommand, PutFile, PollerInv
    <3>2. CASE SpawnFails
      BY <3>2, Zenon DEF SpawnFails
    <3> QED BY <1>3, <3>1, <3>2
  <2> QED BY <2>1, Zenon DEF PollerInv
<1>4. CASE Activate
  BY <1>4, <1>c, Zenon DEF Activate, Callers
<1>5. CASE HandlerActivates
  BY <1>5, <1>a, <1>c, Zenon DEF HandlerActivates, Callers
<1>6. CASE UpReturns \/ UpPanics \/ UpTimesOut
  BY <1>6, <1>b, Zenon DEF UpReturns, UpPanics, UpTimesOut
<1>7. CASE HandlerGivesUp
  <2>1. PICK h \in Handlers, p \in Procs : GivenUp(p, h)
    BY <1>7, Zenon DEF HandlerGivesUp
  <2> DEFINE new == [proc[p] EXCEPT !.by = Nobody]
  <2>2. new \in Process /\ new.by = Nobody /\ new.at = proc[p].at
    BY DEF DeployTypeOK, Process
  <2>3. proc' = [proc EXCEPT ![p] = new] /\ proc[p].at # "done"
    BY <2>1 DEF GivenUp, Running
  <2>4. UNCHANGED <<pc, batch>>
    BY <1>7 DEF HandlerGivesUp, vars, pollVars
  <2> HIDE DEF new
  <2> QED BY <1>a, <2>2, <2>3, <2>4, PollerProcStep, Zenon
<1>8. CASE UpReads
  <2>1. PICK p \in Procs :
            proc' = [proc EXCEPT ![p].at = "read", ![p].version = file]
    BY <1>8, Zenon DEF UpReads
  <2> DEFINE new == [proc[p] EXCEPT !.at = "read", !.version = file]
  <2>2. new \in Process /\ new.by = proc[p].by /\ new.at # "done"
    BY DEF DeployTypeOK, Process
  <2>3. proc' = [proc EXCEPT ![p] = new] /\ UNCHANGED <<pc, batch>>
    BY <1>8, <2>1 DEF UpReads, vars, pollVars
  <2> HIDE DEF new
  <2>4. new.by = Poller => pc = "execute" /\ Current \in Activates
    BY <2>2, Zenon DEF PollerInv
  <2> QED BY <2>2, <2>3, <2>4, PollerProcStep, Zenon
<1>9. CASE UpSucceeds \/ UpFails
  <2>1. PICK p \in Procs, ok \in BOOLEAN : proc' = [proc EXCEPT ![p] = Ended(p, ok)]
    BY <1>9, Zenon DEF UpSucceeds, UpFails
  <2>2. /\ Ended(p, ok) \in Process /\ Ended(p, ok).by \in {proc[p].by, Nobody}
        /\ Ended(p, ok).at = "done" => Ended(p, ok).by = Poller
    <3>1. CASE proc[p].by = Poller
      <4>1. Ended(p, ok) = [proc[p] EXCEPT !.at = "done", !.ok = ok, !.version = 0]
        BY <3>1 DEF Ended
      <4>2. Ended(p, ok).by = Poller
        BY <3>1, <4>1 DEF DeployTypeOK, Process
      <4> QED BY <4>2, EndedTyped
    <3>2. CASE proc[p].by # Poller
      BY <3>2, EndedTyped DEF Ended, NoProcess
    <3> QED BY <3>1, <3>2
  <2>3. UNCHANGED <<pc, batch>>
    BY <1>9 DEF UpSucceeds, UpFails, vars, pollVars
  <2>4. Ended(p, ok).by = Poller => pc = "execute" /\ Current \in Activates
    BY <1>a, <2>2 DEF PollerInv
  <2> QED BY <2>1, <2>2, <2>3, <2>4, PollerProcStep, Zenon
<1>10. CASE StopAll
  <2>1. \A p \in Procs : Orphaned(p).by = Nobody /\ Orphaned(p).at # "done"
    <3> SUFFICES ASSUME NEW p \in Procs
                 PROVE  Orphaned(p).by = Nobody /\ Orphaned(p).at # "done"
      OBVIOUS
    <3>1. CASE Running(p)
      BY <3>1 DEF Orphaned, DeployTypeOK, Process, Running
    <3>2. CASE ~Running(p)
      BY <3>2 DEF Orphaned, NoProcess
    <3> QED BY <3>1, <3>2
  <2>2. \A p \in Procs : proc'[p].by = Nobody /\ proc'[p].at # "done"
    BY <1>10, <2>1 DEF StopAll, NoProcess
  <2> QED BY <1>a, <2>2 DEF PollerInv
<1> QED BY <1>1, <1>2, <1>3, <1>4, <1>5, <1>6, <1>7, <1>8, <1>9, <1>10, Zenon
        DEF DeployNext, Command, Handler, Machine

LEMMA PollerCorrect == DeploySpec => []PollerInv
<1>1. DeployInit => PollerInv
  BY DeployOK DEF DeployOK, DeployInit, PollerInv, NoProcess
<1> QED BY <1>1, DeployTypeCorrect, PollerStep, PTL DEF DeploySpec

-------------------------------------------------------------------------------
(* In quiet the poll loop's process is alone; it reads the file that is in
   place, which only the loop itself replaces, and deploys it. *)
QuietInv == quiet =>
    \A p \in Procs :
        /\ Running(p) => proc[p].by = Poller
        /\ proc[p].at = "read" => proc[p].version = file
        /\ proc[p].at = "done" /\ proc[p].ok => stack = file

DeployInv == QueueInv /\ DeployTypeOK /\ PollerInv

LEMMA QuietStep == DeployInv /\ QuietInv /\ [DeployNext]_allVars => QuietInv'
<1> SUFFICES ASSUME DeployInv, QuietInv, [DeployNext]_allVars, quiet'
             PROVE  QuietInv'
  BY DEF QuietInv
<1>a. Poller \notin Handlers
  BY DeployOK DEF DeployOK
<1>1. CASE UNCHANGED <<file, stack, proc, quiet>>
  BY <1>1 DEF QuietInv, Running
<1>2. CASE PutFile
  <2>1. \A p \in Procs : proc[p].by # Poller
    BY <1>2, DeployOK, Zenon DEF PutFile, DeployInv, PollerInv, DeployOK
  <2>2. quiet /\ UNCHANGED proc
    BY <1>2 DEF PutFile
  <2>3. \A p \in Procs : proc[p].at \notin {"started", "read", "done"}
    BY <2>1, <2>2 DEF DeployInv, PollerInv, QuietInv, Running
  <2> QED BY <2>2, <2>3 DEF QuietInv, Running
<1>3. CASE Activate
  <2> DEFINE new == [at |-> "started", by |-> Poller, version |-> 0, ok |-> FALSE]
  <2>1. /\ \A p \in Procs : proc[p].by # Poller
        /\ \A p \in Procs : ~Running(p)
    BY <1>3 DEF Activate, SpawnFor
  <2>2. \A p \in Procs : proc[p].at \notin {"started", "read", "done"}
    BY <2>1 DEF DeployInv, PollerInv, Running
  <2>3. PICK p \in Procs : proc' = [proc EXCEPT ![p] = new]
    BY <1>3, Zenon DEF Activate, SpawnFor
  <2>4. \A q \in Procs : proc'[q] = IF q = p THEN new ELSE proc[q]
    BY <2>3 DEF DeployInv, DeployTypeOK
  <2> QED BY <2>2, <2>4 DEF QuietInv, Running
<1>4. CASE HandlerActivates
  BY <1>4, <1>a DEF HandlerActivates, SpawnFor
<1>5. CASE UpReturns \/ UpPanics
  <2>1. PICK p \in Procs : proc' = [proc EXCEPT ![p] = NoProcess]
    BY <1>5, Zenon DEF UpReturns, UpPanics, Returned
  <2>2. UNCHANGED <<file, stack, quiet>>
    BY <1>5 DEF UpReturns, UpPanics
  <2>3. \A q \in Procs : proc'[q] = IF q = p THEN NoProcess ELSE proc[q]
    BY <2>1 DEF DeployInv, DeployTypeOK
  <2> QED BY <2>2, <2>3 DEF QuietInv, Running, NoProcess
<1>6. CASE UpTimesOut \/ StopAll
  BY <1>6 DEF UpTimesOut, StopAll
<1>7. CASE HandlerGivesUp
  BY <1>7, <1>a DEF HandlerGivesUp, GivenUp, QuietInv
<1>8. CASE UpReads
  <2>1. PICK p \in Procs :
            /\ proc[p].at = "started"
            /\ proc' = [proc EXCEPT ![p].at = "read", ![p].version = file]
    BY <1>8, Zenon DEF UpReads
  <2> DEFINE new == [proc[p] EXCEPT !.at = "read", !.version = file]
  <2>2. new.at = "read" /\ new.by = proc[p].by /\ new.version = file
    BY DEF DeployInv, DeployTypeOK, Process
  <2>3. \A q \in Procs : proc'[q] = IF q = p THEN new ELSE proc[q]
    BY <2>1 DEF DeployInv, DeployTypeOK
  <2>4. UNCHANGED <<file, stack, quiet>>
    BY <1>8 DEF UpReads
  <2> HIDE DEF new
  <2> QED BY <2>1, <2>2, <2>3, <2>4 DEF QuietInv, Running
<1>9. ASSUME NEW p \in Procs, NEW ok \in BOOLEAN, Running(p),
             proc' = [proc EXCEPT ![p] = Ended(p, ok)],
             UNCHANGED <<file, quiet>>, ok => stack' = file
      PROVE  QuietInv'
  <2>1. quiet /\ proc[p].by = Poller
    BY <1>9 DEF QuietInv
  <2>2. Ended(p, ok) = [proc[p] EXCEPT !.at = "done", !.ok = ok, !.version = 0]
    BY <2>1 DEF Ended
  <2>3. Ended(p, ok).at = "done" /\ Ended(p, ok).ok = ok
    BY <2>2 DEF DeployInv, DeployTypeOK, Process
  <2>4. \A q \in Procs : proc'[q] = IF q = p THEN Ended(p, ok) ELSE proc[q]
    BY <1>9 DEF DeployInv, DeployTypeOK
  <2>5. \A q \in Procs : q # p => proc[q].by # Poller
    BY <2>1, DeployOK DEF DeployOK, DeployInv, DeployTypeOK
  <2>6. \A q \in Procs : q # p => proc[q].at \notin {"started", "read", "done"}
    BY <2>1, <2>5 DEF DeployInv, PollerInv, QuietInv, Running
  <2> QED BY <1>9, <2>3, <2>4, <2>6 DEF QuietInv, Running
<1>10. CASE UpSucceeds
  <2>1. PICK p \in Procs :
            /\ proc[p].at = "read"
            /\ stack' \in {proc[p].version} \union IF quiet THEN {} ELSE {Mixed}
            /\ proc' = [proc EXCEPT ![p] = Ended(p, TRUE)]
    BY <1>10, Zenon DEF UpSucceeds
  <2>2. UNCHANGED <<file, quiet>>
    BY <1>10 DEF UpSucceeds
  <2>3. stack' = file /\ Running(p)
    BY <2>1, <2>2 DEF QuietInv, Running
  <2> QED BY <1>9, <2>1, <2>2, <2>3
<1>11. CASE UpFails
  <2>1. PICK p \in Procs : Running(p) /\ proc' = [proc EXCEPT ![p] = Ended(p, FALSE)]
    BY <1>11, Zenon DEF UpFails
  <2>2. UNCHANGED <<file, quiet>>
    BY <1>11 DEF UpFails
  <2> QED BY <1>9, <2>1, <2>2
<1>12. QueueStep => UNCHANGED <<file, stack, proc, quiet>>
  BY QueueStepKeeps DEF DeployInv, deployVars
<1>13. ReadCommand \/ SpawnFails \/ UNCHANGED allVars => UNCHANGED <<file, stack, proc, quiet>>
  BY DEF ReadCommand, SpawnFails, allVars, deployVars
<1> QED BY <1>1, <1>2, <1>3, <1>4, <1>5, <1>6, <1>7, <1>8, <1>10, <1>11, <1>12, <1>13, Zenon
        DEF DeployNext, Command, Handler, Machine

-------------------------------------------------------------------------------
LEMMA CompletedStep ==
    DeployInv /\ QuietInv /\ CompletedIsDeployed /\ [DeployNext]_allVars
        => CompletedIsDeployed'
<1> SUFFICES ASSUME DeployInv, QuietInv, CompletedIsDeployed, [DeployNext]_allVars,
                    pc' = "patch", Current' \in Activates, quiet',
                    outcome'[Current'] = "completed"
             PROVE  stack' = file'
  BY DEF CompletedIsDeployed
<1>a. Execute => Current' = Current /\ Current \in Commands
  BY ExecuteFacts DEF DeployInv, Current
<1>b. UNCHANGED vars => pc = "patch" /\ Current' = Current
  BY DEF vars, pollVars, Current
<1>1. CASE UNCHANGED vars /\ UNCHANGED <<file, stack, outcome, quiet>>
  BY <1>1, <1>b DEF CompletedIsDeployed
<1>2. CASE QueueStep
  <2>1. pc = "patch" /\ batch' = batch /\ UNCHANGED deployVars
    BY <1>2, QueueStepKeeps DEF DeployInv
  <2> QED BY <2>1 DEF deployVars, Current, CompletedIsDeployed
<1>3. CASE ReadCommand \/ PutFile
  <2>1. Current \notin Activates
    BY <1>3, DeployOK DEF ReadCommand, PutFile, DeployOK
  <2> QED BY <1>3, <1>a, <2>1 DEF ReadCommand, PutFile
<1>4. CASE SpawnFails
  <2>1. outcome'[Current] = "failed"
    BY <1>4, <1>a DEF SpawnFails, DeployInv, DeployTypeOK
  <2> QED BY <1>4, <1>a, <2>1 DEF SpawnFails
<1>5. CASE Activate
  BY <1>5, <1>b DEF Activate
<1>6. CASE UpReturns
  <2>1. PICK p \in Procs :
            /\ proc[p].at = "done"
            /\ outcome' = [outcome EXCEPT ![Current] = IF proc[p].ok THEN "completed"
                                                                    ELSE "failed"]
    BY <1>6 DEF UpReturns, Returned
  <2>2. Execute /\ UNCHANGED <<file, stack, quiet>>
    BY <1>6 DEF UpReturns
  <2>3. outcome'[Current] = IF proc[p].ok THEN "completed" ELSE "failed"
    BY <1>a, <2>1, <2>2 DEF DeployInv, DeployTypeOK
  <2> QED BY <1>a, <2>1, <2>2, <2>3 DEF QuietInv
<1>7. CASE UpPanics
  BY <1>7 DEF UpPanics, ExecutePanics
<1>8. CASE UpTimesOut \/ StopAll
  BY <1>8 DEF UpTimesOut, StopAll
<1>9. CASE HandlerActivates
  BY <1>9, DeployOK DEF HandlerActivates, SpawnFor, DeployOK
<1>10. CASE UpSucceeds \/ UpFails
  <2>1. PICK p \in Procs : Running(p)
    BY <1>10, Zenon DEF UpSucceeds, UpFails, Running
  <2>2. quiet /\ UNCHANGED vars
    BY <1>10 DEF UpSucceeds, UpFails
  <2> QED BY <1>b, <2>1, <2>2 DEF QuietInv, DeployInv, PollerInv
<1>11. UNCHANGED allVars \/ HandlerGivesUp \/ UpReads
         => UNCHANGED vars /\ UNCHANGED <<file, stack, outcome, quiet>>
  BY DEF allVars, deployVars, HandlerGivesUp, UpReads
<1> QED BY <1>1, <1>2, <1>3, <1>4, <1>5, <1>6, <1>7, <1>8, <1>9, <1>10, <1>11, Zenon
        DEF DeployNext, Command, Handler, Machine

LEMMA DeployCorrect ==
    DeploySpec => [](DeployInv /\ QuietInv /\ CompletedIsDeployed)
<1>1. DeployInit => QuietInv /\ CompletedIsDeployed
  BY DEF DeployInit, Init, QuietInv, CompletedIsDeployed
<1>2. DeploySpec => []DeployInv
  BY DeployTypeCorrect, PollerCorrect, PTL DEF DeployInv
<1> QED BY <1>1, <1>2, QuietStep, CompletedStep, PTL DEF DeploySpec

(***************************************************************************)
(* An Activate that reports success, with no other process about, has      *)
(* deployed the compose file: for any number of handlers and processes.    *)
(***************************************************************************)
THEOREM CompletedDeploys == DeploySpec => []CompletedIsDeployed
BY DeployCorrect, PTL

-------------------------------------------------------------------------------
(* A command that has an outcome was executed. *)
OutcomeInv == \A c \in Commands : outcome[c] # "none" => executed[c] > 0

(* How a step bears on the outcomes: it executes a command, which gives it one
   or not, or leaves both alone. *)
LEMMA OutcomeFacts ==
    ASSUME DeployInv, [DeployNext]_allVars
    PROVE  \/ /\ Execute \/ ExecutePanics
              /\ Current \in Commands
              /\ executed' = [executed EXCEPT ![Current] = @ + 1]
              /\ \/ outcome' = outcome
                 \/ \E status : outcome' = [outcome EXCEPT ![Current] = status]
           \/ UNCHANGED <<executed, outcome>>
<1>a. Execute => /\ Current \in Commands
                 /\ executed' = [executed EXCEPT ![Current] = @ + 1]
  BY ExecuteFacts DEF DeployInv
<1>b. ExecutePanics => /\ Current \in Commands
                       /\ executed' = [executed EXCEPT ![Current] = @ + 1]
  BY BatchHasOldest DEF DeployInv, QueueInv, PollTypeOK, ExecutePanics, Current
<1>1. CASE UNCHANGED allVars \/ Handler \/ Machine \/ Activate
  BY <1>1 DEF allVars, vars, historyVars, deployVars, Handler, HandlerActivates,
              HandlerGivesUp, Machine, UpReads, UpSucceeds, UpFails, Activate
<1>2. CASE QueueStep
  BY <1>2, QueueStepKeeps DEF DeployInv, deployVars
<1>3. CASE ReadCommand \/ PutFile \/ SpawnFails
  BY <1>3, <1>a, Zenon DEF ReadCommand, PutFile, SpawnFails
<1>4. CASE UpReturns
  <2>1. Execute /\ \E status : outcome' = [outcome EXCEPT ![Current] = status]
    BY <1>4, Zenon DEF UpReturns
  <2> QED BY <2>1, <1>a, Zenon
<1>5. CASE UpTimesOut
  <2>1. Execute /\ \E status : outcome' = [outcome EXCEPT ![Current] = status]
    BY <1>5, Zenon DEF UpTimesOut
  <2> QED BY <2>1, <1>a, Zenon
<1>6. CASE UpPanics
  <2>1. ExecutePanics /\ outcome' = outcome
    BY <1>6, Zenon DEF UpPanics
  <2> QED BY <2>1, <1>b, Zenon
<1>7. CASE StopAll
  BY <1>7 DEF StopAll, Stop
<1> QED BY <1>1, <1>2, <1>3, <1>4, <1>5, <1>6, <1>7, Zenon DEF DeployNext, Command

LEMMA OutcomeStep == DeployInv /\ OutcomeInv /\ [DeployNext]_allVars => OutcomeInv'
<1> SUFFICES ASSUME DeployInv, OutcomeInv, [DeployNext]_allVars,
                    NEW c \in Commands, outcome'[c] # "none"
             PROVE  executed'[c] > 0
  BY DEF OutcomeInv, Commands
<1>1. executed \in [Commands -> Nat] /\ outcome \in [Commands -> {"none", "completed", "failed"}]
  BY DEF DeployInv, QueueInv, PollTypeOK, DeployTypeOK
<1>2. CASE UNCHANGED <<executed, outcome>>
  BY <1>2 DEF OutcomeInv
<1>3. CASE /\ Current \in Commands
           /\ executed' = [executed EXCEPT ![Current] = @ + 1]
           /\ \/ outcome' = outcome
              \/ \E status : outcome' = [outcome EXCEPT ![Current] = status]
  <2>1. CASE c = Current
    BY <1>1, <1>3, <2>1
  <2>2. CASE c # Current
    <3>1. outcome'[c] = outcome[c] /\ executed'[c] = executed[c]
      BY <1>1, <1>3, <2>2
    <3> QED BY <3>1 DEF OutcomeInv
  <2> QED BY <2>1, <2>2
<1> QED BY <1>2, <1>3, OutcomeFacts

(* A step other than a PutFile gives no PutFile an outcome. *)
LEMMA PutsKeep ==
    ASSUME DeployInv, [DeployNext]_allVars, ~PutFile
    PROVE  file' = file /\ \A c \in Puts \intersect Commands : outcome'[c] = outcome[c]
<1>a. Execute => Current \in Commands
  BY ExecuteFacts DEF DeployInv
<1>b. Puts \intersect Activates = {}
  BY DeployOK DEF DeployOK
<1>1. CASE ReadCommand \/ SpawnFails \/ UpReturns \/ UpTimesOut
  <2>1. Current \in Commands /\ file' = file
    BY <1>1, <1>a DEF ReadCommand, SpawnFails, UpReturns, UpTimesOut
  <2>2. Current \notin Puts
    <3>1. CASE ReadCommand \/ SpawnFails
      BY <3>1, <1>b DEF ReadCommand, SpawnFails
    <3>2. CASE UpReturns \/ UpTimesOut
      <4>1. \E p \in Procs : proc[p].by = Poller
        BY <3>2, Zenon DEF UpReturns, UpTimesOut, Returned, GivenUp, DeployInv, PollerInv
      <4> QED BY <4>1, <1>b DEF DeployInv, PollerInv
    <3> QED BY <1>1, <3>1, <3>2
  <2>3. \E status : outcome' = [outcome EXCEPT ![Current] = status]
    BY <1>1, Zenon DEF ReadCommand, SpawnFails, UpReturns, UpTimesOut
  <2> QED BY <2>1, <2>2, <2>3 DEF DeployInv, DeployTypeOK
<1>2. CASE QueueStep
  BY <1>2, QueueStepKeeps DEF DeployInv, deployVars
<1>3. CASE UNCHANGED allVars \/ Activate \/ UpPanics \/ Handler \/ Machine \/ StopAll
  BY <1>3 DEF allVars, deployVars, Activate, UpPanics, Handler, HandlerActivates,
              HandlerGivesUp, Machine, UpReads, UpSucceeds, UpFails, StopAll
<1> QED BY <1>1, <1>2, <1>3, Zenon DEF DeployNext, Command

(* A result that is lost stays lost. *)
LEMMA LostKept ==
    ASSUME DeployInv, [DeployNext]_allVars, NEW c \in Commands, lost'[c] = 0
    PROVE  lost[c] = 0
<1>a. lost \in [Commands -> Nat] /\ batch \in SUBSET Commands
  BY DEF DeployInv, QueueInv, PollTypeOK
<1>b. pc = "execute" \/ pc = "patch" => Oldest(batch) \in Commands
  BY BatchHasOldest DEF DeployInv, QueueInv, PollTypeOK
<1>1. CASE QueueStep
  BY <1>1, QueueStepKeeps DEF DeployInv
<1>2. CASE Execute \/ UNCHANGED vars
  BY <1>2 DEF Execute, vars, historyVars
<1>3. CASE ExecutePanics \/ Stop
  BY <1>3, <1>a, <1>b DEF ExecutePanics, Stop
<1>4. Command => Execute \/ ExecutePanics \/ UNCHANGED vars
  BY Zenon DEF Command, ReadCommand, PutFile, Activate, SpawnFails, UpReturns,
               UpPanics, UpTimesOut
<1>5. UNCHANGED allVars \/ Handler \/ Machine => UNCHANGED vars
  BY DEF allVars, Handler, HandlerActivates, HandlerGivesUp, Machine, UpReads,
         UpSucceeds, UpFails
<1> QED BY <1>1, <1>2, <1>3, <1>4, <1>5, Zenon DEF DeployNext, StopAll

LEMMA FileStep ==
    DeployInv /\ OutcomeInv /\ FileInOrder /\ [DeployNext]_allVars => FileInOrder'
<1> SUFFICES ASSUME DeployInv, OutcomeInv, FileInOrder, [DeployNext]_allVars,
                    \A c \in Puts : lost'[c] = 0
             PROVE  file' = NewestOf(PutsDone(Commands)')
  BY DEF FileInOrder, NewestOf, Commands, PutsDone
<1>a. Puts \subseteq Commands /\ Commands \in SUBSET Nat
  BY DeployOK DEF DeployOK, Commands
<1>b. file = NewestOf(PutsDone(Commands)) /\ \A c \in Puts : lost[c] = 0
  BY <1>a, LostKept DEF FileInOrder
<1>1. CASE ~PutFile
  <2>1. PutsDone(Commands)' = PutsDone(Commands)
    BY <1>1, PutsKeep DEF PutsDone, Commands
  <2> QED BY <1>1, <1>b, <2>1, PutsKeep
<1>2. CASE PutFile
  <2>1. /\ Current \in Puts /\ Execute
        /\ Current \in Commands
        /\ executed[Current] = 0
        /\ \A d \in Commands : executed[d] > 0 => d < Current
    BY <1>2, <1>b, FirstIsNewest, ExecuteFacts DEF PutFile, DeployInv, Current
  <2>2. \A d \in PutsDone(Commands) : d < Current
    BY <2>1 DEF PutsDone, OutcomeInv
  <2>3. CASE file' = Current /\ outcome' = [outcome EXCEPT ![Current] = "completed"]
    <3>1. PutsDone(Commands)' = PutsDone(Commands) \union {Current}
      BY <2>1, <2>3 DEF PutsDone, Commands, DeployInv, DeployTypeOK
    <3> DEFINE S == PutsDone(Commands) \union {Current}
    <3>2. S \in SUBSET Nat /\ Current \in S
      BY <1>a, <2>1 DEF PutsDone
    <3>4. \A d \in S : Current >= d
      <4>1. \A d \in S : d \in Nat /\ (d < Current \/ d = Current)
        BY <2>2, <3>2
      <4> QED BY <3>2, <4>1
    <3> HIDE DEF S
    <3>3. NewestOf(S) = Current
      BY <3>2, <3>4, NewestIs
    <3> QED BY <2>3, <3>1, <3>3 DEF S
  <2>4. CASE file' = file /\ outcome' = [outcome EXCEPT ![Current] = "failed"]
    <3>1. Current \notin PutsDone(Commands)
      BY <2>1 DEF PutsDone, OutcomeInv
    <3>2. PutsDone(Commands)' = PutsDone(Commands)
      BY <2>1, <2>4, <3>1 DEF PutsDone, Commands, DeployInv, DeployTypeOK
    <3> QED BY <1>b, <2>4, <3>2
  <2> QED BY <1>2, <2>3, <2>4 DEF PutFile
<1> QED BY <1>1, <1>2

LEMMA FileCorrect ==
    DeploySpec => [](DeployInv /\ QuietInv /\ OutcomeInv /\ FileInOrder)
<1>1. DeployInit => OutcomeInv
  BY DEF DeployInit, OutcomeInv
<1>2. DeployInit => FileInOrder
  <2> SUFFICES ASSUME DeployInit PROVE 0 = NewestOf(PutsDone(Commands))
    BY DEF DeployInit, FileInOrder
  <2>1. PutsDone(Commands) = {}
    BY DEF DeployInit, PutsDone
  <2> QED BY <2>1, NewestIs
<1> QED BY <1>1, <1>2, DeployCorrect, OutcomeStep, FileStep, PTL DEF DeploySpec

(***************************************************************************)
(* The compose file is the one of the newest PutFile that was completed,   *)
(* unless a result of a PutFile was lost, for either kind of backend.      *)
(***************************************************************************)
THEOREM FileStaysInOrder == DeploySpec => []FileInOrder
BY FileCorrect, PTL

-------------------------------------------------------------------------------
(* EndToEnd, of the newest Activate executed so far by name. *)
NewestRun(a) == executed[a] > 0 /\ \A d \in Activates : executed[d] > 0 => d <= a
EndInv == \A a \in Activates :
    (/\ NewestRun(a)
     /\ quiet /\ \A p \in Procs : proc[p].by # Poller
     /\ \A c \in Puts \union Activates : lost[c] = 0
     /\ outcome[a] = "completed")
    => stack = NewestOf(PutsDone(1 .. a))

LEMMA EndStep ==
    DeployInv /\ QuietInv /\ OutcomeInv /\ FileInOrder /\ EndInv /\ [DeployNext]_allVars
        => EndInv'
<1> SUFFICES ASSUME DeployInv, QuietInv, OutcomeInv, FileInOrder, EndInv,
                    [DeployNext]_allVars, NEW a \in Activates, NewestRun(a)',
                    quiet', \A p \in Procs : proc'[p].by # Poller,
                    \A c \in Puts \union Activates : lost'[c] = 0,
                    outcome'[a] = "completed"
             PROVE  stack' = NewestOf(PutsDone(1 .. a)')
  BY DEF EndInv, NewestOf, PutsDone
<1>a. /\ Puts \subseteq Commands /\ Activates \subseteq Commands /\ Commands \in SUBSET Nat
      /\ Puts \intersect Activates = {} /\ Poller \notin Handlers
  BY DeployOK DEF DeployOK, Commands
<1>b. \A c \in Puts \union Activates : lost[c] = 0
  BY <1>a, LostKept
(* The step executes no Activate and changes neither stack nor a process of
   the loop, and the outcomes of the PutFile commands up to a stay. *)
<1>c. ASSUME UNCHANGED stack, quiet, \A p \in Procs : proc[p].by # Poller,
             \A c \in Activates : executed'[c] = executed[c] /\ outcome'[c] = outcome[c],
             PutsDone(1 .. a)' = PutsDone(1 .. a)
      PROVE  stack' = NewestOf(PutsDone(1 .. a)')
  <2>1. NewestRun(a) /\ outcome[a] = "completed"
    BY <1>c DEF NewestRun
  <2>2. stack = NewestOf(PutsDone(1 .. a))
    BY <1>b, <1>c, <2>1 DEF EndInv
  <2> QED BY <1>c, <2>2
<1>d. UNCHANGED outcome => PutsDone(1 .. a)' = PutsDone(1 .. a)
  BY DEF PutsDone
(* An Activate that is executed is the newest, and executed for the first time. *)
<1>e. ASSUME Execute, Current \in Activates
      PROVE  a = Current /\ \A d \in Commands : executed[d] > 0 => d < a
  <2>1. /\ Current \in Commands /\ executed[Current] = 0
        /\ \A d \in Commands : executed[d] > 0 => d < Current
    BY <1>b, <1>e, FirstIsNewest DEF DeployInv, Execute, Current
  <2>2. executed' = [executed EXCEPT ![Current] = @ + 1] /\ executed \in [Commands -> Nat]
    BY <1>e, ExecuteFacts DEF DeployInv, QueueInv, PollTypeOK
  <2>3. executed'[Current] > 0
    BY <2>1, <2>2
  <2>4. Current <= a
    BY <1>e, <2>3 DEF NewestRun
  <2>5. a # Current => executed[a] > 0
    BY <1>a, <2>1, <2>2 DEF NewestRun
  <2>6. a # Current => a < Current
    BY <1>a, <2>1, <2>5
  <2> QED BY <1>a, <2>1, <2>4, <2>6
<1>1. CASE QueueStep
  <2>1. UNCHANGED deployVars /\ executed' = executed
    BY <1>1, QueueStepKeeps DEF DeployInv
  <2> QED BY <1>c, <1>d, <2>1 DEF deployVars
<1>2. CASE UNCHANGED allVars
  BY <1>2, <1>c, <1>d DEF allVars, vars, historyVars, deployVars
<1>3. CASE ReadCommand \/ PutFile
  <2>1. /\ Execute /\ Current \notin Activates /\ Current \in Commands
        /\ executed' = [executed EXCEPT ![Current] = @ + 1]
        /\ UNCHANGED <<stack, proc, quiet>>
        /\ \E status : outcome' = [outcome EXCEPT ![Current] = status]
    BY <1>3, <1>a, ExecuteFacts DEF ReadCommand, PutFile, DeployInv
  <2>2. \A c \in Activates : executed'[c] = executed[c] /\ outcome'[c] = outcome[c]
    BY <1>a, <2>1 DEF DeployInv, QueueInv, PollTypeOK, DeployTypeOK
  <2>3. PutsDone(1 .. a)' = PutsDone(1 .. a)
    <3>1. CASE Current \in Puts
      <4>1. \A d \in Commands : executed[d] > 0 => d < Current
        BY <1>b, <2>1, <3>1, FirstIsNewest DEF DeployInv, Execute, Current
      <4>2. a < Current
        BY <1>a, <2>2, <4>1 DEF NewestRun
      <4>3. \A c \in 1 .. a : c # Current
        BY <1>a, <2>1, <4>2
      <4> QED BY <2>1, <4>3 DEF PutsDone, DeployInv, DeployTypeOK
    <3>2. CASE Current \notin Puts
      BY <2>1, <3>2 DEF PutsDone, DeployInv, DeployTypeOK
    <3> QED BY <3>1, <3>2
  <2> QED BY <1>c, <2>1, <2>2, <2>3
<1>4. CASE SpawnFails
  <2>1. /\ Execute /\ Current \in Activates /\ Current \in Commands
        /\ outcome' = [outcome EXCEPT ![Current] = "failed"]
    BY <1>4, <1>a DEF SpawnFails
  <2>2. outcome'[a] = "failed"
    BY <1>e, <2>1 DEF DeployInv, DeployTypeOK
  <2> QED BY <2>2
<1>5. CASE Activate \/ HandlerActivates
  <2>1. PICK caller \in Callers : SpawnFor(caller)
    BY <1>5, Zenon DEF Activate, HandlerActivates, Callers
  <2>2. caller = Poller
    BY <2>1 DEF SpawnFor
  <2>3. PICK p \in Procs :
            proc' = [proc EXCEPT ![p] = [at |-> "started", by |-> caller,
                                         version |-> 0, ok |-> FALSE]]
    BY <2>1, Zenon DEF SpawnFor
  <2>4. proc'[p].by = Poller
    BY <2>2, <2>3 DEF DeployInv, DeployTypeOK
  <2> QED BY <2>4
<1>6. CASE UpReturns
  <2>1. PICK p \in Procs :
            /\ proc[p].at = "done"
            /\ outcome' = [outcome EXCEPT ![Current] = IF proc[p].ok THEN "completed"
                                                                    ELSE "failed"]
    BY <1>6 DEF UpReturns, Returned
  <2>2. Execute /\ Current \in Activates /\ UNCHANGED <<file, stack, quiet>>
    BY <1>6, <2>1 DEF UpReturns, DeployInv, PollerInv
  <2>3. a = Current /\ \A d \in Commands : executed[d] > 0 => d < a
    BY <1>e, <2>2
  <2>4. proc[p].ok
    BY <1>a, <2>1, <2>3 DEF DeployInv, DeployTypeOK
  <2>5. stack = file
    BY <2>1, <2>2, <2>4 DEF QuietInv
  <2>6. file = NewestOf(PutsDone(Commands))
    BY <1>b DEF FileInOrder
  <2>7. PutsDone(1 .. a) = PutsDone(Commands)
    <3>1. \A c \in Commands : outcome[c] = "completed" => c < a
      BY <2>3 DEF OutcomeInv
    <3>2. \A c \in Commands : c \in Nat /\ c >= 1 /\ c <= MaxCommands
      BY QueueOK DEF QueueOK, Commands
    <3>3. a \in Commands
      BY <1>a
    <3>4. \A c \in Puts : outcome[c] = "completed" => c \in 1 .. a
      BY <1>a, <3>1, <3>2, <3>3
    <3> QED BY <1>a, <3>4 DEF PutsDone
  <2>8. PutsDone(1 .. a)' = PutsDone(1 .. a)
    BY <1>a, <2>1, <2>2 DEF PutsDone, DeployInv, DeployTypeOK
  <2> QED BY <2>2, <2>5, <2>6, <2>7, <2>8
<1>7. CASE UpPanics
  <2>1. PICK p \in Procs : proc[p].at = "done" /\ ExecutePanics
    BY <1>7, Zenon DEF UpPanics, Returned
  <2>2. Current \in Activates /\ Current \in Commands
    BY <1>a, <2>1 DEF DeployInv, PollerInv
  <2>3. lost' = [lost EXCEPT ![Current] = @ + 1] /\ lost \in [Commands -> Nat]
    BY <2>1 DEF ExecutePanics, Current, DeployInv, QueueInv, PollTypeOK
  <2>4. lost'[Current] # 0
    BY <2>2, <2>3
  <2> QED BY <2>2, <2>4
<1>8. CASE UpTimesOut \/ StopAll
  BY <1>8 DEF UpTimesOut, StopAll
<1>9. CASE HandlerGivesUp
  BY <1>9, <1>a DEF HandlerGivesUp, GivenUp, QuietInv
<1>10. CASE UpReads
  <2>1. PICK p \in Procs :
            proc' = [proc EXCEPT ![p].at = "read", ![p].version = file]
    BY <1>10, Zenon DEF UpReads
  <2>2. \A q \in Procs : proc'[q].by = proc[q].by
    BY <2>1 DEF DeployInv, DeployTypeOK, Process
  <2> QED BY <1>10, <1>c, <1>d, <2>2 DEF UpReads, vars, historyVars
<1>11. CASE UpSucceeds \/ UpFails
  <2>1. PICK p \in Procs, ok \in BOOLEAN :
            Running(p) /\ proc' = [proc EXCEPT ![p] = Ended(p, ok)]
    BY <1>11, Zenon DEF UpSucceeds, UpFails, Running
  <2>2. proc[p].by = Poller
    BY <1>11, <2>1 DEF UpSucceeds, UpFails, QuietInv
  <2>3. Ended(p, ok) = [proc[p] EXCEPT !.at = "done", !.ok = ok, !.version = 0]
    BY <2>2 DEF Ended
  <2>4. proc'[p].by = Poller
    BY <2>1, <2>2, <2>3 DEF DeployInv, DeployTypeOK, Process
  <2> QED BY <2>4
<1> QED BY <1>1, <1>2, <1>3, <1>4, <1>5, <1>6, <1>7, <1>8, <1>9, <1>10, <1>11, Zenon
        DEF DeployNext, Command, Handler, Machine

LEMMA EndInvSuffices == DeployInv /\ EndInv => EndToEnd
<1> SUFFICES ASSUME DeployInv, EndInv PROVE EndToEnd
  OBVIOUS
<1> DEFINE Done == {c \in Activates : executed[c] > 0}
           a    == NewestOf(Done)
<1>1. CASE Done = {}
  BY <1>1 DEF EndToEnd
<1>2. CASE Done # {}
  <2>1. Done \in SUBSET Commands
    BY DeployOK DEF DeployOK
  <2>2. a \in Done /\ \A d \in Done : a >= d
    BY <1>2, <2>1, NewestInSet
  <2>3. a \in Activates /\ NewestRun(a)
    BY <2>1, <2>2 DEF NewestRun, Commands
  <2> HIDE DEF a
  <2>4. (/\ quiet /\ \A p \in Procs : proc[p].by # Poller
         /\ \A c \in Puts \union Activates : lost[c] = 0
         /\ outcome[a] = "completed") => stack = NewestOf(PutsDone(1 .. a))
    BY <2>3, Zenon DEF EndInv
  <2> QED BY <2>4, Zenon DEF EndToEnd, a
<1> QED BY <1>1, <1>2

(***************************************************************************)
(* An operator who queues PutFile and Activate gets the newest completed   *)
(* PutFile deployed, as far as EndToEnd says, however many commands there  *)
(* are and whatever else is queued in between.                             *)
(***************************************************************************)
THEOREM EndToEndHolds == DeploySpec => []EndToEnd
<1>1. DeployInit => EndInv
  BY DEF DeployInit, EndInv
<1>2. DeploySpec => []EndInv
  BY <1>1, FileCorrect, EndStep, PTL DEF DeploySpec
<1> QED BY <1>2, FileCorrect, EndInvSuffices, PTL
===============================================================================
