-------------------------------- MODULE Deploy --------------------------------
(***************************************************************************)
(* What the commands of the queue do to the machine: PutFile replaces the  *)
(* compose file and Activate runs docker compose up -d, which an operator  *)
(* may run at the same time over HTTP (handlers/compose.rs).  The queue    *)
(* itself is CommandQueue, whose actions are conjuncts of those below.     *)
(*                                                                         *)
(* Neither activation takes a lock, and neither sets kill_on_drop: an up   *)
(* whose caller gave it up goes on.  A write of the compose file is one    *)
(* step here: ComposeFile shows that one writer's is.  PUT over HTTP is    *)
(* left to ComposeFile, so the file's versions are the numbers of the      *)
(* PutFile commands that wrote them, and 0.                                *)
(***************************************************************************)
EXTENDS CommandQueue

CONSTANTS Puts,         \* the commands of type PutFile
          Activates,    \* the commands of type Activate; the others read
          Handlers,     \* requests that POST /api/compose/activate serves
          Poller,       \* the poll loop, as the caller of an up
          Nobody,       \* no caller: the up was given up
          Procs,        \* bound: docker compose up processes at a time
          Mixed         \* containers of no one version

ASSUME DeployOK == /\ Puts \subseteq Commands /\ Activates \subseteq Commands
                   /\ Puts \intersect Activates = {}
                   /\ Panics \subseteq Activates
                   /\ Poller \notin Handlers
                   /\ Nobody \notin Handlers \union {Poller}
                   /\ Mixed \notin Nat

VARIABLES file,         \* the version of the compose file
          stack,        \* the version the containers run
          proc,         \* the processes
          outcome,      \* outcome[c]: the status of c's last execution
          quiet         \* since the loop's last up began there was no other
                        \* process, and it has been waited for (history)

deployVars == <<file, stack, proc, outcome, quiet>>
allVars    == <<vars, deployVars>>

Versions == Puts \union {0}
Callers  == Handlers \union {Poller}
Process  == [at : {"none", "started", "read", "done"},
             by : Callers \union {Nobody}, version : Versions, ok : BOOLEAN]
NoProcess == [at |-> "none", by |-> Nobody, version |-> 0, ok |-> FALSE]

DeployInit == /\ Init
              /\ file = 0 /\ stack = 0
              /\ proc = [p \in Procs |-> NoProcess]
              /\ outcome = [c \in Commands |-> "none"]
              /\ quiet = FALSE

Running(p) == proc[p].at \in {"started", "read"}
Current    == Oldest(batch)

-------------------------------------------------------------------------------
(* GetFile, GetLogsSnapshot and ValidateYaml read, and fail or not; a snapshot
   that times out leaves nothing behind that matters here. *)
ReadCommand ==
    /\ Execute
    /\ Current \notin Puts \union Activates
    /\ \E status \in {"completed", "failed"} :
           outcome' = [outcome EXCEPT ![Current] = status]
    /\ UNCHANGED <<file, stack, proc, quiet>>

(* Mutant of PutFile: an error of the write is not looked at. *)
PutFileUnchecked ==
    /\ Execute
    /\ Current \in Puts
    /\ file' \in {Current, file}
    /\ outcome' = [outcome EXCEPT ![Current] = "completed"]
    /\ UNCHANGED <<stack, proc, quiet>>

(* execute_put_file commits its content, or fails and leaves the file alone. *)
PutFile ==
    /\ Execute
    /\ Current \in Puts
    /\ \/ /\ file' = Current
          /\ outcome' = [outcome EXCEPT ![Current] = "completed"]
       \/ /\ outcome' = [outcome EXCEPT ![Current] = "failed"]
          /\ UNCHANGED file
    /\ UNCHANGED <<stack, proc, quiet>>

(* Mutant of SpawnFor: a caller that waits for a process starts another. *)
SpawnAgain(caller) ==
    /\ \E p \in Procs :
           /\ proc[p].at = "none"
           /\ proc' = [proc EXCEPT ![p] = [at |-> "started", by |-> caller,
                                           version |-> 0, ok |-> FALSE]]
    /\ quiet' = (caller = Poller /\ \A p \in Procs : ~Running(p))

(* Command::output spawns docker compose up -d for a caller. *)
SpawnFor(caller) ==
    /\ \A p \in Procs : proc[p].by # caller
    /\ \E p \in Procs :
           /\ proc[p].at = "none"
           /\ proc' = [proc EXCEPT ![p] = [at |-> "started", by |-> caller,
                                           version |-> 0, ok |-> FALSE]]
    /\ quiet' = (caller = Poller /\ \A p \in Procs : ~Running(p))

(* The poll loop's process is done: output returns its status. *)
Returned(p) == /\ proc[p].at = "done"
               /\ proc' = [proc EXCEPT ![p] = NoProcess]

(* The caller's future is dropped, and the process goes on by itself. *)
GivenUp(p, caller) == /\ Running(p)
                      /\ proc[p].by = caller
                      /\ proc' = [proc EXCEPT ![p].by = Nobody]

(* Mutant of Activate: the process is spawned and not waited for. *)
ActivateNoWait ==
    /\ Execute
    /\ Current \in Activates
    /\ SpawnFor(Poller)
    /\ outcome' = [outcome EXCEPT ![Current] = "completed"]
    /\ UNCHANGED <<file, stack>>

(* execute_activate begins ... *)
Activate == /\ pc = "execute"
            /\ Current \in Activates
            /\ SpawnFor(Poller)
            /\ UNCHANGED <<vars, file, stack, outcome>>

SpawnFails == /\ Execute
              /\ Current \in Activates
              /\ \A p \in Procs : proc[p].by # Poller
              /\ outcome' = [outcome EXCEPT ![Current] = "failed"]
              /\ UNCHANGED <<file, stack, proc, quiet>>

(* Mutant of UpReturns: that it ended is taken for success. *)
UpReturnsAny == \E p \in Procs :
    /\ Execute
    /\ Returned(p)
    /\ outcome' = [outcome EXCEPT ![Current] = "completed"]
    /\ UNCHANGED <<file, stack, quiet>>

(* ... its process ends, and its exit status is the result ... *)
UpReturns == \E p \in Procs :
    /\ Execute
    /\ Returned(p)
    /\ outcome' = [outcome EXCEPT ![Current] = IF proc[p].ok THEN "completed"
                                                             ELSE "failed"]
    /\ UNCHANGED <<file, stack, quiet>>

(* ... or its output makes truncate_output panic ... *)
UpPanics == \E p \in Procs :
    /\ ExecutePanics
    /\ Returned(p)
    /\ UNCHANGED <<file, stack, outcome, quiet>>

(* ... or 120 seconds are over. *)
UpTimesOut == \E p \in Procs :
    /\ Execute
    /\ GivenUp(p, Poller)
    /\ outcome' = [outcome EXCEPT ![Current] = "failed"]
    /\ quiet' = FALSE
    /\ UNCHANGED <<file, stack>>

-------------------------------------------------------------------------------
(* activate_compose of handlers/compose.rs, while the service is up. *)
HandlerActivates == \E h \in Handlers :
    /\ pc # "down"
    /\ SpawnFor(h)
    /\ UNCHANGED <<vars, file, stack, outcome>>

(* Its process ends and it answers with the status, which changes nothing; or
   it times out as well, or its client goes away. *)
HandlerGivesUp == \E h \in Handlers, p \in Procs :
    /\ GivenUp(p, h)
    /\ UNCHANGED <<vars, file, stack, outcome, quiet>>

-------------------------------------------------------------------------------
(* docker compose up (external) reads the compose file once ... *)
UpReads == \E p \in Procs :
    /\ proc[p].at = "started"
    /\ proc' = [proc EXCEPT ![p].at = "read", ![p].version = file]
    /\ UNCHANGED <<vars, file, stack, outcome, quiet>>

Ended(p, ok) == IF proc[p].by = Poller
                THEN [proc[p] EXCEPT !.at = "done", !.ok = ok, !.version = 0]
                ELSE NoProcess

(* ... and makes the containers those of the version it read, if no other
   process interferes ... *)
UpSucceeds == \E p \in Procs :
    /\ proc[p].at = "read"
    /\ stack' \in {proc[p].version} \union IF quiet THEN {} ELSE {Mixed}
    /\ proc' = [proc EXCEPT ![p] = Ended(p, TRUE)]
    /\ UNCHANGED <<vars, file, outcome, quiet>>

(* ... or fails, before it changed a container or after. *)
UpFails == \E p \in Procs :
    /\ Running(p)
    /\ stack' \in {stack, Mixed}
    /\ proc' = [proc EXCEPT ![p] = Ended(p, FALSE)]
    /\ UNCHANGED <<vars, file, outcome, quiet>>

-------------------------------------------------------------------------------
(* The service stops; its processes are killed with it, as systemd does, or
   are left alone. *)
Orphaned(p) == IF Running(p) THEN [proc[p] EXCEPT !.by = Nobody] ELSE NoProcess

StopAll ==
    /\ Stop
    /\ \/ proc' = [p \in Procs |-> NoProcess]
       \/ proc' = [p \in Procs |-> Orphaned(p)]
    /\ stack' \in {stack} \union IF \E p \in Procs : Running(p) THEN {Mixed} ELSE {}
    /\ quiet' = FALSE
    /\ UNCHANGED <<file, outcome>>

(* Everything else the queue does leaves the machine alone. *)
QueueStep == /\ \/ Issue \/ Select \/ Listener \/ Start
                \/ Serve \/ NothingPending \/ Received \/ Refused \/ FetchFails
                \/ PatchApplied \/ PatchLost
             /\ UNCHANGED deployVars

Machine == UpReads \/ UpSucceeds \/ UpFails
Handler == HandlerActivates \/ HandlerGivesUp
Command == ReadCommand \/ PutFile \/ Activate \/ SpawnFails \/ UpReturns \/ UpPanics \/ UpTimesOut

DeployNext == QueueStep \/ Command \/ Handler \/ Machine \/ StopAll

DeploySpec == DeployInit /\ [][DeployNext]_allVars

-------------------------------------------------------------------------------
(* The types; a running process belongs to somebody or is an orphan, and each
   caller has one at most. *)
DeployTypeOK ==
    /\ file \in Versions
    /\ stack \in Versions \union {Mixed}
    /\ proc \in [Procs -> Process]
    /\ outcome \in [Commands -> {"none", "completed", "failed"}]
    /\ quiet \in BOOLEAN
    /\ \A p, q \in Procs :
           proc[p].by = proc[q].by /\ proc[p].by # Nobody => p = q

NewestOf(S) == CHOOSE c \in S \union {0} : \A d \in S : c >= d
PutsDone(S) == {c \in S \intersect Puts : outcome[c] = "completed"}

(* While no result of a PutFile was lost, the compose file is the one of the
   newest PutFile that was completed.  (A PutFile whose PATCH is lost runs
   again when the backend lists it again, over a newer file.) *)
FileInOrder == (\A c \in Puts : lost[c] = 0) =>
                    file = NewestOf(PutsDone(Commands))

(* An Activate that is completed, during which nobody else activates and no
   process that was given up still runs, has deployed the file that is in
   place when its result is reported. *)
CompletedIsDeployed ==
    (pc = "patch" /\ Current \in Activates /\ quiet
                  /\ outcome[Current] = "completed") => stack = file

(* What the operator of the backend relies on: with no result lost, and nobody
   activating during the newest Activate or since, the containers run the
   newest PutFile that was completed before it, if it was completed. *)
EndToEnd ==
    LET Done == {c \in Activates : executed[c] > 0}
        a    == NewestOf(Done)
    IN  (/\ Done # {} /\ quiet /\ \A p \in Procs : proc[p].by # Poller
         /\ \A c \in Puts \union Activates : lost[c] = 0
         /\ outcome[a] = "completed")
        => stack = NewestOf(PutsDone(1 .. a))
===============================================================================
