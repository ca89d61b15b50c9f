-------------------------------- MODULE Daemons --------------------------------
(***************************************************************************)
(* nexus-link agent start, restart and stop (commands/agent.rs) on a node  *)
(* whose binaries nexus-link upgrade replaces, with systemd in between.    *)
(*                                                                         *)
(* agent.rs works on the system's units if it is root or sudo -n works,    *)
(* and on the user's units otherwise: two commands in a row may find       *)
(* different modes.  Commands do not overlap.  systemd (external) keeps    *)
(* the daemons of the units running (Restart=always) and starts the        *)
(* enabled ones when the machine boots.  It does so for the user's units   *)
(* while the user's own manager runs: from the login to the logout, or     *)
(* from the boot on if the user lingers.                                   *)
(***************************************************************************)
EXTENDS Naturals, Sequences, FiniteSets

CONSTANTS Modes,        \* "system", "user", or both
          Elsewhere,    \* the modes in which which_binary finds a copy of the
                        \* daemons that upgrade does not replace: it looks in
                        \* ~/.local/bin first, upgrade beside nexus-link
          MaxFaults,    \* bound: calls that fail, kills, crashes and boots
          MaxVersion, None, Torn        \* see Upgrade

ASSUME DaemonsOK == /\ Modes \subseteq {"system", "user"}
                    /\ Elsewhere \subseteq Modes
                    /\ MaxFaults \in Nat
                    /\ MaxVersion \in Nat \ {0}
                    /\ None \notin Nat /\ Torn \notin Nat /\ None # Torn

VARIABLES dest, backup, upgrade, report, cutShort, forced, \* Upgrade
          unit,     \* unit[m][d]: the unit file of daemon d in mode m
          enabled,  \* the units that are enabled
          wanted,   \* the units that systemd is to keep running
          image,    \* image[u]: the version that u's process runs, 0 without one
          manager,  \* the user's manager runs
          agent,    \* the run of agent.rs: [op, mode, todo, done]
          ended,    \* how the last command ended: [op, mode, error, clean]
          kept,     \* modes in which a start succeeded and no stop followed
                    \* (history)
          faults    \* faults so far, for the bound

U == INSTANCE Upgrade

binVars  == <<dest, backup, upgrade, report, cutShort, forced>>
unitVars == <<unit, enabled, wanted, image, manager>>
cmdVars  == <<agent, ended, kept>>
vars     == <<binVars, unitVars, cmdVars, faults>>

(* The daemons, by their binaries. *)
Agent   == 2
Service == 3
DAEMONS == {Agent, Service}
Units   == Modes \X DAEMONS
UnitFile == {"none", "torn", "whole"}
Errors   == {"none", "config", "binary", "call"}

(* What ExecStart of a unit names: the copy that which_binary found, which is
   of version 1 where upgrade does not come. *)
Program(u)  == IF u[1] \in Elsewhere THEN 1 ELSE dest[u[2]]
Found(m, d) == m \in Elsewhere \/ dest[d] # None

(* The manager of a mode's units runs; the machine's does while it is up. *)
Up(m) == m = "system" \/ manager

(* A run of agent.rs is a list of calls, each on one daemon. *)
Call(name, d) == [name |-> name, d |-> d]
Calls   == [name : {"write", "enable", "start", "restart", "stop", "pkill"},
            d : DAEMONS]
Both(name) == <<Call(name, Agent), Call(name, Service)>>
Starting == <<Call("enable", Agent), Call("start", Agent),
              Call("enable", Service), Call("start", Service)>>

Idle == agent.op = "none" /\ upgrade.step = "idle"
NoAgent == [op |-> "none", mode |-> "system", todo |-> <<>>, done |-> {},
            clean |-> TRUE]
NotEnded == [op |-> "none", mode |-> "system", error |-> "none", clean |-> FALSE]

Init == /\ U!UpgradeInit
        /\ unit = [m \in Modes |-> [d \in DAEMONS |-> "none"]]
        /\ enabled = {} /\ wanted = {}
        /\ image = [u \in Units |-> 0]
        /\ manager = TRUE
        /\ agent = NoAgent
        /\ ended = NotEnded
        /\ kept = {}
        /\ faults = 0

Fault == faults < MaxFaults /\ faults' = faults + 1

-------------------------------------------------------------------------------
(* The commands begin, in the mode that detect_systemd_mode finds. *)
Begin(op, m, calls) ==
    /\ Idle /\ U!Whole(dest[U!CLI])
    /\ agent' = [op |-> op, mode |-> m, todo |-> calls, done |-> {},
                 clean |-> TRUE]
    /\ ended' = NotEnded
    /\ kept' = IF op = "stop" THEN kept \ {m} ELSE kept
    /\ report' = "none"
    /\ UNCHANGED <<dest, backup, upgrade, cutShort, forced, unitVars, faults>>

(* A command that ends before it changes anything. *)
EndsAtOnce(op, m, error) ==
    /\ Idle /\ U!Whole(dest[U!CLI])
    /\ ended' = [op |-> op, mode |-> m, error |-> error, clean |-> TRUE]
    /\ report' = "none"
    /\ UNCHANGED <<dest, backup, upgrade, cutShort, forced, unitVars, agent, kept,
                   faults>>

(* Config::load: the configuration is not there, cannot be read, or does not
   parse. *)
LoadFails == \E m \in Modes, op \in {"start", "restart"} :
    EndsAtOnce(op, m, "config")

(* Mutants of start: the units are generated every time, or never. *)
StartRegenerates == \E m \in Modes :
    /\ \A d \in DAEMONS : Found(m, d)
    /\ Begin("start", m, Both("write") \o Starting)

StartUngenerated == \E m \in Modes : Begin("start", m, Starting)

(* Only the agent's unit file decides whether the two are generated.  Without
   a binary to put into them the command fails. *)
start == \E m \in Modes :
    \/ /\ unit[m][Agent] # "none"
       /\ Begin("start", m, Starting)
    \/ /\ unit[m][Agent] = "none" /\ \A d \in DAEMONS : Found(m, d)
       /\ Begin("start", m, Both("write") \o Starting)
    \/ /\ unit[m][Agent] = "none" /\ \E d \in DAEMONS : ~Found(m, d)
       /\ EndsAtOnce("start", m, "binary")

restart == \E m \in Modes : Begin("restart", m, Both("restart"))

stop == \E m \in Modes : Begin("stop", m, Both("stop"))

-------------------------------------------------------------------------------
Todo  == Head(agent.todo)
This  == <<agent.mode, Todo.d>>
File  == unit[agent.mode][Todo.d]
IsCall(name) == agent.op # "none" /\ agent.todo # <<>> /\ Todo.name = name

(* systemctl reaches the manager, which knows the unit, and its file parses. *)
Known  == Up(agent.mode) /\ File # "none"
Usable == Up(agent.mode) /\ File = "whole"

Finish(error) ==
    /\ agent' = NoAgent
    /\ ended' = [op |-> agent.op, mode |-> agent.mode, error |-> error,
                 clean |-> agent.clean]
    /\ kept' = IF agent.op = "start" /\ error = "none"
               THEN kept \union {agent.mode} ELSE kept

(* A start that a fault ends. *)
Fails == /\ agent' = NoAgent
         /\ ended' = [op |-> agent.op, mode |-> agent.mode, error |-> "call",
                      clean |-> FALSE]
         /\ UNCHANGED kept

(* An error ends start, at the ?; restart and stop go on. *)
After(ok) ==
    \/ /\ ~ok /\ agent.op = "start"
       /\ Finish("call")
    \/ /\ ok \/ agent.op # "start"
       /\ agent' = [agent EXCEPT !.todo = Tail(@),
                       !.done = IF ok THEN @ \union {Todo.d} ELSE @]
       /\ UNCHANGED <<ended, kept>>

(* write_unit_file ... *)
Write == /\ IsCall("write")
         /\ unit' = [unit EXCEPT ![agent.mode][Todo.d] = "whole"]
         /\ After(TRUE)
         /\ UNCHANGED <<binVars, enabled, wanted, image, manager, faults>>

(* ... which truncates the file before it fails, or cannot open it. *)
WriteFails == /\ IsCall("write")
              /\ Fault
              /\ unit' \in {unit, [unit EXCEPT ![agent.mode][Todo.d] = "torn"]}
              /\ Fails
              /\ UNCHANGED <<binVars, enabled, wanted, image, manager>>

Enable == /\ IsCall("enable") /\ Known
          /\ enabled' = enabled \union {This}
          /\ After(TRUE)
          /\ UNCHANGED <<binVars, unit, wanted, image, manager, faults>>

(* Type=simple: the unit is active as soon as systemd has forked. *)
StartUnit == /\ IsCall("start") /\ Usable
             /\ wanted' = wanted \union {This}
             /\ After(TRUE)
             /\ UNCHANGED <<binVars, unit, enabled, image, manager, faults>>

(* Mutant of RestartUnit: a start, which does nothing for a running unit. *)
RestartRunning == /\ IsCall("restart") /\ Usable
                  /\ wanted' = wanted \union {This}
                  /\ After(TRUE)
                  /\ UNCHANGED <<binVars, unit, enabled, image, manager, faults>>

RestartUnit == /\ IsCall("restart") /\ Usable
               /\ wanted' = wanted \union {This}
               /\ image' = [image EXCEPT ![This] = 0]
               /\ After(TRUE)
               /\ UNCHANGED <<binVars, unit, enabled, manager, faults>>

(* Mutant of StopUnit: the process is killed. *)
StopProcess == /\ IsCall("stop") /\ Known
               /\ image' = [image EXCEPT ![This] = 0]
               /\ After(TRUE)
               /\ UNCHANGED <<binVars, unit, enabled, wanted, manager, faults>>

StopUnit == /\ IsCall("stop") /\ Known
            /\ wanted' = wanted \ {This}
            /\ image' = [image EXCEPT ![This] = 0]
            /\ After(TRUE)
            /\ UNCHANGED <<binVars, unit, enabled, manager, faults>>

Refused == \/ IsCall("enable") /\ ~Known
           \/ (IsCall("start") \/ IsCall("restart")) /\ ~Usable
           \/ IsCall("stop") /\ ~Known

SystemctlRefuses == /\ Refused
                    /\ After(FALSE)
                    /\ UNCHANGED <<binVars, unitVars, faults>>

(* systemctl fails otherwise, with sudo as without. *)
SystemctlFails == /\ \/ IsCall("enable") \/ IsCall("start")
                     \/ IsCall("restart") \/ IsCall("stop")
                  /\ Fault
                  /\ \/ agent.op = "start" /\ Fails
                     \/ /\ agent.op # "start"
                        /\ agent' = [agent EXCEPT !.todo = Tail(@), !.clean = FALSE]
                        /\ UNCHANGED <<ended, kept>>
                  /\ UNCHANGED <<binVars, unitVars>>

(* The calls that a restart or a stop adds when its first two are over. *)
Undone(d) == IF d \in agent.done THEN <<>> ELSE <<Call("start", d)>>

FollowUp ==
    CASE agent.op = "restart" -> Undone(Agent) \o Undone(Service)
      [] agent.op = "stop" /\ agent.done = {} -> Both("pkill")
      [] OTHER -> <<>>

Fallback == /\ agent.op \in {"restart", "stop"} /\ agent.todo = <<>>
            /\ FollowUp # <<>>
            /\ agent' = [agent EXCEPT !.todo = FollowUp, !.done = DAEMONS]
            /\ UNCHANGED <<binVars, unitVars, ended, kept, faults>>

(* pkill -f kills the daemon of either mode, as far as it may; systemd starts
   it again. *)
Pkill == /\ IsCall("pkill")
         /\ \E killed \in SUBSET {u \in Units : u[2] = Todo.d} :
                image' = [u \in Units |-> IF u \in killed THEN 0 ELSE image[u]]
         /\ After(TRUE)
         /\ UNCHANGED <<binVars, unit, enabled, wanted, manager, faults>>

Done == /\ agent.op # "none" /\ agent.todo = <<>>
        /\ agent.op = "start" \/ FollowUp = <<>>
        /\ Finish("none")
        /\ UNCHANGED <<binVars, unitVars, faults>>

AgentStep == \/ Write \/ WriteFails \/ Enable \/ StartUnit \/ RestartUnit
             \/ StopUnit \/ SystemctlRefuses \/ SystemctlFails \/ Fallback
             \/ Pkill \/ Done

-------------------------------------------------------------------------------
(* Mutant of Spawn: without Restart=always, what ended is not started again. *)
SpawnOnce(u) == /\ u \in wanted /\ faults = 0
                /\ image[u] = 0
                /\ U!Whole(Program(u))
                /\ u[2] = Service => \A m \in Modes : image[<<m, Service>>] = 0
                /\ image' = [image EXCEPT ![u] = Program(u)]
                /\ UNCHANGED <<binVars, unit, enabled, wanted, manager, cmdVars, faults>>

(* What the units ask of systemd: ExecStart and Restart=always.  It starts the
   processes of the units it is to keep running, from the binaries that they
   name; a torn or missing one does not run.  Two services cannot listen on one port:
   the second ends, and is tried again. *)
Spawn(u) == /\ u \in wanted
            /\ image[u] = 0
            /\ U!Whole(Program(u))
            /\ u[2] = Service => \A m \in Modes : image[<<m, Service>>] = 0
            /\ image' = [image EXCEPT ![u] = Program(u)]
            /\ UNCHANGED <<binVars, unit, enabled, wanted, manager, cmdVars, faults>>

Dies == \E u \in Units :
    /\ image[u] # 0
    /\ Fault
    /\ image' = [image EXCEPT ![u] = 0]
    /\ UNCHANGED <<binVars, unit, enabled, wanted, manager, cmdVars>>

(* The CLI is interrupted between two of its calls. *)
Killed == /\ Fault
          /\ \/ /\ agent.op # "none"
                /\ Fails
                /\ UNCHANGED binVars
             \/ /\ U!EndsEarly
                /\ UNCHANGED cmdVars
          /\ UNCHANGED unitVars

(* The enabled units whose files parse, which a manager starts when it starts
   itself. *)
StartedWith(modes) == {u \in enabled : u[1] \in modes /\ unit[u[1]][u[2]] = "whole"}

(* The machine goes down, with whatever runs, and boots; the user's manager
   starts with it only if the user lingers. *)
Reboot == /\ Fault
          /\ \/ manager' = TRUE /\ wanted' = StartedWith({"system", "user"})
             \/ manager' = FALSE /\ wanted' = StartedWith({"system"})
          /\ image' = [u \in Units |-> 0]
          /\ agent' = NoAgent
          /\ ended' = NotEnded
          /\ \/ ~U!At("idle") /\ U!Ends
             \/ U!At("idle") /\ UNCHANGED binVars
          /\ UNCHANGED <<unit, enabled, kept>>

(* The last session of a user who does not linger ends, and the user's units
   with it; a session starts.  A command of the user runs in one. *)
NoUserRun == agent.op = "none" \/ agent.mode = "system"

Logout == /\ manager /\ NoUserRun
          /\ manager' = FALSE
          /\ wanted' = {u \in wanted : u[1] # "user"}
          /\ image' = [u \in Units |-> IF u[1] = "user" THEN 0 ELSE image[u]]
          /\ UNCHANGED <<binVars, unit, enabled, cmdVars, faults>>

Login == /\ ~manager /\ NoUserRun
         /\ manager' = TRUE
         /\ wanted' = wanted \union StartedWith({"user"})
         /\ ended' = NotEnded
         /\ UNCHANGED <<binVars, unit, enabled, image, agent, kept, faults>>

-------------------------------------------------------------------------------
BeginUpgrade == /\ Idle
                /\ U!Begin
                /\ ended' = NotEnded
                /\ UNCHANGED <<unitVars, agent, kept, faults>>

UpgradeStep == /\ U!UpToDate \/ U!Download \/ U!Install
               /\ UNCHANGED <<unitVars, cmdVars, faults>>

SetAsideFails == /\ U!SetAsideFails /\ Fault
                 /\ UNCHANGED <<unitVars, cmdVars>>

Next == \/ start \/ restart \/ stop \/ LoadFails \/ AgentStep
        \/ BeginUpgrade \/ UpgradeStep \/ SetAsideFails
        \/ Killed \/ Reboot \/ Dies \/ Logout \/ Login
        \/ \E u \in Units : Spawn(u)

Spec == Init /\ [][Next]_vars

(* systemd tries again every ten seconds; a command that began goes on. *)
Fairness == /\ \A u \in Units : WF_vars(Spawn(u))
            /\ WF_vars(AgentStep) /\ WF_vars(UpgradeStep)

FairSpec == Spec /\ Fairness

-------------------------------------------------------------------------------
TypeOK == /\ U!UpgradeTypeOK
          /\ unit \in [Modes -> [DAEMONS -> UnitFile]]
          /\ enabled \subseteq Units
          /\ wanted \subseteq Units
          /\ image \in [Units -> 0 .. MaxVersion]
          /\ manager \in BOOLEAN
          /\ agent \in [op : {"none", "start", "restart", "stop"},
                        mode : Modes \union {"system"}, todo : Seq(Calls),
                        done : SUBSET DAEMONS, clean : BOOLEAN]
          /\ ended \in [op : {"none", "start", "restart", "stop"},
                        mode : Modes \union {"system"}, error : Errors,
                        clean : BOOLEAN]
          /\ kept \subseteq Modes
          /\ faults \in 0 .. MaxFaults
          /\ \A u \in Units : image[u] # 0 => u \in wanted

(* A start that succeeded holds: until a stop in that mode, whatever restarts,
   failures, boots, logouts and logins follow, both daemons are enabled, and
   they are kept running while the machine is up, in the user's mode while the
   user's manager runs.  Without linger it goes with the last session, of which
   start only warns. *)
StartHolds == \A m \in kept, d \in DAEMONS :
    /\ unit[m][d] = "whole" /\ <<m, d>> \in enabled
    /\ Up(m) => <<m, d>> \in wanted

(* A stop none of whose calls failed leaves no daemon of its mode behind, nor
   one that systemd brings back, until the next command or boot. *)
StopHolds == ended.op = "stop" /\ ended.clean =>
    \A d \in DAEMONS : <<ended.mode, d>> \notin wanted /\ image[<<ended.mode, d>>] = 0

(* A start that could load the configuration, and found what it needs to
   generate the units, fails, if no fault meets it, only because the user's
   manager does not run, or because of a unit file that an earlier start did
   not finish: then it fails for good, the agent's file being there. *)
StartFailsForUnits == ended.op = "start" /\ ended.clean /\ ended.error = "call" =>
    LET m == ended.mode IN
    Up(m) => /\ unit[m][Agent] # "none"
             /\ \E d \in DAEMONS : unit[m][d] # "whole"

(* After a restart the daemons of its mode run no older binaries than those
   that their units name, whatever was upgraded before. *)
RestartedIsCurrent ==
    ended.op = "restart" /\ ended.clean /\ ended.error = "none" =>
        \A d \in DAEMONS : LET u == <<ended.mode, d>> IN image[u] \in {0, Program(u)}

(* A run that meets one fault, however it ends, leaves each binary whole under
   its name or under .old. *)
Recoverable == faults <= 1 /\ upgrade.step = "idle" =>
    \A b \in U!BINARIES : U!Whole(dest[b]) \/ U!Whole(backup[b])

(* When no run was cut short before, one that upgraded or found everything up
   to date leaves all three at the release that it asked for, or newer. *)
UpgradeComplete == ~cutShort /\ report \in {"upgraded", "current"} =>
    \A b \in U!BINARIES : U!Whole(dest[b]) /\ dest[b] >= upgrade.latest

(* Without --force nothing is replaced by an older version, although only the
   version of nexus-link itself is compared. *)
NoDowngrade == ~forced /\ upgrade.step \in {"open", "write", "clean"} =>
    LET b == upgrade.at IN U!Whole(backup[b]) => backup[b] <= upgrade.latest

(* A daemon that systemd is to keep running, and whose binary stays in place,
   runs again and again, whatever interrupts it: its own process, or the one of
   the other mode that has its port. *)
WantedRuns == \A u \in Units :
    <>[](u \in wanted /\ U!Whole(Program(u)))
    => []<>(\E m \in Modes : image[<<m, u[2]>>] # 0)
===============================================================================
