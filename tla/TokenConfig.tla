----------------------------- MODULE TokenConfig -----------------------------
(***************************************************************************)
(* The two tokens of a node and the places that hold them: config.toml,    *)
(* which keeps each token twice (an old and a new field), the commands of  *)
(* the CLI that edit it (load, change, save, without a lock), and the      *)
(* daemons, which read it once, when they start.                           *)
(*                                                                         *)
(* A save is std::fs::write: the file is truncated and then written.       *)
(***************************************************************************)
CONSTANTS NodeTokens, CmdTokens,
          Cli,          \* runs of nexus-link that may overlap
          Ops,          \* the commands the operator uses
          None,         \* an absent token
          Same,         \* what a command says of a token it does not set
          Unknown,      \* nothing can be said of the token in the file
          Empty, Torn,  \* the file is absent or truncated; does not parse
          Down          \* the daemon does not run

AllOps == {"register", "refresh", "refresh_cmd", "set_telemetry",
           "set_command", "set_compose", "set_other"}

ASSUME TokensOK ==
    /\ Ops \subseteq AllOps
    /\ None \notin NodeTokens \union CmdTokens
    /\ Same \notin NodeTokens \union CmdTokens \union {None}
    /\ Unknown \notin NodeTokens \union CmdTokens \union {None}

(* The token fields of the file: node.token, api.tokens.telemetry,
   compose.cmd_token and api.tokens.command. *)
Config == [node      : NodeTokens,
           telemetry : NodeTokens \union {None},
           compose   : CmdTokens \union {None},
           command   : CmdTokens \union {None}]

ASSUME FilesOK == {Empty, Torn, Down, None} \intersect Config = {}

VARIABLES disk,         \* config.toml: a Config, Empty or Torn
          pc,           \* where each run of the CLI is
          conf,         \* the configuration it will save, or None
          claim,        \* the tokens it sets, and whether it restarts the agent
          service,      \* AppState of nexus-link-service: the token it accepts
                        \* from the dashboard and the one it polls with
          agent,        \* the token nexus-link-agent pushes with
          stale,        \* the runs whose conf is older than the file (history)
          applied,      \* what completed commands have set (history)
          fresh,        \* the daemons started since the last save (history)
          oneField      \* a command that writes one field of the command
                        \* token only has been used (history)

cliVars     == <<pc, conf, claim>>
daemonVars  == <<service, agent>>
vars == <<disk, cliVars, daemonVars, stale, applied, fresh, oneField>>

Readable == disk \notin {Empty, Torn}

(* migrate_legacy_fields, which every load ends with. *)
Migrate(c) == [c EXCEPT !.telemetry = IF @ = None THEN c.node ELSE @,
                        !.command   = IF @ = None THEN c.compose ELSE @]

node_token(c) == IF c.telemetry # None THEN c.telemetry ELSE c.node
cmd_token(c)  == IF c.command # None THEN c.command ELSE c.compose

NoClaim == [node |-> Same, cmd |-> Same, restart |-> FALSE]

(* A file of any release: the new fields may be missing. *)
InSync(c) == c.telemetry \in {None, c.node}
Start == {c \in Config : InSync(c) /\ c.command \in {None, c.compose}}

Init == /\ disk \in Start \union {Empty}
        /\ pc = [p \in Cli |-> "idle"]
        /\ conf = [p \in Cli |-> None]
        /\ claim = [p \in Cli |-> NoClaim]
        /\ service = Down
        /\ agent = Down
        /\ stale = {}
        /\ applied = [node |-> Unknown, cmd |-> Unknown]
        /\ fresh = {}
        /\ oneField = FALSE

-------------------------------------------------------------------------------
(* Run p of the CLI will save c, which sets what cl says. *)
Prepare(p, c, cl, label) ==
    /\ pc' = [pc EXCEPT ![p] = label]
    /\ conf' = [conf EXCEPT ![p] = c]
    /\ claim' = [claim EXCEPT ![p] = cl]
    /\ stale' = stale \ {p}
    /\ UNCHANGED <<disk, daemonVars, applied, fresh>>

(* Run p holds no configuration any longer. *)
Finish(p, label) == /\ pc' = [pc EXCEPT ![p] = label]
                    /\ conf' = [conf EXCEPT ![p] = None]
                    /\ claim' = [claim EXCEPT ![p] = NoClaim]

(* A command that finds its token in the file says so and does nothing. *)
NothingToDo(field, t) ==
    /\ applied' = [applied EXCEPT ![field] = t]
    /\ UNCHANGED <<disk, cliVars, daemonVars, stale, fresh>>

Idle(p, op) == pc[p] = "idle" /\ op \in Ops

(* Mutant of Register: the command token goes to the new field only. *)
RegisterNewField(p) ==
    /\ Idle(p, "register")
    /\ \E n \in NodeTokens, m \in CmdTokens \union {None} :
          Prepare(p, [node |-> n, telemetry |-> n, compose |-> None, command |-> m],
                  [node |-> n, cmd |-> m, restart |-> FALSE], "save")

(* register does not read the file.  The backend answers with the node token
   and perhaps with a command token; --cmd-token is used when it does not. *)
Register(p) ==
    /\ Idle(p, "register")
    /\ \E n \in NodeTokens, m \in CmdTokens \union {None} :
          Prepare(p, [node |-> n, telemetry |-> n, compose |-> m, command |-> m],
                  [node |-> n, cmd |-> m, restart |-> FALSE], "save")

(* Mutant of Refresh: the new token goes to the old field only. *)
RefreshOldField(p) ==
    /\ Idle(p, "refresh")
    /\ Readable
    /\ \E t \in NodeTokens :
          /\ disk.node # t
          /\ Prepare(p, [Migrate(disk) EXCEPT !.node = t],
                     [node |-> t, cmd |-> Same, restart |-> TRUE], "heartbeat")

Refresh(p) ==
    /\ Idle(p, "refresh")
    /\ Readable
    /\ \E t \in NodeTokens :
          LET c == Migrate(disk) IN
          \/ c.node = t /\ NothingToDo("node", t)
          \/ /\ c.node # t
             /\ Prepare(p, [c EXCEPT !.node = t, !.telemetry = t],
                        [node |-> t, cmd |-> Same, restart |-> TRUE],
                        "heartbeat")

(* The heartbeat with the new token is accepted, or the command ends. *)
Heartbeat(p) ==
    /\ pc[p] = "heartbeat"
    /\ \/ /\ pc' = [pc EXCEPT ![p] = "save"]
          /\ UNCHANGED <<conf, claim, stale>>
       \/ Finish(p, "idle") /\ stale' = stale \ {p}
    /\ UNCHANGED <<disk, daemonVars, applied, fresh>>

RefreshCmd(p) ==
    /\ Idle(p, "refresh_cmd")
    /\ Readable
    /\ \E t \in CmdTokens :
          LET c == Migrate(disk) IN
          \/ c.compose = t /\ NothingToDo("cmd", t)
          \/ /\ c.compose # t
             /\ Prepare(p, [c EXCEPT !.compose = t],
                        [NoClaim EXCEPT !.cmd = t], "save")

(* config set of each key that holds a token, and of any other key.  Only
   api.tokens.telemetry and api.tokens.command keep their old fields in step. *)
SetTelemetry(p) ==
    /\ Idle(p, "set_telemetry")
    /\ Readable
    /\ LET c == Migrate(disk) IN
       \/ \E t \in NodeTokens :
             Prepare(p, [c EXCEPT !.node = t, !.telemetry = t],
                     [NoClaim EXCEPT !.node = t], "save")
       \/ Prepare(p, [c EXCEPT !.telemetry = None], NoClaim, "save")

(* Mutant of SetCommand: the old field is left alone. *)
SetCommandOnly(p) ==
    /\ Idle(p, "set_command")
    /\ Readable
    /\ \E t \in CmdTokens \union {None} :
          Prepare(p, [Migrate(disk) EXCEPT !.command = t],
                  [NoClaim EXCEPT !.cmd = t], "save")

SetCommand(p) ==
    /\ Idle(p, "set_command")
    /\ Readable
    /\ \E t \in CmdTokens \union {None} :
          Prepare(p, [Migrate(disk) EXCEPT !.command = t, !.compose = t],
                  [NoClaim EXCEPT !.cmd = t], "save")

SetCompose(p) ==
    /\ Idle(p, "set_compose")
    /\ Readable
    /\ \E t \in CmdTokens \union {None} :
          Prepare(p, [Migrate(disk) EXCEPT !.compose = t],
                  [NoClaim EXCEPT !.cmd = t], "save")

SetOther(p) ==
    /\ Idle(p, "set_other")
    /\ Readable
    /\ Prepare(p, Migrate(disk), NoClaim, "save")

-------------------------------------------------------------------------------
(* save_to opens and truncates the file ... *)
Truncate(p) ==
    /\ pc[p] = "save"
    /\ pc' = [pc EXCEPT ![p] = "write"]
    /\ disk' = Empty
    /\ fresh' = {}
    /\ UNCHANGED <<conf, claim, daemonVars, stale, applied>>

Holding(q) == pc[q] \in {"heartbeat", "save", "write"}

(* What is known of a token once p has written the file. *)
Known(p, field) ==
    IF claim[p][field] # Same THEN claim[p][field]
    ELSE IF p \in stale THEN Unknown ELSE applied[field]

(* ... and writes it.  Over a file another run wrote meanwhile, which may be
   longer, the result need not parse.  Only refresh goes on. *)
Write(p) ==
    /\ pc[p] = "write"
    /\ \/ /\ disk' = conf[p]
          /\ applied' = [f \in {"node", "cmd"} |-> Known(p, f)]
       \/ /\ disk # Empty
          /\ disk' = Torn
          /\ applied' = [f \in {"node", "cmd"} |-> Unknown]
    /\ Finish(p, IF claim[p].restart THEN "restart" ELSE "idle")
    /\ stale' = {q \in Cli \ {p} : Holding(q)}
    /\ fresh' = {}
    /\ UNCHANGED daemonVars

(* The disk is full, or the command is killed, wherever it is. *)
Die(p) == /\ pc[p] # "idle"
          /\ Finish(p, "idle")
          /\ stale' = stale \ {p}
          /\ UNCHANGED <<disk, daemonVars, applied, fresh>>

-------------------------------------------------------------------------------
(* Mutant of StartAgent: the file is used as it is, without the migration. *)
StartUnmigrated == /\ Readable
                   /\ agent' = disk.telemetry
                   /\ fresh' = fresh \union {"agent"}
                   /\ UNCHANGED service

(* A daemon loads the configuration when it starts, or exits. *)
StartAgent   == /\ Readable
                /\ agent' = node_token(Migrate(disk))
                /\ fresh' = fresh \union {"agent"}
                /\ UNCHANGED service

StopAgent    == agent' = Down /\ fresh' = fresh \ {"agent"} /\ UNCHANGED service

StartService ==
    /\ Readable
    /\ service' = [inbound  |-> cmd_token(Migrate(disk)),
                   outbound |-> Migrate(disk).compose]
    /\ fresh' = fresh \union {"service"}
    /\ UNCHANGED agent

StopService  == service' = Down /\ fresh' = fresh \ {"service"} /\ UNCHANGED agent

Daemons == /\ \/ agent = Down /\ StartAgent
              \/ agent # Down /\ StopAgent
              \/ service = Down /\ StartService
              \/ service # Down /\ StopService
           /\ UNCHANGED <<disk, cliVars, stale, applied>>

(* refresh restarts the agent, if systemctl lets it. *)
RestartAgent(p) ==
    /\ pc[p] = "restart"
    /\ pc' = [pc EXCEPT ![p] = "idle"]
    /\ \/ StartAgent
       \/ ~Readable /\ StopAgent
       \/ UNCHANGED <<daemonVars, fresh>>
    /\ UNCHANGED <<disk, conf, claim, stale, applied>>

-------------------------------------------------------------------------------
(* What the commands do step by step, apart from the history of oneField. *)
BothFields(p) == \/ Register(p) \/ Refresh(p) \/ Heartbeat(p)
                 \/ SetTelemetry(p) \/ SetCommand(p) \/ SetOther(p)
                 \/ Truncate(p) \/ Write(p) \/ Die(p) \/ RestartAgent(p)

Run(p) == \/ BothFields(p) /\ UNCHANGED oneField
          \/ (RefreshCmd(p) \/ SetCompose(p)) /\ oneField' = TRUE

Next == \/ Daemons /\ UNCHANGED oneField
        \/ \E p \in Cli : Run(p)

Spec == Init /\ [][Next]_vars

-------------------------------------------------------------------------------
Claims == [node    : NodeTokens \union {Same},
           cmd     : CmdTokens \union {None, Same},
           restart : BOOLEAN]

FieldsOK ==
    /\ disk \in Config \union {Empty, Torn}
    /\ pc \in [Cli -> {"idle", "heartbeat", "save", "write", "restart"}]
    /\ conf \in [Cli -> Config \union {None}]
    /\ \A p \in Cli : Holding(p) <=> conf[p] # None
    /\ claim \in [Cli -> Claims]
    /\ service \in [inbound  : CmdTokens \union {None},
                    outbound : CmdTokens \union {None}] \union {Down}
    /\ agent \in NodeTokens \union {Down}
    /\ stale \in SUBSET Cli
    /\ applied \in [node : NodeTokens \union {Unknown},
                    cmd  : CmdTokens \union {None, Unknown}]
    /\ fresh \in SUBSET {"agent", "service"}

TypeOK == FieldsOK /\ oneField \in BOOLEAN

(* config.rs:190-192: the two fields of the node token are kept in step.  The
   heartbeat of refresh and unregister uses the one, telemetry the other. *)
NodeTokensInSync == Readable => InSync(disk)

(* A command that sets the node token leaves it in effect, also after other
   commands have rewritten the file, unless one of them had read the file
   before the token was set. *)
NodeApplied == Readable /\ applied.node # Unknown =>
                   node_token(Migrate(disk)) = applied.node

(* README.md:266-268, and config set: a command that sets the command token
   leaves it in effect, likewise. *)
CmdApplied == Readable /\ applied.cmd # Unknown =>
                  cmd_token(Migrate(disk)) = applied.cmd

(* That is so as long as every command that sets it writes both its fields. *)
CmdAppliedInBoth == ~oneField => CmdApplied

(* An agent that has been started since the last save pushes with the token
   that was set last. *)
AgentUsesApplied == "agent" \in fresh /\ applied.node # Unknown =>
                        agent = applied.node

(* A service that has been started since the last save accepts the command
   token that was set last and polls with the same one, likewise. *)
ChannelsAgree == ~oneField /\ "service" \in fresh /\ applied.cmd # Unknown =>
                     /\ service.inbound = applied.cmd
                     /\ service.outbound = applied.cmd
===============================================================================
