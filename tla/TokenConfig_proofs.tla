-------------------------- MODULE TokenConfig_proofs --------------------------
(***************************************************************************)
(* Proofs about TokenConfig, for any tokens and any number of overlapping  *)
(* runs of the CLI.                                                        *)
(***************************************************************************)
EXTENDS TokenConfig, TLAPS

(***************************************************************************)
(* What a command prepares has its type, and the invariant of types.       *)
(***************************************************************************)
LEMMA MigrateType ==
    ASSUME NEW c \in Config
    PROVE  /\ Migrate(c) \in Config
           /\ Migrate(c).node = c.node
           /\ Migrate(c).compose = c.compose
           /\ node_token(Migrate(c)) \in NodeTokens
           /\ cmd_token(Migrate(c)) \in CmdTokens \union {None}
BY DEF Config, Migrate, node_token, cmd_token

LEMMA ClaimType ==
    /\ NoClaim \in Claims
    /\ \A t \in NodeTokens : [NoClaim EXCEPT !.node = t] \in Claims
    /\ \A t \in CmdTokens \union {None} : [NoClaim EXCEPT !.cmd = t] \in Claims
BY DEF NoClaim, Claims

LEMMA NoneIsNoConfig == None \notin Config
BY FilesOK

LEMMA PrepareType ==
    ASSUME FieldsOK, NEW p \in Cli, NEW c \in Config, NEW cl \in Claims,
           NEW label \in {"heartbeat", "save"}, Prepare(p, c, cl, label)
    PROVE  FieldsOK'
<1> USE NoneIsNoConfig DEF FieldsOK, Prepare, daemonVars, Holding
<1>1. /\ pc' \in [Cli -> {"idle", "heartbeat", "save", "write", "restart"}]
      /\ conf' \in [Cli -> Config \union {None}]
      /\ claim' \in [Cli -> Claims]
      /\ stale' \in SUBSET Cli
  OBVIOUS
<1>2. \A q \in Cli : Holding(q)' <=> conf'[q] # None
  OBVIOUS
<1> QED BY <1>1, <1>2

LEMMA FinishType ==
    ASSUME FieldsOK, NEW p \in Cli, NEW label \in {"idle", "restart"},
           Finish(p, label)
    PROVE  /\ pc' \in [Cli -> {"idle", "heartbeat", "save", "write", "restart"}]
           /\ conf' \in [Cli -> Config \union {None}]
           /\ claim' \in [Cli -> Claims]
           /\ \A q \in Cli : Holding(q)' <=> conf'[q] # None
BY ClaimType DEF FieldsOK, Finish, Holding

LEMMA NothingToDoType ==
    ASSUME FieldsOK, NEW field \in {"node", "cmd"},
           NEW t \in IF field = "node" THEN NodeTokens ELSE CmdTokens,
           NothingToDo(field, t)
    PROVE  FieldsOK'
BY DEF FieldsOK, NothingToDo, cliVars, daemonVars, Holding

LEMMA TypeStep == FieldsOK /\ [Next]_vars => FieldsOK'
<1> SUFFICES ASSUME FieldsOK, [Next]_vars PROVE FieldsOK'
  OBVIOUS
<1> USE DEF FieldsOK, cliVars, daemonVars, Holding
<1>1. CASE UNCHANGED vars
  BY <1>1 DEF vars
<1>2. CASE Daemons
  <2>1. Readable => disk \in Config
    BY DEF Readable
  <2>2. /\ agent' \in NodeTokens \union {Down}
        /\ service' \in [inbound  : CmdTokens \union {None},
                        outbound : CmdTokens \union {None}] \union {Down}
        /\ fresh' \in SUBSET {"agent", "service"}
    <3>1. CASE StartAgent
      BY <2>1, <3>1, MigrateType DEF StartAgent
    <3>2. CASE StopAgent
      BY <3>2 DEF StopAgent
    <3>3. CASE StartService
      <4>1. Migrate(disk).compose \in CmdTokens \union {None}
        BY <2>1, <3>3, MigrateType DEF StartService, Config
      <4> QED BY <2>1, <3>3, <4>1, MigrateType DEF StartService
    <3>4. CASE StopService
      BY <3>4 DEF StopService
    <3> QED BY <1>2, <3>1, <3>2, <3>3, <3>4 DEF Daemons
  <2> QED BY <1>2, <2>2 DEF Daemons
<1>3. ASSUME NEW p \in Cli, Run(p) PROVE FieldsOK'
  <2>0. Readable => disk \in Config /\ Migrate(disk) \in Config
    BY MigrateType DEF Readable
  <2>1. CASE Register(p)
    <3>1. PICK n \in NodeTokens, m \in CmdTokens \union {None} :
             Prepare(p, [node |-> n, telemetry |-> n, compose |-> m, command |-> m],
                     [node |-> n, cmd |-> m, restart |-> FALSE], "save")
      BY <2>1 DEF Register
    <3>2. /\ [node |-> n, telemetry |-> n, compose |-> m, command |-> m] \in Config
          /\ [node |-> n, cmd |-> m, restart |-> FALSE] \in Claims
      BY DEF Config, Claims
    <3> QED BY <3>1, <3>2, PrepareType
  <2>2. CASE Refresh(p)
    <3>1. PICK t \in NodeTokens :
            \/ NothingToDo("node", t)
            \/ Prepare(p, [Migrate(disk) EXCEPT !.node = t, !.telemetry = t],
                       [node |-> t, cmd |-> Same, restart |-> TRUE], "heartbeat")
      BY <2>2 DEF Refresh
    <3>2. /\ [Migrate(disk) EXCEPT !.node = t, !.telemetry = t] \in Config
          /\ [node |-> t, cmd |-> Same, restart |-> TRUE] \in Claims
      BY <2>0, <2>2 DEF Refresh, Config, Claims
    <3>3. CASE NothingToDo("node", t)
      BY <3>3, NothingToDoType
    <3> QED BY <3>1, <3>2, <3>3, PrepareType
  <2>3. CASE Heartbeat(p)
    <3>1. CASE pc' = [pc EXCEPT ![p] = "save"] /\ UNCHANGED <<conf, claim, stale>>
      BY <2>3, <3>1 DEF Heartbeat
    <3>2. CASE Finish(p, "idle") /\ stale' = stale \ {p}
      BY <2>3, <3>2, FinishType DEF Heartbeat
    <3> QED BY <2>3, <3>1, <3>2 DEF Heartbeat
  <2>4. CASE RefreshCmd(p)
    <3>1. PICK t \in CmdTokens :
            \/ NothingToDo("cmd", t)
            \/ Prepare(p, [Migrate(disk) EXCEPT !.compose = t],
                       [NoClaim EXCEPT !.cmd = t], "save")
      BY <2>4 DEF RefreshCmd
    <3>2. [Migrate(disk) EXCEPT !.compose = t] \in Config
      BY <2>0, <2>4 DEF RefreshCmd, Config
    <3>3. CASE NothingToDo("cmd", t)
      BY <3>3, NothingToDoType
    <3> QED BY <3>1, <3>2, <3>3, ClaimType, PrepareType
  <2>5. CASE SetTelemetry(p)
    <3>1. CASE Prepare(p, [Migrate(disk) EXCEPT !.telemetry = None], NoClaim, "save")
      <4>1. [Migrate(disk) EXCEPT !.telemetry = None] \in Config
        BY <2>0, <2>5 DEF SetTelemetry, Config
      <4> QED BY <3>1, <4>1, ClaimType, PrepareType
    <3>2. ASSUME NEW t \in NodeTokens,
                 Prepare(p, [Migrate(disk) EXCEPT !.node = t, !.telemetry = t],
                         [NoClaim EXCEPT !.node = t], "save")
          PROVE  FieldsOK'
      <4>1. [Migrate(disk) EXCEPT !.node = t, !.telemetry = t] \in Config
        BY <2>0, <2>5 DEF SetTelemetry, Config
      <4> QED BY <3>2, <4>1, ClaimType, PrepareType
    <3> QED BY <2>5, <3>1, <3>2 DEF SetTelemetry
  <2>6. CASE SetCommand(p)
    <3>1. PICK t \in CmdTokens \union {None} :
             Prepare(p, [Migrate(disk) EXCEPT !.command = t, !.compose = t],
                     [NoClaim EXCEPT !.cmd = t], "save")
      BY <2>6 DEF SetCommand
    <3>2. [Migrate(disk) EXCEPT !.command = t, !.compose = t] \in Config
      BY <2>0, <2>6 DEF SetCommand, Config
    <3> QED BY <3>1, <3>2, ClaimType, PrepareType
  <2>7. CASE SetCompose(p)
    <3>1. PICK t \in CmdTokens \union {None} :
             Prepare(p, [Migrate(disk) EXCEPT !.compose = t],
                     [NoClaim EXCEPT !.cmd = t], "save")
      BY <2>7 DEF SetCompose
    <3>2. [Migrate(disk) EXCEPT !.compose = t] \in Config
      BY <2>0, <2>7 DEF SetCompose, Config
    <3> QED BY <3>1, <3>2, ClaimType, PrepareType
  <2>8. CASE SetOther(p)
    BY <2>0, <2>8, ClaimType, PrepareType DEF SetOther
  <2>9. CASE Truncate(p)
    BY <2>9 DEF Truncate
  <2>10. CASE Write(p)
    <3>1. pc[p] = "write" /\ conf[p] \in Config
      BY <2>10 DEF Write
    <3>2. claim[p] \in Claims
      OBVIOUS
    <3>3. Known(p, "node") \in NodeTokens \union {Unknown} /\
          Known(p, "cmd") \in CmdTokens \union {None, Unknown}
      BY <3>2 DEF Known, Claims
    <3>4. applied' \in [node : NodeTokens \union {Unknown},
                        cmd  : CmdTokens \union {None, Unknown}]
      BY <2>10, <3>3 DEF Write
    <3>5. disk' \in Config \union {Empty, Torn}
      BY <2>10, <3>1 DEF Write
    <3> QED BY <2>10, <3>4, <3>5, FinishType DEF Write
  <2>11. CASE Die(p)
    BY <2>11, FinishType DEF Die
  <2>12. CASE RestartAgent(p)
    <3>1. conf' = conf /\ \A q \in Cli : Holding(q)' <=> Holding(q)
      BY <2>12 DEF RestartAgent
    <3>2. agent' \in NodeTokens \union {Down} /\ fresh' \in SUBSET {"agent", "service"}
      BY <2>0, <2>12, MigrateType DEF RestartAgent, StartAgent, StopAgent
    <3> QED BY <2>12, <3>1, <3>2 DEF RestartAgent, StartAgent, StopAgent
  <2> QED BY <1>3, <2>1, <2>2, <2>3, <2>4, <2>5, <2>6, <2>7, <2>8, <2>9, <2>10,
             <2>11, <2>12 DEF Run, BothFields
<1> QED BY <1>1, <1>2, <1>3 DEF Next

(* Every variable keeps its type, and a run of the CLI holds a configuration *)
(* exactly from its load to its save.                                        *)
THEOREM TypeCorrect == Spec => []TypeOK
<1>1. Init => TypeOK
  <2>1. Init => FieldsOK
    BY ClaimType DEF Init, FieldsOK, Start, Holding
  <2>2. Init => oneField \in BOOLEAN
    BY Zenon DEF Init
  <2> QED BY <2>1, <2>2 DEF TypeOK
<1>2. TypeOK /\ [Next]_vars => TypeOK'
  <2>1. oneField \in BOOLEAN /\ [Next]_vars => (oneField \in BOOLEAN)'
    BY Zenon DEF Next, Run, vars
  <2> QED BY ONLY <2>1, TypeStep, Zenon DEF TypeOK
<1> QED BY <1>1, <1>2, PTL DEF Spec

-------------------------------------------------------------------------------
(***************************************************************************)
(* The node token.  A configuration in which its two fields agree is as    *)
(* good as its node.token alone, which is what the invariant follows: from *)
(* the file to the configurations the CLI holds and back.                  *)
(***************************************************************************)
LEMMA InSyncToken ==
    ASSUME NEW c \in Config, InSync(c)
    PROVE  /\ node_token(Migrate(c)) = c.node
           /\ Migrate(c).telemetry = c.node
BY TokensOK DEF Config, InSync, Migrate, node_token

(* What is known of the node token: from the file, and of run q. *)
FileNode == Readable =>
                /\ InSync(disk)
                /\ applied.node # Unknown => disk.node = applied.node
RunNode(q) == Holding(q) =>
    /\ InSync(conf[q])
    /\ claim[q].node # Same => conf[q].node = claim[q].node
    /\ claim[q].node = Same /\ q \notin stale =>
          /\ applied.node # Unknown => conf[q].node = applied.node
          /\ Readable => conf[q].node = disk.node

NodeInv == FileNode /\ \A q \in Cli : RunNode(q)

LEMMA PrepareNode ==
    ASSUME FieldsOK, NodeInv, NEW p \in Cli, NEW c \in Config, NEW cl \in Claims,
           NEW label \in {"heartbeat", "save"}, Prepare(p, c, cl, label),
           InSync(c), cl.node # Same => c.node = cl.node,
           cl.node = Same => Readable /\ c.node = disk.node
    PROVE  NodeInv'
<1> USE DEF NodeInv, FileNode, RunNode, FieldsOK, Prepare, daemonVars, Readable
<1>1. ASSUME NEW q \in Cli, q # p PROVE RunNode(q)'
  BY <1>1 DEF Holding
<1>2. RunNode(p)'
  BY DEF Holding
<1> QED BY <1>1, <1>2

LEMMA FinishNode ==
    ASSUME FieldsOK, NodeInv, NEW p \in Cli, NEW label \in {"idle", "restart"},
           Finish(p, label), stale' = stale \ {p},
           UNCHANGED <<disk, applied>>
    PROVE  NodeInv'
<1> USE DEF NodeInv, FileNode, RunNode, FieldsOK, Finish, Readable
<1>1. ASSUME NEW q \in Cli, q # p PROVE RunNode(q)'
  BY <1>1 DEF Holding
<1>2. RunNode(p)'
  BY DEF Holding
<1> QED BY <1>1, <1>2

LEMMA NodeStep == FieldsOK /\ NodeInv /\ [Next]_vars => NodeInv'
<1> SUFFICES ASSUME FieldsOK, NodeInv, [Next]_vars PROVE NodeInv'
  OBVIOUS
<1> USE DEF cliVars, daemonVars
<1>1. CASE UNCHANGED vars
  BY <1>1 DEF vars, NodeInv, FileNode, RunNode, Readable, Holding
<1>2. CASE Daemons
  BY <1>2 DEF Daemons, NodeInv, FileNode, RunNode, Readable, Holding
<1>3. ASSUME NEW p \in Cli, Run(p) PROVE NodeInv'
  <2>0. Readable => /\ disk \in Config /\ Migrate(disk) \in Config
                    /\ InSync(Migrate(disk))
                    /\ Migrate(disk).node = disk.node
    BY MigrateType, InSyncToken DEF Readable, FieldsOK, NodeInv, FileNode, InSync
  <2>1. CASE Register(p)
    <3>1. PICK n \in NodeTokens, m \in CmdTokens \union {None} :
             Prepare(p, [node |-> n, telemetry |-> n, compose |-> m, command |-> m],
                     [node |-> n, cmd |-> m, restart |-> FALSE], "save")
      BY <2>1 DEF Register
    <3>2. /\ [node |-> n, telemetry |-> n, compose |-> m, command |-> m] \in Config
          /\ [node |-> n, cmd |-> m, restart |-> FALSE] \in Claims
          /\ InSync([node |-> n, telemetry |-> n, compose |-> m, command |-> m])
          /\ n # Same
      BY TokensOK DEF Config, Claims, InSync
    <3> QED BY <3>1, <3>2, PrepareNode
  <2>2. CASE Refresh(p)
    <3>1. PICK t \in NodeTokens :
            \/ Migrate(disk).node = t /\ NothingToDo("node", t)
            \/ Prepare(p, [Migrate(disk) EXCEPT !.node = t, !.telemetry = t],
                       [node |-> t, cmd |-> Same, restart |-> TRUE], "heartbeat")
      BY <2>2 DEF Refresh
    <3>2. /\ [Migrate(disk) EXCEPT !.node = t, !.telemetry = t] \in Config
          /\ InSync([Migrate(disk) EXCEPT !.node = t, !.telemetry = t])
          /\ [Migrate(disk) EXCEPT !.node = t, !.telemetry = t].node = t
          /\ [node |-> t, cmd |-> Same, restart |-> TRUE] \in Claims
          /\ t # Same
      BY <2>0, <2>2, TokensOK DEF Refresh, Config, Claims, InSync
    <3>3. CASE Migrate(disk).node = t /\ NothingToDo("node", t)
      <4>1. applied'.node = disk.node /\ Readable
        BY <2>0, <2>2, <3>3 DEF Refresh, NothingToDo, FieldsOK
      <4> QED BY <3>3, <4>1
              DEF NothingToDo, NodeInv, FileNode, RunNode, Readable, Holding
    <3> QED BY <3>1, <3>2, <3>3, PrepareNode
  <2>3. CASE Heartbeat(p)
    <3>1. CASE pc' = [pc EXCEPT ![p] = "save"] /\ UNCHANGED <<conf, claim, stale>>
      BY <2>3, <3>1
         DEF Heartbeat, FieldsOK, NodeInv, FileNode, RunNode, Readable, Holding
    <3>2. CASE Finish(p, "idle") /\ stale' = stale \ {p}
      BY <2>3, <3>2, FinishNode DEF Heartbeat
    <3> QED BY <2>3, <3>1, <3>2 DEF Heartbeat
  <2>4. CASE RefreshCmd(p)
    <3>1. PICK t \in CmdTokens :
            \/ NothingToDo("cmd", t)
            \/ Prepare(p, [Migrate(disk) EXCEPT !.compose = t],
                       [NoClaim EXCEPT !.cmd = t], "save")
      BY <2>4 DEF RefreshCmd
    <3>2. /\ [Migrate(disk) EXCEPT !.compose = t] \in Config
          /\ InSync([Migrate(disk) EXCEPT !.compose = t])
          /\ [Migrate(disk) EXCEPT !.compose = t].node = disk.node
          /\ [NoClaim EXCEPT !.cmd = t] \in Claims
          /\ [NoClaim EXCEPT !.cmd = t].node = Same
          /\ Readable
      BY <2>0, <2>4, ClaimType DEF RefreshCmd, Config, InSync, NoClaim
    <3>3. CASE NothingToDo("cmd", t)
      <4>1. applied'.node = applied.node
        BY <3>3 DEF NothingToDo, FieldsOK
      <4> QED BY <3>3, <4>1
              DEF NothingToDo, NodeInv, FileNode, RunNode, Readable, Holding
    <3> QED BY <3>1, <3>2, <3>3, PrepareNode
  <2>5. CASE SetTelemetry(p)
    <3>1. CASE Prepare(p, [Migrate(disk) EXCEPT !.telemetry = None], NoClaim, "save")
      <4>1. /\ [Migrate(disk) EXCEPT !.telemetry = None] \in Config
            /\ InSync([Migrate(disk) EXCEPT !.telemetry = None])
            /\ [Migrate(disk) EXCEPT !.telemetry = None].node = disk.node
            /\ NoClaim.node = Same
            /\ Readable
        BY <2>0, <2>5 DEF SetTelemetry, Config, InSync, NoClaim
      <4> QED BY <3>1, <4>1, ClaimType, PrepareNode
    <3>2. ASSUME NEW t \in NodeTokens,
                 Prepare(p, [Migrate(disk) EXCEPT !.node = t, !.telemetry = t],
                         [NoClaim EXCEPT !.node = t], "save")
          PROVE  NodeInv'
      <4>1. /\ [Migrate(disk) EXCEPT !.node = t, !.telemetry = t] \in Config
            /\ InSync([Migrate(disk) EXCEPT !.node = t, !.telemetry = t])
            /\ [Migrate(disk) EXCEPT !.node = t, !.telemetry = t].node = t
            /\ [NoClaim EXCEPT !.node = t].node = t
            /\ t # Same
        BY <2>0, <2>5, TokensOK DEF SetTelemetry, Config, InSync, NoClaim
      <4> QED BY <3>2, <4>1, ClaimType, PrepareNode
    <3> QED BY <2>5, <3>1, <3>2 DEF SetTelemetry
  <2>6. CASE SetCommand(p)
    <3>1. PICK t \in CmdTokens \union {None} :
             Prepare(p, [Migrate(disk) EXCEPT !.command = t, !.compose = t],
                     [NoClaim EXCEPT !.cmd = t], "save")
      BY <2>6 DEF SetCommand
    <3>2. /\ [Migrate(disk) EXCEPT !.command = t, !.compose = t] \in Config
          /\ InSync([Migrate(disk) EXCEPT !.command = t, !.compose = t])
          /\ [Migrate(disk) EXCEPT !.command = t, !.compose = t].node = disk.node
          /\ [NoClaim EXCEPT !.cmd = t] \in Claims
          /\ [NoClaim EXCEPT !.cmd = t].node = Same
          /\ Readable
      BY <2>0, <2>6, ClaimType DEF SetCommand, Config, InSync, NoClaim
    <3> QED BY <3>1, <3>2, PrepareNode
  <2>7. CASE SetCompose(p)
    <3>1. PICK t \in CmdTokens \union {None} :
             Prepare(p, [Migrate(disk) EXCEPT !.compose = t],
                     [NoClaim EXCEPT !.cmd = t], "save")
      BY <2>7 DEF SetCompose
    <3>2. /\ [Migrate(disk) EXCEPT !.compose = t] \in Config
          /\ InSync([Migrate(disk) EXCEPT !.compose = t])
          /\ [Migrate(disk) EXCEPT !.compose = t].node = disk.node
          /\ [NoClaim EXCEPT !.cmd = t] \in Claims
          /\ [NoClaim EXCEPT !.cmd = t].node = Same
          /\ Readable
      BY <2>0, <2>7, ClaimType DEF SetCompose, Config, InSync, NoClaim
    <3> QED BY <3>1, <3>2, PrepareNode
  <2>8. CASE SetOther(p)
    <3>1. NoClaim.node = Same
      BY DEF NoClaim
    <3> QED BY <2>0, <2>8, <3>1, ClaimType, PrepareNode DEF SetOther
  <2>9. CASE Truncate(p)
    <3>1. ~Readable'
      BY <2>9 DEF Truncate, Readable
    <3>2. \A q \in Cli : Holding(q)' <=> Holding(q)
      BY <2>9 DEF Truncate, FieldsOK, Holding
    <3> QED BY <2>9, <3>1, <3>2 DEF Truncate, NodeInv, FileNode, RunNode
  <2>10. CASE Write(p)
    <3>1. Holding(p) /\ conf[p] \in Config
      BY <2>10 DEF Write, FieldsOK, Holding
    <3>2. ASSUME NEW q \in Cli, q # p, Holding(q)' PROVE RunNode(q)'
      <4>1. Holding(q) /\ conf'[q] = conf[q] /\ claim'[q] = claim[q] /\ q \in stale'
        BY <2>10, <3>2 DEF Write, Finish, FieldsOK, Holding
      <4> QED BY <4>1 DEF NodeInv, RunNode
    <3>3. ~Holding(p)'
      BY <2>10 DEF Write, Finish, FieldsOK, Holding
    <3>4. FileNode'
      <4>1. CASE disk' = Torn
        BY <4>1 DEF FileNode, Readable
      <4>2. CASE disk' = conf[p] /\ applied' = [f \in {"node", "cmd"} |-> Known(p, f)]
        <5>1. applied'.node = Known(p, "node")
          BY <4>2
        <5>2. Known(p, "node") # Unknown => conf[p].node = Known(p, "node")
          BY <3>1 DEF Known, NodeInv, RunNode
        <5> QED BY <3>1, <4>2, <5>1, <5>2 DEF NodeInv, FileNode, RunNode
      <4> QED BY <2>10, <4>1, <4>2 DEF Write
    <3> QED BY <3>2, <3>3, <3>4 DEF NodeInv, RunNode
  <2>11. CASE Die(p)
    BY <2>11, FinishNode DEF Die
  <2>12. CASE RestartAgent(p)
    <3>1. \A q \in Cli : Holding(q)' <=> Holding(q)
      BY <2>12 DEF RestartAgent, FieldsOK, Holding
    <3> QED BY <2>12, <3>1
            DEF RestartAgent, NodeInv, FileNode, RunNode, Readable
  <2> QED BY <1>3, <2>1, <2>2, <2>3, <2>4, <2>5, <2>6, <2>7, <2>8, <2>9, <2>10,
             <2>11, <2>12 DEF Run, BothFields
<1> QED BY <1>1, <1>2, <1>3 DEF Next

LEMMA NodeAlways == Spec => [](FieldsOK /\ NodeInv)
<1>1. Init => FieldsOK /\ NodeInv
  BY ClaimType DEF Init, FieldsOK, NodeInv, FileNode, RunNode, Start, Readable, Holding
<1> QED BY <1>1, TypeStep, NodeStep, PTL DEF Spec

(* The two fields of the node token agree in every file that parses, however *)
(* runs of the CLI overlap and wherever they die (save_to, refresh, set).    *)
THEOREM InSyncAlways == Spec => []NodeTokensInSync
<1>1. NodeInv => NodeTokensInSync
  BY DEF NodeInv, FileNode, NodeTokensInSync
<1> QED BY <1>1, NodeAlways, PTL

(* A node token that was set stays in effect through later commands. *)
THEOREM NodeAppliedAlways == Spec => []NodeApplied
<1>1. FieldsOK /\ NodeInv => NodeApplied
  BY InSyncToken DEF FieldsOK, NodeInv, FileNode, NodeApplied, Readable
<1> QED BY <1>1, NodeAlways, PTL

-------------------------------------------------------------------------------
(* A daemon that is fresh holds what the file says. *)
FreshInv ==
    /\ "agent" \in fresh => Readable /\ agent = node_token(Migrate(disk))
    /\ "service" \in fresh =>
           Readable /\ service = [inbound  |-> cmd_token(Migrate(disk)),
                                  outbound |-> Migrate(disk).compose]

LEMMA FreshStep == FreshInv /\ [Next]_vars => FreshInv'
<1> SUFFICES ASSUME FreshInv, [Next]_vars PROVE FreshInv'
  OBVIOUS
<1> USE DEF FreshInv, cliVars, daemonVars, Readable
<1>1. CASE UNCHANGED vars
  BY <1>1 DEF vars
<1>2. CASE Daemons
  BY <1>2 DEF Daemons, StartAgent, StopAgent, StartService, StopService
<1>3. ASSUME NEW p \in Cli, Run(p) PROVE FreshInv'
  <2>1. CASE Truncate(p) \/ Write(p)
    BY <2>1 DEF Truncate, Write
  <2>2. CASE RestartAgent(p)
    BY <2>2 DEF RestartAgent, StartAgent, StopAgent
  <2>3. CASE Heartbeat(p) \/ Die(p)
    BY <2>3 DEF Heartbeat, Die
  <2>4. CASE \/ Register(p) \/ Refresh(p) \/ RefreshCmd(p) \/ SetTelemetry(p)
             \/ SetCommand(p) \/ SetCompose(p) \/ SetOther(p)
    <3>1. UNCHANGED <<disk, daemonVars, fresh>>
      BY <2>4 DEF Register, Refresh, RefreshCmd, SetTelemetry, SetCommand,
                  SetCompose, SetOther, Prepare, NothingToDo
    <3> QED BY <3>1
  <2> QED BY <1>3, <2>1, <2>2, <2>3, <2>4 DEF Run, BothFields
<1> QED BY <1>1, <1>2, <1>3 DEF Next

(* An agent started since the last save pushes with the token set last. *)
THEOREM AgentUsesAppliedAlways == Spec => []AgentUsesApplied
<1>1. Init => FreshInv
  BY DEF Init, FreshInv
<1>2. NodeApplied /\ FreshInv => AgentUsesApplied
  BY DEF NodeApplied, FreshInv, AgentUsesApplied
<1> QED BY <1>1, <1>2, FreshStep, NodeAppliedAlways, PTL DEF Spec

-------------------------------------------------------------------------------
(***************************************************************************)
(* The command token, until refresh-cmd or config set compose.cmd_token is *)
(* used: both write the old field only.  Without them the two fields agree *)
(* as those of the node token do.                                          *)
(***************************************************************************)
CmdSync(c) == c.command \in {None, c.compose}

LEMMA CmdSyncToken ==
    ASSUME NEW c \in Config, CmdSync(c)
    PROVE  /\ cmd_token(Migrate(c)) = c.compose
           /\ Migrate(c).command = c.compose
BY DEF Config, CmdSync, Migrate, cmd_token

FileCmd == Readable =>
               /\ CmdSync(disk)
               /\ applied.cmd # Unknown => disk.compose = applied.cmd
RunCmd(q) == Holding(q) =>
    /\ CmdSync(conf[q])
    /\ claim[q].cmd # Same => conf[q].compose = claim[q].cmd
    /\ claim[q].cmd = Same /\ q \notin stale =>
          /\ applied.cmd # Unknown => conf[q].compose = applied.cmd
          /\ Readable => conf[q].compose = disk.compose

CmdInv == FileCmd /\ \A q \in Cli : RunCmd(q)

LEMMA PrepareCmd ==
    ASSUME FieldsOK, CmdInv, NEW p \in Cli, NEW c \in Config, NEW cl \in Claims,
           NEW label \in {"heartbeat", "save"}, Prepare(p, c, cl, label),
           CmdSync(c), cl.cmd # Same => c.compose = cl.cmd,
           cl.cmd = Same => Readable /\ c.compose = disk.compose
    PROVE  CmdInv'
<1> USE DEF CmdInv, FileCmd, RunCmd, FieldsOK, Prepare, daemonVars, Readable
<1>1. ASSUME NEW q \in Cli, q # p PROVE RunCmd(q)'
  BY <1>1 DEF Holding
<1>2. RunCmd(p)'
  BY DEF Holding
<1> QED BY <1>1, <1>2

LEMMA FinishCmd ==
    ASSUME FieldsOK, CmdInv, NEW p \in Cli, NEW label \in {"idle", "restart"},
           Finish(p, label), stale' = stale \ {p},
           UNCHANGED <<disk, applied>>
    PROVE  CmdInv'
<1> USE DEF CmdInv, FileCmd, RunCmd, FieldsOK, Finish, Readable
<1>1. ASSUME NEW q \in Cli, q # p PROVE RunCmd(q)'
  BY <1>1 DEF Holding
<1>2. RunCmd(p)'
  BY DEF Holding
<1> QED BY <1>1, <1>2

LEMMA NeverBack == [Next]_vars /\ ~oneField' => ~oneField
<1>1. UNCHANGED vars => UNCHANGED oneField
  BY Zenon DEF vars
<1> QED BY <1>1, Zenon DEF Next, Run

LEMMA CmdStep ==
    FieldsOK /\ (~oneField => CmdInv) /\ [Next]_vars => (~oneField' => CmdInv')
<1> SUFFICES ASSUME FieldsOK, CmdInv, [Next]_vars, ~oneField' PROVE CmdInv'
  BY NeverBack, Zenon
<1> USE DEF cliVars, daemonVars
<1>1. CASE UNCHANGED vars
  BY <1>1 DEF vars, CmdInv, FileCmd, RunCmd, Readable, Holding
<1>2. CASE Daemons
  BY <1>2 DEF Daemons, CmdInv, FileCmd, RunCmd, Readable, Holding
<1>3. ASSUME NEW p \in Cli, BothFields(p) PROVE CmdInv'
  <2>0. Readable => /\ disk \in Config /\ Migrate(disk) \in Config
                    /\ CmdSync(Migrate(disk))
                    /\ Migrate(disk).compose = disk.compose
    BY MigrateType, CmdSyncToken DEF Readable, FieldsOK, CmdInv, FileCmd, CmdSync
  <2>1. CASE Register(p)
    <3>1. PICK n \in NodeTokens, m \in CmdTokens \union {None} :
             Prepare(p, [node |-> n, telemetry |-> n, compose |-> m, command |-> m],
                     [node |-> n, cmd |-> m, restart |-> FALSE], "save")
      BY <2>1 DEF Register
    <3>2. /\ [node |-> n, telemetry |-> n, compose |-> m, command |-> m] \in Config
          /\ [node |-> n, cmd |-> m, restart |-> FALSE] \in Claims
          /\ CmdSync([node |-> n, telemetry |-> n, compose |-> m, command |-> m])
          /\ m # Same
      BY TokensOK DEF Config, Claims, CmdSync
    <3> QED BY <3>1, <3>2, PrepareCmd
  <2>2. CASE Refresh(p)
    <3>1. PICK t \in NodeTokens :
            \/ NothingToDo("node", t)
            \/ Prepare(p, [Migrate(disk) EXCEPT !.node = t, !.telemetry = t],
                       [node |-> t, cmd |-> Same, restart |-> TRUE], "heartbeat")
      BY <2>2 DEF Refresh
    <3>2. /\ [Migrate(disk) EXCEPT !.node = t, !.telemetry = t] \in Config
          /\ CmdSync([Migrate(disk) EXCEPT !.node = t, !.telemetry = t])
          /\ [Migrate(disk) EXCEPT !.node = t, !.telemetry = t].compose = disk.compose
          /\ [node |-> t, cmd |-> Same, restart |-> TRUE] \in Claims
          /\ Readable
      BY <2>0, <2>2 DEF Refresh, Config, Claims, CmdSync
    <3>3. CASE NothingToDo("node", t)
      <4>1. applied'.cmd = applied.cmd
        BY <3>3 DEF NothingToDo, FieldsOK
      <4> QED BY <3>3, <4>1
              DEF NothingToDo, CmdInv, FileCmd, RunCmd, Readable, Holding
    <3> QED BY <3>1, <3>2, <3>3, PrepareCmd
  <2>3. CASE Heartbeat(p)
    <3>1. CASE pc' = [pc EXCEPT ![p] = "save"] /\ UNCHANGED <<conf, claim, stale>>
      BY <2>3, <3>1
         DEF Heartbeat, FieldsOK, CmdInv, FileCmd, RunCmd, Readable, Holding
    <3>2. CASE Finish(p, "idle") /\ stale' = stale \ {p}
      BY <2>3, <3>2, FinishCmd DEF Heartbeat
    <3> QED BY <2>3, <3>1, <3>2 DEF Heartbeat
  <2>4. CASE SetTelemetry(p)
    <3>1. CASE Prepare(p, [Migrate(disk) EXCEPT !.telemetry = None], NoClaim, "save")
      <4>1. /\ [Migrate(disk) EXCEPT !.telemetry = None] \in Config
            /\ CmdSync([Migrate(disk) EXCEPT !.telemetry = None])
            /\ [Migrate(disk) EXCEPT !.telemetry = None].compose = disk.compose
            /\ NoClaim.cmd = Same
            /\ Readable
        BY <2>0, <2>4 DEF SetTelemetry, Config, CmdSync, NoClaim
      <4> QED BY <3>1, <4>1, ClaimType, PrepareCmd
    <3>2. ASSUME NEW t \in NodeTokens,
                 Prepare(p, [Migrate(disk) EXCEPT !.node = t, !.telemetry = t],
                         [NoClaim EXCEPT !.node = t], "save")
          PROVE  CmdInv'
      <4>1. /\ [Migrate(disk) EXCEPT !.node = t, !.telemetry = t] \in Config
            /\ CmdSync([Migrate(disk) EXCEPT !.node = t, !.telemetry = t])
            /\ [Migrate(disk) EXCEPT !.node = t, !.telemetry = t].compose
                   = disk.compose
            /\ [NoClaim EXCEPT !.node = t].cmd = Same
            /\ Readable
        BY <2>0, <2>4 DEF SetTelemetry, Config, CmdSync, NoClaim
      <4> QED BY <3>2, <4>1, ClaimType, PrepareCmd
    <3> QED BY <2>4, <3>1, <3>2 DEF SetTelemetry
  <2>5. CASE SetCommand(p)
    <3>1. PICK t \in CmdTokens \union {None} :
             Prepare(p, [Migrate(disk) EXCEPT !.command = t, !.compose = t],
                     [NoClaim EXCEPT !.cmd = t], "save")
      BY <2>5 DEF SetCommand
    <3>2. /\ [Migrate(disk) EXCEPT !.command = t, !.compose = t] \in Config
          /\ CmdSync([Migrate(disk) EXCEPT !.command = t, !.compose = t])
          /\ [Migrate(disk) EXCEPT !.command = t, !.compose = t].compose = t
          /\ [NoClaim EXCEPT !.cmd = t] \in Claims
          /\ [NoClaim EXCEPT !.cmd = t].cmd = t
          /\ t # Same
      BY <2>0, <2>5, ClaimType, TokensOK
         DEF SetCommand, Config, CmdSync, NoClaim
    <3> QED BY <3>1, <3>2, PrepareCmd
  <2>6. CASE SetOther(p)
    <3>1. NoClaim.cmd = Same
      BY DEF NoClaim
    <3> QED BY <2>0, <2>6, <3>1, ClaimType, PrepareCmd DEF SetOther
  <2>7. CASE Truncate(p)
    <3>1. ~Readable'
      BY <2>7 DEF Truncate, Readable
    <3>2. \A q \in Cli : Holding(q)' <=> Holding(q)
      BY <2>7 DEF Truncate, FieldsOK, Holding
    <3> QED BY <2>7, <3>1, <3>2 DEF Truncate, CmdInv, FileCmd, RunCmd
  <2>8. CASE Write(p)
    <3>1. Holding(p) /\ conf[p] \in Config
      BY <2>8 DEF Write, FieldsOK, Holding
    <3>2. ASSUME NEW q \in Cli, q # p, Holding(q)' PROVE RunCmd(q)'
      <4>1. Holding(q) /\ conf'[q] = conf[q] /\ claim'[q] = claim[q] /\ q \in stale'
        BY <2>8, <3>2 DEF Write, Finish, FieldsOK, Holding
      <4> QED BY <4>1 DEF CmdInv, RunCmd
    <3>3. ~Holding(p)'
      BY <2>8 DEF Write, Finish, FieldsOK, Holding
    <3>4. FileCmd'
      <4>1. CASE disk' = Torn
        BY <4>1 DEF FileCmd, Readable
      <4>2. CASE disk' = conf[p] /\ applied' = [f \in {"node", "cmd"} |-> Known(p, f)]
        <5>1. applied'.cmd = Known(p, "cmd")
          BY <4>2
        <5>2. Known(p, "cmd") # Unknown => conf[p].compose = Known(p, "cmd")
          BY <3>1 DEF Known, CmdInv, RunCmd
        <5> QED BY <3>1, <4>2, <5>1, <5>2 DEF CmdInv, FileCmd, RunCmd
      <4> QED BY <2>8, <4>1, <4>2 DEF Write
    <3> QED BY <3>2, <3>3, <3>4 DEF CmdInv, RunCmd
  <2>9. CASE Die(p)
    BY <2>9, FinishCmd DEF Die
  <2>10. CASE RestartAgent(p)
    <3>1. \A q \in Cli : Holding(q)' <=> Holding(q)
      BY <2>10 DEF RestartAgent, FieldsOK, Holding
    <3> QED BY <2>10, <3>1
            DEF RestartAgent, CmdInv, FileCmd, RunCmd, Readable
  <2> QED BY <1>3, <2>1, <2>2, <2>3, <2>4, <2>5, <2>6, <2>7, <2>8, <2>9, <2>10
          DEF BothFields
<1> QED BY <1>1, <1>2, <1>3, Zenon DEF Next, Run

LEMMA CmdAlways == Spec => [](FieldsOK /\ (~oneField => CmdInv))
<1>1. Init => FieldsOK
  BY ClaimType DEF Init, FieldsOK, Start, Holding
<1>2. Init => CmdInv
  BY ClaimType DEF Init, CmdInv, FileCmd, RunCmd, CmdSync, Start, Readable, Holding
<1> QED BY <1>1, <1>2, TypeStep, CmdStep, PTL DEF Spec

(* While no command has written one field only, the command token that was   *)
(* set last is the one the file gives to the service.                        *)
THEOREM CmdAppliedAlways == Spec => []CmdAppliedInBoth
<1>1. FieldsOK /\ CmdInv => CmdApplied
  BY CmdSyncToken DEF FieldsOK, CmdInv, FileCmd, CmdApplied, Readable
<1>2. FieldsOK /\ (~oneField => CmdInv) => CmdAppliedInBoth
  BY <1>1, Zenon DEF CmdAppliedInBoth
<1> QED BY <1>2, CmdAlways, PTL

(* ... and a service started since accepts it and polls with it.             *)
THEOREM ChannelsAgreeAlways == Spec => []ChannelsAgree
<1>1. Init => FreshInv
  BY DEF Init, FreshInv
<1>2. ASSUME FieldsOK, CmdInv, FreshInv, "service" \in fresh,
             applied.cmd # Unknown
      PROVE  service.inbound = applied.cmd /\ service.outbound = applied.cmd
  <2>1. disk \in Config /\ CmdSync(disk) /\ disk.compose = applied.cmd
    BY <1>2 DEF FreshInv, FieldsOK, CmdInv, FileCmd, Readable
  <2> QED BY <1>2, <2>1, CmdSyncToken, MigrateType DEF FreshInv
<1>3. FieldsOK /\ (~oneField => CmdInv) /\ FreshInv => ChannelsAgree
  BY <1>2, Zenon DEF ChannelsAgree
<1> QED BY <1>1, <1>3, FreshStep, CmdAlways, PTL DEF Spec
===============================================================================
