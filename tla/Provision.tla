------------------------------ MODULE Provision ------------------------------
(***************************************************************************)
(* The host under `preflight --setup` (core/setup.rs), `register`, `config *)
(* set`, `unregister` and `reset`: the service user, the directories, the  *)
(* configuration in its three places, the binaries, the units, the daemons *)
(* under systemd.  The commands are run by root, one at a time.            *)
(*                                                                         *)
(* Each step is a list of sudo commands, any of which may fail; a step is  *)
(* one action, whose outcomes are what the prefixes of that list leave.  A *)
(* run may be killed between two steps (Kill), which together with a       *)
(* failed step covers a run killed inside one.                             *)
(***************************************************************************)
EXTENDS FiniteSets

CONSTANTS Nodes,     \* the identities a registration can give this host
          Versions,  \* of the binaries
          None,      \* no file, no directory, no binary
          Torn,      \* the node of a file that was not written to its end
          Daemons,   \* their units and binaries: nexus-link-agent and -service
          Agent,     \* the one that unregister stops
          BINARIES,  \* what is installed: the daemons and nexus-link itself
          Ops        \* the commands that are used

(* /etc/nexus-link, /var/lib/nexus-link and ~/.nexus-link. *)
Places == {"etc", "var", "home"}

(* Who may read a configuration: its owner, or everybody.  "gone" is the user *)
(* id of a service user that was deleted.                                     *)
Owners == {"root", "service", "gone"}
File == [node : Nodes \union {Torn}, owner : Owners, world : BOOLEAN]

ASSUME ProvisionOK ==
    /\ Nodes # {} /\ Versions # {}
    /\ Torn \notin Nodes
    /\ None \notin Nodes \union {Torn} \union Versions \union File
    /\ None \notin Owners \union {"open", "closed"}
    /\ Agent \in Daemons /\ Daemons \subseteq BINARIES

(* What a run has to install: the binaries of the directory it was started *)
(* from, or of a user's directory if that is /usr/local/bin itself.        *)
Offers == [version : Versions, has : SUBSET BINARIES]

VARIABLES user,         \* the service user exists
          dockerGroup,  \* there is a group docker, fixed for a behaviour
          docker,       \* the service user is in it
          etc,          \* /etc/nexus-link: None, "open" (755) or "closed" (700)
          stateDir,     \* the owner of /var/lib/nexus-link, or None
          conf,         \* the configuration in each place
          installed,    \* the version of each binary in /usr/local/bin
          units,        \* the unit files that are in place
          enabled,      \* the units that are enabled
          act,          \* what systemd makes of each unit
          userUnits,    \* the daemons of which whoever runs the commands has
                        \* a user's unit as well, fixed for a behaviour
          pc,           \* the next step of the run of a command
          op,           \* the command
          offer,
          failed,       \* a step of this run failed
          current,      \* history: the node of the last configuration saved
          interrupted,  \* history: a run was killed, or failed, or left something
          saved         \* history: the CLI saved a configuration in /etc

accounts == <<user, dockerGroup, docker>>
dirs == <<etc, stateDir>>
software == <<installed, units>>
services == <<enabled, act>>
run == <<op, offer>>
history == <<current, interrupted, saved>>
vars == <<accounts, dirs, conf, software, services, userUnits, run, pc, failed, history>>

(* core/config.rs, as root: the first place that has a file. *)
effective_config_path ==
    IF conf["etc"] # None THEN "etc"
    ELSE IF conf["var"] # None THEN "var" ELSE "home"

(* The daemons run as the service user, on /etc/nexus-link/config.toml. *)
ServiceReads == /\ user /\ etc = "open"
                /\ conf["etc"] # None
                /\ conf["etc"].node # Torn
                /\ conf["etc"].owner = "service" \/ conf["etc"].world

-------------------------------------------------------------------------------
Legacy(n, owner) == IF n = None THEN None
                    ELSE [node |-> n, owner |-> owner, world |-> FALSE]

(* A host without nexus-link, one configured by hand in the home directory, or *)
(* one that v0.10.0 provisioned, with an older configuration left at home.     *)
Init ==
    /\ dockerGroup \in BOOLEAN
    /\ \E home \in Nodes \union {None}, var \in Nodes \union {None} :
          /\ user = (var # None)
          /\ docker \in {FALSE, user /\ dockerGroup}
          /\ stateDir = IF var = None THEN None ELSE "service"
          /\ conf = [p \in Places |-> CASE p = "etc" -> None
                                     [] p = "var" -> Legacy(var, "service")
                                     [] p = "home" -> Legacy(home, "root")]
          /\ current = IF var = None THEN home ELSE var
    /\ etc = None
    /\ installed \in {[b \in BINARIES |-> v] : v \in Versions \union {None}}
    /\ units = {} /\ enabled = {}
    /\ act = [d \in Daemons |-> "inactive"]
    /\ userUnits \in SUBSET Daemons
    /\ pc = "idle" /\ op = "none"
    /\ offer \in Offers /\ offer.has = {}
    /\ failed = FALSE /\ interrupted = FALSE /\ saved = FALSE

At(step, next) == pc = step /\ pc' = next
Ok == UNCHANGED failed
Fails == failed' = TRUE

-------------------------------------------------------------------------------
(* run_setup: its seven steps, of which each is taken whatever became of the *)
(* ones before it.  register runs it first, preflight --setup only it.       *)
BeginSetup ==
    \E name \in Ops \intersect {"setup", "register"} :
        /\ At("idle", "user")
        /\ op' = name /\ failed' = FALSE
        /\ UNCHANGED <<accounts, dirs, conf, software, services, offer, history>>

(* What belonged to one user belongs to another. *)
Reown(from, to) ==
    /\ stateDir' = IF stateDir = from THEN to ELSE stateDir
    /\ conf' = [p \in Places |-> IF conf[p] # None /\ conf[p].owner = from
                                 THEN [conf[p] EXCEPT !.owner = to] ELSE conf[p]]

(* useradd may give the new user the id of a deleted one. *)
create_system_user ==
    /\ At("user", "docker")
    /\ \/ user /\ Ok /\ UNCHANGED <<user, conf, stateDir>>
       \/ /\ ~user /\ user' = TRUE /\ Ok
          /\ Reown("gone", "service") \/ Reown("gone", "gone")
       \/ ~user /\ Fails /\ UNCHANGED <<user, conf, stateDir>>
    /\ UNCHANGED <<dockerGroup, docker, etc, software, services, run, history>>

add_docker_group ==
    /\ At("docker", "etc")
    /\ \/ (~dockerGroup \/ docker) /\ Ok /\ UNCHANGED docker
       \/ dockerGroup /\ ~docker /\ user /\ docker' = TRUE /\ Ok
       \/ dockerGroup /\ ~docker /\ Fails /\ UNCHANGED docker
    /\ UNCHANGED <<user, dockerGroup, dirs, conf, software, services, run, history>>

(* create_config_dir returns early if it cannot make the first directory. *)
create_config_dir ==
    /\ pc = "etc"
    /\ \/ etc # None /\ pc' = "state" /\ Ok /\ UNCHANGED etc
       \/ etc = None /\ pc' = "state" /\ Ok /\ etc' = "open"
       \/ etc = None /\ pc' = "conf" /\ Fails /\ etc' \in {None, "open"}
    /\ UNCHANGED <<accounts, stateDir, conf, software, services, run, history>>

(* Mutant of create_state_dir: the directory is not given to the service user. *)
CreateStateDirOnly ==
    /\ At("state", "conf")
    /\ \/ stateDir # None /\ Ok /\ UNCHANGED stateDir
       \/ stateDir = None /\ stateDir' = "root" /\ Ok
    /\ UNCHANGED <<accounts, etc, conf, software, services, run, history>>

(* An existing directory is left as it is; mkdir, chown to the service user *)
(* and chmod otherwise.                                                     *)
create_state_dir ==
    /\ At("state", "conf")
    /\ \/ stateDir # None /\ Ok /\ UNCHANGED stateDir
       \/ stateDir = None /\ user /\ stateDir' = "service" /\ Ok
       \/ /\ stateDir = None /\ Fails
          /\ stateDir' \in {None, "root"} \union (IF user THEN {"service"} ELSE {})
    /\ UNCHANGED <<accounts, etc, conf, software, services, run, history>>

(* Mutant of migrate_legacy_config: it does not look for one in /etc. *)
MigrateAgain ==
    LET source == IF conf["var"] # None THEN conf["var"] ELSE conf["home"] IN
    /\ At("conf", "bins") /\ Ok
    /\ conf' = IF source = None \/ etc = None THEN conf
               ELSE [conf EXCEPT !["etc"] = [source EXCEPT !.owner = "root", !.world = TRUE]]
    /\ UNCHANGED <<accounts, dirs, software, services, run, history>>

(* cp -p, chown root, chmod 644 of the first configuration that an older *)
(* version left, unless there is one in /etc already.                    *)
migrate_legacy_config ==
    LET source == IF conf["var"] # None THEN conf["var"] ELSE conf["home"] IN
    /\ At("conf", "bins")
    /\ \/ (conf["etc"] # None \/ source = None) /\ Ok /\ UNCHANGED conf
       \/ /\ conf["etc"] = None /\ source # None /\ etc # None /\ Ok
          /\ conf' = [conf EXCEPT !["etc"] =
                         [source EXCEPT !.owner = "root", !.world = TRUE]]
       \/ /\ conf["etc"] = None /\ source # None /\ Fails
          /\ \/ UNCHANGED conf
             \/ /\ etc # None
                /\ \E copy \in {[source EXCEPT !.node = Torn], source,
                                [source EXCEPT !.owner = "root"],
                                [source EXCEPT !.owner = "root", !.world = TRUE]} :
                      conf' = [conf EXCEPT !["etc"] = copy]
    /\ UNCHANGED <<accounts, dirs, software, services, run, history>>

(* Mutant of install_binaries: a binary that is there is not replaced. *)
InstallMissing ==
    /\ At("bins", "units") /\ offer' \in Offers /\ Ok
    /\ installed' = [b \in BINARIES |-> IF b \in offer'.has /\ installed[b] = None
                                       THEN offer'.version ELSE installed[b]]
    /\ UNCHANGED <<accounts, dirs, conf, units, services, op, history>>

(* Each binary that is offered is removed, copied and made executable; an *)
(* error goes on with the next one.                                       *)
install_binaries ==
    /\ At("bins", "units") /\ offer' \in Offers
    /\ \E left \in [offer'.has -> Versions \union {None}] :
          /\ \A b \in offer'.has : left[b] \in {offer'.version, installed[b], None}
          /\ installed' = [b \in BINARIES |-> IF b \in offer'.has THEN left[b]
                                             ELSE installed[b]]
          /\ \/ Fails
             \/ (\A b \in offer'.has : left[b] = offer'.version) /\ Ok
    /\ UNCHANGED <<accounts, dirs, conf, units, services, op, history>>

(* Both files are written again, with tee; then daemon-reload. *)
install_systemd_units ==
    /\ At("units", "enable")
    /\ \/ units' = Daemons /\ Ok
       \/ units' \in SUBSET Daemons /\ Fails
    /\ UNCHANGED <<accounts, dirs, conf, installed, services, run, history>>

Activated(ds) == [d \in Daemons |-> IF d \in ds /\ act[d] = "inactive" THEN "starting"
                                    ELSE act[d]]

(* systemctl enable --now, which leaves a unit that runs alone; which units a *)
(* failure leaves out is open.                                                *)
enable_services ==
    /\ At("enable", "report")
    /\ \/ units = Daemons /\ enabled' = Daemons /\ act' = Activated(Daemons) /\ Ok
       \/ \E on \in SUBSET units, now \in SUBSET units :
             /\ now \subseteq on
             /\ enabled' = enabled \union on /\ act' = Activated(now) /\ Fails
    /\ UNCHANGED <<accounts, dirs, conf, software, run, history>>

Idle == pc' = "idle" /\ op' = "none" /\ failed' = FALSE
        /\ offer' = [offer EXCEPT !.has = {}]

(* The report; register goes on only after a setup without a failed step. *)
Report ==
    /\ pc = "report"
    /\ \/ op = "register" /\ ~failed /\ pc' = "post" /\ UNCHANGED <<run, failed, history>>
       \/ /\ op = "setup" \/ failed
          /\ Idle /\ interrupted' = (interrupted \/ failed) /\ UNCHANGED <<current, saved>>
    /\ UNCHANGED <<accounts, dirs, conf, software, services>>

Setup == \/ BeginSetup \/ create_system_user \/ add_docker_group \/ create_config_dir
         \/ create_state_dir \/ migrate_legacy_config \/ install_binaries
         \/ install_systemd_units \/ enable_services \/ Report

-------------------------------------------------------------------------------
(* Config::save_to makes the directory 700 and the file 600, and keeps the *)
(* owner of a file that was there.                                         *)
save_to(p, node) ==
    /\ conf' = [conf EXCEPT ![p] =
                   [node |-> node, world |-> FALSE,
                    owner |-> IF conf[p] = None THEN "root" ELSE conf[p].owner]]
    /\ etc' = IF p = "etc" THEN "closed" ELSE etc
    /\ saved' = (saved \/ p = "etc")
    /\ current' = IF node = Torn THEN current ELSE node

(* The rest of register: the answer of the backend, the configuration, and *)
(* its owner and mode, whose failure is ignored.                           *)
Register ==
    \/ /\ pc = "post"
       /\ \/ pc' = "save" /\ UNCHANGED <<run, failed>>
          \/ Idle
       /\ UNCHANGED <<accounts, dirs, conf, software, services, history>>
    \/ /\ pc = "save"
       /\ LET p == IF etc # None THEN "etc" ELSE effective_config_path IN
          \/ /\ \E n \in Nodes : save_to(p, n)
             /\ pc' = IF p = "etc" THEN "own" ELSE "registered"
             /\ UNCHANGED <<run, failed, interrupted>>
          \/ save_to(p, Torn) /\ Idle /\ interrupted' = TRUE
       /\ UNCHANGED <<accounts, stateDir, software, services>>
    \/ /\ At("own", "registered")
       /\ \/ user /\ conf' = [conf EXCEPT !["etc"].owner = "service"]
          \/ UNCHANGED conf
       /\ UNCHANGED <<accounts, dirs, software, services, run, failed, history>>
    \/ /\ pc = "registered" /\ Idle
       /\ UNCHANGED <<accounts, dirs, conf, software, services, history>>

(* config set, and every other command that loads and saves. *)
ConfigSet ==
    /\ pc = "idle" /\ "config" \in Ops
    /\ LET p == effective_config_path IN
       /\ conf[p] # None /\ conf[p].node # Torn
       /\ \/ save_to(p, conf[p].node) /\ UNCHANGED interrupted
          \/ save_to(p, Torn) /\ interrupted' = TRUE
    /\ UNCHANGED <<accounts, stateDir, software, services, run, pc, failed>>

(* unregister looks at the home directory only; it stops the agent if it can, *)
(* and goes on without the file it could not remove if it is forced.          *)
Unregister ==
    \/ /\ At("idle", "forget") /\ "unregister" \in Ops
       /\ conf["home"] # None /\ conf["home"].node # Torn
       /\ op' = "unregister" /\ act' \in {act, [act EXCEPT ![Agent] = "inactive"]}
       /\ UNCHANGED <<accounts, dirs, conf, software, enabled, offer, failed, history>>
    \/ /\ pc = "forget" /\ Idle
       /\ \/ conf' = [conf EXCEPT !["home"] = None] /\ current' = None
          \/ UNCHANGED <<conf, current>>
       /\ UNCHANGED <<accounts, dirs, software, services, interrupted, saved>>

-------------------------------------------------------------------------------
(* reset: every removal is tried, whatever became of the ones before it. *)
BeginReset ==
    /\ At("idle", "stop") /\ "reset" \in Ops
    /\ op' = "reset" /\ failed' = FALSE /\ current' = None
    /\ UNCHANGED <<accounts, dirs, conf, software, services, offer, interrupted, saved>>

(* Mutant of stop_and_disable_services: the units stay enabled. *)
StopServices ==
    /\ At("stop", "rm_units") /\ Ok
    /\ act' = [d \in Daemons |-> "inactive"]
    /\ UNCHANGED <<accounts, dirs, conf, software, enabled, run, history>>

(* systemctl stop, then disable; pkill if there is no unit to stop, or it     *)
(* cannot be stopped.  Where the user's manager has a unit of that name, that *)
(* one is stopped and disabled, and the system's is left alone.               *)
stop_and_disable_services ==
    /\ At("stop", "rm_units")
    /\ \/ \E spared \in SUBSET userUnits :
          /\ act' = [d \in Daemons |-> IF d \in spared THEN act[d] ELSE "inactive"]
          /\ enabled' = enabled \ (units \ spared) /\ Ok
       \/ /\ \E on \in SUBSET Daemons :
                act' = [d \in Daemons |-> IF d \in on THEN act[d] ELSE "inactive"]
          /\ enabled' \in SUBSET enabled /\ Fails
    /\ UNCHANGED <<accounts, dirs, conf, software, run, history>>

remove_systemd_units ==
    /\ At("rm_units", "rm_home")
    /\ \/ units' = {} /\ Ok
       \/ units' \in SUBSET units /\ Fails
    /\ UNCHANGED <<accounts, dirs, conf, installed, services, run, history>>

(* remove_dir_if_exists and remove_system_dir: of a directory that cannot be *)
(* removed the configuration may be gone.                                    *)
Without(p) == [conf EXCEPT ![p] = None]

remove_home ==
    /\ At("rm_home", "rm_etc")
    /\ \/ conf' = Without("home") /\ Ok
       \/ conf' \in {conf, Without("home")} /\ Fails
    /\ UNCHANGED <<accounts, dirs, software, services, run, history>>

remove_config_dir ==
    /\ At("rm_etc", "rm_state")
    /\ \/ conf' = Without("etc") /\ etc' = None /\ Ok
       \/ conf' \in {conf, Without("etc")} /\ Fails /\ UNCHANGED etc
    /\ UNCHANGED <<accounts, stateDir, software, services, run, history>>

remove_state_dir ==
    /\ At("rm_state", "rm_bins")
    /\ \/ conf' = Without("var") /\ stateDir' = None /\ Ok
       \/ conf' \in {conf, Without("var")} /\ Fails /\ UNCHANGED stateDir
    /\ UNCHANGED <<accounts, etc, software, services, run, history>>

remove_installed_binaries ==
    /\ At("rm_bins", "rm_user")
    /\ \/ installed' = [b \in BINARIES |-> None] /\ Ok
       \/ \E kept \in SUBSET BINARIES :
             installed' = [b \in BINARIES |-> IF b \in kept THEN installed[b] ELSE None]
             /\ Fails
    /\ UNCHANGED <<accounts, dirs, conf, units, services, run, history>>

(* userdel refuses to delete a user who runs a process. *)
remove_system_user ==
    /\ At("rm_user", "reset_end")
    /\ \/ ~user /\ Ok /\ UNCHANGED <<user, docker, conf, stateDir>>
       \/ /\ user /\ \A d \in Daemons : act[d] # "running"
          /\ user' = FALSE /\ docker' = FALSE /\ Reown("service", "gone") /\ Ok
       \/ user /\ Fails /\ UNCHANGED <<user, docker, conf, stateDir>>
    /\ UNCHANGED <<dockerGroup, etc, software, services, run, history>>

Removed == /\ ~user /\ etc = None /\ stateDir = None
           /\ \A p \in Places : conf[p] = None
           /\ \A b \in BINARIES : installed[b] = None
           /\ units = {}

Clean == Removed /\ enabled = {} /\ \A d \in Daemons : act[d] = "inactive"

ResetDone ==
    /\ pc = "reset_end" /\ Idle
    /\ IF Clean THEN interrupted' = FALSE /\ saved' = FALSE
       ELSE interrupted' = (interrupted \/ failed) /\ UNCHANGED saved
    /\ UNCHANGED <<accounts, dirs, conf, software, services, current>>

Reset == \/ BeginReset \/ stop_and_disable_services \/ remove_systemd_units \/ remove_home
         \/ remove_config_dir \/ remove_state_dir \/ remove_installed_binaries
         \/ remove_system_user \/ ResetDone

-------------------------------------------------------------------------------
(* The command is killed. *)
Kill == /\ pc # "idle" /\ Idle /\ interrupted' = TRUE
        /\ UNCHANGED <<accounts, dirs, conf, software, services, current, saved>>

(* systemd starts an activated unit again and again (Restart=on-failure, *)
(* RestartSec=5); the daemon stays up if it can read its configuration.  *)
Start(d) == /\ act[d] = "starting" /\ d \in units
            /\ ServiceReads /\ installed[d] # None
            /\ act' = [act EXCEPT ![d] = "running"]

Stops(d) == /\ act[d] = "running"
            /\ act' = [act EXCEPT ![d] = "starting"]

Systemd == /\ \E d \in Daemons : Start(d) \/ Stops(d)
           /\ UNCHANGED <<accounts, dirs, conf, software, enabled, run, pc, failed, history>>

Next == /\ Setup \/ Register \/ ConfigSet \/ Unregister \/ Reset \/ Kill \/ Systemd
        /\ UNCHANGED userUnits

Spec == Init /\ [][Next]_vars

-------------------------------------------------------------------------------
SetupSteps == {"user", "docker", "etc", "state", "conf", "bins", "units", "enable", "report"}
ResetSteps == {"stop", "rm_units", "rm_home", "rm_etc", "rm_state", "rm_bins", "rm_user",
               "reset_end"}

TypeOK ==
    /\ user \in BOOLEAN /\ dockerGroup \in BOOLEAN /\ docker \in BOOLEAN
    /\ etc \in {None, "open", "closed"} /\ stateDir \in Owners \union {None}
    /\ conf \in [Places -> File \union {None}]
    /\ installed \in [BINARIES -> Versions \union {None}]
    /\ units \subseteq Daemons /\ enabled \subseteq Daemons
    /\ userUnits \subseteq Daemons
    /\ act \in [Daemons -> {"inactive", "starting", "running"}]
    /\ pc \in {"idle", "post", "save", "own", "registered", "forget"}
              \union SetupSteps \union ResetSteps
    /\ op \in {"none", "setup", "register", "unregister", "reset"}
    /\ offer \in Offers
    /\ failed \in BOOLEAN /\ interrupted \in BOOLEAN /\ saved \in BOOLEAN
    /\ current \in Nodes \union {None}

(* "Idempotent - safe to re-run" (README.md:243), as far as it goes: whatever *)
(* earlier runs left, a setup that reports success has the user in its group, *)
(* both directories, the binaries it offered and both units, enabled.         *)
SuccessMeansInstalled ==
    pc = "report" /\ ~failed =>
        /\ user /\ (dockerGroup => docker)
        /\ etc # None /\ stateDir # None
        /\ \A b \in offer.has : installed[b] = offer.version
        /\ units = Daemons /\ enabled = Daemons
        /\ \A d \in Daemons : act[d] # "inactive"

(* If no run failed before, the state directory is the service user's, and   *)
(* every configuration an older version left has become one that the service *)
(* can read.  (After a failed run an existing directory or file is taken for *)
(* a finished one.)                                                          *)
FirstSuccessMeansReady ==
    pc = "report" /\ ~failed /\ ~interrupted =>
        /\ stateDir = "service"
        /\ conf[effective_config_path] # None =>
              conf["etc"] # None /\ (~saved => ServiceReads)

(* The configuration that a load finds is the last one that was saved, or one *)
(* that a failed write or copy left: no migration brings an older one back.   *)
NodeKept ==
    current # None =>
        /\ conf[effective_config_path] # None
        /\ conf[effective_config_path].node \in {current, Torn}

(* A reset whose commands all succeed leaves nothing behind; if no run failed *)
(* before, no enabled unit either.  That does not hold of a daemon of which   *)
(* there is a user's unit as well: the system's may run on, and stay enabled. *)
CleanAfterReset ==
    pc = "reset_end" /\ ~failed =>
        /\ Removed
        /\ \A d \in Daemons \ userUnits :
              act[d] = "inactive" /\ (~interrupted => d \notin enabled)

(* CHANGELOG.md:37-39: the configuration in /etc is "readable by the          *)
(* nexus-link service user"; a node that has just been registered can use it. *)
RegisteredIsReadable == pc = "registered" => ServiceReads
=============================================================================
