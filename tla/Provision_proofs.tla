-------------------------- MODULE Provision_proofs --------------------------
(***************************************************************************)
(* Theorems about Provision.                                               *)
(***************************************************************************)
EXTENDS Provision, TLAPS

-------------------------------------------------------------------------------
(* Types. *)
(* The variables that are true or false, and the others. *)
Flags == /\ user \in BOOLEAN /\ dockerGroup \in BOOLEAN /\ docker \in BOOLEAN
         /\ failed \in BOOLEAN /\ interrupted \in BOOLEAN /\ saved \in BOOLEAN

Data ==
    /\ etc \in {None, "open", "closed"} /\ stateDir \in Owners \union {None}
    /\ conf \in [Places -> File \union {None}]
    /\ installed \in [BINARIES -> Versions \union {None}]
    /\ units \subseteq Daemons /\ enabled \subseteq Daemons /\ userUnits \subseteq Daemons
    /\ act \in [Daemons -> {"inactive", "starting", "running"}]
    /\ pc \in {"idle", "post", "save", "own", "registered", "forget"}
              \union SetupSteps \union ResetSteps
    /\ op \in {"none", "setup", "register", "unregister", "reset"}
    /\ offer \in Offers
    /\ current \in Nodes \union {None}

LEMMA FlagsStep ==
    ASSUME Flags, [Next]_vars
    PROVE  Flags'
<1> USE DEF Flags, accounts, history, Ok, Fails, Idle
<1>1. CASE UNCHANGED vars
  BY <1>1, Zenon DEF vars
<1>2. CASE BeginSetup \/ create_system_user \/ add_docker_group
  BY <1>2, Zenon DEF BeginSetup, create_system_user, add_docker_group
<1>3. CASE create_config_dir \/ create_state_dir \/ migrate_legacy_config
  BY <1>3, Zenon DEF create_config_dir, create_state_dir, migrate_legacy_config
<1>4. CASE install_binaries \/ install_systemd_units \/ enable_services \/ Report
  BY <1>4, Zenon DEF install_binaries, install_systemd_units, enable_services, Report
<1>5. CASE Register
  BY <1>5, Zenon DEF Register, save_to
<1>6. CASE ConfigSet
  BY <1>6, Zenon DEF ConfigSet, save_to
<1>7. CASE Unregister
  BY <1>7, Zenon DEF Unregister
<1>8. CASE BeginReset \/ stop_and_disable_services \/ remove_systemd_units \/ remove_home
  BY <1>8, Zenon DEF BeginReset, stop_and_disable_services, remove_systemd_units, remove_home
<1>9. CASE remove_config_dir \/ remove_state_dir \/ remove_installed_binaries
  BY <1>9, Zenon DEF remove_config_dir, remove_state_dir, remove_installed_binaries
<1>10. CASE remove_system_user \/ ResetDone \/ Kill \/ Systemd
  BY <1>10, Zenon DEF remove_system_user, ResetDone, Kill, Systemd
<1> QED BY <1>1, <1>2, <1>3, <1>4, <1>5, <1>6, <1>7, <1>8, <1>9, <1>10, Zenon
        DEF Next, Setup, Reset

LEMMA ReownType ==
    ASSUME Data, NEW from \in Owners, NEW to \in Owners, Reown(from, to)
    PROVE  /\ stateDir' \in Owners \union {None}
           /\ conf' \in [Places -> File \union {None}]
<1>1. stateDir' \in Owners \union {None}
  BY DEF Data, Reown
<1>2. ASSUME NEW p \in Places
      PROVE  (IF conf[p] # None /\ conf[p].owner = from
              THEN [conf[p] EXCEPT !.owner = to] ELSE conf[p]) \in File \union {None}
  BY DEF Data, File
<1> QED BY <1>1, <1>2 DEF Reown

LEMMA SaveType ==
    ASSUME Data, NEW p \in Places, NEW n \in Nodes \union {Torn}, save_to(p, n)
    PROVE  /\ conf' \in [Places -> File \union {None}]
           /\ etc' \in {None, "open", "closed"}
           /\ current' \in Nodes \union {None}
<1>1. (IF conf[p] = None THEN "root" ELSE conf[p].owner) \in Owners
  BY DEF Data, File, Owners
<1>2. conf' \in [Places -> File \union {None}]
  BY <1>1 DEF Data, save_to, File
<1> QED BY <1>2 DEF Data, save_to

LEMMA EffectivePlace == effective_config_path \in Places
BY DEF effective_config_path, Places

(* At this step of register there is a configuration in /etc. *)
OwnHasConfig == pc = "own" => conf["etc"] # None

LEMMA DataStep ==
    ASSUME Data, OwnHasConfig, [Next]_vars
    PROVE  Data' /\ OwnHasConfig'
<1> USE DEF Data, OwnHasConfig, accounts, dirs, software, services, run, history, At,
            Idle, SetupSteps, ResetSteps
<1>u. userUnits' = userUnits
  BY DEF Next, vars
<1> USE <1>u
<1>1. CASE UNCHANGED vars
  BY <1>1 DEF vars
<1>2. CASE BeginSetup
  BY <1>2 DEF BeginSetup
<1>3. CASE create_system_user
  BY <1>3, ReownType DEF create_system_user, Owners
<1>4. CASE add_docker_group
  BY <1>4 DEF add_docker_group
<1>5. CASE create_config_dir
  BY <1>5 DEF create_config_dir
<1>6. CASE create_state_dir
  BY <1>6 DEF create_state_dir, Owners
<1>7. CASE migrate_legacy_config
  <2>1. ASSUME NEW f \in File
        PROVE  /\ [f EXCEPT !.node = Torn] \in File
               /\ [f EXCEPT !.owner = "root"] \in File
               /\ [f EXCEPT !.owner = "root", !.world = TRUE] \in File
    BY DEF File, Owners
  <2>2. conf["var"] \in File \union {None} /\ conf["home"] \in File \union {None}
    BY DEF Places
  <2>3. conf' \in [Places -> File \union {None}]
    <3> DEFINE source == IF conf["var"] # None THEN conf["var"] ELSE conf["home"]
    <3>1. CASE UNCHANGED conf
      BY <3>1
    <3>2. CASE source # None /\ \E f \in {[source EXCEPT !.node = Torn], source,
                  [source EXCEPT !.owner = "root"],
                  [source EXCEPT !.owner = "root", !.world = TRUE]} :
                     conf' = [conf EXCEPT !["etc"] = f]
      <4>1. source \in File
        BY <2>2, <3>2
      <4> HIDE DEF source
      <4>2. /\ [source EXCEPT !.node = Torn] \in File
            /\ [source EXCEPT !.owner = "root"] \in File
            /\ [source EXCEPT !.owner = "root", !.world = TRUE] \in File
        BY <2>1, <4>1
      <4>3. PICK f \in File : conf' = [conf EXCEPT !["etc"] = f]
        BY <3>2, <4>1, <4>2
      <4> QED BY <4>3
    <3> QED BY <1>7, <3>1, <3>2 DEF migrate_legacy_config
  <2> QED BY <1>7, <2>3 DEF migrate_legacy_config
<1>8. CASE install_binaries
  BY <1>8 DEF install_binaries, Offers
<1>9. CASE install_systemd_units
  BY <1>9 DEF install_systemd_units
<1>10. CASE enable_services
  <2>1. ASSUME NEW ds PROVE Activated(ds) \in [Daemons -> {"inactive", "starting", "running"}]
    BY DEF Activated
  <2> QED BY <1>10, <2>1 DEF enable_services
<1>11. CASE Report
  BY <1>11 DEF Report, Offers
<1>12. CASE Register
  <2>1. CASE pc = "post"
    BY <1>12, <2>1 DEF Register, Offers
  <2>2. CASE pc = "save"
    <3>1. PICK p \in Places, n \in Nodes \union {Torn} :
              /\ save_to(p, n)
              /\ \/ n \in Nodes /\ pc' = (IF p = "etc" THEN "own" ELSE "registered")
                 \/ pc' = "idle"
      BY <1>12, <2>2, EffectivePlace DEF Register, Places
    <3>2. pc' = "own" => conf'["etc"] # None
      <4>1. CASE p = "etc"
        <5>1. conf' \in [Places -> File \union {None}]
          BY <3>1, SaveType
        <5>2. conf'["etc"] = [node |-> n, world |-> FALSE,
                 owner |-> IF conf["etc"] = None THEN "root" ELSE conf["etc"].owner]
          BY <3>1, <4>1 DEF save_to, Places
        <5>3. (IF conf["etc"] = None THEN "root" ELSE conf["etc"].owner) \in Owners
          BY DEF File, Owners, Places
        <5>4. conf'["etc"] \in File
          BY <5>2, <5>3 DEF File
        <5> QED BY <5>4, ProvisionOK
      <4> QED BY <3>1, <4>1
    <3> QED BY <1>12, <2>2, <3>1, <3>2, SaveType DEF Register, Offers
  <2>3. CASE pc = "own"
    <3>1. conf["etc"] \in File
      BY <2>3 DEF Places
    <3>2. [conf["etc"] EXCEPT !.owner = "service"] \in File
      BY <3>1 DEF File, Owners
    <3>3. conf' \in [Places -> File \union {None}]
      BY <1>12, <2>3, <3>2 DEF Register, Places
    <3> QED BY <1>12, <2>3, <3>3 DEF Register
  <2>4. CASE pc = "registered"
    BY <1>12, <2>4 DEF Register, Offers
  <2> QED BY <1>12, <2>1, <2>2, <2>3, <2>4 DEF Register
<1>13. CASE ConfigSet
  <2>1. PICK p \in Places, n \in Nodes \union {Torn} : save_to(p, n)
    BY <1>13, EffectivePlace DEF ConfigSet, File
  <2> QED BY <1>13, <2>1, SaveType DEF ConfigSet
<1>14. CASE Unregister
  BY <1>14 DEF Unregister, Offers, Places
<1>15. CASE BeginReset
  BY <1>15 DEF BeginReset
<1>16. CASE stop_and_disable_services
  BY <1>16 DEF stop_and_disable_services
<1>17. CASE remove_systemd_units
  BY <1>17 DEF remove_systemd_units
<1>18. CASE remove_home
  BY <1>18 DEF remove_home, Without
<1>19. CASE remove_config_dir
  BY <1>19 DEF remove_config_dir, Without
<1>20. CASE remove_state_dir
  BY <1>20 DEF remove_state_dir, Without
<1>21. CASE remove_installed_binaries
  BY <1>21 DEF remove_installed_binaries
<1>22. CASE remove_system_user
  BY <1>22, ReownType DEF remove_system_user, Owners
<1>23. CASE ResetDone
  BY <1>23 DEF ResetDone, Offers
<1>24. CASE Kill
  BY <1>24 DEF Kill, Offers
<1>25. CASE Systemd
  BY <1>25 DEF Systemd, Start, Stops
<1> QED BY <1>1, <1>2, <1>3, <1>4, <1>5, <1>6, <1>7, <1>8, <1>9, <1>10, <1>11, <1>12,
           <1>13, <1>14, <1>15, <1>16, <1>17, <1>18, <1>19, <1>20, <1>21, <1>22, <1>23,
           <1>24, <1>25 DEF Next, Setup, Reset

LEMMA DataAlways == Spec => [](Flags /\ Data /\ OwnHasConfig)
<1>1. Init => Flags
  BY Zenon DEF Init, Flags
<1>2. Init => Data /\ OwnHasConfig
  <2> SUFFICES ASSUME Init PROVE Data /\ OwnHasConfig
    OBVIOUS
  <2>1. PICK home \in Nodes \union {None}, var \in Nodes \union {None} :
          /\ stateDir = IF var = None THEN None ELSE "service"
          /\ conf = [p \in Places |-> CASE p = "etc" -> None
                                     [] p = "var" -> Legacy(var, "service")
                                     [] p = "home" -> Legacy(home, "root")]
          /\ current = IF var = None THEN home ELSE var
    BY Zenon DEF Init
  <2>2. conf \in [Places -> File \union {None}]
    <3>1. /\ Legacy(var, "service") \in File \union {None}
          /\ Legacy(home, "root") \in File \union {None}
      BY DEF Legacy, File, Owners
    <3> QED BY <2>1, <3>1 DEF Places
  <2> QED BY <2>1, <2>2 DEF Init, Data, OwnHasConfig, Owners
<1>3. Flags /\ [Next]_vars => Flags'
  BY FlagsStep
<1>4. Data /\ OwnHasConfig /\ [Next]_vars => (Data /\ OwnHasConfig)'
  BY DataStep
<1> QED BY <1>1, <1>2, <1>3, <1>4, PTL DEF Spec

(* Every variable keeps its type through every command, failure and kill. *)
THEOREM TypeCorrect == Spec => []TypeOK
<1>1. Spec => [](Flags /\ Data /\ OwnHasConfig)
  BY DataAlways
<1>2. Flags /\ Data => TypeOK
  BY Zenon DEF Flags, Data, TypeOK
<1> QED BY <1>1, <1>2, PTL

-------------------------------------------------------------------------------
(***************************************************************************)
(* What a successful setup means.  As long as no step of the run failed,   *)
(* each of the steps behind it has had its effect, and no later step, nor  *)
(* a daemon, undoes it.                                                    *)
(***************************************************************************)
FromReport == {"report"}
FromEnable == {"enable"} \union FromReport
FromUnits == {"units"} \union FromEnable
FromBins == {"bins"} \union FromUnits
FromConf == {"conf"} \union FromBins
FromState == {"state"} \union FromConf
FromEtc == {"etc"} \union FromState
FromDocker == {"docker"} \union FromEtc

Progress ==
    /\ pc \in FromDocker => user
    /\ pc \in FromEtc => (dockerGroup => docker)
    /\ pc \in FromState => etc # None
    /\ pc \in FromConf => stateDir # None
    /\ pc \in FromUnits => \A b \in offer.has : installed[b] = offer.version
    /\ pc \in FromEnable => units = Daemons
    /\ pc \in FromReport => enabled = Daemons /\ \A d \in Daemons : act[d] # "inactive"

LEMMA ProgressStep ==
    ASSUME ProvisionOK, Data, ~failed => Progress, [Next]_vars
    PROVE  ~failed' => Progress'
<1> SUFFICES ASSUME ~failed' PROVE Progress'
  OBVIOUS
<1> USE DEF Progress, FromReport, FromEnable, FromUnits, FromBins, FromConf, FromState,
            FromEtc, FromDocker, accounts, dirs, software, services, run, history, At,
            Ok, Fails, Idle
<1>1. CASE UNCHANGED vars
  BY <1>1 DEF vars
<1>2. CASE BeginSetup
  BY <1>2 DEF BeginSetup
<1>3. CASE create_system_user
  BY <1>3 DEF create_system_user
<1>4. CASE add_docker_group
  BY <1>4 DEF add_docker_group
<1>5. CASE create_config_dir
  BY <1>5, ProvisionOK DEF create_config_dir
<1>6. CASE create_state_dir
  BY <1>6, ProvisionOK DEF create_state_dir, Owners
<1>7. CASE migrate_legacy_config
  BY <1>7 DEF migrate_legacy_config
<1>8. CASE install_binaries
  <2>1. \A b \in offer'.has : b \in BINARIES
    BY <1>8 DEF install_binaries, Offers
  <2>2. \A b \in offer'.has : installed'[b] = offer'.version
    BY <1>8, <2>1 DEF install_binaries
  <2> QED BY <1>8, <2>2 DEF install_binaries
<1>9. CASE install_systemd_units
  BY <1>9 DEF install_systemd_units
<1>10. CASE enable_services
  BY <1>10 DEF enable_services, Activated, Data
<1>11. CASE Report
  BY <1>11 DEF Report
<1>12. CASE Register
  BY <1>12 DEF Register
<1>13. CASE ConfigSet
  BY <1>13 DEF ConfigSet
<1>14. CASE Unregister
  BY <1>14 DEF Unregister
<1>15. CASE Reset
  BY <1>15 DEF Reset, BeginReset, stop_and_disable_services, remove_systemd_units,
     remove_home, remove_config_dir, remove_state_dir, remove_installed_binaries,
     remove_system_user, ResetDone
<1>16. CASE Kill
  BY <1>16 DEF Kill
<1>17. CASE Systemd
  BY <1>17 DEF Systemd, Start, Stops, Data
<1> QED BY <1>1, <1>2, <1>3, <1>4, <1>5, <1>6, <1>7, <1>8, <1>9, <1>10, <1>11, <1>12,
           <1>13, <1>14, <1>15, <1>16, <1>17 DEF Next, Setup

(* A setup that reports success has installed what it was run for, even if it *)
(* is the repetition of one that failed or was killed.                        *)
THEOREM SuccessInstalls == Spec => []SuccessMeansInstalled
<1>1. Init => (~failed => Progress)
  BY DEF Init, Progress, FromReport, FromEnable, FromUnits, FromBins, FromConf, FromState,
         FromEtc, FromDocker
<1>2. Data /\ (~failed => Progress) /\ [Next]_vars => (~failed => Progress)'
  BY ProgressStep, ProvisionOK
<1>3. (~failed => Progress) => SuccessMeansInstalled
  BY DEF Progress, SuccessMeansInstalled, FromReport, FromEnable, FromUnits, FromBins,
         FromConf, FromState, FromEtc, FromDocker
<1>4. Spec => [](Flags /\ Data /\ OwnHasConfig)
  BY DataAlways
<1> QED BY <1>1, <1>2, <1>3, <1>4, PTL DEF Spec

-------------------------------------------------------------------------------
(***************************************************************************)
(* The configuration a load finds.  A migration copies the file that was   *)
(* found before to the place that is looked at first; a save writes to the *)
(* place that is found.                                                    *)
(***************************************************************************)
KeptInv == /\ NodeKept
           /\ pc \in ResetSteps => current = None

LEMMA SaveKeeps ==
    ASSUME ProvisionOK, Data, NodeKept, NEW p \in Places, NEW n \in Nodes \union {Torn},
           save_to(p, n), p \in {"etc", effective_config_path}
    PROVE  NodeKept'
<1> DEFINE f == [node |-> n, world |-> FALSE,
                 owner |-> IF conf[p] = None THEN "root" ELSE conf[p].owner]
<1>1. f \in File
  BY DEF File, Owners, Data
<1>2. conf' = [conf EXCEPT ![p] = f] /\ f.node = n
  BY DEF save_to
<1> HIDE DEF f
<1>3. f # None
  BY <1>1, ProvisionOK
<1>4. conf'[p] = f /\ \A q \in Places : q # p => conf'[q] = conf[q]
  BY <1>2 DEF Data
<1>5. effective_config_path' = p
  BY <1>3, <1>4 DEF effective_config_path, Places
<1>6. current' = IF n = Torn THEN current ELSE n
  BY DEF save_to
<1>7. conf'[effective_config_path'] = f
  BY <1>4, <1>5
<1> QED BY <1>2, <1>3, <1>6, <1>7 DEF NodeKept

LEMMA ReownKeeps ==
    ASSUME ProvisionOK, Data, NodeKept, NEW from, NEW to \in Owners, Reown(from, to),
           UNCHANGED current
    PROVE  NodeKept'
<1>1. ASSUME NEW p \in Places
      PROVE  /\ conf'[p] = None <=> conf[p] = None
             /\ conf[p] # None => conf'[p].node = conf[p].node
  <2>1. CASE conf[p] # None /\ conf[p].owner = from
    <3>1. conf[p] \in File
      BY <2>1 DEF Data
    <3>2. conf'[p] = [conf[p] EXCEPT !.owner = to]
      BY <2>1 DEF Reown
    <3>3. conf'[p] \in File /\ conf'[p].node = conf[p].node
      BY <3>1, <3>2 DEF File
    <3> QED BY <2>1, <3>3, ProvisionOK
  <2>2. CASE ~(conf[p] # None /\ conf[p].owner = from)
    BY <2>2 DEF Reown
  <2> QED BY <2>1, <2>2
<1>2. effective_config_path' = effective_config_path
  BY <1>1 DEF effective_config_path, Places
<1> QED BY <1>1, <1>2, EffectivePlace DEF NodeKept

LEMMA KeptStep ==
    ASSUME ProvisionOK, Data, OwnHasConfig, KeptInv, [Next]_vars
    PROVE  KeptInv'
<1> USE DEF KeptInv, accounts, dirs, software, services, run, history, At, Idle,
            SetupSteps, ResetSteps
<1>1. CASE UNCHANGED vars
  BY <1>1 DEF vars, NodeKept, effective_config_path
<1>2. CASE BeginSetup \/ add_docker_group \/ create_config_dir \/ create_state_dir
  BY <1>2 DEF BeginSetup, add_docker_group, create_config_dir, create_state_dir,
     NodeKept, effective_config_path
<1>3. CASE create_system_user
  <2>1. CASE UNCHANGED conf
    BY <1>3, <2>1 DEF create_system_user, NodeKept, effective_config_path
  <2>2. CASE \E to \in Owners : Reown("gone", to)
    BY <1>3, <2>2, ReownKeeps DEF create_system_user
  <2> QED BY <1>3, <2>1, <2>2 DEF create_system_user, Owners
<1>4. CASE migrate_legacy_config
  <2>1. CASE UNCHANGED conf
    BY <1>4, <2>1 DEF migrate_legacy_config, NodeKept, effective_config_path
  <2>2. CASE ~UNCHANGED conf
    <3> DEFINE source == IF conf["var"] # None THEN conf["var"] ELSE conf["home"]
    <3>1. /\ source # None /\ conf["etc"] = None /\ source \in File \union {None}
          /\ source = conf[effective_config_path]
      BY <1>4, <2>2 DEF migrate_legacy_config, Data, effective_config_path, Places
    <3>2. \E f \in {[source EXCEPT !.node = Torn], source,
                    [source EXCEPT !.owner = "root"],
                    [source EXCEPT !.owner = "root", !.world = TRUE]} :
              conf' = [conf EXCEPT !["etc"] = f]
      BY <1>4, <2>2 DEF migrate_legacy_config
    <3> HIDE DEF source
    <3>3. ASSUME NEW f \in {[source EXCEPT !.node = Torn], source,
                           [source EXCEPT !.owner = "root"],
                           [source EXCEPT !.owner = "root", !.world = TRUE]}
          PROVE  f \in File /\ f.node \in {source.node, Torn}
      BY <3>1, <3>3 DEF File, Owners
    <3>4. PICK f \in File : f.node \in {source.node, Torn} /\ conf' = [conf EXCEPT !["etc"] = f]
      BY <3>2, <3>3
    <3>5. conf'["etc"] = f /\ f # None
      BY <3>4, ProvisionOK DEF Data, Places
    <3>6. effective_config_path' = "etc" /\ current' = current
      BY <1>4, <3>5 DEF effective_config_path, migrate_legacy_config
    <3> QED BY <1>4, <3>1, <3>4, <3>5, <3>6 DEF NodeKept, migrate_legacy_config
  <2> QED BY <2>1, <2>2
<1>5. CASE install_binaries \/ install_systemd_units \/ enable_services \/ Report
  BY <1>5 DEF install_binaries, install_systemd_units, enable_services, Report,
     NodeKept, effective_config_path
<1>6. CASE Register
  <2>1. CASE pc = "save"
    <3>1. PICK p \in {"etc", effective_config_path}, n \in Nodes \union {Torn} : save_to(p, n)
      BY <1>6, <2>1 DEF Register
    <3> QED BY <1>6, <2>1, <3>1, SaveKeeps, EffectivePlace DEF Register, Places
  <2>2. CASE pc = "own"
    <3>1. conf["etc"] \in File
      BY <2>2 DEF OwnHasConfig, Data, Places
    <3>2. /\ [conf["etc"] EXCEPT !.owner = "service"] \in File
          /\ [conf["etc"] EXCEPT !.owner = "service"].node = conf["etc"].node
      BY <3>1 DEF File, Owners
    <3>3. conf'["etc"] # None /\ conf'["etc"].node = conf["etc"].node
      BY <1>6, <2>2, <3>1, <3>2, ProvisionOK DEF Register, Data, Places
    <3>4. effective_config_path = "etc" /\ effective_config_path' = "etc"
      BY <3>1, <3>3, ProvisionOK DEF effective_config_path
    <3> QED BY <1>6, <2>2, <3>3, <3>4 DEF Register, NodeKept
  <2>3. CASE pc \notin {"save", "own"}
    BY <1>6, <2>3 DEF Register, NodeKept, effective_config_path
  <2> QED BY <2>1, <2>2, <2>3
<1>7. CASE ConfigSet
  <2>1. \E n \in Nodes \union {Torn} : save_to(effective_config_path, n)
    BY <1>7, EffectivePlace DEF ConfigSet, Data, File
  <2> QED BY <1>7, <2>1, SaveKeeps, EffectivePlace DEF ConfigSet
<1>8. CASE Unregister
  BY <1>8 DEF Unregister, NodeKept, effective_config_path
<1>9. CASE Reset
  BY <1>9 DEF Reset, BeginReset, stop_and_disable_services, remove_systemd_units,
     remove_home, remove_config_dir, remove_state_dir, remove_installed_binaries,
     remove_system_user, ResetDone, NodeKept
<1>10. CASE Kill \/ Systemd
  BY <1>10 DEF Kill, Systemd, NodeKept, effective_config_path
<1> QED BY <1>1, <1>2, <1>3, <1>4, <1>5, <1>6, <1>7, <1>8, <1>9, <1>10 DEF Next, Setup

LEMMA LegacyFile ==
    ASSUME ProvisionOK, NEW n \in Nodes \union {None}, NEW o \in {"service", "root"}
    PROVE  /\ n = None => Legacy(n, o) = None
           /\ n # None => Legacy(n, o) # None /\ Legacy(n, o).node = n
<1>1. CASE n = None
  BY <1>1 DEF Legacy
<1>2. CASE n # None
  <2> DEFINE f == [node |-> n, owner |-> o, world |-> FALSE]
  <2>1. f \in File /\ f.node = n
    BY <1>2 DEF File, Owners
  <2>2. Legacy(n, o) = f
    BY <1>2 DEF Legacy
  <2> HIDE DEF f
  <2> QED BY <1>2, <2>1, <2>2, ProvisionOK
<1> QED BY <1>1, <1>2

(* No setup, whatever failed or was killed before, brings back a configuration *)
(* that is older than the last one saved.                                      *)
THEOREM LastNodeKept == Spec => []NodeKept
<1>1. Init => KeptInv
  <2> SUFFICES ASSUME Init PROVE KeptInv
    OBVIOUS
  <2>1. PICK home \in Nodes \union {None}, var \in Nodes \union {None} :
          /\ conf["etc"] = None
          /\ conf["var"] = Legacy(var, "service")
          /\ conf["home"] = Legacy(home, "root")
          /\ current = IF var = None THEN home ELSE var
    BY DEF Init, Places
  <2>2. ASSUME NEW n \in Nodes \union {None}, NEW o \in {"service", "root"}
        PROVE  /\ n = None => Legacy(n, o) = None
               /\ n # None => Legacy(n, o) # None /\ Legacy(n, o).node = n
    BY LegacyFile, ProvisionOK
  <2> QED BY <2>1, <2>2, ProvisionOK
          DEF Init, KeptInv, NodeKept, effective_config_path, ResetSteps
<1>2. Data /\ OwnHasConfig /\ KeptInv /\ [Next]_vars => KeptInv'
  BY KeptStep, ProvisionOK
<1>3. KeptInv => NodeKept
  BY DEF KeptInv
<1>4. Spec => [](Flags /\ Data /\ OwnHasConfig)
  BY DataAlways
<1> QED BY <1>1, <1>2, <1>3, <1>4, PTL DEF Spec

-------------------------------------------------------------------------------
(***************************************************************************)
(* Reset.  As long as nothing failed, each removal behind the run holds;   *)
(* that no unit is left enabled rests on the enabled units having a file,  *)
(* which is so as long as no earlier run failed.                           *)
(***************************************************************************)
QuietSteps == {"idle", "post", "save", "own", "registered", "forget"}
AtEnd == {"reset_end"}
NoBinaries == {"rm_user"} \union AtEnd
NoState == {"rm_bins"} \union NoBinaries
NoEtc == {"rm_state"} \union NoState
NoHome == {"rm_etc"} \union NoEtc
NoUnits == {"rm_home"} \union NoHome
Stopped == {"rm_units"} \union NoUnits

Quiet == pc \in QuietSteps => ~failed

Undone ==
    /\ pc \in Stopped => \A d \in Daemons \ userUnits : act[d] = "inactive"
    /\ pc \in Stopped /\ ~interrupted => enabled \subseteq userUnits
    /\ ~interrupted => enabled \subseteq units \union userUnits
    /\ pc \in NoUnits => units = {}
    /\ pc \in NoHome => conf["home"] = None
    /\ pc \in NoEtc => conf["etc"] = None /\ etc = None
    /\ pc \in NoState => conf["var"] = None /\ stateDir = None
    /\ pc \in NoBinaries => \A b \in BINARIES : installed[b] = None
    /\ pc \in AtEnd => ~user

LEMMA QuietStep == ASSUME Quiet, [Next]_vars PROVE Quiet'
<1> USE DEF Quiet, QuietSteps, accounts, history, At, Ok, Fails, Idle
<1>1. CASE UNCHANGED vars
  BY <1>1 DEF vars
<1>2. CASE Setup
  BY <1>2 DEF Setup, BeginSetup, create_system_user, add_docker_group, create_config_dir,
     create_state_dir, migrate_legacy_config, install_binaries, install_systemd_units,
     enable_services, Report
<1>3. CASE Register \/ ConfigSet \/ Unregister \/ Kill \/ Systemd
  BY <1>3 DEF Register, ConfigSet, Unregister, Kill, Systemd
<1>4. CASE Reset
  BY <1>4 DEF Reset, BeginReset, stop_and_disable_services, remove_systemd_units,
     remove_home, remove_config_dir, remove_state_dir, remove_installed_binaries,
     remove_system_user, ResetDone
<1> QED BY <1>1, <1>2, <1>3, <1>4 DEF Next

LEMMA UndoneStep ==
    ASSUME ProvisionOK, Data, Quiet, ~failed => Undone, [Next]_vars
    PROVE  ~failed' => Undone'
<1> SUFFICES ASSUME ~failed' PROVE Undone'
  OBVIOUS
<1>u. userUnits' = userUnits
  BY DEF Next, vars
<1> USE <1>u
<1> USE DEF Undone, AtEnd, NoBinaries, NoState, NoEtc, NoHome, NoUnits, Stopped,
            Quiet, QuietSteps,
            accounts, dirs, software, services, run, history, At, Ok, Fails, Idle
<1>1. CASE UNCHANGED vars
  BY <1>1 DEF vars
<1>2. CASE BeginSetup
  BY <1>2 DEF BeginSetup
<1>3. CASE create_system_user \/ add_docker_group \/ create_config_dir \/ create_state_dir
  BY <1>3 DEF create_system_user, add_docker_group, create_config_dir, create_state_dir
<1>4. CASE migrate_legacy_config \/ install_binaries
  BY <1>4 DEF migrate_legacy_config, install_binaries
<1>5. CASE install_systemd_units
  BY <1>5 DEF install_systemd_units, Data
<1>6. CASE enable_services
  BY <1>6 DEF enable_services
<1>7. CASE Report
  BY <1>7 DEF Report
<1>8. CASE Register
  BY <1>8 DEF Register
<1>9. CASE ConfigSet
  BY <1>9 DEF ConfigSet
<1>10. CASE Unregister
  BY <1>10 DEF Unregister
<1>11. CASE BeginReset
  BY <1>11 DEF BeginReset
<1>12. CASE stop_and_disable_services
  BY <1>12 DEF stop_and_disable_services
<1>13. CASE remove_systemd_units
  BY <1>13 DEF remove_systemd_units
<1>14. CASE remove_home
  BY <1>14 DEF remove_home, Without, Data, Places
<1>15. CASE remove_config_dir
  BY <1>15 DEF remove_config_dir, Without, Data, Places
<1>16. CASE remove_state_dir
  BY <1>16 DEF remove_state_dir, Without, Data, Places
<1>17. CASE remove_installed_binaries
  BY <1>17 DEF remove_installed_binaries
<1>18. CASE remove_system_user
  BY <1>18, ProvisionOK DEF remove_system_user, Reown, Places, Owners
<1>19. CASE ResetDone
  BY <1>19 DEF ResetDone, Clean
<1>20. CASE Kill
  BY <1>20 DEF Kill
<1>21. CASE Systemd
  BY <1>21 DEF Systemd, Start, Stops, Data
<1> QED BY <1>1, <1>2, <1>3, <1>4, <1>5, <1>6, <1>7, <1>8, <1>9, <1>10, <1>11, <1>12,
           <1>13, <1>14, <1>15, <1>16, <1>17, <1>18, <1>19, <1>20, <1>21
        DEF Next, Setup, Reset

LEMMA UndoneAlways == Spec => [](Data /\ Quiet /\ (~failed => Undone))
<1>1. Init => Quiet /\ (~failed => Undone)
  BY DEF Init, Quiet, Undone, AtEnd, NoBinaries, NoState, NoEtc, NoHome, NoUnits, Stopped
<1>2. Quiet /\ [Next]_vars => Quiet'
  BY QuietStep
<1>3. Data /\ Quiet /\ (~failed => Undone) /\ [Next]_vars => (~failed => Undone)'
  BY UndoneStep, ProvisionOK
<1>4. Spec => [](Flags /\ Data /\ OwnHasConfig)
  BY DataAlways
<1> QED BY <1>1, <1>2, <1>3, <1>4, PTL DEF Spec

(* A reset whose commands all succeed leaves nothing behind, whatever the     *)
(* runs before it left, but what systemd does with a daemon of which there is *)
(* a user's unit as well (reset.rs 114-125).                                  *)
THEOREM ResetCleans == Spec => []CleanAfterReset
<1>1. Data /\ (~failed => Undone) => CleanAfterReset
  BY DEF Undone, CleanAfterReset, Removed, Data, Places, AtEnd, NoBinaries, NoState, NoEtc,
         NoHome, NoUnits, Stopped
<1> QED BY <1>1, UndoneAlways, PTL

-------------------------------------------------------------------------------
(***************************************************************************)
(* The first setup.  Without a failed run in the past, what there is of    *)
(* directories and files was made by a step that was completed, or by the  *)
(* CLI, which says so in saved.                                            *)
(***************************************************************************)
Migrated == {"bins", "units", "enable", "report"}

Sound ==
    /\ stateDir \in {None, "service"}
    /\ \A p \in Places : conf[p] # None => conf[p].node # Torn
    /\ conf["etc"] # None => etc # None
    /\ ~saved => etc # "closed"
    /\ ~saved /\ conf["etc"] # None => conf["etc"].world
    /\ pc \in Migrated => conf["etc"] # None \/ (conf["var"] = None /\ conf["home"] = None)

LEMMA SoundFiles ==
    ASSUME ProvisionOK, Data, Sound, UNCHANGED <<etc, saved>>, pc' \notin Migrated,
           stateDir' \in {None, "service"},
           \A p \in Places : \/ conf'[p] = None
                             \/ /\ conf[p] # None
                                /\ conf'[p].node = conf[p].node
                                /\ conf'[p].world = conf[p].world
    PROVE  Sound'
BY DEF Sound, Places

LEMMA SoundStep ==
    ASSUME ProvisionOK, Data, Quiet, OwnHasConfig, ~failed => Undone,
           ~failed /\ ~interrupted => Sound, [Next]_vars
    PROVE  ~failed' /\ ~interrupted' => Sound'
<1> SUFFICES ASSUME ~failed', ~interrupted' PROVE Sound'
  OBVIOUS
<1> USE DEF Migrated, Quiet, QuietSteps, accounts, dirs, software, services, run,
            history, At, Ok, Fails, Idle
<1>1. CASE UNCHANGED vars
  BY <1>1 DEF vars, Sound
<1>2. CASE BeginSetup \/ add_docker_group
  BY <1>2 DEF BeginSetup, add_docker_group, Sound
<1>3. CASE create_system_user
  <2>1. Sound
    BY <1>3 DEF create_system_user
  <2>2. stateDir' = stateDir
    BY <1>3, <2>1, ProvisionOK DEF create_system_user, Reown, Sound, Owners
  <2>3. ASSUME NEW p \in Places, conf'[p] # None
        PROVE  /\ conf[p] # None
               /\ conf'[p].node = conf[p].node
               /\ conf'[p].world = conf[p].world
    <3>1. \/ conf'[p] = conf[p]
          \/ conf[p] # None /\ \E o \in Owners : conf'[p] = [conf[p] EXCEPT !.owner = o]
      BY <1>3 DEF create_system_user, Reown, Owners
    <3>2. conf[p] # None => conf[p] \in File
      BY DEF Data
    <3> QED BY <2>3, <3>1, <3>2 DEF File
  <2> QED BY <1>3, <2>1, <2>2, <2>3, SoundFiles, Zenon DEF create_system_user, Sound
<1>4. CASE create_config_dir
  BY <1>4, ProvisionOK DEF create_config_dir, Sound
<1>5. CASE create_state_dir
  BY <1>5, ProvisionOK DEF create_state_dir, Sound
<1>6. CASE migrate_legacy_config
  <2> DEFINE source == IF conf["var"] # None THEN conf["var"] ELSE conf["home"]
  <2>1. Sound
    BY <1>6 DEF migrate_legacy_config
  <2>2. CASE (conf["etc"] # None \/ source = None) /\ UNCHANGED conf
    BY <1>6, <2>1, <2>2 DEF migrate_legacy_config, Sound
  <2>3. CASE /\ conf["etc"] = None /\ source # None /\ etc # None
             /\ conf' = [conf EXCEPT !["etc"] =
                           [source EXCEPT !.owner = "root", !.world = TRUE]]
    <3>1. source \in File /\ source.node # Torn
      BY <2>1, <2>3 DEF Data, Sound, Places
    <3> HIDE DEF source
    <3> DEFINE f == [source EXCEPT !.owner = "root", !.world = TRUE]
    <3>2. f \in File /\ f.world /\ f.node # Torn /\ conf' = [conf EXCEPT !["etc"] = f]
      <4>1. f \in File
        BY <3>1 DEF File, Owners
      <4>2. f.world /\ f.node = source.node
        BY <3>1 DEF File
      <4> QED BY <2>3, <3>1, <4>1, <4>2
    <3> HIDE DEF f
    <3>3. conf'["etc"] = f /\ f # None /\ \A p \in Places : p # "etc" => conf'[p] = conf[p]
      BY <3>2, ProvisionOK DEF Data, Places
    <3> QED BY <1>6, <2>1, <2>3, <3>2, <3>3 DEF migrate_legacy_config, Sound
  <2> QED BY <1>6, <2>2, <2>3 DEF migrate_legacy_config
<1>7. CASE install_binaries \/ install_systemd_units \/ enable_services
  BY <1>7 DEF install_binaries, install_systemd_units, enable_services, Sound
<1>8. CASE Report
  BY <1>8 DEF Report, Sound
<1>9. ASSUME NEW p \in Places, NEW n \in Nodes, save_to(p, n), Sound, p = "etc" => etc # None,
             UNCHANGED stateDir, pc' \notin Migrated, p \in {"etc", effective_config_path}
      PROVE  Sound'
  <2> DEFINE f == [node |-> n, world |-> FALSE,
                   owner |-> IF conf[p] = None THEN "root" ELSE conf[p].owner]
  <2>1. f.node # Torn /\ f.node = n
    BY ProvisionOK
  <2>2. conf'[p] = f /\ \A q \in Places : q # p => conf'[q] = conf[q]
    BY <1>9 DEF save_to, Data
  <2>3. saved' = (saved \/ p = "etc") /\ etc' = IF p = "etc" THEN "closed" ELSE etc
    BY <1>9 DEF save_to
  <2> HIDE DEF f
  <2>4. CASE p = "etc"
    BY <1>9, <2>1, <2>2, <2>3, <2>4, ProvisionOK DEF Sound
  <2>5. CASE p # "etc"
    BY <1>9, <2>1, <2>2, <2>3, <2>5, Zenon DEF Sound, Places
  <2> QED BY <2>4, <2>5
<1>10. CASE Register
  <2>1. CASE pc = "save"
    <3>1. Sound
      BY <1>10, <2>1 DEF Register
    <3>2. PICK p \in {"etc", effective_config_path}, n \in Nodes : save_to(p, n) /\ (p = "etc" => etc # None)
      BY <1>10, <2>1, <3>1 DEF Register, Sound, effective_config_path
    <3> QED BY <1>9, <1>10, <2>1, <3>1, <3>2, EffectivePlace DEF Register, Places
  <2>2. CASE pc = "own"
    <3>1. Sound /\ conf["etc"] \in File
      BY <1>10, <2>2 DEF Register, Data, OwnHasConfig, Places
    <3>2. /\ [conf["etc"] EXCEPT !.owner = "service"].node = conf["etc"].node
          /\ [conf["etc"] EXCEPT !.owner = "service"].world = conf["etc"].world
      BY <3>1 DEF File
    <3>3. \A p \in Places : \/ conf'[p] = None
                             \/ /\ conf[p] # None
                                /\ conf'[p].node = conf[p].node
                                /\ conf'[p].world = conf[p].world
      BY <1>10, <2>2, <3>1, <3>2, ProvisionOK DEF Register, Data, Places
    <3> QED BY <1>10, <2>2, <3>1, <3>3, SoundFiles DEF Register, Sound
  <2>3. CASE pc \notin {"save", "own"}
    BY <1>10, <2>3 DEF Register, Sound
  <2> QED BY <2>1, <2>2, <2>3
<1>11. CASE ConfigSet
  <2>1. Sound /\ conf[effective_config_path] \in File /\ conf[effective_config_path].node # Torn
    BY <1>11, EffectivePlace DEF ConfigSet, Data
  <2>2. save_to(effective_config_path, conf[effective_config_path].node)
    BY <1>11 DEF ConfigSet
  <2>3. conf[effective_config_path].node \in Nodes
    BY <2>1 DEF File
  <2>4. effective_config_path = "etc" => etc # None
    BY <2>1, ProvisionOK DEF Sound, File, effective_config_path
  <2> QED BY <1>9, <1>11, <2>1, <2>2, <2>3, <2>4, EffectivePlace DEF ConfigSet
<1>12. CASE Unregister
  BY <1>12 DEF Unregister, Sound, Data, Places
<1>13. CASE BeginReset \/ stop_and_disable_services \/ remove_systemd_units
  BY <1>13 DEF BeginReset, stop_and_disable_services, remove_systemd_units, Sound
<1>14. CASE remove_home
  BY <1>14 DEF remove_home, Without, Sound, Data, Places
<1>15. CASE remove_config_dir
  BY <1>15, ProvisionOK DEF remove_config_dir, Without, Sound, Data, Places
<1>16. CASE remove_state_dir
  BY <1>16 DEF remove_state_dir, Without, Sound, Data, Places
<1>17. CASE remove_installed_binaries
  BY <1>17 DEF remove_installed_binaries, Sound
<1>18. CASE remove_system_user
  <2>1. Sound /\ stateDir = None /\ \A p \in Places : conf[p] = None
    BY <1>18 DEF remove_system_user, Undone, AtEnd, NoBinaries, NoState, NoEtc, NoHome, Places
  <2>2. stateDir' = None /\ \A p \in Places : conf'[p] = None
    BY <1>18, <2>1, ProvisionOK DEF remove_system_user, Reown, Owners
  <2> QED BY <1>18, <2>1, <2>2, SoundFiles DEF remove_system_user
<1>19. CASE ResetDone
  <2>1. CASE Clean
    BY <1>19, <2>1, ProvisionOK DEF ResetDone, Clean, Removed, Sound, Places
  <2>2. CASE ~Clean
    BY <1>19, <2>2 DEF ResetDone, Sound
  <2> QED BY <2>1, <2>2
<1>20. CASE Kill
  BY <1>20 DEF Kill
<1>21. CASE Systemd
  BY <1>21 DEF Systemd, Sound
<1> QED BY <1>1, <1>2, <1>3, <1>4, <1>5, <1>6, <1>7, <1>8, <1>10, <1>11, <1>12, <1>13,
           <1>14, <1>15, <1>16, <1>17, <1>18, <1>19, <1>20, <1>21
        DEF Next, Setup, Reset

(* A setup that succeeds on a host where no run failed has given the state    *)
(* directory to the service user, and made every configuration that an older *)
(* version left one that the service can read.                               *)
THEOREM FirstSetupReady == Spec => []FirstSuccessMeansReady
<1>1. Init => (~failed /\ ~interrupted => Sound)
  <2> SUFFICES ASSUME Init PROVE Sound
    OBVIOUS
  <2>1. PICK home \in Nodes \union {None}, var \in Nodes \union {None} :
          /\ stateDir = IF var = None THEN None ELSE "service"
          /\ conf["etc"] = None
          /\ conf["var"] = Legacy(var, "service")
          /\ conf["home"] = Legacy(home, "root")
    BY DEF Init, Places
  <2>2. \A p \in Places : conf[p] # None => conf[p].node # Torn
    BY <2>1, LegacyFile, ProvisionOK DEF Places
  <2> QED BY <2>1, <2>2, ProvisionOK DEF Init, Sound, Migrated
<1>2. /\ Data /\ Quiet /\ OwnHasConfig /\ (~failed => Undone)
      /\ (~failed /\ ~interrupted => Sound) /\ [Next]_vars
      => (~failed /\ ~interrupted => Sound)'
  BY SoundStep, ProvisionOK
<1>3. Init => (~failed => Progress)
  BY DEF Init, Progress, FromReport, FromEnable, FromUnits, FromBins, FromConf, FromState,
         FromEtc, FromDocker
<1>4. Data /\ (~failed => Progress) /\ [Next]_vars => (~failed => Progress)'
  BY ProgressStep, ProvisionOK
<1>5. Data /\ (~failed => Progress) /\ (~failed /\ ~interrupted => Sound)
      => FirstSuccessMeansReady
  <2> SUFFICES ASSUME Data, Progress, Sound, pc = "report" PROVE
        /\ stateDir = "service"
        /\ conf[effective_config_path] # None =>
              conf["etc"] # None /\ (~saved => ServiceReads)
    BY DEF FirstSuccessMeansReady
  <2>1. user /\ stateDir = "service"
    BY DEF Progress, Sound, FromDocker, FromEtc, FromState, FromConf, FromBins, FromUnits,
           FromEnable, FromReport
  <2>2. conf[effective_config_path] # None => conf["etc"] # None
    BY DEF Sound, Migrated, effective_config_path
  <2>3. conf["etc"] # None /\ ~saved => ServiceReads
    BY <2>1 DEF Sound, ServiceReads, Data, Places
  <2> QED BY <2>1, <2>2, <2>3
<1> QED BY <1>1, <1>2, <1>3, <1>4, <1>5, DataAlways, UndoneAlways, PTL DEF Spec
-------------------------------------------------------------------------------
(* However the host was set up, no registration leaves a configuration that  *)
(* the service user can read: it is saved into a directory that save_to has  *)
(* just closed (core/config.rs 291-310), or outside /etc.                    *)
THEOREM RegisteredNeverReadable ==
    Spec => [](pc = "registered" => ~ServiceReads)
<1> DEFINE Closed == pc \in {"own", "registered"} => etc # "open"
<1>1. Init => Closed
  BY DEF Init
<1>2. Closed /\ [Next]_vars => Closed'
  <2> SUFFICES ASSUME Closed, [Next]_vars PROVE Closed'
    OBVIOUS
  <2> USE DEF At, Idle
  <2>1. CASE UNCHANGED vars
    BY <2>1 DEF vars, dirs
  <2>2. CASE Setup \/ ConfigSet \/ Unregister \/ Reset \/ Kill
    <3>1. pc' \notin {"own", "registered"} \/ (ConfigSet /\ pc' = "idle")
      BY <2>2 DEF Setup, BeginSetup, create_system_user, add_docker_group,
         create_config_dir, create_state_dir, migrate_legacy_config,
         install_binaries, install_systemd_units, enable_services, Report,
         ConfigSet, Unregister, Reset, BeginReset, stop_and_disable_services,
         remove_systemd_units, remove_home, remove_config_dir,
         remove_state_dir, remove_installed_binaries, remove_system_user,
         ResetDone, Kill
    <3> QED BY <3>1
  <2>3. CASE Register
    <3>1. CASE pc = "save"
      BY <2>3, <3>1, ProvisionOK DEF Register, ProvisionOK, save_to
    <3>2. CASE pc # "save"
      BY <2>3, <3>2 DEF Register, dirs
    <3> QED BY <3>1, <3>2
  <2>4. CASE Systemd
    BY <2>4 DEF Systemd, dirs
  <2> QED BY <2>1, <2>2, <2>3, <2>4 DEF Next
<1>3. Closed => (pc = "registered" => ~ServiceReads)
  BY DEF ServiceReads
<1> QED BY <1>1, <1>2, <1>3, PTL DEF Spec
=============================================================================
