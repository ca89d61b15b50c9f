---------------------------- MODULE Daemons_proofs ----------------------------
(* Proofs about Daemons and Upgrade, for any number of versions and of faults,
   in either mode or both. *)
EXTENDS Daemons, TLAPS

(* The steps that leave the binaries and the run of upgrade alone: all but its
   own, and those that end it. *)
BinariesStay == UNCHANGED <<dest, backup, upgrade, cutShort, forced>>

(* What a step can do to them. *)
UpgradeAct ==
    \/ U!Begin /\ UNCHANGED faults
    \/ U!UpToDate /\ UNCHANGED faults
    \/ U!Download /\ UNCHANGED faults
    \/ U!DropBackup /\ UNCHANGED faults
    \/ U!SetAside /\ UNCHANGED faults
    \/ U!SetAsideFails /\ Fault
    \/ U!CopyOpens /\ UNCHANGED faults
    \/ U!CopyWrites /\ UNCHANGED faults
    \/ U!CleanUp /\ UNCHANGED faults
    \/ ~U!At("idle") /\ U!Ends /\ Fault
    \/ BinariesStay /\ (report' = report \/ report' = "none")
                    /\ (UNCHANGED faults \/ Fault)

LEMMA BeginStays ==
    ASSUME NEW op, NEW m, NEW calls, Begin(op, m, calls)
    PROVE  BinariesStay /\ report' = "none" /\ UNCHANGED faults
BY DEF Begin, BinariesStay

(* A start begins its calls, or ends before it has made one. *)
StartBegins == \E m \in Modes :
    \/ unit[m][Agent] # "none" /\ Begin("start", m, Starting)
    \/ unit[m][Agent] = "none" /\ Begin("start", m, Both("write") \o Starting)

AtOnce == \E op \in {"start", "restart"}, m \in Modes, error \in {"config", "binary"} :
    EndsAtOnce(op, m, error)

LEMMA StartIs == start \/ LoadFails => StartBegins \/ AtOnce
<1>1. start => StartBegins \/ AtOnce
  BY Zenon DEF start, StartBegins, AtOnce
<1>2. LoadFails => AtOnce
  BY Zenon DEF LoadFails, AtOnce
<1> QED BY <1>1, <1>2

LEMMA AtOnceIs ==
    AtOnce => /\ BinariesStay /\ report' = "none"
              /\ UNCHANGED <<unitVars, agent, kept, faults>>
              /\ agent.op = "none" /\ upgrade.step = "idle"
              /\ ended'.op \in {"start", "restart"} /\ ended'.mode \in Modes
              /\ ended'.error \in {"config", "binary"}
              /\ ended' \in [op : {"start", "restart"}, mode : Modes,
                              error : {"config", "binary"}, clean : BOOLEAN]
BY DEF AtOnce, EndsAtOnce, BinariesStay, Idle, U!At

LEMMA UpgradeActs == [Next]_vars => UpgradeAct
<1> SUFFICES ASSUME [Next]_vars PROVE UpgradeAct
  OBVIOUS
<1> USE DEF UpgradeAct, BinariesStay, binVars
<1>1. CASE StartBegins \/ AtOnce
  BY <1>1, BeginStays, AtOnceIs, Zenon DEF StartBegins
<1>2. CASE restart
  BY <1>2, BeginStays, Zenon DEF restart
<1>3. CASE stop
  BY <1>3, BeginStays, Zenon DEF stop
<1>4. CASE Write \/ WriteFails \/ Enable \/ StartUnit \/ RestartUnit \/ StopUnit
  BY <1>4, Zenon DEF Write, WriteFails, Enable, StartUnit, RestartUnit, StopUnit
<1>5. CASE SystemctlRefuses \/ SystemctlFails \/ Fallback \/ Pkill \/ Done
  BY <1>5, Zenon DEF SystemctlRefuses, SystemctlFails, Fallback, Pkill, Done
<1>6. CASE BeginUpgrade \/ UpgradeStep \/ SetAsideFails
  BY <1>6, Zenon DEF BeginUpgrade, UpgradeStep, SetAsideFails, U!Install
<1>7. CASE Killed
  BY <1>7, Zenon DEF Killed, U!EndsEarly
<1>8. CASE Reboot
  BY <1>8, Zenon DEF Reboot
<1>9. CASE Dies \/ Logout \/ Login \/ \E u \in Units : Spawn(u)
  BY <1>9, Zenon DEF Dies, Logout, Login, Spawn
<1>10. CASE UNCHANGED vars
  BY <1>10, Zenon DEF vars
<1> QED BY <1>1, <1>2, <1>3, <1>4, <1>5, <1>6, <1>7, <1>8, <1>9, <1>10, StartIs, Zenon
        DEF Next, AgentStep

-------------------------------------------------------------------------------
BinTypeOK == U!UpgradeTypeOK /\ faults \in 0 .. MaxFaults

LEMMA NoRunTyped == ASSUME NEW v \in U!Versions PROVE U!NoRun(v) \in U!Run
BY DEF U!NoRun, U!Run, U!Steps, U!CLI, U!BINARIES

LEMMA BinTypeInit == Init => BinTypeOK
<1> SUFFICES ASSUME Init PROVE BinTypeOK
  OBVIOUS
<1>1. 1 \in U!Versions /\ U!Versions \subseteq U!Contents /\ None \in U!Contents
  BY DaemonsOK DEF DaemonsOK, U!Versions, U!Contents
<1>2. upgrade \in U!Run
  BY <1>1, NoRunTyped DEF Init, U!UpgradeInit
<1>3. faults \in 0 .. MaxFaults
  BY DaemonsOK DEF DaemonsOK, Init
<1>4. dest \in [U!BINARIES -> U!Contents] /\ backup \in [U!BINARIES -> U!Contents]
  BY <1>1 DEF Init, U!UpgradeInit
<1> QED BY <1>2, <1>3, <1>4 DEF Init, U!UpgradeInit, BinTypeOK, U!UpgradeTypeOK

LEMMA BinTypeStep == BinTypeOK /\ [Next]_vars => BinTypeOK'
<1> SUFFICES ASSUME BinTypeOK, [Next]_vars PROVE BinTypeOK'
  OBVIOUS
<1> USE DaemonsOK, NoRunTyped DEF DaemonsOK, BinTypeOK, U!UpgradeTypeOK, U!fileVars,
        U!historyVars
<1>0. UpgradeAct /\ 1 \in U!Versions
  BY UpgradeActs DEF U!Versions
<1>1. CASE U!Begin /\ UNCHANGED faults
  BY <1>1 DEF U!Begin, U!Whole, U!Run, U!Steps, U!CLI, U!BINARIES
<1>2. CASE U!UpToDate /\ UNCHANGED faults
  BY <1>2 DEF U!UpToDate
<1>3. CASE U!Download /\ UNCHANGED faults
  BY <1>3 DEF U!Download, U!Run, U!Steps
<1>4. CASE (U!SetAside \/ U!DropBackup) /\ UNCHANGED faults
  BY <1>4 DEF U!SetAside, U!DropBackup, U!GoTo, U!Run, U!Steps, U!Contents
<1>5. CASE U!SetAsideFails /\ Fault
  BY <1>5 DEF U!SetAsideFails, U!GoTo, U!Run, U!Steps, U!Contents, Fault
<1>6. CASE U!CopyOpens /\ UNCHANGED faults
  BY <1>6 DEF U!CopyOpens, U!GoTo, U!Run, U!Steps, U!Contents
<1>7. CASE U!CopyWrites /\ UNCHANGED faults
  BY <1>7 DEF U!CopyWrites, U!GoTo, U!Run, U!Steps, U!Contents
<1>8. CASE U!CleanUp /\ UNCHANGED faults
  <2>1. upgrade.latest \in U!Versions
    BY DEF U!Run
  <2> QED BY <1>8, <2>1 DEF U!CleanUp, U!Run, U!Steps, U!Contents
<1>9. CASE ~U!At("idle") /\ U!Ends /\ Fault
  BY <1>0, <1>9 DEF U!Ends, Fault
<1>10. CASE BinariesStay /\ (report' = report \/ report' = "none")
                         /\ (UNCHANGED faults \/ Fault)
  BY <1>10 DEF BinariesStay, Fault
<1> QED BY <1>0, <1>1, <1>2, <1>3, <1>4, <1>5, <1>6, <1>7, <1>8, <1>9, <1>10, Zenon
        DEF UpgradeAct

-------------------------------------------------------------------------------
(* While at most one fault was met: what is not being replaced is whole under one
   name or the other, and without a fault so is what is. *)
Replacing == upgrade.step \in {"rename", "open", "write"}

RecoverInv == faults <= 1 =>
    /\ \A b \in U!BINARIES : ~(Replacing /\ b = upgrade.at) =>
           U!Whole(dest[b]) \/ U!Whole(backup[b])
    /\ upgrade.step = "clean" => U!Whole(dest[upgrade.at])
    /\ faults = 0 =>
           /\ \A b \in U!BINARIES : ~(Replacing /\ b = upgrade.at) => U!Whole(dest[b])
           /\ upgrade.step = "rename" => U!Whole(dest[upgrade.at])
           /\ upgrade.step \in {"open", "write"} => U!Whole(backup[upgrade.at])

LEMMA RecoverStep == BinTypeOK /\ RecoverInv /\ [Next]_vars => RecoverInv'
<1> SUFFICES ASSUME BinTypeOK, RecoverInv, [Next]_vars PROVE RecoverInv'
  OBVIOUS
<1> USE DaemonsOK DEF DaemonsOK, BinTypeOK, U!UpgradeTypeOK, U!fileVars, U!historyVars,
        Replacing, U!At, U!Whole, U!NoRun
<1>0. UpgradeAct
  BY UpgradeActs
<1>1. CASE U!Begin /\ UNCHANGED faults
  BY <1>1 DEF U!Begin, RecoverInv
<1>2. CASE U!UpToDate /\ UNCHANGED faults
  BY <1>2 DEF U!UpToDate, RecoverInv
<1>3. CASE U!Download /\ UNCHANGED faults
  BY <1>3 DEF U!Download, RecoverInv, U!Run
<1>a. CASE U!DropBackup /\ UNCHANGED faults
  <2>1. /\ upgrade.step = "backup" /\ upgrade'.step \in {"rename", "open"}
        /\ upgrade'.step = "open" => dest[upgrade.at] = None
        /\ upgrade'.at = upgrade.at /\ upgrade.at \in U!BINARIES
        /\ UNCHANGED <<dest, faults>>
    BY <1>a DEF U!DropBackup, U!GoTo, U!Run
  <2>2. \A b \in U!BINARIES \ {upgrade.at} : backup'[b] = backup[b]
    BY <1>a DEF U!DropBackup
  <2>3. ~U!Whole(None)
    BY DEF U!Versions
  <2> QED BY <2>1, <2>2, <2>3 DEF RecoverInv
<1>4. CASE U!SetAside /\ UNCHANGED faults
  <2>1. /\ upgrade.step = "rename" /\ upgrade'.step = "open" /\ upgrade'.at = upgrade.at
        /\ upgrade.at \in U!BINARIES
    BY <1>4 DEF U!SetAside, U!GoTo, U!Run
  <2>2. \A b \in U!BINARIES \ {upgrade.at} : dest'[b] = dest[b] /\ backup'[b] = backup[b]
    BY <1>4 DEF U!SetAside
  <2>3. U!Whole(dest[upgrade.at]) => U!Whole(backup'[upgrade.at])
    BY <1>4, <2>1 DEF U!SetAside, U!Versions
  <2> QED BY <1>4, <2>1, <2>2, <2>3 DEF RecoverInv
<1>5. CASE U!SetAsideFails /\ Fault
  BY <1>5 DEF U!SetAsideFails, U!GoTo, U!Run, Fault, RecoverInv
<1>6. CASE U!CopyOpens /\ UNCHANGED faults
  BY <1>6 DEF U!CopyOpens, U!GoTo, U!Run, RecoverInv
<1>7. CASE U!CopyWrites /\ UNCHANGED faults
  BY <1>7 DEF U!CopyWrites, U!GoTo, U!Run, RecoverInv
<1>8. CASE U!CleanUp /\ UNCHANGED faults
  <2>1. /\ upgrade.step = "clean" /\ upgrade'.step \in {"backup", "idle"}
        /\ upgrade.at \in U!BINARIES /\ UNCHANGED <<dest, faults>>
    <3>1. CASE upgrade' = [upgrade EXCEPT !.step = "backup", !.at = @ + 1]
      BY <1>8, <3>1 DEF U!CleanUp, U!Run
    <3>2. CASE upgrade' = U!NoRun(upgrade.latest)
      BY <1>8, <3>2 DEF U!CleanUp, U!Run
    <3> QED BY <1>8, <3>1, <3>2, Zenon DEF U!CleanUp
  <2>2. \A b \in U!BINARIES \ {upgrade.at} : backup'[b] = backup[b]
    BY <1>8 DEF U!CleanUp
  <2> QED BY <2>1, <2>2 DEF RecoverInv
<1>9. CASE ~U!At("idle") /\ U!Ends /\ Fault
  BY <1>9 DEF U!Ends, Fault, RecoverInv
<1>10. CASE BinariesStay /\ (UNCHANGED faults \/ Fault)
  BY <1>10 DEF BinariesStay, Fault, RecoverInv
<1> QED BY <1>0, <1>1, <1>2, <1>3, <1>a, <1>4, <1>5, <1>6, <1>7, <1>8, <1>9, <1>10, Zenon
        DEF UpgradeAct

(***************************************************************************)
(* A run of upgrade that meets one fault at most, wherever it falls, and   *)
(* the runs after it leave each binary whole under its name or under .old. *)
(***************************************************************************)
THEOREM AlwaysRecoverable == Spec => []Recoverable
<1>1. Init => RecoverInv
  BY DaemonsOK DEF DaemonsOK, Init, U!UpgradeInit, RecoverInv, Replacing, U!Whole, U!NoRun,
     U!Versions
<1>2. RecoverInv => Recoverable
  BY DEF RecoverInv, Recoverable, Replacing
<1> QED BY <1>1, <1>2, BinTypeInit, BinTypeStep, RecoverStep, PTL DEF Spec

-------------------------------------------------------------------------------
(* Runs that were not cut short leave all three at one version, and a run has done
   so for those behind it. *)
InstalledInv == ~cutShort =>
    /\ upgrade.step \in {"idle", "check"} =>
           \A b \in U!BINARIES : U!Whole(dest[b]) /\ dest[b] = dest[U!CLI]
    /\ upgrade.step = "check" => upgrade.from = dest[U!CLI] /\ upgrade.at = U!CLI
    /\ upgrade.step \notin {"idle", "check"} =>
           \A b \in U!BINARIES : b < upgrade.at => dest[b] = upgrade.latest
    /\ upgrade.step = "clean" => dest[upgrade.at] = upgrade.latest
    /\ report \in {"upgraded", "current"} =>
           upgrade.step = "idle" /\ dest[U!CLI] >= upgrade.latest

LEMMA InstalledStep == BinTypeOK /\ InstalledInv /\ [Next]_vars => InstalledInv'
<1> SUFFICES ASSUME BinTypeOK, InstalledInv, [Next]_vars, ~cutShort' PROVE InstalledInv'
  BY DEF InstalledInv
<1> USE DaemonsOK DEF DaemonsOK, BinTypeOK, U!UpgradeTypeOK, U!fileVars, U!historyVars,
        U!At, U!Whole, U!Versions, U!BINARIES, U!CLI
<1>0. UpgradeAct
  BY UpgradeActs
<1>1. CASE U!Begin
  BY <1>1 DEF U!Begin, InstalledInv
<1>2. CASE U!UpToDate
  BY <1>2 DEF U!UpToDate, U!version_newer, U!NoRun, InstalledInv
<1>3. CASE U!Download
  <2>1. /\ upgrade.step = "check" /\ upgrade'.step = "backup" /\ upgrade'.at = upgrade.at
        /\ UNCHANGED <<dest, report, cutShort>>
    BY <1>3 DEF U!Download, U!Run
  <2>2. upgrade.at = U!CLI
    BY <2>1 DEF InstalledInv
  <2> QED BY <2>1, <2>2 DEF InstalledInv
<1>4. CASE U!SetAside \/ U!DropBackup
  BY <1>4 DEF U!SetAside, U!DropBackup, U!GoTo, U!Run, InstalledInv
<1>5. CASE U!SetAsideFails
  BY <1>5 DEF U!SetAsideFails, U!GoTo, U!Run, InstalledInv
<1>6. CASE U!CopyOpens
  BY <1>6 DEF U!CopyOpens, U!GoTo, U!Run, InstalledInv
<1>7. CASE U!CopyWrites
  BY <1>7 DEF U!CopyWrites, U!GoTo, U!Run, InstalledInv
<1>8. CASE U!CleanUp
  <2>1. CASE upgrade' = [upgrade EXCEPT !.step = "backup", !.at = @ + 1] /\ UNCHANGED report
    BY <1>8, <2>1 DEF U!CleanUp, U!Run, InstalledInv
  <2>2. CASE /\ upgrade.at + 1 \notin U!BINARIES
             /\ upgrade' = U!NoRun(upgrade.latest) /\ report' = "upgraded"
    BY <1>8, <2>2 DEF U!CleanUp, U!Run, U!NoRun, InstalledInv
  <2> QED BY <1>8, <2>1, <2>2, Zenon DEF U!CleanUp
<1>9. CASE ~U!At("idle") /\ U!Ends
  BY <1>9 DEF U!Ends, U!NoRun, InstalledInv
<1>10. CASE BinariesStay /\ (report' = report \/ report' = "none")
  BY <1>10 DEF BinariesStay, InstalledInv
<1> QED BY <1>0, <1>1, <1>2, <1>3, <1>4, <1>5, <1>6, <1>7, <1>8, <1>9, <1>10, Zenon
        DEF UpgradeAct

(***************************************************************************)
(* When no run was cut short, one that upgraded or found all up to date    *)
(* leaves the three binaries whole and no older than the release.          *)
(***************************************************************************)
THEOREM AlwaysComplete == Spec => []UpgradeComplete
<1>1. Init => InstalledInv
  BY DaemonsOK DEF DaemonsOK, Init, U!UpgradeInit, InstalledInv, U!Whole, U!NoRun,
     U!Versions, U!BINARIES, U!CLI
<1>2. InstalledInv => UpgradeComplete
  BY DEF InstalledInv, UpgradeComplete, U!BINARIES, U!CLI
<1> QED BY <1>1, <1>2, BinTypeInit, BinTypeStep, InstalledStep, PTL DEF Spec

-------------------------------------------------------------------------------
(* Without --force nothing is newer than nexus-link itself, which is replaced
   first, nor than the release that is being installed. *)
AtMost(version) == \A b \in U!BINARIES :
    /\ U!Whole(dest[b]) => dest[b] <= version
    /\ U!Whole(backup[b]) => backup[b] <= version

UpwardInv == ~forced =>
    /\ U!Whole(dest[U!CLI]) => AtMost(dest[U!CLI])
    /\ upgrade.step = "check" => /\ U!Whole(dest[U!CLI]) /\ upgrade.from = dest[U!CLI]
                                 /\ upgrade.at = U!CLI
    /\ upgrade.step \notin {"idle", "check"} =>
           /\ AtMost(upgrade.latest)
           /\ upgrade.at # U!CLI => dest[U!CLI] = upgrade.latest
           /\ upgrade.step = "clean" => dest[upgrade.at] = upgrade.latest

LEMMA UpwardStep == BinTypeOK /\ UpwardInv /\ [Next]_vars => UpwardInv'
<1> SUFFICES ASSUME BinTypeOK, UpwardInv, [Next]_vars, ~forced' PROVE UpwardInv'
  BY DEF UpwardInv
<1> USE DaemonsOK DEF DaemonsOK, BinTypeOK, U!UpgradeTypeOK, U!fileVars, U!historyVars,
        U!At, U!Whole, U!Versions, U!BINARIES, U!CLI, AtMost
<1>0. UpgradeAct
  BY UpgradeActs
<1>1. CASE U!Begin
  BY <1>1 DEF U!Begin, UpwardInv
<1>2. CASE U!UpToDate
  BY <1>2 DEF U!UpToDate, U!version_newer, U!NoRun, UpwardInv
<1>3. CASE U!Download
  <2>1. /\ upgrade.step = "check" /\ upgrade'.step = "backup" /\ upgrade'.at = upgrade.at
        /\ upgrade'.latest \in U!Versions /\ upgrade'.latest > upgrade.from
        /\ UNCHANGED <<dest, backup>> /\ ~forced
    BY <1>3 DEF U!Download, U!version_newer, U!Run
  <2>2. upgrade.at = U!CLI /\ dest[U!CLI] = upgrade.from /\ AtMost(upgrade.from)
    BY <2>1 DEF UpwardInv
  <2> QED BY <2>1, <2>2 DEF UpwardInv
<1>4. CASE U!SetAside \/ U!DropBackup
  BY <1>4 DEF U!SetAside, U!DropBackup, U!GoTo, U!Run, UpwardInv
<1>5. CASE U!SetAsideFails
  BY <1>5 DEF U!SetAsideFails, U!GoTo, U!Run, UpwardInv
<1>6. CASE U!CopyOpens
  BY <1>6 DEF U!CopyOpens, U!GoTo, U!Run, UpwardInv
<1>7. CASE U!CopyWrites
  BY <1>7 DEF U!CopyWrites, U!GoTo, U!Run, UpwardInv
<1>8. CASE U!CleanUp
  <2>1. CASE upgrade' = [upgrade EXCEPT !.step = "backup", !.at = @ + 1] /\ UNCHANGED report
    BY <1>8, <2>1 DEF U!CleanUp, U!Run, UpwardInv
  <2>2. CASE /\ upgrade.at + 1 \notin U!BINARIES
             /\ upgrade' = U!NoRun(upgrade.latest) /\ report' = "upgraded"
    BY <1>8, <2>2 DEF U!CleanUp, U!Run, U!NoRun, UpwardInv
  <2> QED BY <1>8, <2>1, <2>2, Zenon DEF U!CleanUp
<1>9. CASE ~U!At("idle") /\ U!Ends
  BY <1>9 DEF U!Ends, U!NoRun, UpwardInv
<1>10. CASE BinariesStay
  BY <1>10 DEF BinariesStay, UpwardInv
<1> QED BY <1>0, <1>1, <1>2, <1>3, <1>4, <1>5, <1>6, <1>7, <1>8, <1>9, <1>10, Zenon
        DEF UpgradeAct

(***************************************************************************)
(* Without --force no run replaces a binary by an older one, although only *)
(* the version of nexus-link is compared, whatever cut earlier runs short. *)
(***************************************************************************)
THEOREM NeverDowngrades == Spec => []NoDowngrade
<1>1. Init => UpwardInv
  BY DaemonsOK DEF DaemonsOK, Init, U!UpgradeInit, UpwardInv, U!Whole, U!NoRun,
     U!Versions, U!BINARIES, U!CLI, AtMost
<1>2. BinTypeOK /\ UpwardInv => NoDowngrade
  BY DEF BinTypeOK, U!UpgradeTypeOK, U!Run, UpwardInv, NoDowngrade, AtMost
<1> QED BY <1>1, <1>2, BinTypeInit, BinTypeStep, UpwardStep, PTL DEF Spec

-------------------------------------------------------------------------------
(* What is left of the calls of a command, and the order in which start makes
   them: each once, the units first, and the one of the agent before all. *)
In(call, s) == \E i \in 1 .. Len(s) : s[i] = call

Ordered(s) ==
    /\ \A i, j \in 1 .. Len(s) : i # j => s[i] # s[j]
    /\ \A i, j \in 1 .. Len(s) : i < j /\ s[j].name = "write" => s[i].name = "write"
    /\ \A i \in 2 .. Len(s) : s[i] # Call("write", Agent)

LEMMA TailIs ==
    ASSUME NEW s \in Seq(Calls), s # <<>>
    PROVE  /\ Head(s) \in Calls /\ Tail(s) \in Seq(Calls)
           /\ In(Head(s), s)
           /\ \A c : In(c, s) <=> c = Head(s) \/ In(c, Tail(s))
<1>1. /\ Head(s) \in Calls /\ Tail(s) \in Seq(Calls) /\ Len(s) \in Nat /\ Len(s) >= 1
      /\ Head(s) = s[1] /\ Len(Tail(s)) = Len(s) - 1
      /\ \A i \in 1 .. Len(Tail(s)) : Tail(s)[i] = s[i + 1]
  OBVIOUS
<1>2. ASSUME NEW c, In(c, s), c # Head(s) PROVE In(c, Tail(s))
  <2>1. PICK i \in 1 .. Len(s) : s[i] = c
    BY <1>2 DEF In
  <2>2. i - 1 \in 1 .. Len(Tail(s)) /\ Tail(s)[i - 1] = c
    BY <1>1, <1>2, <2>1
  <2> QED BY <2>2 DEF In
<1>3. ASSUME NEW c, In(c, Tail(s)) PROVE In(c, s)
  <2>1. PICK i \in 1 .. Len(Tail(s)) : Tail(s)[i] = c
    BY <1>3 DEF In
  <2>2. i + 1 \in 1 .. Len(s) /\ s[i + 1] = c
    BY <1>1, <2>1
  <2> QED BY <2>2 DEF In
<1>4. In(Head(s), s)
  BY <1>1 DEF In
<1> QED BY <1>1, <1>2, <1>3, <1>4

LEMMA TailOrdered ==
    ASSUME NEW s \in Seq(Calls), s # <<>>, Ordered(s)
    PROVE  /\ Ordered(Tail(s))
           /\ ~In(Head(s), Tail(s))
           /\ Head(s).name # "write" => \A d : ~In(Call("write", d), s)
           /\ Head(s) # Call("write", Agent) => ~In(Call("write", Agent), s)
<1>1. /\ Len(s) \in Nat /\ Len(s) >= 1 /\ Head(s) = s[1] /\ Len(Tail(s)) = Len(s) - 1
      /\ \A i \in 1 .. Len(Tail(s)) : Tail(s)[i] = s[i + 1] /\ i + 1 \in 2 .. Len(s)
  OBVIOUS
<1>2. Ordered(Tail(s))
  BY <1>1 DEF Ordered
<1>3. ~In(Head(s), Tail(s))
  BY <1>1 DEF Ordered, In
<1>4. Head(s).name # "write" => \A d : ~In(Call("write", d), s)
  <2>1. \A d : Call("write", d).name = "write"
    BY DEF Call
  <2>2. \A i \in 1 .. Len(s) : i = 1 \/ 1 < i
    BY <1>1
  <2> QED BY <1>1, <2>1, <2>2 DEF Ordered, In
<1>5. Head(s) # Call("write", Agent) => ~In(Call("write", Agent), s)
  <2>2. \A i \in 1 .. Len(s) : i = 1 \/ i \in 2 .. Len(s)
    BY <1>1
  <2> QED BY <1>1, <2>2 DEF Ordered, In
<1> QED BY <1>2, <1>3, <1>4, <1>5

LEMMA Concat ==
    ASSUME NEW s \in Seq(Calls), NEW t \in Seq(Calls)
    PROVE  /\ s \o t \in Seq(Calls)
           /\ \A c : In(c, s \o t) <=> In(c, s) \/ In(c, t)
<1>1. /\ s \o t \in Seq(Calls) /\ Len(s) \in Nat /\ Len(t) \in Nat
      /\ Len(s \o t) = Len(s) + Len(t)
      /\ \A i \in 1 .. Len(s) : (s \o t)[i] = s[i]
      /\ \A i \in 1 .. Len(t) : (s \o t)[Len(s) + i] = t[i]
  OBVIOUS
<1>2. ASSUME NEW c, In(c, s \o t), ~In(c, s) PROVE In(c, t)
  <2>1. PICK i \in 1 .. Len(s) + Len(t) : (s \o t)[i] = c
    BY <1>1, <1>2 DEF In
  <2>2. i \notin 1 .. Len(s)
    BY <1>1, <1>2, <2>1 DEF In
  <2>3. i - Len(s) \in 1 .. Len(t) /\ t[i - Len(s)] = c
    BY <1>1, <2>1, <2>2
  <2> QED BY <2>3 DEF In
<1>3. ASSUME NEW c, In(c, s) PROVE In(c, s \o t)
  BY <1>1, <1>3 DEF In
<1>4. ASSUME NEW c, In(c, t) PROVE In(c, s \o t)
  <2>1. PICK i \in 1 .. Len(t) : t[i] = c
    BY <1>4 DEF In
  <2>2. Len(s) + i \in 1 .. Len(s \o t) /\ (s \o t)[Len(s) + i] = c
    BY <1>1, <2>1
  <2> QED BY <2>2 DEF In
<1> QED BY <1>1, <1>2, <1>3, <1>4

LEMMA PairIs ==
    ASSUME NEW a \in Calls, NEW b \in Calls
    PROVE  /\ <<a, b>> \in Seq(Calls) /\ <<a>> \in Seq(Calls)
           /\ \A c : In(c, <<a, b>>) <=> c = a \/ c = b
           /\ \A c : In(c, <<a>>) <=> c = a
BY DEF In

LEMMA EmptyIs == <<>> \in Seq(Calls) /\ \A c : ~In(c, <<>>)
BY DEF In

LEMMA CallIs ==
    ASSUME NEW name \in {"write", "enable", "start", "restart", "stop", "pkill"},
           NEW d \in DAEMONS
    PROVE  Call(name, d) \in Calls /\ Call(name, d).name = name /\ Call(name, d).d = d
BY DEF Call, Calls

LEMMA CallsAre == \A c \in Calls : c = Call(c.name, c.d) /\ c.d \in DAEMONS
BY DEF Call, Calls

LEMMA StartingIs ==
    /\ Starting \in Seq(Calls)
    /\ Ordered(Starting)
    /\ \A d : ~In(Call("write", d), Starting)
    /\ \A d \in DAEMONS : In(Call("enable", d), Starting) /\ In(Call("start", d), Starting)
BY DEF Starting, Ordered, Call, Calls, In, DAEMONS, Agent, Service

LEMMA BothIs ==
    ASSUME NEW name \in {"write", "enable", "start", "restart", "stop", "pkill"}
    PROVE  /\ Both(name) \in Seq(Calls)
           /\ \A c : In(c, Both(name)) <=> \E d \in DAEMONS : c = Call(name, d)
<1>1. Agent \in DAEMONS /\ Service \in DAEMONS /\ \A d \in DAEMONS : d = Agent \/ d = Service
  BY DEF DAEMONS
<1>2. Call(name, Agent) \in Calls /\ Call(name, Service) \in Calls
  BY <1>1, CallIs
<1>3. /\ Both(name) \in Seq(Calls)
      /\ \A c : In(c, Both(name)) <=> c = Call(name, Agent) \/ c = Call(name, Service)
  BY <1>2, PairIs DEF Both
<1> QED BY <1>1, <1>3, Zenon

LEMMA GeneratingIs ==
    LET s == Both("write") \o Starting
    IN  /\ s \in Seq(Calls) /\ Ordered(s)
        /\ \A c : In(c, s) <=> In(c, Both("write")) \/ In(c, Starting)
<1> DEFINE s == Both("write") \o Starting
<1>1. /\ s \in Seq(Calls)
      /\ \A c : In(c, s) <=> In(c, Both("write")) \/ In(c, Starting)
  BY BothIs, StartingIs, Concat
<1>2. /\ Both("write") \in Seq(Calls) /\ Starting \in Seq(Calls)
      /\ Len(Both("write")) = 2 /\ Len(Starting) = 4
      /\ Both("write")[1] = Call("write", Agent) /\ Both("write")[2] = Call("write", Service)
      /\ Starting[1] = Call("enable", Agent) /\ Starting[2] = Call("start", Agent)
      /\ Starting[3] = Call("enable", Service) /\ Starting[4] = Call("start", Service)
  BY BothIs, StartingIs DEF Both, Starting
<1>3. /\ Len(s) = 6
      /\ s[1] = Call("write", Agent) /\ s[2] = Call("write", Service)
      /\ s[3] = Call("enable", Agent) /\ s[4] = Call("start", Agent)
      /\ s[5] = Call("enable", Service) /\ s[6] = Call("start", Service)
  <2>1. /\ Len(s) = 6 /\ s[1] = Both("write")[1] /\ s[2] = Both("write")[2]
        /\ \A i \in 1 .. 4 : s[2 + i] = Starting[i]
    <3>1. ASSUME NEW t \in Seq(Calls), NEW u \in Seq(Calls), Len(t) = 2, Len(u) = 4
          PROVE  /\ Len(t \o u) = 6 /\ (t \o u)[1] = t[1] /\ (t \o u)[2] = t[2]
                 /\ \A i \in 1 .. 4 : (t \o u)[2 + i] = u[i]
      <4>1. /\ Len(t \o u) = Len(t) + Len(u)
            /\ \A i \in 1 .. Len(t) : (t \o u)[i] = t[i]
            /\ \A i \in 1 .. Len(u) : (t \o u)[Len(t) + i] = u[i]
        OBVIOUS
      <4> QED BY <3>1, <4>1
    <3> QED BY <1>2, <3>1
  <2> HIDE DEF s
  <2>2. s[3] = Starting[1] /\ s[4] = Starting[2] /\ s[5] = Starting[3] /\ s[6] = Starting[4]
    BY <2>1
  <2> QED BY <1>2, <2>1, <2>2
<1> HIDE DEF s
<1>4. Ordered(s)
  BY <1>3 DEF Ordered, Call, Agent, Service
<1> QED BY <1>1, <1>4 DEF s
-------------------------------------------------------------------------------
(* Commands do not overlap, and how the last one ended is of interest until the
   next begins. *)
Alone ==
    /\ agent.op # "none" => agent.mode \in Modes /\ upgrade.step = "idle"
    /\ agent.op # "none" \/ upgrade.step # "idle" => ended.op = "none"
    /\ ended.op # "none" => ended.mode \in Modes

(* systemd keeps nothing running whose unit file is not whole, nor without the
   manager of its mode, and the file of the service is not there without the
   agent's. *)
UnitsInv == \A m \in Modes :
    /\ unit[m][Agent] = "none" => unit[m][Service] = "none"
    /\ \A d \in DAEMONS : <<m, d>> \in wanted => unit[m][d] = "whole" /\ Up(m)

(* Each command makes calls of its own kind. *)
CallsInv == \A c : In(c, agent.todo) =>
    \/ agent.op = "start" /\ c.name \in {"write", "enable", "start"}
    \/ agent.op = "restart" /\ c.name \in {"restart", "start"}
    \/ agent.op = "stop" /\ c.name \in {"stop", "pkill"}

(* The calls of a start that are made have had their effect. *)
StartInv == agent.op = "start" =>
    LET m == agent.mode IN
    /\ Ordered(agent.todo)
    /\ In(Call("write", Agent), agent.todo) <=> unit[m][Agent] = "none"
    /\ In(Call("write", Service), agent.todo) => unit[m][Service] = "none"
    /\ \A d \in DAEMONS :
           /\ In(Call("enable", d), agent.todo) \/ <<m, d>> \in enabled
           /\ In(Call("start", d), agent.todo) \/ <<m, d>> \in wanted

(* A mode that is being stopped is none in which a start still has to hold. *)
KeptInv == StartHolds /\ (agent.op = "stop" => agent.mode \notin kept)

(* What a unit names, by the files in place. *)
Binary(files, u) == IF u[1] \in Elsewhere THEN 1 ELSE files[u[2]]

(* So have those of a restart, unless one failed ... *)
RestartInv == agent.op = "restart" /\ agent.clean => \A d \in DAEMONS :
    \/ In(Call("restart", d), agent.todo)
    \/ image[<<agent.mode, d>>] \in {0, Binary(dest, <<agent.mode, d>>)}

(* ... and of a stop. *)
StopInv == agent.op = "stop" /\ agent.clean => \A d \in DAEMONS :
    In(Call("stop", d), agent.todo) \/ <<agent.mode, d>> \notin wanted

-------------------------------------------------------------------------------
Run == [op : {"none", "start", "restart", "stop"}, mode : Modes \union {"system"},
        todo : Seq(Calls), done : SUBSET DAEMONS, clean : BOOLEAN]
End == [op : {"none", "start", "restart", "stop"}, mode : Modes \union {"system"},
        error : Errors, clean : BOOLEAN]

(* The first call left, and what making it leaves. *)
LEMMA CallIsFirst ==
    ASSUME TypeOK, Alone, NEW name, IsCall(name)
    PROVE  /\ agent \in Run /\ agent.op # "none" /\ agent.mode \in Modes
           /\ Todo \in Calls /\ Todo.d \in DAEMONS /\ Todo = Call(name, Todo.d)
           /\ agent.todo \in Seq(Calls) /\ agent.todo # <<>>
           /\ Tail(agent.todo) \in Seq(Calls)
           /\ \A c : In(c, agent.todo) <=> c = Todo \/ In(c, Tail(agent.todo))
<1>1. agent \in Run /\ agent.op # "none" /\ agent.todo # <<>> /\ Todo.name = name
  BY DEF TypeOK, IsCall, Run
<1>2. agent.todo \in Seq(Calls)
  BY <1>1 DEF Run
<1>3. /\ Todo \in Calls /\ Tail(agent.todo) \in Seq(Calls)
      /\ \A c : In(c, agent.todo) <=> c = Todo \/ In(c, Tail(agent.todo))
  BY <1>1, <1>2, TailIs DEF Todo
<1>4. Todo.d \in DAEMONS /\ Todo = Call(name, Todo.d)
  BY <1>1, <1>3, CallsAre
<1> QED BY <1>1, <1>2, <1>3, <1>4 DEF Alone

(* A run goes on with the calls that are left, or a start ends. *)
Advances == /\ agent' \in Run /\ agent.op # "none"
            /\ agent'.op = agent.op /\ agent'.mode = agent.mode
            /\ agent'.clean => agent.clean
            /\ agent'.todo = Tail(agent.todo)
            /\ UNCHANGED <<ended, kept>>

Broken(clean) == /\ agent.op # "none" /\ agent' = NoAgent /\ ended' \in End
                 /\ ended'.op = agent.op /\ ended'.mode = agent.mode
                 /\ ended'.error = "call" /\ ended'.clean = clean
                 /\ UNCHANGED kept

LEMMA AfterIs ==
    ASSUME TypeOK, Alone, NEW name, IsCall(name), NEW ok \in BOOLEAN, After(ok)
    PROVE  \/ Advances /\ agent'.clean = agent.clean /\ (ok \/ agent.op # "start")
           \/ ~ok /\ agent.op = "start" /\ Broken(agent.clean)
<1>1. /\ agent \in Run /\ agent.op # "none" /\ agent.mode \in Modes /\ Todo.d \in DAEMONS
      /\ Tail(agent.todo) \in Seq(Calls)
  BY CallIsFirst
<1>2. CASE ~ok /\ agent.op = "start" /\ Finish("call")
  BY <1>1, <1>2 DEF Finish, Broken, Run, End, Errors
<1>3. CASE /\ agent' = [agent EXCEPT !.todo = Tail(@),
                            !.done = IF ok THEN @ \union {Todo.d} ELSE @]
           /\ UNCHANGED <<ended, kept>>
           /\ ok \/ agent.op # "start"
  BY <1>1, <1>3 DEF Advances, Run
<1> QED BY <1>2, <1>3, Zenon DEF After

LEMMA FailsIs ==
    ASSUME TypeOK, Alone, agent.op # "none", Fails
    PROVE  Broken(FALSE)
BY DEF TypeOK, Alone, Fails, Broken, End, Errors

LEMMA NoAgentIs == NoAgent \in Run /\ NotEnded \in End
BY EmptyIs DEF NoAgent, NotEnded, Run, End, Errors

-------------------------------------------------------------------------------
CmdOK == agent \in Run /\ ended \in End /\ kept \subseteq Modes

SystemdOK == /\ unit \in [Modes -> [DAEMONS -> UnitFile]]
             /\ enabled \subseteq Units /\ wanted \subseteq Units
             /\ image \in [Units -> 0 .. MaxVersion]
             /\ manager \in BOOLEAN
             /\ \A u \in Units : image[u] # 0 => u \in wanted

LEMMA TypeParts == TypeOK <=> BinTypeOK /\ CmdOK /\ SystemdOK
BY DEF TypeOK, BinTypeOK, CmdOK, SystemdOK, Run, End

(* The lists of calls that commands begin with, and go on with. *)
LEMMA BeginIs ==
    ASSUME CmdOK, NEW op \in {"start", "restart", "stop"}, NEW m \in Modes,
           NEW calls \in Seq(Calls), Begin(op, m, calls)
    PROVE  /\ agent' \in Run /\ ended' = NotEnded /\ kept' \subseteq kept
           /\ agent'.op = op /\ agent'.mode = m /\ agent'.todo = calls
BY DEF CmdOK, Begin, Run

LEMMA UndoneIs ==
    ASSUME NEW d \in DAEMONS
    PROVE  /\ Undone(d) \in Seq(Calls)
           /\ \A c : In(c, Undone(d)) => c = Call("start", d)
BY CallIs, PairIs, EmptyIs DEF Undone

LEMMA FollowUpIs ==
    /\ FollowUp \in Seq(Calls)
    /\ agent.op = "stop" => \A c : In(c, FollowUp) => c.name = "pkill"
    /\ agent.op = "restart" => \A c : In(c, FollowUp) => c.name = "start"
<1>1. /\ Undone(Agent) \o Undone(Service) \in Seq(Calls)
      /\ Both("pkill") \in Seq(Calls) /\ <<>> \in Seq(Calls)
  BY UndoneIs, Concat, BothIs, EmptyIs DEF DAEMONS
<1>2. \A c : In(c, Both("pkill")) => c.name = "pkill"
  BY BothIs, CallIs
<1>3. CASE agent.op = "restart"
  <2>1. \A c : In(c, Undone(Agent) \o Undone(Service)) => c.name = "start"
    <3>1. Agent \in DAEMONS /\ Service \in DAEMONS
      BY DEF DAEMONS
    <3> QED BY <3>1, UndoneIs, Concat, CallIs
  <2> QED BY <1>1, <1>3, <2>1 DEF FollowUp
<1>4. CASE agent.op = "stop" /\ agent.done = {}
  BY <1>1, <1>2, <1>4 DEF FollowUp
<1>5. CASE agent.op # "restart" /\ ~(agent.op = "stop" /\ agent.done = {})
  <2>1. FollowUp = <<>>
    BY <1>5 DEF FollowUp
  <2> QED BY <2>1, EmptyIs
<1> QED BY <1>3, <1>4, <1>5

LEMMA CmdStep == TypeOK /\ Alone /\ [Next]_vars => CmdOK'
<1> SUFFICES ASSUME TypeOK, Alone, [Next]_vars PROVE CmdOK'
  OBVIOUS
<1>0. CmdOK
  BY TypeParts
<1>1. CASE StartBegins
  <2>1. /\ Both("write") \o Starting \in Seq(Calls) /\ Starting \in Seq(Calls)
    BY GeneratingIs, StartingIs
  <2>2. PICK m \in Modes, calls \in Seq(Calls) : Begin("start", m, calls)
    BY <1>1, <2>1, Zenon DEF StartBegins
  <2> QED BY <1>0, <2>2, BeginIs, NoAgentIs DEF CmdOK
<1>2. CASE restart
  <2>1. PICK m \in Modes, calls \in Seq(Calls) : Begin("restart", m, calls)
    BY <1>2, BothIs DEF restart
  <2> QED BY <1>0, <2>1, BeginIs, NoAgentIs DEF CmdOK
<1>3. CASE stop
  <2>1. PICK m \in Modes, calls \in Seq(Calls) : Begin("stop", m, calls)
    BY <1>3, BothIs DEF stop
  <2> QED BY <1>0, <2>1, BeginIs, NoAgentIs DEF CmdOK
<1>4. ASSUME Advances \/ Broken(TRUE) \/ Broken(FALSE) PROVE CmdOK'
  BY <1>0, <1>4, NoAgentIs DEF Advances, Broken, CmdOK
<1>5. CASE Write \/ Enable \/ StartUnit \/ RestartUnit \/ StopUnit \/ Pkill
  BY <1>4, <1>5, AfterIs, Zenon DEF Write, Enable, StartUnit, RestartUnit, StopUnit, Pkill
<1>6. CASE SystemctlRefuses
  <2>1. Advances \/ Broken(agent.clean)
    BY <1>6, AfterIs, Zenon DEF SystemctlRefuses, Refused
  <2>2. agent.clean \in BOOLEAN
    BY <1>0 DEF CmdOK, Run
  <2> QED BY <1>4, <2>1, <2>2, Zenon
<1>7. CASE SystemctlFails
  <2>1. PICK name : IsCall(name)
    BY <1>7 DEF SystemctlFails
  <2>2. CASE Fails
    BY <1>4, <2>1, <2>2, CallIsFirst, FailsIs
  <2>3. CASE /\ agent' = [agent EXCEPT !.todo = Tail(@), !.clean = FALSE]
             /\ UNCHANGED <<ended, kept>>
    BY <1>0, <2>1, <2>3, CallIsFirst DEF CmdOK, Run
  <2> QED BY <1>7, <2>2, <2>3, Zenon DEF SystemctlFails
<1>8. CASE WriteFails
  BY <1>4, <1>8, FailsIs DEF WriteFails, IsCall
<1>9. CASE Fallback
  BY <1>0, <1>9, FollowUpIs DEF Fallback, CmdOK, Run
<1>10. CASE Done
  <2>1. agent \in Run /\ agent.op # "none" /\ agent' = NoAgent
        /\ ended' = [op |-> agent.op, mode |-> agent.mode, error |-> "none",
                     clean |-> agent.clean]
        /\ kept' \subseteq kept \union {agent.mode}
    BY <1>0, <1>10 DEF Done, Finish, CmdOK
  <2>2. agent.mode \in Modes /\ ended' \in End
    BY <2>1 DEF Alone, Run, End, Errors
  <2> QED BY <1>0, <2>1, <2>2, NoAgentIs DEF CmdOK
<1>11. CASE BeginUpgrade \/ Reboot
  BY <1>0, <1>11, NoAgentIs DEF BeginUpgrade, Reboot, CmdOK
<1>12. CASE UpgradeStep \/ SetAsideFails \/ UNCHANGED vars
  BY <1>0, <1>12 DEF UpgradeStep, SetAsideFails, vars, cmdVars, CmdOK
<1>13. CASE Killed
  <2>1. CASE agent.op # "none" /\ Fails
    BY <1>4, <2>1, FailsIs
  <2>2. CASE UNCHANGED cmdVars
    BY <1>0, <2>2 DEF cmdVars, CmdOK
  <2> QED BY <1>13, <2>1, <2>2, Zenon DEF Killed
<1>14. CASE Dies \/ Logout \/ \E u \in Units : Spawn(u)
  BY <1>0, <1>14 DEF Dies, Logout, Spawn, cmdVars, CmdOK
<1>15. CASE Login
  BY <1>0, <1>15, NoAgentIs DEF Login, CmdOK
<1>16. CASE AtOnce
  BY <1>0, <1>16, AtOnceIs DEF CmdOK, End, Errors
<1> QED BY <1>1, <1>2, <1>3, <1>5, <1>6, <1>7, <1>8, <1>9, <1>10, <1>11, <1>12, <1>13,
           <1>14, <1>15, <1>16, StartIs, Zenon DEF Next, AgentStep

LEMMA SystemdStep == TypeOK /\ Alone /\ [Next]_vars => SystemdOK'
<1> SUFFICES ASSUME TypeOK, Alone, [Next]_vars PROVE SystemdOK'
  OBVIOUS
<1>0. SystemdOK
  BY TypeParts
<1>a. ASSUME NEW name, IsCall(name)
      PROVE  This \in Units /\ agent.mode \in Modes /\ Todo.d \in DAEMONS
  BY <1>a, CallIsFirst DEF This, Units
<1>b. 0 \in 0 .. MaxVersion
  BY DaemonsOK DEF DaemonsOK
<1>1. CASE UNCHANGED unitVars
  BY <1>0, <1>1 DEF unitVars, SystemdOK
<1>2. CASE Write
  BY <1>0, <1>2, <1>a DEF Write, SystemdOK, UnitFile
<1>3. CASE WriteFails
  BY <1>0, <1>3, <1>a DEF WriteFails, SystemdOK, UnitFile
<1>4. CASE Enable
  BY <1>0, <1>4, <1>a DEF Enable, SystemdOK
<1>5. CASE StartUnit
  BY <1>0, <1>5, <1>a DEF StartUnit, SystemdOK
<1>6. CASE RestartUnit
  BY <1>0, <1>6, <1>a, <1>b DEF RestartUnit, SystemdOK
<1>7. CASE StopUnit
  BY <1>0, <1>7, <1>a, <1>b DEF StopUnit, SystemdOK
<1>8. CASE Pkill
  BY <1>0, <1>8, <1>b DEF Pkill, SystemdOK
<1>9. CASE Reboot
  BY <1>0, <1>9, <1>b DEF Reboot, StartedWith, SystemdOK
<1>10. CASE Dies
  BY <1>0, <1>10, <1>b DEF Dies, SystemdOK
<1>11. ASSUME NEW u \in Units, Spawn(u) PROVE SystemdOK'
  <2>1. Program(u) \in 0 .. MaxVersion
    BY <1>11 DEF Spawn, U!Whole, U!Versions
  <2> QED BY <1>0, <1>11, <2>1 DEF Spawn, SystemdOK
<1>13. CASE Logout
  BY <1>0, <1>13, <1>b DEF Logout, SystemdOK
<1>14. CASE Login
  BY <1>0, <1>14 DEF Login, StartedWith, SystemdOK
<1>12. /\ StartBegins \/ AtOnce \/ restart \/ stop \/ SystemctlRefuses \/ SystemctlFails \/ Fallback \/ Done
          => UNCHANGED unitVars
       /\ BeginUpgrade \/ UpgradeStep \/ SetAsideFails \/ Killed => UNCHANGED unitVars
       /\ UNCHANGED vars => UNCHANGED unitVars
  BY AtOnceIs DEF StartBegins, restart, stop, Begin, SystemctlRefuses, SystemctlFails,
         Fallback, Done, BeginUpgrade, UpgradeStep, SetAsideFails, Killed, vars
<1> QED BY <1>1, <1>2, <1>3, <1>4, <1>5, <1>6, <1>7, <1>8, <1>9, <1>10, <1>11, <1>12,
           <1>13, <1>14, StartIs, Zenon
        DEF Next, AgentStep

LEMMA AloneStep == TypeOK /\ Alone /\ [Next]_vars => Alone'
<1> SUFFICES ASSUME TypeOK, Alone, [Next]_vars PROVE Alone'
  OBVIOUS
<1>1. CASE StartBegins \/ restart \/ stop
  BY <1>1 DEF StartBegins, restart, stop, Begin, Idle, NotEnded, Alone
<1>2. ASSUME Advances \/ Broken(TRUE) \/ Broken(FALSE), UNCHANGED upgrade PROVE Alone'
  BY <1>2 DEF Advances, Broken, NoAgent, Alone
<1>3. CASE Write \/ Enable \/ StartUnit \/ RestartUnit \/ StopUnit \/ Pkill
  BY <1>2, <1>3, AfterIs, Zenon
     DEF Write, Enable, StartUnit, RestartUnit, StopUnit, Pkill, binVars
<1>4. CASE SystemctlRefuses
  <2>1. (Advances \/ Broken(agent.clean)) /\ UNCHANGED upgrade
    BY <1>4, AfterIs, Zenon DEF SystemctlRefuses, Refused, binVars
  <2>2. agent.clean \in BOOLEAN
    BY DEF TypeOK
  <2> QED BY <1>2, <2>1, <2>2, Zenon
<1>5. CASE SystemctlFails
  <2>1. CASE Fails /\ agent.op # "none" /\ UNCHANGED upgrade
    BY <1>2, <2>1, FailsIs
  <2>2. CASE /\ agent' = [agent EXCEPT !.todo = Tail(@), !.clean = FALSE]
             /\ UNCHANGED <<ended, upgrade>>
    BY <2>2 DEF TypeOK, Alone
  <2> QED BY <1>5, <2>1, <2>2, Zenon DEF SystemctlFails, IsCall, binVars
<1>6. CASE WriteFails
  BY <1>2, <1>6, FailsIs DEF WriteFails, IsCall, binVars
<1>7. CASE Fallback
  BY <1>7 DEF Fallback, binVars, TypeOK, Alone
<1>8. CASE Done
  BY <1>8 DEF Done, Finish, NoAgent, binVars, Alone
<1>9. CASE Reboot
  BY <1>9 DEF Reboot, NoAgent, NotEnded, Alone
<1>10. CASE BeginUpgrade
  BY <1>10 DEF BeginUpgrade, Idle, NotEnded, Alone
<1>11. CASE UpgradeStep \/ SetAsideFails
  <2>1. upgrade.step # "idle" /\ UNCHANGED <<agent, ended>>
    BY <1>11 DEF UpgradeStep, SetAsideFails, U!UpToDate, U!Download, U!Install,
       U!DropBackup, U!SetAside, U!CopyOpens, U!CopyWrites, U!CleanUp, U!SetAsideFails, U!At, cmdVars
  <2> QED BY <2>1 DEF Alone
<1>12. CASE Killed
  <2>1. CASE agent.op # "none" /\ Fails /\ UNCHANGED binVars
    BY <1>2, <2>1, FailsIs DEF binVars
  <2>2. CASE U!EndsEarly /\ UNCHANGED cmdVars
    BY <2>2 DEF U!EndsEarly, U!At, cmdVars, Alone
  <2> QED BY <1>12, <2>1, <2>2, Zenon DEF Killed
<1>13. CASE Dies \/ Logout \/ (\E u \in Units : Spawn(u)) \/ UNCHANGED vars
  BY <1>13 DEF Dies, Logout, Spawn, cmdVars, binVars, vars, Alone
<1>14. CASE Login
  BY <1>14 DEF Login, binVars, NotEnded, Alone
<1>15. CASE AtOnce
  BY <1>15, AtOnceIs DEF BinariesStay, Alone
<1> QED BY <1>1, <1>3, <1>4, <1>5, <1>6, <1>7, <1>8, <1>9, <1>10, <1>11, <1>12, <1>13,
           <1>14, <1>15, StartIs, Zenon DEF Next, AgentStep

LEMMA TypeStep == TypeOK /\ Alone /\ [Next]_vars => TypeOK' /\ Alone'
<1>1. TypeOK' <=> BinTypeOK' /\ CmdOK' /\ SystemdOK'
  BY DEF TypeOK, BinTypeOK, CmdOK, SystemdOK, Run, End
<1> QED BY <1>1, TypeParts, BinTypeStep, CmdStep, SystemdStep, AloneStep, Zenon

LEMMA TypeInit == Init => TypeOK /\ Alone
<1> SUFFICES ASSUME Init PROVE TypeOK /\ Alone
  OBVIOUS
<1>1. CmdOK /\ Alone
  BY NoAgentIs DEF Init, CmdOK, Alone, NoAgent, NotEnded
<1>2. SystemdOK
  BY DaemonsOK DEF DaemonsOK, Init, SystemdOK, UnitFile
<1> QED BY <1>1, <1>2, BinTypeInit, TypeParts

(***************************************************************************)
(* Every variable has its type, and no daemon runs whose unit systemd is   *)
(* not to keep running.                                                    *)
(***************************************************************************)
THEOREM TypeCorrect == Spec => []TypeOK
BY TypeInit, TypeStep, PTL DEF Spec

-------------------------------------------------------------------------------
(* What a step does to the run. *)
AgentAct ==
    \/ UNCHANGED agent
    \/ agent' = NoAgent
    \/ /\ \E name : IsCall(name)
       /\ agent'.op = agent.op /\ agent'.todo = Tail(agent.todo)
    \/ /\ agent'.op = "start"
       /\ agent'.todo = Starting \/ agent'.todo = Both("write") \o Starting
    \/ agent'.op \in {"restart", "stop"} /\ agent'.todo = Both(agent'.op)
    \/ /\ agent.op \in {"restart", "stop"}
       /\ agent'.op = agent.op /\ agent'.todo = FollowUp

LEMMA BeginOp ==
    ASSUME NEW op, NEW m, NEW calls, Begin(op, m, calls)
    PROVE  /\ agent'.op = op /\ agent'.mode = m /\ agent'.todo = calls /\ agent'.clean = TRUE
           /\ ended' = NotEnded
           /\ kept' = IF op = "stop" THEN kept \ {m} ELSE kept
           /\ UNCHANGED unitVars /\ UNCHANGED dest
BY DEF Begin

LEMMA AgentActs == TypeOK /\ Alone /\ [Next]_vars => AgentAct
<1> SUFFICES ASSUME TypeOK, Alone, [Next]_vars PROVE AgentAct
  OBVIOUS
<1>1. CASE StartBegins \/ AtOnce
  BY <1>1, BeginOp, AtOnceIs, Zenon DEF StartBegins, AgentAct
<1>2. CASE restart
  <2>1. agent'.op = "restart" /\ agent'.todo = Both("restart")
    BY <1>2, BeginOp, Zenon DEF restart
  <2> QED BY <2>1 DEF AgentAct
<1>3. CASE stop
  <2>1. agent'.op = "stop" /\ agent'.todo = Both("stop")
    BY <1>3, BeginOp, Zenon DEF stop
  <2> QED BY <2>1 DEF AgentAct
<1>4. CASE Write \/ Enable \/ StartUnit \/ RestartUnit \/ StopUnit \/ Pkill
  <2>1. PICK name : IsCall(name) /\ After(TRUE)
    BY <1>4, Zenon DEF Write, Enable, StartUnit, RestartUnit, StopUnit, Pkill
  <2>2. Advances
    BY <2>1, AfterIs
  <2> QED BY <2>1, <2>2, Zenon DEF AgentAct, Advances
<1>5. CASE SystemctlRefuses
  <2>1. PICK name : IsCall(name) /\ After(FALSE)
    BY <1>5, Zenon DEF SystemctlRefuses, Refused
  <2>2. Advances \/ Broken(agent.clean)
    BY <2>1, AfterIs, Zenon
  <2> QED BY <2>1, <2>2, Zenon DEF AgentAct, Advances, Broken
<1>6. CASE SystemctlFails
  <2>1. PICK name : IsCall(name)
    BY <1>6, Zenon DEF SystemctlFails
  <2>2. CASE Fails
    BY <2>2, Zenon DEF Fails, AgentAct
  <2>3. CASE agent' = [agent EXCEPT !.todo = Tail(@), !.clean = FALSE]
    <3>1. agent'.op = agent.op /\ agent'.todo = Tail(agent.todo)
      BY <2>3 DEF TypeOK
    <3> QED BY <2>1, <3>1, Zenon DEF AgentAct
  <2> QED BY <1>6, <2>2, <2>3, Zenon DEF SystemctlFails
<1>7. CASE Fallback
  <2>1. /\ agent.op \in {"restart", "stop"} /\ agent'.op = agent.op
        /\ agent'.todo = FollowUp
    BY <1>7 DEF Fallback, TypeOK
  <2> QED BY <2>1, Zenon DEF AgentAct
<1>8. CASE WriteFails \/ Done \/ Reboot
  BY <1>8, Zenon DEF WriteFails, Fails, Done, Finish, Reboot, AgentAct
<1>9. CASE BeginUpgrade \/ UpgradeStep \/ SetAsideFails \/ Killed
  BY <1>9 DEF BeginUpgrade, UpgradeStep, SetAsideFails, Killed, Fails, cmdVars, AgentAct
<1>10. CASE Dies \/ Logout \/ Login \/ (\E u \in Units : Spawn(u)) \/ UNCHANGED vars
  BY <1>10 DEF Dies, Logout, Login, Spawn, cmdVars, vars, AgentAct
<1> QED BY <1>1, <1>2, <1>3, <1>4, <1>5, <1>6, <1>7, <1>8, <1>9, <1>10, StartIs, Zenon
        DEF Next, AgentStep

LEMMA CallsStep == TypeOK /\ Alone /\ CallsInv /\ [Next]_vars => CallsInv'
<1> SUFFICES ASSUME TypeOK, Alone, CallsInv, [Next]_vars PROVE CallsInv'
  OBVIOUS
<1>0. AgentAct
  BY AgentActs
<1>1. CASE UNCHANGED agent
  BY <1>1 DEF CallsInv
<1>2. CASE agent' = NoAgent
  BY <1>2, EmptyIs DEF NoAgent, CallsInv
<1>3. ASSUME NEW name, IsCall(name),
             agent'.op = agent.op, agent'.todo = Tail(agent.todo)
      PROVE  CallsInv'
  BY <1>3, CallIsFirst DEF CallsInv
<1>4. CASE /\ agent'.op = "start"
           /\ agent'.todo = Starting \/ agent'.todo = Both("write") \o Starting
  <2>1. \A c : In(c, Starting) => c.name \in {"enable", "start"}
    BY DEF In, Starting, Call
  <2>2. \A c : In(c, Both("write")) => c.name = "write"
    BY BothIs, CallIs
  <2>3. \A c : In(c, agent'.todo) => c.name \in {"write", "enable", "start"}
    BY <1>4, <2>1, <2>2, GeneratingIs
  <2> QED BY <1>4, <2>3 DEF CallsInv
<1>5. CASE agent'.op \in {"restart", "stop"} /\ agent'.todo = Both(agent'.op)
  <2>1. \A c : In(c, agent'.todo) => c.name = agent'.op
    BY <1>5, BothIs, CallIs
  <2> QED BY <1>5, <2>1 DEF CallsInv
<1>6. CASE /\ agent.op \in {"restart", "stop"}
           /\ agent'.op = agent.op /\ agent'.todo = FollowUp
  BY <1>6, FollowUpIs DEF CallsInv
<1> QED BY <1>0, <1>1, <1>2, <1>3, <1>4, <1>5, <1>6, Zenon DEF AgentAct

LEMMA CallOf ==
    ASSUME TypeOK, Alone, CallsInv, NEW name, IsCall(name)
    PROVE  /\ agent.op = "start" => name \in {"write", "enable", "start"}
           /\ agent.op = "restart" => name \in {"restart", "start"}
           /\ agent.op = "stop" => name \in {"stop", "pkill"}
           /\ agent.op \in {"start", "restart", "stop"}
<1>1. In(Todo, agent.todo) /\ Todo.name = name
  BY CallIsFirst DEF IsCall
<1> QED BY <1>1 DEF CallsInv

-------------------------------------------------------------------------------
Base == TypeOK /\ Alone /\ CallsInv
Starts == UnitsInv /\ StartInv /\ KeptInv /\ StartFailsForUnits

(* The steps that are of no concern to a run and to what systemd is to do. *)
Aside == UNCHANGED <<agent, ended, kept, unit, enabled, wanted, manager>>

LEMMA AsideIs ==
    UpgradeStep \/ SetAsideFails \/ Dies \/ (\E u \in Units : Spawn(u)) \/ UNCHANGED vars
    => Aside
BY DEF UpgradeStep, SetAsideFails, Dies, Spawn, vars, cmdVars, unitVars, Aside

LEMMA KilledIs ==
    ASSUME Base, Killed
    PROVE  Aside \/ (Broken(FALSE) /\ UNCHANGED unitVars)
BY FailsIs DEF Base, Killed, cmdVars, unitVars, Aside

(* A call of a start, and whether it is still to be made. *)
LEMMA StartCall ==
    ASSUME Base, StartInv, NEW name, IsCall(name), agent.op = "start",
           agent'.todo = Tail(agent.todo)
    PROVE  /\ Todo.d \in DAEMONS /\ agent.mode \in Modes /\ Ordered(agent'.todo)
           /\ name # "write" => unit[agent.mode][Agent] # "none"
           /\ name = "write" => unit[agent.mode][Todo.d] = "none"
           /\ name = "write" /\ Todo.d = Service => unit[agent.mode][Agent] # "none"
           /\ \A c : In(c, agent'.todo) <=> In(c, agent.todo) /\ c # Call(name, Todo.d)
<1>1. /\ Todo \in Calls /\ Todo.d \in DAEMONS /\ Todo = Call(name, Todo.d)
      /\ agent.todo \in Seq(Calls) /\ agent.todo # <<>> /\ agent.mode \in Modes
      /\ \A c : In(c, agent.todo) <=> c = Todo \/ In(c, Tail(agent.todo))
      /\ Todo.name = name
  BY CallIsFirst DEF Base, IsCall
<1>2. Ordered(agent.todo)
  BY DEF StartInv
<1>3. /\ Ordered(agent'.todo) /\ ~In(Todo, agent'.todo)
      /\ name # "write" => \A d : ~In(Call("write", d), agent.todo)
      /\ Todo # Call("write", Agent) => ~In(Call("write", Agent), agent.todo)
  BY <1>1, <1>2, TailOrdered DEF Todo
<1>4. name # "write" => unit[agent.mode][Agent] # "none"
  BY <1>3 DEF StartInv
<1>5. name = "write" => unit[agent.mode][Todo.d] = "none"
  BY <1>1, Zenon DEF StartInv, DAEMONS
<1>6. name = "write" /\ Todo.d = Service => unit[agent.mode][Agent] # "none"
  <2>1. Call("write", Service) # Call("write", Agent)
    BY DEF Call, Service, Agent
  <2> QED BY <1>1, <1>3, <2>1 DEF StartInv
<1>7. \A c : In(c, agent'.todo) <=> In(c, agent.todo) /\ c # Call(name, Todo.d)
  BY <1>1, <1>3, Zenon
<1> QED BY <1>1, <1>3, <1>4, <1>5, <1>6, <1>7

(* Only a start writes unit files. *)
LEMMA WriteIs ==
    ASSUME Base, StartInv, Write \/ WriteFails
    PROVE  /\ agent.op = "start" /\ agent.mode \in Modes /\ Todo.d \in DAEMONS
           /\ unit[agent.mode][Todo.d] = "none"
           /\ Todo.d = Service => unit[agent.mode][Agent] # "none"
<1>1. IsCall("write")
  BY DEF Write, WriteFails
<1>2. agent.op = "start"
  BY <1>1, CallOf DEF Base
<1>3. /\ agent.mode \in Modes /\ Todo \in Calls /\ Todo.d \in DAEMONS
      /\ Todo = Call("write", Todo.d) /\ In(Todo, agent.todo)
      /\ agent.todo \in Seq(Calls) /\ agent.todo # <<>>
  BY <1>1, CallIsFirst DEF Base
<1>4. Todo # Call("write", Agent) => ~In(Call("write", Agent), agent.todo)
  BY <1>2, <1>3, TailOrdered DEF StartInv, Todo
<1>5. Call("write", Service) # Call("write", Agent)
  BY DEF Call, Service, Agent
<1>6. unit[agent.mode][Todo.d] = "none"
  BY <1>2, <1>3, Zenon DEF StartInv, DAEMONS
<1>7. Todo.d = Service => unit[agent.mode][Agent] # "none"
  BY <1>2, <1>3, <1>4, <1>5, Zenon DEF StartInv
<1> QED BY <1>2, <1>3, <1>6, <1>7

LEMMA ModeIs == \A m \in Modes : m = "system" \/ m = "user"
BY DaemonsOK DEF DaemonsOK

LEMMA UnitsStep == Base /\ Starts /\ [Next]_vars => UnitsInv'
<1> SUFFICES ASSUME Base, Starts, [Next]_vars PROVE UnitsInv'
  OBVIOUS
<1>0. /\ UnitsInv /\ StartInv /\ SystemdOK
      /\ Agent \in DAEMONS /\ Service \in DAEMONS /\ Agent # Service
  BY TypeParts DEF Base, Starts, DAEMONS, Agent, Service
<1>1. CASE UNCHANGED <<unit, wanted, manager>>
  BY <1>0, <1>1 DEF UnitsInv, Up
<1>2. CASE Write
  <2>1. /\ agent.mode \in Modes /\ Todo.d \in DAEMONS
        /\ Todo.d = Service => unit[agent.mode][Agent] # "none"
        /\ unit' = [unit EXCEPT ![agent.mode][Todo.d] = "whole"]
        /\ UNCHANGED <<wanted, manager>>
        /\ \A d \in DAEMONS : d = Agent \/ d = Service
    BY <1>0, <1>2, WriteIs DEF Write, DAEMONS
  <2> QED BY <1>0, <2>1 DEF UnitsInv, SystemdOK, Up
<1>3. CASE WriteFails
  <2>1. /\ agent.mode \in Modes /\ Todo.d \in DAEMONS
        /\ Todo.d = Service => unit[agent.mode][Agent] # "none"
        /\ unit[agent.mode][Todo.d] = "none"
        /\ unit' \in {unit, [unit EXCEPT ![agent.mode][Todo.d] = "torn"]}
        /\ UNCHANGED <<wanted, manager>>
        /\ \A d \in DAEMONS : d = Agent \/ d = Service
    BY <1>0, <1>3, WriteIs DEF WriteFails, DAEMONS
  <2> QED BY <1>0, <2>1 DEF UnitsInv, SystemdOK, Up
<1>4. CASE StartUnit \/ RestartUnit
  <2>1. /\ UNCHANGED <<unit, manager>> /\ wanted' = wanted \union {This}
        /\ unit[agent.mode][Todo.d] = "whole" /\ Up(agent.mode)
    BY <1>4 DEF StartUnit, RestartUnit, Usable, File
  <2> QED BY <1>0, <2>1 DEF UnitsInv, This, Up
<1>5. CASE StopUnit
  BY <1>0, <1>5 DEF StopUnit, UnitsInv, Up
<1>6. CASE Reboot
  BY <1>0, <1>6 DEF Reboot, StartedWith, UnitsInv, Up
<1>9. CASE Logout
  BY <1>0, <1>9, ModeIs DEF Logout, UnitsInv, Up
<1>10. CASE Login
  BY <1>0, <1>10 DEF Login, StartedWith, UnitsInv, Up
<1>7. StartBegins \/ AtOnce \/ restart \/ stop \/ Enable \/ Pkill \/ SystemctlRefuses
        \/ SystemctlFails \/ Fallback \/ Done => UNCHANGED <<unit, wanted, manager>>
  BY AtOnceIs DEF StartBegins, restart, stop, Begin, Enable, Pkill, SystemctlRefuses,
         SystemctlFails, Fallback, Done, unitVars
<1>8. BeginUpgrade \/ UpgradeStep \/ SetAsideFails \/ Killed \/ Dies
        \/ (\E u \in Units : Spawn(u)) \/ UNCHANGED vars => UNCHANGED <<unit, wanted, manager>>
  BY DEF BeginUpgrade, UpgradeStep, SetAsideFails, Killed, Dies, Spawn, vars, unitVars
<1> QED BY <1>1, <1>2, <1>3, <1>4, <1>5, <1>6, <1>7, <1>8, <1>9, <1>10, StartIs, Zenon
        DEF Next, AgentStep

LEMMA KeptStep == Base /\ Starts /\ [Next]_vars => KeptInv'
<1> SUFFICES ASSUME Base, Starts, [Next]_vars PROVE KeptInv'
  OBVIOUS
<1>0. /\ UnitsInv /\ StartInv /\ KeptInv /\ SystemdOK /\ CmdOK /\ TypeOK /\ Alone
      /\ Agent \in DAEMONS
  BY TypeParts DEF Base, Starts, DAEMONS
<1>1. ASSUME NEW op \in {"start", "restart", "stop"}, NEW m \in Modes, NEW calls,
             Begin(op, m, calls)
      PROVE  KeptInv'
  <2>1. /\ agent'.op = op /\ agent'.mode = m
        /\ kept' = IF op = "stop" THEN kept \ {m} ELSE kept
        /\ UNCHANGED <<unit, enabled, wanted, manager>>
    BY <1>1, BeginOp DEF unitVars
  <2>2. StartHolds'
    BY <1>0, <2>1 DEF KeptInv, StartHolds, Up
  <2>3. agent'.op = "stop" => agent'.mode \notin kept'
    BY <2>1
  <2> QED BY <2>2, <2>3 DEF KeptInv
<1>2. CASE StartBegins \/ restart \/ stop
  BY <1>1, <1>2, Zenon DEF StartBegins, restart, stop
<1>3. ASSUME Advances \/ Broken(TRUE) \/ Broken(FALSE), NEW S \in SUBSET Units,
             enabled \subseteq enabled', wanted' = wanted \union S,
             UNCHANGED <<unit, manager>>
      PROVE  KeptInv'
  BY <1>0, <1>3 DEF Advances, Broken, NoAgent, KeptInv, StartHolds, Up
<1>4. ASSUME NEW name, IsCall(name) PROVE {This} \in SUBSET Units
  BY <1>0, <1>4, CallIsFirst DEF This, Units
<1>5. CASE Enable \/ StartUnit \/ RestartUnit \/ Pkill
  <2>1. PICK name : IsCall(name) /\ After(TRUE)
    BY <1>5, Zenon DEF Enable, StartUnit, RestartUnit, Pkill
  <2>2. Advances
    BY <1>0, <2>1, AfterIs
  <2>3. /\ enabled \subseteq enabled' /\ UNCHANGED <<unit, manager>>
        /\ wanted' = wanted \union {} \/ wanted' = wanted \union {This}
    BY <1>5 DEF Enable, StartUnit, RestartUnit, Pkill
  <2>4. {} \in SUBSET Units /\ {This} \in SUBSET Units
    BY <1>4, <2>1
  <2> QED BY <1>3, <2>2, <2>3, <2>4
<1>6. CASE StopUnit
  <2>1. IsCall("stop") /\ After(TRUE)
    BY <1>6, Zenon DEF StopUnit
  <2>2. Advances
    BY <1>0, <2>1, AfterIs
  <2>4. agent.op = "stop"
    BY <2>1, CallOf DEF Base
  <2>3. wanted' = wanted \ {This} /\ UNCHANGED <<unit, enabled, manager>>
    BY <1>6 DEF StopUnit
  <2> QED BY <1>0, <2>2, <2>3, <2>4 DEF Advances, KeptInv, StartHolds, This, Up
<1>7. CASE Write \/ WriteFails
  <2>1. /\ agent.op = "start" /\ agent.mode \in Modes /\ Todo.d \in DAEMONS
        /\ unit[agent.mode][Todo.d] = "none"
    BY <1>0, <1>7, WriteIs
  <2>2. agent.mode \notin kept
    BY <1>0, <2>1 DEF KeptInv, StartHolds
  <2>3. Advances \/ Broken(FALSE)
    BY <1>0, <1>7, <2>1, AfterIs, FailsIs DEF Write, WriteFails
  <2>4. /\ \A m \in Modes \ {agent.mode} : unit'[m] = unit[m]
        /\ UNCHANGED <<enabled, wanted, manager>>
    BY <1>0, <1>7 DEF Write, WriteFails, SystemdOK
  <2> QED BY <1>0, <2>1, <2>2, <2>3, <2>4
          DEF Advances, Broken, NoAgent, KeptInv, StartHolds, CmdOK, Up
<1>8. CASE SystemctlRefuses
  <2>1. PICK name : IsCall(name) /\ After(FALSE)
    BY <1>8, Zenon DEF SystemctlRefuses, Refused
  <2>2. Advances \/ Broken(agent.clean)
    BY <1>0, <2>1, AfterIs, Zenon
  <2>3. /\ enabled \subseteq enabled' /\ UNCHANGED <<unit, manager>>
        /\ wanted' = wanted \union {} /\ {} \in SUBSET Units /\ agent.clean \in BOOLEAN
    BY <1>0, <1>8 DEF SystemctlRefuses, unitVars, TypeOK
  <2> QED BY <1>3, <2>2, <2>3
<1>9. CASE SystemctlFails
  <2>1. agent.op # "none" /\ UNCHANGED unitVars
    BY <1>9 DEF SystemctlFails, IsCall
  <2>2. CASE Fails
    BY <1>0, <2>1, <2>2, FailsIs DEF Broken, NoAgent, unitVars, KeptInv, StartHolds, Up
  <2>3. CASE /\ agent' = [agent EXCEPT !.todo = Tail(@), !.clean = FALSE]
             /\ UNCHANGED <<ended, kept>>
    BY <1>0, <2>1, <2>3 DEF unitVars, KeptInv, StartHolds, Up, TypeOK
  <2> QED BY <1>9, <2>2, <2>3, Zenon DEF SystemctlFails
<1>10. CASE Fallback
  BY <1>0, <1>10 DEF Fallback, unitVars, KeptInv, StartHolds, Up, TypeOK
<1>11. CASE Done
  <2>1. /\ agent.op # "none" /\ agent.todo = <<>> /\ agent' = NoAgent /\ UNCHANGED unitVars
        /\ kept' = IF agent.op = "start" THEN kept \union {agent.mode} ELSE kept
    BY <1>11 DEF Done, Finish
  <2>2. agent.op = "start" => \A d \in DAEMONS :
            /\ unit[agent.mode][d] = "whole"
            /\ <<agent.mode, d>> \in enabled /\ <<agent.mode, d>> \in wanted
    BY <1>0, <2>1, EmptyIs DEF StartInv, UnitsInv, Alone
  <2> QED BY <1>0, <2>1, <2>2 DEF NoAgent, unitVars, KeptInv, StartHolds, Up
<1>12. CASE Reboot
  <2>1. /\ \A u \in enabled :
               unit[u[1]][u[2]] = "whole" /\ (u[1] = "system" \/ (u[1] = "user" /\ manager'))
               => u \in wanted'
        /\ UNCHANGED <<unit, enabled, kept>> /\ agent' = NoAgent
    <3>1. \/ manager' = TRUE /\ wanted' = StartedWith({"system", "user"})
          \/ manager' = FALSE /\ wanted' = StartedWith({"system"})
      BY <1>12 DEF Reboot
    <3>2. \A u \in enabled :
              unit[u[1]][u[2]] = "whole" /\ (u[1] = "system" \/ (u[1] = "user" /\ manager'))
              => u \in wanted'
      BY <3>1 DEF StartedWith
    <3> QED BY <1>12, <3>2 DEF Reboot
  <2>2. kept \subseteq Modes
    BY <1>0 DEF CmdOK
  <2>3. \A m \in kept, d \in DAEMONS :
            /\ <<m, d>> \in enabled /\ unit[m][d] = "whole"
            /\ <<m, d>>[1] = m /\ <<m, d>>[2] = d
            /\ Up(m)' => m = "system" \/ (m = "user" /\ manager')
    BY <1>0, <2>2, ModeIs DEF KeptInv, StartHolds, Up
  <2>4. StartHolds'
    <3> SUFFICES ASSUME NEW m \in kept', NEW d \in DAEMONS
                 PROVE  /\ unit'[m][d] = "whole" /\ <<m, d>> \in enabled'
                        /\ Up(m)' => <<m, d>> \in wanted'
      BY DEF StartHolds
    <3>1. m \in kept /\ UNCHANGED <<unit, enabled>>
      BY <2>1
    <3>2. Up(m)' => <<m, d>> \in wanted'
      BY <2>1, <2>3, <3>1
    <3> QED BY <2>3, <3>1, <3>2
  <2> QED BY <2>1, <2>4 DEF NoAgent, KeptInv
<1>13. CASE BeginUpgrade \/ AtOnce
  <2>1. UNCHANGED <<unitVars, agent, kept>>
    BY <1>13, AtOnceIs DEF BeginUpgrade
  <2> QED BY <1>0, <2>1 DEF unitVars, KeptInv, StartHolds, Up
<1>14. CASE Aside
  BY <1>0, <1>14 DEF Aside, KeptInv, StartHolds, Up
<1>16. CASE Logout
  <2>1. /\ wanted' = {u \in wanted : u[1] # "user"} /\ manager' = FALSE
        /\ UNCHANGED <<unit, enabled, kept, agent>>
    BY <1>16 DEF Logout, cmdVars
  <2> QED BY <1>0, <2>1 DEF KeptInv, StartHolds, Up
<1>17. CASE Login
  <2>1. /\ wanted' = wanted \union {u \in enabled : u[1] = "user"
                                                   /\ unit[u[1]][u[2]] = "whole"}
        /\ UNCHANGED <<unit, enabled, kept, agent>>
    BY <1>17 DEF Login, StartedWith
  <2>2. kept \subseteq Modes
    BY <1>0 DEF CmdOK
  <2> QED BY <1>0, <2>1, <2>2, ModeIs DEF KeptInv, StartHolds, Up
<1>15. CASE Killed
  <2>1. CASE Broken(FALSE) /\ UNCHANGED unitVars
    BY <1>0, <2>1 DEF Broken, NoAgent, unitVars, KeptInv, StartHolds, Up
  <2> QED BY <1>14, <1>15, <2>1, KilledIs
<1> QED BY <1>2, <1>5, <1>6, <1>7, <1>8, <1>9, <1>10, <1>11, <1>12, <1>13, <1>14, <1>15,
           <1>16, <1>17, StartIs, AsideIs, Zenon DEF Next, AgentStep

LEMMA StartStep == Base /\ Starts /\ [Next]_vars => StartInv'
<1> SUFFICES ASSUME Base, Starts, [Next]_vars, agent'.op = "start" PROVE StartInv'
  BY DEF StartInv
<1>0. /\ UnitsInv /\ StartInv /\ SystemdOK /\ TypeOK /\ Alone
      /\ Agent \in DAEMONS /\ Service \in DAEMONS /\ Agent # Service
      /\ \A d \in DAEMONS : d = Agent \/ d = Service
  BY TypeParts DEF Base, Starts, DAEMONS, Agent, Service
<1>a. \A d, e : /\ Call("write", d) # Call("enable", e) /\ Call("write", d) # Call("start", e)
                /\ Call("enable", d) # Call("start", e)
                /\ Call("write", d) = Call("write", e) => d = e
                /\ Call("enable", d) = Call("enable", e) => d = e
                /\ Call("start", d) = Call("start", e) => d = e
  BY DEF Call
<1>1. CASE StartBegins
  <2>1. PICK m \in Modes :
            /\ agent'.mode = m /\ UNCHANGED unitVars
            /\ agent'.todo = IF unit[m][Agent] = "none" THEN Both("write") \o Starting
                                                        ELSE Starting
    BY <1>1, BeginOp DEF StartBegins
  <2>2. CASE unit[m][Agent] = "none"
    <3>1. /\ agent'.todo = Both("write") \o Starting /\ unit[m][Service] = "none"
      BY <1>0, <2>1, <2>2 DEF UnitsInv
    <3>2. /\ Ordered(agent'.todo)
          /\ \A d \in DAEMONS : /\ In(Call("write", d), agent'.todo)
                                /\ In(Call("enable", d), agent'.todo)
                                /\ In(Call("start", d), agent'.todo)
      BY <3>1, GeneratingIs, StartingIs, BothIs
    <3> QED BY <1>0, <2>1, <2>2, <3>1, <3>2 DEF StartInv, unitVars
  <2>3. CASE unit[m][Agent] # "none"
    <3>1. agent'.todo = Starting
      BY <2>1, <2>3
    <3> QED BY <1>0, <2>1, <2>3, <3>1, StartingIs DEF StartInv, unitVars
  <2> QED BY <2>2, <2>3
<1>2. CASE restart \/ stop
  <2>1. agent'.op \in {"restart", "stop"}
    BY <1>2, BeginOp, Zenon DEF restart, stop
  <2> QED BY <2>1
<1>3. ASSUME Broken(TRUE) \/ Broken(FALSE) PROVE FALSE
  BY <1>3 DEF Broken, NoAgent
<1>4. ASSUME NEW name, IsCall(name), Advances
      PROVE  /\ agent.op = "start" /\ agent'.mode = agent.mode
             /\ Todo.d \in DAEMONS /\ agent.mode \in Modes /\ Ordered(agent'.todo)
             /\ name # "write" => unit[agent.mode][Agent] # "none"
             /\ name = "write" => unit[agent.mode][Todo.d] = "none"
             /\ name = "write" /\ Todo.d = Service => unit[agent.mode][Agent] # "none"
             /\ \A c : In(c, agent'.todo) <=> In(c, agent.todo) /\ c # Call(name, Todo.d)
             /\ name \in {"write", "enable", "start"}
  <2>1. agent.op = "start" /\ agent'.mode = agent.mode /\ agent'.todo = Tail(agent.todo)
    BY <1>4 DEF Advances
  <2>2. name \in {"write", "enable", "start"}
    BY <1>4, <2>1, CallOf DEF Base
  <2> QED BY <1>0, <1>4, <2>1, <2>2, StartCall
<1>5. CASE Write
  <2>1. /\ IsCall("write") /\ Advances /\ UNCHANGED <<enabled, wanted>>
        /\ unit' = [unit EXCEPT ![agent.mode][Todo.d] = "whole"]
    BY <1>0, <1>3, <1>5, AfterIs DEF Write
  <2>2. /\ agent.op = "start" /\ agent'.mode = agent.mode
        /\ Todo.d \in DAEMONS /\ agent.mode \in Modes /\ Ordered(agent'.todo)
        /\ Todo.d = Service => unit[agent.mode][Agent] # "none"
        /\ \A c : In(c, agent'.todo) <=> In(c, agent.todo) /\ c # Call("write", Todo.d)
    BY <1>4, <2>1
  <2>3. \A d \in DAEMONS : unit'[agent.mode][d] = IF d = Todo.d THEN "whole"
                                                  ELSE unit[agent.mode][d]
    BY <1>0, <2>1, <2>2 DEF SystemdOK
  <2>4. /\ In(Call("write", Agent), agent'.todo) <=> unit'[agent.mode][Agent] = "none"
        /\ In(Call("write", Service), agent'.todo) => unit'[agent.mode][Service] = "none"
    BY <1>0, <1>a, <2>2, <2>3 DEF StartInv
  <2>5. \A d \in DAEMONS :
            /\ In(Call("enable", d), agent'.todo) \/ <<agent.mode, d>> \in enabled'
            /\ In(Call("start", d), agent'.todo) \/ <<agent.mode, d>> \in wanted'
    BY <1>0, <1>a, <2>1, <2>2 DEF StartInv
  <2> QED BY <2>2, <2>4, <2>5 DEF StartInv
<1>6. CASE Enable
  <2>1. /\ IsCall("enable") /\ Advances /\ UNCHANGED <<unit, wanted>>
        /\ enabled' = enabled \union {<<agent.mode, Todo.d>>}
    BY <1>0, <1>3, <1>6, AfterIs DEF Enable, This
  <2>2. /\ agent.op = "start" /\ agent'.mode = agent.mode /\ Ordered(agent'.todo)
        /\ \A c : In(c, agent'.todo) <=> In(c, agent.todo) /\ c # Call("enable", Todo.d)
    BY <1>4, <2>1
  <2> QED BY <1>0, <1>a, <2>1, <2>2 DEF StartInv
<1>7. CASE StartUnit
  <2>1. /\ IsCall("start") /\ Advances /\ UNCHANGED <<unit, enabled>>
        /\ wanted' = wanted \union {<<agent.mode, Todo.d>>}
    BY <1>0, <1>3, <1>7, AfterIs DEF StartUnit, This
  <2>2. /\ agent.op = "start" /\ agent'.mode = agent.mode /\ Ordered(agent'.todo)
        /\ \A c : In(c, agent'.todo) <=> In(c, agent.todo) /\ c # Call("start", Todo.d)
    BY <1>4, <2>1
  <2> QED BY <1>0, <1>a, <2>1, <2>2 DEF StartInv
<1>8. CASE RestartUnit \/ StopUnit \/ Pkill
  <2>1. PICK name \in {"restart", "stop", "pkill"} : IsCall(name) /\ After(TRUE)
    BY <1>8, Zenon DEF RestartUnit, StopUnit, Pkill
  <2>2. Advances
    BY <1>0, <2>1, AfterIs
  <2> QED BY <1>4, <2>1, <2>2
<1>9. CASE SystemctlRefuses
  <2>1. PICK name : IsCall(name) /\ After(FALSE)
    BY <1>9, Zenon DEF SystemctlRefuses, Refused
  <2>2. (Advances /\ agent.op # "start") \/ Broken(agent.clean)
    BY <1>0, <2>1, AfterIs, Zenon
  <2> QED BY <2>2 DEF Advances, Broken, NoAgent
<1>10. CASE SystemctlFails \/ Fallback
  <2>1. CASE agent' = NoAgent
    BY <2>1 DEF NoAgent
  <2>2. CASE agent.op # "start" /\ agent' = [agent EXCEPT !.todo = Tail(@), !.clean = FALSE]
    BY <1>0, <2>2 DEF TypeOK
  <2>3. CASE /\ agent.op \in {"restart", "stop"}
             /\ agent' = [agent EXCEPT !.todo = FollowUp, !.done = DAEMONS]
    BY <1>0, <2>3 DEF TypeOK
  <2> QED BY <1>10, <2>1, <2>2, <2>3, Zenon DEF SystemctlFails, Fallback, Fails
<1>11. CASE WriteFails \/ Done \/ Reboot
  BY <1>11 DEF WriteFails, Fails, Done, Finish, Reboot, NoAgent
<1>12. CASE BeginUpgrade \/ AtOnce
  <2>1. UNCHANGED <<unitVars, agent>>
    BY <1>12, AtOnceIs DEF BeginUpgrade
  <2> QED BY <1>0, <2>1 DEF unitVars, StartInv
<1>13. CASE Aside
  BY <1>0, <1>13 DEF Aside, StartInv
<1>14. CASE Killed
  BY <1>3, <1>13, <1>14, KilledIs
<1>15. CASE Logout
  <2>1. /\ wanted' = {u \in wanted : u[1] # "user"} /\ agent.mode = "system"
        /\ UNCHANGED <<unit, enabled, agent>>
    BY <1>15 DEF Logout, NoUserRun, cmdVars
  <2>2. <<agent.mode, Agent>>[1] = "system" /\ <<agent.mode, Service>>[1] = "system"
    BY <2>1
  <2> QED BY <1>0, <2>1, <2>2 DEF StartInv
<1>16. CASE Login
  <2>1. wanted \subseteq wanted' /\ UNCHANGED <<unit, enabled, agent>>
    BY <1>16 DEF Login
  <2> QED BY <1>0, <2>1 DEF StartInv
<1> QED BY <1>1, <1>2, <1>5, <1>6, <1>7, <1>8, <1>9, <1>10, <1>11, <1>12, <1>13, <1>14,
           <1>15, <1>16, StartIs, AsideIs, Zenon DEF Next, AgentStep

LEMMA FailureStep == Base /\ Starts /\ [Next]_vars => StartFailsForUnits'
<1> SUFFICES ASSUME Base, Starts, [Next]_vars PROVE StartFailsForUnits'
  OBVIOUS
<1>0. StartInv /\ StartFailsForUnits /\ TypeOK /\ Alone
  BY DEF Base, Starts
<1>1. CASE UNCHANGED <<ended, unit>> /\ (manager' => manager)
  BY <1>0, <1>1, Zenon DEF StartFailsForUnits, Up
<1>2. CASE ended'.op = "none" \/ ended'.clean = FALSE \/ ended'.error # "call"
  BY <1>2 DEF StartFailsForUnits
<1>3. CASE Broken(FALSE)
  BY <1>2, <1>3 DEF Broken
<1>4. CASE Advances
  BY <1>0, <1>2, <1>4 DEF Advances, Alone, Run
<1>5. CASE StartBegins \/ restart \/ stop \/ BeginUpgrade \/ Reboot \/ Login
  <2>1. ended' = NotEnded
    BY <1>5, BeginOp, Zenon DEF StartBegins, restart, stop, BeginUpgrade, Reboot, Login
  <2> QED BY <1>2, <2>1 DEF NotEnded
<1>13. CASE AtOnce
  <2>1. ended'.error # "call"
    BY <1>13, AtOnceIs
  <2> QED BY <1>2, <2>1
<1>14. CASE Logout
  BY <1>1, <1>14 DEF Logout, cmdVars
<1>6. CASE Write \/ Enable \/ StartUnit \/ RestartUnit \/ StopUnit \/ Pkill
  BY <1>0, <1>4, <1>6, AfterIs, Zenon
     DEF Write, Enable, StartUnit, RestartUnit, StopUnit, Pkill
<1>7. CASE WriteFails
  BY <1>2, <1>7 DEF WriteFails, Fails
<1>8. CASE SystemctlRefuses
  <2>1. PICK name : IsCall(name) /\ After(FALSE) /\ Refused /\ UNCHANGED <<unit, manager>>
    BY <1>8, Zenon DEF SystemctlRefuses, Refused, unitVars
  <2>2. CASE agent.op = "start" /\ Broken(agent.clean)
    <3>1. /\ ended'.mode = agent.mode /\ agent.mode \in Modes /\ Todo.d \in DAEMONS
      BY <1>0, <2>1, <2>2, CallIsFirst DEF Broken
    <3>2. /\ Todo.name # "write"
          /\ Up(agent.mode) => unit[agent.mode][Todo.d] # "whole"
      BY <2>1 DEF Refused, Known, Usable, File, IsCall
    <3>3. unit[agent.mode][Agent] # "none"
      <4>1. /\ agent.todo \in Seq(Calls) /\ agent.todo # <<>> /\ Todo = Head(agent.todo)
        BY <1>0, <2>1, CallIsFirst DEF Todo
      <4>2. ~In(Call("write", Agent), agent.todo)
        BY <1>0, <2>2, <3>2, <4>1, TailOrdered DEF StartInv
      <4> QED BY <1>0, <2>2, <4>2 DEF StartInv
    <3> QED BY <2>1, <3>1, <3>2, <3>3 DEF StartFailsForUnits, Up
  <2> QED BY <1>0, <1>4, <2>1, <2>2, AfterIs, Zenon
<1>9. CASE SystemctlFails \/ Fallback
  <2>1. Fails => ended'.clean = FALSE
    BY DEF Fails
  <2>2. Fails \/ UNCHANGED <<ended, unit, manager>>
    BY <1>9 DEF SystemctlFails, Fallback, unitVars
  <2> QED BY <1>1, <1>2, <2>1, <2>2
<1>10. CASE Done
  BY <1>2, <1>10 DEF Done, Finish
<1>11. CASE Aside
  BY <1>1, <1>11 DEF Aside
<1>12. CASE Killed
  BY <1>3, <1>11, <1>12, KilledIs
<1> QED BY <1>5, <1>6, <1>7, <1>8, <1>9, <1>10, <1>11, <1>12, <1>13, <1>14, StartIs,
           AsideIs, Zenon DEF Next, AgentStep

LEMMA StartsInit == Init => CallsInv /\ Starts
<1> SUFFICES ASSUME Init PROVE CallsInv /\ Starts
  OBVIOUS
<1>1. agent = NoAgent /\ ended = NotEnded /\ wanted = {} /\ kept = {} /\ unit =
          [m \in Modes |-> [d \in DAEMONS |-> "none"]]
  BY DEF Init
<1> QED BY <1>1, EmptyIs DEF NoAgent, NotEnded, CallsInv, Starts, UnitsInv, StartInv,
           KeptInv, StartHolds, StartFailsForUnits, DAEMONS

LEMMA BaseStep == Base /\ Starts /\ [Next]_vars => Base' /\ Starts'
BY TypeStep, CallsStep, UnitsStep, StartStep, KeptStep, FailureStep, Zenon DEF Base, Starts

(***************************************************************************)
(* After a start that succeeded both daemons stay defined and enabled in   *)
(* that mode until a stop, and wanted whenever its manager runs, whatever  *)
(* restarts, failed commands, upgrades, boots, logouts and logins follow.  *)
(* Whether the user's manager runs without a session is what linger says   *)
(* (agent.rs 80-99); the theorem holds either way.                         *)
(***************************************************************************)
THEOREM StartAlwaysHolds == Spec => []StartHolds
<1>1. Init => Base /\ Starts
  BY TypeInit, StartsInit DEF Base
<1>2. Starts => StartHolds
  BY DEF Starts, KeptInv
<1> QED BY <1>1, <1>2, BaseStep, PTL DEF Spec

(***************************************************************************)
(* A start that loaded its configuration and found the binaries it needs   *)
(* (agent.rs 39, 236) fails, unless a fault meets it, only without the     *)
(* user's manager or over a unit file that an earlier start left           *)
(* unfinished.                                                             *)
(***************************************************************************)
THEOREM StartFailuresAreOld == Spec => []StartFailsForUnits
<1>1. Init => Base /\ Starts
  BY TypeInit, StartsInit DEF Base
<1>2. Starts => StartFailsForUnits
  BY DEF Starts
<1> QED BY <1>1, <1>2, BaseStep, PTL DEF Spec

-------------------------------------------------------------------------------
(* What a step does to a restart or a stop that no call has failed ... *)
Calling == /\ \/ Write \/ Enable \/ StartUnit \/ RestartUnit \/ StopUnit \/ Pkill
              \/ SystemctlRefuses
           /\ Advances

RunAct == \/ UNCHANGED agent
          \/ agent'.todo = Both(agent'.op)
          \/ Calling
          \/ /\ agent.todo = <<>> /\ agent'.op = agent.op
             /\ agent'.mode = agent.mode /\ agent'.clean = agent.clean
             /\ UNCHANGED unitVars

LEMMA RunActs ==
    ASSUME Base, [Next]_vars, agent'.op \in {"restart", "stop"}, agent'.clean
    PROVE  RunAct
<1>0. TypeOK /\ Alone
  BY DEF Base
<1>a. agent' # NoAgent
  BY DEF NoAgent
<1>1. CASE StartBegins \/ restart \/ stop
  <2>1. StartBegins => agent'.op = "start"
    BY BeginOp, Zenon DEF StartBegins
  <2>2. restart => agent'.op = "restart" /\ agent'.todo = Both("restart")
    BY BeginOp, Zenon DEF restart
  <2>3. stop => agent'.op = "stop" /\ agent'.todo = Both("stop")
    BY BeginOp, Zenon DEF stop
  <2> QED BY <1>1, <2>1, <2>2, <2>3 DEF RunAct
<1>2. CASE Write \/ Enable \/ StartUnit \/ RestartUnit \/ StopUnit \/ Pkill
  <2>1. Advances
    BY <1>0, <1>2, AfterIs, Zenon
       DEF Write, Enable, StartUnit, RestartUnit, StopUnit, Pkill
  <2> QED BY <1>2, <2>1, Zenon DEF RunAct, Calling
<1>3. CASE SystemctlRefuses
  <2>1. Advances
    BY <1>0, <1>3, <1>a, AfterIs, Zenon DEF SystemctlRefuses, Refused, Broken
  <2> QED BY <1>3, <2>1, Zenon DEF RunAct, Calling
<1>4. CASE SystemctlFails
  <2>1. CASE agent' = [agent EXCEPT !.todo = Tail(@), !.clean = FALSE]
    <3>1. agent'.clean = FALSE
      BY <1>0, <2>1 DEF TypeOK
    <3> QED BY <3>1
  <2> QED BY <1>4, <1>a, <2>1, Zenon DEF SystemctlFails, Fails
<1>5. CASE Fallback
  BY <1>0, <1>5 DEF Fallback, TypeOK, RunAct
<1>6. CASE WriteFails \/ Done \/ Reboot
  BY <1>6, <1>a, Zenon DEF WriteFails, Fails, Done, Finish, Reboot
<1>7. CASE BeginUpgrade \/ AtOnce \/ Logout \/ Login \/ Aside
  BY <1>7, AtOnceIs DEF BeginUpgrade, Logout, Login, Aside, cmdVars, RunAct
<1>8. CASE Killed
  BY <1>a, <1>7, <1>8, KilledIs, Zenon DEF Broken
<1> QED BY <1>1, <1>2, <1>3, <1>4, <1>5, <1>6, <1>7, <1>8, StartIs, AsideIs, Zenon
        DEF Next, AgentStep

(* ... and to how it ended. *)
EndAct == \/ UNCHANGED ended
          \/ ended'.op \in {"none", "start"} \/ ended'.clean = FALSE
          \/ ended'.error # "none" /\ ended'.op # "stop"
          \/ Done /\ ended'.op = agent.op

LEMMA EndActs == Base /\ [Next]_vars => EndAct
<1> SUFFICES ASSUME Base, [Next]_vars PROVE EndAct
  OBVIOUS
<1>0. TypeOK /\ Alone
  BY DEF Base
<1>1. CASE StartBegins \/ restart \/ stop \/ BeginUpgrade \/ Reboot \/ Login
  <2>1. ended' = NotEnded
    BY <1>1, BeginOp, Zenon DEF StartBegins, restart, stop, BeginUpgrade, Reboot, Login
  <2> QED BY <2>1 DEF NotEnded, EndAct
<1>8. CASE AtOnce
  <2>1. ended'.error # "none" /\ ended'.op # "stop"
    BY <1>8, AtOnceIs
  <2> QED BY <2>1 DEF EndAct
<1>9. CASE Logout
  BY <1>9 DEF Logout, cmdVars, EndAct
<1>2. CASE Write \/ Enable \/ StartUnit \/ RestartUnit \/ StopUnit \/ Pkill
  <2>1. Advances
    BY <1>0, <1>2, AfterIs, Zenon
       DEF Write, Enable, StartUnit, RestartUnit, StopUnit, Pkill
  <2> QED BY <2>1, Zenon DEF EndAct, Advances
<1>3. CASE SystemctlRefuses
  <2>1. PICK name : IsCall(name) /\ After(FALSE)
    BY <1>3, Zenon DEF SystemctlRefuses, Refused
  <2>2. Advances \/ (agent.op = "start" /\ Broken(agent.clean))
    BY <1>0, <2>1, AfterIs, Zenon
  <2> QED BY <2>2 DEF EndAct, Advances, Broken
<1>4. CASE SystemctlFails \/ Fallback \/ WriteFails
  <2>1. Fails => ended'.clean = FALSE
    BY DEF Fails
  <2>2. Fails \/ UNCHANGED ended
    BY <1>4 DEF SystemctlFails, Fallback, WriteFails
  <2> QED BY <2>1, <2>2 DEF EndAct
<1>5. CASE Done
  BY <1>5 DEF Done, Finish, EndAct
<1>6. CASE Aside
  BY <1>6 DEF Aside, EndAct
<1>7. CASE Killed
  BY <1>6, <1>7, KilledIs DEF Broken, EndAct
<1> QED BY <1>1, <1>2, <1>3, <1>4, <1>5, <1>6, <1>7, <1>8, <1>9, StartIs, AsideIs, Zenon
        DEF Next, AgentStep

(* The units that systemd is to keep running are more only by a call, a boot or a
   login. *)
WantedAct == \/ wanted' \subseteq wanted
             \/ agent.op # "none" /\ (StartUnit \/ RestartUnit)
             \/ ended'.op = "none" /\ agent' = NoAgent
             \/ /\ ended'.op = "none" /\ NoUserRun
                /\ \A u \in wanted' : u \in wanted \/ u[1] = "user"

LEMMA WantedIs == [Next]_vars => WantedAct
<1> SUFFICES ASSUME [Next]_vars PROVE WantedAct
  OBVIOUS
<1> USE DEF WantedAct
<1>1. StartBegins \/ AtOnce \/ restart \/ stop \/ Write \/ WriteFails \/ Enable \/ StopUnit \/ Pkill
        \/ SystemctlRefuses \/ SystemctlFails \/ Fallback \/ Done => wanted' \subseteq wanted
  BY AtOnceIs DEF StartBegins, restart, stop, Begin, Write, WriteFails, Enable, StopUnit,
         Pkill, SystemctlRefuses, SystemctlFails, Fallback, Done, unitVars
<1>2. BeginUpgrade \/ UpgradeStep \/ SetAsideFails \/ Killed \/ Dies \/ Logout
        \/ (\E u \in Units : Spawn(u)) \/ UNCHANGED vars => wanted' \subseteq wanted
  BY DEF BeginUpgrade, UpgradeStep, SetAsideFails, Killed, Dies, Logout, Spawn, vars, unitVars
<1>3. StartUnit \/ RestartUnit => agent.op # "none"
  BY DEF StartUnit, RestartUnit, IsCall
<1>4. Reboot => ended'.op = "none" /\ agent' = NoAgent
  BY DEF Reboot, NotEnded
<1>5. Login => /\ ended'.op = "none" /\ NoUserRun
               /\ \A u \in wanted' : u \in wanted \/ u[1] = "user"
  BY DEF Login, StartedWith, NotEnded
<1> QED BY <1>1, <1>2, <1>3, <1>4, <1>5, StartIs, Zenon DEF Next, AgentStep

(* A stop, while its calls are made and until the next command. *)
Stopped == ended.op = "stop" /\ ended.clean =>
               \A d \in DAEMONS : <<ended.mode, d>> \notin wanted

LEMMA StopStep == Base /\ Starts /\ StopInv /\ [Next]_vars => StopInv'
<1> SUFFICES ASSUME Base, Starts, StopInv, [Next]_vars,
                    agent'.op = "stop", agent'.clean
             PROVE  StopInv'
  BY DEF StopInv
<1>0. TypeOK /\ Alone /\ CallsInv /\ UnitsInv /\ RunAct
  BY RunActs DEF Base, Starts
<1>1. CASE agent'.todo = Both("stop")
  BY <1>1, BothIs DEF StopInv
<1>2. CASE Calling
  <2>1. PICK name : IsCall(name)
    BY <1>2, Zenon DEF Calling, Write, Enable, StartUnit, RestartUnit, StopUnit, Pkill,
       SystemctlRefuses, Refused
  <2>2. /\ agent.op = "stop" /\ agent'.mode = agent.mode /\ agent.clean
        /\ agent'.todo = Tail(agent.todo)
    BY <1>2 DEF Calling, Advances
  <2>3. /\ Todo = Call(name, Todo.d) /\ Todo.name = name
        /\ \A c : In(c, agent.todo) <=> c = Todo \/ In(c, agent'.todo)
        /\ Todo.d \in DAEMONS /\ agent.mode \in Modes
    BY <1>0, <2>1, <2>2, CallIsFirst DEF IsCall
  <2>4. name \in {"stop", "pkill"}
    BY <2>1, <2>2, CallOf DEF Base
  <2>5. CASE Pkill
    <3>1. UNCHANGED wanted /\ name = "pkill"
      BY <2>3, <2>5 DEF Pkill, IsCall
    <3>2. \A d : Call("stop", d) # Todo
      BY <2>3, <3>1 DEF Call
    <3> QED BY <2>2, <2>3, <3>1, <3>2 DEF StopInv
  <2>6. CASE StopUnit
    <3>1. wanted' = wanted \ {<<agent.mode, Todo.d>>} /\ name = "stop"
      BY <2>3, <2>6 DEF StopUnit, IsCall, This
    <3>2. \A d : Call("stop", d) = Todo => d = Todo.d
      BY DEF Call
    <3> QED BY <2>2, <2>3, <3>1, <3>2 DEF StopInv
  <2>7. CASE SystemctlRefuses
    <3>1. UNCHANGED wanted /\ (unit[agent.mode][Todo.d] # "whole" \/ ~Up(agent.mode))
      BY <2>7 DEF SystemctlRefuses, Refused, Known, Usable, File, unitVars
    <3>2. <<agent.mode, Todo.d>> \notin wanted
      BY <1>0, <2>3, <3>1 DEF UnitsInv
    <3>3. \A d : Call("stop", d) = Todo => d = Todo.d
      BY DEF Call
    <3> QED BY <2>2, <2>3, <3>1, <3>2, <3>3 DEF StopInv
  <2>8. ~(Write \/ Enable \/ StartUnit \/ RestartUnit)
    BY <2>3, <2>4 DEF Write, Enable, StartUnit, RestartUnit, IsCall
  <2> QED BY <1>2, <2>5, <2>6, <2>7, <2>8, Zenon DEF Calling
<1>3. CASE UNCHANGED agent
  <2>1. \A u \in wanted' : u \in wanted \/ u[1] # agent.mode
    <3>1. ~StartUnit /\ ~RestartUnit
      <4>1. IsCall("start") \/ IsCall("restart") => agent.op # "stop"
        BY <1>0, CallOf
      <4> QED BY <1>3, <4>1 DEF StartUnit, RestartUnit
    <3>2. agent' # NoAgent
      BY DEF NoAgent
    <3>3. NoUserRun => agent.mode = "system"
      BY <1>3 DEF NoUserRun
    <3> QED BY <3>1, <3>2, <3>3, WantedIs DEF WantedAct
  <2>2. \A d \in DAEMONS : <<agent.mode, d>>[1] = agent.mode
    OBVIOUS
  <2> QED BY <1>3, <2>1, <2>2 DEF StopInv
<1>4. CASE /\ agent.todo = <<>> /\ agent'.op = agent.op
           /\ agent'.mode = agent.mode /\ agent'.clean = agent.clean
           /\ UNCHANGED unitVars
  BY <1>4, EmptyIs DEF StopInv, unitVars
<1> QED BY <1>0, <1>1, <1>2, <1>3, <1>4 DEF RunAct

LEMMA StoppedStep == Base /\ StopInv /\ Stopped /\ [Next]_vars => Stopped'
<1> SUFFICES ASSUME Base, StopInv, Stopped, [Next]_vars,
                    ended'.op = "stop", ended'.clean
             PROVE  Stopped'
  BY DEF Stopped
<1>1. CASE UNCHANGED ended
  <2>1. agent.op = "none"
    BY <1>1 DEF Base, Alone
  <2>2. wanted' \subseteq wanted
    BY <1>1, <2>1, WantedIs DEF WantedAct
  <2> QED BY <1>1, <2>2 DEF Stopped
<1>2. CASE Done /\ ended'.op = agent.op
  <2>1. /\ agent.todo = <<>> /\ UNCHANGED wanted
        /\ ended'.mode = agent.mode /\ ended'.clean = agent.clean
    BY <1>2 DEF Done, Finish, unitVars
  <2> QED BY <1>2, <2>1, EmptyIs DEF StopInv, Stopped
<1> QED BY <1>1, <1>2, EndActs DEF EndAct

(***************************************************************************)
(* After a stop none of whose calls failed systemd keeps no daemon of its  *)
(* mode running, and none runs, until the next command or boot.            *)
(***************************************************************************)
THEOREM StopAlwaysHolds == Spec => []StopHolds
<1>1. Init => Base /\ Starts /\ StopInv /\ Stopped
  BY TypeInit, StartsInit DEF Base, Init, NoAgent, NotEnded, StopInv, Stopped
<1>2. Base /\ Stopped => StopHolds
  <2> SUFFICES ASSUME Base, Stopped, ended.op = "stop", ended.clean, NEW d \in DAEMONS
               PROVE  /\ <<ended.mode, d>> \notin wanted
                      /\ image[<<ended.mode, d>>] = 0
    BY DEF StopHolds
  <2>1. <<ended.mode, d>> \in Units
    BY DEF Base, Alone, Units
  <2> QED BY <2>1 DEF Base, TypeOK, Stopped
<1> QED BY <1>1, <1>2, BaseStep, StopStep, StoppedStep, PTL DEF Spec

-------------------------------------------------------------------------------
(* The binaries are replaced only by upgrade, and while it runs no other command
   does; a process runs on, ends, or is started from the binary in place. *)
LEMMA DestIs ==
    Base /\ [Next]_vars =>
        UNCHANGED dest \/ (upgrade.step # "idle" /\ UNCHANGED <<agent, ended, image>>)
<1> SUFFICES ASSUME Base, [Next]_vars
             PROVE  UNCHANGED dest \/ (upgrade.step # "idle" /\ UNCHANGED <<agent, ended, image>>)
  OBVIOUS
<1>1. StartBegins \/ AtOnce \/ restart \/ stop => UNCHANGED dest
  BY BeginOp, AtOnceIs, Zenon DEF StartBegins, restart, stop, BinariesStay
<1>2. AgentStep \/ BeginUpgrade \/ SetAsideFails \/ Killed \/ Reboot \/ Dies
        \/ Logout \/ Login \/ (\E u \in Units : Spawn(u)) \/ UNCHANGED vars => UNCHANGED dest
  BY DEF AgentStep, Write, WriteFails, Enable, StartUnit, RestartUnit, StopUnit,
         SystemctlRefuses, SystemctlFails, Fallback, Pkill, Done, BeginUpgrade,
         SetAsideFails, U!Begin, U!SetAsideFails, Killed, U!EndsEarly, Reboot, U!Ends, Dies,
         Logout, Login, Spawn, vars, binVars, U!fileVars
<1>3. UpgradeStep => upgrade.step # "idle" /\ UNCHANGED <<agent, ended, image>>
  BY DEF UpgradeStep, U!UpToDate, U!Download, U!Install, U!DropBackup, U!SetAside,
         U!CopyOpens, U!CopyWrites, U!CleanUp, U!At, cmdVars, unitVars
<1> QED BY <1>1, <1>2, <1>3, StartIs DEF Next

LEMMA ImageIs ==
    Base /\ [Next]_vars => \A u \in Units : image'[u] \in {image[u], 0, Program(u)}
<1> SUFFICES ASSUME Base, [Next]_vars, NEW v \in Units
             PROVE  image'[v] \in {image[v], 0, Program(v)}
  OBVIOUS
<1>0. SystemdOK
  BY TypeParts DEF Base
<1>1. CASE UNCHANGED image
  BY <1>1
<1>2. CASE RestartUnit \/ StopUnit
  BY <1>0, <1>2 DEF RestartUnit, StopUnit, SystemdOK
<1>3. CASE Pkill
  BY <1>0, <1>3 DEF Pkill, SystemdOK
<1>4. CASE Dies
  BY <1>0, <1>4 DEF Dies, SystemdOK
<1>5. CASE Reboot
  BY <1>0, <1>5 DEF Reboot
<1>6. CASE \E u \in Units : Spawn(u)
  BY <1>0, <1>6 DEF Spawn, SystemdOK
<1>7. StartBegins \/ AtOnce \/ restart \/ stop \/ Write \/ WriteFails \/ Enable
        \/ StartUnit \/ SystemctlRefuses \/ SystemctlFails \/ Fallback \/ Done
          => UNCHANGED image
  BY AtOnceIs DEF StartBegins, restart, stop, Begin, Write, WriteFails, Enable, StartUnit,
         SystemctlRefuses, SystemctlFails, Fallback, Done, unitVars
<1>8. BeginUpgrade \/ UpgradeStep \/ SetAsideFails \/ Killed \/ Login \/ UNCHANGED vars
        => UNCHANGED image
  BY DEF BeginUpgrade, UpgradeStep, SetAsideFails, Killed, Login, vars, unitVars
<1>9. CASE Logout
  BY <1>0, <1>9 DEF Logout
<1> QED BY <1>1, <1>2, <1>3, <1>4, <1>5, <1>6, <1>7, <1>8, <1>9, StartIs, Zenon
        DEF Next, AgentStep

(* A daemon that a restart has reached keeps a current binary ... *)
LEMMA CurrentStays ==
    ASSUME Base, [Next]_vars, NEW m \in Modes, NEW d \in DAEMONS, upgrade.step = "idle",
           image[<<m, d>>] \in {0, Binary(dest, <<m, d>>)}
    PROVE  image'[<<m, d>>] \in {0, Binary(dest', <<m, d>>)}
<1>1. UNCHANGED dest
  BY DestIs
<1>2. <<m, d>> \in Units
  BY DEF Units
<1>3. image'[<<m, d>>] \in {image[<<m, d>>], 0, Binary(dest, <<m, d>>)}
  BY <1>2, ImageIs DEF Program, Binary
<1> QED BY <1>1, <1>3

LEMMA RestartStep == Base /\ Starts /\ RestartInv /\ [Next]_vars => RestartInv'
<1> SUFFICES ASSUME Base, Starts, RestartInv, [Next]_vars,
                    agent'.op = "restart", agent'.clean
             PROVE  RestartInv'
  BY DEF RestartInv
<1>0. TypeOK /\ Alone /\ CallsInv /\ UnitsInv /\ SystemdOK /\ RunAct
  BY RunActs, TypeParts DEF Base, Starts
<1>1. CASE agent'.todo = Both("restart")
  BY <1>1, BothIs DEF RestartInv
<1>2. CASE Calling
  <2>1. PICK name : IsCall(name)
    BY <1>2, Zenon DEF Calling, Write, Enable, StartUnit, RestartUnit, StopUnit, Pkill,
       SystemctlRefuses, Refused
  <2>2. /\ agent.op = "restart" /\ agent'.mode = agent.mode /\ agent.clean
        /\ agent'.todo = Tail(agent.todo) /\ upgrade.step = "idle"
    BY <1>0, <1>2 DEF Calling, Advances, Alone
  <2>3. /\ Todo = Call(name, Todo.d) /\ Todo.name = name
        /\ \A c : In(c, agent.todo) <=> c = Todo \/ In(c, agent'.todo)
        /\ Todo.d \in DAEMONS /\ agent.mode \in Modes
    BY <1>0, <2>1, <2>2, CallIsFirst DEF IsCall
  <2>4. name \in {"restart", "start"}
    BY <2>1, <2>2, CallOf DEF Base
  <2>5. \A d : Call("restart", d) = Todo => d = Todo.d /\ name = "restart"
    BY <2>3 DEF Call
  <2>6. name = "restart" => image'[<<agent.mode, Todo.d>>] \in {0, Binary(dest', <<agent.mode, Todo.d>>)}
    <3>1. CASE RestartUnit
      <4>1. /\ image' = [image EXCEPT ![This] = 0] /\ This = <<agent.mode, Todo.d>>
            /\ This \in Units
        BY <2>3, <3>1 DEF RestartUnit, This, Units
      <4> QED BY <1>0, <4>1 DEF SystemdOK
    <3>2. CASE SystemctlRefuses /\ name = "restart"
      <4>1. (unit[agent.mode][Todo.d] # "whole" \/ ~Up(agent.mode)) /\ UNCHANGED image
        BY <2>3, <3>2 DEF SystemctlRefuses, Refused, Known, Usable, File, unitVars
      <4>2. <<agent.mode, Todo.d>> \notin wanted /\ <<agent.mode, Todo.d>> \in Units
        BY <1>0, <2>3, <4>1 DEF UnitsInv, Units
      <4> QED BY <1>0, <4>1, <4>2 DEF SystemdOK
    <3>3. name = "restart" => ~(Write \/ Enable \/ StartUnit \/ StopUnit \/ Pkill)
      BY <2>3 DEF Write, Enable, StartUnit, StopUnit, Pkill, IsCall
    <3> QED BY <1>2, <3>1, <3>2, <3>3, Zenon DEF Calling
  <2>7. \A d \in DAEMONS : \/ In(Call("restart", d), agent'.todo)
                           \/ image'[<<agent.mode, d>>] \in {0, Binary(dest', <<agent.mode, d>>)}
    <3> SUFFICES ASSUME NEW d \in DAEMONS, ~In(Call("restart", d), agent'.todo)
                 PROVE  image'[<<agent.mode, d>>] \in {0, Binary(dest', <<agent.mode, d>>)}
      OBVIOUS
    <3>1. CASE Call("restart", d) = Todo
      BY <2>5, <2>6, <3>1
    <3>2. CASE Call("restart", d) # Todo
      <4>1. image[<<agent.mode, d>>] \in {0, Binary(dest, <<agent.mode, d>>)}
        BY <2>2, <2>3, <3>2 DEF RestartInv
      <4> QED BY <2>2, <2>3, <4>1, CurrentStays
    <3> QED BY <3>1, <3>2
  <2> QED BY <2>2, <2>7 DEF RestartInv
<1>3. CASE UNCHANGED agent
  <2>1. agent.mode \in Modes /\ upgrade.step = "idle"
    BY <1>0, <1>3 DEF Alone
  <2>2. \A d \in DAEMONS : \/ In(Call("restart", d), agent.todo)
                           \/ image'[<<agent.mode, d>>] \in {0, Binary(dest', <<agent.mode, d>>)}
    BY <1>3, <2>1, CurrentStays DEF RestartInv
  <2> QED BY <1>3, <2>2 DEF RestartInv
<1>4. CASE /\ agent.todo = <<>> /\ agent'.op = agent.op
           /\ agent'.mode = agent.mode /\ agent'.clean = agent.clean
  <2>1. agent.mode \in Modes /\ upgrade.step = "idle"
    BY <1>0, <1>4 DEF Alone
  <2>2. \A d \in DAEMONS : image[<<agent.mode, d>>] \in {0, Binary(dest, <<agent.mode, d>>)}
    BY <1>4, EmptyIs DEF RestartInv
  <2>3. \A d \in DAEMONS : image'[<<agent.mode, d>>] \in {0, Binary(dest', <<agent.mode, d>>)}
    BY <2>1, <2>2, CurrentStays
  <2> QED BY <1>4, <2>3 DEF RestartInv
<1> QED BY <1>0, <1>1, <1>2, <1>3, <1>4, Zenon DEF RunAct

LEMMA RestartedStep ==
    Base /\ RestartInv /\ RestartedIsCurrent /\ [Next]_vars => RestartedIsCurrent'
<1> SUFFICES ASSUME Base, RestartInv, RestartedIsCurrent, [Next]_vars,
                    ended'.op = "restart", ended'.clean, ended'.error = "none"
             PROVE  RestartedIsCurrent'
  BY DEF RestartedIsCurrent, Program, Binary
<1>1. CASE UNCHANGED ended
  <2>1. ended.mode \in Modes /\ upgrade.step = "idle"
    BY <1>1 DEF Base, Alone
  <2>2. \A d \in DAEMONS : image[<<ended.mode, d>>] \in {0, Binary(dest, <<ended.mode, d>>)}
    BY <1>1 DEF RestartedIsCurrent, Program, Binary
  <2>3. \A d \in DAEMONS : image'[<<ended.mode, d>>] \in {0, Binary(dest', <<ended.mode, d>>)}
    BY <2>1, <2>2, CurrentStays
  <2> QED BY <1>1, <2>3 DEF RestartedIsCurrent, Program, Binary
<1>2. CASE Done /\ ended'.op = agent.op
  <2>1. /\ agent.todo = <<>> /\ UNCHANGED <<image, dest>>
        /\ ended'.mode = agent.mode /\ ended'.clean = agent.clean
    BY <1>2 DEF Done, Finish, unitVars, binVars
  <2>2. \A d \in DAEMONS : image[<<agent.mode, d>>] \in {0, Binary(dest, <<agent.mode, d>>)}
    BY <1>2, <2>1, EmptyIs DEF RestartInv
  <2> QED BY <2>1, <2>2 DEF RestartedIsCurrent, Program, Binary
<1> QED BY <1>1, <1>2, EndActs DEF EndAct

(***************************************************************************)
(* After a restart none of whose calls failed, the daemons of its mode run *)
(* from the binaries that their units name or not at all, whatever was     *)
(* upgraded before.                                                        *)
(***************************************************************************)
THEOREM RestartMakesCurrent == Spec => []RestartedIsCurrent
<1>1. Init => Base /\ Starts /\ RestartInv /\ RestartedIsCurrent
  BY TypeInit, StartsInit DEF Base, Init, NoAgent, NotEnded, RestartInv, RestartedIsCurrent
<1> QED BY <1>1, BaseStep, RestartStep, RestartedStep, PTL DEF Spec
-------------------------------------------------------------------------------
(***************************************************************************)
(* Liveness.  The weak fairness of Spawn(u) is stated with its guard in    *)
(* the place of ENABLED, of which the provers have no notion: the guard is *)
(* what Spawn(u) asks of the present state, and the step changes image.    *)
(***************************************************************************)
CanSpawn(u) == /\ u \in wanted /\ image[u] = 0 /\ U!Whole(Program(u))
               /\ u[2] = Service =>
                      \A m \in Modes : image[<<m, Service>>] = 0

SpawnFair     == \A u \in Units : []<>~CanSpawn(u) \/ []<><<Spawn(u)>>_vars
WantedWhole(u) == u \in wanted /\ U!Whole(Program(u))
Served(u)      == \E m \in Modes : image[<<m, u[2]>>] # 0

LEMMA NotServed ==
    ASSUME NEW u \in Units, WantedWhole(u), ~Served(u) PROVE CanSpawn(u)
<1>1. PICK m \in Modes, d \in DAEMONS : u = <<m, d>>
  BY DEF Units
<1> QED BY <1>1 DEF WantedWhole, Served, CanSpawn

LEMMA SpawnServes ==
    ASSUME TypeOK, NEW u \in Units, Spawn(u) PROVE Served(u)'
<1>1. PICK m \in Modes, d \in DAEMONS : u = <<m, d>>
  BY DEF Units
<1>2. image'[u] = Program(u) /\ U!Whole(Program(u))
  BY <1>1 DEF Spawn, TypeOK
<1>3. Program(u) # 0
  BY <1>2 DEF U!Whole, U!Versions
<1> QED BY <1>1, <1>2, <1>3 DEF Served

(* A daemon that systemd is to keep running and whose binary stays in place   *)
(* comes back however often it is killed: the unit that is served by none of  *)
(* the modes may be started, and a start serves it (Restart=always, agent.rs  *)
(* 311 and 339), for any number of faults, versions and commands.             *)
THEOREM WantedAlwaysRuns == Spec /\ SpawnFair => WantedRuns
<1>1. ASSUME NEW u \in Units
      PROVE  []TypeOK /\ ([]<>~CanSpawn(u) \/ []<><<Spawn(u)>>_vars)
                 => (<>[]WantedWhole(u) => []<>Served(u))
  <2>1. WantedWhole(u) /\ ~Served(u) => CanSpawn(u)
    BY NotServed
  <2>2. TypeOK /\ <<Spawn(u)>>_vars => Served(u)'
    BY SpawnServes
  <2> QED BY <2>1, <2>2, PTL
<1>2. Spec /\ SpawnFair =>
          \A u \in Units : <>[]WantedWhole(u) => []<>Served(u)
  BY <1>1, TypeCorrect DEF SpawnFair
<1> QED BY <1>2 DEF WantedRuns, WantedWhole, Served
===============================================================================
