-------------------------------- MODULE Upgrade --------------------------------
(***************************************************************************)
(* nexus-link upgrade (commands/upgrade.rs): one run asks GitHub for the   *)
(* latest release and replaces the binaries beside its own, in the order   *)
(* nexus-link, nexus-link-agent, nexus-link-service.  A release holds all  *)
(* three (.github/workflows/release.yml).  Daemons instantiates it.        *)
(*                                                                         *)
(* Each system call that changes a directory entry or a file is a step, so *)
(* that a failure, a kill or a start of a daemon can come between two.     *)
(***************************************************************************)
EXTENDS Naturals

CONSTANTS MaxVersion,   \* bound: the versions are 1 .. MaxVersion
          None,         \* no file
          Torn          \* a file that was not written to its end

Versions == 1 .. MaxVersion
Contents == Versions \union {None, Torn}

(* The binaries by their place in the loop. *)
CLI      == 1
BINARIES == 1 .. 3

VARIABLES dest,     \* dest[b]: the file of binary b in the directory
          backup,   \* backup[b]: its .old
          upgrade,  \* the run: [step, at, from, latest, force]
          report,   \* how the last command ended, if it was a run
          cutShort, \* a run was killed or failed while it installed (history)
          forced    \* a run was forced (history)

upgradeVars == <<dest, backup, upgrade, report, cutShort, forced>>
fileVars    == <<dest, backup>>
historyVars == <<cutShort, forced>>

Steps == {"idle", "check", "backup", "rename", "open", "write", "clean"}
Run   == [step : Steps, at : BINARIES, from : Versions, latest : Versions,
          force : BOOLEAN]
NoRun(v) == [step |-> "idle", at |-> CLI, from |-> v, latest |-> v, force |-> FALSE]

Whole(file) == file \in Versions

UpgradeInit == /\ dest = [b \in BINARIES |-> 1]
               /\ backup = [b \in BINARIES |-> None]
               /\ upgrade = NoRun(1)
               /\ report = "none"
               /\ cutShort = FALSE /\ forced = FALSE

At(step) == upgrade.step = step
GoTo(step) == upgrade' = [upgrade EXCEPT !.step = step]

-------------------------------------------------------------------------------
(* The binary must run; CARGO_PKG_VERSION is the version it was built from. *)
Begin == \E force \in BOOLEAN :
    /\ At("idle") /\ Whole(dest[CLI])
    /\ upgrade' = [step |-> "check", at |-> CLI, from |-> dest[CLI],
                   latest |-> dest[CLI], force |-> force]
    /\ report' = "none"
    /\ UNCHANGED <<fileVars, historyVars>>

(* Mutant of version_newer. *)
VersionDiffers(latest, current) == latest # current

version_newer(latest, current) == latest > current

(* GitHub (external) names a release: a newer one, or an older one again after
   the newest was withdrawn. *)
UpToDate == \E release \in Versions :
    /\ At("check")
    /\ ~upgrade.force /\ ~version_newer(release, upgrade.from)
    /\ upgrade' = NoRun(release)
    /\ report' = "current"
    /\ UNCHANGED <<fileVars, historyVars>>

(* The archive of that release is downloaded and unpacked elsewhere. *)
Download == \E release \in Versions :
    /\ At("check")
    /\ upgrade.force \/ version_newer(release, upgrade.from)
    /\ upgrade' = [upgrade EXCEPT !.step = "backup", !.latest = release]
    /\ forced' = (forced \/ upgrade.force)
    /\ UNCHANGED <<fileVars, report, cutShort>>

(* Mutant of SetAside: what was set aside is not kept. *)
SetAsideForGood ==
    /\ At("rename")
    /\ dest' = [dest EXCEPT ![upgrade.at] = None]
    /\ backup' = [backup EXCEPT ![upgrade.at] = None]
    /\ GoTo("open")
    /\ UNCHANGED <<report, historyVars>>

(* A file that is there takes the place of the last backup, which is removed
   first. *)
DropBackup ==
    /\ At("backup")
    /\ \/ /\ dest[upgrade.at] = None
          /\ GoTo("open")
          /\ UNCHANGED backup
       \/ /\ dest[upgrade.at] # None
          /\ GoTo("rename")
          /\ backup' = [backup EXCEPT ![upgrade.at] = None]
    /\ UNCHANGED <<dest, report, historyVars>>

SetAside ==
    /\ At("rename")
    /\ dest' = [dest EXCEPT ![upgrade.at] = None]
    /\ backup' = [backup EXCEPT ![upgrade.at] = dest[upgrade.at]]
    /\ GoTo("open")
    /\ UNCHANGED <<report, historyVars>>

(* rename fails, which .ok() ignores; the last backup is gone all the same. *)
SetAsideFails == /\ At("rename")
                 /\ GoTo("open")
                 /\ UNCHANGED <<fileVars, report, historyVars>>

(* std::fs::copy creates or truncates the file ... *)
CopyOpens == /\ At("open")
             /\ dest' = [dest EXCEPT ![upgrade.at] = Torn]
             /\ GoTo("write")
             /\ UNCHANGED <<backup, report, historyVars>>

(* ... and writes it; its mode follows. *)
CopyWrites == /\ At("write")
              /\ dest' = [dest EXCEPT ![upgrade.at] = upgrade.latest]
              /\ GoTo("clean")
              /\ UNCHANGED <<backup, report, historyVars>>

(* Mutant of CleanUp: the break leaves both loops. *)
CleanUpLast ==
    /\ At("clean")
    /\ backup' = [backup EXCEPT ![upgrade.at] = None]
    /\ upgrade' = NoRun(upgrade.latest)
    /\ report' = "upgraded"
    /\ UNCHANGED <<dest, historyVars>>

(* Mutant of CleanUp: the loop does not end. *)
CleanUpBeyond ==
    /\ At("clean")
    /\ backup' = [backup EXCEPT ![upgrade.at] = None]
    /\ upgrade' = [upgrade EXCEPT !.step = "backup", !.at = @ + 1]
    /\ UNCHANGED <<dest, report, historyVars>>

(* The backup is removed, and the loop goes on with the next binary. *)
CleanUp ==
    /\ At("clean")
    /\ backup' = [backup EXCEPT ![upgrade.at] = None]
    /\ \/ /\ upgrade.at + 1 \in BINARIES
          /\ upgrade' = [upgrade EXCEPT !.step = "backup", !.at = @ + 1]
          /\ UNCHANGED report
       \/ /\ upgrade.at + 1 \notin BINARIES
          /\ upgrade' = NoRun(upgrade.latest)
          /\ report' = "upgraded"
    /\ UNCHANGED <<dest, historyVars>>

(* The run ends with an error or is killed: nothing is put back. *)
Ends == /\ upgrade' = NoRun(1)
        /\ report' = "failed"
        /\ cutShort' = (cutShort \/ upgrade.step # "check")
        /\ UNCHANGED <<fileVars, forced>>

EndsEarly == ~At("idle") /\ Ends

Install == DropBackup \/ SetAside \/ CopyOpens \/ CopyWrites \/ CleanUp

-------------------------------------------------------------------------------
UpgradeTypeOK == /\ dest \in [BINARIES -> Contents]
                 /\ backup \in [BINARIES -> Contents]
                 /\ upgrade \in Run
                 /\ report \in {"none", "current", "upgraded", "failed"}
                 /\ cutShort \in BOOLEAN /\ forced \in BOOLEAN
===============================================================================
