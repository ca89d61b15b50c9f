SPECIFICATION FairSpec
CONSTANTS
    Modes = {"system", "user"}
    Elsewhere = {"user"}
    MaxFaults = 1
    MaxVersion = 2
    None = none
    Torn = torn
INVARIANT TypeOK
INVARIANT StartHolds
 
INVARIANT StartFailsForUnits
INVARIANT RestartedIsCurrent
INVARIANT Recoverable
INVARIANT UpgradeComplete
INVARIANT NoDowngrade
PROPERTY WantedRuns
\* An upgrade that is killed with nexus-link set aside leaves no command to run.
CHECK_DEADLOCK FALSE
