SPECIFICATION Spec
CONSTANTS
    NodeTokens = {n1, n2}
    CmdTokens = {c1}
    Cli = {run1, run2}
    Ops = {"register", "refresh", "refresh_cmd", "set_telemetry", "set_command", "set_compose", "set_other"}
    None = none
    Same = same
    Unknown = unknown
    Empty = empty
    Torn = torn
    Down = down
SYMMETRY TokenSymmetry
INVARIANT NodeTokensInSync
INVARIANT NodeApplied
INVARIANT AgentUsesApplied
INVARIANT CmdAppliedInBoth
INVARIANT ChannelsAgree
