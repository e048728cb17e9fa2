CONSTANTS
    Session = {s1, s2, s3}
    Channel = {c1, c2}
    NoSession = NoSession
    RoleInUse = {"operator", "planner"}
    MaxRows = 3
SPECIFICATION CommandSpec
INVARIANTS
    ActiveRowsAreLive
    OneLeaderPerChannel
    RolesAgree
PROPERTIES
    HistoryKept
SYMMETRY Symmetry
CHECK_DEADLOCK FALSE
