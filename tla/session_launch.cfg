CONSTANTS
    Session = {s, t}
    DaemonLaunch = {d1, d2}
    CliLaunch = {c}
    NoLaunch = NoLaunch
    MaxRevisions = 2
    MaxEdits = 1
    MaxCrashes = 1
    Dirs = {here, there}
    AdapterKinds = {"codex", "grok", "agy"}
    MaxEntries = 2
SPECIFICATION Spec
CONSTRAINTS Apart FewDisturbances Regimes
INVARIANTS StoredVerifies RunsAsPinned ThreadsAreOwn
PROPERTIES LaunchEnds
CHECK_DEADLOCK FALSE
