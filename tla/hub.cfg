SPECIFICATION LiveSpec
CONSTANTS
    Agents = {a1}
    Files = {f1, f2}
    Jobs = {j1}
    Builds = {b1}
    MaxSessions = 2
    Failures = {"drop", "agent", "server", "read", "write"}
INVARIANTS
    TypeOK
    PushReportsTruth
    CountIsExact
PROPERTIES
    HubIsAPushService
    BuildAnsweredByItsAgent
    PushSettles
    BuildSettles
CHECK_DEADLOCK FALSE
