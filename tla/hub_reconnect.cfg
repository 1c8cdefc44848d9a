SPECIFICATION LiveSpec
CONSTANTS
    Agents = {a1}
    Files = {f1}
    Jobs = {}
    Builds = {b1}
    MaxSessions = 2
    Failures = {"drop"}
PROPERTIES
    ConnectedIsRegistered
CHECK_DEADLOCK FALSE
