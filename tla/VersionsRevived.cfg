SPECIFICATION Spec
CONSTANTS
    MaxIds = 2
    Ranks = {3}
    Tasks = {t1, t2}
    Merger = t1
    Editor = t2
    Ops = {"ingest", "replace", "dream", "merge"}
    MinSources = 1
    MaxCrashes = 0
ACTION_CONSTRAINT Roles
PROPERTY RemovedStaysRemoved
CHECK_DEADLOCK FALSE
