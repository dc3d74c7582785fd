SPECIFICATION FairSpec
CONSTANTS
    MaxIds = 3
    Ranks = {2, 3}
    Tasks = {t1, t2}
    Merger = t1
    Editor = t2
    Ops = {"ingest", "replace", "dream", "merge", "edit"}
    MinSources = 1
    MaxCrashes = 1
CONSTRAINT OneRemoval
ACTION_CONSTRAINT Roles
INVARIANTS TypeOK NotStranded LinksMutual OneSuccessor    MergedIsCovered
PROPERTIES HistoryKept 
CHECK_DEADLOCK FALSE
