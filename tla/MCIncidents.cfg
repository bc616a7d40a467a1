CONSTANTS
    Alerts = {a1, a2, a3}
    Fingerprint <- OneText
    SavesAlways = {a1}
    MaxReports = 2

SPECIFICATION FairSpec

INVARIANTS
    TypeOK
    EveryAlertIsRecorded
    OnlyRacesDuplicate
    ConsoleShowsTheRun

PROPERTIES
    DecisionsLast
    SearchRecovers

CHECK_DEADLOCK FALSE
