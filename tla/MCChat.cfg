CONSTANTS
    Plugins = {"prom.query", "shell.exec", "restart_pod"}
    Unknown = {}
    Diagnostic <- MCDiagnostic
    Shell = "shell.exec"
    Common = {"prom.query"}
    Categories <- MCCategories
    Related <- MCRelated
    Texts <- MCTexts
    Threshold = 70
    MaxTools = 6
    MaxTurns = 4
    MaxUses = 2
    MaxToggles = 1
    Messages <- MCMessages
    MaxClicks = 2
    MaxRestarts = 1
SPECIFICATION FairSpec
INVARIANTS
    TypeOK
    EveryUseIsAnswered
    InvestigationConcludes
    EvidenceIsWhatReturned
    EveryEndIsTold
    WaitingIsAskedFor
    ResultsAreFinal
PROPERTY AlertIsAnswered
CHECK_DEADLOCK FALSE
