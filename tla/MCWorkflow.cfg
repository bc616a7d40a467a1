CONSTANTS
    Names <- MCNames
    NeedsApproval = {"shell"}
    Drafts <- MCDrafts
    Fences <- MCFences
    MaxProposals = 2
    Registered <- MCRegistered

SPECIFICATION FairSpec

INVARIANTS
    TypeOK
    ConsentBeforeExecution
    CriticalNeverRuns
    RejectedNeverRuns
    ApprovedPlanRuns

PROPERTIES
    QuotaBoundsTheLoop
    ImplementsGate

CHECK_DEADLOCK FALSE
