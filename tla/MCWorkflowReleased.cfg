CONSTANTS
    Names <- MCNames
    NeedsApproval = {"shell"}
    Drafts <- MCDrafts
    Fences <- MCFences
    MaxProposals = 2
    Registered <- MCRegistered

SPECIFICATION FairSpec

INVARIANT ReleasedPlanRuns


CHECK_DEADLOCK FALSE
