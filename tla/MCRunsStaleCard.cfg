CONSTANTS
    Names <- MCNames
    NeedsApproval = {}
    Drafts <- OnePlan
    Fences <- MCFences
    MaxProposals = 1
    Registered <- MCRegistered
    Threads = {t1}
    ChatOf <- OneChat
    ApiThreads = {}
    MaxClicks = 3
    MaxRestarts = 0
    Answers = {"approve"}
    ClickOnce = FALSE

SPECIFICATION Spec

INVARIANT OnlyApprovedPlansRun

CHECK_DEADLOCK FALSE
