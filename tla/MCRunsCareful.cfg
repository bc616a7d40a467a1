CONSTANTS
    Names <- MCNames
    NeedsApproval = {}
    Drafts <- OnePlan
    Fences <- MCFences
    MaxProposals = 2
    Registered <- MCRegistered
    Threads = {t1}
    ChatOf <- OneChat
    ApiThreads = {}
    MaxClicks = 4
    MaxRestarts = 0
    Answers = {"approve", "reject"}
    ClickOnce = TRUE

SPECIFICATION Spec

INVARIANTS
    OnlyApprovedPlansRun
    OncePerAnswer
    RejectionCarriesOutNothing

CHECK_DEADLOCK FALSE
