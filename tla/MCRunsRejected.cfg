CONSTANTS
    Names <- MCNames
    NeedsApproval = {}
    Drafts <- OnePlan
    Fences <- MCFences
    MaxProposals = 1
    Registered <- MCRegistered
    Threads = {t1}
    ChatOf <- OneChat
    ApiThreads = {}
    MaxClicks = 3
    MaxRestarts = 1
    Answers = {"approve", "reject"}
    ClickOnce = FALSE

SPECIFICATION Spec

INVARIANT RejectionCarriesOutNothing

CHECK_DEADLOCK FALSE
