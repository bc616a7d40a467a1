CONSTANTS
    Names <- MCNames
    NeedsApproval = {}
    Drafts <- OnePlan
    Fences <- MCFences
    MaxProposals = 1
    Registered <- MCRegistered
    Threads = {t1, t2}
    ChatOf <- OneChat
    ApiThreads = {t2}
    MaxClicks = 2
    MaxRestarts = 1
    Answers = {"approve"}
    ClickOnce = TRUE

SPECIFICATION FairSpec

INVARIANTS
    TypeOK
    IncidentsLeadToRuns
    ChatCardsFindTheirRuns
    TwoApprovals
    OneOwner

PROPERTY AnswersAreHeard

CHECK_DEADLOCK FALSE
