CONSTANTS
    u1 = u1
    u2 = u2
    u9 = u9
    t1 = t1
    e1 = e1
    c1 = c1
    c2 = c2
    NoTask = NoTask
    MaxInt = 3
    LastDay = 2
    Users <- MCUsers
    UserIds <- MCUserIds
    Admins <- MCAdmins
    BadTitles <- MCBadTitles
    RawInputs <- MCRawInputs
    Tasks <- MCTasks
    Editors <- MCEditors
    Completers <- MCCompleters
    Seed <- MCSeed
SPECIFICATION FairSpec
INVARIANTS
    PointsMatchCompletions
    CompletedOncePerDay
PROPERTIES
    ImplementsLedger
    CompletionsFinish
