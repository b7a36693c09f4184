CONSTANTS
    u1 = u1
    u2 = u2
    Member = u1
    t1 = t1  t2 = t2
    c1 = c1  c2 = c2
    l1 = l1
    NoTask = NoTask
    MaxInt = 3
    LastDay = 2
    Users <- MCUsers
    UserIds <- MCUsers
    Admins <- MCAdmins
    BadTitles <- MCNone
    RawInputs <- MCRawInputs
    Tasks <- MCTasks
    Editors <- MCNone
    Completers <- MCCompleters
    Loads <- MCLoads
    Seed <- MCSeed
SPECIFICATION DailySpec
SYMMETRY Symmetry
INVARIANTS DailyTypeOK NothingMissed PageAgrees DailyAgrees CompletedOnDueDay
