CONSTANTS
    u1 = u1
    u2 = u2
    u9 = u9
    bad = bad
    t1 = t1
    t2 = t2
    e1 = e1
    e2 = e2
    c1 = c1
    c2 = c2
    NoTask = NoTask
    MaxInt = 3
    Users <- MCUsers
    UserIds <- MCUserIds
    Admins <- MCAdmins
    Tasks <- MCTasks
    Editors <- MCEditors
    Calls <- MCCalls
    BadTitles <- MCBadTitles
    RawInputs <- MCRawInputs
    Seed <- MCSeed
SPECIFICATION FairListSpec
INVARIANTS
    AssignmentsMatchRow
    RowsComeDue
    ListAgrees
PROPERTY EditsFinish
