\* Two requests over the life of one process; a log buffer of two lines.
CONSTANTS
    r1 = r1  r2 = r2
    ann = ann
    None = None
    Requests = {r1, r2}
    Users = {ann}
    Grace = 2
    Room = 2
SPECIFICATION FairServingSpec
INVARIANTS CutShortOnlyLate LogsComplete LinesTellAnswers
PROPERTIES Stops
CHECK_DEADLOCK FALSE
