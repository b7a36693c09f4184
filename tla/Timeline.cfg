\* Four posts at most, pages of one post, threads read up to one reply, two calls.
CONSTANTS
    ann = ann  body = body  c1 = c1  c2 = c2
    None = None
    Users = {ann}
    PostIds = {1, 2, 3, 4}
    Bodies = {body}
    Calls = {c1, c2}
    Tables <- MCTables
    Limit = 1
    RepliesLimit = 1
    MaxLimit = 2
SPECIFICATION TimelineSpec
INVARIANTS TimelineAgrees NothingSkipped NoneTwice RepliesHonest
SYMMETRY Symmetry
