\* A thread of three posts, two users, three statements at a time.
CONSTANTS
    ann = ann  bob = bob
    p1 = p1  p2 = p2  p3 = p3  p4 = p4
    w1 = w1  w2 = w2  w3 = w3
    None = None
    Users = {ann, bob}
    PostIds = {p1, p2, p3}
    Writers = {w1, w2, w3}
    Bodies <- MCBodies
    MaxBody = 4
SPECIFICATION FairPostSpec
INVARIANTS ThreadsIntact EveryPostListed
PROPERTIES ImplementsThreads WritesFinish
CHECK_DEADLOCK FALSE
