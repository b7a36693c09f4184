\* A body of three characters and seven bytes, where four is the limit.
CONSTANTS
    ann = ann  bob = bob
    p1 = p1  p2 = p2  p3 = p3  p4 = p4
    w1 = w1  w2 = w2  w3 = w3
    None = None
    Users = {ann}
    PostIds = {p1, p2}
    Writers = {w1}
    Bodies <- MCBodies
    MaxBody = 4
SPECIFICATION PostSpec
INVARIANT BodiesOfLengthAccepted
CHECK_DEADLOCK FALSE
