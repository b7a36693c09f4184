\* A second of two ticks; tokens live for a second and a half.
CONSTANTS
    ann = ann  bob = bob  nobody = nobody
    k1 = k1  k2 = k2  h1 = h1  h2 = h2
    None = None
    Users = {ann, bob}
    UserIds = {ann, bob, nobody}
    Keys = {k1, k2}
    Handlers = {h1, h2}
    Second = 2
    AccessTTL = 3
    Skew = 0
    EndOfTime = 5
    Tokens <- MCTokens
    Requests <- MCRequests
SPECIFICATION CredSpec
SYMMETRY Symmetry
INVARIANTS ActsForOwner HeadersDecide FormsAccepted KeysGiven AccessWindow
CHECK_DEADLOCK FALSE
