CONSTANTS
    ann = ann
    bob = bob
    t1 = t1
    t2 = t2
    t3 = t3
    r1 = r1
    r2 = r2
    None = None
    RefreshTTL = 1
    Handlers <- MCHandlers
    Emails <- OneEmail
    Handles <- OneHandle
    Passwords <- OnePassword
    Tokens <- MCTokens
    EndOfTime = 0
    Patient <- Nobody
SPECIFICATION AuthSpec
INVARIANT RotatedOnce
