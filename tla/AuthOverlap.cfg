CONSTANTS
    ann = ann
    bob = bob
    t1 = t1
    t2 = t2
    t3 = t3
    r1 = r1
    r2 = r2
    None = None
    RefreshTTL = 1
    Handlers <- MCHandlers
    Emails <- TwoEmails
    Handles <- MCHandles
    Passwords <- MCPasswords
    Tokens <- MCTokens
    EndOfTime = 1
    Patient <- Bob
SPECIFICATION AuthSpec
SYMMETRY TokenSymmetry
INVARIANTS
    OneLiveTokenPerSession
    LogoutEndsSession
    RotationAtomic
    SuccessorsSound
PROPERTY RevokedForGood
