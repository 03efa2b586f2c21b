SPECIFICATION Spec
CONSTANTS
    a1 = a1
    r1 = r1
    r2 = r2
    Accounts <- MCAccounts
    Requests <- MCRequests
    NoAccount = NoAccount
    NoRequest = NoRequest
    MaxHandles = 3
    MaxResets = 1
    MaxMail = 1
INVARIANTS
    TypeOK
    OneHandlePerLogin
    ResetEndsSessions
    NoSelfReplay
    SessionCanBeRenewed
SYMMETRY MCSymmetry
