SPECIFICATION Spec
CONSTANTS
    a1 = a1
    r1 = r1
    r2 = r2
    Accounts <- MCAccounts
    Requests <- MCRequests
    NoAccount = NoAccount
    NoRequest = NoRequest
    MaxHandles = 3
    MaxResets = 1
    MaxMail = 1
PROPERTY
    LogoutHolds
