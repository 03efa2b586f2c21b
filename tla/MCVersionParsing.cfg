SPECIFICATION VSpec
CONSTANTS
    IntMax = 16
    MaxSafe = 31
    Doubles <- SmallDoubles
    MaxDigits = 3
    Published <- Releases
    Reported <- Reports
INVARIANTS
    OfferAgreement
    DashboardAgreement
