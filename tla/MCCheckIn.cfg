SPECIFICATION Spec
CONSTANTS
    r1 = r1  r2 = r2
    unit = unit  stranger = stranger
    alice = alice  bob = bob
    M = M  N = N  image1 = image1  image2 = image2  sig = sig
    NoRow = NoRow  NoVersion = NoVersion  NoCall = NoCall
    Requests = {r1, r2}
    Devices = {unit, stranger}
    Owners = {alice, bob}
    Models = {M, N}
    Versions <- VersionsDef
    Images = {image1, image2}
    Releases <- ReleasesDef
    Signatures = {sig}
    Calls <- CallsDef
    Registrations <- RegistrationsDef
    MaxLog <- MaxLogDef
SYMMETRY Symmetry
INVARIANTS TypeOK OfferFits RepeatsBounded DownloadsWereOffered HistoryExplainsRow
