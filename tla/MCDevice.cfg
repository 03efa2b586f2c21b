SPECIFICATION HSpec
CONSTANTS
    A = A
    B = B
    U = U
    X = X
    m1 = m1
    m2 = m2
    sB = sB
    sU = sU
    sX = sX
    Images = {A, B, U, X}
    Models = {m1, m2}
    Versions <- MCVersions
    Signatures = {sB, sU, sX}
    BuildModel <- MCBuildModel
    BuildVersion <- MCBuildVersion
    Covers <- MCCovers
    HasDigest = {A, B, U, X}
    ConfigReaders = {A, U, X}
    Factory = A
    NoManifest = NoManifest
    NoSignature = NoSignature
    NoVersion = NoVersion
    NoFile = NoFile
    Partial = Partial
INVARIANTS
    TypeOK
    BootSlotComplete
    TrialKeepsFallback
    SkippedIsRunning
    RetryBudget
PROPERTIES
    UpdateLeavesNothing
    KeepsPromise
    NeverSuppressesAFix
