SPECIFICATION RSpec
CONSTANTS
    A = A
    B = B
    H = H
    N = N
    U = U
    V = V
    X = X
    m1 = m1
    m2 = m2
    sB = sB
    sK = sK
    sH = sH
    sN = sN
    sU = sU
    sV = sV
    sX = sX
    Images = {A, B, H, N, U, V, X}
    Models = {m1, m2}
    Versions <- MCVersions
    Labels <- MCLabels
    Signatures = {sB, sK, sH, sN, sU, sV, sX}
    BuildModel <- MCBuildModel
    BuildVersion <- MCBuildVersion
    Reported <- MCReported
    DeviceReads <- MCDeviceReads
    Covers <- MCCovers
    OtherKey = {sK}
    HasDigest = {A, H, N, U, X}
    ConfigReaders = {A, B, N, U, V, X}
    Boots = {A, B, H, U, V, X}
    Factory = A
    Owner = Owner
    Releases <- MCReleases
    MaxRows = 2
    MaxTrouble = 1
    NoManifest = NoManifest
    NoSignature = NoSignature
    NoVersion = NoVersion
    NoFile = NoFile
    Partial = Partial
CHECK_DEADLOCK FALSE
INVARIANT
    RefusedForCause
PROPERTIES
    Settles
    StallIsShown
