SPECIFICATION Spec
CONSTANTS
    u1 = u1  u2 = u2  u3 = u3
    alice = alice  bob = bob
    M = M  N = N  V = V  W = W
    tagged = tagged  plain = plain
    keyA = keyA  keyB = keyB
    sTagged = sTagged  sPlain = sPlain  sPlainW = sPlainW
    sBob = sBob  sForged = sForged
    Blank = Blank  NoTag = NoTag  NoKey = NoKey
    Uploads = {u1, u2, u3}
    Owners = {alice, bob}
    Models = {M, N}
    Versions = {V, W}
    Images = {tagged, plain}
    Keys = {keyA, keyB}
    Signatures = {sTagged, sPlain, sPlainW, sBob, sForged}
    WellFormed = {tagged, plain}
    Tag <- TagDef
    Publishable <- PublishableDef
    SignedBy <- SignedByDef
    Covers <- CoversDef
    Forms <- FormsDef
    Releases <- ReleasesDef
SYMMETRY Symmetry
INVARIANTS TypeOK RowsHaveBlob RowsVerified ConflictsExplained TornOnlyByReupload
PROPERTY KeepsCatalogue
