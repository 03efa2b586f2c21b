SPECIFICATION Spec
CONSTANTS
    tagged = tagged
    plain = plain
    k1 = k1
    k2 = k2
    l1 = l1
    l2 = l2
    Files <- MCFiles
    Labels = {l1, l2}
    Tag <- MCTag
    Keys = {k1, k2}
    BadKey = BadKey
    AccountKey = k1
    HandSignatures <- MCHandSignatures
    NoFile = NoFile
    NoTag = NoTag
    NoKey = NoKey
    NoSignature = NoSignature
    Blank = Blank
    MaxReads = 2
    MaxImports = 2
INVARIANT
    NoLeftovers
