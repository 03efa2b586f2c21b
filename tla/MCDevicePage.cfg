SPECIFICATION Spec
CONSTANTS
    alice = alice  M = M  image1 = image1  image2 = image2  sig = sig
    unit = unit
    Owner = alice
    Owners = {alice}
    Models = {M}
    Versions <- MCVersions
    Images = {image1, image2}
    Signatures = {sig}
    Releases <- MCReleases
    Devices = {unit}
    DeviceModel <- MCModel
    Interval <- MCInterval
    Never = Never  NoRow = NoRow  NoVersion = NoVersion  Unread = Unread  Torn = Torn  Blank = Blank
    InitialRows <- MCRows
    InitialFirmware <- MCFirmware
    Told <- MCTold
    Moments = {0, 15}
    MaxPolls = 2
    MaxEvents = 2
INVARIANTS TypeOK CardsMatchRows
PROPERTY PageCatchesUp
