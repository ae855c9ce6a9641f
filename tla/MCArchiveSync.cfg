CONSTANTS
    w1 = w1  w2 = w2  l1 = l1  l2 = l2  r1 = r1
    Window = {w1, w2}
    LocalEdit = {l1}
    RemoteEdit = {r1}
    Clash <- MCClash
    Older <- MCOlder
    None = None
    MaxTries = 2
    MaxFaults = 2
    MaxUser = 0
SPECIFICATION FairSpec
INVARIANTS TypeOK NoLocalEditLost NoCloudEditLost
PROPERTIES RecoveryUploads
CHECK_DEADLOCK FALSE
