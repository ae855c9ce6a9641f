CONSTANTS
    w1 = w1  w2 = w2  l1 = l1  l2 = l2  r1 = r1
    Window = {w1}
    LocalEdit = {l1, l2}
    RemoteEdit = {r1}
    Clash <- MCClash
    Older <- MCOlder
    None = None
    MaxTries = 2
    MaxFaults = 1
    MaxUser = 3
SPECIFICATION Spec
INVARIANTS  AppliedOnce
PROPERTIES NoUploadBeforeChoice
CHECK_DEADLOCK FALSE
