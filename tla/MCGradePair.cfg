CONSTANTS
    g1 = g1  n1 = n1  w1 = w1  w2 = w2  a1 = a1  a2 = a2  s1 = s1  s2 = s2
    User = {}
    Guest = {g1}
    Generation = {n1}
    GuestOwner = GuestOwner
    Ambiguous = Ambiguous
    None = None
    Window = {w1, w2}
    Attempt = {a1, a2}
    Session = {s1, s2}
    SessionOf <- MCSessionOf
    MaxTries = 3
    MaxLost = 2
    MaxEdits = 2
    MaxClears = 1
SPECIFICATION Spec
INVARIANTS NoEditLost
CHECK_DEADLOCK FALSE
