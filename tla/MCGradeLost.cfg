CONSTANTS
    u1 = u1  g1 = g1  g2 = g2 g3 = g3  n1 = n1  n2 = n2 n3 = n3  w1 = w1  w2 = w2  a1 = a1  s1 = s1
    User = {u1}
    Guest = {g1, g2, g3}
    Generation = {n1, n2, n3}
    GuestOwner = GuestOwner
    Ambiguous = Ambiguous
    None = None
    Window = {w1, w2}
    Attempt = {a1}
    Session = {s1}
    SessionOf <- MCSessionOf
    MaxTries = 2
    MaxLost = 1
    MaxEdits = 1
    MaxClears = 1
SPECIFICATION MCSpec
INVARIANT AnswerCountedOnce
CHECK_DEADLOCK FALSE
