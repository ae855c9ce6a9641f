CONSTANTS
    a = a  b = b  g1 = g1  g2 = g2  g3 = g3  g4 = g4  n1 = n1  n2 = n2  n3 = n3  n4 = n4
    w1 = w1  w2 = w2  i1 = i1  i2 = i2  i3 = i3
    User = {a, b}
    Guest = {g1, g2, g3, g4}
    Generation = {n1, n2, n3, n4}
    GuestOwner = GuestOwner
    Ambiguous = Ambiguous
    None = None
    Window = {w1, w2}
    Id = {i1, i2, i3}
    MaxActions = 2
    MaxMishaps = 1
SPECIFICATION Spec
INVARIANTS TypeOK
PROPERTIES CapturedOneOwner RedeemedIsKept
SYMMETRY Symmetry
CHECK_DEADLOCK FALSE
