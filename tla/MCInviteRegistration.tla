------------------------ MODULE MCInviteRegistration ------------------------
EXTENDS InviteRegistration, TLC
CONSTANTS a, b, g1, g2, g3, g4, n1, n2, n3, n4, w1, w2, i1, i2, i3

Symmetry == Permutations(User) \cup Permutations(Window)
=============================================================================
