\* The same token presented twice at the same time.
CONSTANTS
    u1 = u1  u2 = u2  f1 = f1  f2 = f2  k1 = k1  k2 = k2  k3 = k3  k4 = k4  s1 = s1  s2 = s2
    Users = {u1}
    Tokens = {k1, k2, k3}
    Families = {f1}
    Slots = {s1, s2}
    NoToken = NoToken
    NoRequest = NoRequest
SPECIFICATION Spec
SYMMETRY Symmetry
INVARIANTS
    ExchangedOnce
