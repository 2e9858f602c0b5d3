SPECIFICATION Spec
CONSTANTS
    Users = {u1, u2}
    Sessions = {s1, s2}
    NoUser = NoUser
    MaxRow = 1
SYMMETRY Symmetry
INVARIANTS
    AlwaysAnOwner
