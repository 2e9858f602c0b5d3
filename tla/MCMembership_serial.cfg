SPECIFICATION Spec
CONSTANTS
    Users = {u1, u2, u3}
    Sessions = {s1}
    NoUser = NoUser
    MaxRow = 2
SYMMETRY Symmetry
INVARIANTS
    AlwaysAnOwner
