SPECIFICATION RegistrationSpec
CONSTANTS
    Serials = {s1}
    Macs = {m1}
    NoSerial = NoSerial
    Orgs = {o1, o2}
    DeviceIds = {d1, d2}
    Tokens = {t1, t2}
    Beats = {}
    NoDevice = NoDevice
    NoToken = NoToken
    MaxMint = 3
    MaxTime = 0
    Workers = {w1}
    Caps = {2}
    Expiries = {0}
SYMMETRY Symmetry
CHECK_DEADLOCK FALSE
INVARIANTS
    NoDuplicateIdentity
    UseCountExact
