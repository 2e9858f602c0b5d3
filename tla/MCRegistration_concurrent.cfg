SPECIFICATION RegistrationSpec
CONSTANTS
    Serials = {s1}
    Macs = {m1}
    NoSerial = NoSerial
    Orgs = {o1}
    DeviceIds = {d1, d2}
    Tokens = {t1}
    Beats = {h1}
    NoDevice = NoDevice
    NoToken = NoToken
    MaxMint = 3
    MaxTime = 1
    Workers = {w1, w2}
    Caps = {1}
    Expiries = {0, 1}
SYMMETRY Symmetry
CHECK_DEADLOCK FALSE
INVARIANTS
    UseCountWithinCap
    UseCountNeverOvercounts
PROPERTIES
    TokenRevocationIsPermanent
    SupersededCredentialStaysDead
    DisabledUntilReenabled
