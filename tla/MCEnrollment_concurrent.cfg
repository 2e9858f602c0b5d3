SPECIFICATION EnrollmentSpec
CONSTANTS
    Serials = {s1}
    Macs = {}
    NoSerial = NoSerial
    Orgs = {o1}
    DeviceIds = {d1, d2}
    Tokens = {}
    Beats = {}
    NoDevice = NoDevice
    NoToken = NoToken
    MaxMint = 2
    MaxTime = 1
    Keys = {k1}
    Requests = {r1}
    Submits = {sub1}
    Reviews = {v1, v2}
    Polls = {p1, p2, p3}
    KeyExpiries = {0, 1}
    NoKey = NoKey
    NoRequest = NoRequest
    TTL = 1
SYMMETRY Symmetry
CHECK_DEADLOCK FALSE
INVARIANTS
    IssuedOnlyAfterApproval
PROPERTIES
    KeyRevocationIsPermanent
