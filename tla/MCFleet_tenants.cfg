SPECIFICATION FleetSpec
CONSTANTS
    Serials = {s1}
    Macs = {}
    NoSerial = NoSerial
    Orgs = {o1, o2}
    DeviceIds = {d1, d2}
    Tokens = {t1}
    Beats = {}
    NoDevice = NoDevice
    NoToken = NoToken
    MaxMint = 2
    MaxTime = 0
    Workers = {w1}
    Caps = {0}
    Expiries = {0}
    Keys = {k1}
    Requests = {r1}
    Submits = {sub1}
    Reviews = {v1}
    Polls = {p1}
    KeyExpiries = {0}
    NoKey = NoKey
    NoRequest = NoRequest
    TTL = 0
SYMMETRY Symmetry
CHECK_DEADLOCK FALSE
INVARIANTS
    TokenOwnsItsDevices
    ClaimedDeviceInTenant
    IssuedOnce
PROPERTIES
    ReviewIsFinal
