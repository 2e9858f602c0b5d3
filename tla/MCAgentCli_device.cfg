SPECIFICATION Spec
CONSTANTS
    Commands = {c1}
    Requests = {r1, r2}
    NoRequest = NoRequest
    MaxCred = 2
    MaxDevice = 2
    MaxPolls = 2
    MaxKills = 1
INVARIANTS
    TypeOK
    NewestCredentialStored
    IdentityMatchesCredential
PROPERTIES
    ClaimGivenUpOnlyWhenOver
    SecretsAdvance
    CommandEnds
