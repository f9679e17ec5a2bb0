SPECIFICATION InboundSpec
CONSTANTS
    r1 = r1
    r2 = r2
    p = p
    q = q
    Runs = {r1, r2}
    NoRun = NoRun
    Paths = {p, q}
    Methods = {"GET", "POST"}
    Bodied = {"POST"}
    Mocks <- MCMocks
    Requests = {c1}
    NoRequest = NoRequest
    MaxRunKeys = 1
    MaxArms <- MCMaxArms
    Modes <- MCModes
INVARIANTS OnlyNamedRunTouched TablesFollowRun
