SPECIFICATION Spec
CONSTANTS
    ada = ada  bob = bob
    partner = partner  session = session
    old = old  new = new  own = own
    p1 = p1  p2 = p2
    Ids = {partner, session}
    Tokens = {old, new, own}
    Users = {ada, bob}
    Passwords = {p1, p2}
    Contents <- MCContents
    EnvTokens <- MCEnvTokens
    Configs <- Deployments
    RefreshSecs = 1
    Horizon = 2
    MaxRotations = 1
    Ttl = 0
    Requests <- MCRequests
    Nothing = Nothing  Malformed = Malformed
INVARIANT JwtOpensDashboard
CHECK_DEADLOCK FALSE
