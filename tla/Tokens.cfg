SPECIFICATION FairTSpec
CONSTANTS
    Workers = {w1, w2}
    Operations = {"launch", "token", "call", "keyset", "view", "rotate"}
    Retried = {"token", "call"}
    ToolKeys = {"url", "t1"}
    SigningKeys = {"t1", "t2"}
    MaxKeys = 4
    MaxRequests = 2
    None = None
    Scopes = {"lineitem", "acs"}
    TokenScopes = {"lineitem"}
    Endpoints <- SomeEndpoints
    KeysetUrl = "url"
    MaxFaults = 1
INVARIANT TypeOK
INVARIANT KeyPairMatches
INVARIANT ServedWithinScope
PROPERTY TokensAreHonoured
PROPERTY RevokedStaysRevoked
PROPERTY ToolIsServed
CHECK_DEADLOCK FALSE
