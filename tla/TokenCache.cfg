SPECIFICATION FairSpec
CONSTANTS
    Hosts = {h1, h2}
    Requests = {q1, q2}
    None = None
    TTL = 2
    MaxTokens = 2
    MaxFaults = 1
INVARIANTS TypeOK CachedHostIsOwner StaleBounded
PROPERTIES EventuallyRefused
