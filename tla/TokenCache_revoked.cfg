SPECIFICATION Spec
CONSTANTS
    Hosts = {h1}
    Requests = {q1}
    None = None
    TTL = 2
    MaxTokens = 2
    MaxFaults = 0
INVARIANTS RefusedOnceRevoked
