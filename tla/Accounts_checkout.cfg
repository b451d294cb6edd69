SPECIFICATION Spec
CONSTANTS
    MaxOrgs = 2
    Emails = {e1, e2}
    Requests = {r1}
    StripeSubs = {s1}
    Regions = {th}
    DefaultRegion = th
    HostLimit = 1
    Included = 1
    Extra = 10
    None = None
    MaxRequests = 3
    MaxFaults = 0
INVARIANTS SubscriptionIsOwn
CHECK_DEADLOCK FALSE
