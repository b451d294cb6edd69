SPECIFICATION Spec
CONSTANTS
    MaxOrgs = 2
    Emails = {e1, e2}
    Requests = {r1, r2}
    StripeSubs = {s1, s2}
    Regions = {th, sg, jp}
    DefaultRegion = th
    HostLimit = 1
    Included = 1
    Extra = 0
    None = None
    MaxRequests = 5
    MaxFaults = 1
SYMMETRY Symmetry
INVARIANTS TypeOK HostsBounded RegionsBounded RowConsistent NoOrphanData InvoicesExact LatestShows
CHECK_DEADLOCK FALSE
