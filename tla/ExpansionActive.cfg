\* One request after another, and an organization that is deleted in between.
SPECIFICATION Spec
CONSTANTS
    Requests = {r1}
    s1 = s1
    o1 = o1
    o2 = o2
    k1 = k1
    k2 = k2
    c1 = c1
    d1 = d1
    v1 = v1
    Subs = {s1}
    Orgs = {o1, o2}
    Claims = {k1, k2}
    Clients = {c1}
    Devices = {d1}
    Releases = {v1}
    None = None
    Tokens <- MCTokens
    MaxKey = 3
    MaxEdits = 2
CHECK_DEADLOCK FALSE
PROPERTY ActiveOrganization
