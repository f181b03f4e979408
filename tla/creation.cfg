\* Two creators and three requests over midnight, serials of two bits.
CONSTANTS
    c1 = c1
    c2 = c2
    s = s
    t = t
    Creators = {c1, c2}
    Scopes = {s, t}
    Names <- OneName
    Radix = 2
    Last = 3
    MaxDay = 2
    MaxRequests = 3
SPECIFICATION Spec
INVARIANTS
    TypeOK
    OneTaskPerRequest
    AgentFindsItsTask
CHECK_DEADLOCK FALSE
