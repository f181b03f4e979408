\* One creator that fills the day's padded serials, of two bits here.
CONSTANTS
    c1 = c1
    s = s
    Creators = {c1}
    Scopes = {s}
    Names <- NoNames
    Radix = 2
    Last = 3
    MaxDay = 1
    MaxRequests = 4
SPECIFICATION Spec
INVARIANTS
    NextIdIsNew
CHECK_DEADLOCK FALSE
