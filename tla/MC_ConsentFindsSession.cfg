CONSTANTS
    o1 = o1
    o2 = o2
    i1 = i1
    i2 = i2
    NoDID = NoDID
    None = None
    Owners <- MCOwners
    SessionIDs <- MCSessionIDs
SPECIFICATION Spec
INVARIANT ConsentFindsSession
