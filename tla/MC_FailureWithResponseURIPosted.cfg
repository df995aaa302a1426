CONSTANTS
    q1 = q1  ex = ex  other = other  evil = evil
    iam = iam  one = one  two = two  cb = cb
    u1 = u1  u2 = u2  st = st
    None = None
    Requests <- MCRequests
    Hosts <- MCHosts
    HostExts <- MCHostExts
    Segments <- MCSegments
    WalletDIDs <- MCWalletDIDs
    Locations <- MCLocations
    ResponseURIs <- MCResponseURIs
    PublicURIs <- MCPublicURIs
    States <- MCStates
SPECIFICATION Spec
INVARIANTS
    FailureWithResponseURIPosted
CHECK_DEADLOCK FALSE
