CONSTANTS
    v1 = v1  v2 = v2  r1 = r1  r2 = r2  cs1 = cs1  n1 = n1  n2 = n2
    s1 = s1  s2 = s2  c1 = c1  c2 = c2  p1 = p1  p2 = p2
    None = None
    Verifiers <- MCVerifiers
    RedirectURIs <- MCRedirectURIs
    ClientStates <- MCNoClientStates
    Nonces <- MCNonces
    States <- MCStates
    Codes <- MCCodes
    Procs <- MCProcs
    MaxVPs <- MCMaxVPs
SPECIFICATION Spec
SYMMETRY Symmetry
INVARIANTS
    TypeOK
    AcceptedNonceBurned
    TokenBoundToAuthorization
    AcceptedPresentationsAgree
    ErrorRedirectToRequester
PROPERTY
    GrantSpec
CHECK_DEADLOCK FALSE
