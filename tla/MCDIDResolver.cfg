CONSTANTS
    a = a  b = b  c = c
    None = None
    NotFound = NotFound
    DIDs <- MCDIDs
    Docs <- MCDocs
    MaxControllerDepth <- MCMaxControllerDepth
    MaxServiceDepth <- MCMaxServiceDepth
SPECIFICATION Spec
INVARIANTS
    TypeOK
    ResolveSound
    ServiceMatchesReferenceChain
