CONSTANTS
    e1 = e1  e2 = e2  a = a  b = b  c = c  r1 = r1
    None = None
    Endpoints <- MCEndpoints
    Certs <- MCCerts
    CRL <- MCCRL
    MaxVersion <- MCMaxVersion
    MaxSyncs <- MCMaxSyncs
    Readers <- MCReaders
    BitSetSize <- MCBitSetSize
    HashWidth <- MCHashWidth
    CertHash <- MCCertHash
    OverflowResult <- MCOverflowSaturate
SPECIFICATION Spec
INVARIANTS
    TypeOK
    FilterCoversLists
    IsRevokedNoFalseNegative
PROPERTY
    ListsNeverRegress
    RevocationSpec
CHECK_DEADLOCK FALSE
