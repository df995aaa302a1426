------------------------- MODULE MCOpenID4VPConsent -------------------------
EXTENDS OpenID4VPConsent

CONSTANTS o1, o2, i1, i2

MCOwners == {o1, o2}
MCSessionIDs == {i1, i2}

=============================================================================
