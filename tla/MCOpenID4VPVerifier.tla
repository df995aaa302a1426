------------------------ MODULE MCOpenID4VPVerifier ------------------------
(* Model-checking instance of OpenID4VPVerifier: model values for the      *)
(* DIDs, redirect URIs, generated values and goroutines.                   *)
EXTENDS OpenID4VPVerifier, TLC

CONSTANTS v1, v2, r1, r2, cs1, n1, n2, s1, s2, c1, c2, p1, p2

MCVerifiers    == {v1}
\* Two tenants on one node.
MCTenants      == {v1, v2}
MCRedirectURIs == {r1, r2}
MCClientStates == {cs1}
\* Clients that send no state: the passing run's properties never read it.
MCNoClientStates == {}
MCNonces       == {n1, n2}
MCStates       == {s1, s2}
MCCodes        == {c1, c2}
MCProcs        == {p1, p2}
MCMaxVPs       == 2

\* Every value is only compared for equality, so renaming them is sound.
Symmetry ==
    Permutations(MCRedirectURIs) \cup Permutations(MCNonces)
        \cup Permutations(MCStates) \cup Permutations(MCCodes) \cup Permutations(MCProcs)
=============================================================================
