------------------------- MODULE MCOpenID4VPWallet -------------------------
(* Model-checking instance of OpenID4VPWallet.  The wallet is              *)
(* did:web:ex:iam:one, served at https://ex/iam/one.  The verifier may     *)
(* answer a post with a location below that URL, beside it on the same     *)
(* host, on a host that extends "ex" (https://ex.evil/...), or on another   *)
(* host.  One request suffices: the handler keeps nothing between requests. *)
EXTENDS OpenID4VPWallet, TLC

CONSTANTS q1, ex, other, evil, iam, one, two, cb, u1, u2, st

MCRequests     == {q1}
MCHosts        == {ex, other}
MCHostExts     == {evil}
MCSegments     == {iam, one, two, cb}
MCWalletDIDs   == {[host |-> ex, path |-> <<iam, one>>]}
MCLocations    == {<<ex, iam, one, cb>>, <<ex, iam, one>>, <<ex, iam, two>>,
                   <<ex, evil, iam, one, cb>>, <<other, iam, one, cb>>}
MCResponseURIs == {u1, u2}
MCPublicURIs   == {u1}
MCStates       == {st}
=============================================================================
