------------------------ MODULE AuthorizationCodeGrant ------------------------
(***************************************************************************)
(* What the verifier of the holder-initiated OpenID4VP flow promises its   *)
(* clients, in the terms of the spec (section 3): an /authorize request is *)
(* granted a session under a fresh nonce; a presentation accepted for a    *)
(* granted nonce binds a fresh authorization code to that nonce; a token   *)
(* is issued only for a bound code and only to the redirect_uri and        *)
(* client identifier recorded with the session.  Nothing here says how     *)
(* often a nonce or a code is used: that is where the detailed             *)
(* specification, OpenID4VPVerifier, departs from the spec.                *)
(***************************************************************************)
EXTENDS Naturals

CONSTANTS
    Sessions,       \* session contents: records with a redirect and a client
    RedirectURIs,   \* redirect_uri values a client can send
    Clients,        \* client_id values a client can send
    Nonces,
    Codes,
    None

VARIABLES
    grant,      \* the session granted under each nonce, or None
    issued,     \* <<code, nonce>>: the code bound to the nonce's session
    tokens      \* the tokens issued, as [code, client, redirect]

vars == <<grant, issued, tokens>>

Init ==
    /\ grant = [n \in Nonces |-> None]
    /\ issued = {}
    /\ tokens = {}

\* An /authorize request is granted session sess under a nonce never used.
Authorize(n, sess) ==
    /\ grant[n] = None
    /\ grant' = [grant EXCEPT ![n] = sess]
    /\ UNCHANGED <<issued, tokens>>

\* A presentation accepted for granted nonce n binds the fresh code c.
Accept(n, c) ==
    /\ grant[n] # None
    /\ \A m \in Nonces : <<c, m>> \notin issued
    /\ issued' = issued \cup {<<c, n>>}
    /\ UNCHANGED <<grant, tokens>>

\* A token for code c, requested with redirect r by client, is issued when
\* c is bound to a session recorded with that redirect and client.
Redeem(c, r, client) ==
    /\ \E n \in Nonces :
          /\ <<c, n>> \in issued
          /\ grant[n].redirect = r
          /\ grant[n].client = client
    /\ tokens' = tokens \cup {[code |-> c, client |-> client, redirect |-> r]}
    /\ UNCHANGED <<grant, issued>>

Next ==
    \/ \E n \in Nonces, sess \in Sessions : Authorize(n, sess)
    \/ \E n \in Nonces, c \in Codes : Accept(n, c)
    \/ \E c \in Codes, r \in RedirectURIs, client \in Clients : Redeem(c, r, client)

Spec == Init /\ [][Next]_vars

=============================================================================
