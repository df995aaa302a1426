---------------------- MODULE OpenID4VPVerifierBindings ----------------------
(***************************************************************************)
(* Proofs, for every value of the constants, that what the verifier hands  *)
(* out goes back to the party that asked for it: every access token and    *)
(* every error redirect carries the redirect_uri (and, for a token, the    *)
(* client_id) of the /authorize request it descends from.                  *)
(***************************************************************************)
EXTENDS OpenID4VPVerifierRefinement

\* A client state in the store holds the session of some /authorize
\* request, the one that minted that state.
StateBound ==
    \A s \in States : stateStore[s] # None =>
        \E n \in Nonces : authorized[n] = stateStore[s] /\ stateStore[s].state = s

BInv ==
    /\ RInv
    /\ StateBound
    /\ TokenBoundToAuthorization
    /\ ErrorRedirectToRequester

-----------------------------------------------------------------------------

\* A nonce granted a session keeps it: /authorize only writes the history
\* of a nonce never generated before.
LEMMA GrantStable ==
    RInv /\ [Next]_vars =>
        \A n \in Nonces : authorized[n] # None => authorized'[n] = authorized[n]
<1> SUFFICES ASSUME RInv, [Next]_vars, NEW n \in Nonces, authorized[n] # None
             PROVE  authorized'[n] = authorized[n]
    OBVIOUS
<1>1. n \in used
    BY DEF RInv
<1>2. CASE \E v \in Verifiers, r \in RedirectURIs, cs \in ClientStates \cup {None},
                m \in Nonces, s \in States :
              HandleAuthorizeRequestFromHolder(v, r, cs, m, s)
    <2>1. PICK v \in Verifiers, r \in RedirectURIs, cs \in ClientStates \cup {None},
               m \in Nonces, s \in States :
              HandleAuthorizeRequestFromHolder(v, r, cs, m, s)
        BY <1>2
    <2>2. m # n
        BY <1>1, <2>1 DEF HandleAuthorizeRequestFromHolder
    <2>3. QED
        BY <2>1, <2>2 DEF HandleAuthorizeRequestFromHolder, RInv, TypeOK
<1>3. QED
    BY <1>2 DEF Next, vars, HandleAuthorizeResponseSubmission,
                RejectAuthorizeResponseSubmission, CompleteAuthorizeResponseSubmission,
                HandleAuthorizeResponseError, HandleAccessTokenRequest,
                ExpireNonce, ExpireState, ExpireCode

LEMMA InitBInv == Init => BInv
    BY InitRInv DEF Init, BInv, StateBound, TokenBoundToAuthorization,
                    ErrorRedirectToRequester

LEMMA NextBInv == BInv /\ [Next]_vars => BInv'
<1> SUFFICES ASSUME BInv, [Next]_vars PROVE BInv'
    OBVIOUS
<1>0. /\ RInv' /\ TypeOK /\ TypeOK'
      /\ \A n \in Nonces : authorized[n] # None => authorized'[n] = authorized[n]
      /\ accepted \subseteq accepted'
    BY NextRInv, GrantStable DEF BInv, RInv, Next, vars,
       HandleAuthorizeRequestFromHolder, HandleAuthorizeResponseSubmission,
       RejectAuthorizeResponseSubmission, CompleteAuthorizeResponseSubmission,
       HandleAuthorizeResponseError, HandleAccessTokenRequest,
       ExpireNonce, ExpireState, ExpireCode
\* Tokens and error redirects that were bound stay bound: their witnesses
\* stay accepted and granted.
<1>1. ASSUME NEW t \in tokens PROVE TokenBoundToAuthorization!(t)'
    <2>1. PICK a \in accepted : /\ a.code = t.code /\ authorized[a.nonce] # None
                                 /\ t.redirect = authorized[a.nonce].redirect
                                 /\ t.client = authorized[a.nonce].client
        BY DEF BInv, TokenBoundToAuthorization
    <2>2. a.nonce \in Nonces
        BY DEF BInv, RInv, TypeOK
    <2>3. QED
        BY <2>1, <2>2, <1>0
<1>2. ASSUME NEW e \in errorRedirects PROVE ErrorRedirectToRequester!(e)'
    <2>1. PICK n \in Nonces : /\ authorized[n] # None /\ authorized[n].state = e.state
                               /\ authorized[n].redirect = e.redirect
        BY DEF BInv, ErrorRedirectToRequester
    <2>2. QED
        BY <2>1, <1>0
<1>3. CASE \E v \in Verifiers, r \in RedirectURIs, cs \in ClientStates \cup {None},
                n \in Nonces, s \in States :
              HandleAuthorizeRequestFromHolder(v, r, cs, n, s)
    <2>1. PICK v \in Verifiers, r \in RedirectURIs, cs \in ClientStates \cup {None},
               n \in Nonces, s \in States :
              HandleAuthorizeRequestFromHolder(v, r, cs, n, s)
        BY <1>3
    <2> DEFINE sess == [client |-> v, state |-> s, redirect |-> r]
    <2>2. StateBound'
        <3>1. SUFFICES ASSUME NEW t \in States, stateStore'[t] # None
                       PROVE  \E m \in Nonces : authorized'[m] = stateStore'[t]
                                                /\ stateStore'[t].state = t
            BY DEF StateBound
        <3>2. CASE /\ nonceStore' = Put(nonceStore, n, sess)
                   /\ stateStore' = Put(stateStore, s, sess)
                   /\ t = s
            <4>1. authorized'[n] = sess /\ stateStore'[t] = sess
                BY <2>1, <3>2, <1>0 DEF HandleAuthorizeRequestFromHolder, Put, TypeOK
            <4>2. QED
                BY <4>1, <3>2
        <3>3. CASE \/ stateStore' = Put(stateStore, s, sess) /\ t # s
                   \/ UNCHANGED stateStore
            <4>1. stateStore'[t] = stateStore[t]
                BY <3>3, <1>0 DEF Put, TypeOK
            <4>2. PICK m \in Nonces : authorized[m] = stateStore[t] /\ stateStore[t].state = t
                BY <4>1, <3>1 DEF BInv, StateBound
            <4>3. QED
                BY <4>1, <4>2, <3>1, <1>0
        <3>4. QED
            BY <2>1, <3>2, <3>3 DEF HandleAuthorizeRequestFromHolder
    <2>3. UNCHANGED <<tokens, errorRedirects>>
        BY <2>1 DEF HandleAuthorizeRequestFromHolder
    <2>4. QED
        BY <2>2, <2>3, <1>0, <1>1, <1>2 DEF BInv, TokenBoundToAuthorization,
                                             ErrorRedirectToRequester
<1>4. CASE \E c \in Codes, r \in RedirectURIs, v \in Verifiers :
              HandleAccessTokenRequest(c, r, v)
    <2>1. PICK c \in Codes, r \in RedirectURIs, v \in Verifiers :
              HandleAccessTokenRequest(c, r, v)
        BY <1>4
    <2>2. PICK a \in accepted : a.code = c /\ authorized[a.nonce] = codeStore[c]
        BY <2>1 DEF HandleAccessTokenRequest, BInv, RInv
    <2>3. a.nonce \in Nonces
        BY DEF BInv, RInv, TypeOK
    <2>4. TokenBoundToAuthorization!([code |-> c, client |-> v, redirect |-> r])'
        BY <2>1, <2>2, <2>3, <1>0 DEF HandleAccessTokenRequest
    <2>5. TokenBoundToAuthorization'
        BY <2>1, <2>4, <1>1 DEF HandleAccessTokenRequest, TokenBoundToAuthorization
    <2>6. QED
        BY <2>1, <2>5, <1>0, <1>2 DEF HandleAccessTokenRequest, BInv, StateBound,
                                      ErrorRedirectToRequester
<1>5. CASE \E st \in States : HandleAuthorizeResponseError(st)
    <2>1. PICK st \in States : HandleAuthorizeResponseError(st)
        BY <1>5
    <2>2. PICK n \in Nonces : authorized[n] = stateStore[st] /\ stateStore[st].state = st
        BY <2>1 DEF HandleAuthorizeResponseError, BInv, StateBound
    <2>3. authorized[n] # None
        BY <2>1, <2>2 DEF HandleAuthorizeResponseError
    <2>4. ErrorRedirectToRequester!([state |-> st, redirect |-> stateStore[st].redirect])'
        BY <2>1, <2>2, <2>3, <1>0 DEF HandleAuthorizeResponseError
    <2>5. ErrorRedirectToRequester'
        BY <2>1, <2>4, <1>2 DEF HandleAuthorizeResponseError, ErrorRedirectToRequester
    <2>6. QED
        BY <2>1, <2>5, <1>0, <1>1 DEF HandleAuthorizeResponseError, BInv, StateBound,
                                      TokenBoundToAuthorization
\* Every other step leaves tokens and error redirects alone and only
\* deletes client states.
<1>6. CASE \/ \E p \in Procs, v \in Verifiers, vps \in Bundle :
                 HandleAuthorizeResponseSubmission(p, v, vps)
           \/ \E vps \in Bundle : RejectAuthorizeResponseSubmission(vps)
           \/ \E p \in Procs : CompleteAuthorizeResponseSubmission(p)
           \/ \E n \in Nonces : ExpireNonce(n)
           \/ \E s \in States : ExpireState(s)
           \/ \E c \in Codes : ExpireCode(c)
           \/ UNCHANGED vars
    <2>1. /\ UNCHANGED <<tokens, errorRedirects>>
          /\ \A s \in States : stateStore'[s] \in {stateStore[s], None}
        BY <1>6, <1>0 DEF HandleAuthorizeResponseSubmission, RejectAuthorizeResponseSubmission,
                          CompleteAuthorizeResponseSubmission, ExpireNonce, ExpireState,
                          ExpireCode, vars, Put, TypeOK
    <2>2. StateBound'
        BY <2>1, <1>0 DEF BInv, StateBound
    <2>3. QED
        BY <2>1, <2>2, <1>0, <1>1, <1>2 DEF BInv, TokenBoundToAuthorization,
                                             ErrorRedirectToRequester
<1>7. QED
    BY <1>3, <1>4, <1>5, <1>6 DEF Next

\* Every access token handleAccessTokenRequest issues (lines 516-557)
\* carries the redirect_uri and client_id of the /authorize request whose
\* nonce its code was minted for, whatever the interleaving of requests,
\* racing submissions, failing Puts and expiries.
THEOREM TokenBound == Spec => []TokenBoundToAuthorization
<1>1. BInv => TokenBoundToAuthorization
    BY DEF BInv
<1>2. QED
    BY InitBInv, NextBInv, <1>1, PTL DEF Spec

\* Every redirect handleAuthorizeResponseError answers with (lines
\* 322-349) goes to the redirect_uri of an /authorize request that minted
\* the state it was given, whichever of the two Puts of lines 165-170
\* failed: the state is only stored after the nonce was.
THEOREM ErrorRedirectBound == Spec => []ErrorRedirectToRequester
<1>1. BInv => ErrorRedirectToRequester
    BY DEF BInv
<1>2. QED
    BY InitBInv, NextBInv, <1>1, PTL DEF Spec

=============================================================================
