--------------------- MODULE OpenID4VPVerifierRefinement ---------------------
(***************************************************************************)
(* Proof that OpenID4VPVerifier implements AuthorizationCodeGrant under    *)
(* the refinement mapping of Grant: for every value of the constants, every *)
(* behaviour of the handlers is a behaviour of the abstract grant.         *)
(***************************************************************************)
EXTENDS OpenID4VPVerifierProofs

\* The invariant the step simulation needs.  A nonce in the store holds the
\* session its /authorize request recorded; a recorded nonce was generated,
\* so a fresh one has no grant yet; a goroutine between lookup and burn holds
\* the granted session of its nonce; a stored code holds the session granted
\* to the nonce it was minted for; a minted code was generated, so a fresh
\* one is bound to nothing.
RInv ==
    /\ TypeOK
    /\ \A n \in Nonces : nonceStore[n] # None => authorized[n] = nonceStore[n]
    /\ \A n \in Nonces : authorized[n] # None => n \in used
    /\ \A p \in Procs : handler[p].pc = "lookedUp" =>
           /\ authorized[handler[p].nonce] # None
           /\ authorized[handler[p].nonce] = handler[p].session
    /\ \A c \in Codes : codeStore[c] # None =>
           \E a \in accepted : a.code = c /\ authorized[a.nonce] = codeStore[c]
    /\ \A a \in accepted : a.code \in used /\ authorized[a.nonce] # None

-----------------------------------------------------------------------------

LEMMA InitRInv == Init => RInv
    BY DEF Init, RInv, TypeOK, Idle

LEMMA NextRInv == RInv /\ [Next]_vars => RInv'
<1> SUFFICES ASSUME RInv, [Next]_vars PROVE RInv'
    OBVIOUS
<1>0. TypeOK /\ TypeOK'
    BY NextTypeOK DEF RInv
<1>1. CASE \E v \in Verifiers, r \in RedirectURIs, cs \in ClientStates \cup {None},
                n \in Nonces, s \in States :
              HandleAuthorizeRequestFromHolder(v, r, cs, n, s)
    <2>1. PICK v \in Verifiers, r \in RedirectURIs, cs \in ClientStates \cup {None},
               n \in Nonces, s \in States :
              HandleAuthorizeRequestFromHolder(v, r, cs, n, s)
        BY <1>1
    <2>2. authorized[n] = None /\ nonceStore[n] = None
        BY <2>1 DEF HandleAuthorizeRequestFromHolder, RInv
    <2>3. \A m \in Nonces : m # n => /\ nonceStore'[m] = nonceStore[m]
                                      /\ authorized'[m] = authorized[m]
        BY <2>1, <1>0 DEF HandleAuthorizeRequestFromHolder, Put, TypeOK
    <2>4. authorized'[n] = nonceStore'[n]
        BY <2>1, <1>0 DEF HandleAuthorizeRequestFromHolder, TypeOK
    <2>5. (\A m \in Nonces : nonceStore[m] # None => authorized[m] = nonceStore[m])'
        BY <2>3, <2>4 DEF RInv
    <2>6. (\A m \in Nonces : authorized[m] # None => m \in used)'
        BY <2>1, <2>3 DEF HandleAuthorizeRequestFromHolder, RInv
    <2>7. \A m \in Nonces : authorized[m] # None => authorized'[m] = authorized[m]
        BY <2>2, <2>3
    <2>8. (\A p \in Procs : handler[p].pc = "lookedUp" =>
               /\ authorized[handler[p].nonce] # None
               /\ authorized[handler[p].nonce] = handler[p].session)'
        BY <2>1, <2>7, <1>0 DEF HandleAuthorizeRequestFromHolder, RInv, TypeOK, LookedUp, Idle
    <2>9. (\A c \in Codes : codeStore[c] # None =>
               \E a \in accepted : a.code = c /\ authorized[a.nonce] = codeStore[c])'
        BY <2>1, <2>7, <1>0 DEF HandleAuthorizeRequestFromHolder, RInv, TypeOK
    <2>10. (\A a \in accepted : a.code \in used /\ authorized[a.nonce] # None)'
        BY <2>1, <2>7, <1>0 DEF HandleAuthorizeRequestFromHolder, RInv, TypeOK
    <2>11. QED
        BY <1>0, <2>5, <2>6, <2>8, <2>9, <2>10 DEF RInv
<1>2. CASE \E p \in Procs, v \in Verifiers, vps \in Bundle :
              HandleAuthorizeResponseSubmission(p, v, vps)
    <2>1. PICK p \in Procs, v \in Verifiers, vps \in Bundle :
              HandleAuthorizeResponseSubmission(p, v, vps)
        BY <1>2
    <2>2. vps[1].challenge \in Nonces
        BY <2>1, BundleFacts DEF HandleAuthorizeResponseSubmission
    <2>3. authorized[vps[1].challenge] = nonceStore[vps[1].challenge]
        BY <2>1, <2>2 DEF HandleAuthorizeResponseSubmission, RInv
    <2>4. QED
        BY <1>0, <2>1, <2>3 DEF HandleAuthorizeResponseSubmission, RInv, TypeOK, Idle
<1>3. CASE \E vps \in Bundle : RejectAuthorizeResponseSubmission(vps)
    BY <1>0, <1>3 DEF RejectAuthorizeResponseSubmission, RInv
<1>4. CASE \E p \in Procs : CompleteAuthorizeResponseSubmission(p)
    <2>1. PICK p \in Procs : CompleteAuthorizeResponseSubmission(p)
        BY <1>4
    <2> DEFINE h == handler[p]
    <2>2. h \in LookedUp
        BY <2>1 DEF CompleteAuthorizeResponseSubmission, RInv, TypeOK, Idle
    <2>3. authorized[h.nonce] # None /\ authorized[h.nonce] = h.session
        BY <2>1 DEF CompleteAuthorizeResponseSubmission, RInv
    <2>4. (\A n \in Nonces : nonceStore[n] # None => authorized[n] = nonceStore[n])'
        BY <2>1, <1>0 DEF CompleteAuthorizeResponseSubmission, Delete, RInv, TypeOK
    <2>5. (\A n \in Nonces : authorized[n] # None => n \in used)'
        BY <2>1 DEF CompleteAuthorizeResponseSubmission, RInv
    <2>6. (\A q \in Procs : handler[q].pc = "lookedUp" =>
               /\ authorized[handler[q].nonce] # None
               /\ authorized[handler[q].nonce] = handler[q].session)'
        BY <2>1, <1>0 DEF CompleteAuthorizeResponseSubmission, RInv, TypeOK, Idle
    <2>7. CASE UNCHANGED <<codeStore, used, accepted>>
        BY <1>0, <2>1, <2>4, <2>5, <2>6, <2>7 DEF CompleteAuthorizeResponseSubmission, RInv
    <2>8. CASE \E c \in Codes \ used :
                  /\ used' = used \cup {c}
                  /\ codeStore' = Put(codeStore, c, h.session)
                  /\ accepted' = accepted \cup {[nonce |-> h.nonce, code |-> c, vps |-> h.vps,
                                                 verifier |-> h.verifier,
                                                 state |-> h.session.state]}
        <3>1. PICK c \in Codes \ used :
                  /\ used' = used \cup {c}
                  /\ codeStore' = Put(codeStore, c, h.session)
                  /\ accepted' = accepted \cup {[nonce |-> h.nonce, code |-> c, vps |-> h.vps,
                                                 verifier |-> h.verifier,
                                                 state |-> h.session.state]}
            BY <2>8
        <3> DEFINE new == [nonce |-> h.nonce, code |-> c, vps |-> h.vps,
                           verifier |-> h.verifier, state |-> h.session.state]
        <3>2. new \in accepted' /\ new.code = c /\ new.nonce = h.nonce
            BY <3>1
        <3>3. authorized' = authorized
            BY <2>1 DEF CompleteAuthorizeResponseSubmission
        <3>4. (\A d \in Codes : codeStore[d] # None =>
                   \E a \in accepted : a.code = d /\ authorized[a.nonce] = codeStore[d])'
            <4>1. SUFFICES ASSUME NEW d \in Codes, codeStore'[d] # None
                           PROVE  \E a \in accepted' : a.code = d /\ authorized'[a.nonce] = codeStore'[d]
                OBVIOUS
            <4>2. CASE d = c
                BY <2>3, <3>1, <3>2, <3>3, <4>2, <1>0 DEF Put, TypeOK
            <4>3. CASE d # c
                BY <3>1, <3>3, <4>1, <4>3, <1>0 DEF Put, TypeOK, RInv
            <4>4. QED
                BY <4>2, <4>3
        <3>5. (\A a \in accepted : a.code \in used /\ authorized[a.nonce] # None)'
            BY <2>3, <3>1, <3>3 DEF RInv
        <3>6. QED
            BY <1>0, <2>4, <2>5, <2>6, <3>4, <3>5 DEF RInv
    <2>9. QED
        BY <2>1, <2>7, <2>8 DEF CompleteAuthorizeResponseSubmission
<1>5. CASE \E c \in Codes, r \in RedirectURIs, v \in Verifiers :
              HandleAccessTokenRequest(c, r, v)
    BY <1>0, <1>5 DEF HandleAccessTokenRequest, RInv
<1>6. CASE \E n \in Nonces : ExpireNonce(n)
    BY <1>0, <1>6 DEF ExpireNonce, Put, RInv, TypeOK
<1>7. CASE \E s \in States : ExpireState(s)
    BY <1>0, <1>7 DEF ExpireState, RInv
<1>8. CASE \E c \in Codes : ExpireCode(c)
    BY <1>0, <1>8 DEF ExpireCode, Put, RInv, TypeOK
<1>9. CASE \E st \in States : HandleAuthorizeResponseError(st)
    BY <1>0, <1>9 DEF HandleAuthorizeResponseError, RInv
<1>10. CASE UNCHANGED vars
    BY <1>0, <1>10 DEF vars, RInv
<1>11. QED
    BY <1>1, <1>2, <1>3, <1>4, <1>5, <1>6, <1>7, <1>8, <1>9, <1>10 DEF Next

-----------------------------------------------------------------------------
(* Step simulation.                                                        *)

\* The abstract state of the mapping: the grant, the bound codes, the tokens.
GrantVars == <<authorized, {<<a.code, a.nonce>> : a \in accepted}, tokens>>

\* Steps that leave the nonce history, the accepted codes and the tokens
\* alone are stuttering steps of the grant.
LEMMA GrantStutter ==
    ASSUME UNCHANGED <<authorized, accepted, tokens>>
    PROVE  UNCHANGED GrantVars
    BY DEF GrantVars

LEMMA StepSimulation == RInv /\ [Next]_vars => [Grant!Next]_GrantVars
<1> SUFFICES ASSUME RInv, [Next]_vars PROVE [Grant!Next]_GrantVars
    OBVIOUS
<1>1. CASE \E v \in Verifiers, r \in RedirectURIs, cs \in ClientStates \cup {None},
                n \in Nonces, s \in States :
              HandleAuthorizeRequestFromHolder(v, r, cs, n, s)
    <2>1. PICK v \in Verifiers, r \in RedirectURIs, cs \in ClientStates \cup {None},
               n \in Nonces, s \in States :
              HandleAuthorizeRequestFromHolder(v, r, cs, n, s)
        BY <1>1
    <2> DEFINE sess == [client |-> v, state |-> s, redirect |-> r]
    <2>2. authorized[n] = None /\ nonceStore[n] = None
        BY <2>1 DEF HandleAuthorizeRequestFromHolder, RInv
    <2>3. UNCHANGED <<accepted, tokens>>
        BY <2>1 DEF HandleAuthorizeRequestFromHolder
    <2>4. CASE nonceStore' = Put(nonceStore, n, sess)
        <3>1. sess \in Session
            BY DEF Session
        <3>2. authorized' = [authorized EXCEPT ![n] = sess]
            BY <2>1, <2>4 DEF HandleAuthorizeRequestFromHolder, Put, RInv, TypeOK
        <3>3. Grant!Authorize(n, sess)
            BY <2>2, <2>3, <3>2 DEF Grant!Authorize
        <3>4. QED
            BY <3>1, <3>3 DEF Grant!Next
    <2>5. CASE UNCHANGED nonceStore
        <3>1. authorized' = authorized
            BY <2>1, <2>2, <2>5, RInv DEF HandleAuthorizeRequestFromHolder, RInv, TypeOK
        <3>2. QED
            BY <2>3, <3>1, GrantStutter
    <2>6. QED
        BY <2>1, <2>4, <2>5 DEF HandleAuthorizeRequestFromHolder
<1>2. CASE \E p \in Procs : CompleteAuthorizeResponseSubmission(p)
    <2>1. PICK p \in Procs : CompleteAuthorizeResponseSubmission(p)
        BY <1>2
    <2> DEFINE h == handler[p]
    <2>2. UNCHANGED <<authorized, tokens>>
        BY <2>1 DEF CompleteAuthorizeResponseSubmission
    <2>3. CASE UNCHANGED <<codeStore, used, accepted>>
        BY <2>2, <2>3, GrantStutter
    <2>4. CASE \E c \in Codes \ used :
                  /\ used' = used \cup {c}
                  /\ codeStore' = Put(codeStore, c, h.session)
                  /\ accepted' = accepted \cup {[nonce |-> h.nonce, code |-> c, vps |-> h.vps,
                                                 verifier |-> h.verifier,
                                                 state |-> h.session.state]}
        <3>1. PICK c \in Codes \ used :
                  accepted' = accepted \cup {[nonce |-> h.nonce, code |-> c, vps |-> h.vps,
                                              verifier |-> h.verifier,
                                              state |-> h.session.state]}
            BY <2>4
        <3>2. h \in LookedUp /\ authorized[h.nonce] # None
            BY <2>1 DEF CompleteAuthorizeResponseSubmission, RInv, TypeOK, Idle
        <3>3. \A m \in Nonces : <<c, m>> \notin {<<a.code, a.nonce>> : a \in accepted}
            BY <3>1 DEF RInv
        <3> DEFINE new == [nonce |-> h.nonce, code |-> c, vps |-> h.vps,
                           verifier |-> h.verifier, state |-> h.session.state]
        <3>4. {<<a.code, a.nonce>> : a \in accepted'}
                = {<<a.code, a.nonce>> : a \in accepted} \cup {<<c, h.nonce>>}
            <4>1. accepted' = accepted \cup {new} /\ new.code = c /\ new.nonce = h.nonce
                BY <3>1
            <4>2. QED
                BY <4>1
        <3>5. Grant!Accept(h.nonce, c)
            BY <2>2, <3>2, <3>3, <3>4 DEF Grant!Accept
        <3>6. QED
            BY <3>2, <3>5 DEF Grant!Next, LookedUp
    <2>5. QED
        BY <2>1, <2>3, <2>4 DEF CompleteAuthorizeResponseSubmission
<1>3. CASE \E c \in Codes, r \in RedirectURIs, v \in Verifiers :
              HandleAccessTokenRequest(c, r, v)
    <2>1. PICK c \in Codes, r \in RedirectURIs, v \in Verifiers :
              HandleAccessTokenRequest(c, r, v)
        BY <1>3
    <2>2. PICK a \in accepted : a.code = c /\ authorized[a.nonce] = codeStore[c]
        BY <2>1 DEF HandleAccessTokenRequest, RInv
    <2>3. a.nonce \in Nonces
        BY DEF RInv, TypeOK
    <2>4. Grant!Redeem(c, r, v)
        BY <2>1, <2>2, <2>3 DEF HandleAccessTokenRequest, Grant!Redeem
    <2>5. QED
        BY <2>4 DEF Grant!Next
<1>4. CASE \/ \E p \in Procs, v \in Verifiers, vps \in Bundle :
                 HandleAuthorizeResponseSubmission(p, v, vps)
           \/ \E vps \in Bundle : RejectAuthorizeResponseSubmission(vps)
           \/ \E st \in States : HandleAuthorizeResponseError(st)
           \/ \E n \in Nonces : ExpireNonce(n)
           \/ \E s \in States : ExpireState(s)
           \/ \E c \in Codes : ExpireCode(c)
           \/ UNCHANGED vars
    <2>1. UNCHANGED <<authorized, accepted, tokens>>
        BY <1>4 DEF HandleAuthorizeResponseSubmission, RejectAuthorizeResponseSubmission,
                    HandleAuthorizeResponseError, ExpireNonce, ExpireState, ExpireCode, vars
    <2>2. QED
        BY <2>1, GrantStutter
<1>5. QED
    BY <1>1, <1>2, <1>3, <1>4 DEF Next

-----------------------------------------------------------------------------

\* The verifier implements the authorization-code grant: whatever the
\* interleaving of /authorize requests, racing submissions on several
\* goroutines, failing Puts, token requests and expiries, a code is only
\* bound to a nonce an /authorize request granted, to a code never bound
\* before, and a token is only issued for a bound code with the redirect_uri
\* and client_id recorded at /authorize (handleAuthorizeRequestFromHolder,
\* handleAuthorizeResponseSubmission and handleAccessTokenRequest).
THEOREM Refinement == Spec => GrantSpec
<1>1. Init => Grant!Init
    BY DEF Init, Grant!Init
<1>2. Spec => []RInv
    BY InitRInv, NextRInv, PTL DEF Spec
<1>3. RInv /\ [Next]_vars => [Grant!Next]_Grant!vars
    BY StepSimulation DEF GrantVars, Grant!vars
<1>4. QED
    BY <1>1, <1>2, <1>3, PTL DEF Spec, GrantSpec, Grant!Spec

=============================================================================
