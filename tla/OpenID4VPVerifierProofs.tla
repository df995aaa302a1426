----------------------- MODULE OpenID4VPVerifierProofs -----------------------
(***************************************************************************)
(* Proofs about OpenID4VPVerifier, for every value of the constants:       *)
(* type correctness, and that a nonce an authorization code was minted for *)
(* is gone from the nonce store.                                           *)
(***************************************************************************)
EXTENDS OpenID4VPVerifier, TLAPS

\* The inductive strengthening of AcceptedNonceBurned.  A fresh nonce can
\* only be put back into the store if it was never generated before, so
\* the accepted nonces and the stored ones must be known to be generated
\* ones; a goroutine between lookup and burn looked up the first challenge
\* of its vp_token, which is one of the values it will delete.
IInv ==
    /\ TypeOK
    /\ AcceptedNonceBurned
    /\ \A n \in Nonces : nonceStore[n] # None => n \in used
    /\ \A a \in accepted : a.nonce \in used
    /\ \A p \in Procs : handler[p].pc = "lookedUp" =>
           /\ handler[p].nonce = handler[p].vps[1].challenge
           /\ handler[p].nonce \in used

-----------------------------------------------------------------------------
(* Lemmas about the data.                                                  *)

LEMMA BundleFacts ==
    ASSUME NEW vps \in Bundle
    PROVE  /\ 1 \in DOMAIN vps
           /\ vps[1] \in Presentation
           /\ Challenges(vps) \subseteq Nonces \cup {None}
           /\ vps[1].challenge \in Challenges(vps)
<1>1. PICK k \in 1..MaxVPs : vps \in [1..k -> Presentation]
    BY DEF Bundle
<1>2. 1 \in DOMAIN vps
    BY <1>1, ConstantsAssumption
<1>3. \A i \in DOMAIN vps : vps[i] \in Presentation
    BY <1>1
<1>4. \A x \in Presentation : x.challenge \in Nonces \cup {None}
    BY DEF Presentation
<1>5. QED
    BY <1>2, <1>3, <1>4 DEF Challenges

-----------------------------------------------------------------------------
(* Type correctness.                                                       *)

LEMMA InitTypeOK == Init => TypeOK
    BY DEF Init, TypeOK

LEMMA NextTypeOK == TypeOK /\ [Next]_vars => TypeOK'
<1> SUFFICES ASSUME TypeOK, [Next]_vars PROVE TypeOK'
    OBVIOUS
<1>1. CASE \E v \in Verifiers, r \in RedirectURIs, cs \in ClientStates \cup {None},
                n \in Nonces, s \in States :
              HandleAuthorizeRequestFromHolder(v, r, cs, n, s)
    <2>1. PICK v \in Verifiers, r \in RedirectURIs, cs \in ClientStates \cup {None},
               n \in Nonces, s \in States :
              HandleAuthorizeRequestFromHolder(v, r, cs, n, s)
        BY <1>1
    <2>2. [client |-> v, state |-> s, redirect |-> r] \in Session
        BY DEF Session
    <2>3. nonceStore' \in [Nonces -> Session \cup {None}]
          /\ stateStore' \in [States -> Session \cup {None}]
        BY <2>1, <2>2 DEF HandleAuthorizeRequestFromHolder, Put, TypeOK
    <2>4. QED
        BY <2>1, <2>3 DEF HandleAuthorizeRequestFromHolder, TypeOK
<1>2. CASE \E p \in Procs, v \in Verifiers, vps \in Bundle :
              HandleAuthorizeResponseSubmission(p, v, vps)
    <2>1. PICK p \in Procs, v \in Verifiers, vps \in Bundle :
              HandleAuthorizeResponseSubmission(p, v, vps)
        BY <1>2
    <2>2. vps[1].challenge \in Nonces
        BY <2>1, BundleFacts DEF HandleAuthorizeResponseSubmission
    <2>3. nonceStore[vps[1].challenge] \in Session
        BY <2>1, <2>2 DEF HandleAuthorizeResponseSubmission, TypeOK
    <2>4. [pc |-> "lookedUp", verifier |-> v, nonce |-> vps[1].challenge,
           session |-> nonceStore[vps[1].challenge], vps |-> vps] \in LookedUp
        BY <2>2, <2>3 DEF LookedUp
    <2>5. QED
        BY <2>1, <2>4 DEF HandleAuthorizeResponseSubmission, TypeOK
<1>3. CASE \E vps \in Bundle : RejectAuthorizeResponseSubmission(vps)
    BY <1>3, BundleFacts DEF RejectAuthorizeResponseSubmission, TypeOK
<1>4. CASE \E p \in Procs : CompleteAuthorizeResponseSubmission(p)
    <2>1. PICK p \in Procs : CompleteAuthorizeResponseSubmission(p)
        BY <1>4
    <2>2. handler[p] \in LookedUp
        BY <2>1 DEF CompleteAuthorizeResponseSubmission, TypeOK, Idle
    <2>3. nonceStore' \in [Nonces -> Session \cup {None}]
        BY <2>1 DEF CompleteAuthorizeResponseSubmission, Delete, TypeOK
    <2>4. handler' \in [Procs -> {Idle} \cup LookedUp]
        BY <2>1 DEF CompleteAuthorizeResponseSubmission, TypeOK
    <2>5. consumed' \subseteq Nonces
        BY <2>1, <2>2 DEF CompleteAuthorizeResponseSubmission, TypeOK, LookedUp
    <2>6. CASE UNCHANGED <<codeStore, used, accepted>>
        BY <2>1, <2>3, <2>4, <2>5, <2>6 DEF CompleteAuthorizeResponseSubmission, TypeOK
    <2>7. CASE \E c \in Codes \ used :
                  /\ used' = used \cup {c}
                  /\ codeStore' = Put(codeStore, c, handler[p].session)
                  /\ accepted' = accepted \cup {[nonce |-> handler[p].nonce, code |-> c, vps |-> handler[p].vps,
                                        verifier |-> handler[p].verifier,
                                        state |-> handler[p].session.state]}
        BY <2>1, <2>2, <2>3, <2>4, <2>5, <2>7
        DEF CompleteAuthorizeResponseSubmission, TypeOK, LookedUp, Session, Put
    <2>8. QED
        BY <2>1, <2>6, <2>7 DEF CompleteAuthorizeResponseSubmission
<1>5. CASE \E c \in Codes, r \in RedirectURIs, v \in Verifiers :
              HandleAccessTokenRequest(c, r, v)
    BY <1>5 DEF HandleAccessTokenRequest, TypeOK, Token
<1>6. CASE \E n \in Nonces : ExpireNonce(n)
    BY <1>6 DEF ExpireNonce, Put, TypeOK
<1>7. CASE \E s \in States : ExpireState(s)
    BY <1>7 DEF ExpireState, Put, TypeOK
<1>8. CASE \E c \in Codes : ExpireCode(c)
    BY <1>8 DEF ExpireCode, Put, TypeOK
<1>9. CASE \E st \in States : HandleAuthorizeResponseError(st)
    <2>1. PICK st \in States : HandleAuthorizeResponseError(st)
        BY <1>9
    <2>2. stateStore[st].redirect \in RedirectURIs
        BY <2>1 DEF HandleAuthorizeResponseError, TypeOK, Session
    <2>3. QED
        BY <2>1, <2>2 DEF HandleAuthorizeResponseError, TypeOK
<1>10. CASE UNCHANGED vars
    BY <1>10 DEF vars, TypeOK
<1>11. QED
    BY <1>1, <1>2, <1>3, <1>4, <1>5, <1>6, <1>7, <1>8, <1>9, <1>10 DEF Next

\* The state of every store, goroutine and history has its type in every
\* reachable state.
THEOREM TypeCorrect == Spec => []TypeOK
    BY InitTypeOK, NextTypeOK, PTL DEF Spec

-----------------------------------------------------------------------------
(* Burned nonces.                                                          *)

LEMMA InitIInv == Init => IInv
    BY DEF Init, IInv, TypeOK, AcceptedNonceBurned, Idle

LEMMA NextIInv == IInv /\ [Next]_vars => IInv'
<1> SUFFICES ASSUME IInv, [Next]_vars PROVE IInv'
    OBVIOUS
<1>0. TypeOK'
    BY NextTypeOK DEF IInv
<1>1. CASE \E v \in Verifiers, r \in RedirectURIs, cs \in ClientStates \cup {None},
                n \in Nonces, s \in States :
              HandleAuthorizeRequestFromHolder(v, r, cs, n, s)
    <2>1. PICK v \in Verifiers, r \in RedirectURIs, cs \in ClientStates \cup {None},
               n \in Nonces, s \in States :
              HandleAuthorizeRequestFromHolder(v, r, cs, n, s)
        BY <1>1
    <2>2. \A m \in Nonces : m # n => nonceStore'[m] = nonceStore[m]
        BY <2>1 DEF HandleAuthorizeRequestFromHolder, Put, IInv, TypeOK
    <2>3. AcceptedNonceBurned'
        BY <2>1, <2>2 DEF HandleAuthorizeRequestFromHolder, IInv, TypeOK, AcceptedNonceBurned
    <2>4. (\A m \in Nonces : nonceStore[m] # None => m \in used)'
        BY <2>1, <2>2 DEF HandleAuthorizeRequestFromHolder, IInv
    <2>5. QED
        BY <1>0, <2>1, <2>3, <2>4 DEF HandleAuthorizeRequestFromHolder, IInv
<1>2. CASE \E p \in Procs, v \in Verifiers, vps \in Bundle :
              HandleAuthorizeResponseSubmission(p, v, vps)
    <2>1. PICK p \in Procs, v \in Verifiers, vps \in Bundle :
              HandleAuthorizeResponseSubmission(p, v, vps)
        BY <1>2
    <2>2. vps[1].challenge \in used
        BY <2>1, BundleFacts DEF HandleAuthorizeResponseSubmission, IInv
    <2>3. QED
        BY <1>0, <2>1, <2>2 DEF HandleAuthorizeResponseSubmission, IInv, AcceptedNonceBurned, TypeOK
<1>3. CASE \E vps \in Bundle : RejectAuthorizeResponseSubmission(vps)
    BY <1>0, <1>3 DEF RejectAuthorizeResponseSubmission, IInv, AcceptedNonceBurned
<1>4. CASE \E p \in Procs : CompleteAuthorizeResponseSubmission(p)
    <2>1. PICK p \in Procs : CompleteAuthorizeResponseSubmission(p)
        BY <1>4
    <2> DEFINE h == handler[p]
    <2>2. h \in LookedUp
        BY <2>1 DEF CompleteAuthorizeResponseSubmission, IInv, TypeOK, Idle
    <2>3. h.nonce \in Challenges(h.vps) /\ h.nonce \in used
        BY <2>1, <2>2, BundleFacts DEF CompleteAuthorizeResponseSubmission, IInv, LookedUp
    <2>4. \A m \in Nonces : nonceStore'[m] = IF m \in Challenges(h.vps) THEN None ELSE nonceStore[m]
        BY <2>1 DEF CompleteAuthorizeResponseSubmission, Delete, IInv, TypeOK
    <2>5. used \subseteq used'
        BY <2>1 DEF CompleteAuthorizeResponseSubmission
    <2>6. accepted' \subseteq accepted \cup {[nonce |-> h.nonce, code |-> c, vps |-> h.vps,
                                            verifier |-> h.verifier,
                                            state |-> h.session.state] : c \in Codes}
        BY <2>1 DEF CompleteAuthorizeResponseSubmission
    <2>7. AcceptedNonceBurned'
        <3>1. SUFFICES ASSUME NEW a \in accepted' PROVE nonceStore'[a.nonce] = None
            BY DEF AcceptedNonceBurned
        <3>2. CASE a \in accepted
            BY <2>4, <3>2 DEF IInv, AcceptedNonceBurned, TypeOK
        <3>3. CASE a \notin accepted
            BY <2>2, <2>3, <2>4, <2>6, <3>3 DEF LookedUp
        <3>4. QED
            BY <3>2, <3>3
    <2>8. (\A m \in Nonces : nonceStore[m] # None => m \in used)'
        BY <2>4, <2>5 DEF IInv
    <2>9. (\A a \in accepted : a.nonce \in used)'
        BY <2>3, <2>5, <2>6 DEF IInv
    <2>10. (\A q \in Procs : handler[q].pc = "lookedUp" =>
                 /\ handler[q].nonce = handler[q].vps[1].challenge
                 /\ handler[q].nonce \in used)'
        BY <2>1, <2>5 DEF CompleteAuthorizeResponseSubmission, IInv, TypeOK, Idle
    <2>11. QED
        BY <1>0, <2>7, <2>8, <2>9, <2>10 DEF IInv
<1>5. CASE \E c \in Codes, r \in RedirectURIs, v \in Verifiers :
              HandleAccessTokenRequest(c, r, v)
    BY <1>0, <1>5 DEF HandleAccessTokenRequest, IInv, AcceptedNonceBurned
<1>6. CASE \E n \in Nonces : ExpireNonce(n)
    BY <1>0, <1>6 DEF ExpireNonce, Put, IInv, AcceptedNonceBurned, TypeOK
<1>7. CASE \E s \in States : ExpireState(s)
    BY <1>0, <1>7 DEF ExpireState, IInv, AcceptedNonceBurned
<1>8. CASE \E c \in Codes : ExpireCode(c)
    BY <1>0, <1>8 DEF ExpireCode, IInv, AcceptedNonceBurned
<1>9. CASE \E st \in States : HandleAuthorizeResponseError(st)
    BY <1>0, <1>9 DEF HandleAuthorizeResponseError, IInv, AcceptedNonceBurned
<1>10. CASE UNCHANGED vars
    BY <1>0, <1>10 DEF vars, IInv, AcceptedNonceBurned
<1>11. QED
    BY <1>1, <1>2, <1>3, <1>4, <1>5, <1>6, <1>7, <1>8, <1>9, <1>10 DEF Next

\* Whatever the interleaving of authorize requests, racing submissions,
\* token requests and expiries, a nonce an authorization code was minted
\* for is no longer in the nonce store: the burn of validatePresentationNonce
\* removes it, and no later /authorize can store it again.
THEOREM NonceBurnedOnAcceptance == Spec => []AcceptedNonceBurned
<1>1. IInv => AcceptedNonceBurned
    BY DEF IInv
<1>2. QED
    BY InitIInv, NextIInv, <1>1, PTL DEF Spec

=============================================================================
