-------------------------- MODULE OpenID4VPVerifier --------------------------
(***************************************************************************)
(* The verifier side of the holder-initiated OpenID4VP flow of the nuts    *)
(* node (src/auth/api/iam/openid4vp.go):                                   *)
(*                                                                         *)
(*   handleAuthorizeRequestFromHolder  mints a nonce and a client state    *)
(*                                     and stores the OAuthSession under   *)
(*                                     both;                               *)
(*   handleAuthorizeResponseSubmission looks the session up by the nonce   *)
(*                                     of the posted vp_token, burns the   *)
(*                                     nonces and stores the session under *)
(*                                     a fresh authorization code;         *)
(*   handleAccessTokenRequest          redeems the code for a token.       *)
(*                                                                         *)
(* The three namespaces of the session store (nonce, client state, code)   *)
(* are total functions from the values crypto.GenerateNonce can return to  *)
(* a session or None.  Every HTTP request runs on its own goroutine; the   *)
(* response handler reads the nonce store before it deletes from it, so    *)
(* it is split at that point into two steps of a handler slot of Procs.    *)
(***************************************************************************)
EXTENDS Naturals, Sequences, FiniteSets

CONSTANTS
    Verifiers,      \* DIDs owned by the node: the {id} of /iam/{id}
    RedirectURIs,   \* redirect_uri values a client can send
    ClientStates,   \* state values a client can send to /authorize
    Nonces,         \* values GenerateNonce returns for nonces
    States,         \* values GenerateNonce returns for client states
    Codes,          \* values GenerateNonce returns for authorization codes
    Procs,          \* goroutines serving the response endpoint concurrently
    MaxVPs,         \* most presentations in one posted vp_token
    None            \* an absent store entry, and the empty string

ASSUME ConstantsAssumption ==
    /\ MaxVPs \in Nat \ {0}
    /\ None \notin Nonces

VARIABLES
    nonceStore,     \* oauthNonceStore():       nonce -> OAuthSession
    stateStore,     \* oauthClientStateStore(): state -> OAuthSession
    codeStore,      \* oauthCodeStore():        code  -> OAuthSession
    used,           \* values GenerateNonce has returned so far
    handler,        \* per goroutine: its step in handleAuthorizeResponseSubmission
    tokens,         \* access tokens createS2SAccessToken has issued
    authorized,     \* history: the session stored under each nonce at /authorize
    accepted,       \* history: the nonce, presentations and verifier each
                    \* authorization code was minted for
    consumed,       \* history: nonces a finished submission has looked up
    requested,      \* history: the state parameter of the /authorize
                    \* request that minted each nonce
    errorRedirects  \* redirects handleAuthorizeResponseError answered with

vars == <<nonceStore, stateStore, codeStore, used, handler, tokens,
          authorized, accepted, consumed, requested, errorRedirects>>

-----------------------------------------------------------------------------
(* Data.                                                                   *)

\* OAuthSession as handleAuthorizeRequestFromHolder fills it in: ClientID is
\* the verifier's own DID, ClientState the minted state, RedirectURI the
\* client's redirect_uri.  Scope and OwnDID are not told apart by any
\* property and are left out.
Session == [client: Verifiers, state: States, redirect: RedirectURIs]

\* A presentation, by what extractChallenge and extractNonce return for it.
\* extractNonce is only called when extractChallenge returned "".
Presentation ==
    [challenge: Nonces, nonce: {None}] \cup [challenge: {None}, nonce: Nonces \cup {None}]

\* The presentations of a parsed vp_token envelope (never empty: line 362).
Bundle == UNION {[1..k -> Presentation] : k \in 1..MaxVPs}

Idle == [pc |-> "idle"]

\* A goroutine between its nonce lookup (line 375) and its nonce burn (491).
LookedUp ==
    [pc: {"lookedUp"}, verifier: Verifiers, nonce: Nonces, session: Session, vps: Bundle]

Token == [code: Codes, client: Verifiers, redirect: RedirectURIs]

-----------------------------------------------------------------------------
(* The session store (storage.SessionStore, outside src/).                 *)

Put(store, k, v) == [store EXCEPT ![k] = v]

\* Delete of a key that is absent (or "") succeeds and changes nothing.
Delete(store, K) == [k \in DOMAIN store |-> IF k \in K THEN None ELSE store[k]]

-----------------------------------------------------------------------------
(* validatePresentationNonce (lines 486-514).                              *)

\* nextNonce: the challenge, or when that is "" the nonce (lines 490-495).
EffectiveNonce(vp) == IF vp.challenge # None THEN vp.challenge ELSE vp.nonce

\* Mutant: the delete loop starting at the second presentation.
ChallengesFromSecond(vps) == {vps[i].challenge : i \in 2..Len(vps)}

\* The values the loop deletes from the nonce store: what extractChallenge
\* returned, before the fallback (line 491).
Challenges(vps) == {vps[i].challenge : i \in DOMAIN vps}

\* Mutant: the loop starting at the second presentation.
NonceLoopSkipsFirst(vps) ==
    LET step[i \in 0..Len(vps)] ==
          IF i <= 1 THEN [nonce |-> None, err |-> FALSE]
          ELSE LET next     == EffectiveNonce(vps[i])
                   missing  == next = None
                   mismatch == step[i-1].nonce # None /\ step[i-1].nonce # next
               IN  [nonce |-> next, err |-> step[i-1].err \/ missing \/ mismatch]
    IN  step[Len(vps)]

\* The loop's (nonce, returnErr) after each presentation; the error is
\* sticky and later presentations are compared with the previous one only.
NonceLoop(vps) ==
    LET step[i \in 0..Len(vps)] ==
          IF i = 0 THEN [nonce |-> None, err |-> FALSE]
          ELSE LET next     == EffectiveNonce(vps[i])
                   missing  == next = None
                   mismatch == step[i-1].nonce # None /\ step[i-1].nonce # next
               IN  [nonce |-> next, err |-> step[i-1].err \/ missing \/ mismatch]
    IN  step[Len(vps)]

ValidatePresentationNonce(vps) == ~NonceLoop(vps).err

-----------------------------------------------------------------------------
(* Actions.                                                                *)

Init ==
    /\ nonceStore = [n \in Nonces |-> None]
    /\ stateStore = [s \in States |-> None]
    /\ codeStore  = [c \in Codes |-> None]
    /\ used = {}
    /\ handler = [p \in Procs |-> Idle]
    /\ tokens = {}
    /\ authorized = [n \in Nonces |-> None]
    /\ accepted = {}
    /\ consumed = {}
    /\ requested = [n \in Nonces |-> None]
    /\ errorRedirects = {}

\* Mutant: nonce and state swapped in the stored OAuthSession.
HandleAuthorizeRequestFromHolderSwapped(v, r, cs, n, s) ==
    LET sess == [client |-> v, state |-> n, redirect |-> r] IN
    /\ n \notin used
    /\ s \notin used
    /\ used' = used \cup {n, s}
    /\ nonceStore' = Put(nonceStore, n, sess)
    /\ stateStore' = Put(stateStore, s, sess)
    /\ authorized' = [authorized EXCEPT ![n] = nonceStore'[n]]
    /\ requested' = [requested EXCEPT ![n] = cs]
    /\ UNCHANGED <<codeStore, handler, tokens, accepted, consumed, errorRedirects>>

\* Mutant: the Put under the state made before the Put under the nonce.
HandleAuthorizeRequestFromHolderStateFirst(v, r, cs, n, s) ==
    LET sess == [client |-> v, state |-> s, redirect |-> r] IN
    /\ n \notin used
    /\ s \notin used
    /\ used' = used \cup {n, s}
    /\ \/ /\ stateStore' = Put(stateStore, s, sess)
          /\ nonceStore' = Put(nonceStore, n, sess)
       \/ /\ stateStore' = Put(stateStore, s, sess)     \* nonce Put fails
          /\ UNCHANGED nonceStore
       \/ UNCHANGED <<nonceStore, stateStore>>        \* state Put fails
    /\ authorized' = [authorized EXCEPT ![n] = nonceStore'[n]]
    /\ requested' = [requested EXCEPT ![n] = cs]
    /\ UNCHANGED <<codeStore, handler, tokens, accepted, consumed, errorRedirects>>

\* handleAuthorizeRequestFromHolder (lines 65-177) for a request that passes
\* every gate before the two Puts; a request stopped at a gate changes no
\* state.  Nonce and state are generated first; then the Put under the
\* nonce, then the Put under the state, each of which can fail.  The
\* client's own state parameter cs is not read (line 64 documents it).
HandleAuthorizeRequestFromHolder(v, r, cs, n, s) ==
    LET sess == [client |-> v, state |-> s, redirect |-> r] IN
    /\ n \notin used
    /\ s \notin used
    /\ used' = used \cup {n, s}
    /\ \/ /\ nonceStore' = Put(nonceStore, n, sess)
          /\ stateStore' = Put(stateStore, s, sess)
       \/ /\ nonceStore' = Put(nonceStore, n, sess)     \* state Put fails
          /\ UNCHANGED stateStore
       \/ UNCHANGED <<nonceStore, stateStore>>        \* nonce Put fails
    /\ authorized' = [authorized EXCEPT ![n] = nonceStore'[n]]
    /\ requested' = [requested EXCEPT ![n] = cs]
    /\ UNCHANGED <<codeStore, handler, tokens, accepted, consumed, errorRedirects>>

\* handleAuthorizeResponseSubmission up to the nonce burn (lines 351-410):
\* the first presentation's challenge is looked up (Get, no delete) and the
\* submission, signer, audience and definition checks pass.
HandleAuthorizeResponseSubmission(p, v, vps) ==
    LET n == vps[1].challenge IN
    /\ handler[p] = Idle
    /\ n # None
    /\ nonceStore[n] # None
    /\ handler' = [handler EXCEPT ![p] = [pc |-> "lookedUp", verifier |-> v,
                                          nonce |-> n, session |-> nonceStore[n],
                                          vps |-> vps]]
    /\ UNCHANGED <<nonceStore, stateStore, codeStore, used, tokens,
                   authorized, accepted, consumed, requested, errorRedirects>>

\* The same request failing one of the checks of lines 381-410 after the
\* lookup: it returns invalid_request and the nonce is left in the store.
RejectAuthorizeResponseSubmission(vps) ==
    LET n == vps[1].challenge IN
    /\ n # None
    /\ nonceStore[n] # None
    /\ consumed' = consumed \cup {n}
    /\ UNCHANGED <<nonceStore, stateStore, codeStore, used, handler, tokens,
                   authorized, accepted, requested, errorRedirects>>

\* Mutant: the authorization code not fresh (a generator that repeats).
CompleteAuthorizeResponseSubmissionAnyCode(p) ==
    LET h == handler[p] IN
    /\ h.pc = "lookedUp"
    /\ nonceStore' = Delete(nonceStore, Challenges(h.vps))
    /\ handler' = [handler EXCEPT ![p] = Idle]
    /\ consumed' = consumed \cup {h.nonce}
    /\ \/ UNCHANGED <<codeStore, used, accepted>>
       \/ /\ ValidatePresentationNonce(h.vps)
          /\ \E c \in Codes :
                /\ used' = used \cup {c}
                /\ codeStore' = Put(codeStore, c, h.session)
                /\ accepted' = accepted \cup {[nonce |-> h.nonce, code |-> c, vps |-> h.vps,
                                                verifier |-> h.verifier,
                                                state |-> h.session.state]}
    /\ UNCHANGED <<stateStore, tokens, authorized, requested, errorRedirects>>

\* The rest of handleAuthorizeResponseSubmission (lines 412-454): every
\* challenge is deleted, then either the nonce check or VerifyVP (or the
\* code Put) fails, or a fresh code is stored with the session and the
\* caller is redirected with the code and the session's ClientState.
CompleteAuthorizeResponseSubmission(p) ==
    LET h == handler[p] IN
    /\ h.pc = "lookedUp"
    /\ nonceStore' = Delete(nonceStore, Challenges(h.vps))
    /\ handler' = [handler EXCEPT ![p] = Idle]
    /\ consumed' = consumed \cup {h.nonce}
    /\ \/ UNCHANGED <<codeStore, used, accepted>>
       \/ /\ ValidatePresentationNonce(h.vps)
          /\ \E c \in Codes \ used :
                /\ used' = used \cup {c}
                /\ codeStore' = Put(codeStore, c, h.session)
                /\ accepted' = accepted \cup {[nonce |-> h.nonce, code |-> c, vps |-> h.vps,
                                                verifier |-> h.verifier,
                                                state |-> h.session.state]}
    /\ UNCHANGED <<stateStore, tokens, authorized, requested, errorRedirects>>

\* handleAuthorizeResponseError (lines 322-349): the wallet posts an error
\* with the state it was given; a client state found in the store sends
\* the user agent to the session's redirect_uri.  An absent or expired
\* state renders an error page, which changes no state.
HandleAuthorizeResponseError(st) ==
    /\ stateStore[st] # None
    /\ errorRedirects' = errorRedirects \cup {[state |-> st, redirect |-> stateStore[st].redirect]}
    /\ UNCHANGED <<nonceStore, stateStore, codeStore, used, handler, tokens,
                   authorized, accepted, consumed, requested>>

\* Mutant: the redirect_uri comparison of line 534 left out.
HandleAccessTokenRequestNoRedirectCheck(c, r, client) ==
    /\ codeStore[c] # None
    /\ codeStore[c].client = client
    /\ tokens' = tokens \cup {[code |-> c, client |-> client, redirect |-> r]}
    /\ UNCHANGED <<nonceStore, stateStore, codeStore, used, handler,
                   authorized, accepted, consumed, requested, errorRedirects>>

\* handleAccessTokenRequest (lines 516-557) for a request that gets a
\* token: the code is found (Get, no delete) and redirect_uri and client_id
\* equal the session's.  Every failing path changes no state.
HandleAccessTokenRequest(c, r, client) ==
    /\ codeStore[c] # None
    /\ codeStore[c].redirect = r
    /\ codeStore[c].client = client
    /\ tokens' = tokens \cup {[code |-> c, client |-> client, redirect |-> r]}
    /\ UNCHANGED <<nonceStore, stateStore, codeStore, used, handler,
                   authorized, accepted, consumed, requested, errorRedirects>>

\* The flow timeout of the session store: any entry can expire.
ExpireNonce(n) ==
    /\ nonceStore[n] # None
    /\ nonceStore' = Put(nonceStore, n, None)
    /\ UNCHANGED <<stateStore, codeStore, used, handler, tokens, authorized,
                   accepted, consumed, requested, errorRedirects>>

ExpireState(s) ==
    /\ stateStore[s] # None
    /\ stateStore' = Put(stateStore, s, None)
    /\ UNCHANGED <<nonceStore, codeStore, used, handler, tokens, authorized,
                   accepted, consumed, requested, errorRedirects>>

ExpireCode(c) ==
    /\ codeStore[c] # None
    /\ codeStore' = Put(codeStore, c, None)
    /\ UNCHANGED <<nonceStore, stateStore, used, handler, tokens, authorized,
                   accepted, consumed, requested, errorRedirects>>

Next ==
    \/ \E v \in Verifiers, r \in RedirectURIs, cs \in ClientStates \cup {None},
         n \in Nonces, s \in States :
          HandleAuthorizeRequestFromHolder(v, r, cs, n, s)
    \/ \E p \in Procs, v \in Verifiers, vps \in Bundle :
          HandleAuthorizeResponseSubmission(p, v, vps)
    \/ \E vps \in Bundle : RejectAuthorizeResponseSubmission(vps)
    \/ \E p \in Procs : CompleteAuthorizeResponseSubmission(p)
    \/ \E st \in States : HandleAuthorizeResponseError(st)
    \/ \E c \in Codes, r \in RedirectURIs, v \in Verifiers :
          HandleAccessTokenRequest(c, r, v)
    \/ \E n \in Nonces : ExpireNonce(n)
    \/ \E s \in States : ExpireState(s)
    \/ \E c \in Codes : ExpireCode(c)

Spec == Init /\ [][Next]_vars

-----------------------------------------------------------------------------
(* Properties.                                                             *)

TypeOK ==
    /\ nonceStore \in [Nonces -> Session \cup {None}]
    /\ stateStore \in [States -> Session \cup {None}]
    /\ codeStore \in [Codes -> Session \cup {None}]
    /\ used \subseteq Nonces \cup States \cup Codes
    /\ handler \in [Procs -> {Idle} \cup LookedUp]
    /\ tokens \subseteq Token
    /\ authorized \in [Nonces -> Session \cup {None}]
    /\ accepted \subseteq [nonce: Nonces, code: Codes, vps: Bundle, verifier: Verifiers,
                           state: States]
    /\ consumed \subseteq Nonces
    /\ requested \in [Nonces -> ClientStates \cup {None}]
    /\ errorRedirects \subseteq [state: States, redirect: RedirectURIs]

\* Once a vp_token has been accepted for a nonce (a code minted for it),
\* that nonce is gone from the nonce store, whichever presentation carried
\* it and whatever other requests ran meanwhile: the burn in
\* validatePresentationNonce and the freshness of GenerateNonce.
AcceptedNonceBurned ==
    \A a \in accepted : nonceStore[a.nonce] = None

\* Every access token was requested with the redirect_uri and client_id of
\* the /authorize request whose nonce the redeemed code was minted for:
\* the chain authorize -> submission -> token exchange binds the token to
\* the original requester.
TokenBoundToAuthorization ==
    \A t \in tokens : \E a \in accepted :
        /\ a.code = t.code
        /\ authorized[a.nonce] # None
        /\ t.redirect = authorized[a.nonce].redirect
        /\ t.client = authorized[a.nonce].client

\* Every vp_token a code was minted for carries the looked-up nonce in
\* every presentation (as its challenge, or as its nonce when the
\* challenge is empty): the lookup uses the first challenge only, and the
\* loop of validatePresentationNonce must tie the others to it.
AcceptedPresentationsAgree ==
    \A a \in accepted : \A i \in DOMAIN a.vps : EffectiveNonce(a.vps[i]) = a.nonce

\* An error the wallet posts sends the user agent back to the redirect_uri
\* of an /authorize request that stored its session under a nonce and
\* minted the state the error carries (the spec, section 3: nonce and state
\* reference the same session).  The two Puts of lines 165-170 can fail
\* separately; as the nonce is put first, no state entry is left by an
\* /authorize whose nonce Put failed.
ErrorRedirectToRequester ==
    \A e \in errorRedirects : \E n \in Nonces :
        /\ authorized[n] # None
        /\ authorized[n].state = e.state
        /\ authorized[n].redirect = e.redirect

\* The spec (sections 3 and 4.4, step 9): the session keeps the state the
\* client sent, and the caller is redirected with the code and that state
\* (line 64: the state maintains state between request and callback).
\* The code stores and returns the state it minted itself (lines 142, 161
\* and 452), never the client's.
CallbackCarriesClientState ==
    \A a \in accepted : a.state = requested[a.nonce]

\* The spec (section 3, ephemeral key records): each namespace is
\* partitioned per owning party, so a code is only minted at the response
\* endpoint of the verifier whose /authorize request minted the nonce.
\* oauthNonceStore (line 762) has one namespace for all tenants, and the
\* lookup of line 375 never compares the session's OwnDID with the {id}.
NonceBoundToVerifier ==
    \A a \in accepted : authorized[a.nonce].client = a.verifier

\* The verifier implements the authorization-code grant of the spec: the
\* nonce history is the grant, the codes of accepted submissions are the
\* bound codes.  Every step of the handlers, their failures, the goroutine
\* interleavings and the expiries included, is a step of the grant or
\* leaves it unchanged.
Grant == INSTANCE AuthorizationCodeGrant WITH
            Sessions <- Session,
            Clients <- Verifiers,
            grant <- authorized,
            issued <- {<<a.code, a.nonce>> : a \in accepted}

GrantSpec == Grant!Spec

\* The spec (section 5): two racing submissions of one nonce never both get
\* an authorization code.  The lookup (Get) and the burn (Delete) are two
\* separate store calls, and the burn ignores that the key is already gone.
NoDoubleAcceptance ==
    \A a, b \in accepted : a.nonce = b.nonce => a = b

\* The spec (sections 3 and 8): an authorization code is redeemable at most
\* once.  handleAccessTokenRequest only Gets the code.
CodeSingleUse ==
    \A t \in tokens : codeStore[t.code] = None

\* The spec (sections 3 and 5): a nonce a submission has used is burned on
\* every code path, success or failure.  The failures of lines 381-410
\* return before validatePresentationNonce runs.
ConsumedNonceBurned ==
    \A n \in consumed : nonceStore[n] = None

=============================================================================
