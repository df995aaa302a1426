------------------------ MODULE OpenID4VPWalletProofs ------------------------
(***************************************************************************)
(* Proofs about the wallet's OpenID4VP handler (OpenID4VPWallet): every     *)
(* reachable state is well typed, and an error redirect always stays on    *)
(* the origin of the wallet's did:web URL, whenever that URL has a path.   *)
(*                                                                         *)
(* The argument has two halves.  The inductive one (WInv): the handler     *)
(* answers with an error redirect only after the check of line 280 held,  *)
(* so every such answer is a location that starts with the URL of the      *)
(* wallet recorded in request[q].  The URL one (OriginOfPrefix): a URL     *)
(* that starts with https://host/p1... has the origin https://host, since  *)
(* its second piece is a path piece.                                       *)
(***************************************************************************)
EXTENDS OpenID4VPWallet, SequenceTheorems, TLAPS

-----------------------------------------------------------------------------
(* The first failing gate.                                                 *)

\* The nine gates of Gates, numbered 1 to 9.
LEMMA GatesDomain ==
    ASSUME NEW prm, NEW rem
    PROVE  DOMAIN Gates(prm, rem) = 1..9
BY DEF Gates

\* A gate whose error is returned rather than posted gives invalid_request,
\* and every gate gives one of the three codes of the handler.
LEMMA GateCodes ==
    ASSUME NEW prm, NEW rem, NEW i \in 1..9
    PROVE  /\ Gates(prm, rem)[i].code \in {InvalidRequest, ServerError,
                                           InvalidPresentationDefinitionURI}
           /\ ~Gates(prm, rem)[i].post => Gates(prm, rem)[i].code = InvalidRequest
BY DEF Gates, InvalidRequest, ServerError, InvalidPresentationDefinitionURI

\* FirstFailure names a gate, or is 0.
LEMMA FirstFailureRange ==
    ASSUME NEW prm, NEW rem
    PROVE  FirstFailure(prm, rem) \in 0..9
<1> DEFINE g == Gates(prm, rem)
           failing == {i \in DOMAIN g : ~g[i].ok}
<1>1. failing \subseteq 1..9
  BY GatesDomain
<1>2. CASE failing = {}
  BY <1>2 DEF FirstFailure
<1>3. CASE failing # {}
  <2>1. \E i \in failing : \A j \in failing : i <= j
    <3>1. \A n \in 1..9 : n \in failing => \E i \in failing : \A j \in failing : i <= j
      BY <1>1, SMTT(30)
    <3>. QED  BY <1>1, <1>3, <3>1
  <2>. QED  BY <1>1, <1>3, <2>1 DEF FirstFailure
<1>. QED  BY <1>2, <1>3

-----------------------------------------------------------------------------
(* URLs.                                                                   *)

\* A URL whose first piece is a host piece and whose second is a path
\* piece has that host as its origin.
LEMMA OriginOfHost ==
    ASSUME NEW url \in Seq(Hosts \cup HostExts \cup Segments),
           Len(url) >= 2, url[1] \notin Segments, url[2] \in Segments
    PROVE  Origin(url) = <<url[1]>>
<1> DEFINE IsHostLen(k) == /\ \A i \in 1..k : url[i] \notin Segments
                           /\ k < Len(url) => url[k + 1] \in Segments
<1>1. IsHostLen(1)
  OBVIOUS
<1>2. \A k \in 0..Len(url) : IsHostLen(k) => k = 1
  OBVIOUS
<1>3. (CHOOSE k \in 0..Len(url) : IsHostLen(k)) = 1
  BY <1>1, <1>2
<1>4. SubSeq(url, 1, 1) = <<url[1]>>
  <2>1. /\ SubSeq(url, 1, 1) \in Seq(Hosts \cup HostExts \cup Segments)
        /\ Len(SubSeq(url, 1, 1)) = 1
        /\ SubSeq(url, 1, 1)[1] = url[1]
    OBVIOUS
  <2>2. <<url[1]>> \in Seq(Hosts \cup HostExts \cup Segments)
    OBVIOUS
  <2>3. /\ Len(SubSeq(url, 1, 1)) = Len(<<url[1]>>)
        /\ \A i \in 1..Len(SubSeq(url, 1, 1)) : SubSeq(url, 1, 1)[i] = <<url[1]>>[i]
    BY <2>1
  <2>. QED  BY <2>1, <2>2, <2>3, SeqEqual, Zenon
<1>. QED  BY <1>3, <1>4 DEF Origin

\* A location that starts with the URL of a wallet whose DID has a path has
\* the origin of that URL.
LEMMA OriginOfPrefix ==
    ASSUME WalletAssumption,
           NEW w \in WalletDIDs, w.path # <<>>,
           NEW l \in Locations, HasPrefix(l, DIDToURL(w))
    PROVE  Origin(l) = Origin(DIDToURL(w))
<1> DEFINE u == DIDToURL(w)
<1>1. /\ w.host \in Hosts
      /\ w.path \in Seq(Segments)
      /\ l \in Seq(Hosts \cup HostExts \cup Segments)
  OBVIOUS
<1>2. /\ u \in Seq(Hosts \cup HostExts \cup Segments)
      /\ Len(u) >= 2
      /\ u[1] = w.host
      /\ u[2] = w.path[1]
  BY <1>1 DEF DIDToURL
<1>3. /\ w.host \notin Segments
      /\ w.path[1] \in Segments
  BY <1>1
<1>4. /\ Len(l) >= 2
      /\ l[1] = w.host
      /\ l[2] = w.path[1]
  <2>1. Len(u) <= Len(l) /\ SubSeq(l, 1, Len(u)) = u
    BY DEF HasPrefix
  <2>. QED  BY <1>1, <1>2, <2>1
<1>5. Origin(u) = <<w.host>>
  BY <1>2, <1>3, OriginOfHost
<1>6. Origin(l) = <<w.host>>
  BY <1>1, <1>3, <1>4, OriginOfHost
<1>. QED  BY <1>5, <1>6

-----------------------------------------------------------------------------
(* The inductive invariant.                                                *)

\* Every error redirect the handler gave passed the check of line 280: its
\* location starts with the URL of the wallet the request was made to.
RedirectChecked ==
    \A q \in Requests :
        answer[q] # None /\ answer[q].kind = "redirect" /\ answer[q].via = "error"
            => /\ request[q] \in [wallet: WalletDIDs, params: Params, remote: Remote]
               /\ HasPrefix(answer[q].location, DIDToURL(request[q].wallet))

WInv == TypeOK /\ RedirectChecked

LEMMA InitWInv == Init => WInv
BY DEF Init, WInv, TypeOK, RedirectChecked

\* One step of the handler keeps WInv: the answer it gives is of the answer
\* type, and an error redirect passed the prefix check against the wallet
\* it records in request[q].
LEMMA NextWInv == WInv /\ [Next]_vars => WInv'
<1> SUFFICES ASSUME WInv, [Next]_vars PROVE WInv'
  OBVIOUS
<1> DEFINE PostType == [kind: {"vp", "error"}, to: PublicURIs, state: States \cup {None},
                        code: {InvalidRequest, ServerError, InvalidPresentationDefinitionURI, None}]
<1>1. CASE UNCHANGED vars
  BY <1>1 DEF WInv, TypeOK, RedirectChecked, vars
<1>2. CASE Next
  <2>1. PICK q \in Requests, w \in WalletDIDs, prm \in Params, rem \in Remote :
                HandleAuthorizeRequestFromVerifier(q, w, prm, rem)
    BY <1>2 DEF Next
  <2> DEFINE i == FirstFailure(prm, rem)
             g == Gates(prm, rem)
             Checked(a) == /\ a \in Answer
                           /\ a.kind = "redirect" /\ a.via = "error"
                                  => HasPrefix(a.location, DIDToURL(w))
  <2>2. request' = [request EXCEPT ![q] = [wallet |-> w, params |-> prm, remote |-> rem]]
    BY <2>1 DEF HandleAuthorizeRequestFromVerifier
  <2>3. i \in 0..9
    BY FirstFailureRange
  <2>4. /\ posted' \subseteq PostType
        /\ \E a : Checked(a) /\ answer' = [answer EXCEPT ![q] = a]
    <3>1. posted \subseteq PostType
      BY DEF WInv, TypeOK
    <3>2. CASE /\ i # 0
               /\ ~g[i].post
               /\ answer' = [answer EXCEPT ![q] = LocalError(g[i].code)]
               /\ UNCHANGED posted
      <4>1. g[i].code = InvalidRequest
        BY <2>3, <3>2, GateCodes
      <4>2. Checked(LocalError(g[i].code))
        BY <4>1 DEF LocalError, Answer, InvalidRequest
      <4>. QED  BY <3>1, <3>2, <4>2
    <3>3. CASE /\ i # 0
               /\ g[i].post
               /\ SendAndHandleDirectPostError(q, w, prm, rem, g[i].code)
      <4>1. g[i].code \in {InvalidRequest, ServerError, InvalidPresentationDefinitionURI}
        BY <2>3, <3>3, GateCodes
      <4>2. prm.responseURI \in PublicURIs => Post("error", prm, g[i].code) \in PostType
        BY <4>1 DEF Post, Params
      <4>3. Checked(IF /\ prm.responseURI \in PublicURIs
                       /\ rem.reply # None
                       /\ HasPrefix(rem.reply, DIDToURL(w))
                    THEN Redirect("error", rem.reply)
                    ELSE LocalError(ServerError))
        BY DEF Redirect, LocalError, Answer, ServerError, Remote
      <4>. QED  BY <3>1, <3>3, <4>2, <4>3 DEF SendAndHandleDirectPostError
    <3>4. CASE /\ i = 0
               /\ SendAndHandleDirectPost(q, prm, rem)
      <4>1. prm.responseURI \in PublicURIs => Post("vp", prm, None) \in PostType
        BY DEF Post, Params
      <4>2. Checked(IF prm.responseURI \in PublicURIs /\ rem.reply # None
                    THEN Redirect("vp", rem.reply)
                    ELSE LocalError("post failed"))
        BY DEF Redirect, LocalError, Answer, Remote
      <4>. QED  BY <3>1, <3>4, <4>1, <4>2 DEF SendAndHandleDirectPost
    <3>. QED  BY <2>1, <3>2, <3>3, <3>4 DEF HandleAuthorizeRequestFromVerifier
  <2>5. PICK a : Checked(a) /\ answer' = [answer EXCEPT ![q] = a]
    BY <2>4
  <2>6. TypeOK'
    BY <2>2, <2>4, <2>5 DEF WInv, TypeOK
  <2>7. RedirectChecked'
    <3>1. SUFFICES ASSUME NEW r \in Requests,
                          answer'[r] # None, answer'[r].kind = "redirect",
                          answer'[r].via = "error"
                   PROVE  /\ request'[r] \in [wallet: WalletDIDs, params: Params, remote: Remote]
                          /\ HasPrefix(answer'[r].location, DIDToURL(request'[r].wallet))
      BY DEF RedirectChecked
    <3>2. CASE r = q
      <4>1. /\ answer'[q] = a
            /\ request'[q] = [wallet |-> w, params |-> prm, remote |-> rem]
        BY <2>2, <2>5 DEF WInv, TypeOK
      <4>2. a.kind = "redirect" /\ a.via = "error"
        BY <3>1, <3>2, <4>1
      <4>3. HasPrefix(a.location, DIDToURL(w))
        BY <2>5, <4>2 DEF Checked
      <4>. QED  BY <3>2, <4>1, <4>3
    <3>3. CASE r # q
      BY <2>2, <2>5, <3>1, <3>3 DEF WInv, TypeOK, RedirectChecked
    <3>. QED  BY <3>2, <3>3
  <2>. QED  BY <2>6, <2>7 DEF WInv
<1>. QED  BY <1>1, <1>2

\* The handler's state is always well typed: each request records the
\* wallet, parameters and remote results it met, each post goes to a public
\* response URI with one of the handler's codes, and each answer is an error
\* code of the handler or a redirect to a location the verifier gave.
THEOREM WalletTypeCorrect == Spec => []TypeOK
<1>1. WInv => TypeOK
  BY DEF WInv
<1>. QED  BY InitWInv, NextWInv, <1>1, PTL DEF Spec

\* Scenario C: after posting an error, sendAndHandleDirectPostError
\* redirects the user agent only to a location on the origin of the
\* wallet's did:web URL, provided that URL has a path (as did:web:host:iam:id
\* has).  For a DID without one, did:web:ex, the check of line 280 accepts
\* https://ex.evil/..., so the hypothesis cannot be dropped.
THEOREM ErrorRedirectOrigin ==
    ASSUME \A w \in WalletDIDs : w.path # <<>>
    PROVE  Spec => []ErrorRedirectOnWalletOrigin
<1>1. WInv => ErrorRedirectOnWalletOrigin
  <2>1. SUFFICES ASSUME WInv, NEW q \in Requests,
                        answer[q] # None, answer[q].kind = "redirect",
                        answer[q].via = "error"
                 PROVE  Origin(answer[q].location) = Origin(DIDToURL(request[q].wallet))
    BY DEF ErrorRedirectOnWalletOrigin
  <2>2. /\ request[q] \in [wallet: WalletDIDs, params: Params, remote: Remote]
        /\ HasPrefix(answer[q].location, DIDToURL(request[q].wallet))
    BY <2>1 DEF WInv, RedirectChecked
  <2>3. /\ request[q].wallet \in WalletDIDs
        /\ answer[q].location \in Locations
    BY <2>1, <2>2 DEF WInv, TypeOK, Answer
  <2>. QED  BY <2>2, <2>3, WalletAssumption, OriginOfPrefix
<1>. QED  BY InitWInv, NextWInv, <1>1, PTL DEF Spec

-----------------------------------------------------------------------------
(* Errors after the response URI.                                          *)

\* Every gate after the first two posts its error (lines 226-249 call
\* sendAndHandleDirectPostError).
LEMMA GatesPostAfterTwo ==
    ASSUME NEW prm, NEW rem, NEW i \in 3..9
    PROVE  Gates(prm, rem)[i].post
BY DEF Gates

\* A handled request records what it met, and a later failure of it was
\* posted: the invariant LaterFailurePosted needs, with the record of the
\* request so that its parameters are defined.
AnsweredRecorded ==
    \A q \in Requests :
        answer[q] # None => request[q] \in [wallet: WalletDIDs, params: Params, remote: Remote]

PInv == WInv /\ AnsweredRecorded /\ LaterFailurePosted

LEMMA InitPInv == Init => PInv
BY InitWInv DEF Init, PInv, AnsweredRecorded, LaterFailurePosted

\* A step handles one request q: posts are only added, the other requests
\* keep their records and answers, and q's own failure after the second
\* gate goes through sendAndHandleDirectPostError, which posts it.
LEMMA NextPInv == PInv /\ [Next]_vars => PInv'
<1> SUFFICES ASSUME PInv, [Next]_vars PROVE PInv'
  OBVIOUS
<1>1. CASE UNCHANGED vars
  BY <1>1, NextWInv DEF PInv, AnsweredRecorded, LaterFailurePosted, vars
<1>2. CASE Next
  <2>1. PICK q \in Requests, w \in WalletDIDs, prm \in Params, rem \in Remote :
                HandleAuthorizeRequestFromVerifier(q, w, prm, rem)
    BY <1>2 DEF Next
  <2> DEFINE i == FirstFailure(prm, rem)
             g == Gates(prm, rem)
  <2>2. request' = [request EXCEPT ![q] = [wallet |-> w, params |-> prm, remote |-> rem]]
    BY <2>1 DEF HandleAuthorizeRequestFromVerifier
  <2>3. i \in 0..9
    BY FirstFailureRange
  <2>4. posted \subseteq posted'
    BY <2>1 DEF HandleAuthorizeRequestFromVerifier, SendAndHandleDirectPostError,
                SendAndHandleDirectPost
  <2>5. \E a : answer' = [answer EXCEPT ![q] = a]
    BY <2>1 DEF HandleAuthorizeRequestFromVerifier, SendAndHandleDirectPostError,
                SendAndHandleDirectPost
  <2>6. i > 2 /\ prm.responseURI \in PublicURIs => Post("error", prm, g[i].code) \in posted'
    <3>1. SUFFICES ASSUME i > 2, prm.responseURI \in PublicURIs
                   PROVE  Post("error", prm, g[i].code) \in posted'
      OBVIOUS
    <3>2. g[i].post /\ i # 0
      BY <2>3, <3>1, GatesPostAfterTwo
    <3>3. SendAndHandleDirectPostError(q, w, prm, rem, g[i].code)
      BY <2>1, <3>2 DEF HandleAuthorizeRequestFromVerifier
    <3>. QED  BY <3>1, <3>3 DEF SendAndHandleDirectPostError
  <2>7. WInv'
    BY <1>2, NextWInv DEF PInv
  <2>8. AnsweredRecorded'
    BY <2>2, <2>5 DEF PInv, WInv, TypeOK, AnsweredRecorded
  <2>9. LaterFailurePosted'
    <3>1. SUFFICES ASSUME NEW r \in Requests, answer'[r] # None,
                          request'[r].params.responseURI \in PublicURIs,
                          FirstFailure(request'[r].params, request'[r].remote) > 2
                   PROVE  Post("error", request'[r].params,
                               Gates(request'[r].params, request'[r].remote)
                                 [FirstFailure(request'[r].params, request'[r].remote)].code)
                            \in posted'
      BY DEF LaterFailurePosted
    <3>2. CASE r = q
      <4>1. request'[q] = [wallet |-> w, params |-> prm, remote |-> rem]
        BY <2>2 DEF PInv, WInv, TypeOK
      <4>. QED  BY <2>6, <3>1, <3>2, <4>1
    <3>3. CASE r # q
      <4>1. request'[r] = request[r] /\ answer'[r] = answer[r]
        BY <2>2, <2>5, <3>3 DEF PInv, WInv, TypeOK
      <4>. QED  BY <2>4, <3>1, <4>1 DEF PInv, LaterFailurePosted
    <3>. QED  BY <3>2, <3>3
  <2>. QED  BY <2>7, <2>8, <2>9 DEF PInv
<1>. QED  BY <1>1, <1>2

\* For every wallet and every request: once the handler has read a public
\* response_uri, a failure at any later gate (client id, nonce, metadata,
\* presentation definition, building the presentation) is posted to that
\* URI with the verifier's state and the gate's error code.
THEOREM LaterFailuresPosted == Spec => []LaterFailurePosted
<1>1. PInv => LaterFailurePosted
  BY DEF PInv
<1>. QED  BY InitPInv, NextPInv, <1>1, PTL DEF Spec

=============================================================================
