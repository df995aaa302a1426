--------------------------- MODULE OpenID4VPWallet ---------------------------
(***************************************************************************)
(* The wallet side of the verifier-initiated OpenID4VP flow of the nuts    *)
(* node: handleAuthorizeRequestFromVerifier checks the verifier's request  *)
(* gate by gate, has the holder build a presentation, and answers the user *)
(* agent through the direct-post responder (sendAndHandleDirectPost,       *)
(* sendAndHandleDirectPostError) and the remote client (PostError,         *)
(* PostAuthorizationResponse), src/auth/api/iam/openid4vp.go lines         *)
(* 179-310 and src/auth/client/iam/openid4vp.go lines 77-111.              *)
(*                                                                         *)
(* The handler keeps no state between requests: each request of Requests  *)
(* is handled in one step, and the state is what it posted to the          *)
(* verifier and what it answered.  URLs are sequences of string pieces     *)
(* (host pieces, then path pieces), so that strings.HasPrefix is a prefix  *)
(* of sequences and the origin is the host part.                           *)
(***************************************************************************)
EXTENDS Naturals, Sequences

CONSTANTS
    Requests,       \* authorization requests arriving at /iam/{id}/authorize
    WalletDIDs,     \* owned did:web DIDs, as [host, path] records
    Hosts,          \* first piece of a host name ("example.com")
    HostExts,       \* piece continuing a host name (".evil.com", ":8080")
    Segments,       \* path piece ("/iam", "/1")
    Locations,      \* redirect locations a verifier can answer a post with
    ResponseURIs,   \* response_uri values a verifier can send
    PublicURIs,     \* those core.ParsePublicURL accepts
    States,         \* state values a verifier can send
    None            \* an absent parameter or result

ASSUME WalletAssumption ==
    /\ Hosts \cap Segments = {}
    /\ HostExts \cap Segments = {}
    /\ PublicURIs \subseteq ResponseURIs
    /\ None \notin ResponseURIs \cup States \cup Locations
    /\ WalletDIDs \subseteq [host: Hosts, path: Seq(Segments)]
    /\ Locations \subseteq Seq(Hosts \cup HostExts \cup Segments)

VARIABLES
    request,        \* the parameters and remote results each request met
    posted,         \* direct posts sent to verifiers
    answer          \* the answer each request gave the user agent

vars == <<request, posted, answer>>

-----------------------------------------------------------------------------
(* URLs.                                                                   *)

\* didweb.DIDToURL (line 276): did:web:host:p1:p2 becomes https://host/p1/p2.
\* Its error return (277-278) is unreachable for the did:web records of
\* WalletDIDs and is left out.
DIDToURL(did) == <<did.host>> \o did.path

\* strings.HasPrefix on the string forms.
HasPrefix(s, t) == Len(t) <= Len(s) /\ SubSeq(s, 1, Len(t)) = t

\* The scheme and host of a URL: its pieces before the first path piece.
Origin(url) ==
    LET hostLen == CHOOSE k \in 0..Len(url) :
                      /\ \A i \in 1..k : url[i] \notin Segments
                      /\ k < Len(url) => url[k + 1] \in Segments
    IN  SubSeq(url, 1, hostLen)

-----------------------------------------------------------------------------
(* Inputs.                                                                 *)

InvalidRequest == "invalid_request"
ServerError == "server_error"
InvalidPresentationDefinitionURI == "invalid_presentation_definition_uri"

\* The query parameters handleAuthorizeRequestFromVerifier reads.
Params ==
    [responseMode: {"direct_post", "other"},
     responseURI: ResponseURIs \cup {None},
     state: States \cup {None},
     clientIDScheme: {"did", "other"},
     clientID: {"did:web", "other"},
     nonce: BOOLEAN]

\* What the holder, the wallet and the verifier return: client metadata,
\* presentation definition, BuildPresentation, and the verifier's answer
\* to the direct post (a redirect location, or a failed post).
Remote ==
    [metadata: BOOLEAN,
     definition: BOOLEAN,
     build: {"ok", "noCredentials", "failed"},
     reply: Locations \cup {None}]

\* Mutant: a wrong client_id_scheme returned to the user agent instead of
\* posted to the verifier, as lines 198-225 do for the two gates before it.
GatesSchemeReturned(prm, rem) ==
    << [ok |-> prm.responseMode = "direct_post", code |-> InvalidRequest, post |-> FALSE],
       [ok |-> prm.responseURI # None, code |-> InvalidRequest, post |-> FALSE],
       [ok |-> prm.clientIDScheme = "did", code |-> InvalidRequest, post |-> FALSE],
       [ok |-> prm.clientID = "did:web", code |-> InvalidRequest, post |-> TRUE],
       [ok |-> prm.nonce, code |-> InvalidRequest, post |-> TRUE],
       [ok |-> rem.metadata, code |-> ServerError, post |-> TRUE],
       [ok |-> rem.definition, code |-> InvalidPresentationDefinitionURI, post |-> TRUE],
       [ok |-> rem.build # "noCredentials", code |-> InvalidRequest, post |-> TRUE],
       [ok |-> rem.build # "failed", code |-> ServerError, post |-> TRUE] >>

\* The gates of lines 198-249 in order: whether each passes, the error it
\* gives, and whether the error is posted to the verifier or returned.
Gates(prm, rem) ==
    << [ok |-> prm.responseMode = "direct_post", code |-> InvalidRequest, post |-> FALSE],
       [ok |-> prm.responseURI # None, code |-> InvalidRequest, post |-> FALSE],
       [ok |-> prm.clientIDScheme = "did", code |-> InvalidRequest, post |-> TRUE],
       [ok |-> prm.clientID = "did:web", code |-> InvalidRequest, post |-> TRUE],
       [ok |-> prm.nonce, code |-> InvalidRequest, post |-> TRUE],
       [ok |-> rem.metadata, code |-> ServerError, post |-> TRUE],
       [ok |-> rem.definition, code |-> InvalidPresentationDefinitionURI, post |-> TRUE],
       [ok |-> rem.build # "noCredentials", code |-> InvalidRequest, post |-> TRUE],
       [ok |-> rem.build # "failed", code |-> ServerError, post |-> TRUE] >>

\* The first gate that fails, or 0 when all pass.
FirstFailure(prm, rem) ==
    LET g == Gates(prm, rem)
        failing == {i \in DOMAIN g : ~g[i].ok}
    IN  IF failing = {} THEN 0
        ELSE CHOOSE i \in failing : \A j \in failing : i <= j

-----------------------------------------------------------------------------
(* Answers.                                                                *)

Post(kind, prm, code) ==
    [kind |-> kind, to |-> prm.responseURI, state |-> prm.state, code |-> code]

LocalError(code) == [kind |-> "error", code |-> code]

Redirect(via, loc) == [kind |-> "redirect", via |-> via, location |-> loc]

\* Mutant: the verifier's redirect followed without the check of line 280.
SendAndHandleDirectPostErrorUnchecked(q, w, prm, rem, code) ==
    /\ posted' = IF prm.responseURI \in PublicURIs
                 THEN posted \cup {Post("error", prm, code)} ELSE posted
    /\ answer' = [answer EXCEPT ![q] =
                    IF prm.responseURI \in PublicURIs /\ rem.reply # None
                    THEN Redirect("error", rem.reply)
                    ELSE LocalError(ServerError)]

\* sendAndHandleDirectPostError (lines 272-310) with PostError (client,
\* lines 77-96): the error is posted with the state when the response URI
\* is public; the verifier's redirect is followed when it starts with the
\* wallet's URL.  Otherwise, as the error built in this flow carries no
\* RedirectURI, the answer is a local server_error.
SendAndHandleDirectPostError(q, w, prm, rem, code) ==
    /\ posted' = IF prm.responseURI \in PublicURIs
                 THEN posted \cup {Post("error", prm, code)} ELSE posted
    /\ answer' = [answer EXCEPT ![q] =
                    IF /\ prm.responseURI \in PublicURIs
                       /\ rem.reply # None
                       /\ HasPrefix(rem.reply, DIDToURL(w))
                    THEN Redirect("error", rem.reply)
                    ELSE LocalError(ServerError)]

\* Mutant: the response is posted without core.ParsePublicURL first.
SendAndHandleDirectPostUnparsed(q, prm, rem) ==
    /\ posted' = posted \cup {Post("vp", prm, None)}
    /\ answer' = [answer EXCEPT ![q] =
                    IF prm.responseURI \in PublicURIs /\ rem.reply # None
                    THEN Redirect("vp", rem.reply)
                    ELSE LocalError("post failed")]

\* sendAndHandleDirectPost (lines 257-267) with PostAuthorizationResponse
\* (client, lines 98-111): the verifier's redirect is followed unchecked;
\* a failed post is returned as the error it is.
SendAndHandleDirectPost(q, prm, rem) ==
    /\ posted' = IF prm.responseURI \in PublicURIs
                 THEN posted \cup {Post("vp", prm, None)} ELSE posted
    /\ answer' = [answer EXCEPT ![q] =
                    IF prm.responseURI \in PublicURIs /\ rem.reply # None
                    THEN Redirect("vp", rem.reply)
                    ELSE LocalError("post failed")]

-----------------------------------------------------------------------------
(* Actions.                                                                *)

Init ==
    /\ request = [q \in Requests |-> None]
    /\ posted = {}
    /\ answer = [q \in Requests |-> None]

\* handleAuthorizeRequestFromVerifier (lines 197-253) for wallet w.
HandleAuthorizeRequestFromVerifier(q, w, prm, rem) ==
    LET i == FirstFailure(prm, rem) IN
    /\ answer[q] = None
    /\ request' = [request EXCEPT ![q] = [wallet |-> w, params |-> prm, remote |-> rem]]
    /\ \/ /\ i # 0
          /\ ~Gates(prm, rem)[i].post
          /\ answer' = [answer EXCEPT ![q] = LocalError(Gates(prm, rem)[i].code)]
          /\ UNCHANGED posted
       \/ /\ i # 0
          /\ Gates(prm, rem)[i].post
          /\ SendAndHandleDirectPostError(q, w, prm, rem, Gates(prm, rem)[i].code)
       \/ /\ i = 0
          /\ SendAndHandleDirectPost(q, prm, rem)

Next ==
    \E q \in Requests, w \in WalletDIDs, prm \in Params, rem \in Remote :
        HandleAuthorizeRequestFromVerifier(q, w, prm, rem)

Spec == Init /\ [][Next]_vars

-----------------------------------------------------------------------------
(* Properties.                                                             *)

Answer ==
    [kind: {"error"}, code: {InvalidRequest, ServerError, "post failed"}]
        \cup [kind: {"redirect"}, via: {"vp", "error"}, location: Locations]

TypeOK ==
    /\ request \in [Requests -> [wallet: WalletDIDs, params: Params, remote: Remote] \cup {None}]
    /\ posted \subseteq [kind: {"vp", "error"}, to: PublicURIs, state: States \cup {None},
                         code: {InvalidRequest, ServerError, InvalidPresentationDefinitionURI, None}]
    /\ answer \in [Requests -> Answer \cup {None}]

\* Scenario C of the spec: after an error has been posted, the user agent
\* is only redirected to a location on the wallet's own origin, whatever
\* location the verifier answered with.
ErrorRedirectOnWalletOrigin ==
    \A q \in Requests :
        answer[q] # None /\ answer[q].kind = "redirect" /\ answer[q].via = "error"
            => Origin(answer[q].location) = Origin(DIDToURL(request[q].wallet))

\* The spec (section 4.2): response_uri and state are read before any other
\* check so that every later failure is posted to the verifier; a request
\* that carried a public response_uri and failed is posted back.
FailureWithResponseURIPosted ==
    \A q \in Requests :
        /\ answer[q] # None
        /\ request[q].params.responseURI \in PublicURIs
        /\ FirstFailure(request[q].params, request[q].remote) # 0
        => \E m \in posted : m.kind = "error" /\ m.to = request[q].params.responseURI

\* The comment of line 203: once response_uri has been read, "later errors
\* will redirect to this URL".  A request with a public response_uri that
\* failed at a gate after the first two had the error of that gate posted
\* to that URI, with the verifier's state, by sendAndHandleDirectPostError.
LaterFailurePosted ==
    \A q \in Requests :
        LET prm == request[q].params
            i == FirstFailure(prm, request[q].remote)
        IN  /\ answer[q] # None
            /\ prm.responseURI \in PublicURIs
            /\ i > 2
            => Post("error", prm, Gates(prm, request[q].remote)[i].code) \in posted

=============================================================================
