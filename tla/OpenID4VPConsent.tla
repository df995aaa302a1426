--------------------------- MODULE OpenID4VPConsent ---------------------------
(***************************************************************************)
(* The user-consent part of the wallet's OpenID4VP flow                    *)
(* (src/auth/api/iam/openid4vp.go): handlePresentationRequest stores the   *)
(* session under a fresh session id and renders a consent page carrying    *)
(* that id; handlePresentationRequestAccept, called with the id the page   *)
(* posts back, loads the session and redirects with the presentation.      *)
(*                                                                         *)
(* The session database (outside src/) is a store per key path given to   *)
(* GetStore; a path is a sequence of its string parts, the owner's DID     *)
(* being one of them.  The zero did.DID prints as NoDID.                   *)
(***************************************************************************)
CONSTANTS
    Owners,         \* the wallet DIDs owned by the node
    SessionIDs,     \* values uuid.NewString can return
    NoDID,          \* String() of the zero did.DID: ""
    None

VARIABLES
    db,         \* db[path][id]: the session stored under id at that path
    used,       \* session ids generated so far
    consents    \* history: each consent submission and how it ended

vars == <<db, used, consents>>

\* The key path handlePresentationRequest gives GetStore (line 670).
RequestPaths == {<<o, "session">> : o \in Owners}

\* The key path handlePresentationRequestAccept gives GetStore (line 697),
\* built from session.OwnDID, which may still be the zero DID.
AcceptPaths == {<<"openid", o, "session">> : o \in Owners \cup {NoDID}}

\* The stores of the session database the flow reaches.
Paths == RequestPaths \cup AcceptPaths

\* The part of OAuthSession the flow tells apart: its OwnDID.
Session == [owner: Owners \cup {NoDID}]

Init ==
    /\ db = [p \in Paths |-> [i \in SessionIDs |-> None]]
    /\ used = {}
    /\ consents = {}

\* handlePresentationRequest (lines 584-686) for a request that passes the
\* parameter checks, the definition parse and the submission build (their
\* failures return before any state change): the session is Put under a
\* fresh id at <<OwnDID, "session">>; the Put can fail.
HandlePresentationRequest(own, id) ==
    /\ id \notin used
    /\ used' = used \cup {id}
    /\ \/ db' = [db EXCEPT ![<<own, "session">>][id] = [owner |-> own]]
       \/ UNCHANGED db
    /\ UNCHANGED consents

\* handlePresentationRequestAccept (lines 689-731): the store path is built
\* from session.OwnDID before Get fills session in, so from the zero DID; a
\* session found there goes on to List, Build and BuildPresentation, any of
\* which can fail, and a redirect.
HandlePresentationRequestAccept(id) ==
    LET zero == [owner |-> NoDID]
        path == <<"openid", zero.owner, "session">>
        live == \E o \in Owners : db[<<o, "session">>][id] # None
    IN  /\ \E outcome \in IF db[path][id] = None THEN {"invalidSession"}
                         ELSE {"error", "redirect"} :
              consents' = consents \cup {[id |-> id, live |-> live, outcome |-> outcome]}
        /\ UNCHANGED <<db, used>>

\* The session expiry of the database: any entry can expire.
ExpireSession(p, id) ==
    /\ db[p][id] # None
    /\ db' = [db EXCEPT ![p][id] = None]
    /\ UNCHANGED <<used, consents>>

Next ==
    \/ \E own \in Owners, id \in SessionIDs : HandlePresentationRequest(own, id)
    \/ \E id \in SessionIDs : HandlePresentationRequestAccept(id)
    \/ \E p \in Paths, id \in SessionIDs : ExpireSession(p, id)

Spec == Init /\ [][Next]_vars

-----------------------------------------------------------------------------

TypeOK ==
    /\ db \in [Paths -> [SessionIDs -> Session \cup {None}]]
    /\ used \subseteq SessionIDs
    /\ consents \subseteq [id: SessionIDs, live: BOOLEAN,
                           outcome: {"invalidSession", "error", "redirect"}]

\* The consent page posts back the session id handlePresentationRequest
\* stored (templateParams.SessionID, line 672), and the handler of that
\* form (the comment of line 688) loads the session under it: a consent for
\* a session that is stored and has not expired never ends in "invalid
\* session".  Put and Get use different paths (lines 670 and 697).
ConsentFindsSession ==
    \A c \in consents : c.live => c.outcome # "invalidSession"

=============================================================================
