------------------------ MODULE OpenID4VPConsentProofs ------------------------
(***************************************************************************)
(* Proof that the consent flow of OpenID4VPConsent never finds its         *)
(* session, for any owners and session ids: finding 8 is not an accident   *)
(* of the instance the consent_session_lost run explores.                  *)
(*                                                                         *)
(* handlePresentationRequest Puts under <<OwnDID, "session">> (line 670),  *)
(* a path of two parts; handlePresentationRequestAccept Gets under         *)
(* <<"openid", OwnDID, "session">> (line 697), a path of three.  No step  *)
(* ever stores a session under a path of three parts, so every Get of the  *)
(* accept handler misses.                                                  *)
(***************************************************************************)
EXTENDS OpenID4VPConsent, Sequences, TLAPS

\* Every submission of the consent page ends in "invalid session": the
\* accept handler (lines 689-731) never reaches List, Build or the redirect.
ConsentNeverFinds ==
    \A c \in consents : c.outcome = "invalidSession"

\* The store paths the accept handler reads (line 697) hold nothing.
OpenPathsEmpty ==
    \A o \in Owners \cup {NoDID}, i \in SessionIDs :
        db[<<"openid", o, "session">>][i] = None

CInv == TypeOK /\ OpenPathsEmpty /\ ConsentNeverFinds

LEMMA InitCInv == Init => CInv
<1> SUFFICES ASSUME Init PROVE CInv
  OBVIOUS
<1>1. TypeOK
  BY DEF Init, TypeOK
<1>2. OpenPathsEmpty
  <2>1. \A o \in Owners \cup {NoDID} : <<"openid", o, "session">> \in Paths
    BY DEF Paths, AcceptPaths
  <2>. QED  BY <2>1 DEF Init, OpenPathsEmpty
<1>3. ConsentNeverFinds
  BY DEF Init, ConsentNeverFinds
<1>. QED  BY <1>1, <1>2, <1>3 DEF CInv

\* A path the request handler writes is never one the accept handler reads.
LEMMA PathsDiffer ==
    ASSUME NEW own, NEW o
    PROVE  <<own, "session">> # <<"openid", o, "session">>
<1>1. Len(<<own, "session">>) = 2 /\ Len(<<"openid", o, "session">>) = 3
  OBVIOUS
<1>. QED  BY <1>1

LEMMA NextCInv == CInv /\ [Next]_vars => CInv'
<1> SUFFICES ASSUME CInv, [Next]_vars PROVE CInv'
  OBVIOUS
<1>1. CASE \E own \in Owners, id \in SessionIDs : HandlePresentationRequest(own, id)
  <2>1. PICK own \in Owners, id \in SessionIDs : HandlePresentationRequest(own, id)
    BY <1>1
  <2>2. CASE db' = [db EXCEPT ![<<own, "session">>][id] = [owner |-> own]]
    <3>1. TypeOK'
      BY <2>1, <2>2 DEF HandlePresentationRequest, CInv, TypeOK, Session, Paths, RequestPaths, AcceptPaths
    <3>2. OpenPathsEmpty'
      BY <2>2, PathsDiffer DEF CInv, TypeOK, OpenPathsEmpty, Paths, RequestPaths, AcceptPaths
    <3>. QED  BY <2>1, <3>1, <3>2 DEF HandlePresentationRequest, CInv, ConsentNeverFinds
  <2>3. CASE UNCHANGED db
    BY <2>1, <2>3 DEF HandlePresentationRequest, CInv, TypeOK, OpenPathsEmpty, ConsentNeverFinds
  <2>. QED  BY <2>1, <2>2, <2>3 DEF HandlePresentationRequest
<1>2. CASE \E id \in SessionIDs : HandlePresentationRequestAccept(id)
  <2>1. PICK id \in SessionIDs : HandlePresentationRequestAccept(id)
    BY <1>2
  <2>2. db[<<"openid", NoDID, "session">>][id] = None
    BY DEF CInv, OpenPathsEmpty
  <2>3. \E live \in BOOLEAN :
          consents' = consents \cup {[id |-> id, live |-> live, outcome |-> "invalidSession"]}
    BY <2>1, <2>2 DEF HandlePresentationRequestAccept
  <2>4. PICK live \in BOOLEAN :
          consents' = consents \cup {[id |-> id, live |-> live, outcome |-> "invalidSession"]}
    BY <2>3
  <2>5. UNCHANGED <<db, used>>
    BY <2>1 DEF HandlePresentationRequestAccept
  <2>6. TypeOK'
    BY <2>4, <2>5 DEF CInv, TypeOK
  <2>7. OpenPathsEmpty'
    BY <2>5 DEF CInv, OpenPathsEmpty
  <2>8. ConsentNeverFinds'
    BY <2>4 DEF CInv, ConsentNeverFinds
  <2>. QED  BY <2>6, <2>7, <2>8 DEF CInv
<1>3. CASE \E p \in Paths, id \in SessionIDs : ExpireSession(p, id)
  <2>1. PICK p \in Paths, id \in SessionIDs : ExpireSession(p, id)
    BY <1>3
  <2>2. db' = [db EXCEPT ![p][id] = None] /\ UNCHANGED <<used, consents>>
    BY <2>1 DEF ExpireSession
  <2>3. TypeOK'
    BY <2>2 DEF CInv, TypeOK
  <2>4. OpenPathsEmpty'
    <3>1. SUFFICES ASSUME NEW o \in Owners \cup {NoDID}, NEW i \in SessionIDs
                   PROVE  db'[<<"openid", o, "session">>][i] = None
      BY DEF OpenPathsEmpty
    <3>2. <<"openid", o, "session">> \in Paths
      BY DEF Paths, RequestPaths, AcceptPaths
    <3>. QED  BY <2>2, <3>2 DEF CInv, TypeOK, OpenPathsEmpty
  <2>. QED  BY <2>2, <2>3, <2>4 DEF CInv, ConsentNeverFinds
<1>4. CASE UNCHANGED vars
  BY <1>4 DEF vars, CInv, TypeOK, OpenPathsEmpty, ConsentNeverFinds
<1>. QED  BY <1>1, <1>2, <1>3, <1>4 DEF Next

\* For every set of owners and session ids, no consent of the demo flow
\* ever finds the session handlePresentationRequest stored, live or not:
\* the Put of line 670 and the Get of line 697 use different paths.
THEOREM ConsentAlwaysInvalid == Spec => []ConsentNeverFinds
<1>1. CInv => ConsentNeverFinds
  BY DEF CInv
<1>. QED  BY InitCInv, NextCInv, <1>1, PTL DEF Spec

=============================================================================
