---------------------------- MODULE RevocationList ----------------------------
(***************************************************************************)
(* What the CRL database promises its callers, without the means it uses: *)
(* it keeps for each distribution point a CRL that point has published,   *)
(* refreshed only to a published version no older than the one it keeps,  *)
(* and IsRevoked answers from the CRLs it keeps.  A call may answer at     *)
(* once, or start and answer after a scan; what it answers is whether a   *)
(* kept CRL revokes the certificate when it answers.                       *)
(*                                                                         *)
(* There is no bloom filter, no goroutine and no Sync here: CRLDB is shown *)
(* to implement this specification with all of them hidden.               *)
(***************************************************************************)
EXTENDS Naturals

CONSTANTS
    Endpoints,      \* CRL distribution points
    Certs,          \* (issuer, serial number) pairs
    CRL,            \* CRL[ep][v]: the certificates version v of ep revokes
    MaxVersion,     \* bound on the versions an endpoint publishes
    Readers,        \* callers of IsRevoked
    None

VARIABLES
    current,        \* the version each endpoint has published last
    lists,          \* the version kept per endpoint, or None
    reader,         \* a call that started and has not answered yet
    answers         \* history: what calls answered

vars == <<current, lists, reader, answers>>

\* The certificates the kept CRLs revoke.
KeptRevoked == UNION {CRL[ep][lists[ep]] : ep \in {e \in Endpoints : lists[e] # None}}

Init ==
    /\ current = [ep \in Endpoints |-> 0]
    /\ lists = [ep \in Endpoints |-> None]
    /\ reader = [r \in Readers |-> None]
    /\ answers = {}

\* The endpoint publishes its next CRL.
Publish(ep) ==
    /\ current[ep] < MaxVersion
    /\ current' = [current EXCEPT ![ep] = @ + 1]
    /\ UNCHANGED <<lists, reader, answers>>

\* The kept CRL of ep is replaced by a published version that is not older.
Refresh(ep, v) ==
    /\ v \in 0..current[ep]
    /\ lists[ep] # None => lists[ep] <= v
    /\ lists' = [lists EXCEPT ![ep] = v]
    /\ UNCHANGED <<current, reader, answers>>

\* A call for c either answers at once, or starts and remembers whether c
\* was revoked when it started.
Lookup(r, c) ==
    /\ reader[r] = None
    /\ \/ /\ answers' = answers \cup {[cert |-> c, revoked |-> c \in KeptRevoked,
                                       listedAtCall |-> c \in KeptRevoked]}
          /\ UNCHANGED reader
       \/ /\ reader' = [reader EXCEPT ![r] = [cert |-> c, listedAtCall |-> c \in KeptRevoked]]
          /\ UNCHANGED answers
    /\ UNCHANGED <<current, lists>>

\* A started call answers whether its certificate is revoked now.
Scan(r) ==
    /\ reader[r] # None
    /\ answers' = answers \cup {[cert |-> reader[r].cert,
                                 revoked |-> reader[r].cert \in KeptRevoked,
                                 listedAtCall |-> reader[r].listedAtCall]}
    /\ reader' = [reader EXCEPT ![r] = None]
    /\ UNCHANGED <<current, lists>>

Next ==
    \/ \E ep \in Endpoints : Publish(ep)
    \/ \E ep \in Endpoints, v \in 0..MaxVersion : Refresh(ep, v)
    \/ \E r \in Readers, c \in Certs : Lookup(r, c)
    \/ \E r \in Readers : Scan(r)

Spec == Init /\ [][Next]_vars

=============================================================================
