-------------------------------- MODULE CRLDB --------------------------------
(***************************************************************************)
(* The certificate revocation list database of src/crl/db.go.  Sync starts *)
(* one goroutine per endpoint (updateCRL, then downloadCRL when the stored *)
(* list is missing or expired) and waits for them; IsRevoked reads the      *)
(* bloom filter without the lock and then scans the stored lists under     *)
(* the read lock.  Endpoints publish ever newer CRLs meanwhile.            *)
(*                                                                         *)
(* A CRL is identified by its endpoint and version: CRL[ep][v] is the set  *)
(* of certificates (issuer and serial number) version v revokes.  A stored *)
(* CRL has expired (HasExpired) once the endpoint has published a newer    *)
(* one.  The murmur3 hash of a certificate is the constant CertHash, a     *)
(* signed integer of HashWidth bits.                                       *)
(***************************************************************************)
EXTENDS Integers, FiniteSets

CONSTANTS
    Endpoints,      \* CRL distribution points given to NewDB
    Certs,          \* (issuer, serial number) pairs
    CRL,            \* CRL[ep][v]: the certificates version v of ep revokes
    MaxVersion,     \* bound on the versions an endpoint publishes
    MaxSyncs,       \* bound on the Sync calls
    Readers,        \* goroutines calling IsRevoked
    BitSetSize,     \* bitSetSize given to NewDB
    HashWidth,      \* width of the hash; 64 in the code
    CertHash,       \* int64(murmur3.Sum64(issuer ++ serial)) per certificate
    OverflowResult, \* int64(float64(2^(w-1))) on the build's platform
    None

MinInt == -(2^(HashWidth - 1))
MaxInt == 2^(HashWidth - 1) - 1

ASSUME CRLDBAssumption ==
    /\ MaxVersion \in Nat /\ MaxSyncs \in Nat /\ BitSetSize \in Nat \ {0}
    /\ HashWidth \in Nat \ {0}
    /\ CRL \in [Endpoints -> [0..MaxVersion -> SUBSET Certs]]
    /\ CertHash \in [Certs -> MinInt..MaxInt]
    /\ OverflowResult \in {MinInt, MaxInt}
    /\ None \notin 0..MaxVersion

VARIABLES
    current,        \* the version each endpoint serves
    lists,          \* db.lists: the version stored per endpoint, or None
    bitSet,         \* the bits of db.bitSet that are set
    syncs,          \* number of Sync calls made
    gor,            \* gor[<<k, ep>>]: goroutine of Sync call k for ep
    reader,         \* IsRevoked call in progress per reader
    answers         \* history: what IsRevoked calls returned

vars == <<current, lists, bitSet, syncs, gor, reader, answers>>

-----------------------------------------------------------------------------
(* Hashing (lines 31-42).                                                  *)

\* Go's % truncates toward zero.
GoMod(a, b) == IF a >= 0 THEN a % b ELSE -((-a) % b)

\* int64(math.Abs(float64(h))): exact below 2^53; |MinInt| does not fit in
\* an int64 and converts to what the platform gives.
Hash(c) ==
    LET h == CertHash[c] IN
    IF h >= 0 THEN h ELSE IF h = MinInt THEN OverflowResult ELSE -h

\* bitNum of setRevoked and IsRevoked.
BitNum(c) == GoMod(Hash(c), BitSetSize)

\* The certificates the stored lists revoke: the loops of lines 55-64.
ListedRevoked == UNION {CRL[ep][lists[ep]] : ep \in {e \in Endpoints : lists[e] # None}}

Listed(c) == c \in ListedRevoked

-----------------------------------------------------------------------------
(* Goroutine states.                                                       *)

Gor(pc, v) == [pc |-> pc, v |-> v]
NotStarted == Gor("none", None)
Finished == Gor("done", None)
Slots == (1..MaxSyncs) \X Endpoints

Init ==
    /\ current = [ep \in Endpoints |-> 0]
    /\ lists = [ep \in Endpoints |-> None]
    /\ bitSet = {}
    /\ syncs = 0
    /\ gor = [s \in Slots |-> NotStarted]
    /\ reader = [r \in Readers |-> None]
    /\ answers = {}

\* The issuer of ep publishes its next CRL; the stored one expires.
Publish(ep) ==
    /\ current[ep] < MaxVersion
    /\ current' = [current EXCEPT ![ep] = @ + 1]
    /\ UNCHANGED <<lists, bitSet, syncs, gor, reader, answers>>

\* Mutant: Sync returns without wc.Wait().
SyncNoWait ==
    /\ syncs < MaxSyncs
    /\ syncs' = syncs + 1
    /\ gor' = [s \in Slots |-> IF s[1] = syncs + 1 THEN Gor("start", None) ELSE gor[s]]
    /\ UNCHANGED <<current, lists, bitSet, reader, answers>>

\* Sync (lines 113-128): a goroutine per endpoint, and wc.Wait() until the
\* previous call's goroutines are all done (one caller calls Sync at a time).
Sync ==
    /\ syncs < MaxSyncs
    /\ \A s \in Slots : s[1] = syncs => gor[s] = Finished
    /\ syncs' = syncs + 1
    /\ gor' = [s \in Slots |-> IF s[1] = syncs + 1 THEN Gor("start", None) ELSE gor[s]]
    /\ UNCHANGED <<current, lists, bitSet, reader, answers>>

\* updateCRL (lines 69-79): under the read lock, a missing or expired list
\* calls for a download; a fresh one ends the goroutine.
UpdateCRL(s) ==
    LET ep == s[2] IN
    /\ gor[s].pc = "start"
    /\ gor' = [gor EXCEPT ![s] =
                 IF lists[ep] = None \/ lists[ep] < current[ep]
                 THEN Gor("download", None) ELSE Finished]
    /\ UNCHANGED <<current, lists, bitSet, syncs, reader, answers>>

\* Mutant: the goroutine keeps the list it read in updateCRL.
DownloadCRLCached(s) ==
    /\ gor[s].pc = "download"
    /\ \/ gor' = [gor EXCEPT ![s] = Gor("fetched", lists[s[2]])]
       \/ gor' = [gor EXCEPT ![s] = Finished]
    /\ UNCHANGED <<current, lists, bitSet, syncs, reader, answers>>

\* downloadCRL lines 82-97, outside the lock: the GET, ReadAll and
\* ParseCRL either fail (the goroutine logs and ends) or yield the CRL
\* the endpoint serves now.
DownloadCRL(s) ==
    /\ gor[s].pc = "download"
    /\ \/ gor' = [gor EXCEPT ![s] = Gor("fetched", current[s[2]])]
       \/ gor' = [gor EXCEPT ![s] = Finished]
    /\ UNCHANGED <<current, lists, bitSet, syncs, reader, answers>>

\* Mutant: the list stored without setRevoked for its entries.
StoreCRLNoBits(s) ==
    LET ep == s[2]  v == gor[s].v IN
    /\ gor[s].pc = "fetched"
    /\ lists' = [lists EXCEPT ![ep] = v]
    /\ gor' = [gor EXCEPT ![s] = Finished]
    /\ UNCHANGED <<current, bitSet, syncs, reader, answers>>

\* downloadCRL lines 99-110, under the write lock: a bit per revoked
\* certificate, then the fetched list replaces the stored one.
StoreCRL(s) ==
    LET ep == s[2]  v == gor[s].v IN
    /\ gor[s].pc = "fetched"
    /\ bitSet' = bitSet \cup {BitNum(c) : c \in CRL[ep][v]}
    /\ lists' = [lists EXCEPT ![ep] = v]
    /\ gor' = [gor EXCEPT ![s] = Finished]
    /\ UNCHANGED <<current, syncs, reader, answers>>

Answer(c, revoked, atCall) == [cert |-> c, revoked |-> revoked, listedAtCall |-> atCall]

\* Mutant: the bit number taken from the raw signed hash, without the
\* math.Abs of db.hash.
IsRevokedBitRawHash(r, c) ==
    /\ reader[r] = None
    /\ \/ /\ GoMod(CertHash[c], BitSetSize) \notin bitSet
          /\ answers' = answers \cup {Answer(c, FALSE, Listed(c))}
          /\ UNCHANGED reader
       \/ /\ GoMod(CertHash[c], BitSetSize) \in bitSet
          /\ reader' = [reader EXCEPT ![r] = [cert |-> c, listedAtCall |-> Listed(c)]]
          /\ UNCHANGED answers
    /\ UNCHANGED <<current, lists, bitSet, syncs, gor>>

\* IsRevoked lines 45-48, without the lock: an unset bit answers false.
\* The call remembers whether c was listed when it started.
IsRevokedBit(r, c) ==
    /\ reader[r] = None
    /\ \/ /\ BitNum(c) \notin bitSet
          /\ answers' = answers \cup {Answer(c, FALSE, Listed(c))}
          /\ UNCHANGED reader
       \/ /\ BitNum(c) \in bitSet
          /\ reader' = [reader EXCEPT ![r] = [cert |-> c, listedAtCall |-> Listed(c)]]
          /\ UNCHANGED answers
    /\ UNCHANGED <<current, lists, bitSet, syncs, gor>>

\* Mutant: a set bit taken as a revocation, without the scan of the lists.
IsRevokedScanBitOnly(r) ==
    LET c == reader[r].cert IN
    /\ reader[r] # None
    /\ answers' = answers \cup {Answer(c, TRUE, reader[r].listedAtCall)}
    /\ reader' = [reader EXCEPT ![r] = None]
    /\ UNCHANGED <<current, lists, bitSet, syncs, gor>>

\* IsRevoked lines 50-66, under the read lock: scan the stored lists.
IsRevokedScan(r) ==
    LET c == reader[r].cert IN
    /\ reader[r] # None
    /\ answers' = answers \cup {Answer(c, Listed(c), reader[r].listedAtCall)}
    /\ reader' = [reader EXCEPT ![r] = None]
    /\ UNCHANGED <<current, lists, bitSet, syncs, gor>>

Next ==
    \/ \E ep \in Endpoints : Publish(ep)
    \/ Sync
    \/ \E s \in Slots : UpdateCRL(s) \/ DownloadCRL(s) \/ StoreCRL(s)
    \/ \E r \in Readers, c \in Certs : IsRevokedBit(r, c)
    \/ \E r \in Readers : IsRevokedScan(r)

Spec == Init /\ [][Next]_vars

-----------------------------------------------------------------------------
(* Properties.                                                             *)

GorState ==
    {NotStarted, Finished, Gor("start", None), Gor("download", None)}
        \cup {Gor("fetched", v) : v \in 0..MaxVersion}

TypeOK ==
    /\ current \in [Endpoints -> 0..MaxVersion]
    /\ lists \in [Endpoints -> 0..MaxVersion \cup {None}]
    /\ bitSet \subseteq Int
    /\ syncs \in 0..MaxSyncs
    /\ gor \in [Slots -> GorState]
    /\ reader \in [Readers -> [cert: Certs, listedAtCall: BOOLEAN] \cup {None}]
    /\ answers \subseteq [cert: Certs, revoked: BOOLEAN, listedAtCall: BOOLEAN]

\* The bloom filter has no false negative: every certificate a stored list
\* revokes has its bit set, so the unlocked early return of IsRevoked
\* (line 46) never hides a listed revocation.
FilterCoversLists ==
    \A c \in ListedRevoked : BitNum(c) \in bitSet

\* IsRevoked never answers false for a certificate that a stored list
\* revoked when the call started, although the call reads the filter
\* without the lock and downloads replace lists concurrently.
IsRevokedNoFalseNegative ==
    \A a \in answers : a.listedAtCall => a.revoked

\* The stored CRL of an endpoint is never replaced by an older one: a
\* goroutine that downloaded a CRL and then waited for the write lock
\* (lines 82-110) never overwrites a newer list stored meanwhile by another
\* goroutine of the same endpoint.  Only Sync's wc.Wait() (line 127), which
\* keeps one goroutine per endpoint alive, rules that out.
ListsNeverRegress ==
    [][\A ep \in Endpoints : lists[ep] # None =>
          lists'[ep] # None /\ lists[ep] <= lists'[ep]]_lists

\* Every bit setRevoked sets lies inside the bitset: the index computed at
\* line 32 from the hash of a revoked serial number is in 0..BitSetSize-1.
BitNumInRange ==
    bitSet \subseteq 0..(BitSetSize - 1)

\* crl.DB implements RevocationList: with the bloom filter, the goroutines
\* and Sync hidden, every step keeps a published CRL no older than the kept
\* one, or answers IsRevoked from the kept CRLs.  So the unlocked filter
\* read of line 46 never changes an answer, and a set bit (a filter
\* collision) never makes IsRevoked answer true by itself.
Revocation == INSTANCE RevocationList

RevocationSpec == Revocation!Spec

=============================================================================
