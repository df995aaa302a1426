------------------------------ MODULE CRLDBProofs ------------------------------
(***************************************************************************)
(* Proofs about CRLDB for every value of the constants: type correctness,  *)
(* and that the bloom filter covers every certificate a stored list        *)
(* revokes, whatever the interleaving of Sync goroutines, publications and *)
(* IsRevoked calls.                                                        *)
(***************************************************************************)
EXTENDS CRLDB, TLAPS

-----------------------------------------------------------------------------
(* Lemmas about the data.                                                  *)

\* The bit index of a certificate is an integer (in range or not: see the
\* crl_negative_bit_index run).
LEMMA BitNumType == \A c \in Certs : BitNum(c) \in Int
<1> SUFFICES ASSUME NEW c \in Certs PROVE BitNum(c) \in Int
    OBVIOUS
<1>1. CertHash[c] \in Int /\ OverflowResult \in Int /\ BitSetSize \in Nat \ {0}
    BY CRLDBAssumption DEF MinInt, MaxInt
<1>2. Hash(c) \in Int
    BY <1>1 DEF Hash
<1>3. QED
    BY <1>1, <1>2 DEF BitNum, GoMod

-----------------------------------------------------------------------------
(* Type correctness.                                                       *)

\* A goroutine that fetched a CRL holds a version the endpoints publish.
LEMMA FetchedInRange ==
    ASSUME TypeOK, NEW t \in Slots, gor[t].pc = "fetched"
    PROVE  gor[t].v \in 0..MaxVersion
<1>1. gor[t] \in GorState
    BY DEF TypeOK
<1>2. gor[t] \notin {NotStarted, Finished, Gor("start", None), Gor("download", None)}
    BY DEF NotStarted, Finished, Gor
<1>3. PICK v \in 0..MaxVersion : gor[t] = Gor("fetched", v)
    BY <1>1, <1>2 DEF GorState
<1>. QED  BY <1>3 DEF Gor

LEMMA InitTypeOK == Init => TypeOK
    BY CRLDBAssumption DEF Init, TypeOK, GorState, NotStarted, Gor, Slots

LEMMA NextTypeOK == TypeOK /\ [Next]_vars => TypeOK'
<1> SUFFICES ASSUME TypeOK, [Next]_vars PROVE TypeOK'
    OBVIOUS
<1>1. CASE \E ep \in Endpoints : Publish(ep)
    BY <1>1, CRLDBAssumption DEF Publish, TypeOK
<1>2. CASE Sync
    BY <1>2, CRLDBAssumption DEF Sync, TypeOK, GorState, Gor
<1>3. CASE \E s \in Slots : UpdateCRL(s)
    BY <1>3 DEF UpdateCRL, TypeOK, GorState, Gor, Finished
<1>4. CASE \E s \in Slots : DownloadCRL(s)
    BY <1>4 DEF DownloadCRL, TypeOK, GorState, Gor, Finished, Slots
<1>5. CASE \E s \in Slots : StoreCRL(s)
    <2>1. PICK s \in Slots : StoreCRL(s)
        BY <1>5
    <2>2. gor[s].v \in 0..MaxVersion
        BY <2>1, FetchedInRange DEF StoreCRL
    <2>3. {BitNum(c) : c \in CRL[s[2]][gor[s].v]} \subseteq Int
        BY <2>2, BitNumType, CRLDBAssumption DEF Slots
    <2>4. QED
        BY <2>1, <2>2, <2>3 DEF StoreCRL, TypeOK, GorState, Gor, Finished, Slots
<1>6. CASE \E r \in Readers, c \in Certs : IsRevokedBit(r, c)
    <2>1. PICK r \in Readers, c \in Certs : IsRevokedBit(r, c)
        BY <1>6
    <2>2. Listed(c) \in BOOLEAN
        BY DEF Listed
    <2>3. /\ Answer(c, FALSE, Listed(c)) \in [cert: Certs, revoked: BOOLEAN, listedAtCall: BOOLEAN]
          /\ [cert |-> c, listedAtCall |-> Listed(c)] \in [cert: Certs, listedAtCall: BOOLEAN]
        BY <2>2 DEF Answer
    <2>4. QED
        BY <2>1, <2>3 DEF IsRevokedBit, TypeOK
<1>7. CASE \E r \in Readers : IsRevokedScan(r)
    <2>1. PICK r \in Readers : IsRevokedScan(r)
        BY <1>7
    <2>2. reader[r] \in [cert: Certs, listedAtCall: BOOLEAN]
        BY <2>1 DEF IsRevokedScan, TypeOK
    <2>3. Listed(reader[r].cert) \in BOOLEAN
        BY DEF Listed
    <2>4. Answer(reader[r].cert, Listed(reader[r].cert), reader[r].listedAtCall)
            \in [cert: Certs, revoked: BOOLEAN, listedAtCall: BOOLEAN]
        BY <2>2, <2>3 DEF Answer
    <2>5. QED
        BY <2>1, <2>4 DEF IsRevokedScan, TypeOK
<1>8. CASE UNCHANGED vars
    BY <1>8 DEF vars, TypeOK
<1>9. QED
    BY <1>1, <1>2, <1>3, <1>4, <1>5, <1>6, <1>7, <1>8 DEF Next

\* Every variable of the database, the goroutines and the readers has its
\* type in every reachable state.
THEOREM TypeCorrect == Spec => []TypeOK
    BY InitTypeOK, NextTypeOK, PTL DEF Spec

-----------------------------------------------------------------------------
(* The bloom filter.                                                       *)

\* A certificate revoked by the stored lists l: the list of some endpoint.
LEMMA ListedRevokedDef ==
    ASSUME NEW c, NEW l
    PROVE  c \in UNION {CRL[ep][l[ep]] : ep \in {e \in Endpoints : l[e] # None}}
               <=> \E e \in Endpoints : l[e] # None /\ c \in CRL[e][l[e]]
    OBVIOUS

\* FilterCoversLists is inductive together with the type invariant: the
\* only step that replaces a stored list (StoreCRL) sets the bits of the
\* list it stores in the same critical section, and no step clears a bit.
FInv == TypeOK /\ FilterCoversLists

LEMMA InitFInv == Init => FInv
    BY InitTypeOK DEF Init, FInv, FilterCoversLists, ListedRevoked

LEMMA NextFInv == FInv /\ [Next]_vars => FInv'
<1> SUFFICES ASSUME FInv, [Next]_vars PROVE FInv'
    OBVIOUS
<1>0. TypeOK'
    BY NextTypeOK DEF FInv
<1>1. CASE \E s \in Slots : StoreCRL(s)
    <2>1. PICK s \in Slots : StoreCRL(s)
        BY <1>1
    <2> DEFINE ep == s[2]  v == gor[s].v
    <2>2. ep \in Endpoints /\ lists' = [lists EXCEPT ![ep] = v]
          /\ bitSet' = bitSet \cup {BitNum(c) : c \in CRL[ep][v]}
        BY <2>1 DEF StoreCRL, Slots
    <2>3. SUFFICES ASSUME NEW c \in ListedRevoked' PROVE BitNum(c) \in bitSet'
        BY <1>0 DEF FInv, FilterCoversLists
    <2>4. PICK e \in Endpoints : lists'[e] # None /\ c \in CRL[e][lists'[e]]
        BY <2>3, ListedRevokedDef DEF ListedRevoked
    <2>5. CASE e = ep
        BY <2>2, <2>4, <2>5 DEF FInv, TypeOK
    <2>6. CASE e # ep
        <3>1. lists[e] # None /\ c \in CRL[e][lists[e]]
            BY <2>2, <2>4, <2>6 DEF FInv, TypeOK
        <3>2. c \in ListedRevoked
            BY <3>1, ListedRevokedDef DEF ListedRevoked
        <3>3. QED
            BY <2>2, <3>2 DEF FInv, FilterCoversLists
    <2>7. QED
        BY <2>5, <2>6
<1>2. CASE UNCHANGED <<lists, bitSet>>
    BY <1>0, <1>2 DEF FInv, FilterCoversLists, ListedRevoked
<1>3. QED
    BY <1>1, <1>2 DEF Next, vars, Publish, Sync, UpdateCRL, DownloadCRL,
                      IsRevokedBit, IsRevokedScan

\* The filter has no false negative in any reachable state: the early
\* return of IsRevoked on an unset bit (lines 45-48), taken without the
\* lock, never hides a revocation a stored list records, whatever the
\* Sync goroutines and the publications do meanwhile.
THEOREM FilterSound == Spec => []FilterCoversLists
<1>1. FInv => FilterCoversLists
    BY DEF FInv
<1>2. QED
    BY InitFInv, NextFInv, <1>1, PTL DEF Spec


-----------------------------------------------------------------------------
(* Stored lists move forward, and IsRevoked has no false negative.       *)

\* The issuers never drop a revocation from a later CRL.  This is a fact
\* about the environment, not the code (a CRL may drop the entry of an
\* expired certificate), so it is a hypothesis of the theorem and not an
\* assumption of the module.
CRLMonotone ==
    \A ep \in Endpoints, v, w \in 0..MaxVersion : v <= w => CRL[ep][v] \subseteq CRL[ep][w]

\* Sync waits for the goroutines of the previous call: those of earlier
\* calls are done, those of later calls not started.
OneSyncAlive ==
    \A s \in Slots : /\ s[1] < syncs => gor[s] = Finished
                     /\ s[1] > syncs => gor[s] = NotStarted

\* Lists only move forward: the stored version and a fetched one are never
\* newer than what the endpoint serves, and a fetched one is never older
\* than the stored one.
VersionsForward ==
    /\ \A ep \in Endpoints : lists[ep] # None => lists[ep] <= current[ep]
    /\ \A s \in Slots : gor[s].pc = "fetched" =>
           /\ gor[s].v <= current[s[2]]
           /\ lists[s[2]] # None => lists[s[2]] <= gor[s].v

VInv == TypeOK /\ OneSyncAlive /\ VersionsForward

\* A reader between its two halves that saw its certificate listed still
\* sees it listed.
ReaderStillListed ==
    \A r \in Readers : reader[r] # None /\ reader[r].listedAtCall => Listed(reader[r].cert)

NInv ==
    /\ FInv
    /\ VInv
    /\ ReaderStillListed
    /\ IsRevokedNoFalseNegative

\* A certificate listed under the stored lists l is still listed under m
\* when every stored list of l is kept in m or replaced by a later version.
LEMMA ListedForward ==
    ASSUME CRLMonotone, NEW l, NEW m, NEW c,
           \A e \in Endpoints : l[e] # None =>
               /\ m[e] # None
               /\ l[e] \in 0..MaxVersion /\ m[e] \in 0..MaxVersion
               /\ l[e] <= m[e],
           c \in UNION {CRL[ep][l[ep]] : ep \in {e \in Endpoints : l[e] # None}}
    PROVE  c \in UNION {CRL[ep][m[ep]] : ep \in {e \in Endpoints : m[e] # None}}
<1>1. PICK e \in Endpoints : l[e] # None /\ c \in CRL[e][l[e]]
    BY ListedRevokedDef
<1>2. c \in CRL[e][m[e]]
    BY <1>1 DEF CRLMonotone
<1>3. QED
    BY <1>1, <1>2, ListedRevokedDef

\* A goroutine that has started and not finished belongs to the latest
\* Sync call.
LEMMA AliveIsLatest ==
    ASSUME TypeOK, OneSyncAlive, NEW s \in Slots,
           gor[s].pc \in {"start", "download", "fetched"}
    PROVE  s[1] = syncs
BY DEF TypeOK, OneSyncAlive, Finished, NotStarted, Gor, Slots

LEMMA InitVInv == Init => VInv
    BY InitTypeOK DEF Init, VInv, OneSyncAlive, VersionsForward, NotStarted, Gor,
                      Finished, Slots

\* What a step does to the stored lists: none is removed or replaced by an
\* older version, and VInv is kept.
LEMMA NextVInv ==
    VInv /\ [Next]_vars =>
        /\ VInv'
        /\ \A e \in Endpoints : lists[e] # None =>
               /\ lists'[e] # None
               /\ lists[e] \in 0..MaxVersion /\ lists'[e] \in 0..MaxVersion
               /\ lists[e] <= lists'[e]
<1> SUFFICES ASSUME VInv, [Next]_vars
             PROVE  /\ VInv'
                    /\ \A e \in Endpoints : lists[e] # None =>
                           /\ lists'[e] # None
                           /\ lists[e] \in 0..MaxVersion /\ lists'[e] \in 0..MaxVersion
                           /\ lists[e] <= lists'[e]
    OBVIOUS
<1>0. TypeOK /\ TypeOK' /\ CRLDBAssumption
    BY NextTypeOK, CRLDBAssumption DEF VInv
<1>1. CASE \E ep \in Endpoints : Publish(ep)
    <2>1. PICK ep \in Endpoints : Publish(ep)
        BY <1>1
    <2>2. \A e \in Endpoints : current[e] <= current'[e]
        BY <2>1, <1>0 DEF Publish, TypeOK
    <2>3. UNCHANGED <<lists, gor, syncs>>
        BY <2>1 DEF Publish
    <2>4. \A t \in Slots : gor[t].pc = "fetched" => gor[t].v \in 0..MaxVersion
        BY <1>0, FetchedInRange
    <2>5. \A e \in Endpoints : lists[e] # None => lists[e] \in 0..MaxVersion
        BY <1>0 DEF TypeOK
    <2>6. \A e \in Endpoints : current[e] \in 0..MaxVersion /\ current'[e] \in 0..MaxVersion
        BY <1>0 DEF TypeOK
    <2>7. VersionsForward'
        BY <2>2, <2>3, <2>4, <2>5, <2>6 DEF VInv, VersionsForward, Slots
    <2>8. QED
        BY <2>3, <2>5, <2>7, <1>0 DEF VInv, OneSyncAlive
<1>2. CASE Sync
    <2>1. OneSyncAlive'
        <3>1. SUFFICES ASSUME NEW t \in Slots
                       PROVE  /\ t[1] < syncs' => gor'[t] = Finished
                              /\ t[1] > syncs' => gor'[t] = NotStarted
            BY DEF OneSyncAlive
        <3>2. t[1] \in Int /\ syncs \in Int /\ syncs' = syncs + 1
            BY <1>2, <1>0 DEF Sync, TypeOK, Slots
        <3>3. gor'[t] = IF t[1] = syncs + 1 THEN Gor("start", None) ELSE gor[t]
            BY <1>2 DEF Sync
        <3>4. t[1] = syncs => gor[t] = Finished
            BY <1>2 DEF Sync
        <3>5. QED
            BY <3>2, <3>3, <3>4 DEF VInv, OneSyncAlive
    <2>2. VersionsForward'
        BY <1>2 DEF Sync, VInv, VersionsForward, Gor
    <2>3. QED
        BY <1>2, <1>0, <2>1, <2>2 DEF Sync, VInv, TypeOK
<1>3. CASE \E s \in Slots : UpdateCRL(s) \/ DownloadCRL(s)
    <2>1. PICK s \in Slots : UpdateCRL(s) \/ DownloadCRL(s)
        BY <1>3
    <2>2. s[1] = syncs
        BY <2>1, <1>0, AliveIsLatest DEF UpdateCRL, DownloadCRL, VInv
    <2>3. \A t \in Slots : t # s => gor'[t] = gor[t]
        BY <2>1, <1>0 DEF UpdateCRL, DownloadCRL, TypeOK
    <2>4. gor'[s] \in {Gor("download", None), Finished, Gor("fetched", current[s[2]])}
        BY <2>1, <1>0 DEF UpdateCRL, DownloadCRL, TypeOK
    <2>5. OneSyncAlive'
        <3>1. syncs' = syncs /\ syncs \in Int /\ s[1] \in Int
            BY <2>1, <1>0 DEF UpdateCRL, DownloadCRL, TypeOK, Slots
        <3>2. QED
            BY <2>2, <2>3, <3>1 DEF VInv, OneSyncAlive
    <2>6. VersionsForward'
        <3>1. current[s[2]] \in 0..MaxVersion /\ s[2] \in Endpoints
            BY <1>0 DEF TypeOK, Slots
        <3>2. QED
            BY <2>1, <2>3, <2>4, <3>1 DEF UpdateCRL, DownloadCRL, VInv, VersionsForward,
                                            Gor, Finished
    <2>7. QED
        BY <2>1, <1>0, <2>5, <2>6 DEF UpdateCRL, DownloadCRL, VInv, TypeOK
<1>4. CASE \E s \in Slots : StoreCRL(s)
    <2>1. PICK s \in Slots : StoreCRL(s)
        BY <1>4
    <2> DEFINE ep == s[2]  v == gor[s].v
    <2>2. s[1] = syncs /\ ep \in Endpoints
        BY <2>1, <1>0, AliveIsLatest DEF StoreCRL, VInv, Slots
    <2>3. /\ lists' = [lists EXCEPT ![ep] = v]
          /\ gor' = [gor EXCEPT ![s] = Finished]
          /\ UNCHANGED <<current, syncs, reader, answers>>
        BY <2>1 DEF StoreCRL
    <2>4. /\ v \in 0..MaxVersion /\ v <= current[ep]
          /\ lists[ep] # None => lists[ep] <= v
        BY <2>1, <1>0 DEF StoreCRL, VInv, VersionsForward, TypeOK, GorState, Gor,
                          NotStarted, Finished
    \* No other goroutine of ep is alive to hold a fetched list.
    <2>5. \A t \in Slots : t # s /\ gor[t].pc = "fetched" => t[2] # ep
        BY <2>2, <1>0, AliveIsLatest DEF VInv, Slots
    <2>6. OneSyncAlive'
        BY <2>3, <2>2, <1>0 DEF VInv, OneSyncAlive, TypeOK
    <2>7. VersionsForward'
        <3>1. \A e \in Endpoints : lists'[e] # None => lists'[e] <= current'[e]
            BY <2>3, <2>4, <1>0 DEF VInv, VersionsForward, TypeOK
        <3>2. \A t \in Slots : gor'[t].pc = "fetched" =>
                  /\ gor'[t].v <= current'[t[2]]
                  /\ lists'[t[2]] # None => lists'[t[2]] <= gor'[t].v
            BY <2>3, <2>5, <1>0 DEF VInv, VersionsForward, TypeOK, Finished, Gor, Slots
        <3>3. QED
            BY <3>1, <3>2 DEF VersionsForward
    <2>8. \A e \in Endpoints : lists[e] # None =>
              /\ lists'[e] # None
              /\ lists[e] \in 0..MaxVersion /\ lists'[e] \in 0..MaxVersion
              /\ lists[e] <= lists'[e]
        BY <2>3, <2>4, <1>0 DEF TypeOK
    <2>9. QED
        BY <1>0, <2>6, <2>7, <2>8 DEF VInv
<1>5. CASE UNCHANGED <<current, lists, syncs, gor>>
    BY <1>5, <1>0 DEF VInv, OneSyncAlive, VersionsForward, TypeOK
<1>6. QED
    BY <1>1, <1>2, <1>3, <1>4, <1>5 DEF Next, vars, IsRevokedBit, IsRevokedScan

\* The stored CRL of an endpoint is never removed or replaced by an older
\* one (lines 99-110), whatever the interleaving of Sync goroutines,
\* publications and IsRevoked calls: Sync's wc.Wait() leaves at most one
\* goroutine per endpoint alive, and that one downloaded a version at
\* least as new as the stored one.
THEOREM ListsForward == Spec => ListsNeverRegress
<1>1. Spec => []VInv
    BY InitVInv, NextVInv, PTL DEF Spec
<1>2. VInv /\ [Next]_vars =>
          [\A ep \in Endpoints : lists[ep] # None =>
               lists'[ep] # None /\ lists[ep] <= lists'[ep]]_lists
    BY NextVInv
<1>3. QED
    BY <1>1, <1>2, PTL DEF Spec, ListsNeverRegress

LEMMA InitNInv == Init => NInv
    BY InitFInv, InitVInv DEF Init, NInv, ReaderStillListed, IsRevokedNoFalseNegative

LEMMA NextNInv ==
    ASSUME CRLMonotone
    PROVE  NInv /\ [Next]_vars => NInv'
<1> SUFFICES ASSUME NInv, [Next]_vars PROVE NInv'
    OBVIOUS
<1>0. /\ TypeOK /\ FInv' /\ VInv'
      /\ \A e \in Endpoints : lists[e] # None =>
             /\ lists'[e] # None
             /\ lists[e] \in 0..MaxVersion /\ lists'[e] \in 0..MaxVersion
             /\ lists[e] <= lists'[e]
    BY NextFInv, NextVInv DEF NInv, VInv
\* A certificate listed before the step is listed after it.
<1>1. \A c \in ListedRevoked : c \in ListedRevoked'
    BY <1>0, ListedForward DEF ListedRevoked
<1>2. CASE \E r \in Readers, c \in Certs : IsRevokedBit(r, c)
    <2>1. PICK r \in Readers, c \in Certs : IsRevokedBit(r, c)
        BY <1>2
    <2>2. BitNum(c) \notin bitSet => ~Listed(c)
        BY DEF NInv, FInv, FilterCoversLists, Listed
    <2>3. IsRevokedNoFalseNegative'
        BY <2>1, <2>2 DEF IsRevokedBit, NInv, IsRevokedNoFalseNegative, Answer
    <2>4. ReaderStillListed'
        <3>1. UNCHANGED lists /\ Listed(c)' = Listed(c)
            BY <2>1 DEF IsRevokedBit, Listed, ListedRevoked
        <3>2. SUFFICES ASSUME NEW q \in Readers, (reader[q] # None /\ reader[q].listedAtCall)'
                       PROVE  (Listed(reader[q].cert))'
            BY DEF ReaderStillListed
        <3>3. CASE q = r /\ reader' # reader
            <4>1. reader'[q] = [cert |-> c, listedAtCall |-> Listed(c)]
                BY <2>1, <3>3, <1>0 DEF IsRevokedBit, TypeOK
            <4>2. Listed(c)
                BY <4>1, <3>2
            <4>3. QED
                BY <4>1, <4>2, <3>1 DEF Listed
        <3>4. CASE ~(q = r /\ reader' # reader)
            <4>1. reader'[q] = reader[q]
                BY <2>1, <3>4, <1>0 DEF IsRevokedBit, TypeOK
            <4>2. Listed(reader[q].cert)
                BY <4>1, <3>2 DEF NInv, ReaderStillListed
            <4>3. QED
                BY <4>1, <4>2, <3>1 DEF Listed, ListedRevoked
        <3>5. QED
            BY <3>3, <3>4
    <2>5. QED
        BY <1>0, <2>3, <2>4 DEF NInv
<1>3. CASE \E r \in Readers : IsRevokedScan(r)
    <2>1. PICK r \in Readers : IsRevokedScan(r)
        BY <1>3
    <2>2. reader[r].listedAtCall => Listed(reader[r].cert)
        BY <2>1 DEF IsRevokedScan, NInv, ReaderStillListed
    <2>3. IsRevokedNoFalseNegative'
        BY <2>1, <2>2 DEF IsRevokedScan, NInv, IsRevokedNoFalseNegative, Answer
    <2>4. ReaderStillListed'
        BY <2>1, <1>0 DEF IsRevokedScan, NInv, ReaderStillListed, TypeOK, Listed, ListedRevoked
    <2>5. QED
        BY <1>0, <2>3, <2>4 DEF NInv
\* The other steps leave readers and answers alone and keep listed
\* certificates listed.
<1>4. CASE UNCHANGED <<reader, answers>>
    <2>1. ReaderStillListed'
        BY <1>4, <1>1 DEF NInv, ReaderStillListed, Listed
    <2>2. QED
        BY <1>0, <1>4, <2>1 DEF NInv, IsRevokedNoFalseNegative
<1>5. QED
    BY <1>2, <1>3, <1>4 DEF Next, vars, Publish, Sync, UpdateCRL, DownloadCRL, StoreCRL

\* IsRevoked never answers false for a certificate that a stored list
\* revoked when the call began (lines 44-66), whatever Sync goroutines,
\* publications and other calls run between its unlocked bit test and its
\* locked scan, provided issuers never drop a revocation from a later CRL.
\* The argument: the filter covers the stored lists (FilterSound); stored
\* lists only move forward (ListsForward); so a listed certificate stays
\* listed until the scan.
THEOREM NoFalseNegative ==
    ASSUME CRLMonotone
    PROVE  Spec => []IsRevokedNoFalseNegative
<1>1. NInv => IsRevokedNoFalseNegative
    BY DEF NInv
<1>2. QED
    BY InitNInv, NextNInv, <1>1, PTL DEF Spec

-----------------------------------------------------------------------------
(* The bit index on a platform that saturates.                             *)

\* On a platform where int64 of an out-of-range float saturates (arm64),
\* db.hash is never negative: math.Abs of the minimum hash gives 2^63,
\* which converts to the maximum int64.
LEMMA HashNonNegative ==
    ASSUME OverflowResult = MaxInt, NEW c \in Certs
    PROVE  Hash(c) \in Nat
<1>1. CertHash[c] \in MinInt..MaxInt
    BY CRLDBAssumption
<1>2. MaxInt = -MinInt - 1
    <2>1. 2^(HashWidth - 1) \in Int
        BY CRLDBAssumption
    <2>. QED  BY <2>1 DEF MaxInt, MinInt
<1>3. CASE CertHash[c] >= 0
    BY <1>1, <1>3 DEF Hash
<1>4. CASE CertHash[c] = MinInt /\ CertHash[c] < 0
    BY <1>1, <1>2, <1>4 DEF Hash
<1>5. CASE CertHash[c] # MinInt /\ CertHash[c] < 0
    BY <1>1, <1>5 DEF Hash
<1>. QED  BY <1>1, <1>3, <1>4, <1>5

\* With a non-negative hash, Go's % gives a bit index inside the bit set.
LEMMA BitNumInBounds ==
    ASSUME OverflowResult = MaxInt, NEW c \in Certs
    PROVE  BitNum(c) \in 0..(BitSetSize - 1)
<1>1. Hash(c) \in Nat /\ BitSetSize \in Nat \ {0}
    BY HashNonNegative, CRLDBAssumption
<1>. QED  BY <1>1 DEF BitNum, GoMod

RangeInv == TypeOK /\ BitNumInRange

LEMMA InitRangeInv == Init => RangeInv
    BY InitTypeOK DEF Init, RangeInv, BitNumInRange

LEMMA NextRangeInv ==
    ASSUME OverflowResult = MaxInt
    PROVE  RangeInv /\ [Next]_vars => RangeInv'
<1> SUFFICES ASSUME RangeInv, [Next]_vars PROVE RangeInv'
    OBVIOUS
<1>1. TypeOK'
    BY NextTypeOK DEF RangeInv
<1>2. CASE \E s \in Slots : StoreCRL(s)
    <2>1. PICK s \in Slots : StoreCRL(s)
        BY <1>2
    <2>2. gor[s].v \in 0..MaxVersion /\ s[2] \in Endpoints
        BY <2>1, FetchedInRange DEF StoreCRL, RangeInv, Slots
    <2>3. CRL[s[2]][gor[s].v] \subseteq Certs
        BY <2>2, CRLDBAssumption
    <2>4. \A c \in CRL[s[2]][gor[s].v] : BitNum(c) \in 0..(BitSetSize - 1)
        BY <2>3, BitNumInBounds
    <2>. QED  BY <1>1, <2>1, <2>4 DEF StoreCRL, RangeInv, BitNumInRange
<1>3. CASE ~\E s \in Slots : StoreCRL(s)
    <2>1. UNCHANGED bitSet
        BY <1>3 DEF Next, vars, Publish, Sync, UpdateCRL, DownloadCRL, IsRevokedBit, IsRevokedScan
    <2>. QED  BY <1>1, <2>1 DEF RangeInv, BitNumInRange
<1>. QED  BY <1>2, <1>3

\* Every bit setRevoked sets (line 32) lies inside the bit set, for every
\* hash width, filter size and certificate hash, on a platform whose
\* float-to-int64 conversion saturates.  With a wrapping conversion
\* (amd64) the minimum hash gives a negative index: the
\* crl_negative_bit_index run.  So the wrap is the only way out of range.
THEOREM BitNumInRangeSaturating ==
    ASSUME OverflowResult = MaxInt
    PROVE  Spec => []BitNumInRange
<1>1. RangeInv => BitNumInRange
    BY DEF RangeInv
<1>. QED  BY InitRangeInv, NextRangeInv, <1>1, PTL DEF Spec

=============================================================================
