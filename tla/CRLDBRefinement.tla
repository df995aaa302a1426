---------------------------- MODULE CRLDBRefinement ----------------------------
(***************************************************************************)
(* Proof that CRLDB implements RevocationList under the identity mapping   *)
(* of the variables they share (the filter, the goroutines and the Sync    *)
(* counter are hidden).  A step of the database is a step of the abstract  *)
(* list or leaves it unchanged:                                             *)
(*   Publish                  -> Publish                                    *)
(*   StoreCRL                 -> Refresh, as VersionsForward bounds the     *)
(*                               fetched version by the stored and the      *)
(*                               published one                              *)
(*   IsRevokedBit             -> Lookup: the early answer false is what the *)
(*                               kept lists say, by FilterCoversLists       *)
(*   IsRevokedScan            -> Scan                                       *)
(*   Sync, UpdateCRL,                                                       *)
(*   DownloadCRL              -> a stutter                                  *)
(***************************************************************************)
EXTENDS CRLDBProofs, TLAPS

\* The invariant the simulation needs: the filter covers the kept lists,
\* and fetched versions lie between the kept and the published one.
RefInv == FInv /\ VInv

LEMMA InitRefInv == Init => RefInv
BY InitFInv, InitVInv DEF RefInv

LEMMA NextRefInv == RefInv /\ [Next]_vars => RefInv'
BY NextFInv, NextVInv DEF RefInv

\* The early return of IsRevoked (line 46) answers what the kept lists
\* say: a certificate whose bit is unset is on no kept list.
LEMMA UnsetBitNotListed ==
    ASSUME FInv, NEW c \in Certs, BitNum(c) \notin bitSet
    PROVE  ~Listed(c)
BY DEF FInv, FilterCoversLists, Listed

\* Every step of the database is a step of RevocationList or a stutter.
LEMMA StepSimulation ==
    RefInv /\ [Next]_vars => [Revocation!Next]_(Revocation!vars)
<1> SUFFICES ASSUME RefInv, [Next]_vars
             PROVE  [Revocation!Next]_(Revocation!vars)
  OBVIOUS
<1> USE DEF Revocation!vars
<1>1. CASE \E ep \in Endpoints : Publish(ep)
  BY <1>1 DEF Publish, Revocation!Next, Revocation!Publish
<1>2. CASE Sync
  BY <1>2 DEF Sync
<1>3. CASE \E s \in Slots : UpdateCRL(s) \/ DownloadCRL(s)
  BY <1>3 DEF UpdateCRL, DownloadCRL
<1>4. CASE \E s \in Slots : StoreCRL(s)
  <2>1. PICK s \in Slots : StoreCRL(s)
    BY <1>4
  <2> DEFINE ep == s[2]
             v == gor[s].v
  <2>2. ep \in Endpoints
    BY DEF Slots
  <2>3. gor[s].pc = "fetched"
    BY <2>1 DEF StoreCRL
  <2>4. v \in 0..MaxVersion
    BY <2>3, FetchedInRange DEF RefInv, VInv
  <2>5. /\ v <= current[ep]
        /\ lists[ep] # None => lists[ep] <= v
    BY <2>3 DEF RefInv, VInv, VersionsForward
  <2>6. v \in 0..current[ep]
    BY <2>2, <2>4, <2>5 DEF RefInv, VInv, TypeOK
  <2>7. Revocation!Refresh(ep, v)
    BY <2>1, <2>5, <2>6 DEF StoreCRL, Revocation!Refresh
  <2>. QED  BY <2>2, <2>4, <2>7 DEF Revocation!Next
<1>5. CASE \E r \in Readers, c \in Certs : IsRevokedBit(r, c)
  <2>1. PICK r \in Readers, c \in Certs : IsRevokedBit(r, c)
    BY <1>5
  <2>2. CASE BitNum(c) \notin bitSet
    <3>1. ~Listed(c)
      BY <2>2, UnsetBitNotListed DEF RefInv
    <3>2. /\ answers' = answers \cup {Answer(c, FALSE, Listed(c))}
          /\ UNCHANGED <<current, lists, reader>>
      BY <2>1, <2>2 DEF IsRevokedBit
    <3>3. Answer(c, FALSE, Listed(c))
            = [cert |-> c, revoked |-> c \in Revocation!KeptRevoked,
               listedAtCall |-> c \in Revocation!KeptRevoked]
      <4>1. Revocation!KeptRevoked = ListedRevoked
        BY DEF Revocation!KeptRevoked, ListedRevoked
      <4>2. ~(c \in Revocation!KeptRevoked)
        BY <3>1, <4>1 DEF Listed
      <4>3. (c \in Revocation!KeptRevoked) = FALSE
        BY <4>2
      <4>4. Listed(c) = FALSE
        BY <3>1 DEF Listed
      <4>. QED  BY <4>3, <4>4 DEF Answer
    <3>4. Revocation!Lookup(r, c)
      BY <2>1, <3>2, <3>3 DEF IsRevokedBit, Revocation!Lookup
    <3>. QED  BY <3>4 DEF Revocation!Next
  <2>3. CASE BitNum(c) \in bitSet
    <3>1. /\ reader' = [reader EXCEPT ![r] = [cert |-> c, listedAtCall |-> Listed(c)]]
          /\ UNCHANGED <<current, lists, answers>>
      BY <2>1, <2>3 DEF IsRevokedBit
    <3>. QED  BY <2>1, <3>1 DEF IsRevokedBit, Listed, ListedRevoked,
                  Revocation!Next, Revocation!Lookup, Revocation!KeptRevoked
  <2>. QED  BY <2>2, <2>3
<1>6. CASE \E r \in Readers : IsRevokedScan(r)
  BY <1>6 DEF IsRevokedScan, Answer, Listed, ListedRevoked,
     Revocation!Next, Revocation!Scan, Revocation!KeptRevoked
<1>7. CASE UNCHANGED vars
  BY <1>7 DEF vars
<1>. QED  BY <1>1, <1>2, <1>3, <1>4, <1>5, <1>6, <1>7 DEF Next

\* The CRL database implements RevocationList, for every value of the
\* constants: no behaviour of Sync, its goroutines and IsRevoked, the
\* unlocked filter read included, is one the abstract list rules out.
THEOREM Refinement == Spec => RevocationSpec
<1>1. Init => Revocation!Init
  BY DEF Init, Revocation!Init
<1>2. Spec => []RefInv
  BY InitRefInv, NextRefInv, PTL DEF Spec
<1>3. []RefInv /\ [][Next]_vars => [][Revocation!Next]_(Revocation!vars)
  BY StepSimulation, PTL
<1>. QED  BY <1>1, <1>2, <1>3, PTL DEF Spec, RevocationSpec, Revocation!Spec

=============================================================================
