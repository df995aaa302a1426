------------------------------- MODULE MCCRLDB -------------------------------
(* Model-checking instance of CRLDB: two endpoints, three certificates,    *)
(* a 4-bit hash and a 3-bit filter.  Certificate a hashes to the minimum   *)
(* integer; b and c share a bit (a bloom filter collision).  Endpoint e1   *)
(* revokes a from its second CRL on, e2 revokes b in every CRL and c from  *)
(* its second on.                                                          *)
EXTENDS CRLDB, TLC

CONSTANTS e1, e2, a, b, c, r1

MCEndpoints  == {e1, e2}
MCCerts      == {a, b, c}
MCCRL        == [ep \in MCEndpoints |->
                    IF ep = e1 THEN [v \in 0..2 |-> IF v = 0 THEN {} ELSE {a}]
                    ELSE [v \in 0..2 |-> IF v = 0 THEN {b} ELSE {b, c}]]
MCMaxVersion == 2
MCMaxSyncs   == 3
MCReaders    == {r1}
MCBitSetSize == 3
MCHashWidth  == 4
MCCertHash   == (a :> -8) @@ (b :> 5) @@ (c :> -2)
\* int64 of an out-of-range float: saturates (arm64) or wraps (amd64).
MCOverflowSaturate == 7
MCOverflowWrap     == -8
=============================================================================
