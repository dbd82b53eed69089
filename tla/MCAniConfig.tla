---------------------------- MODULE MCAniConfig ----------------------------
(* Values of the constants of AniConfig for TLC.                           *)
EXTENDS AniConfig

CONSTANTS i1, i2, g1, g2, gm

\* The one that is valid has two unicast GEM ports and a multicast one.
MCGemsOf(i) == IF i = i1 THEN {g1, g2, gm} ELSE {g2}

=============================================================================
