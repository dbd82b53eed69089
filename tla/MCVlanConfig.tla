---------------------------- MODULE MCVlanConfig ----------------------------
(* Values of the constants of VlanConfig for TLC.                          *)
EXTENDS VlanConfig

CONSTANTS c1, c2, ra, rb, p, q

\* Rule ra has profile p with multicast, rule rb profile q and a meter.
MCTpOf(r) == IF r = rb THEN q ELSE p
MCMatchOf(r) == IF r = rb THEN "m20" ELSE "m10"
MCSetOf(r) == IF r = rb THEN "v200" ELSE "v100"
MCInnerOf(r) == "none"
MCFlows == {<<c1, ra>>, <<c2, rb>>, <<c1, rb>>}

\* Rule ra is for frames with two tags.
MCInnerOfDouble(r) == IF r = ra THEN "m30" ELSE "none"

=============================================================================
