--------------------------- MODULE MCForwardProxy ---------------------------
(* A UDP forward and a TCP forward, replaced by one another and together. *)
EXTENDS ForwardProxy

UdpOnly == [p \in {53} |-> "udp"]
Both == [p \in {53, 80} |-> IF p = 53 THEN "udp" ELSE "tcp"]
MCRuleSets == {UdpOnly, Both}
=============================================================================
