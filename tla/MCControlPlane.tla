--------------------------- MODULE MCControlPlane ---------------------------
(* The control plane on a small hub, for TLC: labels are interchangeable. *)
EXTENDS ControlPlane, TLC

CONSTANTS n1, n2, c1

NameSymmetry == Permutations(Names)

\* A database of an earlier version: a tcp and a udp forward on one port, and a DNS
\* record that was set by hand.
ClashingUpload ==
    [settings |-> CHOOSE s \in Settings : TRUE,
     groups   |-> {[id |-> 1, name |-> DefaultGroup, intra |-> TRUE]},
     links    |-> {}, peers |-> {}, maps |-> {},
     dns      |-> {[host |-> n1, ip |-> 2, peer |-> 0]},
     forwards |-> {[id |-> 1, port |-> 80, proto |-> "tcp"], [id |-> 2, port |-> 80, proto |-> "udp"]},
     seq      |-> [group |-> 1, peer |-> 0, map |-> 0, fwd |-> 2]]

ClashingUploads == {ClashingUpload}

\* A database with a peer and a map, whose ids and addresses the hub had given out too,
\* with or without a record for the peer's address that was set by hand.
PeopledUploads ==
    {[settings |-> CHOOSE s \in Settings : TRUE,
      groups   |-> {[id |-> 1, name |-> DefaultGroup, intra |-> TRUE]},
      links    |-> {},
      peers    |-> {[id |-> 1, name |-> n1, ip |-> 3, group |-> 1, enabled |-> TRUE]},
      dns      |-> byHand,
      maps     |-> {[id |-> 1, slug |-> n2, vip |-> 2, allowed |-> {1}]},
      forwards |-> {},
      seq      |-> [group |-> 1, peer |-> 1, map |-> 1, fwd |-> 0]]
     : byHand \in {{}, {[host |-> n2, ip |-> 3, peer |-> 0]}}}
=============================================================================
