----------------------------- MODULE MCHubStore -----------------------------
(* The store on a small hub, for TLC: labels are interchangeable. *)
EXTENDS HubStore, TLC

CONSTANTS n1, n2, c1

NameSymmetry == Permutations(Names)

\* A database of an earlier version: a tcp and a udp forward on one port, and a DNS
\* record that was set by hand.
ClashingUpload ==
    [settings |-> CHOOSE s \in Settings : TRUE,
     groups   |-> {[id |-> 1, name |-> DefaultGroup, intra |-> TRUE]},
     links    |-> {}, peers |-> {}, maps |-> {},
     dns      |-> {[host |-> n1, ip |-> 2, peer |-> 0]},
     forwards |-> {[id |-> 1, port |-> 80, proto |-> "tcp"], [id |-> 2, port |-> 80, proto |-> "udp"]},
     seq      |-> [group |-> 1, peer |-> 0, map |-> 0, fwd |-> 2]]

ClashingUploads == {ClashingUpload}
=============================================================================
