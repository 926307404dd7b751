----------------------------- MODULE MCTunPath -----------------------------
(* Two peers in two groups, a link one way or the other, a map and a forward. *)
EXTENDS TunPath

A == 1
B == 2
Vip == 3
PeerRows == {[id |-> 1, name |-> "a", ip |-> A, group |-> 1, enabled |-> TRUE],
             [id |-> 2, name |-> "b", ip |-> B, group |-> 2, enabled |-> TRUE]}
GroupRows == {[id |-> g, name |-> "g", intra |-> TRUE] : g \in {1, 2}}

OneWay == [peers |-> PeerRows, groups |-> GroupRows, listen |-> {11},
           links |-> {[from |-> 1, to |-> 2, bidi |-> FALSE]},
           maps  |-> {[id |-> 1, slug |-> "m", vip |-> Vip, allowed |-> {1}]}]
Reversed == [OneWay EXCEPT !.links = {[from |-> 2, to |-> 1, bidi |-> FALSE]}, !.maps = {}, !.listen = {12}]

Pkt(s, sp, d, dp) == [src |-> s, sport |-> sp, dst |-> d, dport |-> dp]
MCTraffic == {Pkt(A, 5, B, 5), Pkt(A, 6, B, 5), Pkt(A, 5, Vip, 5),
              Pkt(B, 5, A, 5), Pkt(B, 5, Hub, 12), Pkt(B, 5, Hub, 13)}

MCGraphs == {OneWay, Reversed}
=============================================================================
