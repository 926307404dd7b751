----------------------------- MODULE MCMapProxy -----------------------------
(* One client of one map, whose group or whose allow list changes. *)
EXTENDS MapProxy

Config(allowed, group) == [allowed |-> [v \in {"vip"} |-> allowed], group |-> [p \in {"peer"} |-> group]]

MCKeys == {[peer |-> "peer", vip |-> "vip"]}
MCConfigs == {Config({1}, 1), Config({2}, 1), Config({2}, 2)}
=============================================================================
