---------------------------- MODULE MCDeviceSessions ----------------------------
(* Instances of DeviceSessions for TLC. *)
EXTENDS DeviceSessions, TLC

CONSTANTS s1, s2, o1, o2, o3

TwoSerials == {s1, s2}
TwoOps     == {o1, o2}
ThreeOps   == {o1, o2, o3}

\* Bound: two requests replace the session, at least one of them as a switch; a third
\* one ends it.
OneEnder ==
  /\ \A o \in Ops : op[o].kind \in (IF o = o3 THEN {"none", "stop", "close"}
                                    ELSE {"none", "switch", "mode", "settings"})
  /\ {op[o1].kind, op[o2].kind} \cap {"none", "switch"} # {}

Symmetry == Permutations({o1, o2})
=============================================================================
