---------------------------- MODULE MCOrbWorkers ----------------------------
(***************************************************************************)
(* Instances of OrbWorkers for TLC: the names of threads, sources and      *)
(* monitors, the types of sources, and the symmetry sets.                  *)
(***************************************************************************)
EXTENDS OrbWorkers, TLC

CONSTANTS p1, p2, p3, p4, c1, c2, c3, c4, a1, a2, s1, s2, s3, m1, m2, m3, u1

(* All sources are sockets.                                                *)
OneType         == [s \in Sources |-> "socket"]
OneTypeMonitors == [m \in Monitors |-> "socket"]

(* One socket; the other sources are of another type.                      *)
TwoTypes         == [s \in Sources |-> IF s = s1 THEN "socket" ELSE "local"]
TwoTypesMonitors == [m \in Monitors |-> IF m = m1 THEN "socket" ELSE "local"]

Symmetry == Permutations(Transient)

(* Three clients wait for replies on connection s1, the fourth on s2; the  *)
(* application thread does nothing once the first request is sent.         *)
ClientSymmetry == Permutations({c1, c2, c3})
ClientScope ==
  /\ \A c \in {c1, c2, c3} : conn[c] \in {None, s1}
  /\ conn[c4] \in {None, s2} /\ ~completed[c4] /\ s2 \notin broken
  /\ (\E c \in Transient : conn[c] # None) => op[a1].kind = "none"
=============================================================================
