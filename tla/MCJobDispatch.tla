--------------------------- MODULE MCJobDispatch ---------------------------
(* JobDispatch on small instances.  Ticks of 15 s: heartbeat 15 s, worker  *)
(* key 30 s, dead threshold 45 s, lock 60 s, recovery 30 s, exit flag 60 s. *)
EXTENDS JobDispatch, TLC

CONSTANTS w1, w2, s1, s2

Workers  == {w1, w2}
Sessions == {s1, s2}
OneSession == {s1}
Symmetry == Permutations(Workers) \cup Permutations(Sessions)
=============================================================================
