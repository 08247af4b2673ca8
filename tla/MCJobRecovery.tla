---------------------------- MODULE MCJobRecovery ----------------------------
(* Small instances of JobRecovery for TLC: the first gate of a run and the
   re-offers of its effect, and two worker processes with a pass each. *)
EXTENDS JobRecovery, TLC

CONSTANTS w1, w2, g1, g2, g3

OwnWorker == [c \in Calls |-> c]
ShippedVerdicts == [s \in Scopes |-> {"executed", "unknown"}]
Alike == Permutations(Workers) \cup Permutations(Gates \ {FirstGate})
=============================================================================
