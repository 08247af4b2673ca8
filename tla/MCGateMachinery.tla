--------------------------- MODULE MCGateMachinery ---------------------------
(* Small instances of GateMachinery for TLC. *)
EXTENDS GateMachinery, TLC

CONSTANTS w1, w2, g1, g2, s1

(* Two processes with a drive each, named like the process. *)
OwnWorker == [c \in Calls |-> c]

(* What reconcile can answer: the shipped sandbox clients (Docker, E2B,
   Daytona) see live processes only and never prove absence; an effect without
   reconcile answers nothing. *)
ShippedVerdicts == [s \in Scopes |-> {"executed", "unknown"}]
MixedVerdicts == [s \in Scopes |-> IF s \in Gates THEN VerdictKinds ELSE {}]

(* The two processes are alike, and so are the gate ids. *)
Alike == Permutations(Workers) \cup Permutations(Gates)
=============================================================================
