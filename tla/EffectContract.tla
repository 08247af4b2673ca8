--------------------------- MODULE EffectContract ---------------------------
(***************************************************************************)
(* What the engine promises about external effects, without leases,        *)
(* workers, crashes or stores: an effect of a gate runs only once the      *)
(* owner has approved the gate; an effect that is not safe to repeat runs  *)
(* at most once per approval; the verdict reported for an effect is final, *)
(* and "succeeded" is never reported of an effect that did not run.        *)
(* GateMachinery is shown to implement this specification.                 *)
(***************************************************************************)

CONSTANTS
  Gates,        \* approvals the owner is asked for
  Steps,        \* effects that need no approval
  Replayable    \* effects whose repetition the platform absorbs

VARIABLES
  decision,     \* per gate: "absent", "pending", "approved", "rejected"
  runs,         \* per effect: how often the platform ran it, 2 for more than once
  report        \* per effect: "open", then "succeeded", "failed" or "indeterminate"

cvars == <<decision, runs, report>>

Effects == Gates \cup Steps

Permitted(s) == s \in Steps \/ (s \in Gates /\ decision[s] = "approved")

OneMore(n) == IF n = 0 THEN 1 ELSE 2

Init ==
  /\ decision = [g \in Gates |-> "absent"]
  /\ runs = [s \in Effects |-> 0]
  /\ report = [s \in Effects |-> "open"]

Offer(g) ==
  /\ decision[g] = "absent"
  /\ decision' = [decision EXCEPT ![g] = "pending"]
  /\ UNCHANGED <<runs, report>>

Decide(g, d) ==
  /\ decision[g] = "pending"
  /\ decision' = [decision EXCEPT ![g] = d]
  /\ UNCHANGED <<runs, report>>

(* An effect that must not repeat runs only while nobody has been told that
   it is over; one reported indeterminate may still turn out to have run. *)
Run(s) ==
  /\ Permitted(s)
  /\ s \in Replayable \/ (runs[s] = 0 /\ report[s] \in {"open", "indeterminate"})
  /\ runs' = [runs EXCEPT ![s] = OneMore(@)]
  /\ UNCHANGED <<decision, report>>

Report(s, r) ==
  /\ report[s] = "open"
  /\ Permitted(s)
  /\ r = "succeeded" => runs[s] # 0
  /\ report' = [report EXCEPT ![s] = r]
  /\ UNCHANGED <<decision, runs>>

Next ==
  \/ \E g \in Gates : Offer(g)
  \/ \E g \in Gates, d \in {"approved", "rejected"} : Decide(g, d)
  \/ \E s \in Effects : Run(s)
  \/ \E s \in Effects, r \in {"succeeded", "failed", "indeterminate"} : Report(s, r)

Spec == Init /\ [][Next]_cvars
=============================================================================
