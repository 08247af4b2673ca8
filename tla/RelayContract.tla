----------------------------- MODULE RelayContract -----------------------------
(***************************************************************************)
(* What the relay promises the viewer of an action it hands to a runner:   *)
(* the action is done once at most, the viewer is told one thing of it,    *)
(* what it is told is true, and after it was told nothing begins. It is    *)
(* promised unless the runner cannot clear a request it has answered: that *)
(* is then told once still, and no more is promised of it.                 *)
(***************************************************************************)
EXTENDS Naturals

CONSTANTS
  Relayed,    \* requests
  Told        \* what a viewer can be told

VARIABLES
  started,    \* per request: how often its action was begun, up to 2
  outcome,    \* per request: how the action ended last, or "none"
  verdict,    \* per request: what the viewer was told, or "none"
  unremoved   \* the requests that could not be cleared

vars == <<started, outcome, verdict, unremoved>>

Init ==
  /\ started = [r \in Relayed |-> 0]
  /\ outcome = [r \in Relayed |-> "none"]
  /\ verdict = [r \in Relayed |-> "none"]
  /\ unremoved = {}

Begin(r) ==
  /\ r \notin unremoved => started[r] = 0 /\ verdict[r] = "none"
  /\ started' = [started EXCEPT ![r] = IF @ = 2 THEN 2 ELSE @ + 1]
  /\ UNCHANGED <<outcome, verdict, unremoved>>

(* An action may outlast its viewer, who gives up. *)
End(r, result) ==
  /\ started[r] > 0
  /\ r \notin unremoved => outcome[r] = "none"
  /\ outcome' = [outcome EXCEPT ![r] = result]
  /\ UNCHANGED <<started, verdict, unremoved>>

(* That the runner was interrupted, that it took the request, that it did not
   pick it up and that it could not be withdrawn are said without knowing how
   the action ended. *)
True(r, text) ==
  /\ text = "ok" => outcome[r] = "ok"
  /\ text = "failed" => outcome[r] = "failed" \/ started[r] = 0
  /\ text = "expired" => started[r] = 0

Tell(r, text) ==
  /\ verdict[r] = "none"
  /\ r \notin unremoved => True(r, text)
  /\ verdict' = [verdict EXCEPT ![r] = text]
  /\ UNCHANGED <<started, outcome, unremoved>>

(* The one fault of the runner's that the promise does not survive. *)
FailToClear(r) ==
  /\ unremoved' = unremoved \cup {r}
  /\ UNCHANGED <<started, outcome, verdict>>

Next ==
  \E r \in Relayed :
    \/ Begin(r)
    \/ \E result \in {"ok", "failed"} : End(r, result)
    \/ \E text \in Told : Tell(r, text)
    \/ FailToClear(r)

Spec == Init /\ [][Next]_vars
=============================================================================
