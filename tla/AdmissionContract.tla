--------------------------- MODULE AdmissionContract ---------------------------
(***************************************************************************)
(* What work admission promises about one task: one round is admitted at a *)
(* time, it begins only when the user has not paused the task and ends a   *)
(* pause of the watchdog as it begins, and the watchdog pauses only a task *)
(* that nobody works on, be it that somebody was admitted meanwhile.       *)
(***************************************************************************)
CONSTANT Works          \* rounds

VARIABLES
  admitted,   \* rounds that hold the task, until they leave or are moved away
  working,    \* those of them that have begun to work
  pausedBy    \* "nobody", "watchdog" or "user"

contractVars == <<admitted, working, pausedBy>>

Init == admitted = {} /\ working = {} /\ pausedBy = "nobody"

Admit(r) ==
  /\ admitted = {}
  /\ admitted' = {r}
  /\ UNCHANGED <<working, pausedBy>>

(* The lift of the watchdog's pause and the beginning of the work are one. *)
StartWork(r) ==
  /\ r \in admitted \ working
  /\ pausedBy # "user"
  /\ working' = working \cup {r}
  /\ pausedBy' = "nobody"
  /\ UNCHANGED admitted

(* A round that dies at its work holds the task until it is moved away. *)
Stop(r) ==
  /\ working' = working \ {r}
  /\ UNCHANGED <<admitted, pausedBy>>

Leave(r) ==
  /\ admitted' = admitted \ {r}
  /\ working' = working \ {r}
  /\ UNCHANGED pausedBy

WatchdogPauses ==
  /\ working = {}
  /\ pausedBy = "nobody"
  /\ pausedBy' = "watchdog"
  /\ UNCHANGED <<admitted, working>>

UserPauses ==
  /\ pausedBy = "nobody"
  /\ pausedBy' = "user"
  /\ UNCHANGED <<admitted, working>>

PauseEnds ==
  /\ pausedBy # "nobody"
  /\ pausedBy' = "nobody"
  /\ UNCHANGED <<admitted, working>>

Next ==
  \/ \E r \in Works : Admit(r) \/ StartWork(r) \/ Stop(r) \/ Leave(r)
  \/ WatchdogPauses \/ UserPauses \/ PauseEnds

Spec == Init /\ [][Next]_contractVars
=============================================================================
