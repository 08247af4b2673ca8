----------------------------- MODULE JobRecovery -----------------------------
(***************************************************************************)
(* The control plane's job supervisor over the gate machinery: the job row *)
(* of one task, and the recovery passes (recoverGatePausedJobs) that       *)
(* worker processes run for it. A pass lists the gate-paused jobs, drives  *)
(* the gate it read there, and checkpoints what the drive returned; other  *)
(* passes, and the owner's decision, come in between.                      *)
(***************************************************************************)
EXTENDS GateMachinery

CONSTANT FirstGate      \* the gate the run paused at; the others are re-offers
ASSUME FirstGateAssumption == FirstGate \in Gates

VARIABLES
  status,       \* job row
  pausedGate,   \* job row: the gate it waits on
  pass          \* per call: the gate id a pass took from the job row

jobVars == <<status, pausedGate, pass>>
allVars == <<vars, jobVars>>

JobStatuses == {"running", "gatePaused", "completed", "failed"}

JobTypeOK ==
  /\ TypeOK
  /\ status \in JobStatuses
  /\ pausedGate \in Gates \cup {NoScope}
  /\ pass \in [Calls -> Gates \cup {NoScope}]

JobInit ==
  /\ Init
  /\ status = "running"
  /\ pausedGate = NoScope
  /\ pass = [c \in Calls |-> NoScope]

(* supervisor.checkpoint: the row is overwritten, whatever it said. *)
Save(st, g) == status' = st /\ pausedGate' = g

(* The run opens its gate, then checkpoints that it waits for it. *)
Pause ==
  /\ status = "running"
  /\ gate[FirstGate] # "absent"
  /\ Save("gatePaused", FirstGate)
  /\ UNCHANGED <<vars, pass>>

ListJob(c) ==
  /\ pc[c] = "idle"
  /\ pass[c] = NoScope
  /\ status = "gatePaused"
  /\ pass' = [pass EXCEPT ![c] = pausedGate]
  /\ UNCHANGED <<vars, status, pausedGate>>

(* The pass reads the gate it listed: one that is not decided is left alone,
   a decided one is driven. *)
LeaveOffered(c) ==
  /\ pc[c] = "idle"
  /\ pass[c] # NoScope
  /\ gate[pass[c]] \notin Decisions
  /\ pass' = [pass EXCEPT ![c] = NoScope]
  /\ UNCHANGED <<vars, status, pausedGate>>

Resume(c) ==
  /\ pass[c] # NoScope
  /\ gate[pass[c]] \in Decisions
  /\ Acquire(c, pass[c])
  /\ UNCHANGED jobVars

(* What the drive returned is checkpointed after its await. An error ends the
   pass, a refused lease leaves the job in the worklist. *)
RanAndFailed(c) == result[c] \in {"executed", "recovered"} /\ outcome[c] = "failed"

(* Mutants of Checkpoint: a re-offer ends the job; a re-offer leaves the row as
   it is. *)
CheckpointDone(c) ==
  /\ IF result[c] \in {"leaseUnavailable", "threw"}
       THEN UNCHANGED <<status, pausedGate>>
       ELSE Save(IF RanAndFailed(c) THEN "failed" ELSE "completed", NoScope)
  /\ pass' = [pass EXCEPT ![c] = NoScope]
  /\ Finish(c)

CheckpointStale(c) ==
  /\ IF result[c] \in {"leaseUnavailable", "threw", "indeterminate"}
       THEN UNCHANGED <<status, pausedGate>>
       ELSE Save(IF RanAndFailed(c) THEN "failed" ELSE "completed", NoScope)
  /\ pass' = [pass EXCEPT ![c] = NoScope]
  /\ Finish(c)

Checkpoint(c) ==
  /\ CASE result[c] \in {"leaseUnavailable", "threw"} -> UNCHANGED <<status, pausedGate>>
       [] result[c] = "indeterminate" -> \E g \in Reoffers(scope[c]) : Save("gatePaused", g)
       [] OTHER -> Save(IF RanAndFailed(c) THEN "failed" ELSE "completed", NoScope)
  /\ pass' = [pass EXCEPT ![c] = NoScope]
  /\ Finish(c)

CrashPass(w) ==
  /\ pass' = [c \in Calls |-> IF WorkerOf[c] = w THEN NoScope ELSE pass[c]]
  /\ Crash(w)
  /\ UNCHANGED <<status, pausedGate>>

PassStep(c) ==
  \/ LeaveOffered(c) \/ Checkpoint(c)
  \/ AwaitStep(c) /\ UNCHANGED jobVars

JobNext ==
  \/ Pause
  \/ \E c \in Calls : ListJob(c) \/ Resume(c) \/ PassStep(c) \/ (Throw(c) /\ UNCHANGED jobVars)
  \/ (\/ OpenGate(FirstGate)
      \/ \E g \in Gates, d \in Decisions : Decide(g, d)
      \/ \E s \in Scopes, c \in Calls : LateRun(s, c)
      \/ TimelyExpire) /\ UNCHANGED jobVars
  \/ \E w \in Workers : CrashPass(w)

JobSpec == JobInit /\ [][JobNext]_allVars

(* Passes are run again and again, and go on when they can. *)
FairJobSpec ==
  /\ JobSpec
  /\ WF_allVars(TimelyExpire /\ UNCHANGED jobVars)
  /\ \A c \in Calls : /\ WF_allVars(PassStep(c))
                      /\ WF_allVars(ListJob(c))
                      /\ SF_allVars(LeaseFree(c) /\ Resume(c))

-----------------------------------------------------------------------------
(* A job that is over leaves nothing behind: every gate it was ever paused at
   is consumed, no prompt waits for an answer, no attempt is open. *)
DoneJobIsSettled ==
  status \in {"completed", "failed"} =>
    \A g \in Gates : gate[g] # "absent" => resumed[g] /\ attempt[g] # "pending"

(* No prompt gets out of the job's reach: from the gate in the row, through
   the re-offers of its attempt and of theirs, the supervisor comes to every
   gate that waits for the owner - also when a slow pass has put the row back
   to an earlier gate. *)
PromptIsReachable ==
  status = "gatePaused" =>
    \A S \in SUBSET Gates :
      (pausedGate \in S /\ \A g \in S : Reoffers(g) \subseteq S)
        => {g \in Gates : gate[g] = "pending"} \subseteq S

(* A decided gate does not orphan its job: once faults cease, the job ends or
   comes to a gate that waits for the owner (or the pool of ids is used up). *)
JobFault ==
  /\ (\E w \in Workers : Crash(w)) \/ (\E c \in Calls : Throw(c))
  /\ ~ \E c \in Calls : PassStep(c)

JobFaultsCease == <>[][~JobFault]_allVars

JobIsNotOrphaned ==
  JobFaultsCease =>
    (status = "gatePaused" ~>
       \/ status \in {"completed", "failed"}
       \/ pausedGate \in Gates /\ gate[pausedGate] = "pending"
       \/ \A g \in Gates : gate[g] # "absent")

(* A job whose effect failed is reported failed. *)
FailureIsReported ==
  status = "completed" => \A g \in Gates : attempt[g] # "failed"
-----------------------------------------------------------------------------
(* The inductive invariant behind DoneJobIsSettled and PromptIsReachable when
   no process makes two passes at once. The gates of a job form one chain: each
   is the re-offer of the indeterminate attempt of the one before, and only the
   last can still be waited for, driven or re-offered. *)

Over(g) == resumed[g] /\ (gate[g] = "rejected" \/ attempt[g] \in Outcomes)
Leaf(g) == gate[g] # "absent" /\ Reoffers(g) = {}

(* What a pass knows at each await of its drive; it holds the lease. *)
PassKnows(c) ==
  /\ pc[c] # "idle" => scope[c] \in Gates /\ gate[scope[c]] \in Decisions
  /\ pc[c] = "readAttempts" /\ seen[c] => attempt[scope[c]] \in Terminal
  /\ pc[c] = "begin" => attempt[scope[c]] = "none"
  /\ pc[c] \in EffectAwaits => attempt[scope[c]] = "pending"
  /\ pc[c] = "consume" =>
       IF result[c] = "indeterminate"
         THEN attempt[scope[c]] = "indeterminate"
         ELSE gate[scope[c]] = "rejected" \/ attempt[scope[c]] \in Outcomes
  /\ pc[c] \in {"findReoffer", "createReoffer"} =>
       /\ result[c] = "indeterminate"
       /\ resumed[scope[c]] /\ attempt[scope[c]] = "indeterminate"
  /\ pc[c] = "createReoffer" => Reoffers(scope[c]) = {}
  /\ pc[c] \in {"release", "done"} =>
       result[c] \in {"threw", "leaseUnavailable", "indeterminate"} \/ Over(scope[c])

AttemptsAreApproved ==
  \A g \in Gates : attempt[g] # "none" => gate[g] = "approved"

Chained ==
  /\ gate[FirstGate] = "absent" => \A g \in Gates : gate[g] = "absent"
  /\ \A g \in Gates : reofferOf[g] # NoScope =>
       /\ reofferOf[g] \in Gates
       /\ resumed[reofferOf[g]] /\ attempt[reofferOf[g]] = "indeterminate"
  /\ \A g, h \in Gates : Leaf(g) /\ Leaf(h) => g = h

(* From every gate, re-offer by re-offer, one comes to the last. *)
LastIsReachable ==
  \A S \in SUBSET Gates :
    (\A g \in S : Reoffers(g) \subseteq S)
      => \A g \in S, h \in Gates : gate[g] # "absent" /\ Leaf(h) => h \in S

JobRow ==
  /\ status = "gatePaused" => pausedGate \in Gates /\ gate[pausedGate] # "absent"
  /\ status \in {"completed", "failed"} => \E g \in Gates : Over(g)
  /\ \A c \in Calls : pass[c] # NoScope => pass[c] \in Gates /\ gate[pass[c]] # "absent"

JobInv ==
  /\ JobTypeOK
  /\ LeaseIsHeld
  /\ \A c \in Calls : PassKnows(c)
  /\ AttemptsAreApproved
  /\ Chained
  /\ LastIsReachable
  /\ JobRow
=============================================================================
