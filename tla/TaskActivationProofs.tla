------------------------- MODULE TaskActivationProofs -------------------------
(***************************************************************************)
(* One active task, and no attempted activation forgotten, for any number  *)
(* of tasks, windows and faults. The invariant: the lock is held by who    *)
(* works, a checkpoint describes what its window has written so far, and   *)
(* what is active was active in its snapshot or is its target.             *)
(***************************************************************************)
EXTENDS TaskActivation, FiniteSetTheorems, TLAPS

(* Tasks that the snapshot of a checkpoint has active. *)
Before == {t \in Tasks : checkpoint.previous[t] = "active"}

(* Who stands at an await under the lock holds it. *)
Exclusive == \A w \in Windows : at[w] \in Working => metaLock = w

(* Who does not has no activation or recovery under way. *)
Rested == \A w \in Windows : at[w] \notin Working => job[w] = NoJob

(* What a window knows at each await of the checkpoint it works on. *)
Aims ==
  \A w \in Windows :
    /\ at[w] \in {"guard", "record"} \/ job[w].next = "record" => job[w].target \in Tasks
    /\ at[w] = "record" => checkpoint = NoCheckpoint
    /\ at[w] \in {"pauseOthers", "recordPaused", "writeTarget", "recordActivated"} =>
         /\ checkpoint \in Checkpoints
         /\ job[w].target = checkpoint.target /\ job[w].previous = checkpoint.previous
    /\ at[w] \in {"pauseOthers", "recordPaused"} => checkpoint.phase \in Unattempted
    /\ at[w] \in {"writeTarget", "recordActivated", "resolve"} =>
         checkpoint.phase = "targetWritePending"
    /\ at[w] \in {"setFocus", "recordFocus"} => checkpoint.phase \in Landed
    /\ at[w] = "recordActivated" => taskStatus[checkpoint.target] = "active"
    /\ at[w] = "restore" =>
         /\ checkpoint.phase \in Unattempted \cup {"targetWritePending"}
         /\ job[w].previous = checkpoint.previous

AtMostOne == \A t, u \in ActiveTasks : t = u

(* What the file says of the tasks, whoever reads it after a crash. *)
CheckpointIsTrue ==
  checkpoint # NoCheckpoint =>
    /\ \A t, u \in Before : t = u
    /\ checkpoint.paused \subseteq Before \ {checkpoint.target}
    /\ checkpoint.phase \in Unattempted => ActiveTasks \subseteq Before
    /\ checkpoint.phase = "targetWritePending" =>
         \/ ActiveTasks \subseteq {checkpoint.target}
         \/ checkpoint.target \notin ActiveTasks /\ ActiveTasks \subseteq Before

(* What a window has still to pause, or to give back. *)
WorkIsRight ==
  \A w \in Windows :
    /\ at[w] \in {"pauseOthers", "recordPaused", "writeTarget", "recordActivated"} =>
         job[w].paused \subseteq Before \ {checkpoint.target}
    /\ at[w] \in {"pauseOthers", "recordPaused"} =>
         /\ checkpoint.target \notin job[w].todo
         /\ job[w].todo \subseteq Before
         /\ ActiveTasks \ {checkpoint.target} \subseteq job[w].todo
    /\ at[w] = "writeTarget" => ActiveTasks \subseteq Before \cap {checkpoint.target}
    /\ at[w] = "restore" =>
         /\ job[w].todo \subseteq Before \ {checkpoint.target}
         /\ ActiveTasks \subseteq Before
         /\ checkpoint.phase = "targetWritePending" => checkpoint.target \notin ActiveTasks

ActivationInv ==
  /\ ActivationTypeOK /\ Exclusive /\ Rested /\ Aims
  /\ Undisturbed => AtMostOne /\ CheckpointIsTrue /\ WorkIsRight

USE DEF Statuses, Phases, Unattempted, Landed, NoCheckpoint, Working, NoJob, ActiveTasks

-----------------------------------------------------------------------------
(* Types of what the actions build. *)

LEMMA CheckpointFields ==
  ASSUME checkpoint \in Checkpoints \cup {NoCheckpoint}, checkpoint.phase \in Phases
  PROVE  /\ checkpoint \in Checkpoints
         /\ checkpoint.target \in Tasks /\ checkpoint.previous \in Snapshots
         /\ checkpoint.paused \subseteq Tasks
BY DEF Checkpoints

LEMMA JobFields ==
  ASSUME ActivationTypeOK, NEW w \in Windows
  PROVE  /\ job[w] \in Jobs
         /\ job[w].target \in Tasks \cup {NoTask} /\ job[w].previous \in Snapshots
         /\ job[w].paused \subseteq Tasks /\ job[w].todo \subseteq Tasks
BY DEF ActivationTypeOK, Jobs

LEMMA JobWithTodo ==
  ASSUME job \in [Windows -> Jobs], NEW w \in Windows, NEW d \in SUBSET Tasks
  PROVE  [job EXCEPT ![w].todo = d] \in [Windows -> Jobs]
BY DEF Jobs

LEMMA JobWithSnapshot ==
  ASSUME job \in [Windows -> Jobs], NEW w \in Windows, NEW p \in Snapshots,
         NEW d \in SUBSET Tasks
  PROVE  [job EXCEPT ![w].previous = p, ![w].todo = d] \in [Windows -> Jobs]
BY DEF Jobs

LEMMA JobWithPaused ==
  ASSUME job \in [Windows -> Jobs], NEW w \in Windows, NEW a \in SUBSET Tasks,
         NEW d \in SUBSET Tasks
  PROVE  [job EXCEPT ![w].paused = a, ![w].todo = d] \in [Windows -> Jobs]
BY DEF Jobs

LEMMA NoJobTyped == NoJob \in Jobs
BY DEF Jobs, Snapshots

LEMMA RollBackTyped ==
  ASSUME ActivationTypeOK, NEW w \in Windows, NEW there \in {"restore", "queued"},
         checkpoint.phase \in Phases, RollBackFrom(w, checkpoint, there)
  PROVE  ActivationTypeOK'
<1>1. checkpoint.previous \in Snapshots /\ checkpoint.paused \subseteq Tasks
  BY CheckpointFields DEF ActivationTypeOK
<1>2. job' \in [Windows -> Jobs]
  BY <1>1, JobWithSnapshot DEF ActivationTypeOK, RollBackFrom
<1>3. at' \in [Windows -> Working \cup {"idle", "boot", "down"}]
  BY DEF ActivationTypeOK, RollBackFrom, GoTo
<1> QED
  BY <1>2, <1>3 DEF ActivationTypeOK, RollBackFrom


LEMMA ActivateStep ==
  ASSUME ActivationInv, NEW w \in Windows, NEW t \in Tasks, Activate(w, t)
  PROVE  ActivationInv'
<1> USE ActivationAssumption DEF ActivationInv, Activate, GoTo, ActivationTypeOK, Snapshots,
     Checkpoints, Jobs
<1>t. ActivationTypeOK' OBVIOUS
<1>1. Exclusive' BY DEF Exclusive
<1>2. Rested' BY DEF Rested
<1>3. Aims' BY DEF Aims, Exclusive, Rested
<1>u. ASSUME Undisturbed PROVE AtMostOne' /\ CheckpointIsTrue' /\ WorkIsRight'
  <2>1. AtMostOne' BY <1>u DEF AtMostOne, CheckpointIsTrue, WorkIsRight, Before, Aims
  <2>2. CheckpointIsTrue' BY <1>u DEF AtMostOne, CheckpointIsTrue, WorkIsRight, Before, Aims
  <2>3. WorkIsRight' BY <1>u DEF AtMostOne, CheckpointIsTrue, WorkIsRight, Before, Aims,
       Exclusive
  <2> QED BY <2>1, <2>2, <2>3
<1> QED BY <1>t, <1>1, <1>2, <1>3, <1>u

LEMMA StartRecoveryStep ==
  ASSUME ActivationInv, NEW w \in Windows, StartRecovery(w)
  PROVE  ActivationInv'
<1> USE ActivationAssumption DEF ActivationInv, StartRecovery, GoTo, ActivationTypeOK,
     Snapshots, Checkpoints, Jobs
<1>t. ActivationTypeOK' OBVIOUS
<1>1. Exclusive' BY DEF Exclusive
<1>2. Rested' BY DEF Rested
<1>3. Aims' BY DEF Aims, Exclusive, Rested
<1>u. ASSUME Undisturbed PROVE AtMostOne' /\ CheckpointIsTrue' /\ WorkIsRight'
  <2>1. AtMostOne' BY <1>u DEF AtMostOne, CheckpointIsTrue, WorkIsRight, Before, Aims
  <2>2. CheckpointIsTrue' BY <1>u DEF AtMostOne, CheckpointIsTrue, WorkIsRight, Before, Aims
  <2>3. WorkIsRight' BY <1>u DEF AtMostOne, CheckpointIsTrue, WorkIsRight, Before, Aims,
       Exclusive
  <2> QED BY <2>1, <2>2, <2>3
<1> QED BY <1>t, <1>1, <1>2, <1>3, <1>u

LEMMA RecoveryGivesUpStep ==
  ASSUME ActivationInv, NEW w \in Windows, RecoveryGivesUp(w)
  PROVE  ActivationInv'
<1> USE ActivationAssumption DEF ActivationInv, RecoveryGivesUp, GoTo, ActivationTypeOK,
     Snapshots, Checkpoints, Jobs
<1>t. ActivationTypeOK' OBVIOUS
<1>1. Exclusive' BY DEF Exclusive
<1>2. Rested' BY DEF Rested
<1>3. Aims' BY DEF Aims, Exclusive, Rested
<1>u. ASSUME Undisturbed PROVE AtMostOne' /\ CheckpointIsTrue' /\ WorkIsRight'
  <2>1. AtMostOne' BY <1>u DEF AtMostOne, CheckpointIsTrue, WorkIsRight, Before, Aims
  <2>2. CheckpointIsTrue' BY <1>u DEF AtMostOne, CheckpointIsTrue, WorkIsRight, Before, Aims
  <2>3. WorkIsRight' BY <1>u DEF AtMostOne, CheckpointIsTrue, WorkIsRight, Before, Aims,
       Exclusive
  <2> QED BY <2>1, <2>2, <2>3
<1> QED BY <1>t, <1>1, <1>2, <1>3, <1>u

LEMMA GuardStep ==
  ASSUME ActivationInv, NEW w \in Windows, Guard(w)
  PROVE  ActivationInv'
<1> USE ActivationAssumption DEF ActivationInv, Guard, GoTo, RollBackFrom
<1>t. ActivationTypeOK'
  <2>1. CASE checkpoint = NoCheckpoint
    BY <2>1 DEF ActivationTypeOK
  <2>2. CASE checkpoint.phase \in Landed
    BY <2>2, CheckpointFields DEF ActivationTypeOK
  <2>3. CASE checkpoint.phase = "targetWritePending"
    BY <2>3 DEF ActivationTypeOK
  <2>4. CASE RollBackFrom(w, checkpoint, "restore") /\ checkpoint.phase \in Unattempted
    BY <2>4, RollBackTyped
  <2> QED
    BY <2>1, <2>2, <2>3, <2>4
<1> USE DEF ActivationTypeOK, Snapshots, Checkpoints, Jobs
<1>1. Exclusive' BY DEF Exclusive
<1>2. Rested' BY DEF Rested
<1>3. Aims'
  <2>1. CASE checkpoint = NoCheckpoint BY <2>1 DEF Aims, Exclusive, Rested
  <2>2. CASE checkpoint.phase \in Landed BY <2>2 DEF Aims, Exclusive, Rested
  <2>3. CASE checkpoint.phase = "targetWritePending" BY <2>3 DEF Aims, Exclusive, Rested
  <2>4. CASE RollBackFrom(w, checkpoint, "restore") /\ checkpoint.phase \in Unattempted
    BY <2>4 DEF Aims, Exclusive, Rested
  <2> QED BY <2>1, <2>2, <2>3, <2>4
<1>u. ASSUME Undisturbed PROVE AtMostOne' /\ CheckpointIsTrue' /\ WorkIsRight'
  <2>1. AtMostOne' BY <1>u DEF AtMostOne, CheckpointIsTrue, WorkIsRight, Before, Aims
  <2>2. CheckpointIsTrue' BY <1>u DEF AtMostOne, CheckpointIsTrue, WorkIsRight, Before, Aims
  <2>3. WorkIsRight' BY <1>u DEF AtMostOne, CheckpointIsTrue, WorkIsRight, Before, Aims,
       Exclusive
  <2> QED BY <2>1, <2>2, <2>3
<1> QED BY <1>t, <1>1, <1>2, <1>3, <1>u

LEMMA RecoverStep ==
  ASSUME ActivationInv, NEW w \in Windows, Recover(w)
  PROVE  ActivationInv'
<1> USE ActivationAssumption DEF ActivationInv, Recover, GoTo, RollBackFrom, LeaveLock
<1>t. ActivationTypeOK'
  <2>1. CASE checkpoint = NoCheckpoint
    BY <2>1, NoJobTyped DEF ActivationTypeOK
  <2>2. CASE checkpoint.phase \in Landed
    BY <2>2, CheckpointFields DEF ActivationTypeOK
  <2>3. CASE checkpoint.phase = "targetWritePending"
    BY <2>3 DEF ActivationTypeOK
  <2>4. CASE RollBackFrom(w, checkpoint, "queued") /\ checkpoint.phase \in Unattempted
    BY <2>4, RollBackTyped
  <2> QED
    BY <2>1, <2>2, <2>3, <2>4
<1> USE DEF ActivationTypeOK, Snapshots, Checkpoints, Jobs
<1>1. Exclusive' BY DEF Exclusive
<1>2. Rested' BY DEF Rested
<1>3. Aims' BY DEF Aims, Exclusive, Rested
<1>u. ASSUME Undisturbed PROVE AtMostOne' /\ CheckpointIsTrue' /\ WorkIsRight'
  <2>1. AtMostOne' BY <1>u DEF AtMostOne, CheckpointIsTrue, WorkIsRight, Before, Aims
  <2>2. CheckpointIsTrue' BY <1>u DEF AtMostOne, CheckpointIsTrue, WorkIsRight, Before, Aims
  <2>3. WorkIsRight' BY <1>u DEF AtMostOne, CheckpointIsTrue, WorkIsRight, Before, Aims,
       Exclusive
  <2> QED BY <2>1, <2>2, <2>3
<1> QED BY <1>t, <1>1, <1>2, <1>3, <1>u

LEMMA ResolveForwardStep ==
  ASSUME ActivationInv, NEW w \in Windows, ResolveForward(w)
  PROVE  ActivationInv'
<1> USE ActivationAssumption DEF ActivationInv, ResolveForward, GoTo
<1>t. ActivationTypeOK'
  BY CheckpointFields DEF ActivationTypeOK, Aims, Checkpoints
<1> USE DEF ActivationTypeOK, Snapshots, Checkpoints, Jobs
<1>1. Exclusive' BY DEF Exclusive
<1>2. Rested' BY DEF Rested
<1>3. Aims' BY DEF Aims, Exclusive, Rested
<1>u. ASSUME Undisturbed PROVE AtMostOne' /\ CheckpointIsTrue' /\ WorkIsRight'
  <2>1. AtMostOne' BY <1>u DEF AtMostOne, CheckpointIsTrue, WorkIsRight, Before, Aims
  <2>2. CheckpointIsTrue' BY <1>u DEF AtMostOne, CheckpointIsTrue, WorkIsRight, Before, Aims
  <2>3. WorkIsRight' BY <1>u DEF AtMostOne, CheckpointIsTrue, WorkIsRight, Before, Aims,
       Exclusive
  <2> QED BY <2>1, <2>2, <2>3
<1> QED BY <1>t, <1>1, <1>2, <1>3, <1>u

LEMMA ResolveBackStep ==
  ASSUME ActivationInv, NEW w \in Windows, ResolveBack(w)
  PROVE  ActivationInv'
<1> USE ActivationAssumption DEF ActivationInv, ResolveBack, GoTo, RollBackFrom
<1>t. ActivationTypeOK'
  BY CheckpointFields, JobWithSnapshot DEF ActivationTypeOK, Aims
<1> USE DEF ActivationTypeOK, Snapshots, Checkpoints, Jobs
<1>1. Exclusive' BY DEF Exclusive
<1>2. Rested' BY DEF Rested
<1>3. Aims' BY DEF Aims, Exclusive, Rested
<1>u. ASSUME Undisturbed PROVE AtMostOne' /\ CheckpointIsTrue' /\ WorkIsRight'
  <2>1. AtMostOne' BY <1>u DEF AtMostOne, CheckpointIsTrue, WorkIsRight, Before, Aims
  <2>2. CheckpointIsTrue' BY <1>u DEF AtMostOne, CheckpointIsTrue, WorkIsRight, Before, Aims
  <2>3. WorkIsRight' BY <1>u DEF AtMostOne, CheckpointIsTrue, WorkIsRight, Before, Aims,
       Exclusive
  <2> QED BY <2>1, <2>2, <2>3
<1> QED BY <1>t, <1>1, <1>2, <1>3, <1>u

LEMMA ResolveUnreadableStep ==
  ASSUME ActivationInv, NEW w \in Windows, ResolveUnreadable(w)
  PROVE  ActivationInv'
<1> USE ActivationAssumption DEF ActivationInv, ResolveUnreadable, GoTo, Fault, LeaveLock,
     ActivationTypeOK, Snapshots, Checkpoints, Jobs
<1>t. ActivationTypeOK' OBVIOUS
<1>1. Exclusive' BY DEF Exclusive
<1>2. Rested' BY DEF Rested
<1>3. Aims' BY DEF Aims, Exclusive, Rested
<1>u. ASSUME Undisturbed PROVE AtMostOne' /\ CheckpointIsTrue' /\ WorkIsRight'
  <2>1. AtMostOne' BY <1>u DEF AtMostOne, CheckpointIsTrue, WorkIsRight, Before, Aims
  <2>2. CheckpointIsTrue' BY <1>u DEF AtMostOne, CheckpointIsTrue, WorkIsRight, Before, Aims
  <2>3. WorkIsRight' BY <1>u DEF AtMostOne, CheckpointIsTrue, WorkIsRight, Before, Aims,
       Exclusive
  <2> QED BY <2>1, <2>2, <2>3
<1> QED BY <1>t, <1>1, <1>2, <1>3, <1>u

LEMMA RecordIntentStep ==
  ASSUME ActivationInv, NEW w \in Windows, RecordIntent(w)
  PROVE  ActivationInv'
<1> USE ActivationAssumption DEF ActivationInv, RecordIntent, GoTo
<1>t. ActivationTypeOK'
  <2> DEFINE j == [job[w] EXCEPT !.previous = taskStatus, !.paused = {}, !.next = "end",
                                 !.todo = ActiveTasks \ {job[w].target}]
  <2>1. job[w].target \in Tasks
    BY DEF Aims
  <2>2. j \in Jobs /\ j.target = job[w].target /\ j.previous = taskStatus
    BY JobFields DEF ActivationTypeOK, Jobs
  <2>3. job' \in [Windows -> Jobs]
    BY <2>2 DEF ActivationTypeOK
  <2>4. checkpoint' \in Checkpoints
    BY <2>1, <2>2 DEF ActivationTypeOK, Checkpoints
  <2> QED
    BY <2>3, <2>4 DEF ActivationTypeOK
<1> USE DEF ActivationTypeOK, Snapshots, Checkpoints, Jobs
<1>1. Exclusive' BY DEF Exclusive
<1>2. Rested' BY DEF Rested
<1>3. Aims' BY DEF Aims, Exclusive, Rested
<1>u. ASSUME Undisturbed PROVE AtMostOne' /\ CheckpointIsTrue' /\ WorkIsRight'
  <2>1. AtMostOne' BY <1>u DEF AtMostOne, CheckpointIsTrue, WorkIsRight, Before, Aims
  <2>2. CheckpointIsTrue' BY <1>u DEF AtMostOne, CheckpointIsTrue, WorkIsRight, Before, Aims
  <2>3. WorkIsRight' BY <1>u DEF AtMostOne, CheckpointIsTrue, WorkIsRight, Before, Aims,
       Exclusive
  <2> QED BY <2>1, <2>2, <2>3
<1> QED BY <1>t, <1>1, <1>2, <1>3, <1>u

LEMMA PauseFailsStep ==
  ASSUME ActivationInv, NEW w \in Windows, PauseFails(w)
  PROVE  ActivationInv'
<1> USE ActivationAssumption DEF ActivationInv, PauseFails, GoTo, Fault
<1>t. ActivationTypeOK'
  <2>1. job' \in [Windows -> Jobs]
    BY JobFields, JobWithTodo DEF ActivationTypeOK
  <2> QED
    BY <2>1 DEF ActivationTypeOK
<1> USE DEF ActivationTypeOK, Snapshots, Checkpoints, Jobs
<1>1. Exclusive' BY DEF Exclusive
<1>2. Rested' BY DEF Rested
<1>3. Aims' BY DEF Aims, Exclusive, Rested
<1>u. ASSUME Undisturbed PROVE AtMostOne' /\ CheckpointIsTrue' /\ WorkIsRight'
  <2>1. AtMostOne' BY <1>u DEF AtMostOne, CheckpointIsTrue, WorkIsRight, Before, Aims
  <2>2. CheckpointIsTrue' BY <1>u DEF AtMostOne, CheckpointIsTrue, WorkIsRight, Before, Aims
  <2>3. WorkIsRight' BY <1>u DEF AtMostOne, CheckpointIsTrue, WorkIsRight, Before, Aims,
       Exclusive
  <2> QED BY <2>1, <2>2, <2>3
<1> QED BY <1>t, <1>1, <1>2, <1>3, <1>u

LEMMA RecordPausedStep ==
  ASSUME ActivationInv, NEW w \in Windows, RecordPaused(w)
  PROVE  ActivationInv'
<1> USE ActivationAssumption DEF ActivationInv, RecordPaused, GoTo, Record
<1>t. ActivationTypeOK'
  BY JobFields DEF ActivationTypeOK, Aims, Checkpoints
<1> USE DEF ActivationTypeOK, Snapshots, Checkpoints, Jobs
<1>1. Exclusive' BY DEF Exclusive
<1>2. Rested' BY DEF Rested
<1>3. Aims' BY DEF Aims, Exclusive, Rested
<1>u. ASSUME Undisturbed PROVE AtMostOne' /\ CheckpointIsTrue' /\ WorkIsRight'
  <2>1. AtMostOne' BY <1>u DEF AtMostOne, CheckpointIsTrue, WorkIsRight, Before, Aims
  <2>2. CheckpointIsTrue' BY <1>u DEF AtMostOne, CheckpointIsTrue, WorkIsRight, Before, Aims
  <2>3. WorkIsRight' BY <1>u DEF AtMostOne, CheckpointIsTrue, WorkIsRight, Before, Aims,
       Exclusive
  <2> QED BY <2>1, <2>2, <2>3
<1> QED BY <1>t, <1>1, <1>2, <1>3, <1>u

LEMMA RecordPendingStep ==
  ASSUME ActivationInv, NEW w \in Windows, RecordPending(w)
  PROVE  ActivationInv'
<1> USE ActivationAssumption DEF ActivationInv, RecordPending, GoTo, Record
<1>t. ActivationTypeOK'
  BY JobFields DEF ActivationTypeOK, Aims, Checkpoints
<1> USE DEF ActivationTypeOK, Snapshots, Checkpoints, Jobs
<1>1. Exclusive' BY DEF Exclusive
<1>2. Rested' BY DEF Rested
<1>3. Aims' BY DEF Aims, Exclusive, Rested
<1>u. ASSUME Undisturbed PROVE AtMostOne' /\ CheckpointIsTrue' /\ WorkIsRight'
  <2>1. AtMostOne' BY <1>u DEF AtMostOne, CheckpointIsTrue, WorkIsRight, Before, Aims
  <2>2. CheckpointIsTrue' BY <1>u DEF AtMostOne, CheckpointIsTrue, WorkIsRight, Before, Aims
  <2>3. WorkIsRight' BY <1>u DEF AtMostOne, CheckpointIsTrue, WorkIsRight, Before, Aims,
       Exclusive
  <2> QED BY <2>1, <2>2, <2>3
<1> QED BY <1>t, <1>1, <1>2, <1>3, <1>u

LEMMA WriteTargetStep ==
  ASSUME ActivationInv, NEW w \in Windows, WriteTarget(w)
  PROVE  ActivationInv'
<1> USE ActivationAssumption DEF ActivationInv, WriteTarget, GoTo, WriteStatus,
     ActivationTypeOK, Snapshots, Checkpoints, Jobs
<1>t. ActivationTypeOK' OBVIOUS
<1>1. Exclusive' BY DEF Exclusive
<1>2. Rested' BY DEF Rested
<1>3. Aims' BY DEF Aims, Exclusive, Rested
<1>u. ASSUME Undisturbed PROVE AtMostOne' /\ CheckpointIsTrue' /\ WorkIsRight'
  <2>1. AtMostOne' BY <1>u DEF AtMostOne, CheckpointIsTrue, WorkIsRight, Before, Aims
  <2>2. CheckpointIsTrue' BY <1>u DEF AtMostOne, CheckpointIsTrue, WorkIsRight, Before, Aims
  <2>3. WorkIsRight' BY <1>u DEF AtMostOne, CheckpointIsTrue, WorkIsRight, Before, Aims,
       Exclusive
  <2> QED BY <2>1, <2>2, <2>3
<1> QED BY <1>t, <1>1, <1>2, <1>3, <1>u

LEMMA TargetRefusedStep ==
  ASSUME ActivationInv, NEW w \in Windows, TargetRefused(w)
  PROVE  ActivationInv'
<1> USE ActivationAssumption DEF ActivationInv, TargetRefused, GoTo
<1>t. ActivationTypeOK'
  BY JobFields, JobWithTodo DEF ActivationTypeOK, Aims
<1> USE DEF ActivationTypeOK, Snapshots, Checkpoints, Jobs
<1>1. Exclusive' BY DEF Exclusive
<1>2. Rested' BY DEF Rested
<1>3. Aims' BY DEF Aims, Exclusive, Rested
<1>u. ASSUME Undisturbed PROVE AtMostOne' /\ CheckpointIsTrue' /\ WorkIsRight'
  <2>1. AtMostOne' BY <1>u DEF AtMostOne, CheckpointIsTrue, WorkIsRight, Before, Aims
  <2>2. CheckpointIsTrue' BY <1>u DEF AtMostOne, CheckpointIsTrue, WorkIsRight, Before, Aims
  <2>3. WorkIsRight' BY <1>u DEF AtMostOne, CheckpointIsTrue, WorkIsRight, Before, Aims,
       Exclusive
  <2> QED BY <2>1, <2>2, <2>3
<1> QED BY <1>t, <1>1, <1>2, <1>3, <1>u

LEMMA TargetThrowsStep ==
  ASSUME ActivationInv, NEW w \in Windows, TargetThrows(w)
  PROVE  ActivationInv'
<1> USE ActivationAssumption DEF ActivationInv, TargetThrows, GoTo, Fault, WriteStatus,
     ActivationTypeOK, Snapshots, Checkpoints, Jobs
<1>t. ActivationTypeOK' OBVIOUS
<1>1. Exclusive' BY DEF Exclusive
<1>2. Rested' BY DEF Rested
<1>3. Aims' BY DEF Aims, Exclusive, Rested
<1>u. ASSUME Undisturbed PROVE AtMostOne' /\ CheckpointIsTrue' /\ WorkIsRight'
  <2>1. AtMostOne' BY <1>u DEF AtMostOne, CheckpointIsTrue, WorkIsRight, Before, Aims
  <2>2. CheckpointIsTrue' BY <1>u DEF AtMostOne, CheckpointIsTrue, WorkIsRight, Before, Aims
  <2>3. WorkIsRight' BY <1>u DEF AtMostOne, CheckpointIsTrue, WorkIsRight, Before, Aims,
       Exclusive
  <2> QED BY <2>1, <2>2, <2>3
<1> QED BY <1>t, <1>1, <1>2, <1>3, <1>u

LEMMA RecordActivatedStep ==
  ASSUME ActivationInv, NEW w \in Windows, RecordActivated(w)
  PROVE  ActivationInv'
<1> USE ActivationAssumption DEF ActivationInv, RecordActivated, GoTo, Record
<1>t. ActivationTypeOK'
  BY JobFields DEF ActivationTypeOK, Aims, Checkpoints
<1> USE DEF ActivationTypeOK, Snapshots, Checkpoints, Jobs
<1>1. Exclusive' BY DEF Exclusive
<1>2. Rested' BY DEF Rested
<1>3. Aims' BY DEF Aims, Exclusive, Rested
<1>u. ASSUME Undisturbed PROVE AtMostOne' /\ CheckpointIsTrue' /\ WorkIsRight'
  <2>1. AtMostOne' BY <1>u DEF AtMostOne, CheckpointIsTrue, WorkIsRight, Before, Aims
  <2>2. CheckpointIsTrue' BY <1>u DEF AtMostOne, CheckpointIsTrue, WorkIsRight, Before, Aims
  <2>3. WorkIsRight' BY <1>u DEF AtMostOne, CheckpointIsTrue, WorkIsRight, Before, Aims,
       Exclusive
  <2> QED BY <2>1, <2>2, <2>3
<1> QED BY <1>t, <1>1, <1>2, <1>3, <1>u

LEMMA SetFocusStep ==
  ASSUME ActivationInv, NEW w \in Windows, SetFocus(w)
  PROVE  ActivationInv'
<1> USE ActivationAssumption DEF ActivationInv, SetFocus, GoTo
<1>t. ActivationTypeOK'
  BY CheckpointFields DEF ActivationTypeOK, Aims
<1> USE DEF ActivationTypeOK, Snapshots, Checkpoints, Jobs
<1>1. Exclusive' BY DEF Exclusive
<1>2. Rested' BY DEF Rested
<1>3. Aims' BY DEF Aims, Exclusive, Rested
<1>u. ASSUME Undisturbed PROVE AtMostOne' /\ CheckpointIsTrue' /\ WorkIsRight'
  <2>1. AtMostOne' BY <1>u DEF AtMostOne, CheckpointIsTrue, WorkIsRight, Before, Aims
  <2>2. CheckpointIsTrue' BY <1>u DEF AtMostOne, CheckpointIsTrue, WorkIsRight, Before, Aims
  <2>3. WorkIsRight' BY <1>u DEF AtMostOne, CheckpointIsTrue, WorkIsRight, Before, Aims,
       Exclusive
  <2> QED BY <2>1, <2>2, <2>3
<1> QED BY <1>t, <1>1, <1>2, <1>3, <1>u

LEMMA RecordFocusStep ==
  ASSUME ActivationInv, NEW w \in Windows, RecordFocus(w)
  PROVE  ActivationInv'
<1> USE ActivationAssumption DEF ActivationInv, RecordFocus, GoTo
<1>t. ActivationTypeOK'
  BY CheckpointFields DEF ActivationTypeOK, Aims, Checkpoints
<1> USE DEF ActivationTypeOK, Snapshots, Checkpoints, Jobs
<1>1. Exclusive' BY DEF Exclusive
<1>2. Rested' BY DEF Rested
<1>3. Aims' BY DEF Aims, Exclusive, Rested
<1>u. ASSUME Undisturbed PROVE AtMostOne' /\ CheckpointIsTrue' /\ WorkIsRight'
  <2>1. AtMostOne' BY <1>u DEF AtMostOne, CheckpointIsTrue, WorkIsRight, Before, Aims
  <2>2. CheckpointIsTrue' BY <1>u DEF AtMostOne, CheckpointIsTrue, WorkIsRight, Before, Aims
  <2>3. WorkIsRight' BY <1>u DEF AtMostOne, CheckpointIsTrue, WorkIsRight, Before, Aims,
       Exclusive
  <2> QED BY <2>1, <2>2, <2>3
<1> QED BY <1>t, <1>1, <1>2, <1>3, <1>u

LEMMA ClearStep ==
  ASSUME ActivationInv, NEW w \in Windows, Clear(w)
  PROVE  ActivationInv'
<1> USE ActivationAssumption DEF ActivationInv, Clear, GoTo, LeaveLock
<1>t. ActivationTypeOK'
  BY NoJobTyped DEF ActivationTypeOK, Aims
<1> USE DEF ActivationTypeOK, Snapshots, Checkpoints, Jobs
<1>1. Exclusive' BY DEF Exclusive
<1>2. Rested' BY DEF Rested
<1>3. Aims' BY DEF Aims, Exclusive, Rested
<1>u. ASSUME Undisturbed PROVE AtMostOne' /\ CheckpointIsTrue' /\ WorkIsRight'
  <2>1. AtMostOne' BY <1>u DEF AtMostOne, CheckpointIsTrue, WorkIsRight, Before, Aims
  <2>2. CheckpointIsTrue' BY <1>u DEF AtMostOne, CheckpointIsTrue, WorkIsRight, Before, Aims
  <2>3. WorkIsRight' BY <1>u DEF AtMostOne, CheckpointIsTrue, WorkIsRight, Before, Aims,
       Exclusive
  <2> QED BY <2>1, <2>2, <2>3
<1> QED BY <1>t, <1>1, <1>2, <1>3, <1>u

LEMMA PauseOtherStep ==
  ASSUME ActivationInv, NEW w \in Windows, NEW t \in Tasks, PauseOther(w, t)
  PROVE  ActivationInv'
<1> USE ActivationAssumption DEF ActivationInv, PauseOther, GoTo, WriteStatus
<1>t. ActivationTypeOK'
  <2>1. job' \in [Windows -> Jobs]
    <3> DEFINE a == job[w].paused \cup {t}
               d == job[w].todo \ {t}
    <3>1. job' = [job EXCEPT ![w].paused = a, ![w].todo = d]
      BY DEF ActivationTypeOK, Jobs
    <3>2. a \in SUBSET Tasks /\ d \in SUBSET Tasks
      BY JobFields
    <3> HIDE DEF a, d
    <3>3. [job EXCEPT ![w].paused = a, ![w].todo = d] \in [Windows -> Jobs]
      BY <3>2, JobWithPaused DEF ActivationTypeOK
    <3> QED
      BY <3>1, <3>3
  <2> QED
    BY <2>1 DEF ActivationTypeOK, Snapshots
<1> USE DEF ActivationTypeOK, Snapshots, Checkpoints, Jobs
<1>1. Exclusive' BY DEF Exclusive
<1>2. Rested' BY DEF Rested
<1>3. Aims' BY DEF Aims, Exclusive, Rested
<1>u. ASSUME Undisturbed PROVE AtMostOne' /\ CheckpointIsTrue' /\ WorkIsRight'
  <2>1. AtMostOne' BY <1>u DEF AtMostOne, CheckpointIsTrue, WorkIsRight, Before, Aims
  <2>2. CheckpointIsTrue' BY <1>u DEF AtMostOne, CheckpointIsTrue, WorkIsRight, Before, Aims
  <2>3. WorkIsRight' BY <1>u DEF AtMostOne, CheckpointIsTrue, WorkIsRight, Before, Aims,
       Exclusive
  <2> QED BY <2>1, <2>2, <2>3
<1> QED BY <1>t, <1>1, <1>2, <1>3, <1>u

LEMMA RestoreStep ==
  ASSUME ActivationInv, NEW w \in Windows, NEW t \in Tasks, Restore(w, t)
  PROVE  ActivationInv'
<1> USE ActivationAssumption DEF ActivationInv, Restore, GoTo, Fault, WriteStatus
<1>t. ActivationTypeOK'
  <2>1. job' \in [Windows -> Jobs]
    BY JobFields, JobWithTodo DEF ActivationTypeOK
  <2> QED
    BY <2>1, JobFields DEF ActivationTypeOK, Snapshots
<1> USE DEF ActivationTypeOK, Snapshots, Checkpoints, Jobs
<1>1. Exclusive' BY DEF Exclusive
<1>2. Rested' BY DEF Rested
<1>3. Aims' BY DEF Aims, Exclusive, Rested
<1>u. ASSUME Undisturbed PROVE AtMostOne' /\ CheckpointIsTrue' /\ WorkIsRight'
  <2>1. AtMostOne' BY <1>u DEF AtMostOne, CheckpointIsTrue, WorkIsRight, Before, Aims
  <2>2. CheckpointIsTrue' BY <1>u DEF AtMostOne, CheckpointIsTrue, WorkIsRight, Before, Aims
  <2>3. WorkIsRight' BY <1>u DEF AtMostOne, CheckpointIsTrue, WorkIsRight, Before, Aims,
       Exclusive
  <2> QED BY <2>1, <2>2, <2>3
<1> QED BY <1>t, <1>1, <1>2, <1>3, <1>u

LEMMA ThrowsStep ==
  ASSUME ActivationInv, NEW w \in Windows, Throws(w)
  PROVE  ActivationInv'
<1> USE ActivationAssumption DEF ActivationInv, Throws, GoTo, Fault, LeaveLock,
     ActivationTypeOK, Snapshots, Checkpoints, Jobs
<1>t. ActivationTypeOK' OBVIOUS
<1>1. Exclusive' BY DEF Exclusive
<1>2. Rested' BY DEF Rested
<1>3. Aims' BY DEF Aims, Exclusive, Rested
<1>u. ASSUME Undisturbed PROVE AtMostOne' /\ CheckpointIsTrue' /\ WorkIsRight'
  <2>1. AtMostOne' BY <1>u DEF AtMostOne, CheckpointIsTrue, WorkIsRight, Before, Aims
  <2>2. CheckpointIsTrue' BY <1>u DEF AtMostOne, CheckpointIsTrue, WorkIsRight, Before, Aims
  <2>3. WorkIsRight' BY <1>u DEF AtMostOne, CheckpointIsTrue, WorkIsRight, Before, Aims,
       Exclusive
  <2> QED BY <2>1, <2>2, <2>3
<1> QED BY <1>t, <1>1, <1>2, <1>3, <1>u

LEMMA WindowDiesStep ==
  ASSUME ActivationInv, NEW w \in Windows, WindowDies(w)
  PROVE  ActivationInv'
<1> USE ActivationAssumption DEF ActivationInv, WindowDies, GoTo, Fault, ActivationTypeOK,
     Snapshots, Checkpoints, Jobs
<1>t. ActivationTypeOK' OBVIOUS
<1>1. Exclusive' BY DEF Exclusive
<1>2. Rested' BY DEF Rested
<1>3. Aims' BY DEF Aims, Exclusive, Rested
<1>u. ASSUME Undisturbed PROVE AtMostOne' /\ CheckpointIsTrue' /\ WorkIsRight'
  <2>1. AtMostOne' BY <1>u DEF AtMostOne, CheckpointIsTrue, WorkIsRight, Before, Aims
  <2>2. CheckpointIsTrue' BY <1>u DEF AtMostOne, CheckpointIsTrue, WorkIsRight, Before, Aims
  <2>3. WorkIsRight' BY <1>u DEF AtMostOne, CheckpointIsTrue, WorkIsRight, Before, Aims,
       Exclusive
  <2> QED BY <2>1, <2>2, <2>3
<1> QED BY <1>t, <1>1, <1>2, <1>3, <1>u

LEMMA WindowOpensStep ==
  ASSUME ActivationInv, NEW w \in Windows, WindowOpens(w)
  PROVE  ActivationInv'
<1> USE ActivationAssumption DEF ActivationInv, WindowOpens, GoTo, ActivationTypeOK, Snapshots,
     Checkpoints, Jobs
<1>t. ActivationTypeOK' OBVIOUS
<1>1. Exclusive' BY DEF Exclusive
<1>2. Rested' BY DEF Rested
<1>3. Aims' BY DEF Aims, Exclusive, Rested
<1>u. ASSUME Undisturbed PROVE AtMostOne' /\ CheckpointIsTrue' /\ WorkIsRight'
  <2>1. AtMostOne' BY <1>u DEF AtMostOne, CheckpointIsTrue, WorkIsRight, Before, Aims
  <2>2. CheckpointIsTrue' BY <1>u DEF AtMostOne, CheckpointIsTrue, WorkIsRight, Before, Aims
  <2>3. WorkIsRight' BY <1>u DEF AtMostOne, CheckpointIsTrue, WorkIsRight, Before, Aims,
       Exclusive
  <2> QED BY <2>1, <2>2, <2>3
<1> QED BY <1>t, <1>1, <1>2, <1>3, <1>u

LEMMA CreateStep ==
  ASSUME ActivationInv, NEW t \in Tasks, Create(t)
  PROVE  ActivationInv'
<1> USE ActivationAssumption DEF ActivationInv, Create, WriteStatus, ActivationTypeOK,
     Snapshots, Checkpoints, Jobs
<1>t. ActivationTypeOK' OBVIOUS
<1>1. Exclusive' BY DEF Exclusive
<1>2. Rested' BY DEF Rested
<1>3. Aims' BY DEF Aims, Exclusive, Rested
<1>u. ASSUME Undisturbed PROVE AtMostOne' /\ CheckpointIsTrue' /\ WorkIsRight'
  <2>1. AtMostOne' BY <1>u DEF AtMostOne, CheckpointIsTrue, WorkIsRight, Before, Aims
  <2>2. CheckpointIsTrue' BY <1>u DEF AtMostOne, CheckpointIsTrue, WorkIsRight, Before, Aims
  <2>3. WorkIsRight' BY <1>u DEF AtMostOne, CheckpointIsTrue, WorkIsRight, Before, Aims,
       Exclusive
  <2> QED BY <2>1, <2>2, <2>3
<1> QED BY <1>t, <1>1, <1>2, <1>3, <1>u

LEMMA LookForOthersStep ==
  ASSUME ActivationInv, NEW t \in Tasks, LookForOthers(t)
  PROVE  ActivationInv'
<1> USE ActivationAssumption DEF ActivationInv, LookForOthers, ActivationTypeOK, Snapshots,
     Checkpoints, Jobs
<1>t. ActivationTypeOK' OBVIOUS
<1>1. Exclusive' BY DEF Exclusive
<1>2. Rested' BY DEF Rested
<1>3. Aims' BY DEF Aims, Exclusive, Rested
<1>u. ASSUME Undisturbed PROVE AtMostOne' /\ CheckpointIsTrue' /\ WorkIsRight'
  <2>1. AtMostOne' BY <1>u DEF AtMostOne, CheckpointIsTrue, WorkIsRight, Before, Aims
  <2>2. CheckpointIsTrue' BY <1>u DEF AtMostOne, CheckpointIsTrue, WorkIsRight, Before, Aims
  <2>3. WorkIsRight' BY <1>u DEF AtMostOne, CheckpointIsTrue, WorkIsRight, Before, Aims,
       Exclusive
  <2> QED BY <2>1, <2>2, <2>3
<1> QED BY <1>t, <1>1, <1>2, <1>3, <1>u

LEMMA LiftPauseStep ==
  ASSUME ActivationInv, NEW t \in Tasks, LiftPause(t)
  PROVE  ActivationInv'
<1> USE ActivationAssumption DEF ActivationInv, LiftPause, WriteStatus, ActivationTypeOK,
     Snapshots, Checkpoints, Jobs
<1>t. ActivationTypeOK' OBVIOUS
<1>1. Exclusive' BY DEF Exclusive
<1>2. Rested' BY DEF Rested
<1>3. Aims' BY DEF Aims, Exclusive, Rested
<1>u. ASSUME Undisturbed PROVE AtMostOne' /\ CheckpointIsTrue' /\ WorkIsRight'
  <2>1. AtMostOne' BY <1>u DEF AtMostOne, CheckpointIsTrue, WorkIsRight, Before, Aims
  <2>2. CheckpointIsTrue' BY <1>u DEF AtMostOne, CheckpointIsTrue, WorkIsRight, Before, Aims
  <2>3. WorkIsRight' BY <1>u DEF AtMostOne, CheckpointIsTrue, WorkIsRight, Before, Aims,
       Exclusive
  <2> QED BY <2>1, <2>2, <2>3
<1> QED BY <1>t, <1>1, <1>2, <1>3, <1>u

LEMMA PauseOrCompleteStep ==
  ASSUME ActivationInv, NEW t \in Tasks, NEW st \in Statuses, PauseOrComplete(t, st)
  PROVE  ActivationInv'
<1> USE ActivationAssumption DEF ActivationInv, PauseOrComplete, WriteStatus, ActivationTypeOK,
     Snapshots, Checkpoints, Jobs
<1>t. ActivationTypeOK' OBVIOUS
<1>1. Exclusive' BY DEF Exclusive
<1>2. Rested' BY DEF Rested
<1>3. Aims' BY DEF Aims, Exclusive, Rested
<1>u. ASSUME Undisturbed PROVE AtMostOne' /\ CheckpointIsTrue' /\ WorkIsRight'
  <2>1. AtMostOne' BY <1>u DEF AtMostOne, CheckpointIsTrue, WorkIsRight, Before, Aims
  <2>2. CheckpointIsTrue' BY <1>u DEF AtMostOne, CheckpointIsTrue, WorkIsRight, Before, Aims
  <2>3. WorkIsRight' BY <1>u DEF AtMostOne, CheckpointIsTrue, WorkIsRight, Before, Aims,
       Exclusive
  <2> QED BY <2>1, <2>2, <2>3
<1> QED BY <1>t, <1>1, <1>2, <1>3, <1>u

LEMMA LeaseRunsOutStep ==
  ASSUME ActivationInv, LeaseRunsOut
  PROVE  ActivationInv'
<1> USE ActivationAssumption DEF ActivationInv, LeaseRunsOut, ActivationTypeOK, Snapshots,
     Checkpoints, Jobs
<1>t. ActivationTypeOK' OBVIOUS
<1>1. Exclusive' BY DEF Exclusive
<1>2. Rested' BY DEF Rested
<1>3. Aims' BY DEF Aims, Exclusive, Rested
<1>u. ASSUME Undisturbed PROVE AtMostOne' /\ CheckpointIsTrue' /\ WorkIsRight'
  <2>1. AtMostOne' BY <1>u DEF AtMostOne, CheckpointIsTrue, WorkIsRight, Before, Aims
  <2>2. CheckpointIsTrue' BY <1>u DEF AtMostOne, CheckpointIsTrue, WorkIsRight, Before, Aims
  <2>3. WorkIsRight' BY <1>u DEF AtMostOne, CheckpointIsTrue, WorkIsRight, Before, Aims,
       Exclusive
  <2> QED BY <2>1, <2>2, <2>3
<1> QED BY <1>t, <1>1, <1>2, <1>3, <1>u

-----------------------------------------------------------------------------
LEMMA ActivationInitially == ActivationInit => ActivationInv
<1> SUFFICES ASSUME ActivationInit PROVE ActivationInv
  OBVIOUS
<1> USE ActivationAssumption DEF ActivationInit
<1>1. taskStatus \in Snapshots /\ focus \in [Windows -> Tasks \cup {NoTask}]
  BY DEF Snapshots
<1>2. ActivationTypeOK
  BY <1>1, NoJobTyped DEF ActivationTypeOK
<1>3. Exclusive /\ Rested
  BY DEF Exclusive, Rested
<1>4. Aims
  BY DEF Aims
<1>5. AtMostOne /\ CheckpointIsTrue /\ WorkIsRight
  BY DEF AtMostOne, CheckpointIsTrue, WorkIsRight
<1> QED
  BY <1>2, <1>3, <1>4, <1>5 DEF ActivationInv

LEMMA ActivationInvNext ==
  ASSUME ActivationInv, [ActivationNext]_activationVars
  PROVE  ActivationInv'
<1>1. CASE UNCHANGED activationVars
  BY <1>1 DEF activationVars, ActivationInv, ActivationTypeOK, Exclusive, Rested, Aims,
     AtMostOne, CheckpointIsTrue, WorkIsRight, ActiveTasks, Before
<1>2. ASSUME NEW w \in Windows, Proceed(w) PROVE ActivationInv'
  BY <1>2, GuardStep, RecoverStep, ResolveForwardStep, ResolveBackStep, ResolveUnreadableStep,
     RecordIntentStep, PauseFailsStep, RecordPausedStep, RecordPendingStep, WriteTargetStep,
     TargetRefusedStep, TargetThrowsStep, RecordActivatedStep, SetFocusStep, RecordFocusStep,
     ClearStep, PauseOtherStep, RestoreStep
     DEF Proceed
<1>3. CASE ActivationNext
  BY <1>2, <1>3, ActivateStep, StartRecoveryStep, RecoveryGivesUpStep, ThrowsStep,
     WindowDiesStep, WindowOpensStep, CreateStep, LookForOthersStep, LiftPauseStep,
     PauseOrCompleteStep, LeaseRunsOutStep
     DEF ActivationNext
<1> QED
  BY <1>1, <1>3

LEMMA ActivationInvariant == ActivationSpec => []ActivationInv
BY ActivationInitially, ActivationInvNext, PTL DEF ActivationSpec

(* The type invariant, for every set of tasks and windows. *)
THEOREM ActivationTyped == ActivationSpec => []ActivationTypeOK
<1>1. ActivationInv => ActivationTypeOK
  BY DEF ActivationInv
<1> QED
  BY <1>1, ActivationInvariant, PTL

(* At most one task is active, whatever fails in an activation or a recovery,
   as long as no other writer of a status disturbs an interrupted one. *)
THEOREM OneTaskActive ==
  ASSUME Undisturbed
  PROVE  ActivationSpec => []OneActive
<1>1. ActivationInv => OneActive
  <2> SUFFICES ASSUME ActivationInv PROVE OneActive
    OBVIOUS
  <2>1. CASE ActiveTasks = {}
    BY <2>1, FS_EmptySet DEF OneActive
  <2>2. ASSUME NEW t \in ActiveTasks PROVE OneActive
    <3>1. ActiveTasks = {t}
      BY <2>2 DEF ActivationInv, AtMostOne
    <3> QED
      BY <3>1, FS_Singleton DEF OneActive
  <2> QED
    BY <2>1, <2>2
<1> QED
  BY <1>1, ActivationInvariant, PTL

(* An attempted target write is not forgotten: a new intent is recorded only
   where there is no checkpoint, and a checkpoint moves on from the attempt
   only when the target is active, or is cleared. *)
THEOREM AnAttemptIsKept == ActivationSpec => PendingIsKept
<1> DEFINE Pending == checkpoint.phase = "targetWritePending"
           Kept == \/ checkpoint'.phase \in {"targetWritePending", "none"}
                   \/ checkpoint'.phase = "targetActivated"
                        /\ taskStatus[checkpoint.target] = "active"
<1>1. ActivationInv /\ [ActivationNext]_activationVars => [Pending => Kept]_activationVars
  <2> SUFFICES ASSUME ActivationInv, ActivationNext, Pending
               PROVE  Kept
    OBVIOUS
  <2>1. ASSUME NEW w \in Windows, Proceed(w) PROVE Kept
    <3>1. CASE RecordIntent(w)
      BY <3>1 DEF RecordIntent, ActivationInv, Aims
    <3>2. CASE RecordPaused(w)
      BY <3>2 DEF RecordPaused, ActivationInv, Aims
    <3>3. CASE RecordPending(w)
      BY <3>3 DEF RecordPending, Record
    <3>4. CASE RecordActivated(w)
      BY <3>4 DEF RecordActivated, Record, ActivationInv, Aims
    <3>5. CASE RecordFocus(w)
      BY <3>5 DEF RecordFocus, ActivationInv, Aims
    <3>6. CASE Clear(w)
      BY <3>6 DEF Clear
    <3>7. CASE ResolveForward(w)
      BY <3>7, CheckpointFields DEF ResolveForward, ActivationInv, ActivationTypeOK, Checkpoints
    <3> QED
      BY <2>1, <3>1, <3>2, <3>3, <3>4, <3>5, <3>6, <3>7
         DEF Proceed, Guard, Recover, RollBackFrom, ResolveBack, ResolveUnreadable, PauseFails,
              WriteTarget, TargetRefused, TargetThrows, SetFocus, PauseOther, Restore
  <2> QED
    BY <2>1 DEF ActivationNext, Activate, StartRecovery, RecoveryGivesUp, Throws, WindowDies,
         WindowOpens, Create, LookForOthers, LiftPause, PauseOrComplete, LeaseRunsOut
<1> QED
  BY <1>1, ActivationInvariant, PTL DEF ActivationSpec, PendingIsKept
=============================================================================
