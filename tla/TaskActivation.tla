---------------------------- MODULE TaskActivation ----------------------------
(***************************************************************************)
(* Task activation in the extension: a window pauses the other active      *)
(* tasks, makes one task active and moves its focus there, file by file    *)
(* under the meta-root lock, with a checkpoint file that lets another run  *)
(* finish or undo an interrupted one. The other writers of a task's status *)
(* (creation, pause, a schedule that lifts its own quota pause) take the   *)
(* same lock. A window can die between any two writes and any write can    *)
(* throw; MaxFaults bounds how often.                                      *)
(***************************************************************************)
EXTENDS Naturals, FiniteSets

CONSTANTS
  Tasks,        \* task folders under one meta root
  Windows,      \* extension hosts, with a local mutation queue each
  NoTask, NoWindow,
  FirstActive,  \* the task active at first, or NoTask
  Fresh,        \* task folders not created yet
  MaxFaults,    \* deaths, throws and unreadable files in a behaviour
  Undisturbed   \* TRUE: see Create and LiftPause

ASSUME ActivationAssumption ==
  /\ NoTask \notin Tasks /\ NoWindow \notin Windows
  /\ Fresh \subseteq Tasks
  /\ FirstActive \in (Tasks \ Fresh) \cup {NoTask}
  /\ MaxFaults \in Nat
  /\ Undisturbed \in BOOLEAN

VARIABLES
  taskStatus,   \* task-progress.json of each task
  checkpoint,   \* .ensemble-activation-checkpoint.json
  metaLock,     \* session and meta lease: the window named in it
  focus,        \* per window: the current task of its workspace state
  at,           \* per window: the await it stands at
  job,          \* per window: the locals of its activation or recovery
  lifting,      \* tasks whose schedule found no other active task
  faults

activationVars == <<taskStatus, checkpoint, metaLock, focus, at, job, lifting, faults>>

Statuses == {"absent", "active", "paused", "completed"}

(* Rolled back, resolved by reading the target, rolled forward. *)
Unattempted == {"intentRecorded", "othersPaused"}
Landed == {"targetActivated", "focusUpdated"}
Phases == Unattempted \cup {"targetWritePending"} \cup Landed

Snapshots == [Tasks -> Statuses]
Checkpoints ==
  [phase : Phases, target : Tasks, previous : Snapshots, paused : SUBSET Tasks]
NoCheckpoint == [phase |-> "none"]

(* todo: folders still to pause, or to restore; next: where the window goes
   when a found checkpoint is dealt with. *)
Jobs == [target : Tasks \cup {NoTask}, previous : Snapshots,
         paused : SUBSET Tasks, todo : SUBSET Tasks, next : {"record", "end"}]
NoJob == [target |-> NoTask, previous |-> [t \in Tasks |-> "absent"],
          paused |-> {}, todo |-> {}, next |-> "end"]

(* Awaits under the lock; "queued" never resolves. *)
Working == {"guard", "recover", "record", "pauseOthers", "recordPaused", "recordPending",
            "writeTarget", "resolve", "recordActivated", "setFocus", "recordFocus",
            "restore", "clear", "queued"}

ActivationTypeOK ==
  /\ taskStatus \in Snapshots
  /\ checkpoint \in Checkpoints \cup {NoCheckpoint}
  /\ metaLock \in Windows \cup {NoWindow}
  /\ focus \in [Windows -> Tasks \cup {NoTask}]
  /\ at \in [Windows -> Working \cup {"idle", "boot", "down"}]
  /\ job \in [Windows -> Jobs]
  /\ lifting \subseteq Tasks
  /\ faults \in 0 .. MaxFaults

ActiveTasks == {t \in Tasks : taskStatus[t] = "active"}

ActivationInit ==
  /\ taskStatus = [t \in Tasks |-> IF t \in Fresh THEN "absent"
                               ELSE IF t = FirstActive THEN "active" ELSE "paused"]
  /\ checkpoint = NoCheckpoint
  /\ metaLock = NoWindow
  /\ focus = [w \in Windows |-> FirstActive]
  /\ at = [w \in Windows |-> "idle"]
  /\ job = [w \in Windows |-> NoJob]
  /\ lifting = {}
  /\ faults = 0

GoTo(w, place) == at' = [at EXCEPT ![w] = place]

(* The end of withMetaRootLock. *)
LeaveLock(w) ==
  /\ GoTo(w, "idle")
  /\ metaLock' = NoWindow
  /\ job' = [job EXCEPT ![w] = NoJob]

Fault == faults < MaxFaults /\ faults' = faults + 1

WriteStatus(t, st) == taskStatus' = [taskStatus EXCEPT ![t] = st]

(* Checkpoints an activation writes carry its target and snapshot. *)
Record(w, phase) ==
  checkpoint' = [phase |-> phase, target |-> job[w].target,
                 previous |-> job[w].previous, paused |-> job[w].paused]

-----------------------------------------------------------------------------
(* activateTask and recoverActivationCheckpoint, await by await.           *)

(* The lock is refused to a second window; within a window the local queue
   makes calls wait, which is a later Activate here. *)
Activate(w, t) ==
  /\ at[w] = "idle"
  /\ metaLock = NoWindow
  /\ taskStatus[t] # "absent"
  /\ metaLock' = w
  /\ job' = [job EXCEPT ![w] = [NoJob EXCEPT !.target = t, !.next = "record"]]
  /\ GoTo(w, "guard")
  /\ UNCHANGED <<taskStatus, checkpoint, focus, lifting, faults>>

(* At startup, or when the user asks for a repair. *)
StartRecovery(w) ==
  /\ at[w] \in {"boot", "idle"}
  /\ metaLock = NoWindow
  /\ metaLock' = w
  /\ GoTo(w, "recover")
  /\ UNCHANGED <<taskStatus, checkpoint, focus, job, lifting, faults>>

(* retryWhileStateLockHeldV1 outlasts a lease, not a holder that is stuck. *)
RecoveryGivesUp(w) ==
  /\ at[w] = "boot"
  /\ metaLock # NoWindow /\ at[metaLock] = "queued"
  /\ GoTo(w, "idle")
  /\ UNCHANGED <<taskStatus, checkpoint, metaLock, focus, job, lifting, faults>>

(* Rollback from the checkpoint starts with what it says was paused. A guard
   writes the tasks with the lock it holds; startup recovery asks for it
   again, and waits in the queue behind itself. *)
RollBackFrom(w, c, place) ==
  /\ job' = [job EXCEPT ![w].previous = c.previous, ![w].todo = c.paused]
  /\ GoTo(w, IF c.paused = {} THEN "clear" ELSE place)
  /\ UNCHANGED <<taskStatus, checkpoint, metaLock, focus, lifting, faults>>

(* Mutant: the guard lets an activation through that finds an unresolved
   checkpoint. *)
GuardIgnoresPending(w) ==
  /\ at[w] = "guard"
  /\ GoTo(w, "record")
  /\ UNCHANGED <<taskStatus, checkpoint, metaLock, focus, job, lifting, faults>>

Guard(w) ==
  /\ at[w] = "guard"
  /\ \/ /\ checkpoint = NoCheckpoint
        /\ GoTo(w, "record")
        /\ UNCHANGED <<taskStatus, checkpoint, metaLock, focus, job, lifting, faults>>
     \/ /\ checkpoint.phase \in Landed
        /\ focus' = [focus EXCEPT ![w] = checkpoint.target]
        /\ GoTo(w, "clear")
        /\ UNCHANGED <<taskStatus, checkpoint, metaLock, job, lifting, faults>>
     \/ /\ checkpoint.phase = "targetWritePending"
        /\ GoTo(w, "resolve")
        /\ UNCHANGED <<taskStatus, checkpoint, metaLock, focus, job, lifting, faults>>
     \/ /\ checkpoint.phase \in Unattempted
        /\ RollBackFrom(w, checkpoint, "restore")

Recover(w) ==
  /\ at[w] = "recover"
  /\ \/ /\ checkpoint = NoCheckpoint
        /\ LeaveLock(w)
        /\ UNCHANGED <<taskStatus, checkpoint, focus, lifting, faults>>
     \/ /\ checkpoint.phase \in Landed
        /\ focus' = [focus EXCEPT ![w] = checkpoint.target]
        /\ GoTo(w, "clear")
        /\ UNCHANGED <<taskStatus, checkpoint, metaLock, job, lifting, faults>>
     \/ /\ checkpoint.phase = "targetWritePending"
        /\ GoTo(w, "resolve")
        /\ UNCHANGED <<taskStatus, checkpoint, metaLock, focus, job, lifting, faults>>
     \/ /\ checkpoint.phase \in Unattempted
        /\ RollBackFrom(w, checkpoint, "queued")

(* resolveTargetWritePending reads the target's file. *)
ResolveForward(w) ==
  /\ at[w] = "resolve"
  /\ taskStatus[checkpoint.target] = "active"
  /\ checkpoint' = [checkpoint EXCEPT !.phase = "targetActivated"]
  /\ GoTo(w, "setFocus")
  /\ UNCHANGED <<taskStatus, metaLock, focus, job, lifting, faults>>

(* Mutants: the siblings are given back whether or not the target is active;
   the rollback asks for the lock it holds. *)
ResolveBackAnyway(w) ==
  /\ at[w] = "resolve"
  /\ RollBackFrom(w, checkpoint, "restore")

ResolveBackQueued(w) ==
  /\ at[w] = "resolve"
  /\ taskStatus[checkpoint.target] # "active"
  /\ RollBackFrom(w, checkpoint, "queued")

ResolveBack(w) ==
  /\ at[w] = "resolve"
  /\ taskStatus[checkpoint.target] # "active"
  /\ RollBackFrom(w, checkpoint, "restore")

(* An unreadable target decides nothing, and blocks the activation that
   found it; the checkpoint stays for the next one. *)
ResolveUnreadable(w) ==
  /\ at[w] = "resolve"
  /\ Fault
  /\ LeaveLock(w)
  /\ UNCHANGED <<taskStatus, checkpoint, focus, lifting>>

(* The inventory is read again under the lock, then the intent is recorded. *)
RecordIntent(w) ==
  /\ at[w] = "record"
  /\ LET j == [job[w] EXCEPT !.previous = taskStatus, !.paused = {}, !.next = "end",
                             !.todo = ActiveTasks \ {job[w].target}]
     IN  /\ job' = [job EXCEPT ![w] = j]
         /\ checkpoint' = [phase |-> "intentRecorded", target |-> j.target,
                           previous |-> j.previous, paused |-> {}]
  /\ GoTo(w, "pauseOthers")
  /\ UNCHANGED <<taskStatus, metaLock, focus, lifting, faults>>

PauseOther(w, t) ==
  /\ at[w] = "pauseOthers"
  /\ t \in job[w].todo
  /\ WriteStatus(t, "paused")
  /\ job' = [job EXCEPT ![w].paused = @ \cup {t}, ![w].todo = @ \ {t}]
  /\ GoTo(w, "recordPaused")
  /\ UNCHANGED <<checkpoint, metaLock, focus, lifting, faults>>

(* A sibling whose file cannot be read ends the activation. *)
PauseFails(w) ==
  /\ at[w] = "pauseOthers"
  /\ job[w].todo # {}
  /\ Fault
  /\ job' = [job EXCEPT ![w].todo = job[w].paused]
  /\ GoTo(w, IF job[w].paused = {} THEN "clear" ELSE "restore")
  /\ UNCHANGED <<taskStatus, checkpoint, metaLock, focus, lifting>>

RecordPaused(w) ==
  /\ at[w] = "recordPaused"
  /\ Record(w, "othersPaused")
  /\ GoTo(w, "pauseOthers")
  /\ UNCHANGED <<taskStatus, metaLock, focus, job, lifting, faults>>

RecordPending(w) ==
  /\ at[w] = "pauseOthers"
  /\ job[w].todo = {}
  /\ Record(w, "targetWritePending")
  /\ GoTo(w, "writeTarget")
  /\ UNCHANGED <<taskStatus, metaLock, focus, job, lifting, faults>>

WriteTarget(w) ==
  /\ at[w] = "writeTarget"
  /\ WriteStatus(job[w].target, "active")
  /\ GoTo(w, "recordActivated")
  /\ UNCHANGED <<checkpoint, metaLock, focus, job, lifting, faults>>

(* The target was changed since the user chose it, or cannot be read: the
   siblings are given back. *)
TargetRefused(w) ==
  /\ at[w] = "writeTarget"
  /\ job' = [job EXCEPT ![w].todo = job[w].paused]
  /\ GoTo(w, IF job[w].paused = {} THEN "clear" ELSE "restore")
  /\ UNCHANGED <<taskStatus, checkpoint, metaLock, focus, lifting, faults>>

(* The write throws, before or after it landed: resolved by reading. *)
TargetThrows(w) ==
  /\ at[w] = "writeTarget"
  /\ Fault
  /\ \E landed \in BOOLEAN :
       IF landed THEN WriteStatus(job[w].target, "active") ELSE UNCHANGED taskStatus
  /\ GoTo(w, "resolve")
  /\ UNCHANGED <<checkpoint, metaLock, focus, job, lifting>>

RecordActivated(w) ==
  /\ at[w] = "recordActivated"
  /\ Record(w, "targetActivated")
  /\ GoTo(w, "setFocus")
  /\ UNCHANGED <<taskStatus, metaLock, focus, job, lifting, faults>>

SetFocus(w) ==
  /\ at[w] = "setFocus"
  /\ focus' = [focus EXCEPT ![w] = checkpoint.target]
  /\ GoTo(w, "recordFocus")
  /\ UNCHANGED <<taskStatus, checkpoint, metaLock, job, lifting, faults>>

RecordFocus(w) ==
  /\ at[w] = "recordFocus"
  /\ checkpoint' = [checkpoint EXCEPT !.phase = "focusUpdated"]
  /\ GoTo(w, "clear")
  /\ UNCHANGED <<taskStatus, metaLock, focus, job, lifting, faults>>

(* A sibling gets the status of the snapshot; one that cannot be read is
   passed over, since nobody looks at what the patch returned. *)
Restore(w, t) ==
  /\ at[w] = "restore"
  /\ t \in job[w].todo
  /\ \/ WriteStatus(t, job[w].previous[t]) /\ UNCHANGED faults
     \/ Fault /\ UNCHANGED taskStatus
  /\ job' = [job EXCEPT ![w].todo = @ \ {t}]
  /\ GoTo(w, IF job[w].todo = {t} THEN "clear" ELSE "restore")
  /\ UNCHANGED <<checkpoint, metaLock, focus, lifting>>

Clear(w) ==
  /\ at[w] = "clear"
  /\ checkpoint' = NoCheckpoint
  /\ IF job[w].next = "record"
       THEN GoTo(w, "record") /\ UNCHANGED <<metaLock, job>>
       ELSE LeaveLock(w)
  /\ UNCHANGED <<taskStatus, focus, lifting, faults>>

(* A checkpoint write, the focus update or the unlink throws: nothing
   catches it, and the checkpoint stays what it was. *)
Throws(w) ==
  /\ at[w] \in {"record", "recordPaused", "pauseOthers", "recordActivated", "setFocus",
                "recordFocus", "restore", "clear"}
  /\ Fault
  /\ LeaveLock(w)
  /\ UNCHANGED <<taskStatus, checkpoint, focus, lifting>>

-----------------------------------------------------------------------------
(* The other writers of a status: one write each, under the same lock.     *)

(* A new task is active when the disk shows no other active one; an activation
   that waits for recovery does not count. Undisturbed leaves out creations
   while one waits. *)
Create(t) ==
  /\ metaLock = NoWindow
  /\ taskStatus[t] = "absent"
  /\ Undisturbed => checkpoint = NoCheckpoint
  /\ WriteStatus(t, IF ActiveTasks = {} THEN "active" ELSE "paused")
  /\ UNCHANGED <<checkpoint, metaLock, focus, at, job, lifting, faults>>

PauseOrComplete(t, st) ==
  /\ metaLock = NoWindow
  /\ taskStatus[t] = "active"
  /\ st \in {"paused", "completed"}
  /\ WriteStatus(t, st)
  /\ UNCHANGED <<checkpoint, metaLock, focus, at, job, lifting, faults>>

(* A scheduled rerun looks for other active tasks without the lock, and lifts
   its own pause under it. Undisturbed leaves out the lifts whose look is no
   longer true. *)
LookForOthers(t) ==
  /\ taskStatus[t] = "paused"
  /\ ActiveTasks = {}
  /\ lifting' = lifting \cup {t}
  /\ UNCHANGED <<taskStatus, checkpoint, metaLock, focus, at, job, faults>>

LiftPause(t) ==
  /\ t \in lifting
  /\ metaLock = NoWindow
  /\ Undisturbed => ActiveTasks = {} /\ checkpoint = NoCheckpoint
  /\ lifting' = lifting \ {t}
  /\ IF taskStatus[t] = "paused" THEN WriteStatus(t, "active") ELSE UNCHANGED taskStatus
  /\ UNCHANGED <<checkpoint, metaLock, focus, at, job, faults>>

-----------------------------------------------------------------------------
(* The platform. *)
WindowDies(w) ==
  /\ at[w] # "down"
  /\ Fault
  /\ GoTo(w, "down")
  /\ job' = [job EXCEPT ![w] = NoJob]
  /\ UNCHANGED <<taskStatus, checkpoint, metaLock, focus, lifting>>

WindowOpens(w) ==
  /\ at[w] = "down"
  /\ GoTo(w, "boot")
  /\ UNCHANGED <<taskStatus, checkpoint, metaLock, focus, job, lifting, faults>>

(* The lease of a window that no longer renews it; its next process is a
   session of its own. *)
LeaseRunsOut ==
  /\ metaLock # NoWindow
  /\ at[metaLock] \notin Working
  /\ metaLock' = NoWindow
  /\ UNCHANGED <<taskStatus, checkpoint, focus, at, job, lifting, faults>>

(* What the window does by itself once it has the lock. *)
Proceed(w) ==
  \/ Guard(w) \/ Recover(w)
  \/ ResolveForward(w) \/ ResolveBack(w) \/ ResolveUnreadable(w)
  \/ RecordIntent(w) \/ PauseFails(w) \/ RecordPaused(w) \/ RecordPending(w)
  \/ WriteTarget(w) \/ TargetRefused(w) \/ TargetThrows(w)
  \/ RecordActivated(w) \/ SetFocus(w) \/ RecordFocus(w) \/ Clear(w)
  \/ \E t \in Tasks : PauseOther(w, t) \/ Restore(w, t)

ActivationNext ==
  \/ \E w \in Windows :
       \/ \E t \in Tasks : Activate(w, t)
       \/ StartRecovery(w) \/ RecoveryGivesUp(w)
       \/ Proceed(w)
       \/ Throws(w) \/ WindowDies(w) \/ WindowOpens(w)
  \/ \E t \in Tasks :
       \/ Create(t) \/ LookForOthers(t) \/ LiftPause(t)
       \/ \E st \in Statuses : PauseOrComplete(t, st)
  \/ LeaseRunsOut

ActivationSpec == ActivationInit /\ [][ActivationNext]_activationVars

(* A window goes on at each await, starts again when closed, and gets a lock
   that comes free again and again; leases run out. *)
ActivationFairness ==
  /\ \A w \in Windows :
       /\ WF_activationVars(Proceed(w))
       /\ WF_activationVars(WindowOpens(w))
       /\ SF_activationVars(at[w] = "boot" /\ StartRecovery(w))
  /\ WF_activationVars(LeaseRunsOut)

FairActivationSpec == ActivationSpec /\ ActivationFairness

-----------------------------------------------------------------------------
(* At most one task is active, at every moment and whatever fails, as long as
   nobody is disturbed (Create, LiftPause): the siblings of a target are paused
   before it is written and given back only when it is known not to be. *)
OneActive == Cardinality(ActiveTasks) <= 1

(* A checkpoint whose target write was attempted is the only record that its
   outcome is open: it is never overwritten by another activation's, only
   moved forward, or cleared once the target was read (or was refused). *)
PendingIsKept ==
  [][checkpoint.phase = "targetWritePending" =>
       \/ checkpoint'.phase \in {"targetWritePending", "none"}
       \/ checkpoint'.phase = "targetActivated" /\ taskStatus[checkpoint.target] = "active"
     ]_activationVars

(* A startup recovery that finds an attempted activation comes to an end. *)
AttemptedIsRecovered ==
  \A w \in Windows :
    (at[w] = "recover" /\ checkpoint.phase \notin Unattempted) ~> at[w] \in {"idle", "down"}

(* taskActivationCoordinator.ts:69-72: a crash in the middle of an activation
   is reconciled on the next startup; a startup recovery ends. *)
RecoveryEnds == \A w \in Windows : at[w] = "recover" ~> at[w] \in {"idle", "down"}
=============================================================================
