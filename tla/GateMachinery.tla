---------------------------- MODULE GateMachinery ----------------------------
(***************************************************************************)
(* The engine's gate machinery for one task and its owner: the durable     *)
(* gate, execution-attempt and lease stores, the drives (calls of          *)
(* resumeApproved and runUngatedEffect) that several worker processes make *)
(* on them, and the external platform the effects run on. Every await of a *)
(* drive is a step of its own: another drive, a crash, an expiry of the    *)
(* lease or the platform may come in between.                              *)
(*                                                                         *)
(* An attempt is named by its scope, a gate id or a step id. The code's    *)
(* key is a hash of (task, scope, effect kind, lineage); one task is       *)
(* modelled, a scope always runs the same kind of effect, and the machinery*)
(* only begins an attempt where it found none, so the lineage is 0.        *)
(***************************************************************************)
EXTENDS Naturals

CONSTANTS
  Workers,      \* worker identities (lease holders)
  Calls,        \* the drives that can be under way at the same time
  WorkerOf,     \* the process each of them runs in
  Gates,        \* gate ids of the task; re-offers take fresh ones (bound)
  Steps,        \* step ids of effects that need no gate
  Replayable,   \* scopes whose effect declares supportsIdempotentReplay
  Detached,     \* scopes whose external call can outlive the process that made it
  Verdicts,     \* per scope, what reconcile may answer; {} when there is none
  NoWorker,
  NoScope

Scopes == Gates \cup Steps
VerdictKinds == {"executed", "notExecuted", "unknown"}

ASSUME WorkerAssumption == WorkerOf \in [Calls -> Workers] /\ NoWorker \notin Workers
ASSUME ScopeAssumption == Gates \cap Steps = {} /\ NoScope \notin Scopes
ASSUME EffectAssumption == /\ Replayable \subseteq Scopes
                           /\ Detached \subseteq Scopes
                           /\ Verdicts \in [Scopes -> SUBSET VerdictKinds]

VARIABLES
  gate,         \* gate row: "absent", "pending", "approved", "rejected"
  resumed,      \* gate row: resumedAt is set
  reofferOf,    \* gate row: the attempt it re-offers
  attempt,      \* attempt row: "none", "pending", "succeeded", "failed", "indeterminate"
  holder,       \* lease row: its worker, or NoWorker when there is no row
  live,         \* lease row: not yet expired
  pc,           \* per drive: the await it stands at
  scope,        \* per drive: the gate or step it was called for
  seen,         \* per drive: the gate row it read, and still uses, was resumed
  outcome,      \* per drive: the outcome it is about to persist
  result,       \* per drive: the kind of result it will return
  runs,         \* platform: times the effect of a scope ran, 2 for more than once
  adrift        \* platform: abandoned calls that may still arrive

gateVars == <<gate, resumed, reofferOf>>
leaseVars == <<holder, live>>
driveVars == <<pc, scope, seen, outcome, result>>
platformVars == <<runs, adrift>>
vars == <<gateVars, attempt, leaseVars, driveVars, platformVars>>

Decisions == {"approved", "rejected"}
GateStates == {"absent", "pending"} \cup Decisions
Outcomes == {"succeeded", "failed"}
Terminal == Outcomes \cup {"indeterminate"}
AttemptStates == {"none", "pending"} \cup Terminal
Awaits == {"idle", "readGate", "readAttempts", "begin", "execute", "running",
           "complete", "reconcile", "markIndeterminate", "consume",
           "findReoffer", "createReoffer", "release", "done"}
Results == {"none", "leaseUnavailable", "gateNotFound", "gateStillPending",
            "rejectedGate", "alreadyResumed", "alreadyExecuted", "executed",
            "recovered", "indeterminate", "threw"}

TypeOK ==
  /\ gate \in [Gates -> GateStates]
  /\ resumed \in [Gates -> BOOLEAN]
  /\ reofferOf \in [Gates -> Scopes \cup {NoScope}]
  /\ attempt \in [Scopes -> AttemptStates]
  /\ holder \in Workers \cup {NoWorker}
  /\ live \in BOOLEAN
  /\ pc \in [Calls -> Awaits]
  /\ scope \in [Calls -> Scopes \cup {NoScope}]
  /\ seen \in [Calls -> BOOLEAN]
  /\ outcome \in [Calls -> Outcomes]
  /\ result \in [Calls -> Results]
  /\ runs \in [Scopes -> 0..2]
  /\ adrift \in [Scopes -> SUBSET Calls]

Init ==
  /\ gate = [g \in Gates |-> "absent"]
  /\ resumed = [g \in Gates |-> FALSE]
  /\ reofferOf = [g \in Gates |-> NoScope]
  /\ attempt = [s \in Scopes |-> "none"]
  /\ holder = NoWorker
  /\ live = FALSE
  /\ pc = [c \in Calls |-> "idle"]
  /\ scope = [c \in Calls |-> NoScope]
  /\ seen = [c \in Calls |-> FALSE]
  /\ outcome = [c \in Calls |-> "failed"]
  /\ result = [c \in Calls |-> "none"]
  /\ runs = [s \in Scopes |-> 0]
  /\ adrift = [s \in Scopes |-> {}]

-----------------------------------------------------------------------------
(* The drive's own moves. Goto is the next await, Return sets the result
   kind the drive will return once it has passed the remaining awaits. *)

Goto(c, a) == pc' = [pc EXCEPT ![c] = a]
Return(c, r) == result' = [result EXCEPT ![c] = r]

(* Mutant of Settle: the gate is not consumed. *)
SettleOnly(c) == "release"

(* Where a drive goes once the outcome of its attempt is persisted: a gated
   drive consumes the gate (markResumed) first. *)
Settle(c) == IF scope[c] \in Gates THEN "consume" ELSE "release"

(* The drive holds the lease, as far as it knows. *)
Active(c) == pc[c] \notin {"idle", "done"}

(* Mutant of LeaseFree: the row's holder is not looked at. *)
LeaseIgnored(c) == TRUE

(* leaseStore.acquire at the head of resumeApproved / runUngatedEffect. It
   refuses only an unexpired lease of another worker: the holder's own
   process is let in again. *)
LeaseFree(c) == holder \in {NoWorker, WorkerOf[c]} \/ ~live

Acquire(c, s) ==
  /\ pc[c] = "idle"
  /\ scope' = [scope EXCEPT ![c] = s]
  /\ IF LeaseFree(c)
       THEN /\ holder' = WorkerOf[c]
            /\ live' = TRUE
            /\ Goto(c, IF s \in Gates THEN "readGate" ELSE "readAttempts")
            /\ UNCHANGED result
       ELSE /\ Goto(c, "done")
            /\ Return(c, "leaseUnavailable")
            /\ UNCHANGED leaseVars
  /\ UNCHANGED <<gateVars, attempt, seen, outcome, platformVars>>

(* Mutant of ReadGate: only a rejection stops the drive. *)
ReadGateUndecided(c) ==
  /\ pc[c] = "readGate"
  /\ seen' = [seen EXCEPT ![c] = resumed[scope[c]]]
  /\ IF gate[scope[c]] = "rejected"
       THEN Return(c, "rejectedGate") /\ Goto(c, "consume")
       ELSE Goto(c, "readAttempts") /\ UNCHANGED result
  /\ UNCHANGED <<gateVars, attempt, leaseVars, scope, outcome, platformVars>>

ReadGate(c) ==
  /\ pc[c] = "readGate"
  /\ seen' = [seen EXCEPT ![c] = resumed[scope[c]]]
  /\ CASE gate[scope[c]] = "absent" -> Return(c, "gateNotFound") /\ Goto(c, "release")
       [] gate[scope[c]] = "pending" -> Return(c, "gateStillPending") /\ Goto(c, "release")
       [] gate[scope[c]] = "rejected" -> Return(c, "rejectedGate") /\ Goto(c, "consume")
       [] OTHER -> Goto(c, "readAttempts") /\ UNCHANGED result
  /\ UNCHANGED <<gateVars, attempt, leaseVars, scope, outcome, platformVars>>

(* Mutant of RecoverOpen: an open attempt is simply made again. *)
RecoverBlindly(c) == Goto(c, "execute") /\ Return(c, "recovered")

(* Recovery first: what the attempt row says decides what the drive does. *)
RecoverOpen(c) ==
  IF scope[c] \in Replayable THEN Goto(c, "execute") /\ Return(c, "recovered")
  ELSE IF Verdicts[scope[c]] = {}
    THEN Goto(c, "markIndeterminate") /\ UNCHANGED result
    ELSE Goto(c, "reconcile") /\ UNCHANGED result

(* Mutants of FoundTerminal: an attempt that did not succeed is retried; an
   indeterminate one counts as over. *)
FoundTerminalRetry(c) ==
  IF attempt[scope[c]] # "succeeded"
    THEN Return(c, "executed") /\ Goto(c, "execute")
    ELSE Return(c, "alreadyExecuted") /\ Goto(c, Settle(c))

FoundTerminalUnrepaired(c) == Return(c, "alreadyExecuted") /\ Goto(c, Settle(c))

FoundTerminal(c) ==
  IF attempt[scope[c]] = "indeterminate"
    THEN /\ Return(c, "indeterminate")
         /\ Goto(c, IF scope[c] \in Gates THEN "consume" ELSE "findReoffer")
    ELSE Return(c, "alreadyExecuted") /\ Goto(c, Settle(c))

FoundNone(c) ==
  IF seen[c] THEN Return(c, "alreadyResumed") /\ Goto(c, "release")
             ELSE Goto(c, "begin") /\ UNCHANGED result

ReadAttempts(c) ==
  /\ pc[c] = "readAttempts"
  /\ CASE attempt[scope[c]] = "pending" -> RecoverOpen(c)
       [] attempt[scope[c]] \in Terminal -> FoundTerminal(c)
       [] OTHER -> FoundNone(c)
  /\ seen' = [seen EXCEPT ![c] = FALSE]
  /\ UNCHANGED <<gateVars, attempt, leaseVars, scope, outcome, platformVars>>

(* attemptStore.begin returns an existing row untouched, and its caller does
   not look at what it returned. *)
Begin(c) ==
  /\ pc[c] = "begin"
  /\ attempt' = [attempt EXCEPT ![scope[c]] = IF @ = "none" THEN "pending" ELSE @]
  /\ Goto(c, "execute")
  /\ Return(c, "executed")
  /\ UNCHANGED <<gateVars, leaseVars, scope, seen, outcome, platformVars>>

(* effect.execute: refused before anything reached the platform, or run
   there ("running") and then answered. *)
Refuse(c) ==
  /\ pc[c] = "execute"
  /\ Goto(c, "complete")
  /\ outcome' = [outcome EXCEPT ![c] = "failed"]
  /\ UNCHANGED <<gateVars, attempt, leaseVars, scope, seen, result, platformVars>>

OneMore(n) == IF n = 0 THEN 1 ELSE 2

Run(c) ==
  /\ pc[c] = "execute"
  /\ runs' = [runs EXCEPT ![scope[c]] = OneMore(@)]
  /\ Goto(c, "running")
  /\ UNCHANGED <<gateVars, attempt, leaseVars, scope, seen, outcome, result, adrift>>

(* Mutant of Answer: the gate is consumed before the outcome is persisted. *)
AnswerUnpersisted(c, o) ==
  /\ pc[c] = "running"
  /\ Goto(c, Settle(c))
  /\ outcome' = [outcome EXCEPT ![c] = o]
  /\ UNCHANGED <<gateVars, attempt, leaseVars, scope, seen, result, platformVars>>

Answer(c, o) ==
  /\ pc[c] = "running"
  /\ Goto(c, "complete")
  /\ outcome' = [outcome EXCEPT ![c] = o]
  /\ UNCHANGED <<gateVars, attempt, leaseVars, scope, seen, result, platformVars>>

(* attemptStore.complete / markIndeterminate: the first terminal state wins. *)
FirstTerminal(s, t) ==
  attempt' = [attempt EXCEPT ![s] = IF @ = "pending" THEN t ELSE @]

(* Mutant of Complete: the row is given the drive's result for its state. *)
CompleteWithResult(c) ==
  /\ pc[c] = "complete"
  /\ FirstTerminal(scope[c], result[c])
  /\ Goto(c, Settle(c))
  /\ UNCHANGED <<gateVars, leaseVars, scope, seen, outcome, result, platformVars>>

Complete(c) ==
  /\ pc[c] = "complete"
  /\ FirstTerminal(scope[c], outcome[c])
  /\ Goto(c, Settle(c))
  /\ UNCHANGED <<gateVars, leaseVars, scope, seen, outcome, result, platformVars>>

(* Mutant of Answerable: a marker is taken for proof without being seen. *)
AnswerableUnseen(s, v) == v \in Verdicts[s]

(* What the platform can say of a key: that it ran, that it has not run so
   far, or nothing. *)
Answerable(s, v) ==
  /\ v \in Verdicts[s]
  /\ v = "executed" => runs[s] # 0
  /\ v = "notExecuted" => runs[s] = 0

Reconcile(c, v) ==
  /\ pc[c] = "reconcile"
  /\ Answerable(scope[c], v)
  /\ CASE v = "executed" ->
            /\ Goto(c, "complete")
            /\ Return(c, "recovered")
            /\ outcome' = [outcome EXCEPT ![c] = "succeeded"]
       [] v = "notExecuted" ->
            Goto(c, "execute") /\ Return(c, "recovered") /\ UNCHANGED outcome
       [] OTHER -> Goto(c, "markIndeterminate") /\ UNCHANGED <<result, outcome>>
  /\ UNCHANGED <<gateVars, attempt, leaseVars, scope, seen, platformVars>>

MarkIndeterminate(c) ==
  /\ pc[c] = "markIndeterminate"
  /\ FirstTerminal(scope[c], "indeterminate")
  /\ Return(c, "indeterminate")
  /\ Goto(c, IF scope[c] \in Gates THEN "consume" ELSE "findReoffer")
  /\ UNCHANGED <<gateVars, leaseVars, scope, seen, outcome, platformVars>>

(* Mutant of Consume: the drive ends there, without the re-offer. *)
ConsumeOnly(c) ==
  /\ pc[c] = "consume"
  /\ resumed' = [resumed EXCEPT ![scope[c]] = TRUE]
  /\ Goto(c, "release")
  /\ UNCHANGED <<gate, reofferOf, attempt, leaseVars, scope, seen, outcome, result, platformVars>>

(* gateStore.markResumed, set once. *)
Consume(c) ==
  /\ pc[c] = "consume"
  /\ resumed' = [resumed EXCEPT ![scope[c]] = TRUE]
  /\ Goto(c, IF result[c] = "indeterminate" THEN "findReoffer" ELSE "release")
  /\ UNCHANGED <<gate, reofferOf, attempt, leaseVars, scope, seen, outcome, result, platformVars>>

Reoffers(s) == {g \in Gates : reofferOf[g] = s}

(* Mutant of FindReoffer: a re-offer is created without looking for one. *)
FindNoReoffer(c) ==
  /\ pc[c] = "findReoffer"
  /\ Goto(c, "createReoffer")
  /\ UNCHANGED <<gateVars, attempt, leaseVars, scope, seen, outcome, result, platformVars>>

FindReoffer(c) ==
  /\ pc[c] = "findReoffer"
  /\ Goto(c, IF Reoffers(scope[c]) # {} THEN "release" ELSE "createReoffer")
  /\ UNCHANGED <<gateVars, attempt, leaseVars, scope, seen, outcome, result, platformVars>>

CreateReoffer(c, g) ==
  /\ pc[c] = "createReoffer"
  /\ gate[g] = "absent"
  /\ gate' = [gate EXCEPT ![g] = "pending"]
  /\ reofferOf' = [reofferOf EXCEPT ![g] = scope[c]]
  /\ Goto(c, "release")
  /\ UNCHANGED <<resumed, attempt, leaseVars, scope, seen, outcome, result, platformVars>>

(* leaseStore.release deletes the row only if this worker still holds it. *)
Release(c) ==
  /\ pc[c] = "release"
  /\ IF holder = WorkerOf[c]
       THEN holder' = NoWorker /\ live' = FALSE
       ELSE UNCHANGED leaseVars
  /\ Goto(c, "done")
  /\ UNCHANGED <<gateVars, attempt, scope, seen, outcome, result, platformVars>>

(* The caller has the result. *)
Finish(c) ==
  /\ pc[c] = "done"
  /\ Goto(c, "idle")
  /\ scope' = [scope EXCEPT ![c] = NoScope]
  /\ seen' = [seen EXCEPT ![c] = FALSE]
  /\ outcome' = [outcome EXCEPT ![c] = "failed"]
  /\ Return(c, "none")
  /\ UNCHANGED <<gateVars, attempt, leaseVars, platformVars>>

(* The calls of a set of drives that have been made and not arrived. *)
Abandon(C) ==
  adrift' = [s \in Scopes |->
    IF s \in Detached
      THEN adrift[s] \cup {c \in C : pc[c] = "execute" /\ scope[c] = s}
      ELSE adrift[s]]

(* A store or the platform throws: nothing is caught, `finally` releases the
   lease. A release that throws leaves the lease row behind. *)
Throw(c) ==
  /\ Active(c)
  /\ Goto(c, IF pc[c] = "release" THEN "done" ELSE "release")
  /\ Return(c, "threw")
  /\ seen' = [seen EXCEPT ![c] = FALSE]
  /\ outcome' = [outcome EXCEPT ![c] = "failed"]
  /\ Abandon({c})
  /\ UNCHANGED <<gateVars, attempt, leaseVars, scope, runs>>

AwaitStep(c) ==
  \/ ReadGate(c) \/ ReadAttempts(c) \/ Begin(c)
  \/ Refuse(c) \/ Run(c) \/ (\E o \in Outcomes : Answer(c, o)) \/ Complete(c)
  \/ (\E v \in VerdictKinds : Reconcile(c, v)) \/ MarkIndeterminate(c)
  \/ Consume(c) \/ FindReoffer(c) \/ (\E g \in Gates : CreateReoffer(c, g))
  \/ Release(c)

DriveStep(c) == AwaitStep(c) \/ Finish(c)

-----------------------------------------------------------------------------
(* The other actors: the engine opening a gate, the owner deciding it, a
   worker process dying, the platform, the clock. *)

OpenGate(g) ==
  /\ gate[g] = "absent"
  /\ gate' = [gate EXCEPT ![g] = "pending"]
  /\ UNCHANGED <<resumed, reofferOf, attempt, leaseVars, driveVars, platformVars>>

(* gateStore.decide: every command but the first is answered from the stored
   decision, or refused, and changes nothing. *)
Decide(g, d) ==
  /\ gate[g] = "pending"
  /\ gate' = [gate EXCEPT ![g] = d]
  /\ UNCHANGED <<resumed, reofferOf, attempt, leaseVars, driveVars, platformVars>>

(* A process dies with every drive in it; its lease row stays. It, or a
   successor with the same identity, may start over at once. *)
Crash(w) ==
  LET dead == {c \in Calls : WorkerOf[c] = w} IN
  /\ \E c \in dead : pc[c] # "idle"
  /\ pc' = [c \in Calls |-> IF c \in dead THEN "idle" ELSE pc[c]]
  /\ scope' = [c \in Calls |-> IF c \in dead THEN NoScope ELSE scope[c]]
  /\ seen' = [c \in Calls |-> IF c \in dead THEN FALSE ELSE seen[c]]
  /\ outcome' = [c \in Calls |-> IF c \in dead THEN "failed" ELSE outcome[c]]
  /\ result' = [c \in Calls |-> IF c \in dead THEN "none" ELSE result[c]]
  /\ Abandon(dead)
  /\ UNCHANGED <<gateVars, attempt, leaseVars, runs>>

(* A call nobody waits for any more reaches the platform after all. *)
LateRun(s, c) ==
  /\ c \in adrift[s]
  /\ adrift' = [adrift EXCEPT ![s] = @ \ {c}]
  /\ runs' = [runs EXCEPT ![s] = OneMore(@)]
  /\ UNCHANGED <<gateVars, attempt, leaseVars, driveVars>>

(* The lease's time-to-live runs out. The machinery never renews it. *)
Expire ==
  /\ live
  /\ live' = FALSE
  /\ UNCHANGED <<gateVars, attempt, holder, driveVars, platformVars>>

(* The same when every drive is over within the time-to-live: only the lease
   of a worker with no drive under way runs out. *)
TimelyExpire ==
  /\ \A c \in Calls : Active(c) => WorkerOf[c] # holder
  /\ Expire

Common ==
  \/ \E c \in Calls : (\E s \in Scopes : Acquire(c, s)) \/ DriveStep(c) \/ Throw(c)
  \/ \E g \in Gates : OpenGate(g) \/ (\E d \in Decisions : Decide(g, d))
  \/ \E w \in Workers : Crash(w)
  \/ \E s \in Scopes, c \in Calls : LateRun(s, c)

Next == Common \/ Expire
TimelyNext == Common \/ TimelyExpire

Spec == Init /\ [][Next]_vars
TimelySpec == Init /\ [][TimelyNext]_vars

(* Every await resolves, an unreleased lease runs out, and the engine drives
   each scope again and again: a drive that finds the lease free often enough
   gets it. Decisions, crashes, errors and late calls are nobody's duty. *)
Fairness ==
  /\ WF_vars(TimelyExpire)
  /\ \A c \in Calls : /\ WF_vars(DriveStep(c))
                       /\ \A s \in Scopes : SF_vars(LeaseFree(c) /\ Acquire(c, s))

FairSpec == Spec /\ Fairness
FairTimelySpec == TimelySpec /\ Fairness

-----------------------------------------------------------------------------
(* Properties of every behaviour of Spec: two processes, one process calling
   twice, leases that expire under a running drive, crashes, errors. *)

(* No effect of a gate reaches the platform, or is on its way there, unless
   the owner approved that gate: the machinery reads the gate row and acts
   several awaits later. *)
OnlyApproved ==
  \A g \in Gates : (runs[g] # 0 \/ adrift[g] # {}) => gate[g] = "approved"

(* The attempt row is persisted before the external call (boundary 1-2), so
   an effect that ran leaves a row behind whatever crashes. *)
RecordedFirst ==
  \A s \in Scopes : (runs[s] # 0 \/ adrift[s] # {}) => attempt[s] # "none"

(* A gate is marked resumed only when there is nothing left to do for it: it
   was rejected, or its attempt has a terminal state. A drive that finds a
   gate resumed never has to execute anything. *)
ConsumedWhenSettled ==
  \A g \in Gates : resumed[g] => gate[g] = "rejected" \/ attempt[g] \in Terminal

(* No attempt is recorded as succeeded, by its own drive or by the recovery
   of another worker, when the platform never ran its effect. *)
SuccessIsReal ==
  \A s \in Scopes : attempt[s] = "succeeded" => runs[s] # 0

Reoffered(c) ==
  pc[c] \in {"release", "done"} /\ result[c] = "indeterminate"
    => Reoffers(scope[c]) # {}

(* A drive that answers "indeterminate" leaves a gate for the owner to
   approve the effect again. *)
IndeterminateIsReoffered == \A c \in Calls : Reoffered(c)

(* No row is taken back, by a drive that acts on an old reading, by two
   processes at once or by recovery: the first decision and the first terminal
   state of an attempt win, and what a re-offer is for never changes. *)
RowsMoveForward ==
  /\ \A g \in Gates :
       /\ gate[g] \in Decisions => gate'[g] = gate[g]
       /\ gate[g] # "absent" => gate'[g] # "absent" /\ reofferOf'[g] = reofferOf[g]
       /\ resumed[g] => resumed'[g]
  /\ \A s \in Scopes :
       /\ attempt[s] \in Terminal => attempt'[s] = attempt[s]
       /\ attempt[s] # "none" => attempt'[s] # "none"
       /\ runs[s] # 0 => runs'[s] # 0

FirstWins == [][RowsMoveForward]_vars

(* From some point on no process dies and nothing throws. (The death of a
   process whose drive is over looks like the end of that drive: such a step
   is no fault.) *)
Fault ==
  /\ (\E w \in Workers : Crash(w)) \/ (\E c \in Calls : Throw(c))
  /\ ~ \E c \in Calls : DriveStep(c)

FaultsCease == <>[][~Fault]_vars

(* A drive cannot go on for want of a gate id: the model's pool is used up. *)
IdsUsedUp ==
  /\ \E c \in Calls : pc[c] = "createReoffer"
  /\ \A g \in Gates : gate[g] # "absent"

(* An approval is acted on: whatever crashed before, the gate is consumed in
   the end and no drive is needed for it any more. *)
ApprovalIsConsumed ==
  FaultsCease => \A g \in Gates : gate[g] = "approved" ~> (resumed[g] \/ IdsUsedUp)

(* A crash between marking an attempt indeterminate and creating its re-offer
   gate is repaired: the prompt is not lost. *)
ReofferIsRepaired ==
  FaultsCease => \A s \in Scopes :
    attempt[s] = "indeterminate" ~> (Reoffers(s) # {} \/ IdsUsedUp)

-----------------------------------------------------------------------------
(* The inductive invariant behind the safety properties of Spec: what a drive
   knows at each await, and the properties themselves. *)

ScopedDrive(c) ==
  /\ pc[c] # "idle" => scope[c] \in Scopes
  /\ pc[c] \in {"readGate", "consume"} => scope[c] \in Gates

Scoped == \A c \in Calls : ScopedDrive(c)

EffectAwaits ==
  {"execute", "running", "complete", "reconcile", "markIndeterminate"}

GateWasRead(c) ==
  pc[c] \in EffectAwaits \cup {"readAttempts", "begin"} /\ scope[c] \in Gates
    => gate[scope[c]] = "approved"

AttemptWasRecorded(c) ==
  pc[c] \in EffectAwaits => attempt[scope[c]] # "none"

EffectWasSeen(c) ==
  pc[c] = "running" \/ (pc[c] = "complete" /\ outcome[c] = "succeeded")
    => runs[scope[c]] # 0

ReadyToConsume(c) ==
  pc[c] = "consume" => gate[scope[c]] = "rejected" \/ attempt[scope[c]] \in Terminal

ReofferIsDue(c) ==
  result[c] = "indeterminate"
    => pc[c] \in {"consume", "findReoffer", "createReoffer", "release", "done"}

Knows(c) ==
  /\ GateWasRead(c)
  /\ AttemptWasRecorded(c)
  /\ EffectWasSeen(c)
  /\ ReadyToConsume(c)
  /\ ReofferIsDue(c)
  /\ Reoffered(c)

ReofferedGatesExist == \A g \in Gates : gate[g] = "absent" => reofferOf[g] = NoScope

SafetyInv ==
  /\ TypeOK
  /\ Scoped
  /\ \A c \in Calls : Knows(c)
  /\ ReofferedGatesExist
  /\ OnlyApproved
  /\ RecordedFirst
  /\ ConsumedWhenSettled
  /\ SuccessIsReal

-----------------------------------------------------------------------------
(* Properties of TimelySpec when no process makes two drives at once and an
   answer "notExecuted" excludes a call that still arrives. *)

OneDrivePerWorker ==
  \A c, d \in Calls : WorkerOf[c] = WorkerOf[d] => c = d

AbsenceIsFinal ==
  \A s \in Scopes \ Replayable : "notExecuted" \in Verdicts[s] => s \notin Detached

(* The job lease: two drives are never under way at the same time, whoever
   crashes and whatever is left behind in the lease row. *)
OneDriveAtATime ==
  \A c, d \in Calls : Active(c) /\ Active(d) => c = d

(* An external call is only made, and only under way, for an attempt that is
   still open: never for one a recovery has already settled or re-offered. *)
ExecutesOpenAttempt ==
  \A c \in Calls : pc[c] \in {"execute", "running"} => attempt[scope[c]] = "pending"

(* One effect per approval: an effect that is not safe to repeat runs at
   most once under its attempt key. *)
OneEffect ==
  \A s \in Scopes \ Replayable : runs[s] < 2

(* An indeterminate attempt is put to the owner once. *)
OneReoffer ==
  \A s \in Scopes : \A g, h \in Reoffers(s) : g = h

(* The inductive invariant behind them, next to SafetyInv: the lease is held,
   so what a drive read stays true until it acts on it; and an effect that is
   not safe to repeat is only called when it has not run and no earlier call
   of it can still arrive. *)

LeaseIsHeld == \A c \in Calls : Active(c) => holder = WorkerOf[c] /\ live

Unspent(s) == s \in Replayable \/ (runs[s] = 0 /\ adrift[s] = {})

ActsOnTheOpen(c) ==
  /\ pc[c] = "begin" => attempt[scope[c]] = "none"
  /\ pc[c] \in EffectAwaits => attempt[scope[c]] = "pending"
  /\ pc[c] = "execute" => Unspent(scope[c])
  /\ pc[c] = "complete" => scope[c] \in Replayable \/ adrift[scope[c]] = {}
  /\ pc[c] = "createReoffer" => Reoffers(scope[c]) = {}

OneCallAtMost ==
  \A s \in Scopes \ Replayable :
    /\ runs[s] < 2
    /\ runs[s] # 0 \/ attempt[s] \in Outcomes => adrift[s] = {}
    /\ \A c, d \in adrift[s] : c = d

OnlyDetachedDrift == \A s \in Scopes : adrift[s] # {} => s \in Detached

TimelyInv ==
  /\ LeaseIsHeld
  /\ \A c \in Calls : ActsOnTheOpen(c)
  /\ OneCallAtMost
  /\ OnlyDetachedDrift
  /\ OneReoffer

(* The whole protocol implements the engine's promise about effects. *)
Contract == INSTANCE EffectContract WITH
  decision <- gate,
  report <- [s \in Scopes |-> IF attempt[s] \in Terminal THEN attempt[s] ELSE "open"]

KeepsContract == Contract!Spec
=============================================================================
