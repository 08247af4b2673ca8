------------------------------- MODULE RunHost -------------------------------
(***************************************************************************)
(* The control plane's run host for one task: the drive of its rounds, the *)
(* pause on structured questions, and the requests that submit answers and *)
(* resume the run, over the durable transaction store and the job row. The *)
(* engine task's runRound, submitAnswers and resume and the conversation   *)
(* orchestrator are inlined. Each await is a step; the awaits of the store *)
(* resolve within the turn of the event loop that started them, the        *)
(* provider's take as long as the provider does.                           *)
(*                                                                         *)
(* A thread is one asynchronous call chain in the process: start's, or that*)
(* of one submission and the continuation it spawns. Operation ids are     *)
(* always fresh; here an operation without a record stands for one.        *)
(***************************************************************************)
EXTENDS ChatTransactions

CONSTANTS
  Requests,     \* answer submissions that can be under way at the same time
  Starter,      \* the call chain of start
  MaxRounds,    \* maxRoundsPerStage
  MaxRetries,   \* MAX_CONSECUTIVE_ROUND_RETRIES_V1
  LastStage,    \* number of stages
  HasChecklist, \* the plan of record has checklist items
  StoreThrows   \* a store call may throw

Threads == Requests \cup {Starter}

ASSUME BudgetAssumption ==
  MaxRounds \in Nat /\ MaxRetries \in Nat /\ LastStage \in Nat \ {0}
ASSUME ThreadAssumption == Starter \notin Requests

VARIABLES
  status,       \* job row
  paused,       \* job row: operation of the interaction it is paused on
  stage,        \* task row: current stage
  hosted,       \* memory: the run has a state in `runs`
  pending,      \* memory: operation of pendingRef
  answered,     \* memory: interactions with a continuation
  rounds,       \* memory: roundsThisStage
  retries,      \* memory: consecutiveRetries
  thread,       \* memory: the call chains
  given,        \* provider: the answers it was invoked with, per resumed operation
  replied       \* provider: what that invocation returned

jobVars == <<status, paused>>
runVars == <<hosted, pending, answered, rounds, retries>>
providerVars == <<given, replied>>
hostVars == <<storeVars, jobVars, stage, runVars, thread, providerVars>>

(* The awaits of a submission that only the store is behind. *)
Quick == {"submit", "accepted", "resolve", "schedule", "settle", "claim"}
Resuming == {"resolve", "schedule", "settle", "claim"}
Driving == {"drive", "provider", "post", "discard"}
Awaits == {"idle", "resumed", "followUp", "record"} \cup Quick \cup Driving
JobStatuses == {"none", "running", "questionsPaused", "completed", "failed"}

(* What a round comes to: questions; a checklist plan with nothing, or with
   something left; a completed round of a plan without one; a failure that
   the host never retries, and one it may. *)
Completions == IF HasChecklist THEN {"planDone", "more"} ELSE {"stageDone"}
Failures == {"fatal", "retryable"}
Kinds == {"none", "questions", "planDone", "more", "stageDone"} \cup Failures

Idle == [pc |-> "idle", op |-> None, answers |-> None, id |-> None,
         next |-> None, kind |-> "none"]

ThreadStates ==
  [pc: Awaits, op: Operations \cup {None}, answers: Answers \cup {None},
   id: Ids \cup {None}, next: Operations \cup {None}, kind: Kinds]

HostTypeOK ==
  /\ StoreTypeOK
  /\ status \in JobStatuses
  /\ paused \in Operations \cup {None}
  /\ stage \in 1..LastStage
  /\ hosted \in BOOLEAN
  /\ pending \in Operations \cup {None}
  /\ answered \subseteq Operations
  /\ rounds \in 0..MaxRounds
  /\ retries \in 0..MaxRetries
  /\ thread \in [Threads -> ThreadStates]
  /\ given \in [Operations -> Answers \cup {None}]
  /\ replied \in [Operations -> Outcomes \cup {"none"}]

HostInit ==
  /\ StoreInit
  /\ status = "none"
  /\ paused = None
  /\ stage = 1
  /\ hosted = FALSE
  /\ pending = None
  /\ answered = {}
  /\ rounds = 0
  /\ retries = 0
  /\ thread = [t \in Threads |-> Idle]
  /\ given = [o \in Operations |-> None]
  /\ replied = [o \in Operations |-> "none"]

Become(t, s) == thread' = [thread EXCEPT ![t] = s]
Goto(t, a) == Become(t, [thread[t] EXCEPT !.pc = a])
Active(t) == thread[t].pc # "idle"

(* checkpoint: the row is overwritten. *)
Checkpoint(st, o) == status' = st /\ paused' = o

-----------------------------------------------------------------------------
(* absorbRound: how the host folds a round into the run. *)

(* The run ends on a typed failure: also when another continuation of it is
   still under way. *)
Fail(t) ==
  /\ pending' = None
  /\ Checkpoint("failed", None)
  /\ Become(t, Idle)
  /\ UNCHANGED <<stage, hosted, answered, rounds, retries>>

PauseOn(t, o) ==
  /\ pending' = o
  /\ Checkpoint("questionsPaused", o)
  /\ Become(t, Idle)
  /\ UNCHANGED <<stage, hosted, answered, rounds, retries>>

Complete(t) ==
  /\ stage' = LastStage
  /\ Checkpoint("completed", None)
  /\ Become(t, Idle)
  /\ UNCHANGED <<hosted, pending, answered>>

DriveOn(t) ==
  /\ Become(t, [Idle EXCEPT !.pc = "drive"])
  /\ UNCHANGED <<jobVars, hosted, pending, answered>>

(* Mutant of MayRetry: one retry too many. *)
MayRetryAgain == retries <= MaxRetries /\ rounds < MaxRounds

MayRetry == retries < MaxRetries /\ rounds < MaxRounds

Retry(t) == retries' = retries + 1 /\ DriveOn(t) /\ UNCHANGED <<stage, rounds>>

Absorb(t, kind) ==
  CASE kind = "questions" -> PauseOn(t, thread[t].next)
    [] kind = "retryable" /\ MayRetry -> Retry(t)
    [] kind = "planDone" \/ (kind = "stageDone" /\ stage = LastStage) ->
         Complete(t) /\ retries' = 0 /\ rounds' = IF kind = "planDone" THEN rounds ELSE 0
    [] kind = "stageDone" /\ stage < LastStage ->
         DriveOn(t) /\ retries' = 0 /\ rounds' = 0 /\ stage' = stage + 1
    [] kind = "more" -> DriveOn(t) /\ retries' = 0 /\ UNCHANGED <<stage, rounds>>
    [] OTHER -> Fail(t)

-----------------------------------------------------------------------------
(* start and the drive of rounds: admit, invoke, post or discard, absorb. *)

Start ==
  /\ status = "none"
  /\ ~hosted
  /\ hosted' = TRUE
  /\ Checkpoint("running", None)
  /\ Become(Starter, [Idle EXCEPT !.pc = "drive"])
  /\ UNCHANGED <<storeVars, stage, pending, answered, rounds, retries, providerVars>>

(* Mutant of SpendRound: the budget is checked but not spent. *)
SpendNothing == rounds' = rounds

SpendRound == rounds' = rounds + 1

RunRound(t) ==
  /\ thread[t].pc = "drive"
  /\ rounds < MaxRounds
  /\ SpendRound
  /\ \E o \in Operations :
       /\ BeginInvocation(o)
       /\ Become(t, [Idle EXCEPT !.pc = "provider", !.op = o])
  /\ UNCHANGED <<jobVars, stage, hosted, pending, answered, retries, providerVars>>

ExhaustBudget(t) ==
  /\ thread[t].pc = "drive"
  /\ rounds = MaxRounds
  /\ Fail(t)
  /\ UNCHANGED <<storeVars, providerVars>>

(* The round's invocation returns or throws (a retryable failure). *)
ProviderReturns(t, kind) ==
  /\ thread[t].pc = "provider"
  /\ kind \in {"questions"} \cup Completions \cup Failures
  /\ Become(t, [thread[t] EXCEPT !.pc = IF kind = "questions" THEN "post" ELSE "discard",
                                 !.kind = kind, !.next = thread[t].op])
  /\ UNCHANGED <<storeVars, jobVars, stage, runVars, providerVars>>

PostQuestions(t) ==
  /\ thread[t].pc = "post"
  /\ Begin(thread[t].op)
  /\ Absorb(t, "questions")
  /\ UNCHANGED providerVars

(* The admission is discarded; that may fail, and leaves a record behind. *)
Discard(t) ==
  /\ thread[t].pc = "discard"
  /\ \/ DiscardPendingInvocation(thread[t].op)
     \/ StoreThrows /\ UNCHANGED storeVars
  /\ Absorb(t, thread[t].kind)
  /\ UNCHANGED providerVars

-----------------------------------------------------------------------------
(* submitAnswers and the continuation it spawns. *)

(* A submission up to its first await: a run that is not in memory is rebuilt
   from a job paused on questions; a submission for an interaction that has a
   continuation only observes it, one for another interaction than the
   pending one is refused. *)
Rehydrated == IF hosted THEN pending ELSE paused

Submit(t, o, a, id) ==
  /\ t \in Requests
  /\ ~Active(t)
  /\ hosted \/ status = "questionsPaused"
  /\ o \notin answered
  /\ o = Rehydrated
  /\ hosted' = TRUE
  /\ pending' = Rehydrated
  /\ IF hosted THEN UNCHANGED <<rounds, retries>> ELSE rounds' = 0 /\ retries' = 0
  /\ Become(t, [Idle EXCEPT !.pc = "submit", !.op = o, !.answers = a, !.id = id])
  /\ UNCHANGED <<storeVars, jobVars, stage, answered, providerVars>>

(* A submission that gets no further than that has still rebuilt the run. *)
Rehydrate ==
  /\ ~hosted
  /\ status = "questionsPaused"
  /\ hosted' = TRUE
  /\ pending' = paused
  /\ rounds' = 0
  /\ retries' = 0
  /\ UNCHANGED <<storeVars, jobVars, stage, answered, thread, providerVars>>

SubmitToStore(t) ==
  LET th == thread[t] IN
  /\ th.pc = "submit"
  /\ \/ /\ SubmitAnswers(th.op, th.answers, th.id)
        /\ Goto(t, "accepted")
     \/ /\ Answered(th.op, th.answers)
        /\ Goto(t, "accepted")
        /\ UNCHANGED storeVars
     \/ /\ ~Submittable(th.op)
        /\ ~Answered(th.op, th.answers)
        /\ Become(t, Idle)
        /\ UNCHANGED storeVars
  /\ UNCHANGED <<jobVars, stage, runVars, providerVars>>

(* Mutants of Accept: the host forgets that the interaction is answered; it
   does not checkpoint. *)
AcceptUnmarked(t) ==
  LET th == thread[t] IN
  /\ th.pc = "accepted"
  /\ Checkpoint("running", None)
  /\ Become(t, [th EXCEPT !.pc = "resolve", !.answers = rec[th.op].answers])
  /\ UNCHANGED <<storeVars, stage, runVars, providerVars>>

AcceptSilently(t) ==
  LET th == thread[t] IN
  /\ th.pc = "accepted"
  /\ pending' = None
  /\ answered' = answered \cup {th.op}
  /\ Become(t, [th EXCEPT !.pc = "resolve", !.answers = rec[th.op].answers])
  /\ UNCHANGED <<storeVars, jobVars, stage, hosted, rounds, retries, providerVars>>

(* The host takes the submission on, and resume reads the record. *)
Accept(t) ==
  LET th == thread[t] IN
  /\ th.pc = "accepted"
  /\ pending' = None
  /\ Checkpoint("running", None)
  /\ answered' = answered \cup {th.op}
  /\ Become(t, [th EXCEPT !.pc = "resolve", !.answers = rec[th.op].answers])
  /\ UNCHANGED <<storeVars, stage, hosted, rounds, retries, providerVars>>

(* resolveResume reads the record again. A settled one replays its resolution
   for the identical id and refuses every other; a scheduled one lends its
   id. *)
ResolveResume(t) ==
  LET th == thread[t]  r == rec[th.op] IN
  /\ th.pc = "resolve"
  /\ \/ /\ r.state = "resumed" /\ r.resumeId = th.id
        /\ Goto(t, "claim")
        /\ UNCHANGED <<jobVars, stage, runVars>>
     \/ /\ r.state \in Settled /\ ~(r.state = "resumed" /\ r.resumeId = th.id)
        /\ Fail(t)
     \/ /\ r.state \notin Settled
        /\ Become(t, [th EXCEPT !.pc = "schedule",
                                !.id = IF r.state = "resumeScheduled" THEN r.resumeId ELSE th.id])
        /\ UNCHANGED <<jobVars, stage, runVars>>
  /\ UNCHANGED <<storeVars, providerVars>>

Schedule(t) ==
  LET th == thread[t] IN
  /\ th.pc = "schedule"
  /\ \/ /\ ScheduleResume(th.op, th.id)
        /\ Goto(t, "settle")
        /\ UNCHANGED <<jobVars, stage, runVars>>
     \/ /\ Scheduled(th.op, th.id)
        /\ Goto(t, "settle")
        /\ UNCHANGED <<storeVars, jobVars, stage, runVars>>
     \/ /\ ~Schedulable(th.op) /\ ~Scheduled(th.op, th.id)
        /\ Fail(t)
        /\ UNCHANGED storeVars
  /\ UNCHANGED providerVars

Settle(t) ==
  LET th == thread[t] IN
  /\ th.pc = "settle"
  /\ \/ /\ SettleResumed(th.op)
        /\ Goto(t, "claim")
        /\ UNCHANGED <<jobVars, stage, runVars>>
     \/ /\ rec[th.op].state # "resumeScheduled"
        /\ Fail(t)
        /\ UNCHANGED storeVars
  /\ UNCHANGED providerVars

(* The claim decides who invokes the provider. *)
ClaimAndInvoke(t) ==
  LET th == thread[t] IN
  /\ th.pc = "claim"
  /\ ClaimResumeInvocation(th.op)
  /\ Goto(t, "resumed")
  /\ given' = [given EXCEPT ![th.op] = th.answers]
  /\ UNCHANGED <<jobVars, stage, runVars, replied>>

(* Somebody else did: with a recorded outcome the continuation just ends,
   without one the interaction is made the resume point again. *)
FindClaimed(t) ==
  LET o == thread[t].op IN
  /\ thread[t].pc = "claim"
  /\ AlreadyClaimed(o)
  /\ IF rec[o].outcome # "none"
       THEN Become(t, Idle) /\ UNCHANGED <<jobVars, stage, runVars>>
       ELSE PauseOn(t, o)
  /\ UNCHANGED <<storeVars, providerVars>>

OutcomeOf(kind) ==
  IF kind = "questions" THEN kind
  ELSE IF kind \in Failures THEN "failed" ELSE "completed"

(* The resumed invocation returns... *)
ResumedReturns(t, kind) ==
  LET o == thread[t].op IN
  /\ thread[t].pc = "resumed"
  /\ kind \in {"questions"} \cup Completions \cup Failures
  /\ replied' = [replied EXCEPT ![o] = OutcomeOf(kind)]
  /\ Become(t, [thread[t] EXCEPT !.pc = IF kind = "questions" THEN "followUp" ELSE "record",
                                 !.kind = kind])
  /\ UNCHANGED <<storeVars, jobVars, stage, runVars, given>>

(* ... or throws: the run fails and no outcome is recorded. *)
ResumedThrows(t) ==
  /\ thread[t].pc = "resumed"
  /\ Fail(t)
  /\ UNCHANGED <<storeVars, providerVars>>

(* Questions of a resumed round get an operation of their own. *)
PostFollowUp(t) ==
  /\ thread[t].pc = "followUp"
  /\ \E o \in Operations :
       /\ rec[o].state = "missing"
       /\ Begin(o)
       /\ Become(t, [thread[t] EXCEPT !.pc = "record", !.next = o])
  /\ UNCHANGED <<jobVars, stage, runVars, providerVars>>

(* Mutant of RecordOutcome: the outcome is taken for a completed one. *)
RecordCompleted(t) ==
  /\ thread[t].pc = "record"
  /\ \/ RecordResumeInvocationOutcome(thread[t].op, "completed")
     \/ ~Recordable(thread[t].op) /\ UNCHANGED storeVars
  /\ Absorb(t, thread[t].kind)
  /\ UNCHANGED providerVars

RecordOutcome(t) ==
  /\ thread[t].pc = "record"
  /\ \/ RecordResumeInvocationOutcome(thread[t].op, OutcomeOf(thread[t].kind))
     \/ ~Recordable(thread[t].op) /\ UNCHANGED storeVars
  /\ Absorb(t, thread[t].kind)
  /\ UNCHANGED providerVars

(* A call of the store throws. resolveResume's is a refused Resume, the
   drive's ends the run; a submission's, and those of the resume that nothing
   catches, just end the call chain. *)
Throw(t) ==
  /\ StoreThrows
  /\ thread[t].pc \in Quick \cup {"drive", "post", "followUp", "record"}
  /\ CASE thread[t].pc \in {"resolve", "schedule", "settle", "drive", "post"} -> Fail(t)
       [] thread[t].pc = "accepted" ->
            /\ pending' = None
            /\ Become(t, Idle)
            /\ UNCHANGED <<jobVars, stage, hosted, answered, rounds, retries>>
       [] OTHER -> Become(t, Idle) /\ UNCHANGED <<jobVars, stage, runVars>>
  /\ UNCHANGED <<storeVars, providerVars>>

(* It throws in the middle of a claim. *)
ThrowInClaim(t) ==
  /\ StoreThrows
  /\ thread[t].pc = "claim"
  /\ ClaimWithoutMirror(thread[t].op)
  /\ Become(t, Idle)
  /\ UNCHANGED <<jobVars, stage, runVars, providerVars>>

-----------------------------------------------------------------------------
(* The process dies and a new one boots: what was in memory is gone, and a
   job that reads running is reconciled to failed. *)

(* Mutant of Reconcile. *)
ReconcileNothing == UNCHANGED jobVars

Reconcile ==
  IF status = "running" THEN Checkpoint("failed", None) ELSE UNCHANGED jobVars

Reboot ==
  /\ Reconcile
  /\ hosted' = FALSE
  /\ pending' = None
  /\ answered' = {}
  /\ rounds' = 0
  /\ retries' = 0
  /\ thread' = [t \in Threads |-> Idle]
  /\ UNCHANGED <<stage, providerVars>>

Restart == hosted /\ Reboot /\ UNCHANGED storeVars

(* It dies in the middle of a claim. *)
RestartInClaim(t) ==
  thread[t].pc = "claim" /\ ClaimWithoutMirror(thread[t].op) /\ Reboot

ThreadStep(t) ==
  \/ RunRound(t) \/ ExhaustBudget(t) \/ PostQuestions(t) \/ Discard(t)
  \/ SubmitToStore(t) \/ Accept(t) \/ ResolveResume(t) \/ Schedule(t) \/ Settle(t)
  \/ ClaimAndInvoke(t) \/ FindClaimed(t) \/ PostFollowUp(t) \/ RecordOutcome(t)
  \/ ResumedThrows(t)
  \/ \E kind \in Kinds : ProviderReturns(t, kind) \/ ResumedReturns(t, kind)

Submission(t) == \E o \in Operations, a \in Answers, id \in Ids : Submit(t, o, a, id)

(* A submission that arrives in a turn of the event loop of its own: what
   earlier ones have with the store is over. *)
TurnSubmission(t) == (\A u \in Threads : thread[u].pc \notin Quick) /\ Submission(t)

Common ==
  \/ Start \/ Rehydrate \/ Restart
  \/ \E t \in Threads : ThreadStep(t) \/ Throw(t) \/ ThrowInClaim(t) \/ RestartInClaim(t)

HostNext == Common \/ \E t \in Requests : Submission(t)
TurnNext == Common \/ \E t \in Requests : TurnSubmission(t)

HostSpec == HostInit /\ [][HostNext]_hostVars
TurnSpec == HostInit /\ [][TurnNext]_hostVars

(* Every await resolves, the provider's too. Users and faults may do nothing. *)
HostFairness == \A t \in Threads : WF_hostVars(ThreadStep(t))

FairTurnSpec == TurnSpec /\ HostFairness

-----------------------------------------------------------------------------
(* Properties of every interleaving, also of two submissions of one turn. *)

(* Across races of submissions, retries under other ids, crashes and boots
   the provider is invoked for an interaction with the accepted answers, and
   at most once; and what the record holds as the outcome of that invocation
   is what the provider returned. *)
Answer == INSTANCE AnswerContract WITH
  accepted <- [o \in Operations |-> IF rec[o].answerId # None THEN rec[o].answers ELSE None],
  invoked <- grants,
  recorded <- [o \in Operations |-> rec[o].outcome]

KeepsAnswerContract == Answer!Spec

(* Questions never surface without the record that an answer needs: an
   interaction a client can be shown or can answer has posted questions. *)
PauseIsRecorded ==
  \A o \in Operations :
    (status = "questionsPaused" /\ paused = o) \/ pending = o
      => rec[o].state \notin {"missing", "invocationPending"}

(* A call chain resumes an interaction on its accepted answers, not on what
   its own submission brought. *)
ResumesOnAccepted ==
  \A t \in Threads : thread[t].pc \in Resuming =>
    rec[thread[t].op].answerId # None /\ thread[t].answers = rec[thread[t].op].answers

-----------------------------------------------------------------------------
(* Properties of TurnSpec. *)

(* One call chain at a time works on the run. *)
OneThread == \A t, u \in Threads : Active(t) /\ Active(u) => t = u

(* A run that has ended, and whose sandbox is torn down, has no invocation
   of the provider under way. *)
EndedIsQuiet ==
  status \in {"completed", "failed"} =>
    \A t \in Threads : thread[t].pc \notin {"provider", "resumed"}

(* A paused run can be taken up again, after any crash: its interaction is
   one whose answers can still be submitted, or were accepted and not yet
   resumed. *)
PauseIsAnswerable ==
  status = "questionsPaused" =>
    rec[paused].state \in Unanswered \cup {"answersSubmitted"}

(* A running job is worked on, by a call chain of the process. *)
RunningIsDriven ==
  status = "running" => \E t \in Threads : Active(t)

(* A run does not go on for ever without its user: it ends or comes to a
   question (or the pool of operations is used up). *)
RunSettles ==
  status = "running" ~>
    (status # "running" \/ \A o \in Operations : rec[o].state # "missing")
=============================================================================
