----------------------------- MODULE RunHostProofs -----------------------------
(***************************************************************************)
(* Theorems about the transaction store and the run host, for every pool of*)
(* operations, answers, ids and submissions and every budget.              *)
(*                                                                         *)
(* The store (StoreSpec): StoreInv strengthens GrantIsEarned by what a     *)
(* record holds in each state.                                             *)
(*                                                                         *)
(* The host under every interleaving (HostSpec): its types, that a pause is*)
(* recorded, that a resume is on the accepted answers, and that it         *)
(* implements AnswerContract. HostInv says what each call chain knows at   *)
(* each of its awaits, and that one call chain at most is behind the       *)
(* resumed invocation of an operation.                                     *)
(*                                                                         *)
(* The host when submissions come in turns of their own (TurnSpec): TurnInv*)
(* says that one call chain works on the run, and how far the record of its*)
(* operation has come at each of its places.                               *)
(***************************************************************************)
EXTENDS RunHost, TLAPS

-----------------------------------------------------------------------------
(* The transaction store. *)

(* What a record has, and has not, in each state. *)
Progress(r) ==
  /\ r.state \in {"missing", "invocationPending"} \cup Unanswered
       => r.answerId = None /\ r.resumeId = None
  /\ r.state \in {"answersSubmitted", "resumeScheduled", "resumed"}
       => r.answerId # None /\ r.answers # None
  /\ r.state \in {"resumeScheduled", "resumed"} => r.resumeId # None
  /\ r.answerId # None => r.answers # None

StoreInv ==
  /\ StoreTypeOK
  /\ \A o \in Operations : Progress(rec[o])
  /\ GrantIsEarned
  /\ OneGrant

(* One step of the store on the record of o. *)
StoreStep(o) ==
  \/ BeginInvocation(o) \/ Begin(o) \/ DiscardPendingInvocation(o)
  \/ \E a \in Answers : SaveAnswersDraft(o, a) \/ (\E id \in Ids : SubmitAnswers(o, a, id))
  \/ \E id \in Ids : ScheduleResume(o, id)
  \/ SettleResumed(o) \/ ClaimResumeInvocation(o) \/ ClaimWithoutMirror(o)
  \/ \E x \in Outcomes : RecordResumeInvocationOutcome(o, x)
  \/ SettleTerminal(o)

(* What a step does to the record it is about: the record's type, its
   progress and what is kept of it, claims and grants. *)
StepOn(o) ==
  /\ rec' = [rec EXCEPT ![o] = rec'[o]]
  /\ rec'[o] \in Records
  /\ Progress(rec'[o])
  /\ Kept(rec[o], rec'[o])
  /\ claims' = claims \/ claims' = claims \cup {o}
  /\ grants' = grants \/ (grants[o] = 0 /\ o \in claims' /\ grants' = [grants EXCEPT ![o] = 1])
  /\ o \in claims' => rec'[o].state = "resumed"
  /\ rec'[o].claimedAt => o \in claims'
  /\ rec'[o].outcome # "none" => rec'[o].claimedAt

(* Every operation of the store keeps what its record owes. *)
LEMMA StepLemma ==
  ASSUME StoreInv, NEW o \in Operations, StoreStep(o)
  PROVE  StepOn(o)
<1> DEFINE r == rec[o]
<1>1. /\ rec \in [Operations -> Records] /\ r \in Records
      /\ Progress(r)
      /\ o \in claims => r.state = "resumed"
      /\ r.claimedAt => o \in claims
      /\ r.outcome # "none" => r.claimedAt
      /\ grants[o] # 0 => o \in claims
      /\ grants \in [Operations -> 0..2]
  BY DEF StoreInv, StoreTypeOK, GrantIsEarned
<1> USE <1>1, NoneAssumption DEF Write, Records, Progress, Kept, StepOn, Unanswered,
        Settled, Unsettled, States, Outcomes
<1> HIDE DEF r
<1>2. rec[o] = r BY DEF r
<1>3. CASE BeginInvocation(o)
  BY <1>2, <1>3 DEF BeginInvocation, NoRecord
<1>4. CASE Begin(o)
  BY <1>2, <1>4 DEF Begin, Postable
<1>5. CASE DiscardPendingInvocation(o)
  BY <1>2, <1>5 DEF DiscardPendingInvocation, NoRecord
<1>6. CASE \E a \in Answers : SaveAnswersDraft(o, a)
  <2>1. PICK a \in Answers : SaveAnswersDraft(o, a)
    BY <1>6
  <2>2. QED
    BY <1>2, <2>1 DEF SaveAnswersDraft
<1>7. CASE \E a \in Answers, id \in Ids : SubmitAnswers(o, a, id)
  <2>1. PICK a \in Answers, id \in Ids : SubmitAnswers(o, a, id)
    BY <1>7
  <2>2. a # None /\ id # None
    OBVIOUS
  <2>3. QED
    BY <1>2, <2>1, <2>2 DEF SubmitAnswers, Submittable
<1>8. CASE \E id \in Ids : ScheduleResume(o, id)
  <2>1. PICK id \in Ids : ScheduleResume(o, id)
    BY <1>8
  <2>2. id # None
    OBVIOUS
  <2>3. QED
    BY <1>2, <2>1, <2>2 DEF ScheduleResume, Schedulable
<1>9. CASE SettleResumed(o)
  BY <1>2, <1>9 DEF SettleResumed
<1>10. CASE ClaimResumeInvocation(o)
  BY <1>2, <1>10 DEF ClaimResumeInvocation, Claimable, AlreadyClaimed
<1>11. CASE ClaimWithoutMirror(o)
  BY <1>2, <1>11 DEF ClaimWithoutMirror, Claimable, AlreadyClaimed
<1>12. CASE \E x \in Outcomes : RecordResumeInvocationOutcome(o, x)
  BY <1>2, <1>12 DEF RecordResumeInvocationOutcome, Recordable
<1>13. CASE SettleTerminal(o)
  BY <1>2, <1>13 DEF SettleTerminal
<1>14. QED
  BY <1>3, <1>4, <1>5, <1>6, <1>7, <1>8, <1>9, <1>10, <1>11, <1>12, <1>13 DEF StoreStep

(* The invariant is inductive, under a step of any client. *)
LEMMA StoreInvStep ==
  ASSUME StoreInv, [StoreNext]_storeVars
  PROVE  StoreInv'
<1>1. CASE UNCHANGED storeVars
  BY <1>1 DEF storeVars, StoreInv, StoreTypeOK, GrantIsEarned, OneGrant
<1>2. CASE StoreNext
  <2>1. PICK o \in Operations : StoreStep(o)
    BY <1>2 DEF StoreNext, StoreStep
  <2>2. StepOn(o)
    BY <2>1, StepLemma
  <2>3. \A p \in Operations \ {o} :
          /\ rec'[p] = rec[p]
          /\ grants'[p] = grants[p]
          /\ p \in claims' <=> p \in claims
    BY <2>2 DEF StepOn, StoreInv, StoreTypeOK
  <2>4. StoreTypeOK'
    BY <2>2 DEF StepOn, StoreInv, StoreTypeOK
  <2>5. \A p \in Operations : Progress(rec'[p])
    BY <2>2, <2>3 DEF StepOn, StoreInv
  <2>6. GrantIsEarned'
    BY <2>2, <2>3 DEF StepOn, StoreInv, StoreTypeOK, GrantIsEarned, Progress
  <2>7. OneGrant'
    BY <2>2, <2>3 DEF StepOn, StoreInv, StoreTypeOK, OneGrant
  <2>8. QED
    BY <2>4, <2>5, <2>6, <2>7 DEF StoreInv
<1>3. QED
  BY <1>1, <1>2

(* Nothing acknowledged is taken back by a step from a state of StoreInv. *)
LEMMA KeptStep ==
  ASSUME StoreInv, [StoreNext]_storeVars
  PROVE  \A o \in Operations : Kept(rec[o], rec'[o]) /\ (o \in claims => o \in claims')
<1>1. CASE UNCHANGED storeVars
  BY <1>1 DEF storeVars, Kept
<1>2. CASE StoreNext
  <2>1. PICK o \in Operations : StoreStep(o)
    BY <1>2 DEF StoreNext, StoreStep
  <2>2. StepOn(o)
    BY <2>1, StepLemma
  <2>3. \A p \in Operations \ {o} : rec'[p] = rec[p]
    BY <2>2 DEF StepOn, StoreInv, StoreTypeOK
  <2>4. \A p \in Operations \ {o} : Kept(rec[p], rec'[p])
    BY <2>3 DEF Kept
  <2>5. QED
    BY <2>2, <2>4 DEF StepOn
<1>3. QED
  BY <1>1, <1>2

(* A store without records satisfies the invariant. *)
LEMMA StoreInvInit ==
  ASSUME StoreInit
  PROVE  StoreInv
BY NoneAssumption
   DEF StoreInit, StoreInv, StoreTypeOK, GrantIsEarned, OneGrant, Progress, Records,
       NoRecord, States, Unsettled, Unanswered, Settled, Outcomes

(* Whatever the clients of the store do, it keeps its types, the resumed
   invocation of an operation is granted once at most, and only after the
   steps that earn it. *)
THEOREM StoreSafe == StoreSpec => [](StoreTypeOK /\ OneGrant /\ GrantIsEarned)
<1>1. StoreInit => StoreInv
  BY StoreInvInit
<1>2. StoreInv /\ [StoreNext]_storeVars => StoreInv'
  BY StoreInvStep
<1>3. StoreInv => StoreTypeOK /\ OneGrant /\ GrantIsEarned
  BY DEF StoreInv
<1>4. QED
  BY <1>1, <1>2, <1>3, PTL DEF StoreSpec

(* No client is told to invoke the provider before accepted answers, a scheduled
   Resume and its settlement have earned it. *)
THEOREM GrantsAreEarned == StoreSpec => []GrantIsEarned
<1>1. (StoreTypeOK /\ OneGrant /\ GrantIsEarned) => GrantIsEarned
  OBVIOUS
<1>2. QED
  BY <1>1, StoreSafe, PTL

(* Whatever they do, an accepted answer, a Resume, a settlement, a claim and
   its first outcome stay as they were acknowledged. *)
THEOREM StoreKeeps == StoreSpec => NothingTakenBack
<1>1. StoreInit => StoreInv
  BY StoreInvInit
<1>2. StoreInv /\ [StoreNext]_storeVars => StoreInv'
  BY StoreInvStep
<1>3. StoreInv /\ [StoreNext]_storeVars
        => [\A o \in Operations : Kept(rec[o], rec[o]') /\ (o \in claims => o \in claims')]_storeVars
  BY KeptStep
<1>4. QED
  BY <1>1, <1>2, <1>3, PTL DEF StoreSpec, NothingTakenBack

-----------------------------------------------------------------------------
(* The run host under every interleaving. *)

(* The awaits of a call chain that was told to invoke the provider. *)
Invoking == {"resumed", "followUp", "record"}

Posted(r) == r.state \notin {"missing", "invocationPending"}

ThreadOK(t) ==
  LET th == thread[t] IN
  /\ th.pc \notin {"idle", "drive"} => th.op \in Operations
  /\ th.pc \in Quick => th.id \in Ids
  /\ th.pc = "submit" => th.answers \in Answers
  /\ th.pc = "accepted" => rec[th.op].answerId # None
  /\ th.pc \in Resuming => rec[th.op].answerId # None /\ th.answers = rec[th.op].answers
  /\ th.pc \in Invoking => grants[th.op] = 1
  /\ th.pc = "resumed" => replied[th.op] = "none"
  /\ th.pc \in {"followUp", "record"} => replied[th.op] = OutcomeOf(th.kind)
  /\ th.pc = "followUp" => th.kind = "questions"
  /\ th.pc = "post" => th.next = th.op
  /\ th.pc = "discard" => th.kind # "questions"
  /\ th.pc = "record" /\ th.kind = "questions" => th.next \in Operations /\ Posted(rec[th.next])

OneInvoker ==
  \A t, u \in Threads :
    thread[t].pc \in Invoking /\ thread[u].pc \in Invoking /\ thread[t].op = thread[u].op
      => t = u

NoReplyUngranted == \A o \in Operations : grants[o] = 0 => replied[o] = "none"

(* The conjuncts of HostTypeOK that are neither the store's nor a thread's. *)
MemoryOK ==
  /\ status \in JobStatuses
  /\ paused \in Operations \cup {None}
  /\ stage \in 1..LastStage
  /\ hosted \in BOOLEAN
  /\ pending \in Operations \cup {None}
  /\ answered \subseteq Operations
  /\ rounds \in 0..MaxRounds
  /\ retries \in 0..MaxRetries

ProviderOK ==
  /\ given \in [Operations -> Answers \cup {None}]
  /\ replied \in [Operations -> Outcomes \cup {"none"}]

HostInv ==
  /\ StoreInv
  /\ MemoryOK
  /\ ProviderOK
  /\ thread \in [Threads -> ThreadStates]
  /\ \A t \in Threads : ThreadOK(t)
  /\ OneInvoker
  /\ NoReplyUngranted
  /\ PauseIsRecorded

(* The initial states satisfy the invariant. *)
LEMMA HostInvInit ==
  ASSUME HostInit
  PROVE  HostInv
<1>1. StoreInv
  BY StoreInvInit DEF HostInit
<1>2. MemoryOK /\ ProviderOK
  <2>1. /\ status = "none" /\ paused = None /\ stage = 1 /\ pending = None
        /\ answered = {} /\ rounds = 0 /\ retries = 0
        /\ hosted \in BOOLEAN
    BY Zenon DEF HostInit
  <2>2. ProviderOK
    BY DEF HostInit, ProviderOK
  <2>3. QED
    BY <2>1, <2>2, BudgetAssumption DEF MemoryOK, JobStatuses
<1>3. thread \in [Threads -> ThreadStates]
  BY DEF HostInit, ThreadStates, Idle, Awaits, Kinds
<1>4. \A t \in Threads : thread[t].pc = "idle"
  BY DEF HostInit, Idle
<1>5. (\A t \in Threads : ThreadOK(t)) /\ OneInvoker
  BY <1>4 DEF ThreadOK, OneInvoker, Invoking, Quick, Resuming
<1>6. NoReplyUngranted /\ PauseIsRecorded
  BY NoneAssumption DEF HostInit, NoReplyUngranted, PauseIsRecorded
<1>7. QED
  BY <1>1, <1>2, <1>3, <1>5, <1>6 DEF HostInv

(* Whatever the host does is a step of the store's clients. *)
LEMMA HostIsClient ==
  ASSUME HostInv, [HostNext]_hostVars
  PROVE  [StoreNext]_storeVars
<1>1. CASE UNCHANGED hostVars
  BY <1>1 DEF hostVars
<1>2. \A t \in Threads : thread[t].pc \notin {"idle", "drive"} => thread[t].op \in Operations
  BY DEF HostInv, ThreadOK
<1>3. ASSUME NEW t \in Threads, ThreadStep(t) \/ Throw(t) \/ ThrowInClaim(t) \/ RestartInClaim(t)
      PROVE  [StoreNext]_storeVars
  <2> USE <1>2
  <2>1. CASE RunRound(t)
    BY <2>1 DEF RunRound, StoreNext
  <2>2. CASE ExhaustBudget(t) \/ Accept(t) \/ ResolveResume(t) \/ FindClaimed(t)
             \/ ResumedThrows(t) \/ Throw(t)
             \/ \E kind \in Kinds : ProviderReturns(t, kind) \/ ResumedReturns(t, kind)
    BY <2>2 DEF ExhaustBudget, Accept, ResolveResume, FindClaimed, ResumedThrows, Throw,
                ProviderReturns, ResumedReturns, storeVars
  <2>3. CASE PostQuestions(t) \/ Discard(t)
    BY <2>3 DEF PostQuestions, Discard, StoreNext, storeVars
  <2>4. CASE SubmitToStore(t)
    <3>1. thread[t].pc = "submit" => thread[t].answers \in Answers /\ thread[t].id \in Ids
      BY DEF HostInv, ThreadOK, Quick
    <3>2. QED
      BY <2>4, <3>1 DEF SubmitToStore, StoreNext, storeVars
  <2>5. CASE Schedule(t)
    <3>1. thread[t].pc = "schedule" => thread[t].id \in Ids
      BY DEF HostInv, ThreadOK, Quick
    <3>2. QED
      BY <2>5, <3>1 DEF Schedule, StoreNext, storeVars
  <2>6. CASE Settle(t) \/ ClaimAndInvoke(t) \/ ThrowInClaim(t) \/ RestartInClaim(t)
    BY <2>6 DEF Settle, ClaimAndInvoke, ThrowInClaim, RestartInClaim, StoreNext, storeVars
  <2>7. CASE PostFollowUp(t)
    BY <2>7 DEF PostFollowUp, StoreNext
  <2>8. CASE RecordOutcome(t)
    BY <2>8 DEF RecordOutcome, StoreNext, storeVars, OutcomeOf, Outcomes
  <2>9. QED
    BY <1>3, <2>1, <2>2, <2>3, <2>4, <2>5, <2>6, <2>7, <2>8 DEF ThreadStep
<1>4. CASE Start \/ Rehydrate \/ Restart \/ \E t \in Requests : Submission(t)
  BY <1>4 DEF Start, Rehydrate, Restart, Submission, Submit, storeVars
<1>5. QED
  BY <1>1, <1>3, <1>4 DEF HostNext, Common

(* What a step of the call chain t does: its own thread moves, to where the
   invariant wants it; a reply is one to the invocation it is behind; it
   comes to be behind an invocation by claiming it. *)
Moves(t) ==
  /\ thread' = [thread EXCEPT ![t] = thread'[t]]
  /\ thread'[t] \in ThreadStates
  /\ ThreadOK(t)'
  /\ MemoryOK'
  /\ ProviderOK'
  /\ PauseIsRecorded'
  /\ \A o \in Operations :
       replied'[o] # replied[o] => thread[t].pc = "resumed" /\ thread[t].op = o
  /\ thread'[t].pc \in Invoking =>
       \/ thread[t].pc \in Invoking /\ thread'[t].op = thread[t].op
       \/ grants[thread'[t].op] = 0

(* A grant stays a grant. *)
LEMMA GrantsStay ==
  ASSUME StoreInv, [StoreNext]_storeVars
  PROVE  \A o \in Operations : grants[o] = 1 => grants'[o] = 1
<1>1. CASE UNCHANGED storeVars
  BY <1>1 DEF storeVars
<1>2. CASE StoreNext
  <2>1. PICK o \in Operations : StoreStep(o)
    BY <1>2 DEF StoreNext, StoreStep
  <2>2. StepOn(o)
    BY <2>1, StepLemma
  <2>3. QED
    BY <2>2 DEF StepOn, StoreInv, StoreTypeOK
<1>3. QED
  BY <1>1, <1>2

(* A step of one call chain leaves what the others know intact, and the
   invariant holds after it. *)
LEMMA MovesKeep ==
  ASSUME HostInv, [StoreNext]_storeVars, NEW t \in Threads, Moves(t)
  PROVE  HostInv'
<1>1. StoreInv'
  BY StoreInvStep DEF HostInv
<1>2. \A o \in Operations : Kept(rec[o], rec'[o])
  BY KeptStep DEF HostInv
<1>3. \A o \in Operations : grants[o] = 1 => grants'[o] = 1
  BY GrantsStay DEF HostInv
<1>4. thread \in [Threads -> ThreadStates] /\ thread' \in [Threads -> ThreadStates]
  BY DEF HostInv, Moves
<1>5. \A u \in Threads \ {t} : thread'[u] = thread[u]
  BY <1>4 DEF Moves
<1>6. ASSUME NEW u \in Threads \ {t}
      PROVE  ThreadOK(u)'
  <2> DEFINE o == thread[u].op
  <2>1. ThreadOK(u) /\ thread'[u] = thread[u]
    BY <1>5 DEF HostInv
  <2>2. thread[u].pc \notin {"idle", "drive"} => o \in Operations
    BY <2>1 DEF ThreadOK
  <2>3. thread[u].pc \in Invoking => replied'[o] = replied[o]
    <3>1. SUFFICES ASSUME thread[u].pc \in Invoking, replied'[o] # replied[o]
                   PROVE  FALSE
      OBVIOUS
    <3>2. thread[t].pc = "resumed" /\ thread[t].op = o
      BY <2>2, <3>1 DEF Moves, Invoking
    <3>3. QED
      BY <3>1, <3>2 DEF HostInv, OneInvoker, Invoking
  <2>4. thread[u].pc \in {"accepted"} \cup Resuming =>
          rec'[o].answerId # None /\ rec'[o].answers = rec[o].answers
    BY <1>2, <2>1, <2>2 DEF Kept, ThreadOK, Resuming
  <2>5. thread[u].pc = "record" /\ thread[u].kind = "questions" => Posted(rec'[thread[u].next])
    BY <1>2, <2>1 DEF Kept, ThreadOK, Posted
  <2>6. QED
    BY <1>3, <2>1, <2>2, <2>3, <2>4, <2>5 DEF ThreadOK, Invoking, Resuming, Quick, OutcomeOf
<1>7. \A u \in Threads : ThreadOK(u)'
  BY <1>6 DEF Moves
<1>8. OneInvoker'
  <2>1. SUFFICES ASSUME NEW u \in Threads \ {t}, thread'[u].pc \in Invoking,
                        thread'[t].pc \in Invoking, thread'[u].op = thread'[t].op
                 PROVE  FALSE
    BY <1>5 DEF OneInvoker, HostInv
  <2>2. thread[u].pc \in Invoking /\ grants[thread[u].op] = 1 /\ thread[u].op = thread'[t].op
    BY <1>5, <2>1 DEF HostInv, ThreadOK
  <2>3. thread[t].pc \in Invoking /\ thread[t].op = thread[u].op
    BY <2>1, <2>2 DEF Moves
  <2>4. QED
    BY <2>2, <2>3 DEF HostInv, OneInvoker
<1>9. NoReplyUngranted'
  <2>1. SUFFICES ASSUME NEW o \in Operations, grants'[o] = 0
                 PROVE  replied'[o] = "none"
    BY DEF NoReplyUngranted
  <2>2. grants[o] # 1
    BY <1>3, <2>1
  <2>3. replied'[o] = replied[o]
    BY <2>2 DEF Moves, HostInv, ThreadOK, Invoking
  <2>4. grants[o] = 0
    BY <2>2 DEF HostInv, StoreInv, StoreTypeOK, OneGrant
  <2>5. QED
    BY <2>3, <2>4 DEF HostInv, NoReplyUngranted
<1>10. QED
  BY <1>1, <1>4, <1>7, <1>8, <1>9 DEF HostInv, Moves
(* Where absorbRound leaves the run: the call chain ends or drives on, and a
   pause is on the operation that the round's questions were posted for. *)
LEMMA AbsorbMoves ==
  ASSUME HostInv, NEW t \in Threads, NEW kind \in Kinds, Absorb(t, kind),
         kind = "questions" => thread[t].next \in Operations /\ Posted(rec'[thread[t].next]),
         [StoreNext]_storeVars
  PROVE  /\ thread' = [thread EXCEPT ![t] = thread'[t]]
         /\ thread'[t] \in ThreadStates
         /\ thread'[t].pc \in {"idle", "drive"}
         /\ MemoryOK'
         /\ PauseIsRecorded'
<1>1. /\ MemoryOK
      /\ thread \in [Threads -> ThreadStates]
      /\ PauseIsRecorded
      /\ None \notin Operations
  BY NoneAssumption DEF HostInv
<1>2. \A o \in Operations : Posted(rec[o]) => Posted(rec'[o])
  BY KeptStep DEF HostInv, Kept, Posted
<1>3. Idle \in ThreadStates /\ [Idle EXCEPT !.pc = "drive"] \in ThreadStates
  BY DEF Idle, ThreadStates, Awaits, Driving, Kinds
<1>4. Idle.pc = "idle" /\ [Idle EXCEPT !.pc = "drive"].pc = "drive"
  BY DEF Idle
<1> USE <1>1, <1>3, <1>4, BudgetAssumption DEF Become, Checkpoint, MemoryOK, JobStatuses
<1>5. CASE Fail(t)
  BY <1>2, <1>5 DEF Fail, PauseIsRecorded, Posted
<1>6. CASE kind = "questions" /\ PauseOn(t, thread[t].next)
  BY <1>2, <1>6 DEF PauseOn, PauseIsRecorded, Posted
<1>7. CASE Complete(t) /\ retries' = 0 /\ rounds' \in {rounds, 0}
  BY <1>2, <1>7 DEF Complete, PauseIsRecorded, Posted
<1>8. CASE DriveOn(t) /\ stage' \in {stage, stage + 1} /\ stage' \in 1..LastStage
            /\ rounds' \in {rounds, 0} /\ retries' \in 0..MaxRetries
  BY <1>2, <1>8 DEF DriveOn, jobVars, PauseIsRecorded, Posted
<1>9. QED
  <2>1. CASE kind = "questions"
    BY <1>6, <2>1 DEF Absorb
  <2>2. CASE kind = "retryable"
    <3>1. CASE MayRetry
      BY <1>8, <2>2, <3>1 DEF Absorb, MayRetry, Retry
    <3>2. CASE ~MayRetry
      BY <1>5, <2>2, <3>2 DEF Absorb
    <3>3. QED
      BY <3>1, <3>2
  <2>3. CASE kind = "planDone" \/ (kind = "stageDone" /\ stage = LastStage)
    BY <1>7, <2>3 DEF Absorb
  <2>4. CASE kind = "stageDone" /\ stage < LastStage
    BY <1>8, <2>4 DEF Absorb
  <2>5. CASE kind = "more"
    BY <1>8, <2>5 DEF Absorb
  <2>6. CASE kind \in {"none", "fatal"} \/ (kind = "stageDone" /\ ~(stage <= LastStage))
    BY <1>5, <2>6 DEF Absorb
  <2>7. QED
    BY <2>1, <2>2, <2>3, <2>4, <2>5, <2>6 DEF Kinds, Failures
(* A call chain that ends, or goes back to the drive, has nothing to know. *)
LEMMA EndMoves ==
  ASSUME HostInv, NEW t \in Threads,
         thread' = [thread EXCEPT ![t] = thread'[t]],
         thread'[t] \in ThreadStates,
         thread'[t].pc \in {"idle", "drive"},
         MemoryOK', PauseIsRecorded', UNCHANGED providerVars
  PROVE  Moves(t)
<1>1. ThreadOK(t)'
  BY DEF ThreadOK, Quick, Resuming, Invoking
<1>2. ProviderOK' /\ replied' = replied
  BY DEF HostInv, ProviderOK, providerVars
<1>3. QED
  BY <1>1, <1>2 DEF Moves, Invoking

(* A pause stays recorded while the job row and pendingRef stay. *)
LEMMA PauseStays ==
  ASSUME HostInv, [StoreNext]_storeVars,
         pending' = pending \/ pending' = None,
         UNCHANGED jobVars \/ status' # "questionsPaused"
  PROVE  PauseIsRecorded'
<1>1. \A o \in Operations : Posted(rec[o]) => Posted(rec'[o])
  BY KeptStep DEF HostInv, Kept, Posted
<1>2. QED
  BY <1>1, NoneAssumption DEF HostInv, PauseIsRecorded, Posted, jobVars

(* The ways a call chain ends: failing the run, pausing it on an interaction
   with posted questions, or leaving it as it is. *)
LEMMA FailMoves ==
  ASSUME HostInv, [StoreNext]_storeVars, NEW t \in Threads, Fail(t), UNCHANGED providerVars
  PROVE  Moves(t)
<1>1. Idle \in ThreadStates /\ Idle.pc = "idle" /\ thread \in [Threads -> ThreadStates]
  BY DEF Idle, ThreadStates, Awaits, Kinds, HostInv
<1>2. thread' = [thread EXCEPT ![t] = thread'[t]] /\ thread'[t] = Idle
  BY <1>1 DEF Fail, Become
<1>3. MemoryOK'
  BY DEF Fail, Checkpoint, HostInv, MemoryOK, JobStatuses
<1>4. PauseIsRecorded'
  BY PauseStays DEF Fail, Checkpoint
<1>5. QED
  BY <1>1, <1>2, <1>3, <1>4, EndMoves

LEMMA PauseMoves ==
  ASSUME HostInv, [StoreNext]_storeVars, NEW t \in Threads, NEW o \in Operations,
         PauseOn(t, o), Posted(rec'[o]), UNCHANGED providerVars
  PROVE  Moves(t)
<1>1. Idle \in ThreadStates /\ Idle.pc = "idle" /\ thread \in [Threads -> ThreadStates]
  BY DEF Idle, ThreadStates, Awaits, Kinds, HostInv
<1>2. thread' = [thread EXCEPT ![t] = thread'[t]] /\ thread'[t] = Idle
  BY <1>1 DEF PauseOn, Become
<1>3. MemoryOK'
  BY DEF PauseOn, Checkpoint, HostInv, MemoryOK, JobStatuses
<1>4. PauseIsRecorded'
  BY DEF PauseOn, Checkpoint, PauseIsRecorded, Posted
<1>5. QED
  BY <1>1, <1>2, <1>3, <1>4, EndMoves

LEMMA LeaveMoves ==
  ASSUME HostInv, [StoreNext]_storeVars, NEW t \in Threads, Become(t, Idle),
         UNCHANGED <<jobVars, stage, hosted, answered, rounds, retries>>,
         pending' = pending \/ pending' = None, UNCHANGED providerVars
  PROVE  Moves(t)
<1>1. Idle \in ThreadStates /\ Idle.pc = "idle" /\ thread \in [Threads -> ThreadStates]
  BY DEF Idle, ThreadStates, Awaits, Kinds, HostInv
<1>2. thread' = [thread EXCEPT ![t] = thread'[t]] /\ thread'[t] = Idle
  BY <1>1 DEF Become
<1>3. MemoryOK'
  BY DEF HostInv, MemoryOK, jobVars
<1>4. PauseIsRecorded'
  BY PauseStays
<1>5. QED
  BY <1>1, <1>2, <1>3, <1>4, EndMoves

LEMMA AbsorbEnds ==
  ASSUME HostInv, [StoreNext]_storeVars, NEW t \in Threads, NEW kind \in Kinds,
         Absorb(t, kind), UNCHANGED providerVars,
         kind = "questions" => thread[t].next \in Operations /\ Posted(rec'[thread[t].next])
  PROVE  Moves(t)
BY AbsorbMoves, EndMoves
(* A call chain that goes on from one await to the next. *)
LEMMA GoMoves ==
  ASSUME HostInv, [StoreNext]_storeVars, NEW t \in Threads, NEW s \in ThreadStates,
         Become(t, s), thread' = [thread EXCEPT ![t] = s] => ThreadOK(t)',
         MemoryOK', UNCHANGED providerVars, s.pc \notin Invoking \ {"record"},
         s.pc = "record" => thread[t].pc \in Invoking /\ s.op = thread[t].op,
         pending' = pending \/ pending' = None,
         UNCHANGED jobVars \/ status' # "questionsPaused"
  PROVE  Moves(t)
<1>1. thread' = [thread EXCEPT ![t] = s] /\ thread'[t] = s
  BY DEF Become, HostInv
<1>2. ProviderOK' /\ replied' = replied
  BY DEF HostInv, ProviderOK, providerVars
<1>3. PauseIsRecorded'
  BY PauseStays
<1>4. QED
  BY <1>1, <1>2, <1>3 DEF Moves, Invoking

(* The drive of a round. *)
LEMMA DriveMoves ==
  ASSUME HostInv, [StoreNext]_storeVars, NEW t \in Threads,
         RunRound(t) \/ ExhaustBudget(t) \/ PostQuestions(t) \/ Discard(t)
           \/ \E kind \in Kinds : ProviderReturns(t, kind)
  PROVE  Moves(t)
<1>1. thread \in [Threads -> ThreadStates] /\ thread[t] \in ThreadStates /\ ThreadOK(t)
  BY DEF HostInv
<1>2. MemoryOK
  BY DEF HostInv
<1>3. CASE RunRound(t)
  <2>1. PICK o \in Operations :
          Become(t, [Idle EXCEPT !.pc = "provider", !.op = o])
    BY <1>3 DEF RunRound
  <2> DEFINE s == [Idle EXCEPT !.pc = "provider", !.op = o]
  <2>2. s \in ThreadStates /\ s.pc = "provider" /\ s.op = o
    BY DEF Idle, ThreadStates, Awaits, Driving, Kinds
  <2> HIDE DEF s
  <2>3. thread' = [thread EXCEPT ![t] = s] => ThreadOK(t)'
    BY <1>1, <2>2 DEF ThreadOK, Quick, Resuming, Invoking
  <2>4. MemoryOK'
    <3>1. /\ rounds < MaxRounds /\ rounds' = rounds + 1
          /\ UNCHANGED <<jobVars, stage, hosted, pending, answered, retries>>
      BY <1>3 DEF RunRound, SpendRound
    <3>2. QED
      BY <1>2, <3>1, BudgetAssumption DEF MemoryOK, jobVars
  <2>5. QED
    BY <1>3, <2>1, <2>2, <2>3, <2>4, GoMoves DEF RunRound, s, Invoking
<1>4. CASE ExhaustBudget(t)
  BY <1>4, FailMoves DEF ExhaustBudget
<1>5. CASE PostQuestions(t)
  <2>1. thread[t].op \in Operations /\ thread[t].next = thread[t].op
    BY <1>1, <1>5 DEF PostQuestions, ThreadOK
  <2>2. Posted(rec'[thread[t].op])
    BY <1>5, <2>1 DEF PostQuestions, Begin, Write, Posted, HostInv, StoreInv, StoreTypeOK, Records
  <2>3. QED
    BY <1>5, <2>1, <2>2, AbsorbEnds DEF PostQuestions, Kinds
<1>6. CASE Discard(t)
  <2>1. thread[t].kind \in Kinds /\ thread[t].kind # "questions"
    BY <1>1, <1>6 DEF Discard, ThreadOK, ThreadStates
  <2>2. QED
    BY <1>6, <2>1, AbsorbEnds DEF Discard
<1>7. CASE \E kind \in Kinds : ProviderReturns(t, kind)
  <2>1. PICK kind \in Kinds : ProviderReturns(t, kind)
    BY <1>7
  <2> DEFINE s == [thread[t] EXCEPT !.pc = IF kind = "questions" THEN "post" ELSE "discard",
                                    !.kind = kind, !.next = thread[t].op]
  <2>2. /\ s \in ThreadStates
        /\ s.pc = IF kind = "questions" THEN "post" ELSE "discard"
        /\ s.op = thread[t].op /\ s.next = s.op /\ s.kind = kind
    BY <1>1 DEF ThreadStates, Awaits, Driving
  <2> HIDE DEF s
  <2>3. thread[t].op \in Operations
    BY <1>1, <2>1 DEF ThreadOK, ProviderReturns
  <2>4. thread' = [thread EXCEPT ![t] = s] => ThreadOK(t)'
    BY <1>1, <2>2, <2>3 DEF ThreadOK, Quick, Resuming, Invoking
  <2>5. MemoryOK'
    BY <1>2, <2>1 DEF ProviderReturns, MemoryOK, jobVars, runVars
  <2>6. Become(t, s) /\ UNCHANGED <<pending, jobVars, providerVars>>
    BY <2>1 DEF ProviderReturns, s, runVars
  <2>7. s.pc \notin Invoking
    BY <2>2 DEF Invoking
  <2>8. QED
    BY <2>2, <2>4, <2>5, <2>6, <2>7, GoMoves DEF Invoking
<1>8. QED
  BY <1>3, <1>4, <1>5, <1>6, <1>7
(* A thread that only goes on to another await of the store keeps its type. *)
LEMMA GotoType ==
  ASSUME HostInv, NEW t \in Threads, NEW pc \in Awaits
  PROVE  LET s == [thread[t] EXCEPT !.pc = pc] IN
         /\ s \in ThreadStates
         /\ s.pc = pc /\ s.op = thread[t].op /\ s.id = thread[t].id
         /\ s.answers = thread[t].answers /\ s.kind = thread[t].kind /\ s.next = thread[t].next
BY DEF HostInv, ThreadStates

(* An accepted answer stays what it is. *)
LEMMA AcceptedStays ==
  ASSUME HostInv, [StoreNext]_storeVars, NEW o \in Operations, rec[o].answerId # None
  PROVE  rec'[o].answerId # None /\ rec'[o].answers = rec[o].answers
BY KeptStep DEF HostInv, Kept

(* A submission, up to where the host has taken it on. *)
LEMMA SubmissionMoves ==
  ASSUME HostInv, [StoreNext]_storeVars, NEW t \in Threads,
         SubmitToStore(t) \/ Accept(t)
  PROVE  Moves(t)
<1>1. thread \in [Threads -> ThreadStates] /\ thread[t] \in ThreadStates /\ ThreadOK(t)
  BY DEF HostInv
<1>2. MemoryOK
  BY DEF HostInv
<1>3. CASE SubmitToStore(t)
  <2>1. /\ thread[t].op \in Operations
        /\ thread[t].id \in Ids
        /\ thread[t].answers \in Answers
    BY <1>1, <1>3 DEF SubmitToStore, ThreadOK, Quick
  <2>2. CASE Become(t, Idle)
    BY <1>3, <2>2, LeaveMoves DEF SubmitToStore, runVars
  <2>3. CASE Goto(t, "accepted") /\ rec'[thread[t].op].answerId # None
    <3> DEFINE s == [thread[t] EXCEPT !.pc = "accepted"]
    <3>1. /\ s \in ThreadStates
          /\ s.pc = "accepted" /\ s.op = thread[t].op /\ s.id = thread[t].id
      BY GotoType DEF Awaits, Quick
    <3>2. Become(t, s) /\ UNCHANGED <<jobVars, stage, runVars, providerVars>>
      BY <1>3, <2>3 DEF SubmitToStore, Goto
    <3> HIDE DEF s
    <3>3. thread' = [thread EXCEPT ![t] = s] => ThreadOK(t)'
      BY <1>1, <2>1, <2>3, <3>1 DEF ThreadOK, Quick, Resuming, Invoking
    <3>4. MemoryOK'
      BY <1>2, <3>2 DEF MemoryOK, jobVars, runVars
    <3>5. s.pc \notin Invoking /\ UNCHANGED <<pending, jobVars, providerVars>>
      BY <3>1, <3>2 DEF Invoking, runVars
    <3>6. QED
      BY <3>1, <3>2, <3>3, <3>4, <3>5, GoMoves DEF Invoking
  <2>4. SubmitAnswers(thread[t].op, thread[t].answers, thread[t].id)
          => rec'[thread[t].op].answerId # None
    BY <2>1, NoneAssumption
       DEF SubmitAnswers, Write, HostInv, StoreInv, StoreTypeOK, Records
  <2>5. Answered(thread[t].op, thread[t].answers) => rec[thread[t].op].answerId # None
    BY DEF Answered
  <2>6. QED
    BY <1>3, <2>2, <2>3, <2>4, <2>5 DEF SubmitToStore, storeVars
<1>4. CASE Accept(t)
  <2> DEFINE o == thread[t].op
             s == [thread[t] EXCEPT !.pc = "resolve", !.answers = rec[o].answers]
  <2>1. o \in Operations /\ thread[t].id \in Ids /\ rec[o].answerId # None
    BY <1>1, <1>4 DEF Accept, ThreadOK, Quick
  <2>2. rec[o].answers \in Answers \cup {None}
    BY <2>1 DEF HostInv, StoreInv, StoreTypeOK, Records
  <2>3. /\ s \in ThreadStates
        /\ s.pc = "resolve" /\ s.op = o /\ s.id = thread[t].id /\ s.answers = rec[o].answers
    BY <1>1, <2>2 DEF ThreadStates, Awaits, Quick
  <2>4. /\ Become(t, s) /\ UNCHANGED <<rec, stage, hosted, rounds, retries, providerVars>>
        /\ pending' = None /\ status' = "running" /\ paused' = None
        /\ answered' = answered \cup {o}
    BY <1>4 DEF Accept, storeVars, Checkpoint
  <2> HIDE DEF s, o
  <2>5. thread' = [thread EXCEPT ![t] = s] => ThreadOK(t)'
    BY <1>1, <2>1, <2>3, <2>4 DEF ThreadOK, Quick, Resuming, Invoking
  <2>6. MemoryOK'
    BY <1>2, <2>1, <2>4 DEF MemoryOK, JobStatuses
  <2>7. s.pc \notin Invoking /\ status' # "questionsPaused" /\ pending' = None
    BY <2>3, <2>4 DEF Invoking
  <2>8. QED
    BY <2>3, <2>4, <2>5, <2>6, <2>7, GoMoves DEF Invoking
<1>5. QED
  BY <1>3, <1>4

(* A submission that arrives. *)
LEMMA ArrivalMoves ==
  ASSUME HostInv, [StoreNext]_storeVars, NEW t \in Threads, Submission(t)
  PROVE  Moves(t)
<1>1. PICK o \in Operations, a \in Answers, id \in Ids : Submit(t, o, a, id)
  BY DEF Submission
<1> DEFINE s == [Idle EXCEPT !.pc = "submit", !.op = o, !.answers = a, !.id = id]
<1>2. thread \in [Threads -> ThreadStates] /\ MemoryOK /\ PauseIsRecorded /\ ProviderOK
  BY DEF HostInv
<1>3. /\ s \in ThreadStates
      /\ s.pc = "submit" /\ s.op = o /\ s.id = id /\ s.answers = a
  BY DEF Idle, ThreadStates, Awaits, Quick, Kinds
<1>4. /\ Become(t, s) /\ UNCHANGED <<rec, jobVars, stage, answered, providerVars>>
      /\ hosted' \in BOOLEAN
      /\ pending' = Rehydrated
      /\ hosted \/ status = "questionsPaused"
      /\ (rounds' = rounds /\ retries' = retries) \/ (rounds' = 0 /\ retries' = 0)
  BY <1>1 DEF Submit, storeVars
<1> HIDE DEF s
<1>5. thread' = [thread EXCEPT ![t] = s] /\ thread'[t] = s
  BY <1>2, <1>4 DEF Become
<1>6. ThreadOK(t)'
  BY <1>3, <1>5 DEF ThreadOK, Quick, Resuming, Invoking
<1>7. pending' = pending \/ (status = "questionsPaused" /\ pending' = paused)
  BY <1>4 DEF Rehydrated
<1>8. MemoryOK'
  BY <1>2, <1>4, <1>7, BudgetAssumption DEF MemoryOK, jobVars
<1>9. PauseIsRecorded'
  BY <1>2, <1>4, <1>7 DEF PauseIsRecorded, jobVars
<1>10. ProviderOK' /\ replied' = replied
  BY <1>2, <1>4 DEF ProviderOK, providerVars
<1>11. QED
  BY <1>3, <1>5, <1>6, <1>8, <1>9, <1>10 DEF Moves, Invoking
(* A call chain that goes on resuming, on the answers it has. *)
LEMMA ResumingMoves ==
  ASSUME HostInv, [StoreNext]_storeVars, NEW t \in Threads, thread[t].pc \in Resuming,
         NEW pc \in Resuming, NEW id \in Ids,
         Become(t, [thread[t] EXCEPT !.pc = pc, !.id = id]),
         UNCHANGED <<jobVars, stage, runVars, providerVars>>
  PROVE  Moves(t)
<1> DEFINE s == [thread[t] EXCEPT !.pc = pc, !.id = id]
           o == thread[t].op
<1>1. thread \in [Threads -> ThreadStates] /\ thread[t] \in ThreadStates /\ ThreadOK(t)
  BY DEF HostInv
<1>2. /\ o \in Operations /\ rec[o].answerId # None
      /\ thread[t].answers = rec[o].answers
  BY <1>1 DEF ThreadOK, Resuming
<1>3. rec'[o].answerId # None /\ rec'[o].answers = rec[o].answers
  BY <1>2, AcceptedStays
<1>4. /\ s \in ThreadStates
      /\ s.pc = pc /\ s.op = o /\ s.id = id /\ s.answers = thread[t].answers
  BY <1>1 DEF ThreadStates, Awaits, Quick, Resuming
<1> HIDE DEF s, o
<1>5. thread' = [thread EXCEPT ![t] = s] => ThreadOK(t)'
  BY <1>1, <1>2, <1>3, <1>4 DEF ThreadOK, Quick, Resuming, Invoking
<1>6. MemoryOK'
  BY DEF HostInv, MemoryOK, jobVars, runVars
<1>7. s.pc \notin Invoking /\ UNCHANGED <<pending, jobVars, providerVars>>
  BY <1>4 DEF Invoking, Resuming, runVars
<1>8. QED
  BY <1>4, <1>5, <1>6, <1>7, GoMoves DEF Invoking, s

(* The resume up to the claim. *)
LEMMA ResumeMoves ==
  ASSUME HostInv, [StoreNext]_storeVars, NEW t \in Threads,
         ResolveResume(t) \/ Schedule(t) \/ Settle(t) \/ FindClaimed(t)
  PROVE  Moves(t)
<1>1. thread \in [Threads -> ThreadStates] /\ thread[t] \in ThreadStates /\ ThreadOK(t)
  BY DEF HostInv
<1>2. thread[t].pc \in Resuming /\ thread[t].op \in Operations /\ thread[t].id \in Ids
  BY <1>1 DEF ThreadOK, Quick, Resuming, ResolveResume, Schedule, Settle, FindClaimed
<1>3. ASSUME NEW pc \in Resuming, Goto(t, pc), UNCHANGED <<jobVars, stage, runVars, providerVars>>
      PROVE  Moves(t)
  <2>1. [thread[t] EXCEPT !.pc = pc, !.id = thread[t].id] = [thread[t] EXCEPT !.pc = pc]
    BY <1>1 DEF ThreadStates
  <2>2. Become(t, [thread[t] EXCEPT !.pc = pc, !.id = thread[t].id])
    BY <1>3, <2>1 DEF Goto
  <2>3. QED
    BY <1>2, <1>3, <2>2, ResumingMoves
<1>4. CASE ResolveResume(t)
  <2>1. CASE Goto(t, "claim") /\ UNCHANGED <<jobVars, stage, runVars>>
    BY <1>3, <1>4, <2>1 DEF ResolveResume, Resuming
  <2>2. CASE Fail(t)
    BY <1>4, <2>2, FailMoves DEF ResolveResume
  <2>3. ASSUME NEW id, id = IF rec[thread[t].op].state = "resumeScheduled"
                              THEN rec[thread[t].op].resumeId ELSE thread[t].id,
               Become(t, [thread[t] EXCEPT !.pc = "schedule", !.id = id]),
               UNCHANGED <<jobVars, stage, runVars>>
        PROVE  Moves(t)
    <3>1. id \in Ids
      BY <1>2, <2>3 DEF HostInv, StoreInv, StoreTypeOK, Records, Progress
    <3>2. QED
      BY <1>2, <1>4, <2>3, <3>1, ResumingMoves DEF ResolveResume, Resuming
  <2>4. QED
    BY <1>4, <2>1, <2>2, <2>3 DEF ResolveResume
<1>5. CASE Schedule(t)
  <2>1. CASE Goto(t, "settle") /\ UNCHANGED <<jobVars, stage, runVars>>
    BY <1>3, <1>5, <2>1 DEF Schedule, Resuming
  <2>2. CASE Fail(t)
    BY <1>5, <2>2, FailMoves DEF Schedule
  <2>3. QED
    BY <1>5, <2>1, <2>2 DEF Schedule
<1>6. CASE Settle(t)
  <2>1. CASE Goto(t, "claim") /\ UNCHANGED <<jobVars, stage, runVars>>
    BY <1>3, <1>6, <2>1 DEF Settle, Resuming
  <2>2. CASE Fail(t)
    BY <1>6, <2>2, FailMoves DEF Settle
  <2>3. QED
    BY <1>6, <2>1, <2>2 DEF Settle
<1>7. CASE FindClaimed(t)
  <2>1. CASE Become(t, Idle) /\ UNCHANGED <<jobVars, stage, runVars>>
    BY <1>7, <2>1, LeaveMoves DEF FindClaimed, runVars
  <2>2. CASE PauseOn(t, thread[t].op)
    <3>1. rec'[thread[t].op].state = "resumed"
      BY <1>2, <1>7 DEF FindClaimed, AlreadyClaimed, HostInv, StoreInv, GrantIsEarned, storeVars
    <3>2. QED
      BY <1>2, <1>7, <2>2, <3>1, PauseMoves DEF FindClaimed, Posted
  <2>3. QED
    BY <1>7, <2>1, <2>2 DEF FindClaimed
<1>8. QED
  BY <1>4, <1>5, <1>6, <1>7

(* The invocation on the answers: the claim is the first of its operation. *)
LEMMA ClaimMoves ==
  ASSUME HostInv, [StoreNext]_storeVars, NEW t \in Threads, ClaimAndInvoke(t)
  PROVE  Moves(t)
<1> DEFINE s == [thread[t] EXCEPT !.pc = "resumed"]
           o == thread[t].op
<1>1. thread \in [Threads -> ThreadStates] /\ thread[t] \in ThreadStates /\ ThreadOK(t)
  BY DEF HostInv
<1>2. o \in Operations /\ thread[t].answers \in Answers \cup {None}
  BY <1>1 DEF ClaimAndInvoke, ThreadOK, ThreadStates
<1>3. grants[o] = 0 /\ grants'[o] = 1
  BY <1>2 DEF ClaimAndInvoke, ClaimResumeInvocation, Claimable, AlreadyClaimed,
              HostInv, StoreInv, GrantIsEarned, StoreTypeOK
<1>4. replied[o] = "none"
  BY <1>2, <1>3 DEF HostInv, NoReplyUngranted
<1>5. /\ s \in ThreadStates
      /\ s.pc = "resumed" /\ s.op = o
  BY GotoType DEF Awaits
<1>6. /\ thread' = [thread EXCEPT ![t] = s] /\ thread'[t] = s
      /\ given' = [given EXCEPT ![o] = thread[t].answers]
      /\ UNCHANGED <<jobVars, stage, runVars, replied>>
  BY <1>1 DEF ClaimAndInvoke, Goto, Become
<1> HIDE DEF s, o
<1>7. ThreadOK(t)'
  BY <1>2, <1>3, <1>4, <1>5, <1>6 DEF ThreadOK, Quick, Resuming, Invoking
<1>8. MemoryOK'
  BY <1>6 DEF HostInv, MemoryOK, jobVars, runVars
<1>9. ProviderOK'
  BY <1>2, <1>6 DEF HostInv, ProviderOK
<1>10. PauseIsRecorded'
  BY <1>6, PauseStays DEF runVars
<1>11. QED
  BY <1>3, <1>5, <1>6, <1>7, <1>8, <1>9, <1>10 DEF Moves
(* What follows the resumed invocation. *)
LEMMA InvocationMoves ==
  ASSUME HostInv, [StoreNext]_storeVars, NEW t \in Threads,
         ResumedThrows(t) \/ PostFollowUp(t) \/ RecordOutcome(t)
           \/ \E kind \in Kinds : ResumedReturns(t, kind)
  PROVE  Moves(t)
<1>1. thread \in [Threads -> ThreadStates] /\ thread[t] \in ThreadStates /\ ThreadOK(t)
  BY DEF HostInv
<1>2. thread[t].pc \in Invoking /\ thread[t].op \in Operations /\ grants[thread[t].op] = 1
  BY <1>1 DEF ThreadOK, Invoking, ResumedThrows, PostFollowUp, RecordOutcome, ResumedReturns
<1>3. grants'[thread[t].op] = 1
  BY <1>2, GrantsStay DEF HostInv
<1>4. CASE ResumedThrows(t)
  BY <1>4, FailMoves DEF ResumedThrows
<1>5. CASE PostFollowUp(t)
  <2>1. PICK o \in Operations :
          Begin(o) /\ Become(t, [thread[t] EXCEPT !.pc = "record", !.next = o])
    BY <1>5 DEF PostFollowUp
  <2> DEFINE s == [thread[t] EXCEPT !.pc = "record", !.next = o]
  <2>2. /\ s \in ThreadStates
        /\ s.pc = "record" /\ s.op = thread[t].op /\ s.next = o /\ s.kind = thread[t].kind
    BY <1>1 DEF ThreadStates, Awaits
  <2>3. Posted(rec'[o])
    BY <2>1 DEF Begin, Write, Posted, HostInv, StoreInv, StoreTypeOK, Records
  <2>4. replied[s.op] = OutcomeOf(s.kind) /\ replied' = replied
    BY <1>1, <1>5, <2>2 DEF PostFollowUp, ThreadOK, providerVars
  <2>5. Become(t, s) /\ UNCHANGED <<jobVars, stage, runVars, providerVars>>
    BY <1>5, <2>1 DEF PostFollowUp
  <2> HIDE DEF s
  <2>6. thread' = [thread EXCEPT ![t] = s] => ThreadOK(t)'
    BY <1>1, <1>2, <1>3, <2>2, <2>3, <2>4 DEF ThreadOK, Quick, Resuming, Invoking, OutcomeOf
  <2>7. MemoryOK'
    BY <2>5 DEF HostInv, MemoryOK, jobVars, runVars
  <2>8. UNCHANGED <<pending, jobVars, providerVars>>
    BY <2>5 DEF runVars
  <2>9. QED
    BY <1>2, <2>2, <2>5, <2>6, <2>7, <2>8, GoMoves DEF Invoking
<1>6. CASE RecordOutcome(t)
  <2>1. thread[t].kind \in Kinds
    BY <1>1 DEF ThreadStates
  <2>2. thread[t].kind = "questions" => thread[t].next \in Operations /\ Posted(rec[thread[t].next])
    BY <1>1, <1>6 DEF ThreadOK, RecordOutcome
  <2>3. thread[t].kind = "questions" => Posted(rec'[thread[t].next])
    BY <2>2, KeptStep DEF HostInv, Kept, Posted
  <2>4. QED
    BY <1>6, <2>1, <2>2, <2>3, AbsorbEnds DEF RecordOutcome
<1>7. CASE \E kind \in Kinds : ResumedReturns(t, kind)
  <2>1. PICK kind \in Kinds : ResumedReturns(t, kind)
    BY <1>7
  <2> DEFINE o == thread[t].op
             s == [thread[t] EXCEPT !.pc = IF kind = "questions" THEN "followUp" ELSE "record",
                                    !.kind = kind]
  <2>2. /\ s \in ThreadStates
        /\ s.pc = IF kind = "questions" THEN "followUp" ELSE "record"
        /\ s.op = o /\ s.kind = kind
    BY <1>1 DEF ThreadStates, Awaits
  <2>3. /\ thread' = [thread EXCEPT ![t] = s] /\ thread'[t] = s
        /\ replied' = [replied EXCEPT ![o] = OutcomeOf(kind)]
        /\ UNCHANGED <<jobVars, stage, runVars, given>>
        /\ thread[t].pc = "resumed"
    BY <1>1, <2>1 DEF ResumedReturns, Become
  <2> HIDE DEF s, o
  <2>4. o \in Operations /\ grants'[o] = 1
    BY <1>2, <1>3 DEF o
  <2>5. OutcomeOf(kind) \in Outcomes
    BY DEF OutcomeOf, Outcomes
  <2>6. replied'[o] = OutcomeOf(kind) /\ ProviderOK'
    BY <2>3, <2>4, <2>5 DEF HostInv, ProviderOK
  <2>7. ThreadOK(t)'
    BY <2>2, <2>3, <2>4, <2>6 DEF ThreadOK, Quick, Resuming, Invoking, OutcomeOf
  <2>8. MemoryOK'
    BY <2>3 DEF HostInv, MemoryOK, jobVars, runVars
  <2>9. PauseIsRecorded'
    BY <2>3, PauseStays DEF runVars
  <2>10. \A p \in Operations : replied'[p] # replied[p] => p = o
    BY <2>3 DEF HostInv, ProviderOK
  <2>11. QED
    BY <1>2, <2>2, <2>3, <2>6, <2>7, <2>8, <2>9, <2>10 DEF Moves, Invoking, o
<1>8. QED
  BY <1>4, <1>5, <1>6, <1>7

(* A store call that throws. *)
LEMMA ThrowMoves ==
  ASSUME HostInv, [StoreNext]_storeVars, NEW t \in Threads, Throw(t) \/ ThrowInClaim(t)
  PROVE  Moves(t)
<1>1. CASE ThrowInClaim(t)
  BY <1>1, LeaveMoves DEF ThrowInClaim, runVars
<1>2. CASE Throw(t)
  <2>1. CASE Fail(t)
    BY <1>2, <2>1, FailMoves DEF Throw
  <2>2. CASE /\ pending' = None /\ Become(t, Idle)
             /\ UNCHANGED <<jobVars, stage, hosted, answered, rounds, retries>>
    BY <1>2, <2>2, LeaveMoves DEF Throw
  <2>3. CASE Become(t, Idle) /\ UNCHANGED <<jobVars, stage, runVars>>
    BY <1>2, <2>3, LeaveMoves DEF Throw, runVars
  <2>4. QED
    BY <1>2, <2>1, <2>2, <2>3 DEF Throw
<1>3. QED
  BY <1>1, <1>2

(* start, and a submission that only rebuilds the run. *)
LEMMA StartMoves ==
  ASSUME HostInv, [StoreNext]_storeVars, Start \/ Rehydrate
  PROVE  Moves(Starter)
<1>1. /\ Starter \in Threads /\ thread \in [Threads -> ThreadStates]
      /\ ThreadOK(Starter) /\ MemoryOK /\ PauseIsRecorded
  BY DEF HostInv, Threads
<1>2. CASE Start
  <2> DEFINE s == [Idle EXCEPT !.pc = "drive"]
  <2>1. s \in ThreadStates /\ s.pc = "drive"
    BY DEF Idle, ThreadStates, Awaits, Driving, Kinds
  <2>2. /\ thread' = [thread EXCEPT ![Starter] = s] /\ thread'[Starter] = s
        /\ status' = "running" /\ paused' = None /\ hosted' \in BOOLEAN
        /\ UNCHANGED <<storeVars, stage, pending, answered, rounds, retries, providerVars>>
    BY <1>1, <1>2 DEF Start, Become, Checkpoint
  <2> HIDE DEF s
  <2>3. MemoryOK'
    BY <1>1, <2>2 DEF MemoryOK, JobStatuses
  <2>4. PauseIsRecorded'
    BY <2>2, PauseStays
  <2>5. QED
    BY <1>1, <2>1, <2>2, <2>3, <2>4, EndMoves
<1>3. CASE Rehydrate
  <2>1. /\ thread' = thread /\ hosted' \in BOOLEAN /\ pending' = paused
        /\ status = "questionsPaused" /\ rounds' = 0 /\ retries' = 0
        /\ UNCHANGED <<rec, claims, grants, status, paused, stage, answered, given, replied>>
    BY <1>3 DEF Rehydrate, storeVars, jobVars, providerVars
  <2>2. ThreadOK(Starter)'
    BY <1>1, <2>1 DEF ThreadOK
  <2>3. MemoryOK' /\ ProviderOK'
    BY <1>1, <2>1, BudgetAssumption DEF MemoryOK, ProviderOK, HostInv
  <2>4. PauseIsRecorded'
    BY <1>1, <2>1 DEF PauseIsRecorded
  <2>5. QED
    BY <1>1, <2>1, <2>2, <2>3, <2>4 DEF Moves
<1>4. QED
  BY <1>2, <1>3

(* After a boot no call chain is left. *)
LEMMA RebootKeeps ==
  ASSUME HostInv, [StoreNext]_storeVars, Reboot
  PROVE  HostInv'
<1>1. StoreInv'
  BY StoreInvStep DEF HostInv
<1>2. /\ thread' = [t \in Threads |-> Idle]
      /\ UNCHANGED <<stage, given, replied>>
      /\ hosted' \in BOOLEAN /\ pending' = None /\ answered' = {}
      /\ rounds' = 0 /\ retries' = 0
      /\ Reconcile
  BY DEF Reboot, providerVars
<1>3. Idle \in ThreadStates /\ Idle.pc = "idle"
  BY DEF Idle, ThreadStates, Awaits, Kinds
<1>4. /\ thread' \in [Threads -> ThreadStates]
      /\ \A t \in Threads : thread'[t].pc = "idle"
  BY <1>2, <1>3
<1>5. (\A t \in Threads : ThreadOK(t)') /\ OneInvoker'
  BY <1>4 DEF ThreadOK, OneInvoker, Invoking, Quick, Resuming
<1>6. MemoryOK'
  BY <1>2, BudgetAssumption DEF HostInv, MemoryOK, Reconcile, Checkpoint, jobVars, JobStatuses
<1>7. ProviderOK'
  BY <1>2 DEF HostInv, ProviderOK
<1>8. NoReplyUngranted'
  <2>1. \A o \in Operations : grants'[o] = 0 => grants[o] = 0
    BY GrantsStay DEF HostInv, StoreInv, StoreTypeOK, OneGrant
  <2>2. QED
    BY <1>2, <2>1 DEF HostInv, NoReplyUngranted
<1>9. PauseIsRecorded'
  BY <1>2, PauseStays DEF Reconcile, Checkpoint
<1>10. QED
  BY <1>1, <1>4, <1>5, <1>6, <1>7, <1>8, <1>9 DEF HostInv

(* HostInv is inductive. *)
LEMMA HostInvStep ==
  ASSUME HostInv, [HostNext]_hostVars
  PROVE  HostInv'
<1>1. [StoreNext]_storeVars
  BY HostIsClient
<1>2. CASE UNCHANGED hostVars
  BY <1>2 DEF hostVars, storeVars, jobVars, runVars, providerVars, HostInv, StoreInv,
      StoreTypeOK, GrantIsEarned, OneGrant, MemoryOK, ProviderOK, ThreadOK, OneInvoker,
      NoReplyUngranted, PauseIsRecorded
<1>3. CASE Start \/ Rehydrate
  BY <1>1, <1>3, StartMoves, MovesKeep DEF Threads
<1>4. CASE Restart \/ \E t \in Threads : RestartInClaim(t)
  BY <1>1, <1>4, RebootKeeps DEF Restart, RestartInClaim
<1>5. ASSUME NEW t \in Threads, ThreadStep(t)
      PROVE  HostInv'
  <2>1. Moves(t)
    BY <1>1, <1>5, DriveMoves, SubmissionMoves, ResumeMoves, ClaimMoves, InvocationMoves
       DEF ThreadStep
  <2>2. QED
    BY <1>1, <2>1, MovesKeep
<1>6. ASSUME NEW t \in Threads, Throw(t) \/ ThrowInClaim(t)
      PROVE  HostInv'
  BY <1>1, <1>6, ThrowMoves, MovesKeep
<1>7. ASSUME NEW t \in Requests, Submission(t)
      PROVE  HostInv'
  BY <1>1, <1>7, ArrivalMoves, MovesKeep DEF Threads
<1>8. QED
  BY <1>2, <1>3, <1>4, <1>5, <1>6, <1>7 DEF HostNext, Common

(* The host is a client of the store like any other: what is proved of
   StoreSpec holds under it. *)
THEOREM HostUsesStore == HostSpec => StoreSpec
<1>1. HostInit => HostInv
  BY HostInvInit
<1>2. HostInv /\ [HostNext]_hostVars => HostInv'
  BY HostInvStep
<1>3. HostInv /\ [HostNext]_hostVars => [StoreNext]_storeVars
  BY HostIsClient
<1>4. HostInit => StoreInit
  BY DEF HostInit
<1>5. QED
  BY <1>1, <1>2, <1>3, <1>4, PTL DEF HostSpec, StoreSpec

(* Through every submission, restart and throw of the host, what its client was
   told is accepted, scheduled, settled or claimed stays so. *)
THEOREM HostTakesNothingBack == HostSpec => NothingTakenBack
  BY HostUsesStore, StoreKeeps

(* The types of the host, for every pool and every budget. *)
THEOREM HostTypeCorrect == HostSpec => []HostTypeOK
<1>1. HostInv => HostTypeOK
  BY DEF HostInv, StoreInv, MemoryOK, ProviderOK, HostTypeOK
<1>2. HostInit => HostInv
  BY HostInvInit
<1>3. HostInv /\ [HostNext]_hostVars => HostInv'
  BY HostInvStep
<1>4. QED
  BY <1>1, <1>2, <1>3, PTL DEF HostSpec

(* However many submissions interleave, and whenever the process restarts or
   the store throws: the provider is invoked once at most for an interaction,
   questions surface with their record only, and a call chain resumes on the
   accepted answers. *)
THEOREM HostSafe == HostSpec => [](OneGrant /\ PauseIsRecorded /\ ResumesOnAccepted)
<1>1. HostInv => OneGrant /\ PauseIsRecorded
  BY DEF HostInv, StoreInv
<1>2. HostInv => ResumesOnAccepted
  BY DEF HostInv, ThreadOK, ResumesOnAccepted
<1>3. HostInit => HostInv
  BY HostInvInit
<1>4. HostInv /\ [HostNext]_hostVars => HostInv'
  BY HostInvStep
<1>5. QED
  BY <1>1, <1>2, <1>3, <1>4, PTL DEF HostSpec

-----------------------------------------------------------------------------
(* The refinement mapping's view of a record. *)
AcceptedOf(r) == IF r.answerId # None THEN r.answers ELSE None

(* A step that neither accepts, nor invokes, nor replies, nor records is a
   stutter of the contract. *)
LEMMA Stutters ==
  ASSUME HostInv, grants' = grants, given' = given, replied' = replied,
         \A o \in Operations : AcceptedOf(rec'[o]) = AcceptedOf(rec[o])
                               /\ rec'[o].outcome = rec[o].outcome
  PROVE  UNCHANGED Answer!vars
BY DEF Answer!vars, AcceptedOf
(* The operations of the store that the contract does not see. *)
Unseen(o) ==
  \/ BeginInvocation(o) \/ Begin(o) \/ DiscardPendingInvocation(o)
  \/ (\E id \in Ids : ScheduleResume(o, id)) \/ SettleResumed(o) \/ ClaimWithoutMirror(o)
  \/ UNCHANGED storeVars

LEMMA UnseenStutters ==
  ASSUME HostInv, NEW o \in Operations, Unseen(o), given' = given, replied' = replied
  PROVE  UNCHANGED Answer!vars
<1>1. rec \in [Operations -> Records] /\ Progress(rec[o])
  BY DEF HostInv, StoreInv, StoreTypeOK
<1>2. rec[o].state # "resumed" => rec[o].outcome = "none"
  BY DEF HostInv, StoreInv, GrantIsEarned, StoreTypeOK, Records
<1>3. CASE BeginInvocation(o)
  <2>1. rec' = [rec EXCEPT ![o] = rec'[o]] /\ rec'[o].answerId = None /\ rec'[o].outcome = "none"
    BY <1>1, <1>3 DEF BeginInvocation, Write, NoRecord
  <2>2. rec[o].answerId = None /\ rec[o].outcome = "none"
    BY <1>1, <1>2, <1>3 DEF BeginInvocation, Progress
  <2>3. QED
    BY <1>1, <1>3, <2>1, <2>2, Stutters DEF BeginInvocation, AcceptedOf
<1>4. CASE DiscardPendingInvocation(o)
  <2>1. rec' = [rec EXCEPT ![o] = rec'[o]] /\ rec'[o].answerId = None /\ rec'[o].outcome = "none"
    BY <1>1, <1>4 DEF DiscardPendingInvocation, Write, NoRecord
  <2>2. rec[o].answerId = None /\ rec[o].outcome = "none"
    BY <1>1, <1>2, <1>4 DEF DiscardPendingInvocation, Progress
  <2>3. QED
    BY <1>1, <1>4, <2>1, <2>2, Stutters DEF DiscardPendingInvocation, AcceptedOf
<1>5. CASE Begin(o) \/ (\E id \in Ids : ScheduleResume(o, id)) \/ SettleResumed(o)
  <2>1. /\ rec' = [rec EXCEPT ![o] = rec'[o]] /\ grants' = grants
        /\ rec'[o].answerId = rec[o].answerId /\ rec'[o].answers = rec[o].answers
        /\ rec'[o].outcome = rec[o].outcome
    BY <1>1, <1>5 DEF Begin, ScheduleResume, SettleResumed, Write, Records
  <2>2. QED
    BY <1>1, <2>1, Stutters DEF AcceptedOf
<1>6. CASE ClaimWithoutMirror(o) \/ UNCHANGED storeVars
  BY <1>6, Stutters DEF ClaimWithoutMirror, storeVars
<1>7. QED
  BY <1>3, <1>4, <1>5, <1>6 DEF Unseen

(* The four steps that it sees. *)
LEMMA ContractAccept ==
  ASSUME HostInv, NEW o \in Operations, NEW a \in Answers, NEW id \in Ids,
         SubmitAnswers(o, a, id), given' = given, replied' = replied
  PROVE  Answer!Next
<1>1. rec \in [Operations -> Records] /\ id # None /\ None \notin Answers
  BY NoneAssumption DEF HostInv, StoreInv, StoreTypeOK
<1>2. /\ rec' = [rec EXCEPT ![o] = rec'[o]] /\ grants' = grants
      /\ rec'[o].answerId # None /\ rec'[o].answers = a /\ rec'[o].outcome = rec[o].outcome
      /\ rec[o].answerId = None
  BY <1>1 DEF SubmitAnswers, Submittable, Write, Records
<1>3. Answer!Accept(o, a)
  BY <1>1, <1>2 DEF Answer!Accept
<1>4. QED
  BY <1>3 DEF Answer!Next

LEMMA ContractInvoke ==
  ASSUME HostInv, NEW t \in Threads, ClaimAndInvoke(t)
  PROVE  Answer!Next
<1> DEFINE o == thread[t].op
<1>1. /\ rec \in [Operations -> Records] /\ grants \in [Operations -> 0..2]
      /\ ThreadOK(t) /\ given \in [Operations -> Answers \cup {None}]
  BY DEF HostInv, StoreInv, StoreTypeOK, ProviderOK
<1>2. /\ o \in Operations /\ rec[o].answerId # None /\ rec[o].answers # None
      /\ thread[t].answers = rec[o].answers
  BY <1>1 DEF ThreadOK, ClaimAndInvoke, Resuming, HostInv, StoreInv, Progress
<1>3. grants[o] = 0
  BY <1>2 DEF ClaimAndInvoke, ClaimResumeInvocation, Claimable, AlreadyClaimed,
              HostInv, StoreInv, GrantIsEarned
<1>4. /\ rec' = [rec EXCEPT ![o] = rec'[o]]
      /\ rec'[o].answerId = rec[o].answerId /\ rec'[o].answers = rec[o].answers
      /\ rec'[o].outcome = rec[o].outcome
      /\ grants' = [grants EXCEPT ![o] = 1]
      /\ given' = [given EXCEPT ![o] = rec[o].answers] /\ replied' = replied
  BY <1>1, <1>2, <1>3 DEF ClaimAndInvoke, ClaimResumeInvocation, Write, Records
<1> HIDE DEF o
<1>5. Answer!Invoke(o)
  BY <1>1, <1>2, <1>3, <1>4 DEF Answer!Invoke
<1>6. QED
  BY <1>2, <1>5 DEF Answer!Next

LEMMA ContractReply ==
  ASSUME HostInv, NEW t \in Threads, NEW kind \in Kinds, ResumedReturns(t, kind)
  PROVE  Answer!Next
<1>1. /\ thread[t].op \in Operations /\ grants[thread[t].op] = 1
      /\ replied[thread[t].op] = "none"
  BY DEF HostInv, ThreadOK, ResumedReturns, Invoking
<1>2. OutcomeOf(kind) \in Outcomes
  BY DEF OutcomeOf, Outcomes
<1>3. Answer!Reply(thread[t].op, OutcomeOf(kind))
  BY <1>1 DEF Answer!Reply, ResumedReturns, storeVars
<1>4. QED
  BY <1>1, <1>2, <1>3 DEF Answer!Next

LEMMA ContractRecord ==
  ASSUME HostInv, NEW t \in Threads, RecordOutcome(t)
  PROVE  [Answer!Next]_(Answer!vars)
<1>1. rec \in [Operations -> Records] /\ ThreadOK(t)
  BY DEF HostInv, StoreInv, StoreTypeOK
<1>2. PICK o \in Operations : o = thread[t].op
  BY <1>1 DEF ThreadOK, RecordOutcome
<1>3. replied[o] = OutcomeOf(thread[t].kind) /\ replied[o] # "none"
  BY <1>1, <1>2 DEF ThreadOK, RecordOutcome, OutcomeOf
<1>4. CASE UNCHANGED storeVars
  BY <1>4, UnseenStutters DEF RecordOutcome, providerVars, Unseen
<1>5. CASE RecordResumeInvocationOutcome(o, OutcomeOf(thread[t].kind))
  <2>1. /\ rec' = [rec EXCEPT ![o] = rec'[o]] /\ grants' = grants
        /\ rec'[o].answerId = rec[o].answerId /\ rec'[o].answers = rec[o].answers
        /\ rec[o].outcome = "none" /\ rec'[o].outcome = replied[o]
        /\ given' = given /\ replied' = replied
    BY <1>1, <1>2, <1>3, <1>5
       DEF RecordResumeInvocationOutcome, Recordable, RecordOutcome, Write, Records, providerVars
  <2>2. Answer!Record(o)
    BY <1>1, <1>3, <2>1 DEF Answer!Record
  <2>3. QED
    BY <2>2 DEF Answer!Next
<1>6. QED
  BY <1>2, <1>4, <1>5 DEF RecordOutcome

(* Every step of the host is one of those or a stutter. *)
LEMMA ContractStep ==
  ASSUME HostInv, [HostNext]_hostVars
  PROVE  [Answer!Next]_(Answer!vars)
<1>1. CASE UNCHANGED hostVars
  BY <1>1, Stutters DEF hostVars, storeVars, providerVars
<1>2. ASSUME UNCHANGED storeVars, UNCHANGED providerVars
      PROVE  UNCHANGED Answer!vars
  BY <1>2, Stutters DEF storeVars, providerVars
<1>3. \A t \in Threads : ThreadOK(t)
  BY DEF HostInv
<1>4. CASE Start \/ Rehydrate \/ Restart \/ \E t \in Requests : Submission(t)
  <2>1. UNCHANGED storeVars /\ UNCHANGED providerVars
    BY <1>4 DEF Start, Rehydrate, Restart, Reboot, Submission, Submit
  <2>2. QED
    BY <1>2, <2>1
<1>5. ASSUME NEW t \in Threads, RestartInClaim(t) \/ ThrowInClaim(t)
      PROVE  [Answer!Next]_(Answer!vars)
  <2>1. thread[t].op \in Operations
    BY <1>3, <1>5 DEF ThreadOK, RestartInClaim, ThrowInClaim
  <2>2. Unseen(thread[t].op) /\ given' = given /\ replied' = replied
    BY <1>5 DEF RestartInClaim, ThrowInClaim, Reboot, Unseen, providerVars
  <2>3. QED
    BY <2>1, <2>2, UnseenStutters
<1>6. ASSUME NEW t \in Threads, Throw(t)
      PROVE  [Answer!Next]_(Answer!vars)
  BY <1>2, <1>6 DEF Throw
<1>7. ASSUME NEW t \in Threads, ThreadStep(t)
      PROVE  [Answer!Next]_(Answer!vars)
  <2>1. CASE ExhaustBudget(t) \/ Accept(t) \/ ResolveResume(t) \/ FindClaimed(t)
             \/ ResumedThrows(t) \/ \E kind \in Kinds : ProviderReturns(t, kind)
    <3>1. UNCHANGED storeVars /\ UNCHANGED providerVars
      BY <2>1 DEF ExhaustBudget, Accept, ResolveResume, FindClaimed, ResumedThrows, ProviderReturns
    <3>2. QED
      BY <1>2, <3>1
  <2>2. ASSUME NEW o \in Operations, Unseen(o), UNCHANGED providerVars
        PROVE  UNCHANGED Answer!vars
    BY <2>2, UnseenStutters DEF providerVars
  <2>3. CASE RunRound(t)
    <3>1. PICK o \in Operations : BeginInvocation(o)
      BY <2>3 DEF RunRound
    <3>2. QED
      BY <2>2, <2>3, <3>1 DEF RunRound, Unseen
  <2>4. CASE PostFollowUp(t)
    <3>1. PICK o \in Operations : Begin(o)
      BY <2>4 DEF PostFollowUp
    <3>2. QED
      BY <2>2, <2>4, <3>1 DEF PostFollowUp, Unseen
  <2>5. CASE PostQuestions(t) \/ Discard(t) \/ Settle(t)
    <3>1. thread[t].op \in Operations
      BY <1>3, <2>5 DEF ThreadOK, PostQuestions, Discard, Settle
    <3>2. QED
      BY <2>2, <2>5, <3>1 DEF PostQuestions, Discard, Settle, Unseen
  <2>6. CASE Schedule(t)
    <3>1. thread[t].op \in Operations /\ thread[t].id \in Ids
      BY <1>3, <2>6 DEF ThreadOK, Schedule, Quick
    <3>2. Unseen(thread[t].op)
      BY <2>6, <3>1 DEF Schedule, Unseen
    <3>3. QED
      BY <2>2, <2>6, <3>1, <3>2 DEF Schedule
  <2>7. CASE SubmitToStore(t)
    <3>1. thread[t].op \in Operations /\ thread[t].id \in Ids /\ thread[t].answers \in Answers
      BY <1>3, <2>7 DEF ThreadOK, SubmitToStore, Quick
    <3>2. given' = given /\ replied' = replied
      BY <2>7 DEF SubmitToStore, providerVars
    <3>3. CASE SubmitAnswers(thread[t].op, thread[t].answers, thread[t].id)
      BY <3>1, <3>2, <3>3, ContractAccept
    <3>4. CASE UNCHANGED storeVars
      BY <1>2, <2>7, <3>4 DEF SubmitToStore
    <3>5. QED
      BY <2>7, <3>3, <3>4 DEF SubmitToStore
  <2>8. CASE ClaimAndInvoke(t) \/ RecordOutcome(t) \/ \E kind \in Kinds : ResumedReturns(t, kind)
    BY <2>8, ContractInvoke, ContractRecord, ContractReply
  <2>9. QED
    BY <1>7, <2>1, <2>3, <2>4, <2>5, <2>6, <2>7, <2>8 DEF ThreadStep
<1>8. QED
  BY <1>1, <1>4, <1>5, <1>6, <1>7 DEF HostNext, Common

(* The initial states of the host are the contract's. *)
LEMMA ContractInit ==
  ASSUME HostInit
  PROVE  Answer!Init
BY NoneAssumption DEF HostInit, StoreInit, NoRecord, Answer!Init

(* The run host implements the answer contract: whatever the interleaving,
   the accepted answers stay, the provider is invoked with them at most once,
   and the recorded outcome is what it returned. *)
THEOREM HostKeepsAnswerContract == HostSpec => KeepsAnswerContract
<1>1. HostInit => HostInv /\ Answer!Init
  BY HostInvInit, ContractInit
<1>2. HostInv /\ [HostNext]_hostVars => HostInv'
  BY HostInvStep
<1>3. HostInv /\ [HostNext]_hostVars => [Answer!Next]_(Answer!vars)
  BY ContractStep
<1>4. QED
  BY <1>1, <1>2, <1>3, PTL DEF HostSpec, KeepsAnswerContract, Answer!Spec

-----------------------------------------------------------------------------
(***************************************************************************)
(* TurnSpec: a submission comes in a turn of the event loop of its own.    *)
(***************************************************************************)

(* The run in memory and the job row: what is not in memory is not worked on,
   and pendingRef is the interaction that the row is paused on. *)
RunAtRest ==
  /\ ~hosted => pending = None /\ \A t \in Threads : ~Active(t)
  /\ pending # None => status = "questionsPaused" /\ paused = pending
  /\ status = "questionsPaused" => paused \in Operations

(* Where a call chain is says what the job row reads and how far the record of
   its operation has come. *)
Place(t) ==
  LET th == thread[t] IN
  /\ th.pc \in {"submit", "accepted"} => th.op = pending
  /\ th.pc \notin {"idle", "submit", "accepted"} => pending = None /\ status = "running"
  /\ th.pc \in {"accepted", "resolve", "schedule"} => rec[th.op].state = "answersSubmitted"
  /\ th.pc = "settle" => rec[th.op].state = "resumeScheduled"
  /\ th.pc = "claim" => rec[th.op].state = "resumed" /\ th.op \notin claims
  /\ th.pc = "record" /\ th.kind = "questions" => rec[th.next].state \in Unanswered

TurnInv ==
  /\ OneThread
  /\ RunAtRest
  /\ PauseIsAnswerable
  /\ StoreThrows \/ RunningIsDriven
  /\ \A t \in Threads : Place(t)

LEMMA TurnIsHost == [TurnNext]_hostVars => [HostNext]_hostVars
  BY DEF TurnNext, HostNext, TurnSubmission

LEMMA TurnInvInit == HostInit => TurnInv
<1> SUFFICES ASSUME HostInit PROVE TurnInv
  OBVIOUS
<1>1. /\ \A t \in Threads : thread[t].pc = "idle"
      /\ status = "none" /\ pending = None
  BY DEF HostInit, Idle
<1> QED
  BY <1>1 DEF TurnInv, OneThread, RunAtRest, PauseIsAnswerable, RunningIsDriven, Place, Active

(* A boot, and everything else that leaves no call chain behind. *)
LEMMA QuietTurn ==
  ASSUME \A t \in Threads : thread[t].pc = "idle",
         pending # None => status = "questionsPaused" /\ paused = pending,
         status = "questionsPaused" => paused \in Operations,
         PauseIsAnswerable,
         ~hosted => pending = None,
         status # "running"
  PROVE  TurnInv
  BY DEF TurnInv, OneThread, RunAtRest, RunningIsDriven, Place, Active

(* The only call chain moves: nobody else's place can be disturbed. *)
LEMMA AloneKeeps ==
  ASSUME HostInv, TurnInv, NEW t \in Threads, Active(t),
         thread' = [thread EXCEPT ![t] = thread'[t]],
         hosted' = hosted,
         pending' # None => status' = "questionsPaused" /\ paused' = pending',
         status' = "questionsPaused" => paused' \in Operations,
         PauseIsAnswerable', Place(t)',
         StoreThrows \/ status' # "running" \/ thread'[t].pc # "idle"
  PROVE  TurnInv'
<1>1. \A u \in Threads \ {t} : thread'[u].pc = "idle"
  BY DEF HostInv, TurnInv, OneThread, Active
<1>2. OneThread' /\ \A u \in Threads : Place(u)'
  BY <1>1 DEF OneThread, Active, Place
<1>3. hosted'
  BY DEF TurnInv, RunAtRest, HostInv, MemoryOK
<1>4. RunAtRest' /\ (StoreThrows \/ RunningIsDriven')
  BY <1>3 DEF RunAtRest, RunningIsDriven, Active
<1> QED
  BY <1>2, <1>4 DEF TurnInv

(* It ends. *)
LEMMA FailEnds ==
  ASSUME HostInv, TurnInv, NEW t \in Threads, Active(t), Fail(t)
  PROVE  TurnInv'
<1>1. /\ thread' = [thread EXCEPT ![t] = thread'[t]] /\ thread'[t].pc = "idle"
      /\ hosted' = hosted /\ pending' = None /\ status' = "failed"
  BY DEF Fail, Become, Checkpoint, HostInv, Idle
<1> QED
  BY <1>1, AloneKeeps DEF Place, PauseIsAnswerable

LEMMA PauseEnds ==
  ASSUME HostInv, TurnInv, NEW t \in Threads, Active(t), NEW o \in Operations, PauseOn(t, o),
         rec'[o].state \in Unanswered
  PROVE  TurnInv'
<1>1. /\ thread' = [thread EXCEPT ![t] = thread'[t]] /\ thread'[t].pc = "idle"
      /\ hosted' = hosted /\ pending' = o /\ status' = "questionsPaused" /\ paused' = o
  BY DEF PauseOn, Become, Checkpoint, HostInv, Idle
<1> QED
  BY <1>1, AloneKeeps DEF Place, PauseIsAnswerable

(* It goes on, or goes back to the drive, while the job runs. *)
LEMMA GoesOn ==
  ASSUME HostInv, TurnInv, NEW t \in Threads, Active(t), NEW s \in ThreadStates,
         thread[t].pc \notin {"submit", "accepted"}, s.pc \notin {"idle", "submit", "accepted"},
         Become(t, s), UNCHANGED <<jobVars, hosted, pending>>,
         thread' = [thread EXCEPT ![t] = s] => Place(t)'
  PROVE  TurnInv'
<1>1. thread' = [thread EXCEPT ![t] = thread'[t]] /\ thread'[t] = s /\ Place(t)'
  BY DEF Become, HostInv
<1>2. pending = None /\ status = "running" /\ status' = "running" /\ pending' = None
  BY DEF TurnInv, Place, Active, jobVars
<1> QED
  BY <1>1, <1>2, AloneKeeps DEF PauseIsAnswerable

LEMMA DriveGoesOn ==
  ASSUME HostInv, TurnInv, NEW t \in Threads, Active(t), DriveOn(t),
         thread[t].pc \notin {"submit", "accepted"}
  PROVE  TurnInv'
<1> DEFINE s == [Idle EXCEPT !.pc = "drive"]
<1>1. s \in ThreadStates /\ s.pc = "drive"
  BY DEF Idle, ThreadStates, Awaits, Driving, Kinds
<1>2. Become(t, s) /\ UNCHANGED <<jobVars, hosted, pending>>
  BY DEF DriveOn
<1> HIDE DEF s
<1>3. thread' = [thread EXCEPT ![t] = s] => Place(t)'
  BY <1>1, <1>2 DEF HostInv, TurnInv, Place, Active, jobVars
<1> QED
  BY <1>1, <1>2, <1>3, GoesOn

(* absorbRound keeps the order: it ends the call chain or drives on. *)
LEMMA AbsorbKeeps ==
  ASSUME HostInv, TurnInv, NEW t \in Threads, Active(t), NEW kind \in Kinds, Absorb(t, kind),
         thread[t].pc \notin {"submit", "accepted"},
         kind = "questions" => thread[t].next \in Operations /\ rec'[thread[t].next].state \in Unanswered
  PROVE  TurnInv'
<1>1. CASE Fail(t)
  BY <1>1, FailEnds
<1>2. CASE kind = "questions" /\ PauseOn(t, thread[t].next)
  BY <1>2, PauseEnds
<1>3. CASE DriveOn(t)
  BY <1>3, DriveGoesOn
<1>4. CASE Complete(t)
  <2>1. /\ thread' = [thread EXCEPT ![t] = thread'[t]] /\ thread'[t].pc = "idle"
        /\ hosted' = hosted /\ pending' = pending /\ status' = "completed"
    BY <1>4 DEF Complete, Become, Checkpoint, HostInv, Idle
  <2>2. pending = None
    BY DEF TurnInv, Place, Active
  <2> QED
    BY <2>1, <2>2, AloneKeeps DEF Place, PauseIsAnswerable
<1>5. Fail(t) \/ (kind = "questions" /\ PauseOn(t, thread[t].next)) \/ DriveOn(t) \/ Complete(t)
  <2>1. CASE kind = "questions"
    BY <2>1 DEF Absorb
  <2>2. CASE kind = "retryable"
    BY <2>2 DEF Absorb, Retry
  <2>3. CASE kind \in {"planDone", "stageDone"}
    BY <2>3 DEF Absorb
  <2>4. CASE kind \in {"more", "none", "fatal"}
    BY <2>4 DEF Absorb
  <2> QED
    BY <2>1, <2>2, <2>3, <2>4 DEF Kinds, Failures
<1> QED
  BY <1>1, <1>2, <1>3, <1>4, <1>5

(* The drive of a round. *)
LEMMA DriveKeeps ==
  ASSUME HostInv, TurnInv, NEW t \in Threads,
         RunRound(t) \/ ExhaustBudget(t) \/ PostQuestions(t) \/ Discard(t)
           \/ \E kind \in Kinds : ProviderReturns(t, kind)
  PROVE  TurnInv'
<1>1. /\ thread \in [Threads -> ThreadStates] /\ thread[t] \in ThreadStates /\ ThreadOK(t)
      /\ Active(t) /\ thread[t].pc \notin {"submit", "accepted"}
      /\ pending = None /\ status = "running"
  BY DEF HostInv, TurnInv, Place, Active, RunRound, ExhaustBudget, PostQuestions, Discard,
     ProviderReturns
<1>2. CASE RunRound(t)
  <2>1. PICK o \in Operations :
          Become(t, [Idle EXCEPT !.pc = "provider", !.op = o])
    BY <1>2 DEF RunRound
  <2> DEFINE s == [Idle EXCEPT !.pc = "provider", !.op = o]
  <2>2. s \in ThreadStates /\ s.pc = "provider"
    BY DEF Idle, ThreadStates, Awaits, Driving, Kinds
  <2>3. Become(t, s) /\ UNCHANGED <<jobVars, hosted, pending>>
    BY <1>2, <2>1 DEF RunRound
  <2> HIDE DEF s
  <2>4. thread' = [thread EXCEPT ![t] = s] => Place(t)'
    BY <1>1, <2>2, <2>3 DEF Place, jobVars
  <2> QED
    BY <1>1, <2>2, <2>3, <2>4, GoesOn
<1>3. CASE ExhaustBudget(t)
  BY <1>1, <1>3, FailEnds DEF ExhaustBudget
<1>4. CASE PostQuestions(t)
  <2>1. thread[t].op \in Operations /\ thread[t].next = thread[t].op
    BY <1>1, <1>4 DEF PostQuestions, ThreadOK
  <2>2. rec'[thread[t].op].state = "questionsPosted"
    BY <1>4, <2>1 DEF PostQuestions, Begin, Write, HostInv, StoreInv, StoreTypeOK, Records
  <2> QED
    BY <1>1, <1>4, <2>1, <2>2, AbsorbKeeps DEF PostQuestions, Kinds, Unanswered
<1>5. CASE Discard(t)
  <2>1. thread[t].kind \in Kinds /\ thread[t].kind # "questions"
    BY <1>1, <1>5 DEF Discard, ThreadOK, ThreadStates
  <2> QED
    BY <1>1, <1>5, <2>1, AbsorbKeeps DEF Discard
<1>6. CASE \E kind \in Kinds : ProviderReturns(t, kind)
  <2>1. PICK kind \in Kinds : ProviderReturns(t, kind)
    BY <1>6
  <2> DEFINE s == [thread[t] EXCEPT !.pc = IF kind = "questions" THEN "post" ELSE "discard",
                                    !.kind = kind, !.next = thread[t].op]
  <2>2. s \in ThreadStates /\ s.pc \in {"post", "discard"}
    BY <1>1 DEF ThreadStates, Awaits, Driving
  <2>3. Become(t, s) /\ UNCHANGED <<jobVars, hosted, pending>>
    BY <2>1 DEF ProviderReturns, runVars
  <2> HIDE DEF s
  <2>4. thread' = [thread EXCEPT ![t] = s] => Place(t)'
    BY <1>1, <2>2, <2>3 DEF Place, jobVars
  <2> QED
    BY <1>1, <2>2, <2>3, <2>4, GoesOn
<1> QED
  BY <1>2, <1>3, <1>4, <1>5, <1>6

(* A submission, while the job is paused on its interaction. *)
LEMMA SubmissionKeeps ==
  ASSUME HostInv, TurnInv, NEW t \in Threads, SubmitToStore(t) \/ Accept(t)
  PROVE  TurnInv'
<1> DEFINE o == thread[t].op
<1>1. /\ thread \in [Threads -> ThreadStates] /\ thread[t] \in ThreadStates /\ ThreadOK(t)
      /\ Active(t) /\ Place(t) /\ thread[t].pc \in {"submit", "accepted"}
      /\ RunAtRest /\ PauseIsAnswerable
      /\ rec \in [Operations -> Records]
  BY DEF HostInv, StoreInv, StoreTypeOK, TurnInv, Active, SubmitToStore, Accept
<1>2. o \in Operations /\ o = pending /\ status = "questionsPaused" /\ paused = o
  BY <1>1, NoneAssumption DEF ThreadOK, Place, RunAtRest
<1>3. rec[o].state \in Unanswered \cup {"answersSubmitted"}
  BY <1>1, <1>2 DEF PauseIsAnswerable
<1>4. CASE SubmitToStore(t)
  <2>1. /\ UNCHANGED <<jobVars, runVars>>
        /\ thread' = [thread EXCEPT ![t] = thread'[t]]
        /\ \/ thread'[t].pc = "idle" /\ rec' = rec
           \/ /\ thread'[t] = [thread[t] EXCEPT !.pc = "accepted"]
              /\ \/ SubmitAnswers(o, thread[t].answers, thread[t].id)
                 \/ Answered(o, thread[t].answers) /\ rec' = rec
    BY <1>1, <1>4 DEF SubmitToStore, Goto, Become, Idle, storeVars
  <2>2. rec'[o].state \in Unanswered \cup {"answersSubmitted"}
    <3>1. CASE rec' = rec
      BY <1>3, <3>1
    <3>2. CASE SubmitAnswers(o, thread[t].answers, thread[t].id)
      BY <1>1, <1>2, <3>2 DEF SubmitAnswers, Write, Records
    <3> QED
      BY <2>1, <3>1, <3>2
  <2>3. thread'[t].pc = "accepted" => thread'[t].op = o /\ rec'[o].state = "answersSubmitted"
    <3>1. ASSUME Answered(o, thread[t].answers) PROVE rec[o].state = "answersSubmitted"
      BY <1>2, <1>3, <3>1 DEF Answered, HostInv, StoreInv, Progress
    <3>2. ASSUME SubmitAnswers(o, thread[t].answers, thread[t].id)
          PROVE  rec'[o].state = "answersSubmitted"
      BY <1>1, <1>2, <3>2 DEF SubmitAnswers, Write, Records
    <3> QED
      BY <1>1, <2>1, <3>1, <3>2 DEF ThreadStates, Idle
  <2>4. thread'[t].pc \in {"idle", "accepted"}
    BY <1>1, <2>1 DEF ThreadStates
  <2>5. Place(t)'
    BY <1>2, <2>1, <2>3, <2>4 DEF Place, runVars
  <2>6. PauseIsAnswerable'
    <3>1. paused' = o
      BY <1>2, <2>1 DEF jobVars
    <3> QED
      BY <2>2, <3>1 DEF PauseIsAnswerable
  <2> QED
    BY <1>1, <1>2, <2>1, <2>5, <2>6, AloneKeeps DEF jobVars, runVars
<1>5. CASE Accept(t)
  <2> DEFINE s == [thread[t] EXCEPT !.pc = "resolve", !.answers = rec[o].answers]
  <2>1. s.pc = "resolve" /\ s.op = o
    BY <1>1 DEF ThreadStates
  <2>2. /\ thread' = [thread EXCEPT ![t] = s] /\ thread'[t] = s
        /\ UNCHANGED <<rec, hosted>> /\ pending' = None /\ status' = "running"
    BY <1>1, <1>5 DEF Accept, Become, Checkpoint, storeVars
  <2>3. rec[o].state = "answersSubmitted"
    BY <1>1, <1>5 DEF Place, Accept
  <2> HIDE DEF s
  <2> QED
    BY <1>1, <2>1, <2>2, <2>3, AloneKeeps DEF Place, PauseIsAnswerable
<1> QED
  BY <1>4, <1>5

(* The resume up to the claim: each await finds the record as the one before
   left it, so the claim is the first. *)
LEMMA ResumeKeeps ==
  ASSUME HostInv, TurnInv, NEW t \in Threads,
         ResolveResume(t) \/ Schedule(t) \/ Settle(t) \/ ClaimAndInvoke(t) \/ FindClaimed(t)
  PROVE  TurnInv'
<1> DEFINE o == thread[t].op
<1>1. /\ thread \in [Threads -> ThreadStates] /\ thread[t] \in ThreadStates /\ ThreadOK(t)
      /\ Active(t) /\ Place(t) /\ thread[t].pc \in Resuming
      /\ rec \in [Operations -> Records]
      /\ GrantIsEarned
  BY DEF HostInv, StoreInv, StoreTypeOK, TurnInv, Active, Resuming, ResolveResume, Schedule,
     Settle, ClaimAndInvoke, FindClaimed
<1>2. o \in Operations /\ pending = None /\ status = "running"
  BY <1>1 DEF ThreadOK, Place, Resuming
<1>3. ASSUME NEW a \in {"schedule", "settle", "claim", "resumed"}, NEW id \in Ids \cup {None},
             Become(t, [thread[t] EXCEPT !.pc = a, !.id = id]),
             UNCHANGED <<jobVars, runVars>>,
             a = "schedule" => rec'[o].state = "answersSubmitted",
             a = "settle" => rec'[o].state = "resumeScheduled",
             a = "claim" => rec'[o].state = "resumed" /\ o \notin claims'
      PROVE  TurnInv'
  <2> DEFINE s == [thread[t] EXCEPT !.pc = a, !.id = id]
  <2>1. s \in ThreadStates /\ s.pc = a /\ s.op = o
    BY <1>1 DEF ThreadStates, Awaits, Quick
  <2>2. Become(t, s)
    BY <1>3
  <2> HIDE DEF s
  <2>3. thread' = [thread EXCEPT ![t] = s] => Place(t)'
    BY <1>1, <1>2, <1>3, <2>1 DEF Place, jobVars, runVars
  <2>4. thread[t].pc \notin {"submit", "accepted"} /\ s.pc \notin {"idle", "submit", "accepted"}
    BY <1>1, <2>1 DEF Resuming
  <2> QED
    BY <1>1, <1>3, <2>1, <2>2, <2>3, <2>4, GoesOn DEF runVars
<1>4. \A a \in Awaits : Goto(t, a) => Become(t, [thread[t] EXCEPT !.pc = a, !.id = thread[t].id])
  <2>1. \A a \in Awaits :
          [thread[t] EXCEPT !.pc = a, !.id = thread[t].id] = [thread[t] EXCEPT !.pc = a]
    BY <1>1 DEF ThreadStates
  <2> QED
    BY <2>1 DEF Goto
<1>5. thread[t].id \in Ids \cup {None} /\ {"schedule", "settle", "claim", "resumed"} \subseteq Awaits
  BY <1>1 DEF ThreadStates, Awaits, Quick
<1>6. CASE ResolveResume(t)
  <2>1. rec[o].state = "answersSubmitted" /\ rec' = rec
    BY <1>1, <1>6 DEF Place, ResolveResume, storeVars
  <2>2. Become(t, [thread[t] EXCEPT !.pc = "schedule", !.id = thread[t].id])
        /\ UNCHANGED <<jobVars, runVars>>
    BY <1>6, <2>1 DEF ResolveResume, Settled
  <2> QED
    BY <1>3, <1>5, <2>1, <2>2
<1>7. CASE Schedule(t)
  <2>1. rec[o].state = "answersSubmitted"
    BY <1>1, <1>7 DEF Place, Schedule
  <2>2. CASE Fail(t)
    BY <1>1, <2>2, FailEnds
  <2>3. CASE ScheduleResume(o, thread[t].id) /\ Goto(t, "settle") /\ UNCHANGED <<jobVars, runVars>>
    <3>1. rec'[o].state = "resumeScheduled"
      BY <1>1, <1>2, <2>3 DEF ScheduleResume, Write, Records
    <3> QED
      BY <1>3, <1>4, <1>5, <2>3, <3>1
  <2> QED
    BY <1>7, <2>1, <2>2, <2>3 DEF Schedule, Scheduled
<1>8. CASE Settle(t)
  <2>1. rec[o].state = "resumeScheduled"
    BY <1>1, <1>8 DEF Place, Settle
  <2>2. SettleResumed(o) /\ Goto(t, "claim") /\ UNCHANGED <<jobVars, runVars>>
    BY <1>8, <2>1 DEF Settle
  <2>3. rec'[o].state = "resumed" /\ claims' = claims
    BY <1>1, <1>2, <2>2 DEF SettleResumed, Write, Records
  <2>4. o \notin claims
    BY <1>1, <1>2, <2>1 DEF GrantIsEarned
  <2> QED
    BY <1>3, <1>4, <1>5, <2>2, <2>3, <2>4
<1>9. CASE ClaimAndInvoke(t)
  BY <1>3, <1>4, <1>5, <1>9 DEF ClaimAndInvoke
<1>10. CASE FindClaimed(t)
  BY <1>1, <1>2, <1>10 DEF FindClaimed, Place, AlreadyClaimed, GrantIsEarned
<1> QED
  BY <1>6, <1>7, <1>8, <1>9, <1>10

(* What follows the resumed invocation. *)
LEMMA InvocationKeeps ==
  ASSUME HostInv, TurnInv, NEW t \in Threads,
         ResumedThrows(t) \/ PostFollowUp(t) \/ RecordOutcome(t)
           \/ \E kind \in Kinds : ResumedReturns(t, kind)
  PROVE  TurnInv'
<1>1. /\ thread \in [Threads -> ThreadStates] /\ thread[t] \in ThreadStates /\ ThreadOK(t)
      /\ Active(t) /\ Place(t) /\ thread[t].pc \in Invoking
      /\ thread[t].pc \notin {"submit", "accepted"}
      /\ rec \in [Operations -> Records]
  BY DEF HostInv, StoreInv, StoreTypeOK, TurnInv, Active, Invoking, ResumedThrows, PostFollowUp,
     RecordOutcome, ResumedReturns
<1>2. pending = None /\ status = "running"
  BY <1>1 DEF Place, Invoking
<1>3. CASE ResumedThrows(t)
  BY <1>1, <1>3, FailEnds DEF ResumedThrows
<1>4. CASE PostFollowUp(t)
  <2>1. PICK o \in Operations :
          Begin(o) /\ Become(t, [thread[t] EXCEPT !.pc = "record", !.next = o])
    BY <1>4 DEF PostFollowUp
  <2> DEFINE s == [thread[t] EXCEPT !.pc = "record", !.next = o]
  <2>2. s \in ThreadStates /\ s.pc = "record" /\ s.next = o
    BY <1>1 DEF ThreadStates, Awaits
  <2>3. rec'[o].state = "questionsPosted"
    BY <1>1, <2>1 DEF Begin, Write, Records
  <2>4. Become(t, s) /\ UNCHANGED <<jobVars, hosted, pending>>
    BY <1>4, <2>1 DEF PostFollowUp, runVars
  <2> HIDE DEF s
  <2>5. thread' = [thread EXCEPT ![t] = s] => Place(t)'
    BY <1>1, <1>2, <2>2, <2>3, <2>4 DEF Place, Unanswered, jobVars
  <2> QED
    BY <1>1, <2>2, <2>4, <2>5, GoesOn
<1>5. CASE RecordOutcome(t)
  <2>1. thread[t].kind \in Kinds /\ thread[t].op \in Operations
    BY <1>1 DEF ThreadStates, ThreadOK, Invoking
  <2>2. thread[t].kind = "questions" =>
          thread[t].next \in Operations /\ rec[thread[t].next].state \in Unanswered
    BY <1>1, <1>5 DEF ThreadOK, Place, RecordOutcome
  <2>3. thread[t].kind = "questions" => rec'[thread[t].next].state \in Unanswered
    BY <1>1, <1>5, <2>1, <2>2
       DEF RecordOutcome, RecordResumeInvocationOutcome, Recordable, Write, storeVars, Records
  <2> QED
    BY <1>1, <1>5, <2>1, <2>2, <2>3, AbsorbKeeps DEF RecordOutcome
<1>6. CASE \E kind \in Kinds : ResumedReturns(t, kind)
  <2>1. PICK kind \in Kinds : ResumedReturns(t, kind)
    BY <1>6
  <2> DEFINE s == [thread[t] EXCEPT !.pc = IF kind = "questions" THEN "followUp" ELSE "record",
                                    !.kind = kind]
  <2>2. /\ s \in ThreadStates /\ s.pc \in {"followUp", "record"}
        /\ s.pc = "record" => s.kind # "questions"
    BY <1>1 DEF ThreadStates, Awaits
  <2>3. Become(t, s) /\ UNCHANGED <<jobVars, hosted, pending>>
    BY <2>1 DEF ResumedReturns, runVars
  <2> HIDE DEF s
  <2>4. thread' = [thread EXCEPT ![t] = s] => Place(t)'
    BY <1>1, <1>2, <2>2, <2>3 DEF Place, jobVars
  <2> QED
    BY <1>1, <2>2, <2>3, <2>4, GoesOn
<1> QED
  BY <1>3, <1>4, <1>5, <1>6

(* A store call that throws ends the call chain. *)
LEMMA ThrowKeeps ==
  ASSUME HostInv, TurnInv, NEW t \in Threads, Throw(t) \/ ThrowInClaim(t)
  PROVE  TurnInv'
<1>1. /\ thread \in [Threads -> ThreadStates] /\ Active(t) /\ StoreThrows
      /\ RunAtRest /\ PauseIsAnswerable
  BY DEF HostInv, TurnInv, Active, Throw, ThrowInClaim, Quick
<1>2. CASE Fail(t)
  BY <1>1, <1>2, FailEnds
<1>3. CASE ~Fail(t)
  <2>1. /\ thread' = [thread EXCEPT ![t] = thread'[t]] /\ thread'[t].pc = "idle"
        /\ UNCHANGED <<rec, jobVars, hosted>> /\ (pending' = pending \/ pending' = None)
    BY <1>1, <1>3 DEF Throw, ThrowInClaim, ClaimWithoutMirror, Become, Idle, storeVars, runVars
  <2>2. Place(t)' /\ PauseIsAnswerable'
    BY <1>1, <2>1 DEF Place, PauseIsAnswerable, jobVars
  <2> QED
    BY <1>1, <2>1, <2>2, AloneKeeps DEF RunAtRest, jobVars
<1> QED
  BY <1>2, <1>3

(* start, a run rebuilt, and a boot. *)
LEMMA StartKeeps ==
  ASSUME HostInv, TurnInv, Start \/ Rehydrate
  PROVE  TurnInv'
<1>1. /\ \A t \in Threads : thread[t].pc = "idle"
      /\ pending = None /\ RunAtRest /\ PauseIsAnswerable
      /\ thread \in [Threads -> ThreadStates]
  BY DEF HostInv, TurnInv, RunAtRest, Active, Start, Rehydrate
<1>2. CASE Start
  <2>1. /\ thread'[Starter].pc = "drive" /\ hosted' /\ status' = "running" /\ pending' = None
        /\ \A t \in Threads \ {Starter} : thread'[t].pc = "idle"
        /\ Starter \in Threads
    BY <1>1, <1>2 DEF Start, Become, Checkpoint, Idle, Threads
  <2> QED
    BY <2>1 DEF TurnInv, OneThread, RunAtRest, PauseIsAnswerable, RunningIsDriven, Place, Active
<1>3. CASE Rehydrate
  <2>1. /\ \A t \in Threads : thread'[t].pc = "idle"
        /\ hosted' /\ pending' = paused /\ status = "questionsPaused"
        /\ UNCHANGED <<rec, status, paused>>
    BY <1>1, <1>3 DEF Rehydrate, storeVars, jobVars
  <2> QED
    BY <1>1, <2>1, QuietTurn DEF TurnInv, OneThread, RunAtRest, PauseIsAnswerable,
       RunningIsDriven, Place, Active
<1> QED
  BY <1>2, <1>3

LEMMA RebootTurns ==
  ASSUME HostInv, TurnInv, Reboot, rec' = rec
  PROVE  TurnInv'
<1>1. /\ \A t \in Threads : thread'[t].pc = "idle"
      /\ pending' = None
      /\ status' # "running"
      /\ status' = "questionsPaused" => UNCHANGED <<status, paused>>
  BY DEF Reboot, Reconcile, Checkpoint, jobVars, Idle
<1>2. RunAtRest /\ PauseIsAnswerable
  BY DEF TurnInv
<1> QED
  BY <1>1, <1>2 DEF TurnInv, OneThread, RunAtRest, PauseIsAnswerable, RunningIsDriven, Place, Active

(* A submission that comes when no other is with the store finds the run at
   rest, paused on its interaction. *)
LEMMA ArrivalKeeps ==
  ASSUME HostInv, TurnInv, NEW t \in Requests, TurnSubmission(t)
  PROVE  TurnInv'
<1>1. PICK o \in Operations, a \in Answers, id \in Ids : Submit(t, o, a, id)
  BY DEF TurnSubmission, Submission
<1>2. /\ thread \in [Threads -> ThreadStates] /\ t \in Threads /\ o # None
      /\ RunAtRest /\ PauseIsAnswerable /\ \A u \in Threads : Place(u)
  BY NoneAssumption DEF HostInv, TurnInv, Threads
<1>3. status = "questionsPaused" /\ paused = o
  BY <1>1, <1>2 DEF Submit, Rehydrated, RunAtRest
<1>4. \A u \in Threads : thread[u].pc = "idle"
  <2> SUFFICES ASSUME NEW u \in Threads, thread[u].pc # "idle" PROVE FALSE
    OBVIOUS
  <2>1. thread[u].pc \notin {"submit", "accepted"}
    BY DEF TurnSubmission, Quick
  <2> QED
    BY <1>2, <1>3, <2>1 DEF Place
<1>5. /\ thread'[t].pc = "submit" /\ thread'[t].op = o
      /\ \A u \in Threads \ {t} : thread'[u].pc = "idle"
      /\ hosted' /\ pending' = o /\ UNCHANGED <<rec, status, paused>>
  BY <1>1, <1>2, <1>4 DEF Submit, Become, Idle, storeVars, jobVars
<1> QED
  BY <1>2, <1>3, <1>5
     DEF TurnInv, OneThread, RunAtRest, PauseIsAnswerable, RunningIsDriven, Place, Active

LEMMA TurnInvStep ==
  ASSUME HostInv, TurnInv, [TurnNext]_hostVars
  PROVE  TurnInv'
<1>1. CASE UNCHANGED hostVars
  BY <1>1 DEF hostVars, storeVars, jobVars, runVars, TurnInv, OneThread, RunAtRest,
     PauseIsAnswerable, RunningIsDriven, Place, Active
<1>2. CASE Start \/ Rehydrate
  BY <1>2, StartKeeps
<1>3. CASE Restart \/ \E t \in Threads : RestartInClaim(t)
  BY <1>3, RebootTurns DEF Restart, RestartInClaim, ClaimWithoutMirror, storeVars
<1>4. ASSUME NEW t \in Threads, ThreadStep(t) PROVE TurnInv'
  BY <1>4, DriveKeeps, SubmissionKeeps, ResumeKeeps, InvocationKeeps DEF ThreadStep
<1>5. ASSUME NEW t \in Threads, Throw(t) \/ ThrowInClaim(t) PROVE TurnInv'
  BY <1>5, ThrowKeeps
<1>6. ASSUME NEW t \in Requests, TurnSubmission(t) PROVE TurnInv'
  BY <1>6, ArrivalKeeps
<1> QED
  BY <1>1, <1>2, <1>3, <1>4, <1>5, <1>6 DEF TurnNext, Common

(* The invariant of the host in turns, next to that of every interleaving. *)
THEOREM TurnSafe == TurnSpec => [](HostInv /\ TurnInv)
<1>1. HostInit => HostInv /\ TurnInv
  BY HostInvInit, TurnInvInit
<1>2. HostInv /\ TurnInv /\ [TurnNext]_hostVars => HostInv' /\ TurnInv'
  BY HostInvStep, TurnIsHost, TurnInvStep
<1> QED
  BY <1>1, <1>2, PTL DEF TurnSpec

(* One call chain at a time works on the run: no continuation overtakes
   another, whatever was submitted, thrown or restarted. *)
THEOREM OneChainAtATime == TurnSpec => []OneThread
<1>1. TurnInv => OneThread
  BY DEF TurnInv
<1> QED
  BY <1>1, TurnSafe, PTL

(* A run that has ended has no invocation of the provider under way. *)
THEOREM EndedRunIsQuiet == TurnSpec => []EndedIsQuiet
<1>1. TurnInv => EndedIsQuiet
  BY DEF TurnInv, Place, EndedIsQuiet
<1> QED
  BY <1>1, TurnSafe, PTL

(* A paused run waits on an interaction that can be taken up again. *)
THEOREM PausedRunIsAnswerable == TurnSpec => []PauseIsAnswerable
<1>1. TurnInv => PauseIsAnswerable
  BY DEF TurnInv
<1> QED
  BY <1>1, TurnSafe, PTL

(* Unless a store call throws, a job that reads running is worked on. *)
THEOREM RunningRunIsDriven ==
  ASSUME ~StoreThrows
  PROVE  TurnSpec => []RunningIsDriven
<1>1. TurnInv => RunningIsDriven
  BY DEF TurnInv
<1> QED
  BY <1>1, TurnSafe, PTL
=============================================================================
