--------------------------- MODULE ChatTransactions ---------------------------
(***************************************************************************)
(* The engine's chat-interaction transaction store: one record for each    *)
(* operation whose provider asked the user something, and the registry of  *)
(* invocation-once claims. Every mutation of a record is serialized and    *)
(* durable before it returns, so an operation of the store is one step; its*)
(* guard is what the code checks before it writes. A refused or duplicate  *)
(* call writes nothing: callers ask the predicates Answered, Scheduled and *)
(* AlreadyClaimed which of the two it was.                                 *)
(*                                                                         *)
(* Settled records are split by what they are settled with: "resumed" holds*)
(* a Resume resolution, "closed" none (cancelled, expired, timed out,      *)
(* interrupted).                                                           *)
(***************************************************************************)
EXTENDS Naturals

CONSTANTS
  Operations,   \* operation ids (each with its one interaction)
  Answers,      \* canonical answer sets
  Ids,          \* idempotency ids, of answers and of Resumes
  None

ASSUME NoneAssumption == None \notin Operations \cup Answers \cup Ids

VARIABLES
  rec,          \* per operation: its record
  claims,       \* backend: operations whose resumed invocation is claimed
  grants        \* per operation: callers told to invoke the provider, 2 for more than one

storeVars == <<rec, claims, grants>>

Unanswered == {"questionsPosted", "answersDraft"}
Unsettled == {"invocationPending", "answersSubmitted", "resumeScheduled"} \cup Unanswered
Settled == {"resumed", "closed"}
States == {"missing"} \cup Unsettled \cup Settled
Outcomes == {"questions", "completed", "failed"}

Records ==
  [state: States, answers: Answers \cup {None}, answerId: Ids \cup {None},
   resumeId: Ids \cup {None}, claimedAt: BOOLEAN, outcome: Outcomes \cup {"none"}]

NoRecord ==
  [state |-> "missing", answers |-> None, answerId |-> None,
   resumeId |-> None, claimedAt |-> FALSE, outcome |-> "none"]

StoreTypeOK ==
  /\ rec \in [Operations -> Records]
  /\ claims \subseteq Operations
  /\ grants \in [Operations -> 0..2]

StoreInit ==
  /\ rec = [o \in Operations |-> NoRecord]
  /\ claims = {}
  /\ grants = [o \in Operations |-> 0]

-----------------------------------------------------------------------------
(* The store's operations. *)

Write(o, r) == rec' = [rec EXCEPT ![o] = r]

BeginInvocation(o) ==
  /\ rec[o].state = "missing"
  /\ Write(o, [NoRecord EXCEPT !.state = "invocationPending"])
  /\ UNCHANGED <<claims, grants>>

(* begin: posts the questions of an admitted record, or of a fresh one. *)
Postable(o) == rec[o].state \in {"missing", "invocationPending"}

Begin(o) ==
  /\ Postable(o)
  /\ Write(o, [rec[o] EXCEPT !.state = "questionsPosted"])
  /\ UNCHANGED <<claims, grants>>

(* Mutant of DiscardPendingInvocation: the record is marked, not deleted. *)
MarkDiscarded(o) ==
  /\ rec[o].state = "invocationPending"
  /\ Write(o, [NoRecord EXCEPT !.state = "discarded"])
  /\ UNCHANGED <<claims, grants>>

DiscardPendingInvocation(o) ==
  /\ rec[o].state = "invocationPending"
  /\ Write(o, NoRecord)
  /\ UNCHANGED <<claims, grants>>

SaveAnswersDraft(o, a) ==
  /\ rec[o].state \in Unanswered
  /\ Write(o, [rec[o] EXCEPT !.state = "answersDraft", !.answers = a])
  /\ UNCHANGED <<claims, grants>>

(* The same canonical answers again, under whatever id: a duplicate. *)
Answered(o, a) == rec[o].answerId # None /\ rec[o].answers = a

(* Mutant of Submittable: an accepted answer can be replaced. *)
SubmittableAgain(o) == rec[o].state \in Unanswered \cup {"answersSubmitted"}

Submittable(o) == rec[o].answerId = None /\ rec[o].state \in Unanswered

SubmitAnswers(o, a, id) ==
  /\ Submittable(o)
  /\ Write(o, [rec[o] EXCEPT !.state = "answersSubmitted", !.answers = a, !.answerId = id])
  /\ UNCHANGED <<claims, grants>>

(* The same Resume again, while it is only scheduled: a duplicate. *)
Scheduled(o, id) == rec[o].resumeId = id /\ rec[o].state = "resumeScheduled"

(* Mutant of Schedulable: answers need not have been submitted. *)
SchedulableUnanswered(o) ==
  rec[o].resumeId = None /\ rec[o].state \in Unanswered \cup {"answersSubmitted"}

Schedulable(o) == rec[o].resumeId = None /\ rec[o].state = "answersSubmitted"

ScheduleResume(o, id) ==
  /\ Schedulable(o)
  /\ Write(o, [rec[o] EXCEPT !.state = "resumeScheduled", !.resumeId = id])
  /\ UNCHANGED <<claims, grants>>

SettleResumed(o) ==
  /\ rec[o].state = "resumeScheduled"
  /\ Write(o, [rec[o] EXCEPT !.state = "resumed"])
  /\ UNCHANGED <<claims, grants>>

(* Mutant of AlreadyClaimed: a claim without an outcome counts as abandoned. *)
ClaimedAndOver(o) == rec[o].outcome # "none"

AlreadyClaimed(o) == rec[o].claimedAt \/ o \in claims

Claimable(o) == rec[o].state = "resumed" /\ ~AlreadyClaimed(o)

(* claimResumeInvocation: the registry's check-and-set, then its mirror in
   the record. Only a caller that is not answered "duplicate" may invoke. *)
ClaimResumeInvocation(o) ==
  /\ Claimable(o)
  /\ claims' = claims \cup {o}
  /\ Write(o, [rec[o] EXCEPT !.claimedAt = TRUE])
  /\ grants' = [grants EXCEPT ![o] = IF @ = 0 THEN 1 ELSE 2]

(* A claim that ends, by a crash or a throw, between its two writes. *)
ClaimWithoutMirror(o) ==
  /\ Claimable(o)
  /\ claims' = claims \cup {o}
  /\ UNCHANGED <<rec, grants>>

(* Mutant of Recordable: the last outcome is kept. *)
RecordableAgain(o) == rec[o].state = "resumed" /\ rec[o].claimedAt

Recordable(o) ==
  rec[o].state = "resumed" /\ rec[o].claimedAt /\ rec[o].outcome = "none"

RecordResumeInvocationOutcome(o, x) ==
  /\ Recordable(o)
  /\ Write(o, [rec[o] EXCEPT !.outcome = x])
  /\ UNCHANGED <<claims, grants>>

(* cancel, expire, settleInvocation. *)
SettleTerminal(o) ==
  /\ rec[o].state \in Unsettled
  /\ Write(o, [rec[o] EXCEPT !.state = "closed"])
  /\ UNCHANGED <<claims, grants>>

StoreNext ==
  \E o \in Operations :
    \/ BeginInvocation(o) \/ Begin(o) \/ DiscardPendingInvocation(o)
    \/ \E a \in Answers : SaveAnswersDraft(o, a) \/ (\E id \in Ids : SubmitAnswers(o, a, id))
    \/ \E id \in Ids : ScheduleResume(o, id)
    \/ SettleResumed(o) \/ ClaimResumeInvocation(o) \/ ClaimWithoutMirror(o)
    \/ \E x \in Outcomes : RecordResumeInvocationOutcome(o, x)
    \/ SettleTerminal(o)

(* Any clients, calling any operation at any time. *)
StoreSpec == StoreInit /\ [][StoreNext]_storeVars

-----------------------------------------------------------------------------
(* The invocation-once claim: of all the callers that ever claim the resumed
   invocation of an operation, before and after a crash that lost half of a
   claim, at most one is told to invoke the provider. *)
OneGrant == \A o \in Operations : grants[o] < 2

(* No step of a transaction is skipped: whoever may invoke the provider does
   so for an operation whose answers were accepted and whose Resume is
   recorded and settled, and only a mirrored claim has an outcome. *)
GrantIsEarned ==
  \A o \in Operations :
    /\ grants[o] # 0 => o \in claims
    /\ o \in claims => rec[o].state = "resumed"
    /\ rec[o].claimedAt => o \in claims
    /\ rec[o].outcome # "none" => rec[o].claimedAt
    /\ rec[o].state = "resumed" => rec[o].answerId # None /\ rec[o].resumeId # None

(* What was acknowledged is never taken back: an accepted answer and its id,
   the id of a Resume, the settlement, a claim and its first outcome stay,
   and a record with posted questions never disappears. *)
Kept(old, new) ==
  /\ old.answerId # None => new.answers = old.answers /\ new.answerId = old.answerId
  /\ old.resumeId # None => new.resumeId = old.resumeId
  /\ old.state \in Settled => new.state = old.state
  /\ old.state \notin {"missing", "invocationPending"}
       => new.state \notin {"missing", "invocationPending"}
  /\ old.claimedAt => new.claimedAt
  /\ old.outcome # "none" => new.outcome = old.outcome

NothingTakenBack ==
  [][\A o \in Operations : Kept(rec[o], rec[o]') /\ (o \in claims => o \in claims')]_storeVars
=============================================================================
