------------------------- MODULE GateMachineryProofs -------------------------
(***************************************************************************)
(* Theorems about GateMachinery, for any number of workers, drives, gates  *)
(* and steps: first about Spec, whatever the effects' replay and reconcile *)
(* behaviour; then about TimelySpec, where a lease never runs out under a  *)
(* running drive, with one drive per process and final "notExecuted"       *)
(* answers.                                                                *)
(***************************************************************************)
EXTENDS GateMachinery, TLAPS

USE DEF Outcomes, Terminal, Decisions

-----------------------------------------------------------------------------
(* Type correctness. *)

LEMMA TypeInit == Init => TypeOK
<1> SUFFICES ASSUME Init PROVE TypeOK
  OBVIOUS
<1>1. /\ gate \in [Gates -> GateStates]
      /\ resumed \in [Gates -> BOOLEAN]
      /\ reofferOf \in [Gates -> Scopes \cup {NoScope}]
      /\ attempt \in [Scopes -> AttemptStates]
      /\ holder \in Workers \cup {NoWorker}
      /\ live \in BOOLEAN
  BY DEF Init, GateStates, AttemptStates
<1>2. /\ pc \in [Calls -> Awaits]
      /\ scope \in [Calls -> Scopes \cup {NoScope}]
      /\ seen \in [Calls -> BOOLEAN]
      /\ outcome \in [Calls -> Outcomes]
      /\ result \in [Calls -> Results]
  BY DEF Init, Awaits, Results
<1>3. runs \in [Scopes -> 0..2] /\ adrift \in [Scopes -> SUBSET Calls]
  BY DEF Init
<1> QED
  BY <1>1, <1>2, <1>3 DEF TypeOK

(* An await of a drive, whichever process makes it. *)
LEMMA TypeAwait ==
  ASSUME TypeOK, Scoped, NEW c \in Calls, AwaitStep(c)
  PROVE  TypeOK'
<1> USE DEF TypeOK, Goto, Return, gateVars, leaseVars, driveVars, platformVars
<1>0. scope[c] \in Scopes /\ (pc[c] \in {"readGate", "consume"} => scope[c] \in Gates)
  BY DEF Scoped, ScopedDrive, AwaitStep, ReadGate, ReadAttempts, Begin, Refuse, Run, Answer, Complete,
         Reconcile, MarkIndeterminate, Consume, FindReoffer, CreateReoffer, Release
<1>1. CASE ReadGate(c)
  BY <1>0, <1>1 DEF ReadGate, Awaits, Results
<1>2. CASE ReadAttempts(c)
  BY <1>2 DEF ReadAttempts, RecoverOpen, FoundTerminal, FoundNone, Settle, Awaits, Results
<1>3. CASE Begin(c)
  BY <1>3 DEF Begin, Awaits, Results, AttemptStates
<1>4. CASE Refuse(c)
  BY <1>4 DEF Refuse, Awaits
<1>5. CASE Run(c)
  BY <1>0, <1>5 DEF Run, OneMore, Awaits
<1>6. CASE \E o \in Outcomes : Answer(c, o)
  BY <1>6 DEF Answer, Awaits
<1>7. CASE Complete(c)
  BY <1>7 DEF Complete, FirstTerminal, Settle, Awaits, AttemptStates
<1>8. CASE \E v \in VerdictKinds : Reconcile(c, v)
  BY <1>8 DEF Reconcile, Awaits, Results
<1>9. CASE MarkIndeterminate(c)
  BY <1>9 DEF MarkIndeterminate, FirstTerminal, Awaits, Results, AttemptStates
<1>10. CASE Consume(c)
  BY <1>10 DEF Consume, Awaits
<1>11. CASE FindReoffer(c)
  BY <1>11 DEF FindReoffer, Awaits
<1>12. CASE \E g \in Gates : CreateReoffer(c, g)
  BY <1>12 DEF CreateReoffer, Awaits, GateStates
<1>13. CASE Release(c)
  BY <1>13 DEF Release, Awaits
<1> QED
  BY <1>1, <1>2, <1>3, <1>4, <1>5, <1>6, <1>7, <1>8, <1>9, <1>10, <1>11, <1>12, <1>13
     DEF AwaitStep

(* The rest of what a drive, a process, the engine, the owner, the platform
   and the clock do. *)
LEMMA TypeNext ==
  ASSUME TypeOK, Scoped, [Next]_vars
  PROVE  TypeOK'
<1> USE WorkerAssumption
    DEF TypeOK, Goto, Return, gateVars, leaseVars, driveVars, platformVars
<1>1. ASSUME NEW c \in Calls, NEW s \in Scopes, Acquire(c, s) PROVE TypeOK'
  <2>1. /\ UNCHANGED <<gateVars, attempt, seen, outcome, platformVars>>
        /\ scope' \in [Calls -> Scopes \cup {NoScope}]
    BY <1>1 DEF Acquire
  <2>2. pc' \in [Calls -> Awaits] /\ result' \in [Calls -> Results]
    <3>1. CASE LeaseFree(c)
      BY <1>1, <3>1 DEF Acquire, Awaits, Results
    <3>2. CASE ~LeaseFree(c)
      BY <1>1, <3>2 DEF Acquire, Awaits, Results
    <3> QED
      BY <3>1, <3>2
  <2>3. (holder' = WorkerOf[c] /\ live' = TRUE) \/ UNCHANGED leaseVars
    BY <1>1 DEF Acquire
  <2>4. holder' \in Workers \cup {NoWorker}
    BY <2>3
  <2>5. live' \in BOOLEAN
    BY <2>3
  <2> QED
    BY <2>1, <2>2, <2>4, <2>5
<1>2. ASSUME NEW c \in Calls, Finish(c) PROVE TypeOK'
  BY <1>2 DEF Finish, Awaits, Results
<1>3. ASSUME NEW c \in Calls, Throw(c) PROVE TypeOK'
  BY <1>3 DEF Throw, Abandon, Active, Awaits, Results
<1>4. ASSUME NEW g \in Gates, OpenGate(g) PROVE TypeOK'
  BY <1>4 DEF OpenGate, GateStates
<1>5. ASSUME NEW g \in Gates, NEW d \in Decisions, Decide(g, d) PROVE TypeOK'
  BY <1>5 DEF Decide, GateStates
<1>6. ASSUME NEW w \in Workers, Crash(w) PROVE TypeOK'
  <2> DEFINE dead == {c \in Calls : WorkerOf[c] = w}
  <2>1. UNCHANGED <<gateVars, attempt, leaseVars, runs>>
    BY <1>6 DEF Crash
  <2>2. /\ pc' \in [Calls -> Awaits]
        /\ scope' \in [Calls -> Scopes \cup {NoScope}]
        /\ seen' \in [Calls -> BOOLEAN]
        /\ outcome' \in [Calls -> Outcomes]
        /\ result' \in [Calls -> Results]
    BY <1>6 DEF Crash, Awaits, Results
  <2>3. adrift' \in [Scopes -> SUBSET Calls]
    BY <1>6 DEF Crash, Abandon
  <2> QED
    BY <2>1, <2>2, <2>3
<1>7. ASSUME NEW s \in Scopes, NEW c \in Calls, LateRun(s, c) PROVE TypeOK'
  BY <1>7 DEF LateRun, OneMore
<1>8. CASE Expire
  BY <1>8 DEF Expire
<1>9. CASE UNCHANGED vars
  BY <1>9 DEF vars
<1>10. ASSUME NEW c \in Calls, AwaitStep(c) PROVE TypeOK'
  BY <1>10, TypeAwait
<1> HIDE DEF TypeOK, Goto, Return, gateVars, leaseVars, driveVars, platformVars
<1> QED
  BY <1>1, <1>2, <1>3, <1>4, <1>5, <1>6, <1>7, <1>8, <1>9, <1>10
     DEF Next, Common, DriveStep

(* A drive is for a scope, and only a gate is read or consumed. *)
LEMMA ScopedNext ==
  ASSUME TypeOK, Scoped, [Next]_vars
  PROVE  Scoped'
<1> USE DEF TypeOK, Scoped, ScopedDrive, Goto, Return, gateVars, leaseVars, driveVars, platformVars
<1>1. ASSUME NEW c \in Calls, AwaitStep(c) PROVE Scoped'
  <2>1. scope' = scope /\ \E a \in Awaits : pc' = [pc EXCEPT ![c] = a]
    BY <1>1 DEF AwaitStep, ReadGate, ReadAttempts, RecoverOpen, FoundTerminal, FoundNone,
         Begin, Refuse, Run, Answer, Complete, Reconcile, MarkIndeterminate, Consume,
         FindReoffer, CreateReoffer, Release, Settle, Awaits
  <2>2. pc'[c] # "readGate" /\ pc[c] # "idle"
    BY <1>1 DEF AwaitStep, ReadGate, ReadAttempts, RecoverOpen, FoundTerminal, FoundNone,
         Begin, Refuse, Run, Answer, Complete, Reconcile, MarkIndeterminate, Consume,
         FindReoffer, CreateReoffer, Release, Settle
  <2>3. pc'[c] = "consume" => scope[c] \in Gates
    BY <1>1 DEF AwaitStep, ReadGate, ReadAttempts, RecoverOpen, FoundTerminal, FoundNone,
         Begin, Refuse, Run, Answer, Complete, Reconcile, MarkIndeterminate, Consume,
         FindReoffer, CreateReoffer, Release, Settle
  <2> QED
    BY <2>1, <2>2, <2>3
<1>2. ASSUME NEW c \in Calls, NEW s \in Scopes, Acquire(c, s) PROVE Scoped'
  BY <1>2 DEF Acquire
<1>3. ASSUME NEW c \in Calls, Finish(c) PROVE Scoped'
  BY <1>3 DEF Finish
<1>4. ASSUME NEW c \in Calls, Throw(c) PROVE Scoped'
  BY <1>4 DEF Throw, Active
<1>5. ASSUME NEW w \in Workers, Crash(w) PROVE Scoped'
  BY <1>5 DEF Crash
<1>6. ASSUME UNCHANGED <<pc, scope>> PROVE Scoped'
  BY <1>6
<1> HIDE DEF TypeOK, Scoped, Goto, Return, gateVars, leaseVars, driveVars, platformVars
<1>7. ASSUME \/ \E g \in Gates : OpenGate(g) \/ \E d \in Decisions : Decide(g, d)
             \/ \E s \in Scopes, c \in Calls : LateRun(s, c)
             \/ Expire
             \/ UNCHANGED vars
      PROVE  UNCHANGED <<pc, scope>>
  BY <1>7 DEF OpenGate, Decide, LateRun, Expire, vars, driveVars
<1> QED
  BY <1>1, <1>2, <1>3, <1>4, <1>5, <1>6, <1>7 DEF Next, Common, DriveStep

(* Every row and every drive stays within its type. *)
THEOREM TypeCorrect == Spec => []TypeOK
<1>1. Init => TypeOK /\ Scoped
  BY TypeInit DEF Init, Scoped, ScopedDrive
<1>2. TypeOK /\ Scoped /\ [Next]_vars => TypeOK' /\ Scoped'
  BY TypeNext, ScopedNext
<1> QED
  BY <1>1, <1>2, PTL DEF Spec

-----------------------------------------------------------------------------
(* Rows move forward only. *)

LEMMA ForwardNext ==
  ASSUME TypeOK, Scoped, ReofferedGatesExist, [Next]_vars
  PROVE  RowsMoveForward
<1> USE DEF RowsMoveForward, gateVars, platformVars, TypeOK
<1>1. ASSUME UNCHANGED <<gate, resumed, reofferOf, attempt, runs>> PROVE RowsMoveForward
  BY <1>1
<1>2. ASSUME NEW c \in Calls, AwaitStep(c) PROVE RowsMoveForward
  <2>0. scope[c] \in Scopes
    BY <1>2 DEF Scoped, ScopedDrive, AwaitStep, ReadGate, ReadAttempts, Begin, Refuse, Run,
         Answer, Complete, Reconcile, MarkIndeterminate, Consume, FindReoffer, CreateReoffer,
         Release
  <2>1. CASE Begin(c)
    BY <2>0, <2>1 DEF Begin, AttemptStates
  <2>2. CASE Run(c)
    BY <2>0, <2>2 DEF Run, OneMore
  <2>3. CASE Complete(c)
    BY <2>0, <2>3 DEF Complete, FirstTerminal, AttemptStates
  <2>4. CASE MarkIndeterminate(c)
    BY <2>0, <2>4 DEF MarkIndeterminate, FirstTerminal, AttemptStates
  <2>5. CASE Consume(c)
    BY <2>5 DEF Consume
  <2>6. ASSUME NEW g \in Gates, CreateReoffer(c, g) PROVE RowsMoveForward
    BY <2>6 DEF CreateReoffer, GateStates
  <2>7. CASE ReadGate(c) \/ ReadAttempts(c) \/ Refuse(c) \/ (\E o \in Outcomes : Answer(c, o))
             \/ (\E v \in VerdictKinds : Reconcile(c, v)) \/ FindReoffer(c) \/ Release(c)
    BY <1>1, <2>7 DEF ReadGate, ReadAttempts, Refuse, Answer, Reconcile, FindReoffer, Release
  <2> QED
    BY <1>2, <2>1, <2>2, <2>3, <2>4, <2>5, <2>6, <2>7 DEF AwaitStep
<1>3. ASSUME NEW g \in Gates, OpenGate(g) PROVE RowsMoveForward
  BY <1>3 DEF OpenGate
<1>4. ASSUME NEW g \in Gates, NEW d \in Decisions, Decide(g, d) PROVE RowsMoveForward
  BY <1>4 DEF Decide
<1>5. ASSUME NEW s \in Scopes, NEW c \in Calls, LateRun(s, c) PROVE RowsMoveForward
  BY <1>5 DEF LateRun, OneMore
<1>6. ASSUME \/ \E c \in Calls : (\E s \in Scopes : Acquire(c, s)) \/ Finish(c) \/ Throw(c)
             \/ \E w \in Workers : Crash(w)
             \/ Expire
             \/ UNCHANGED vars
      PROVE  UNCHANGED <<gate, resumed, reofferOf, attempt, runs>>
  BY <1>6 DEF Acquire, Finish, Throw, Crash, Expire, vars
<1> HIDE DEF RowsMoveForward, gateVars, platformVars, TypeOK
<1> QED
  BY <1>1, <1>2, <1>3, <1>4, <1>5, <1>6 DEF Next, Common, DriveStep

(* Re-offers are gates that were created. *)
LEMMA ReofferedNext ==
  ASSUME ReofferedGatesExist, TypeOK, [Next]_vars
  PROVE  ReofferedGatesExist'
<1>1. reofferOf' = reofferOf \/ \E c \in Calls, g \in Gates : CreateReoffer(c, g)
  BY DEF Next, Common, DriveStep, AwaitStep, Acquire, ReadGate, ReadAttempts, Begin, Refuse,
     Run, Answer, Complete, Reconcile, MarkIndeterminate, Consume, FindReoffer, Release,
     Finish, Throw, Crash, OpenGate, Decide, LateRun, Expire, vars, gateVars
<1>2. \A g \in Gates : gate'[g] = "absent" => gate[g] = "absent"
  BY DEF Next, Common, DriveStep, AwaitStep, Acquire, ReadGate, ReadAttempts, Begin, Refuse,
     Run, Answer, Complete, Reconcile, MarkIndeterminate, Consume, FindReoffer, Release,
     CreateReoffer, Finish, Throw, Crash, OpenGate, Decide, LateRun, Expire, vars, gateVars,
     TypeOK
<1>3. ASSUME NEW c \in Calls, NEW g \in Gates, CreateReoffer(c, g) PROVE ReofferedGatesExist'
  BY <1>3 DEF CreateReoffer, ReofferedGatesExist, TypeOK
<1> QED
  BY <1>1, <1>2, <1>3 DEF ReofferedGatesExist

(* The first decision and the first terminal state win in every behaviour. *)
THEOREM FirstDecisionWins == Spec => FirstWins
<1> DEFINE I == TypeOK /\ Scoped /\ ReofferedGatesExist
<1>1. Init => I
  BY TypeInit DEF Init, Scoped, ScopedDrive, ReofferedGatesExist
<1>2. I /\ [Next]_vars => I'
  BY TypeNext, ScopedNext, ReofferedNext
<1>3. I /\ [Next]_vars => [RowsMoveForward]_vars
  BY ForwardNext
<1> QED
  BY <1>1, <1>2, <1>3, PTL DEF Spec, FirstWins

-----------------------------------------------------------------------------
(* What a drive knows stays true: the rows it was read from only move forward,
   and its own awaits establish what the next one needs. *)

LEMMA OthersKnow ==
  ASSUME TypeOK, Scoped, ReofferedGatesExist, RowsMoveForward,
         NEW d \in Calls, Knows(d),
         pc'[d] = pc[d], scope'[d] = scope[d], outcome'[d] = outcome[d], result'[d] = result[d]
  PROVE  Knows(d)'
<1> USE DEF RowsMoveForward, Knows
<1>0. pc[d] # "idle" => scope[d] \in Scopes
  BY DEF Scoped, ScopedDrive
<1>1. GateWasRead(d)'
  BY DEF GateWasRead, EffectAwaits
<1>2. AttemptWasRecorded(d)'
  BY <1>0 DEF AttemptWasRecorded, EffectAwaits
<1>3. EffectWasSeen(d)'
  BY <1>0 DEF EffectWasSeen
<1>4. ReadyToConsume(d)'
  BY <1>0 DEF ReadyToConsume, Scoped, ScopedDrive
<1>5. ReofferIsDue(d)'
  BY DEF ReofferIsDue
<1>6. Reoffered(d)'
  <2>1. \A g \in Reoffers(scope[d]) : pc[d] # "idle" => reofferOf'[g] = reofferOf[g]
    BY <1>0, ScopeAssumption DEF Reoffers, ReofferedGatesExist
  <2> QED
    BY <2>1 DEF Reoffered, Reoffers
<1> QED
  BY <1>1, <1>2, <1>3, <1>4, <1>5, <1>6

LEMMA AwaitKnows ==
  ASSUME SafetyInv, NEW c \in Calls, AwaitStep(c)
  PROVE  Knows(c)'
<1> USE DEF TypeOK, Goto, Return, gateVars, leaseVars, platformVars,
        Knows, GateWasRead, AttemptWasRecorded, EffectWasSeen, ReadyToConsume, ReofferIsDue,
        Reoffered, EffectAwaits
<1>0. /\ scope[c] \in Scopes /\ (pc[c] \in {"readGate", "consume"} => scope[c] \in Gates)
      /\ Knows(c)
      /\ scope' = scope
  BY DEF SafetyInv, Scoped, ScopedDrive, AwaitStep, ReadGate, ReadAttempts, Begin, Refuse,
         Run, Answer, Complete, Reconcile, MarkIndeterminate, Consume, FindReoffer,
         CreateReoffer, Release
<1>a. TypeOK
  BY DEF SafetyInv
<1>1. CASE ReadGate(c)
  BY <1>0, <1>a, <1>1 DEF ReadGate, GateStates
<1>2. CASE ReadAttempts(c)
  BY <1>0, <1>a, <1>2 DEF ReadAttempts, RecoverOpen, FoundTerminal, FoundNone, Settle
<1>3. CASE Begin(c)
  BY <1>0, <1>a, <1>3 DEF Begin
<1>4. CASE Refuse(c)
  BY <1>0, <1>a, <1>4 DEF Refuse
<1>5. CASE Run(c)
  BY <1>0, <1>a, <1>5 DEF Run, OneMore
<1>6. ASSUME NEW o \in Outcomes, Answer(c, o) PROVE Knows(c)'
  BY <1>0, <1>a, <1>6 DEF Answer
<1>7. CASE Complete(c)
  BY <1>0, <1>a, <1>7 DEF Complete, FirstTerminal, Settle, AttemptStates
<1>8. ASSUME NEW v \in VerdictKinds, Reconcile(c, v) PROVE Knows(c)'
  BY <1>0, <1>a, <1>8 DEF Reconcile, Answerable
<1>9. CASE MarkIndeterminate(c)
  BY <1>0, <1>a, <1>9 DEF MarkIndeterminate, FirstTerminal, AttemptStates
<1>10. CASE Consume(c)
  BY <1>0, <1>a, <1>10 DEF Consume
<1>11. CASE FindReoffer(c)
  BY <1>0, <1>a, <1>11 DEF FindReoffer, Reoffers
<1>12. ASSUME NEW g \in Gates, CreateReoffer(c, g) PROVE Knows(c)'
  BY <1>0, <1>a, <1>12 DEF CreateReoffer, Reoffers
<1>13. CASE Release(c)
  BY <1>0, <1>a, <1>13 DEF Release, Reoffers
<1> QED
  BY <1>1, <1>2, <1>3, <1>4, <1>5, <1>6, <1>7, <1>8, <1>9, <1>10, <1>11, <1>12, <1>13
     DEF AwaitStep

(* Every drive's knowledge, whoever moves. *)
LEMMA KnowsNext ==
  ASSUME SafetyInv, [Next]_vars, NEW d \in Calls
  PROVE  Knows(d)'
<1>0. /\ TypeOK /\ Scoped /\ ReofferedGatesExist /\ Knows(d)
      /\ RowsMoveForward
  BY ForwardNext DEF SafetyInv
<1> DEFINE Same == /\ pc'[d] = pc[d] /\ scope'[d] = scope[d]
                   /\ outcome'[d] = outcome[d] /\ result'[d] = result[d]
<1>1. CASE Same
  BY <1>0, <1>1, OthersKnow
<1>2. ASSUME NEW c \in Calls, AwaitStep(c) PROVE Knows(d)'
  <2>1. CASE c = d
    BY <1>2, <2>1, AwaitKnows
  <2>2. CASE c # d
    <3>1. Same
      BY <1>0, <1>2, <2>2
         DEF TypeOK, AwaitStep, ReadGate, ReadAttempts, RecoverOpen, FoundTerminal, FoundNone,
             Begin, Refuse, Run, Answer, Complete, Reconcile, MarkIndeterminate, Consume,
             FindReoffer, CreateReoffer, Release, Goto, Return
    <3> QED
      BY <1>1, <3>1
  <2> QED
    BY <2>1, <2>2
<1> USE DEF Knows, GateWasRead, AttemptWasRecorded, EffectWasSeen, ReadyToConsume, ReofferIsDue,
        Reoffered, EffectAwaits
<1>3. ASSUME NEW c \in Calls, NEW s \in Scopes, Acquire(c, s) PROVE Knows(d)'
  BY <1>0, <1>1, <1>3 DEF Acquire, Goto, Return, TypeOK, gateVars, platformVars
<1>4. ASSUME NEW c \in Calls, Finish(c) PROVE Knows(d)'
  BY <1>0, <1>1, <1>4 DEF Finish, Goto, Return, TypeOK, gateVars, platformVars
<1>5. ASSUME NEW c \in Calls, Throw(c) PROVE Knows(d)'
  BY <1>0, <1>1, <1>5 DEF Throw, Goto, Return, TypeOK, gateVars
<1>6. ASSUME NEW w \in Workers, Crash(w) PROVE Knows(d)'
  BY <1>0, <1>1, <1>6 DEF Crash, TypeOK, gateVars
<1> HIDE DEF Knows
<1>7. ASSUME \/ \E g \in Gates : OpenGate(g) \/ \E e \in Decisions : Decide(g, e)
             \/ \E s \in Scopes, c \in Calls : LateRun(s, c)
             \/ Expire
             \/ UNCHANGED vars
      PROVE  Knows(d)'
  BY <1>1, <1>7 DEF OpenGate, Decide, LateRun, Expire, vars, driveVars
<1> QED
  BY <1>2, <1>3, <1>4, <1>5, <1>6, <1>7 DEF Next, Common, DriveStep

-----------------------------------------------------------------------------
(* What the rows and the platform promise of each other. *)

LEMMA RowsNext ==
  ASSUME SafetyInv, [Next]_vars
  PROVE  OnlyApproved' /\ RecordedFirst' /\ ConsumedWhenSettled' /\ SuccessIsReal'
<1> DEFINE Rows == OnlyApproved /\ RecordedFirst /\ ConsumedWhenSettled /\ SuccessIsReal
<1>0. TypeOK /\ Scoped /\ (\A c \in Calls : Knows(c)) /\ Rows /\ RowsMoveForward
  BY ForwardNext DEF SafetyInv
<1> USE DEF OnlyApproved, RecordedFirst, ConsumedWhenSettled, SuccessIsReal,
        gateVars, platformVars
<1>1. ASSUME UNCHANGED <<resumed, attempt, runs, adrift>> PROVE Rows'
  BY <1>0, <1>1 DEF RowsMoveForward
<1>2. ASSUME NEW c \in Calls, AwaitStep(c) PROVE Rows'
  <2>0. scope[c] \in Scopes /\ (pc[c] \in {"readGate", "consume"} => scope[c] \in Gates)
    BY <1>0, <1>2 DEF Scoped, ScopedDrive, AwaitStep, ReadGate, ReadAttempts, Begin, Refuse,
         Run, Answer, Complete, Reconcile, MarkIndeterminate, Consume, FindReoffer,
         CreateReoffer, Release
  <2>1. CASE Begin(c)
    BY <1>0, <2>0, <2>1 DEF Begin, TypeOK, RowsMoveForward
  <2>2. CASE Run(c)
    <3>1. /\ scope[c] \in Gates => gate[scope[c]] = "approved"
          /\ attempt[scope[c]] # "none"
      BY <1>0, <2>2 DEF Run, Knows, GateWasRead, AttemptWasRecorded, EffectAwaits
    <3> QED
      BY <1>0, <2>0, <2>2, <3>1 DEF Run, TypeOK, RowsMoveForward
  <2>3. CASE Complete(c)
    <3>1. outcome[c] = "succeeded" => runs[scope[c]] # 0
      BY <1>0, <2>3 DEF Complete, Knows, EffectWasSeen
    <3> QED
      BY <1>0, <2>0, <2>3, <3>1 DEF Complete, FirstTerminal, TypeOK, RowsMoveForward
  <2>4. CASE MarkIndeterminate(c)
    BY <1>0, <2>0, <2>4 DEF MarkIndeterminate, FirstTerminal, TypeOK, RowsMoveForward
  <2>5. CASE Consume(c)
    <3>1. gate[scope[c]] = "rejected" \/ attempt[scope[c]] \in Terminal
      BY <1>0, <2>5 DEF Consume, Knows, ReadyToConsume
    <3> QED
      BY <1>0, <2>0, <2>5, <3>1 DEF Consume, TypeOK, RowsMoveForward
  <2>6. CASE ReadGate(c) \/ ReadAttempts(c) \/ Refuse(c) \/ (\E o \in Outcomes : Answer(c, o))
             \/ (\E v \in VerdictKinds : Reconcile(c, v)) \/ FindReoffer(c) \/ Release(c)
             \/ (\E g \in Gates : CreateReoffer(c, g))
    BY <1>1, <2>6 DEF ReadGate, ReadAttempts, Refuse, Answer, Reconcile, FindReoffer, Release,
         CreateReoffer
  <2> QED
    BY <1>2, <2>1, <2>2, <2>3, <2>4, <2>5, <2>6 DEF AwaitStep
<1>3. ASSUME NEW C \in SUBSET Calls, Abandon(C), UNCHANGED <<gateVars, attempt, runs>>
      PROVE  Rows'
  <2>1. ASSUME NEW s \in Scopes, adrift'[s] # {}, adrift[s] = {}
        PROVE  (s \in Gates => gate[s] = "approved") /\ attempt[s] # "none"
    <3>1. PICK c \in Calls : pc[c] = "execute" /\ scope[c] = s
      BY <1>0, <1>3, <2>1 DEF Abandon, TypeOK
    <3> QED
      BY <1>0, <3>1 DEF Knows, GateWasRead, AttemptWasRecorded, EffectAwaits
  <2> QED
    BY <1>0, <1>3, <2>1 DEF Scopes
<1>4. ASSUME NEW c \in Calls, Throw(c) PROVE Rows'
  BY <1>3, <1>4 DEF Throw
<1>5. ASSUME NEW w \in Workers, Crash(w) PROVE Rows'
  BY <1>3, <1>5 DEF Crash
<1>6. ASSUME NEW s \in Scopes, NEW c \in Calls, LateRun(s, c) PROVE Rows'
  BY <1>0, <1>6 DEF LateRun, OneMore, TypeOK
<1>7. ASSUME \/ \E g \in Gates : OpenGate(g) \/ \E d \in Decisions : Decide(g, d)
             \/ \E c \in Calls : (\E s \in Scopes : Acquire(c, s)) \/ Finish(c)
             \/ Expire
             \/ UNCHANGED vars
      PROVE  Rows'
  BY <1>1, <1>7 DEF OpenGate, Decide, Acquire, Finish, Expire, vars
<1> HIDE DEF OnlyApproved, RecordedFirst, ConsumedWhenSettled, SuccessIsReal
<1> QED
  BY <1>2, <1>4, <1>5, <1>6, <1>7 DEF Next, Common, DriveStep

(* The safety of approvals and attempts, from the inductive invariant. *)
THEOREM Safety == Spec => []SafetyInv
<1>1. Init => SafetyInv
  <2> SUFFICES ASSUME Init PROVE SafetyInv
    OBVIOUS
  <2>1. TypeOK
    BY TypeInit
  <2>2. Scoped /\ \A c \in Calls : Knows(c)
    BY DEF Init, Scoped, ScopedDrive, Knows, GateWasRead, AttemptWasRecorded, EffectWasSeen,
       ReadyToConsume, ReofferIsDue, Reoffered, EffectAwaits
  <2>3. ReofferedGatesExist /\ OnlyApproved /\ RecordedFirst /\ ConsumedWhenSettled /\ SuccessIsReal
    BY DEF Init, ReofferedGatesExist, OnlyApproved, RecordedFirst, ConsumedWhenSettled,
       SuccessIsReal, Scopes
  <2> QED
    BY <2>1, <2>2, <2>3 DEF SafetyInv
<1>2. SafetyInv /\ [Next]_vars => SafetyInv'
  <2> SUFFICES ASSUME SafetyInv, [Next]_vars PROVE SafetyInv'
    OBVIOUS
  <2>1. TypeOK' /\ Scoped' /\ ReofferedGatesExist'
    BY TypeNext, ScopedNext, ReofferedNext DEF SafetyInv
  <2>2. \A c \in Calls : Knows(c)'
    BY KnowsNext
  <2>3. OnlyApproved' /\ RecordedFirst' /\ ConsumedWhenSettled' /\ SuccessIsReal'
    BY RowsNext
  <2> QED
    BY <2>1, <2>2, <2>3 DEF SafetyInv
<1> QED
  BY <1>1, <1>2, PTL DEF Spec

(* No effect of a gate reaches the platform without the owner's approval. *)
THEOREM NoEffectUnapproved == Spec => []OnlyApproved
<1>1. SafetyInv => OnlyApproved
  BY DEF SafetyInv
<1> QED
  BY <1>1, Safety, PTL

(* An effect that ran has an attempt row, whatever crashed. *)
THEOREM NoEffectUnrecorded == Spec => []RecordedFirst
<1>1. SafetyInv => RecordedFirst
  BY DEF SafetyInv
<1> QED
  BY <1>1, Safety, PTL

(* A resumed gate needs nothing more. *)
THEOREM NothingLeftToResume == Spec => []ConsumedWhenSettled
<1>1. SafetyInv => ConsumedWhenSettled
  BY DEF SafetyInv
<1> QED
  BY <1>1, Safety, PTL

(* Success is never recorded of an effect that did not run. *)
THEOREM NoFalseSuccess == Spec => []SuccessIsReal
<1>1. SafetyInv => SuccessIsReal
  BY DEF SafetyInv
<1> QED
  BY <1>1, Safety, PTL

(* An "indeterminate" answer comes with a prompt for the owner. *)
THEOREM NoPromptForgotten == Spec => []IndeterminateIsReoffered
<1>1. SafetyInv => IndeterminateIsReoffered
  BY DEF SafetyInv, Knows, IndeterminateIsReoffered
<1> QED
  BY <1>1, Safety, PTL

-----------------------------------------------------------------------------
(***************************************************************************)
(* TimelySpec: the lease gives mutual exclusion, an effect runs at most    *)
(* once, and the machinery implements the effect contract.                 *)
(***************************************************************************)

(* Every timely step is a step of Spec. *)
LEMMA TimelyIsNext == [TimelyNext]_vars => [Next]_vars
  BY DEF TimelyNext, TimelyExpire, Next

LEMMA TimelySafety == TimelySpec => []SafetyInv
<1>1. TimelySpec => Spec
  BY TimelyIsNext, PTL DEF TimelySpec, Spec
<1> QED
  BY <1>1, Safety, PTL

-----------------------------------------------------------------------------
(* The lease. *)

LEMMA LeaseNext ==
  ASSUME TypeOK, OneDrivePerWorker, LeaseIsHeld, [TimelyNext]_vars
  PROVE  LeaseIsHeld'
<1> USE DEF LeaseIsHeld, Active, TypeOK, Goto, Return, leaseVars
<1>1. ASSUME NEW c \in Calls, AwaitStep(c) PROVE LeaseIsHeld'
  <2>0. pc[c] \notin {"idle", "done"}
    BY <1>1 DEF AwaitStep, ReadGate, ReadAttempts, Begin, Refuse, Run, Answer, Complete,
       Reconcile, MarkIndeterminate, Consume, FindReoffer, CreateReoffer, Release
  <2>1. CASE Release(c)
    BY <2>0, <2>1 DEF Release, OneDrivePerWorker
  <2>2. CASE ~Release(c)
    <3>1. UNCHANGED leaseVars
      BY <1>1, <2>2 DEF AwaitStep, ReadGate, ReadAttempts, Begin, Refuse, Run, Answer, Complete,
         Reconcile, MarkIndeterminate, Consume, FindReoffer, CreateReoffer
    <3>2. \E a \in Awaits : pc' = [pc EXCEPT ![c] = a]
      BY <1>1 DEF AwaitStep, ReadGate, ReadAttempts, RecoverOpen, FoundTerminal, FoundNone,
         Begin, Refuse, Run, Answer, Complete, Reconcile, MarkIndeterminate, Consume,
         FindReoffer, CreateReoffer, Release, Settle, Awaits
    <3> QED
      BY <2>0, <3>1, <3>2
  <2> QED
    BY <2>1, <2>2
<1>2. ASSUME NEW c \in Calls, NEW s \in Scopes, Acquire(c, s) PROVE LeaseIsHeld'
  <2>1. CASE LeaseFree(c)
    <3>1. /\ holder' = WorkerOf[c]
          /\ live' = TRUE
          /\ \E a \in Awaits : pc' = [pc EXCEPT ![c] = a]
      BY <1>2, <2>1 DEF Acquire, Awaits
    <3>2. ASSUME NEW d \in Calls, d # c, pc[d] \notin {"idle", "done"} PROVE FALSE
      BY <2>1, <3>2, WorkerAssumption DEF LeaseFree, OneDrivePerWorker
    <3> QED
      BY <3>1, <3>2
  <2>2. CASE ~LeaseFree(c)
    BY <1>2, <2>2 DEF Acquire
  <2> QED
    BY <2>1, <2>2
<1>3. ASSUME NEW c \in Calls, Finish(c) PROVE LeaseIsHeld'
  BY <1>3 DEF Finish
<1>4. ASSUME NEW c \in Calls, Throw(c) PROVE LeaseIsHeld'
  BY <1>4 DEF Throw
<1>5. ASSUME NEW w \in Workers, Crash(w) PROVE LeaseIsHeld'
  BY <1>5 DEF Crash
<1>6. CASE TimelyExpire
  BY <1>6 DEF TimelyExpire, Expire, driveVars
<1>7. ASSUME \/ \E g \in Gates : OpenGate(g) \/ \E d \in Decisions : Decide(g, d)
             \/ \E s \in Scopes, c \in Calls : LateRun(s, c)
             \/ UNCHANGED vars
      PROVE  LeaseIsHeld'
  BY <1>7 DEF OpenGate, Decide, LateRun, vars, driveVars
<1> HIDE DEF LeaseIsHeld, Active, TypeOK, Goto, Return, leaseVars
<1> QED
  BY <1>1, <1>2, <1>3, <1>4, <1>5, <1>6, <1>7 DEF TimelyNext, Common, DriveStep

LEMMA LeaseExcludes ==
  ASSUME OneDrivePerWorker, LeaseIsHeld
  PROVE  OneDriveAtATime
  BY DEF OneDrivePerWorker, LeaseIsHeld, OneDriveAtATime

(* The lease is mutual exclusion between processes: whatever crashes, expires
   or throws, no two drives are under way together. *)
THEOREM MutualExclusion ==
  ASSUME OneDrivePerWorker
  PROVE  TimelySpec => []OneDriveAtATime
<1>1. Init => TypeOK /\ Scoped /\ LeaseIsHeld
  BY TypeInit DEF Init, LeaseIsHeld, Active, Scoped, ScopedDrive
<1>2. TypeOK /\ Scoped /\ LeaseIsHeld /\ [TimelyNext]_vars => TypeOK' /\ Scoped' /\ LeaseIsHeld'
  BY TypeNext, ScopedNext, TimelyIsNext, LeaseNext
<1>3. LeaseIsHeld => OneDriveAtATime
  BY LeaseExcludes
<1> QED
  BY <1>1, <1>2, <1>3, PTL DEF TimelySpec

-----------------------------------------------------------------------------
(* One effect. A drive that holds the lease is alone, so what it has read is
   still so when it acts on it. *)

LEMMA AwaitActs ==
  ASSUME SafetyInv, OneDriveAtATime, TimelyInv, AbsenceIsFinal,
         NEW c \in Calls, AwaitStep(c)
  PROVE  ActsOnTheOpen(c)'
<1> USE DEF TypeOK, Goto, Return, gateVars, leaseVars, platformVars,
        ActsOnTheOpen, EffectAwaits, Unspent
<1>0. /\ TypeOK
      /\ scope[c] \in Scopes /\ (pc[c] \in {"readGate", "consume"} => scope[c] \in Gates)
      /\ scope' = scope
      /\ ActsOnTheOpen(c)
  BY DEF SafetyInv, TimelyInv, Scoped, ScopedDrive, AwaitStep, ReadGate, ReadAttempts, Begin,
     Refuse, Run, Answer, Complete, Reconcile, MarkIndeterminate, Consume, FindReoffer,
     CreateReoffer, Release
<1>1. CASE ReadAttempts(c)
  BY <1>0, <1>1 DEF ReadAttempts, RecoverOpen, FoundTerminal, FoundNone, Settle, AttemptStates
<1>2. CASE Begin(c)
  <2>1. runs[scope[c]] = 0 /\ adrift[scope[c]] = {}
    BY <1>0, <1>2 DEF Begin, SafetyInv, RecordedFirst
  <2> QED
    BY <1>0, <1>2, <2>1 DEF Begin
<1>3. CASE Refuse(c)
  BY <1>0, <1>3 DEF Refuse
<1>4. CASE Run(c)
  BY <1>0, <1>4 DEF Run
<1>5. ASSUME NEW o \in Outcomes, Answer(c, o) PROVE ActsOnTheOpen(c)'
  <2>1. runs[scope[c]] # 0
    BY <1>5 DEF Answer, SafetyInv, Knows, EffectWasSeen
  <2>2. scope[c] \in Replayable \/ adrift[scope[c]] = {}
    BY <1>0, <2>1 DEF TimelyInv, OneCallAtMost
  <2> QED
    BY <1>0, <1>5, <2>2 DEF Answer
<1>6. CASE Complete(c)
  BY <1>0, <1>6 DEF Complete, Settle
<1>7. ASSUME NEW v \in VerdictKinds, Reconcile(c, v) PROVE ActsOnTheOpen(c)'
  <2>0. /\ pc[c] = "reconcile" /\ Answerable(scope[c], v)
        /\ UNCHANGED <<gateVars, attempt, platformVars>>
    BY <1>7 DEF Reconcile
  <2>1. CASE v = "executed"
    <3>1. scope[c] \in Replayable \/ adrift[scope[c]] = {}
      BY <1>0, <2>0, <2>1 DEF Answerable, TimelyInv, OneCallAtMost
    <3> QED
      BY <1>0, <1>7, <2>0, <2>1, <3>1 DEF Reconcile
  <2>2. CASE v = "notExecuted"
    <3>1. Unspent(scope[c])
      BY <1>0, <2>0, <2>2 DEF Answerable, AbsenceIsFinal, TimelyInv, OnlyDetachedDrift
    <3> QED
      BY <1>0, <1>7, <2>0, <2>2, <3>1 DEF Reconcile
  <2>3. CASE v = "unknown"
    BY <1>0, <1>7, <2>0, <2>3 DEF Reconcile
  <2> QED
    BY <2>1, <2>2, <2>3 DEF VerdictKinds
<1>8. CASE MarkIndeterminate(c)
  BY <1>0, <1>8 DEF MarkIndeterminate
<1>9. CASE FindReoffer(c)
  BY <1>0, <1>9 DEF FindReoffer, Reoffers
<1>10. ASSUME ReadGate(c) \/ Consume(c) \/ Release(c) \/ \E g \in Gates : CreateReoffer(c, g)
       PROVE  ActsOnTheOpen(c)'
  BY <1>0, <1>10 DEF ReadGate, Consume, Release, CreateReoffer
<1> QED
  BY <1>1, <1>2, <1>3, <1>4, <1>5, <1>6, <1>7, <1>8, <1>9, <1>10 DEF AwaitStep

(* The other drives stand still, and no late call or gate disturbs them. *)
LEMMA ActsNext ==
  ASSUME SafetyInv, OneDriveAtATime, TimelyInv, AbsenceIsFinal, [TimelyNext]_vars,
         NEW d \in Calls
  PROVE  ActsOnTheOpen(d)'
<1> USE DEF ActsOnTheOpen, EffectAwaits, Unspent
<1>0. TypeOK /\ ActsOnTheOpen(d) /\ ScopedDrive(d)
  BY DEF SafetyInv, TimelyInv, Scoped
<1>1. ASSUME pc'[d] \in {"idle", "done", "release", "readGate", "readAttempts"}
      PROVE  ActsOnTheOpen(d)'
  BY <1>1
<1>2. ASSUME pc'[d] = pc[d], scope'[d] = scope[d],
             UNCHANGED <<attempt, runs, reofferOf>>,
             pc[d] # "idle" => adrift'[scope[d]] = adrift[scope[d]]
      PROVE  ActsOnTheOpen(d)'
  BY <1>0, <1>2 DEF Reoffers
<1>3. ASSUME NEW c \in Calls, AwaitStep(c) PROVE ActsOnTheOpen(d)'
  <2>1. CASE c = d
    BY <1>3, <2>1, AwaitActs
  <2>2. CASE c # d
    <3>1. Active(c)
      BY <1>3 DEF Active, AwaitStep, ReadGate, ReadAttempts, Begin, Refuse, Run, Answer,
         Complete, Reconcile, MarkIndeterminate, Consume, FindReoffer, CreateReoffer, Release
    <3>2. pc'[d] = pc[d]
      BY <1>0, <1>3, <2>2
         DEF TypeOK, AwaitStep, ReadGate, ReadAttempts, RecoverOpen, FoundTerminal, FoundNone,
             Begin, Refuse, Run, Answer, Complete, Reconcile, MarkIndeterminate, Consume,
             FindReoffer, CreateReoffer, Release, Goto
    <3> QED
      BY <1>1, <2>2, <3>1, <3>2 DEF OneDriveAtATime, Active
  <2> QED
    BY <2>1, <2>2
<1>4. ASSUME NEW c \in Calls, NEW s \in Scopes, Acquire(c, s) PROVE ActsOnTheOpen(d)'
  <2>1. CASE c = d
    BY <1>0, <1>1, <1>4, <2>1 DEF Acquire, Goto, TypeOK
  <2>2. CASE c # d
    BY <1>0, <1>2, <1>4, <2>2 DEF Acquire, Goto, TypeOK, gateVars, platformVars
  <2> QED
    BY <2>1, <2>2
<1>5. ASSUME NEW c \in Calls, Finish(c) PROVE ActsOnTheOpen(d)'
  <2>1. CASE c = d
    BY <1>0, <1>1, <1>5, <2>1 DEF Finish, Goto, TypeOK
  <2>2. CASE c # d
    BY <1>0, <1>2, <1>5, <2>2 DEF Finish, Goto, TypeOK, gateVars, platformVars
  <2> QED
    BY <2>1, <2>2
<1>6. ASSUME NEW c \in Calls, Throw(c) PROVE ActsOnTheOpen(d)'
  <2>1. pc'[d] \in {"idle", "done", "release"}
    BY <1>0, <1>6 DEF Throw, Goto, TypeOK, OneDriveAtATime, Active
  <2> QED
    BY <1>1, <2>1
<1>7. ASSUME NEW w \in Workers, Crash(w) PROVE ActsOnTheOpen(d)'
  <2>1. CASE WorkerOf[d] = w \/ ~Active(d)
    BY <1>1, <1>7, <2>1 DEF Crash, Active
  <2>2. CASE WorkerOf[d] # w /\ Active(d)
    <3>1. {c \in {e \in Calls : WorkerOf[e] = w} : pc[c] = "execute" /\ scope[c] = scope[d]} = {}
      BY <2>2 DEF OneDriveAtATime, Active
    <3>2. adrift'[scope[d]] = adrift[scope[d]]
      BY <1>0, <1>7, <2>2, <3>1 DEF Crash, Abandon, ScopedDrive, Active, TypeOK
    <3> QED
      BY <1>2, <1>7, <2>2, <3>2 DEF Crash, gateVars
  <2> QED
    BY <2>1, <2>2
<1>8. ASSUME NEW s \in Scopes, NEW c \in Calls, LateRun(s, c) PROVE ActsOnTheOpen(d)'
  <2>1. CASE pc[d] # "idle" /\ scope[d] = s
    BY <1>0, <1>8, <2>1 DEF LateRun, TypeOK, driveVars, gateVars, Reoffers
  <2>2. CASE ~(pc[d] # "idle" /\ scope[d] = s)
    BY <1>0, <1>8, <2>2 DEF LateRun, TypeOK, driveVars, gateVars, Reoffers, ScopedDrive
  <2> QED
    BY <2>1, <2>2
<1>9. ASSUME \/ \E g \in Gates : OpenGate(g) \/ \E e \in Decisions : Decide(g, e)
             \/ TimelyExpire
             \/ UNCHANGED vars
      PROVE  ActsOnTheOpen(d)'
  BY <1>2, <1>9 DEF OpenGate, Decide, TimelyExpire, Expire, vars, gateVars, driveVars, platformVars
<1> HIDE DEF ActsOnTheOpen
<1> QED
  BY <1>3, <1>4, <1>5, <1>6, <1>7, <1>8, <1>9 DEF TimelyNext, Common, DriveStep

(* Runs and late calls. *)
LEMMA CallsNext ==
  ASSUME SafetyInv, OneDriveAtATime, TimelyInv, [TimelyNext]_vars
  PROVE  OneCallAtMost' /\ OnlyDetachedDrift'
<1> DEFINE Calm == OneCallAtMost /\ OnlyDetachedDrift
<1> USE DEF OneCallAtMost, OnlyDetachedDrift, platformVars
<1>0. TypeOK /\ Calm /\ \A c \in Calls : ActsOnTheOpen(c)
  BY DEF SafetyInv, TimelyInv
<1>1. ASSUME UNCHANGED <<runs, adrift>>,
             \A s \in Scopes \ Replayable : attempt'[s] \in Outcomes =>
               attempt[s] \in Outcomes \/ adrift[s] = {}
      PROVE  Calm'
  BY <1>0, <1>1
<1>2. ASSUME NEW c \in Calls, AwaitStep(c) PROVE Calm'
  <2>0. scope[c] \in Scopes
    BY <1>2 DEF SafetyInv, Scoped, ScopedDrive, AwaitStep, ReadGate, ReadAttempts, Begin,
       Refuse, Run, Answer, Complete, Reconcile, MarkIndeterminate, Consume, FindReoffer,
       CreateReoffer, Release
  <2>1. CASE Run(c)
    BY <1>0, <2>0, <2>1 DEF Run, OneMore, TypeOK, ActsOnTheOpen, Unspent
  <2>2. CASE Complete(c)
    BY <1>0, <1>1, <2>0, <2>2 DEF Complete, FirstTerminal, TypeOK, ActsOnTheOpen
  <2>3. CASE Begin(c)
    <3>1. \A s \in Scopes : attempt'[s] \in Outcomes => attempt[s] \in Outcomes
      BY <1>0, <2>0, <2>3 DEF Begin, TypeOK
    <3> QED
      BY <1>1, <2>3, <3>1 DEF Begin
  <2>4. CASE MarkIndeterminate(c)
    <3>1. \A s \in Scopes : attempt'[s] \in Outcomes => attempt[s] \in Outcomes
      BY <1>0, <2>0, <2>4 DEF MarkIndeterminate, FirstTerminal, TypeOK
    <3> QED
      BY <1>1, <2>4, <3>1 DEF MarkIndeterminate
  <2>5. CASE ReadGate(c) \/ ReadAttempts(c) \/ Refuse(c) \/ (\E o \in Outcomes : Answer(c, o))
             \/ (\E v \in VerdictKinds : Reconcile(c, v)) \/ Consume(c) \/ FindReoffer(c)
             \/ (\E g \in Gates : CreateReoffer(c, g)) \/ Release(c)
    BY <1>1, <2>5 DEF ReadGate, ReadAttempts, Refuse, Answer, Reconcile, Consume, FindReoffer,
       CreateReoffer, Release
  <2> QED
    BY <1>2, <2>1, <2>2, <2>3, <2>4, <2>5 DEF AwaitStep
<1>3. ASSUME NEW C \in SUBSET Calls, Abandon(C), UNCHANGED <<attempt, runs>> PROVE Calm'
  <2>1. ASSUME NEW s \in Scopes \ Replayable, NEW c \in C, pc[c] = "execute", scope[c] = s
        PROVE  /\ runs[s] = 0 /\ adrift[s] = {} /\ attempt[s] = "pending"
               /\ \A d \in C : pc[d] = "execute" => c = d
    BY <1>0, <2>1 DEF ActsOnTheOpen, Unspent, EffectAwaits, OneDriveAtATime, Active
  <2>2. ASSUME NEW s \in Scopes
        PROVE  adrift'[s] = adrift[s] \/ (/\ s \in Detached
                 /\ adrift'[s] = adrift[s] \cup {c \in C : pc[c] = "execute" /\ scope[c] = s})
    BY <1>3 DEF Abandon
  <2>3. OnlyDetachedDrift'
    BY <1>0, <2>2
  <2>4. OneCallAtMost'
    <3> SUFFICES ASSUME NEW s \in Scopes \ Replayable
                 PROVE  /\ runs'[s] < 2
                        /\ runs'[s] # 0 \/ attempt'[s] \in Outcomes => adrift'[s] = {}
                        /\ \A c, d \in adrift'[s] : c = d
      BY Zenon
    <3>1. CASE \E c \in C : pc[c] = "execute" /\ scope[c] = s
      <4>1. PICK c \in C : pc[c] = "execute" /\ scope[c] = s
        BY <3>1
      <4>2. /\ runs[s] = 0 /\ adrift[s] = {} /\ attempt[s] = "pending"
            /\ \A d \in C : pc[d] = "execute" => c = d
        BY <2>1, <4>1
      <4>3. adrift'[s] \subseteq {c}
        BY <2>2, <4>2
      <4> QED
        BY <1>3, <4>2, <4>3
    <3>2. CASE ~ \E c \in C : pc[c] = "execute" /\ scope[c] = s
      BY <1>0, <1>3, <2>2, <3>2
    <3> QED
      BY <3>1, <3>2
  <2> QED
    BY <2>3, <2>4
<1>4. ASSUME NEW c \in Calls, Throw(c) PROVE Calm'
  BY <1>3, <1>4 DEF Throw
<1>5. ASSUME NEW w \in Workers, Crash(w) PROVE Calm'
  BY <1>3, <1>5 DEF Crash
<1>6. ASSUME NEW s \in Scopes, NEW c \in Calls, LateRun(s, c) PROVE Calm'
  BY <1>0, <1>6 DEF LateRun, OneMore, TypeOK
<1>7. ASSUME \/ \E g \in Gates : OpenGate(g) \/ \E d \in Decisions : Decide(g, d)
             \/ \E c \in Calls : (\E s \in Scopes : Acquire(c, s)) \/ Finish(c)
             \/ TimelyExpire
             \/ UNCHANGED vars
      PROVE  Calm'
  BY <1>1, <1>7 DEF OpenGate, Decide, Acquire, Finish, TimelyExpire, Expire, vars
<1> HIDE DEF OneCallAtMost, OnlyDetachedDrift
<1> QED
  BY <1>2, <1>4, <1>5, <1>6, <1>7 DEF TimelyNext, Common, DriveStep

(* Re-offers. *)
LEMMA OneReofferNext ==
  ASSUME SafetyInv, TimelyInv, [TimelyNext]_vars
  PROVE  OneReoffer'
<1>1. reofferOf' = reofferOf \/ \E c \in Calls, g \in Gates : CreateReoffer(c, g)
  BY DEF TimelyNext, Common, DriveStep, AwaitStep, Acquire, ReadGate, ReadAttempts, Begin,
     Refuse, Run, Answer, Complete, Reconcile, MarkIndeterminate, Consume, FindReoffer,
     Release, Finish, Throw, Crash, OpenGate, Decide, LateRun, TimelyExpire, Expire, vars,
     gateVars
<1>2. ASSUME NEW c \in Calls, NEW g \in Gates, CreateReoffer(c, g) PROVE OneReoffer'
  <2>1. Reoffers(scope[c]) = {} /\ reofferOf[g] = NoScope
    BY <1>2 DEF CreateReoffer, TimelyInv, ActsOnTheOpen, SafetyInv, ReofferedGatesExist
  <2>2. reofferOf' = [reofferOf EXCEPT ![g] = scope[c]] /\ reofferOf \in [Gates -> Scopes \cup {NoScope}]
    BY <1>2 DEF CreateReoffer, SafetyInv, TypeOK
  <2> QED
    BY <2>1, <2>2 DEF OneReoffer, Reoffers, TimelyInv
<1> QED
  BY <1>1, <1>2 DEF OneReoffer, Reoffers, TimelyInv

LEMMA TimelyInit == Init => TimelyInv
<1> SUFFICES ASSUME Init PROVE TimelyInv
  OBVIOUS
<1>1. LeaseIsHeld /\ (\A c \in Calls : ActsOnTheOpen(c)) /\ OneCallAtMost /\ OnlyDetachedDrift
  BY DEF Init, LeaseIsHeld, Active, ActsOnTheOpen, EffectAwaits, OneCallAtMost, OnlyDetachedDrift
<1>2. OneReoffer
  BY ScopeAssumption DEF Init, OneReoffer, Reoffers
<1> QED
  BY <1>1, <1>2 DEF TimelyInv

LEMMA TimelyStep ==
  ASSUME OneDrivePerWorker, AbsenceIsFinal, SafetyInv, TimelyInv, [TimelyNext]_vars
  PROVE  TimelyInv'
<1>1. LeaseIsHeld' /\ OneDriveAtATime
  BY LeaseNext, LeaseExcludes DEF SafetyInv, TimelyInv
<1>2. \A c \in Calls : ActsOnTheOpen(c)'
  BY <1>1, ActsNext
<1>3. OneCallAtMost' /\ OnlyDetachedDrift' /\ OneReoffer'
  BY <1>1, CallsNext, OneReofferNext
<1> QED
  BY <1>1, <1>2, <1>3 DEF TimelyInv

LEMMA TimelySafe ==
  ASSUME OneDrivePerWorker, AbsenceIsFinal
  PROVE  TimelySpec => [](SafetyInv /\ TimelyInv)
<1>1. Init => TimelyInv
  BY TimelyInit
<1>2. SafetyInv /\ TimelyInv /\ [TimelyNext]_vars => TimelyInv'
  BY TimelyStep
<1> QED
  BY <1>1, <1>2, TimelySafety, PTL DEF TimelySpec

(* An effect that is not safe to repeat runs at most once for its attempt. *)
THEOREM EffectAtMostOnce ==
  ASSUME OneDrivePerWorker, AbsenceIsFinal
  PROVE  TimelySpec => []OneEffect
<1>1. TimelyInv => OneEffect
  BY DEF TimelyInv, OneCallAtMost, OneEffect
<1> QED
  BY <1>1, TimelySafe, PTL

(* External calls belong to open attempts. *)
THEOREM OnlyOpenAttemptsExecute ==
  ASSUME OneDrivePerWorker, AbsenceIsFinal
  PROVE  TimelySpec => []ExecutesOpenAttempt
<1>1. TimelyInv => ExecutesOpenAttempt
  BY DEF TimelyInv, ActsOnTheOpen, EffectAwaits, ExecutesOpenAttempt
<1> QED
  BY <1>1, TimelySafe, PTL

(* The owner is asked once about an indeterminate attempt. *)
THEOREM AskedOnce ==
  ASSUME OneDrivePerWorker, AbsenceIsFinal
  PROVE  TimelySpec => []OneReoffer
<1>1. TimelyInv => OneReoffer
  BY DEF TimelyInv
<1> QED
  BY <1>1, TimelySafe, PTL

-----------------------------------------------------------------------------
(* The refinement: leases, attempts, re-offers, crashes and late calls come
   to the contract's Offer, Decide, Run and Report, or to nothing. *)

LEMMA ContractInit == Init => Contract!Init
  BY DEF Init, Contract!Init, Contract!Effects, Scopes

LEMMA ContractStutter ==
  ASSUME UNCHANGED <<gate, runs>>,
         \A s \in Scopes : attempt'[s] = attempt[s] \/ {attempt[s], attempt'[s]} \cap Terminal = {}
  PROVE  UNCHANGED Contract!cvars
  BY DEF Contract!cvars

LEMMA ContractReport ==
  ASSUME SafetyInv, NEW s \in Scopes, NEW r \in Terminal,
         attempt[s] = "pending",
         s \in Gates => gate[s] = "approved",
         r = "succeeded" => runs[s] # 0,
         FirstTerminal(s, r), UNCHANGED <<gate, runs>>
  PROVE  Contract!Next
<1>1. attempt' = [attempt EXCEPT ![s] = r] /\ attempt \in [Scopes -> AttemptStates]
  BY DEF FirstTerminal, SafetyInv, TypeOK
<1>2. Contract!Report(s, r)
  BY <1>1 DEF Contract!Report, Contract!Permitted, Scopes
<1> QED
  BY <1>2 DEF Contract!Next, Contract!Effects, Scopes

LEMMA ContractRun ==
  ASSUME NEW s \in Scopes,
         s \in Gates => gate[s] = "approved",
         s \in Replayable \/ (runs[s] = 0 /\ attempt[s] \notin Outcomes),
         runs' = [runs EXCEPT ![s] = OneMore(@)], UNCHANGED <<gate, attempt>>
  PROVE  Contract!Next
<1>1. Contract!Run(s)
  BY DEF Contract!Run, Contract!Permitted, Contract!OneMore, OneMore, Scopes
<1> QED
  BY <1>1 DEF Contract!Next, Contract!Effects, Scopes

LEMMA ContractStep ==
  ASSUME SafetyInv, TimelyInv, [TimelyNext]_vars
  PROVE  [Contract!Next]_(Contract!cvars)
<1> DEFINE Kept == Contract!Next \/ UNCHANGED Contract!cvars
<1> USE DEF gateVars, platformVars
<1>0. TypeOK /\ \A c \in Calls : ScopedDrive(c) /\ Knows(c) /\ ActsOnTheOpen(c)
  BY DEF SafetyInv, TimelyInv, Scoped
<1>1. ASSUME UNCHANGED <<gate, runs, attempt>> PROVE Kept
  BY <1>1, ContractStutter
<1>2. ASSUME NEW c \in Calls, AwaitStep(c) PROVE Kept
  <2>0. scope[c] \in Scopes
    BY <1>0, <1>2 DEF ScopedDrive, AwaitStep, ReadGate, ReadAttempts, Begin, Refuse, Run,
       Answer, Complete, Reconcile, MarkIndeterminate, Consume, FindReoffer, CreateReoffer,
       Release
  <2>1. CASE Begin(c)
    <3>1. attempt' = [attempt EXCEPT ![scope[c]] = "pending"] /\ attempt[scope[c]] = "none"
      BY <1>0, <2>1 DEF Begin, ActsOnTheOpen
    <3> QED
      BY <1>0, <2>0, <2>1, <3>1, ContractStutter DEF Begin, TypeOK
  <2>2. CASE Run(c)
    <3>1. /\ scope[c] \in Gates => gate[scope[c]] = "approved"
          /\ scope[c] \in Replayable \/ (runs[scope[c]] = 0 /\ attempt[scope[c]] \notin Outcomes)
      BY <1>0, <2>2 DEF Run, Knows, GateWasRead, ActsOnTheOpen, Unspent, EffectAwaits
    <3> QED
      BY <2>0, <2>2, <3>1, ContractRun DEF Run
  <2>3. CASE Complete(c)
    <3>1. /\ scope[c] \in Gates => gate[scope[c]] = "approved"
          /\ attempt[scope[c]] = "pending"
          /\ outcome[c] = "succeeded" => runs[scope[c]] # 0
          /\ outcome[c] \in Terminal
      BY <1>0, <2>3 DEF Complete, Knows, GateWasRead, EffectWasSeen, ActsOnTheOpen, EffectAwaits,
         TypeOK
    <3> QED
      BY <2>0, <2>3, <3>1, ContractReport DEF Complete
  <2>4. CASE MarkIndeterminate(c)
    <3>1. /\ scope[c] \in Gates => gate[scope[c]] = "approved"
          /\ attempt[scope[c]] = "pending"
      BY <1>0, <2>4 DEF MarkIndeterminate, Knows, GateWasRead, ActsOnTheOpen, EffectAwaits
    <3> QED
      BY <2>0, <2>4, <3>1, ContractReport DEF MarkIndeterminate
  <2>5. ASSUME NEW g \in Gates, CreateReoffer(c, g) PROVE Kept
    <3>1. Contract!Offer(g)
      BY <2>5 DEF CreateReoffer, Contract!Offer
    <3> QED
      BY <3>1 DEF Contract!Next
  <2>6. CASE ReadGate(c) \/ ReadAttempts(c) \/ Refuse(c) \/ (\E o \in Outcomes : Answer(c, o))
             \/ (\E v \in VerdictKinds : Reconcile(c, v)) \/ Consume(c) \/ FindReoffer(c)
             \/ Release(c)
    BY <1>1, <2>6 DEF ReadGate, ReadAttempts, Refuse, Answer, Reconcile, Consume, FindReoffer,
       Release
  <2> QED
    BY <1>2, <2>1, <2>2, <2>3, <2>4, <2>5, <2>6 DEF AwaitStep
<1>3. ASSUME NEW g \in Gates, OpenGate(g) PROVE Kept
  <2>1. Contract!Offer(g)
    BY <1>3 DEF OpenGate, Contract!Offer
  <2> QED
    BY <2>1 DEF Contract!Next
<1>4. ASSUME NEW g \in Gates, NEW d \in Decisions, Decide(g, d) PROVE Kept
  <2>1. Contract!Decide(g, d)
    BY <1>4 DEF Decide, Contract!Decide
  <2> QED
    BY <2>1 DEF Contract!Next
<1>5. ASSUME NEW s \in Scopes, NEW c \in Calls, LateRun(s, c) PROVE Kept
  <2>1. adrift[s] # {}
    BY <1>5 DEF LateRun
  <2>2. s \in Gates => gate[s] = "approved"
    BY <2>1 DEF SafetyInv, OnlyApproved
  <2>3. s \in Replayable \/ (runs[s] = 0 /\ attempt[s] \notin Outcomes)
    BY <2>1 DEF TimelyInv, OneCallAtMost
  <2> QED
    BY <1>5, <2>2, <2>3, ContractRun DEF LateRun
<1>6. ASSUME \/ \E c \in Calls : (\E s \in Scopes : Acquire(c, s)) \/ Finish(c) \/ Throw(c)
             \/ \E w \in Workers : Crash(w)
             \/ TimelyExpire
             \/ UNCHANGED vars
      PROVE  Kept
  BY <1>1, <1>6 DEF Acquire, Finish, Throw, Crash, TimelyExpire, Expire, vars
<1> QED
  BY <1>2, <1>3, <1>4, <1>5, <1>6 DEF TimelyNext, Common, DriveStep

(* The gate machinery implements the effect contract. *)
THEOREM ImplementsContract ==
  ASSUME OneDrivePerWorker, AbsenceIsFinal
  PROVE  TimelySpec => KeepsContract
<1>1. SafetyInv /\ TimelyInv /\ [TimelyNext]_vars => [Contract!Next]_(Contract!cvars)
  BY ContractStep
<1> QED
  BY <1>1, ContractInit, TimelySafe, PTL DEF TimelySpec, KeepsContract, Contract!Spec
=============================================================================
