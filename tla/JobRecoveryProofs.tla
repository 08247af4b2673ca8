-------------------------- MODULE JobRecoveryProofs --------------------------
(***************************************************************************)
(* Theorems about JobRecovery, for any number of workers, passes and gates:*)
(* the supervisor is a client of the gate machinery, so what is proved of  *)
(* TimelySpec holds under it; and, when no process makes two passes at     *)
(* once, a job that is over leaves nothing behind and no prompt gets out   *)
(* of its reach. Effects may be replayable, detached or reconciled in any  *)
(* way: nothing is assumed of them.                                        *)
(***************************************************************************)
EXTENDS JobRecovery, GateMachineryProofs

USE DEF Outcomes, Terminal, Decisions

-----------------------------------------------------------------------------
(* The supervisor's own rows. *)

RowTypes ==
  /\ status \in JobStatuses
  /\ pausedGate \in Gates \cup {NoScope}
  /\ pass \in [Calls -> Gates \cup {NoScope}]

LEMMA RowTypesNext == RowTypes /\ [JobNext]_allVars => RowTypes'
<1> SUFFICES ASSUME RowTypes, [JobNext]_allVars PROVE RowTypes'
  OBVIOUS
<1> USE FirstGateAssumption DEF RowTypes, JobStatuses, Save, jobVars
<1>1. CASE Pause
  BY <1>1 DEF Pause
<1>2. ASSUME NEW c \in Calls, ListJob(c) PROVE RowTypes'
  BY <1>2 DEF ListJob
<1>3. ASSUME NEW c \in Calls, LeaveOffered(c) PROVE RowTypes'
  BY <1>3 DEF LeaveOffered
<1>4. ASSUME NEW c \in Calls, Checkpoint(c) PROVE RowTypes'
  BY <1>4 DEF Checkpoint, Reoffers
<1>5. ASSUME NEW w \in Workers, CrashPass(w) PROVE RowTypes'
  BY <1>5 DEF CrashPass
<1>6. ASSUME UNCHANGED jobVars PROVE RowTypes'
  BY <1>6
<1> HIDE DEF RowTypes
<1> QED
  BY <1>1, <1>2, <1>3, <1>4, <1>5, <1>6 DEF JobNext, PassStep, Resume, allVars

(* What a step of the job does to the gate machinery. *)
DrivesPass(c) ==
  /\ pass[c] \in Gates /\ gate[pass[c]] \in Decisions
  /\ Acquire(c, pass[c])

MachineryStep ==
  \/ \E c \in Calls : DrivesPass(c) \/ AwaitStep(c) \/ Finish(c) \/ Throw(c)
  \/ OpenGate(FirstGate)
  \/ \E g \in Gates, d \in Decisions : Decide(g, d)
  \/ \E s \in Scopes, c \in Calls : LateRun(s, c)
  \/ TimelyExpire
  \/ \E w \in Workers : Crash(w)
  \/ UNCHANGED vars

LEMMA JobDrives == RowTypes /\ [JobNext]_allVars => MachineryStep
<1> SUFFICES ASSUME RowTypes, [JobNext]_allVars PROVE MachineryStep
  OBVIOUS
<1>1. ASSUME NEW c \in Calls, Resume(c) PROVE MachineryStep
  BY <1>1 DEF Resume, RowTypes, DrivesPass, MachineryStep
<1>2. ASSUME NEW c \in Calls, PassStep(c) PROVE MachineryStep
  BY <1>2 DEF PassStep, LeaveOffered, Checkpoint, MachineryStep
<1>3. ASSUME NEW c \in Calls, ListJob(c) \/ Throw(c) PROVE MachineryStep
  BY <1>3 DEF ListJob, MachineryStep
<1>4. ASSUME NEW w \in Workers, CrashPass(w) PROVE MachineryStep
  BY <1>4 DEF CrashPass, MachineryStep
<1>5. CASE Pause \/ UNCHANGED allVars
  BY <1>5 DEF Pause, allVars, MachineryStep
<1>6. CASE \/ OpenGate(FirstGate)
           \/ \E g \in Gates, d \in Decisions : Decide(g, d)
           \/ \E s \in Scopes, c \in Calls : LateRun(s, c)
           \/ TimelyExpire
  BY <1>6 DEF MachineryStep
<1> QED
  BY <1>1, <1>2, <1>3, <1>4, <1>5, <1>6 DEF JobNext

LEMMA MachineryIsTimely == MachineryStep => [TimelyNext]_vars
<1> SUFFICES ASSUME MachineryStep PROVE [TimelyNext]_vars
  OBVIOUS
<1>1. ASSUME NEW c \in Calls, DrivesPass(c) PROVE TimelyNext
  BY <1>1 DEF DrivesPass, Scopes, TimelyNext, Common
<1>2. ASSUME NEW c \in Calls, AwaitStep(c) \/ Finish(c) \/ Throw(c) PROVE TimelyNext
  BY <1>2 DEF DriveStep, TimelyNext, Common
<1>3. CASE OpenGate(FirstGate) \/ \E g \in Gates, d \in Decisions : Decide(g, d)
  BY <1>3, FirstGateAssumption DEF TimelyNext, Common
<1>4. CASE \/ \E s \in Scopes, c \in Calls : LateRun(s, c)
           \/ TimelyExpire
           \/ \E w \in Workers : Crash(w)
  BY <1>4 DEF TimelyNext, Common
<1> QED
  BY <1>1, <1>2, <1>3, <1>4 DEF MachineryStep

LEMMA JobInitRows == JobInit => RowTypes
  BY DEF JobInit, RowTypes, JobStatuses

(* The supervisor uses the gate machinery as its interface allows: every
   behaviour of the job is one of the machinery with timely leases. *)
THEOREM JobIsClient == JobSpec => TimelySpec
<1>1. JobInit => Init
  BY DEF JobInit
<1>2. RowTypes /\ [JobNext]_allVars => [TimelyNext]_vars
  BY JobDrives, MachineryIsTimely
<1> QED
  BY <1>1, <1>2, JobInitRows, RowTypesNext, PTL DEF JobSpec, TimelySpec

(* So the effect contract holds of the effects that recovery passes drive. *)
THEOREM JobKeepsContract ==
  ASSUME OneDrivePerWorker, AbsenceIsFinal
  PROVE  JobSpec => KeepsContract
  BY JobIsClient, ImplementsContract, PTL

-----------------------------------------------------------------------------
(* The gates of a job form a chain. *)

(* An attempt is only begun for a gate that was read approved. *)
LEMMA ApprovedNext ==
  ASSUME SafetyInv, AttemptsAreApproved, [TimelyNext]_vars
  PROVE  AttemptsAreApproved'
<1>0. TypeOK /\ Scoped /\ RowsMoveForward
  BY TimelyIsNext, ForwardNext DEF SafetyInv
<1>1. ASSUME NEW g \in Gates, attempt[g] = "none", attempt'[g] # "none"
      PROVE  gate[g] = "approved"
  <2>1. PICK c \in Calls : Begin(c) \/ Complete(c) \/ MarkIndeterminate(c)
    BY <1>1 DEF TimelyNext, Common, DriveStep, AwaitStep, Acquire, ReadGate, ReadAttempts,
       Refuse, Run, Answer, Reconcile, Consume, FindReoffer, CreateReoffer, Release, Finish,
       Throw, Crash, OpenGate, Decide, LateRun, TimelyExpire, Expire, vars
  <2>2. scope[c] \in Scopes
    BY <1>0, <2>1 DEF Scoped, ScopedDrive, Begin, Complete, MarkIndeterminate
  <2>3. scope[c] = g /\ pc[c] = "begin"
    BY <1>0, <1>1, <2>1, <2>2 DEF Begin, Complete, MarkIndeterminate, FirstTerminal, TypeOK, Scopes
  <2> QED
    BY <2>3 DEF SafetyInv, Knows, GateWasRead
<1> QED
  BY <1>0, <1>1 DEF AttemptsAreApproved, RowsMoveForward

(* A gate whose attempt is indeterminate was opened. *)
LEMMA ParentExists ==
  ASSUME AttemptsAreApproved, Chained, NEW g \in Gates, reofferOf[g] # NoScope
  PROVE  reofferOf[g] \in Gates /\ gate[reofferOf[g]] = "approved"
  BY DEF AttemptsAreApproved, Chained

(* Only an indeterminate attempt is re-offered: a gate that is over, or that
   waits for the owner, is the last of the chain if it was opened. *)
LEMMA OverIsLast ==
  ASSUME TypeOK, AttemptsAreApproved, Chained, NEW g \in Gates,
         Over(g) \/ gate[g] = "pending"
  PROVE  Reoffers(g) = {}
<1>1. attempt[g] # "indeterminate"
  BY DEF Over, AttemptsAreApproved
<1> QED
  BY <1>1, ScopeAssumption DEF Chained, Reoffers, Scopes

(* A new re-offer is put at the end of the chain. *)
LEMMA ChainGrows ==
  ASSUME TypeOK, ReofferedGatesExist, AttemptsAreApproved, Chained, LastIsReachable,
         NEW c \in Calls, NEW g \in Gates, PassKnows(c), CreateReoffer(c, g)
  PROVE  Chained' /\ LastIsReachable'
<1> DEFINE s == scope[c]
<1>1. /\ s \in Gates /\ s # NoScope /\ gate[s] # "absent" /\ Reoffers(s) = {}
      /\ resumed[s] /\ attempt[s] = "indeterminate"
  BY ScopeAssumption DEF CreateReoffer, PassKnows, Scopes
<1>2. /\ gate[g] = "absent" /\ g # s /\ gate[FirstGate] # "absent" /\ reofferOf[g] = NoScope
      /\ gate' = [gate EXCEPT ![g] = "pending"]
      /\ reofferOf' = [reofferOf EXCEPT ![g] = s]
      /\ UNCHANGED <<resumed, attempt>>
  BY <1>1 DEF CreateReoffer, Chained, ReofferedGatesExist
<1>3. \A h \in Gates : Reoffers(h)' = IF h = s THEN {g} ELSE Reoffers(h)
  BY <1>1, <1>2, ScopeAssumption DEF Reoffers, TypeOK, Scopes
<1>4. \A h \in Gates : Leaf(h)' => h = g
  <2> SUFFICES ASSUME NEW h \in Gates, Leaf(h)', h # g PROVE FALSE
    OBVIOUS
  <2>1. h # s /\ Leaf(h) /\ Leaf(s)
    BY <1>1, <1>2, <1>3 DEF Leaf, TypeOK
  <2> QED
    BY <1>1, <2>1 DEF Chained
<1>5. Chained'
  <2>1. gate'[FirstGate] # "absent"
    BY <1>2, FirstGateAssumption DEF TypeOK
  <2>2. \A h \in Gates : reofferOf'[h] # NoScope =>
          /\ reofferOf'[h] \in Gates
          /\ resumed'[reofferOf'[h]] /\ attempt'[reofferOf'[h]] = "indeterminate"
    BY <1>1, <1>2 DEF Chained, TypeOK
  <2> QED
    BY <1>4, <2>1, <2>2 DEF Chained
<1>6. LastIsReachable'
  <2> SUFFICES ASSUME NEW S \in SUBSET Gates, \A h \in S : Reoffers(h)' \subseteq S,
                      NEW h \in S, gate'[h] # "absent"
               PROVE  g \in S
    BY <1>4 DEF LastIsReachable
  <2>1. CASE h = g
    BY <2>1
  <2>2. CASE h # g
    <3>1. gate[h] # "absent" /\ \A k \in S : Reoffers(k) \subseteq S
      BY <1>1, <1>2, <1>3, <2>2 DEF TypeOK
    <3>2. s \in S
      BY <1>1, <3>1 DEF LastIsReachable, Leaf
    <3> QED
      BY <1>1, <1>3, <3>2
  <2> QED
    BY <2>1, <2>2
<1> QED
  BY <1>5, <1>6

(* The run's first gate starts it. *)
LEMMA ChainStarts ==
  ASSUME TypeOK, ReofferedGatesExist, Chained, OpenGate(FirstGate)
  PROVE  Chained' /\ LastIsReachable'
<1>1. /\ \A g \in Gates : gate[g] = "absent" /\ reofferOf[g] = NoScope
      /\ gate' = [gate EXCEPT ![FirstGate] = "pending"]
      /\ UNCHANGED <<resumed, reofferOf, attempt>>
  BY DEF OpenGate, Chained, ReofferedGatesExist
<1>2. \A g \in Gates : gate'[g] # "absent" => g = FirstGate
  BY <1>1 DEF TypeOK
<1>3. gate'[FirstGate] = "pending"
  BY <1>1, FirstGateAssumption DEF TypeOK
<1> QED
  BY <1>1, <1>2, <1>3 DEF Chained, LastIsReachable, Leaf

(* Nothing else touches it. *)
LEMMA ChainStays ==
  ASSUME TypeOK, Chained, LastIsReachable, RowsMoveForward, reofferOf' = reofferOf,
         \A g \in Gates : gate'[g] = "absent" <=> gate[g] = "absent"
  PROVE  Chained' /\ LastIsReachable'
<1>1. \A g \in Gates : Reoffers(g)' = Reoffers(g) /\ (Leaf(g)' <=> Leaf(g))
  BY DEF Reoffers, Leaf
<1>2. Chained'
  BY <1>1, FirstGateAssumption DEF Chained, RowsMoveForward, Scopes
<1>3. LastIsReachable'
  BY <1>1 DEF LastIsReachable
<1> QED
  BY <1>2, <1>3

LEMMA ChainNext ==
  ASSUME SafetyInv, JobInv, MachineryStep
  PROVE  Chained' /\ LastIsReachable'
<1>0. /\ TypeOK /\ ReofferedGatesExist /\ Chained /\ LastIsReachable /\ AttemptsAreApproved
      /\ RowsMoveForward
  BY MachineryIsTimely, TimelyIsNext, ForwardNext DEF SafetyInv, JobInv
<1>1. ASSUME NEW c \in Calls, NEW g \in Gates, CreateReoffer(c, g)
      PROVE  Chained' /\ LastIsReachable'
  BY <1>0, <1>1, ChainGrows DEF JobInv
<1>2. CASE OpenGate(FirstGate)
  BY <1>0, <1>2, ChainStarts
<1>3. CASE /\ ~ \E c \in Calls, g \in Gates : CreateReoffer(c, g)
           /\ ~ OpenGate(FirstGate)
  <2>1. reofferOf' = reofferOf
    BY <1>3 DEF MachineryStep, DrivesPass, AwaitStep, Acquire, ReadGate, ReadAttempts, Begin,
       Refuse, Run, Answer, Complete, Reconcile, MarkIndeterminate, Consume, FindReoffer, Release,
       Finish, Throw, Crash, Decide, LateRun, TimelyExpire, Expire, vars, gateVars
  <2>2. gate' = gate \/ \E g \in Gates, d \in Decisions : Decide(g, d)
    BY <1>3 DEF MachineryStep, DrivesPass, AwaitStep, Acquire, ReadGate, ReadAttempts, Begin,
       Refuse, Run, Answer, Complete, Reconcile, MarkIndeterminate, Consume, FindReoffer, Release,
       Finish, Throw, Crash, LateRun, TimelyExpire, Expire, vars, gateVars
  <2>3. \A g \in Gates : gate'[g] = "absent" <=> gate[g] = "absent"
    BY <1>0, <2>2 DEF Decide, TypeOK
  <2> QED
    BY <1>0, <2>1, <2>3, ChainStays
<1> QED
  BY <1>1, <1>2, <1>3

-----------------------------------------------------------------------------
(* What a pass knows. Its own awaits: *)

LEMMA AwaitPassKnows ==
  ASSUME SafetyInv, NEW c \in Calls, PassKnows(c), AwaitStep(c)
  PROVE  PassKnows(c)'
<1> USE DEF TypeOK, Goto, Return, gateVars, leaseVars, platformVars, PassKnows, EffectAwaits, Over
<1>0. /\ TypeOK /\ PassKnows(c) /\ pc[c] # "idle"
      /\ scope[c] \in Gates /\ scope[c] \in Scopes /\ gate[scope[c]] \in Decisions
      /\ resumed[scope[c]] => gate[scope[c]] = "rejected" \/ attempt[scope[c]] \in Terminal
      /\ ReofferIsDue(c)
      /\ scope' = scope
  BY DEF SafetyInv, Knows, ConsumedWhenSettled, Scopes, AwaitStep, ReadGate, ReadAttempts, Begin,
     Refuse, Run, Answer, Complete, Reconcile, MarkIndeterminate, Consume, FindReoffer,
     CreateReoffer, Release
<1> USE DEF ReofferIsDue
<1>1. CASE ReadGate(c)
  BY <1>0, <1>1 DEF ReadGate
<1>2. CASE ReadAttempts(c)
  BY <1>0, <1>2 DEF ReadAttempts, RecoverOpen, FoundTerminal, FoundNone, Settle, AttemptStates
<1>3. CASE Begin(c)
  BY <1>0, <1>3 DEF Begin
<1>4. CASE Refuse(c)
  BY <1>0, <1>4 DEF Refuse
<1>5. CASE Run(c)
  BY <1>0, <1>5 DEF Run
<1>6. ASSUME NEW o \in Outcomes, Answer(c, o) PROVE PassKnows(c)'
  BY <1>0, <1>6 DEF Answer
<1>7. CASE Complete(c)
  BY <1>0, <1>7 DEF Complete, FirstTerminal, Settle
<1>8. ASSUME NEW v \in VerdictKinds, Reconcile(c, v) PROVE PassKnows(c)'
  BY <1>0, <1>8 DEF Reconcile
<1>9. CASE MarkIndeterminate(c)
  BY <1>0, <1>9 DEF MarkIndeterminate, FirstTerminal
<1>10. CASE Consume(c)
  BY <1>0, <1>10 DEF Consume
<1>11. CASE FindReoffer(c)
  BY <1>0, <1>11 DEF FindReoffer, Reoffers
<1>12. ASSUME NEW g \in Gates, CreateReoffer(c, g) PROVE PassKnows(c)'
  BY <1>0, <1>12 DEF CreateReoffer
<1>13. CASE Release(c)
  BY <1>0, <1>13 DEF Release
<1> QED
  BY <1>1, <1>2, <1>3, <1>4, <1>5, <1>6, <1>7, <1>8, <1>9, <1>10, <1>11, <1>12, <1>13
     DEF AwaitStep

(* A pass that stands still while nothing it holds the lease for changes. *)
LEMMA OtherPassKnows ==
  ASSUME TypeOK, RowsMoveForward, NEW d \in Calls, PassKnows(d),
         pc'[d] = pc[d], scope'[d] = scope[d], seen'[d] = seen[d], result'[d] = result[d],
         Active(d) => attempt' = attempt /\ reofferOf' = reofferOf
  PROVE  PassKnows(d)'
<1>1. pc[d] # "idle" => scope[d] \in Gates /\ scope[d] \in Scopes
  BY DEF PassKnows, Scopes
<1>2. CASE pc[d] = "idle"
  BY <1>2 DEF PassKnows, EffectAwaits
<1>3. CASE pc[d] = "done"
  BY <1>1, <1>3 DEF PassKnows, EffectAwaits, Over, RowsMoveForward
<1>4. CASE Active(d)
  <2>1. /\ attempt' = attempt /\ reofferOf' = reofferOf /\ pc[d] # "idle"
        /\ gate'[scope[d]] = gate[scope[d]]
        /\ resumed[scope[d]] => resumed'[scope[d]]
    BY <1>1, <1>4 DEF PassKnows, Active, RowsMoveForward
  <2> QED
    BY <1>1, <1>4, <2>1 DEF PassKnows, EffectAwaits, Over, Reoffers
<1> QED
  BY <1>2, <1>3, <1>4 DEF Active

LEMMA PassKnowsNext ==
  ASSUME OneDriveAtATime, SafetyInv, JobInv, MachineryStep, NEW d \in Calls
  PROVE  PassKnows(d)'
<1>0. TypeOK /\ PassKnows(d) /\ RowsMoveForward
  BY MachineryIsTimely, TimelyIsNext, ForwardNext DEF SafetyInv, JobInv
<1> DEFINE Same == /\ pc'[d] = pc[d] /\ scope'[d] = scope[d]
                   /\ seen'[d] = seen[d] /\ result'[d] = result[d]
<1>1. ASSUME Same, UNCHANGED <<attempt, reofferOf>> PROVE PassKnows(d)'
  BY <1>0, <1>1, OtherPassKnows
<1>2. ASSUME NEW c \in Calls, AwaitStep(c) PROVE PassKnows(d)'
  <2>1. CASE c = d
    BY <1>0, <1>2, <2>1, AwaitPassKnows
  <2>2. CASE c # d
    <3>1. Same
      BY <1>0, <1>2, <2>2
         DEF TypeOK, AwaitStep, ReadGate, ReadAttempts, RecoverOpen, FoundTerminal, FoundNone,
             Begin, Refuse, Run, Answer, Complete, Reconcile, MarkIndeterminate, Consume,
             FindReoffer, CreateReoffer, Release, Goto, Return
    <3>2. Active(c)
      BY <1>2 DEF Active, AwaitStep, ReadGate, ReadAttempts, Begin, Refuse, Run, Answer,
         Complete, Reconcile, MarkIndeterminate, Consume, FindReoffer, CreateReoffer, Release
    <3>3. ~Active(d)
      BY <2>2, <3>2 DEF OneDriveAtATime
    <3> QED
      BY <1>0, <3>1, <3>3, OtherPassKnows
  <2> QED
    BY <2>1, <2>2
<1>3. ASSUME NEW c \in Calls, DrivesPass(c) PROVE PassKnows(d)'
  <2>1. CASE c = d
    BY <1>0, <1>3, <2>1
       DEF DrivesPass, Acquire, Goto, Return, TypeOK, gateVars, PassKnows, EffectAwaits
  <2>2. CASE c # d
    BY <1>0, <1>1, <1>3, <2>2 DEF DrivesPass, Acquire, Goto, Return, TypeOK, gateVars
  <2> QED
    BY <2>1, <2>2
<1>4. ASSUME NEW c \in Calls, Finish(c) PROVE PassKnows(d)'
  <2>1. CASE c = d
    BY <1>0, <1>4, <2>1 DEF Finish, Goto, TypeOK, PassKnows, EffectAwaits
  <2>2. CASE c # d
    BY <1>0, <1>1, <1>4, <2>2 DEF Finish, Goto, Return, TypeOK, gateVars
  <2> QED
    BY <2>1, <2>2
<1>5. ASSUME NEW c \in Calls, Throw(c) PROVE PassKnows(d)'
  <2>1. CASE c = d
    BY <1>0, <1>5, <2>1 DEF Throw, Active, Goto, Return, TypeOK, gateVars, PassKnows, EffectAwaits
  <2>2. CASE c # d
    BY <1>0, <1>1, <1>5, <2>2 DEF Throw, Goto, Return, TypeOK, gateVars
  <2> QED
    BY <2>1, <2>2
<1>6. ASSUME NEW w \in Workers, Crash(w) PROVE PassKnows(d)'
  <2>1. CASE WorkerOf[d] = w
    BY <1>6, <2>1 DEF Crash, PassKnows, EffectAwaits
  <2>2. CASE WorkerOf[d] # w
    BY <1>1, <1>6, <2>2 DEF Crash, gateVars
  <2> QED
    BY <2>1, <2>2
<1>7. CASE \/ OpenGate(FirstGate)
           \/ \E g \in Gates, e \in Decisions : Decide(g, e)
           \/ \E s \in Scopes, c \in Calls : LateRun(s, c)
           \/ TimelyExpire
           \/ UNCHANGED vars
  BY <1>1, <1>7 DEF OpenGate, Decide, LateRun, TimelyExpire, Expire, vars, gateVars, driveVars
<1> QED
  BY <1>2, <1>3, <1>4, <1>5, <1>6, <1>7 DEF MachineryStep

-----------------------------------------------------------------------------
(* The job row. *)

LEMMA OverStays ==
  ASSUME RowsMoveForward, NEW g \in Gates, Over(g)
  PROVE  Over(g)'
  BY DEF Over, RowsMoveForward, Scopes

LEMMA JobRowNext ==
  ASSUME SafetyInv, JobInv, [JobNext]_allVars
  PROVE  JobRow'
<1>0. /\ RowTypes /\ JobRow /\ RowsMoveForward
      /\ (\A g \in Gates : gate[g] # "absent" => gate'[g] # "absent")
      /\ \A g \in Gates : Over(g) => Over(g)'
  <2>1. RowTypes /\ JobRow /\ RowsMoveForward
    BY JobDrives, MachineryIsTimely, TimelyIsNext, ForwardNext
       DEF SafetyInv, JobInv, JobTypeOK, RowTypes
  <2> QED
    BY <2>1, OverStays DEF RowsMoveForward
<1>1. ASSUME UNCHANGED <<status, pausedGate>>,
             \A c \in Calls : pass'[c] \in {pass[c], NoScope} \/ (status = "gatePaused" /\ pass'[c] = pausedGate)
      PROVE  JobRow'
  BY <1>0, <1>1 DEF JobRow
<1>2. ASSUME NEW c \in Calls, Checkpoint(c) PROVE JobRow'
  <2>0. /\ pass' = [pass EXCEPT ![c] = NoScope] /\ pc[c] = "done" /\ PassKnows(c)
        /\ UNCHANGED <<gateVars, attempt>>
    BY <1>2 DEF Checkpoint, Finish, JobInv
  <2>1. \A e \in Calls : pass'[e] # NoScope => pass'[e] \in Gates /\ gate'[pass'[e]] # "absent"
    BY <1>0, <2>0 DEF JobRow, RowTypes
  <2>2. CASE result[c] \in {"leaseUnavailable", "threw"}
    BY <1>0, <1>2, <2>1, <2>2 DEF JobRow, Checkpoint
  <2>3. CASE result[c] = "indeterminate"
    <3>1. PICK g \in Reoffers(scope[c]) : Save("gatePaused", g)
      BY <1>2, <2>3 DEF Checkpoint
    <3>2. g \in Gates /\ reofferOf[g] = scope[c] /\ scope[c] # NoScope
      BY <2>0, ScopeAssumption DEF Reoffers, PassKnows, Scopes
    <3>3. gate[g] # "absent"
      BY <3>2 DEF SafetyInv, ReofferedGatesExist
    <3> QED
      BY <1>0, <2>1, <3>1, <3>2, <3>3 DEF JobRow, Save
  <2>4. CASE result[c] \notin {"leaseUnavailable", "threw", "indeterminate"}
    <3>1. scope[c] \in Gates /\ Over(scope[c])
      BY <2>0, <2>4 DEF PassKnows
    <3>2. \E g \in Gates : Over(g)'
      BY <1>0, <3>1
    <3>3. status' # "gatePaused"
      BY <1>2, <2>4 DEF Checkpoint, Save
    <3> QED
      BY <2>1, <3>1, <3>2, <3>3 DEF JobRow
  <2> QED
    BY <2>2, <2>3, <2>4
<1>3. CASE Pause
  BY <1>0, <1>3, FirstGateAssumption DEF Pause, Save, JobRow
<1>4. ASSUME NEW c \in Calls, ListJob(c) PROVE JobRow'
  BY <1>0, <1>1, <1>4 DEF ListJob, RowTypes
<1>5. ASSUME NEW c \in Calls, LeaveOffered(c) PROVE JobRow'
  BY <1>0, <1>1, <1>5 DEF LeaveOffered, RowTypes
<1>6. ASSUME NEW w \in Workers, CrashPass(w) PROVE JobRow'
  BY <1>1, <1>6 DEF CrashPass
<1>7. ASSUME UNCHANGED jobVars PROVE JobRow'
  BY <1>1, <1>7 DEF jobVars
<1> QED
  BY <1>2, <1>3, <1>4, <1>5, <1>6, <1>7 DEF JobNext, PassStep, Resume, allVars

-----------------------------------------------------------------------------
(* The inductive invariant. *)

LEMMA JobInvInit == JobInit => JobInv
<1> SUFFICES ASSUME JobInit PROVE JobInv
  OBVIOUS
<1>1. TypeOK /\ RowTypes /\ Init
  BY TypeInit, JobInitRows DEF JobInit
<1>2. LeaseIsHeld /\ (\A c \in Calls : PassKnows(c)) /\ AttemptsAreApproved
  BY <1>1 DEF Init, LeaseIsHeld, Active, PassKnows, EffectAwaits, AttemptsAreApproved, Scopes
<1>3. Chained /\ LastIsReachable
  BY <1>1 DEF Init, Chained, LastIsReachable, Leaf
<1>4. JobRow
  BY DEF JobInit, JobRow
<1> QED
  BY <1>1, <1>2, <1>3, <1>4 DEF JobInv, JobTypeOK, RowTypes

LEMMA JobInvNext ==
  ASSUME OneDrivePerWorker, SafetyInv, JobInv, [JobNext]_allVars
  PROVE  JobInv'
<1>1. RowTypes /\ RowTypes' /\ MachineryStep /\ [TimelyNext]_vars /\ [Next]_vars
  BY RowTypesNext, JobDrives, MachineryIsTimely, TimelyIsNext DEF JobInv, JobTypeOK, RowTypes
<1>2. TypeOK' /\ LeaseIsHeld' /\ OneDriveAtATime
  BY <1>1, TypeNext, LeaseNext, LeaseExcludes DEF SafetyInv, JobInv
<1>3. \A c \in Calls : PassKnows(c)'
  BY <1>1, <1>2, PassKnowsNext
<1>4. AttemptsAreApproved' /\ Chained' /\ LastIsReachable' /\ JobRow'
  BY <1>1, ApprovedNext, ChainNext, JobRowNext DEF JobInv
<1> QED
  BY <1>1, <1>2, <1>3, <1>4 DEF JobInv, JobTypeOK, RowTypes

(* The invariant of the job, its passes and its chain of gates. *)
THEOREM JobSafety ==
  ASSUME OneDrivePerWorker
  PROVE  JobSpec => [](SafetyInv /\ JobInv)
<1>1. SafetyInv /\ JobInv /\ [JobNext]_allVars => JobInv'
  BY JobInvNext
<1> QED
  BY <1>1, JobInvInit, JobIsClient, TimelySafety, PTL DEF JobSpec

(* Every row of the job and every pass stays within its type. *)
THEOREM JobTypeCorrect == JobSpec => []JobTypeOK
<1>1. TimelySpec => []TypeOK
  BY TypeCorrect, TimelyIsNext, PTL DEF TimelySpec, Spec
<1>2. JobSpec => []RowTypes
  BY JobInitRows, RowTypesNext, PTL DEF JobSpec
<1>3. TypeOK /\ RowTypes => JobTypeOK
  BY DEF JobTypeOK, RowTypes
<1> QED
  BY <1>1, <1>2, <1>3, JobIsClient, PTL

(* A job reported completed or failed has no prompt open, no attempt open and
   no gate unconsumed, whatever crashed and in whatever order the passes came
   to their checkpoints. *)
THEOREM DoneLeavesNothing ==
  ASSUME OneDrivePerWorker
  PROVE  JobSpec => []DoneJobIsSettled
<1>1. SafetyInv /\ JobInv => DoneJobIsSettled
  <2> SUFFICES ASSUME SafetyInv, JobInv, status \in {"completed", "failed"},
                      NEW g \in Gates, gate[g] # "absent"
               PROVE  resumed[g] /\ attempt[g] # "pending"
    BY DEF DoneJobIsSettled
  <2>0. TypeOK /\ AttemptsAreApproved /\ Chained
    BY DEF SafetyInv, JobInv
  <2>1. PICK last \in Gates : Over(last)
    BY DEF JobInv, JobRow
  <2>2. gate[last] # "absent"
    BY <2>1 DEF Over, SafetyInv, AttemptsAreApproved, JobInv
  <2>3. Leaf(last)
    BY <2>0, <2>1, <2>2, OverIsLast DEF Leaf
  <2>4. CASE Leaf(g)
    <3>1. g = last
      BY <2>0, <2>3, <2>4 DEF Chained
    <3> QED
      BY <2>0, <2>1, <3>1 DEF Over, AttemptsAreApproved
  <2>5. CASE ~Leaf(g)
    <3>1. PICK h \in Gates : reofferOf[h] = g
      BY <2>5 DEF Leaf, Reoffers
    <3> QED
      BY <2>0, <3>1, ScopeAssumption DEF Chained, Scopes
  <2> QED
    BY <2>4, <2>5
<1> QED
  BY <1>1, JobSafety, PTL

(* The supervisor comes to every prompt of the job from the gate in its row,
   also after a slow pass has put the row back. *)
THEOREM NoPromptOutOfReach ==
  ASSUME OneDrivePerWorker
  PROVE  JobSpec => []PromptIsReachable
<1>1. SafetyInv /\ JobInv => PromptIsReachable
  <2> SUFFICES ASSUME SafetyInv, JobInv, status = "gatePaused", NEW S \in SUBSET Gates,
                      pausedGate \in S, \A g \in S : Reoffers(g) \subseteq S,
                      NEW h \in Gates, gate[h] = "pending"
               PROVE  h \in S
    BY DEF PromptIsReachable
  <2>1. Leaf(h)
    BY OverIsLast DEF Leaf, SafetyInv, JobInv
  <2>2. gate[pausedGate] # "absent"
    BY DEF JobInv, JobRow
  <2> QED
    BY <2>1, <2>2 DEF JobInv, LastIsReachable
<1> QED
  BY <1>1, JobSafety, PTL
=============================================================================
