# Ensemble: verification of the engine, the control plane and the extension's protocols

Ensemble runs AI-driven software tasks in rounds: a *provider* (a model, or a CLI in a sandbox) is invoked, it
returns a plan, a result or structured questions, the owner answers or approves, and external effects (sandbox
commands, clones, teardowns) are carried out. The repository holds the same workflow twice: a VS Code extension
(`src/src`), where windows of one workspace coordinate through files, and a portable engine
(`src/packages/ensemble-engine`) hosted by a control plane (`src/packages/ensemble-control-plane`) that a mobile
app talks to over HTTP and WebSocket. What both promise is the same: nothing runs that was not approved, nothing
that costs money or changes the world runs twice, and no run stops silently. This directory models the protocols
those promises rest on, checks them with TLC and proves the most important ones with TLAPS.

## 1. Inventory

`PROJECT.json` lists every component with its sources and status. The ones that carry state:

| Component | State | Operations | Hard behaviour | What makes it correct |
|---|---|---|---|---|
| Gate machinery (engine) | gate rows, attempt rows, lease row | openGate, decide, resumeApproved, runUngatedEffect, recovery of an open attempt | several workers, leases that expire under a drive, crash at every await, calls that arrive late | an effect runs only when approved and at most once; an unknown outcome is put to the owner exactly once |
| Job supervisor (control plane) | job row: status, pausedGateId | checkpoint, recoverGatePausedJobs | two passes over stale rows, crash between drive and checkpoint | no decided gate is orphaned; an ended job leaves nothing open |
| Chat transaction store (engine) | record per question-returning operation, claim registry | begin, drafts, submit, schedule, settle, claim, record outcome, cancel, expire | repeated and rival calls, a claim cut in half by a crash | one grant per operation, only on accepted answers; acknowledgements are never taken back |
| Run host and task loop | job row; in memory: pendingRef, `answered`, round and retry counters, call chains | start, submitAnswers, rehydrate, boot reconciliation, the drive of rounds | two submissions of one turn, restart during a resumed round, store calls that throw | one call chain, a pause that can be answered, an end that stays, no endless running |
| Dispatch and model chain (engine) | fallback state per stage epoch | resolve chain, reserve, release, stick | a reservation that must be given back on every path | one backup reservation per epoch, always released |
| Attempt-guarded runner | attempt rows | invoke | crash around the provider call | an interrupted call leaves an open row |
| Session service and the client's session manager | families of refresh and access tokens; tokens in memory, in a secure store or a cookie | signIn, restore, getAccessToken, refresh, signOut, revoke | concurrent refreshes, lost answers, closed apps, a sign-out over a refresh, tabs that share a cookie | the app's own refreshes are never taken for theft |
| WebSocket hub | connections: user, token, task, closed | subscribe, refreshAuth, publish, unsubscribe | awaits of authenticate, which the shipped service answers in the same turn | no event reaches a closed or foreign subscription |
| Sandbox lifecycle | sandbox record per user, in-flight table | ensure, reset, teardown | first uses at once, a reset while a creation or another reset is under way, a record that cannot be written | no sandbox runs that nothing names |
| Work admission (extension) | claim, marker, barrier and fence files per task | acquire, renew, release, commit a pause, reconcile, reclaim, take over | several windows, dead and stalled owners, rename races | one round at work; a round and a pause never both win; the user's pause stays |
| Session lock, round leases (extension) | lock files with expiry | acquire, heartbeat, release, take over | takeover of an expired lease by two contenders | one holder |
| Viewer relay (extension) | request, claim and response files | send, drain, runClaimed, expire, collect | overlapping sweeps, timeouts, failed writes, dead hosts, missed heartbeats | a request runs at most once, its sender is told the truth |
| Scheduling intents and watchdog (extension) | intents in workspace state | scheduled, running, terminal; sweep | a dead window's intent against a live one | an active task has something live, owed or scheduled |
| Task activation (extension) | checkpoint file, task files, focus, meta-root lock | activate, recover; create, pause, lift a quota pause | a crash or a throw between any two writes, unreadable files, two windows | at most one active task; an attempted activation is not forgotten |
| Transactions, spools, intents (extension) | files with revisions | the originals the engine's store is a port of | as above | as above |

Interactions. The task loop calls the conversation orchestrator, which calls the transaction store; the run host
owns the loop's call chains and writes the job row; the supervisor drives the gate machinery for a job whose row
is gate-paused. Requests reach the run host through `controlPlaneServerV1`; nothing but the store is shared
between processes, and nothing but the process memory between call chains of one process. A client's session
manager talks to the session service over HTTP. The extension's components share directories: activation and its
rivals take the meta-root lock, admission and relay use exclusive creation and rename. In the shipped
composition `openGate`, `resumeApproved` and `recoverGatePausedJobs` are reached from tests only, while
`runUngatedEffect` carries source acquisition, CLI rounds and teardown; the gates that an indeterminate attempt
raises are decided over HTTP.

## 2. Modules

    EffectContract          what the engine promises about effects
      ^ implemented by
    GateMachinery           gates, attempts, lease, drives, platform
      |- MCGateMachinery    TLC instances
      |- GateMachineryProofs
      `- JobRecovery        the supervisor of one job, over GateMachinery
           |- MCJobRecovery
           `- JobRecoveryProofs (extends GateMachineryProofs)
    AnswerContract          what the engine promises about answers
      ^ implemented by
    RunHost                 the run host, task loop and orchestrator, over ChatTransactions
      |- MCRunHost
      `- RunHostProofs      of ChatTransactions and of RunHost
    ChatTransactions        the transaction store          } checked together in
    TaskActivation          activation and its recovery    } MCCoordination (safety)
    HostRelay               the viewer relay               } and MCSettles (liveness)
    WorkAdmission           admission of rounds and pauses }
    Sessions                tokens, server and client      }
    UserSandbox             a user's persistent sandbox    }
    RelayContract           what the relay promises the viewer of an action; HostRelay implements it
    AdmissionContract       what admission promises about a task; WorkAdmission implements it
    TaskActivationProofs, HostRelayProofs, WorkAdmissionProofs
    AccountProofs           of Sessions and of UserSandbox
    CoordinationProofs      of MCCoordination, over the proofs of its components

The last six share no state with each other in the code either. `MCCoordination` and `MCSettles` put them side
by side: a behaviour is one of the component that `Init` chooses, so one run checks them all.

### GateMachinery, and the code

A *drive* (`Calls`) is one call of `resumeApproved` or `runUngatedEffect`; `pc` is the await it stands at, in
the code's order: `Acquire` (the lease), `ReadGate`, `ReadAttempts`, `Begin`, `Execute` and the return of the
external call, `Complete`, or `Reconcile` and `MarkIndeterminate` for an attempt found open, `Consume`
(markResumed), `FindReoffer` and `CreateReoffer`, `Release`, `Finish`. A drive acts on what it read: `seen` is
the gate row's resumedAt in its local variable, `outcome` the one it is about to persist. A *scope* is the gate
or step an attempt belongs to; the code's key hashes task, scope, kind and lineage, one task is modelled and the
machinery begins attempts of lineage 0 only. The platform counts `runs` per scope and keeps in `adrift` the
calls of dead or failed drives that can still arrive (`Detached`: a request already sent). `Verdicts` is what
the effect's reconcile can answer; the shipped sandbox clients see running processes only and never answer
`notExecuted`. Idempotent replay is a set of scopes. `Crash`, `Throw` (any await rejects), `LateRun` and lease
expiry can come between any two awaits. `TimelySpec` restricts expiry to leases whose holder drives nothing.

### JobRecovery, and the code

One job. `Pause` is its checkpoint at the first gate; `ListJob` is a pass that reads the row; `LeaveOffered` its
`continue` on an undecided gate; `Resume` starts the drive; `Checkpoint` is the whole tail of the pass, by kind
of result. `pass` holds the gate id the pass read: the row may have moved on.

### ChatTransactions, and the code

One action per operation of `transactionStoreV1`: the backends are synchronous and a mutation is durable before
it returns. A refused or duplicate call writes nothing, and is a predicate its callers ask. `ClaimWithoutMirror`
is a crash, or a throw, between the claim registry and its mirror in the record. `grants` counts the callers
that were told to invoke the provider. `StoreSpec` lets any client call anything at any time; cancel, expire and
drafts, which no production caller of the engine reaches, are exercised there.

### RunHost, and the code

A *thread* is a call chain of the process: start's, or that of a submission and the continuation it spawns. Its
`pc` is the await it stands at; the task loop's `runRound` and `resume` and the orchestrator are inlined, so
that `ResolveResume`, `Schedule`, `Settle`, `ClaimAndInvoke`, `PostFollowUp` and `RecordOutcome` are their
awaits. `Quick` awaits have only the store behind them: with the shipped synchronous backends they resolve
within the event-loop turn that began them, so a submission that arrives in a turn of its own finds no other
thread at one (`TurnSpec`). `HostSpec` does not assume it: two submissions may interleave at every await, as
they do when one turn makes both. An operation id is fresh: an operation without a record stands for one.
`Restart` is the death of the process and the boot of the next one, reconciliation included; `Throw` is a store
call that throws, at the awaits where the code may see one, with what the code around it does (most are caught
and fail the round; those of the resume are not).

### TaskActivation, and the code

`at[w]` is the await a window stands at inside `activateTaskLocked` or `recoverActivationCheckpointLocked`,
`job[w]` its locals, `checkpoint` the file. `Activate` enters the lock; `Guard` is `ensureNoPendingActivation`;
`RecordIntent`, `PauseOther`, `RecordPaused`, `RecordPending`, `WriteTarget`, `RecordActivated`, `SetFocus`,
`RecordFocus` and `Clear` are the writes in their order, `Restore` one patch of the rollback, `ResolveForward`,
`ResolveBack` and `ResolveUnreadable` the reading of a target whose write was attempted. `TargetThrows` is a
write that throws before or after it landed; `Throws` any other throw, which nothing catches. A recovery that
rolls back waits for its own lock ("queued", finding 4). `Create`, `PauseOrComplete`, `LookForOthers` and
`LiftPause` are the other writers of a status. The meta-root lock is one lock with a lease: `LeaseRunsOut` for a
window that is dead. `Undisturbed` leaves out two races that do lead to two active tasks (section 6, 8 and 9).

### HostRelay, and the code

`viewer[r]` is where `send` stands: waiting, past its deadline, withdrawing, done; `verdict[r]` what it told the
user. `sweep[s]` is a call of `drain` (collect garbage, claim, expire a dead claim in its three steps),
`round[s][r]` a call of `runClaimed`: read, handler, response, request, claim. `executing` is the set by which a
process knows what it runs itself. Every file operation can fail, with what the code makes of it: a creation
that fails is taken for a claim of somebody else (`ClaimFails`), a request that cannot be read is answered
"failed" (`ReadFails`), a write that fails is logged, and the two removals at the end of a round swallow their
failure (`RemoveRequest`, `RemoveClaim`). `unremoved` is the set of requests that outlived their answer that
way. Time is `late` (the viewer's deadline), `ClaimAges` and `Beat` (a claim grows stale unless its heartbeat
touches it; `BeatsMissed`). A handler that outlasts its own deadline is one that throws.

### WorkAdmission, and the code

`place[o]` is where an acquisition stands: finishing the barriers it finds, claim, listing, rename to a marker,
and then a round's work or the pause commit with its checks before and after the write. The commit itself is two
steps: `LookAgain` decides under the task's lock, `WritePause` is the file, after the awaits of the journal; a
round may be admitted in between, since an admission takes no lock. What does take it (`TaskIsFree`) is every
other patch of the task's record: the lift, the reversal, the repairs and the user's.

A rescuer's `Reclaim` and `TakeOver` look at one marker, the one that the directory lists first, whichever that
is, and end if it is not to be moved; `left` is what they can learn of a dead owner, whose CLI may run on ("cli")
or whose death cannot be known here ("doubt": another host, an unreadable record), where only the user's takeover
moves it. `Displace` is the rename, which loses when the name has changed by a renewal. A pause commit is moved to
a barrier whose finishing (`FinishFence`, `FinishLift`, `FinishRemove`) any number of callers may do at once.
`UserAsks` is the look of `pauseTask` at a snapshot and `UserPauses` its patch, which asks no more: over a pause
that a watchdog has written meanwhile (`asked` is "over") it leaves that one's reason, claim and fence. `Forgets`
is what dies with a window. One task, each owner in a window of its own. Under the mapping to AdmissionContract a
round is admitted while its marker is there, and works from its `LiftWatchdogPause` on.

### Sessions, and the code

Server: `ServeRefresh` and `ServeRevoke` are one turn each. Client: `call[c]` is a caller's refresh, shared
through `refreshInFlight` (`Refreshing`); `RestoreSession` is not shared. `leaving[m]` is `signOut`: it waits for
the refresh under way, revokes with the token it then holds, ignores the answer, and clears. `onWeb` chooses
between secure stores and a cookie that all tabs share. `Persist` is the write of a secure store, which may be
refused: the store keeps what it had, the memory has the new pair. A family's tokens are numbered; `disturbed`
are the families that a loss, a second tab or a refused write has touched.

### UserSandbox, and the code

`using[u]` is a call of `ensureUserSandboxV1`; `InFlight` the in-flight table; `GiveBack` the destruction of a
sandbox whose record could not be written, three times. `ending[x]` is the reset route. Three sets record why a
sandbox is known to nobody: `forgotten`, by a death or an unheard answer; `abandoned`, when three attempts to give
it back failed; `overtaken`, when a slower reset deleted its row (section 6, 13).

## 3. Runs

All runs finish within minutes on a laptop (the largest, `gate_timely` and `coordination`, have between half a
million and a million states each).

| Run | Instance | Shows |
|---|---|---|
| `gate_any` | 2 workers, 1 gate, 1 replayable step, any verdict, leases expire at any time | approvals precede effects, consumption follows a verdict, success is real, an indeterminate answer comes with a re-offer |
| `gate_timely` | 2 workers, 2 gates (one can be the re-offer of the other or of the step), 1 step whose calls arrive late, the shipped clients' verdicts | one drive at a time, one effect, one re-offer; refinement of EffectContract |
| `gate_settles` | fair; 2 workers, 1 gate, 1 step | an approval is consumed, a lost re-offer is repaired |
| `gate_lease_lost` | leases expire under drives | violation: an effect runs twice (section 6) |
| `job_recovery` | fair; 2 supervisors, 3 gate ids | an ended job leaves nothing open, every prompt is reachable, the job is not orphaned |
| `job_failure` | as above, 2 gate ids | violation: a failed effect ends as a completed job |
| `host_any` | 2 operations, 2 submissions, 2 answer sets, restarts, throws | refinement of AnswerContract; the accepted answers are the ones used |
| `host_turns` | 3 operations, 2 stages without checklist, submissions in turns of their own | one call chain, quiet after the end, an answerable pause |
| `host_race` | two submissions of one turn | violation: a job reads failed while its provider is being invoked |
| `coordination` | the six components of MCCoordination; two actors of each kind, see *Bounds* | ChatTransactions: one grant, earned, nothing taken back. TaskActivation: one active task, an attempt is kept. HostRelay, unless the removal of the request failed unnoticed: a request runs once, answers are true, refinement of RelayContract (nothing starts after the answer), no host declares its own work interrupted. WorkAdmission: refinement of AdmissionContract (one round admitted at a time, a watchdog pauses only a task nobody works on), a round beats a pause, what the record shows as the user's pause is kept. Sessions: a family is revoked for a reason. UserSandbox: a sandbox is lost only for a reason |
| `settles` | fair; a RunHost of 3 operations and 2 stages with checklist, TaskActivation, HostRelay, WorkAdmission | a running job is driven, and ends or asks; a recovery that finds an attempted activation ends; no request or claim file stays for ever; a dead window's marker is moved away, unless one that may not be moved is beside it |
| `activation_recovery` | fair; 1 window, 2 tasks, 1 death | violation: a startup recovery waits for itself (section 6) |

*Bounds.* Two workers, submissions, windows, sweeps, managers, uses or resets are the smallest numbers with an
interleaving, and every property is about a pair of actors and one row or file, or about one actor and the crash
or restart of another. Gate ids are a pool: a re-offer takes a fresh one, three of them give a re-offer of a
re-offer, and a drive that needs another stops (`IdsUsedUp` in the liveness properties). `runs`, `grants` and
`started` count to 2, which stands for more than once. Two operations give a question and the follow-up of its
resume, three give a question per stage besides. `MaxRounds` 2 and `MaxRetries` 1 let a budget run out both by
rounds and by retries; `LastStage` 2 lets it be given back. In `coordination`: two tasks, one of them not yet
created, and two faults (a death, and a fault in what repairs it); one request, two sweeps in one or two hosts,
two faults; of two rounds and two watchdogs any three with one stall (two rounds and a pause, or two pauses and a
round) and any two with two stalls, one rescuer, one renewal; one family of three tokens, two callers, two
managers or tabs, one loss; two uses, two resets, two sandbox ids, four provider faults (three failed give-backs
and the throw before them). Stalls, relay faults and losses count everything that can go wrong in the component,
swallowed removals and refused writes included. A dead owner leaves nothing behind in `coordination`; a CLI that
runs on and an owner in doubt are in `settles`. The cfg reuses model values across components (`m1`, `m2` act,
`n1`, `n2` and `i1`, `i2` are acted on), so that three swaps are all the symmetry there is to compute; a
behaviour belongs to one component, and what is renamed in the others is alike or not used. The inductive
invariants of the proofs were also checked by TLC, on the instances of the runs (`JobInv` on `job_recovery`,
`TurnInv` on `host_turns`) or on larger ones where they fit (three tasks; three sweeps; two families for one
manager). Symmetry is used only in runs without liveness.

*Fairness.* A drive at an await goes on (`WF` of each `DriveStep`): promises of the store settle, external calls
return or throw, and a process that does neither has crashed, which is a step. A pass or drive that finds the
lease free again and again gets it in the end (`SF` of `Acquire`). Of `recoverGatePausedJobs`, the documented
restart procedure, the fairness says that somebody goes on running it: nothing in the shipped composition does,
as section 1 notes. A lease nobody renews expires (`WF`). The liveness properties of the gate machinery assume
that faults cease (`FaultsCease`: from some time on no process dies and nothing throws); the death of a process
whose drive has ended is no fault. In `settles` each call chain of the run host goes on (`WF`): the store
resolves and the provider answers or throws. An activation or recovery goes on (`WF` of `Proceed`), a closed
window is opened again, a startup recovery gets a lock that comes free again and again
(`retryWhileStateLockHeldV1`; `SF`). A viewer polls on, the watcher and the timer of a runner host sweep again,
handlers are raced by a timeout, and what nobody touches grows old (`WF` each). Reclamation is called by a
timer: what is assumed of it is only the case in which it cannot fail (`SureReclaim`: every marker it may find
first is one it may move), since of the order of a listing nothing is. Who holds the task's lock goes on (`WF`
of `WritePause`). That the user confirms a takeover, or that a CLI ends, is not assumed. Of a round, a watchdog
or a viewer that never comes nothing is assumed, nor of the owner: a question may never be answered, a gate
never decided.

*Deadlock* is checked in the gate runs. A job may be over, a transaction settled, a request served and a sign-in
revoked, so the others have `CHECK_DEADLOCK FALSE`.

## 4. Proofs

All theorems hold for any sets of actors and things acted on, and for any value of the bounds: faults, stalls,
losses, renewals, rotations and rounds.

*GateMachineryProofs.* `SafetyInv` is inductive for `Spec`. Named properties such as `OnlyApproved` are not: a
drive acts several awaits after it read the gate, so the invariant adds what each drive knows at each await
(`Knows`: past `readGate` the gate is approved; past `begin` a row exists; a drive about to persist `succeeded`
has seen the effect run; a drive about to consume has a terminal attempt). All of it is stable, because rows
only move forward; that is `FirstDecisionWins`. From it: `NoEffectUnapproved`, `NoEffectUnrecorded`,
`NothingLeftToResume`, `NoFalseSuccess`, `NoPromptForgotten`.

Its second part is about `TimelySpec`, under two hypotheses that are named, and necessary: `OneDrivePerWorker`
(the lease is reentrant, section 6) and `AbsenceIsFinal` (a reconcile that answers `notExecuted` excludes a call
that still arrives; the shipped clients never give that answer). `TimelyInv` adds that an active drive's worker
holds a live lease, hence that what a drive read is still true when it acts: the attempt is still `none` at
`begin`, still `pending` at the call, and a non-replayable effect about to be called has not run and has no call
adrift. From it: `MutualExclusion`, `OnlyOpenAttemptsExecute`, `EffectAtMostOnce`, `AskedOnce`, and
`ImplementsContract`: initial states map to initial states, each step to `Offer`, `Decide`, `Run`, `Report` or a
stutter.

*JobRecoveryProofs.* Every behaviour of the supervisor is one of the gate machinery with timely leases
(`JobIsClient`: it opens gates, drives decided ones and otherwise only writes rows of its own), so all of the
above holds under recovery, the contract included (`JobKeepsContract`). What it adds is about the job: a pass
writes what it learnt from a row it read before its drive, so a slow pass can put the row back to an earlier
gate, and neither `DoneJobIsSettled` nor `PromptIsReachable` says why that does no harm. `JobInv` does. The gates
of a job are one chain, each the re-offer of the indeterminate attempt of the one before (`Chained`), from every
gate one comes to the last (`LastIsReachable`, a closure: no induction is needed), and only the last can wait
for the owner or be driven; a pass that is about to end the job has seen its own gate over (`PassKnows`), which is
then the last one. From it `DoneLeavesNothing` and `NoPromptOutOfReach`. Their one hypothesis is
`OneDrivePerWorker`; of the effects (replayable, detached, reconciled in any way) nothing is assumed.

*RunHostProofs*, the store. `StoreSafe`: the invariant relates record, registry and grants (a grant implies a
claim, a claim implies accepted answers and a settled Resume, a mirror implies a claim). `GrantsAreEarned` is a
part of it, `StoreKeeps` the action property.

*RunHostProofs*, the host. `HostInv` adds to it what each thread knows at each await (`ThreadOK`), that at most
one thread stands at the invocation of an operation (`OneInvoker`), and that no reply is recorded ungranted. One
lemma per action. From it `HostTypeCorrect`, `HostSafe` and `HostKeepsAnswerContract`. No hypothesis about turns
is needed: the store alone, not the host's memory, keeps the second submission from invoking. `HostUsesStore`
says that a host is a client of the store, a behaviour of `HostSpec` one of `StoreSpec`, so what holds of the
store under any client holds under the host: `HostTakesNothingBack`.

*RunHostProofs*, the host in turns. `TurnSpec` is a part of `HostSpec` (`TurnIsHost`), so `HostInv` is at hand;
`TurnInv` adds that a run which is not in memory is at rest and that a remembered interaction is the one the row
is paused on (`RunAtRest`), and what the place of a call chain says of the row and of the record (`Place`).
Where the chain is alone nothing else can be disturbed (`AloneKeeps`), so each await is one case. From it
`OneChainAtATime`, `EndedRunIsQuiet`, `PausedRunIsAnswerable` and, under `~StoreThrows`, `RunningRunIsDriven`.
The turns are necessary for the second (finding 3), the quiet store for the last (section 6, 7).

*TaskActivationProofs.* `ActivationInv`. `OneActive` says nothing of the window that is about to write, nor of
the checkpoint a crash leaves; the invariant says both. Who works holds the lock (`Exclusive`). What a window
works on is what the checkpoint says (`Aims`). The file is true for whoever reads it after a crash
(`CheckpointIsTrue`): its snapshot has at most one active task, what it says was paused was active then, before
an attempt only tasks of the snapshot are active, and after one either only the target is, or it is not and only
tasks of the snapshot are. What is left to pause or to give back never includes the target (`WorkIsRight`). From
it `OneTaskActive`, under the hypothesis `Undisturbed`, which is necessary (section 6, 8 and 9), and without it
`AnAttemptIsKept`.

*HostRelayProofs.* `RelayInv`, from whose parts an `unremoved` request is exempt: nothing is known of a request
that was not sent (`Unsent`); a claim goes only when its request is gone (`Outlived`); a queued request is in at
most one round, under a claim that can be stale only when the round has already read it (`OneRound`); what was
started, or answered in time, is claimed (`KnownIsTaken`); a handler is called from the one place that has not
called it yet (`OneHandler`); every answer on its way says what happened (`AnswersAreTrue`). From it
`ARequestRunsOnce`, `TheAnswerIsTrue` and `RelayKeepsContract`: every step is `Begin`, `End`, `Tell`,
`FailToClear` or a stutter of RelayContract, so an action is begun once, never after its viewer was told, and
"ok", "failed" and "expired" are told of actions that ended so, or never began. The exception is necessary: with
one swallowed removal a request runs twice (`NeverTwice`, section 6, 12); that its viewer is told one thing
holds even then. `OwnInv` adds what a host calls its own: everything it has in a round (`OwnRounds`), and
nothing that a sweep of it has found dead, which cannot come back because its claim stays (`DeadIsForeign`),
both while the request is there. From it `AHostKnowsItsOwn`; without that condition the property is false
(section 6, 12), which two sweeps do not show and five do.

*WorkAdmissionProofs.* `AdmissionInv`: whoever stands between claim and marker owns the claim file
(`ClaimIsOwned`), who has a marker was admitted (`MarkedWasAdmitted`), and what the listing showed is still true
at the rename (`NothingBlocks`): no marker that blocks can appear while the claim is held. Between the decision
of a commit and its file nothing else is patched, so the record still shows no pause and no round works yet
(`CommitUnderLock`); while a user's pause is under way the record does not show one of the user's
(`AskedIsOpen`). From it `OneRoundAtWork`, `TheRoundBeatsThePause` and `TheUsersPauseIsKept`.
`AdmissionKeepsContract` is the refinement, one lemma per group of actions: the rename to a marker is `Admit`,
the lift of the pause `StartWork`, the file of a commit `WatchdogPauses`, be it that a round was admitted since
the look (it does not work yet, as its own lift needs the lock), a release or a displacement `Leave`, a reversal
or the cleanup of a barrier `PauseEnds`. What one task's files do is all the contract sees (`UnseenByTask`:
claims, listings, renewals and the local knowledge of windows are stutters).

*AccountProofs*, the sessions. `SessionInv` is about families that are neither revoked nor disturbed. Such a
family has at most one refresh under way (`OneFlight`), which carries its newest token (`Current`); with none
under way the newest token is in the store or the cookie, and on a device in the manager's memory (`Stored`); on
a device a family belongs to one manager (`OneOwner`), and who takes up another family leaves the first behind
(`OtherFamily`). Hence a token that is sent is the newest, and `OnlyTheUserEndsASession`. `RevokedForAReason`
excepts families that a loss, a second tab or a refused write disturbed; `OneAppIsNeverReused` says how far the
exception reaches: a family never leaves the hands of one manager on a device (`OneHome`), so without a loss or a
refused write nothing there, and nothing in a browser with one tab, disturbs any (`Calm`), and no family is
revoked but by its sign-out.

*AccountProofs*, the sandbox. `BoxInv`: one creation is in flight at a time (`OneCreation`), and a reset that is
about to forget has destroyed the sandbox it read (`Destroyed`). From it `ASandboxIsLostForAReason`. Its
exception of what a slower reset forgets is needed only when resets overlap: under `OneReset` the row names what
the reset read until it forgets it (`NothingOvertakes`), hence `LoneResetForgetsWhatItDestroyed`.

*CoordinationProofs.* A behaviour of the composition is one of every component, the components that do not run
standing still (`ComposedOfEach`). So `CoordinationTyped`, the whole type invariant; `CoordinationIsSafe`, every
other property of the run but one, without hypotheses; and that one, `OneActiveInCoordination`, under
`Undisturbed`.

*Only model-checked:* the seven liveness properties, which are out of the prover's reach: `ApprovalIsConsumed`,
`ReofferIsRepaired`, `JobIsNotOrphaned`, `RunSettles`, `AttemptedIsRecovered`, `FilesAreCleared` and
`DeadIsDisplaced`. Every other property of a passing run is a theorem.

## 5. Abstractions

Text (prompts, plans, diffs, notifications, event payloads) is left out. Answers, ids and operations are values.
Digests, linkage and decoder checks of a record are taken to succeed on records the store wrote. The stores are
atomic per operation, as the SQLite store is; the document store changes its memory before it saves, which
differs when the save throws (a listed hazard). One task, one owner, one job. `heartbeat` of the lease store is
modelled by its absence: nothing calls it. The round's effect on the plan of record is its outcome: nothing
left, something left, or no checklist.

Of files: an exclusive creation, a rename and a removal are one step each, and so is the atomic write of a JSON
file (temporary file, then rename); a read is a step of its own wherever something can come between it and the
write that follows. A directory listing is one step too, in no order (any marker may come first): that a listing
can miss a file another window is renaming at that moment is not in the model. The task's lock (`withTaskLock`)
excludes its holders from each other: that its lease runs out under a holder that lives is not in the model
either. File names carry generations and renewal counts as numbers. Time is never a clock: a deadline has passed
or not, a claim, lease or heartbeat is fresh or stale, and growing stale is a step. Of an extension host that
dies, its memory goes and its files stay. The meta-root lock is one lock, where the code has a queue, a session
lease and a meta lease inside each other.

## 6. Where code and documentation differ

Each of the first four is a run and a finding; the others came out while modelling and can be seen by checking
the named formula on the named specification, or follow from the lines cited.

1. `gate_lease_lost`: a drive whose lease runs out between reading the attempts and `begin` ignores `begin`'s
   `created: false` and executes an effect another worker has begun.
2. `job_failure`: a pass that finds `alreadyExecuted` with a failed attempt ends the job as completed.
3. `host_race`: two submissions of one turn both pass the `answered` check; the refused one fails the job while
   the other's provider call is under way.
4. `activation_recovery`: startup recovery rolls paused siblings back through a writer that asks for the lock
   the recovery holds (`taskActivationCoordinator.ts:431`); it waits for itself, and keeps the lock alive.
5. The lease is reentrant for a worker id and a control plane has one: two drives of one process hold it
   together, and the second executes what the first has begun (`OneEffect` without `OneDrivePerWorker`), where
   `gateMachineryV1.ts:214-215` says that a step never executes twice.
6. `engineRunHostV1.ts:460` checkpoints `running` before the resume's claim: a restart during the resumed
   invocation reconciles the job to failed, where `tests/durableRunRecovery.test.ts:14-16` describes a job that
   stays paused. No second invocation follows.
7. A store call that throws in the resume's claim, follow-up or record step is caught by nobody
   (`engineRunHostV1.ts:461-481`): the job reads running and nothing drives it until the next boot
   (`RunningIsDriven` with `StoreThrows`).
8. A task created while an interrupted activation waits for recovery starts active when nothing is active on
   disk (`startNewTask.ts:388-400`), and the recovery then restores what it had paused: two active tasks
   (`OneActive` without `Undisturbed`).
9. A scheduled rerun looks for another active task (`scheduleTaskResume.ts:1128`) before it takes the lock under
   which it lifts its own quota pause (1139): an activation in between gives two active tasks (likewise).
10. A crash between the patch that pauses a sibling and the checkpoint that says so
    (`taskActivationCoordinator.ts:145-166`) leaves it paused, where 375-379 says that what was paused is
    tracked incrementally, exactly, and that the world is left as if the activation never started.
11. The rollback ignores the result of its patches (251-258), and then clears the checkpoint: a sibling that
    could not be read stays paused.
12. The relay tells the viewer that a request was not picked up when it looked for the claim after the round had
    removed it, or before a sweep made it: the request may have run, against `hostRelayV1.ts:239-242`
    (`NotPickedUpIsTrue`). A handler that fails with ENOENT is taken for a withdrawn request and never answered
    (318-325). When `expireDeadClaim` throws (289), what the sweep has claimed by then is not run, only expired
    later. The set by which a process knows what it runs (176) holds a claim once: after another host has
    removed a request as dead, a second sweep of the process that had listed it before claims it, finds it gone and
    takes the mark of the first away (346), so that a third one may call the running round dead, against 161-166.
    The viewer has then been told "interrupted" already. The removal of a request that was answered swallows its
    failure (344) and the claim is removed all the same: a later sweep claims the request and calls the handler
    again, or answers "expired" over a true answer, against 276-279, where the exclusive claim means that a
    request never runs twice (`NeverTwice`).
13. A reset deletes the user's row without looking whether it still names the sandbox it destroyed: with two
    overlapping resets and a creation in between, the new sandbox is forgotten and runs on, against
    `controlPlaneServerV1.ts:965-968` (`NoneOvertaken`). The overlap is necessary:
    `LoneResetForgetsWhatItDestroyed`. The error of a sandbox that could not be given back names its id, so that it
    is not "dropped silently" (`sandboxLifecycleV1.ts:216-219`); both callers catch it and answer a text of their
    own (`controlPlaneServerV1.ts:477-483`, 912-914), and nobody has the id (`NothingDropped`).
14. The session manager treats every failed refresh as a rejection (`sessionManagerV1.ts:183-188`): a network
    error signs the user out locally. A refresh answered after a sign-out has cleared restores the tokens; 192
    reads them after `clearLocal` may have run. Two tabs share the cookie but not `refreshInFlight`, so one of
    them replays a rotated token and the family is revoked, where 258-260 says that sharing prevents this
    (`NeverReused`). It does prevent it on a device and for one tab (`OneAppIsNeverReused`), as long as the store
    takes every token: the rotated one is saved after the server has rotated (158-164, awaited at 190 and 229) and
    a refused save is not tried again, so that the next start replays the old one and the family is revoked
    (`NextStartIsCurrent`).
15. A pause whose claim was revoked before the sweep captured the fence counts as in force after the barrier is
    finished, against `workAdmissionV1.ts:3582-3587` (`RevokedPauseIsOver`); the check after the write repairs
    it when a round is there. A claim file left by a crash between its creation and its rename is reclaimed by
    nobody. Reclamation and takeover look at the first marker of an unsorted listing (4337, 4515), which the
    comment at 4333-4336 calls the oldest; a dead marker behind a living one stays. `pauseTask` looks for a pause
    in a snapshot (`pauseTask.ts:136`) and patches without looking again (160-172): over a watchdog's pause
    written meanwhile the user's keeps that one's claim, and is lifted with it, where 147-149 says that Pause is
    never refused (`AskedIsKept`).
16. `primarySessionLock.ts:28-33` calls the takeover of an expired lease race-safe, because two contenders
    cannot both rename the same file; the second may rename the fresh lease of the first. The heartbeat (41) and
    the release (44) read and then write or unlink.
17. `transactionStoreV1.ts:645` accepts equal answers under another idempotency id as a duplicate, as its
    comment wants; the interface (137-140) says it does so for the identical id only.

## 7. Plan

Done, in order of what the system's promises rest on:

1. *Effects*: EffectContract, GateMachinery, JobRecovery, and their proofs.
2. *Answers and runs*: AnswerContract, ChatTransactions, RunHost, and their proofs.
3. *Coordination through files in the extension*: TaskActivation, RelayContract, HostRelay, AdmissionContract,
   WorkAdmission, and their proofs.
4. *Sessions and sandboxes*: Sessions, UserSandbox, and their proofs; then the composition's.

Left, each of which would be a module of its own beside the others:

1. the session lock with its takeover, under TaskActivation in place of the one lock;
2. the journals of task creation, adoption, deletion and finalization, with a crash between any two phases;
3. the two-write terminalization of the round ledger and its repair sweep;
4. dispatch: chain resolution as a pure function against a reference definition.

## 8. Not modelled

Each component of `PROJECT.json` says why. In short: provider and sandbox adapters, Docker and SDK clients are
external I/O, of which only what their answers mean is used; parsers, decoders, checklists, formatting and
redaction turn text into records and have no state; key custody is cryptography; HTTP routing and the WebSocket
codec are wiring, and the hub's awaits resolve within one turn in the shipped composition; the extension's own
orchestrator, broker and transaction store are the originals of which the engine's are a port, and the port is
modelled; its commands, runners and views (most of the repository's lines) are VS Code glue, prompts and child
processes around the stores, as the mobile app's screens are around the HTTP API. Those lines are why the map
covers a small share of the repository: what is mapped is where protocol decisions are made.
