---------------------------- MODULE WorkAdmission ----------------------------
(***************************************************************************)
(* Work admission for one task: files in a directory that several windows  *)
(* share. A round claims by exclusive creation, publishes a marker, lifts  *)
(* a pause of the watchdog and works; a watchdog's sweep claims for the    *)
(* commit of a pause, which never keeps a round out. Windows die and       *)
(* stall; a rescuer (the reclamation of a sweep, or the user's takeover)   *)
(* moves away a marker of a dead or stale owner, a pause commit's through  *)
(* a barrier that advances the pause fence. The task's record is read and  *)
(* written under the task's lock, the files of the admission are not. Each *)
(* owner is in a window of its own: what owners of one window see of each  *)
(* other in memory only makes a sweep stand down earlier.                  *)
(***************************************************************************)
EXTENDS Naturals

CONSTANTS
  Rounds,          \* acquisitions for purpose "admission"
  Watchdogs,       \* acquisitions for purpose "pauseCommit", one sweep each
  Rescuers,        \* calls of the reclamation or of the takeover
  Nobody,
  User,
  MaxRenewals,     \* heartbeats of one round
  MaxStalls        \* deaths, stalls and failed file operations

ASSUME AdmissionAssumption ==
  /\ Rounds \cap Watchdogs = {}
  /\ Nobody \notin Rounds \cup Watchdogs \cup {User}
  /\ User \notin Rounds \cup Watchdogs
  /\ MaxRenewals \in Nat /\ MaxStalls \in Nat

Owners == Rounds \cup Watchdogs

VARIABLES
  claimFile,    \* admission.claim: who created it
  marker,       \* owners with a marker file
  renewals,     \* the generation in the name of an owner's marker, from 1
  aged,         \* owners whose marker is older than the stale threshold
  barrier,      \* per sweep: the target in its barrier's name, 0 without one
  fence,        \* the highest pause-fence file
  pause,        \* the task's record: who it says has paused, and the fence
  asked,        \* the user's pause: nothing, under way, written, or written
                \* over a pause of the watchdog
  place,        \* where an owner stands
  living,       \* owners whose window is alive
  left,         \* what an owner's death leaves: nothing, a CLI that still runs,
                \* or doubt (another host, an unreadable record)
  captured,     \* the fence a sweep has captured
  todo,         \* barriers an acquisition has listed
  finishing,    \* the barrier an owner or a rescuer finishes
  rescue,       \* the marker a rescuer has found
  stalls

fileVars == <<claimFile, marker, renewals, aged, barrier, fence>>
admissionVars == <<fileVars, pause, asked, place, living, left, captured, todo, finishing,
                   rescue, stalls>>
userVars == <<asked, left>>    \* what no owner and no rescuer changes

Places == {"idle", "barriers", "list", "publish", "unclaim", "held",
           "fence", "look", "commit", "post", "postFence", "reverse", "work", "release", "done"}

NotPaused == [by |-> Nobody, gen |-> 0]
NotFinishing == [step |-> "none", of |-> Nobody, target |-> 0]
NoRescue == [of |-> Nobody, name |-> 0, target |-> 0]

AdmissionTypeOK ==
  /\ claimFile \in Owners \cup {Nobody}
  /\ marker \subseteq Owners
  /\ renewals \in [Owners -> 0 .. MaxRenewals + 1]
  /\ aged \subseteq Owners
  /\ barrier \in [Watchdogs -> Nat]
  /\ fence \in Nat
  /\ pause \in [by : Watchdogs \cup {User, Nobody}, gen : Nat]
  /\ asked \in {"no", "asked", "alone", "over"}
  /\ place \in [Owners -> Places]
  /\ left \in [Owners -> {"nothing", "cli", "doubt"}]
  /\ living \subseteq Owners
  /\ captured \in [Watchdogs -> Nat]
  /\ todo \in [Owners -> SUBSET Watchdogs]
  /\ finishing \in [Owners \cup Rescuers ->
       [step : {"none", "fence", "lift", "remove"}, of : Watchdogs \cup {Nobody},
        target : Nat]]
  /\ rescue \in [Rescuers -> [of : Owners \cup {Nobody}, name : 0 .. MaxRenewals + 1,
                              target : Nat]]
  /\ stalls \in 0 .. MaxStalls

AdmissionInit ==
  /\ claimFile = Nobody
  /\ marker = {}
  /\ renewals = [o \in Owners |-> 0]
  /\ aged = {}
  /\ barrier = [c \in Watchdogs |-> 0]
  /\ fence = 0
  /\ pause = NotPaused /\ asked = "no"
  /\ place \in [Owners -> {"idle", "done"}]   \* "done": never comes
  /\ living = Owners
  /\ left \in [Owners -> {"nothing", "cli", "doubt"}]
  /\ \A c \in Watchdogs : left[c] # "cli"    \* a sweep runs none
  /\ captured = [c \in Watchdogs |-> 0]
  /\ todo = [o \in Owners |-> {}]
  /\ finishing = [x \in Owners \cup Rescuers |-> NotFinishing]
  /\ rescue = [k \in Rescuers |-> NoRescue]
  /\ stalls = 0

Stall == stalls < MaxStalls /\ stalls' = stalls + 1

Goes(o, there) == place' = [place EXCEPT ![o] = there]

(* A step of a living owner that stands at a place. *)
Stands(o, there) == o \in living /\ place[o] = there

(* withTaskLock: who patches the task's record keeps the others waiting. Only a
   sweep does something in between that matters; the other patches are one step. *)
TaskIsFree == \A c \in Watchdogs : ~ Stands(c, "commit")

-----------------------------------------------------------------------------
(* Finishing a barrier: publish its fence generation, lift the pause of its
   claim, remove it. Any number of callers may finish the same one. *)

FinishFence(x) ==
  /\ finishing[x].step = "fence"
  /\ fence' = IF finishing[x].target > fence THEN finishing[x].target ELSE fence
  /\ finishing' = [finishing EXCEPT ![x].step = "lift"]
  /\ UNCHANGED <<claimFile, marker, renewals, aged, barrier, pause, place, living,
                 captured, todo, rescue, stalls>>

(* Mutant: the pause is lifted whoever wrote it. *)
LiftAnyPause(c) == pause' = NotPaused

LiftPauseOf(c) == pause' = IF pause.by = c THEN NotPaused ELSE pause

(* A cleanup that fails is logged and no more. *)
FinishLift(x) ==
  /\ finishing[x].step = "lift" /\ TaskIsFree
  /\ \/ LiftPauseOf(finishing[x].of) /\ UNCHANGED stalls
     \/ Stall /\ UNCHANGED pause
  /\ finishing' = [finishing EXCEPT ![x].step = "remove"]
  /\ UNCHANGED <<fileVars, place, living, captured, todo, rescue>>

FinishRemove(x) ==
  /\ finishing[x].step = "remove"
  /\ barrier' = [barrier EXCEPT ![finishing[x].of] = 0]
  /\ finishing' = [finishing EXCEPT ![x] = NotFinishing]
  /\ UNCHANGED <<claimFile, marker, renewals, aged, fence, pause, place, living,
                 captured, todo, rescue, stalls>>

FinishStep(x) == FinishFence(x) \/ FinishLift(x) \/ FinishRemove(x)

-----------------------------------------------------------------------------
(* acquireWorkAdmissionCoreV1. *)

(* markerBlocksAcquisitionV1: a pause commit keeps out pause commits only. *)
Blocks(holder, o) == holder \in Watchdogs => o \in Watchdogs

(* A sweep begins where the task is active and no admission is in sight. *)
Worth(o) == o \in Rounds \/ (pause.by = Nobody /\ claimFile = Nobody /\ marker = {})

Enter(o) ==
  /\ Stands(o, "idle")
  /\ Worth(o)
  /\ todo' = [todo EXCEPT ![o] = {c \in Watchdogs : barrier[c] # 0}]
  /\ Goes(o, "barriers")
  /\ UNCHANGED <<fileVars, pause, living, captured, finishing, rescue, stalls>>

FinishNext(o, c) ==
  /\ Stands(o, "barriers")
  /\ finishing[o] = NotFinishing
  /\ c \in todo[o]
  /\ todo' = [todo EXCEPT ![o] = @ \ {c}]
  /\ finishing' = [finishing EXCEPT ![o] =
                     IF barrier[c] = 0 THEN NotFinishing
                     ELSE [step |-> "fence", of |-> c, target |-> barrier[c]]]
  /\ UNCHANGED <<fileVars, pause, place, living, captured, rescue, stalls>>

BarriersDone(o) ==
  Stands(o, "barriers") /\ finishing[o] = NotFinishing /\ todo[o] = {}

CreateClaim(o) ==
  /\ BarriersDone(o)
  /\ claimFile = Nobody
  /\ claimFile' = o
  /\ Goes(o, "list")
  /\ UNCHANGED <<marker, renewals, aged, barrier, fence, pause, living, captured,
                 todo, finishing, rescue, stalls>>

(* A claim that blocks is an answer at once, one that does not is waited for
   and an answer in the end. *)
BusyAtClaim(o) ==
  /\ BarriersDone(o)
  /\ claimFile # Nobody
  /\ Goes(o, "idle")
  /\ UNCHANGED <<fileVars, pause, living, captured, todo, finishing, rescue, stalls>>

(* Mutant: the markers are not listed again under the claim. *)
ListNothing(o) ==
  /\ Stands(o, "list")
  /\ Goes(o, "publish")
  /\ UNCHANGED <<fileVars, pause, living, captured, todo, finishing, rescue, stalls>>

ListMarkers(o) ==
  /\ Stands(o, "list")
  /\ Goes(o, IF \E h \in marker : Blocks(h, o) THEN "unclaim" ELSE "publish")
  /\ UNCHANGED <<fileVars, pause, living, captured, todo, finishing, rescue, stalls>>

(* The removal of the own claim is tried again and may fail in the end. *)
Unclaim(o) ==
  /\ Stands(o, "unclaim")
  /\ \/ claimFile' = Nobody /\ UNCHANGED stalls
     \/ Stall /\ UNCHANGED claimFile
  /\ Goes(o, "idle")
  /\ UNCHANGED <<marker, renewals, aged, barrier, fence, pause, living, captured,
                 todo, finishing, rescue>>

PublishMarker(o) ==
  /\ Stands(o, "publish")
  /\ claimFile' = Nobody
  /\ marker' = marker \cup {o}
  /\ renewals' = [renewals EXCEPT ![o] = 1]
  /\ Goes(o, "held")
  /\ UNCHANGED <<aged, barrier, fence, pause, living, captured, todo, finishing,
                 rescue, stalls>>

PublishFails(o) ==
  /\ Stands(o, "publish")
  /\ Stall
  /\ Goes(o, "unclaim")
  /\ UNCHANGED <<fileVars, pause, living, captured, todo, finishing, rescue>>

(* Nothing that an owner keeps in memory outlives its handle or its window. *)
Forgets(o) ==
  /\ Goes(o, "done")
  /\ todo' = [todo EXCEPT ![o] = {}]
  /\ captured' = [c \in Watchdogs |-> IF c = o THEN 0 ELSE captured[c]]
  /\ finishing' = [finishing EXCEPT ![o] = NotFinishing]

(* A displaced owner has no marker, and is not told. *)
Release(o) ==
  /\ Stands(o, "release") \/ Stands(o, "work")
  /\ marker' = marker \ {o}
  /\ aged' = aged \ {o}
  /\ renewals' = [renewals EXCEPT ![o] = 0]
  /\ Forgets(o)
  /\ UNCHANGED <<claimFile, barrier, fence, pause, living, rescue, stalls>>

(* heartbeat: the marker is renamed and touched. *)
Renew(r) ==
  /\ r \in living /\ place[r] \in {"held", "work"}
  /\ r \in marker /\ renewals[r] <= MaxRenewals
  /\ renewals' = [renewals EXCEPT ![r] = @ + 1]
  /\ aged' = aged \ {r}
  /\ UNCHANGED <<claimFile, marker, barrier, fence, pause, place, living, captured,
                 todo, finishing, rescue, stalls>>

-----------------------------------------------------------------------------
(* A round that holds its admission: a pause of the watchdog is lifted, the
   user's is obeyed. *)
LiftWatchdogPause(r) ==
  /\ Stands(r, "held") /\ r \in Rounds /\ TaskIsFree
  /\ pause' = IF pause.by \in Watchdogs THEN NotPaused ELSE pause
  /\ Goes(r, IF pause.by = User THEN "release" ELSE "work")
  /\ UNCHANGED <<fileVars, living, captured, todo, finishing, rescue, stalls>>

-----------------------------------------------------------------------------
(* A sweep that holds its claim for a pause. *)

OthersLive(c) == marker \ {c} # {}

CheckAndCapture(c) ==
  /\ Stands(c, "held") /\ c \in Watchdogs
  /\ \/ OthersLive(c) /\ Goes(c, "release") /\ UNCHANGED captured
     \/ /\ ~ OthersLive(c)
        /\ captured' = [captured EXCEPT ![c] = fence]
        /\ Goes(c, "fence")
  /\ UNCHANGED <<fileVars, pause, living, todo, finishing, rescue, stalls>>

CheckFence(c) ==
  /\ Stands(c, "fence")
  /\ Goes(c, IF captured[c] = fence THEN "look" ELSE "release")
  /\ UNCHANGED <<fileVars, pause, living, captured, todo, finishing, rescue, stalls>>

(* Mutant: the markers are not looked at again under the lock. *)
LookAtPauseOnly(c) ==
  /\ Stands(c, "look") /\ TaskIsFree
  /\ Goes(c, IF pause.by = Nobody THEN "commit" ELSE "release")
  /\ UNCHANGED <<fileVars, pause, living, captured, todo, finishing, rescue, stalls>>

(* isStillImpossible: the task is looked at again under its lock, and so are the
   markers, which the lock does not guard. *)
LookAgain(c) ==
  /\ Stands(c, "look") /\ TaskIsFree
  /\ Goes(c, IF pause.by = Nobody /\ ~ OthersLive(c) THEN "commit" ELSE "release")
  /\ UNCHANGED <<fileVars, pause, living, captured, todo, finishing, rescue, stalls>>

(* The journal and the file come after awaits: a round may be admitted in between. *)
WritePause(c) ==
  /\ Stands(c, "commit")
  /\ pause' = [by |-> c, gen |-> captured[c]]
  /\ Goes(c, "post")
  /\ UNCHANGED <<fileVars, living, captured, todo, finishing, rescue, stalls>>

WritePauseFails(c) ==
  /\ Stands(c, "commit")
  /\ Stall
  /\ Goes(c, "release")
  /\ UNCHANGED <<fileVars, pause, living, captured, todo, finishing, rescue>>

CheckMarkersAgain(c) ==
  /\ Stands(c, "post")
  /\ Goes(c, IF OthersLive(c) THEN "reverse" ELSE "postFence")
  /\ UNCHANGED <<fileVars, pause, living, captured, todo, finishing, rescue, stalls>>

(* A pause that stands is announced and the claim released. *)
CheckFenceAgain(c) ==
  /\ Stands(c, "postFence")
  /\ Goes(c, IF captured[c] = fence THEN "release" ELSE "reverse")
  /\ UNCHANGED <<fileVars, pause, living, captured, todo, finishing, rescue, stalls>>

(* Only the pause that this claim has written is taken back. *)
ReversePause(c) ==
  /\ Stands(c, "reverse") /\ TaskIsFree
  /\ LiftPauseOf(c)
  /\ Goes(c, "release")
  /\ UNCHANGED <<fileVars, living, captured, todo, finishing, rescue, stalls>>

-----------------------------------------------------------------------------
(* Reclamation and takeover. *)

(* The owner is of this host, and its process is gone; so is its CLI. *)
KnownDead(o) == o \notin living /\ left[o] # "doubt"
Gone(o) == KnownDead(o) /\ left[o] # "cli"

(* Mutant: what a dead sweep left is not reclaimed. *)
ReclaimableRound(o) == o \in marker \cap Rounds /\ Gone(o)

(* A round of a dead owner need not be stale. *)
Reclaimable(o) == o \in marker /\ Gone(o) /\ (o \in aged \/ o \in Rounds)

(* What the user has confirmed: the marker is stale, and its owner lives or
   cannot be known to be dead. *)
Contestable(o) == o \in marker \cap aged /\ ~ KnownDead(o)

(* A call looks at the one marker that the directory lists first, whichever that
   is, and ends if that one is not to be moved. *)
Observe(k, o) ==
  /\ rescue[k] = NoRescue /\ finishing[k] = NotFinishing
  /\ rescue' = [rescue EXCEPT ![k] =
       [of |-> o, name |-> renewals[o], target |-> IF o \in Watchdogs THEN fence + 1 ELSE 0]]
  /\ UNCHANGED <<fileVars, pause, place, living, captured, todo, finishing, stalls>>

Reclaim(k, o) == Reclaimable(o) /\ Observe(k, o)
TakeOver(k, o) == Contestable(o) /\ Observe(k, o)

(* The rename wins if the name is still there: a pause commit's marker becomes
   its barrier, a round's a tombstone. *)
Displace(k) ==
  LET o == rescue[k].of IN
  /\ rescue[k] # NoRescue
  /\ IF o \in marker /\ renewals[o] = rescue[k].name
       THEN /\ marker' = marker \ {o}
            /\ aged' = aged \ {o}
            /\ IF o \in Watchdogs
                 THEN /\ barrier' = [barrier EXCEPT ![o] = rescue[k].target]
                      /\ finishing' = [finishing EXCEPT ![k] =
                           [step |-> "fence", of |-> o, target |-> rescue[k].target]]
                 ELSE UNCHANGED <<barrier, finishing>>
       ELSE UNCHANGED <<marker, aged, barrier, finishing>>
  /\ rescue' = [rescue EXCEPT ![k] = NoRescue]
  /\ UNCHANGED <<claimFile, renewals, fence, pause, place, living, captured, todo, stalls>>

(* Whoever reads a pause whose fence is not current has it lifted. *)
ReadPause ==
  /\ pause.by \in Watchdogs /\ pause.gen # fence /\ TaskIsFree
  /\ pause' = NotPaused
  /\ UNCHANGED <<fileVars, place, living, captured, todo, finishing, rescue, stalls>>

-----------------------------------------------------------------------------
(* The user, time and failure. *)

(* pauseTask asks of a snapshot whether the task is paused. *)
UserAsks ==
  /\ pause.by = Nobody /\ asked # "asked"
  /\ asked' = "asked"
  /\ UNCHANGED <<fileVars, pause, place, living, left, captured, todo, finishing, rescue, stalls>>

(* The patch asks no more. Over a pause that the watchdog has written meanwhile
   it leaves the watchdog's reason, claim and fence: the record says as before. *)
UserPauses ==
  /\ asked = "asked" /\ TaskIsFree
  /\ IF pause.by \in Watchdogs THEN asked' = "over" /\ UNCHANGED pause
     ELSE asked' = "alone" /\ pause' = [by |-> User, gen |-> 0]
  /\ UNCHANGED <<fileVars, place, living, left, captured, todo, finishing, rescue, stalls>>

UserResumes ==
  /\ pause.by # Nobody /\ TaskIsFree
  /\ pause' = NotPaused
  /\ asked' = IF asked = "asked" THEN asked ELSE "no"
  /\ UNCHANGED <<fileVars, place, living, left, captured, todo, finishing, rescue, stalls>>

(* A CLI that outlived its round ends, or is stopped. *)
CliEnds(o) ==
  /\ o \notin living /\ left[o] = "cli"
  /\ left' = [left EXCEPT ![o] = "nothing"]
  /\ UNCHANGED <<fileVars, pause, asked, place, living, captured, todo, finishing, rescue, stalls>>

MarkerAges(o) ==
  /\ o \in marker \ aged
  /\ o \in living => Stall
  /\ o \notin living => UNCHANGED stalls
  /\ aged' = aged \cup {o}
  /\ UNCHANGED <<claimFile, marker, renewals, barrier, fence, pause, place, living,
                 captured, todo, finishing, rescue>>

OwnerDies(o) ==
  /\ o \in living /\ place[o] \notin {"idle", "done"}
  /\ Stall
  /\ living' = living \ {o}
  /\ Forgets(o)
  /\ UNCHANGED <<fileVars, pause, rescue>>

RescuerDies(k) ==
  /\ rescue[k] # NoRescue \/ finishing[k] # NotFinishing
  /\ Stall
  /\ rescue' = [rescue EXCEPT ![k] = NoRescue]
  /\ finishing' = [finishing EXCEPT ![k] = NotFinishing]
  /\ UNCHANGED <<fileVars, pause, place, living, captured, todo>>

AcquireStep(o) ==
  \/ Enter(o) \/ CreateClaim(o) \/ BusyAtClaim(o) \/ ListMarkers(o)
  \/ Unclaim(o) \/ PublishMarker(o) \/ PublishFails(o) \/ Release(o)
  \/ \E c \in Watchdogs : FinishNext(o, c)

RoundOf(r) == LiftWatchdogPause(r) \/ Renew(r)

PauseCommit(c) ==
  \/ CheckAndCapture(c) \/ CheckFence(c) \/ LookAgain(c) \/ WritePause(c)
  \/ WritePauseFails(c) \/ CheckMarkersAgain(c) \/ CheckFenceAgain(c) \/ ReversePause(c)

RescueStep(k) == Displace(k) \/ \E o \in Owners : Reclaim(k, o) \/ TakeOver(k, o)

(* What a window does. *)
WindowStep ==
  \/ \E o \in Owners : AcquireStep(o) \/ MarkerAges(o) \/ OwnerDies(o)
  \/ \E r \in Rounds : RoundOf(r)
  \/ \E c \in Watchdogs : PauseCommit(c)
  \/ \E x \in Owners \cup Rescuers : FinishStep(x)
  \/ \E k \in Rescuers : RescueStep(k) \/ RescuerDies(k)
  \/ ReadPause

AdmissionNext ==
  \/ WindowStep /\ UNCHANGED userVars
  \/ UserAsks \/ UserPauses \/ UserResumes \/ \E o \in Owners : CliEnds(o)

AdmissionSpec == AdmissionInit /\ [][AdmissionNext]_admissionVars

(* A reclamation that finds only markers it may move, and so one of them first. *)
SureReclaim(k) ==
  /\ \A q \in marker : Reclaimable(q)
  /\ \E o \in Owners : Reclaim(k, o)

(* A dead owner's marker grows old; the sweep's timer calls the reclamation
   again and again; a call goes on at each await, and so does the holder of the
   task's lock. Nobody need confirm a takeover. *)
AdmissionFairness ==
  /\ \A o \in Owners : WF_admissionVars(o \notin living /\ MarkerAges(o) /\ UNCHANGED userVars)
  /\ \A k \in Rescuers :
       /\ WF_admissionVars(SureReclaim(k) /\ UNCHANGED userVars)
       /\ WF_admissionVars((Displace(k) \/ FinishStep(k)) /\ UNCHANGED userVars)
  /\ \A c \in Watchdogs : WF_admissionVars(WritePause(c) /\ UNCHANGED userVars)

FairAdmissionSpec == AdmissionSpec /\ AdmissionFairness

-----------------------------------------------------------------------------
(* Two rounds work on the task at once only when the marker of one of them was
   moved away under it. *)
OneAtWork ==
  \A r, q \in Rounds :
    r # q /\ place[r] \in {"held", "work"} /\ place[q] \in {"held", "work"}
      => ~({r, q} \subseteq marker)

(* Claim, listing, rename and the commit of a pause are many steps of many
   windows; what they do to the task is one step of the contract at a time. A
   round is admitted while its marker is there, and may be so before the pause
   is written that was decided without it. *)
Admission == INSTANCE AdmissionContract WITH
  Works <- Rounds,
  admitted <- marker \cap Rounds,
  working <- {r \in marker \cap Rounds : place[r] = "work"},
  pausedBy <- IF pause.by \in Watchdogs THEN "watchdog"
              ELSE IF pause.by = User THEN "user" ELSE "nobody"

KeepsAdmissionContract == Admission!Spec

(* A round and a pause never both win: what works under its marker is not
   paused by the watchdog, whichever of the two came first. *)
RoundBeatsPause ==
  \A r \in Rounds : place[r] = "work" /\ r \in marker => pause.by \notin Watchdogs

(* What the record shows as the user's pause only the user ends: no sweep, round,
   barrier or reader takes it for the pause it came to lift, and a watchdog that
   looked before the user's patch does not write over it. *)
UserPauseIsKept == [][pause.by = User /\ pause' # pause => UserResumes]_admissionVars

(* pauseTask.ts:147-149: Pause is never refused; what the user asked for stays
   until the user resumes. It does not hold of a pause patched over the
   watchdog's, which is lifted as that one would be. *)
AskedIsKept == asked = "over" => pause.by # Nobody

(* A marker of a window that is known to be gone does not keep the task busy for
   ever, unless another marker is there again and again that no reclamation may
   move: a call may find that one first. *)
DeadIsDisplaced ==
  \A o \in Owners : o \in marker /\ Gone(o) ~> o \notin marker \/ \E q \in marker : ~ Gone(q)

(* workAdmissionV1.ts:3582-3587: a pause of a claim that was revoked, and whose
   barrier is finished, is in force no more. *)
RevokedPauseIsOver ==
  \A c \in Watchdogs :
    place[c] \in {"post", "postFence"} /\ c \notin marker /\ barrier[c] = 0
      => ~(pause.by = c /\ pause.gen = fence)
=============================================================================
