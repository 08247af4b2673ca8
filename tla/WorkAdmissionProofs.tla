-------------------------- MODULE WorkAdmissionProofs --------------------------
(***************************************************************************)
(* One round at work, no pause over it, and the user's pause kept, for any *)
(* number of rounds, watchdogs, rescuers, renewals and stalls. The         *)
(* invariant: who stands between claim and marker owns the claim file, and *)
(* whoever is about to publish has seen that no marker blocks.             *)
(***************************************************************************)
EXTENDS WorkAdmission, TLAPS

Finishings == [step : {"none", "fence", "lift", "remove"}, of : Watchdogs \cup {Nobody},
               target : Nat]
RescueRecords == [of : Owners \cup {Nobody}, name : 0 .. MaxRenewals + 1, target : Nat]
Pauses == [by : Watchdogs \cup {User, Nobody}, gen : Nat]

(* The claim is exclusive from its creation to its removal. *)
ClaimIsOwned ==
  \A o \in Owners : place[o] \in {"list", "publish", "unclaim"} => claimFile = o

(* Only who was admitted has a marker, and who has left does not come back. *)
MarkedWasAdmitted ==
  \A o \in marker : place[o] \notin {"idle", "barriers", "list", "publish", "unclaim"}

(* What the list showed stays true until the marker is published. *)
NothingBlocks ==
  \A o \in Owners : place[o] = "publish" => \A h \in marker : ~Blocks(h, o)

OneRoundMarker == \A r, q \in marker \cap Rounds : r = q

(* From a sweep's look to its write the record stays unpaused, and a round that
   is admitted meanwhile waits for the lock before it works. *)
CommitUnderLock ==
  \A c \in Watchdogs : Stands(c, "commit") =>
    /\ pause.by = Nobody
    /\ \A d \in Watchdogs : Stands(d, "commit") => d = c
    /\ \A r \in marker \cap Rounds : place[r] # "work"

(* Whom the user has asked to pause has not been told so yet. *)
AskedIsOpen == asked = "asked" => pause.by # User

AdmissionInv ==
  /\ AdmissionTypeOK
  /\ ClaimIsOwned /\ MarkedWasAdmitted /\ NothingBlocks /\ OneRoundMarker
  /\ RoundBeatsPause /\ CommitUnderLock /\ AskedIsOpen

LEMMA AdmissionInitially == AdmissionInit => AdmissionInv
BY AdmissionAssumption DEF AdmissionInit, AdmissionInv, AdmissionTypeOK, ClaimIsOwned,
   MarkedWasAdmitted, NothingBlocks, OneRoundMarker, RoundBeatsPause, Places, Owners,
   NotPaused, NotFinishing, NoRescue, CommitUnderLock, AskedIsOpen, Stands

LEMMA AdmissionTypes ==
  AdmissionTypeOK <=>
    /\ claimFile \in Owners \cup {Nobody}
    /\ marker \subseteq Owners
    /\ renewals \in [Owners -> 0 .. MaxRenewals + 1]
    /\ aged \subseteq Owners
    /\ barrier \in [Watchdogs -> Nat]
    /\ fence \in Nat
    /\ pause \in Pauses
    /\ asked \in {"no", "asked", "alone", "over"}
    /\ left \in [Owners -> {"nothing", "cli", "doubt"}]
    /\ place \in [Owners -> Places]
    /\ living \subseteq Owners
    /\ captured \in [Watchdogs -> Nat]
    /\ todo \in [Owners -> SUBSET Watchdogs]
    /\ finishing \in [Owners \cup Rescuers -> Finishings]
    /\ rescue \in [Rescuers -> RescueRecords]
    /\ stalls \in 0 .. MaxStalls
BY DEF AdmissionTypeOK, Finishings, RescueRecords, Pauses

(* One lemma per action: what it does to each part of the invariant. *)

LEMMA FinishFenceStep ==
  ASSUME AdmissionInv, NEW x \in Owners \cup Rescuers, FinishFence(x), UNCHANGED userVars
  PROVE  AdmissionInv'
<1> USE AdmissionAssumption DEF AdmissionInv, AdmissionTypeOK, Owners, FinishFence,
        fileVars, userVars
<1>t. AdmissionTypeOK' OBVIOUS
<1>1. ClaimIsOwned' BY DEF ClaimIsOwned
<1>2. MarkedWasAdmitted' BY DEF MarkedWasAdmitted
<1>3. NothingBlocks' BY DEF NothingBlocks, ClaimIsOwned, MarkedWasAdmitted, Blocks
<1>4. OneRoundMarker' BY DEF OneRoundMarker, NothingBlocks, Blocks
<1>5. RoundBeatsPause' BY DEF RoundBeatsPause, MarkedWasAdmitted, CommitUnderLock, Stands
<1>6. CommitUnderLock' BY DEF CommitUnderLock, MarkedWasAdmitted, TaskIsFree, Stands
<1>7. AskedIsOpen' BY DEF AskedIsOpen
<1> QED BY <1>t, <1>1, <1>2, <1>3, <1>4, <1>5, <1>6, <1>7

LEMMA FinishLiftStep ==
  ASSUME AdmissionInv, NEW x \in Owners \cup Rescuers, FinishLift(x), UNCHANGED userVars
  PROVE  AdmissionInv'
<1> USE AdmissionAssumption DEF AdmissionInv, AdmissionTypeOK, Owners, FinishLift, LiftPauseOf,
        Stall, NotPaused, fileVars, userVars
<1>t. AdmissionTypeOK'
  <2>1. pause' \in [by : Watchdogs \cup {User, Nobody}, gen : Nat]
    <3>1. pause \in [by : Watchdogs \cup {User, Nobody}, gen : Nat] OBVIOUS
    <3>2. pause' \in {pause, [by |-> Nobody, gen |-> 0]} OBVIOUS
    <3> HIDE DEF AdmissionInv, AdmissionTypeOK, FinishLift
    <3> QED BY <3>1, <3>2
  <2>2. stalls' \in 0 .. MaxStalls OBVIOUS
  <2>3. finishing' \in [Owners \cup Rescuers -> Finishings]
    <3>1. finishing \in [Owners \cup Rescuers -> Finishings] BY AdmissionTypes
    <3>2. finishing' = [finishing EXCEPT ![x].step = "remove"] OBVIOUS
    <3> HIDE DEF AdmissionInv, AdmissionTypeOK, FinishLift
    <3> QED BY <3>1, <3>2 DEF Finishings
  <2> QED BY <2>1, <2>2, <2>3 DEF Finishings
<1>1. ClaimIsOwned' BY DEF ClaimIsOwned
<1>2. MarkedWasAdmitted' BY DEF MarkedWasAdmitted
<1>3. NothingBlocks' BY DEF NothingBlocks, ClaimIsOwned, MarkedWasAdmitted, Blocks
<1>4. OneRoundMarker' BY DEF OneRoundMarker, NothingBlocks, Blocks
<1>5. RoundBeatsPause' BY DEF RoundBeatsPause, MarkedWasAdmitted, CommitUnderLock, Stands
<1>6. CommitUnderLock' BY DEF CommitUnderLock, MarkedWasAdmitted, TaskIsFree, Stands
<1>7. AskedIsOpen' BY DEF AskedIsOpen
<1> QED BY <1>t, <1>1, <1>2, <1>3, <1>4, <1>5, <1>6, <1>7

LEMMA FinishRemoveStep ==
  ASSUME AdmissionInv, NEW x \in Owners \cup Rescuers, FinishRemove(x), UNCHANGED userVars
  PROVE  AdmissionInv'
<1> USE AdmissionAssumption DEF AdmissionInv, AdmissionTypeOK, Owners, FinishRemove, NotFinishing,
        fileVars, userVars
<1>t. AdmissionTypeOK' OBVIOUS
<1>1. ClaimIsOwned' BY DEF ClaimIsOwned
<1>2. MarkedWasAdmitted' BY DEF MarkedWasAdmitted
<1>3. NothingBlocks' BY DEF NothingBlocks, ClaimIsOwned, MarkedWasAdmitted, Blocks
<1>4. OneRoundMarker' BY DEF OneRoundMarker, NothingBlocks, Blocks
<1>5. RoundBeatsPause' BY DEF RoundBeatsPause, MarkedWasAdmitted, CommitUnderLock, Stands
<1>6. CommitUnderLock' BY DEF CommitUnderLock, MarkedWasAdmitted, TaskIsFree, Stands
<1>7. AskedIsOpen' BY DEF AskedIsOpen
<1> QED BY <1>t, <1>1, <1>2, <1>3, <1>4, <1>5, <1>6, <1>7

LEMMA EnterStep ==
  ASSUME AdmissionInv, NEW o \in Owners, Enter(o), UNCHANGED userVars
  PROVE  AdmissionInv'
<1> USE AdmissionAssumption DEF AdmissionInv, AdmissionTypeOK, Owners, Enter, Goes, Stands,
        Places, fileVars, userVars
<1>t. AdmissionTypeOK' OBVIOUS
<1>1. ClaimIsOwned' BY DEF ClaimIsOwned
<1>2. MarkedWasAdmitted' BY DEF MarkedWasAdmitted
<1>3. NothingBlocks' BY DEF NothingBlocks, ClaimIsOwned, MarkedWasAdmitted, Blocks
<1>4. OneRoundMarker' BY DEF OneRoundMarker, NothingBlocks, Blocks
<1>5. RoundBeatsPause' BY DEF RoundBeatsPause, MarkedWasAdmitted, CommitUnderLock, Stands
<1>6. CommitUnderLock' BY DEF CommitUnderLock, MarkedWasAdmitted, TaskIsFree, Stands
<1>7. AskedIsOpen' BY DEF AskedIsOpen
<1> QED BY <1>t, <1>1, <1>2, <1>3, <1>4, <1>5, <1>6, <1>7

LEMMA FinishNextStep ==
  ASSUME AdmissionInv, NEW o \in Owners, NEW c \in Watchdogs, FinishNext(o, c), UNCHANGED userVars
  PROVE  AdmissionInv'
<1> USE AdmissionAssumption DEF AdmissionInv, AdmissionTypeOK, Owners, FinishNext, Stands,
        NotFinishing, fileVars, userVars
<1>t. AdmissionTypeOK' OBVIOUS
<1>1. ClaimIsOwned' BY DEF ClaimIsOwned
<1>2. MarkedWasAdmitted' BY DEF MarkedWasAdmitted
<1>3. NothingBlocks' BY DEF NothingBlocks, ClaimIsOwned, MarkedWasAdmitted, Blocks
<1>4. OneRoundMarker' BY DEF OneRoundMarker, NothingBlocks, Blocks
<1>5. RoundBeatsPause' BY DEF RoundBeatsPause, MarkedWasAdmitted, CommitUnderLock, Stands
<1>6. CommitUnderLock' BY DEF CommitUnderLock, MarkedWasAdmitted, TaskIsFree, Stands
<1>7. AskedIsOpen' BY DEF AskedIsOpen
<1> QED BY <1>t, <1>1, <1>2, <1>3, <1>4, <1>5, <1>6, <1>7

LEMMA CreateClaimStep ==
  ASSUME AdmissionInv, NEW o \in Owners, CreateClaim(o), UNCHANGED userVars
  PROVE  AdmissionInv'
<1> USE AdmissionAssumption DEF AdmissionInv, AdmissionTypeOK, Owners, CreateClaim, Goes, Stands,
        Places, BarriersDone, fileVars, userVars
<1>t. AdmissionTypeOK' OBVIOUS
<1>1. ClaimIsOwned' BY DEF ClaimIsOwned
<1>2. MarkedWasAdmitted' BY DEF MarkedWasAdmitted
<1>3. NothingBlocks' BY DEF NothingBlocks, ClaimIsOwned, MarkedWasAdmitted, Blocks
<1>4. OneRoundMarker' BY DEF OneRoundMarker, NothingBlocks, Blocks
<1>5. RoundBeatsPause' BY DEF RoundBeatsPause, MarkedWasAdmitted, CommitUnderLock, Stands
<1>6. CommitUnderLock' BY DEF CommitUnderLock, MarkedWasAdmitted, TaskIsFree, Stands
<1>7. AskedIsOpen' BY DEF AskedIsOpen
<1> QED BY <1>t, <1>1, <1>2, <1>3, <1>4, <1>5, <1>6, <1>7

LEMMA BusyAtClaimStep ==
  ASSUME AdmissionInv, NEW o \in Owners, BusyAtClaim(o), UNCHANGED userVars
  PROVE  AdmissionInv'
<1> USE AdmissionAssumption DEF AdmissionInv, AdmissionTypeOK, Owners, BusyAtClaim, Goes, Stands,
        Places, BarriersDone, fileVars, userVars
<1>t. AdmissionTypeOK' OBVIOUS
<1>1. ClaimIsOwned' BY DEF ClaimIsOwned
<1>2. MarkedWasAdmitted' BY DEF MarkedWasAdmitted
<1>3. NothingBlocks' BY DEF NothingBlocks, ClaimIsOwned, MarkedWasAdmitted, Blocks
<1>4. OneRoundMarker' BY DEF OneRoundMarker, NothingBlocks, Blocks
<1>5. RoundBeatsPause' BY DEF RoundBeatsPause, MarkedWasAdmitted, CommitUnderLock, Stands
<1>6. CommitUnderLock' BY DEF CommitUnderLock, MarkedWasAdmitted, TaskIsFree, Stands
<1>7. AskedIsOpen' BY DEF AskedIsOpen
<1> QED BY <1>t, <1>1, <1>2, <1>3, <1>4, <1>5, <1>6, <1>7

LEMMA ListMarkersStep ==
  ASSUME AdmissionInv, NEW o \in Owners, ListMarkers(o), UNCHANGED userVars
  PROVE  AdmissionInv'
<1> USE AdmissionAssumption DEF AdmissionInv, AdmissionTypeOK, Owners, ListMarkers, Goes, Stands,
        Places, fileVars, userVars
<1>t. AdmissionTypeOK' OBVIOUS
<1>1. ClaimIsOwned' BY DEF ClaimIsOwned
<1>2. MarkedWasAdmitted' BY DEF MarkedWasAdmitted
<1>3. NothingBlocks' BY DEF NothingBlocks, ClaimIsOwned, MarkedWasAdmitted, Blocks
<1>4. OneRoundMarker' BY DEF OneRoundMarker, NothingBlocks, Blocks
<1>5. RoundBeatsPause' BY DEF RoundBeatsPause, MarkedWasAdmitted, CommitUnderLock, Stands
<1>6. CommitUnderLock' BY DEF CommitUnderLock, MarkedWasAdmitted, TaskIsFree, Stands
<1>7. AskedIsOpen' BY DEF AskedIsOpen
<1> QED BY <1>t, <1>1, <1>2, <1>3, <1>4, <1>5, <1>6, <1>7

LEMMA UnclaimStep ==
  ASSUME AdmissionInv, NEW o \in Owners, Unclaim(o), UNCHANGED userVars
  PROVE  AdmissionInv'
<1> USE AdmissionAssumption DEF AdmissionInv, AdmissionTypeOK, Owners, Unclaim, Goes, Stands,
        Places, Stall, fileVars, userVars
<1>t. AdmissionTypeOK' OBVIOUS
<1>1. ClaimIsOwned' BY DEF ClaimIsOwned
<1>2. MarkedWasAdmitted' BY DEF MarkedWasAdmitted
<1>3. NothingBlocks' BY DEF NothingBlocks, ClaimIsOwned, MarkedWasAdmitted, Blocks
<1>4. OneRoundMarker' BY DEF OneRoundMarker, NothingBlocks, Blocks
<1>5. RoundBeatsPause' BY DEF RoundBeatsPause, MarkedWasAdmitted, CommitUnderLock, Stands
<1>6. CommitUnderLock' BY DEF CommitUnderLock, MarkedWasAdmitted, TaskIsFree, Stands
<1>7. AskedIsOpen' BY DEF AskedIsOpen
<1> QED BY <1>t, <1>1, <1>2, <1>3, <1>4, <1>5, <1>6, <1>7

LEMMA PublishMarkerStep ==
  ASSUME AdmissionInv, NEW o \in Owners, PublishMarker(o), UNCHANGED userVars
  PROVE  AdmissionInv'
<1> USE AdmissionAssumption DEF AdmissionInv, AdmissionTypeOK, Owners, PublishMarker, Goes,
        Stands, Places, fileVars, userVars
<1>t. AdmissionTypeOK' OBVIOUS
<1>1. ClaimIsOwned' BY DEF ClaimIsOwned
<1>2. MarkedWasAdmitted' BY DEF MarkedWasAdmitted
<1>3. NothingBlocks' BY DEF NothingBlocks, ClaimIsOwned, MarkedWasAdmitted, Blocks
<1>4. OneRoundMarker' BY DEF OneRoundMarker, NothingBlocks, Blocks
<1>5. RoundBeatsPause' BY DEF RoundBeatsPause, MarkedWasAdmitted, CommitUnderLock, Stands
<1>6. CommitUnderLock' BY DEF CommitUnderLock, MarkedWasAdmitted, TaskIsFree, Stands
<1>7. AskedIsOpen' BY DEF AskedIsOpen
<1> QED BY <1>t, <1>1, <1>2, <1>3, <1>4, <1>5, <1>6, <1>7

LEMMA PublishFailsStep ==
  ASSUME AdmissionInv, NEW o \in Owners, PublishFails(o), UNCHANGED userVars
  PROVE  AdmissionInv'
<1> USE AdmissionAssumption DEF AdmissionInv, AdmissionTypeOK, Owners, PublishFails, Goes, Stands,
        Places, Stall, fileVars, userVars
<1>t. AdmissionTypeOK' OBVIOUS
<1>1. ClaimIsOwned' BY DEF ClaimIsOwned
<1>2. MarkedWasAdmitted' BY DEF MarkedWasAdmitted
<1>3. NothingBlocks' BY DEF NothingBlocks, ClaimIsOwned, MarkedWasAdmitted, Blocks
<1>4. OneRoundMarker' BY DEF OneRoundMarker, NothingBlocks, Blocks
<1>5. RoundBeatsPause' BY DEF RoundBeatsPause, MarkedWasAdmitted, CommitUnderLock, Stands
<1>6. CommitUnderLock' BY DEF CommitUnderLock, MarkedWasAdmitted, TaskIsFree, Stands
<1>7. AskedIsOpen' BY DEF AskedIsOpen
<1> QED BY <1>t, <1>1, <1>2, <1>3, <1>4, <1>5, <1>6, <1>7

LEMMA ReleaseStep ==
  ASSUME AdmissionInv, NEW o \in Owners, Release(o), UNCHANGED userVars
  PROVE  AdmissionInv'
<1> USE AdmissionAssumption DEF AdmissionInv, AdmissionTypeOK, Owners, Release, Goes, Stands,
        Places, Forgets, NotFinishing, fileVars, userVars
<1>t. AdmissionTypeOK' OBVIOUS
<1>1. ClaimIsOwned' BY DEF ClaimIsOwned
<1>2. MarkedWasAdmitted' BY DEF MarkedWasAdmitted
<1>3. NothingBlocks' BY DEF NothingBlocks, ClaimIsOwned, MarkedWasAdmitted, Blocks
<1>4. OneRoundMarker' BY DEF OneRoundMarker, NothingBlocks, Blocks
<1>5. RoundBeatsPause' BY DEF RoundBeatsPause, MarkedWasAdmitted, CommitUnderLock, Stands
<1>6. CommitUnderLock' BY DEF CommitUnderLock, MarkedWasAdmitted, TaskIsFree, Stands
<1>7. AskedIsOpen' BY DEF AskedIsOpen
<1> QED BY <1>t, <1>1, <1>2, <1>3, <1>4, <1>5, <1>6, <1>7

LEMMA RenewStep ==
  ASSUME AdmissionInv, NEW r \in Rounds, Renew(r), UNCHANGED userVars
  PROVE  AdmissionInv'
<1> USE AdmissionAssumption DEF AdmissionInv, AdmissionTypeOK, Owners, Renew, fileVars, userVars
<1>t. AdmissionTypeOK' OBVIOUS
<1>1. ClaimIsOwned' BY DEF ClaimIsOwned
<1>2. MarkedWasAdmitted' BY DEF MarkedWasAdmitted
<1>3. NothingBlocks' BY DEF NothingBlocks, ClaimIsOwned, MarkedWasAdmitted, Blocks
<1>4. OneRoundMarker' BY DEF OneRoundMarker, NothingBlocks, Blocks
<1>5. RoundBeatsPause' BY DEF RoundBeatsPause, MarkedWasAdmitted, CommitUnderLock, Stands
<1>6. CommitUnderLock' BY DEF CommitUnderLock, MarkedWasAdmitted, TaskIsFree, Stands
<1>7. AskedIsOpen' BY DEF AskedIsOpen
<1> QED BY <1>t, <1>1, <1>2, <1>3, <1>4, <1>5, <1>6, <1>7

LEMMA LiftWatchdogPauseStep ==
  ASSUME AdmissionInv, NEW r \in Rounds, LiftWatchdogPause(r), UNCHANGED userVars
  PROVE  AdmissionInv'
<1> USE AdmissionAssumption DEF AdmissionInv, AdmissionTypeOK, Owners, LiftWatchdogPause, Goes,
        Stands, Places, NotPaused, fileVars, userVars
<1>t. AdmissionTypeOK' OBVIOUS
<1>1. ClaimIsOwned' BY DEF ClaimIsOwned
<1>2. MarkedWasAdmitted' BY DEF MarkedWasAdmitted
<1>3. NothingBlocks' BY DEF NothingBlocks, ClaimIsOwned, MarkedWasAdmitted, Blocks
<1>4. OneRoundMarker' BY DEF OneRoundMarker, NothingBlocks, Blocks
<1>5. RoundBeatsPause' BY DEF RoundBeatsPause, MarkedWasAdmitted, CommitUnderLock, Stands
<1>6. CommitUnderLock' BY DEF CommitUnderLock, MarkedWasAdmitted, TaskIsFree, Stands
<1>7. AskedIsOpen' BY DEF AskedIsOpen
<1> QED BY <1>t, <1>1, <1>2, <1>3, <1>4, <1>5, <1>6, <1>7

LEMMA CheckAndCaptureStep ==
  ASSUME AdmissionInv, NEW c \in Watchdogs, CheckAndCapture(c), UNCHANGED userVars
  PROVE  AdmissionInv'
<1> USE AdmissionAssumption DEF AdmissionInv, AdmissionTypeOK, Owners, CheckAndCapture, Goes,
        Stands, Places, OthersLive, fileVars, userVars
<1>t. AdmissionTypeOK'
  <2>1. captured \in [Watchdogs -> Nat] /\ fence \in Nat OBVIOUS
  <2>2. captured' \in {captured, [captured EXCEPT ![c] = fence]} OBVIOUS
  <2>3. captured' \in [Watchdogs -> Nat]
    <3> HIDE DEF AdmissionInv, AdmissionTypeOK, CheckAndCapture
    <3> QED BY <2>1, <2>2
  <2>4. place' \in [Owners -> Places] OBVIOUS
  <2> QED BY <2>3, <2>4
<1>1. ClaimIsOwned' BY DEF ClaimIsOwned
<1>2. MarkedWasAdmitted' BY DEF MarkedWasAdmitted
<1>3. NothingBlocks' BY DEF NothingBlocks, ClaimIsOwned, MarkedWasAdmitted, Blocks
<1>4. OneRoundMarker' BY DEF OneRoundMarker, NothingBlocks, Blocks
<1>5. RoundBeatsPause' BY DEF RoundBeatsPause, MarkedWasAdmitted, CommitUnderLock, Stands
<1>6. CommitUnderLock' BY DEF CommitUnderLock, MarkedWasAdmitted, TaskIsFree, Stands
<1>7. AskedIsOpen' BY DEF AskedIsOpen
<1> QED BY <1>t, <1>1, <1>2, <1>3, <1>4, <1>5, <1>6, <1>7

LEMMA CheckFenceStep ==
  ASSUME AdmissionInv, NEW c \in Watchdogs, CheckFence(c), UNCHANGED userVars
  PROVE  AdmissionInv'
<1> USE AdmissionAssumption DEF AdmissionInv, AdmissionTypeOK, Owners, CheckFence, Goes, Stands,
        Places, fileVars, userVars
<1>t. AdmissionTypeOK' OBVIOUS
<1>1. ClaimIsOwned' BY DEF ClaimIsOwned
<1>2. MarkedWasAdmitted' BY DEF MarkedWasAdmitted
<1>3. NothingBlocks' BY DEF NothingBlocks, ClaimIsOwned, MarkedWasAdmitted, Blocks
<1>4. OneRoundMarker' BY DEF OneRoundMarker, NothingBlocks, Blocks
<1>5. RoundBeatsPause' BY DEF RoundBeatsPause, MarkedWasAdmitted, CommitUnderLock, Stands
<1>6. CommitUnderLock' BY DEF CommitUnderLock, MarkedWasAdmitted, TaskIsFree, Stands
<1>7. AskedIsOpen' BY DEF AskedIsOpen
<1> QED BY <1>t, <1>1, <1>2, <1>3, <1>4, <1>5, <1>6, <1>7

LEMMA LookAgainStep ==
  ASSUME AdmissionInv, NEW c \in Watchdogs, LookAgain(c), UNCHANGED userVars
  PROVE  AdmissionInv'
<1> USE AdmissionAssumption DEF AdmissionInv, AdmissionTypeOK, Owners, LookAgain, Goes, Stands,
        Places, OthersLive, fileVars, userVars
<1>t. AdmissionTypeOK' OBVIOUS
<1>1. ClaimIsOwned' BY DEF ClaimIsOwned
<1>2. MarkedWasAdmitted' BY DEF MarkedWasAdmitted
<1>3. NothingBlocks' BY DEF NothingBlocks, ClaimIsOwned, MarkedWasAdmitted, Blocks
<1>4. OneRoundMarker' BY DEF OneRoundMarker, NothingBlocks, Blocks
<1>5. RoundBeatsPause' BY DEF RoundBeatsPause, MarkedWasAdmitted, CommitUnderLock, Stands
<1>6. CommitUnderLock' BY DEF CommitUnderLock, MarkedWasAdmitted, TaskIsFree, Stands
<1>7. AskedIsOpen' BY DEF AskedIsOpen
<1> QED BY <1>t, <1>1, <1>2, <1>3, <1>4, <1>5, <1>6, <1>7

LEMMA WritePauseStep ==
  ASSUME AdmissionInv, NEW c \in Watchdogs, WritePause(c), UNCHANGED userVars
  PROVE  AdmissionInv'
<1> USE AdmissionAssumption DEF AdmissionInv, AdmissionTypeOK, Owners, WritePause, Goes, Stands,
        Places, fileVars, userVars
<1>t. AdmissionTypeOK' OBVIOUS
<1>1. ClaimIsOwned' BY DEF ClaimIsOwned
<1>2. MarkedWasAdmitted' BY DEF MarkedWasAdmitted
<1>3. NothingBlocks' BY DEF NothingBlocks, ClaimIsOwned, MarkedWasAdmitted, Blocks
<1>4. OneRoundMarker' BY DEF OneRoundMarker, NothingBlocks, Blocks
<1>5. RoundBeatsPause' BY DEF RoundBeatsPause, MarkedWasAdmitted, CommitUnderLock, Stands
<1>6. CommitUnderLock' BY DEF CommitUnderLock, MarkedWasAdmitted, TaskIsFree, Stands
<1>7. AskedIsOpen' BY DEF AskedIsOpen
<1> QED BY <1>t, <1>1, <1>2, <1>3, <1>4, <1>5, <1>6, <1>7

LEMMA WritePauseFailsStep ==
  ASSUME AdmissionInv, NEW c \in Watchdogs, WritePauseFails(c), UNCHANGED userVars
  PROVE  AdmissionInv'
<1> USE AdmissionAssumption DEF AdmissionInv, AdmissionTypeOK, Owners, WritePauseFails, Goes,
        Stands, Places, Stall, fileVars, userVars
<1>t. AdmissionTypeOK' OBVIOUS
<1>1. ClaimIsOwned' BY DEF ClaimIsOwned
<1>2. MarkedWasAdmitted' BY DEF MarkedWasAdmitted
<1>3. NothingBlocks' BY DEF NothingBlocks, ClaimIsOwned, MarkedWasAdmitted, Blocks
<1>4. OneRoundMarker' BY DEF OneRoundMarker, NothingBlocks, Blocks
<1>5. RoundBeatsPause' BY DEF RoundBeatsPause, MarkedWasAdmitted, CommitUnderLock, Stands
<1>6. CommitUnderLock' BY DEF CommitUnderLock, MarkedWasAdmitted, TaskIsFree, Stands
<1>7. AskedIsOpen' BY DEF AskedIsOpen
<1> QED BY <1>t, <1>1, <1>2, <1>3, <1>4, <1>5, <1>6, <1>7

LEMMA CheckMarkersAgainStep ==
  ASSUME AdmissionInv, NEW c \in Watchdogs, CheckMarkersAgain(c), UNCHANGED userVars
  PROVE  AdmissionInv'
<1> USE AdmissionAssumption DEF AdmissionInv, AdmissionTypeOK, Owners, CheckMarkersAgain, Goes,
        Stands, Places, fileVars, userVars
<1>t. AdmissionTypeOK' OBVIOUS
<1>1. ClaimIsOwned' BY DEF ClaimIsOwned
<1>2. MarkedWasAdmitted' BY DEF MarkedWasAdmitted
<1>3. NothingBlocks' BY DEF NothingBlocks, ClaimIsOwned, MarkedWasAdmitted, Blocks
<1>4. OneRoundMarker' BY DEF OneRoundMarker, NothingBlocks, Blocks
<1>5. RoundBeatsPause' BY DEF RoundBeatsPause, MarkedWasAdmitted, CommitUnderLock, Stands
<1>6. CommitUnderLock' BY DEF CommitUnderLock, MarkedWasAdmitted, TaskIsFree, Stands
<1>7. AskedIsOpen' BY DEF AskedIsOpen
<1> QED BY <1>t, <1>1, <1>2, <1>3, <1>4, <1>5, <1>6, <1>7

LEMMA CheckFenceAgainStep ==
  ASSUME AdmissionInv, NEW c \in Watchdogs, CheckFenceAgain(c), UNCHANGED userVars
  PROVE  AdmissionInv'
<1> USE AdmissionAssumption DEF AdmissionInv, AdmissionTypeOK, Owners, CheckFenceAgain, Goes,
        Stands, Places, fileVars, userVars
<1>t. AdmissionTypeOK' OBVIOUS
<1>1. ClaimIsOwned' BY DEF ClaimIsOwned
<1>2. MarkedWasAdmitted' BY DEF MarkedWasAdmitted
<1>3. NothingBlocks' BY DEF NothingBlocks, ClaimIsOwned, MarkedWasAdmitted, Blocks
<1>4. OneRoundMarker' BY DEF OneRoundMarker, NothingBlocks, Blocks
<1>5. RoundBeatsPause' BY DEF RoundBeatsPause, MarkedWasAdmitted, CommitUnderLock, Stands
<1>6. CommitUnderLock' BY DEF CommitUnderLock, MarkedWasAdmitted, TaskIsFree, Stands
<1>7. AskedIsOpen' BY DEF AskedIsOpen
<1> QED BY <1>t, <1>1, <1>2, <1>3, <1>4, <1>5, <1>6, <1>7

LEMMA ReversePauseStep ==
  ASSUME AdmissionInv, NEW c \in Watchdogs, ReversePause(c), UNCHANGED userVars
  PROVE  AdmissionInv'
<1> USE AdmissionAssumption DEF AdmissionInv, AdmissionTypeOK, Owners, ReversePause, Goes, Stands,
        Places, LiftPauseOf, NotPaused, fileVars, userVars
<1>t. AdmissionTypeOK' OBVIOUS
<1>1. ClaimIsOwned' BY DEF ClaimIsOwned
<1>2. MarkedWasAdmitted' BY DEF MarkedWasAdmitted
<1>3. NothingBlocks' BY DEF NothingBlocks, ClaimIsOwned, MarkedWasAdmitted, Blocks
<1>4. OneRoundMarker' BY DEF OneRoundMarker, NothingBlocks, Blocks
<1>5. RoundBeatsPause' BY DEF RoundBeatsPause, MarkedWasAdmitted, CommitUnderLock, Stands
<1>6. CommitUnderLock' BY DEF CommitUnderLock, MarkedWasAdmitted, TaskIsFree, Stands
<1>7. AskedIsOpen' BY DEF AskedIsOpen
<1> QED BY <1>t, <1>1, <1>2, <1>3, <1>4, <1>5, <1>6, <1>7

LEMMA ObserveStep ==
  ASSUME AdmissionInv, NEW k \in Rescuers, NEW o \in Owners,
         Reclaim(k, o) \/ TakeOver(k, o), UNCHANGED userVars
  PROVE  AdmissionInv'
<1> USE AdmissionAssumption DEF AdmissionInv, AdmissionTypeOK, Owners, Reclaim, TakeOver, Observe,
        Reclaimable, Contestable, fileVars, userVars
<1>t. AdmissionTypeOK'
  <2>1. renewals[o] \in 0 .. MaxRenewals + 1 /\ fence + 1 \in Nat OBVIOUS
  <2>2. rescue' \in [Rescuers -> RescueRecords]
    <3>1. rescue \in [Rescuers -> RescueRecords] BY AdmissionTypes
    <3>2. \E record \in RescueRecords : rescue' = [rescue EXCEPT ![k] = record]
      BY <2>1 DEF RescueRecords
    <3> HIDE DEF AdmissionInv, AdmissionTypeOK, Reclaim, TakeOver
    <3> QED BY <3>1, <3>2
  <2> QED BY <2>2 DEF RescueRecords
<1>1. ClaimIsOwned' BY DEF ClaimIsOwned
<1>2. MarkedWasAdmitted' BY DEF MarkedWasAdmitted
<1>3. NothingBlocks' BY DEF NothingBlocks, ClaimIsOwned, MarkedWasAdmitted, Blocks
<1>4. OneRoundMarker' BY DEF OneRoundMarker, NothingBlocks, Blocks
<1>5. RoundBeatsPause' BY DEF RoundBeatsPause, MarkedWasAdmitted, CommitUnderLock, Stands
<1>6. CommitUnderLock' BY DEF CommitUnderLock, MarkedWasAdmitted, TaskIsFree, Stands
<1>7. AskedIsOpen' BY DEF AskedIsOpen
<1> QED BY <1>t, <1>1, <1>2, <1>3, <1>4, <1>5, <1>6, <1>7

LEMMA DisplaceStep ==
  ASSUME AdmissionInv, NEW k \in Rescuers, Displace(k), UNCHANGED userVars
  PROVE  AdmissionInv'
<1> USE AdmissionAssumption DEF AdmissionInv, AdmissionTypeOK, Owners, Displace, NoRescue,
        fileVars, userVars
<1>t. AdmissionTypeOK'
  <2>1. rescue[k].target \in Nat /\ NoRescue \in RescueRecords
    BY DEF RescueRecords
  <2>2. barrier' \in [Watchdogs -> Nat] /\ rescue' \in [Rescuers -> RescueRecords]
    <3>1. rescue \in [Rescuers -> RescueRecords] BY AdmissionTypes
    <3>2. rescue' \in [Rescuers -> RescueRecords] BY <2>1, <3>1
    <3>3. barrier' \in [Watchdogs -> Nat] BY <2>1
    <3> QED BY <3>2, <3>3
  <2>3. finishing' \in [Owners \cup Rescuers -> Finishings]
    <3>1. rescue[k].of \in Watchdogs
            => [step |-> "fence", of |-> rescue[k].of, target |-> rescue[k].target] \in Finishings
      BY <2>1 DEF Finishings
    <3>2. finishing \in [Owners \cup Rescuers -> Finishings] BY AdmissionTypes
    <3>3. \/ finishing' = finishing
          \/ \E record \in Finishings : finishing' = [finishing EXCEPT ![k] = record]
      BY <3>1
    <3> HIDE DEF AdmissionInv, AdmissionTypeOK, Displace
    <3> QED BY <3>2, <3>3
  <2>4. marker' \subseteq Owners /\ aged' \subseteq Owners
    OBVIOUS
  <2>5. UNCHANGED <<claimFile, renewals, fence, pause, place, living, captured, todo, stalls>>
    OBVIOUS
  <2> QED BY <2>2, <2>3, <2>4, <2>5 DEF RescueRecords, Finishings
<1>1. ClaimIsOwned' BY DEF ClaimIsOwned
<1>2. MarkedWasAdmitted' BY DEF MarkedWasAdmitted
<1>3. NothingBlocks' BY DEF NothingBlocks, ClaimIsOwned, MarkedWasAdmitted, Blocks
<1>4. OneRoundMarker' BY DEF OneRoundMarker, NothingBlocks, Blocks
<1>5. RoundBeatsPause' BY DEF RoundBeatsPause, MarkedWasAdmitted, CommitUnderLock, Stands
<1>6. CommitUnderLock' BY DEF CommitUnderLock, MarkedWasAdmitted, TaskIsFree, Stands
<1>7. AskedIsOpen' BY DEF AskedIsOpen
<1> QED BY <1>t, <1>1, <1>2, <1>3, <1>4, <1>5, <1>6, <1>7

LEMMA MarkerAgesStep ==
  ASSUME AdmissionInv, NEW o \in Owners, MarkerAges(o), UNCHANGED userVars
  PROVE  AdmissionInv'
<1> USE AdmissionAssumption DEF AdmissionInv, AdmissionTypeOK, Owners, MarkerAges, Stall,
        fileVars, userVars
<1>t. AdmissionTypeOK' OBVIOUS
<1>1. ClaimIsOwned' BY DEF ClaimIsOwned
<1>2. MarkedWasAdmitted' BY DEF MarkedWasAdmitted
<1>3. NothingBlocks' BY DEF NothingBlocks, ClaimIsOwned, MarkedWasAdmitted, Blocks
<1>4. OneRoundMarker' BY DEF OneRoundMarker, NothingBlocks, Blocks
<1>5. RoundBeatsPause' BY DEF RoundBeatsPause, MarkedWasAdmitted, CommitUnderLock, Stands
<1>6. CommitUnderLock' BY DEF CommitUnderLock, MarkedWasAdmitted, TaskIsFree, Stands
<1>7. AskedIsOpen' BY DEF AskedIsOpen
<1> QED BY <1>t, <1>1, <1>2, <1>3, <1>4, <1>5, <1>6, <1>7

LEMMA OwnerDiesStep ==
  ASSUME AdmissionInv, NEW o \in Owners, OwnerDies(o), UNCHANGED userVars
  PROVE  AdmissionInv'
<1> USE AdmissionAssumption DEF AdmissionInv, AdmissionTypeOK, Owners, OwnerDies, Forgets, Goes,
        Places, Stall, NotFinishing, fileVars, userVars
<1>t. AdmissionTypeOK' OBVIOUS
<1>1. ClaimIsOwned' BY DEF ClaimIsOwned
<1>2. MarkedWasAdmitted' BY DEF MarkedWasAdmitted
<1>3. NothingBlocks' BY DEF NothingBlocks, ClaimIsOwned, MarkedWasAdmitted, Blocks
<1>4. OneRoundMarker' BY DEF OneRoundMarker, NothingBlocks, Blocks
<1>5. RoundBeatsPause' BY DEF RoundBeatsPause, MarkedWasAdmitted, CommitUnderLock, Stands
<1>6. CommitUnderLock' BY DEF CommitUnderLock, MarkedWasAdmitted, TaskIsFree, Stands
<1>7. AskedIsOpen' BY DEF AskedIsOpen
<1> QED BY <1>t, <1>1, <1>2, <1>3, <1>4, <1>5, <1>6, <1>7

LEMMA RescuerDiesStep ==
  ASSUME AdmissionInv, NEW k \in Rescuers, RescuerDies(k), UNCHANGED userVars
  PROVE  AdmissionInv'
<1> USE AdmissionAssumption DEF AdmissionInv, AdmissionTypeOK, Owners, RescuerDies, NoRescue,
        NotFinishing, Stall, fileVars, userVars
<1>t. AdmissionTypeOK' OBVIOUS
<1>1. ClaimIsOwned' BY DEF ClaimIsOwned
<1>2. MarkedWasAdmitted' BY DEF MarkedWasAdmitted
<1>3. NothingBlocks' BY DEF NothingBlocks, ClaimIsOwned, MarkedWasAdmitted, Blocks
<1>4. OneRoundMarker' BY DEF OneRoundMarker, NothingBlocks, Blocks
<1>5. RoundBeatsPause' BY DEF RoundBeatsPause, MarkedWasAdmitted, CommitUnderLock, Stands
<1>6. CommitUnderLock' BY DEF CommitUnderLock, MarkedWasAdmitted, TaskIsFree, Stands
<1>7. AskedIsOpen' BY DEF AskedIsOpen
<1> QED BY <1>t, <1>1, <1>2, <1>3, <1>4, <1>5, <1>6, <1>7

LEMMA ReadPauseStep ==
  ASSUME AdmissionInv, ReadPause, UNCHANGED userVars
  PROVE  AdmissionInv'
<1> USE AdmissionAssumption DEF AdmissionInv, AdmissionTypeOK, Owners, ReadPause, NotPaused,
        fileVars, userVars
<1>t. AdmissionTypeOK' OBVIOUS
<1>1. ClaimIsOwned' BY DEF ClaimIsOwned
<1>2. MarkedWasAdmitted' BY DEF MarkedWasAdmitted
<1>3. NothingBlocks' BY DEF NothingBlocks, ClaimIsOwned, MarkedWasAdmitted, Blocks
<1>4. OneRoundMarker' BY DEF OneRoundMarker, NothingBlocks, Blocks
<1>5. RoundBeatsPause' BY DEF RoundBeatsPause, MarkedWasAdmitted, CommitUnderLock, Stands
<1>6. CommitUnderLock' BY DEF CommitUnderLock, MarkedWasAdmitted, TaskIsFree, Stands
<1>7. AskedIsOpen' BY DEF AskedIsOpen
<1> QED BY <1>t, <1>1, <1>2, <1>3, <1>4, <1>5, <1>6, <1>7

LEMMA UserPausesStep ==
  ASSUME AdmissionInv, UserPauses
  PROVE  AdmissionInv'
<1> USE AdmissionAssumption DEF AdmissionInv, AdmissionTypeOK, Owners, UserPauses, fileVars
<1>t. AdmissionTypeOK' OBVIOUS
<1>1. ClaimIsOwned' BY DEF ClaimIsOwned
<1>2. MarkedWasAdmitted' BY DEF MarkedWasAdmitted
<1>3. NothingBlocks' BY DEF NothingBlocks, ClaimIsOwned, MarkedWasAdmitted, Blocks
<1>4. OneRoundMarker' BY DEF OneRoundMarker, NothingBlocks, Blocks
<1>5. RoundBeatsPause' BY DEF RoundBeatsPause, MarkedWasAdmitted, CommitUnderLock, Stands
<1>6. CommitUnderLock' BY DEF CommitUnderLock, MarkedWasAdmitted, TaskIsFree, Stands
<1>7. AskedIsOpen' BY DEF AskedIsOpen
<1> QED BY <1>t, <1>1, <1>2, <1>3, <1>4, <1>5, <1>6, <1>7

LEMMA UserAsksStep ==
  ASSUME AdmissionInv, UserAsks
  PROVE  AdmissionInv'
<1> USE AdmissionAssumption DEF AdmissionInv, AdmissionTypeOK, Owners, UserAsks, NotPaused,
        fileVars
<1>t. AdmissionTypeOK' OBVIOUS
<1>1. ClaimIsOwned' BY DEF ClaimIsOwned
<1>2. MarkedWasAdmitted' BY DEF MarkedWasAdmitted
<1>3. NothingBlocks' BY DEF NothingBlocks, ClaimIsOwned, MarkedWasAdmitted, Blocks
<1>4. OneRoundMarker' BY DEF OneRoundMarker, NothingBlocks, Blocks
<1>5. RoundBeatsPause' BY DEF RoundBeatsPause, MarkedWasAdmitted, CommitUnderLock, Stands
<1>6. CommitUnderLock' BY DEF CommitUnderLock, MarkedWasAdmitted, TaskIsFree, Stands
<1>7. AskedIsOpen' BY DEF AskedIsOpen
<1> QED BY <1>t, <1>1, <1>2, <1>3, <1>4, <1>5, <1>6, <1>7

LEMMA CliEndsStep ==
  ASSUME AdmissionInv, NEW o \in Owners, CliEnds(o)
  PROVE  AdmissionInv'
<1> USE AdmissionAssumption DEF AdmissionInv, AdmissionTypeOK, Owners, CliEnds, NotPaused,
        fileVars
<1>t. AdmissionTypeOK' OBVIOUS
<1>1. ClaimIsOwned' BY DEF ClaimIsOwned
<1>2. MarkedWasAdmitted' BY DEF MarkedWasAdmitted
<1>3. NothingBlocks' BY DEF NothingBlocks, ClaimIsOwned, MarkedWasAdmitted, Blocks
<1>4. OneRoundMarker' BY DEF OneRoundMarker, NothingBlocks, Blocks
<1>5. RoundBeatsPause' BY DEF RoundBeatsPause, MarkedWasAdmitted, CommitUnderLock, Stands
<1>6. CommitUnderLock' BY DEF CommitUnderLock, MarkedWasAdmitted, TaskIsFree, Stands
<1>7. AskedIsOpen' BY DEF AskedIsOpen
<1> QED BY <1>t, <1>1, <1>2, <1>3, <1>4, <1>5, <1>6, <1>7

LEMMA UserResumesStep ==
  ASSUME AdmissionInv, UserResumes
  PROVE  AdmissionInv'
<1> USE AdmissionAssumption DEF AdmissionInv, AdmissionTypeOK, Owners, UserResumes, NotPaused,
        fileVars
<1>t. AdmissionTypeOK' OBVIOUS
<1>1. ClaimIsOwned' BY DEF ClaimIsOwned
<1>2. MarkedWasAdmitted' BY DEF MarkedWasAdmitted
<1>3. NothingBlocks' BY DEF NothingBlocks, ClaimIsOwned, MarkedWasAdmitted, Blocks
<1>4. OneRoundMarker' BY DEF OneRoundMarker, NothingBlocks, Blocks
<1>5. RoundBeatsPause' BY DEF RoundBeatsPause, MarkedWasAdmitted, CommitUnderLock, Stands
<1>6. CommitUnderLock' BY DEF CommitUnderLock, MarkedWasAdmitted, TaskIsFree, Stands
<1>7. AskedIsOpen' BY DEF AskedIsOpen
<1> QED BY <1>t, <1>1, <1>2, <1>3, <1>4, <1>5, <1>6, <1>7

LEMMA AdmissionStep == AdmissionInv /\ [AdmissionNext]_admissionVars => AdmissionInv'
<1> SUFFICES ASSUME AdmissionInv, [AdmissionNext]_admissionVars PROVE AdmissionInv'
  OBVIOUS
<1>1. CASE UNCHANGED admissionVars
  BY <1>1 DEF admissionVars, fileVars, AdmissionInv, AdmissionTypeOK, ClaimIsOwned,
     MarkedWasAdmitted, NothingBlocks, OneRoundMarker, RoundBeatsPause, Blocks,
     CommitUnderLock, AskedIsOpen, Stands
<1>2. CASE WindowStep /\ UNCHANGED userVars
  <2>1. ASSUME NEW o \in Owners, AcquireStep(o) \/ MarkerAges(o) \/ OwnerDies(o)
        PROVE  AdmissionInv'
    BY <1>2, <2>1, EnterStep, FinishNextStep, CreateClaimStep, BusyAtClaimStep,
       ListMarkersStep, UnclaimStep, PublishMarkerStep, PublishFailsStep, ReleaseStep,
       MarkerAgesStep, OwnerDiesStep DEF AcquireStep
  <2>2. ASSUME NEW r \in Rounds, RoundOf(r) PROVE AdmissionInv'
    BY <1>2, <2>2, LiftWatchdogPauseStep, RenewStep DEF RoundOf
  <2>3. ASSUME NEW c \in Watchdogs, PauseCommit(c) PROVE AdmissionInv'
    BY <1>2, <2>3, CheckAndCaptureStep, CheckFenceStep, LookAgainStep, WritePauseStep,
       WritePauseFailsStep, CheckMarkersAgainStep, CheckFenceAgainStep, ReversePauseStep
       DEF PauseCommit
  <2>4. ASSUME NEW x \in Owners \cup Rescuers, FinishStep(x) PROVE AdmissionInv'
    BY <1>2, <2>4, FinishFenceStep, FinishLiftStep, FinishRemoveStep DEF FinishStep
  <2>5. ASSUME NEW k \in Rescuers, RescueStep(k) \/ RescuerDies(k) PROVE AdmissionInv'
    BY <1>2, <2>5, DisplaceStep, ObserveStep, RescuerDiesStep DEF RescueStep
  <2> QED BY <1>2, <2>1, <2>2, <2>3, <2>4, <2>5, ReadPauseStep DEF WindowStep
<1> QED
  BY <1>1, <1>2, UserAsksStep, UserPausesStep, UserResumesStep, CliEndsStep DEF AdmissionNext

LEMMA AdmissionInvariant == AdmissionSpec => []AdmissionInv
BY AdmissionInitially, AdmissionStep, PTL DEF AdmissionSpec

(* The types of the admission files, their owners and the rescuers. *)
THEOREM AdmissionTyped == AdmissionSpec => []AdmissionTypeOK
<1>1. AdmissionInv => AdmissionTypeOK BY DEF AdmissionInv
<1> QED BY <1>1, AdmissionInvariant, PTL

(* Two rounds that hold the task do not both have their marker. *)
THEOREM OneRoundAtWork == AdmissionSpec => []OneAtWork
<1>1. AdmissionInv => OneAtWork
  BY DEF AdmissionInv, OneRoundMarker, OneAtWork
<1> QED BY <1>1, AdmissionInvariant, PTL

(* What works under its marker is not paused by the watchdog. *)
THEOREM TheRoundBeatsThePause == AdmissionSpec => []RoundBeatsPause
<1>1. AdmissionInv => RoundBeatsPause BY DEF AdmissionInv
<1> QED BY <1>1, AdmissionInvariant, PTL

(* Only the user ends what the record shows as the user's pause. *)
THEOREM TheUsersPauseIsKept == AdmissionSpec => UserPauseIsKept
<1> DEFINE Kept == pause.by = User /\ pause' # pause => UserResumes
<1>1. AdmissionInv /\ [AdmissionNext]_admissionVars => Kept
  <2> SUFFICES ASSUME AdmissionInv, AdmissionNext, pause.by = User, ~UserResumes
               PROVE  pause' = pause
    BY DEF admissionVars
  <2> USE AdmissionAssumption
  <2>1. \A x \in Owners \cup Rescuers : finishing[x].of # User
    BY AdmissionTypes DEF AdmissionInv, Finishings
  <2>2. ASSUME NEW o \in Owners, AcquireStep(o) \/ MarkerAges(o) \/ OwnerDies(o)
        PROVE  pause' = pause
    BY <2>2 DEF AcquireStep, Enter, FinishNext, CreateClaim, BusyAtClaim, ListMarkers, Unclaim,
       PublishMarker, PublishFails, Release, MarkerAges, OwnerDies
  <2>3. ASSUME NEW r \in Rounds, RoundOf(r) PROVE pause' = pause
    BY <2>3 DEF RoundOf, LiftWatchdogPause, Renew, Owners
  <2>4. ASSUME NEW c \in Watchdogs, PauseCommit(c) PROVE pause' = pause
    <3>1. ~WritePause(c)
      BY DEF WritePause, AdmissionInv, CommitUnderLock, Owners
    <3> QED
      BY <2>4, <3>1 DEF PauseCommit, CheckAndCapture, CheckFence, LookAgain, WritePauseFails,
         CheckMarkersAgain, CheckFenceAgain, ReversePause, LiftPauseOf, Owners
  <2>5. ASSUME NEW x \in Owners \cup Rescuers, FinishStep(x) PROVE pause' = pause
    BY <2>1, <2>5 DEF FinishStep, FinishFence, FinishLift, FinishRemove, LiftPauseOf
  <2>6. ASSUME NEW k \in Rescuers, RescueStep(k) \/ RescuerDies(k) PROVE pause' = pause
    BY <2>6 DEF RescueStep, Displace, Reclaim, TakeOver, Observe, RescuerDies
  <2>7. ~ReadPause /\ ~UserAsks /\ ~UserPauses
    BY DEF ReadPause, UserAsks, UserPauses, Owners, AdmissionInv, AskedIsOpen
  <2>8. ASSUME NEW o \in Owners, CliEnds(o) PROVE pause' = pause
    BY <2>8 DEF CliEnds
  <2> QED BY <2>2, <2>3, <2>4, <2>5, <2>6, <2>7, <2>8 DEF AdmissionNext, WindowStep
<1>2. AdmissionInv /\ [AdmissionNext]_admissionVars => [Kept]_admissionVars BY <1>1
<1> QED BY <1>2, AdmissionInvariant, PTL DEF AdmissionSpec, UserPauseIsKept
-----------------------------------------------------------------------------
(* What the task sees of a step: only a publication admits, onto no other
   round's marker; only the lift begins the work; only a sweep that has kept the
   lock since it looked pauses; whatever lifts a pause ends it. Everything
   else that an acquisition, a renewal or a rescue does is unseen. *)

UnseenByTask == UNCHANGED <<marker, pause>> /\ \A r \in marker \cap Rounds :
                                           place[r] = "work" <=> place'[r] = "work"

LEMMA UnseenStays == UnseenByTask => UNCHANGED Admission!contractVars
BY DEF UnseenByTask, Admission!contractVars

LEMMA ContractAcquire ==
  ASSUME AdmissionInv, NEW o \in Owners, AcquireStep(o) \/ MarkerAges(o) \/ OwnerDies(o)
  PROVE  Admission!Next \/ UNCHANGED Admission!contractVars
<1>t. place \in [Owners -> Places] /\ marker \subseteq Owners
  BY DEF AdmissionInv, AdmissionTypeOK
<1>1. CASE PublishMarker(o)
  <2>1. /\ marker' = marker \cup {o} /\ pause' = pause
        /\ place' = [place EXCEPT ![o] = "held"] /\ place[o] = "publish"
    BY <1>1 DEF PublishMarker, Stands, Goes
  <2>2. CASE o \in Rounds
    <3>1. marker \cap Rounds = {}
      BY <2>1, <2>2, AdmissionAssumption DEF AdmissionInv, NothingBlocks, Blocks
    <3> QED BY <1>t, <2>1, <2>2, <3>1 DEF Admission!Next, Admission!Admit
  <2>3. CASE o \notin Rounds
    BY <1>t, <2>1, <2>3 DEF Admission!contractVars
  <2> QED BY <2>2, <2>3
<1>2. CASE Release(o)
  <2>1. /\ marker' = marker \ {o} /\ pause' = pause
        /\ place' = [place EXCEPT ![o] = "done"]
    BY <1>2 DEF Release, Forgets, Goes
  <2>2. CASE o \in Rounds
    BY <1>t, <2>1, <2>2 DEF Admission!Next, Admission!Leave
  <2>3. CASE o \notin Rounds
    BY <1>t, <2>1, <2>3 DEF Admission!contractVars
  <2> QED BY <2>2, <2>3
<1>3. CASE OwnerDies(o)
  <2>1. UNCHANGED <<marker, pause>> /\ place' = [place EXCEPT ![o] = "done"]
    BY <1>3 DEF OwnerDies, Forgets, Goes, fileVars
  <2>2. CASE o \in Rounds
    BY <1>t, <2>1, <2>2 DEF Admission!Next, Admission!Stop
  <2>3. CASE o \notin Rounds
    BY <1>t, <2>1, <2>3 DEF Admission!contractVars
  <2> QED BY <2>2, <2>3
<1>4. CASE \/ Enter(o) \/ CreateClaim(o) \/ BusyAtClaim(o) \/ ListMarkers(o) \/ Unclaim(o)
           \/ PublishFails(o) \/ MarkerAges(o) \/ \E c \in Watchdogs : FinishNext(o, c)
  <2>1. UNCHANGED <<marker, pause>>
    BY <1>4 DEF Enter, CreateClaim, BusyAtClaim, ListMarkers, Unclaim, PublishFails, MarkerAges,
       FinishNext, fileVars
  <2>2. \/ place' = place
        \/ place[o] # "work" /\ \E there \in Places \ {"work"} : Goes(o, there)
    BY <1>4 DEF Enter, CreateClaim, BusyAtClaim, ListMarkers, Unclaim, PublishFails, MarkerAges,
       FinishNext, Stands, BarriersDone, Places
  <2> QED BY <1>t, <2>1, <2>2, UnseenStays DEF UnseenByTask, Goes
<1> QED BY <1>1, <1>2, <1>3, <1>4 DEF AcquireStep

LEMMA ContractRound ==
  ASSUME AdmissionInv, NEW r \in Rounds, RoundOf(r)
  PROVE  Admission!Next \/ UNCHANGED Admission!contractVars
<1>t. place \in [Owners -> Places] /\ marker \subseteq Owners /\ r \in Owners
      /\ pause.by \in Watchdogs \cup {User, Nobody}
  BY AdmissionTypes DEF AdmissionInv, Owners, Pauses
<1>1. CASE Renew(r) BY <1>1, UnseenStays DEF Renew, UnseenByTask
<1>2. CASE LiftWatchdogPause(r)
  <2>1. place[r] = "held" /\ marker' = marker
    BY <1>2 DEF LiftWatchdogPause, Stands, fileVars
  <2>2. CASE pause.by = User
    <3>1. pause' = pause /\ place' = [place EXCEPT ![r] = "release"]
      BY <1>2, <2>2, AdmissionAssumption DEF LiftWatchdogPause, Goes, Owners
    <3> QED BY <1>t, <2>1, <3>1, UnseenStays DEF UnseenByTask
  <2>3. CASE pause.by # User
    <3>1. pause'.by = Nobody /\ place' = [place EXCEPT ![r] = "work"]
      BY <1>2, <1>t, <2>3 DEF LiftWatchdogPause, Goes, NotPaused
    <3>2. Nobody # User /\ Nobody \notin Watchdogs
      BY AdmissionAssumption DEF Owners
    <3>3. CASE r \in marker
      BY <1>t, <2>1, <2>3, <3>1, <3>2, <3>3 DEF Admission!Next, Admission!StartWork
    <3>4. CASE r \notin marker
      BY <1>t, <2>1, <2>3, <3>1, <3>2, <3>4 DEF Admission!Next, Admission!PauseEnds,
         Admission!contractVars
    <3> QED BY <3>3, <3>4
  <2> QED BY <2>2, <2>3
<1> QED BY <1>1, <1>2 DEF RoundOf

(* A step that only lifts a pause, whoever takes it. *)
LEMMA ContractLift ==
  ASSUME AdmissionInv, pause' \in {pause, NotPaused}, marker' = marker,
         \A r \in marker \cap Rounds : place[r] = "work" <=> place'[r] = "work"
  PROVE  Admission!PauseEnds \/ UNCHANGED Admission!contractVars
<1>1. NotPaused.by = Nobody /\ Nobody # User /\ Nobody \notin Watchdogs /\ User \notin Watchdogs
  BY AdmissionAssumption DEF NotPaused
<1>2. {r \in marker \cap Rounds : place[r] = "work"}
        = {r \in marker' \cap Rounds : place'[r] = "work"}
  OBVIOUS
<1> QED BY <1>1, <1>2 DEF Admission!PauseEnds, Admission!contractVars

LEMMA ContractCommit ==
  ASSUME AdmissionInv, NEW c \in Watchdogs, PauseCommit(c)
  PROVE  Admission!Next \/ UNCHANGED Admission!contractVars
<1>t. place \in [Owners -> Places] /\ marker \subseteq Owners
  BY DEF AdmissionInv, AdmissionTypeOK
<1>a. c \in Owners /\ c \notin Rounds /\ c # User /\ Nobody \notin Watchdogs /\ Nobody # User
  BY AdmissionAssumption DEF Owners
<1>b. marker' = marker
  BY DEF PauseCommit, CheckAndCapture, CheckFence, LookAgain, WritePause, WritePauseFails,
     CheckMarkersAgain, CheckFenceAgain, ReversePause, fileVars
<1>c. \A r \in Rounds : place'[r] = place[r]
  BY <1>t, <1>a DEF PauseCommit, CheckAndCapture, CheckFence, LookAgain, WritePause,
     WritePauseFails, CheckMarkersAgain, CheckFenceAgain, ReversePause, Goes, Owners
<1>1. CASE WritePause(c)
  <2>1. pause.by = Nobody /\ pause'.by = c /\ \A r \in marker \cap Rounds : place[r] # "work"
    BY <1>1 DEF WritePause, AdmissionInv, CommitUnderLock
  <2>2. {r \in marker \cap Rounds : place[r] = "work"} = {}
        /\ {r \in marker' \cap Rounds : place'[r] = "work"} = {}
    BY <1>b, <1>c, <2>1
  <2> QED BY <1>a, <1>b, <2>1, <2>2 DEF Admission!Next, Admission!WatchdogPauses
<1>2. CASE ~WritePause(c)
  <2>1. pause' \in {pause, NotPaused}
    BY <1>2 DEF PauseCommit, CheckAndCapture, CheckFence, LookAgain, WritePauseFails,
       CheckMarkersAgain, CheckFenceAgain, ReversePause, LiftPauseOf
  <2> QED BY <1>b, <1>c, <2>1, ContractLift DEF Admission!Next
<1> QED BY <1>1, <1>2

LEMMA ContractRescue ==
  ASSUME AdmissionInv, NEW k \in Rescuers, RescueStep(k) \/ RescuerDies(k)
  PROVE  Admission!Next \/ UNCHANGED Admission!contractVars
<1>1. CASE RescuerDies(k) \/ \E o \in Owners : Reclaim(k, o) \/ TakeOver(k, o)
  BY <1>1, UnseenStays DEF RescuerDies, Reclaim, TakeOver, Observe, fileVars, UnseenByTask
<1>2. CASE Displace(k)
  <2> DEFINE o == rescue[k].of
  <2>1. /\ marker' = marker \ {o} \/ marker' = marker
        /\ UNCHANGED <<pause, place>>
    BY <1>2 DEF Displace
  <2>2. CASE marker' = marker BY <2>1, <2>2, UnseenStays DEF UnseenByTask
  <2>3. CASE marker' = marker \ {o} /\ o \in Rounds
    BY <2>1, <2>3 DEF Admission!Next, Admission!Leave
  <2>4. CASE marker' = marker \ {o} /\ o \notin Rounds
    BY <2>1, <2>4 DEF Admission!contractVars
  <2> QED BY <2>1, <2>2, <2>3, <2>4
<1> QED BY <1>1, <1>2 DEF RescueStep

LEMMA ContractFinish ==
  ASSUME AdmissionInv, NEW x \in Owners \cup Rescuers, FinishStep(x)
  PROVE  Admission!Next \/ UNCHANGED Admission!contractVars
<1>1. UNCHANGED <<marker, place>> /\ pause' \in {pause, NotPaused}
  BY DEF FinishStep, FinishFence, FinishLift, FinishRemove, LiftPauseOf, fileVars
<1> QED BY <1>1, ContractLift DEF Admission!Next

LEMMA ContractUser ==
  ASSUME AdmissionInv,
         ReadPause \/ UserAsks \/ UserPauses \/ UserResumes \/ \E o \in Owners : CliEnds(o)
  PROVE  Admission!Next \/ UNCHANGED Admission!contractVars
<1>1. CASE ReadPause \/ UserResumes
  BY <1>1, ContractLift DEF ReadPause, UserResumes, fileVars, Admission!Next
<1>2. CASE UserAsks \/ \E o \in Owners : CliEnds(o)
  BY <1>2, UnseenStays DEF UserAsks, CliEnds, fileVars, UnseenByTask
<1>3. CASE UserPauses
  <2>1. CASE pause.by \in Watchdogs
    BY <1>3, <2>1, UnseenStays DEF UserPauses, fileVars, UnseenByTask
  <2>2. CASE pause.by \notin Watchdogs
    <3>1. pause.by = Nobody
      BY <1>3, <2>2, AdmissionTypes DEF UserPauses, AdmissionInv, AskedIsOpen, Pauses
    <3> QED
      BY <1>3, <2>2, <3>1, AdmissionAssumption
         DEF UserPauses, fileVars, Owners, Admission!Next, Admission!UserPauses
  <2> QED BY <2>1, <2>2
<1> QED BY <1>1, <1>2, <1>3

(* Admission implements its contract with the task. *)
THEOREM AdmissionKeepsContract == AdmissionSpec => KeepsAdmissionContract
<1>1. AdmissionInit => Admission!Init
  BY AdmissionAssumption DEF AdmissionInit, NotPaused, Owners, Admission!Init
<1>2. AdmissionInv /\ [AdmissionNext]_admissionVars => [Admission!Next]_(Admission!contractVars)
  <2> SUFFICES ASSUME AdmissionInv, [AdmissionNext]_admissionVars
               PROVE  Admission!Next \/ UNCHANGED Admission!contractVars
    OBVIOUS
  <2>1. CASE UNCHANGED admissionVars
    BY <2>1, UnseenStays DEF admissionVars, fileVars, UnseenByTask
  <2> QED
    BY <2>1, ContractAcquire, ContractRound, ContractCommit, ContractRescue, ContractFinish,
       ContractUser DEF AdmissionNext, WindowStep
<1> QED
  BY <1>1, <1>2, AdmissionInvariant, PTL
     DEF AdmissionSpec, KeepsAdmissionContract, Admission!Spec
=============================================================================
