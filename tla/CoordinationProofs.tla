-------------------------- MODULE CoordinationProofs --------------------------
(***************************************************************************)
(* What MCCoordination checks side by side is what each component allows   *)
(* by itself: a behaviour of the composition is one of every component, a  *)
(* component that Init has not chosen standing still. So the theorems of   *)
(* the components hold of the composition, whatever runs in it.            *)
(***************************************************************************)
EXTENDS MCCoordination, RunHostProofs, TaskActivationProofs, HostRelayProofs,
        WorkAdmissionProofs, AccountProofs

LEMMA StartsAsEach ==
  MCInit => /\ StoreInit /\ ActivationInit /\ RelayInit
            /\ AdmissionInit /\ SessionInit /\ SandboxInit
BY DEF MCInit

LEMMA StepsAsEach ==
  [MCNext]_MCVars =>
    /\ [StoreNext]_storeVars /\ [ActivationNext]_activationVars /\ [RelayNext]_relayVars
    /\ [AdmissionNext]_admissionVars /\ [SessionNext]_sessionVars /\ [SandboxNext]_sandboxVars
BY DEF MCNext, MCVars

(* A behaviour of the composition is a behaviour of every component: of the
   transaction store, of activation, relay and admission, of sessions and of the
   sandbox. *)
THEOREM ComposedOfEach ==
  MCSpec => /\ StoreSpec /\ ActivationSpec /\ RelaySpec
            /\ AdmissionSpec /\ SessionSpec /\ SandboxSpec
BY StartsAsEach, StepsAsEach, PTL
   DEF MCSpec, StoreSpec, ActivationSpec, RelaySpec, AdmissionSpec, SessionSpec, SandboxSpec

(* The types of all six. *)
THEOREM CoordinationTyped == MCSpec => []MCTypeOK
<1>1. /\ StoreTypeOK /\ ActivationTypeOK /\ RelayTypeOK
      /\ AdmissionTypeOK /\ SessionTypeOK /\ SandboxTypeOK
      => MCTypeOK
  BY DEF MCTypeOK
<1>2. StoreTypeOK /\ OneGrant /\ GrantIsEarned => StoreTypeOK OBVIOUS
<1> QED
  BY <1>1, <1>2, ComposedOfEach, StoreSafe, ActivationTyped, RelayTyped, AdmissionTyped,
     SessionTyped, SandboxTyped, PTL

(* What the run checks of the composition, for any instance of it: one grant,
   earned and never taken back; an attempted activation is kept; an action of the
   relay runs once and its viewer is told the truth, unless its request could not
   be removed; admission and relay keep their contracts; a session is revoked and
   a sandbox lost only for a reason. *)
THEOREM CoordinationIsSafe ==
  MCSpec =>
    /\ [](OneGrant /\ GrantIsEarned) /\ NothingTakenBack
    /\ PendingIsKept
    /\ [](RunsOnce /\ AnswerIsTrue /\ NotInterruptedByItself) /\ KeepsRelayContract
    /\ []RoundBeatsPause /\ UserPauseIsKept /\ KeepsAdmissionContract
    /\ []RevokedForAReason
    /\ []LostForAReason
<1>1. StoreTypeOK /\ OneGrant /\ GrantIsEarned => OneGrant /\ GrantIsEarned OBVIOUS
<1>2. MCSpec => [](OneGrant /\ GrantIsEarned) /\ NothingTakenBack
  BY <1>1, ComposedOfEach, StoreSafe, StoreKeeps, PTL
<1>3. MCSpec => [](RunsOnce /\ AnswerIsTrue /\ NotInterruptedByItself) /\ KeepsRelayContract
  BY ComposedOfEach, ARequestRunsOnce, TheAnswerIsTrue, AHostKnowsItsOwn, RelayKeepsContract, PTL
<1>4. MCSpec => []RoundBeatsPause /\ UserPauseIsKept /\ KeepsAdmissionContract
  BY ComposedOfEach, TheRoundBeatsThePause, TheUsersPauseIsKept, AdmissionKeepsContract, PTL
<1>5. MCSpec => PendingIsKept /\ []RevokedForAReason /\ []LostForAReason
  BY ComposedOfEach, AnAttemptIsKept, OnlyTheUserEndsASession, ASandboxIsLostForAReason, PTL
<1> QED BY <1>2, <1>3, <1>4, <1>5, PTL

(* And, where nothing disturbs an interrupted activation, at most one task is
   active. *)
THEOREM OneActiveInCoordination ==
  ASSUME Undisturbed
  PROVE  MCSpec => []OneActive
BY ComposedOfEach, OneTaskActive, PTL
=============================================================================
