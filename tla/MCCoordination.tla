---------------------------- MODULE MCCoordination ----------------------------
(***************************************************************************)
(* The components that share no state with another one, each on its own    *)
(* instance: a behaviour is one of the component that Init chooses.        *)
(***************************************************************************)
EXTENDS ChatTransactions, TaskActivation, HostRelay, WorkAdmission,
        Sessions, UserSandbox, TLC

VARIABLE part   \* the component that runs

MCVars == <<storeVars, activationVars, relayVars, admissionVars, sessionVars, sandboxVars, part>>

(* "admission": three of four owners, a second round or a second sweep, and one
   stall. "pair": two owners, and MaxStalls. *)
AllComeBut(S) == place = [o \in Owners |-> IF o \in S THEN "done" ELSE "idle"]

WhoCome ==
  CASE part = "admission" -> \E o \in Owners : AllComeBut({o})
    [] part = "pair" -> \E o, q \in Owners : o # q /\ AllComeBut({o, q})
    [] OTHER -> AllComeBut(Owners)

MCInit ==
  /\ StoreInit /\ ActivationInit /\ RelayInit /\ AdmissionInit /\ SessionInit /\ SandboxInit
  /\ part \in {"chat", "activation", "relay", "admission", "pair", "sessions", "sandbox"}
  /\ part # "relay" => \E h \in Hosts : hostOf = [s \in Sweeps |-> h]
  /\ part # "sessions" => onWeb
  /\ left = [o \in Owners |-> "nothing"]   \* as good as doubt, which the user settles
  /\ WhoCome

MCNext ==
  /\ UNCHANGED part
  /\ \/ /\ part = "chat" /\ StoreNext
        /\ UNCHANGED <<activationVars, relayVars, admissionVars, sessionVars, sandboxVars>>
     \/ /\ part = "activation" /\ ActivationNext
        /\ UNCHANGED <<storeVars, relayVars, admissionVars, sessionVars, sandboxVars>>
     \/ /\ part = "relay" /\ RelayNext
        /\ UNCHANGED <<storeVars, activationVars, admissionVars, sessionVars, sandboxVars>>
     \/ /\ part \in {"admission", "pair"} /\ AdmissionNext
        /\ part = "admission" => stalls' <= 1
        /\ UNCHANGED <<storeVars, activationVars, relayVars, sessionVars, sandboxVars>>
     \/ /\ part = "sessions" /\ SessionNext
        /\ UNCHANGED <<storeVars, activationVars, relayVars, admissionVars, sandboxVars>>
     \/ /\ part = "sandbox" /\ SandboxNext
        /\ UNCHANGED <<storeVars, activationVars, relayVars, admissionVars, sessionVars>>

MCSpec == MCInit /\ [][MCNext]_MCVars

(* Model values that stand for each other. Components share them, so that there
   are few permutations: one swap for what acts, one for what it acts in. *)
MCSym == UNION {Permutations(S) : S \in {Operations, Answers, Ids}}

MCTypeOK ==
  /\ StoreTypeOK /\ ActivationTypeOK /\ RelayTypeOK /\ AdmissionTypeOK
  /\ SessionTypeOK /\ SandboxTypeOK
=============================================================================
