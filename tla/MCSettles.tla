------------------------------- MODULE MCSettles -------------------------------
(***************************************************************************)
(* The fair specifications of the components that share no state: a        *)
(* behaviour is one of the component that Init chooses.                    *)
(***************************************************************************)
EXTENDS RunHost, TaskActivation, HostRelay, WorkAdmission

VARIABLE part   \* the component that runs

MCVars == <<hostVars, activationVars, relayVars, admissionVars, part>>

FirstHost == CHOOSE h \in Hosts : TRUE

MCInit ==
  /\ HostInit /\ ActivationInit /\ RelayInit /\ AdmissionInit
  /\ part \in {"host", "activation", "relay", "admission"}
  /\ hostOf[CHOOSE s \in Sweeps : TRUE] = FirstHost    \* hosts are alike
  /\ part # "relay" => hostOf = [s \in Sweeps |-> FirstHost]
  /\ part # "admission" => left = [o \in Owners |-> "nothing"]
  /\ place = [o \in Owners |-> IF part = "admission" THEN "idle" ELSE "done"]

MCNext ==
  /\ UNCHANGED part
  /\ \/ part = "host" /\ TurnNext /\ UNCHANGED <<activationVars, relayVars, admissionVars>>
     \/ part = "activation" /\ ActivationNext /\ UNCHANGED <<hostVars, relayVars, admissionVars>>
     \/ part = "relay" /\ RelayNext /\ UNCHANGED <<hostVars, activationVars, admissionVars>>
     \/ part = "admission" /\ AdmissionNext /\ UNCHANGED <<hostVars, activationVars, relayVars>>

MCSpec ==
  /\ MCInit /\ [][MCNext]_MCVars
  /\ HostFairness /\ ActivationFairness /\ RelayFairness /\ AdmissionFairness
=============================================================================
