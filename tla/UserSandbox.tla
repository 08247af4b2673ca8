----------------------------- MODULE UserSandbox -----------------------------
(***************************************************************************)
(* A user's persistent sandbox at one provider: created once, at its first *)
(* use, recorded, shared by all later uses, and destroyed by a reset. The  *)
(* provider's calls are awaits; MaxProviderFaults bounds how often one     *)
(* fails, the store throws or the process dies.                            *)
(***************************************************************************)
EXTENDS Naturals

CONSTANTS
  Uses,       \* requests that need the sandbox
  Resets,     \* requests to reset it, each made again and again
  Boxes,      \* ids of sandboxes
  NoBox,
  MaxProviderFaults

ASSUME SandboxAssumption == NoBox \notin Boxes /\ MaxProviderFaults \in Nat

VARIABLES
  record,     \* the row of the user's sandbox
  running,    \* what exists at the provider
  made,       \* ids the provider has given
  using,      \* per use: where ensureUserSandbox stands, and its sandbox
  ending,     \* per reset: where it stands, and the sandbox it read
  abandoned,  \* sandboxes that three attempts could not give back
  forgotten,  \* sandboxes that a fault took from everybody's memory
  overtaken,  \* sandboxes whose row a reset deleted that had read an older one
  mishaps

sandboxVars == <<record, running, made, using, ending, abandoned, forgotten, overtaken, mishaps>>

(* "creating" to "giveBack": the promise in the in-flight table. *)
Provisioning == {"creating", "created", "giveBack"}
NoUse == [at |-> "idle", box |-> NoBox, tries |-> 0]
NoReset == [at |-> "idle", box |-> NoBox]
MaxTries == 3

SandboxTypeOK ==
  /\ record \in Boxes \cup {NoBox}
  /\ running \subseteq Boxes /\ made \subseteq Boxes
  /\ using \in [Uses -> [at : Provisioning \cup {"idle", "waiting", "done", "failed"},
                         box : Boxes \cup {NoBox}, tries : 0 .. MaxTries]]
  /\ ending \in [Resets -> [at : {"idle", "destroy", "forget"}, box : Boxes \cup {NoBox}]]
  /\ abandoned \subseteq Boxes /\ forgotten \subseteq Boxes /\ overtaken \subseteq Boxes
  /\ mishaps \in 0 .. MaxProviderFaults

SandboxInit ==
  /\ record = NoBox
  /\ running = {} /\ made = {}
  /\ using = [u \in Uses |-> NoUse]
  /\ ending = [x \in Resets |-> NoReset]
  /\ abandoned = {} /\ forgotten = {} /\ overtaken = {}
  /\ mishaps = 0

Mishap == mishaps < MaxProviderFaults /\ mishaps' = mishaps + 1

InFlight == {u \in Uses : using[u].at \in Provisioning}

-----------------------------------------------------------------------------
(* ensureUserSandboxV1: up to its first await in one turn. *)

Reuse(u) ==
  /\ using[u].at = "idle"
  /\ record # NoBox
  /\ using' = [using EXCEPT ![u] = [at |-> "done", box |-> record, tries |-> 0]]
  /\ UNCHANGED <<record, running, made, ending, abandoned, forgotten, overtaken, mishaps>>

Join(u) ==
  /\ using[u].at = "idle"
  /\ record = NoBox /\ InFlight # {}
  /\ using' = [using EXCEPT ![u].at = "waiting"]
  /\ UNCHANGED <<record, running, made, ending, abandoned, forgotten, overtaken, mishaps>>

(* Mutant: whether a creation is in flight is not asked. *)
ProvisionAgain(u) ==
  /\ using[u].at = "idle"
  /\ record = NoBox
  /\ using' = [using EXCEPT ![u].at = "creating"]
  /\ UNCHANGED <<record, running, made, ending, abandoned, forgotten, overtaken, mishaps>>

Provision(u) ==
  /\ using[u].at = "idle"
  /\ record = NoBox /\ InFlight = {}
  /\ using' = [using EXCEPT ![u].at = "creating"]
  /\ UNCHANGED <<record, running, made, ending, abandoned, forgotten, overtaken, mishaps>>

ProviderCreates(u) ==
  /\ using[u].at = "creating"
  /\ \E b \in Boxes \ made :
       /\ made' = made \cup {b}
       /\ running' = running \cup {b}
       /\ using' = [using EXCEPT ![u].at = "created", ![u].box = b]
  /\ UNCHANGED <<record, ending, abandoned, forgotten, overtaken, mishaps>>

(* Everybody who waits on the promise gets what it resolves to. *)
Settles(u, there, b) ==
  using' = [v \in Uses |->
    IF v = u \/ using[v].at = "waiting" THEN [at |-> there, box |-> b, tries |-> 0]
    ELSE using[v]]

(* The answer comes too late to be heard, or not at all. *)
CreateFails(u) ==
  /\ using[u].at \in {"creating", "created"}
  /\ Mishap
  /\ forgotten' = forgotten \cup ({using[u].box} \ {NoBox})
  /\ Settles(u, "failed", NoBox)
  /\ UNCHANGED <<record, running, made, ending, abandoned, overtaken>>

WriteRecord(u) ==
  /\ using[u].at = "created"
  /\ record' = using[u].box
  /\ Settles(u, "done", using[u].box)
  /\ UNCHANGED <<running, made, ending, abandoned, forgotten, overtaken, mishaps>>

WriteThrows(u) ==
  /\ using[u].at = "created"
  /\ Mishap
  /\ using' = [using EXCEPT ![u].at = "giveBack"]
  /\ UNCHANGED <<record, running, made, ending, abandoned, forgotten, overtaken>>

GiveBack(u) ==
  /\ using[u].at = "giveBack"
  /\ running' = running \ {using[u].box}
  /\ Settles(u, "failed", NoBox)
  /\ UNCHANGED <<record, made, ending, abandoned, forgotten, overtaken, mishaps>>

(* Three attempts. The error then names the id, but both callers of
   ensureUserSandbox answer a text of their own instead: nobody has it. *)
GiveBackFails(u) ==
  /\ using[u].at = "giveBack"
  /\ Mishap
  /\ IF using[u].tries + 1 < MaxTries
       THEN using' = [using EXCEPT ![u].tries = @ + 1] /\ UNCHANGED abandoned
       ELSE Settles(u, "failed", NoBox) /\ abandoned' = abandoned \cup {using[u].box}
  /\ UNCHANGED <<record, running, made, ending, forgotten, overtaken>>

(* Another request of the same user. *)
UseAgain(u) ==
  /\ using[u].at \in {"done", "failed"}
  /\ using' = [using EXCEPT ![u] = NoUse]
  /\ UNCHANGED <<record, running, made, ending, abandoned, forgotten, overtaken, mishaps>>

-----------------------------------------------------------------------------
(* The reset route: destroy, then forget. *)

BeginReset(x) ==
  /\ ending[x].at = "idle"
  /\ record # NoBox
  /\ ending' = [ending EXCEPT ![x] = [at |-> "destroy", box |-> record]]
  /\ UNCHANGED <<record, running, made, using, abandoned, forgotten, overtaken, mishaps>>

(* A sandbox that is gone already counts as destroyed. *)
Destroy(x) ==
  /\ ending[x].at = "destroy"
  /\ running' = running \ {ending[x].box}
  /\ ending' = [ending EXCEPT ![x].at = "forget"]
  /\ UNCHANGED <<record, made, using, abandoned, forgotten, overtaken, mishaps>>

DestroyFails(x) ==
  /\ ending[x].at = "destroy"
  /\ Mishap
  /\ ending' = [ending EXCEPT ![x] = NoReset]
  /\ UNCHANGED <<record, running, made, using, abandoned, forgotten, overtaken>>

(* The row goes, whichever sandbox it names by now. *)
Forget(x) ==
  /\ ending[x].at = "forget"
  /\ record' = NoBox
  /\ ending' = [ending EXCEPT ![x] = NoReset]
  /\ overtaken' = overtaken \cup ({record} \ {ending[x].box, NoBox})
  /\ UNCHANGED <<running, made, using, abandoned, forgotten, mishaps>>

-----------------------------------------------------------------------------
(* The in-flight table and every request die with the process. *)
ServerDies ==
  /\ Mishap
  /\ InFlight # {} \/ \E x \in Resets : ending[x] # NoReset
  /\ forgotten' = forgotten \cup ({using[u].box : u \in InFlight} \ {NoBox})
  /\ using' = [u \in Uses |-> NoUse]
  /\ ending' = [x \in Resets |-> NoReset]
  /\ UNCHANGED <<record, running, made, abandoned, overtaken>>

SandboxNext ==
  \/ \E u \in Uses :
       \/ Reuse(u) \/ Join(u) \/ Provision(u) \/ ProviderCreates(u) \/ CreateFails(u)
       \/ WriteRecord(u) \/ WriteThrows(u) \/ GiveBack(u) \/ GiveBackFails(u) \/ UseAgain(u)
  \/ \E x \in Resets : BeginReset(x) \/ Destroy(x) \/ DestroyFails(x) \/ Forget(x)
  \/ ServerDies

SandboxSpec == SandboxInit /\ [][SandboxNext]_sandboxVars

-----------------------------------------------------------------------------
(* Where the id of a sandbox still is. *)
Named == {record} \cup {using[u].box : u \in InFlight}

(* A sandbox that runs is named by the record or by the creation under way,
   however uses, resets and failures interleave. What runs unnamed was lost for
   one of three reasons: the process died or the provider's answer was not heard
   between creation and record; the record could not be written and three
   attempts to give the sandbox back failed; a reset was overtaken by another one
   and by a new creation. Two first uses at once are not a reason. *)
LostForAReason == running \subseteq Named \cup forgotten \cup abandoned \cup overtaken

(* sandboxLifecycleV1.ts:216-219: the id of a sandbox that could not be given back
   goes into the error, "rather than being dropped silently". It does not hold:
   controlPlaneServerV1.ts:477-483 and 912-914 catch the error and drop it. *)
NothingDropped == abandoned \cap running \subseteq Named

(* controlPlaneServerV1.ts:965-968: destroy, then forget, never the reverse; a
   reset does not forget a sandbox that runs. *)
NoneOvertaken == overtaken \cap running = {}

(* It is so when resets do not overlap. *)
OneReset == \A x, y \in Resets : x = y
=============================================================================
