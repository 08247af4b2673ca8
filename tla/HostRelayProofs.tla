---------------------------- MODULE HostRelayProofs ----------------------------
(***************************************************************************)
(* A request is run once, its answer is true and nothing starts after the  *)
(* viewer was told, unless the removal of an answered request failed: the  *)
(* relay implements RelayContract, for any number of requests, sweeps,     *)
(* hosts and faults; and no host disowns its own work. The invariant is    *)
(* about a request that is still queued, and not because its removal       *)
(* failed: it has a claim as soon as anything was done for it, and the one *)
(* round that may go on.                                                   *)
(***************************************************************************)
EXTENDS HostRelay, TLAPS

SweepRecords == [at : SweepPlaces, pending : SUBSET Relayed, orphans : SUBSET Relayed,
                 dead : Relayed \cup {NoRequest}]
RoundRecords == [at : RoundPlaces, answer : Responses \cup {"none"}]

Queued(r) == request[r] = "queued" /\ r \notin unremoved
Under(s, r) == round[s][r].at # "none"
(* A round that has not read its request yet. *)
Ahead(s, r) == round[s][r].at \in {"taken", "read"}
Expires(s, r) ==
  sweep[s].at \in {"expireAnswer", "expireRequest", "expireClaim"} /\ sweep[s].dead = r

(* Nothing is known of a request before it is sent. *)
Unsent ==
  /\ \A r \in Relayed : viewer[r] = "idle" => request[r] = "unsent"
  /\ \A r \in Relayed : request[r] = "unsent" =>
       claim[r] = "none" /\ response[r] = "none" /\ started[r] = 0
  /\ \A s \in Sweeps, r \in Relayed :
       Under(s, r) \/ r \in sweep[s].pending \/ Expires(s, r) => request[r] # "unsent"

(* A claim goes when its request is gone, or could not be removed. *)
Outlived ==
  \A s \in Sweeps, r \in Relayed :
    /\ \/ sweep[s].at = "collect" /\ r \in sweep[s].orphans
       \/ Expires(s, r) /\ sweep[s].at = "expireClaim"
       => request[r] = "gone"
    /\ round[s][r].at = "unclaim" => request[r] = "gone" \/ r \in unremoved

(* A queued request is in one round, under a claim that is stale only when the
   round has read it. *)
OneRound ==
  \A r \in Relayed : Queued(r) =>
    /\ \A s \in Sweeps : Under(s, r) =>
         claim[r] # "none" /\ \A t \in Sweeps : Under(t, r) => t = s
    /\ claim[r] = "stale" => \A s \in Sweeps : ~Ahead(s, r)

(* What was started, or answered in time, is claimed and not ahead. *)
Known(r) ==
  \/ started[r] > 0
  \/ ~late[r] /\ (response[r] # "none" \/ verdict[r] # "none" \/ \E s \in Sweeps : Expires(s, r))

KnownIsTaken ==
  \A r \in Relayed : Queued(r) /\ Known(r) =>
    claim[r] # "none" /\ \A s \in Sweeps : ~Ahead(s, r)

(* One handler, and its outcome after its end. *)
OneHandler ==
  /\ \A r \in Relayed \ unremoved :
       /\ started[r] <= 1
       /\ \A s, t \in Sweeps : round[s][r].at = "handle" /\ round[t][r].at = "handle" => s = t
       /\ \A s \in Sweeps : round[s][r].at = "handle" => started[r] = 1 /\ outcome[r] = "none"
       /\ outcome[r] # "none" => started[r] = 1
  /\ \A r \in Relayed, s \in Sweeps : round[s][r].at = "handle" => started[r] > 0

(* An answer, wherever it is, says what happened. *)
SaysTrue(r, a) ==
  /\ a = "ok" => outcome[r] = "ok"
  /\ a = "failed" => outcome[r] = "failed" \/ started[r] = 0
  /\ a = "expired" => started[r] = 0 /\ late[r]

AnswersAreTrue ==
  /\ \A r \in Relayed \ unremoved :
       /\ SaysTrue(r, response[r]) /\ SaysTrue(r, verdict[r])
       /\ \A s \in Sweeps : SaysTrue(r, round[s][r].answer)
  /\ \A r \in Relayed :
       /\ \A s \in Sweeps : /\ round[s][r].at = "answer" => round[s][r].answer # "none"
                            /\ ~Under(s, r) \/ (Queued(r) /\ Ahead(s, r))
                               => round[s][r].answer = "none"
       /\ verdict[r] # "none" => viewer[r] = "done"
       /\ viewer[r] \in {"givingUp", "took", "notPickedUp"} => late[r]

RelayInv ==
  /\ RelayTypeOK
  /\ Unsent /\ Outlived /\ OneRound /\ KnownIsTaken /\ OneHandler /\ AnswersAreTrue

LEMMA RelayInitially == RelayInit => RelayInv
BY RelayAssumption DEF RelayInit, RelayInv, RelayTypeOK, Unsent, Outlived, OneRound, KnownIsTaken,
   OneHandler, AnswersAreTrue, SaysTrue, Known, Queued, Under, Ahead, Expires, IdleSweep, NoRound,
   Responses, Told, ViewerPlaces, SweepPlaces, RoundPlaces

(* The functions that a step changes keep their types. *)
LEMMA SweepGoesTyped ==
  ASSUME sweep \in [Sweeps -> SweepRecords], NEW s \in Sweeps, NEW place \in SweepPlaces
  PROVE  [sweep EXCEPT ![s].at = place] \in [Sweeps -> SweepRecords]
BY DEF SweepRecords

LEMMA SweepTyped ==
  ASSUME sweep \in [Sweeps -> SweepRecords], NEW s \in Sweeps, NEW place \in SweepPlaces,
         NEW q \in Relayed
  PROVE  /\ [sweep EXCEPT ![s].orphans = @ \ {q}] \in [Sweeps -> SweepRecords]
         /\ [sweep EXCEPT ![s].pending = @ \ {q}] \in [Sweeps -> SweepRecords]
         /\ [sweep EXCEPT ![s].at = place, ![s].dead = q, ![s].pending = @ \ {q}]
              \in [Sweeps -> SweepRecords]
BY DEF SweepRecords

LEMMA RoundTyped ==
  ASSUME round \in [Sweeps -> [Relayed -> RoundRecords]], NEW s \in Sweeps, NEW r \in Relayed,
         NEW place \in RoundPlaces, NEW a \in Responses \cup {"none"}
  PROVE  /\ [round EXCEPT ![s][r].at = place] \in [Sweeps -> [Relayed -> RoundRecords]]
         /\ [round EXCEPT ![s][r] = [at |-> place, answer |-> a]] \in [Sweeps -> [Relayed ->
             RoundRecords]]
<1>1. /\ \A x \in RoundRecords : [x EXCEPT !.at = place] \in RoundRecords
      /\ [at |-> place, answer |-> a] \in RoundRecords
  BY DEF RoundRecords
<1>2. /\ [round[s] EXCEPT ![r].at = place] \in [Relayed -> RoundRecords]
      /\ [round[s] EXCEPT ![r] = [at |-> place, answer |-> a]] \in [Relayed -> RoundRecords]
  BY <1>1
<1> QED BY <1>2

LEMMA RelayTypes ==
  RelayTypeOK <=>
    /\ request \in [Relayed -> {"unsent", "queued", "gone"}]
    /\ claim \in [Relayed -> {"none", "fresh", "stale"}]
    /\ response \in [Relayed -> Responses \cup {"none"}]
    /\ viewer \in [Relayed -> ViewerPlaces]
    /\ verdict \in [Relayed -> Told \cup {"none"}]
    /\ late \in [Relayed -> BOOLEAN]
    /\ hostOf \in [Sweeps -> Hosts]
    /\ executing \in [Hosts -> SUBSET Relayed]
    /\ sweep \in [Sweeps -> SweepRecords]
    /\ round \in [Sweeps -> [Relayed -> RoundRecords]]
    /\ started \in [Relayed -> 0 .. 2]
    /\ outcome \in [Relayed -> {"none", "ok", "failed"}]
    /\ unremoved \subseteq Relayed
    /\ relayFaults \in 0 .. MaxRelayFaults
BY DEF RelayTypeOK, SweepRecords, RoundRecords

(* One lemma per action: what it does to each part of the invariant. *)

LEMMA SendStep ==
  ASSUME RelayInv, NEW r \in Relayed, Send(r)
  PROVE  RelayInv'
<1> USE RelayAssumption DEF RelayInv, RelayTypeOK, Send, viewerVars, runnerVars
<1>t. RelayTypeOK' BY DEF Responses, Told, ViewerPlaces
<1>1. Unsent' BY DEF Unsent, Under, Expires
<1>2. Outlived' BY DEF Outlived, Unsent, Under, Expires
<1>3. OneRound' BY DEF OneRound, Unsent, Outlived, Queued, Under, Ahead, Expires
<1>4. KnownIsTaken'
  BY DEF KnownIsTaken, OneRound, Unsent, Outlived, AnswersAreTrue, SaysTrue, Known, Queued, Under,
     Ahead, Expires
<1>5. OneHandler' BY DEF OneHandler, KnownIsTaken, OneRound, Known, Queued, Under, Ahead
<1>6. AnswersAreTrue'
  BY DEF AnswersAreTrue, SaysTrue, OneHandler, Unsent, Known, Queued, Under, Ahead
<1> QED BY <1>t, <1>1, <1>2, <1>3, <1>4, <1>5, <1>6

LEMMA ReadResponseStep ==
  ASSUME RelayInv, NEW r \in Relayed, ReadResponse(r)
  PROVE  RelayInv'
<1> USE RelayAssumption DEF RelayInv, RelayTypeOK, ReadResponse, Tell, viewerVars, runnerVars
<1>t. RelayTypeOK' BY DEF Responses, Told, ViewerPlaces
<1>1. Unsent' BY DEF Unsent, Under, Expires
<1>2. Outlived' BY DEF Outlived, Unsent, Under, Expires
<1>3. OneRound' BY DEF OneRound, Unsent, Outlived, Queued, Under, Ahead, Expires
<1>4. KnownIsTaken'
  BY DEF KnownIsTaken, OneRound, Unsent, Outlived, AnswersAreTrue, SaysTrue, Known, Queued, Under,
     Ahead, Expires
<1>5. OneHandler' BY DEF OneHandler, KnownIsTaken, OneRound, Known, Queued, Under, Ahead
<1>6. AnswersAreTrue'
  BY DEF AnswersAreTrue, SaysTrue, OneHandler, KnownIsTaken, Known, Queued, Under, Ahead
<1> QED BY <1>t, <1>1, <1>2, <1>3, <1>4, <1>5, <1>6

LEMMA DeadlinePassesStep ==
  ASSUME RelayInv, NEW r \in Relayed, DeadlinePasses(r)
  PROVE  RelayInv'
<1> USE RelayAssumption DEF RelayInv, RelayTypeOK, DeadlinePasses, viewerVars, runnerVars
<1>t. RelayTypeOK' BY DEF Responses, Told
<1>1. Unsent' BY DEF Unsent, Under, Expires
<1>2. Outlived' BY DEF Outlived, Unsent, Under, Expires
<1>3. OneRound' BY DEF OneRound, Unsent, Outlived, Queued, Under, Ahead, Expires
<1>4. KnownIsTaken'
  BY DEF KnownIsTaken, OneRound, Unsent, Outlived, AnswersAreTrue, SaysTrue, Known, Queued, Under,
     Ahead, Expires
<1>5. OneHandler' BY DEF OneHandler, KnownIsTaken, OneRound, Known, Queued, Under, Ahead
<1>6. AnswersAreTrue'
  BY DEF AnswersAreTrue, SaysTrue, OneHandler, KnownIsTaken, Known, Queued, Under, Ahead
<1> QED BY <1>t, <1>1, <1>2, <1>3, <1>4, <1>5, <1>6

LEMMA MissResponseStep ==
  ASSUME RelayInv, NEW r \in Relayed, MissResponse(r)
  PROVE  RelayInv'
<1> USE RelayAssumption DEF RelayInv, RelayTypeOK, MissResponse, RelayFault, viewerVars, runnerVars
<1>t. RelayTypeOK' BY DEF Responses, Told, ViewerPlaces
<1>1. Unsent' BY DEF Unsent, Under, Expires
<1>2. Outlived' BY DEF Outlived, Unsent, Under, Expires
<1>3. OneRound' BY DEF OneRound, Unsent, Outlived, Queued, Under, Ahead, Expires
<1>4. KnownIsTaken'
  BY DEF KnownIsTaken, OneRound, Unsent, Outlived, AnswersAreTrue, SaysTrue, Known, Queued, Under,
     Ahead, Expires
<1>5. OneHandler' BY DEF OneHandler, KnownIsTaken, OneRound, Known, Queued, Under, Ahead
<1>6. AnswersAreTrue'
  BY DEF AnswersAreTrue, SaysTrue, OneHandler, KnownIsTaken, Known, Queued, Under, Ahead
<1> QED BY <1>t, <1>1, <1>2, <1>3, <1>4, <1>5, <1>6

LEMMA LookForClaimStep ==
  ASSUME RelayInv, NEW r \in Relayed, LookForClaim(r)
  PROVE  RelayInv'
<1> USE RelayAssumption
        DEF RelayInv, RelayTypeOK, LookForClaim, Told, Responses, viewerVars, runnerVars
<1>t. RelayTypeOK' BY DEF Responses, Told, ViewerPlaces
<1>1. Unsent' BY DEF Unsent, Under, Expires
<1>2. Outlived' BY DEF Outlived, Unsent, Under, Expires
<1>3. OneRound' BY DEF OneRound, Unsent, Outlived, Queued, Under, Ahead, Expires
<1>4. KnownIsTaken'
  BY DEF KnownIsTaken, OneRound, Unsent, Outlived, AnswersAreTrue, SaysTrue, Known, Queued, Under,
     Ahead, Expires
<1>5. OneHandler' BY DEF OneHandler, KnownIsTaken, OneRound, Known, Queued, Under, Ahead
<1>6. AnswersAreTrue'
  BY DEF AnswersAreTrue, SaysTrue, OneHandler, KnownIsTaken, Known, Queued, Under, Ahead
<1> QED BY <1>t, <1>1, <1>2, <1>3, <1>4, <1>5, <1>6

LEMMA WithdrawStep ==
  ASSUME RelayInv, NEW r \in Relayed, Withdraw(r)
  PROVE  RelayInv'
<1> USE DEF RelayInv
<1>0. /\ viewer[r] \in {"took", "notPickedUp"} /\ late[r]
      /\ UNCHANGED <<claim, response, late, hostOf, executing, sweep, round, started, outcome,
                     unremoved>>
  BY DEF Withdraw, runnerVars, AnswersAreTrue
<1>1. /\ \E text \in {"took", "notPickedUp", "error"} : Tell(r, text)
      /\ request' \in {request, [request EXCEPT ![r] = "gone"]}
      /\ relayFaults' \in 0 .. MaxRelayFaults
  BY <1>0, RelayTypes, RelayAssumption DEF Withdraw, RelayFault
<1>2. /\ \A q \in Relayed : q # r => /\ request'[q] = request[q]
                                     /\ viewer'[q] = viewer[q] /\ verdict'[q] = verdict[q]
      /\ request'[r] \in {request[r], "gone"}
      /\ viewer'[r] = "done" /\ verdict'[r] \in {"took", "notPickedUp", "error"}
      /\ request' \in [Relayed -> {"unsent", "queued", "gone"}]
      /\ viewer' \in [Relayed -> ViewerPlaces]
      /\ verdict' \in [Relayed -> Told \cup {"none"}]
  BY <1>1, RelayTypes DEF Tell, ViewerPlaces, Told
<1> USE <1>0
<1>t. RelayTypeOK' BY <1>1, <1>2, RelayTypes DEF RelayTypeOK, SweepRecords, RoundRecords
<1>3. \A q \in Relayed : (Queued(q)' => Queued(q)) /\ (Queued(q)' /\ Known(q)' => Known(q))
  BY <1>2 DEF Queued, Known, Expires
<1>a. Unsent' BY <1>2 DEF Unsent, Under, Expires
<1>b. Outlived' BY <1>2 DEF Outlived, Expires
<1>c. OneRound' BY <1>3 DEF OneRound, Under, Ahead
<1>d. KnownIsTaken' BY <1>3 DEF KnownIsTaken, Ahead
<1>e. OneHandler' BY DEF OneHandler
<1>f. AnswersAreTrue' BY <1>2, <1>3 DEF AnswersAreTrue, SaysTrue, Under, Ahead
<1> QED BY <1>t, <1>a, <1>b, <1>c, <1>d, <1>e, <1>f

LEMMA ListStep ==
  ASSUME RelayInv, NEW s \in Sweeps, List(s)
  PROVE  RelayInv'
<1> USE RelayAssumption
        DEF RelayInv, RelayTypeOK, List, IdleSweep, RequestFiles, ClaimFiles, SweepPlaces,
            viewerVars, runnerVars
<1>t. RelayTypeOK' BY DEF Responses, Told
<1>1. Unsent' BY DEF Unsent, Under, Expires
<1>2. Outlived' BY DEF Outlived, Unsent, Under, Expires
<1>3. OneRound' BY DEF OneRound, Unsent, Outlived, Queued, Under, Ahead, Expires
<1>4. KnownIsTaken'
  BY DEF KnownIsTaken, OneRound, Unsent, Outlived, AnswersAreTrue, SaysTrue, Known, Queued, Under,
     Ahead, Expires
<1>5. OneHandler' BY DEF OneHandler, KnownIsTaken, OneRound, Known, Queued, Under, Ahead
<1>6. AnswersAreTrue'
  BY DEF AnswersAreTrue, SaysTrue, OneHandler, KnownIsTaken, Known, Queued, Under, Ahead
<1> QED BY <1>t, <1>1, <1>2, <1>3, <1>4, <1>5, <1>6

LEMMA CollectOrphanStep ==
  ASSUME RelayInv, NEW s \in Sweeps, NEW r \in Relayed, CollectOrphan(s, r)
  PROVE  RelayInv'
<1> USE RelayAssumption DEF RelayInv, RelayTypeOK, CollectOrphan, RelayFault, viewerVars, runnerVars
<1>t. RelayTypeOK'
  <2>1. sweep' \in [Sweeps -> SweepRecords]
    BY SweepTyped, SweepGoesTyped, RelayTypes DEF RelayInv, CollectOrphan, SweepPlaces
  <2>2. claim' \in [Relayed -> {"none", "fresh", "stale"}]
    <3>1. claim \in [Relayed -> {"none", "fresh", "stale"}] BY RelayTypes DEF RelayInv
    <3>2. claim' = claim \/ claim' \in {[claim EXCEPT ![r] = "none"], [claim EXCEPT ![r] = claim[r]]}
      BY DEF CollectOrphan
    <3> QED BY <3>1, <3>2
  <2>3. relayFaults' \in 0 .. MaxRelayFaults
    BY RelayAssumption, RelayTypes DEF RelayInv, CollectOrphan, RelayFault
  <2> QED
    BY <2>1, <2>2, <2>3, RelayTypes DEF RelayInv, RelayTypeOK, SweepRecords, RoundRecords,
       CollectOrphan, viewerVars
<1>1. Unsent' BY DEF Unsent, Under, Expires
<1>2. Outlived' BY DEF Outlived, Unsent, Under, Expires
<1>3. OneRound' BY DEF OneRound, Unsent, Outlived, Queued, Under, Ahead, Expires
<1>4. KnownIsTaken'
  BY DEF KnownIsTaken, OneRound, Unsent, Outlived, AnswersAreTrue, SaysTrue, Known, Queued, Under,
     Ahead, Expires
<1>5. OneHandler' BY DEF OneHandler, KnownIsTaken, OneRound, Known, Queued, Under, Ahead
<1>6. AnswersAreTrue'
  BY DEF AnswersAreTrue, SaysTrue, OneHandler, KnownIsTaken, Known, Queued, Under, Ahead
<1> QED BY <1>t, <1>1, <1>2, <1>3, <1>4, <1>5, <1>6

LEMMA CollectResponseStep ==
  ASSUME RelayInv, NEW s \in Sweeps, NEW r \in Relayed, CollectResponse(s, r)
  PROVE  RelayInv'
<1> USE RelayAssumption DEF RelayInv, RelayTypeOK, CollectResponse, viewerVars, runnerVars
<1>t. RelayTypeOK' BY DEF Responses, Told
<1>1. Unsent' BY DEF Unsent, Under, Expires
<1>2. Outlived' BY DEF Outlived, Unsent, Under, Expires
<1>3. OneRound' BY DEF OneRound, Unsent, Outlived, Queued, Under, Ahead, Expires
<1>4. KnownIsTaken'
  BY DEF KnownIsTaken, OneRound, Unsent, Outlived, AnswersAreTrue, SaysTrue, Known, Queued, Under,
     Ahead, Expires
<1>5. OneHandler' BY DEF OneHandler, KnownIsTaken, OneRound, Known, Queued, Under, Ahead
<1>6. AnswersAreTrue'
  BY DEF AnswersAreTrue, SaysTrue, OneHandler, KnownIsTaken, Known, Queued, Under, Ahead
<1> QED BY <1>t, <1>1, <1>2, <1>3, <1>4, <1>5, <1>6

LEMMA CollectedStep ==
  ASSUME RelayInv, NEW s \in Sweeps, Collected(s)
  PROVE  RelayInv'
<1> USE RelayAssumption
        DEF RelayInv, RelayTypeOK, Collected, SweepGoes, SweepPlaces, viewerVars, runnerVars
<1>t. RelayTypeOK'
  <2>1. sweep' \in [Sweeps -> SweepRecords]
    BY SweepTyped, SweepGoesTyped, RelayTypes DEF RelayInv, Collected, SweepPlaces, SweepGoes
  <2> QED
    BY <2>1, RelayTypes, RelayAssumption DEF RelayInv, RelayTypeOK, SweepRecords, RoundRecords,
       ViewerPlaces, Collected, SweepGoes, viewerVars, runnerVars
<1>1. Unsent' BY DEF Unsent, Under, Expires
<1>2. Outlived' BY DEF Outlived, Unsent, Under, Expires
<1>3. OneRound' BY DEF OneRound, Unsent, Outlived, Queued, Under, Ahead, Expires
<1>4. KnownIsTaken'
  BY DEF KnownIsTaken, OneRound, Unsent, Outlived, AnswersAreTrue, SaysTrue, Known, Queued, Under,
     Ahead, Expires
<1>5. OneHandler' BY DEF OneHandler, KnownIsTaken, OneRound, Known, Queued, Under, Ahead
<1>6. AnswersAreTrue'
  BY DEF AnswersAreTrue, SaysTrue, OneHandler, KnownIsTaken, Known, Queued, Under, Ahead
<1> QED BY <1>t, <1>1, <1>2, <1>3, <1>4, <1>5, <1>6

LEMMA ClaimStep ==
  ASSUME RelayInv, NEW s \in Sweeps, NEW r \in Relayed, Claim(s, r)
  PROVE  RelayInv'
<1> USE RelayAssumption DEF RelayInv, RelayTypeOK, Claim, RoundPlaces, viewerVars, runnerVars
<1>t. RelayTypeOK'
  <2>1. sweep' \in [Sweeps -> SweepRecords]
    BY SweepTyped, SweepGoesTyped, RelayTypes DEF RelayInv, Claim, SweepPlaces
  <2>2. round' \in [Sweeps -> [Relayed -> RoundRecords]]
    BY RoundTyped, RelayTypes DEF RelayInv, Claim, RoundPlaces
  <2>3. /\ claim' \in [Relayed -> {"none", "fresh", "stale"}]
        /\ executing' \in [Hosts -> SUBSET Relayed]
    BY RelayTypes DEF RelayInv, Claim
  <2>4. UNCHANGED <<request, response, viewer, verdict, late, hostOf, started, outcome,
                    unremoved, relayFaults>>
    BY DEF Claim, viewerVars
  <2>5. /\ sweep' \in [Sweeps -> [at : SweepPlaces, pending : SUBSET Relayed,
                                orphans : SUBSET Relayed, dead : Relayed \cup {NoRequest}]]
        /\ round' \in [Sweeps -> [Relayed -> [at : RoundPlaces, answer : Responses \cup {"none"}]]]
    BY <2>1, <2>2 DEF SweepRecords, RoundRecords
  <2> HIDE DEF Claim, RoundPlaces
  <2> QED BY <2>3, <2>4, <2>5, Zenon
<1>1. Unsent' BY DEF Unsent, Under, Expires
<1>2. Outlived' BY DEF Outlived, Unsent, Under, Expires
<1>3. OneRound' BY DEF OneRound, Unsent, Outlived, Queued, Under, Ahead, Expires
<1>4. KnownIsTaken'
  BY DEF KnownIsTaken, OneRound, Unsent, Outlived, AnswersAreTrue, SaysTrue, Known, Queued, Under,
     Ahead, Expires
<1>5. OneHandler' BY DEF OneHandler, KnownIsTaken, OneRound, Known, Queued, Under, Ahead
<1>6. AnswersAreTrue'
  BY DEF AnswersAreTrue, SaysTrue, OneRound, Queued, Under, Ahead
<1> QED BY <1>t, <1>1, <1>2, <1>3, <1>4, <1>5, <1>6

LEMMA ClaimFailsStep ==
  ASSUME RelayInv, NEW s \in Sweeps, NEW r \in Relayed, ClaimFails(s, r)
  PROVE  RelayInv'
<1> USE RelayAssumption DEF RelayInv, RelayTypeOK, ClaimFails, RelayFault, viewerVars, runnerVars
<1>t. RelayTypeOK'
  <2>1. sweep' \in [Sweeps -> SweepRecords]
    BY SweepTyped, SweepGoesTyped, RelayTypes DEF RelayInv, ClaimFails, SweepPlaces
  <2>2. claim' \in [Relayed -> {"none", "fresh", "stale"}]
    BY RelayTypes DEF RelayInv, ClaimFails
  <2>3. relayFaults' \in 0 .. MaxRelayFaults
    BY RelayAssumption, RelayTypes DEF RelayInv, ClaimFails, RelayFault
  <2> QED
    BY <2>1, <2>2, <2>3, RelayTypes DEF RelayInv, RelayTypeOK, SweepRecords, RoundRecords,
       ClaimFails, viewerVars
<1>1. Unsent' BY DEF Unsent, Under, Expires
<1>2. Outlived' BY DEF Outlived, Unsent, Under, Expires
<1>3. OneRound' BY DEF OneRound, Unsent, Outlived, Queued, Under, Ahead, Expires
<1>4. KnownIsTaken'
  BY DEF KnownIsTaken, OneRound, Unsent, Outlived, AnswersAreTrue, SaysTrue, Known, Queued, Under,
     Ahead, Expires
<1>5. OneHandler' BY DEF OneHandler, KnownIsTaken, OneRound, Known, Queued, Under, Ahead
<1>6. AnswersAreTrue'
  BY DEF AnswersAreTrue, SaysTrue, OneHandler, KnownIsTaken, Known, Queued, Under, Ahead
<1> QED BY <1>t, <1>1, <1>2, <1>3, <1>4, <1>5, <1>6

LEMMA LeaveClaimStep ==
  ASSUME RelayInv, NEW s \in Sweeps, NEW r \in Relayed, LeaveClaim(s, r)
  PROVE  RelayInv'
<1> USE RelayAssumption DEF RelayInv, RelayTypeOK, LeaveClaim, viewerVars, runnerVars
<1>t. RelayTypeOK'
  <2>1. sweep' \in [Sweeps -> SweepRecords]
    BY SweepTyped, SweepGoesTyped, RelayTypes DEF RelayInv, LeaveClaim, SweepPlaces
  <2> QED
    BY <2>1, RelayTypes, RelayAssumption DEF RelayInv, RelayTypeOK, SweepRecords, RoundRecords,
       ViewerPlaces, LeaveClaim, viewerVars, runnerVars
<1>1. Unsent' BY DEF Unsent, Under, Expires
<1>2. Outlived' BY DEF Outlived, Unsent, Under, Expires
<1>3. OneRound' BY DEF OneRound, Unsent, Outlived, Queued, Under, Ahead, Expires
<1>4. KnownIsTaken'
  BY DEF KnownIsTaken, OneRound, Unsent, Outlived, AnswersAreTrue, SaysTrue, Known, Queued, Under,
     Ahead, Expires
<1>5. OneHandler' BY DEF OneHandler, KnownIsTaken, OneRound, Known, Queued, Under, Ahead
<1>6. AnswersAreTrue'
  BY DEF AnswersAreTrue, SaysTrue, OneHandler, KnownIsTaken, Known, Queued, Under, Ahead
<1> QED BY <1>t, <1>1, <1>2, <1>3, <1>4, <1>5, <1>6

LEMMA FindDeadStep ==
  ASSUME RelayInv, NEW s \in Sweeps, NEW r \in Relayed, FindDead(s, r)
  PROVE  RelayInv'
<1> USE RelayAssumption DEF RelayInv, RelayTypeOK, FindDead, SweepPlaces, viewerVars, runnerVars
<1>t. RelayTypeOK'
  <2>1. sweep' \in [Sweeps -> SweepRecords]
    BY SweepTyped, SweepGoesTyped, RelayTypes DEF RelayInv, FindDead, SweepPlaces
  <2> QED
    BY <2>1, RelayTypes, RelayAssumption DEF RelayInv, RelayTypeOK, SweepRecords, RoundRecords,
       ViewerPlaces, FindDead, viewerVars, runnerVars
<1>1. Unsent' BY DEF Unsent, Under, Expires
<1>2. Outlived' BY DEF Outlived, Unsent, Under, Expires
<1>3. OneRound' BY DEF OneRound, Unsent, Outlived, Queued, Under, Ahead, Expires
<1>4. KnownIsTaken'
  BY DEF KnownIsTaken, OneRound, Unsent, Outlived, AnswersAreTrue, SaysTrue, Known, Queued, Under,
     Ahead, Expires
<1>5. OneHandler' BY DEF OneHandler, KnownIsTaken, OneRound, Known, Queued, Under, Ahead
<1>6. AnswersAreTrue'
  BY DEF AnswersAreTrue, SaysTrue, OneHandler, KnownIsTaken, Known, Queued, Under, Ahead
<1> QED BY <1>t, <1>1, <1>2, <1>3, <1>4, <1>5, <1>6

LEMMA ExpireAnswerStep ==
  ASSUME RelayInv, NEW s \in Sweeps, ExpireAnswer(s)
  PROVE  RelayInv'
<1> USE RelayAssumption
        DEF RelayInv, RelayTypeOK, ExpireAnswer, SweepGoes, SweepPlaces, Responses, viewerVars,
            runnerVars
<1>t. RelayTypeOK'
  <2>1. sweep' \in [Sweeps -> SweepRecords]
    BY SweepTyped, SweepGoesTyped, RelayTypes DEF RelayInv, ExpireAnswer, SweepPlaces, SweepGoes
  <2>3. sweep[s].dead \in Relayed \cup {NoRequest} BY RelayTypes DEF RelayInv, SweepRecords
  <2> QED
    BY <2>1, <2>3, RelayTypes, RelayAssumption DEF RelayInv, RelayTypeOK, SweepRecords, RoundRecords,
       ViewerPlaces, ExpireAnswer, SweepGoes, Responses, viewerVars, runnerVars
<1>1. Unsent' BY DEF Unsent, Under, Expires
<1>2. Outlived' BY DEF Outlived, Unsent, Under, Expires
<1>3. OneRound' BY DEF OneRound, Unsent, Outlived, Queued, Under, Ahead, Expires
<1>4. KnownIsTaken'
  BY DEF KnownIsTaken, OneRound, Unsent, Outlived, AnswersAreTrue, SaysTrue, Known, Queued, Under,
     Ahead, Expires
<1>5. OneHandler' BY DEF OneHandler, KnownIsTaken, OneRound, Known, Queued, Under, Ahead
<1>6. AnswersAreTrue'
  BY DEF AnswersAreTrue, SaysTrue, OneHandler, KnownIsTaken, Known, Queued, Under, Ahead
<1> QED BY <1>t, <1>1, <1>2, <1>3, <1>4, <1>5, <1>6

LEMMA ExpireFailsStep ==
  ASSUME RelayInv, NEW s \in Sweeps, ExpireFails(s)
  PROVE  RelayInv'
<1> USE RelayAssumption
        DEF RelayInv, RelayTypeOK, ExpireFails, RelayFault, IdleSweep, NoRound, SweepPlaces,
            RoundPlaces, viewerVars, runnerVars
<1>t. RelayTypeOK' BY DEF Responses, Told
<1>1. Unsent' BY DEF Unsent, Under, Expires
<1>2. Outlived' BY DEF Outlived, Unsent, Under, Expires
<1>3. OneRound' BY DEF OneRound, Unsent, Outlived, Queued, Under, Ahead, Expires
<1>4. KnownIsTaken'
  BY DEF KnownIsTaken, OneRound, Unsent, Outlived, AnswersAreTrue, SaysTrue, Known, Queued, Under,
     Ahead, Expires
<1>5. OneHandler' BY DEF OneHandler, KnownIsTaken, OneRound, Known, Queued, Under, Ahead
<1>6. AnswersAreTrue'
  BY DEF AnswersAreTrue, SaysTrue, OneHandler, KnownIsTaken, Known, Queued, Under, Ahead
<1> QED BY <1>t, <1>1, <1>2, <1>3, <1>4, <1>5, <1>6

LEMMA ExpireRequestStep ==
  ASSUME RelayInv, NEW s \in Sweeps, ExpireRequest(s)
  PROVE  RelayInv'
<1> USE RelayAssumption
        DEF RelayInv, RelayTypeOK, ExpireRequest, SweepGoes, SweepPlaces, viewerVars, runnerVars
<1>t. RelayTypeOK'
  <2>1. sweep' \in [Sweeps -> SweepRecords]
    BY SweepTyped, SweepGoesTyped, RelayTypes DEF RelayInv, ExpireRequest, SweepPlaces, SweepGoes
  <2>3. sweep[s].dead \in Relayed \cup {NoRequest} BY RelayTypes DEF RelayInv, SweepRecords
  <2> QED
    BY <2>1, <2>3, RelayTypes, RelayAssumption DEF RelayInv, RelayTypeOK, SweepRecords, RoundRecords,
       ViewerPlaces, ExpireRequest, SweepGoes, viewerVars, runnerVars
<1>1. Unsent' BY DEF Unsent, Under, Expires
<1>2. Outlived' BY DEF Outlived, Unsent, Under, Expires
<1>3. OneRound' BY DEF OneRound, Unsent, Outlived, Queued, Under, Ahead, Expires
<1>4. KnownIsTaken'
  BY DEF KnownIsTaken, OneRound, Unsent, Outlived, AnswersAreTrue, SaysTrue, Known, Queued, Under,
     Ahead, Expires
<1>5. OneHandler' BY DEF OneHandler, KnownIsTaken, OneRound, Known, Queued, Under, Ahead
<1>6. AnswersAreTrue'
  BY DEF AnswersAreTrue, SaysTrue, OneHandler, KnownIsTaken, Known, Queued, Under, Ahead
<1> QED BY <1>t, <1>1, <1>2, <1>3, <1>4, <1>5, <1>6

LEMMA ExpireClaimStep ==
  ASSUME RelayInv, NEW s \in Sweeps, ExpireClaim(s)
  PROVE  RelayInv'
<1> USE RelayAssumption
        DEF RelayInv, RelayTypeOK, ExpireClaim, SweepGoes, SweepPlaces, viewerVars, runnerVars
<1>t. RelayTypeOK'
  <2>1. sweep' \in [Sweeps -> SweepRecords]
    BY SweepTyped, SweepGoesTyped, RelayTypes DEF RelayInv, ExpireClaim, SweepPlaces, SweepGoes
  <2>3. sweep[s].dead \in Relayed \cup {NoRequest} BY RelayTypes DEF RelayInv, SweepRecords
  <2> QED
    BY <2>1, <2>3, RelayTypes, RelayAssumption DEF RelayInv, RelayTypeOK, SweepRecords, RoundRecords,
       ViewerPlaces, ExpireClaim, SweepGoes, viewerVars, runnerVars
<1>1. Unsent' BY DEF Unsent, Under, Expires
<1>2. Outlived' BY DEF Outlived, Unsent, Under, Expires
<1>3. OneRound' BY DEF OneRound, Unsent, Outlived, Queued, Under, Ahead, Expires
<1>4. KnownIsTaken'
  BY DEF KnownIsTaken, OneRound, Unsent, Outlived, AnswersAreTrue, SaysTrue, Known, Queued, Under,
     Ahead, Expires
<1>5. OneHandler' BY DEF OneHandler, KnownIsTaken, OneRound, Known, Queued, Under, Ahead
<1>6. AnswersAreTrue'
  BY DEF AnswersAreTrue, SaysTrue, OneHandler, KnownIsTaken, Known, Queued, Under, Ahead
<1> QED BY <1>t, <1>1, <1>2, <1>3, <1>4, <1>5, <1>6

LEMMA StartRoundsStep ==
  ASSUME RelayInv, NEW s \in Sweeps, StartRounds(s)
  PROVE  RelayInv'
<1> USE RelayAssumption
        DEF RelayInv, RelayTypeOK, StartRounds, SweepGoes, SweepPlaces, RoundPlaces, viewerVars,
            runnerVars
<1>t. RelayTypeOK'
  <2>1. sweep' \in [Sweeps -> SweepRecords]
    BY SweepTyped, SweepGoesTyped, RelayTypes DEF RelayInv, StartRounds, SweepPlaces, SweepGoes
  <2>2. round' \in [Sweeps -> [Relayed -> RoundRecords]]
    <3>1. \A x \in RoundRecords : [x EXCEPT !.at = "read"] \in RoundRecords
      BY DEF RoundRecords, RoundPlaces
    <3> QED BY <3>1, RelayTypes DEF RelayInv, StartRounds
  <2> QED
    BY <2>1, <2>2, RelayTypes, RelayAssumption DEF RelayInv, RelayTypeOK, SweepRecords, RoundRecords,
       ViewerPlaces, StartRounds, SweepGoes, viewerVars, runnerVars
<1>1. Unsent' BY DEF Unsent, Under, Expires
<1>2. Outlived' BY DEF Outlived, Unsent, Under, Expires
<1>3. OneRound' BY DEF OneRound, Unsent, Outlived, Queued, Under, Ahead, Expires
<1>4. KnownIsTaken'
  BY DEF KnownIsTaken, OneRound, Unsent, Outlived, AnswersAreTrue, SaysTrue, Known, Queued, Under,
     Ahead, Expires
<1>5. OneHandler' BY DEF OneHandler, KnownIsTaken, OneRound, Known, Queued, Under, Ahead
<1>6. AnswersAreTrue'
  BY DEF AnswersAreTrue, SaysTrue, OneHandler, KnownIsTaken, Known, Queued, Under, Ahead
<1> QED BY <1>t, <1>1, <1>2, <1>3, <1>4, <1>5, <1>6

LEMMA EndSweepStep ==
  ASSUME RelayInv, NEW s \in Sweeps, EndSweep(s)
  PROVE  RelayInv'
<1> USE RelayAssumption
        DEF RelayInv, RelayTypeOK, EndSweep, IdleSweep, SweepPlaces, viewerVars, runnerVars
<1>t. RelayTypeOK' BY DEF Responses, Told
<1>1. Unsent' BY DEF Unsent, Under, Expires
<1>2. Outlived' BY DEF Outlived, Unsent, Under, Expires
<1>3. OneRound' BY DEF OneRound, Unsent, Outlived, Queued, Under, Ahead, Expires
<1>4. KnownIsTaken'
  BY DEF KnownIsTaken, OneRound, Unsent, Outlived, AnswersAreTrue, SaysTrue, Known, Queued, Under,
     Ahead, Expires
<1>5. OneHandler' BY DEF OneHandler, KnownIsTaken, OneRound, Known, Queued, Under, Ahead
<1>6. AnswersAreTrue'
  BY DEF AnswersAreTrue, SaysTrue, OneHandler, KnownIsTaken, Known, Queued, Under, Ahead
<1> QED BY <1>t, <1>1, <1>2, <1>3, <1>4, <1>5, <1>6

LEMMA ReadRequestStep ==
  ASSUME RelayInv, NEW s \in Sweeps, NEW r \in Relayed, ReadRequest(s, r)
  PROVE  RelayInv'
<1> USE RelayAssumption DEF RelayInv
<1>0. /\ round[s][r].at = "read"
      /\ UNCHANGED <<request, claim, response, viewer, verdict, late, hostOf, executing, sweep,
                     outcome, unremoved, relayFaults>>
  BY DEF ReadRequest, viewerVars
<1>r. round[s][r] \in RoundRecords /\ round[s][r].answer \in Responses \cup {"none"}
      /\ round[s][r] = [at |-> round[s][r].at, answer |-> round[s][r].answer]
  BY RelayTypes DEF RoundRecords
(* The round goes to a place, with an answer; the handler is called or not. *)
<1>1. \E place \in {"remove", "answer", "handle"}, a \in {"none", "expired", round[s][r].answer} :
        /\ round' = [round EXCEPT ![s][r] = [at |-> place, answer |-> a]]
        /\ place = "answer" => a = "expired"
        /\ a = "expired" /\ place # "handle" => request[r] = "queued" /\ late[r]
        /\ IF place = "handle" THEN /\ request[r] = "queued" /\ ~late[r] /\ CallHandler(r)
                                    /\ a = round[s][r].answer
           ELSE started' = started
  <2>1. CASE request[r] # "queued" /\ Reply(s, r, "none") /\ UNCHANGED started
    BY <2>1 DEF Reply
  <2>2. CASE request[r] = "queued" /\ late[r] /\ Reply(s, r, "expired") /\ UNCHANGED started
    BY <2>2 DEF Reply
  <2>3. CASE /\ request[r] = "queued" /\ ~late[r] /\ CallHandler(r)
             /\ round' = [round EXCEPT ![s][r].at = "handle"]
    <3>1. round' = [round EXCEPT ![s][r] = [at |-> "handle", answer |-> round[s][r].answer]]
      <4>1. [round[s][r] EXCEPT !.at = "handle"] = [at |-> "handle", answer |-> round[s][r].answer]
        BY <1>r
      <4> QED BY <2>3, <4>1
    <3> QED BY <2>3, <3>1
  <2> QED BY <2>1, <2>2, <2>3 DEF ReadRequest
<1>2. PICK place \in {"remove", "answer", "handle"}, a \in {"none", "expired", round[s][r].answer} :
        /\ round' = [round EXCEPT ![s][r] = [at |-> place, answer |-> a]]
        /\ place = "answer" => a = "expired"
        /\ a = "expired" /\ place # "handle" => request[r] = "queued" /\ late[r]
        /\ IF place = "handle" THEN /\ request[r] = "queued" /\ ~late[r] /\ CallHandler(r)
                                    /\ a = round[s][r].answer
           ELSE started' = started
  BY <1>1
<1>3. /\ round' \in [Sweeps -> [Relayed -> RoundRecords]]
      /\ round'[s][r].at = place /\ round'[s][r].answer = a
      /\ \A t \in Sweeps, q \in Relayed : t # s \/ q # r => round'[t][q] = round[t][q]
  <2>1. a \in Responses \cup {"none"} /\ place \in RoundPlaces
    BY <1>r DEF Responses, RoundPlaces
  <2> QED BY <2>1, <1>2, RoundTyped, RelayTypes
<1>4. /\ started' \in [Relayed -> 0 .. 2]
      /\ place = "handle" => started'[r] > 0 /\ ~late[r] /\ request[r] = "queued"
      /\ place = "handle" /\ r \notin unremoved => started[r] = 0 /\ started'[r] = 1 /\ Queued(r)
      /\ \A q \in Relayed : q # r \/ place # "handle" => started'[q] = started[q]
  <2>1. place = "handle" /\ r \notin unremoved => started[r] = 0
    BY <1>0, <1>2, RelayTypes DEF KnownIsTaken, Known, Ahead, Queued
  <2>2. CASE place = "handle" BY <2>1, <2>2, <1>2, RelayTypes DEF CallHandler, Queued
  <2>3. CASE place # "handle" BY <2>3, <1>2, RelayTypes
  <2> QED BY <2>2, <2>3
<1>5. \A t \in Sweeps, q \in Relayed :
        /\ round'[t][q].at = IF t = s /\ q = r THEN place ELSE round[t][q].at
        /\ round'[t][q].answer = IF t = s /\ q = r THEN a ELSE round[t][q].answer
  BY <1>3
<1>6. place # "none" /\ place # "unclaim" /\ place \notin {"taken", "read"}
  OBVIOUS
<1>t. RelayTypeOK' BY <1>0, <1>3, <1>4, RelayTypes DEF RelayTypeOK, SweepRecords, RoundRecords
<1>a. Unsent'
  <2>1. \A t \in Sweeps, q \in Relayed : Under(t, q)' => Under(t, q)
    BY <1>0, <1>5 DEF Under
  <2>2. \A t \in Sweeps, q \in Relayed : Expires(t, q)' = Expires(t, q)
    BY <1>0 DEF Expires
  <2> QED BY <2>1, <2>2, <1>0, <1>4 DEF Unsent, Queued
<1>b. Outlived' BY <1>0, <1>5, <1>6 DEF Outlived, Expires
<1>g. \A t \in Sweeps, q \in Relayed :
        /\ Under(t, q)' = Under(t, q)
        /\ Ahead(t, q)' => Ahead(t, q) /\ ~(t = s /\ q = r)
  BY <1>0, <1>5, <1>6 DEF Under, Ahead
<1>c. OneRound' BY <1>0, <1>g DEF OneRound, Queued
<1>d. KnownIsTaken'
  <2>1. ASSUME NEW q \in Relayed, Queued(q)', Known(q)', q # r \/ place # "handle"
        PROVE  Queued(q) /\ Known(q)
    BY <2>1, <1>0, <1>4 DEF Queued, Known, Expires
  <2>2. ASSUME Queued(r), place = "handle"
        PROVE  claim[r] # "none" /\ \A t \in Sweeps : ~Ahead(t, r)'
    BY <2>2, <1>0, <1>g DEF OneRound, Under, Ahead
  <2> QED BY <2>1, <2>2, <1>0, <1>4, <1>g DEF KnownIsTaken, Queued
<1>e. OneHandler'
  <2>1. ASSUME NEW q \in Relayed, q # r \/ place # "handle",
               NEW t \in Sweeps, round'[t][q].at = "handle"
        PROVE  round[t][q].at = "handle"
    BY <2>1, <1>5
  <2>2. ASSUME place = "handle", r \notin unremoved
        PROVE  outcome[r] = "none" /\ \A t \in Sweeps : round'[t][r].at = "handle" => t = s
    <3>1. outcome[r] = "none" /\ \A t \in Sweeps : round[t][r].at = "handle" => FALSE
      BY <2>2, <1>4 DEF OneHandler
    <3> QED BY <3>1, <1>5
  <2>3. \A q \in Relayed, t \in Sweeps : round'[t][q].at = "handle" => started'[q] > 0
    BY <2>1, <1>4, <1>5 DEF OneHandler
  <2>4. ASSUME NEW q \in Relayed \ unremoved
        PROVE  /\ started'[q] <= 1
               /\ \A t, u \in Sweeps :
                    round'[t][q].at = "handle" /\ round'[u][q].at = "handle" => t = u
               /\ \A t \in Sweeps :
                    round'[t][q].at = "handle" => started'[q] = 1 /\ outcome[q] = "none"
               /\ outcome[q] # "none" => started'[q] = 1
    <3>1. CASE q # r \/ place # "handle" BY <2>1, <2>4, <3>1, <1>4 DEF OneHandler
    <3>2. CASE q = r /\ place = "handle" BY <2>2, <2>4, <3>2, <1>4
    <3> QED BY <3>1, <3>2
  <2> QED BY <2>3, <2>4, <1>0 DEF OneHandler
<1>f. AnswersAreTrue'
  <2>1. a = "expired" /\ r \notin unremoved => started'[r] = 0 /\ late[r]
    BY <1>0, <1>2, <1>4 DEF AnswersAreTrue, SaysTrue, KnownIsTaken, Known, Ahead, Queued
  <2>2. ASSUME r \notin unremoved, place = "handle"
        PROVE  /\ a = "none" /\ response[r] = "none" /\ verdict[r] = "none"
               /\ \A t \in Sweeps : round[t][r].answer = "none"
    <3>1. Queued(r) /\ Ahead(s, r) /\ ~late[r] BY <2>2, <1>0, <1>4 DEF Ahead
    <3>2. ~Known(r) BY <3>1 DEF KnownIsTaken
    <3>3. \A t \in Sweeps : t # s => ~Under(t, r) BY <3>1 DEF OneRound, Under, Ahead
    <3>4. \A t \in Sweeps : round[t][r].answer = "none" BY <3>1, <3>3 DEF AnswersAreTrue
    <3> QED BY <2>2, <3>1, <3>2, <3>4, <1>2 DEF Known
  <2>3. ASSUME NEW q \in Relayed \ unremoved
        PROVE  /\ SaysTrue(q, response[q])' /\ SaysTrue(q, verdict[q])'
               /\ \A t \in Sweeps : SaysTrue(q, round[t][q].answer)'
    <3>1. CASE q = r /\ place = "handle"
      BY <2>2, <3>1, <2>3, <1>0, <1>5 DEF SaysTrue
    <3>2. CASE q # r \/ place # "handle"
      <4>1. started'[q] = started[q] BY <3>2, <1>4
      <4>2. \A t \in Sweeps :
              \/ round'[t][q].answer \in {round[t][q].answer, "none"}
              \/ q = r /\ round'[t][q].answer = "expired" /\ a = "expired"
        BY <1>5, <1>2
      <4> QED BY <4>1, <4>2, <2>1, <2>3, <1>0 DEF AnswersAreTrue, SaysTrue
    <3> QED BY <3>1, <3>2
  <2>4. \A q \in Relayed, t \in Sweeps :
          /\ round'[t][q].at = "answer" => round'[t][q].answer # "none"
          /\ ~Under(t, q)' \/ (Queued(q)' /\ Ahead(t, q)') => round'[t][q].answer = "none"
    <3>1. ASSUME NEW q \in Relayed, NEW t \in Sweeps, ~(t = s /\ q = r)
          PROVE  round'[t][q] = round[t][q]
      BY <3>1, <1>3
    <3>2. /\ round'[s][r].at = "answer" => round'[s][r].answer # "none"
          /\ Under(s, r)' /\ ~Ahead(s, r)'
      BY <1>2, <1>3, <1>6 DEF Under, Ahead
    <3> QED BY <3>1, <3>2, <1>0 DEF AnswersAreTrue, Queued, Under, Ahead
  <2> QED BY <2>3, <2>4, <1>0 DEF AnswersAreTrue
<1> QED BY <1>t, <1>a, <1>b, <1>c, <1>d, <1>e, <1>f

LEMMA ReadFailsStep ==
  ASSUME RelayInv, NEW s \in Sweeps, NEW r \in Relayed, ReadFails(s, r)
  PROVE  RelayInv'
<1> USE RelayAssumption
        DEF RelayInv, RelayTypeOK, ReadFails, RelayFault, Reply, RoundPlaces, Responses, viewerVars,
            runnerVars
<1>t. RelayTypeOK' BY DEF Responses, Told
<1>1. Unsent' BY DEF Unsent, Under, Expires
<1>2. Outlived' BY DEF Outlived, Unsent, Under, Expires
<1>3. OneRound' BY DEF OneRound, Unsent, Outlived, Queued, Under, Ahead, Expires
<1>4. KnownIsTaken'
  BY DEF KnownIsTaken, OneRound, Unsent, Outlived, AnswersAreTrue, SaysTrue, Known, Queued, Under,
     Ahead, Expires
<1>5. OneHandler' BY DEF OneHandler, KnownIsTaken, OneRound, Known, Queued, Under, Ahead
<1>6. AnswersAreTrue'
  <2>1. r \notin unremoved => started[r] = 0
    <3>1. request[r] = "queued" /\ Ahead(s, r) BY DEF Ahead
    <3>2. started[r] \in 0 .. 2 OBVIOUS
    <3> HIDE DEF ReadFails, RelayTypeOK
    <3> QED BY <3>1, <3>2 DEF KnownIsTaken, Known, Queued
  <2>2. /\ round'[s][r].at = "answer" /\ round'[s][r].answer = "failed"
        /\ \A t \in Sweeps, q \in Relayed : t # s \/ q # r => round'[t][q] = round[t][q]
    OBVIOUS
  <2>3. UNCHANGED <<request, response, viewer, verdict, late, started, outcome, unremoved>>
    OBVIOUS
  <2> HIDE DEF ReadFails, RelayTypeOK
  <2>4. ASSUME NEW q \in Relayed \ unremoved, NEW t \in Sweeps
        PROVE  SaysTrue(q, round[t][q].answer)'
    BY <2>1, <2>2, <2>3, <2>4 DEF AnswersAreTrue, SaysTrue
  <2>5. ASSUME NEW q \in Relayed, NEW t \in Sweeps
        PROVE  /\ round'[t][q].at = "answer" => round'[t][q].answer # "none"
               /\ ~Under(t, q)' \/ (Queued(q) /\ Ahead(t, q))' => round'[t][q].answer = "none"
    BY <2>2, <2>3, <2>5 DEF AnswersAreTrue, Queued, Under, Ahead
  <2> QED BY <2>3, <2>4, <2>5 DEF AnswersAreTrue, SaysTrue
<1> QED BY <1>t, <1>1, <1>2, <1>3, <1>4, <1>5, <1>6

LEMMA HandlerReturnsStep ==
  ASSUME RelayInv, NEW s \in Sweeps, NEW r \in Relayed, HandlerReturns(s, r)
  PROVE  RelayInv'
<1> USE RelayAssumption
        DEF RelayInv, RelayTypeOK, HandlerReturns, Reply, RoundPlaces, Responses, viewerVars,
            runnerVars
<1>t. RelayTypeOK' BY DEF Responses, Told
<1>1. Unsent' BY DEF Unsent, Under, Expires
<1>2. Outlived' BY DEF Outlived, Unsent, Under, Expires
<1>3. OneRound' BY DEF OneRound, Unsent, Outlived, Queued, Under, Ahead, Expires
<1>4. KnownIsTaken'
  BY DEF KnownIsTaken, OneRound, Unsent, Outlived, AnswersAreTrue, SaysTrue, Known, Queued, Under,
     Ahead, Expires
<1>5. OneHandler' BY DEF OneHandler, KnownIsTaken, OneRound, Known, Queued, Under, Ahead
<1>6. AnswersAreTrue'
  BY DEF AnswersAreTrue, SaysTrue, OneHandler, KnownIsTaken, Known, Queued, Under, Ahead
<1> QED BY <1>t, <1>1, <1>2, <1>3, <1>4, <1>5, <1>6

LEMMA HandlerThrowsStep ==
  ASSUME RelayInv, NEW s \in Sweeps, NEW r \in Relayed, HandlerThrows(s, r)
  PROVE  RelayInv'
<1> USE RelayAssumption
        DEF RelayInv, RelayTypeOK, HandlerThrows, Reply, RoundPlaces, Responses, viewerVars,
            runnerVars
<1>t. RelayTypeOK' BY DEF Responses, Told
<1>1. Unsent' BY DEF Unsent, Under, Expires
<1>2. Outlived' BY DEF Outlived, Unsent, Under, Expires
<1>3. OneRound' BY DEF OneRound, Unsent, Outlived, Queued, Under, Ahead, Expires
<1>4. KnownIsTaken'
  BY DEF KnownIsTaken, OneRound, Unsent, Outlived, AnswersAreTrue, SaysTrue, Known, Queued, Under,
     Ahead, Expires
<1>5. OneHandler' BY DEF OneHandler, KnownIsTaken, OneRound, Known, Queued, Under, Ahead
<1>6. AnswersAreTrue'
  BY DEF AnswersAreTrue, SaysTrue, OneHandler, KnownIsTaken, Known, Queued, Under, Ahead
<1> QED BY <1>t, <1>1, <1>2, <1>3, <1>4, <1>5, <1>6

LEMMA WriteResponseStep ==
  ASSUME RelayInv, NEW s \in Sweeps, NEW r \in Relayed, WriteResponse(s, r)
  PROVE  RelayInv'
<1> USE RelayAssumption
        DEF RelayInv, RelayTypeOK, WriteResponse, RelayFault, RoundPlaces, Responses, viewerVars,
            runnerVars
<1>t. RelayTypeOK'
  <2>1. round[s][r].answer \in Responses
    BY RelayTypes DEF RelayInv, AnswersAreTrue, RoundRecords, WriteResponse
  <2>2. round' \in [Sweeps -> [Relayed -> RoundRecords]]
    BY RoundTyped, RelayTypes DEF RelayInv, WriteResponse, RoundPlaces
  <2>3. response' \in [Relayed -> Responses \cup {"none"}]
    BY <2>1, RelayTypes DEF RelayInv, WriteResponse
  <2>4. relayFaults' \in 0 .. MaxRelayFaults
    BY RelayAssumption, RelayTypes DEF RelayInv, WriteResponse, RelayFault
  <2> QED
    BY <2>2, <2>3, <2>4, RelayTypes, RelayAssumption DEF RelayInv, RelayTypeOK, SweepRecords,
       RoundRecords, ViewerPlaces, WriteResponse, RelayFault, viewerVars, runnerVars
<1>1. Unsent' BY DEF Unsent, Under, Expires
<1>2. Outlived' BY DEF Outlived, Unsent, Under, Expires
<1>3. OneRound' BY DEF OneRound, Unsent, Outlived, Queued, Under, Ahead, Expires
<1>4. KnownIsTaken'
  BY DEF KnownIsTaken, OneRound, Unsent, Outlived, AnswersAreTrue, SaysTrue, Known, Queued, Under,
     Ahead, Expires
<1>5. OneHandler' BY DEF OneHandler, KnownIsTaken, OneRound, Known, Queued, Under, Ahead
<1>6. AnswersAreTrue'
  BY DEF AnswersAreTrue, SaysTrue, OneHandler, KnownIsTaken, Known, Queued, Under, Ahead
<1> QED BY <1>t, <1>1, <1>2, <1>3, <1>4, <1>5, <1>6

LEMMA RemoveRequestStep ==
  ASSUME RelayInv, NEW s \in Sweeps, NEW r \in Relayed, RemoveRequest(s, r)
  PROVE  RelayInv'
<1> USE RelayAssumption
        DEF RelayInv, RelayTypeOK, RemoveRequest, RelayFault, RoundPlaces, viewerVars, runnerVars
<1>t. RelayTypeOK'
  <2>2. round' \in [Sweeps -> [Relayed -> RoundRecords]]
    BY RoundTyped, RelayTypes DEF RelayInv, RemoveRequest, RoundPlaces
  <2>3. relayFaults' \in 0 .. MaxRelayFaults
    BY RelayAssumption, RelayTypes DEF RelayInv, RemoveRequest, RelayFault
  <2>4. request' \in [Relayed -> {"unsent", "queued", "gone"}] /\ unremoved' \subseteq Relayed
    BY RelayTypes DEF RelayInv, RemoveRequest
  <2> QED
    BY <2>2, <2>3, <2>4, RelayTypes DEF RelayInv, RelayTypeOK, SweepRecords, RoundRecords,
       RemoveRequest, viewerVars
<1>1. Unsent' BY DEF Unsent, Under, Expires
<1>2. Outlived' BY DEF Outlived, Unsent, Under, Expires
<1>3. OneRound' BY DEF OneRound, Unsent, Outlived, Queued, Under, Ahead, Expires
<1>4. KnownIsTaken'
  BY DEF KnownIsTaken, OneRound, Unsent, Outlived, AnswersAreTrue, SaysTrue, Known, Queued, Under,
     Ahead, Expires
<1>5. OneHandler' BY DEF OneHandler, KnownIsTaken, OneRound, Known, Queued, Under, Ahead
<1>6. AnswersAreTrue'
  BY DEF AnswersAreTrue, SaysTrue, OneHandler, KnownIsTaken, Known, Queued, Under, Ahead
<1> QED BY <1>t, <1>1, <1>2, <1>3, <1>4, <1>5, <1>6

LEMMA RemoveClaimStep ==
  ASSUME RelayInv, NEW s \in Sweeps, NEW r \in Relayed, RemoveClaim(s, r)
  PROVE  RelayInv'
<1> USE RelayAssumption
        DEF RelayInv, RelayTypeOK, RemoveClaim, RelayFault, NoRound, RoundPlaces, viewerVars,
            runnerVars
<1>t. RelayTypeOK'
  <2>1. round' \in [Sweeps -> [Relayed -> RoundRecords]]
    BY RelayTypes DEF RelayInv, RemoveClaim, NoRound, RoundRecords, RoundPlaces
  <2>2. relayFaults' \in 0 .. MaxRelayFaults
    BY RelayAssumption, RelayTypes DEF RelayInv, RemoveClaim, RelayFault
  <2>3. /\ claim' \in [Relayed -> {"none", "fresh", "stale"}]
        /\ executing' \in [Hosts -> SUBSET Relayed]
    <3>1. claim' \in {claim, [claim EXCEPT ![r] = "none"]}
          /\ executing' = [executing EXCEPT ![hostOf[s]] = @ \ {r}]
      BY DEF RemoveClaim
    <3>2. claim' \in [Relayed -> {"none", "fresh", "stale"}] BY <3>1, RelayTypes DEF RelayInv
    <3>3. executing' \in [Hosts -> SUBSET Relayed]
      <4>1. executing \in [Hosts -> SUBSET Relayed] BY RelayTypes DEF RelayInv
      <4>2. \A h \in Hosts : executing[h] \ {r} \in SUBSET Relayed BY <4>1
      <4>3. \A h \in Hosts : [executing EXCEPT ![h] = executing[h] \ {r}]
                                \in [Hosts -> SUBSET Relayed]
        BY <4>1, <4>2
      <4> QED BY <3>1, <4>3, RelayTypes DEF RelayInv
    <3> QED BY <3>2, <3>3
  <2> QED
    BY <2>1, <2>2, <2>3, RelayTypes DEF RelayInv, RemoveClaim, viewerVars
<1>1. Unsent' BY DEF Unsent, Under, Expires
<1>2. Outlived' BY DEF Outlived, Unsent, Under, Expires
<1>3. OneRound' BY DEF OneRound, Unsent, Outlived, Queued, Under, Ahead, Expires
<1>4. KnownIsTaken'
  BY DEF KnownIsTaken, OneRound, Unsent, Outlived, AnswersAreTrue, SaysTrue, Known, Queued, Under,
     Ahead, Expires
<1>5. OneHandler' BY DEF OneHandler, KnownIsTaken, OneRound, Known, Queued, Under, Ahead
<1>6. AnswersAreTrue'
  BY DEF AnswersAreTrue, SaysTrue, OneHandler, KnownIsTaken, Known, Queued, Under, Ahead
<1> QED BY <1>t, <1>1, <1>2, <1>3, <1>4, <1>5, <1>6

LEMMA ClaimAgesStep ==
  ASSUME RelayInv, NEW r \in Relayed, ClaimAges(r)
  PROVE  RelayInv'
<1> USE RelayAssumption DEF RelayInv, RelayTypeOK, ClaimAges, viewerVars, runnerVars
<1>t. RelayTypeOK' BY DEF Responses, Told
<1>1. Unsent' BY DEF Unsent, Under, Expires
<1>2. Outlived' BY DEF Outlived, Unsent, Under, Expires
<1>3. OneRound' BY DEF OneRound, Unsent, Outlived, Queued, Under, Ahead, Expires
<1>4. KnownIsTaken'
  BY DEF KnownIsTaken, OneRound, Unsent, Outlived, AnswersAreTrue, SaysTrue, Known, Queued, Under,
     Ahead, Expires
<1>5. OneHandler' BY DEF OneHandler, KnownIsTaken, OneRound, Known, Queued, Under, Ahead
<1>6. AnswersAreTrue'
  BY DEF AnswersAreTrue, SaysTrue, OneHandler, KnownIsTaken, Known, Queued, Under, Ahead
<1> QED BY <1>t, <1>1, <1>2, <1>3, <1>4, <1>5, <1>6

LEMMA BeatsMissedStep ==
  ASSUME RelayInv, NEW r \in Relayed, BeatsMissed(r)
  PROVE  RelayInv'
<1> USE RelayAssumption DEF RelayInv, RelayTypeOK, BeatsMissed, RelayFault, viewerVars, runnerVars
<1>t. RelayTypeOK' BY DEF Responses, Told
<1>1. Unsent' BY DEF Unsent, Under, Expires
<1>2. Outlived' BY DEF Outlived, Unsent, Under, Expires
<1>3. OneRound'
  <2>1. PICK s \in Sweeps : round[s][r].at = "handle" OBVIOUS
  <2>2. Queued(r) => \A t \in Sweeps : ~Ahead(t, r)
    BY <2>1 DEF OneRound, Under, Ahead
  <2> QED BY <2>2 DEF OneRound, Queued, Under, Ahead
<1>4. KnownIsTaken'
  BY DEF KnownIsTaken, OneRound, Unsent, Outlived, AnswersAreTrue, SaysTrue, Known, Queued, Under,
     Ahead, Expires
<1>5. OneHandler' BY DEF OneHandler, KnownIsTaken, OneRound, Known, Queued, Under, Ahead
<1>6. AnswersAreTrue'
  BY DEF AnswersAreTrue, SaysTrue, OneHandler, KnownIsTaken, Known, Queued, Under, Ahead
<1> QED BY <1>t, <1>1, <1>2, <1>3, <1>4, <1>5, <1>6

LEMMA BeatStep ==
  ASSUME RelayInv, NEW s \in Sweeps, NEW r \in Relayed, Beat(s, r)
  PROVE  RelayInv'
<1> USE RelayAssumption DEF RelayInv, RelayTypeOK, Beat, Beats, viewerVars, runnerVars
<1>t. RelayTypeOK' BY DEF Responses, Told
<1>1. Unsent' BY DEF Unsent, Under, Expires
<1>2. Outlived' BY DEF Outlived, Unsent, Under, Expires
<1>3. OneRound' BY DEF OneRound, Unsent, Outlived, Queued, Under, Ahead, Expires
<1>4. KnownIsTaken'
  BY DEF KnownIsTaken, OneRound, Unsent, Outlived, AnswersAreTrue, SaysTrue, Known, Queued, Under,
     Ahead, Expires
<1>5. OneHandler' BY DEF OneHandler, KnownIsTaken, OneRound, Known, Queued, Under, Ahead
<1>6. AnswersAreTrue'
  BY DEF AnswersAreTrue, SaysTrue, OneHandler, KnownIsTaken, Known, Queued, Under, Ahead
<1> QED BY <1>t, <1>1, <1>2, <1>3, <1>4, <1>5, <1>6

LEMMA HostDiesStep ==
  ASSUME RelayInv, NEW h \in Hosts, HostDies(h)
  PROVE  RelayInv'
<1> USE RelayAssumption
        DEF RelayInv, RelayTypeOK, HostDies, RelayFault, IdleSweep, NoRound, SweepPlaces,
            RoundPlaces, viewerVars, runnerVars
<1>t. RelayTypeOK' BY DEF Responses, Told
<1>1. Unsent' BY DEF Unsent, Under, Expires
<1>2. Outlived' BY DEF Outlived, Unsent, Under, Expires
<1>3. OneRound' BY DEF OneRound, Unsent, Outlived, Queued, Under, Ahead, Expires
<1>4. KnownIsTaken'
  BY DEF KnownIsTaken, OneRound, Unsent, Outlived, AnswersAreTrue, SaysTrue, Known, Queued, Under,
     Ahead, Expires
<1>5. OneHandler' BY DEF OneHandler, KnownIsTaken, OneRound, Known, Queued, Under, Ahead
<1>6. AnswersAreTrue'
  BY DEF AnswersAreTrue, SaysTrue, OneHandler, KnownIsTaken, Known, Queued, Under, Ahead
<1> QED BY <1>t, <1>1, <1>2, <1>3, <1>4, <1>5, <1>6

LEMMA RelayStep == RelayInv /\ [RelayNext]_relayVars => RelayInv'
<1> SUFFICES ASSUME RelayInv, [RelayNext]_relayVars PROVE RelayInv'
  OBVIOUS
<1>1. CASE UNCHANGED relayVars
  BY <1>1 DEF relayVars, RelayInv, RelayTypeOK, Unsent, Outlived, OneRound, KnownIsTaken,
     OneHandler, AnswersAreTrue, SaysTrue, Known, Queued, Under, Ahead, Expires
<1>2. ASSUME NEW r \in Relayed, Send(r) \/ ViewerStep(r) \/ ClaimAges(r) \/ BeatsMissed(r)
      PROVE  RelayInv'
  BY <1>2, SendStep, ReadResponseStep, DeadlinePassesStep, MissResponseStep, LookForClaimStep,
     WithdrawStep, ClaimAgesStep, BeatsMissedStep DEF ViewerStep
<1>3. ASSUME NEW s \in Sweeps, SweepStep(s)
      PROVE  RelayInv'
  BY <1>3, ListStep, CollectedStep, StartRoundsStep, EndSweepStep, ExpireAnswerStep,
     ExpireFailsStep, ExpireRequestStep, ExpireClaimStep, CollectOrphanStep, ClaimStep,
     ClaimFailsStep, LeaveClaimStep, FindDeadStep DEF SweepStep
<1>4. ASSUME NEW s \in Sweeps, NEW r \in Relayed,
             CollectResponse(s, r) \/ RoundStep(s, r) \/ Beat(s, r)
      PROVE  RelayInv'
  BY <1>4, CollectResponseStep, ReadRequestStep, ReadFailsStep, HandlerReturnsStep, HandlerThrowsStep,
     WriteResponseStep, RemoveRequestStep, RemoveClaimStep, BeatStep DEF RoundStep
<1> QED BY <1>1, <1>2, <1>3, <1>4, HostDiesStep DEF RelayNext

LEMMA RelayInvariant == RelaySpec => []RelayInv
BY RelayInitially, RelayStep, PTL DEF RelaySpec

(* The types of the relay's files, its viewers and its sweeps. *)
THEOREM RelayTyped == RelaySpec => []RelayTypeOK
<1>1. RelayInv => RelayTypeOK BY DEF RelayInv
<1> QED BY <1>1, RelayInvariant, PTL

(* A request is executed at most once, unless its removal failed unnoticed. *)
THEOREM ARequestRunsOnce == RelaySpec => []RunsOnce
<1>1. RelayInv => RunsOnce BY DEF RelayInv, OneHandler, RunsOnce
<1> QED BY <1>1, RelayInvariant, PTL

(* What the viewer reads of such a request is true. *)
THEOREM TheAnswerIsTrue == RelaySpec => []AnswerIsTrue
<1>1. RelayInv => AnswerIsTrue BY DEF RelayInv, AnswersAreTrue, SaysTrue, AnswerIsTrue
<1> QED BY <1>1, RelayInvariant, PTL

(* A step of the relay is a step of its contract or none of its business: only
   ReadRequest begins an action, of a request that nothing was done for and
   whose viewer was told nothing; only a handler ends it; and a viewer is told
   what a response says, or that time is up, once. *)
LEMMA ContractBegin ==
  ASSUME RelayInv, NEW s \in Sweeps, NEW r \in Relayed, ReadRequest(s, r)
  PROVE  Forwarding!Begin(r) \/ UNCHANGED Forwarding!vars
<1>1. UNCHANGED <<outcome, verdict, unremoved>>
  BY DEF ReadRequest, viewerVars
<1>2. CASE started' = started BY <1>1, <1>2 DEF Forwarding!vars
<1>3. CASE started' # started
  <2>1. request[r] = "queued" /\ ~late[r] /\ Ahead(s, r) /\ CallHandler(r)
    BY <1>3 DEF ReadRequest, Ahead
  <2>2. r \notin unremoved => ~(started[r] > 0) /\ verdict[r] = "none"
    BY <2>1 DEF RelayInv, KnownIsTaken, Known, Queued
  <2>3. r \notin unremoved => started[r] = 0
    <3>1. started \in [Relayed -> 0 .. 2] BY RelayTypes DEF RelayInv
    <3> QED BY <2>2, <3>1
  <2> QED BY <1>1, <2>1, <2>2, <2>3 DEF CallHandler, Forwarding!Begin
<1> QED BY <1>2, <1>3

LEMMA ContractEnd ==
  ASSUME RelayInv, NEW s \in Sweeps, NEW r \in Relayed, HandlerReturns(s, r) \/ HandlerThrows(s, r)
  PROVE  \E result \in {"ok", "failed"} : Forwarding!End(r, result)
BY DEF HandlerReturns, HandlerThrows, viewerVars, RelayInv, OneHandler, Forwarding!End

LEMMA ContractTell ==
  ASSUME RelayInv, NEW r \in Relayed, ReadResponse(r) \/ Withdraw(r)
  PROVE  \E text \in Told : Forwarding!Tell(r, text)
<1>1. UNCHANGED <<started, outcome, unremoved>>
  BY DEF ReadResponse, Withdraw, runnerVars
<1>2. verdict[r] = "none"
  BY DEF ReadResponse, Withdraw, RelayInv, AnswersAreTrue
<1>3. CASE ReadResponse(r)
  <2>1. response[r] \in Told
    BY <1>3, RelayTypes DEF ReadResponse, Told, RelayInv
  <2>2. r \notin unremoved => Forwarding!True(r, response[r])
    BY DEF RelayInv, AnswersAreTrue, SaysTrue, Forwarding!True
  <2> QED BY <1>1, <1>2, <1>3, <2>1, <2>2 DEF ReadResponse, Tell, Forwarding!Tell
<1>4. CASE Withdraw(r)
  <2>1. PICK text \in {"took", "notPickedUp", "error"} : Tell(r, text)
    BY <1>4 DEF Withdraw
  <2>2. text \in Told /\ Forwarding!True(r, text)
    BY DEF Told, Forwarding!True
  <2> QED BY <1>1, <1>2, <2>1, <2>2 DEF Tell, Forwarding!Tell
<1> QED BY <1>3, <1>4

LEMMA ContractFail ==
  ASSUME RelayInv, NEW s \in Sweeps, NEW r \in Relayed, RemoveRequest(s, r)
  PROVE  Forwarding!FailToClear(r) \/ UNCHANGED Forwarding!vars
BY DEF RemoveRequest, viewerVars, Forwarding!FailToClear, Forwarding!vars

LEMMA RelayContractStep ==
  RelayInv /\ [RelayNext]_relayVars => [Forwarding!Next]_(Forwarding!vars)
<1> SUFFICES ASSUME RelayInv, [RelayNext]_relayVars
             PROVE  Forwarding!Next \/ UNCHANGED Forwarding!vars
  OBVIOUS
<1> USE DEF Forwarding!Next
<1>1. CASE \E s \in Sweeps, r \in Relayed : ReadRequest(s, r)
  BY <1>1, ContractBegin
<1>2. CASE \E s \in Sweeps, r \in Relayed : HandlerReturns(s, r) \/ HandlerThrows(s, r)
  BY <1>2, ContractEnd
<1>3. CASE \E r \in Relayed : ReadResponse(r) \/ Withdraw(r)
  BY <1>3, ContractTell
<1>8. CASE \E s \in Sweeps, r \in Relayed : RemoveRequest(s, r)
  BY <1>8, ContractFail
<1> USE DEF Forwarding!vars
<1>4. ASSUME NEW r \in Relayed,
             \/ Send(r) \/ DeadlinePasses(r) \/ MissResponse(r) \/ LookForClaim(r)
             \/ ClaimAges(r) \/ BeatsMissed(r)
      PROVE  UNCHANGED Forwarding!vars
  BY <1>4 DEF viewerVars, runnerVars, Send, DeadlinePasses, MissResponse, LookForClaim, ClaimAges,
     BeatsMissed
<1>5. ASSUME NEW s \in Sweeps, SweepStep(s)
      PROVE  UNCHANGED Forwarding!vars
  BY <1>5 DEF SweepStep, viewerVars, List, Collected, StartRounds, EndSweep, ExpireAnswer,
     ExpireFails, ExpireRequest, ExpireClaim, CollectOrphan, Claim, ClaimFails, LeaveClaim, FindDead
<1>6. ASSUME NEW s \in Sweeps, NEW r \in Relayed,
             CollectResponse(s, r) \/ ReadFails(s, r) \/ WriteResponse(s, r)
               \/ RemoveClaim(s, r) \/ Beat(s, r)
      PROVE  UNCHANGED Forwarding!vars
  BY <1>6 DEF viewerVars, runnerVars, CollectResponse, ReadFails, WriteResponse, RemoveClaim, Beat
<1>7. UNCHANGED relayVars \/ (\E h \in Hosts : HostDies(h)) => UNCHANGED Forwarding!vars
  BY DEF relayVars, viewerVars, HostDies
<1> QED
  BY <1>1, <1>2, <1>3, <1>4, <1>5, <1>6, <1>7, <1>8 DEF RelayNext, ViewerStep, RoundStep

(* The relay implements its contract with the viewer. *)
THEOREM RelayKeepsContract == RelaySpec => KeepsRelayContract
<1>1. RelayInit => Forwarding!Init BY DEF RelayInit, Forwarding!Init
<1>2. RelayInv /\ [RelayNext]_relayVars => [Forwarding!Next]_(Forwarding!vars) BY RelayContractStep
<1> QED BY <1>1, <1>2, RelayInvariant, PTL DEF RelaySpec, KeepsRelayContract, Forwarding!Spec

-----------------------------------------------------------------------------
(* What a host calls its own: while the request is there, everything it has in
   a round; and what a sweep of it has found dead is not among it, nor can it
   come back, for the claim stays until the request is gone. *)
OwnRounds ==
  \A s \in Sweeps, r \in Relayed : Queued(r) /\ Under(s, r) => r \in executing[hostOf[s]]

DeadIsForeign ==
  \A s \in Sweeps : sweep[s].at = "expireAnswer" =>
    /\ sweep[s].dead \in Relayed
    /\ \A r \in Relayed : Queued(r) /\ sweep[s].dead = r
                          => claim[r] # "none" /\ r \notin executing[hostOf[s]]

OwnInv == RelayInv /\ OwnRounds /\ DeadIsForeign

LEMMA OwnInitially == RelayInit => OwnInv
BY RelayInitially DEF RelayInit, OwnRounds, DeadIsForeign, OwnInv, Queued, IdleSweep, NoRound

LEMMA OwnStep == OwnInv /\ [RelayNext]_relayVars => OwnInv'
<1> SUFFICES ASSUME OwnInv, [RelayNext]_relayVars PROVE (OwnRounds /\ DeadIsForeign)'
  BY RelayStep DEF OwnInv
<1> USE DEF OwnInv, OwnRounds, DeadIsForeign, Queued, Under
<1>0. CASE UNCHANGED relayVars BY <1>0 DEF relayVars
<1>1. ASSUME NEW r \in Relayed, Send(r) PROVE (OwnRounds /\ DeadIsForeign)'
  BY <1>1, RelayTypes DEF Send, runnerVars, RelayInv, Unsent, Expires
<1>2. ASSUME NEW r \in Relayed, ViewerStep(r) PROVE (OwnRounds /\ DeadIsForeign)'
  <2>1. UNCHANGED <<claim, sweep, hostOf, executing, round, unremoved>>
    BY <1>2 DEF ViewerStep, ReadResponse, DeadlinePasses, MissResponse, LookForClaim, Withdraw,
       runnerVars
  <2>2. \A q \in Relayed : Queued(q)' => Queued(q)
    <3>1. request \in [Relayed -> {"unsent", "queued", "gone"}] BY RelayTypes DEF RelayInv
    <3> QED
      BY <1>2, <2>1, <3>1 DEF ViewerStep, ReadResponse, DeadlinePasses, MissResponse, LookForClaim,
         Withdraw
  <2> QED BY <2>1, <2>2
<1>3. ASSUME NEW r \in Relayed, ClaimAges(r) \/ BeatsMissed(r) \/ \E s \in Sweeps : Beat(s, r)
      PROVE  (OwnRounds /\ DeadIsForeign)'
  <2>1. UNCHANGED <<request, sweep, hostOf, executing, round, unremoved>>
    BY <1>3 DEF ClaimAges, BeatsMissed, Beat, runnerVars
  <2>2. \A q \in Relayed : claim[q] # "none" => claim'[q] # "none"
    <3>1. claim \in [Relayed -> {"none", "fresh", "stale"}] BY RelayTypes DEF RelayInv
    <3> QED BY <1>3, <3>1 DEF ClaimAges, BeatsMissed, Beat
  <2> QED BY <2>1, <2>2
<1>4. ASSUME NEW s \in Sweeps, List(s) \/ Collected(s) \/ EndSweep(s) \/ ExpireAnswer(s)
      PROVE  (OwnRounds /\ DeadIsForeign)'
  <2>1. UNCHANGED <<request, claim, hostOf, executing, round, unremoved>>
    BY <1>4 DEF List, Collected, EndSweep, ExpireAnswer, SweepGoes
  <2>2. ASSUME NEW t \in Sweeps, sweep'[t].at = "expireAnswer"
        PROVE  sweep[t].at = "expireAnswer" /\ sweep'[t].dead = sweep[t].dead
    <3>1. sweep \in [Sweeps -> SweepRecords] BY RelayTypes DEF RelayInv
    <3>2. CASE List(s) BY <2>2, <3>1, <3>2 DEF List, IdleSweep, SweepRecords
    <3>3. CASE Collected(s) BY <2>2, <3>1, <3>3 DEF Collected, SweepGoes, SweepRecords
    <3>4. CASE EndSweep(s) BY <2>2, <3>1, <3>4 DEF EndSweep, IdleSweep, SweepRecords
    <3>5. CASE ExpireAnswer(s) BY <2>2, <3>1, <3>5 DEF ExpireAnswer, SweepGoes, SweepRecords
    <3> QED BY <1>4, <3>2, <3>3, <3>4, <3>5
  <2> QED BY <2>1, <2>2
<1>5. ASSUME NEW s \in Sweeps, StartRounds(s) PROVE (OwnRounds /\ DeadIsForeign)'
  BY <1>5, RelayTypes DEF StartRounds, SweepGoes, RelayInv, SweepRecords, RoundRecords
<1>6. ASSUME NEW s \in Sweeps, ExpireFails(s) PROVE (OwnRounds /\ DeadIsForeign)'
  BY <1>6, RelayTypes DEF ExpireFails, IdleSweep, NoRound, RelayInv, SweepRecords, RoundRecords
<1>7. ASSUME NEW s \in Sweeps, ExpireRequest(s) PROVE (OwnRounds /\ DeadIsForeign)'
  BY <1>7, RelayTypes DEF ExpireRequest, SweepGoes, RelayInv, SweepRecords
<1>8. ASSUME NEW s \in Sweeps, ExpireClaim(s) PROVE (OwnRounds /\ DeadIsForeign)'
  BY <1>8, RelayTypes DEF ExpireClaim, SweepGoes, RelayInv, Outlived, Expires, SweepRecords
<1>9. ASSUME NEW s \in Sweeps, NEW q \in Relayed, CollectOrphan(s, q)
      PROVE  (OwnRounds /\ DeadIsForeign)'
  BY <1>9, RelayTypes DEF CollectOrphan, RelayInv, Outlived, SweepRecords
<1>10. ASSUME NEW s \in Sweeps, NEW q \in Relayed, Claim(s, q)
       PROVE  (OwnRounds /\ DeadIsForeign)'
  BY <1>10, RelayTypes DEF Claim, RelayInv, SweepRecords, RoundRecords
<1>11. ASSUME NEW s \in Sweeps, NEW q \in Relayed, LeaveClaim(s, q)
       PROVE  (OwnRounds /\ DeadIsForeign)'
  BY <1>11, RelayTypes DEF LeaveClaim, RelayInv, SweepRecords
<1>17. ASSUME NEW s \in Sweeps, NEW q \in Relayed, ClaimFails(s, q)
       PROVE  (OwnRounds /\ DeadIsForeign)'
  BY <1>17, RelayTypes DEF ClaimFails, RelayInv, SweepRecords
<1>12. ASSUME NEW s \in Sweeps, NEW q \in Relayed, FindDead(s, q)
       PROVE  (OwnRounds /\ DeadIsForeign)'
  <2>1. /\ UNCHANGED <<request, claim, hostOf, executing, round, unremoved>>
        /\ claim[q] # "none" /\ q \notin executing[hostOf[s]]
    BY <1>12 DEF FindDead
  <2>2. \A t \in Sweeps : IF t = s THEN sweep'[t].dead = q ELSE sweep'[t] = sweep[t]
    <3>1. sweep \in [Sweeps -> SweepRecords] BY RelayTypes DEF RelayInv
    <3> QED BY <1>12, <3>1 DEF FindDead, SweepRecords
  <2> QED BY <2>1, <2>2
<1>13. ASSUME NEW s \in Sweeps, NEW r \in Relayed, CollectResponse(s, r)
       PROVE  (OwnRounds /\ DeadIsForeign)'
  BY <1>13 DEF CollectResponse, runnerVars
<1>14. ASSUME NEW s \in Sweeps, NEW r \in Relayed,
              \/ ReadRequest(s, r) \/ ReadFails(s, r) \/ HandlerReturns(s, r) \/ HandlerThrows(s, r)
              \/ WriteResponse(s, r) \/ RemoveRequest(s, r)
       PROVE  (OwnRounds /\ DeadIsForeign)'
  <2>1. \A t \in Sweeps, q \in Relayed : Under(t, q)' => Under(t, q)
    <3>1. round \in [Sweeps -> [Relayed -> RoundRecords]] BY RelayTypes DEF RelayInv
    <3>2. CASE ReadRequest(s, r)
      <4>1. \/ Reply(s, r, "none") \/ Reply(s, r, "expired")
            \/ round' = [round EXCEPT ![s][r].at = "handle"]
        BY <3>2 DEF ReadRequest
      <4>2. round[s][r].at = "read" BY <3>2 DEF ReadRequest
      <4>3. CASE Reply(s, r, "none") BY <3>1, <4>2, <4>3 DEF Reply, RoundRecords
      <4>4. CASE Reply(s, r, "expired") BY <3>1, <4>2, <4>4 DEF Reply, RoundRecords
      <4>5. CASE round' = [round EXCEPT ![s][r].at = "handle"]
        BY <3>1, <4>2, <4>5 DEF RoundRecords
      <4> QED BY <4>1, <4>3, <4>4, <4>5
    <3>7. CASE ReadFails(s, r) BY <3>1, <3>7 DEF ReadFails, Reply, RoundRecords
    <3>3. CASE HandlerReturns(s, r) BY <3>1, <3>3 DEF HandlerReturns, Reply, RoundRecords
    <3>4. CASE HandlerThrows(s, r) BY <3>1, <3>4 DEF HandlerThrows, Reply, RoundRecords
    <3>5. CASE WriteResponse(s, r) BY <3>1, <3>5 DEF WriteResponse, RoundRecords
    <3>6. CASE RemoveRequest(s, r) BY <3>1, <3>6 DEF RemoveRequest, RoundRecords
    <3> QED BY <1>14, <3>2, <3>3, <3>4, <3>5, <3>6, <3>7
  <2>2. UNCHANGED <<sweep, hostOf, executing, claim>> /\ \A q \in Relayed : Queued(q)' => Queued(q)
    BY <1>14, RelayTypes DEF ReadRequest, ReadFails, HandlerReturns, HandlerThrows, WriteResponse,
       RemoveRequest, RelayInv
  <2> QED BY <2>1, <2>2
<1>15. ASSUME NEW s \in Sweeps, NEW r \in Relayed, RemoveClaim(s, r)
       PROVE  (OwnRounds /\ DeadIsForeign)'
  BY <1>15, RelayTypes DEF RemoveClaim, NoRound, RelayInv, Outlived, RoundRecords
<1>16. ASSUME NEW h \in Hosts, HostDies(h) PROVE (OwnRounds /\ DeadIsForeign)'
  BY <1>16, RelayTypes DEF HostDies, IdleSweep, NoRound, RelayInv, SweepRecords, RoundRecords
<1> QED
  BY <1>0, <1>1, <1>2, <1>3, <1>4, <1>5, <1>6, <1>7, <1>8, <1>9, <1>10, <1>11, <1>12, <1>13,
     <1>14, <1>15, <1>16, <1>17 DEF RelayNext, SweepStep, RoundStep

(* A host never declares interrupted what it runs, while the request is there. *)
THEOREM AHostKnowsItsOwn == RelaySpec => []NotInterruptedByItself
<1>1. OwnInv => NotInterruptedByItself
  BY DEF OwnInv, OwnRounds, DeadIsForeign, NotInterruptedByItself, Queued, Under
<1>2. RelaySpec => []OwnInv BY OwnInitially, OwnStep, PTL DEF RelaySpec
<1> QED BY <1>1, <1>2, PTL
=============================================================================
