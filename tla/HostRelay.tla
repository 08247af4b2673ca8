------------------------------ MODULE HostRelay ------------------------------
(***************************************************************************)
(* The relay by which a viewer window hands an action to the runner: files *)
(* in a shared directory. A viewer writes a request and polls for its      *)
(* response; a sweep of a runner host claims requests by exclusive         *)
(* creation, runs them side by side, answers, and removes the request and  *)
(* the claim. Sweeps overlap, hosts die, file operations fail, heartbeats  *)
(* are missed; MaxRelayFaults bounds how often.                            *)
(***************************************************************************)
EXTENDS Naturals

CONSTANTS
  Relayed,        \* ids of requests, one send each
  Sweeps,          \* calls of drain that may overlap
  Hosts,           \* runner processes
  NoRequest,
  MaxRelayFaults

ASSUME RelayAssumption ==
  /\ NoRequest \notin Relayed
  /\ MaxRelayFaults \in Nat

VARIABLES
  request,     \* req-<id>.json: "unsent", "queued" or "gone"
  claim,       \* req-<id>.json.claimed, and whether its mtime is recent
  response,    \* res-<id>.json
  viewer,      \* where send stands
  verdict,     \* what send told the user
  late,        \* the sender's deadline is past
  hostOf,      \* the process each sweep runs in
  executing,   \* per host: executingClaimsV1
  sweep,       \* per sweep: where drain stands, and what it listed
  round,       \* per sweep and request: where runClaimed stands
  started,     \* how often the handler was called, up to 2
  outcome,     \* how the handler ended
  unremoved,   \* requests whose removal failed at the end of a round, unnoticed
  relayFaults

relayVars == <<request, claim, response, viewer, verdict, late, hostOf, executing,
               sweep, round, started, outcome, unremoved, relayFaults>>

Responses == {"ok", "failed", "expired", "interrupted"}

(* "took" and "notPickedUp": the two texts of a send that timed out; "error":
   that the request could not be withdrawn. *)
Told == Responses \cup {"took", "notPickedUp", "error"}

(* Where send stands; a text is a place too: chosen, not said yet. *)
ViewerPlaces == {"idle", "waiting", "givingUp", "took", "notPickedUp", "done"}

SweepPlaces == {"idle", "collect", "claim", "running",
                "expireAnswer", "expireRequest", "expireClaim"}
IdleSweep == [at |-> "idle", pending |-> {}, orphans |-> {}, dead |-> NoRequest]

(* "taken": claimed, the loop over the others not done. *)
RoundPlaces == {"none", "taken", "read", "handle", "answer", "remove", "unclaim"}
NoRound == [at |-> "none", answer |-> "none"]

RelayTypeOK ==
  /\ request \in [Relayed -> {"unsent", "queued", "gone"}]
  /\ claim \in [Relayed -> {"none", "fresh", "stale"}]
  /\ response \in [Relayed -> Responses \cup {"none"}]
  /\ viewer \in [Relayed -> ViewerPlaces]
  /\ verdict \in [Relayed -> Told \cup {"none"}]
  /\ late \in [Relayed -> BOOLEAN]
  /\ hostOf \in [Sweeps -> Hosts]
  /\ executing \in [Hosts -> SUBSET Relayed]
  /\ sweep \in [Sweeps -> [at : SweepPlaces, pending : SUBSET Relayed,
                           orphans : SUBSET Relayed, dead : Relayed \cup {NoRequest}]]
  /\ round \in [Sweeps -> [Relayed -> [at : RoundPlaces, answer : Responses \cup {"none"}]]]
  /\ started \in [Relayed -> 0 .. 2]
  /\ outcome \in [Relayed -> {"none", "ok", "failed"}]
  /\ unremoved \subseteq Relayed
  /\ relayFaults \in 0 .. MaxRelayFaults

RelayInit ==
  /\ request = [r \in Relayed |-> "unsent"]
  /\ claim = [r \in Relayed |-> "none"]
  /\ response = [r \in Relayed |-> "none"]
  /\ viewer = [r \in Relayed |-> "idle"]
  /\ verdict = [r \in Relayed |-> "none"]
  /\ late = [r \in Relayed |-> FALSE]
  /\ hostOf \in [Sweeps -> Hosts]
  /\ executing = [h \in Hosts |-> {}]
  /\ sweep = [s \in Sweeps |-> IdleSweep]
  /\ round = [s \in Sweeps |-> [r \in Relayed |-> NoRound]]
  /\ started = [r \in Relayed |-> 0]
  /\ outcome = [r \in Relayed |-> "none"]
  /\ unremoved = {}
  /\ relayFaults = 0

viewerVars == <<viewer, verdict, late>>
runnerVars == <<hostOf, executing, sweep, round, started, outcome, unremoved>>

RelayFault == relayFaults < MaxRelayFaults /\ relayFaults' = relayFaults + 1

RequestFiles == {r \in Relayed : request[r] = "queued"}
ClaimFiles == {r \in Relayed : claim[r] # "none"}
ResponseFiles == {r \in Relayed : response[r] # "none"}

(* The interval of runClaimed touches the claim from its start to its end. *)
Beats(s, r) == round[s][r].at \notin {"none", "taken"}

-----------------------------------------------------------------------------
(* send, in the viewer. *)
Send(r) ==
  /\ viewer[r] = "idle"
  /\ viewer' = [viewer EXCEPT ![r] = "waiting"]
  /\ request' = [request EXCEPT ![r] = "queued"]
  /\ UNCHANGED <<claim, response, verdict, late, runnerVars, relayFaults>>

Tell(r, text) ==
  /\ viewer' = [viewer EXCEPT ![r] = "done"]
  /\ verdict' = [verdict EXCEPT ![r] = text]

ReadResponse(r) ==
  /\ viewer[r] = "waiting"
  /\ response[r] # "none"
  /\ Tell(r, response[r])
  /\ response' = [response EXCEPT ![r] = "none"]
  /\ UNCHANGED <<request, claim, late, runnerVars, relayFaults>>

(* A request is as old as its timeout before its sender's deadline: the
   deadline is set after createdAt, on one clock. *)
DeadlinePasses(r) ==
  /\ viewer[r] = "waiting" /\ ~late[r]
  /\ late' = [late EXCEPT ![r] = TRUE]
  /\ UNCHANGED <<request, claim, response, viewer, verdict, runnerVars, relayFaults>>

(* A response that cannot be read, or not removed, is one not there yet. *)
MissResponse(r) ==
  /\ viewer[r] = "waiting" /\ late[r]
  /\ \/ response[r] = "none" /\ UNCHANGED relayFaults
     \/ response[r] # "none" /\ RelayFault
  /\ viewer' = [viewer EXCEPT ![r] = "givingUp"]
  /\ UNCHANGED <<request, claim, response, verdict, late, runnerVars>>

(* The text is chosen here and said after the request is withdrawn. *)
LookForClaim(r) ==
  /\ viewer[r] = "givingUp"
  /\ viewer' = [viewer EXCEPT ![r] = IF claim[r] = "none" THEN "notPickedUp" ELSE "took"]
  /\ UNCHANGED <<request, claim, response, verdict, late, runnerVars, relayFaults>>

(* What a failed withdrawal leaves is told by its error, and the request
   stays. *)
Withdraw(r) ==
  /\ viewer[r] \in {"took", "notPickedUp"}
  /\ \/ /\ Tell(r, viewer[r])
        /\ request' = [request EXCEPT ![r] = "gone"]
        /\ UNCHANGED relayFaults
     \/ Tell(r, "error") /\ RelayFault /\ UNCHANGED request
  /\ UNCHANGED <<claim, response, late, runnerVars>>

-----------------------------------------------------------------------------
(* drain: what it lists is used until its claim loop ends. *)

SweepGoes(s, place) == sweep' = [sweep EXCEPT ![s].at = place]

(* A sweep of an empty directory does nothing, and is no step here. *)
List(s) ==
  /\ sweep[s].at = "idle"
  /\ RequestFiles \cup ClaimFiles \cup ResponseFiles # {}
  /\ sweep' = [sweep EXCEPT ![s] =
                 [IdleSweep EXCEPT !.at = "collect", !.pending = RequestFiles,
                              !.orphans = ClaimFiles \ RequestFiles]]
  /\ UNCHANGED <<request, claim, response, viewerVars, hostOf, executing, round, started,
                 outcome, unremoved, relayFaults>>

(* Mutant: claims without a request are left where they are. *)
KeepOrphan(s, r) ==
  /\ sweep[s].at = "collect"
  /\ r \in sweep[s].orphans
  /\ sweep' = [sweep EXCEPT ![s].orphans = @ \ {r}]
  /\ UNCHANGED <<request, claim, response, viewerVars, hostOf, executing, round, started,
                 outcome, unremoved, relayFaults>>

(* Claims without a request go when nobody touches them; one that cannot be
   removed is left for the next sweep. *)
CollectOrphan(s, r) ==
  /\ sweep[s].at = "collect"
  /\ r \in sweep[s].orphans
  /\ \/ claim' = [claim EXCEPT ![r] = IF @ = "stale" THEN "none" ELSE @] /\ UNCHANGED relayFaults
     \/ claim[r] = "stale" /\ RelayFault /\ UNCHANGED claim
  /\ sweep' = [sweep EXCEPT ![s].orphans = @ \ {r}]
  /\ UNCHANGED <<request, response, viewerVars, hostOf, executing, round, started,
                 outcome, unremoved>>

(* Responses an hour old have no reader. *)
CollectResponse(s, r) ==
  /\ sweep[s].at = "collect"
  /\ response[r] # "none" /\ viewer[r] = "done"
  /\ response' = [response EXCEPT ![r] = "none"]
  /\ UNCHANGED <<request, claim, viewerVars, runnerVars, relayFaults>>

Collected(s) ==
  /\ sweep[s].at = "collect"
  /\ sweep[s].orphans = {}
  /\ SweepGoes(s, "claim")
  /\ UNCHANGED <<request, claim, response, viewerVars, hostOf, executing, round, started,
                 outcome, unremoved, relayFaults>>

(* Exclusive creation: one sweep gets it. *)
Claim(s, r) ==
  /\ sweep[s].at = "claim"
  /\ r \in sweep[s].pending
  /\ claim[r] = "none"
  /\ claim' = [claim EXCEPT ![r] = "fresh"]
  /\ executing' = [executing EXCEPT ![hostOf[s]] = @ \cup {r}]
  /\ round' = [round EXCEPT ![s][r].at = "taken"]
  /\ sweep' = [sweep EXCEPT ![s].pending = @ \ {r}]
  /\ UNCHANGED <<request, response, viewerVars, hostOf, started, outcome, unremoved,
                 relayFaults>>

(* An exclusive creation that fails for another reason than a claim, before or
   after it made the file, is taken for one: nothing is run. *)
ClaimFails(s, r) ==
  /\ sweep[s].at = "claim"
  /\ r \in sweep[s].pending
  /\ claim[r] = "none"
  /\ RelayFault
  /\ claim' \in {claim, [claim EXCEPT ![r] = "fresh"]}
  /\ sweep' = [sweep EXCEPT ![s].pending = @ \ {r}]
  /\ UNCHANGED <<request, response, viewerVars, hostOf, executing, round, started,
                 outcome, unremoved>>

(* A claim that this process executes, or that is touched, is left alone. *)
LeaveClaim(s, r) ==
  /\ sweep[s].at = "claim"
  /\ r \in sweep[s].pending
  /\ claim[r] # "none"
  /\ r \in executing[hostOf[s]] \/ claim[r] = "fresh"
  /\ sweep' = [sweep EXCEPT ![s].pending = @ \ {r}]
  /\ UNCHANGED <<request, claim, response, viewerVars, hostOf, executing, round, started,
                 outcome, unremoved, relayFaults>>

(* Mutant: whether this process executes it is not asked. *)
FindDeadAnywhere(s, r) ==
  /\ sweep[s].at = "claim"
  /\ r \in sweep[s].pending
  /\ claim[r] = "stale"
  /\ sweep' = [sweep EXCEPT ![s].at = "expireAnswer", ![s].dead = r, ![s].pending = @ \ {r}]
  /\ UNCHANGED <<request, claim, response, viewerVars, hostOf, executing, round, started,
                 outcome, unremoved, relayFaults>>

FindDead(s, r) ==
  /\ sweep[s].at = "claim"
  /\ r \in sweep[s].pending
  /\ claim[r] = "stale"
  /\ r \notin executing[hostOf[s]]
  /\ sweep' = [sweep EXCEPT ![s].at = "expireAnswer", ![s].dead = r, ![s].pending = @ \ {r}]
  /\ UNCHANGED <<request, claim, response, viewerVars, hostOf, executing, round, started,
                 outcome, unremoved, relayFaults>>

(* Mutant: a request whose host died is answered expired. *)
ExpireAnswerExpired(s) ==
  /\ sweep[s].at = "expireAnswer"
  /\ response' = [response EXCEPT ![sweep[s].dead] = "expired"]
  /\ SweepGoes(s, "expireRequest")
  /\ UNCHANGED <<request, claim, viewerVars, hostOf, executing, round, started, outcome,
                 unremoved, relayFaults>>

ExpireAnswer(s) ==
  /\ sweep[s].at = "expireAnswer"
  /\ response' = [response EXCEPT ![sweep[s].dead] = "interrupted"]
  /\ SweepGoes(s, "expireRequest")
  /\ UNCHANGED <<request, claim, viewerVars, hostOf, executing, round, started, outcome,
                 unremoved, relayFaults>>

(* A write or an unlink fails: drain rejects, and the claims it has taken are
   never run; the process goes on calling them its own. *)
ExpireFails(s) ==
  /\ sweep[s].at \in {"expireAnswer", "expireRequest", "expireClaim"}
  /\ RelayFault
  /\ sweep' = [sweep EXCEPT ![s] = IdleSweep]
  /\ round' = [round EXCEPT ![s] = [r \in Relayed |-> NoRound]]
  /\ UNCHANGED <<request, claim, response, viewerVars, hostOf, executing, started,
                 outcome, unremoved>>

(* Mutant: the claim goes before the request. *)
ExpireClaimFirst(s) ==
  /\ sweep[s].at = "expireRequest"
  /\ claim' = [claim EXCEPT ![sweep[s].dead] = "none"]
  /\ SweepGoes(s, "claim")
  /\ UNCHANGED <<request, response, viewerVars, hostOf, executing, round, started,
                 outcome, unremoved, relayFaults>>

ExpireRequest(s) ==
  /\ sweep[s].at = "expireRequest"
  /\ request' = [request EXCEPT ![sweep[s].dead] = "gone"]
  /\ SweepGoes(s, "expireClaim")
  /\ UNCHANGED <<claim, response, viewerVars, hostOf, executing, round, started, outcome,
                 unremoved, relayFaults>>

ExpireClaim(s) ==
  /\ sweep[s].at = "expireClaim"
  /\ claim' = [claim EXCEPT ![sweep[s].dead] = "none"]
  /\ SweepGoes(s, "claim")
  /\ UNCHANGED <<request, response, viewerVars, hostOf, executing, round, started,
                 outcome, unremoved, relayFaults>>

(* Everything claimed is run concurrently; drain waits for all of it. *)
StartRounds(s) ==
  /\ sweep[s].at = "claim"
  /\ sweep[s].pending = {}
  /\ SweepGoes(s, "running")
  /\ round' = [round EXCEPT ![s] =
                 [r \in Relayed |-> IF @[r].at = "taken" THEN [@[r] EXCEPT !.at = "read"]
                                     ELSE @[r]]]
  /\ UNCHANGED <<request, claim, response, viewerVars, hostOf, executing, started,
                 outcome, unremoved, relayFaults>>

EndSweep(s) ==
  /\ sweep[s].at = "running"
  /\ \A r \in Relayed : round[s][r].at = "none"
  /\ sweep' = [sweep EXCEPT ![s] = IdleSweep]
  /\ UNCHANGED <<request, claim, response, viewerVars, hostOf, executing, round, started,
                 outcome, unremoved, relayFaults>>

-----------------------------------------------------------------------------
(* runClaimed. *)

Reply(s, r, answer) ==
  round' = [round EXCEPT ![s][r] =
              [at |-> IF answer = "none" THEN "remove" ELSE "answer", answer |-> answer]]

CallHandler(r) == started' = [started EXCEPT ![r] = IF @ = 2 THEN 2 ELSE @ + 1]

(* Mutant: the age of a request is not looked at. *)
ReadRequestAnyAge(s, r) ==
  /\ round[s][r].at = "read"
  /\ \/ request[r] # "queued" /\ Reply(s, r, "none") /\ UNCHANGED started
     \/ /\ request[r] = "queued"
        /\ CallHandler(r)
        /\ round' = [round EXCEPT ![s][r].at = "handle"]
  /\ UNCHANGED <<request, claim, response, viewerVars, hostOf, executing, sweep, outcome,
                 unremoved, relayFaults>>

(* The request is read and its age is looked at in one turn with the call. *)
ReadRequest(s, r) ==
  /\ round[s][r].at = "read"
  /\ \/ request[r] # "queued" /\ Reply(s, r, "none") /\ UNCHANGED started
     \/ request[r] = "queued" /\ late[r] /\ Reply(s, r, "expired") /\ UNCHANGED started
     \/ /\ request[r] = "queued" /\ ~late[r]
        /\ CallHandler(r)
        /\ round' = [round EXCEPT ![s][r].at = "handle"]
  /\ UNCHANGED <<request, claim, response, viewerVars, hostOf, executing, sweep, outcome,
                 unremoved, relayFaults>>

(* A request that cannot be read is answered with the error. *)
ReadFails(s, r) ==
  /\ round[s][r].at = "read"
  /\ request[r] = "queued"
  /\ RelayFault
  /\ Reply(s, r, "failed")
  /\ UNCHANGED <<request, claim, response, viewerVars, hostOf, executing, sweep, started,
                 outcome, unremoved>>

HandlerReturns(s, r) ==
  /\ round[s][r].at = "handle"
  /\ outcome' = [outcome EXCEPT ![r] = "ok"]
  /\ Reply(s, r, "ok")
  /\ UNCHANGED <<request, claim, response, viewerVars, hostOf, executing, sweep, started,
                 unremoved, relayFaults>>

(* A handler that fails for a file that does not exist is taken for a
   withdrawn request, which gets no response. *)
HandlerThrows(s, r) ==
  /\ round[s][r].at = "handle"
  /\ outcome' = [outcome EXCEPT ![r] = "failed"]
  /\ \E answer \in {"failed", "none"} : Reply(s, r, answer)
  /\ UNCHANGED <<request, claim, response, viewerVars, hostOf, executing, sweep, started,
                 unremoved, relayFaults>>

(* The write may fail; what follows is in a finally. *)
WriteResponse(s, r) ==
  /\ round[s][r].at = "answer"
  /\ \/ response' = [response EXCEPT ![r] = round[s][r].answer] /\ UNCHANGED relayFaults
     \/ RelayFault /\ UNCHANGED response
  /\ round' = [round EXCEPT ![s][r].at = "remove"]
  /\ UNCHANGED <<request, claim, viewerVars, hostOf, executing, sweep, started, outcome,
                 unremoved>>

(* Both removals swallow their failure, and the round goes on as if the file
   were gone: a request left behind is claimed again by a later sweep. *)
RemoveRequest(s, r) ==
  /\ round[s][r].at = "remove"
  /\ \/ request' = [request EXCEPT ![r] = "gone"] /\ UNCHANGED <<unremoved, relayFaults>>
     \/ /\ request[r] = "queued"
        /\ RelayFault
        /\ unremoved' = unremoved \cup {r}
        /\ UNCHANGED request
  /\ round' = [round EXCEPT ![s][r].at = "unclaim"]
  /\ UNCHANGED <<claim, response, viewerVars, hostOf, executing, sweep, started, outcome>>

RemoveClaim(s, r) ==
  /\ round[s][r].at = "unclaim"
  /\ \/ claim' = [claim EXCEPT ![r] = "none"] /\ UNCHANGED relayFaults
     \/ claim[r] # "none" /\ RelayFault /\ UNCHANGED claim
  /\ executing' = [executing EXCEPT ![hostOf[s]] = @ \ {r}]
  /\ round' = [round EXCEPT ![s][r] = NoRound]
  /\ UNCHANGED <<request, response, viewerVars, hostOf, sweep, started, outcome, unremoved>>

-----------------------------------------------------------------------------
(* Time and failure. *)

(* Three heartbeats long: what nobody touches is stale, and what a handler's
   round touches when the touches fail. The other awaits are single file
   operations and do not last. *)
ClaimAges(r) ==
  /\ claim[r] = "fresh"
  /\ \A s \in Sweeps : round[s][r].at = "none"
  /\ claim' = [claim EXCEPT ![r] = "stale"]
  /\ UNCHANGED <<request, response, viewerVars, runnerVars, relayFaults>>

BeatsMissed(r) ==
  /\ claim[r] = "fresh"
  /\ \E s \in Sweeps : round[s][r].at = "handle"
  /\ RelayFault
  /\ claim' = [claim EXCEPT ![r] = "stale"]
  /\ UNCHANGED <<request, response, viewerVars, runnerVars>>

Beat(s, r) ==
  /\ claim[r] = "stale"
  /\ Beats(s, r)
  /\ claim' = [claim EXCEPT ![r] = "fresh"]
  /\ UNCHANGED <<request, response, viewerVars, runnerVars, relayFaults>>

(* A host reloads or crashes: its memory goes, the files stay. *)
HostDies(h) ==
  /\ RelayFault
  /\ \E s \in Sweeps : hostOf[s] = h /\ sweep[s].at # "idle"
  /\ executing' = [executing EXCEPT ![h] = {}]
  /\ sweep' = [s \in Sweeps |-> IF hostOf[s] = h THEN IdleSweep ELSE sweep[s]]
  /\ round' = [s \in Sweeps |-> IF hostOf[s] = h THEN [r \in Relayed |-> NoRound]
                                ELSE round[s]]
  /\ UNCHANGED <<request, claim, response, viewerVars, hostOf, started, outcome, unremoved>>

ViewerStep(r) ==
  ReadResponse(r) \/ DeadlinePasses(r) \/ MissResponse(r) \/ LookForClaim(r) \/ Withdraw(r)

SweepStep(s) ==
  \/ List(s) \/ Collected(s) \/ StartRounds(s) \/ EndSweep(s)
  \/ ExpireAnswer(s) \/ ExpireFails(s) \/ ExpireRequest(s) \/ ExpireClaim(s)
  \/ \E r \in Relayed : \/ CollectOrphan(s, r) \/ Claim(s, r) \/ ClaimFails(s, r)
                         \/ LeaveClaim(s, r) \/ FindDead(s, r)

RoundStep(s, r) ==
  \/ ReadRequest(s, r) \/ ReadFails(s, r) \/ HandlerReturns(s, r) \/ HandlerThrows(s, r)
  \/ WriteResponse(s, r) \/ RemoveRequest(s, r) \/ RemoveClaim(s, r)

RelayNext ==
  \/ \E r \in Relayed : Send(r) \/ ViewerStep(r) \/ ClaimAges(r) \/ BeatsMissed(r)
  \/ \E s \in Sweeps : SweepStep(s)
  \/ \E s \in Sweeps, r \in Relayed :
       CollectResponse(s, r) \/ RoundStep(s, r) \/ Beat(s, r)
  \/ \E h \in Hosts : HostDies(h)

RelaySpec == RelayInit /\ [][RelayNext]_relayVars

(* A viewer polls on; the watcher and the timer sweep again; a sweep and a
   round go on at each await, and a handler ends (it is raced by a timeout);
   what nobody touches grows old. *)
RelayFairness ==
  /\ \A r \in Relayed :
       WF_relayVars(ViewerStep(r)) /\ WF_relayVars(ClaimAges(r))
  /\ \A s \in Sweeps :
       /\ WF_relayVars(SweepStep(s))
       /\ \A r \in Relayed : WF_relayVars(RoundStep(s, r))

FairRelaySpec == RelaySpec /\ RelayFairness

-----------------------------------------------------------------------------
(* A request is executed at most once, whatever sweeps overlap, whoever dies and
   whatever else fails: the claim is exclusive, and outlives the request. One
   failure undoes it, which the code does not notice: the removal of a request
   that was answered (hostRelayV1.ts:344). *)
RunsOnce == \A r \in Relayed : started[r] <= 1 \/ r \in unremoved

(* What the viewer reads is true: ok means that the action was done, failed that
   it was not, expired that it was never started. An answer is written before
   its request is removed, so that a failed removal leaves two of them. *)
AnswerIsTrue ==
  \A r \in Relayed \ unremoved :
    /\ verdict[r] = "ok" => outcome[r] = "ok"
    /\ verdict[r] = "failed" => outcome[r] = "failed" \/ started[r] = 0
    /\ verdict[r] = "expired" => started[r] = 0

(* The relay keeps its contract with the viewer: whatever overlaps, dies or is
   late, an action begins once at most and never after the viewer was told,
   an answer or that time is up; and what the viewer is told is one thing, and
   true of the action. Of a request whose removal failed only the one thing is
   left. *)
Forwarding == INSTANCE RelayContract

KeepsRelayContract == Forwarding!Spec

(* A host never declares interrupted what it has claimed itself, even when its
   heartbeats fail to reach the file. It is so while the request is there: once
   another host has removed it as dead, a sweep that listed it before may claim
   it again, and what this host calls its own ends with that claim. *)
NotInterruptedByItself ==
  \A s, t \in Sweeps : LET r == sweep[s].dead IN
    /\ sweep[s].at = "expireAnswer" /\ request[r] = "queued" /\ r \notin unremoved
    /\ hostOf[s] = hostOf[t]
    => round[t][r].at = "none"

(* No request and no claim stays in the directory for ever. *)
FilesAreCleared ==
  \A r \in Relayed :
    request[r] = "queued" \/ claim[r] # "none" ~> request[r] # "queued" /\ claim[r] = "none"

(* hostRelayV1.ts:239-242: a request reported as not picked up was never
   picked up. *)
NotPickedUpIsTrue == \A r \in Relayed : verdict[r] = "notPickedUp" => started[r] = 0

(* hostRelayV1.ts:276-279: an exclusive create, so that no request runs twice. *)
NeverTwice == \A r \in Relayed : started[r] <= 1
=============================================================================
