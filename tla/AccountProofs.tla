----------------------------- MODULE AccountProofs -----------------------------
(***************************************************************************)
(* What a user's account keeps: sessions and the persistent sandbox.       *)
(*                                                                         *)
(* A session is revoked for a reason, for any number of managers, callers  *)
(* and families, on the web and in native apps. The invariant says of a    *)
(* live family where its newest token is: in the one refresh under way, or *)
(* in the store and, natively, in the memory of the one manager it is of.  *)
(*                                                                         *)
(* A sandbox is lost for a reason, for any number of uses, resets and ids. *)
(* BoxInv strengthens the property by: one creation is in flight at a      *)
(* time, and only while there is no record; a reset forgets what it has    *)
(* destroyed.                                                              *)
(***************************************************************************)
EXTENDS Sessions, UserSandbox, TLAPS

CallPlaces == {"idle", "asked", "restoring", "answered", "restored"}
Asks == {"asked", "restoring"}
Tokens == Pairs \cup {NoPair}
CallRecords == [at : CallPlaces, of : Managers \cup {NoManager}, sent : Tokens, reply : Tokens]
LeaveRecords == [at : {"no", "wanted", "sent", "revoked"}, pair : Tokens]

(* A token of a family; a family that was neither revoked nor disturbed. *)
Of(p, f) == p # NoPair /\ p.family = f
Live(f) == f \notin revoked \cup disturbed

(* A family that does not exist yet has no tokens. *)
NoTokenYet ==
  \A f \in Families : serial[f] = 0 =>
    /\ \A m \in Managers : ~Of(tokens[m], f) /\ ~Of(kept[m], f)
    /\ \A c \in Callers : ~Of(call[c].sent, f)

(* What a caller waits for. *)
Waits ==
  /\ \A c \in Callers :
       /\ call[c].at = "idle" => call[c] = NoCall
       /\ call[c].at # "idle" => call[c].of \in booted
       /\ call[c].reply # NoPair => call[c].sent # NoPair /\ call[c].reply.family = call[c].sent.family
       /\ call[c].at \in {"restoring", "restored"} => onWeb
  /\ \A m \in Managers \ booted : tokens[m] = NoPair
  /\ \A m \in Managers : leaving[m].at = "sent" => leaving[m].pair # NoPair
  /\ onWeb => \A m, n \in Managers : kept[m] = kept[n]

(* One flight per manager, and one per live family. *)
OneFlight ==
  /\ \A m \in Managers : \A c, d \in Refreshing(m) : c = d
  /\ \A f \in Families : Live(f) => \A c, d \in Underway(f) : c = d

(* A refresh under way has the newest token of a live family. *)
Current ==
  \A f \in Families : Live(f) => \A c \in Underway(f) :
    IF call[c].at \in Asks THEN call[c].sent.n = serial[f]
    ELSE call[c].reply # NoPair /\ call[c].reply.n = serial[f]

(* Without one, the store has it, and natively the memory. *)
Stored ==
  \A f \in Families : Live(f) /\ Underway(f) = {} => \A m \in Managers :
    /\ Of(kept[m], f) => kept[m].n = serial[f]
    /\ ~onWeb /\ Of(tokens[m], f) => tokens[m].n = serial[f]

(* In native apps a family is of one manager. *)
Has(m, f) ==
  \/ Of(tokens[m], f) \/ Of(kept[m], f)
  \/ \E c \in Callers : call[c].of = m /\ Of(call[c].sent, f)

OneOwner ==
  ~onWeb => \A f \in Families : Live(f) =>
    \A m, n \in Managers : Has(m, f) /\ Has(n, f) => m = n

(* Who signed in while its restoration is under way has another family. *)
OtherFamily ==
  \A c \in Callers : \A f \in Families :
    /\ call[c].at \in {"restoring", "restored"} /\ Live(f) /\ Of(call[c].sent, f)
    /\ tokens[call[c].of] # NoPair
    => \A m \in Managers : ~Of(kept[m], f)

SessionInv ==
  /\ SessionTypeOK
  /\ NoTokenYet /\ Waits /\ OneFlight /\ Current /\ Stored /\ OneOwner /\ OtherFamily
  /\ RevokedForAReason

LEMMA SessionInitially == SessionInit => SessionInv
BY SessionAssumption, NoPairAssumption DEF SessionInit, SessionInv, SessionTypeOK, NoTokenYet, Waits,
   OneFlight, Current, Stored, OneOwner, OtherFamily, RevokedForAReason, NoCall, NoLeave, Of,
   Has, Underway, Refreshing

(* One lemma per action: what it does to each part of the invariant. *)

LEMMA SignInStep ==
  ASSUME SessionInv, NEW m \in Managers, NEW f \in Families, SignIn(m, f)
  PROVE  SessionInv'
<1> USE SessionAssumption, NoPairAssumption
        DEF SessionInv, SessionTypeOK, SignIn, InMemory, Keep, Persist, FamilyOf, Loss, blameVars, clientVars
<1>t. SessionTypeOK' BY DEF Pairs
<1>1. NoTokenYet' BY DEF NoTokenYet, Waits, Of
<1>2. Waits' BY DEF Waits
<1>3. OneFlight' BY DEF OneFlight, Waits, OneOwner, OtherFamily, Live, Of, Has, Underway, Refreshing
<1>4. Current' BY DEF Current, NoTokenYet, Waits, OneFlight, Stored, Live, Of, Underway, Asks
<1>5. Stored'
  BY DEF Stored, NoTokenYet, Waits, OneFlight, Current, OneOwner, Live, Of, Has, Underway, Asks
<1>6. OneOwner' BY DEF OneOwner, NoTokenYet, Waits, Live, Of, Has
<1>7. OtherFamily' BY DEF OtherFamily, NoTokenYet, Waits, OneFlight, Live, Of, Underway
<1>8. RevokedForAReason' BY DEF RevokedForAReason, Current, Waits, Live, Underway, Asks
<1> QED BY <1>t, <1>1, <1>2, <1>3, <1>4, <1>5, <1>6, <1>7, <1>8

LEMMA RefreshStep ==
  ASSUME SessionInv, NEW c \in Callers, NEW m \in Managers, Refresh(c, m)
  PROVE  SessionInv'
<1> USE SessionAssumption, NoPairAssumption
        DEF SessionInv, SessionTypeOK, Refresh, Sends, NoCall, blameVars, clientVars
<1>t. SessionTypeOK' BY DEF Pairs
<1>1. NoTokenYet' BY DEF NoTokenYet, Waits, Of
<1>2. Waits' BY DEF Waits
<1>3. OneFlight' BY DEF OneFlight, Waits, OneOwner, OtherFamily, Live, Of, Has, Underway, Refreshing
<1>4. Current'
  <2> DEFINE p == IF onWeb THEN kept[m] ELSE tokens[m]
  <2>1. ASSUME NEW f \in Families, Live(f)', Of(p, f) PROVE Underway(f) = {}
    BY <2>1 DEF OneFlight, Waits, OneOwner, OtherFamily, Live, Of, Has, Underway, Refreshing
  <2>2. ASSUME NEW f \in Families, Live(f)', Of(p, f) PROVE p.n = serial[f]
    BY <2>1, <2>2 DEF Stored, Live, Of
  <2>3. \A d \in Callers : call'[d] = IF d = c
                                      THEN [at |-> "asked", of |-> m, sent |-> p, reply |-> NoPair] ELSE call[d]
    OBVIOUS
  <2> QED BY <2>2, <2>3 DEF Current, Live, Of, Underway, Asks
<1>5. Stored'
  BY DEF Stored, NoTokenYet, Waits, OneFlight, Current, OneOwner, Live, Of, Has, Underway, Asks
<1>6. OneOwner' BY DEF OneOwner, NoTokenYet, Waits, Live, Of, Has
<1>7. OtherFamily' BY DEF OtherFamily, NoTokenYet, Waits, OneFlight, Live, Of, Underway
<1>8. RevokedForAReason' BY DEF RevokedForAReason, Current, Waits, Live, Underway, Asks
<1> QED BY <1>t, <1>1, <1>2, <1>3, <1>4, <1>5, <1>6, <1>7, <1>8

LEMMA RestoreSessionStep ==
  ASSUME SessionInv, NEW c \in Callers, NEW m \in Managers, RestoreSession(c, m)
  PROVE  SessionInv'
<1> USE SessionAssumption, NoPairAssumption
        DEF SessionInv, SessionTypeOK, RestoreSession, Sends, InMemory, NoCall, blameVars, clientVars
<1>t. SessionTypeOK' BY DEF Pairs
<1>1. NoTokenYet'
  <2>a. CASE onWeb /\ kept[m] # NoPair BY <2>a DEF NoTokenYet, Waits, Of
  <2>b. CASE ~(onWeb /\ kept[m] # NoPair) BY <2>b DEF NoTokenYet, Waits, Of
  <2> QED BY <2>a, <2>b
<1>2. Waits' BY DEF Waits
<1>3. OneFlight'
  <2>1. \A d \in Callers : call[d].of # m /\ call[c].sent = NoPair
    BY DEF Waits
  <2>a. CASE onWeb /\ kept[m] # NoPair
    <3> DEFINE r == [at |-> "restoring", of |-> m, sent |-> kept[m], reply |-> NoPair]
    <3>1. \A d \in Callers : call'[d] = IF d = c THEN r ELSE call[d]
      BY <2>a
    <3>2. ASSUME NEW f \in Families, Live(f)', Of(kept[m], f) PROVE Live(f) /\ Underway(f) = {}
      BY <3>2, <2>1, <2>a DEF Live, Of, Underway
    <3>3. ASSUME NEW f \in Families, Live(f)' PROVE
            Live(f) /\ Underway(f)' = IF Of(kept[m], f) THEN {c} ELSE Underway(f)
      BY <3>1, <3>2, <3>3, <2>1, <2>a DEF Live, Of, Underway
    <3>4. (\A n \in Managers : \A d, e \in Refreshing(n) : d = e)'
      BY <3>1 DEF OneFlight, Refreshing
    <3>5. \A f \in Families : Live(f)' => \A d, e \in Underway(f)' : d = e
      BY <3>3 DEF OneFlight
    <3> QED BY <3>4, <3>5 DEF OneFlight
  <2>b. CASE ~(onWeb /\ kept[m] # NoPair)
    BY <2>b DEF OneFlight, Waits, OneOwner, OtherFamily, Live, Of, Has, Underway, Refreshing
  <2> QED BY <2>a, <2>b
<1>4. Current'
  <2>1. \A d \in Callers : call[d].of # m /\ call[c].sent = NoPair
    BY DEF Waits
  <2>a. CASE onWeb /\ kept[m] # NoPair
    <3> DEFINE r == [at |-> "restoring", of |-> m, sent |-> kept[m], reply |-> NoPair]
    <3>1. \A d \in Callers : call'[d] = IF d = c THEN r ELSE call[d]
      BY <2>a
    <3>2. ASSUME NEW f \in Families, Live(f)', Of(kept[m], f) PROVE Live(f) /\ Underway(f) = {}
      BY <3>2, <2>1, <2>a DEF Live, Of, Underway
    <3>3. ASSUME NEW f \in Families, Live(f)' PROVE
            Live(f) /\ Underway(f)' = IF Of(kept[m], f) THEN {c} ELSE Underway(f)
      BY <3>1, <3>2, <3>3, <2>1, <2>a DEF Live, Of, Underway
    <3> QED BY <3>1, <3>2, <3>3, <2>1, <2>a DEF Current, Stored, Of, Underway, Asks
  <2>b. CASE ~(onWeb /\ kept[m] # NoPair)
    BY <2>b DEF Current, NoTokenYet, Waits, OneFlight, Stored, Live, Of, Underway, Asks
  <2> QED BY <2>a, <2>b
<1>5. Stored'
  BY DEF Stored, NoTokenYet, Waits, OneFlight, Current, OneOwner, Live, Of, Has, Underway, Asks
<1>6. OneOwner' BY DEF OneOwner, NoTokenYet, Waits, Live, Of, Has
<1>7. OtherFamily' BY DEF OtherFamily, NoTokenYet, Waits, OneFlight, Live, Of, Underway
<1>8. RevokedForAReason' BY DEF RevokedForAReason, Current, Waits, Live, Underway, Asks
<1> QED BY <1>t, <1>1, <1>2, <1>3, <1>4, <1>5, <1>6, <1>7, <1>8

LEMMA AcceptedStep ==
  ASSUME SessionInv, NEW c \in Callers, Accepted(c)
  PROVE  SessionInv'
<1> USE SessionAssumption, NoPairAssumption
        DEF SessionInv, SessionTypeOK, Accepted, InMemory, NoCall, blameVars, clientVars
<1>p. call[c].of \in Managers /\ call[c].reply \in Tokens /\ call[c].reply # NoPair
  BY DEF Waits, Tokens
<1>k. \/ Keep(call[c].of, call[c].reply) /\ UNCHANGED <<disturbed, losses>>
      \/ /\ ~onWeb /\ UNCHANGED kept /\ losses' \in 0 .. MaxLosses
         /\ disturbed' = disturbed \cup (FamilyOf(call[c].reply) \cap FamilyOf(kept[call[c].of]))
  BY DEF Persist, Loss
<1>t. SessionTypeOK'
  BY <1>p, <1>k DEF Keep, FamilyOf, Pairs, Tokens
<1> USE <1>k DEF Keep, FamilyOf
<1>1. NoTokenYet' BY DEF NoTokenYet, Waits, Of
<1>2. Waits' BY DEF Waits
<1>3. OneFlight' BY DEF OneFlight, Waits, OneOwner, OtherFamily, Live, Of, Has, Underway, Refreshing
<1>4. Current' BY DEF Current, NoTokenYet, Waits, OneFlight, Stored, Live, Of, Underway, Asks
<1>5. Stored'
  <2> DEFINE p == call[c].reply
  <2>1. ASSUME NEW f \in Families, Live(f), f # p.family, Underway(f)' = {} PROVE Underway(f) = {}
    BY <2>1 DEF Underway, Waits
  <2>2. Live(p.family) => p.n = serial[p.family] /\ p.family \in Families
    BY DEF Current, Waits, Live, Underway, Asks, Pairs
  <2>3. ASSUME NEW f \in Families, Live(f), f = p.family, ~onWeb,
               NEW n \in Managers, Of(tokens[n], f) \/ Of(kept[n], f)
        PROVE n = call[c].of
    <3>1. call[c].of \in Managers /\ Of(call[c].sent, f)
      BY <2>3 DEF Waits, Of
    <3>2. Has(n, f) /\ Has(call[c].of, f)
      BY <3>1, <2>3 DEF Has
    <3> QED BY <3>1, <3>2, <2>3 DEF OneOwner
  <2>4. CASE Keep(call[c].of, call[c].reply) /\ UNCHANGED <<disturbed, losses>>
    BY <2>1, <2>2, <2>3, <2>4 DEF Stored, Live, Of
  <2>5. CASE /\ ~onWeb /\ UNCHANGED kept
             /\ disturbed' = disturbed \cup (FamilyOf(p) \cap FamilyOf(kept[call[c].of]))
    <3>1. /\ UNCHANGED <<onWeb, serial, revoked, kept>> /\ call[c].of \in Managers /\ p # NoPair
          /\ \A n \in Managers : tokens'[n] = IF n = call[c].of THEN p ELSE tokens[n]
      BY <2>5, <1>p
    <3>2. ASSUME NEW f \in Families, Live(f)', Underway(f)' = {}, NEW n \in Managers
          PROVE  /\ Of(kept[n], f) => kept[n].n = serial[f]
                 /\ Of(tokens'[n], f) => tokens'[n].n = serial[f]
      <4>1. Live(f) BY <2>5, <3>1, <3>2 DEF Live
      <4>2. CASE f # p.family
        <5>1. Underway(f) = {} BY <2>1, <3>2, <4>1, <4>2
        <5> QED BY <5>1, <3>1, <4>1, <4>2, <2>5 DEF Stored, Of
      <4>3. CASE f = p.family
        <5>1. Of(kept[n], f) => FALSE
          <6> SUFFICES ASSUME Of(kept[n], f) PROVE FALSE OBVIOUS
          <6>1. n = call[c].of BY <2>3, <2>5, <4>1, <4>3
          <6>2. f \in disturbed' BY <6>1, <2>5, <3>1, <4>3 DEF Of, FamilyOf
          <6> QED BY <6>2, <3>2 DEF Live
        <5>2. Of(tokens'[n], f) => tokens'[n] = p
          BY <2>3, <2>5, <3>1, <4>1, <4>3
        <5> QED BY <2>2, <4>3, <4>1, <5>1, <5>2
      <4> QED BY <4>2, <4>3
    <3> QED BY <2>5, <3>1, <3>2 DEF Stored
  <2> QED BY <2>4, <2>5, <1>k
<1>6. OneOwner' BY DEF OneOwner, NoTokenYet, Waits, Live, Of, Has
<1>7. OtherFamily' BY DEF OtherFamily, NoTokenYet, Waits, OneFlight, Live, Of, Underway
<1>8. RevokedForAReason' BY DEF RevokedForAReason, Current, Waits, Live, Underway, Asks
<1> QED BY <1>t, <1>1, <1>2, <1>3, <1>4, <1>5, <1>6, <1>7, <1>8

LEMMA RejectedStep ==
  ASSUME SessionInv, NEW c \in Callers, Rejected(c)
  PROVE  SessionInv'
<1> USE SessionAssumption, NoPairAssumption
        DEF SessionInv, SessionTypeOK, Rejected, InMemory, Keep, NoCall, blameVars, clientVars
<1>k. \/ UNCHANGED <<kept, disturbed, losses>>
      \/ Keep(call[c].of, NoPair) /\ UNCHANGED <<disturbed, losses>>
      \/ ~onWeb /\ UNCHANGED <<kept, disturbed>> /\ losses' \in 0 .. MaxLosses
  BY DEF Persist, Loss, FamilyOf
<1> USE <1>k
<1>t. SessionTypeOK' BY DEF Pairs
<1>1. NoTokenYet' BY DEF NoTokenYet, Waits, Of
<1>2. Waits' BY DEF Waits
<1>3. OneFlight' BY DEF OneFlight, Waits, OneOwner, OtherFamily, Live, Of, Has, Underway, Refreshing
<1>4. Current' BY DEF Current, NoTokenYet, Waits, OneFlight, Stored, Live, Of, Underway, Asks
<1>5. Stored'
  BY DEF Stored, NoTokenYet, Waits, OneFlight, Current, OneOwner, Live, Of, Has, Underway, Asks
<1>6. OneOwner' BY DEF OneOwner, NoTokenYet, Waits, Live, Of, Has
<1>7. OtherFamily' BY DEF OtherFamily, NoTokenYet, Waits, OneFlight, Live, Of, Underway
<1>8. RevokedForAReason' BY DEF RevokedForAReason, Current, Waits, Live, Underway, Asks
<1> QED BY <1>t, <1>1, <1>2, <1>3, <1>4, <1>5, <1>6, <1>7, <1>8

LEMMA RefreshLostStep ==
  ASSUME SessionInv, NEW c \in Callers, RefreshLost(c)
  PROVE  SessionInv'
<1> USE SessionAssumption, NoPairAssumption
        DEF SessionInv, SessionTypeOK, RefreshLost, InMemory, Keep, FamilyOf,
            Loss, NoCall, blameVars, clientVars
<1>t. SessionTypeOK' BY DEF Pairs
<1>1. NoTokenYet' BY DEF NoTokenYet, Waits, Of
<1>2. Waits' BY DEF Waits
<1>3. OneFlight' BY DEF OneFlight, Waits, OneOwner, OtherFamily, Live, Of, Has, Underway, Refreshing
<1>4. Current' BY DEF Current, NoTokenYet, Waits, OneFlight, Stored, Live, Of, Underway, Asks
<1>5. Stored'
  <2>1. /\ UNCHANGED <<onWeb, serial, revoked>>
        /\ \A m \in Managers : tokens'[m] \in {tokens[m], NoPair} /\ kept'[m] \in {kept[m], NoPair}
    OBVIOUS
  <2>2. ASSUME NEW f \in Families, Live(f)', Underway(f)' = {} PROVE Live(f) /\ Underway(f) = {}
    <3>1. Live(f) /\ c \notin Underway(f) BY <2>2 DEF Live, Underway
    <3>2. \A d \in Callers \ {c} : call'[d] = call[d] OBVIOUS
    <3> QED BY <3>1, <3>2, <2>2 DEF Underway
  <2> QED BY <2>1, <2>2 DEF Stored, Of
<1>6. OneOwner' BY DEF OneOwner, NoTokenYet, Waits, Live, Of, Has
<1>7. OtherFamily' BY DEF OtherFamily, NoTokenYet, Waits, OneFlight, Live, Of, Underway
<1>8. RevokedForAReason' BY DEF RevokedForAReason, Current, Waits, Live, Underway, Asks
<1> QED BY <1>t, <1>1, <1>2, <1>3, <1>4, <1>5, <1>6, <1>7, <1>8

LEMMA SignOutStep ==
  ASSUME SessionInv, NEW m \in Managers, SignOut(m)
  PROVE  SessionInv'
<1> USE SessionAssumption, NoPairAssumption
        DEF SessionInv, SessionTypeOK, SignOut, NoLeave, blameVars, clientVars
<1>t. SessionTypeOK' BY DEF Pairs
<1>1. NoTokenYet' BY DEF NoTokenYet, Waits, Of
<1>2. Waits' BY DEF Waits
<1>3. OneFlight' BY DEF OneFlight, Waits, OneOwner, OtherFamily, Live, Of, Has, Underway, Refreshing
<1>4. Current' BY DEF Current, NoTokenYet, Waits, OneFlight, Stored, Live, Of, Underway, Asks
<1>5. Stored'
  BY DEF Stored, NoTokenYet, Waits, OneFlight, Current, OneOwner, Live, Of, Has, Underway, Asks
<1>6. OneOwner' BY DEF OneOwner, NoTokenYet, Waits, Live, Of, Has
<1>7. OtherFamily' BY DEF OtherFamily, NoTokenYet, Waits, OneFlight, Live, Of, Underway
<1>8. RevokedForAReason' BY DEF RevokedForAReason, Current, Waits, Live, Underway, Asks
<1> QED BY <1>t, <1>1, <1>2, <1>3, <1>4, <1>5, <1>6, <1>7, <1>8

LEMMA SendRevokeStep ==
  ASSUME SessionInv, NEW m \in Managers, SendRevoke(m)
  PROVE  SessionInv'
<1> USE SessionAssumption, NoPairAssumption
        DEF SessionInv, SessionTypeOK, SendRevoke, NoLeave, blameVars, clientVars
<1>t. SessionTypeOK' BY DEF Pairs
<1>1. NoTokenYet' BY DEF NoTokenYet, Waits, Of
<1>2. Waits' BY DEF Waits
<1>3. OneFlight' BY DEF OneFlight, Waits, OneOwner, OtherFamily, Live, Of, Has, Underway, Refreshing
<1>4. Current' BY DEF Current, NoTokenYet, Waits, OneFlight, Stored, Live, Of, Underway, Asks
<1>5. Stored'
  BY DEF Stored, NoTokenYet, Waits, OneFlight, Current, OneOwner, Live, Of, Has, Underway, Asks
<1>6. OneOwner' BY DEF OneOwner, NoTokenYet, Waits, Live, Of, Has
<1>7. OtherFamily' BY DEF OtherFamily, NoTokenYet, Waits, OneFlight, Live, Of, Underway
<1>8. RevokedForAReason' BY DEF RevokedForAReason, Current, Waits, Live, Underway, Asks
<1> QED BY <1>t, <1>1, <1>2, <1>3, <1>4, <1>5, <1>6, <1>7, <1>8

LEMMA RevokeLostStep ==
  ASSUME SessionInv, NEW m \in Managers, RevokeLost(m)
  PROVE  SessionInv'
<1> USE SessionAssumption, NoPairAssumption
        DEF SessionInv, SessionTypeOK, RevokeLost, Loss, blameVars, clientVars
<1>t. SessionTypeOK' BY DEF Pairs
<1>1. NoTokenYet' BY DEF NoTokenYet, Waits, Of
<1>2. Waits' BY DEF Waits
<1>3. OneFlight' BY DEF OneFlight, Waits, OneOwner, OtherFamily, Live, Of, Has, Underway, Refreshing
<1>4. Current' BY DEF Current, NoTokenYet, Waits, OneFlight, Stored, Live, Of, Underway, Asks
<1>5. Stored'
  BY DEF Stored, NoTokenYet, Waits, OneFlight, Current, OneOwner, Live, Of, Has, Underway, Asks
<1>6. OneOwner' BY DEF OneOwner, NoTokenYet, Waits, Live, Of, Has
<1>7. OtherFamily' BY DEF OtherFamily, NoTokenYet, Waits, OneFlight, Live, Of, Underway
<1>8. RevokedForAReason' BY DEF RevokedForAReason, Current, Waits, Live, Underway, Asks
<1> QED BY <1>t, <1>1, <1>2, <1>3, <1>4, <1>5, <1>6, <1>7, <1>8

LEMMA LeaveStep ==
  ASSUME SessionInv, NEW m \in Managers, Leave(m)
  PROVE  SessionInv'
<1> USE SessionAssumption, NoPairAssumption
        DEF SessionInv, SessionTypeOK, Leave, InMemory, Keep, Persist, PersistNothing, FamilyOf, Loss,
            NoLeave, blameVars, clientVars
<1>t. SessionTypeOK' BY DEF Pairs
<1>1. NoTokenYet' BY DEF NoTokenYet, Waits, Of
<1>2. Waits' BY DEF Waits
<1>3. OneFlight' BY DEF OneFlight, Waits, OneOwner, OtherFamily, Live, Of, Has, Underway, Refreshing
<1>4. Current' BY DEF Current, NoTokenYet, Waits, OneFlight, Stored, Live, Of, Underway, Asks
<1>5. Stored'
  BY DEF Stored, NoTokenYet, Waits, OneFlight, Current, OneOwner, Live, Of, Has, Underway, Asks
<1>6. OneOwner' BY DEF OneOwner, NoTokenYet, Waits, Live, Of, Has
<1>7. OtherFamily' BY DEF OtherFamily, NoTokenYet, Waits, OneFlight, Live, Of, Underway
<1>8. RevokedForAReason' BY DEF RevokedForAReason, Current, Waits, Live, Underway, Asks
<1> QED BY <1>t, <1>1, <1>2, <1>3, <1>4, <1>5, <1>6, <1>7, <1>8

LEMMA AppClosesStep ==
  ASSUME SessionInv, NEW m \in Managers, AppCloses(m)
  PROVE  SessionInv'
<1> USE SessionAssumption, NoPairAssumption
        DEF SessionInv, SessionTypeOK, AppCloses, InMemory, FamilyOf,
            Loss, NoCall, NoLeave, blameVars, clientVars
<1>t. SessionTypeOK' BY DEF Pairs
<1>1. NoTokenYet' BY DEF NoTokenYet, Waits, Of
<1>2. Waits' BY DEF Waits
<1>3. OneFlight' BY DEF OneFlight, Waits, OneOwner, OtherFamily, Live, Of, Has, Underway, Refreshing
<1>4. Current' BY DEF Current, NoTokenYet, Waits, OneFlight, Stored, Live, Of, Underway, Asks
<1>5. Stored'
  <2>1. ASSUME NEW f \in Families, Live(f)' PROVE Live(f) /\ (Underway(f)' = {} => Underway(f) = {})
    <3>1. ASSUME NEW c \in Callers, c \in Underway(f), call[c].of = m PROVE f \in disturbed'
      BY <3>1 DEF Underway
    <3>2. \A c \in Underway(f) : call[c].of # m
      BY <3>1, <2>1 DEF Live, Underway
    <3>3. \A c \in Callers : call[c].of # m => call'[c] = call[c]
      OBVIOUS
    <3>4. Live(f) BY <2>1 DEF Live
    <3> QED BY <3>2, <3>3, <3>4 DEF Underway
  <2>2. UNCHANGED <<onWeb, serial, kept>> /\ \A n \in Managers : tokens'[n] \in {tokens[n], NoPair}
    OBVIOUS
  <2> QED BY <2>1, <2>2 DEF Stored, Of
<1>6. OneOwner' BY DEF OneOwner, NoTokenYet, Waits, Live, Of, Has
<1>7. OtherFamily' BY DEF OtherFamily, NoTokenYet, Waits, OneFlight, Live, Of, Underway
<1>8. RevokedForAReason' BY DEF RevokedForAReason, Current, Waits, Live, Underway, Asks
<1> QED BY <1>t, <1>1, <1>2, <1>3, <1>4, <1>5, <1>6, <1>7, <1>8

LEMMA ServeRefreshStep ==
  ASSUME SessionInv, NEW c \in Callers, ServeRefresh(c)
  PROVE  SessionInv'
<1> DEFINE p == call[c].sent
           q == [p EXCEPT !.n = @ + 1]
           there == IF call[c].at = "asked" THEN "answered" ELSE "restored"
<1> USE SessionAssumption, NoPairAssumption
<1>1. /\ c \in Callers /\ call[c].at \in Asks /\ there \in {"answered", "restored"}
      /\ call[c].at = "asked" <=> there = "answered"
      /\ p \in Tokens
      /\ call \in [Callers -> CallRecords]
      /\ UNCHANGED <<onWeb, tokens, kept, booted, leaving, signedOut, disturbed, losses>>
  BY DEF SessionInv, SessionTypeOK, ServeRefresh, blameVars, AnswerPlace, Asks, CallRecords, CallPlaces, Tokens
<1>2. ASSUME NEW r \in Tokens, Replies(c, r)
      PROVE  /\ call' \in [Callers -> CallRecords]
             /\ call'[c].at = there /\ call'[c].of = call[c].of
             /\ call'[c].sent = p /\ call'[c].reply = r
             /\ \A d \in Callers \ {c} : call'[d] = call[d]
  BY <1>1, <1>2 DEF Replies, AnswerPlace, CallRecords, CallPlaces, Asks
<1>3. \A d \in Callers : /\ d # c => call'[d] = call[d]
                         /\ call'[d].of = call[d].of /\ call'[d].sent = call[d].sent
                         /\ d = c => call'[d].at = there
  <2>1. PICK r \in Tokens : Replies(c, r)
    BY <1>1 DEF ServeRefresh, Tokens, Pairs, SessionInv, SessionTypeOK
  <2> QED BY <2>1, <1>2
<1>m. /\ UNCHANGED <<onWeb, tokens, kept, booted, leaving, signedOut, disturbed>>
      /\ \A m \in Managers : Refreshing(m)' = Refreshing(m)
      /\ \A f \in Families : Underway(f)' = Underway(f)
      /\ \A f \in Families, n \in Managers : Has(n, f)' = Has(n, f)
  BY <1>1, <1>3 DEF Refreshing, Underway, Has, Asks
<1>n. (\A m \in Managers : \A d, e \in Refreshing(m) : d = e)'
  BY <1>m DEF SessionInv, OneFlight
<1> HIDE DEF there
<1> USE DEF SessionInv
<1>4. CASE FamilyOf(p) \subseteq revoked /\ Replies(c, NoPair) /\ UNCHANGED <<serial, revoked>>
  <2>1. \A f \in Families : Live(f)' = Live(f) /\ (Live(f) => c \notin Underway(f))
    BY <1>1, <1>4 DEF Live, FamilyOf, Underway, Tokens
  <2>2. /\ call' \in [Callers -> CallRecords]
        /\ call'[c].at = there /\ call'[c].reply = NoPair
        /\ \A d \in Callers \ {c} : call'[d] = call[d]
    BY <1>2, <1>4 DEF Tokens
  <2>t. SessionTypeOK' BY <2>2, <1>1, <1>4 DEF SessionTypeOK, CallRecords, CallPlaces, Tokens
  <2>a. NoTokenYet' BY <1>3, <1>m, <1>4 DEF NoTokenYet, Of
  <2>b. Waits' BY <2>2, <1>1, <1>3, <1>m DEF Waits, Asks
  <2>c. OneFlight'
    <3>1. \A f \in Families : Live(f)' => \A d, e \in Underway(f)' : d = e
      <4> SUFFICES ASSUME NEW f \in Families, Live(f)', NEW d \in Underway(f)', NEW e \in Underway(f)'
                   PROVE  d = e
        OBVIOUS
      <4>1. Live(f) BY <2>1
      <4>2. d \in Underway(f) /\ e \in Underway(f) BY <1>3 DEF Underway
      <4> QED BY <4>1, <4>2 DEF OneFlight
    <3> QED BY <3>1, <1>n DEF OneFlight
  <2>d. Current' BY <2>1, <2>2, <1>3, <1>m, <1>4 DEF Current, Underway
  <2>e. Stored' BY <2>1, <1>m, <1>4 DEF Stored, Of
  <2>f. OneOwner' BY <2>1, <1>m DEF OneOwner
  <2>g. OtherFamily' BY <2>1, <2>2, <1>1, <1>3, <1>m DEF OtherFamily, Of, Underway
  <2>h. RevokedForAReason' BY <1>4, <1>m DEF RevokedForAReason
  <2> QED BY <2>t, <2>a, <2>b, <2>c, <2>d, <2>e, <2>f, <2>g, <2>h
<1>5. CASE /\ p # NoPair /\ p.n # serial[p.family]
           /\ revoked' = revoked \cup {p.family}
           /\ Replies(c, NoPair) /\ UNCHANGED serial
  <2>1. /\ p.family \in Families /\ p.family \in disturbed \cup revoked
        /\ \A f \in Families : (Live(f)' => Live(f)) /\ (Live(f)' => c \notin Underway(f))
    <3>1. p.family \in Families BY <1>1, <1>5 DEF Tokens, Pairs
    <3>2. c \in Underway(p.family) BY <1>1, <1>5 DEF Underway
    <3>3. ~Live(p.family) BY <3>1, <3>2, <1>1, <1>5 DEF Current
    <3> QED BY <3>1, <3>3, <1>1, <1>5 DEF Live, Underway
  <2>2. /\ call' \in [Callers -> CallRecords]
        /\ call'[c].at = there /\ call'[c].reply = NoPair
        /\ \A d \in Callers \ {c} : call'[d] = call[d]
    BY <1>2, <1>5 DEF Tokens
  <2>t. SessionTypeOK' BY <2>1, <2>2, <1>1, <1>5 DEF SessionTypeOK, CallRecords, CallPlaces, Tokens
  <2>a. NoTokenYet' BY <1>3, <1>m, <1>5 DEF NoTokenYet, Of
  <2>b. Waits' BY <2>2, <1>1, <1>3, <1>m DEF Waits, Asks
  <2>c. OneFlight'
    <3>1. \A f \in Families : Live(f)' => \A d, e \in Underway(f)' : d = e
      <4> SUFFICES ASSUME NEW f \in Families, Live(f)', NEW d \in Underway(f)', NEW e \in Underway(f)'
                   PROVE  d = e
        OBVIOUS
      <4>1. Live(f) BY <2>1
      <4>2. d \in Underway(f) /\ e \in Underway(f) BY <1>3 DEF Underway
      <4> QED BY <4>1, <4>2 DEF OneFlight
    <3> QED BY <3>1, <1>n DEF OneFlight
  <2>d. Current' BY <2>1, <2>2, <1>3, <1>m, <1>5 DEF Current, Underway
  <2>e. Stored' BY <2>1, <1>m, <1>5 DEF Stored, Of
  <2>f. OneOwner' BY <2>1, <1>m DEF OneOwner
  <2>g. OtherFamily' BY <2>1, <2>2, <1>1, <1>3, <1>m DEF OtherFamily, Of, Underway
  <2>h. RevokedForAReason' BY <2>1, <1>5, <1>m DEF RevokedForAReason
  <2> QED BY <2>t, <2>a, <2>b, <2>c, <2>d, <2>e, <2>f, <2>g, <2>h
<1>6. CASE /\ p # NoPair /\ p.n = serial[p.family] /\ p.n < MaxRotations
           /\ serial' = [serial EXCEPT ![p.family] = @ + 1]
           /\ Replies(c, q) /\ UNCHANGED revoked
  <2>1. /\ p.family \in Families /\ q \in Pairs /\ q # NoPair /\ c \in Underway(p.family)
        /\ q.family = p.family /\ q.n = serial'[p.family]
        /\ serial' \in [Families -> 0 .. MaxRotations] /\ serial'[p.family] # 0
        /\ \A f \in Families \ {p.family} : serial'[f] = serial[f]
        /\ \A f \in Families : Live(f)' = Live(f)
    BY <1>1, <1>6 DEF Tokens, Pairs, SessionTypeOK, Underway, Live
  <2>2. /\ call' \in [Callers -> CallRecords]
        /\ call'[c].at = there /\ call'[c].reply = q /\ call'[c].sent = p
        /\ \A d \in Callers \ {c} : call'[d] = call[d]
    BY <1>2, <1>6, <2>1 DEF Tokens
  <2> HIDE DEF q
  <2>t. SessionTypeOK' BY <2>1, <2>2, <1>1, <1>6 DEF SessionTypeOK, CallRecords, CallPlaces, Tokens
  <2>a. NoTokenYet' BY <2>1, <1>3, <1>m DEF NoTokenYet, Of
  <2>b. Waits' BY <2>1, <2>2, <1>1, <1>3, <1>6, <1>m DEF Waits, Asks
  <2>c. OneFlight'
    <3>1. \A f \in Families : Live(f)' => \A d, e \in Underway(f)' : d = e
      <4> SUFFICES ASSUME NEW f \in Families, Live(f)', NEW d \in Underway(f)', NEW e \in Underway(f)'
                   PROVE  d = e
        OBVIOUS
      <4>1. Live(f) BY <2>1
      <4>2. d \in Underway(f) /\ e \in Underway(f) BY <1>3 DEF Underway
      <4> QED BY <4>1, <4>2 DEF OneFlight
    <3> QED BY <3>1, <1>n DEF OneFlight
  <2>d. Current'
    <3>1. \A f \in Families : Live(f) => \A d \in Underway(f) : d = c \/ f # p.family
      BY <2>1 DEF OneFlight
    <3>2. \A f \in Families : c \in Underway(f) => f = p.family
      BY DEF Underway
    <3>3. there \notin Asks BY <1>1 DEF Asks
    <3> QED BY <3>1, <3>2, <3>3, <2>1, <2>2, <1>3, <1>m DEF Current, Underway
  <2>e. Stored' BY <2>1, <1>m DEF Stored, Of
  <2>f. OneOwner' BY <2>1, <1>m DEF OneOwner
  <2>g. OtherFamily'
    <3>1. \A d \in Callers : call'[d].at \in {"restoring", "restored"}
                             => call[d].at \in {"restoring", "restored"}
      BY <2>2, <1>1 DEF Asks
    <3> QED BY <3>1, <2>1, <1>3, <1>m DEF OtherFamily, Of
  <2>h. RevokedForAReason' BY <1>6, <1>m DEF RevokedForAReason
  <2> QED BY <2>t, <2>a, <2>b, <2>c, <2>d, <2>e, <2>f, <2>g, <2>h
<1> QED BY <1>4, <1>5, <1>6 DEF ServeRefresh

LEMMA ServeRevokeStep ==
  ASSUME SessionInv, NEW m \in Managers, ServeRevoke(m)
  PROVE  SessionInv'
<1> USE SessionAssumption, NoPairAssumption
        DEF SessionInv, SessionTypeOK, ServeRevoke, Keep, blameVars, clientVars
<1>f. leaving[m].pair \in Pairs BY DEF Waits
<1>t. SessionTypeOK' BY <1>f DEF Pairs
<1>1. NoTokenYet' BY DEF NoTokenYet, Waits, Of
<1>2. Waits' BY DEF Waits
<1>3. OneFlight' BY DEF OneFlight, Waits, OneOwner, OtherFamily, Live, Of, Has, Underway, Refreshing
<1>4. Current' BY DEF Current, NoTokenYet, Waits, OneFlight, Stored, Live, Of, Underway, Asks
<1>5. Stored'
  BY DEF Stored, NoTokenYet, Waits, OneFlight, Current, OneOwner, Live, Of, Has, Underway, Asks
<1>6. OneOwner' BY DEF OneOwner, NoTokenYet, Waits, Live, Of, Has
<1>7. OtherFamily' BY DEF OtherFamily, NoTokenYet, Waits, OneFlight, Live, Of, Underway
<1>8. RevokedForAReason' BY DEF RevokedForAReason, Current, Waits, Live, Underway, Asks
<1> QED BY <1>t, <1>1, <1>2, <1>3, <1>4, <1>5, <1>6, <1>7, <1>8

LEMMA SessionStep == SessionInv /\ [SessionNext]_sessionVars => SessionInv'
<1> SUFFICES ASSUME SessionInv, [SessionNext]_sessionVars PROVE SessionInv'
  OBVIOUS
<1>1. CASE UNCHANGED sessionVars
  BY <1>1 DEF sessionVars, SessionInv, SessionTypeOK, NoTokenYet, Waits, OneFlight, Current, Stored,
     OneOwner, OtherFamily, RevokedForAReason, Live, Of, Has, Underway, Refreshing, Asks
<1> QED
  BY <1>1, SignInStep, RefreshStep, RestoreSessionStep, AcceptedStep, RejectedStep,
     RefreshLostStep, SignOutStep, SendRevokeStep, RevokeLostStep, LeaveStep, AppClosesStep,
     ServeRefreshStep, ServeRevokeStep DEF SessionNext

(* Only the user ends a session, whatever callers ask at once and apps are started
   again; excepted is a family that lost a message, that two tabs refreshed at
   once, or of which a store kept a rotated token. *)
THEOREM OnlyTheUserEndsASession == SessionSpec => []RevokedForAReason
<1>1. SessionInv => RevokedForAReason BY DEF SessionInv
<1> QED BY <1>1, SessionInitially, SessionStep, PTL DEF SessionSpec

(* The type invariant, for every set of managers, callers and families. *)
THEOREM SessionTyped == SessionSpec => []SessionTypeOK
<1>1. SessionInv => SessionTypeOK BY DEF SessionInv
<1> QED BY <1>1, SessionInitially, SessionStep, PTL DEF SessionSpec

(* A family that is refreshed from two managers at once is one of two tabs: on a
   device its tokens stay in one manager's hands, whatever becomes of it. Without
   a loss, then, nothing disturbs a family but a second tab. *)
OneHome ==
  ~onWeb => \A f \in Families : \A m, n \in Managers : Has(m, f) /\ Has(n, f) => m = n

Calm == OneApp /\ losses = 0 => disturbed = {}

(* No manager gets a token of a family it has none of. *)
LEMMA AtHome ==
  ASSUME OneHome, onWeb' = onWeb,
         ~onWeb => \A n \in Managers, f \in Families : Has(n, f)' => Has(n, f)
  PROVE  OneHome'
BY DEF OneHome

LEMMA RefreshAtHome ==
  ASSUME SessionInv, OneHome, NEW c \in Callers, NEW m \in Managers, Refresh(c, m)
  PROVE  OneHome'
<1>t. call \in [Callers -> CallRecords]
  BY DEF SessionInv, SessionTypeOK, CallRecords, CallPlaces, Tokens
<1>1. onWeb' = onWeb /\ tokens' = tokens /\ kept' = kept
  BY DEF Refresh
<1>2. ASSUME ~onWeb, NEW d \in Callers
      PROVE  \/ call'[d] = call[d]
             \/ call'[d].of = m /\ call'[d].sent = tokens[m]
  BY <1>t, <1>2 DEF Refresh, Sends
<1>3. ASSUME ~onWeb, NEW n \in Managers, NEW f \in Families, Has(n, f)'
      PROVE  Has(n, f)
  <2>1. CASE Of(tokens[n], f) \/ Of(kept[n], f) BY <2>1 DEF Has
  <2>2. CASE ~(Of(tokens[n], f) \/ Of(kept[n], f))
    <3>1. PICK d \in Callers : call'[d].of = n /\ Of(call'[d].sent, f)
      BY <1>1, <1>3, <2>2 DEF Has, Of
    <3>2. call'[d] = call[d] BY <1>2, <1>3, <2>2, <3>1
    <3> QED BY <3>1, <3>2 DEF Has
  <2> QED BY <2>1, <2>2
<1> QED BY <1>1, <1>3, AtHome

LEMMA RestoreAtHome ==
  ASSUME SessionInv, OneHome, NEW c \in Callers, NEW m \in Managers, RestoreSession(c, m)
  PROVE  OneHome'
<1>t. tokens \in [Managers -> Tokens]
  BY DEF SessionInv, SessionTypeOK, Tokens
<1>1. onWeb' = onWeb /\ kept' = kept
  BY DEF RestoreSession
<1>2. ~onWeb => call' = call /\ tokens' = [tokens EXCEPT ![m] = kept[m]]
  BY DEF RestoreSession, InMemory
<1>3. ASSUME ~onWeb, NEW n \in Managers, NEW f \in Families, Has(n, f)'
      PROVE  Has(n, f)
  <2>1. tokens'[n] = tokens[n] \/ tokens'[n] = kept[n] BY <1>t, <1>2, <1>3
  <2> QED BY <1>1, <1>2, <1>3, <2>1 DEF Has, Of
<1> QED BY <1>1, <1>3, AtHome

LEMMA CloseAtHome ==
  ASSUME SessionInv, OneHome, NEW m \in Managers, AppCloses(m)
  PROVE  OneHome'
<1>t. tokens \in [Managers -> Tokens]
  BY DEF SessionInv, SessionTypeOK, Tokens
<1>1. onWeb' = onWeb /\ kept' = kept /\ tokens' = [tokens EXCEPT ![m] = NoPair]
  BY DEF AppCloses, InMemory
<1>2. \A d \in Callers : call'[d] = call[d] \/ call'[d].sent = NoPair
  BY DEF AppCloses, NoCall
<1>3. ASSUME NEW n \in Managers, NEW f \in Families, Has(n, f)'
      PROVE  Has(n, f)
  <2>1. tokens'[n] = tokens[n] \/ ~Of(tokens'[n], f) BY <1>t, <1>1 DEF Of
  <2>2. CASE \E d \in Callers : call'[d].of = n /\ Of(call'[d].sent, f)
    <3>1. PICK d \in Callers : call'[d].of = n /\ Of(call'[d].sent, f) BY <2>2
    <3>2. call'[d] = call[d] BY <1>2, <3>1 DEF Of
    <3> QED BY <3>1, <3>2 DEF Has
  <2>3. CASE Of(tokens[n], f) \/ Of(kept[n], f) BY <2>3 DEF Has
  <2>4. CASE Of(tokens'[n], f) \/ Of(kept'[n], f) BY <1>1, <2>1, <2>3, <2>4
  <2> QED BY <1>3, <2>2, <2>4 DEF Has, Of
<1> QED BY <1>1, <1>3, AtHome

LEMMA AcceptAtHome ==
  ASSUME SessionInv, OneHome, NEW c \in Callers, Accepted(c)
  PROVE  OneHome'
<1> DEFINE m == call[c].of
           p == call[c].reply
<1>t. tokens \in [Managers -> Tokens] /\ call \in [Callers -> CallRecords]
  BY DEF SessionInv, SessionTypeOK, Tokens, CallRecords, CallPlaces
<1>1. /\ onWeb' = onWeb /\ tokens' = [tokens EXCEPT ![m] = p]
      /\ \/ kept' = [n \in Managers |-> IF n = m \/ onWeb THEN p ELSE kept[n]]
         \/ kept' = kept
      /\ call' = [call EXCEPT ![c] = NoCall]
  BY DEF Accepted, InMemory, Keep, Persist
<1>2. ASSUME NEW f \in Families, Of(p, f) PROVE Has(m, f)
  BY <1>2 DEF SessionInv, Waits, Of, Has
<1>3. ASSUME ~onWeb, NEW n \in Managers, NEW f \in Families, Has(n, f)'
      PROVE  Has(n, f)
  <2>1. CASE \E d \in Callers : call'[d].of = n /\ Of(call'[d].sent, f)
    <3>1. PICK d \in Callers : call'[d].of = n /\ Of(call'[d].sent, f) BY <2>1
    <3>2. call'[d] = call[d] BY <1>t, <1>1, <3>1 DEF Of, NoCall
    <3> QED BY <3>1, <3>2 DEF Has
  <2>2. CASE Of(tokens'[n], f) \/ Of(kept'[n], f)
    <3>1. CASE n = m
      <4>1. tokens'[n] = p /\ kept'[n] \in {p, kept[n]} BY <1>t, <1>1, <3>1
      <4> QED BY <1>2, <2>2, <3>1, <4>1 DEF Has
    <3>2. CASE n # m
      <4>1. tokens'[n] = tokens[n] /\ kept'[n] = kept[n] BY <1>t, <1>1, <1>3, <3>2
      <4> QED BY <2>2, <4>1 DEF Has
    <3> QED BY <3>1, <3>2
  <2> QED BY <1>3, <2>1, <2>2 DEF Has, Of
<1> QED BY <1>1, <1>3, AtHome

LEMMA ServeAtHome ==
  ASSUME SessionInv, OneHome, NEW c \in Callers, ServeRefresh(c)
  PROVE  OneHome'
<1>t. call \in [Callers -> CallRecords]
  BY DEF SessionInv, SessionTypeOK, Tokens, CallRecords, CallPlaces
<1>1. UNCHANGED <<onWeb, tokens, kept>> BY DEF ServeRefresh
<1>2. \E p : call' = [call EXCEPT ![c].at = AnswerPlace(@), ![c].reply = p]
  BY DEF ServeRefresh, Replies
<1>3. \A d \in Callers : call'[d].of = call[d].of /\ call'[d].sent = call[d].sent
  BY <1>t, <1>2 DEF CallRecords
<1>4. ASSUME NEW n \in Managers, NEW f \in Families, Has(n, f)' PROVE Has(n, f)
  BY <1>1, <1>3, <1>4 DEF Has, Of
<1> QED BY <1>1, <1>4, AtHome

LEMMA HomeStep == SessionInv /\ OneHome /\ [SessionNext]_sessionVars => OneHome'
<1> SUFFICES ASSUME SessionInv, OneHome, [SessionNext]_sessionVars PROVE OneHome'
  OBVIOUS
<1> USE SessionAssumption, NoPairAssumption
        DEF SessionInv, SessionTypeOK, InMemory, Keep, Persist, Loss, NoCall, blameVars, clientVars, OneHome, Has, Of
<1>1. CASE UNCHANGED sessionVars BY <1>1 DEF sessionVars
<1>2. ASSUME NEW m \in Managers, NEW f \in Families, SignIn(m, f) PROVE OneHome'
  BY <1>2 DEF SignIn, NoTokenYet
<1>3. ASSUME NEW c \in Callers, NEW m \in Managers, Refresh(c, m) PROVE OneHome'
  BY <1>3, RefreshAtHome
<1>4. ASSUME NEW c \in Callers, NEW m \in Managers, RestoreSession(c, m) PROVE OneHome'
  BY <1>4, RestoreAtHome
<1>5. ASSUME NEW c \in Callers, Accepted(c) PROVE OneHome'
  BY <1>5, AcceptAtHome
<1>6. ASSUME NEW c \in Callers, Rejected(c) PROVE OneHome'
  <2>1. /\ UNCHANGED kept \/ Keep(call[c].of, NoPair)
        /\ call' = [call EXCEPT ![c] = NoCall] /\ onWeb' = onWeb
        /\ UNCHANGED tokens \/ InMemory(call[c].of, NoPair)
    BY <1>6 DEF Rejected, Persist
  <2>2. ASSUME NEW n \in Managers, NEW f \in Families, Has(n, f)' PROVE Has(n, f)
    BY <2>1, <2>2
  <2> QED BY <2>1, <2>2, AtHome
<1>7. ASSUME NEW c \in Callers, RefreshLost(c) PROVE OneHome'
  BY <1>7 DEF RefreshLost
<1>8. ASSUME NEW m \in Managers, SignOut(m) \/ SendRevoke(m) \/ RevokeLost(m) PROVE OneHome'
  BY <1>8 DEF SignOut, SendRevoke, RevokeLost
<1>9. ASSUME NEW m \in Managers, Leave(m) PROVE OneHome'
  BY <1>9 DEF Leave, PersistNothing
<1>10. ASSUME NEW m \in Managers, ServeRevoke(m) PROVE OneHome'
  BY <1>10 DEF ServeRevoke
<1>11. ASSUME NEW m \in Managers, AppCloses(m) PROVE OneHome'
  BY <1>11, CloseAtHome
<1>12. ASSUME NEW c \in Callers, ServeRefresh(c) PROVE OneHome'
  BY <1>12, ServeAtHome
<1> QED
  BY <1>1, <1>2, <1>3, <1>4, <1>5, <1>6, <1>7, <1>8, <1>9, <1>10, <1>11, <1>12 DEF SessionNext

LEMMA SendsCalmly ==
  ASSUME SessionInv, OneHome, OneApp, disturbed = {}, NEW c \in Callers, NEW m \in Managers,
         NEW there \in Asks, NEW p \in Tokens, onWeb \/ p = tokens[m], Sends(c, m, there, p)
  PROVE  disturbed' = {}
<1>1. ASSUME NEW f \in Families, p # NoPair, p.family = f, NEW d \in Underway(f), call[d].of # m
      PROVE  FALSE
  <2>1. d \in Callers /\ call[d].sent # NoPair /\ call[d].sent.family = f
    BY DEF Underway
  <2>2. call[d].of \in Managers
    BY <2>1 DEF SessionInv, SessionTypeOK, Waits, NoCall
  <2>3. CASE onWeb BY <1>1, <2>2, <2>3 DEF OneApp
  <2>4. CASE ~onWeb
    BY <1>1, <2>1, <2>2, <2>4 DEF OneHome, Has, Of
  <2> QED BY <2>3, <2>4
<1> QED BY <1>1 DEF Sends

LEMMA CalmStep == SessionInv /\ OneHome /\ Calm /\ [SessionNext]_sessionVars => Calm'
<1> SUFFICES ASSUME SessionInv, OneHome, Calm, [SessionNext]_sessionVars, OneApp', losses' = 0
             PROVE  disturbed' = {}
  BY DEF Calm
<1>t. /\ tokens \in [Managers -> Tokens] /\ kept \in [Managers -> Tokens]
      /\ losses \in Nat
  BY SessionAssumption DEF SessionInv, SessionTypeOK, Tokens
<1>a. onWeb' = onWeb
  BY DEF SessionNext, sessionVars, clientVars, blameVars, SignIn, Refresh, RestoreSession, SignOut,
     SendRevoke, ServeRevoke, RevokeLost, Leave, AppCloses, ServeRefresh, Accepted, Rejected,
     RefreshLost, Persist, PersistNothing, Loss
<1>b. losses' = losses \/ Loss
  BY DEF SessionNext, sessionVars, clientVars, blameVars, SignIn, Refresh, RestoreSession, SignOut,
     SendRevoke, ServeRevoke, RevokeLost, Leave, AppCloses, ServeRefresh, Accepted, Rejected,
     RefreshLost, Persist, PersistNothing
<1>c. OneApp /\ losses = 0 /\ disturbed = {} /\ ~Loss
  BY <1>t, <1>a, <1>b DEF OneApp, Loss, Calm
<1>1. ASSUME NEW c \in Callers, NEW m \in Managers, Refresh(c, m) PROVE disturbed' = {}
  <2> DEFINE p == IF onWeb THEN kept[m] ELSE tokens[m]
  <2>1. Sends(c, m, "asked", p) /\ p \in Tokens /\ (onWeb \/ p = tokens[m])
    BY <1>1, <1>t DEF Refresh
  <2> QED BY <1>c, <2>1, SendsCalmly DEF Asks
<1>2. ASSUME NEW c \in Callers, NEW m \in Managers, RestoreSession(c, m) PROVE disturbed' = {}
  <2>1. CASE onWeb /\ kept[m] # NoPair
    <3>1. Sends(c, m, "restoring", kept[m]) BY <1>2, <2>1 DEF RestoreSession
    <3> QED BY <1>c, <1>t, <2>1, <3>1, SendsCalmly DEF Asks
  <2>2. CASE ~(onWeb /\ kept[m] # NoPair) BY <1>2, <1>c, <2>2 DEF RestoreSession
  <2> QED BY <2>1, <2>2
<1>3. ASSUME NEW m \in Managers,
             \/ \E f \in Families : SignIn(m, f)
             \/ SignOut(m) \/ SendRevoke(m) \/ ServeRevoke(m) \/ RevokeLost(m) \/ Leave(m)
             \/ AppCloses(m)
      PROVE  disturbed' = {}
  BY <1>3, <1>c DEF SignIn, SignOut, SendRevoke, ServeRevoke, RevokeLost, Leave, AppCloses, blameVars, Persist, PersistNothing
<1>4. ASSUME NEW c \in Callers, ServeRefresh(c) \/ Accepted(c) \/ Rejected(c) \/ RefreshLost(c)
      PROVE  disturbed' = {}
  BY <1>4, <1>c DEF ServeRefresh, Accepted, Rejected, RefreshLost, blameVars, Persist
<1> QED BY <1>1, <1>2, <1>3, <1>4, <1>c DEF SessionNext, sessionVars

(* On a device, and in a browser with one tab, no refresh is taken for theft as
   long as no message is lost, no app is closed over one and the secure store
   takes every token: the manager shares its refresh, as it says. *)
THEOREM OneAppIsNeverReused == SessionSpec => []NeverReusedByOneApp
<1> DEFINE J == SessionInv /\ OneHome /\ Calm
<1>1. SessionInit => J
  <2>1. SessionInit => OneHome /\ Calm
    BY DEF SessionInit, OneHome, Calm, Has, Of, NoCall
  <2> QED BY <2>1, SessionInitially
<1>2. J /\ [SessionNext]_sessionVars => J' BY SessionStep, HomeStep, CalmStep
<1>3. J => NeverReusedByOneApp
  BY DEF SessionInv, RevokedForAReason, Calm, NeverReusedByOneApp, NeverReused
<1> QED BY <1>1, <1>2, <1>3, PTL DEF SessionSpec

-----------------------------------------------------------------------------
(* The sandbox. *)

(* One promise in the in-flight table, and no record while it is there. *)
OneCreation ==
  \A u \in InFlight : record = NoBox /\ \A v \in InFlight : v = u

(* Ids are given once, and "forget" comes after "destroy". *)
Destroyed ==
  /\ running \subseteq made
  /\ record \in made \cup {NoBox}
  /\ \A u \in Uses :
       /\ using[u].at \in {"created", "giveBack"} => using[u].box \in made
       /\ using[u].at \in {"idle", "creating", "waiting"} => using[u].box = NoBox
  /\ \A x \in Resets :
       /\ ending[x].at # "idle" => ending[x].box \in made
       /\ ending[x].at = "forget" => ending[x].box \notin running

BoxInv == SandboxTypeOK /\ OneCreation /\ Destroyed /\ LostForAReason

LEMMA BoxInitially == SandboxInit => BoxInv
BY SandboxAssumption DEF SandboxInit, BoxInv, SandboxTypeOK, OneCreation, Destroyed,
   LostForAReason, Named, NoUse, NoReset, InFlight, Provisioning, MaxTries

UseRecords == [at : Provisioning \cup {"idle", "waiting", "done", "failed"},
               box : Boxes \cup {NoBox}, tries : 0 .. MaxTries]

(* What a use does to its own place. *)
UseGoes(u, there, b) ==
  /\ using' \in [Uses -> UseRecords]
  /\ using'[u].at = there /\ using'[u].box = b
  /\ \A v \in Uses \ {u} : using'[v] = using[v]

LEMMA UseGoesThere ==
  ASSUME using \in [Uses -> UseRecords], record \in Boxes \cup {NoBox}, NEW u \in Uses
  PROVE  /\ Reuse(u) => UseGoes(u, "done", record)
         /\ Join(u) => UseGoes(u, "waiting", using[u].box)
         /\ Provision(u) => UseGoes(u, "creating", using[u].box)
         /\ \A b \in Boxes : using' = [using EXCEPT ![u].at = "created", ![u].box = b]
                            => UseGoes(u, "created", b)
         /\ WriteThrows(u) => UseGoes(u, "giveBack", using[u].box)
         /\ GiveBackFails(u) /\ using[u].tries + 1 < MaxTries
              => UseGoes(u, "giveBack", using[u].box)
         /\ UseAgain(u) => UseGoes(u, "idle", NoBox)
<1> USE DEF UseRecords, Provisioning, MaxTries, NoUse, UseGoes
<1>1. Reuse(u) => UseGoes(u, "done", record) BY DEF Reuse
<1>2. Join(u) => UseGoes(u, "waiting", using[u].box) BY DEF Join
<1>3. Provision(u) => UseGoes(u, "creating", using[u].box) BY DEF Provision
<1>4. ASSUME NEW b \in Boxes, using' = [using EXCEPT ![u].at = "created", ![u].box = b]
      PROVE  UseGoes(u, "created", b)
  BY <1>4
<1>5. WriteThrows(u) => UseGoes(u, "giveBack", using[u].box) BY DEF WriteThrows
<1>6. GiveBackFails(u) /\ using[u].tries + 1 < MaxTries => UseGoes(u, "giveBack", using[u].box)
  BY DEF GiveBackFails
<1>7. UseAgain(u) => UseGoes(u, "idle", NoBox) BY DEF UseAgain
<1> QED BY <1>1, <1>2, <1>3, <1>4, <1>5, <1>6, <1>7

LEMMA SettlesTyped ==
  ASSUME using \in [Uses -> UseRecords], NEW u \in Uses, NEW there \in {"done", "failed"},
         NEW b \in Boxes \cup {NoBox}, Settles(u, there, b)
  PROVE  /\ using' \in [Uses -> UseRecords]
         /\ using'[u].at = there
         /\ \A v \in Uses \ {u} :
              \/ using'[v] = using[v] /\ using[v].at # "waiting"
              \/ using'[v].at = there /\ using[v].at = "waiting"
<1>1. [at |-> there, box |-> b, tries |-> 0] \in UseRecords
  BY DEF UseRecords, MaxTries
<1> QED BY <1>1 DEF Settles

(* The steps of a use. *)
LEMMA UseStep ==
  ASSUME BoxInv, NEW u \in Uses,
         \/ Reuse(u) \/ Join(u) \/ Provision(u) \/ ProviderCreates(u) \/ CreateFails(u)
         \/ WriteRecord(u) \/ WriteThrows(u) \/ GiveBack(u) \/ GiveBackFails(u) \/ UseAgain(u)
  PROVE  BoxInv'
<1>t. /\ using \in [Uses -> UseRecords]
      /\ using[u] = [at |-> using[u].at, box |-> using[u].box, tries |-> using[u].tries]
      /\ using[u].box \in Boxes \cup {NoBox} /\ using[u].tries \in 0 .. MaxTries
  BY DEF BoxInv, SandboxTypeOK, UseRecords
<1>s. /\ record \in Boxes \cup {NoBox}
      /\ running \subseteq Boxes /\ made \subseteq Boxes
      /\ abandoned \subseteq Boxes /\ forgotten \subseteq Boxes /\ overtaken \subseteq Boxes
      /\ ending \in [Resets -> [at : {"idle", "destroy", "forget"}, box : Boxes \cup {NoBox}]]
      /\ mishaps \in 0 .. MaxProviderFaults
      /\ OneCreation /\ Destroyed /\ LostForAReason
  BY DEF BoxInv, SandboxTypeOK
<1>type. ASSUME using' \in [Uses -> UseRecords], record' \in Boxes \cup {NoBox},
                running' \subseteq Boxes, made' \subseteq Boxes, abandoned' \subseteq Boxes,
                forgotten' \subseteq Boxes, ending' = ending, overtaken' = overtaken,
                mishaps' \in 0 .. MaxProviderFaults
         PROVE  SandboxTypeOK'
  BY <1>type, <1>s DEF SandboxTypeOK, UseRecords
<1> USE SandboxAssumption, <1>s DEF OneCreation, Destroyed, LostForAReason, Named, InFlight, Provisioning
<1>1. CASE Reuse(u)
  <2>1. UseGoes(u, "done", record)
    BY <1>1, <1>t, <1>s, UseGoesThere
  <2>2. /\ using' \in [Uses -> UseRecords] /\ using'[u].at = "done" /\ using'[u].box = record
        /\ \A v \in Uses \ {u} : using'[v] = using[v]
    BY <2>1 DEF UseGoes
  <2>3. SandboxTypeOK' BY <2>2, <1>type, <1>1 DEF Reuse, Mishap
  <2>4. OneCreation' BY <2>2, <1>1 DEF Reuse
  <2>5. Destroyed' BY <2>2, <1>1 DEF Reuse
  <2>6. LostForAReason' BY <2>2, <1>1 DEF Reuse
  <2> QED BY <2>3, <2>4, <2>5, <2>6 DEF BoxInv
<1>2. CASE Join(u)
  <2>1. UseGoes(u, "waiting", using[u].box)
    BY <1>2, <1>t, <1>s, UseGoesThere
  <2>2. /\ using' \in [Uses -> UseRecords] /\ using'[u].at = "waiting" /\ using'[u].box = using[u].box
        /\ \A v \in Uses \ {u} : using'[v] = using[v]
    BY <2>1 DEF UseGoes
  <2>3. SandboxTypeOK' BY <2>2, <1>type, <1>2 DEF Join, Mishap
  <2>4. OneCreation' BY <2>2, <1>2 DEF Join
  <2>5. Destroyed' BY <2>2, <1>2 DEF Join
  <2>6. LostForAReason' BY <2>2, <1>2 DEF Join
  <2> QED BY <2>3, <2>4, <2>5, <2>6 DEF BoxInv
<1>3. CASE Provision(u)
  <2>1. UseGoes(u, "creating", using[u].box)
    BY <1>3, <1>t, <1>s, UseGoesThere
  <2>2. /\ using' \in [Uses -> UseRecords] /\ using'[u].at = "creating" /\ using'[u].box = using[u].box
        /\ \A v \in Uses \ {u} : using'[v] = using[v]
    BY <2>1 DEF UseGoes
  <2>3. SandboxTypeOK' BY <2>2, <1>type, <1>3 DEF Provision, Mishap
  <2>4. OneCreation' BY <2>2, <1>3 DEF Provision
  <2>5. Destroyed' BY <2>2, <1>3 DEF Provision
  <2>6. LostForAReason' BY <2>2, <1>3 DEF Provision
  <2> QED BY <2>3, <2>4, <2>5, <2>6 DEF BoxInv
<1>4. CASE ProviderCreates(u)
  <2>1. PICK b \in Boxes \ made : /\ made' = made \cup {b} /\ running' = running \cup {b}
                                 /\ using' = [using EXCEPT ![u].at = "created", ![u].box = b]
    BY <1>4 DEF ProviderCreates
  <2>2. UseGoes(u, "created", b) BY <2>1, <1>t, <1>s, UseGoesThere
  <2>3. /\ using' \in [Uses -> UseRecords] /\ using'[u].at = "created" /\ using'[u].box = b
        /\ \A v \in Uses \ {u} : using'[v] = using[v]
    BY <2>2 DEF UseGoes
  <2>a. /\ using[u].at = "creating"
        /\ UNCHANGED <<record, ending, abandoned, forgotten, overtaken, mishaps>>
    BY <1>4 DEF ProviderCreates
  <2>4. SandboxTypeOK' BY <2>1, <2>3, <2>a, <1>type
  <2>5. OneCreation' BY <2>3, <2>a
  <2>6. Destroyed' BY <2>1, <2>3, <2>a
  <2>7. LostForAReason' BY <2>1, <2>3, <2>a
  <2> QED BY <2>4, <2>5, <2>6, <2>7 DEF BoxInv
<1>5. CASE CreateFails(u)
  <2>2. /\ using' \in [Uses -> UseRecords] /\ using'[u].at = "failed"
        /\ \A v \in Uses \ {u} :
             \/ using'[v] = using[v] /\ using[v].at # "waiting"
             \/ using'[v].at = "failed" /\ using[v].at = "waiting"
    BY <1>t, SettlesTyped, <1>5 DEF CreateFails
  <2>3. SandboxTypeOK' BY <2>2, <1>t, <1>type, <1>5 DEF CreateFails, Mishap
  <2>4. OneCreation' BY <2>2, <1>5 DEF CreateFails
  <2>5. Destroyed' BY <2>2, <1>5 DEF CreateFails
  <2>6. LostForAReason' BY <2>2, <1>5 DEF CreateFails
  <2> QED BY <2>3, <2>4, <2>5, <2>6 DEF BoxInv
<1>6. CASE WriteRecord(u)
  <2>2. /\ using' \in [Uses -> UseRecords] /\ using'[u].at = "done"
        /\ \A v \in Uses \ {u} :
             \/ using'[v] = using[v] /\ using[v].at # "waiting"
             \/ using'[v].at = "done" /\ using[v].at = "waiting"
    BY <1>t, SettlesTyped, <1>6 DEF WriteRecord
  <2>3. SandboxTypeOK' BY <2>2, <1>t, <1>type, <1>6 DEF WriteRecord, Mishap
  <2>4. OneCreation' BY <2>2, <1>6 DEF WriteRecord
  <2>5. Destroyed' BY <2>2, <1>6 DEF WriteRecord
  <2>6. LostForAReason' BY <2>2, <1>6 DEF WriteRecord
  <2> QED BY <2>3, <2>4, <2>5, <2>6 DEF BoxInv
<1>7. CASE WriteThrows(u)
  <2>1. UseGoes(u, "giveBack", using[u].box)
    BY <1>7, <1>t, <1>s, UseGoesThere
  <2>2. /\ using' \in [Uses -> UseRecords] /\ using'[u].at = "giveBack" /\ using'[u].box = using[u].box
        /\ \A v \in Uses \ {u} : using'[v] = using[v]
    BY <2>1 DEF UseGoes
  <2>3. SandboxTypeOK' BY <2>2, <1>type, <1>7 DEF WriteThrows, Mishap
  <2>4. OneCreation' BY <2>2, <1>7 DEF WriteThrows
  <2>5. Destroyed' BY <2>2, <1>7 DEF WriteThrows
  <2>6. LostForAReason' BY <2>2, <1>7 DEF WriteThrows
  <2> QED BY <2>3, <2>4, <2>5, <2>6 DEF BoxInv
<1>8. CASE GiveBack(u)
  <2>2. /\ using' \in [Uses -> UseRecords] /\ using'[u].at = "failed"
        /\ \A v \in Uses \ {u} :
             \/ using'[v] = using[v] /\ using[v].at # "waiting"
             \/ using'[v].at = "failed" /\ using[v].at = "waiting"
    BY <1>t, SettlesTyped, <1>8 DEF GiveBack
  <2>3. SandboxTypeOK' BY <2>2, <1>t, <1>type, <1>8 DEF GiveBack, Mishap
  <2>4. OneCreation' BY <2>2, <1>8 DEF GiveBack
  <2>5. Destroyed' BY <2>2, <1>8 DEF GiveBack
  <2>6. LostForAReason' BY <2>2, <1>8 DEF GiveBack
  <2> QED BY <2>3, <2>4, <2>5, <2>6 DEF BoxInv
<1>9. CASE GiveBackFails(u)
  <2>a. CASE using[u].tries + 1 < MaxTries
    <3>1. UseGoes(u, "giveBack", using[u].box)
      BY <1>9, <2>a, <1>t, <1>s, UseGoesThere
    <3>2. /\ using' \in [Uses -> UseRecords] /\ using'[u].at = "giveBack" /\ using'[u].box = using[u].box
          /\ \A v \in Uses \ {u} : using'[v] = using[v]
      BY <3>1 DEF UseGoes
    <3>3. SandboxTypeOK' BY <3>2, <2>a, <1>type, <1>9 DEF GiveBackFails, Mishap
    <3>4. OneCreation' BY <3>2, <1>9 DEF GiveBackFails
    <3>5. Destroyed' BY <3>2, <1>9 DEF GiveBackFails
    <3>6. LostForAReason' BY <3>2, <2>a, <1>9 DEF GiveBackFails
    <3> QED BY <3>3, <3>4, <3>5, <3>6 DEF BoxInv
  <2>b. CASE ~(using[u].tries + 1 < MaxTries)
    <3>2. /\ using' \in [Uses -> UseRecords] /\ using'[u].at = "failed"
          /\ \A v \in Uses \ {u} :
               \/ using'[v] = using[v] /\ using[v].at # "waiting"
               \/ using'[v].at = "failed" /\ using[v].at = "waiting"
      BY <2>b, <1>t, SettlesTyped, <1>9 DEF GiveBackFails
    <3>a. abandoned' = abandoned \cup {using[u].box} BY <2>b, <1>9 DEF GiveBackFails
    <3>b. using[u].box \in Boxes
      BY <1>9 DEF GiveBackFails, BoxInv, SandboxTypeOK
    <3>3. SandboxTypeOK' BY <3>2, <3>a, <3>b, <1>type, <1>9 DEF GiveBackFails, Mishap
    <3>4. OneCreation' BY <3>2, <1>9 DEF GiveBackFails
    <3>5. Destroyed' BY <3>2, <1>9 DEF GiveBackFails
    <3>6. LostForAReason' BY <3>2, <3>a, <1>9 DEF GiveBackFails
    <3> QED BY <3>3, <3>4, <3>5, <3>6 DEF BoxInv
  <2> QED BY <2>a, <2>b
<1>10. CASE UseAgain(u)
  <2>1. UseGoes(u, "idle", NoBox)
    BY <1>10, <1>t, <1>s, UseGoesThere
  <2>2. /\ using' \in [Uses -> UseRecords] /\ using'[u].at = "idle" /\ using'[u].box = NoBox
        /\ \A v \in Uses \ {u} : using'[v] = using[v]
    BY <2>1 DEF UseGoes
  <2>3. SandboxTypeOK' BY <2>2, <1>type, <1>10 DEF UseAgain, Mishap
  <2>4. OneCreation' BY <2>2, <1>10 DEF UseAgain
  <2>5. Destroyed' BY <2>2, <1>10 DEF UseAgain
  <2>6. LostForAReason' BY <2>2, <1>10 DEF UseAgain
  <2> QED BY <2>3, <2>4, <2>5, <2>6 DEF BoxInv
<1> QED BY <1>1, <1>2, <1>3, <1>4, <1>5, <1>6, <1>7, <1>8, <1>9, <1>10

(* The steps of a reset. *)
LEMMA ResetStep ==
  ASSUME BoxInv, NEW x \in Resets,
         BeginReset(x) \/ Destroy(x) \/ DestroyFails(x) \/ Forget(x)
  PROVE  BoxInv'
<1> USE SandboxAssumption DEF BoxInv, SandboxTypeOK, OneCreation, Destroyed,
        LostForAReason, Named, NoReset, InFlight, Provisioning, MaxTries, Mishap
<1>1. CASE BeginReset(x) BY <1>1 DEF BeginReset
<1>2. CASE Destroy(x) BY <1>2 DEF Destroy
<1>3. CASE DestroyFails(x) BY <1>3 DEF DestroyFails
<1>4. CASE Forget(x) BY <1>4 DEF Forget
<1> QED BY <1>1, <1>2, <1>3, <1>4

LEMMA DeathStep == BoxInv /\ ServerDies => BoxInv'
BY SandboxAssumption DEF ServerDies, BoxInv, SandboxTypeOK, OneCreation, Destroyed,
   LostForAReason, Named, NoUse, NoReset, InFlight, Provisioning, MaxTries, Mishap

LEMMA BoxStep == BoxInv /\ [SandboxNext]_sandboxVars => BoxInv'
<1> SUFFICES ASSUME BoxInv, [SandboxNext]_sandboxVars PROVE BoxInv'
  OBVIOUS
<1>1. CASE UNCHANGED sandboxVars
  BY <1>1 DEF sandboxVars, BoxInv, SandboxTypeOK, OneCreation, Destroyed,
     LostForAReason, Named, InFlight
<1> QED BY <1>1, UseStep, ResetStep, DeathStep DEF SandboxNext

(* A sandbox that runs is named by the record or the creation under way, or was
   lost for one of the three reasons. *)
THEOREM ASandboxIsLostForAReason == SandboxSpec => []LostForAReason
<1>1. BoxInv => LostForAReason BY DEF BoxInv
<1> QED BY <1>1, BoxInitially, BoxStep, PTL DEF SandboxSpec

(* The type invariant, for every set of uses and resets. *)
THEOREM SandboxTyped == SandboxSpec => []SandboxTypeOK
<1>1. BoxInv => SandboxTypeOK BY DEF BoxInv
<1> QED BY <1>1, BoxInitially, BoxStep, PTL DEF SandboxSpec

(* With one reset at a time the row names the sandbox that the reset read, until
   it forgets it: a new one is created only when there is no row. *)
NothingOvertakes ==
  /\ overtaken = {}
  /\ \A x \in Resets : ending[x].at # "idle" => ending[x].box = record /\ record # NoBox

LEMMA OvertakeStep ==
  ASSUME OneReset, BoxInv, NothingOvertakes, [SandboxNext]_sandboxVars
  PROVE  NothingOvertakes'
<1> USE DEF NothingOvertakes
<1>1. CASE UNCHANGED sandboxVars BY <1>1 DEF sandboxVars
<1>2. ASSUME NEW u \in Uses, WriteRecord(u) PROVE NothingOvertakes'
  <2>1. record = NoBox
    BY <1>2 DEF WriteRecord, BoxInv, OneCreation, InFlight, Provisioning
  <2> QED BY <1>2, <2>1 DEF WriteRecord
<1>3. ASSUME NEW u \in Uses,
             \/ Reuse(u) \/ Join(u) \/ Provision(u) \/ ProviderCreates(u) \/ CreateFails(u)
             \/ WriteThrows(u) \/ GiveBack(u) \/ GiveBackFails(u) \/ UseAgain(u)
      PROVE  NothingOvertakes'
  BY <1>3 DEF Reuse, Join, Provision, ProviderCreates, CreateFails, WriteThrows, GiveBack,
     GiveBackFails, UseAgain
<1>4. ASSUME NEW x \in Resets, BeginReset(x) \/ Destroy(x) \/ DestroyFails(x) \/ Forget(x)
      PROVE  NothingOvertakes'
  <2>1. Resets = {x} BY DEF OneReset
  <2>2. ending \in [Resets -> [at : {"idle", "destroy", "forget"}, box : Boxes \cup {NoBox}]]
    BY DEF BoxInv, SandboxTypeOK
  <2> QED BY <1>4, <2>1, <2>2 DEF BeginReset, Destroy, DestroyFails, Forget, NoReset
<1>5. CASE ServerDies BY <1>5 DEF ServerDies, NoReset
<1> QED BY <1>1, <1>2, <1>3, <1>4, <1>5 DEF SandboxNext

(* Destroy, then forget: as long as resets do not overlap, none forgets a sandbox
   that runs. *)
THEOREM LoneResetForgetsWhatItDestroyed == OneReset => (SandboxSpec => []NoneOvertaken)
<1> SUFFICES ASSUME OneReset PROVE SandboxSpec => []NoneOvertaken
  OBVIOUS
<1>1. SandboxInit => BoxInv /\ NothingOvertakes
  BY BoxInitially DEF SandboxInit, NothingOvertakes, NoReset
<1>2. BoxInv /\ NothingOvertakes /\ [SandboxNext]_sandboxVars => (BoxInv /\ NothingOvertakes)'
  BY BoxStep, OvertakeStep
<1>3. NothingOvertakes => NoneOvertaken BY DEF NothingOvertakes, NoneOvertaken
<1> QED BY <1>1, <1>2, <1>3, PTL DEF SandboxSpec
=============================================================================
