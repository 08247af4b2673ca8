------------------------------- MODULE Sessions -------------------------------
(***************************************************************************)
(* Sign-in sessions: the server's families of rotating refresh tokens, and *)
(* the client's session managers, which refresh ahead of expiry and sign   *)
(* out. A native manager keeps its tokens in a secure store; on the web    *)
(* the refresh token is a cookie that all tabs share. Requests and replies *)
(* get lost, apps are closed and a secure store refuses a write; MaxLosses *)
(* bounds how often.                                                       *)
(***************************************************************************)
EXTENDS Naturals

CONSTANTS
  Managers,      \* session managers: native apps, or tabs of one browser
  Callers,       \* concurrent calls of getAccessToken (or restore)
  Families,      \* sign-ins
  MaxRotations,  \* tokens of a family
  NoPair, NoManager,
  MaxLosses

ASSUME SessionAssumption ==
  /\ NoManager \notin Managers
  /\ MaxRotations \in Nat \ {0} /\ MaxLosses \in Nat

VARIABLES
  onWeb,
  serial,     \* server: the newest token of each family, 0 before it exists
  revoked,    \* server: families revoked
  tokens,     \* per manager: in memory
  kept,       \* per manager: its secure store, or the cookie
  booted,     \* per manager: restore has been called
  call,       \* per caller: the refresh it waits for
  leaving,    \* per manager: where signOut stands, and the pair it revokes
  signedOut,  \* families the user signed out of
  disturbed,  \* families that lost a message, that two tabs refreshed at once,
              \* or of which a store kept a rotated token
  losses

sessionVars == <<onWeb, serial, revoked, tokens, kept, booted, call, leaving,
                 signedOut, disturbed, losses>>
clientVars == <<tokens, kept, booted, call, leaving>>
blameVars == <<signedOut, disturbed, losses>>

(* The n-th access and refresh token of a family. *)
Pairs == [family : Families, n : 1 .. MaxRotations]
ASSUME NoPairAssumption == NoPair \notin Pairs

FamilyOf(p) == IF p = NoPair THEN {} ELSE {p.family}

NoCall == [at |-> "idle", of |-> NoManager, sent |-> NoPair, reply |-> NoPair]
NoLeave == [at |-> "no", pair |-> NoPair]

SessionTypeOK ==
  /\ onWeb \in BOOLEAN
  /\ serial \in [Families -> 0 .. MaxRotations]
  /\ revoked \subseteq Families
  /\ tokens \in [Managers -> Pairs \cup {NoPair}]
  /\ kept \in [Managers -> Pairs \cup {NoPair}]
  /\ booted \subseteq Managers
  /\ call \in [Callers -> [at : {"idle", "asked", "restoring", "answered", "restored"},
                           of : Managers \cup {NoManager}, sent : Pairs \cup {NoPair},
                           reply : Pairs \cup {NoPair}]]
  /\ leaving \in [Managers -> [at : {"no", "wanted", "sent", "revoked"},
                               pair : Pairs \cup {NoPair}]]
  /\ signedOut \subseteq Families /\ disturbed \subseteq Families
  /\ losses \in 0 .. MaxLosses

SessionInit ==
  /\ onWeb \in BOOLEAN
  /\ serial = [f \in Families |-> 0]
  /\ revoked = {}
  /\ tokens = [m \in Managers |-> NoPair]
  /\ kept = [m \in Managers |-> NoPair]
  /\ booted = {}
  /\ call = [c \in Callers |-> NoCall]
  /\ leaving = [m \in Managers |-> NoLeave]
  /\ signedOut = {} /\ disturbed = {}
  /\ losses = 0

Loss == losses < MaxLosses /\ losses' = losses + 1

InMemory(m, p) == tokens' = [tokens EXCEPT ![m] = p]
Keep(m, p) == kept' = [n \in Managers |-> IF n = m \/ onWeb THEN p ELSE kept[n]]

(* persist. The secure store may refuse: it keeps what it had, be that a token
   that the server has rotated, and the call throws, the memory being changed.
   The cookie is the server's to set. *)
Persist(m, p) ==
  \/ Keep(m, p) /\ UNCHANGED <<disturbed, losses>>
  \/ /\ ~onWeb
     /\ Loss
     /\ disturbed' = disturbed \cup (FamilyOf(p) \cap FamilyOf(kept[m]))
     /\ UNCHANGED kept

(* Of undefined tokens it empties the store; only the server empties the cookie. *)
PersistNothing(m) ==
  IF onWeb THEN UNCHANGED <<kept, disturbed, losses>> ELSE Persist(m, NoPair)

(* refreshInFlight, which restore does not look at. *)
Refreshing(m) == {c \in Callers : call[c].of = m /\ call[c].at \in {"asked", "answered"}}

(* Refreshes under way that were sent a token of a family. *)
Underway(f) == {c \in Callers : call[c].sent # NoPair /\ call[c].sent.family = f}

-----------------------------------------------------------------------------
(* The client. *)

SignIn(m, f) ==
  LET first == [family |-> f, n |-> 1] IN
  /\ m \in booted
  /\ tokens[m] = NoPair
  /\ serial[f] = 0
  /\ serial' = [serial EXCEPT ![f] = 1]
  /\ InMemory(m, first) /\ Persist(m, first)
  /\ UNCHANGED <<onWeb, revoked, booted, call, leaving, signedOut>>

(* A refresh is sent what the manager holds, or the cookie. *)
Sends(c, m, there, p) ==
  /\ call' = [call EXCEPT ![c] = [at |-> there, of |-> m, sent |-> p, reply |-> NoPair]]
  /\ disturbed' = disturbed \cup
       {f \in Families : p # NoPair /\ p.family = f
                           /\ \E d \in Underway(f) : call[d].of # m}

(* Mutant: a caller does not join the refresh that another one waits for. *)
RefreshAlone(c, m) ==
  /\ call[c] = NoCall
  /\ tokens[m] # NoPair
  /\ Sends(c, m, "asked", IF onWeb THEN kept[m] ELSE tokens[m])
  /\ UNCHANGED <<onWeb, serial, revoked, tokens, kept, booted, leaving, signedOut, losses>>

Refresh(c, m) ==
  /\ call[c] = NoCall
  /\ tokens[m] # NoPair
  /\ Refreshing(m) = {}
  /\ Sends(c, m, "asked", IF onWeb THEN kept[m] ELSE tokens[m])
  /\ UNCHANGED <<onWeb, serial, revoked, tokens, kept, booted, leaving, signedOut, losses>>

(* With nothing in the store the server is asked; without a cookie it says no. *)
RestoreSession(c, m) ==
  /\ call[c] = NoCall
  /\ m \notin booted
  /\ booted' = booted \cup {m}
  /\ IF onWeb /\ kept[m] # NoPair
       THEN Sends(c, m, "restoring", kept[m]) /\ UNCHANGED tokens
       ELSE InMemory(m, kept[m]) /\ UNCHANGED <<call, disturbed>>
  /\ UNCHANGED <<onWeb, serial, revoked, kept, leaving, signedOut, losses>>

Accepted(c) ==
  /\ call[c].at \in {"answered", "restored"}
  /\ call[c].reply # NoPair
  /\ InMemory(call[c].of, call[c].reply) /\ Persist(call[c].of, call[c].reply)
  /\ call' = [call EXCEPT ![c] = NoCall]
  /\ UNCHANGED <<onWeb, serial, revoked, booted, leaving, signedOut>>

(* A cookie that is refused is emptied; without one there is nothing to empty. *)
Rejected(c) ==
  /\ call[c].at \in {"answered", "restored"}
  /\ call[c].reply = NoPair
  /\ IF call[c].at = "answered" THEN InMemory(call[c].of, NoPair) ELSE UNCHANGED tokens
  /\ IF onWeb /\ call[c].sent = NoPair THEN UNCHANGED <<kept, disturbed, losses>>
     ELSE Persist(call[c].of, NoPair)
  /\ call' = [call EXCEPT ![c] = NoCall]
  /\ UNCHANGED <<onWeb, serial, revoked, booted, leaving, signedOut>>

(* A request or its reply is lost: to the manager that is a refusal, after which
   the store may refuse as well. *)
RefreshLost(c) ==
  LET m == call[c].of IN
  /\ call[c] # NoCall
  /\ Loss
  /\ disturbed' = disturbed \cup FamilyOf(call[c].sent)
  /\ IF call[c].at \in {"asked", "answered"}
       THEN InMemory(m, NoPair) /\ (UNCHANGED kept \/ (~onWeb /\ Keep(m, NoPair)))
       ELSE UNCHANGED <<tokens, kept>>
  /\ call' = [call EXCEPT ![c] = NoCall]
  /\ UNCHANGED <<onWeb, serial, revoked, booted, leaving, signedOut>>

SignOut(m) ==
  /\ tokens[m] # NoPair
  /\ leaving[m] = NoLeave
  /\ leaving' = [leaving EXCEPT ![m].at = "wanted"]
  /\ UNCHANGED <<onWeb, serial, revoked, tokens, kept, booted, call, blameVars>>

(* The revocation waits for the refresh under way, and is sent its token. *)
SendRevoke(m) ==
  /\ leaving[m].at = "wanted"
  /\ Refreshing(m) = {}
  /\ leaving' = [leaving EXCEPT ![m] =
       [at |-> IF tokens[m] = NoPair THEN "revoked" ELSE "sent", pair |-> tokens[m]]]
  /\ UNCHANGED <<onWeb, serial, revoked, tokens, kept, booted, call, blameVars>>

(* A revocation that is lost is not tried again. *)
RevokeLost(m) ==
  /\ leaving[m].at = "sent"
  /\ Loss
  /\ leaving' = [leaving EXCEPT ![m].at = "revoked"]
  /\ UNCHANGED <<onWeb, serial, revoked, tokens, kept, booted, call, signedOut, disturbed>>

Leave(m) ==
  /\ leaving[m].at = "revoked"
  /\ leaving' = [leaving EXCEPT ![m] = NoLeave]
  /\ InMemory(m, NoPair) /\ PersistNothing(m)
  /\ UNCHANGED <<onWeb, serial, revoked, booted, call, signedOut>>

(* The app is closed, or the tab is loaded again; in the middle of a refresh
   that is a loss. *)
AppCloses(m) ==
  LET mine == {c \in Callers : call[c].of = m} IN
  /\ m \in booted
  /\ booted' = booted \ {m}
  /\ InMemory(m, NoPair)
  /\ call' = [c \in Callers |-> IF c \in mine THEN NoCall ELSE call[c]]
  /\ leaving' = [leaving EXCEPT ![m] = NoLeave]
  /\ IF mine = {} THEN UNCHANGED <<disturbed, losses>>
     ELSE /\ Loss
          /\ disturbed' = disturbed \cup UNION {FamilyOf(call[c].sent) : c \in mine}
  /\ UNCHANGED <<onWeb, serial, revoked, kept, signedOut>>

-----------------------------------------------------------------------------
(* The server. *)

AnswerPlace(there) == IF there = "asked" THEN "answered" ELSE "restored"

Replies(c, p) == call' = [call EXCEPT ![c].at = AnswerPlace(@), ![c].reply = p]

(* refresh: refused, reused, or rotated, in one turn. *)
ServeRefresh(c) ==
  LET p == call[c].sent IN
  /\ call[c].at \in {"asked", "restoring"}
  /\ \/ /\ FamilyOf(p) \subseteq revoked
        /\ Replies(c, NoPair)
        /\ UNCHANGED <<serial, revoked>>
     \/ /\ p # NoPair /\ p.family \notin revoked /\ p.n # serial[p.family]
        /\ revoked' = revoked \cup {p.family}
        /\ Replies(c, NoPair)
        /\ UNCHANGED serial
     \/ /\ p # NoPair /\ p.family \notin revoked /\ p.n = serial[p.family]
        /\ p.n < MaxRotations
        /\ serial' = [serial EXCEPT ![p.family] = @ + 1]
        /\ Replies(c, [p EXCEPT !.n = @ + 1])
        /\ UNCHANGED revoked
  /\ UNCHANGED <<onWeb, tokens, kept, booted, leaving, blameVars>>

(* A family already revoked makes the token unauthorized. *)
ServeRevoke(m) ==
  LET f == leaving[m].pair.family IN
  /\ leaving[m].at = "sent"
  /\ IF f \in revoked THEN UNCHANGED <<revoked, signedOut, kept>>
     ELSE /\ revoked' = revoked \cup {f}
          /\ signedOut' = signedOut \cup {f}
          /\ IF onWeb THEN Keep(m, NoPair) ELSE UNCHANGED kept
  /\ leaving' = [leaving EXCEPT ![m].at = "revoked"]
  /\ UNCHANGED <<onWeb, serial, tokens, booted, call, disturbed, losses>>

SessionNext ==
  \/ \E m \in Managers :
       \/ \E f \in Families : SignIn(m, f)
       \/ \E c \in Callers : Refresh(c, m) \/ RestoreSession(c, m)
       \/ SignOut(m) \/ SendRevoke(m) \/ ServeRevoke(m) \/ RevokeLost(m) \/ Leave(m)
       \/ AppCloses(m)
  \/ \E c \in Callers : ServeRefresh(c) \/ Accepted(c) \/ Rejected(c) \/ RefreshLost(c)

SessionSpec == SessionInit /\ [][SessionNext]_sessionVars

-----------------------------------------------------------------------------
(* A session is revoked only because the user signed out of it: the rotation
   does not take the app's own refreshes for theft, whatever callers ask at
   once and whenever the app is started again. Three faults are excepted, since
   the server takes their consequence for reuse: a lost message, two tabs that
   refresh at once, and a store that refuses the rotated token. *)
RevokedForAReason == revoked \subseteq signedOut \cup disturbed

(* sessionManagerV1.ts:258-260: one rotation is shared, so that no rotated token
   is replayed; while no message is lost and the store takes every token, no
   session is revoked as reused. *)
NeverReused == losses = 0 => revoked \subseteq signedOut

(* It is so on a device, and in a browser with one tab. *)
OneApp == onWeb => \A m, n \in Managers : m = n
NeverReusedByOneApp == OneApp => NeverReused

(* The signed-in app's next start finds the token that the server expects. It
   does not hold: persist is awaited after the rotation (sessionManagerV1.ts:190),
   and nothing tries a refused write again. *)
NextStartIsCurrent ==
  ~onWeb => \A m \in Managers :
    tokens[m] # NoPair /\ Refreshing(m) = {} /\ tokens[m].family \notin revoked
      => kept[m] = tokens[m]
=============================================================================
