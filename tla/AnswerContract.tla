---------------------------- MODULE AnswerContract ----------------------------
(***************************************************************************)
(* What the engine promises of the answers to an interaction: the first    *)
(* accepted answers stay, the provider is invoked with them at most once,  *)
(* and the recorded outcome is the one that invocation returned.           *)
(***************************************************************************)
EXTENDS Naturals

CONSTANTS Operations, Answers, None, Outcomes

VARIABLES
  accepted,   \* per operation: the accepted answers, or None
  invoked,    \* per operation: invocations of the provider on them
  given,      \* per operation: the answers that invocation was given
  replied,    \* per operation: what it returned, or "none"
  recorded    \* per operation: the recorded outcome, or "none"

vars == <<accepted, invoked, given, replied, recorded>>

Init ==
  /\ accepted = [o \in Operations |-> None]
  /\ invoked = [o \in Operations |-> 0]
  /\ given = [o \in Operations |-> None]
  /\ replied = [o \in Operations |-> "none"]
  /\ recorded = [o \in Operations |-> "none"]

Accept(o, a) ==
  /\ accepted[o] = None
  /\ accepted' = [accepted EXCEPT ![o] = a]
  /\ UNCHANGED <<invoked, given, replied, recorded>>

Invoke(o) ==
  /\ accepted[o] # None
  /\ invoked[o] = 0
  /\ invoked' = [invoked EXCEPT ![o] = 1]
  /\ given' = [given EXCEPT ![o] = accepted[o]]
  /\ UNCHANGED <<accepted, replied, recorded>>

Reply(o, x) ==
  /\ invoked[o] = 1
  /\ replied[o] = "none"
  /\ replied' = [replied EXCEPT ![o] = x]
  /\ UNCHANGED <<accepted, invoked, given, recorded>>

Record(o) ==
  /\ replied[o] # "none"
  /\ recorded[o] = "none"
  /\ recorded' = [recorded EXCEPT ![o] = replied[o]]
  /\ UNCHANGED <<accepted, invoked, given, replied>>

Next ==
  \E o \in Operations :
    \/ \E a \in Answers : Accept(o, a)
    \/ Invoke(o)
    \/ \E x \in Outcomes : Reply(o, x)
    \/ Record(o)

Spec == Init /\ [][Next]_vars
=============================================================================
