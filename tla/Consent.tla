------------------------------- MODULE Consent -------------------------------
(***************************************************************************)
(* What a tool, and the user, may rely on when the tool asks for           *)
(* permission: the user is asked unless the session or the scope is free,  *)
(* each request gets one verdict and never another, and a request the user *)
(* was asked about is decided by an answer to this very request.           *)
(*                                                                         *)
(* How requests and answers travel, how many dialogs there are and what is *)
(* lost on the way is Permission's subject, which implements this.         *)
(***************************************************************************)

CONSTANTS
  Requests,
  SessionOf,  \* [Requests -> the session that asks]
  ScopeOf     \* [Requests -> what "allow for session" of this request would cover]

VARIABLES
  approved,    \* the sessions that need not ask
  asked,       \* the requests the user is asked about
  answers,     \* what the user has answered, each answer to its request
  remembered,  \* the scopes that need not ask any more
  verdict      \* [Requests -> "none", "granted" or "denied"]

vars == <<approved, asked, answers, remembered, verdict>>

Init ==
  /\ approved \subseteq {SessionOf[r] : r \in Requests}
  /\ asked = {} /\ answers = {} /\ remembered = {}
  /\ verdict = [r \in Requests |-> "none"]

New(r)  == r \notin asked /\ verdict[r] = "none"
Free(r) == SessionOf[r] \in approved \/ ScopeOf[r] \in remembered

Answered(r, action) == [id |-> r, action |-> action] \in answers

\* Nobody is asked.
Pass(r) ==
  /\ New(r) /\ Free(r)
  /\ verdict' = [verdict EXCEPT ![r] = "granted"]
  /\ UNCHANGED <<approved, asked, answers, remembered>>

Ask(r) ==
  /\ New(r) /\ ~Free(r)
  /\ asked' = asked \cup {r}
  /\ UNCHANGED <<approved, answers, remembered, verdict>>

\* The user answers, perhaps more than once, perhaps when nobody waits any more.
Answer(r, action) ==
  /\ r \in asked
  /\ answers' = answers \cup {[id |-> r, action |-> action]}
  /\ UNCHANGED <<approved, asked, remembered, verdict>>

\* From now on requests of the scope pass; those that were asked do not.
Remember(r) ==
  /\ Answered(r, "allow_session")
  /\ remembered' = remembered \cup {ScopeOf[r]}
  /\ UNCHANGED <<approved, asked, answers, verdict>>

Decide(r) ==
  /\ r \in asked /\ verdict[r] = "none"
  /\ \/ /\ Answered(r, "allow") \/ Answered(r, "allow_session")
        /\ verdict' = [verdict EXCEPT ![r] = "granted"]
     \/ /\ Answered(r, "deny")
        /\ verdict' = [verdict EXCEPT ![r] = "denied"]
  /\ UNCHANGED <<approved, asked, answers, remembered>>

Next ==
  \E r \in Requests :
    \/ Pass(r) \/ Ask(r) \/ Remember(r) \/ Decide(r)
    \/ \E action \in {"allow", "allow_session", "deny"} : Answer(r, action)

Spec == Init /\ [][Next]_vars

=============================================================================
