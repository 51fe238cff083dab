----------------------------- MODULE ModelAnswer -----------------------------
(***************************************************************************)
(* What whoever asks a model may rely on, however often the client asks    *)
(* again and whatever breaks: the answer only grows, so nothing he has     *)
(* taken belongs to an attempt that was given up; he takes its parts in    *)
(* their order; it is complete at most once, has then all the model said   *)
(* and changes no more; and his wait ends once.  Only when the calls came   *)
(* mixed up, so that they cannot be told apart, are they not all there.    *)
(*                                                                         *)
(* AgentTurn takes its streams so.  Which client does what, and why a wait *)
(* ends as it does, is Provider's subject, which implements this.          *)
(***************************************************************************)
EXTENDS Naturals, Sequences, SequencesExt

CONSTANT Calls  \* the tool calls a model may make

VARIABLES
  streams,    \* whether the answer is taken in parts
  merges,     \* whether equal calls are taken as one, and texts sent at once as the last
  mixed,      \* whether the calls came mixed up
  cancelled,  \* whether the wait was cancelled
  answer,     \* what the model has said: how much text, which calls
  message,    \* what was taken of it, and whether that is all
  outcome     \* how the wait has ended, "none" while it goes on

vars == <<streams, merges, mixed, cancelled, answer, message, outcome>>

Init ==
  /\ streams \in BOOLEAN /\ merges \in BOOLEAN
  /\ cancelled = FALSE /\ mixed = FALSE
  /\ answer = [texts |-> 0, calls |-> <<>>]
  /\ message = [text |-> 0, calls |-> <<>>, complete |-> FALSE]
  /\ outcome = "none"

Open == outcome = "none" /\ ~message.complete

\* The model goes on, whether or not anybody waits any more.
Say ==
  /\ streams /\ ~message.complete
  /\ LET texts == answer'.texts
         calls == answer'.calls
     IN /\ texts \in Nat /\ texts >= answer.texts
        /\ calls \in Seq(Calls) /\ IsPrefix(answer.calls, calls)
        /\ answer' = [texts |-> texts, calls |-> calls]
  /\ mixed' \in BOOLEAN
  /\ mixed => mixed'
  /\ UNCHANGED <<streams, merges, cancelled, message, outcome>>

\* He keeps what he takes, and his wait goes on, or keeping it failed.
Keep == outcome' \in {"none", "failed"}

TakeText ==
  /\ streams /\ Open /\ message.text < answer.texts
  /\ message' = [message EXCEPT !.text = @ + 1]
  /\ Keep
  /\ UNCHANGED <<streams, merges, mixed, cancelled, answer>>

TakeCall ==
  /\ streams /\ Open /\ Len(message.calls) < Len(answer.calls)
  /\ message' = [message EXCEPT !.calls = Append(@, answer.calls[Len(@) + 1])]
  /\ Keep
  /\ UNCHANGED <<streams, merges, mixed, cancelled, answer>>

\* All the text is there, and now all the calls are.
Complete ==
  /\ streams /\ Open /\ message.text = answer.texts
  /\ LET calls == message'.calls IN
       /\ ~mixed => ToSet(calls) = ToSet(answer.calls) /\ (~merges => calls = answer.calls)
       /\ message' = [text |-> message.text, calls |-> calls, complete |-> TRUE]
  /\ Keep
  /\ UNCHANGED <<streams, merges, mixed, cancelled, answer>>

\* The answer comes at once.
Reply ==
  /\ ~streams /\ Open /\ ~cancelled
  /\ LET texts == answer'.texts
         text  == message'.text
         calls == message'.calls
     IN /\ IF merges THEN text = 0 <=> texts = 0 ELSE text = texts
        /\ calls \in Seq(Calls)
        /\ answer' = [texts |-> texts, calls |-> calls]
        /\ message' = [text |-> text, calls |-> calls, complete |-> TRUE]
  /\ outcome' = "completed"
  /\ UNCHANGED <<streams, merges, mixed, cancelled>>

Cancel ==
  /\ outcome = "none"
  /\ cancelled' = TRUE
  /\ UNCHANGED <<streams, merges, mixed, answer, message, outcome>>

\* The wait ends; a stream that was complete may still end in an error.
End(how) ==
  /\ outcome = "none"
  /\ how = "completed" => message.complete
  /\ how \in {"silent", "panicked"} => ~message.complete
  /\ how = "canceled" => cancelled
  /\ outcome' = how
  /\ UNCHANGED <<streams, merges, mixed, cancelled, answer, message>>

Next ==
  \/ Say \/ TakeText \/ TakeCall \/ Complete \/ Reply \/ Cancel
  \/ \E how \in {"completed", "silent", "error", "failed", "canceled", "panicked"} : End(how)

Spec == Init /\ [][Next]_vars

=============================================================================
