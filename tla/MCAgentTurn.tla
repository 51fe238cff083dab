---------------------------- MODULE MCAgentTurn ----------------------------
(* One session for TLC: see the .cfg file for the sizes. *)
EXTENDS AgentTurn

AllCalls == {x \in (DOMAIN messages) \X (1 .. MaxCalls) : x[2] \in DOMAIN messages[x[1]].calls}

\* Bound: the answers have three calls in all.
FewCalls == Cardinality(AllCalls) <= 3

\* Bound: of the calls of complete answers at most one has an input that is no JSON.
FewBroken ==
  Cardinality({x \in AllCalls :
    /\ messages[x[1]].finish \in {"end_turn", "tool_use"}
    /\ ~messages[x[1]].calls[x[2]].input}) <= 1

\* Bound: where two runs overlap nothing more is followed once a summary is made too.
FewAtOnce ==
  ~(disturbed = Clients /\ Cardinality({r \in Runs : Working(r)}) = 2 /\ summarizer # "idle")
=============================================================================
