------------------------------- MODULE MCTui -------------------------------
(* The chat with the two topics of events it reads, for TLC.               *)
EXTENDS Tui, Functions

MCTopics   == {"message", "agent"}
MCPayloads == MessageEvents \cup AgentEvents

\* Bound: the subscriptions are made before the user does anything, the program
\* ends after one input or not at all, and a session stays unloaded for two inputs.
ShortLives ==
  /\ inputs > 0 => \A t \in Topics : sub[t] # "starting"
  /\ main # "running" => inputs <= 1
  /\ unloaded => inputs <= 2

\* Bound: two events are on their way at once.
FewEvents ==
  FoldFunction(+, 0, [t \in Topics |-> InTransit(t) + Cardinality(publishing[t])]) <= 2
=============================================================================
