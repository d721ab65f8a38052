------------------------------- MODULE MCTurn -------------------------------
\* Agents in the manner of app/agents.py: one that asks (crew), one that writes
\* (build), one of a desk without the brake (signal), one that only reads
\* (review).  crew has two more tools, as an agent of the operator's own may.
EXTENDS Turn

CONSTANTS crew, build, signal, review

MCAgent == {crew, build, signal, review}
MCTools ==
  [a \in MCAgent |->
     CASE a = crew   -> {"look", "ask", "job", "bash"}
       [] a = build  -> {"look", "git", "edit", "bash"}
       [] a = signal -> {"look", "job"}
       [] a = review -> {"look"}]

=============================================================================
