----------------------------- MODULE MCAgentLoop -----------------------------
EXTENDS AgentLoop

Mode(s, e, a, p) == [supervisor |-> s, executor |-> e, async |-> a, policy |-> p]

\* qwen-experimental-two-model; a balanced profile without a supervisor whose
\* planner is asynchronous; and qwen-hybrid with a synchronous planner.  The last
\* two have no executor (the modes are command-line flags too).
MCProfiles == {Mode("llm", "llm", FALSE, "aggressive"),
               Mode("llm", "disabled", TRUE, "balanced"),
               Mode("hybrid", "disabled", FALSE, "balanced")}

MCWorlds == {[map |-> "m1", control |-> TRUE], [map |-> "m2", control |-> FALSE]}
=============================================================================
