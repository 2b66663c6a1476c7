----------------------------- MODULE MCFroggyRun -----------------------------
EXTENDS FroggyRun

\* Every state HandleSetBotState knows (ActionExecutorUtility.cpp:84-94).
MCRequests == {"idle", "in_town", "traveling", "in_dungeon", "looting",
               "awaiting_return", "merchant", "maintenance", "llm_controlled"}
=============================================================================
