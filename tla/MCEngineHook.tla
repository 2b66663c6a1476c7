----------------------------- MODULE MCEngineHook -----------------------------
EXTENDS EngineHook
=============================================================================
