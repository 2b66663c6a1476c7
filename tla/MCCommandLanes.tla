---------------------------- MODULE MCCommandLanes ----------------------------
EXTENDS CommandLanes
=============================================================================
