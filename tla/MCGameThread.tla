---------------------------- MODULE MCGameThread ----------------------------
EXTENDS GameThread
=============================================================================
