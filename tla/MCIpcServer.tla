------------------------------ MODULE MCIpcServer ------------------------------
EXTENDS IpcServer
=============================================================================
