--------------------------- MODULE MCActionExchange ---------------------------
EXTENDS ActionExchange

CONSTANTS supervisor, Supervisor

\* The calls in Supervisor share the id "supervisor-control"; the others have
\* ids of their own.
MCIdOf == [c \in Calls |-> IF c \in Supervisor THEN supervisor ELSE c]
MCIds == {MCIdOf[c] : c \in Calls}
=============================================================================
