--------------------------- MODULE MCLoginSessions ---------------------------
EXTENDS LoginSessions

=============================================================================
