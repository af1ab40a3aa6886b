---------------------------- MODULE MCSuplSessions ----------------------------
EXTENDS SuplSessions
=============================================================================
