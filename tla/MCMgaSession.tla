----------------------------- MODULE MCMgaSession -----------------------------
EXTENDS MgaSession
=============================================================================
