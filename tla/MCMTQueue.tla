----------------------------- MODULE MCMTQueue -----------------------------
EXTENDS MTQueue, TLC
=============================================================================
