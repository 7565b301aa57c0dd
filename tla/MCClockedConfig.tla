--------------------------- MODULE MCClockedConfig ---------------------------
EXTENDS ClockedConfig
=============================================================================
