----------------------------- MODULE MCAxiPort -----------------------------
EXTENDS AxiPort
=============================================================================
