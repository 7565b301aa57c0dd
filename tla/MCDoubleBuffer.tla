--------------------------- MODULE MCDoubleBuffer ---------------------------
EXTENDS DoubleBuffer
=============================================================================
