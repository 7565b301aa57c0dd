----------------------------- MODULE MCSysArray -----------------------------
EXTENDS SysArray
=============================================================================
