----------------------------- MODULE MCSingleHost -----------------------------
EXTENDS SingleHost
=============================================================================
