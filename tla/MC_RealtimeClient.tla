------------------------- MODULE MC_RealtimeClient --------------------------
EXTENDS RealtimeClient
=============================================================================
