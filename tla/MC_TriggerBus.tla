--------------------------- MODULE MC_TriggerBus ---------------------------
EXTENDS TriggerBus
=============================================================================
