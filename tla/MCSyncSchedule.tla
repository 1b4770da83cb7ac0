--------------------------- MODULE MCSyncSchedule ---------------------------
EXTENDS SyncSchedule
=============================================================================
