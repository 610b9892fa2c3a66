------------------------- MODULE MCRecordedRecovery -------------------------
EXTENDS RecordedRecovery
=============================================================================
