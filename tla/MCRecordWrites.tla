--------------------------- MODULE MCRecordWrites ---------------------------
EXTENDS RecordWrites
=============================================================================
