----------------------------- MODULE MCSyncWork -----------------------------
EXTENDS SyncWork, TLC

\* Workers are interchangeable in the safety runs.
Symmetry == Permutations(Workers)
=============================================================================
