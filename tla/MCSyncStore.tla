----------------------------- MODULE MCSyncStore -----------------------------
EXTENDS SyncStore, TLC

CONSTANTS i1, i2, q, r1, op, b1, b2

MCBrandOf == i1 :> b1 @@ i2 :> b2
=============================================================================
