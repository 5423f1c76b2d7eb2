--------------------------- MODULE MCSyncWatchHub ---------------------------
\* SyncWatchHub with two handlers of one account, which share an entry.
EXTENDS SyncWatchHub, TLC

CONSTANTS h1, h2, u1

OneAccount == h1 :> u1 @@ h2 :> u1
=============================================================================
