---------------------------- MODULE MCSsmChannel ----------------------------
\* SsmChannel with traffic in one direction at a time: the two share only the
\* socket and the closing of the channel, so their states add up instead of
\* multiplying.
EXTENDS SsmChannel

OneDirection == seqNum = 0 \/ agent.sent = 0
OneWayNext == Next /\ OneDirection'
OneWaySpec == Init /\ [][OneWayNext]_vars /\ Fairness
=============================================================================
