--------------------------- MODULE MCFrameRouter ---------------------------
\* FrameRouter with the frames of a run either all for sessions, and then only
\* connects and disconnects, or none for a session: the dials of a session run
\* outside its lane and would multiply with everything else.  A third frame for
\* a session goes with dials that ask nothing.
EXTENDS FrameRouter

Lanes == {frames[f].scope : f \in Claimed} \cup ({reader.scope} \ {"global"})
OneKind ==
  \/ Lanes \cap Sessions = {}
  \/ /\ Lanes \subseteq Sessions
     /\ \A f \in Claimed : frames[f].cmd # "work"
     /\ Len(frames) < 3 \/ \A f \in Claimed : channel[f] = "none"
OneKindNext == Next /\ OneKind'
OneKindSpec == Init /\ [][OneKindNext]_vars /\ Fairness
=============================================================================
