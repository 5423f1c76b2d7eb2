---------------------------- MODULE MCOutputFeed ----------------------------
\* OutputFeed in two shapes: two appenders of chunks of one byte whose
\* deliveries overtake each other, or one appender of chunks of every size.
EXTENDS OutputFeed

VARIABLE shape

Idle(a) == app[a] = [left |-> 0, chunk |-> NoChunk, targets |-> {}]
InShape ==
  \/ shape = "race" /\ nextSeq < MaxSeq /\ \A a \in Appenders : app[a].left <= 1
  \/ shape = "sizes" /\ \A a \in StderrAppenders : Idle(a)

ShapedInit == FeedInit /\ shape \in {"race", "sizes"}
ShapedNext == FeedNext /\ UNCHANGED shape /\ InShape'
ShapedSpec == ShapedInit /\ [][ShapedNext]_<<allVars, shape>> /\ Fairness
=============================================================================
