----------------------------- MODULE SsmStream -----------------------------
(***************************************************************************)
(* What one direction of an SSM data channel promises its user: the        *)
(* messages the other side sent, each once and in order, until the channel *)
(* is closed.  Messages are named by their number, from 0.                 *)
(***************************************************************************)
EXTENDS Integers, Sequences

VARIABLES sent, delivered, open
vars == <<sent, delivered, open>>

Init == sent = 0 /\ delivered = <<>> /\ open = TRUE

Send == sent' = sent + 1 /\ UNCHANGED <<delivered, open>>

\* One message, or several at once when a gap has been filled.
Deliver ==
  /\ open
  /\ \E k \in Len(delivered) + 1 .. sent : delivered' = [i \in 1 .. k |-> i - 1]
  /\ UNCHANGED <<sent, open>>

Close == open /\ open' = FALSE /\ UNCHANGED <<sent, delivered>>

Next == Send \/ Deliver \/ Close
Spec == Init /\ [][Next]_vars
=============================================================================
