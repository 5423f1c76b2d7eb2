---------------------------- MODULE FrameRouter ----------------------------
(***************************************************************************)
(* How the SSH core runs the commands of the desktop:                      *)
(* services/ssh-core/cmd/ssh-core/router.go (lanes, barrier, bypass), the  *)
(* handlers of main.go's dispatch that open and close connections, the     *)
(* registry of what is being opened (internal/inflight/inflight.go) and    *)
(* the pending questions of internal/sshdial/sshdial.go and                *)
(* internal/forwarding/service.go.                                         *)
(*                                                                         *)
(* One goroutine reads frames.  Each frame is claimed at the end of the    *)
(* lane of its target and run by a goroutine of its own when the frame     *)
(* before it has closed its done channel.  A frame is named by its         *)
(* position in the order of claims.                                        *)
(*                                                                         *)
(* Sessions stand for targets whose connect handler spawns a goroutine and *)
(* returns (SSH, tmux, SFTP, containers); Forwards for those that dial     *)
(* inside the handler (port forwards).                                     *)
(***************************************************************************)
EXTENDS Integers, Sequences, FiniteSets

CONSTANTS
  Sessions, Forwards,
  Commands,   \* which of connect, disconnect, work and configure the desktop sends
  MaxFrames   \* bound of the model: frames claimed

ASSUME RouterAssumption ==
  /\ MaxFrames \in Nat
  /\ Commands \subseteq {"connect", "disconnect", "work", "configure"}
  /\ Sessions \cap Forwards = {}
  /\ "global" \notin Sessions \cup Forwards

Targets == Sessions \cup Forwards
Scopes == Targets \cup {"global"}    \* frameScope
Ids == 1 .. MaxFrames
None == 0

VARIABLES
  frames,     \* the frames claimed so far: [cmd, scope]
  reader,     \* what the reading goroutine is in the middle of
  lane,       \* per frame: previous and barrier it waits for, step of a stop
              \* and the question it took from the table, pc
  tails, depth, barrier,   \* the router's maps and its barrier
  task,       \* per opening command: where the goroutine that dials is
  entries,    \* inflight.Registry: per target the tasks that can be cancelled
  cancelled,  \* tasks whose context is cancelled
  challenges, \* per target the task whose question is pending
  channel,    \* per task the channel its question is answered on
  live,       \* per target the task whose connection is registered
  crashed     \* a send on a closed channel has panicked

routerVars == <<frames, lane, tails, depth, barrier>>
dialVars == <<task, entries, cancelled, challenges, channel, live>>
vars == <<routerVars, dialVars, reader, crashed>>

Idle == [pc |-> "idle", cmd |-> "none", scope |-> "global", task |-> None]
Opens(cmd) == cmd = "connect"
IsCancelCommand(cmd) == cmd = "disconnect"
IsBarrierCommand(cmd) == cmd = "configure"

Init ==
  /\ frames = <<>> /\ reader = Idle
  /\ lane = [f \in Ids |-> [prev |-> None, bar |-> None, step |-> 1, took |-> None, pc |-> "none"]]
  /\ tails = [s \in Scopes |-> None] /\ depth = [s \in Scopes |-> 0] /\ barrier = None
  /\ task = [f \in Ids |-> "none"] /\ entries = [t \in Targets |-> {}]
  /\ cancelled = {} /\ challenges = [t \in Targets |-> None]
  /\ channel = [f \in Ids |-> "none"] /\ live = [t \in Targets |-> None]
  /\ crashed = FALSE

-----------------------------------------------------------------------------
(* route.  Cancel commands first cut what is in flight, then claim.          *)

\* Registry.Cancel: forget every entry of the key and cancel their contexts.
Cancel(t) ==
  /\ entries' = [entries EXCEPT ![t] = {}]
  /\ cancelled' = cancelled \cup entries[t]

RouteCancel(cmd, t) ==
  /\ ~crashed /\ reader.pc = "idle" /\ Len(frames) < MaxFrames
  /\ Cancel(t)
  /\ reader' = [Idle EXCEPT !.pc = "claim", !.cmd = cmd, !.scope = t]
  /\ UNCHANGED <<routerVars, task, challenges, channel, live, crashed>>

\* claim, then the barrier that was set before this frame sets its own.
Waits_selfish(id, cmd, s) ==
  [prev |-> tails[s], bar |-> IF IsBarrierCommand(cmd) THEN id ELSE barrier,
   step |-> 1, took |-> None, pc |-> "wait"]
Waits_unbarred(id, cmd, s) == [prev |-> tails[s], bar |-> None, step |-> 1, took |-> None, pc |-> "wait"]
Waits(id, cmd, s) == [prev |-> tails[s], bar |-> barrier, step |-> 1, took |-> None, pc |-> "wait"]
DepthAfterClaim(s) == depth[s] + 1
Claim(cmd, s) ==
  LET id == Len(frames) + 1
  IN  /\ ~crashed /\ Len(frames) < MaxFrames
      /\ frames' = Append(frames, [cmd |-> cmd, scope |-> s])
      /\ lane' = [lane EXCEPT ![id] = Waits(id, cmd, s)]
      /\ tails' = [tails EXCEPT ![s] = id]
      /\ depth' = [depth EXCEPT ![s] = DepthAfterClaim(s)]
      /\ barrier' = IF IsBarrierCommand(cmd) THEN id ELSE barrier
      /\ UNCHANGED <<dialVars, crashed>>

RouteClaim ==
  \/ /\ reader.pc = "claim"
     /\ Claim(reader.cmd, reader.scope)
     /\ reader' = Idle
  \/ /\ reader.pc = "idle"
     /\ \/ \E t \in Targets, cmd \in Commands \cap {"connect", "work"} : Claim(cmd, t)
        \/ "configure" \in Commands /\ Claim("configure", "global")
     /\ UNCHANGED reader

\* An answer is not laned: it is looked up under the lock and sent after it.
RouteAnswer(t) ==
  /\ ~crashed /\ reader.pc = "idle" /\ challenges[t] # None
  /\ reader' = [Idle EXCEPT !.pc = "send", !.task = challenges[t]]
  /\ UNCHANGED <<routerVars, dialVars, crashed>>

SendAnswer ==
  /\ ~crashed /\ reader.pc = "send"
  /\ LET c == reader.task
     IN  /\ crashed' = (channel[c] = "closed")
         /\ channel' = [channel EXCEPT ![c] = IF @ = "empty" THEN "full" ELSE @]
  /\ reader' = Idle
  /\ UNCHANGED <<routerVars, task, entries, cancelled, challenges, live>>

\* CancelChallenge: the person closed the question.
RouteDismiss_kept(t) ==
  /\ ~crashed /\ reader.pc = "idle" /\ challenges[t] # None
  /\ channel' = [channel EXCEPT ![challenges[t]] = "closed"]
  /\ UNCHANGED <<routerVars, reader, task, entries, cancelled, challenges, live, crashed>>
RouteDismiss(t) ==
  /\ ~crashed /\ reader.pc = "idle" /\ challenges[t] # None
  /\ channel' = [channel EXCEPT ![challenges[t]] = "closed"]
  /\ challenges' = [challenges EXCEPT ![t] = None]
  /\ UNCHANGED <<routerVars, reader, task, entries, cancelled, live, crashed>>

-----------------------------------------------------------------------------
(* The goroutine of a frame.                                                 *)

Closed(f) == f # None => lane[f].pc = "closed"
Set(f, p) == lane' = [lane EXCEPT ![f].pc = p]
RouterRest == UNCHANGED <<frames, tails, depth, barrier, reader, crashed>>

\* The handler starts; a connect of a session hands over to a goroutine.
RunStart(f) ==
  /\ ~crashed /\ lane[f].pc = "wait" /\ Closed(lane[f].bar) /\ Closed(lane[f].prev)
  /\ Set(f, IF frames[f].scope \in Sessions /\ Opens(frames[f].cmd) THEN "ran" ELSE "run")
  /\ task' = [task EXCEPT ![f] = IF Opens(frames[f].cmd) THEN "begin" ELSE @]
  /\ RouterRest /\ UNCHANGED <<entries, cancelled, challenges, channel, live>>

RunEnd(f) ==
  /\ ~crashed /\ lane[f].pc = "run"
  /\ \/ frames[f].cmd \in {"work", "configure"}
     \/ Opens(frames[f].cmd) /\ task[f] = "over"
  /\ Set(f, "ran")
  /\ RouterRest /\ UNCHANGED dialVars

\* closeSession of a session, Stop of a forward: the same four steps in two
\* orders.  `unmap' takes the pending question away, `close' closes it.
StopSteps_undropped(t) == <<"cancel", "unmap", "close">>
StopSteps(t) == IF t \in Sessions THEN <<"cancel", "unmap", "close", "drop">>
                                  ELSE <<"cancel", "drop", "unmap", "close">>

RunStop(f) ==
  LET t == frames[f].scope
      step == StopSteps(t)[lane[f].step]
      last == lane[f].step = Len(StopSteps(t))
  IN  /\ ~crashed /\ lane[f].pc = "run" /\ IsCancelCommand(frames[f].cmd)
      /\ IF step = "cancel" THEN Cancel(t) ELSE UNCHANGED <<entries, cancelled>>
      /\ IF step = "unmap"
         THEN challenges' = [challenges EXCEPT ![t] = None] ELSE UNCHANGED challenges
      /\ lane' = [lane EXCEPT ![f].step = @ + 1,
                              ![f].took = IF step = "unmap" THEN challenges[t] ELSE @,
                              ![f].pc = IF last THEN "ran" ELSE @]
      /\ channel' = IF step = "close" /\ lane[f].took # None
                    THEN [channel EXCEPT ![lane[f].took] = "closed"] ELSE channel
      /\ live' = IF step = "drop" THEN [live EXCEPT ![t] = None] ELSE live
      /\ RouterRest /\ UNCHANGED task

\* release: the maps first, the done channel after the unlock.
TailAfter(s, f) == IF tails[s] = f THEN None ELSE tails[s]
Release(f) ==
  /\ ~crashed /\ lane[f].pc = "ran"
  /\ LET s == frames[f].scope
     IN  /\ depth' = [depth EXCEPT ![s] = @ - 1]
         /\ tails' = [tails EXCEPT ![s] = TailAfter(s, f)]
  /\ Set(f, "released")
  /\ UNCHANGED <<frames, barrier, reader, crashed, dialVars>>

CloseDone(f) ==
  /\ ~crashed /\ lane[f].pc = "released"
  /\ Set(f, "closed")
  /\ RouterRest /\ UNCHANGED dialVars

-----------------------------------------------------------------------------
(* The task that opens a connection.                                         *)

Of(f) == frames[f].scope
Step(f, from, to) == ~crashed /\ task[f] = from /\ task' = [task EXCEPT ![f] = to]
TaskRest == UNCHANGED <<routerVars, reader, crashed>>

Begin(f) ==
  /\ Step(f, "begin", "dial")
  /\ entries' = [entries EXCEPT ![Of(f)] = @ \cup {f}]
  /\ TaskRest /\ UNCHANGED <<cancelled, challenges, channel, live>>

\* The server asks for a one-time password; the question goes to the screen.
Ask(f) ==
  /\ Step(f, "dial", "ask") /\ channel[f] = "none"
  /\ challenges' = [challenges EXCEPT ![Of(f)] = f]
  /\ channel' = [channel EXCEPT ![f] = "empty"]
  /\ TaskRest /\ UNCHANGED <<entries, cancelled, live>>

\* WaitForHumanAnswer: an answer, or a cancelled context, a closed channel or
\* the budget; the question is deleted by its key either way.
Answered(f, to) ==
  /\ Step(f, "ask", to)
  /\ challenges' = [challenges EXCEPT ![Of(f)] = None]
  /\ TaskRest /\ UNCHANGED <<entries, cancelled, channel, live>>
AskAnswered(f) == channel[f] = "full" /\ Answered(f, "dial")
AskFails(f) == Answered(f, "end")

\* A cancelled dial may still have finished its handshake.
DialEnds(f) ==
  /\ Step(f, "dial", "open") \/ Step(f, "dial", "end")
  /\ TaskRest /\ UNCHANGED <<entries, cancelled, challenges, channel, live>>

\* What follows the dial no longer looks at the context.
Register(f) ==
  /\ Step(f, "open", "end")
  /\ \/ UNCHANGED live       \* pty, shell or listener refused
     \/ /\ Of(f) \in Sessions \/ live[Of(f)] = None
        /\ live' = [live EXCEPT ![Of(f)] = f]
  /\ TaskRest /\ UNCHANGED <<entries, cancelled, challenges, channel>>

\* The cleanup of Begin.
Remaining_none(t, f) == {}
Remaining(t, f) == entries[t] \ {f}
Finish(f) ==
  /\ Step(f, "end", "over")
  /\ entries' = [entries EXCEPT ![Of(f)] = Remaining(Of(f), f)]
  /\ cancelled' = cancelled \cup {f}
  /\ TaskRest /\ UNCHANGED <<challenges, channel, live>>

-----------------------------------------------------------------------------
Route ==
  \/ RouteClaim
  \/ \E t \in Targets :
       \/ \E cmd \in Commands : IsCancelCommand(cmd) /\ RouteCancel(cmd, t)
       \/ RouteAnswer(t) \/ RouteDismiss(t)
  \/ SendAnswer
FrameStep(f) == RunStart(f) \/ RunEnd(f) \/ RunStop(f) \/ Release(f) \/ CloseDone(f)
TaskStep(f) ==
  Begin(f) \/ Ask(f) \/ AskAnswered(f) \/ AskFails(f) \/ DialEnds(f) \/ Register(f) \/ Finish(f)

Next == Route \/ \E f \in Ids : FrameStep(f) \/ TaskStep(f)
Spec == Init /\ [][Next]_vars

\* Goroutines go on; a dial ends and a question runs out of its budget.
Fairness == \A f \in Ids : WF_vars(FrameStep(f)) /\ WF_vars(TaskStep(f))
FairSpec == Spec /\ Fairness

-----------------------------------------------------------------------------
TypeOK ==
  /\ frames \in Seq([cmd : {"connect", "disconnect", "work", "configure"}, scope : Scopes])
  /\ Len(frames) <= MaxFrames
  /\ reader \in [pc : {"idle", "claim", "send"}, cmd : {"none", "disconnect"},
                 scope : Scopes, task : Ids \cup {None}]
  /\ lane \in [Ids -> [prev : Ids \cup {None}, bar : Ids \cup {None}, step : 1 .. 5, took : Ids \cup {None},
                       pc : {"none", "wait", "run", "ran", "released", "closed"}]]
  /\ tails \in [Scopes -> Ids \cup {None}] /\ depth \in [Scopes -> 0 .. MaxFrames]
  /\ barrier \in Ids \cup {None}
  /\ task \in [Ids -> {"none", "begin", "dial", "ask", "open", "end", "over"}]
  /\ entries \in [Targets -> SUBSET Ids] /\ cancelled \subseteq Ids
  /\ challenges \in [Targets -> Ids \cup {None}]
  /\ channel \in [Ids -> {"none", "empty", "full", "closed"}]
  /\ live \in [Targets -> Ids \cup {None}] /\ crashed \in BOOLEAN

Claimed == 1 .. Len(frames)
Started(f) == lane[f].pc \notin {"none", "wait"}
Ended(f) == lane[f].pc \in {"ran", "released", "closed"}

(* Commands of one target run one at a time, in the order they came, although *)
(* each has its own goroutine and a lane's entry may be deleted between two   *)
(* of them (frameRouter's comment, TestRouterKeepsPerSessionOrder); and what  *)
(* came after a tailnetConfigure runs after it, whatever its target and       *)
(* however many configurations followed each other.                           *)
RunsInOrder ==
  \A f, g \in Claimed :
    /\ f < g /\ Started(g)
    /\ frames[f].scope = frames[g].scope \/ IsBarrierCommand(frames[f].cmd)
    => Ended(f)

(* Whatever is dialling can be cut: it is in the registry or already          *)
(* cancelled, also when several attempts at one target overlap.               *)
DialCanBeCut ==
  \A f \in Claimed : task[f] \in {"dial", "ask", "open"} =>
    f \in entries[Of(f)] \/ f \in cancelled

(* A forward that was stopped stays stopped: once the stop has run and no     *)
(* later command of the rule has, no runtime of the rule exists, although the *)
(* start it follows may have ignored the cancellation.                        *)
StopHolds(t, f) ==
  (/\ frames[f] = [cmd |-> "disconnect", scope |-> t] /\ Ended(f)
   /\ \A g \in Claimed : g > f /\ frames[g].scope = t => ~Started(g))
  => live[t] = None
StoppedForwardIsGone == \A t \in Forwards, f \in Claimed : StopHolds(t, f)

(* An answer to a forward's question never meets a closed channel, although   *)
(* the channel is looked up under the lock and used after it                  *)
(* (CancelChallenge's comment): the send would take the whole core down.      *)
NoSendOnClosed ==
  reader.pc = "send" /\ Of(reader.task) \in Forwards => channel[reader.task] # "closed"

(* Every frame gets its turn: nothing in the lanes and barriers waits for     *)
(* itself.                                                                    *)
EveryFrameRuns == \A f \in Ids : (lane[f].pc = "wait" /\ ~crashed) ~> (lane[f].pc = "closed" \/ crashed)
=============================================================================
