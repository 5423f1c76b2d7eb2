-------------------------- MODULE FrameRouterProofs --------------------------
(***************************************************************************)
(* The lanes, the barrier and the dials of the frame router, for any       *)
(* targets and any number of frames.                                       *)
(***************************************************************************)
EXTENDS FrameRouter, FiniteSetTheorems, TLAPS

USE RouterAssumption

Cmds == {"connect", "disconnect", "work", "configure"}
Frames == [cmd : Cmds, scope : Scopes]
Readings == [pc : {"idle", "claim", "send"}, cmd : {"none", "disconnect"},
             scope : Scopes, task : Ids \cup {None}]
Lanes == [prev : Ids \cup {None}, bar : Ids \cup {None}, step : 1 .. 5, took : Ids \cup {None},
          pc : {"none", "wait", "run", "ran", "released", "closed"}]

\* The types of the variables.  What the depths count is not read by any guard.
Typed ==
  /\ frames \in Seq(Frames) /\ Len(frames) <= MaxFrames
  /\ reader \in Readings /\ lane \in [Ids -> Lanes]
  /\ tails \in [Scopes -> Ids \cup {None}] /\ depth \in [Scopes -> Int]
  /\ barrier \in Ids \cup {None}
  /\ task \in [Ids -> {"none", "begin", "dial", "ask", "open", "end", "over"}]
  /\ entries \in [Targets -> SUBSET Ids] /\ cancelled \subseteq Ids
  /\ challenges \in [Targets -> Ids \cup {None}]
  /\ channel \in [Ids -> {"none", "empty", "full", "closed"}]
  /\ live \in [Targets -> Ids \cup {None}] /\ crashed \in BOOLEAN

-----------------------------------------------------------------------------
(* The inductive invariant.                                                  *)

\* What was claimed, and what each command is for.
FramesOk ==
  /\ \A f \in Ids : lane[f].pc # "none" <=> f \in Claimed
  /\ \A f \in Claimed : Of(f) = "global" <=> IsBarrierCommand(frames[f].cmd)
  /\ reader.pc = "claim" => reader.cmd = "disconnect" /\ reader.scope \in Targets

\* f has to end before g starts, if it came first.
Precedes(f, g) == f < g /\ (Of(f) = Of(g) \/ IsBarrierCommand(frames[f].cmd))

\* A lane's tail is its last frame; without one all of the lane have ended.
TailsOk ==
  \A s \in Scopes :
    /\ tails[s] # None => tails[s] \in Claimed /\ Of(tails[s]) = s
    /\ \A f \in Claimed : Of(f) = s => IF tails[s] = None THEN Ended(f) ELSE f <= tails[s]

\* The barrier is the last configuration.
BarrierOk ==
  /\ barrier # None => barrier \in Claimed /\ IsBarrierCommand(frames[barrier].cmd)
  /\ \A f \in Claimed : IsBarrierCommand(frames[f].cmd) => barrier # None /\ f <= barrier

\* A frame waits for the last frame of its lane that may not have ended, and
\* for the last configuration before it.
WaitOk(g) ==
  LET p == lane[g].prev
      b == lane[g].bar
  IN  /\ p # None => p \in Claimed /\ p < g /\ Of(p) = Of(g)
      /\ b # None => b \in Claimed /\ b < g /\ IsBarrierCommand(frames[b].cmd)
      /\ \A f \in Claimed : f < g /\ Of(f) = Of(g) => IF p = None THEN Ended(f) ELSE f <= p
      /\ \A f \in Claimed : f < g /\ IsBarrierCommand(frames[f].cmd) => b # None /\ f <= b
WaitsOk == \A g \in Claimed : lane[g].pc = "wait" => WaitOk(g) /\ lane[g].step = 1

LanesInv == FramesOk /\ TailsOk /\ BarrierOk /\ WaitsOk /\ RunsInOrder

\* A task belongs to a connect; a forward's handler runs as long as its task.
TaskOk(f) ==
  task[f] # "none" =>
    /\ f \in Claimed /\ Opens(frames[f].cmd)
    /\ Of(f) \in Forwards /\ task[f] # "over" => lane[f].pc = "run"

\* A stop that has passed its drop leaves nothing behind.
StopOk(f) ==
  lane[f].pc = "run" /\ IsCancelCommand(frames[f].cmd) =>
    /\ lane[f].step <= 4
    /\ Of(f) \in Forwards /\ lane[f].step >= 3 => live[Of(f)] = None

\* A question is its target's; a forward's is asked while it can be answered.
QuestionOk(t) ==
  challenges[t] # None =>
    /\ challenges[t] \in Claimed /\ Of(challenges[t]) = t
    /\ t \in Forwards => task[challenges[t]] = "ask" /\ channel[challenges[t]] # "closed"
TookOk(f) == lane[f].took # None => lane[f].took \in Claimed /\ Of(lane[f].took) \in Sessions
ReaderOk ==
  reader.pc = "send" => /\ reader.task \in Claimed
                        /\ Of(reader.task) \in Forwards => channel[reader.task] # "closed"

DialsInv ==
  /\ \A f \in Ids : TaskOk(f) /\ StopOk(f) /\ TookOk(f)
  /\ \A t \in Targets : QuestionOk(t)
  /\ ReaderOk /\ DialCanBeCut /\ StoppedForwardIsGone
RouterInv == Typed /\ LanesInv /\ DialsInv

-----------------------------------------------------------------------------
(* Types.                                                                    *)

\* Claiming a frame adds it to the end.
LEMMA AppendFacts ==
  ASSUME Typed, NEW x \in Frames, frames' = Append(frames, x)
  PROVE  /\ frames' \in Seq(Frames) /\ Len(frames') = Len(frames) + 1 /\ Len(frames) \in Nat
         /\ frames'[Len(frames) + 1] = x
         /\ \A f \in Claimed : frames'[f] = frames[f]
         /\ Claimed' = Claimed \cup {Len(frames) + 1} /\ Len(frames) + 1 \notin Claimed
  BY DEF Typed, Claimed

\* What the reader of frames sets itself to is a reader state.
LEMMA ReadingsTyped ==
  /\ Idle \in Readings
  /\ \A s \in Scopes : [Idle EXCEPT !.pc = "claim", !.cmd = "disconnect", !.scope = s] \in Readings
  /\ \A f \in Ids \cup {None} : [Idle EXCEPT !.pc = "send", !.task = f] \in Readings
<1>1. Idle \in Readings
  BY DEF Idle, Readings, Scopes
<1> QED BY <1>1 DEF Readings

\* Claim, which numbers a frame and chains it to the tails, keeps the types.
LEMMA ClaimTyped ==
  ASSUME Typed, NEW cmd \in Cmds, NEW s \in Scopes, Claim(cmd, s), reader' \in Readings
  PROVE  Typed'
<1> DEFINE id == Len(frames) + 1
           x == [cmd |-> cmd, scope |-> s]
<1>1. x \in Frames
  BY DEF Frames
<1>2. frames' \in Seq(Frames) /\ Len(frames') = Len(frames) + 1 /\ Len(frames) \in Nat
  BY <1>1, AppendFacts DEF Claim
<1>3. id \in Ids /\ Len(frames') <= MaxFrames
  BY <1>2 DEF Claim, Ids, Typed
<1>4. Waits(id, cmd, s) \in Lanes
  <2>1. tails[s] \in Ids \cup {None} /\ barrier \in Ids \cup {None} /\ None \in Ids \cup {None}
    BY DEF Typed
  <2> QED BY <2>1 DEF Waits, Lanes
<1>5. lane' \in [Ids -> Lanes]
  BY <1>3, <1>4 DEF Claim, Typed
<1>6. tails' \in [Scopes -> Ids \cup {None}] /\ barrier' \in Ids \cup {None}
  BY <1>3 DEF Claim, Typed
<1>7. depth' \in [Scopes -> Int]
  BY DEF Claim, DepthAfterClaim, Typed
<1> QED BY <1>2, <1>3, <1>5, <1>6, <1>7 DEF Claim, Typed, dialVars

\* A claim is of a command at its scope.
LEMMA RouteClaims ==
  ASSUME Typed, FramesOk, RouteClaim
  PROVE  \E cmd \in Cmds, s \in Scopes :
           /\ Claim(cmd, s) /\ (s = "global" <=> IsBarrierCommand(cmd))
           /\ reader' \in Readings /\ reader'.pc \in {"idle", "send"} /\ reader'.pc # "send"
<1>0. Idle.pc = "idle" /\ Idle \in Readings
  BY ReadingsTyped DEF Idle
<1>1. CASE reader.pc = "claim" /\ Claim(reader.cmd, reader.scope) /\ reader' = Idle
  <2>1. reader.cmd \in Cmds /\ reader.scope \in Scopes /\ reader.scope # "global"
        /\ ~IsBarrierCommand(reader.cmd)
    BY <1>1 DEF FramesOk, Cmds, Scopes, Targets, IsBarrierCommand
  <2> QED BY <1>0, <1>1, <2>1
<1>2. CASE /\ reader.pc = "idle" /\ UNCHANGED reader
           /\ \E t \in Targets, cmd \in Commands \cap {"connect", "work"} : Claim(cmd, t)
  <2>1. PICK t \in Targets, cmd \in Commands \cap {"connect", "work"} : Claim(cmd, t)
    BY <1>2
  <2>2. t \in Scopes /\ cmd \in Cmds /\ t # "global" /\ ~IsBarrierCommand(cmd)
    BY DEF Scopes, Targets, Cmds, IsBarrierCommand
  <2>3. reader' \in Readings
    BY <1>2 DEF Typed
  <2> QED BY <1>2, <2>1, <2>2, <2>3
<1>3. CASE reader.pc = "idle" /\ UNCHANGED reader /\ Claim("configure", "global")
  <2>1. "global" \in Scopes /\ "configure" \in Cmds /\ IsBarrierCommand("configure")
    BY DEF Scopes, Cmds, IsBarrierCommand
  <2>2. reader' \in Readings
    BY <1>3 DEF Typed
  <2> QED BY <1>3, <2>1, <2>2
<1> QED BY <1>1, <1>2, <1>3 DEF RouteClaim

\* What the reader does without the lanes.
RouteRest ==
  \/ \E t \in Targets :
       \/ \E cmd \in Commands : IsCancelCommand(cmd) /\ RouteCancel(cmd, t)
       \/ RouteAnswer(t) \/ RouteDismiss(t)
  \/ SendAnswer

\* InFlight.Cancel only touches the entries of its target.
LEMMA CancelTyped ==
  ASSUME Typed, NEW t \in Targets, Cancel(t)
  PROVE  entries' \in [Targets -> SUBSET Ids] /\ cancelled' \subseteq Ids
  BY DEF Cancel, Typed

\* The rest of Router.Route keeps the types: cancellation, answers, the send.
LEMMA RouteRestTyped == ASSUME Typed, RouteRest PROVE Typed'
<1>1. ASSUME NEW t \in Targets, NEW cmd \in Commands, IsCancelCommand(cmd), RouteCancel(cmd, t)
      PROVE  Typed'
  <2>1. reader' \in Readings
    BY <1>1, ReadingsTyped DEF RouteCancel, IsCancelCommand, Scopes
  <2>2. entries' \in [Targets -> SUBSET Ids] /\ cancelled' \subseteq Ids
    BY <1>1, CancelTyped DEF RouteCancel
  <2> QED BY <1>1, <2>1, <2>2 DEF RouteCancel, Typed, routerVars
<1>2. ASSUME NEW t \in Targets, RouteAnswer(t) PROVE Typed'
  <2>1. reader' \in Readings
    BY <1>2, ReadingsTyped DEF RouteAnswer, Typed
  <2> QED BY <1>2, <2>1 DEF RouteAnswer, Typed, routerVars, dialVars
<1>3. ASSUME NEW t \in Targets, RouteDismiss(t) PROVE Typed'
  <2>1. channel' \in [Ids -> {"none", "empty", "full", "closed"}]
    BY <1>3 DEF RouteDismiss, Typed
  <2>2. challenges' \in [Targets -> Ids \cup {None}]
    BY <1>3 DEF RouteDismiss, Typed
  <2> QED BY <1>3, <2>1, <2>2 DEF RouteDismiss, Typed, routerVars
<1>4. ASSUME SendAnswer PROVE Typed'
  <2>1. channel' \in [Ids -> {"none", "empty", "full", "closed"}] /\ crashed' \in BOOLEAN
    BY <1>4 DEF SendAnswer, Typed
  <2>2. reader' \in Readings
    BY <1>4, ReadingsTyped DEF SendAnswer
  <2> QED BY <1>4, <2>1, <2>2 DEF SendAnswer, Typed, routerVars
<1> QED BY <1>1, <1>2, <1>3, <1>4 DEF RouteRest

\* The two orders of a stop.
LEMMA StopStepsFacts ==
  ASSUME NEW t
  PROVE  /\ Len(StopSteps(t)) = 4 /\ StopSteps(t)[1] = "cancel"
         /\ t \in Sessions => /\ StopSteps(t)[2] = "unmap" /\ StopSteps(t)[3] = "close"
                              /\ StopSteps(t)[4] = "drop"
         /\ t \notin Sessions => /\ StopSteps(t)[2] = "drop" /\ StopSteps(t)[3] = "unmap"
                                 /\ StopSteps(t)[4] = "close"
  BY DEF StopSteps

\* What a step does to the lane of its frame, and to no other.
Others(f) == \A g \in Ids \ {f} : lane'[g] = lane[g]
Keeps(f) == lane'[f].prev = lane[f].prev /\ lane'[f].bar = lane[f].bar
\* Advancing a lane leaves the other lanes and its own predecessors alone.
LEMMA SetFacts ==
  ASSUME Typed, NEW f \in Ids, NEW q \in {"none", "wait", "run", "ran", "released", "closed"}, Set(f, q)
  PROVE  /\ lane' \in [Ids -> Lanes] /\ Others(f) /\ Keeps(f) /\ lane'[f].pc = q
         /\ lane'[f].step = lane[f].step /\ lane'[f].took = lane[f].took
<1>1. lane[f] \in Lanes
  BY DEF Typed
<1>2. lane'[f] = [lane[f] EXCEPT !.pc = q] /\ Others(f)
  BY DEF Set, Typed, Others
<1>3. lane'[f] \in Lanes
  BY <1>1, <1>2 DEF Lanes
<1>4. lane' \in [Ids -> Lanes]
  BY <1>3 DEF Set, Typed
<1> QED BY <1>1, <1>2, <1>4 DEF Keeps, Lanes

\* A frame that runs was claimed, and all but configurations are of a target.
LEMMA FrameFacts ==
  ASSUME Typed, FramesOk, NEW f \in Ids, lane[f].pc # "none"
  PROVE  /\ f \in Claimed /\ frames[f] \in Frames /\ Of(f) \in Scopes
         /\ ~IsBarrierCommand(frames[f].cmd) => Of(f) \in Targets
<1>1. f \in Claimed
  BY DEF FramesOk
<1>2. frames[f] \in Frames
  BY <1>1 DEF Typed, Claimed
<1>3. Of(f) \in Scopes /\ (~IsBarrierCommand(frames[f].cmd) => Of(f) # "global")
  BY <1>1, <1>2 DEF FramesOk, Of, Frames
<1> QED BY <1>1, <1>2, <1>3 DEF Scopes

\* One step of the stop handler: only the list of steps moves.
LEMMA RunStopFacts ==
  ASSUME Typed, FramesOk, NEW f \in Ids, StopOk(f), RunStop(f)
  PROVE  /\ lane' \in [Ids -> Lanes] /\ Others(f) /\ Keeps(f)
         /\ lane[f].pc = "run" /\ IsCancelCommand(frames[f].cmd) /\ Of(f) \in Targets
         /\ lane[f].step \in 1 .. 4 /\ lane'[f].step = lane[f].step + 1
         /\ lane'[f].pc = IF lane[f].step = 4 THEN "ran" ELSE "run"
         /\ lane'[f].took = IF StopSteps(Of(f))[lane[f].step] = "unmap"
                            THEN challenges[Of(f)] ELSE lane[f].took
<1> DEFINE step == StopSteps(Of(f))[lane[f].step]
           took == IF step = "unmap" THEN challenges[Of(f)] ELSE lane[f].took
           pc == IF lane[f].step = 4 THEN "ran" ELSE "run"
<1>1. lane[f] \in Lanes /\ lane[f].pc = "run" /\ IsCancelCommand(frames[f].cmd)
  BY DEF Typed, RunStop
<1>2. lane[f].step \in 1 .. 4
  BY <1>1 DEF StopOk, Lanes
<1>3. /\ lane'[f] = [lane[f] EXCEPT !.step = @ + 1, !.took = took, !.pc = pc]
      /\ lane' = [lane EXCEPT ![f] = [lane[f] EXCEPT !.step = @ + 1, !.took = took, !.pc = pc]]
  BY <1>1, StopStepsFacts DEF RunStop, Of, Typed
<1> HIDE DEF took, pc
<1>4. /\ lane'[f].step = lane[f].step + 1 /\ lane'[f].took = took /\ lane'[f].pc = pc
      /\ lane'[f].prev = lane[f].prev /\ lane'[f].bar = lane[f].bar
  BY <1>1, <1>3 DEF Lanes
<1>5. Others(f)
  BY <1>3 DEF Others, Typed
<1>t. Of(f) \in Targets
  BY <1>1, FrameFacts DEF IsCancelCommand, IsBarrierCommand
<1>6. took \in Ids \cup {None}
  <2>1. CASE step = "unmap"
    BY <1>t, <2>1 DEF took, Typed
  <2>2. CASE step # "unmap"
    BY <1>1, <2>2 DEF took, Lanes
  <2> QED BY <2>1, <2>2
<1>7. lane' \in [Ids -> Lanes]
  <2>1. ASSUME NEW k \in 1 .. 5, NEW w \in Ids \cup {None}, NEW q \in {"run", "ran"}
        PROVE  [lane[f] EXCEPT !.step = k, !.took = w, !.pc = q] \in Lanes
    BY <1>1 DEF Lanes
  <2>2. lane[f].step + 1 \in 1 .. 5 /\ pc \in {"run", "ran"}
    BY <1>2 DEF pc
  <2>3. [lane[f] EXCEPT !.step = @ + 1, !.took = took, !.pc = pc] \in Lanes
    BY <1>6, <2>1, <2>2, Zenon
  <2> QED BY <1>3, <2>3 DEF Typed
<1> QED BY <1>1, <1>2, <1>4, <1>5, <1>7, <1>t DEF Keeps, took, pc

\* A step of a lane keeps the types.
LEMMA FrameStepTyped ==
  ASSUME Typed, FramesOk, NEW f \in Ids, StopOk(f), FrameStep(f)
  PROVE  Typed'
<1>1. CASE RunStart(f)
  <2>1. lane' \in [Ids -> Lanes]
    BY <1>1, SetFacts DEF RunStart
  <2>2. task' \in [Ids -> {"none", "begin", "dial", "ask", "open", "end", "over"}]
    BY <1>1 DEF RunStart, Typed
  <2> QED BY <1>1, <2>1, <2>2 DEF RunStart, RouterRest, Typed
<1>2. CASE RunEnd(f) \/ CloseDone(f)
  <2>1. lane' \in [Ids -> Lanes]
    BY <1>2, SetFacts DEF RunEnd, CloseDone
  <2> QED BY <1>2, <2>1 DEF RunEnd, CloseDone, RouterRest, Typed, dialVars
<1>3. CASE RunStop(f)
  <2> DEFINE t == Of(f)
  <2>1. lane' \in [Ids -> Lanes] /\ t \in Targets
    BY <1>3, RunStopFacts
  <2>2. entries' \in [Targets -> SUBSET Ids] /\ cancelled' \subseteq Ids
    <3>1. Cancel(t) \/ UNCHANGED <<entries, cancelled>>
      BY <1>3 DEF RunStop, Of
    <3> QED BY <2>1, <3>1, CancelTyped DEF Typed
  <2>3. challenges' \in [Targets -> Ids \cup {None}] /\ live' \in [Targets -> Ids \cup {None}]
    BY <1>3, <2>1 DEF RunStop, Of, Typed
  <2>4. channel' \in [Ids -> {"none", "empty", "full", "closed"}]
    BY <1>3 DEF RunStop, Typed
  <2> QED BY <1>3, <2>1, <2>2, <2>3, <2>4 DEF RunStop, RouterRest, Typed
<1>4. CASE Release(f)
  <2>1. lane' \in [Ids -> Lanes]
    BY <1>4, SetFacts DEF Release
  <2>s. Of(f) \in Scopes
    BY <1>4, FrameFacts DEF Release
  <2>2. depth' \in [Scopes -> Int] /\ tails' \in [Scopes -> Ids \cup {None}]
    <3>1. TailAfter(Of(f), f) \in Ids \cup {None} /\ depth[Of(f)] - 1 \in Int
      BY <2>s DEF TailAfter, Typed
    <3>2. tails' = [tails EXCEPT ![Of(f)] = TailAfter(Of(f), f)]
          /\ depth' = [depth EXCEPT ![Of(f)] = depth[Of(f)] - 1]
      BY <1>4 DEF Release, Of
    <3> QED BY <3>1, <3>2 DEF Typed
  <2> QED BY <1>4, <2>1, <2>2 DEF Release, Typed, dialVars
<1> QED BY <1>1, <1>2, <1>3, <1>4 DEF FrameStep

\* A step of a dial keeps the types.
LEMMA TaskStepTyped ==
  ASSUME Typed, NEW f \in Ids, TaskStep(f), Of(f) \in Targets
  PROVE  Typed'
<1>1. task' \in [Ids -> {"none", "begin", "dial", "ask", "open", "end", "over"}]
  BY DEF TaskStep, Begin, Ask, AskAnswered, AskFails, Answered, DialEnds, Register, Finish, Step, Typed
<1>2. UNCHANGED <<routerVars, reader, crashed>>
  BY DEF TaskStep, Begin, Ask, AskAnswered, AskFails, Answered, DialEnds, Register, Finish, TaskRest
<1>3. entries' \in [Targets -> SUBSET Ids] /\ cancelled' \subseteq Ids
  BY SMTT(40) DEF TaskStep, Begin, Ask, AskAnswered, AskFails, Answered, DialEnds, Register, Finish, Remaining, Typed
<1>4. challenges' \in [Targets -> Ids \cup {None}] /\ live' \in [Targets -> Ids \cup {None}]
  BY DEF TaskStep, Begin, Ask, AskAnswered, AskFails, Answered, DialEnds, Register, Finish, Typed
<1>5. channel' \in [Ids -> {"none", "empty", "full", "closed"}]
  BY DEF TaskStep, Begin, Ask, AskAnswered, AskFails, Answered, DialEnds, Register, Finish, Typed
<1> QED BY <1>1, <1>2, <1>3, <1>4, <1>5 DEF Typed, routerVars

-----------------------------------------------------------------------------
(* The lanes.                                                                *)

\* What leaves the router alone keeps what is known of its lanes.
LEMMA LanesUntouched ==
  ASSUME LanesInv, UNCHANGED routerVars,
         reader'.pc = "claim" => reader'.cmd = "disconnect" /\ reader'.scope \in Targets
  PROVE  LanesInv'
<1> USE DEF routerVars
<1>1. FramesOk' /\ TailsOk'
  BY DEF LanesInv, FramesOk, TailsOk, Claimed, Of, Ended
<1>2. BarrierOk' /\ WaitsOk'
  BY DEF LanesInv, BarrierOk, WaitsOk, WaitOk, Claimed, Of, Ended
<1>3. RunsInOrder'
  BY DEF LanesInv, RunsInOrder, Claimed, Started, Ended
<1> QED BY <1>1, <1>2, <1>3 DEF LanesInv

\* The goroutine of a frame goes on; it starts only when all before it ended.
Advances(f) ==
  /\ UNCHANGED <<frames, barrier, reader>> /\ Others(f) /\ Keeps(f)
  /\ lane'[f].pc \in {"run", "ran", "released", "closed"}
  /\ Ended(f) => Ended(f)'
  /\ \A e \in Claimed : Precedes(e, f) => Ended(e)

\* A lane that advances, and empties a tail only when it ended, keeps the lanes.
LEMMA AdvanceOk ==
  ASSUME Typed, LanesInv, NEW f \in Claimed, Advances(f),
         \A s \in Scopes : tails'[s] = tails[s] \/ (tails[s] = f /\ tails'[s] = None /\ Ended(f)')
  PROVE  LanesInv'
<1>1. f \in Ids /\ Claimed \subseteq Ids /\ Claimed' = Claimed /\ \A e \in Claimed : Of(e)' = Of(e)
  BY DEF Advances, Typed, Claimed, Ids, Of
<1>2. \A e \in Claimed : Ended(e) => Ended(e)'
  BY <1>1 DEF Advances, Others, Ended
<1>3. \A e \in Claimed \ {f} : lane'[e] = lane[e]
  BY <1>1 DEF Advances, Others
<1>4. FramesOk'
  BY <1>1 DEF LanesInv, FramesOk, Advances, Others
<1>5. TailsOk'
  <2> SUFFICES ASSUME NEW s \in Scopes
               PROVE  /\ tails'[s] # None => tails'[s] \in Claimed /\ Of(tails'[s]) = s
                      /\ \A e \in Claimed : Of(e) = s =>
                           IF tails'[s] = None THEN Ended(e)' ELSE e <= tails'[s]
    BY <1>1 DEF TailsOk, Of, Advances
  <2>1. CASE tails'[s] = tails[s]
    BY <1>2, <2>1 DEF LanesInv, TailsOk
  <2>2. CASE tails[s] = f /\ tails'[s] = None /\ Ended(f)'
    <3>1. f # None /\ Of(f) = s
      BY <1>1, <2>2 DEF Ids, None, LanesInv, TailsOk
    <3>2. \A e \in Claimed : Of(e) = s => e <= f
      BY <2>2, <3>1 DEF LanesInv, TailsOk
    <3>3. \A e \in Claimed : Of(e) = s /\ e # f => Ended(e)
      BY <1>1, <3>1, <3>2 DEF Advances, Precedes, Ids
    <3> QED BY <1>2, <2>2, <3>3
  <2> QED BY <2>1, <2>2
<1>6. BarrierOk'
  BY <1>1 DEF LanesInv, BarrierOk, Advances
<1>7. WaitsOk'
  <2> SUFFICES ASSUME NEW g \in Claimed, lane'[g].pc = "wait" PROVE WaitOk(g)' /\ lane'[g].step = 1
    BY <1>1 DEF WaitsOk
  <2>1. g # f /\ lane'[g] = lane[g]
    BY <1>3 DEF Advances
  <2>2. WaitOk(g) /\ lane[g].step = 1
    BY <2>1 DEF LanesInv, WaitsOk
  <2>3. WaitOk(g)'
    BY <1>1, <1>2, <2>1, <2>2 DEF WaitOk, Advances
  <2> QED BY <2>1, <2>2, <2>3
<1>8. RunsInOrder'
  <2> SUFFICES ASSUME NEW e \in Claimed, NEW g \in Claimed, Precedes(e, g), Started(g)'
               PROVE  Ended(e)'
    BY <1>1 DEF RunsInOrder, Precedes, Of, Advances
  <2>1. CASE g = f
    BY <1>2, <2>1 DEF Advances
  <2>2. CASE g # f
    BY <1>2, <1>3, <2>2 DEF LanesInv, RunsInOrder, Precedes, Started, Of
  <2> QED BY <2>1, <2>2
<1> QED BY <1>4, <1>5, <1>6, <1>7, <1>8 DEF LanesInv

\* A new frame waits for the tail of its scope, and a barrier for all of them.
LEMMA ClaimOk ==
  ASSUME Typed, LanesInv, NEW cmd \in Cmds, NEW s \in Scopes, Claim(cmd, s),
         s = "global" <=> IsBarrierCommand(cmd), reader'.pc # "claim"
  PROVE  LanesInv'
<1> DEFINE x == [cmd |-> cmd, scope |-> s]
<1>0. PICK id \in Nat : id = Len(frames) + 1
  BY DEF Typed
<1>1. x \in Frames
  BY DEF Frames
<1>2. /\ Len(frames) \in Nat /\ frames'[id] = x
      /\ \A f \in Claimed : frames'[f] = frames[f]
      /\ Claimed' = Claimed \cup {id} /\ id \notin Claimed
  BY <1>0, <1>1, AppendFacts DEF Claim
<1>3. id \in Ids /\ Claimed \subseteq Ids /\ \A f \in Claimed : f < id
  BY <1>0, <1>2 DEF Claim, Ids, Typed, Claimed
<1>m. \A f \in Claimed : ~(id < f)
  BY <1>0 DEF Claimed
<1>4. Of(id)' = s /\ frames'[id].cmd = cmd /\ \A f \in Claimed : Of(f)' = Of(f)
  BY <1>2 DEF Of
<1>5. lane'[id] = Waits(id, cmd, s) /\ \A f \in Ids \ {id} : lane'[f] = lane[f]
  BY <1>0, <1>3 DEF Claim, Typed
<1>6. lane'[id].pc = "wait" /\ lane'[id].step = 1 /\ lane'[id].prev = tails[s] /\ lane'[id].bar = barrier
  BY <1>5 DEF Waits
<1>7. /\ tails'[s] = id /\ \A u \in Scopes \ {s} : tails'[u] = tails[u]
      /\ barrier' = IF IsBarrierCommand(cmd) THEN id ELSE barrier
  BY <1>0 DEF Claim, Typed
<1>8. \A f \in Claimed : (Ended(f)' <=> Ended(f)) /\ (Started(f)' <=> Started(f)) /\ lane'[f] = lane[f]
  BY <1>2, <1>3, <1>5 DEF Ended, Started
<1>n. None = 0 /\ id # None /\ None \notin Claimed
  BY <1>2, <1>3 DEF None, Ids
<1> HIDE DEF x
<1>9. FramesOk'
  <2>1. \A f \in Ids : lane'[f].pc # "none" <=> f \in Claimed'
    BY <1>2, <1>5, <1>6 DEF LanesInv, FramesOk
  <2>2. \A f \in Claimed' : Of(f)' = "global" <=> IsBarrierCommand(frames'[f].cmd)
    BY <1>2, <1>4 DEF LanesInv, FramesOk
  <2> QED BY <2>1, <2>2 DEF FramesOk
<1>10. TailsOk'
  <2> SUFFICES ASSUME NEW u \in Scopes
               PROVE  /\ tails'[u] # None => tails'[u] \in Claimed' /\ Of(tails[u])' = u
                      /\ \A e \in Claimed' : Of(e)' = u =>
                           IF tails'[u] = None THEN Ended(e)' ELSE e <= tails'[u]
    BY DEF TailsOk
  <2>1. CASE u = s
    BY <1>2, <1>3, <1>4, <1>7, <1>n, <2>1 DEF Ids, Of
  <2>2. CASE u # s
    <3>1. tails'[u] = tails[u]
      BY <1>7, <2>2
    <3>2. tails[u] # None => tails[u] \in Claimed /\ frames'[tails[u]].scope = u
      BY <1>2, <3>1 DEF LanesInv, TailsOk, Of
    <3>3. ASSUME NEW e \in Claimed', Of(e)' = u
          PROVE  IF tails'[u] = None THEN Ended(e)' ELSE e <= tails'[u]
      <4>1. e \in Claimed /\ Of(e) = u
        BY <1>2, <1>4, <2>2, <3>3
      <4> QED BY <1>8, <3>1, <4>1 DEF LanesInv, TailsOk
    <3> QED BY <1>2, <3>1, <3>2, <3>3 DEF Of
  <2> QED BY <2>1, <2>2
<1>11. BarrierOk'
  <2>0. frames'[id].cmd = cmd /\ id <= id
    BY <1>2, <1>3 DEF Ids, x
  <2>1. CASE IsBarrierCommand(cmd)
    <3>1. \A f \in Claimed : f <= id
      BY <1>3 DEF Ids
    <3> QED BY <1>2, <1>7, <1>n, <2>0, <2>1, <3>1 DEF BarrierOk
  <2>2. CASE ~IsBarrierCommand(cmd)
    BY <1>2, <1>7, <2>0, <2>2 DEF LanesInv, BarrierOk
  <2> QED BY <2>1, <2>2
<1>12. WaitsOk'
  <2> SUFFICES ASSUME NEW g \in Claimed', lane'[g].pc = "wait" PROVE WaitOk(g)' /\ lane'[g].step = 1
    BY DEF WaitsOk
  <2>1. CASE g = id
    <3>1. \A e \in Claimed : Of(e)' = s => IF tails[s] = None THEN Ended(e)' ELSE e <= tails[s]
      BY <1>4, <1>8 DEF LanesInv, TailsOk
    <3>2. tails[s] # None => tails[s] \in Claimed /\ frames'[tails[s]].scope = s
      BY <1>2 DEF LanesInv, TailsOk, Of
    <3>3. barrier # None => barrier \in Claimed /\ IsBarrierCommand(frames'[barrier].cmd)
      BY <1>2 DEF LanesInv, BarrierOk
    <3>4. \A e \in Claimed : IsBarrierCommand(frames'[e].cmd) => barrier # None /\ e <= barrier
      BY <1>2 DEF LanesInv, BarrierOk
    <3>5. WaitOk(id)'
      <4>1. ~(id < id)
        BY <1>3 DEF Ids
      <4> QED BY <1>2, <1>3, <1>4, <1>6, <3>1, <3>2, <3>3, <3>4, <4>1 DEF WaitOk, Of
    <3> QED BY <1>6, <2>1, <3>5
  <2>2. CASE g # id
    <3>0. g \in Claimed /\ lane'[g] = lane[g]
      BY <1>2, <1>8, <2>2
    <3>1. g \in Claimed /\ lane'[g] = lane[g] /\ ~(id < g)
      BY <1>m, <3>0, Zenon
    <3>2. WaitOk(g) /\ lane[g].step = 1
      BY <3>1 DEF LanesInv, WaitsOk
    <3>3. WaitOk(g)'
      <4>1. lane[g].prev # None => frames'[lane[g].prev] = frames[lane[g].prev]
        BY <1>2, <3>2 DEF WaitOk
      <4>2. lane[g].bar # None => frames'[lane[g].bar] = frames[lane[g].bar]
        BY <1>2, <3>2 DEF WaitOk
      <4> QED BY <1>2, <1>4, <1>8, <3>1, <3>2, <4>1, <4>2 DEF WaitOk, Of
    <3> QED BY <3>1, <3>2, <3>3
  <2> QED BY <2>1, <2>2
<1>13. RunsInOrder'
  <2> SUFFICES ASSUME NEW e \in Claimed', NEW g \in Claimed', Precedes(e, g)', Started(g)'
               PROVE  Ended(e)'
    BY DEF RunsInOrder, Precedes, Of
  <2>1. g # id
    BY <1>6 DEF Started
  <2>2. g \in Claimed /\ e \in Claimed
    <3>1. g \in Claimed
      BY <1>2, <2>1
    <3>2. e # id
      BY <1>m, <3>1 DEF Precedes
    <3> QED
      BY <1>2, <3>1, <3>2
  <2>3. Precedes(e, g) /\ Started(g)
    BY <1>2, <1>4, <1>8, <2>2 DEF Precedes
  <2> QED BY <1>8, <2>2, <2>3 DEF LanesInv, RunsInOrder, Precedes, Of
<1> QED BY <1>9, <1>10, <1>11, <1>12, <1>13 DEF LanesInv

\* A frame starts when the two it waits for are closed, and goes on in order.
LEMMA FrameStepOk ==
  ASSUME Typed, LanesInv, NEW f \in Ids, StopOk(f), FrameStep(f)
  PROVE  LanesInv'
<1>0. lane[f].pc # "none" /\ f \in Claimed /\ Of(f) \in Scopes
  BY FrameFacts DEF FrameStep, RunStart, RunEnd, RunStop, Release, CloseDone, LanesInv
<1>1. ASSUME Started(f) PROVE \A e \in Claimed : Precedes(e, f) => Ended(e)
  BY <1>0, <1>1 DEF LanesInv, RunsInOrder, Precedes, Of
<1>2. CASE RunStart(f)
  <2>1. lane[f].pc = "wait" /\ WaitOk(f) /\ ~Ended(f)
    BY <1>0, <1>2 DEF RunStart, LanesInv, WaitsOk, Ended
  <2>2. Closed(lane[f].bar) /\ Closed(lane[f].prev)
    BY <1>2 DEF RunStart
  <2>3. ASSUME NEW e \in Claimed, Precedes(e, f) PROVE Ended(e)
    <3> DEFINE w == IF Of(e) = Of(f) THEN lane[f].prev ELSE lane[f].bar
    <3>1. CASE Of(e) = Of(f) /\ lane[f].prev = None
      BY <2>1, <2>3, <3>1 DEF WaitOk, Precedes
    <3>2. CASE ~(Of(e) = Of(f) /\ lane[f].prev = None)
      <4>1. w # None /\ w \in Claimed /\ e <= w /\ (Of(e) = Of(w) \/ IsBarrierCommand(frames[e].cmd))
        BY <2>1, <2>3, <3>2 DEF WaitOk, Precedes
      <4>2. lane[w].pc = "closed"
        BY <2>2, <4>1 DEF Closed
      <4>3. CASE e = w
        BY <4>2, <4>3 DEF Ended
      <4>4. CASE e < w
        BY <4>1, <4>2, <4>4 DEF LanesInv, RunsInOrder, Started, Of
      <4>5. e = w \/ e < w
        BY <4>1 DEF Claimed
      <4> QED BY <4>3, <4>4, <4>5
    <3> QED BY <3>1, <3>2
  <2>4. Others(f) /\ Keeps(f) /\ lane'[f].pc \in {"run", "ran"}
    BY <1>2, SetFacts DEF RunStart
  <2>5. Advances(f) /\ tails' = tails
    BY <1>2, <2>1, <2>3, <2>4 DEF Advances, RunStart, RouterRest
  <2> QED BY <1>0, <2>5, AdvanceOk
<1>3. CASE RunEnd(f) \/ CloseDone(f)
  <2>1. Others(f) /\ Keeps(f) /\ lane'[f].pc \in {"ran", "closed"} /\ Started(f)
    BY <1>3, SetFacts DEF RunEnd, CloseDone, Started
  <2>2. Advances(f) /\ tails' = tails
    BY <1>1, <1>3, <2>1 DEF Advances, RunEnd, CloseDone, RouterRest, Ended
  <2> QED BY <1>0, <2>2, AdvanceOk
<1>4. CASE RunStop(f)
  <2>1. Others(f) /\ Keeps(f) /\ lane'[f].pc \in {"run", "ran"} /\ lane[f].pc = "run"
    BY <1>4, RunStopFacts DEF LanesInv
  <2>2. Advances(f) /\ tails' = tails
    BY <1>1, <1>4, <2>1 DEF Advances, RunStop, RouterRest, Started, Ended
  <2> QED BY <1>0, <2>2, AdvanceOk
<1>5. CASE Release(f)
  <2>1. Others(f) /\ Keeps(f) /\ lane'[f].pc = "released" /\ lane[f].pc = "ran"
    BY <1>5, SetFacts DEF Release
  <2>2. Advances(f) /\ Ended(f)'
    BY <1>1, <1>5, <2>1 DEF Advances, Release, Started, Ended
  <2>3. \A s \in Scopes : tails'[s] = tails[s] \/ (tails[s] = f /\ tails'[s] = None)
    BY <1>0, <1>5 DEF Release, TailAfter, Of, Typed
  <2> QED BY <1>0, <2>2, <2>3, AdvanceOk
<1> QED BY <1>2, <1>3, <1>4, <1>5 DEF FrameStep

\* A dial never touches the router.
LEMMA TaskStepRest ==
  ASSUME NEW f, TaskStep(f) PROVE UNCHANGED <<routerVars, reader, crashed>> /\ task[f] # "none"
  BY DEF TaskStep, Begin, Ask, AskAnswered, AskFails, Answered, DialEnds, Register, Finish, TaskRest, Step

\* The actions that go by a lane, one at a time.
LEMMA LanesStep ==
  ASSUME Typed, LanesInv, \A f \in Ids : StopOk(f) /\ TaskOk(f), [Next]_vars
  PROVE  Typed' /\ LanesInv'
<1>1. CASE RouteClaim
  <2>1. PICK cmd \in Cmds, s \in Scopes :
           /\ Claim(cmd, s) /\ (s = "global" <=> IsBarrierCommand(cmd))
           /\ reader' \in Readings /\ reader'.pc \in {"idle", "send"}
    BY <1>1, RouteClaims DEF LanesInv
  <2> QED BY <2>1, ClaimTyped, ClaimOk
<1>2. CASE RouteRest
  <2>1. UNCHANGED routerVars
    BY <1>2 DEF RouteRest, RouteCancel, RouteAnswer, RouteDismiss, SendAnswer
  <2>2. reader'.pc = "claim" => reader'.cmd = "disconnect" /\ reader'.scope \in Targets
    <3>1. ASSUME NEW t \in Targets, NEW cmd, IsCancelCommand(cmd), RouteCancel(cmd, t)
          PROVE  reader'.cmd = "disconnect" /\ reader'.scope \in Targets
      BY <3>1 DEF RouteCancel, Idle, IsCancelCommand
    <3>2. ASSUME NEW t \in Targets, RouteAnswer(t) PROVE reader'.pc # "claim"
      BY <3>2 DEF RouteAnswer, Idle
    <3>3. ASSUME NEW t \in Targets, RouteDismiss(t) PROVE reader'.pc # "claim"
      BY <3>3 DEF RouteDismiss
    <3>4. ASSUME SendAnswer PROVE reader'.pc # "claim"
      BY <3>4 DEF SendAnswer, Idle
    <3> QED BY <1>2, <3>1, <3>2, <3>3, <3>4 DEF RouteRest
  <2> QED BY <1>2, <2>1, <2>2, RouteRestTyped, LanesUntouched
<1>3. ASSUME NEW f \in Ids, FrameStep(f) PROVE Typed' /\ LanesInv'
  BY <1>3, FrameStepTyped, FrameStepOk DEF LanesInv
<1>4. ASSUME NEW f \in Ids, TaskStep(f) PROVE Typed' /\ LanesInv'
  <2>1. UNCHANGED <<routerVars, reader, crashed>> /\ task[f] # "none"
    BY <1>4, TaskStepRest
  <2>2. Opens(frames[f].cmd) /\ f \in Claimed
    BY <2>1 DEF TaskOk
  <2>3. Of(f) \in Targets
    BY <2>2, FrameFacts DEF LanesInv, FramesOk, Opens, IsBarrierCommand
  <2> QED BY <1>4, <2>1, <2>3, TaskStepTyped, LanesUntouched DEF LanesInv, FramesOk
<1>5. CASE UNCHANGED vars
  <2>1. Typed'
    BY <1>5 DEF vars, routerVars, dialVars, Typed
  <2>2. LanesInv'
    BY <1>5, LanesUntouched DEF vars, LanesInv, FramesOk
  <2> QED BY <2>1, <2>2
<1> QED BY <1>1, <1>2, <1>3, <1>4, <1>5 DEF Next, Route, RouteRest

-----------------------------------------------------------------------------
(* The dials.                                                                *)

\* A lane runs one frame at a time.
LEMMA OneRuns ==
  ASSUME Typed, LanesInv, NEW f \in Claimed, NEW g \in Claimed, f # g, Of(f) = Of(g),
         Started(f), Started(g)
  PROVE  Ended(f) \/ Ended(g)
<1>1. f < g \/ g < f
  BY DEF Claimed, Typed
<1> QED BY <1>1 DEF LanesInv, RunsInOrder, Of

\* Claims add frames that have neither started nor a task.
LEMMA ClaimDials ==
  ASSUME Typed, LanesInv, DialsInv, NEW cmd \in Cmds, NEW s \in Scopes, Claim(cmd, s),
         reader'.pc = "idle"
  PROVE  DialsInv'
<1> DEFINE x == [cmd |-> cmd, scope |-> s]
<1>0. PICK id \in Nat : id = Len(frames) + 1
  BY DEF Typed
<1>1. x \in Frames
  BY DEF Frames
<1>2. /\ Claimed' = Claimed \cup {id} /\ id \notin Claimed
      /\ \A f \in Claimed : frames'[f] = frames[f] /\ Of(f)' = Of(f)
  BY <1>0, <1>1, AppendFacts DEF Claim, Of
<1>3. id \in Ids /\ Claimed \subseteq Ids
  BY <1>0 DEF Claim, Ids, Typed, Claimed
<1>4. lane'[id] = Waits(id, cmd, s) /\ \A f \in Ids \ {id} : lane'[f] = lane[f]
  BY <1>0, <1>3 DEF Claim, Typed
<1>5. lane'[id].pc = "wait" /\ lane'[id].took = None /\ ~Started(id)' /\ ~Ended(id)'
  BY <1>4 DEF Waits, Started, Ended
<1>6. UNCHANGED <<task, entries, cancelled, challenges, channel, live>>
  BY DEF Claim, dialVars
<1>7. \A f \in Claimed : (Ended(f)' <=> Ended(f)) /\ (Started(f)' <=> Started(f))
  BY <1>2, <1>3, <1>4 DEF Ended, Started
<1>8. task[id] = "none" /\ \A f \in Ids : lane[f].pc = "run" => f \in Claimed
  BY <1>2, <1>3 DEF DialsInv, TaskOk, LanesInv, FramesOk
<1>9. ASSUME NEW f \in Ids PROVE TaskOk(f)' /\ StopOk(f)' /\ TookOk(f)'
  <2>1. CASE f = id
    BY <1>5, <1>6, <1>8, <2>1 DEF TaskOk, StopOk, TookOk
  <2>2. CASE f # id
    <3>1. TaskOk(f) /\ StopOk(f) /\ TookOk(f) /\ lane'[f] = lane[f]
      BY <1>4, <2>2 DEF DialsInv
    <3>2. TaskOk(f)'
      BY <1>2, <1>6, <3>1 DEF TaskOk
    <3>3. StopOk(f)'
      BY <1>2, <1>6, <1>8, <3>1 DEF StopOk
    <3>4. TookOk(f)'
      BY <1>2, <3>1 DEF TookOk, Of
    <3> QED BY <3>2, <3>3, <3>4
  <2> QED BY <2>1, <2>2
<1>10. \A t \in Targets : QuestionOk(t)'
  BY <1>2, <1>6 DEF DialsInv, QuestionOk, Of
<1>11. ReaderOk'
  BY DEF ReaderOk
<1>12. DialCanBeCut'
  BY <1>2, <1>6, <1>8 DEF DialsInv, DialCanBeCut
<1>13. StoppedForwardIsGone'
  <2> SUFFICES ASSUME NEW t \in Forwards, NEW f \in Claimed' PROVE StopHolds(t, f)'
    BY DEF StoppedForwardIsGone
  <2>1. CASE f = id
    BY <1>5, <2>1 DEF StopHolds
  <2>2. CASE f \in Claimed
    <3>1. StopHolds(t, f)
      BY <2>2 DEF DialsInv, StoppedForwardIsGone
    <3> QED BY <1>2, <1>6, <1>7, <2>2, <3>1 DEF StopHolds
  <2> QED BY <1>2, <2>1, <2>2
<1> QED BY <1>9, <1>10, <1>11, <1>12, <1>13 DEF DialsInv

\* The reader cuts, answers and dismisses.
LEMMA RouteRestDials ==
  ASSUME Typed, LanesInv, DialsInv, RouteRest
  PROVE  DialsInv'
<1>0. UNCHANGED <<frames, lane, task, live>> /\ Claimed' = Claimed
  BY DEF RouteRest, RouteCancel, RouteAnswer, RouteDismiss, SendAnswer, routerVars, dialVars, Claimed
<1>1. (\A f \in Ids : TaskOk(f) /\ StopOk(f) /\ TookOk(f))' /\ StoppedForwardIsGone'
  <2>1. (\A f \in Ids : TaskOk(f) /\ StopOk(f) /\ TookOk(f))'
    BY <1>0 DEF DialsInv, TaskOk, StopOk, TookOk, Of
  <2>2. StoppedForwardIsGone'
    BY <1>0 DEF DialsInv, StoppedForwardIsGone, StopHolds, Ended, Started
  <2> QED BY <2>1, <2>2
<1>2. ASSUME NEW t \in Targets, NEW cmd, RouteCancel(cmd, t) PROVE DialsInv'
  <2>1. UNCHANGED <<challenges, channel>> /\ Cancel(t) /\ reader'.pc = "claim"
    BY <1>2 DEF RouteCancel, Idle
  <2>2. (\A u \in Targets : QuestionOk(u))' /\ ReaderOk'
    BY <1>0, <2>1 DEF DialsInv, QuestionOk, ReaderOk, Of
  <2>3. DialCanBeCut'
    BY <1>0, <2>1 DEF DialsInv, DialCanBeCut, Cancel, Of, Typed
  <2> QED BY <1>1, <2>2, <2>3 DEF DialsInv
<1>3. ASSUME NEW t \in Targets, RouteAnswer(t) PROVE DialsInv'
  <2>1. UNCHANGED <<challenges, channel, entries, cancelled>> /\ challenges[t] # None
        /\ reader'.task = challenges[t]
    BY <1>3 DEF RouteAnswer, Idle, dialVars
  <2>2. (\A u \in Targets : QuestionOk(u))' /\ DialCanBeCut'
    BY <1>0, <2>1 DEF DialsInv, QuestionOk, DialCanBeCut, Of
  <2>3. ReaderOk'
    BY <1>0, <2>1 DEF DialsInv, QuestionOk, ReaderOk, Of
  <2> QED BY <1>1, <2>2, <2>3 DEF DialsInv
<1>4. ASSUME NEW t \in Targets, RouteDismiss(t) PROVE DialsInv'
  <2>1. /\ UNCHANGED <<reader, entries, cancelled>> /\ reader.pc = "idle" /\ challenges[t] # None
        /\ channel' = [channel EXCEPT ![challenges[t]] = "closed"]
        /\ challenges' = [challenges EXCEPT ![t] = None]
    BY <1>4 DEF RouteDismiss
  <2>2. ASSUME NEW u \in Targets PROVE QuestionOk(u)'
    <3>1. CASE u = t
      BY <2>1, <3>1 DEF QuestionOk, Typed
    <3>2. CASE u # t
      <4>1. challenges'[u] = challenges[u]
        BY <2>1, <3>2 DEF Typed
      <4>2. challenges[u] # None => challenges[u] # challenges[t]
        BY <2>1, <3>2 DEF DialsInv, QuestionOk
      <4>3. challenges[u] # None => channel'[challenges[u]] = channel[challenges[u]]
        BY <2>1, <4>2 DEF Typed
      <4> QED BY <1>0, <4>1, <4>3 DEF DialsInv, QuestionOk, Of
    <3> QED BY <3>1, <3>2
  <2>3. ReaderOk' /\ DialCanBeCut'
    BY <1>0, <2>1 DEF DialsInv, ReaderOk, DialCanBeCut, Of
  <2> QED BY <1>1, <2>2, <2>3 DEF DialsInv
<1>5. ASSUME SendAnswer PROVE DialsInv'
  <2>1. /\ UNCHANGED <<entries, cancelled, challenges>> /\ reader'.pc = "idle"
        /\ \A c \in Ids : channel'[c] = "closed" => channel[c] = "closed"
    BY <1>5 DEF SendAnswer, Idle, Typed
  <2>2. (\A u \in Targets : QuestionOk(u))'
    BY <1>0, <2>1 DEF DialsInv, QuestionOk, Of, Typed
  <2>3. ReaderOk' /\ DialCanBeCut'
    BY <1>0, <2>1 DEF DialsInv, ReaderOk, DialCanBeCut, Of
  <2> QED BY <1>1, <2>2, <2>3 DEF DialsInv
<1> QED BY <1>2, <1>3, <1>4, <1>5 DEF RouteRest

\* The steps of a frame's goroutine around its handler.
LEMMA LaneDials ==
  ASSUME Typed, LanesInv, DialsInv, NEW f \in Ids,
         RunStart(f) \/ RunEnd(f) \/ Release(f) \/ CloseDone(f)
  PROVE  DialsInv'
<1>0. /\ UNCHANGED <<frames, reader, entries, cancelled, challenges, channel, live>>
      /\ Claimed' = Claimed /\ f \in Claimed
  BY DEF RunStart, RunEnd, Release, CloseDone, RouterRest, dialVars, Claimed, LanesInv, FramesOk
<1>1. /\ Others(f) /\ lane'[f].took = lane[f].took /\ lane'[f].step = lane[f].step
      /\ lane'[f].pc \in {"run", "ran", "released", "closed"}
      /\ Started(f) => Started(f)'
      /\ Started(f)'
  BY SetFacts DEF RunStart, RunEnd, Release, CloseDone, Started
<1>2. /\ \A g \in Ids \ {f} : task'[g] = task[g]
      /\ task'[f] = IF RunStart(f) /\ Opens(frames[f].cmd) THEN "begin" ELSE task[f]
  BY DEF RunStart, RunEnd, Release, CloseDone, dialVars, Typed
<1>3. ASSUME ~RunStart(f)
      PROVE  /\ task'[f] = task[f] /\ Started(f) /\ (lane'[f].pc = "run" => FALSE)
             /\ ~IsCancelCommand(frames[f].cmd) \/ Ended(f)
  <2>1. CASE RunEnd(f)
    BY <1>2, <1>3, <2>1, SetFacts DEF RunEnd, Started, Ended, IsCancelCommand, Opens
  <2>2. CASE Release(f)
    BY <1>2, <1>3, <2>2, SetFacts DEF Release, Started, Ended
  <2>3. CASE CloseDone(f)
    BY <1>2, <1>3, <2>3, SetFacts DEF CloseDone, Started, Ended
  <2> QED BY <1>3, <2>1, <2>2, <2>3
<1>4. ASSUME RunStart(f)
      PROVE  /\ lane[f].pc = "wait" /\ lane[f].step = 1 /\ ~Ended(f)
             /\ lane'[f].pc = IF frames[f].scope \in Sessions /\ Opens(frames[f].cmd) THEN "ran" ELSE "run"
  BY <1>0, <1>4, SetFacts DEF RunStart, LanesInv, WaitsOk, Ended
<1>5. TaskOk(f)'
  <2>1. CASE RunStart(f)
    <3>1. CASE Opens(frames[f].cmd)
      <4>1. frames[f].scope \in Forwards => lane'[f].pc = "run"
        BY <1>4, <2>1
      <4> QED BY <1>0, <1>2, <2>1, <3>1, <4>1 DEF TaskOk, Of
    <3>2. CASE ~Opens(frames[f].cmd)
      BY <1>0, <1>2, <3>2 DEF DialsInv, TaskOk
    <3> QED BY <3>1, <3>2
  <2>2. CASE ~RunStart(f)
    <3>1. TaskOk(f) /\ task'[f] = task[f]
      BY <1>3, <2>2 DEF DialsInv
    <3>2. CASE RunEnd(f)
      <4>1. task[f] # "none" => task[f] = "over"
        BY <3>1, <3>2 DEF RunEnd, TaskOk, Opens
      <4> QED BY <1>0, <3>1, <4>1 DEF TaskOk
    <3>3. CASE Release(f) \/ CloseDone(f)
      <4>1. lane[f].pc # "run"
        BY <3>3 DEF Release, CloseDone
      <4> QED BY <1>0, <3>1, <4>1 DEF TaskOk, Of
    <3> QED BY <2>2, <3>2, <3>3
  <2> QED BY <2>1, <2>2
<1>6. StopOk(f)'
  <2>1. CASE RunStart(f)
    BY <1>1, <1>4, <2>1 DEF StopOk
  <2>2. CASE ~RunStart(f)
    BY <1>3, <2>2 DEF StopOk
  <2> QED BY <2>1, <2>2
<1>7. ASSUME NEW g \in Ids PROVE TaskOk(g)' /\ StopOk(g)' /\ TookOk(g)'
  <2>1. CASE g = f
    <3>1. TookOk(f)'
      BY <1>0, <1>1 DEF DialsInv, TookOk, Of
    <3> QED BY <1>5, <1>6, <2>1, <3>1
  <2>2. CASE g # f
    <3>1. lane'[g] = lane[g] /\ task'[g] = task[g] /\ TaskOk(g) /\ StopOk(g) /\ TookOk(g)
      BY <1>1, <1>2, <2>2 DEF Others, DialsInv
    <3> QED BY <1>0, <3>1 DEF TaskOk, StopOk, TookOk, Of
  <2> QED BY <2>1, <2>2
<1>8. ASSUME NEW t \in Targets PROVE QuestionOk(t)'
  <2>1. t \in Forwards /\ challenges[t] # None => task'[challenges[t]] = task[challenges[t]]
    <3> SUFFICES ASSUME t \in Forwards, challenges[t] = f, f # None, RunStart(f) PROVE FALSE
      BY <1>2, <1>3 DEF Typed
    <3>1. task[f] = "ask" /\ Of(f) = t
      BY DEF DialsInv, QuestionOk
    <3>2. lane[f].pc = "run"
      BY <3>1 DEF DialsInv, TaskOk
    <3> QED BY <1>4, <3>2
  <2> QED BY <1>0, <2>1 DEF DialsInv, QuestionOk, Of
<1>9. ReaderOk'
  BY <1>0 DEF DialsInv, ReaderOk, Of
<1>10. DialCanBeCut'
  <2> SUFFICES ASSUME NEW g \in Claimed, task'[g] \in {"dial", "ask", "open"}
               PROVE  g \in entries[Of(g)] \/ g \in cancelled
    BY <1>0 DEF DialCanBeCut, Of
  <2>0. g \in Ids
    BY DEF Claimed, Ids, Typed
  <2>1. task'[g] = task[g]
    BY <1>2, <2>0
  <2> QED BY <2>1 DEF DialsInv, DialCanBeCut
<1>11. StoppedForwardIsGone'
  <2> SUFFICES ASSUME NEW t \in Forwards, NEW g \in Claimed PROVE StopHolds(t, g)'
    BY <1>0 DEF StoppedForwardIsGone
  <2>0. Claimed \subseteq Ids /\ StopHolds(t, g)
    BY DEF Claimed, Ids, Typed, DialsInv, StoppedForwardIsGone
  <2>1. \A h \in Claimed : Started(h) => Started(h)'
    BY <1>1, <2>0 DEF Others, Started
  <2>2. frames[g] = [cmd |-> "disconnect", scope |-> t] /\ Ended(g)' => Ended(g)
    <3>1. CASE g = f
      <4>1. frames[g] = [cmd |-> "disconnect", scope |-> t] => frames[f].cmd = "disconnect"
        BY <3>1
      <4> QED BY <1>3, <1>4, <3>1, <4>1 DEF IsCancelCommand, Opens, Ended
    <3>2. CASE g # f
      BY <1>1, <2>0, <3>2 DEF Others, Ended
    <3> QED BY <3>1, <3>2
  <2> QED BY <1>0, <2>0, <2>1, <2>2 DEF StopHolds
<1> QED BY <1>7, <1>8, <1>9, <1>10, <1>11 DEF DialsInv

\* The steps of a stop: no task of a forward is under way when it runs.
LEMMA StopDials ==
  ASSUME Typed, LanesInv, DialsInv, NEW f \in Ids, RunStop(f)
  PROVE  DialsInv'
<1> DEFINE t == Of(f)
           step == StopSteps(t)[lane[f].step]
<1>0. /\ UNCHANGED <<frames, reader, task>> /\ Claimed' = Claimed /\ f \in Claimed
  BY DEF RunStop, RouterRest, Claimed, LanesInv, FramesOk
<1>1. /\ Others(f) /\ lane[f].pc = "run" /\ IsCancelCommand(frames[f].cmd) /\ t \in Targets
      /\ lane[f].step \in 1 .. 4 /\ lane'[f].step = lane[f].step + 1
      /\ lane'[f].pc = IF lane[f].step = 4 THEN "ran" ELSE "run"
      /\ lane'[f].took = IF step = "unmap" THEN challenges[t] ELSE lane[f].took
  BY RunStopFacts DEF LanesInv, DialsInv
<1>2. /\ Cancel(t) \/ UNCHANGED <<entries, cancelled>>
      /\ challenges' = IF step = "unmap" THEN [challenges EXCEPT ![t] = None] ELSE challenges
      /\ channel' = IF step = "close" /\ lane[f].took # None
                    THEN [channel EXCEPT ![lane[f].took] = "closed"] ELSE channel
      /\ live' = IF step = "drop" THEN [live EXCEPT ![t] = None] ELSE live
  BY DEF RunStop, Of
<1>3. /\ task[f] = "none"
      /\ \A g \in Claimed : Of(g) \in Forwards /\ Of(g) = t => task[g] \in {"none", "over"}
  <2>1. task[f] = "none"
    BY <1>1 DEF DialsInv, TaskOk, Opens, IsCancelCommand
  <2>2. ASSUME NEW g \in Claimed, Of(g) \in Forwards, Of(g) = t, task[g] \notin {"none", "over"}
        PROVE  FALSE
    <3>1. g \in Ids /\ lane[g].pc = "run" /\ g # f
      BY <2>1, <2>2 DEF DialsInv, TaskOk, Claimed, Ids, Typed
    <3>2. Started(f) /\ Started(g) /\ ~Ended(f) /\ ~Ended(g)
      BY <1>1, <3>1 DEF Started, Ended
    <3> QED BY <1>0, <2>2, <3>1, <3>2, OneRuns
  <2> QED BY <2>1, <2>2
<1>4. t \in Forwards => challenges[t] = None
  BY <1>1, <1>3 DEF DialsInv, QuestionOk
<1>5. t \in Forwards /\ lane'[f].step >= 3 => live'[t] = None
  <2> SUFFICES ASSUME t \in Forwards, lane[f].step >= 2 PROVE live'[t] = None
    BY <1>1
  <2>1. t \notin Sessions
    OBVIOUS
  <2>2. CASE lane[f].step = 2
    <3>1. step = "drop"
      BY <2>1, <2>2, StopStepsFacts
    <3> QED BY <1>1, <1>2, <3>1 DEF Typed
  <2>3. CASE lane[f].step >= 3
    <3>1. live[t] = None
      BY <1>1, <2>3 DEF DialsInv, StopOk
    <3> QED BY <1>1, <1>2, <3>1 DEF Typed
  <2> QED BY <1>1, <2>2, <2>3
<1>6. \A u \in Targets : live'[u] \in {None, live[u]}
  BY <1>2 DEF Typed
<1>7. TaskOk(f)' /\ StopOk(f)' /\ TookOk(f)'
  <2>1. TaskOk(f)'
    BY <1>0, <1>3 DEF TaskOk
  <2>2. StopOk(f)'
    BY <1>0, <1>1, <1>5 DEF StopOk, Of
  <2>3. TookOk(f)'
    <3>1. CASE step = "unmap"
      <4>1. challenges[t] # None => t \in Sessions /\ challenges[t] \in Claimed /\ Of(challenges[t]) = t
        BY <1>1, <1>4 DEF DialsInv, QuestionOk, Targets
      <4> QED BY <1>0, <1>1, <3>1, <4>1 DEF TookOk, Of
    <3>2. CASE step # "unmap"
      BY <1>0, <1>1, <3>2 DEF DialsInv, TookOk, Of
    <3> QED BY <3>1, <3>2
  <2> QED BY <2>1, <2>2, <2>3
<1>8. ASSUME NEW g \in Ids, g # f PROVE TaskOk(g)' /\ StopOk(g)' /\ TookOk(g)'
  <2>1. lane'[g] = lane[g] /\ TaskOk(g) /\ StopOk(g) /\ TookOk(g)
    BY <1>1, <1>8 DEF Others, DialsInv
  <2>2. TaskOk(g)' /\ TookOk(g)'
    BY <1>0, <2>1 DEF TaskOk, TookOk, Of
  <2>3. StopOk(g)'
    BY <1>0, <1>6, <2>1 DEF StopOk, Of, Targets
  <2> QED BY <2>2, <2>3
<1>9. \A c \in Claimed : Of(c) \in Forwards => channel'[c] = channel[c]
  <2>1. lane[f].took # None => Of(lane[f].took) \notin Forwards
    BY DEF DialsInv, TookOk
  <2>2. Claimed \subseteq Ids
    BY DEF Claimed, Ids, Typed
  <2> QED BY <1>2, <2>1, <2>2 DEF Typed
<1>10. ASSUME NEW u \in Targets PROVE QuestionOk(u)'
  <2>1. challenges'[u] = None \/ challenges'[u] = challenges[u]
    BY <1>2, <1>10 DEF Typed
  <2> QED BY <1>0, <1>9, <2>1 DEF DialsInv, QuestionOk, Of
<1>11. ReaderOk'
  BY <1>0, <1>9 DEF DialsInv, ReaderOk, Of
<1>12. DialCanBeCut'
  <2>1. CASE Cancel(t)
    BY <1>0, <1>1, <2>1 DEF DialsInv, DialCanBeCut, Cancel, Of, Typed
  <2>2. CASE UNCHANGED <<entries, cancelled>>
    BY <1>0, <2>2 DEF DialsInv, DialCanBeCut, Of
  <2> QED BY <1>2, <2>1, <2>2
<1>13. StoppedForwardIsGone'
  <2> SUFFICES ASSUME NEW u \in Forwards, NEW g \in Claimed, frames[g] = [cmd |-> "disconnect", scope |-> u],
                      Ended(g)', \A h \in Claimed : h > g /\ frames[h].scope = u => ~Started(h)'
               PROVE  live'[u] = None
    BY <1>0 DEF StoppedForwardIsGone, StopHolds
  <2>0. Claimed \subseteq Ids /\ u \in Targets
    BY DEF Claimed, Ids, Typed, Targets
  <2>1. CASE g = f
    <3>1. t = u
      BY <2>1 DEF Of
    <3>2. lane[f].step = 4
      BY <1>1, <2>1 DEF Ended
    <3> QED BY <1>1, <1>5, <3>1, <3>2
  <2>2. CASE g # f
    <3>1. Ended(g)
      BY <1>1, <2>0, <2>2 DEF Others, Ended
    <3>2. \A h \in Claimed : Started(h) => Started(h)'
      BY <1>1, <2>0 DEF Others, Started
    <3>3. live[u] = None
      BY <3>1, <3>2 DEF DialsInv, StoppedForwardIsGone, StopHolds
    <3> QED BY <1>6, <2>0, <3>3
  <2> QED BY <2>1, <2>2
<1> QED BY <1>7, <1>8, <1>10, <1>11, <1>12, <1>13 DEF DialsInv

\* The steps of a task: only its own place, entry, question and connection.
LEMMA TaskDials ==
  ASSUME Typed, LanesInv, DialsInv, NEW f \in Ids, TaskStep(f)
  PROVE  DialsInv'
<1> DEFINE t == Of(f)
<1>0. /\ UNCHANGED <<frames, lane, reader>> /\ Claimed' = Claimed /\ task[f] # "none"
  BY TaskStepRest DEF routerVars, Claimed
<1>1. f \in Claimed /\ Opens(frames[f].cmd) /\ t \in Targets
  <2>1. f \in Claimed /\ Opens(frames[f].cmd)
    BY <1>0 DEF DialsInv, TaskOk
  <2> QED BY <2>1, FrameFacts DEF LanesInv, FramesOk, Opens, IsBarrierCommand
<1>2. /\ \A g \in Ids \ {f} : task'[g] = task[g]
      /\ task[f] # "over" /\ task'[f] # "none"
  BY DEF TaskStep, Begin, Ask, AskAnswered, AskFails, Answered, DialEnds, Register, Finish, Step, Typed
<1>3. \A g \in Ids : TaskOk(g)'
  <2>1. TaskOk(f)'
    BY <1>0, <1>1, <1>2 DEF DialsInv, TaskOk, Of
  <2>2. ASSUME NEW g \in Ids, g # f PROVE TaskOk(g)'
    BY <1>0, <1>2, <2>2 DEF DialsInv, TaskOk, Of
  <2> QED BY <2>1, <2>2
<1>4. t \in Forwards => \A g \in Claimed : Of(g) = t /\ Started(g) /\ g # f => Ended(g)
  <2> SUFFICES ASSUME t \in Forwards, NEW g \in Claimed, Of(g) = t, Started(g), g # f PROVE Ended(g)
    OBVIOUS
  <2>1. lane[f].pc = "run"
    BY <1>0, <1>2 DEF DialsInv, TaskOk
  <2>2. Started(f) /\ ~Ended(f)
    BY <2>1 DEF Started, Ended
  <2> QED BY <1>1, <2>2, OneRuns
<1>5. ASSUME UNCHANGED live \/ (Register(f) /\ live' = [live EXCEPT ![t] = f])
      PROVE  (\A g \in Ids : StopOk(g) /\ TookOk(g))' /\ StoppedForwardIsGone'
  <2>0. \A u \in Targets : u # t => live'[u] = live[u]
    BY <1>5 DEF Typed
  <2>1. (\A g \in Ids : TookOk(g))'
    BY <1>0 DEF DialsInv, TookOk, Of
  <2>2. ASSUME NEW g \in Ids PROVE StopOk(g)'
    <3>1. StopOk(g)
      BY DEF DialsInv
    <3>2. lane[g].pc = "run" /\ IsCancelCommand(frames[g].cmd) /\ Of(g) \in Forwards => Of(g) # t
      <4> SUFFICES ASSUME lane[g].pc = "run", IsCancelCommand(frames[g].cmd), Of(g) \in Forwards, Of(g) = t
                   PROVE  FALSE
        OBVIOUS
      <4>1. g \in Claimed /\ g # f /\ Started(g) /\ ~Ended(g)
        BY <1>1 DEF LanesInv, FramesOk, Opens, IsCancelCommand, Started, Ended
      <4> QED BY <1>4, <4>1
    <3> QED BY <1>0, <2>0, <3>1, <3>2 DEF StopOk, Of, Targets
  <2>3. StoppedForwardIsGone'
    <3> SUFFICES ASSUME NEW u \in Forwards, NEW g \in Claimed,
                        frames[g] = [cmd |-> "disconnect", scope |-> u], Ended(g),
                        \A h \in Claimed : h > g /\ frames[h].scope = u => ~Started(h)
                 PROVE  live'[u] = None
      BY <1>0 DEF StoppedForwardIsGone, StopHolds, Ended, Started
    <3>1. live[u] = None
      BY DEF DialsInv, StoppedForwardIsGone, StopHolds
    <3>2. u # t
      <4> SUFFICES ASSUME u = t PROVE FALSE
        OBVIOUS
      <4>1. lane[f].pc = "run"
        BY <1>0, <1>2 DEF DialsInv, TaskOk
      <4>2. Started(f) /\ ~Ended(f)
        BY <4>1 DEF Started, Ended
      <4>3. f # g /\ ~(f > g)
        BY <1>1, <4>2 DEF Of
      <4>4. f < g
        BY <1>1, <4>3 DEF Claimed
      <4>5. Started(g) /\ frames[g].scope = frames[f].scope
        BY DEF Ended, Started, Of
      <4> QED BY <1>1, <4>2, <4>4, <4>5 DEF LanesInv, RunsInOrder
    <3> QED BY <2>0, <3>1, <3>2 DEF Targets
  <2> QED BY <2>1, <2>2, <2>3
<1>6. ASSUME UNCHANGED <<challenges, channel>>, task[f] # "ask"
      PROVE  (\A u \in Targets : QuestionOk(u))' /\ ReaderOk'
  <2>1. ASSUME NEW u \in Targets PROVE QuestionOk(u)'
    <3>1. QuestionOk(u) /\ challenges'[u] = challenges[u]
      BY <1>6 DEF DialsInv
    <3>2. challenges[u] # None /\ u \in Forwards => challenges[u] # f /\ challenges[u] \in Ids
      BY <1>6, <3>1 DEF QuestionOk, Typed
    <3> QED BY <1>0, <1>2, <1>6, <3>1, <3>2 DEF QuestionOk, Of
  <2>2. ReaderOk'
    BY <1>0, <1>6 DEF DialsInv, ReaderOk, Of
  <2> QED BY <2>1, <2>2
<1>7. ASSUME UNCHANGED <<entries, cancelled>>, task[f] \in {"dial", "ask", "open"} \/ task'[f] \in {"end", "over"}
      PROVE  DialCanBeCut'
  <2>1. Claimed \subseteq Ids
    BY DEF Claimed, Ids, Typed
  <2> QED BY <1>0, <1>2, <1>7, <2>1 DEF DialsInv, DialCanBeCut, Of
<1>8. CASE Begin(f)
  <2>1. UNCHANGED <<challenges, channel, live, cancelled>> /\ task[f] = "begin"
        /\ entries' = [entries EXCEPT ![t] = @ \cup {f}]
    BY <1>8 DEF Begin, Step
  <2>2. DialCanBeCut'
    <3>1. Claimed \subseteq Ids
      BY DEF Claimed, Ids, Typed
    <3>2. f \in entries'[t] /\ \A u \in Targets : entries[u] \subseteq entries'[u]
      BY <1>1, <2>1 DEF Typed
    <3>3. ASSUME NEW g \in Claimed, g # f, task'[g] \in {"dial", "ask", "open"}
          PROVE  g \in entries'[Of(g)] \/ g \in cancelled
      <4>1. task[g] \in {"dial", "ask", "open"}
        BY <1>2, <3>1, <3>3
      <4>2. g \in entries[Of(g)] \/ g \in cancelled
        BY <4>1 DEF DialsInv, DialCanBeCut
      <4> QED BY <2>1, <3>2, <4>2 DEF Typed
    <3> QED BY <1>0, <2>1, <3>2, <3>3 DEF DialCanBeCut, Of
  <2> QED BY <1>3, <1>5, <1>6, <2>1, <2>2 DEF DialsInv
<1>9. CASE Ask(f)
  <2>1. UNCHANGED <<entries, cancelled, live>> /\ task[f] = "dial" /\ task'[f] = "ask"
        /\ challenges' = [challenges EXCEPT ![t] = f]
        /\ channel' = [channel EXCEPT ![f] = "empty"]
    BY <1>9 DEF Ask, Step, Typed
  <2>2. ASSUME NEW u \in Targets PROVE QuestionOk(u)'
    <3>1. CASE u = t
      <4>1. challenges'[u] = f /\ channel'[f] = "empty" /\ f # None
        BY <2>1, <3>1 DEF Typed, Ids, None
      <4> QED BY <1>0, <1>1, <2>1, <3>1, <4>1 DEF QuestionOk, Of
    <3>2. CASE u # t
      <4>1. challenges'[u] = challenges[u] /\ QuestionOk(u)
        BY <2>1, <3>2 DEF Typed, DialsInv
      <4>2. challenges[u] # None => challenges[u] # f /\ challenges[u] \in Ids
        BY <3>2, <4>1 DEF QuestionOk, Typed
      <4>3. challenges[u] # None => channel'[challenges[u]] = channel[challenges[u]]
        BY <2>1, <4>2 DEF Typed
      <4> QED BY <1>0, <1>2, <4>1, <4>2, <4>3 DEF QuestionOk, Of
    <3> QED BY <3>1, <3>2
  <2>3. ReaderOk'
    <3>1. \A c \in Ids : channel'[c] = "closed" => channel[c] = "closed"
      BY <2>1 DEF Typed
    <3> QED BY <1>0, <3>1 DEF DialsInv, ReaderOk, Of, Typed, Claimed, Ids
  <2> QED BY <1>3, <1>5, <1>7, <2>1, <2>2, <2>3 DEF DialsInv
<1>10. CASE AskAnswered(f) \/ AskFails(f)
  <2>1. UNCHANGED <<entries, cancelled, channel, live>> /\ task[f] = "ask" /\ task'[f] \in {"dial", "end"}
        /\ challenges' = [challenges EXCEPT ![t] = None]
    BY <1>10 DEF AskAnswered, AskFails, Answered, Step, Typed
  <2>2. ASSUME NEW u \in Targets PROVE QuestionOk(u)'
    <3>1. CASE u = t
      BY <2>1, <3>1 DEF QuestionOk, Typed
    <3>2. CASE u # t
      <4>1. challenges'[u] = challenges[u] /\ QuestionOk(u)
        BY <2>1, <3>2 DEF Typed, DialsInv
      <4>2. challenges[u] # None => challenges[u] # f /\ challenges[u] \in Ids
        BY <3>2, <4>1 DEF QuestionOk, Typed
      <4> QED BY <1>0, <1>2, <2>1, <4>1, <4>2 DEF QuestionOk, Of
    <3> QED BY <3>1, <3>2
  <2>3. ReaderOk'
    BY <1>0, <2>1 DEF DialsInv, ReaderOk, Of
  <2> QED BY <1>3, <1>5, <1>7, <2>1, <2>2, <2>3 DEF DialsInv
<1>11. CASE DialEnds(f) \/ Register(f)
  <2>1. /\ UNCHANGED <<entries, cancelled, challenges, channel>> /\ task[f] \in {"dial", "open"}
        /\ UNCHANGED live \/ (Register(f) /\ live' = [live EXCEPT ![t] = f])
    BY <1>11 DEF DialEnds, Register, Step
  <2> QED BY <1>3, <1>5, <1>6, <1>7, <2>1 DEF DialsInv
<1>12. CASE Finish(f)
  <2>1. UNCHANGED <<challenges, channel, live>> /\ task[f] = "end" /\ task'[f] = "over"
        /\ entries' = [entries EXCEPT ![t] = entries[t] \ {f}] /\ cancelled' = cancelled \cup {f}
    BY <1>12 DEF Finish, Step, Remaining, Typed
  <2>2. DialCanBeCut'
    <3>1. Claimed \subseteq Ids
      BY DEF Claimed, Ids, Typed
    <3>2. ASSUME NEW g \in Claimed, g # f, task'[g] \in {"dial", "ask", "open"}
          PROVE  g \in entries'[Of(g)] \/ g \in cancelled'
      <4>1. task[g] \in {"dial", "ask", "open"}
        BY <1>2, <3>1, <3>2
      <4>2. g \in entries[Of(g)] \/ g \in cancelled
        BY <4>1 DEF DialsInv, DialCanBeCut
      <4> QED BY <2>1, <3>2, <4>2 DEF Typed
    <3> QED BY <1>0, <2>1, <3>2 DEF DialCanBeCut, Of
  <2> QED BY <1>3, <1>5, <1>6, <2>1, <2>2 DEF DialsInv
<1> QED BY <1>8, <1>9, <1>10, <1>11, <1>12 DEF TaskStep

-----------------------------------------------------------------------------
(* The theorems.                                                             *)

\* No frame was read yet: the invariant holds.
LEMMA InitOk == ASSUME Init PROVE RouterInv
<1>1. frames \in Seq(Frames) /\ Len(frames) = 0 /\ Claimed = {}
  BY DEF Init, Claimed
<1>2. [prev |-> None, bar |-> None, step |-> 1, took |-> None, pc |-> "none"] \in Lanes
  BY DEF Lanes
<1>3. Typed
  <2>1. lane \in [Ids -> Lanes]
    BY <1>2 DEF Init
  <2>2. reader \in Readings
    BY ReadingsTyped DEF Init
  <2>3. Len(frames) <= MaxFrames
    BY <1>1
  <2>4. /\ tails \in [Scopes -> Ids \cup {None}] /\ depth \in [Scopes -> Int]
        /\ challenges \in [Targets -> Ids \cup {None}] /\ live \in [Targets -> Ids \cup {None}]
    BY DEF Init
  <2>5. /\ task \in [Ids -> {"none", "begin", "dial", "ask", "open", "end", "over"}]
        /\ channel \in [Ids -> {"none", "empty", "full", "closed"}]
        /\ entries \in [Targets -> SUBSET Ids]
    BY DEF Init
  <2>6. barrier \in Ids \cup {None} /\ cancelled \subseteq Ids /\ crashed \in BOOLEAN
    BY DEF Init
  <2> QED BY <1>1, <2>1, <2>2, <2>3, <2>4, <2>5, <2>6 DEF Typed
<1>4. reader.pc = "idle" /\ \A f \in Ids : lane[f].pc = "none" /\ lane[f].took = None
  BY DEF Init, Idle
<1>5. LanesInv
  BY <1>1, <1>4 DEF LanesInv, FramesOk, TailsOk, BarrierOk, WaitsOk, RunsInOrder, Init
<1>6. DialsInv
  BY <1>1, <1>4 DEF DialsInv, TaskOk, StopOk, TookOk, QuestionOk, ReaderOk, DialCanBeCut,
                    StoppedForwardIsGone, Init
<1> QED BY <1>3, <1>5, <1>6 DEF RouterInv

\* Every step of the router, the dials and the reader keeps the invariant.
LEMMA StepOk == ASSUME RouterInv, [Next]_vars PROVE RouterInv'
<1>0. Typed /\ LanesInv /\ DialsInv
  BY DEF RouterInv
<1>1. Typed' /\ LanesInv'
  BY <1>0, LanesStep DEF DialsInv
<1>2. CASE RouteClaim
  <2>1. PICK cmd \in Cmds, s \in Scopes : Claim(cmd, s) /\ reader'.pc = "idle"
    BY <1>0, <1>2, RouteClaims DEF LanesInv
  <2> QED BY <1>0, <1>1, <2>1, ClaimDials DEF RouterInv
<1>3. CASE RouteRest
  BY <1>0, <1>1, <1>3, RouteRestDials DEF RouterInv
<1>4. CASE \E f \in Ids : FrameStep(f)
  BY <1>0, <1>1, <1>4, LaneDials, StopDials DEF RouterInv, FrameStep
<1>5. CASE \E f \in Ids : TaskStep(f)
  BY <1>0, <1>1, <1>5, TaskDials DEF RouterInv
<1>6. CASE UNCHANGED vars
  <2>1. DialsInv'
    <3> USE <1>6 DEF vars, routerVars, dialVars
    <3>1. (\A f \in Ids : TaskOk(f) /\ StopOk(f) /\ TookOk(f))'
      BY <1>0 DEF DialsInv, TaskOk, StopOk, TookOk, Claimed, Of
    <3>2. (\A t \in Targets : QuestionOk(t))' /\ ReaderOk' /\ DialCanBeCut'
      BY <1>0 DEF DialsInv, QuestionOk, ReaderOk, DialCanBeCut, Claimed, Of
    <3>3. StoppedForwardIsGone'
      BY <1>0 DEF DialsInv, StoppedForwardIsGone, StopHolds, Claimed, Ended, Started
    <3> QED BY <3>1, <3>2, <3>3 DEF DialsInv
  <2> QED BY <1>1, <2>1 DEF RouterInv
<1> QED BY <1>2, <1>3, <1>4, <1>5, <1>6 DEF Next, Route, RouteRest

\* The inductive invariant holds in every state of every behaviour.
THEOREM RouterInvariant == Spec => []RouterInv
<1>1. Init => RouterInv
  BY InitOk
<1>2. RouterInv /\ [Next]_vars => RouterInv'
  BY StepOk
<1> QED BY <1>1, <1>2, PTL DEF Spec

(* Commands of one target run one at a time in the order they came, and what  *)
(* came after a tailnetConfigure runs after it, for any number of targets and *)
(* frames (frameRouter's claim, runRouted and release).                       *)
THEOREM FramesRunInOrder == Spec => []RunsInOrder
<1>1. RouterInv => RunsInOrder
  BY DEF RouterInv, LanesInv
<1> QED BY <1>1, RouterInvariant, PTL

(* Whatever is dialling can be cut, however many attempts at a target overlap *)
(* (inflight.Registry's Begin, its cleanup and Cancel).                       *)
THEOREM DialsCanBeCut == Spec => []DialCanBeCut
<1>1. RouterInv => DialCanBeCut
  BY DEF RouterInv, DialsInv
<1> QED BY <1>1, RouterInvariant, PTL

(* A forward whose stop has run stays stopped until a later command of the    *)
(* rule runs, although the start before it may have ignored the cancellation. *)
THEOREM StoppedForwardsStayGone == Spec => []StoppedForwardIsGone
<1>1. RouterInv => StoppedForwardIsGone
  BY DEF RouterInv, DialsInv
<1> QED BY <1>1, RouterInvariant, PTL

(* An answer to a forward's question never meets a closed channel: the lanes  *)
(* keep the stop that closes it from running while the question is pending    *)
(* (CancelChallenge, RespondInteractive of the forwarding service).           *)
THEOREM AnswersMeetOpenChannels == Spec => []NoSendOnClosed
<1>1. RouterInv => NoSendOnClosed
  BY DEF RouterInv, DialsInv, ReaderOk, NoSendOnClosed
<1> QED BY <1>1, RouterInvariant, PTL

-----------------------------------------------------------------------------
(* The depths.                                                               *)

\* The frames of a lane that have not been released.
Queued(s) == {f \in Claimed : Of(f) = s /\ lane[f].pc \in {"wait", "run", "ran"}}
DepthExact == \A s \in Scopes : depth[s] = Cardinality(Queued(s))

\* A scope never has more frames queued than were read.
LEMMA QueuedFinite ==
  ASSUME Typed, NEW s
  PROVE  IsFiniteSet(Queued(s)) /\ Cardinality(Queued(s)) \in 0 .. MaxFrames
<1>1. Len(frames) \in Nat /\ Len(frames) <= MaxFrames
  BY DEF Typed
<1>2. IsFiniteSet(1 .. Len(frames)) /\ Cardinality(1 .. Len(frames)) = Len(frames)
  <2>1. PICK n \in Nat : n = Len(frames)
    BY <1>1
  <2>2. 1 \in Int /\ n \in Int
    OBVIOUS
  <2>3. IsFiniteSet(1 .. n) /\ Cardinality(1 .. n) = IF 1 > n THEN 0 ELSE n - 1 + 1
    BY <2>2, FS_Interval, Zenon
  <2> QED BY <2>1, <2>3
<1>3. Queued(s) \in SUBSET (1 .. Len(frames))
  BY DEF Queued, Claimed
<1>4. IsFiniteSet(Queued(s)) /\ Cardinality(Queued(s)) <= Len(frames)
  BY <1>2, <1>3, FS_Subset
<1>5. Cardinality(Queued(s)) \in Nat
  BY <1>4, FS_CardinalityType
<1> QED BY <1>1, <1>4, <1>5

\* claim and release count; nothing else does.
LEMMA DepthStep == ASSUME RouterInv, DepthExact, [Next]_vars PROVE DepthExact'
<1>0. Typed /\ LanesInv /\ DialsInv
  BY DEF RouterInv
<1> SUFFICES ASSUME NEW u \in Scopes PROVE depth'[u] = Cardinality(Queued(u)')
  BY DEF DepthExact
<1>1. depth[u] = Cardinality(Queued(u)) /\ IsFiniteSet(Queued(u)) /\ depth[u] \in Int
  <2>1. IsFiniteSet(Queued(u))
    BY <1>0, QueuedFinite
  <2>2. depth[u] = Cardinality(Queued(u)) /\ depth[u] \in Int
    BY <1>0 DEF DepthExact, Typed
  <2> QED BY <2>1, <2>2
<1>2. ASSUME NEW cmd \in Cmds, NEW s \in Scopes, Claim(cmd, s) PROVE depth'[u] = Cardinality(Queued(u)')
  <2> DEFINE x == [cmd |-> cmd, scope |-> s]
  <2>0. PICK id \in Nat : id = Len(frames) + 1
    BY <1>0 DEF Typed
  <2>1. x \in Frames
    BY DEF Frames
  <2>2. /\ Claimed' = Claimed \cup {id} /\ id \notin Claimed /\ frames'[id] = x
        /\ \A f \in Claimed : Of(f)' = Of(f)
    BY <1>0, <1>2, <2>0, <2>1, AppendFacts DEF Claim, Of
  <2>3. id \in Ids /\ Claimed \subseteq Ids
    BY <1>0, <1>2, <2>0 DEF Claim, Ids, Typed, Claimed
  <2>4. lane'[id] = Waits(id, cmd, s) /\ \A f \in Claimed : lane'[f] = lane[f]
    BY <1>0, <1>2, <2>0, <2>2, <2>3 DEF Claim, Typed
  <2>5. lane'[id].pc = "wait" /\ Of(id)' = s
    BY <2>2, <2>4 DEF Waits, Of
  <2>6. depth'[u] = IF u = s THEN depth[u] + 1 ELSE depth[u]
    BY <1>0, <1>2 DEF Claim, DepthAfterClaim, Typed
  <2> HIDE DEF x
  <2>7. CASE u = s
    <3>1. Queued(u)' = Queued(u) \cup {id} /\ id \notin Queued(u)
      BY <2>2, <2>4, <2>5, <2>7 DEF Queued
    <3> QED BY <1>1, <2>6, <2>7, <3>1, FS_AddElement, ZenonT(60)
  <2>8. CASE u # s
    <3>1. Queued(u)' = Queued(u)
      BY <2>2, <2>4, <2>5, <2>8 DEF Queued
    <3> QED BY <1>1, <2>6, <2>8, <3>1
  <2> QED BY <2>7, <2>8
<1>3. ASSUME NEW f \in Ids, Release(f) PROVE depth'[u] = Cardinality(Queued(u)')
  <2>1. Others(f) /\ lane'[f].pc = "released" /\ lane[f].pc = "ran" /\ UNCHANGED frames
    BY <1>0, <1>3, SetFacts DEF Release
  <2>2. f \in Claimed /\ Claimed' = Claimed /\ Claimed \subseteq Ids /\ \A g \in Claimed : Of(g)' = Of(g)
    BY <1>0, <2>1 DEF LanesInv, FramesOk, Claimed, Of, Ids, Typed
  <2>3. depth'[u] = IF u = Of(f) THEN depth[u] - 1 ELSE depth[u]
    BY <1>0, <1>3 DEF Release, Of, Typed
  <2>4. CASE u = Of(f)
    <3>1. Queued(u)' = Queued(u) \ {f} /\ f \in Queued(u)
      BY <2>1, <2>2, <2>4 DEF Queued, Others
    <3> QED BY <1>1, <2>3, <2>4, <3>1, FS_RemoveElement
  <2>5. CASE u # Of(f)
    <3>1. Queued(u)' = Queued(u)
      BY <2>1, <2>2, <2>5 DEF Queued, Others
    <3> QED BY <1>1, <2>3, <2>5, <3>1
  <2> QED BY <2>4, <2>5
<1>4. ASSUME NEW f \in Ids, RunStart(f) \/ RunEnd(f) \/ RunStop(f) \/ CloseDone(f)
      PROVE  depth'[u] = Cardinality(Queued(u)')
  <2>1. UNCHANGED <<frames, depth>> /\ Others(f)
    BY <1>0, <1>4, SetFacts, RunStopFacts DEF RunStart, RunEnd, RunStop, CloseDone, RouterRest, LanesInv, DialsInv
  <2>2. lane[f].pc \in {"wait", "run", "ran"} <=> lane'[f].pc \in {"wait", "run", "ran"}
    BY <1>0, <1>4, SetFacts, RunStopFacts DEF RunStart, RunEnd, CloseDone, LanesInv, DialsInv
  <2>3. Claimed' = Claimed /\ Claimed \subseteq Ids /\ \A g \in Claimed : Of(g)' = Of(g)
    BY <1>0, <2>1 DEF Claimed, Of, Ids, Typed
  <2>4. Queued(u)' = Queued(u)
    BY <2>1, <2>2, <2>3 DEF Queued, Others
  <2> QED BY <1>1, <2>1, <2>4
<1>5. ASSUME UNCHANGED routerVars PROVE depth'[u] = Cardinality(Queued(u)')
  BY <1>1, <1>5 DEF routerVars, Queued, Claimed, Of
<1>6. CASE RouteClaim
  BY <1>0, <1>2, <1>6, RouteClaims DEF LanesInv
<1>7. CASE RouteRest \/ UNCHANGED vars
  BY <1>5, <1>7 DEF RouteRest, RouteCancel, RouteAnswer, RouteDismiss, SendAnswer, vars
<1>8. CASE \E f \in Ids : FrameStep(f)
  BY <1>3, <1>4, <1>8 DEF FrameStep
<1>9. CASE \E f \in Ids : TaskStep(f)
  BY <1>5, <1>9, TaskStepRest
<1> QED BY <1>6, <1>7, <1>8, <1>9 DEF Next, Route, RouteRest

(* A lane's depth is the number of its frames that have not been released:    *)
(* claim and release, on different goroutines, never lose or double a count.  *)
THEOREM DepthsAreExact == Spec => []DepthExact
<1>1. Init => DepthExact
  <2> SUFFICES ASSUME Init, NEW s \in Scopes PROVE depth[s] = Cardinality(Queued(s))
    BY DEF DepthExact
  <2>1. Queued(s) = {}
    BY DEF Init, Queued, Claimed
  <2> QED BY <2>1, FS_EmptySet DEF Init
<1>2. RouterInv /\ DepthExact /\ [Next]_vars => DepthExact'
  BY DepthStep
<1> QED BY <1>1, <1>2, RouterInvariant, PTL DEF Spec

(* Every variable of the router, the registry and the dials keeps its type.   *)
THEOREM TypeCorrect == Spec => []TypeOK
<1>1. RouterInv /\ DepthExact => TypeOK
  <2> SUFFICES ASSUME RouterInv, DepthExact PROVE TypeOK
    OBVIOUS
  <2>1. Typed
    BY DEF RouterInv
  <2>2. depth \in [Scopes -> 0 .. MaxFrames]
    BY <2>1, QueuedFinite DEF DepthExact, Typed
  <2> QED BY <2>1, <2>2 DEF Typed, TypeOK, Frames, Cmds, Readings, Lanes
<1> QED BY <1>1, RouterInvariant, DepthsAreExact, PTL
=============================================================================
