----------------------------- MODULE OutputFeed -----------------------------
(***************************************************************************)
(* The consumers of the ring of OutputRing: the app's replay read, the     *)
(* Follower goroutine that replays to a listener and then follows the live *)
(* feed in coalescing windows (ringbuf/follower.go), and the table of      *)
(* followers of a shell (mobile/outputfan.go).  Callbacks are recorded as  *)
(* the numbers of the chunks whose bytes they carried.                     *)
(***************************************************************************)
EXTENDS OutputRing

VARIABLES
  fol,        \* per follower: the state of Follower.run
  heard,      \* numbers handed to the listener (replay read, OnChunk), in order
  reported,   \* numbers reported to OnDropped
  life,       \* per follower: its place in the fan and the progress of Stop
  stopQueue   \* followers the running stopFollowers took out of the fan

feedVars == <<fol, heard, reported, life, stopQueue>>
allVars  == <<vars, feedVars>>

\* Numbers of a sequence of chunks, in order.
SeqNums(s) == [i \in DOMAIN s |-> s[i].seq]

NotRunning == [pc |-> "none", start |-> 0, expected |-> 0, owed |-> {},
               replay |-> <<>>, batch |-> <<>>, floor |-> 0, resumed |-> FALSE,
               fits |-> FALSE]

FeedInit ==
  /\ Init
  /\ fol = [f \in Subscribers |-> NotRunning]
  /\ heard = [f \in Subscribers |-> <<>>]
  /\ reported = [f \in Subscribers |-> {}]
  /\ life = [f \in Subscribers |-> "none"]
  /\ stopQueue = {}

-----------------------------------------------------------------------------
(* The app reads the retained history and later follows from NextSeq; a    *)
(* listener may also be added at any cursor without a read.                *)

ReadBuffer(f) ==
  /\ fol[f].pc = "none"
  /\ \E n \in 0 .. Len(chunks) :
       /\ HandsOut(0, n, ReadMaxBytes)
       /\ heard' = [heard EXCEPT ![f] = SeqNums(SubSeq(chunks, 1, n))]
       /\ fol' = [fol EXCEPT ![f].pc = "read",
                             ![f].start = headSeq,
                             ![f].expected = ResumeAt(0, n)]
  /\ UNCHANGED <<vars, reported, life, stopQueue>>

Follow(f, cursor) ==
  /\ \/ fol[f].pc = "none" /\ cursor \in Cursors
     \/ fol[f].pc = "read" /\ cursor = SeqCursor(fol[f].expected)
  /\ Subscribe(f)
  /\ LET i    == ResolveCursor(cursor)
         lost == ResolveDropped(cursor)
     IN  \E n \in 0 .. Len(chunks) - i :
           /\ HandsOut(i, n, ReadMaxBytes)
           /\ fol' = [fol EXCEPT ![f] =
                [pc |-> "replay",
                 start |-> IF fol[f].pc = "read" THEN fol[f].start
                           ELSE IF lost # {} THEN cursor.seq
                           ELSE headSeq + i,
                 expected |-> ResumeAt(i, n),
                 owed |-> lost,
                 replay |-> SubSeq(chunks, i + 1, i + n),
                 batch |-> <<>>,
                 floor |-> headSeq,
                 resumed |-> fol[f].pc = "read",
                 fits |-> Fits(i)]]
  /\ life' = [life EXCEPT ![f] = "followed"]
  /\ UNCHANGED <<heard, reported, stopQueue>>

\* addListener enters the follower into the fan after Follow returned.
AddListener(f) ==
  /\ life[f] = "followed"
  /\ life' = [life EXCEPT ![f] = "listed"]
  /\ UNCHANGED <<vars, fol, heard, reported, stopQueue>>

-----------------------------------------------------------------------------
(* Follower.run. *)

RunReplay(f) ==
  /\ fol[f].pc = "replay"
  /\ \/ /\ fol[f].owed # {}
        /\ reported' = [reported EXCEPT ![f] = @ \cup fol[f].owed]
        /\ fol' = [fol EXCEPT ![f].owed = {}]
        /\ UNCHANGED heard
     \/ /\ fol[f].owed = {} /\ fol[f].replay # <<>>
        /\ heard' = [heard EXCEPT ![f] = Append(@, Head(fol[f].replay).seq)]
        /\ fol' = [fol EXCEPT ![f].replay = Tail(@)]
        /\ UNCHANGED reported
     \/ /\ fol[f].owed = {} /\ fol[f].replay = <<>>
        /\ fol' = [fol EXCEPT ![f].pc = "first"]
        /\ UNCHANGED <<heard, reported>>
  /\ UNCHANGED <<vars, life, stopQueue>>

\* admit turns a chunk below the cursor away ...
Late_never(f, c) == FALSE
Late(f, c) == c.seq < fol[f].expected
Gap(f, c) == fol[f].expected .. c.seq - 1

RunLate(f) ==
  /\ fol[f].pc \in {"first", "merge"}
  /\ Receive(f)
  /\ Late(f, Head(feed[f]))
  /\ UNCHANGED feedVars

\* ... and otherwise reports the gap ahead of the chunk.  A chunk of the other
\* stream, or none pending, starts a batch and flushes the one before it.
RunAdmit(f) ==
  /\ fol[f].pc \in {"first", "merge"}
  /\ Receive(f)
  /\ LET c     == Head(feed[f])
         batch == fol[f].batch
         joins == batch # <<>> /\ batch[1].stream = c.stream
     IN  /\ ~Late(f, c)
         /\ reported' = [reported EXCEPT ![f] = @ \cup Gap(f, c)]
         /\ heard' = [heard EXCEPT ![f] = IF joins THEN @ ELSE @ \o SeqNums(batch)]
         /\ fol' = [fol EXCEPT ![f].pc = "merge",
                               ![f].expected = c.seq + 1,
                               ![f].batch = IF joins THEN Append(@, c) ELSE <<c>>]
  /\ UNCHANGED <<life, stopQueue>>

\* The window closes.
RunFlush(f) ==
  /\ fol[f].pc = "merge"
  /\ heard' = [heard EXCEPT ![f] = @ \o SeqNums(fol[f].batch)]
  /\ fol' = [fol EXCEPT ![f].pc = "first", ![f].batch = <<>>]
  /\ UNCHANGED <<vars, reported, life, stopQueue>>

\* The feed is closed and drained: the rest is flushed and the goroutine ends.
RunEnd(f) ==
  /\ fol[f].pc \in {"first", "merge"}
  /\ feedClosed[f] /\ feed[f] = <<>>
  /\ heard' = [heard EXCEPT ![f] = @ \o SeqNums(fol[f].batch)]
  /\ fol' = [fol EXCEPT ![f].pc = "done", ![f].batch = <<>>]
  /\ UNCHANGED <<vars, reported, life, stopQueue>>

Run(f) == RunReplay(f) \/ RunLate(f) \/ RunAdmit(f) \/ RunFlush(f) \/ RunEnd(f)

-----------------------------------------------------------------------------
(* Stop: Subscription.Close in two steps, then wait for the goroutine.     *)
(* stopFollowers stops the followers it took one after the other.          *)

RemoveListener(f) ==
  /\ life[f] = "listed"
  /\ life' = [life EXCEPT ![f] = "stopping"]
  /\ UNCHANGED <<vars, fol, heard, reported, stopQueue>>

StopFollowers ==
  /\ stopQueue = {}
  /\ stopQueue' = {f \in Subscribers : life[f] = "listed"}
  /\ stopQueue' # {}
  /\ life' = [f \in Subscribers |-> IF f \in stopQueue' THEN "queued" ELSE life[f]]
  /\ UNCHANGED <<vars, fol, heard, reported>>

StopNext(f) ==
  /\ life[f] = "queued"
  /\ \A g \in stopQueue : life[g] \in {"queued", "returned"}
  /\ life' = [life EXCEPT ![f] = "stopping"]
  /\ UNCHANGED <<vars, fol, heard, reported, stopQueue>>

StopUnregister(f) ==
  /\ life[f] = "stopping"
  /\ Unregister(f)
  /\ life' = [life EXCEPT ![f] = "unregistered"]
  /\ UNCHANGED <<fol, heard, reported, stopQueue>>

StopCloseFeed_open(f) ==
  /\ life[f] = "unregistered"
  /\ life' = [life EXCEPT ![f] = "waiting"]
  /\ UNCHANGED <<vars, fol, heard, reported, stopQueue>>
StopCloseFeed(f) ==
  /\ life[f] = "unregistered"
  /\ CloseFeed(f)
  /\ life' = [life EXCEPT ![f] = "waiting"]
  /\ UNCHANGED <<fol, heard, reported, stopQueue>>

StopReturn(f) ==
  /\ life[f] = "waiting"
  /\ fol[f].pc = "done"
  /\ life' = [life EXCEPT ![f] = "returned"]
  /\ UNCHANGED <<vars, fol, heard, reported, stopQueue>>

Stop(f) == StopNext(f) \/ StopUnregister(f) \/ StopCloseFeed(f) \/ StopReturn(f)

-----------------------------------------------------------------------------
RingStep ==
  /\ \/ \E a \in Appenders : AppenderStep(a)
     \/ Close
     \/ \E f \in Subscribers : CloseSub(f)
  /\ UNCHANGED feedVars

FeedNext ==
  \/ RingStep
  \/ StopFollowers
  \/ \E f \in Subscribers :
       \/ ReadBuffer(f) \/ AddListener(f) \/ RemoveListener(f)
       \/ \E c \in Cursors \cup {SeqCursor(fol[f].expected)} : Follow(f, c)
       \/ Run(f) \/ Stop(f)

\* Goroutines run: appenders finish their deliveries, the follower and whoever
\* called Stop or Close go on.  The user's calls are never forced.
Fairness ==
  /\ \A a \in Appenders :
       WF_allVars((AppendChunk(a) \/ AppendIgnored(a)
                    \/ \E f \in Subscribers : Deliver(a, f)) /\ UNCHANGED feedVars)
  /\ \A f \in Subscribers :
       WF_allVars(Run(f)) /\ WF_allVars(Stop(f))
         /\ WF_allVars(CloseSub(f) /\ UNCHANGED feedVars)

FeedSpec == FeedInit /\ [][FeedNext]_allVars /\ Fairness

-----------------------------------------------------------------------------
Increasing(s) == \A i, j \in DOMAIN s : i < j => s[i] < s[j]

FeedTypeOK ==
  /\ TypeOK
  /\ fol \in [Subscribers ->
       [pc : {"none", "read", "replay", "first", "merge", "done"},
        start : Nat, expected : Nat, owed : SUBSET Nat,
        replay : Seq(Chunk), batch : Seq(Chunk), floor : Nat, resumed : BOOLEAN,
        fits : BOOLEAN]]
  /\ heard \in [Subscribers -> Seq(Nat)]
  /\ reported \in [Subscribers -> SUBSET Nat]
  /\ life \in [Subscribers -> {"none", "followed", "listed", "queued", "stopping",
                               "unregistered", "waiting", "returned"}]
  /\ stopQueue \subseteq Subscribers

(* A listener sees each chunk at most once and in order, and below its       *)
(* cursor nothing is missing in silence: every number from the one it        *)
(* started at was either handed to it (or is about to be) or reported as     *)
(* dropped, never both - through the replay read, the replay, the merges,    *)
(* the evictions in between and the reordered deliveries of two appenders    *)
(* ("delivering it again duplicates bytes on screen", admit).                *)
NoSilentGap ==
  \A f \in Subscribers :
    LET stream == heard[f] \o SeqNums(fol[f].replay) \o SeqNums(fol[f].batch)
        gaps   == reported[f] \cup fol[f].owed
    IN  /\ Increasing(stream)
        /\ Range(stream) \cap gaps = {}
        /\ fol[f].pc # "none" =>
             Range(stream) \cup gaps = fol[f].start .. fol[f].expected - 1

(* Stop returns, also for the followers stopFollowers stops one by one: the  *)
(* closed feed always wakes the goroutine it waits for.                      *)
StopReturns ==
  \A f \in Subscribers :
    life[f] \in {"queued", "stopping"} ~> life[f] = "returned"

(* A chunk that was retained when the app followed from NextSeq is not        *)
(* dropped on it, as long as what the ring held from there on fitted the one  *)
(* read that Subscribe makes (`fits', a history of the follow): whatever was  *)
(* evicted, turned away by a full feed or overtaken in between.               *)
ReplayThenFollowExact ==
  \A f \in Subscribers :
    fol[f].resumed /\ fol[f].fits =>
      \A s \in reported[f] : s < fol[f].floor \/ s >= since[f]
=============================================================================
