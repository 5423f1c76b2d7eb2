--------------------------- MODULE TailnetRegistry ---------------------------
(***************************************************************************)
(* The registry that owns tailnet nodes and decides when they go:          *)
(* services/ssh-core/internal/tailnet/registry.go.                         *)
(*                                                                         *)
(* Tailnets share only the registry's lock, so one is modelled.  Every     *)
(* action is one critical section of mu; closing a node talks to the       *)
(* control plane and the disk and happens outside it, one step at a time,  *)
(* in a job.  A node is the generation of its entry.                       *)
(***************************************************************************)
EXTENDS Integers, Sequences, FiniteSets, Bags
LOCAL INSTANCE BagsExt

CONSTANTS
  Consumers,   \* sessions, file browsers and forwards that lease the node
  Ops,         \* the operations this instance calls besides Acquire and Release
  LateTimers,  \* an idle timer may run after it was stopped, or into a teardown
  MaxGen, MaxLoose   \* bounds of the model: nodes built, such timers at a time

AllOps == {"RetireReset", "RetireForget", "Disconnect", "Reset", "Discard",
           "Replace", "Observe", "Forget", "Close"}

ASSUME TailnetAssumption ==
  /\ Ops \subseteq AllOps /\ LateTimers \in BOOLEAN
  /\ MaxGen \in Nat /\ MaxLoose \in Nat
  /\ IsFiniteSet(Consumers)

VARIABLES
  entry,      \* [gen, refs, retirement, idle, teardown]; gen = 0: there is none
  loose,      \* idle timers that will run whatever becomes of their handle
  lease,      \* per consumer, the generation it has leased; 0: none
  observer,   \* the lease of DiscardInvalidIdentityIfIdle
  closed,     \* Registry.closed
  jobs,       \* bag of the teardowns at work: [gen, the steps left]
  generations,
  openNodes,                \* of the generations, those not closed yet
  forced, condemned,        \* history: taken from its users; to be purged
  overlap                   \* history: a teardown began during another

vars == <<entry, loose, lease, observer, closed, jobs, generations, openNodes,
          forced, condemned, overlap>>

Gens == 1 .. MaxGen
NoEntry == [gen |-> 0, refs |-> 0, retirement |-> 0, idle |-> "none", teardown |-> FALSE]
RetireForReset == 1
RetireForForget == 2

Init ==
  /\ entry = NoEntry /\ loose = 0
  /\ lease = [c \in Consumers |-> 0] /\ observer = 0
  /\ closed = FALSE /\ jobs = EmptyBag /\ generations = 0
  /\ openNodes = {} /\ forced = {} /\ condemned = {}
  /\ overlap = FALSE

\* lockEntrySettled: whoever finds a teardown waits for its end and looks again.
Settled == ~entry.teardown
Present == entry.gen # 0

\* What a teardown does to the node, in order; the entry is removed at the end.
CloseOnly == <<"close", "remove">>
ClosePurge == <<"close", "purge", "remove">>
LogoutClosePurge_late == <<"close", "remove", "logout", "purge">>
LogoutClosePurge == <<"logout", "close", "purge", "remove">>
Retiring(r) == IF r = RetireForForget THEN LogoutClosePurge ELSE CloseOnly

\* beginTeardown(true); idle is what the caller leaves of the timer.
Begin(steps, refs, retirement) ==
  /\ entry' = [entry EXCEPT !.refs = refs, !.retirement = retirement,
                            !.idle = "none", !.teardown = TRUE]
  /\ jobs' = BagAdd(jobs, [gen |-> entry.gen, todo |-> steps])
  /\ overlap' = (overlap \/ entry.teardown)

-----------------------------------------------------------------------------
(* Leases.                                                                   *)

\* Acquire: the first consumer builds the node, a later one stops the timer.
Acquire(c) ==
  LET new == generations + 1
  IN  /\ lease[c] = 0 /\ Settled /\ ~closed
      /\ entry.retirement = 0
      /\ IF Present
         THEN /\ entry' = [entry EXCEPT !.refs = @ + 1, !.idle = "none"]
              /\ lease' = [lease EXCEPT ![c] = entry.gen]
              /\ UNCHANGED <<generations, openNodes>>
         ELSE /\ new \in Gens
              /\ entry' = [NoEntry EXCEPT !.gen = new, !.refs = 1]
              /\ lease' = [lease EXCEPT ![c] = new]
              /\ generations' = new /\ openNodes' = openNodes \cup {new}
      /\ UNCHANGED <<loose, observer, closed, jobs, overlap, forced, condemned>>

\* A lease counts only for the node it was given out for.
Counts_any(gen) == Present
Counts(gen) == entry.gen = gen

\* The last release, also one that comes when a forced teardown has set refs to
\* 0: retire now, or arm the timer in place of the one before.
LastRelease ==
  IF entry.retirement # 0
  THEN Begin(Retiring(entry.retirement), 0, entry.retirement)
  ELSE /\ entry' = [entry EXCEPT !.refs = 0, !.idle = "armed"]
       /\ UNCHANGED <<jobs, overlap>>

release(gen) ==
  IF ~Present \/ ~Counts(gen) THEN UNCHANGED <<entry, jobs, overlap>>
  ELSE IF entry.refs > 1 THEN entry' = [entry EXCEPT !.refs = @ - 1] /\ UNCHANGED <<jobs, overlap>>
  ELSE LastRelease

Release(c) ==
  /\ lease[c] # 0
  /\ release(lease[c])
  /\ lease' = [lease EXCEPT ![c] = 0]
  /\ UNCHANGED <<loose, observer, closed, generations, openNodes, forced, condemned>>

-----------------------------------------------------------------------------
(* The idle timer.                                                           *)

\* The timer fires and its goroutine has yet to take mu.
TimerFires ==
  /\ LateTimers /\ entry.idle = "armed" /\ loose < MaxLoose
  /\ entry' = [entry EXCEPT !.idle = "fired"] /\ loose' = loose + 1
  /\ UNCHANGED <<lease, observer, closed, jobs, overlap, generations, openNodes, forced, condemned>>

InUse_no == FALSE
InUse_always == entry.refs >= 0
InUse == entry.refs > 0

\* idleExpired; it asks neither for the generation nor for a teardown.  The
\* handle of a timer armed since is dropped, not stopped.
idleExpired(running) ==
  /\ loose' = loose - running + (IF Present /\ ~InUse /\ running = 1 /\ entry.idle = "armed" THEN 1 ELSE 0)
  /\ IF Present /\ ~InUse
     THEN Begin(CloseOnly, entry.refs, entry.retirement)
     ELSE UNCHANGED <<entry, jobs, overlap>>
  /\ UNCHANGED <<lease, observer, closed, generations, openNodes, forced, condemned>>

TimerOnTime == entry.idle = "armed" /\ Settled /\ idleExpired(0)
TimerLate == loose > 0 /\ idleExpired(1)

-----------------------------------------------------------------------------
(* What the service calls.                                                   *)

Max2(a, b) == IF a > b THEN a ELSE b

Retire(r) ==
  LET stronger == Max2(r, entry.retirement)
  IN  /\ (IF r = RetireForForget THEN "RetireForget" ELSE "RetireReset") \in Ops
      /\ Settled /\ Present /\ ~closed
      /\ IF entry.refs > 0
         THEN entry' = [entry EXCEPT !.retirement = stronger, !.idle = "none"] /\ UNCHANGED <<jobs, overlap>>
         ELSE Begin(Retiring(stronger), 0, stronger)
      /\ condemned' = IF r = RetireForForget THEN condemned \cup {entry.gen} ELSE condemned
      /\ UNCHANGED <<loose, lease, observer, closed, generations, openNodes, forced>>

\* Disconnect and Reset refuse while the node is in use.
CloseUnused(op) ==
  /\ op \in Ops /\ op \in {"Disconnect", "Reset"}
  /\ Settled /\ Present /\ ~InUse
  /\ Begin(CloseOnly, 0, entry.retirement)
  /\ UNCHANGED <<loose, lease, observer, closed, generations, openNodes, forced, condemned>>

\* Cancelling takes the node from whoever has it, but not a retirement.
DiscardSteps_plain == CloseOnly
DiscardSteps == IF entry.retirement # 0 THEN Retiring(entry.retirement) ELSE CloseOnly
Discard ==
  /\ "Discard" \in Ops /\ Settled /\ Present
  /\ Begin(DiscardSteps, 0, entry.retirement)
  /\ forced' = forced \cup {entry.gen}
  /\ UNCHANGED <<loose, lease, observer, closed, generations, openNodes, condemned>>

Forget ==
  /\ "Forget" \in Ops /\ Settled /\ Present
  /\ Begin(LogoutClosePurge, entry.refs, entry.retirement)
  /\ forced' = forced \cup {entry.gen} /\ condemned' = condemned \cup {entry.gen}
  /\ UNCHANGED <<loose, lease, observer, closed, generations, openNodes>>

\* ReplaceInvalidIdentity of the node that gen leased, if it is still that one.
ReplaceInvalidIdentity(gen) ==
  /\ Settled
  /\ IF Present /\ Counts(gen)
     THEN Begin(ClosePurge, 0, entry.retirement) /\ forced' = forced \cup {gen}
     ELSE UNCHANGED <<entry, jobs, overlap, forced>>

\* The service releases the lease it found invalid and then replaces the node.
Replace(gen) ==
  /\ "Replace" \in Ops /\ gen \in 1 .. generations
  /\ ReplaceInvalidIdentity(gen)
  /\ UNCHANGED <<loose, lease, observer, closed, generations, openNodes, condemned>>

\* DiscardInvalidIdentityIfIdle: lease the idle node, look, replace or let go.
Observe ==
  /\ "Observe" \in Ops /\ observer = 0
  /\ Settled /\ Present /\ ~closed /\ entry.refs = 0
  /\ entry' = [entry EXCEPT !.refs = 1, !.idle = "none"]
  /\ observer' = entry.gen
  /\ UNCHANGED <<loose, lease, closed, jobs, overlap, generations, openNodes, forced, condemned>>

ObservedValid ==
  /\ observer # 0
  /\ release(observer) /\ observer' = 0
  /\ UNCHANGED <<loose, lease, closed, generations, openNodes, forced, condemned>>

\* Replaced, the lease is simply dropped; otherwise it is released.
ObservedInvalid ==
  /\ observer # 0 /\ Settled
  /\ IF Present /\ Counts(observer)
     THEN ReplaceInvalidIdentity(observer)
     ELSE release(observer) /\ UNCHANGED forced
  /\ observer' = 0
  /\ UNCHANGED <<loose, lease, closed, generations, openNodes, condemned>>

\* Registry.Close: what is being torn down already is left to its teardown.
Skipped == entry.teardown
Close ==
  /\ "Close" \in Ops /\ ~closed /\ closed' = TRUE
  /\ entry' = NoEntry
  /\ jobs' = IF Present /\ ~Skipped
             THEN BagAdd(jobs, [gen |-> entry.gen, todo |-> Retiring(entry.retirement)])
             ELSE jobs
  /\ forced' = IF Present THEN forced \cup {entry.gen} ELSE forced
  /\ UNCHANGED <<loose, lease, observer, generations, openNodes, condemned, overlap>>

-----------------------------------------------------------------------------
(* A teardown takes its next step; an error of one does not stop the rest.   *)

\* endTeardownRemoving: only the entry the teardown began with.
Removes(gen) == entry.gen = gen

Step(job) ==
  LET step == Head(job.todo)
      others == BagRemove(jobs, job)
  IN  /\ jobs' = IF Len(job.todo) = 1 THEN others
                 ELSE BagAdd(others, [job EXCEPT !.todo = Tail(@)])
      /\ openNodes' = IF step = "close" THEN openNodes \ {job.gen} ELSE openNodes
      /\ condemned' = IF step = "purge" THEN condemned \ {job.gen} ELSE condemned
      /\ entry' = IF step = "remove" /\ Removes(job.gen) THEN NoEntry ELSE entry
      /\ UNCHANGED <<loose, lease, observer, closed, generations, forced, overlap>>

-----------------------------------------------------------------------------
Leasing == \E c \in Consumers : Acquire(c) \/ Release(c)
Timers == TimerFires \/ TimerOnTime \/ TimerLate
Calls ==
  \/ \E r \in {RetireForReset, RetireForForget} : Retire(r)
  \/ \E op \in Ops : CloseUnused(op)
  \/ \E g \in Gens : Replace(g)
  \/ Discard \/ Forget \/ Observe \/ ObservedValid \/ ObservedInvalid \/ Close
Teardowns == \E job \in BagToSet(jobs) : Step(job)

Next == Leasing \/ Timers \/ Calls \/ Teardowns
Spec == Init /\ [][Next]_vars

\* Timers expire and teardowns end.
FairSpec == Spec /\ WF_vars(TimerOnTime) /\ WF_vars(Teardowns) /\ WF_vars(TimerLate)

-----------------------------------------------------------------------------
TypeOK ==
  /\ entry \in [gen : Gens \cup {0}, refs : 0 .. Cardinality(Consumers) + 1, retirement : 0 .. 2,
                idle : {"none", "armed", "fired"}, teardown : BOOLEAN]
  /\ loose \in 0 .. MaxLoose + 1
  /\ lease \in [Consumers -> Gens \cup {0}] /\ observer \in Gens \cup {0}
  /\ closed \in BOOLEAN /\ generations \in 0 .. MaxGen
  /\ \A job \in BagToSet(jobs) : job.gen \in Gens /\ job.todo # <<>>
  /\ openNodes \subseteq Gens /\ forced \subseteq Gens /\ condemned \subseteq Gens /\ overlap \in BOOLEAN

Has(job, step) == \E i \in DOMAIN job.todo : job.todo[i] = step
Holders(gen) ==
  Cardinality({c \in Consumers : lease[c] = gen}) + (IF observer = gen THEN 1 ELSE 0)

(* The reference count of a node that is not being torn down is the number of *)
(* leases given out for it, although old leases of forced nodes come back     *)
(* later, and several times.  A leak would keep the node up for ever, a lost  *)
(* count would close it under a session.                                      *)
RefsExact == Present /\ ~entry.teardown => entry.refs = Holders(entry.gen)

(* Only the operations that say so take a node from its users: the timer,     *)
(* Disconnect, Reset and a retirement close nothing that somebody leases.     *)
LeasedStays ==
  \A job \in BagToSet(jobs) :
    job.gen \notin forced => Holders(job.gen) = 0

(* Two nodes never share the state directory: while a node lives or its state *)
(* is still to be purged, no newer node exists.  Only a second teardown of the *)
(* same node (a late timer, a lease that comes back to a retired node) breaks  *)
(* this: the first to end lets Acquire in before the other is done.            *)
NodeAlone ==
  ~overlap =>
    /\ Cardinality(openNodes) <= 1
    /\ \A job \in BagToSet(jobs) : Has(job, "purge") => generations = job.gen

(* A registration that was to be forgotten is gone before the tailnet is      *)
(* joined again: neither a cancel nor a weaker retirement undoes it, as long  *)
(* as one teardown at a time works on the node.                               *)
ForgottenIsPurged ==
  ~overlap => \A n \in condemned : n >= generations

(* A node that everybody left is closed in the end.                           *)
IdleGoes == (Present /\ entry.refs = 0) ~> (openNodes = {} \/ entry.refs > 0)
=============================================================================
