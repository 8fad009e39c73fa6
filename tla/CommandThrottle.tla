--------------------------- MODULE CommandThrottle ---------------------------
(***************************************************************************)
(* The priority semaphore in front of the wire (CommandThrottle in         *)
(* src/internal/client/reliability/throttle.go), one pool of it, used by   *)
(* any number of goroutines at once.                                       *)
(*                                                                         *)
(* A goroutine is a member of Calls.  Its way through acquireFor is        *)
(*                                                                         *)
(*   idle -> pacing <-> sleeping -> paced -> held                          *)
(*                                    |                                    *)
(*                                 queued -> ready -> cleared -> held      *)
(*                                    |        |         |                 *)
(*                                closedOut  dozing <-> admitted           *)
(*                                                                         *)
(* one step per critical section of the code.  The heap of waiters is the  *)
(* set of goroutines in stage "queued" with the arrival order "ahead": the *)
(* sequence number of a waiter is only ever compared.  The rolling burst   *)
(* window is off (no pool of throttle_pools.go sets BurstThreshold), so    *)
(* waitForBurstSlot is its test of "closed", which is made together with   *)
(* the first test of waitForCommandDelay.  Purge has no caller.            *)
(***************************************************************************)
EXTENDS Integers, FiniteSets

CONSTANTS
    Calls,          \* goroutines that acquire permits
    Prio,           \* Prio[c]: 0 is CRITICAL, larger is less urgent
    Capacity,       \* ThrottleConfig.MaxInFlight
    MaxQueueDepth,  \* ThrottleConfig.MaxQueueDepth, 0 is unbounded
    Paced           \* is ThrottleConfig.InterCommandDelay positive?

ASSUME ThrottleAssumption ==
    /\ IsFiniteSet(Calls)
    /\ Prio \in [Calls -> Nat]
    /\ Capacity \in Nat \ {0}
    /\ MaxQueueDepth \in Nat
    /\ Paced \in BOOLEAN

VARIABLES
    stage,      \* stage[c]: where c is inside acquireFor, or "held"
    ctxDone,    \* ctxDone[c]: the context c acquires under is done
    inFlight,   \* permits handed out
    ahead,      \* <<v, w>>: waiter v was queued before waiter w
    shut,       \* closed
    rested      \* InterCommandDelay has elapsed since lastCommandAt

throttleVars == <<stage, ctxDone, inFlight, ahead, shut, rested>>

Stages == {"idle", "pacing", "sleeping", "paced", "queued", "ready", "dozing",
           "admitted", "cleared", "held", "closedOut"}

Critical(c) == Prio[c] = 0
Waiters == {c \in Calls : stage[c] = "queued"}

\* The goroutines a permit is reserved for: wakeNextLocked reserves it before
\* the waiter runs again, the waiter keeps it until it releases it.
HolderStages == {"ready", "dozing", "admitted", "cleared", "held"}
Holders == {c \in Calls : stage[c] \in HolderStages}

ThrottleTypeOK ==
    /\ stage \in [Calls -> Stages]
    /\ ctxDone \in [Calls -> BOOLEAN]
    /\ inFlight \in Int
    /\ ahead \subseteq Calls \X Calls
    /\ shut \in BOOLEAN
    /\ rested \in BOOLEAN

ThrottleInit ==
    /\ stage = [c \in Calls |-> "idle"]
    /\ ctxDone = [c \in Calls |-> FALSE]
    /\ inFlight = 0
    /\ ahead = {}
    /\ shut = FALSE
    /\ rested = TRUE

----------------------------------------------------------------------------
(* waiterHeap *)

\* Less of the heap: urgency first, then the order of arrival.
Less(v, w) == \/ Prio[v] < Prio[w]
              \/ Prio[v] = Prio[w] /\ <<v, w>> \in ahead

First(w) == w \in Waiters /\ \A v \in Waiters \ {w} : Less(w, v)

Without(w) == {p \in ahead : p[1] # w /\ p[2] # w}

----------------------------------------------------------------------------
(* The steps of acquireFor.  A step of it back to "idle" is its return with *)
(* an error (closed, full, or that of the context) and without a permit.    *)

Goto(c, s) == stage' = [stage EXCEPT ![c] = s]
Return(c) == Goto(c, "idle")

Acquire(c) ==
    /\ stage[c] = "idle"
    /\ Goto(c, IF Critical(c) THEN "paced" ELSE "pacing")
    /\ UNCHANGED <<ctxDone, inFlight, ahead, shut, rested>>

\* waitForBurstSlot and waitForCommandDelay before the queue, one round of
\* their loops: the delay is slept through without the lock.
WaitForDelay(c) ==
    /\ stage[c] = "pacing"
    /\ \/ shut /\ Return(c)
       \/ ~shut /\ (rested \/ ~Paced) /\ Goto(c, "paced")
       \/ ~shut /\ ~rested /\ Paced /\ Goto(c, "sleeping")
    /\ UNCHANGED <<ctxDone, inFlight, ahead, shut, rested>>

Sleep(c) ==
    /\ stage[c] = "sleeping"
    /\ \/ rested /\ Goto(c, "pacing")
       \/ shut /\ Return(c)
       \/ ctxDone[c] /\ Return(c)
    /\ UNCHANGED <<ctxDone, inFlight, ahead, shut, rested>>

\* recordBurstLocked: a critical command leaves lastCommandAt alone.
Record(c) == rested' = (IF Critical(c) \/ ~Paced THEN rested ELSE FALSE)

\* The locked section of acquireFor: the fast path, the queue, the depth gate.
Enter(c) ==
    /\ stage[c] = "paced"
    /\ \/ /\ shut
          /\ Return(c)
          /\ UNCHANGED <<inFlight, ahead, rested>>
       \/ /\ ~shut /\ inFlight < Capacity /\ Waiters = {}
          /\ inFlight' = inFlight + 1
          /\ Goto(c, "held") /\ Record(c)
          /\ UNCHANGED ahead
       \/ /\ ~shut /\ ~(inFlight < Capacity /\ Waiters = {})
          /\ ~Critical(c) /\ MaxQueueDepth > 0
          /\ Cardinality(Waiters) >= MaxQueueDepth
          /\ Return(c)
          /\ UNCHANGED <<inFlight, ahead, rested>>
       \/ /\ ~shut /\ ~(inFlight < Capacity /\ Waiters = {})
          /\ \/ Critical(c) \/ MaxQueueDepth = 0
             \/ Cardinality(Waiters) < MaxQueueDepth
          /\ Goto(c, "queued")
          /\ ahead' = ahead \cup (Waiters \X {c})
          /\ UNCHANGED <<inFlight, rested>>
    /\ UNCHANGED <<ctxDone, shut>>

\* Mutant of GiveBack: the counter goes down and nobody is woken.
GiveBackUnheard(c) ==
    /\ inFlight' = IF inFlight > 0 THEN inFlight - 1 ELSE inFlight
    /\ Goto(c, "idle")
    /\ UNCHANGED ahead

\* Decrement the counter and wakeNextLocked: the first waiter, if there is one
\* and a permit is free, gets the permit at once.  The caller is out.
GiveBack(c) ==
    LET left == IF inFlight > 0 THEN inFlight - 1 ELSE inFlight
    IN  \/ /\ left >= Capacity \/ Waiters = {}
           /\ inFlight' = left
           /\ Goto(c, "idle")
           /\ UNCHANGED ahead
        \/ \E w \in Waiters :
             /\ left < Capacity /\ First(w)
             /\ inFlight' = left + 1
             /\ stage' = [stage EXCEPT ![c] = "idle", ![w] = "ready"]
             /\ ahead' = Without(w)

\* A woken waiter holds a permit and tests the delay again; when the throttle
\* was closed meanwhile it gives the permit back (releaseAdmittedSlot).
Recheck(c) ==
    /\ stage[c] \in {"ready", "admitted"}
    /\ \/ /\ ~Critical(c) /\ shut
          /\ GiveBack(c)
       \/ /\ Critical(c) \/ (~shut /\ (rested \/ ~Paced))
          /\ Goto(c, "cleared")
          /\ UNCHANGED <<inFlight, ahead>>
       \/ /\ ~Critical(c) /\ ~shut /\ ~rested /\ Paced
          /\ Goto(c, "dozing")
          /\ UNCHANGED <<inFlight, ahead>>
    /\ UNCHANGED <<ctxDone, shut, rested>>

Doze(c) ==
    /\ stage[c] = "dozing"
    /\ \/ rested /\ Goto(c, "admitted") /\ UNCHANGED <<inFlight, ahead>>
       \/ shut /\ GiveBack(c)
       \/ ctxDone[c] /\ GiveBack(c)
    /\ UNCHANGED <<ctxDone, shut, rested>>

Proceed(c) ==
    /\ stage[c] = "cleared"
    /\ Goto(c, "held") /\ Record(c)
    /\ UNCHANGED <<ctxDone, inFlight, ahead, shut>>

\* The waiter drained by Close reads closedOut and returns without a permit.
ClosedOut(c) ==
    /\ stage[c] = "closedOut"
    /\ Return(c)
    /\ UNCHANGED <<ctxDone, inFlight, ahead, shut, rested>>

\* Mutant of CancelWaiter: a waiter that was admitted in the race returns the
\* error of its context and keeps the permit.
CancelWaiterLeaking(c) ==
    /\ ctxDone[c] /\ stage[c] \in {"queued", "ready", "closedOut"}
    /\ Return(c)
    /\ ahead' = Without(c)
    /\ UNCHANGED <<ctxDone, inFlight, shut, rested>>

\* The select of a parked waiter takes ctx.Done: a waiter still in the heap is
\* removed, an admitted one gives its permit back, a drained one has none.
CancelWaiter(c) ==
    /\ ctxDone[c]
    /\ \/ /\ stage[c] = "queued"
          /\ Return(c)
          /\ ahead' = Without(c)
          /\ UNCHANGED inFlight
       \/ /\ stage[c] = "ready"
          /\ GiveBack(c)
       \/ /\ stage[c] = "closedOut"
          /\ Return(c)
          /\ UNCHANGED <<inFlight, ahead>>
    /\ UNCHANGED <<ctxDone, shut, rested>>

Release(c) ==
    /\ stage[c] = "held"
    /\ GiveBack(c)
    /\ UNCHANGED <<ctxDone, shut, rested>>

\* Close drains the heap without reserving permits.
ThrottleClose ==
    /\ shut' = TRUE
    /\ stage' = [c \in Calls |-> IF stage[c] = "queued" THEN "closedOut" ELSE stage[c]]
    /\ ahead' = {}
    /\ UNCHANGED <<ctxDone, inFlight, rested>>

\* The delay elapses.
Rest ==
    /\ ~rested
    /\ rested' = TRUE
    /\ UNCHANGED <<stage, ctxDone, inFlight, ahead, shut>>

\* The environment's part: contexts end, and a goroutine outside the throttle
\* may come back with a new one.
Contexts ==
    /\ ctxDone' \in [Calls -> BOOLEAN]
    /\ \A c \in Calls : stage[c] # "idle" /\ ctxDone[c] => ctxDone'[c]
    /\ UNCHANGED <<stage, inFlight, ahead, shut, rested>>

AcquireStep(c) ==
    WaitForDelay(c) \/ Sleep(c) \/ Enter(c) \/ Recheck(c) \/ Doze(c) \/ Proceed(c)
    \/ ClosedOut(c) \/ CancelWaiter(c)

ThrottleNext ==
    \/ \E c \in Calls : Acquire(c) \/ AcquireStep(c) \/ Release(c)
    \/ Contexts
    \/ ThrottleClose
    \/ Rest

ThrottleSpec == ThrottleInit /\ [][ThrottleNext]_throttleVars

----------------------------------------------------------------------------
(* Properties *)

\* The counter is the number of permits really reserved, whatever mixture of
\* wake-ups, cancellations and Close a waiter meets: a permit neither leaks
\* (the interface would stall for good) nor is given back twice (the CCU would
\* see more commands at once than the pool allows).
PermitsConserved == inFlight = Cardinality(Holders)

\* No permit lies idle while a command waits for one: each path that frees a
\* permit, or leaves the queue, wakes the next waiter.
NoIdlePermit == Waiters # {} => inFlight >= Capacity

\* A closed throttle keeps nobody parked: Close drains the heap, and nothing
\* enters it afterwards.
NobodyParked == shut => Waiters = {}

\* At most MaxInFlight commands are at the CCU or about to go there.
Bounded == Cardinality(Holders) <= Capacity

\* What a client of the pool may rely on, whatever queueing there is.
Pool == INSTANCE PermitPool WITH Users <- Calls, Permits <- Capacity, holding <- Holders
=============================================================================
