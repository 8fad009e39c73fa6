----------------------------- MODULE DataPoint -----------------------------
(***************************************************************************)
(* One data point of the device model while writes to it are under way:    *)
(* the optimistic tracker (model/optimistic/tracker.go), the send path,    *)
(* the confirmation path and the rollback of model/generic/datapoint.go,   *)
(* and the periodic sweep that reseeds values (central.refresh_client_data *)
(* in central/jobs.go, Reseed in central/adapter/device_pipeline.go).      *)
(*                                                                         *)
(* The tracker and the data point have a lock each and no caller holds     *)
(* both: an action is one critical section.                                *)
(*                                                                         *)
(*   a write:        idle -> anchor -> apply -> arm -> wire -> echo        *)
(*                                                      +-> rollback       *)
(*   a rollback:     rollback -> restore -> idle                           *)
(*   a confirmation: store -> look -> snap -> confirm -> check -> clear    *)
(*                                                                         *)
(* The CCU delivers its events one at a time and in order; it may miss one *)
(* (a lost callback, or a device that only reports where it ended).  A     *)
(* timer callback that fired is over before the next one fires, 30 s later.*)
(***************************************************************************)
EXTENDS Integers, Sequences

CONSTANTS
    Values,     \* values of the parameter
    Zero,       \* Go's zero value of the type
    First,      \* the value the CCU starts with
    None,       \* no value observed
    Senders,    \* goroutines that write
    MaxWrites,  \* bound: writes started
    MaxUpsets   \* bound: missed events, clamped values, changes at the device

ASSUME DataPointAssumption ==
    /\ Zero \in Values /\ First \in Values
    /\ None \notin Values
    /\ Senders \cap {"event", "seed", "timer"} = {}
    /\ MaxWrites \in Nat /\ MaxUpsets \in Nat

VARIABLES
    ccu,     \* the value the CCU has stored
    wire,    \* events on their way, oldest first
    value,   \* value and observed: what the CCU confirmed, or None
    tracker, \* the optimistic tracker
    timer,   \* its rollback timer is running
    waiting, \* writers blocked on its done channel
    pc,      \* pc[p]: where process p is, the value it is about, its local
    held,    \* history: values the CCU has had
    writes, upsets \* counters of the bounds

vars == <<ccu, wire, value, tracker, timer, waiting, pc, held, writes, upsets>>

\* "event" is the callback handler, "seed" the sweep, "timer" a callback that
\* the rollback timer has started.
Confirmers == {"event", "seed"}
Processes == Senders \cup Confirmers \cup {"timer"}

Maybe == Values \cup {None}
Steps == {"idle", "anchor", "apply", "arm", "wire", "echo", "waiting",
          "rollback", "restore",
          "store", "look", "snap", "confirm", "check", "clear"}

TypeOK ==
    /\ ccu \in Values
    /\ wire \in Seq(Values)
    /\ value \in Maybe
    /\ tracker \in [active : BOOLEAN, val : Values, prev : Maybe, pending : Nat]
    /\ timer \in BOOLEAN
    /\ waiting \subseteq Senders
    /\ pc \in [Processes -> [at : Steps, val : Maybe, mem : Maybe]]
    /\ held \subseteq Values
    /\ writes \in 0..MaxWrites
    /\ upsets \in 0..MaxUpsets

Idle == [at |-> "idle", val |-> None, mem |-> None]
Fresh == [active |-> FALSE, val |-> Zero, prev |-> None, pending |-> 0]

Init ==
    /\ ccu = First
    /\ wire = <<>>
    /\ value = None
    /\ tracker = Fresh
    /\ timer = FALSE
    /\ waiting = {}
    /\ pc = [p \in Processes |-> Idle]
    /\ held = {ccu}
    /\ writes = 0 /\ upsets = 0

At(p, s) == pc[p].at = s
\* Process p goes on at s with value v and local m; None is a dead one.
Goto(p, s, v, m) == pc' = [pc EXCEPT ![p] = [at |-> s, val |-> v, mem |-> m]]
Finish(p) == pc' = [pc EXCEPT ![p] = Idle]

----------------------------------------------------------------------------
(* The tracker *)

\* The first apply pins the anchor; the others only count.
Apply(t, v, current) ==
    [active |-> TRUE,
     val |-> v,
     prev |-> IF ~t.active /\ t.pending = 0 THEN current ELSE t.prev,
     pending |-> t.pending + 1]

ConfirmOne(t) ==
    IF t.active /\ t.pending > 0 THEN [t EXCEPT !.pending = @ - 1] ELSE t

\* Mutant of Reset: the done channel is dropped without being closed.
ResetWithoutDone ==
    /\ tracker' = Fresh
    /\ timer' = FALSE
    /\ waiting' = waiting

\* resetLocked: the timer stops, the done channel is closed.
Reset ==
    /\ tracker' = Fresh
    /\ timer' = FALSE
    /\ waiting' = {}

----------------------------------------------------------------------------
(* The CCU *)

Upset == upsets < MaxUpsets /\ upsets' = upsets + 1

\* The CCU takes value w and pushes it, or the event is missed.
Takes(w) ==
    /\ ccu' = w
    /\ held' = held \cup {w}
    /\ \/ wire' = Append(wire, w) /\ UNCHANGED upsets
       \/ Upset /\ UNCHANGED wire

\* The device reports a value nobody asked for.
Differs(w) ==
    /\ Upset
    /\ ccu' = w
    /\ held' = held \cup {w}
    /\ wire' = Append(wire, w)

DeviceChanges ==
    /\ \E w \in Values \ {ccu} : Differs(w)
    /\ UNCHANGED <<value, tracker, timer, waiting, pc, writes>>

----------------------------------------------------------------------------
(* A write: sendAndObserve, or a dispatch around ApplyOptimistic *)

\* The burst skip: the value is in flight already.  sendAndObserve returns, a
\* dispatch around ApplyOptimistic goes on with a rollback of that value.
StartWrite(s) ==
    /\ At(s, "idle") /\ writes < MaxWrites
    /\ writes' = writes + 1
    /\ \E v \in Values :
         IF tracker.active /\ tracker.val = v
         THEN Goto(s, "wire", v, None) \/ UNCHANGED pc
         ELSE Goto(s, "anchor", v, None)
    /\ UNCHANGED <<ccu, wire, value, tracker, timer, waiting, held, upsets>>

Shown == IF tracker.active THEN tracker.val ELSE value

\* Mutant of Anchor: the displayed value is taken for the confirmed one.
AnchorDisplayed(s) ==
    /\ At(s, "anchor")
    /\ Goto(s, "apply", pc[s].val, Shown)
    /\ UNCHANGED <<ccu, wire, value, tracker, timer, waiting, held, writes, upsets>>

\* current := d.value
Anchor(s) ==
    /\ At(s, "anchor")
    /\ Goto(s, "apply", pc[s].val, value)
    /\ UNCHANGED <<ccu, wire, value, tracker, timer, waiting, held, writes, upsets>>

Applies(s) ==
    /\ At(s, "apply")
    /\ tracker' = Apply(tracker, pc[s].val, pc[s].mem)
    /\ Goto(s, "arm", pc[s].val, None)
    /\ UNCHANGED <<ccu, wire, value, timer, waiting, held, writes, upsets>>

\* ScheduleRollback replaces the timer, on a settled tracker too.
Arm(s) ==
    /\ At(s, "arm")
    /\ timer' = TRUE
    /\ Goto(s, "wire", pc[s].val, None)
    /\ UNCHANGED <<ccu, wire, value, tracker, waiting, held, writes, upsets>>

\* SetValue: the device may clamp the value; a call may fail with or without
\* the CCU having taken it.
Dispatch(s) ==
    /\ At(s, "wire")
    /\ \/ Takes(pc[s].val) /\ (Goto(s, "echo", None, None) \/ Goto(s, "rollback", None, None))
       \/ (\E w \in Values \ {pc[s].val} : Differs(w)) /\ Goto(s, "echo", None, None)
       \/ UNCHANGED <<ccu, wire, held, upsets>> /\ Goto(s, "rollback", None, None)
    /\ UNCHANGED <<value, tracker, timer, waiting, writes>>

\* WaitForConfirmation, for the callers that want the echo.
Echo(s) ==
    /\ At(s, "echo")
    /\ \/ Finish(s) /\ UNCHANGED waiting
       \/ tracker.active /\ waiting' = waiting \cup {s} /\ Goto(s, "waiting", None, None)
    /\ UNCHANGED <<ccu, wire, value, tracker, timer, held, writes, upsets>>

\* The done channel is closed.
Wake(s) ==
    /\ At(s, "waiting") /\ s \notin waiting
    /\ Finish(s)
    /\ UNCHANGED <<ccu, wire, value, tracker, timer, waiting, held, writes, upsets>>

----------------------------------------------------------------------------
(* The rollback, by a writer whose call failed or by the timer *)

\* The timer has fired: its goroutine is past the select.
Fire ==
    /\ timer /\ At("timer", "idle")
    /\ timer' = FALSE
    /\ Goto("timer", "rollback", None, None)
    /\ UNCHANGED <<ccu, wire, value, tracker, waiting, held, writes, upsets>>

Rollback(p) ==
    /\ At(p, "rollback")
    /\ IF tracker.active
       THEN Goto(p, "restore", None, tracker.prev) /\ Reset
       ELSE Finish(p) /\ UNCHANGED <<tracker, timer, waiting>>
    /\ UNCHANGED <<ccu, wire, value, held, writes, upsets>>

Restore(p) ==
    /\ At(p, "restore")
    /\ value' = pc[p].mem
    /\ Finish(p)
    /\ UNCHANGED <<ccu, wire, tracker, timer, waiting, held, writes, upsets>>

----------------------------------------------------------------------------
(* The confirmation: applyConfirmed for an event or a swept value *)

Deliver ==
    /\ At("event", "idle") /\ wire # <<>>
    /\ Goto("event", "store", Head(wire), None)
    /\ wire' = Tail(wire)
    /\ UNCHANGED <<ccu, value, tracker, timer, waiting, held, writes, upsets>>

\* Mutant of Sweep: the sweep only fills what was never observed.
SweepUnobserved ==
    /\ At("seed", "idle") /\ value = None
    /\ Goto("seed", "store", ccu, None)
    /\ UNCHANGED <<ccu, wire, value, tracker, timer, waiting, held, writes, upsets>>

\* The sweep reads the CCU's value store and applies it later.
Sweep ==
    /\ At("seed", "idle")
    /\ Goto("seed", "store", ccu, None)
    /\ UNCHANGED <<ccu, wire, value, tracker, timer, waiting, held, writes, upsets>>

Store(p) ==
    /\ At(p, "store")
    /\ value' = pc[p].val
    /\ Goto(p, "look", pc[p].val, None)
    /\ UNCHANGED <<ccu, wire, tracker, timer, waiting, held, writes, upsets>>

\* IsActive, Snapshot, ConfirmOne, Snapshot and Clear: five locks.
Look(p) ==
    /\ At(p, "look")
    /\ IF tracker.active THEN Goto(p, "snap", pc[p].val, None) ELSE Finish(p)
    /\ UNCHANGED <<ccu, wire, value, tracker, timer, waiting, held, writes, upsets>>

Snap(p) ==
    /\ At(p, "snap")
    /\ Goto(p, "confirm", pc[p].val, tracker.val)
    /\ UNCHANGED <<ccu, wire, value, tracker, timer, waiting, held, writes, upsets>>

Confirm(p) ==
    /\ At(p, "confirm")
    /\ tracker' = ConfirmOne(tracker)
    /\ Goto(p, IF pc[p].mem = pc[p].val THEN "check" ELSE "clear", None, None)
    /\ UNCHANGED <<ccu, wire, value, timer, waiting, held, writes, upsets>>

Check(p) ==
    /\ At(p, "check")
    /\ IF tracker.pending = 0 THEN Goto(p, "clear", None, None) ELSE Finish(p)
    /\ UNCHANGED <<ccu, wire, value, tracker, timer, waiting, held, writes, upsets>>

Clear(p) ==
    /\ At(p, "clear")
    /\ Reset
    /\ Finish(p)
    /\ UNCHANGED <<ccu, wire, value, held, writes, upsets>>

----------------------------------------------------------------------------
Write(s) == Anchor(s) \/ Applies(s) \/ Arm(s) \/ Dispatch(s) \/ Echo(s) \/ Wake(s)
Undo(p) == Rollback(p) \/ Restore(p)
ApplyConfirmed(p) ==
    Store(p) \/ Look(p) \/ Snap(p) \/ Confirm(p) \/ Check(p) \/ Clear(p)

Next ==
    \/ DeviceChanges \/ Fire \/ Deliver \/ Sweep
    \/ \E s \in Senders : StartWrite(s) \/ Write(s)
    \/ \E p \in Senders \cup {"timer"} : Undo(p)
    \/ \E p \in Confirmers : ApplyConfirmed(p)

Spec == Init /\ [][Next]_vars

\* Goroutines run, the wire call returns, timers fire, the CCU's events and the
\* sweep arrive.  Nobody has to write, and no device has to change.
Fairness ==
    /\ WF_vars(Fire) /\ WF_vars(Undo("timer"))
    /\ WF_vars(Deliver \/ ApplyConfirmed("event"))
    /\ WF_vars(Sweep \/ ApplyConfirmed("seed"))
    /\ \A s \in Senders : WF_vars(Write(s) \/ Undo(s))

FairSpec == Spec /\ Fairness

----------------------------------------------------------------------------
(* Properties *)

\* A value that only a write asked for is never left behind as a confirmed one:
\* whatever failed, was skipped, timed out or raced, the confirmed value is one
\* the CCU has really had (the anchor of sendAndObserve, rollback).
NoInventedState == value # None => value \in held

\* The display comes to agree with the CCU once nobody writes any more, through
\* missed events, clamped values, rollbacks to an outdated anchor and sweeps that
\* read before an event and apply after it (central.refresh_client_data).
DisplaySettles == <>[](Shown = ccu)

\* Every write returns, with the wait for the echo too: some confirmation,
\* mismatch or rollback closes the done channel it waits for (WaitForConfirmation).
WritersReturn == \A s \in Senders : ~At(s, "idle") ~> At(s, "idle")

\* "the displayed value flips back from optimistic to confirmed" (rollback in
\* datapoint.go): the value that is put back is the confirmed one.
RestoresConfirmed == \A p \in Processes : At(p, "restore") => pc[p].mem = value
=============================================================================
