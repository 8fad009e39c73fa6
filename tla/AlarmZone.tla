------------------------------ MODULE AlarmZone ------------------------------
(***************************************************************************)
(* The arm-state machine of one alarm zone (internal/alarm/engine).        *)
(*                                                                         *)
(* The Go engine runs every verb, sensor event and timer fire under one    *)
(* mutex, so each of them is one action here.  Zones share nothing but     *)
(* that mutex; this module is one zone.  What survives a crash is the      *)
(* zone's state row (alarm_state) and the incident table                   *)
(* (alarm_incidents); everything else is rebuilt by Start.                 *)
(*                                                                         *)
(* Conventions of the model:                                               *)
(*  - a handler of the code is an operator on the engine record "eng"      *)
(*    that returns the record the handler leaves behind; sub-handlers are  *)
(*    applied in the code's order, and an action installs the result with  *)
(*    Becomes;                                                             *)
(*  - a countdown is the name of the running timer.  The sequence numbers  *)
(*    of the code discard a callback that was cancelled or replaced, so a  *)
(*    timer can fire exactly while it is running; how long it runs is      *)
(*    left open;                                                           *)
(*  - the argument f is the set of store writes that fail in the handler   *)
(*    (the code carries on from memory); a crash between two writes of a   *)
(*    handler is a handler whose later writes fail, followed by Crash;     *)
(*  - journal, events, chirps, ticks and the source ledger carry no        *)
(*    control and are left out; "horn" is the last acoustic command given  *)
(*    to the output port: on (FireCycle) or off (StopAll).                 *)
(***************************************************************************)
EXTENDS Naturals, Sequences

CONSTANTS
    Sensors,       \* the sensors that can be enrolled
    Modes,         \* the armed modes (AlarmMode.Armed)
    None,          \* absence of a sensor, a mode, an incident
    SensorConfig,  \* [Sensors -> SensorConfigs]
    ZoneConfig,    \* an element of ZoneConfigs
    IdOrder,       \* [Sensors -> Nat], the string order of the sensor ids
    LoopBreakerK,  \* restart loop breaker (DefaultRestartLoopBreakerK)
    MaxIncidents,  \* bound: incident rows ever created
    MaxRestarts,   \* bound: crashes and clean stops
    MaxFaults,     \* bound: handlers in which a store write fails
    MaxWrites,     \* bound: configuration writes
    Conditions,    \* bound: the sensor troubles that occur
    FailingWrites  \* bound: the kinds of store write that fail

Off == "disarmed"                \* hmenum.AlarmModeDisarmed

States == {"disarmed", "arming", "armed", "pending", "triggered"}

TimerKinds == {"none", "exit_delay", "entry_delay", "trigger_time", "pre_alarm"}

Troubles == {"unreachable", "sabotage", "low_battery"}

\* The writes of a handler: to the incident row, its close, the state row.
WriteKinds == {"inc", "close", "row"}

Faults == SUBSET FailingWrites

\* config.go SensorConfig: durations are reduced to "greater than zero".
SensorConfigs ==
    [modes : SUBSET Modes, useExitDelay : BOOLEAN, useEntryDelay : BOOLEAN,
     entryOverride : {"unset", "zero", "positive"}, alwaysOn : BOOLEAN,
     allowOpenAfterArming : BOOLEAN, armAfterClosing : BOOLEAN,
     bypassAuto : BOOLEAN, triggerWhenUnavailable : BOOLEAN,
     holdTime : BOOLEAN, group : BOOLEAN, panicSilent : BOOLEAN]

\* config.go ZoneConfig and ModeConfig: the modes with an exit delay, an entry
\* delay and a pre-alarm; blockers is the set of conditions whose policy blocks.
ZoneConfigs ==
    [exitDelay : SUBSET Modes, entryDelay : SUBSET Modes, preAlarm : SUBSET Modes,
     maxRetriggerCycles : Nat, postTrigger : {"disarm", "return_to_armed"},
     centralLoss : {"alert", "trigger"}, autoRearm : BOOLEAN,
     blockers : SUBSET (Troubles \cup {"open"})]

ASSUME ConfigAssumption ==
    /\ SensorConfig \in [Sensors -> SensorConfigs]
    /\ ZoneConfig \in ZoneConfigs
    /\ IdOrder \in [Sensors -> Nat]

\* The open incident of a zone, in memory.
Incidents ==
    [id : Nat, cause : Sensors \cup {None}, silenced : BOOLEAN, cycles : Nat, refires : Nat]

ASSUME NoneAssumption ==
    /\ None \notin Sensors \cup Modes \cup States \cup Incidents
    /\ Off \notin Modes \cup {None}

ASSUME BoundAssumption ==
    /\ LoopBreakerK \in Nat
    /\ MaxIncidents \in Nat
    /\ MaxRestarts \in Nat
    /\ MaxFaults \in Nat
    /\ MaxWrites \in Nat
    /\ Conditions \subseteq Troubles
    /\ FailingWrites \subseteq WriteKinds

VARIABLES
    life,      \* "down" (no process), "up" (started), "stopped" (after Stop)
    zone,      \* in-memory zone (zone.go)
    cfg,       \* loaded configuration: enrolled sensors and configured modes
    view,      \* last observed activation per sensor (active, activeKnown)
    row,       \* the zone's alarm_state row
    db,        \* alarm_incidents, indexed by incident id
    horn,      \* last acoustic command to the output port
    fired,     \* history: output cycles started per incident id
    hushed,    \* history: incidents with a silence on record
    trouble,   \* availability, sabotage and low-battery flags per sensor
    hold,      \* sensors with a running hold-time timer
    world,     \* what the sensors really show
    events,    \* sensors with an undelivered value-change event
    ready,     \* the channel model is populated: the SensorReader knows values
    stored,    \* configuration in the zone and sensor stores
    restarts, faults, writes   \* counters behind the Max bounds

engVars == <<zone, cfg, view, row, db, horn, fired, hushed>>
sensorVars == <<trouble, hold>>
envVars == <<world, events, ready>>
countVars == <<restarts, faults, writes>>
vars == <<life, engVars, sensorVars, envVars, stored, countVars>>

-----------------------------------------------------------------------------
\* Shapes.

IncidentRows ==
    [open : BOOLEAN, cause : Sensors \cup {None}, silenced : BOOLEAN, cycles : Nat, refires : Nat]

Zones ==
    [state : States, mode : Modes \cup {Off}, bypassed : SUBSET Sensors,
     incident : Incidents \cup {None}, openAtArm : SUBSET Sensors,
     pendingCause : Sensors \cup {None}, silencedID : Nat, timer : TimerKinds,
     preState : States \cup {None}, preMode : Modes \cup {Off, None},
     preAlarm : BOOLEAN, rearm : BOOLEAN, rearmMode : Modes \cup {None},
     debounce : Sensors \cup {None}, hits : SUBSET Sensors, walk : BOOLEAN]

Rows ==
    [state : States, mode : Modes \cup {Off}, bypassed : SUBSET Sensors,
     incident : Nat, openAtArm : SUBSET Sensors,
     pendingCause : Sensors \cup {None}, silencedID : Nat, timer : TimerKinds,
     preState : States \cup {None}, preMode : Modes \cup {Off, None},
     preAlarm : BOOLEAN, rearm : BOOLEAN, rearmMode : Modes \cup {None}]

\* Incident ids: 0 is an incident without a row, the last one is the row that
\* would exceed the bound (a step that creates it is not taken).
Ids == 0..MaxIncidents + 1

Configs == [sensors : SUBSET Sensors, modes : SUBSET Modes]

Views == [Sensors -> {"unknown", "active", "clear"}]

\* loadConfig builds a zone in this shape; Reload does for a new zone.
FreshZone ==
    [state |-> "disarmed", mode |-> Off, bypassed |-> {}, incident |-> None,
     openAtArm |-> {}, pendingCause |-> None, silencedID |-> 0, timer |-> "none",
     preState |-> None, preMode |-> None, preAlarm |-> FALSE, rearm |-> FALSE,
     rearmMode |-> None, debounce |-> None, hits |-> {}, walk |-> FALSE]

\* persist: the row is the state, the two timer tuples and the context document.
RowOf(z) ==
    [state |-> z.state, mode |-> z.mode, bypassed |-> z.bypassed,
     incident |-> IF z.incident = None THEN 0 ELSE z.incident.id,
     openAtArm |-> z.openAtArm, pendingCause |-> z.pendingCause,
     silencedID |-> z.silencedID, timer |-> z.timer, preState |-> z.preState,
     preMode |-> z.preMode, preAlarm |-> z.preAlarm, rearm |-> z.rearm,
     rearmMode |-> z.rearmMode]

\* restoreZone: what of a row goes back into a zone before its state is restored.
ZoneOf(r) ==
    [state |-> "disarmed", mode |-> r.mode, bypassed |-> r.bypassed, incident |-> None,
     openAtArm |-> r.openAtArm, pendingCause |-> r.pendingCause, silencedID |-> 0,
     timer |-> "none", preState |-> r.preState, preMode |-> r.preMode,
     preAlarm |-> r.preAlarm, rearm |-> FALSE, rearmMode |-> r.rearmMode,
     debounce |-> None, hits |-> {}, walk |-> FALSE]

\* The engine record the handlers work on.
eng == [z |-> zone, cfg |-> cfg, view |-> view, row |-> row, db |-> db,
        horn |-> horn, fired |-> fired]

Becomes(e) ==
    /\ Len(e.db) <= MaxIncidents
    /\ zone' = e.z /\ cfg' = e.cfg /\ view' = e.view /\ row' = e.row
    /\ db' = e.db /\ horn' = e.horn /\ fired' = e.fired
    /\ hushed' = hushed \cup {i \in 1..Len(e.db) : e.db[i].silenced \/ e.row.silencedID = i}

\* Failing writes are counted, and bounded, per handler.
Writing(f) ==
    /\ f = {} \/ faults < MaxFaults
    /\ faults' = IF f = {} THEN faults ELSE faults + 1

-----------------------------------------------------------------------------
\* Zone helpers (zone.go).

InMode(s, m) == m \in SensorConfig[s].modes

ArmedSide(st) == st \in {"armed", "arming", "pending"}

CancelTimers(z) == [z EXCEPT !.timer = "none", !.debounce = None]

CancelAutoRearm(z) == [z EXCEPT !.rearm = FALSE, !.rearmMode = None]

ScheduleAutoRearm(z, m) == [z EXCEPT !.rearm = TRUE, !.rearmMode = m]

ResetToDisarmed(z) ==
    [z EXCEPT !.state = "disarmed", !.mode = Off, !.bypassed = {}, !.openAtArm = {},
              !.pendingCause = None, !.preState = None, !.preMode = None,
              !.preAlarm = FALSE]

-----------------------------------------------------------------------------
\* Engine helpers.

With(e, z) == [e EXCEPT !.z = z]

Persist(e, f) == IF "row" \in f THEN e ELSE [e EXCEPT !.row = RowOf(e.z)]

StopAll(e) == [e EXCEPT !.horn = FALSE]

\* fireCycle: one output cycle of the open incident; loud when it sounds.
FireCycle(e, loud) ==
    [e EXCEPT !.horn = loud \/ @,
              !.fired[e.z.incident.id] = @ + 1]

\* Mutant of OpenIncident: the id is taken although the row was not created.
OpenIncidentUnchecked(e, cause, f) ==
    LET new == [open |-> TRUE, cause |-> cause, silenced |-> FALSE, cycles |-> 0, refires |-> 0]
    IN [e EXCEPT !.z.incident = [id |-> Len(e.db) + 1, cause |-> cause,
                              silenced |-> FALSE, cycles |-> 0, refires |-> 0],
                 !.db = IF "inc" \in f THEN @ ELSE Append(@, new),
                 !.fired[Len(e.db) + 1] = 0]

\* openIncident: an incident whose row could not be created runs with id 0.
OpenIncident(e, cause, f) ==
    LET id == IF "inc" \in f THEN 0 ELSE Len(e.db) + 1
        inc == [id |-> id, cause |-> cause, silenced |-> FALSE, cycles |-> 0, refires |-> 0]
        new == [open |-> TRUE, cause |-> cause, silenced |-> FALSE, cycles |-> 0, refires |-> 0]
    IN [e EXCEPT !.z.incident = inc,
                 !.db = IF id = 0 THEN @ ELSE Append(@, new),
                 !.fired[id] = 0]

\* Mutant of CloseIncident: the row is left open.
CloseIncidentInMemory(e, f) ==
    [e EXCEPT !.z = [e.z EXCEPT !.incident = None, !.silencedID = 0]]

CloseIncident(e, f) ==
    LET inc == e.z.incident
    IN IF inc = None THEN e
       ELSE [e EXCEPT !.z = [e.z EXCEPT !.incident = None, !.silencedID = 0],
                      !.db = IF inc.id = 0 \/ "close" \in f THEN @
                             ELSE [e.db EXCEPT ![inc.id].open = FALSE]]

SilenceIncident(e, f) ==
    LET inc == e.z.incident
    IN IF inc.silenced THEN StopAll(e)
       ELSE StopAll([e EXCEPT
                !.z = [e.z EXCEPT !.incident.silenced = TRUE, !.silencedID = inc.id],
                !.db = IF inc.id = 0 \/ "inc" \in f THEN @
                       ELSE [e.db EXCEPT ![inc.id].silenced = TRUE]])

\* recaptureOpenBaseline
RecaptureOpenBaseline(e) ==
    With(e, [e.z EXCEPT !.openAtArm =
        {s \in e.cfg.sensors : /\ InMode(s, e.z.mode)
                               /\ s \notin e.z.bypassed
                               /\ e.view[s] = "active"}])

\* Mutant of CompleteArm: the transition is not persisted.
CompleteArmUnsaved(e, f) ==
    RecaptureOpenBaseline(With(e, [CancelTimers(e.z) EXCEPT !.state = "armed"]))

CompleteArm(e, f) ==
    Persist(RecaptureOpenBaseline(With(e, [CancelTimers(e.z) EXCEPT !.state = "armed"])), f)

\* refreshSensorValues: r is whether the reader knows values, w the values.
Observed(b) == IF b THEN "active" ELSE "clear"

RefreshSensorValues(e, r, w) ==
    IF r THEN [e EXCEPT !.view = [s \in Sensors |-> IF s \in e.cfg.sensors
                                                    THEN Observed(w[s]) ELSE @[s]]]
    ELSE e

\* readinessDetail: what would block arming m, before the bypass flags.
Blocking(e, tr, m) ==
    {s \in e.cfg.sensors :
        /\ ~SensorConfig[s].alwaysOn
        /\ InMode(s, m)
        /\ s \notin e.z.bypassed
        /\ \/ /\ e.view[s] = "active"
              /\ ~SensorConfig[s].allowOpenAfterArming
              /\ "open" \in ZoneConfig.blockers
           \/ tr[s] \cap ZoneConfig.blockers # {}}

AutoBypass(S) == {s \in S : SensorConfig[s].bypassAuto}

-----------------------------------------------------------------------------
\* Arming and disarming.

\* Mutant of BeginArm: readiness is decided on the values that happened to
\* arrive, and a pending auto-rearm is left running.
BeginArmOnOldValues(e, m, bypass, force, skip, r, w, tr, f) ==
    LET blocking == Blocking(e, tr, m)
        excluded == (bypass \cap e.cfg.sensors) \cup AutoBypass(blocking)
        remaining == blocking \ excluded
        z2 == [CancelTimers(e.z) EXCEPT !.bypassed = excluded \cup remaining, !.walk = FALSE,
                                        !.mode = m, !.pendingCause = None, !.openAtArm = {}]
    IN IF remaining # {} /\ ~force THEN e
       ELSE IF m \in ZoneConfig.exitDelay /\ ~skip
            THEN Persist(With(e, [z2 EXCEPT !.state = "arming", !.timer = "exit_delay"]), f)
            ELSE CompleteArm(With(e, z2), f)

\* beginArm: a refused arm returns before the state is touched, but after the
\* pending auto-rearm, the walk test and the sensor values were.
BeginArm(e, m, bypass, force, skip, r, w, tr, f) ==
    LET e1 == RefreshSensorValues(
                  With(e, [CancelAutoRearm(e.z) EXCEPT !.walk = FALSE]), r, w)
        blocking == Blocking(e1, tr, m)
        excluded == (bypass \cap e.cfg.sensors) \cup AutoBypass(blocking)
        remaining == blocking \ excluded
        z2 == [CancelTimers(e1.z) EXCEPT !.bypassed = excluded \cup remaining,
                                         !.mode = m, !.pendingCause = None,
                                         !.openAtArm = {}]
    IN IF remaining # {} /\ ~force THEN e1
       ELSE IF m \in ZoneConfig.exitDelay /\ ~skip
            THEN Persist(With(e1, [z2 EXCEPT !.state = "arming", !.timer = "exit_delay"]), f)
            ELSE CompleteArm(With(e1, z2), f)

\* Mutant of DisarmLocked: the disarm is not persisted.
DisarmLockedUnsaved(e, f) ==
    LET e1 == With(e, CancelAutoRearm(CancelTimers(e.z)))
        e2 == IF e1.z.incident = None THEN e1
              ELSE CloseIncident(SilenceIncident(e1, f), f)
    IN With(e2, ResetToDisarmed(e2.z))

DisarmLocked(e, f) ==
    LET e1 == With(e, CancelAutoRearm(CancelTimers(e.z)))
        e2 == IF e1.z.incident = None THEN e1
              ELSE CloseIncident(SilenceIncident(e1, f), f)
    IN Persist(With(e2, ResetToDisarmed(e2.z)), f)

\* onAutoRearmElapsed; a refused rearm is persisted by the caller of beginArm.
OnAutoRearmElapsed(e, r, w, tr, f) ==
    LET m == e.z.rearmMode
        e1 == With(e, [e.z EXCEPT !.rearm = FALSE, !.rearmMode = None])
    IN IF e.z.state # "disarmed" \/ m \notin e.cfg.modes THEN Persist(e1, f)
       ELSE Persist(BeginArm(e1, m, {}, FALSE, FALSE, r, w, tr, f), f)

-----------------------------------------------------------------------------
\* Triggering.

MaxCycles(e) == IF e.z.mode \in e.cfg.modes THEN ZoneConfig.maxRetriggerCycles ELSE 0

Trigger(e, cause, restored, f) ==
    LET new == e.z.incident = None
        e1 == IF new THEN OpenIncident(e, cause, f) ELSE e
        pre == new /\ ~restored /\ e.z.mode \in ZoneConfig.preAlarm \cap e.cfg.modes
        z2 == [e1.z EXCEPT !.state = "triggered", !.pendingCause = None, !.preAlarm = pre,
                           !.timer = IF pre THEN "pre_alarm" ELSE "trigger_time"]
    IN IF e.z.state = "triggered" THEN e
       ELSE FireCycle(Persist(With(e1, z2), f), TRUE)

HasEntryDelay(e, s) ==
    \/ SensorConfig[s].entryOverride = "positive"
    \/ /\ SensorConfig[s].entryOverride = "unset"
       /\ e.z.mode \in ZoneConfig.entryDelay \cap e.cfg.modes

RouteActivation(e, s, f) ==
    IF SensorConfig[s].useEntryDelay /\ HasEntryDelay(e, s)
    THEN Persist(With(e, [e.z EXCEPT !.state = "pending", !.pendingCause = s,
                                     !.timer = "entry_delay"]), f)
    ELSE Trigger(e, s, FALSE, f)

DispatchSensorActivation(e, s, f) ==
    CASE e.z.state = "armed" -> RouteActivation(e, s, f)
      [] e.z.state = "arming" /\ ~SensorConfig[s].useExitDelay -> Trigger(e, s, FALSE, f)
      [] e.z.state = "pending" /\ ~SensorConfig[s].useEntryDelay -> Trigger(e, s, FALSE, f)
      [] OTHER -> e

\* Mutant of GateCrossZone: a second hit of the same sensor counts.
GateCrossZoneSame(e, s, keep, f) ==
    IF ~SensorConfig[s].group \/ keep # {}
    THEN DispatchSensorActivation(With(e, [e.z EXCEPT !.hits = {}]), s, f)
    ELSE With(e, [e.z EXCEPT !.hits = {s}])

\* gateCrossZone: keep is what the 60 s window leaves of the earlier hits.
GateCrossZone(e, s, keep, f) ==
    IF ~SensorConfig[s].group THEN DispatchSensorActivation(e, s, f)
    ELSE IF keep \ {s} # {}
         THEN DispatchSensorActivation(With(e, [e.z EXCEPT !.hits = {}]), s, f)
         ELSE With(e, [e.z EXCEPT !.hits = {s}])

DisarmAfterTrigger(e, f) ==
    LET z1 == ResetToDisarmed(CancelTimers(e.z))
        z2 == IF ZoneConfig.autoRearm /\ e.z.mode \in e.cfg.modes
              THEN ScheduleAutoRearm(z1, e.z.mode) ELSE z1
    IN Persist(With(e, z2), f)

FinishTriggered(e, f) ==
    LET e1 == CloseIncident(StopAll(e), f)
    IN IF ZoneConfig.postTrigger = "disarm" THEN DisarmAfterTrigger(e1, f)
       ELSE CompleteArm(e1, f)

\* Mutants of FinishAlwaysOn: the incident is not closed; the zone always returns
\* to armed; the pre-trigger tuple is kept.
FinishAlwaysOnOpen(e, f) ==
    LET z2 == [CancelTimers(e.z) EXCEPT !.preState = None, !.preMode = None]
    IN Persist(IF e.z.preMode \in Modes
               THEN RecaptureOpenBaseline(With(e, [z2 EXCEPT !.state = "armed"]))
               ELSE With(e, ResetToDisarmed(z2)), f)

FinishAlwaysOnArmed(e, f) ==
    LET e1 == CloseIncident(StopAll(e), f)
        z2 == [CancelTimers(e1.z) EXCEPT !.preState = None, !.preMode = None]
    IN Persist(RecaptureOpenBaseline(With(e1, [z2 EXCEPT !.state = "armed"])), f)

FinishAlwaysOnResidue(e, f) ==
    LET e1 == CloseIncident(StopAll(e), f)
        z2 == CancelTimers(e1.z)
    IN Persist(IF e.z.preMode \in Modes
               THEN RecaptureOpenBaseline(With(e1, [z2 EXCEPT !.state = "armed"]))
               ELSE With(e1, ResetToDisarmed(z2)), f)

FinishAlwaysOn(e, f) ==
    LET e1 == CloseIncident(StopAll(e), f)
        z2 == [CancelTimers(e1.z) EXCEPT !.preState = None, !.preMode = None]
        back == With(e1, [z2 EXCEPT !.state = "armed", !.mode = e.z.preMode])
    IN Persist(IF e.z.preMode \in Modes THEN RecaptureOpenBaseline(back)
               ELSE With(e1, ResetToDisarmed(z2)), f)

\* alwaysOnFire: hazard and panic.  On a triggered zone only outputs are added.
AlwaysOnFire(e, cause, loud, f) ==
    LET z1 == [e.z EXCEPT !.preState = e.z.state, !.preMode = e.z.mode]
        e1 == IF e.z.incident = None THEN OpenIncident(With(e, z1), cause, f) ELSE With(e, z1)
        z2 == [e1.z EXCEPT !.state = "triggered", !.timer = "trigger_time"]
    IN IF e.z.state # "triggered" THEN FireCycle(Persist(With(e1, z2), f), loud)
       ELSE IF e.z.incident # None /\ ~e.z.incident.silenced
            THEN [e EXCEPT !.horn = loud \/ @]
            ELSE e

\* Mutant of OnPreAlarmElapsed: a silenced pre-alarm is dropped without an end.
OnPreAlarmElapsedDropped(e, f) ==
    LET e1 == With(e, [e.z EXCEPT !.preAlarm = FALSE])
    IN IF e.z.incident.silenced THEN Persist(e1, f)
       ELSE FireCycle(Persist(With(e1, [e1.z EXCEPT !.timer = "trigger_time"]), f), TRUE)

OnPreAlarmElapsed(e, f) ==
    LET e1 == With(e, [e.z EXCEPT !.preAlarm = FALSE])
    IN IF e.z.incident.silenced THEN FinishTriggered(e1, f)
       ELSE FireCycle(Persist(With(e1, [e1.z EXCEPT !.timer = "trigger_time"]), f), TRUE)

\* The re-trigger branch of onTriggerElapsed: accounted before it fires.
RetriggerCycle(e, f) ==
    LET inc == e.z.incident
    IN FireCycle(Persist([e EXCEPT
            !.z = [e.z EXCEPT !.incident.cycles = @ + 1, !.timer = "trigger_time"],
            !.db = IF inc.id = 0 THEN @
                   ELSE [e.db EXCEPT ![inc.id].cycles = @ + 1]], f), TRUE)

OnTriggerElapsed(e, f) ==
    LET inc == e.z.incident
    IN IF e.z.preState # None THEN FinishAlwaysOn(e, f)
       ELSE IF /\ ~inc.silenced
               /\ inc.cycles < MaxCycles(e)
               /\ inc.id = 0 \/ "inc" \notin f
            THEN RetriggerCycle(e, f)
            ELSE FinishTriggered(e, f)

\* onStateTimerFired: the fired timer is spent before the dispatch.
OnStateTimerFired(e, f) ==
    LET e1 == With(e, [e.z EXCEPT !.timer = "none"])
    IN CASE e.z.timer = "exit_delay" /\ e.z.state = "arming" -> CompleteArm(e1, f)
         [] e.z.timer = "entry_delay" /\ e.z.state = "pending" ->
                Trigger(e1, e.z.pendingCause, FALSE, f)
         [] e.z.timer = "pre_alarm" /\ e.z.state = "triggered" /\ e.z.preAlarm ->
                OnPreAlarmElapsed(e1, f)
         [] e.z.timer = "trigger_time" /\ e.z.state = "triggered" -> OnTriggerElapsed(e1, f)
         [] OTHER -> e1

-----------------------------------------------------------------------------
\* Restore (restore.go).

\* reEvaluateAfterRestore: openings that are not in the baseline are routed;
\* the first one, in id order, leaves armed and ends the routing.
FirstOf(S) == CHOOSE s \in S : \A t \in S : IdOrder[s] <= IdOrder[t]

ReEvaluate(e, r, w, f) ==
    LET e1 == RefreshSensorValues(e, r, w)
        gone == {s \in e.z.openAtArm \cap e.cfg.sensors : ~w[s]}
        e2 == IF gone = {} THEN e1
              ELSE Persist(With(e1, [e1.z EXCEPT !.openAtArm = @ \ gone]), f)
        opened == {s \in e.cfg.sensors : /\ w[s]
                                         /\ InMode(s, e.z.mode)
                                         /\ s \notin e.z.bypassed \cup e.z.openAtArm}
    IN IF ~r \/ e.z.state # "armed" THEN e
       ELSE IF opened = {} THEN e2
            ELSE RouteActivation(e2, FirstOf(opened), f)

OnAutoRearmRestore(e, plausible, elapsed, r, w, tr, f) ==
    IF e.z.rearmMode \notin e.cfg.modes THEN With(e, [e.z EXCEPT !.rearmMode = None])
    ELSE IF e.row.rearm /\ plausible /\ elapsed THEN OnAutoRearmElapsed(e, r, w, tr, f)
    ELSE With(e, ScheduleAutoRearm(e.z, e.z.rearmMode))

RestoreArming(e, plausible, elapsed, r, w, tr, f) ==
    LET z1 == [e.z EXCEPT !.state = "arming"]
        e1 == RefreshSensorValues(With(e, z1), r, w)
        blocking == Blocking(e1, tr, z1.mode)
        e2 == With(e1, [z1 EXCEPT !.bypassed = @ \cup AutoBypass(blocking)])
    IN IF ~(e.row.timer = "exit_delay" /\ plausible /\ elapsed)
       THEN Persist(With(e, [z1 EXCEPT !.timer = "exit_delay"]), f)
       ELSE IF blocking \ AutoBypass(blocking) = {}
            THEN ReEvaluate(CompleteArm(e2, f), r, w, f)
            ELSE Persist(With(e2, [CancelTimers(e2.z) EXCEPT
                     !.state = "disarmed", !.mode = Off, !.bypassed = {}]), f)

\* Mutant of RestorePending: the countdown is not resumed.
RestorePendingNoTimer(e, plausible, elapsed, r, w, f) ==
    IF ~plausible
    THEN ReEvaluate(Persist(With(e, [e.z EXCEPT !.state = "armed", !.pendingCause = None]), f),
                    r, w, f)
    ELSE IF elapsed
         THEN Trigger(With(e, [e.z EXCEPT !.state = "armed"]), e.z.pendingCause, TRUE, f)
         ELSE Persist(With(e, [e.z EXCEPT !.state = "pending"]), f)

RestorePending(e, plausible, elapsed, r, w, f) ==
    IF ~plausible
    THEN ReEvaluate(Persist(With(e, [e.z EXCEPT !.state = "armed", !.pendingCause = None]), f),
                    r, w, f)
    ELSE IF e.row.timer # "entry_delay" \/ elapsed
         THEN Trigger(With(e, [e.z EXCEPT !.state = "armed"]), e.z.pendingCause, TRUE, f)
         ELSE Persist(With(e, [e.z EXCEPT !.state = "pending", !.timer = "entry_delay"]), f)

\* Mutant of FinishTriggeredOnRestore: the zone is disarmed whatever the policy.
FinishTriggeredOnRestoreOff(e, r, w, f) ==
    LET e1 == CloseIncident(StopAll(e), f)
    IN DisarmAfterTrigger(With(e1, [e1.z EXCEPT !.preState = None, !.preMode = None]), f)

FinishTriggeredOnRestore(e, r, w, f) ==
    LET e1 == CloseIncident(StopAll(e), f)
        e2 == With(e1, [e1.z EXCEPT !.preState = None, !.preMode = None])
    IN IF ZoneConfig.postTrigger = "disarm" THEN DisarmAfterTrigger(e2, f)
       ELSE ReEvaluate(CompleteArm(e2, f), r, w, f)

\* Mutant of RefireOnRestore: no loop breaker.
RefireOnRestoreUnbroken(e, f) ==
    LET inc == e.z.incident
    IN FireCycle([e EXCEPT
            !.z.incident.refires = @ + 1,
            !.db[inc.id].refires = @ + 1], TRUE)

\* The re-fire of a restored incident: accounted first, degraded (optical only)
\* once the loop breaker has counted K.
RefireOnRestore(e, f) ==
    LET inc == e.z.incident
        loud == inc.refires < LoopBreakerK
        e1 == [e EXCEPT
                !.z.incident.refires = @ + 1,
                !.db[inc.id].refires = @ + 1]
    IN IF "inc" \in f THEN e
       ELSE IF loud THEN FireCycle(e1, TRUE) ELSE e1

RestoreTriggered(e, plausible, elapsed, r, w, f) ==
    LET z1 == [e.z EXCEPT !.state = "triggered"]
        z2 == [z1 EXCEPT !.preAlarm = FALSE]
        e3 == Persist(With(e, [z2 EXCEPT !.timer = "trigger_time"]), f)
    IN IF e.z.incident = None THEN FinishTriggeredOnRestore(With(e, z1), r, w, f)
       ELSE IF plausible /\ elapsed /\ ~e.z.preAlarm
            THEN IF e.z.preState # None THEN FinishAlwaysOn(With(e, z2), f)
                 ELSE FinishTriggeredOnRestore(With(e, z2), r, w, f)
            ELSE IF e.z.incident.silenced THEN StopAll(e3)
                 ELSE IF plausible THEN RefireOnRestore(e3, f) ELSE e3

\* restoreZone, first half: the row becomes the zone, its incident is looked up,
\* an orphan is adopted or closed, and either silence record counts.
OpenRows(d) == {i \in 1..Len(d) : d[i].open}

Newest(S) == CHOOSE i \in S : \A j \in S : j <= i

\* Mutant of LoadRow: only the incident row is asked for a silence.
LoadRowUnmarked(e, readable, f) ==
    LET r == e.row
        byRow == readable /\ r.incident \in OpenRows(e.db)
        rec == e.db[r.incident]
    IN [e EXCEPT !.z = [ZoneOf(r) EXCEPT
            !.incident = IF byRow THEN [id |-> r.incident, cause |-> rec.cause,
                                        silenced |-> rec.silenced, cycles |-> rec.cycles,
                                        refires |-> rec.refires]
                         ELSE None]]

LoadRow(e, readable, f) ==
    LET r == e.row
        byRow == readable /\ r.incident \in OpenRows(e.db)
        orphan == readable /\ ~byRow /\ OpenRows(e.db) # {}
        adopt == orphan /\ r.state = "triggered"
        last == Newest(OpenRows(e.db))
        id == IF byRow THEN r.incident ELSE IF adopt THEN last ELSE 0
        marked == id # 0 /\ r.silencedID = id
        rec == e.db[id]
        inc == [id |-> id, cause |-> rec.cause, silenced |-> rec.silenced \/ marked,
                cycles |-> rec.cycles, refires |-> rec.refires]
    IN [e EXCEPT
          !.z = [ZoneOf(r) EXCEPT !.silencedID = IF marked THEN id ELSE 0,
                                  !.incident = IF id = 0 THEN None ELSE inc],
          !.db = IF orphan /\ ~adopt /\ "close" \notin f
                 THEN [e.db EXCEPT ![last].open = FALSE]
                 ELSE IF marked /\ "inc" \notin f
                 THEN [e.db EXCEPT ![id].silenced = TRUE]
                 ELSE @]

RestoreDisarmed(e, plausible, elapsed, r, w, tr, f) ==
    Persist(OnAutoRearmRestore(
        With(e, [e.z EXCEPT !.state = "disarmed", !.mode = Off, !.preState = None,
                            !.preMode = None, !.preAlarm = FALSE]),
        plausible, elapsed, r, w, tr, f), f)

\* Mutant of RestoreZone: an armed row is restored without a look at the sensors.
RestoreZoneBlind(e, readable, plausible, elapsed, r, w, tr, f) ==
    LET e1 == LoadRow(e, readable, f)
    IN CASE e.row.state = "disarmed" -> RestoreDisarmed(e1, plausible, elapsed, r, w, tr, f)
         [] e.row.state = "armed" -> Persist(With(e1, [e1.z EXCEPT !.state = "armed"]), f)
         [] e.row.state = "arming" -> RestoreArming(e1, plausible, elapsed, r, w, tr, f)
         [] e.row.state = "pending" -> RestorePending(e1, plausible, elapsed, r, w, f)
         [] e.row.state = "triggered" -> RestoreTriggered(e1, plausible, elapsed, r, w, f)

RestoreZone(e, readable, plausible, elapsed, r, w, tr, f) ==
    LET e1 == LoadRow(e, readable, f)
    IN CASE e.row.state = "disarmed" -> RestoreDisarmed(e1, plausible, elapsed, r, w, tr, f)
         [] e.row.state = "armed" ->
                ReEvaluate(Persist(With(e1, [e1.z EXCEPT !.state = "armed"]), f), r, w, f)
         [] e.row.state = "arming" -> RestoreArming(e1, plausible, elapsed, r, w, tr, f)
         [] e.row.state = "pending" -> RestorePending(e1, plausible, elapsed, r, w, f)
         [] e.row.state = "triggered" -> RestoreTriggered(e1, plausible, elapsed, r, w, f)

-----------------------------------------------------------------------------
\* Initial state: a process that runs an empty store for the first time.

Init ==
    /\ life = "down"
    /\ zone = FreshZone
    /\ stored = [sensors |-> Sensors, modes |-> Modes]
    /\ cfg = stored
    /\ view = [s \in Sensors |-> "unknown"]
    /\ row = RowOf(FreshZone)
    /\ db = <<>>
    /\ horn = FALSE
    /\ fired = [i \in Ids |-> 0]
    /\ hushed = {}
    /\ trouble = [s \in Sensors |-> {}]
    /\ hold = {}
    /\ world = [s \in Sensors |-> FALSE]
    /\ events = {}
    /\ ready = FALSE
    /\ restarts = 0 /\ faults = 0 /\ writes = 0

-----------------------------------------------------------------------------
\* The environment.

\* A sensor changes; a running engine gets a value-change event for it.  The
\* channel model the reader reads is updated before the event is delivered; while
\* the model is still being populated the change may pass without an event.
SensorChanges(s) ==
    /\ s \notin events
    /\ world' = [world EXCEPT ![s] = ~@]
    /\ \/ life = "up" /\ events' = events \cup {s}
       \/ ~(life = "up" /\ ready) /\ UNCHANGED events
    /\ UNCHANGED <<life, engVars, sensorVars, ready, stored, countVars>>

\* External: the central has populated the channel model.
ModelPopulated ==
    /\ life = "up"
    /\ ~ready
    /\ ready' = TRUE
    /\ UNCHANGED <<life, engVars, sensorVars, world, events, stored, countVars>>

\* External: the siren's own bound (or the driver's watchdog) ends a cycle.
HornTimesOut ==
    /\ horn
    /\ horn' = FALSE
    /\ UNCHANGED <<life, zone, cfg, view, row, db, fired, hushed, sensorVars, envVars,
                   stored, countVars>>

\* The management surface writes the zone and sensor stores; Reload follows.
WriteConfig(c) ==
    /\ writes < MaxWrites
    /\ writes' = writes + 1
    /\ stored' = c
    /\ UNCHANGED <<life, engVars, sensorVars, envVars, restarts, faults>>

-----------------------------------------------------------------------------
\* Verbs.

Arm(m, bypass, force, skip) ==
    /\ life = "up"
    /\ m \in cfg.modes
    /\ zone.state \notin {"pending", "triggered"}
    /\ \E f \in Faults :
        /\ Writing(f)
        /\ Becomes(BeginArm(eng, m, bypass, force, skip, ready, world, trouble, f))
    /\ UNCHANGED <<life, sensorVars, envVars, stored, restarts, writes>>

\* DisarmWithCode with an accepted code; deliberately not gated on "up".
Disarm ==
    /\ life # "down"
    /\ \E f \in Faults :
        /\ Writing(f)
        /\ Becomes(IF zone.state # "disarmed" THEN DisarmLocked(eng, f)
                   ELSE IF zone.rearm THEN Persist(With(eng, CancelAutoRearm(zone)), f)
                   ELSE eng)
    /\ UNCHANGED <<life, sensorVars, envVars, stored, restarts, writes>>

\* SilenceWithCode / SilenceAll with an accepted code; never gated (S3).
Silence ==
    /\ life # "down"
    /\ \E f \in Faults :
        /\ Writing(f)
        /\ Becomes(IF zone.incident = None THEN StopAll(eng)
                   ELSE Persist(SilenceIncident(eng, f), f))
    /\ UNCHANGED <<life, sensorVars, envVars, stored, restarts, writes>>

PanicTrigger(silent) ==
    /\ life = "up"
    /\ \E f \in Faults :
        /\ Writing(f)
        /\ Becomes(AlwaysOnFire(eng, None, ~silent, f))
    /\ UNCHANGED <<life, sensorVars, envVars, stored, restarts, writes>>

WalkTestStart ==
    /\ life = "up"
    /\ zone.state = "disarmed"
    /\ ~zone.walk
    /\ Becomes(With(eng, [zone EXCEPT !.walk = TRUE]))
    /\ UNCHANGED <<life, sensorVars, envVars, stored, countVars>>

WalkTestStop ==
    /\ life # "down"
    /\ zone.walk
    /\ Becomes(With(eng, [zone EXCEPT !.walk = FALSE]))
    /\ UNCHANGED <<life, sensorVars, envVars, stored, countVars>>

-----------------------------------------------------------------------------
\* Sensor events (HandleSensorEvent, split by its branches).

Seen(s) == [eng EXCEPT !.view[s] = Observed(world[s])]

Delivered(s) ==
    /\ life = "up"
    /\ s \in events
    /\ events' = events \ {s}
    /\ UNCHANGED <<life, world, ready, stored, restarts, writes, trouble>>

\* Events of sensors that are not enrolled, consumed by a walk test, repeated,
\* or of no interest in the current mode change at most the observed value.
WalkTestConsumes(s) == zone.walk /\ zone.state = "disarmed"

Hazard(s) == SensorConfig[s].alwaysOn /\ world[s] /\ view[s] # "active"

AlwaysOnEvent(s) ==
    /\ Delivered(s)
    /\ s \in cfg.sensors
    /\ Hazard(s)
    /\ \E f \in Faults :
        /\ Writing(f)
        /\ Becomes(AlwaysOnFire(Seen(s), s, ~SensorConfig[s].panicSilent, f))
    /\ UNCHANGED hold

ClearEvent(s) ==
    /\ Delivered(s)
    /\ s \in cfg.sensors
    /\ ~world[s]
    /\ ~WalkTestConsumes(s)
    /\ hold' = hold \ {s}
    /\ LET e1 == Seen(s)
           e2(f) == IF s \in zone.openAtArm
                    THEN Persist(With(e1, [zone EXCEPT !.openAtArm = @ \ {s}]), f) ELSE e1
           settle == /\ zone.state = "arming"
                     /\ SensorConfig[s].armAfterClosing
                     /\ InMode(s, zone.mode)
       IN \E f \in Faults :
            /\ Writing(f)
            /\ Becomes(IF settle THEN With(e2(f), [e2(f).z EXCEPT !.debounce = s]) ELSE e2(f))

\* While disarmed a member's activity restarts the auto-rearm quiet period: the
\* timer keeps running and the row is written.
ActivityWhileDisarmed(s) ==
    /\ Delivered(s)
    /\ s \in cfg.sensors
    /\ world[s] /\ view[s] # "active"
    /\ ~Hazard(s) /\ ~WalkTestConsumes(s)
    /\ zone.state = "disarmed"
    /\ zone.rearm /\ InMode(s, zone.rearmMode)
    /\ \E f \in Faults : Writing(f) /\ Becomes(Persist(Seen(s), f))
    /\ UNCHANGED hold

Gated(s) ==
    /\ s \in cfg.sensors
    /\ world[s] /\ view[s] # "active"
    /\ ~Hazard(s) /\ ~WalkTestConsumes(s)
    /\ InMode(s, zone.mode)
    /\ s \notin zone.bypassed

ActivationEvent(s) ==
    /\ Delivered(s)
    /\ Gated(s)
    /\ IF SensorConfig[s].holdTime
       THEN hold' = hold \cup {s} /\ Becomes(Seen(s)) /\ UNCHANGED faults
       ELSE /\ UNCHANGED hold
            /\ \E f \in Faults, keep \in SUBSET zone.hits :
                Writing(f) /\ Becomes(GateCrossZone(Seen(s), s, keep, f))

IgnoredEvent(s) ==
    /\ Delivered(s)
    /\ \/ s \notin cfg.sensors /\ Becomes(eng)
       \/ /\ s \in cfg.sensors
          /\ ~Hazard(s)
          /\ ~(~world[s] /\ ~WalkTestConsumes(s))
          /\ ~(zone.state = "disarmed" /\ zone.rearm /\ InMode(s, zone.rearmMode)
               /\ view[s] # "active" /\ ~WalkTestConsumes(s))
          /\ ~Gated(s)
          /\ Becomes(Seen(s))
    /\ UNCHANGED <<hold, faults>>

\* The hold timer: not gated on "up", and not cancelled by Stop.
HoldElapsed(s) ==
    /\ life # "down"
    /\ s \in hold
    /\ hold' = hold \ {s}
    /\ IF s \in cfg.sensors /\ view[s] = "active" /\ InMode(s, zone.mode)
          /\ s \notin zone.bypassed
       THEN \E f \in Faults, keep \in SUBSET zone.hits :
                Writing(f) /\ Becomes(GateCrossZone(eng, s, keep, f))
       ELSE Becomes(eng) /\ UNCHANGED faults
    /\ UNCHANGED <<life, trouble, envVars, stored, restarts, writes>>

SetSensorAvailability(s, available) ==
    /\ life = "up"
    /\ "unreachable" \in Conditions
    /\ s \in cfg.sensors
    /\ ("unreachable" \in trouble[s]) = available
    /\ trouble' = [trouble EXCEPT ![s] = IF available THEN @ \ {"unreachable"}
                                         ELSE @ \cup {"unreachable"}]
    /\ IF /\ ~available /\ zone.state = "armed" /\ InMode(s, zone.mode)
          /\ s \notin zone.bypassed /\ SensorConfig[s].triggerWhenUnavailable
       THEN \E f \in Faults : Writing(f) /\ Becomes(RouteActivation(eng, s, f))
       ELSE Becomes(eng) /\ UNCHANGED faults
    /\ UNCHANGED <<life, hold, envVars, stored, restarts, writes>>

SetSensorHealth(s, flags) ==
    /\ life = "up"
    /\ s \in cfg.sensors
    /\ trouble' = [trouble EXCEPT ![s] = (@ \cap {"unreachable"}) \cup flags]
    /\ UNCHANGED <<life, engVars, hold, envVars, stored, countVars>>

\* HandleCentralConnectivity; the zone's sensors hang off one central.
CentralLost ==
    /\ life = "up"
    /\ "unreachable" \in Conditions
    /\ trouble' = [s \in Sensors |-> IF s \in cfg.sensors
                                     THEN trouble[s] \cup {"unreachable"} ELSE trouble[s]]
    /\ IF /\ \E s \in cfg.sensors : InMode(s, zone.mode) /\ s \notin zone.bypassed
          /\ ArmedSide(zone.state)
          /\ ZoneConfig.centralLoss = "trigger"
       THEN \E f \in Faults : Writing(f) /\ Becomes(Trigger(eng, None, FALSE, f))
       ELSE Becomes(eng) /\ UNCHANGED faults
    /\ UNCHANGED <<life, hold, envVars, stored, restarts, writes>>

CentralRestored ==
    /\ life = "up"
    /\ trouble' = [s \in Sensors |-> IF s \in cfg.sensors
                                     THEN trouble[s] \ {"unreachable"} ELSE trouble[s]]
    /\ UNCHANGED <<life, engVars, hold, envVars, stored, countVars>>

\* ReevaluateSensors, called when a central's model is complete and after every
\* reconnect.
ReevaluateSensors ==
    /\ life = "up"
    /\ \E f \in Faults : Writing(f) /\ Becomes(ReEvaluate(eng, ready, world, f))
    /\ UNCHANGED <<life, sensorVars, envVars, stored, restarts, writes>>

-----------------------------------------------------------------------------
\* Timers.

\* onStateTimerFired is not gated on "up": Stop cancels the state timer instead.
StateTimerFires ==
    /\ life # "down"
    /\ zone.timer # "none"
    /\ \E f \in Faults : Writing(f) /\ Becomes(OnStateTimerFired(eng, f))
    /\ UNCHANGED <<life, sensorVars, envVars, stored, restarts, writes>>

\* The settle timer of an arm_after_closing sensor completes the exit delay.
DebounceElapsed ==
    /\ life # "down"
    /\ zone.debounce # None
    /\ LET e1 == With(eng, [zone EXCEPT !.debounce = None])
       IN IF /\ zone.state = "arming"
             /\ zone.debounce \in cfg.sensors
             /\ view[zone.debounce] # "active"
          THEN \E f \in Faults : Writing(f) /\ Becomes(CompleteArm(e1, f))
          ELSE Becomes(e1) /\ UNCHANGED faults
    /\ UNCHANGED <<life, sensorVars, envVars, stored, restarts, writes>>

AutoRearmFires ==
    /\ life = "up"
    /\ zone.rearm
    /\ \E f \in Faults :
        /\ Writing(f)
        /\ Becomes(OnAutoRearmElapsed(eng, ready, world, trouble, f))
    /\ UNCHANGED <<life, sensorVars, envVars, stored, restarts, writes>>

-----------------------------------------------------------------------------
\* Configuration reload and the process's life.

\* Mutant of PruneSensors: the baseline keeps removed sensors.
PruneBypassOnly(z, S) ==
    [z EXCEPT !.bypassed = @ \cap S, !.pendingCause = IF @ \in S THEN @ ELSE None]

\* Reload: an armed-side machine whose mode vanished is disarmed; surviving
\* sensors keep their runtime state and references to removed ones are pruned.
PruneSensors(z, S) ==
    [z EXCEPT !.bypassed = @ \cap S, !.openAtArm = @ \cap S,
              !.pendingCause = IF @ \in S THEN @ ELSE None]

ReloadConfig(e, c, r, w, f) ==
    LET e1 == [e EXCEPT !.cfg = c]
        e2 == IF e.z.mode \in Modes \ c.modes THEN DisarmLocked(e1, f) ELSE e1
        kept == e.cfg.sensors \cap c.sensors
        e3 == [e2 EXCEPT !.z = PruneSensors(@, c.sensors),
                         !.view = [s \in Sensors |-> IF s \in kept THEN @[s] ELSE "unknown"]]
    IN Persist(RefreshSensorValues(e3, r, w), f)

Reload ==
    /\ life = "up"
    /\ \E f \in Faults : Writing(f) /\ Becomes(ReloadConfig(eng, stored, ready, world, f))
    /\ hold' = hold \cap stored.sensors
    /\ trouble' = [s \in Sensors |-> IF s \in cfg.sensors \cap stored.sensors
                                     THEN trouble[s] ELSE {}]
    /\ UNCHANGED <<life, envVars, stored, restarts, writes>>

\* Stop: the final snapshot is written before the timers are cancelled.  The
\* hold timers are left running.
StopZone(e, f) ==
    LET e1 == Persist(e, f) IN With(e1, CancelAutoRearm(CancelTimers(e1.z)))

Stop ==
    /\ life = "up"
    /\ restarts < MaxRestarts
    /\ life' = "stopped"
    /\ \E f \in Faults : Writing(f) /\ Becomes(StopZone(eng, f))
    /\ events' = {}
    /\ UNCHANGED <<sensorVars, world, ready, stored, restarts, writes>>

\* The process ends, cleanly or not: only the stores and the siren remain.
Memoryless ==
    /\ life' = "down"
    /\ restarts' = restarts + 1
    /\ zone' = FreshZone
    /\ view' = [s \in Sensors |-> "unknown"]
    /\ trouble' = [s \in Sensors |-> {}]
    /\ hold' = {} /\ events' = {} /\ ready' = FALSE

Exit ==
    /\ life # "down"
    /\ restarts < MaxRestarts
    /\ Memoryless
    /\ UNCHANGED <<cfg, row, db, horn, fired, hushed, world, stored, faults, writes>>

\* A crash inside silenceIncident: the incident is marked silenced, the sirens
\* are not stopped and the state row is not written.
CrashInSilence ==
    /\ life # "down"
    /\ restarts < MaxRestarts
    /\ zone.incident # None
    /\ zone.incident.id # 0
    /\ db' = [db EXCEPT ![zone.incident.id].silenced = TRUE]
    /\ hushed' = hushed \cup {zone.incident.id}
    /\ Memoryless
    /\ UNCHANGED <<cfg, row, horn, fired, world, stored, faults, writes>>

\* Start: readable is whether the incident table answers, plausible the verdict
\* of clockPlausible, elapsed whether the persisted deadline has passed, rdy
\* whether the reader knows values already.
StartZone(e, readable, plausible, elapsed, rdy, f) ==
    RestoreZone(RefreshSensorValues([e EXCEPT !.cfg = stored], rdy, world),
                readable, plausible, elapsed, rdy, world, [s \in Sensors |-> {}], f)

Start ==
    /\ life = "down"
    /\ life' = "up"
    /\ \E readable, plausible, elapsed, rdy \in BOOLEAN, f \in Faults :
        /\ readable \/ "inc" \in f
        /\ Writing(f)
        /\ ready' = rdy
        /\ Becomes(StartZone(eng, readable, plausible, elapsed, rdy, f))
    /\ UNCHANGED <<sensorVars, world, events, stored, restarts, writes>>

-----------------------------------------------------------------------------
ArmVerb ==
    \E m \in Modes, bypass \in SUBSET Sensors, force, skip \in BOOLEAN :
        Arm(m, bypass, force, skip)

OtherVerb ==
    \/ Silence
    \/ \E silent \in BOOLEAN : PanicTrigger(silent)
    \/ WalkTestStart
    \/ WalkTestStop

SensorEvent(s) ==
    \/ AlwaysOnEvent(s)
    \/ ClearEvent(s)
    \/ ActivityWhileDisarmed(s)
    \/ ActivationEvent(s)
    \/ IgnoredEvent(s)

SensorStatus ==
    \/ \E s \in Sensors, available \in BOOLEAN : SetSensorAvailability(s, available)
    \/ \E s \in Sensors, flags \in SUBSET (Conditions \ {"unreachable"}) :
            SetSensorHealth(s, flags)
    \/ CentralLost
    \/ CentralRestored
    \/ ReevaluateSensors

Timer ==
    \/ StateTimerFires
    \/ DebounceElapsed
    \/ AutoRearmFires
    \/ \E s \in Sensors : HoldElapsed(s)

Process ==
    \/ Reload
    \/ Stop
    \/ Exit
    \/ CrashInSilence
    \/ Start

Environment ==
    \/ \E s \in Sensors : SensorChanges(s)
    \/ ModelPopulated
    \/ HornTimesOut
    \/ \E c \in Configs : WriteConfig(c)

Next ==
    \/ ArmVerb
    \/ Disarm
    \/ OtherVerb
    \/ \E s \in Sensors : SensorEvent(s)
    \/ SensorStatus
    \/ Timer
    \/ Process
    \/ Environment

Spec == Init /\ [][Next]_vars

\* Fairness: a running timer fires (time.AfterFunc; the entry delay only where
\* the bound leaves room for the incident), the service manager restarts a
\* process that ended, and a stop completes.  The conditions are the guards of the
\* actions, so each conjunct is weak fairness of its action.
TimerRuns ==
    /\ life # "down"
    /\ zone.timer # "none"
    /\ zone.state = "pending" => Len(db) < MaxIncidents

Fairness ==
    /\ <>[]TimerRuns => []<><<StateTimerFires>>_vars
    /\ <>[](life = "down") => []<><<Start>>_vars
    /\ <>[](life = "stopped") => []<><<Exit>>_vars

-----------------------------------------------------------------------------
\* Properties.

\* Type invariant: every variable keeps its shape, and an incident held in
\* memory has id 0 (its row could not be created) or names an existing row.
TypeOK ==
    /\ life \in {"down", "up", "stopped"}
    /\ zone \in Zones
    /\ zone.incident # None => zone.incident.id <= Len(db)
    /\ cfg \in Configs /\ stored \in Configs
    /\ view \in Views
    /\ row \in Rows
    /\ db \in Seq(IncidentRows) /\ Len(db) <= MaxIncidents
    /\ horn \in BOOLEAN
    /\ fired \in [Ids -> Nat]
    /\ hushed \subseteq 1..MaxIncidents
    /\ trouble \in [Sensors -> SUBSET Troubles]
    /\ hold \subseteq Sensors
    /\ world \in [Sensors -> BOOLEAN]
    /\ events \subseteq Sensors
    /\ ready \in BOOLEAN
    /\ restarts \in Nat /\ faults \in Nat /\ writes \in Nat

\* A zone is triggered exactly while it holds an incident: every path into
\* triggered (trigger, alwaysOnFire, the restores) opens or adopts one, and every
\* path out (post-trigger, disarm, reload, an incident lost on restore) closes it.
IncidentIffTriggered == zone.state = "triggered" <=> zone.incident # None

\* In a running engine the countdown is the one the state calls for: no state
\* that must end waits without a timer, and no timer outlives its state.
TimerDiscipline ==
    life = "up" =>
        /\ zone.state = "arming" <=> zone.timer = "exit_delay"
        /\ zone.state = "pending" <=> zone.timer = "entry_delay"
        /\ zone.state = "triggered" <=> zone.timer \in {"trigger_time", "pre_alarm"}
        /\ zone.timer = "pre_alarm" => zone.preAlarm

\* The armed mode is set exactly in the armed-side states; a triggered zone
\* without one interrupted the disarmed state (hazard or panic) and will return
\* to it, never to "armed" in mode "disarmed".
ModeMatchesState ==
    /\ zone.state = "disarmed" => zone.mode = Off
    /\ ArmedSide(zone.state) => zone.mode \in Modes
    /\ zone.state = "triggered" /\ zone.mode = Off =>
            zone.preState = "disarmed" /\ zone.preMode = Off

\* The pre-trigger tuple exists only while its always-on incident runs: a
\* residue would send the next intrusion alarm through finishAlwaysOn.
NoPreTriggerResidue ==
    zone.state # "triggered" => zone.preState = None /\ zone.preMode = None

\* S3: while the engine runs, nothing sounds for an incident that was silenced,
\* in memory or by either durable record (incident row or state-row marker),
\* whatever write failed and whenever the process died.
SilencedNeverSounds ==
    /\ life = "up"
    /\ zone.incident # None
    /\ zone.incident.silenced \/ zone.incident.id \in hushed
    => ~horn

\* S1: one incident starts a bounded number of full output cycles over all
\* restarts: the trigger, the pre-alarm escalation, the configured re-trigger
\* cycles and LoopBreakerK re-fires after restarts.  (A hazard that joins a running
\* incident adds its own outputs; those are not cycles of the incident.)
CycleBound ==
    \A i \in 1..MaxIncidents : fired[i] <= 2 + ZoneConfig.maxRetriggerCycles + LoopBreakerK

\* While every write succeeds, the state row is what a restart needs: state,
\* mode, bypasses, baseline, countdown and incident of the zone in memory.
Critical(z) ==
    <<z.state, z.mode, z.bypassed, z.openAtArm, z.pendingCause, z.timer, z.preState,
      z.preMode, z.preAlarm>>

RowIsCurrent ==
    life = "up" /\ faults = 0 =>
        /\ Critical(row) = Critical(zone)
        /\ row.incident = (IF zone.incident = None THEN 0 ELSE zone.incident.id)

\* Open incident rows belong to the zone that runs them: while every write
\* succeeds no row stays open behind a zone that has moved on.
OpenIncidentHasOwner ==
    life = "up" /\ faults = 0 =>
        \A i \in OpenRows(db) : zone.incident # None /\ zone.incident.id = i

\* A pending auto-rearm belongs to a zone that is off, or to an always-on alarm
\* that interrupted one: an armed zone is never armed a second time behind the
\* operator's back.
RearmOnlyWhileOff ==
    zone.rearm => \/ zone.state = "disarmed"
                  \/ zone.state = "triggered" /\ zone.preState = "disarmed"

\* A reload leaves no reference to what was removed: bypasses, baseline and
\* entry cause name enrolled sensors, and an armed-side zone its configured mode
\* (in a process that has only reloaded: Start takes the row as it is).
ReferencesAreConfigured ==
    life = "up" /\ restarts = 0 =>
        /\ zone.bypassed \cup zone.openAtArm \subseteq cfg.sensors
        /\ zone.pendingCause \in cfg.sensors \cup {None}
        /\ ArmedSide(zone.state) => zone.mode \in cfg.modes

\* Nothing is bypassed silently (ArmRequest.Force): when a zone that was off
\* starts to arm, every sensor that blocks on the values known at that moment is
\* on the bypass list; the auto-rearm included.
NothingBypassedSilently ==
    [][life = "up" /\ zone.state = "disarmed" /\ ArmedSide(zone'.state) =>
          Blocking(RefreshSensorValues(eng', ready, world), trouble, zone'.mode) = {}]_vars

\* Cross-zoning (gateCrossZone): an event or an elapsed hold of a grouped sensor
\* alarms an armed zone only when another member hit before it.
VerifiedAlarm ==
    [][\A s \in Sensors :
          /\ SensorConfig[s].group /\ ~SensorConfig[s].alwaysOn
          /\ zone.state = "armed" /\ zone'.state \in {"pending", "triggered"}
          /\ SensorEvent(s) \/ HoldElapsed(s)
          => zone.hits \ {s} # {}]_vars

\* A restart loses no opening: a zone that comes out of Start armed, with the
\* sensor values known, has every open member in its baseline or bypassed.
RestartSeesOpenings ==
    [][life = "down" /\ life' = "up" /\ ready' /\ zone'.state = "armed" =>
          \A s \in cfg'.sensors :
              InMode(s, zone'.mode) /\ world[s] => s \in zone'.openAtArm \cup zone'.bypassed]_vars

\* Only a verb or the post-trigger policy ends protection: a restart never
\* brings an armed-side or triggered row up disarmed unless the policy says so,
\* the exit delay's readiness check failed, or an always-on alarm had
\* interrupted the disarmed state.
RestartKeepsProtection ==
    [][life = "down" /\ life' = "up" /\ zone'.state = "disarmed" =>
          \/ row.state \in {"disarmed", "arming"}
          \/ row.state = "triggered" /\ (ZoneConfig.postTrigger = "disarm"
                                         \/ row.preState = "disarmed")]_vars

\* Every incident is eventually closed, whatever interrupts it: re-trigger
\* cycles, silences, reloads, crashes and restarts.
IncidentsClose ==
    \A i \in 1..MaxIncidents : (i \in OpenRows(db)) ~> (i \notin OpenRows(db))

\* A running entry delay is resolved: by a disarm or by the alarm, also when the
\* process dies during the countdown.
EntryResolves ==
    (row.state = "pending" /\ Len(db) < MaxIncidents) ~> (row.state # "pending")

=============================================================================
