--------------------------- MODULE AlarmZoneLedger ---------------------------
(***************************************************************************)
(* The incident ledger behind the handlers of AlarmZone: the open incident   *)
(* of the zone, the alarm_incidents rows, the output cycles they have had    *)
(* and the silences on record.  Three invariants of the engine record (the   *)
(* cycles are counted, the open row has an owner, a silence is on the        *)
(* incident row) are preserved by every primitive operation of a handler,    *)
(* and so, by composition, by every handler and restore.  With the history    *)
(* of verbs, they also show that a disarm is durable.                         *)
(***************************************************************************)
EXTENDS AlarmZoneModes, AlarmHistory

-----------------------------------------------------------------------------
\* The invariants, on an engine record.

Least(a, b) == IF a <= b THEN a ELSE b

\* The output cycles an incident row accounts for: trigger and pre-alarm
\* escalation, its re-trigger cycles, its re-fires up to the loop breaker.
Allowed(rec) == 2 + rec.cycles + Least(rec.refires, LoopBreakerK)

\* Every cycle that was started is accounted for, in the row and in memory.
Tally(e) ==
    /\ \A i \in Ids \ {0} :
        IF i <= Len(e.db)
        THEN e.db[i].cycles <= ZoneConfig.maxRetriggerCycles /\ e.fired[i] <= Allowed(e.db[i])
        ELSE e.fired[i] = 0
    /\ e.z.incident # None /\ e.z.incident.id # 0 =>
        LET i == e.z.incident.id
        IN /\ e.z.incident.cycles = e.db[i].cycles /\ e.z.incident.refires = e.db[i].refires
           /\ e.z.timer = "pre_alarm" /\ i \in Ids => e.fired[i] <= 1

\* The open row, if there is one, is that of the zone's incident.
Owned(e) ==
    /\ OpenRows(e.db) = {IncidentId(e.z)} \ {0}
    /\ e.z.incident # None => e.z.incident.id # 0

\* A silence in memory or in the state row is on the incident row as well.
Hushed(e) ==
    /\ \A i \in {e.row.silencedID, e.z.silencedID} \ {0} :
            i \in 1..Len(e.db) /\ e.db[i].silenced
    /\ e.z.incident # None /\ e.z.incident.id # 0 =>
            (e.z.incident.silenced <=> e.db[e.z.incident.id].silenced)

\* A silenced incident does not sound.
Muted(e) == e.z.incident # None /\ e.z.incident.silenced => ~e.horn

\* No incident row disappears and no silence is taken back.
Lasting(d, b) ==
    \A i \in 1..Len(d) : i \in 1..Len(b) /\ (d[i].silenced => b[i].silenced)

\* Without auto-rearm no rearm is planned, from zone z to zone y and from engine
\* e to engine c.
Replans(z, y) == ZoneConfig.autoRearm \/ y.rearmMode \in {z.rearmMode, None}

Unplanned(e, c) == ZoneConfig.autoRearm \/ (NoPlan(e) => NoPlan(c))

\* What a handler or a part of it does to the ledger.
Books(e, c, f) ==
    /\ Tally(e) => Tally(c)
    /\ f = {} /\ Owned(e) => Owned(c)
    /\ "inc" \notin f /\ Hushed(e) => Hushed(c) /\ Lasting(e.db, c.db)
    /\ Muted(e) => Muted(c)
    /\ Unplanned(e, c)

LEMMA BooksTrans ==
    ASSUME NEW e, NEW b, NEW c, NEW f, Books(e, b, f), Books(b, c, f)
    PROVE  Books(e, c, f)
<1>1. Lasting(e.db, b.db) /\ Lasting(b.db, c.db) => Lasting(e.db, c.db)
    BY DEF Lasting
<1>2. Unplanned(e, c)
    BY DEF Books, Unplanned
<1> QED BY <1>1, <1>2 DEF Books

-----------------------------------------------------------------------------
\* Operations that leave the incident alone.

Aside(z, y) ==
    /\ y.incident = z.incident /\ y.silencedID = z.silencedID
    /\ y.timer = z.timer \/ y.timer # "pre_alarm"
    /\ Replans(z, y)

Plain(e, c) ==
    /\ Aside(e.z, c.z)
    /\ c.db = e.db /\ c.fired = e.fired /\ c.horn \in {e.horn, FALSE}
    /\ c.row.silencedID \in {e.row.silencedID, e.z.silencedID}
    /\ Unplanned(e, c)

LEMMA PlainTrans ==
    ASSUME NEW e, NEW b, NEW c, Plain(e, b), Plain(b, c)
    PROVE  Plain(e, c)
BY DEF Plain, Aside, Replans, Unplanned

LEMMA PlainBooks ==
    ASSUME NEW e, NEW c, Plain(e, c), NEW f
    PROVE  Books(e, c, f)
<1>1. Tally(e) => Tally(c)
    BY DEF Plain, Aside, Tally
<1>2. Owned(e) => Owned(c)
    BY DEF Plain, Aside, Owned, IncidentId
<1>3. Hushed(e) => Hushed(c)
    BY DEF Plain, Aside, Hushed
<1>4. Lasting(e.db, c.db)
    BY DEF Plain, Lasting
<1>5. Muted(e) => Muted(c)
    BY DEF Plain, Aside, Muted
<1>6. Unplanned(e, c)
    BY DEF Plain
<1> QED BY <1>1, <1>2, <1>3, <1>4, <1>5, <1>6 DEF Books

LEMMA PlainSelf ==
    ASSUME NEW e
    PROVE  Plain(e, e)
BY DEF Plain, Aside, Replans, Unplanned

LEMMA PlainWith ==
    ASSUME NEW e, Typed(e), NEW z, Aside(e.z, z)
    PROVE  Plain(e, With(e, z)) /\ With(e, z).z = z
<1>1. /\ With(e, z).z = z /\ With(e, z).db = e.db /\ With(e, z).fired = e.fired
      /\ With(e, z).horn = e.horn /\ With(e, z).row = e.row
    BY DEF With, Typed, Engines
<1>2. Unplanned(e, With(e, z))
    BY <1>1 DEF Aside, Replans, Unplanned, NoPlan
<1> QED BY <1>1, <1>2 DEF Plain

LEMMA PlainPersist ==
    ASSUME NEW e, Typed(e), NEW f
    PROVE  Plain(e, Persist(e, f))
<1> DEFINE c == Persist(e, f)
<1>1. /\ c.z = e.z /\ c.db = e.db /\ c.fired = e.fired /\ c.horn = e.horn
      /\ c.row \in {e.row, RowOf(e.z)}
    BY DEF Persist, Typed, Engines
<1>2. RowOf(e.z).silencedID = e.z.silencedID /\ RowOf(e.z).rearmMode = e.z.rearmMode
    BY DEF RowOf
<1> HIDE DEF c
<1>3. Plain(e, c)
    BY <1>1, <1>2 DEF Plain, Aside, Replans, Unplanned, NoPlan
<1> QED BY <1>3 DEF c

LEMMA PlainStopAll ==
    ASSUME NEW e, Typed(e)
    PROVE  Plain(e, StopAll(e)) /\ Muted(StopAll(e))
<1> DEFINE c == StopAll(e)
<1>1. /\ c.z = e.z /\ c.db = e.db /\ c.fired = e.fired /\ c.horn = FALSE /\ c.row = e.row
    BY DEF StopAll, Typed, Engines
<1> HIDE DEF c
<1>2. Plain(e, c) /\ Muted(c)
    BY <1>1 DEF Plain, Aside, Replans, Unplanned, NoPlan, Muted
<1> QED BY <1>2 DEF c

LEMMA PlainRefresh ==
    ASSUME NEW e, Typed(e), NEW r, NEW w
    PROVE  Plain(e, RefreshSensorValues(e, r, w))
<1> DEFINE v == [s \in Sensors |-> IF s \in e.cfg.sensors THEN Observed(w[s]) ELSE e.view[s]]
           c == RefreshSensorValues(e, r, w)
<1>1. c \in {e, [e EXCEPT !.view = v]}
    BY DEF RefreshSensorValues
<1> HIDE DEF c, v
<1>2. c.z = e.z /\ c.db = e.db /\ c.fired = e.fired /\ c.horn = e.horn /\ c.row = e.row
    BY <1>1 DEF Typed, Engines
<1>3. Plain(e, c)
    BY <1>2 DEF Plain, Aside, Replans, Unplanned, NoPlan
<1> QED BY <1>3 DEF c

\* completeArm.
LEMMA PlainCompleteArm ==
    ASSUME NEW e, Stored(e), NEW f
    PROVE  Plain(e, CompleteArm(e, f))
<1> DEFINE x == CancelTimers(e.z)
           z == [x EXCEPT !.state = "armed"]
           b == With(e, z)
           B == {s \in b.cfg.sensors : /\ InMode(s, b.z.mode)
                                       /\ s \notin b.z.bypassed
                                       /\ b.view[s] = "active"}
           y == [b.z EXCEPT !.openAtArm = B]
           d == With(b, y)
<1>1. e.z \in Zones
    BY DEF Stored, Typed, Engines
<1>2. x \in Zones /\ Aside(e.z, x)
    BY <1>1 DEF CancelTimers, Zones, Aside, Replans, TimerKinds
<1> HIDE DEF x
<1>3. z \in Zones /\ Aside(e.z, z)
    BY <1>2 DEF Zones, Aside, Replans, States
<1> HIDE DEF z
<1>4. Plain(e, b) /\ Typed(b) /\ b.z = z
    BY <1>3, PlainWith, WithTyped DEF Stored, Aside
<1> HIDE DEF b
<1>5. B \in SUBSET Sensors
    BY <1>4 DEF Typed, Engines, Configs
<1> HIDE DEF B
<1>6. y \in Zones /\ Aside(b.z, y)
    BY <1>3, <1>4, <1>5 DEF Zones, Aside, Replans
<1>7. RecaptureOpenBaseline(b) = d
    BY DEF RecaptureOpenBaseline, B
<1> HIDE DEF y
<1>8. Plain(b, d) /\ Typed(d)
    BY <1>4, <1>6, PlainWith, WithTyped DEF Aside
<1>9. CompleteArm(e, f) = Persist(d, f)
    BY <1>7 DEF CompleteArm, b, z, x
<1> HIDE DEF d
<1>10. Plain(d, Persist(d, f))
    BY <1>8, PlainPersist
<1> QED BY <1>4, <1>8, <1>9, <1>10, PlainTrans

LEMMA PlainBeginArm ==
    ASSUME NEW e, Sane(e), e.z.state # "triggered", NEW m \in Modes, NEW bypass, NEW force,
           NEW skip, NEW r, NEW w, NEW tr, NEW f
    PROVE  Plain(e, BeginArm(e, m, bypass, force, skip, r, w, tr, f))
<1> DEFINE y1 == CancelAutoRearm(e.z)
           z1 == [y1 EXCEPT !.walk = FALSE]
           e0 == With(e, z1)
           e1 == RefreshSensorValues(e0, r, w)
           blocking == Blocking(e1, tr, m)
           excluded == (bypass \cap e.cfg.sensors) \cup AutoBypass(blocking)
           remaining == blocking \ excluded
           bp == excluded \cup remaining
           x == CancelTimers(e1.z)
           z2 == [x EXCEPT !.bypassed = bp, !.mode = m, !.pendingCause = None,
                           !.openAtArm = {}]
           z3 == [z2 EXCEPT !.state = "arming", !.timer = "exit_delay"]
           b2 == With(e1, z2)
           b3 == With(e1, z3)
           c == BeginArm(e, m, bypass, force, skip, r, w, tr, f)
<1>0. e.z \in Zones /\ e.cfg \in Configs /\ Stored(e) /\ e.z.incident = None
    BY DEF Sane, Linked, Stored, Typed, Engines
<1>1. y1 \in Zones /\ Aside(e.z, y1)
    BY <1>0 DEF CancelAutoRearm, Zones, Aside, Replans
<1> HIDE DEF y1
<1>2. z1 \in Zones /\ Aside(e.z, z1)
    <2>1. z1 \in Zones
        BY <1>1 DEF Zones
    <2>2. /\ z1.incident = y1.incident /\ z1.silencedID = y1.silencedID
          /\ z1.timer = y1.timer /\ z1.rearmMode = y1.rearmMode
        BY <1>1 DEF Zones
    <2> QED BY <1>1, <2>1, <2>2 DEF Aside, Replans
<1> HIDE DEF z1
<1>3. Stored(e0) /\ e0.z = z1 /\ e0.cfg = e.cfg /\ Plain(e, e0)
    BY <1>0, <1>2, WithStored, PlainWith DEF Stored, Aside
<1> HIDE DEF e0
<1>4. Stored(e1) /\ e1.z = z1 /\ e1.cfg = e.cfg /\ Plain(e0, e1)
    BY <1>3, RefreshStored, PlainRefresh DEF Stored
<1>5. bp \subseteq Sensors
    BY <1>0, <1>4 DEF Blocking, AutoBypass, Configs
<1> HIDE DEF e1, bp
<1>6. x \in Zones /\ Aside(e1.z, x)
    BY <1>2, <1>4 DEF CancelTimers, Zones, Aside, Replans, TimerKinds
<1>7. z2 = [CancelTimers(e1.z) EXCEPT !.bypassed = bp, !.mode = m, !.pendingCause = None,
                                      !.openAtArm = {}]
    OBVIOUS
<1> HIDE DEF x
<1>8. z2 \in Zones /\ Aside(e1.z, z2)
    <2>1. z2 \in Zones
        BY <1>5, <1>6 DEF Zones
    <2> QED BY <1>6, <2>1 DEF Zones, Aside, Replans
<1> HIDE DEF z2
<1>9. z3 \in Zones /\ Aside(e1.z, z3)
    <2>1. z2 \in Zones
        BY <1>8
    <2>2. z3 \in Zones
        BY <2>1 DEF Zones, States, TimerKinds
    <2>3. z3.incident = z2.incident /\ z3.silencedID = z2.silencedID /\ z3.timer = "exit_delay"
          /\ z3.rearmMode = z2.rearmMode
        BY <2>1 DEF Zones
    <2> QED BY <1>8, <2>2, <2>3 DEF Aside, Replans
<1>10. c \in {e1, Persist(b3, f), CompleteArm(b2, f)}
    BY <1>7 DEF BeginArm, z1, y1, e0, e1, z3, bp
<1> HIDE DEF z3, c
<1>11. Stored(b2) /\ Plain(e1, b2) /\ Typed(b3) /\ Plain(e1, b3)
    BY <1>4, <1>8, <1>9, WithStored, PlainWith DEF Stored, Aside
<1> HIDE DEF b2, b3
<1>12. Plain(e, e1)
    BY <1>3, <1>4, PlainTrans
<1>13. Plain(e, Persist(b3, f)) /\ Plain(e, CompleteArm(b2, f))
    BY <1>11, <1>12, PlainPersist, PlainCompleteArm, PlainTrans
<1>14. Plain(e, c)
    BY <1>10, <1>12, <1>13
<1> QED BY <1>14 DEF c

LEMMA PlainOnAutoRearmElapsed ==
    ASSUME NEW e, Sane(e), NEW r, NEW w, NEW tr, NEW f
    PROVE  Plain(e, OnAutoRearmElapsed(e, r, w, tr, f))
<1> DEFINE z1 == [e.z EXCEPT !.rearm = FALSE, !.rearmMode = None]
           e1 == With(e, z1)
           m == e.z.rearmMode
           b == BeginArm(e1, m, {}, FALSE, FALSE, r, w, tr, f)
           c == OnAutoRearmElapsed(e, r, w, tr, f)
<1>1. z1 \in Zones
    BY DEF Sane, Stored, Typed, Engines, Zones
<1>2. Aside(e.z, z1) /\ z1.state = e.z.state
    BY DEF Sane, Stored, Typed, Engines, Zones, Aside, Replans
<1> HIDE DEF z1
<1>3. Sane(e1) /\ Typed(e1) /\ e1.z = z1 /\ e1.cfg = e.cfg /\ Plain(e, e1)
    BY <1>1, <1>2, WithStored, PlainWith DEF Sane, Stored, Linked, Aside
<1> HIDE DEF e1
<1>4. CASE e.z.state # "disarmed" \/ m \notin e.cfg.modes
    <2>1. c = Persist(e1, f)
        BY <1>4 DEF OnAutoRearmElapsed, e1, z1
    <2> QED BY <1>3, <2>1, PlainPersist, PlainTrans
<1>5. CASE e.z.state = "disarmed" /\ m \in e.cfg.modes
    <2>1. m \in Modes /\ e1.z.state # "triggered"
        BY <1>2, <1>3, <1>5 DEF Sane, Stored, Typed, Engines, Configs
    <2>2. c = Persist(b, f)
        BY <1>5 DEF OnAutoRearmElapsed, e1, z1, m
    <2> SUFFICES Plain(e, c)
        OBVIOUS
    <2> HIDE DEF m, c
    <2>3. Sane(b) /\ Plain(e1, b)
        BY <1>3, <2>1, BeginArmSane, PlainBeginArm
    <2> HIDE DEF b
    <2>4. Plain(b, c)
        BY <2>2, <2>3, PlainPersist DEF Sane, Stored
    <2> QED BY <1>3, <2>3, <2>4, PlainTrans
<1> QED BY <1>4, <1>5

LEMMA PlainDisarmAfterTrigger ==
    ASSUME NEW e, Stored(e), NEW f
    PROVE  Plain(e, DisarmAfterTrigger(e, f))
<1> DEFINE y == CancelTimers(e.z)
           z1 == ResetToDisarmed(y)
           z3 == ScheduleAutoRearm(z1, e.z.mode)
           z2 == IF ZoneConfig.autoRearm /\ e.z.mode \in e.cfg.modes THEN z3 ELSE z1
           b == With(e, z2)
<1>1. e.z \in Zones /\ e.cfg.modes \subseteq Modes
    BY DEF Stored, Typed, Engines, Configs
<1>2. y \in Zones /\ y.timer = "none"
    BY <1>1, CancelTimersZone
<1>3. Aside(e.z, y)
    BY <1>1 DEF CancelTimers, Zones, Aside, Replans
<1> HIDE DEF y
<1>4. /\ z1 \in Zones /\ z1.timer = "none" /\ z1.incident = y.incident
      /\ z1.silencedID = y.silencedID /\ z1.rearmMode = y.rearmMode
    BY <1>2, ResetFields, ResetToDisarmedZone
<1> HIDE DEF z1
<1>5. z2 \in Zones /\ Aside(e.z, z2)
    <2>1. CASE z2 = z1
        BY <1>3, <1>4, <2>1 DEF Aside, Replans
    <2>2. CASE ZoneConfig.autoRearm /\ e.z.mode \in e.cfg.modes /\ z2 = z3
        <3>1. z3 \in Zones
            BY <1>1, <1>4, <2>2, ScheduleZone
        <3>2. z3.incident = z1.incident /\ z3.silencedID = z1.silencedID /\ z3.timer = "none"
            BY <1>4 DEF ScheduleAutoRearm, Zones
        <3> QED BY <1>3, <1>4, <2>2, <3>1, <3>2 DEF Aside, Replans
    <2> QED BY <2>1, <2>2
<1> HIDE DEF z2
<1>6. Plain(e, b) /\ Typed(b)
    BY <1>5, PlainWith, WithTyped DEF Stored, Aside
<1>7. DisarmAfterTrigger(e, f) = Persist(b, f)
    BY DEF DisarmAfterTrigger, b, z2, z1, y
<1> HIDE DEF b
<1> QED BY <1>6, <1>7, PlainPersist, PlainTrans

-----------------------------------------------------------------------------
\* The operations on the incident.

\* The next output cycle of the open incident is accounted for.
Room(b) ==
    LET i == b.z.incident.id
    IN i \in Ids \ {0} => /\ b.fired[i] < Allowed(b.db[i])
                          /\ b.z.timer = "pre_alarm" => b.fired[i] = 0

\* An incident that has just been opened.
Opened(b) ==
    /\ b.z.incident # None /\ ~b.z.incident.silenced
    /\ b.z.incident.id \in Ids \ {0} => b.fired[b.z.incident.id] = 0

LEMMA AllowedTwo ==
    ASSUME NEW rec \in IncidentRows
    PROVE  Allowed(rec) \in Nat /\ 2 <= Allowed(rec)
BY BoundAssumption DEF IncidentRows, Allowed, Least

LEMMA OpenedRoom ==
    ASSUME NEW b, Typed(b), Opened(b)
    PROVE  Room(b)
<1>1. b.z.incident.id # 0 => b.db[b.z.incident.id] \in IncidentRows
    BY IncidentIndex DEF Opened, Typed, Engines
<1> QED BY <1>1, AllowedTwo DEF Opened, Room

LEMMA FireBooks ==
    ASSUME NEW e, NEW b, Typed(b), b.z.incident # None, ~b.z.incident.silenced, NEW f,
           Books(e, b, f), Tally(e) => Room(b), NEW loud
    PROVE  Books(e, FireCycle(b, loud), f)
<1> DEFINE c == FireCycle(b, loud)
           g == [b.fired EXCEPT ![b.z.incident.id] = @ + 1]
<1>1. c.z = b.z /\ c.db = b.db /\ c.row = b.row /\ c.fired = g
    BY DEF FireCycle, Typed, Engines
<1>2. b.fired \in [Ids -> Nat] /\ b.db \in Seq(IncidentRows)
    BY DEF Typed, Engines
<1>3. \A i \in Ids : g[i] = IF i = b.z.incident.id THEN b.fired[i] + 1 ELSE b.fired[i]
    BY <1>2
<1> HIDE DEF c, g
<1>4. b.z.incident.id # 0 => b.z.incident.id \in 1..Len(b.db)
    BY IncidentIndex
<1>5. ASSUME Tally(b), Room(b) PROVE Tally(c)
    <2>1. Room(b)
        BY <1>5
    <2>2. ASSUME NEW i \in Ids \ {0}
          PROVE  IF i <= Len(b.db)
                 THEN b.db[i].cycles <= ZoneConfig.maxRetriggerCycles /\ g[i] <= Allowed(b.db[i])
                 ELSE g[i] = 0
        <3>1. CASE i = b.z.incident.id
            <4>1. i \in 1..Len(b.db) /\ b.fired[i] < Allowed(b.db[i]) /\ g[i] = b.fired[i] + 1
                BY <1>3, <1>4, <2>1, <3>1 DEF Room
            <4>2. b.fired[i] \in Nat /\ Allowed(b.db[i]) \in Nat
                BY <1>2, <4>1, AllowedTwo
            <4>3. g[i] <= Allowed(b.db[i])
                BY <4>1, <4>2
            <4> QED BY <1>5, <4>1, <4>3 DEF Tally
        <3>2. CASE i # b.z.incident.id
            BY <1>3, <1>5, <3>2 DEF Tally
        <3> QED BY <3>1, <3>2
    <2>3. b.z.incident.id \in Ids \ {0} /\ b.z.timer = "pre_alarm" => g[b.z.incident.id] <= 1
        BY <1>3, <2>1 DEF Room
    <2> QED BY <1>1, <1>5, <2>2, <2>3 DEF Tally
<1>6. Owned(b) => Owned(c)
    BY <1>1 DEF Owned
<1>7. Hushed(b) => Hushed(c) /\ Lasting(b.db, c.db)
    BY <1>1 DEF Hushed, Lasting
<1>8. Muted(c)
    BY <1>1 DEF Muted
<1>9. /\ Lasting(e.db, b.db) => Lasting(e.db, c.db)
      /\ Unplanned(e, b) => Unplanned(e, c)
    BY <1>1 DEF Unplanned, NoPlan
<1>10. Books(e, c, f)
    BY <1>5, <1>6, <1>7, <1>8, <1>9 DEF Books
<1> QED BY <1>10 DEF c

LEMMA OpenIncidentBooks ==
    ASSUME NEW e, Stored(e), e.z.incident = None, NEW cause \in Sensors \cup {None}, NEW f
    PROVE  LET o == OpenIncident(e, cause, f) IN Books(e, o, f) /\ Opened(o)
<1> DEFINE id == IF "inc" \in f THEN 0 ELSE Len(e.db) + 1
           inc == [id |-> id, cause |-> cause, silenced |-> FALSE, cycles |-> 0, refires |-> 0]
           new == [open |-> TRUE, cause |-> cause, silenced |-> FALSE, cycles |-> 0,
                   refires |-> 0]
           d == IF id = 0 THEN e.db ELSE Append(e.db, new)
           g == [e.fired EXCEPT ![id] = 0]
           z == [e.z EXCEPT !.incident = inc]
           o == OpenIncident(e, cause, f)
<1>1. /\ e.z \in Zones /\ e.db \in Seq(IncidentRows) /\ e.fired \in [Ids -> Nat]
      /\ Len(e.db) \in Nat
    BY DEF Stored, Typed, Engines
<1>2. o.z = z /\ o.db = d /\ o.fired = g /\ o.row = e.row /\ o.horn = e.horn
    BY DEF OpenIncident, Stored, Typed, Engines
<1>3. z.incident = inc /\ z.silencedID = e.z.silencedID /\ z.timer = e.z.timer
      /\ z.rearmMode = e.z.rearmMode
    BY <1>1 DEF Zones
<1>4. inc # None /\ inc.id = id /\ ~inc.silenced /\ inc.cycles = 0 /\ inc.refires = 0
    <2>1. inc \in Incidents
        BY <1>1 DEF Incidents
    <2> QED BY <2>1, NoneAssumption
<1>5. id \in {0, Len(e.db) + 1} /\ ("inc" \notin f => id # 0)
    BY <1>1
<1>6. new.open /\ ~new.silenced /\ new.cycles = 0 /\ new.refires = 0 /\ new \in IncidentRows
    BY DEF IncidentRows
<1>7. \A i \in Ids : g[i] = IF i = id THEN 0 ELSE e.fired[i]
    BY <1>1
<1>8. /\ id = 0 => d = e.db
      /\ id # 0 => /\ Len(d) = Len(e.db) + 1 /\ d[Len(e.db) + 1] = new
                   /\ \A i \in 1..Len(e.db) : d[i] = e.db[i]
    <2> HIDE DEF new, id
    <2> QED BY <1>1, <1>5, <1>6
<1> HIDE DEF o, z, g, d, inc, new, id
<1>9. Opened(o)
    BY <1>2, <1>3, <1>4, <1>7 DEF Opened
<1>10. ASSUME Tally(e) PROVE Tally(o)
    <2>1. ASSUME NEW i \in Ids \ {0}
          PROVE  IF i <= Len(d)
                 THEN d[i].cycles <= ZoneConfig.maxRetriggerCycles /\ g[i] <= Allowed(d[i])
                 ELSE g[i] = 0
        <3>1. CASE i = id
            <4>1. d[i] = new /\ g[i] = 0 /\ 0 <= Allowed(new)
                BY <1>5, <1>6, <1>7, <1>8, <3>1, AllowedTwo
            <4>2. 0 <= ZoneConfig.maxRetriggerCycles
                BY ConfigAssumption DEF ZoneConfigs
            <4> QED BY <1>6, <4>1, <4>2
        <3>2. CASE i # id
            <4>1. g[i] = e.fired[i] /\ i \in Nat \ {0}
                BY <1>7, <3>2, BoundAssumption DEF Ids
            <4>2. i <= Len(d) <=> i <= Len(e.db)
                BY <1>1, <1>5, <1>8, <3>2, <4>1
            <4>3. i <= Len(e.db) => d[i] = e.db[i]
                BY <1>1, <1>8, <4>1
            <4> QED BY <1>10, <4>1, <4>2, <4>3 DEF Tally
        <3> QED BY <3>1, <3>2
    <2>2. id # 0 => d[id] = new
        BY <1>5, <1>8
    <2>3. id \in Ids => g[id] <= 1
        BY <1>7
    <2> QED BY <1>2, <1>3, <1>4, <1>6, <2>1, <2>2, <2>3 DEF Tally
<1>11. ASSUME f = {}, Owned(e) PROVE Owned(o)
    <2>1. OpenRows(e.db) = {} /\ id = Len(e.db) + 1 /\ id # 0
        BY <1>1, <1>5, <1>11 DEF Owned, IncidentId
    <2>2. \A i \in 1..Len(e.db) : ~e.db[i].open
        BY <2>1 DEF OpenRows
    <2>3. \A i : i \in OpenRows(d) <=> i = id
        BY <1>1, <1>6, <1>8, <2>1, <2>2 DEF OpenRows
    <2>4. IncidentId(o.z) = id
        BY <1>2, <1>3, <1>4 DEF IncidentId
    <2> QED BY <1>2, <1>3, <1>4, <2>1, <2>3, <2>4 DEF Owned
<1>12. 1..Len(e.db) \subseteq 1..Len(d) /\ \A i \in 1..Len(e.db) : d[i] = e.db[i]
    BY <1>1, <1>8
<1>13. ASSUME "inc" \notin f, Hushed(e) PROVE Hushed(o) /\ Lasting(e.db, o.db)
    <2>1. \A i \in {e.row.silencedID, e.z.silencedID} \ {0} : i \in 1..Len(d) /\ d[i].silenced
        BY <1>12, <1>13 DEF Hushed
    <2>2. d[id] = new
        BY <1>5, <1>8, <1>13
    <2>3. Lasting(e.db, o.db)
        BY <1>2, <1>12 DEF Lasting
    <2>4. ~o.z.incident.silenced /\ o.z.incident.id = id /\ ~o.db[id].silenced
        BY <1>2, <1>3, <1>4, <1>6, <2>2
    <2>5. o.row.silencedID = e.row.silencedID /\ o.z.silencedID = e.z.silencedID
        BY <1>2, <1>3
    <2> QED BY <1>2, <2>1, <2>3, <2>4, <2>5 DEF Hushed
<1>14. Muted(o)
    BY <1>9 DEF Opened, Muted
<1>15. Unplanned(e, o)
    BY <1>2, <1>3 DEF Unplanned, NoPlan
<1>16. Books(e, o, f)
    BY <1>10, <1>11, <1>13, <1>14, <1>15 DEF Books
<1> QED BY <1>9, <1>16 DEF o

\* The zone of an opened incident may take any countdown.
LEMMA OpenedWith ==
    ASSUME NEW o, Typed(o), Opened(o), NEW z, z.incident = o.z.incident,
           z.silencedID = o.z.silencedID, z.rearmMode = o.z.rearmMode, NEW f
    PROVE  Books(o, With(o, z), f) /\ Opened(With(o, z))
<1> DEFINE c == With(o, z)
<1>1. /\ c.z = z /\ c.db = o.db /\ c.fired = o.fired /\ c.horn = o.horn /\ c.row = o.row
    BY DEF With, Typed, Engines
<1> HIDE DEF c
<1>2. Opened(c) /\ Muted(c)
    BY <1>1 DEF Opened, Muted
<1>3. Tally(o) => Tally(c)
    BY <1>1 DEF Opened, Tally
<1>4. Owned(o) => Owned(c)
    BY <1>1 DEF Owned, IncidentId
<1>5. Hushed(o) => Hushed(c) /\ Lasting(o.db, c.db)
    BY <1>1 DEF Hushed, Lasting
<1>6. Unplanned(o, c)
    BY <1>1 DEF Unplanned, NoPlan
<1>7. Books(o, c, f)
    BY <1>2, <1>3, <1>4, <1>5, <1>6 DEF Books
<1> QED BY <1>2, <1>7 DEF c

\* The new incident is persisted and its first cycle fired.
LEMMA OpenedFires ==
    ASSUME NEW o, Typed(o), Opened(o), NEW z \in Zones, z.incident = o.z.incident,
           z.silencedID = o.z.silencedID, z.rearmMode = o.z.rearmMode, NEW loud, NEW f
    PROVE  Books(o, FireCycle(Persist(With(o, z), f), loud), f)
<1> DEFINE b == With(o, z)
           c == Persist(b, f)
<1>1. Books(o, b, f) /\ Opened(b) /\ Typed(b)
    BY OpenedWith, WithTyped
<1> HIDE DEF b
<1>2. /\ Plain(b, c) /\ Typed(c) /\ c.z = b.z /\ c.fired = b.fired
    BY <1>1, PlainPersist, PersistTyped DEF Plain
<1> HIDE DEF c
<1>3. Opened(c)
    BY <1>1, <1>2 DEF Opened
<1>4. Books(o, c, f)
    BY <1>1, <1>2, PlainBooks, BooksTrans
<1>5. Books(o, FireCycle(c, loud), f)
    BY <1>2, <1>3, <1>4, OpenedRoom, FireBooks DEF Opened
<1> QED BY <1>5 DEF c, b

LEMMA TriggerBooks ==
    ASSUME NEW e, Sane(e), NEW cause \in Sensors \cup {None}, NEW restored \in BOOLEAN, NEW f
    PROVE  Books(e, Trigger(e, cause, restored, f), f)
<1>1. CASE e.z.state = "triggered"
    BY <1>1, PlainSelf, PlainBooks DEF Trigger
<1>2. CASE e.z.state # "triggered"
    <2> DEFINE o == OpenIncident(e, cause, f)
               pre == ~restored /\ e.z.mode \in ZoneConfig.preAlarm \cap e.cfg.modes
               t == IF pre THEN "pre_alarm" ELSE "trigger_time"
               z2 == [o.z EXCEPT !.state = "triggered", !.pendingCause = None,
                                 !.preAlarm = pre, !.timer = t]
    <2>1. Stored(e) /\ e.z.incident = None
        BY <1>2 DEF Sane, Linked
    <2>2. Books(e, o, f) /\ Opened(o) /\ Typed(o)
        BY <2>1, OpenIncidentBooks, OpenIncidentStored DEF Stored
    <2>3. Trigger(e, cause, restored, f) = FireCycle(Persist(With(o, z2), f), TRUE)
        BY <1>2, <2>1 DEF Trigger
    <2>4. o.z \in Zones /\ pre \in BOOLEAN /\ t \in TimerKinds
        BY <2>2 DEF Typed, Engines, TimerKinds
    <2> HIDE DEF o, pre, t
    <2>5. z2 \in Zones
        BY <2>4 DEF Zones, States
    <2>6. z2.incident = o.z.incident /\ z2.silencedID = o.z.silencedID
          /\ z2.rearmMode = o.z.rearmMode
        BY <2>4 DEF Zones
    <2> HIDE DEF z2
    <2>7. Books(o, FireCycle(Persist(With(o, z2), f), TRUE), f)
        BY <2>2, <2>5, <2>6, OpenedFires
    <2> QED BY <2>2, <2>3, <2>7, BooksTrans
<1> QED BY <1>1, <1>2

LEMMA AlwaysOnFireBooks ==
    ASSUME NEW e, Sane(e), NEW cause \in Sensors \cup {None}, NEW loud \in BOOLEAN, NEW f
    PROVE  Books(e, AlwaysOnFire(e, cause, loud, f), f)
<1>0. Stored(e) /\ Typed(e) /\ e.z \in Zones
    BY DEF Sane, Stored, Typed, Engines
<1>1. CASE e.z.state = "triggered"
    <2> DEFINE h == loud \/ e.horn
               c == [e EXCEPT !.horn = h]
    <2>1. CASE e.z.incident.silenced
        BY <1>1, <2>1, PlainSelf, PlainBooks DEF AlwaysOnFire
    <2>2. CASE ~e.z.incident.silenced
        <3>1. AlwaysOnFire(e, cause, loud, f) = c
            BY <1>1, <2>2 DEF AlwaysOnFire, Sane, Linked
        <3> HIDE DEF h
        <3>2. c.z = e.z /\ c.db = e.db /\ c.fired = e.fired /\ c.row = e.row
            BY <1>0 DEF Typed, Engines
        <3> HIDE DEF c
        <3>3. Tally(e) => Tally(c)
            BY <3>2 DEF Tally
        <3>4. Owned(e) => Owned(c)
            BY <3>2 DEF Owned
        <3>5. Hushed(e) => Hushed(c) /\ Lasting(e.db, c.db)
            BY <3>2 DEF Hushed, Lasting
        <3>6. Muted(c)
            BY <2>2, <3>2 DEF Muted
        <3>7. Unplanned(e, c)
            BY <3>2 DEF Unplanned, NoPlan
        <3> QED BY <3>1, <3>3, <3>4, <3>5, <3>6, <3>7 DEF Books
    <2> QED BY <2>1, <2>2
<1>2. CASE e.z.state # "triggered"
    <2> DEFINE z1 == [e.z EXCEPT !.preState = e.z.state, !.preMode = e.z.mode]
               b == With(e, z1)
               o == OpenIncident(b, cause, f)
               z2 == [o.z EXCEPT !.state = "triggered", !.timer = "trigger_time"]
    <2>1. e.z.incident = None
        BY <1>2 DEF Sane, Linked
    <2>2. z1 \in Zones
        BY <1>0 DEF Zones
    <2>3. Aside(e.z, z1) /\ z1.incident = None
        BY <1>0, <2>1 DEF Zones, Aside, Replans
    <2>4. AlwaysOnFire(e, cause, loud, f) = FireCycle(Persist(With(o, z2), f), loud)
        BY <1>2, <2>1 DEF AlwaysOnFire
    <2> HIDE DEF z1
    <2>5. Plain(e, b) /\ Stored(b) /\ b.z = z1
        BY <1>0, <2>1, <2>2, <2>3, PlainWith, WithStored
    <2> HIDE DEF b
    <2>6. Books(b, o, f) /\ Opened(o) /\ Typed(o)
        BY <2>3, <2>5, OpenIncidentBooks, OpenIncidentStored DEF Stored
    <2>7. o.z \in Zones
        BY <2>6 DEF Typed, Engines
    <2> HIDE DEF o
    <2>8. z2 \in Zones
        BY <2>7 DEF Zones, States, TimerKinds
    <2>9. z2.incident = o.z.incident /\ z2.silencedID = o.z.silencedID
          /\ z2.rearmMode = o.z.rearmMode
        BY <2>7 DEF Zones
    <2> HIDE DEF z2
    <2>10. Books(o, FireCycle(Persist(With(o, z2), f), loud), f)
        BY <2>6, <2>8, <2>9, OpenedFires
    <2>11. Books(e, b, f)
        BY <2>5, PlainBooks
    <2> QED BY <2>4, <2>6, <2>10, <2>11, BooksTrans
<1> QED BY <1>1, <1>2

\* What an update of an incident row changes.
LEMMA RowFields ==
    ASSUME NEW d \in Seq(IncidentRows), NEW k \in 1..Len(d), NEW i \in 1..Len(d)
    PROVE  /\ LET y == [d EXCEPT ![k].open = FALSE][i]
              IN /\ y.open <=> d[i].open /\ i # k
                 /\ y.silenced <=> d[i].silenced
                 /\ y.cycles = d[i].cycles /\ y.refires = d[i].refires
           /\ LET y == [d EXCEPT ![k].silenced = TRUE][i]
              IN /\ y.open <=> d[i].open
                 /\ y.silenced <=> d[i].silenced \/ i = k
                 /\ y.cycles = d[i].cycles /\ y.refires = d[i].refires
           /\ LET y == [d EXCEPT ![k].cycles = @ + 1][i]
              IN /\ y.open <=> d[i].open
                 /\ y.silenced <=> d[i].silenced
                 /\ y.cycles = (IF i = k THEN d[i].cycles + 1 ELSE d[i].cycles)
                 /\ y.refires = d[i].refires
           /\ LET y == [d EXCEPT ![k].refires = @ + 1][i]
              IN /\ y.open <=> d[i].open
                 /\ y.silenced <=> d[i].silenced
                 /\ y.cycles = d[i].cycles
                 /\ y.refires = (IF i = k THEN d[i].refires + 1 ELSE d[i].refires)
<1>1. d[k] \in IncidentRows
    OBVIOUS
<1>2. ASSUME NEW x
      PROVE  [d EXCEPT ![k] = x][i] = IF i = k THEN x ELSE d[i]
    OBVIOUS
<1> DEFINE a == [d[k] EXCEPT !.open = FALSE]
           b == [d[k] EXCEPT !.silenced = TRUE]
           g == [d[k] EXCEPT !.cycles = @ + 1]
           h == [d[k] EXCEPT !.refires = @ + 1]
<1>3. ~a.open /\ a.silenced = d[k].silenced /\ a.cycles = d[k].cycles /\ a.refires = d[k].refires
    BY <1>1 DEF IncidentRows
<1>4. b.silenced /\ b.open = d[k].open /\ b.cycles = d[k].cycles /\ b.refires = d[k].refires
    BY <1>1 DEF IncidentRows
<1>5. /\ g.open = d[k].open /\ g.silenced = d[k].silenced /\ g.cycles = d[k].cycles + 1
      /\ g.refires = d[k].refires
    BY <1>1 DEF IncidentRows
<1>6. /\ h.open = d[k].open /\ h.silenced = d[k].silenced /\ h.cycles = d[k].cycles
      /\ h.refires = d[k].refires + 1
    BY <1>1 DEF IncidentRows
<1>7. /\ [d EXCEPT ![k].open = FALSE] = [d EXCEPT ![k] = a]
      /\ [d EXCEPT ![k].silenced = TRUE] = [d EXCEPT ![k] = b]
      /\ [d EXCEPT ![k].cycles = @ + 1] = [d EXCEPT ![k] = g]
      /\ [d EXCEPT ![k].refires = @ + 1] = [d EXCEPT ![k] = h]
    OBVIOUS
<1> HIDE DEF a, b, g, h
<1>8. /\ [d EXCEPT ![k] = a][i] = IF i = k THEN a ELSE d[i]
      /\ [d EXCEPT ![k] = b][i] = IF i = k THEN b ELSE d[i]
      /\ [d EXCEPT ![k] = g][i] = IF i = k THEN g ELSE d[i]
      /\ [d EXCEPT ![k] = h][i] = IF i = k THEN h ELSE d[i]
    BY <1>2
<1> DEFINE ya == [d EXCEPT ![k].open = FALSE][i]
           yb == [d EXCEPT ![k].silenced = TRUE][i]
           yg == [d EXCEPT ![k].cycles = @ + 1][i]
           yh == [d EXCEPT ![k].refires = @ + 1][i]
<1>9. /\ ya = (IF i = k THEN a ELSE d[i]) /\ yb = (IF i = k THEN b ELSE d[i])
      /\ yg = (IF i = k THEN g ELSE d[i]) /\ yh = (IF i = k THEN h ELSE d[i])
    BY <1>7, <1>8, Zenon
<1> SUFFICES /\ /\ ya.open <=> d[i].open /\ i # k
                /\ ya.silenced <=> d[i].silenced
                /\ ya.cycles = d[i].cycles /\ ya.refires = d[i].refires
             /\ /\ yb.open <=> d[i].open
                /\ yb.silenced <=> d[i].silenced \/ i = k
                /\ yb.cycles = d[i].cycles /\ yb.refires = d[i].refires
             /\ /\ yg.open <=> d[i].open
                /\ yg.silenced <=> d[i].silenced
                /\ yg.cycles = (IF i = k THEN d[i].cycles + 1 ELSE d[i].cycles)
                /\ yg.refires = d[i].refires
             /\ /\ yh.open <=> d[i].open
                /\ yh.silenced <=> d[i].silenced
                /\ yh.cycles = d[i].cycles
                /\ yh.refires = (IF i = k THEN d[i].refires + 1 ELSE d[i].refires)
    BY Zenon
<1> HIDE DEF ya, yb, yg, yh
<1>10. CASE i = k
    BY <1>3, <1>4, <1>5, <1>6, <1>9, <1>10
<1>11. CASE i # k
    BY <1>9, <1>11
<1> QED BY <1>10, <1>11

LEMMA CloseIncidentBooks ==
    ASSUME NEW e, Stored(e), NEW f
    PROVE  Books(e, CloseIncident(e, f), f) /\ Muted(CloseIncident(e, f))
<1>1. CASE e.z.incident = None
    BY <1>1, PlainSelf, PlainBooks DEF CloseIncident, Muted
<1>2. CASE e.z.incident # None
    <2> DEFINE k == e.z.incident.id
               z == [e.z EXCEPT !.incident = None, !.silencedID = 0]
               d == IF k = 0 \/ "close" \in f THEN e.db ELSE [e.db EXCEPT ![k].open = FALSE]
               c == CloseIncident(e, f)
    <2>1. /\ e.z \in Zones /\ e.db \in Seq(IncidentRows) /\ Len(e.db) \in Nat
          /\ k # 0 => k \in 1..Len(e.db)
        BY <1>2, IncidentIndex DEF Stored, Typed, Engines
    <2>2. z.incident = None /\ z.silencedID = 0 /\ z.rearmMode = e.z.rearmMode
        BY <2>1 DEF Zones
    <2>3. c.z = z /\ c.db = d /\ c.fired = e.fired /\ c.row = e.row /\ c.horn = e.horn
        BY <1>2 DEF CloseIncident, Stored, Typed, Engines
    <2> HIDE DEF z, c
    <2>4. /\ Len(d) = Len(e.db)
          /\ \A i \in 1..Len(e.db) :
                /\ d[i].silenced <=> e.db[i].silenced
                /\ d[i].cycles = e.db[i].cycles /\ d[i].refires = e.db[i].refires
                /\ k # 0 /\ "close" \notin f => (d[i].open <=> e.db[i].open /\ i # k)
        <3>1. CASE k = 0 \/ "close" \in f
            BY <3>1
        <3>2. CASE k # 0 /\ "close" \notin f
            <4>1. d = [e.db EXCEPT ![k].open = FALSE] /\ k \in 1..Len(e.db)
                BY <2>1, <3>2
            <4> HIDE DEF d, k
            <4>2. Len(d) = Len(e.db)
                BY <2>1, <4>1, RowUpdateTyped
            <4> QED BY <2>1, <4>1, <4>2, RowFields
        <3> QED BY <3>1, <3>2
    <2> HIDE DEF d
    <2>5. ASSUME Tally(e) PROVE Tally(c)
        <3>1. \A i \in 1..Len(e.db) : Allowed(d[i]) = Allowed(e.db[i])
            BY <2>4 DEF Allowed
        <3>2. \A i \in Ids \ {0} : i <= Len(e.db) => i \in 1..Len(e.db)
            BY <2>1, BoundAssumption DEF Ids
        <3> QED BY <2>2, <2>3, <2>4, <2>5, <3>1, <3>2 DEF Tally
    <2>6. ASSUME f = {}, Owned(e) PROVE Owned(c)
        <3>1. OpenRows(e.db) = {k} /\ k # 0
            BY <1>2, <2>6 DEF Owned, IncidentId
        <3>2. \A i \in 1..Len(d) : ~d[i].open
            BY <2>1, <2>4, <2>6, <3>1 DEF OpenRows
        <3>3. OpenRows(c.db) = {}
            BY <2>3, <3>2 DEF OpenRows
        <3> QED BY <2>2, <2>3, <3>3 DEF Owned, IncidentId
    <2>7. ASSUME Hushed(e) PROVE Hushed(c) /\ Lasting(e.db, c.db)
        <3>1. \A i \in 1..Len(e.db) : c.db[i].silenced <=> e.db[i].silenced
            BY <2>3, <2>4
        <3> QED BY <2>2, <2>3, <2>4, <2>7, <3>1 DEF Hushed, Lasting
    <2>8. Muted(c)
        BY <2>2, <2>3 DEF Muted
    <2>9. Unplanned(e, c)
        BY <2>2, <2>3 DEF Unplanned, NoPlan
    <2>10. Books(e, c, f)
        BY <2>5, <2>6, <2>7, <2>8, <2>9 DEF Books
    <2> QED BY <2>8, <2>10 DEF c
<1> QED BY <1>1, <1>2

LEMMA SilenceIncidentBooks ==
    ASSUME NEW e, Stored(e), e.z.incident # None, NEW f
    PROVE  Books(e, SilenceIncident(e, f), f) /\ Muted(SilenceIncident(e, f))
<1>0. Typed(e)
    BY DEF Stored
<1>1. CASE e.z.incident.silenced
    BY <1>0, <1>1, PlainStopAll, PlainBooks DEF SilenceIncident
<1>2. CASE ~e.z.incident.silenced
    <2> DEFINE inc == e.z.incident
               k == inc.id
               j == [inc EXCEPT !.silenced = TRUE]
               z == [e.z EXCEPT !.incident = j, !.silencedID = k]
               d == IF k = 0 \/ "inc" \in f THEN e.db ELSE [e.db EXCEPT ![k].silenced = TRUE]
               c == SilenceIncident(e, f)
    <2>1. /\ e.z \in Zones /\ e.db \in Seq(IncidentRows) /\ Len(e.db) \in Nat
          /\ k # 0 => k \in 1..Len(e.db)
        BY <1>0, IncidentIndex DEF Typed, Engines
    <2>2. j.id = k /\ j.silenced /\ j.cycles = inc.cycles /\ j.refires = inc.refires /\ j # None
        <3>1. inc \in Incidents /\ j \in Incidents
            BY <1>0, IncidentIndex DEF Incidents
        <3> QED BY <3>1, NoneAssumption DEF Incidents
    <2>3. c.z = z /\ c.db = d /\ c.fired = e.fired /\ c.row = e.row /\ c.horn = FALSE
        <3>1. z = [e.z EXCEPT !.incident.silenced = TRUE, !.silencedID = k]
            BY <2>1 DEF Zones
        <3>2. c = StopAll([e EXCEPT !.z = z, !.db = d])
            BY <1>2, <3>1 DEF SilenceIncident
        <3> HIDE DEF z, d, c
        <3> QED BY <1>0, <3>2 DEF StopAll, Typed, Engines
    <2> HIDE DEF j, c
    <2>4. z.incident = j /\ z.silencedID = k /\ z.timer = e.z.timer
          /\ z.rearmMode = e.z.rearmMode
        BY <2>1 DEF Zones
    <2> HIDE DEF z
    <2>5. /\ Len(d) = Len(e.db)
          /\ \A i \in 1..Len(e.db) :
                /\ d[i].open <=> e.db[i].open
                /\ d[i].cycles = e.db[i].cycles /\ d[i].refires = e.db[i].refires
                /\ e.db[i].silenced => d[i].silenced
                /\ k # 0 /\ "inc" \notin f /\ i = k => d[i].silenced
        <3>1. CASE k = 0 \/ "inc" \in f
            BY <3>1
        <3>2. CASE k # 0 /\ "inc" \notin f
            <4>1. d = [e.db EXCEPT ![k].silenced = TRUE] /\ k \in 1..Len(e.db)
                BY <2>1, <3>2
            <4> HIDE DEF d, k
            <4>2. Len(d) = Len(e.db)
                BY <2>1, <4>1, RowUpdateTyped
            <4> QED BY <2>1, <4>1, <4>2, RowFields
        <3> QED BY <3>1, <3>2
    <2> HIDE DEF d, inc
    <2>6. ASSUME Tally(e) PROVE Tally(c)
        <3>1. \A i \in 1..Len(e.db) : Allowed(d[i]) = Allowed(e.db[i])
            BY <2>5 DEF Allowed
        <3>2. \A i \in Ids \ {0} : i <= Len(e.db) => i \in 1..Len(e.db)
            BY <2>1, BoundAssumption DEF Ids
        <3>3. k # 0 => d[k].cycles = e.db[k].cycles /\ d[k].refires = e.db[k].refires
            BY <2>1, <2>5
        <3> QED BY <2>2, <2>3, <2>4, <2>5, <2>6, <3>1, <3>2, <3>3 DEF Tally, inc
    <2>7. ASSUME Owned(e) PROVE Owned(c)
        <3>1. OpenRows(c.db) = OpenRows(e.db)
            BY <2>3, <2>5 DEF OpenRows
        <3>2. IncidentId(c.z) = IncidentId(e.z)
            BY <2>2, <2>3, <2>4 DEF IncidentId, inc
        <3> QED BY <2>2, <2>3, <2>4, <2>7, <3>1, <3>2 DEF Owned, inc
    <2>8. ASSUME "inc" \notin f, Hushed(e) PROVE Hushed(c) /\ Lasting(e.db, c.db)
        <3>1. Lasting(e.db, c.db)
            BY <2>3, <2>5 DEF Lasting
        <3>2. k # 0 => k \in 1..Len(d) /\ d[k].silenced
            BY <2>1, <2>5, <2>8
        <3>3. \A i \in {c.row.silencedID, c.z.silencedID} \ {0} : i \in 1..Len(d) /\ d[i].silenced
            BY <2>3, <2>4, <2>5, <2>8, <3>2 DEF Hushed
        <3> QED BY <2>2, <2>3, <2>4, <3>1, <3>2, <3>3 DEF Hushed
    <2>9. Muted(c)
        BY <2>3 DEF Muted
    <2>10. Unplanned(e, c)
        BY <2>3, <2>4 DEF Unplanned, NoPlan
    <2>11. Books(e, c, f)
        BY <2>6, <2>7, <2>8, <2>9, <2>10 DEF Books
    <2> QED BY <2>9, <2>11 DEF c
<1> QED BY <1>1, <1>2

-----------------------------------------------------------------------------
\* The handlers.

LEMMA PlainRecapture ==
    ASSUME NEW e, Typed(e)
    PROVE  Plain(e, RecaptureOpenBaseline(e)) /\ Typed(RecaptureOpenBaseline(e))
<1> DEFINE B == {s \in e.cfg.sensors : /\ InMode(s, e.z.mode)
                                       /\ s \notin e.z.bypassed
                                       /\ e.view[s] = "active"}
           y == [e.z EXCEPT !.openAtArm = B]
<1>1. e.z \in Zones /\ B \in SUBSET Sensors
    BY DEF Typed, Engines, Configs
<1>2. RecaptureOpenBaseline(e) = With(e, y)
    BY DEF RecaptureOpenBaseline
<1> HIDE DEF B
<1>3. y \in Zones
    BY <1>1 DEF Zones
<1>4. Aside(e.z, y)
    BY <1>1 DEF Zones, Aside, Replans
<1> HIDE DEF y
<1> QED BY <1>2, <1>3, <1>4, PlainWith, WithTyped DEF Aside

LEMMA PlainResetPersist ==
    ASSUME NEW e, Typed(e), NEW z \in Zones, Aside(e.z, z), NEW f
    PROVE  Plain(e, Persist(With(e, ResetToDisarmed(z)), f))
<1> DEFINE y == ResetToDisarmed(z)
           b == With(e, y)
<1>1. y \in Zones /\ y.timer = z.timer /\ y.incident = z.incident
    BY ResetToDisarmedZone
<1>2. y.silencedID = z.silencedID /\ y.rearmMode = z.rearmMode
    BY DEF ResetToDisarmed, Zones
<1> HIDE DEF y
<1>3. Aside(e.z, y)
    BY <1>1, <1>2 DEF Aside, Replans
<1>4. Plain(e, b) /\ Typed(b)
    BY <1>1, <1>3, PlainWith, WithTyped DEF Aside
<1> HIDE DEF b
<1>5. Plain(e, Persist(b, f))
    BY <1>4, PlainPersist, PlainTrans
<1> QED BY <1>5 DEF b, y

LEMMA DisarmLockedBooks ==
    ASSUME NEW e, Stored(e), NEW f
    PROVE  Books(e, DisarmLocked(e, f), f) /\ Muted(DisarmLocked(e, f))
<1> DEFINE y == CancelTimers(e.z)
           z1 == CancelAutoRearm(y)
           e1 == With(e, z1)
           e2 == IF e1.z.incident = None THEN e1 ELSE CloseIncident(SilenceIncident(e1, f), f)
           c == DisarmLocked(e, f)
<1>1. e.z \in Zones /\ Typed(e)
    BY DEF Stored, Typed, Engines
<1>2. y \in Zones /\ y.timer = "none" /\ y.incident = e.z.incident
    BY <1>1, CancelTimersZone
<1>3. y.silencedID = e.z.silencedID
    BY <1>1 DEF CancelTimers, Zones
<1> HIDE DEF y
<1>4. z1 \in Zones
    BY <1>2, CancelAutoRearmZone
<1>5. z1.incident = y.incident /\ z1.silencedID = y.silencedID /\ z1.timer = "none"
      /\ z1.rearmMode = None
    BY <1>2 DEF CancelAutoRearm, Zones
<1> HIDE DEF z1
<1>6. Aside(e.z, z1)
    BY <1>2, <1>3, <1>5 DEF Aside, Replans
<1>7. Stored(e1) /\ e1.z = z1 /\ Plain(e, e1)
    BY <1>1, <1>2, <1>4, <1>5, <1>6, WithStored, PlainWith
<1>8. c = Persist(With(e2, ResetToDisarmed(e2.z)), f)
    BY DEF DisarmLocked, e2, e1, z1, y
<1> SUFFICES Books(e, c, f) /\ Muted(c)
    OBVIOUS
<1> HIDE DEF e1, c
<1>9. Books(e1, e2, f) /\ Typed(e2) /\ Muted(e2)
    <2>1. CASE e1.z.incident = None
        <3>1. e2 = e1
            BY <2>1
        <3> QED BY <1>7, <2>1, <3>1, PlainSelf, PlainBooks DEF Stored, Muted
    <2>2. CASE e1.z.incident # None
        <3> DEFINE s == SilenceIncident(e1, f)
        <3>1. Stored(s) /\ Books(e1, s, f)
            BY <1>7, <2>2, SilenceIncidentStored, SilenceIncidentBooks
        <3>2. e2 = CloseIncident(s, f)
            BY <2>2
        <3> HIDE DEF s
        <3>3. Stored(CloseIncident(s, f)) /\ Books(s, CloseIncident(s, f), f)
              /\ Muted(CloseIncident(s, f))
            BY <3>1, CloseIncidentStored, CloseIncidentBooks
        <3> HIDE DEF e2
        <3> QED BY <3>1, <3>2, <3>3, BooksTrans DEF Stored
    <2> QED BY <2>1, <2>2
<1> HIDE DEF e2
<1>10. e2.z \in Zones /\ Aside(e2.z, e2.z)
    BY <1>9 DEF Typed, Engines, Aside, Replans
<1>11. Plain(e2, c)
    BY <1>8, <1>9, <1>10, PlainResetPersist
<1>12. Books(e2, c, f) /\ Books(e, e1, f)
    BY <1>7, <1>11, PlainBooks
<1>13. Books(e, c, f)
    BY <1>9, <1>12, BooksTrans
<1>14. Muted(c)
    BY <1>9, <1>12 DEF Books
<1> QED BY <1>13, <1>14

\* The end of an alarm: the outputs stop and the incident is closed.
LEMMA EndBooks ==
    ASSUME NEW e, Stored(e), NEW f
    PROVE  LET e1 == CloseIncident(StopAll(e), f)
           IN /\ Stored(e1) /\ e1.z.incident = None
              /\ Books(e, e1, f) /\ Muted(e1)
<1> DEFINE b == StopAll(e)
           e1 == CloseIncident(b, f)
<1>1. Stored(b) /\ Plain(e, b)
    BY StopAllStored, PlainStopAll DEF Stored
<1> HIDE DEF b
<1>2. Stored(e1) /\ e1.z.incident = None /\ Books(b, e1, f) /\ Muted(e1)
    BY <1>1, CloseIncidentStored, CloseIncidentBooks
<1> HIDE DEF e1
<1>3. Books(e, e1, f)
    BY <1>1, <1>2, PlainBooks, BooksTrans
<1> QED BY <1>2, <1>3 DEF e1, b

\* What follows the end of an alarm leaves the ledger alone.
LEMMA EndThenPlain ==
    ASSUME NEW e, NEW e1, NEW c, NEW f, Books(e, e1, f), Muted(e1), Plain(e1, c)
    PROVE  Books(e, c, f) /\ Muted(c)
<1>1. Books(e1, c, f)
    BY PlainBooks
<1>2. Books(e, c, f)
    BY <1>1, BooksTrans
<1> QED BY <1>1, <1>2 DEF Books

LEMMA FinishTriggeredBooks ==
    ASSUME NEW e, Stored(e), NEW f
    PROVE  Books(e, FinishTriggered(e, f), f) /\ Muted(FinishTriggered(e, f))
<1> DEFINE e1 == CloseIncident(StopAll(e), f)
           c == FinishTriggered(e, f)
<1>1. Stored(e1) /\ Books(e, e1, f) /\ Muted(e1)
    BY EndBooks
<1>2. c \in {DisarmAfterTrigger(e1, f), CompleteArm(e1, f)}
    BY DEF FinishTriggered
<1> HIDE DEF e1, c
<1>3. Plain(e1, c)
    BY <1>1, <1>2, PlainDisarmAfterTrigger, PlainCompleteArm
<1>4. Books(e, c, f) /\ Muted(c)
    BY <1>1, <1>3, EndThenPlain
<1> QED BY <1>4 DEF c

LEMMA FinishAlwaysOnBooks ==
    ASSUME NEW e, Stored(e), NEW f
    PROVE  Books(e, FinishAlwaysOn(e, f), f) /\ Muted(FinishAlwaysOn(e, f))
<1> DEFINE e1 == CloseIncident(StopAll(e), f)
           x == CancelTimers(e1.z)
           z2 == [x EXCEPT !.preState = None, !.preMode = None]
           z3 == [z2 EXCEPT !.state = "armed", !.mode = e.z.preMode]
           back == With(e1, z3)
           c == FinishAlwaysOn(e, f)
<1>1. Stored(e1) /\ Books(e, e1, f) /\ Muted(e1)
    BY EndBooks
<1>2. c = Persist(IF e.z.preMode \in Modes THEN RecaptureOpenBaseline(back)
                  ELSE With(e1, ResetToDisarmed(z2)), f)
    BY DEF FinishAlwaysOn
<1> HIDE DEF e1, c
<1>3. e1.z \in Zones /\ Typed(e1)
    BY <1>1 DEF Stored, Typed, Engines
<1>4. x \in Zones /\ x.timer = "none" /\ x.incident = e1.z.incident
    BY <1>3, CancelTimersZone
<1>5. x.silencedID = e1.z.silencedID /\ x.rearmMode = e1.z.rearmMode
    BY <1>3 DEF CancelTimers, Zones
<1> HIDE DEF x
<1>6. z2 \in Zones /\ z2.incident = x.incident /\ z2.timer = x.timer
    BY <1>4, ClearPreTriggerZone
<1>7. z2.silencedID = x.silencedID /\ z2.rearmMode = x.rearmMode
    BY <1>4 DEF Zones
<1> HIDE DEF z2
<1>8. Aside(e1.z, z2)
    BY <1>4, <1>5, <1>6, <1>7 DEF Aside, Replans
<1>9. CASE e.z.preMode \in Modes
    <2>1. z3 \in Zones
        BY <1>6, <1>9 DEF Zones, States
    <2>2. z3.incident = z2.incident /\ z3.silencedID = z2.silencedID /\ z3.timer = z2.timer
          /\ z3.rearmMode = z2.rearmMode
        BY <1>6 DEF Zones
    <2> HIDE DEF z3
    <2>3. Plain(e1, back) /\ Typed(back)
        BY <1>3, <1>8, <2>1, <2>2, PlainWith, WithTyped DEF Aside, Replans
    <2> HIDE DEF back
    <2>4. Plain(e1, Persist(RecaptureOpenBaseline(back), f))
        BY <2>3, PlainRecapture, PlainPersist, PlainTrans
    <2> QED BY <1>1, <1>2, <1>9, <2>4, EndThenPlain DEF c
<1>10. CASE e.z.preMode \notin Modes
    <2>1. Plain(e1, Persist(With(e1, ResetToDisarmed(z2)), f))
        BY <1>3, <1>6, <1>8, PlainResetPersist
    <2> QED BY <1>1, <1>2, <1>10, <2>1, EndThenPlain DEF c
<1> QED BY <1>9, <1>10

\* A re-trigger cycle (p) or a re-fire (q) is accounted in memory and in the row
\* before it sounds.
Accounts(e, b, p, q) ==
    LET k == e.z.incident.id
    IN /\ b.fired = e.fired /\ b.row = e.row /\ b.horn = e.horn
       /\ b.z.silencedID = e.z.silencedID /\ b.z.timer # "pre_alarm"
       /\ b.z.rearmMode = e.z.rearmMode
       /\ b.z.incident # None /\ b.z.incident.id = k
       /\ b.z.incident.silenced <=> e.z.incident.silenced
       /\ b.z.incident.cycles = e.z.incident.cycles + p
       /\ b.z.incident.refires = e.z.incident.refires + q
       /\ Len(b.db) = Len(e.db)
       /\ \A i \in 1..Len(e.db) :
            /\ b.db[i].open <=> e.db[i].open
            /\ b.db[i].silenced <=> e.db[i].silenced
            /\ b.db[i].cycles = IF i = k THEN e.db[i].cycles + p ELSE e.db[i].cycles
            /\ b.db[i].refires = IF i = k THEN e.db[i].refires + q ELSE e.db[i].refires

LEMMA AccountsBooks ==
    ASSUME NEW e, Typed(e), e.z.incident # None, NEW b, Typed(b), NEW p \in Nat, NEW q \in Nat,
           p = 0 \/ e.z.incident.cycles + p <= ZoneConfig.maxRetriggerCycles,
           Accounts(e, b, p, q), NEW f
    PROVE  /\ Books(e, b, f)
           /\ p = 1 /\ q = 0 => (Tally(e) => Room(b))
           /\ p = 0 /\ q = 1 /\ e.z.incident.refires < LoopBreakerK => (Tally(e) => Room(b))
<1> DEFINE k == e.z.incident.id
<1>1. /\ e.db \in Seq(IncidentRows) /\ b.db \in Seq(IncidentRows) /\ e.fired \in [Ids -> Nat]
      /\ Len(e.db) \in Nat
      /\ k # 0 => k \in 1..Len(e.db)
    <2>1. k # 0 => k \in 1..Len(e.db)
        BY IncidentIndex
    <2>2. e.db \in Seq(IncidentRows) /\ b.db \in Seq(IncidentRows) /\ e.fired \in [Ids -> Nat]
        BY DEF Typed, Engines
    <2> QED BY <2>1, <2>2
<1>2. \A i \in 1..Len(e.db) :
          /\ e.db[i].cycles \in Nat /\ e.db[i].refires \in Nat
          /\ i # k => Allowed(b.db[i]) = Allowed(e.db[i])
    <2> TAKE i \in 1..Len(e.db)
    <2>1. e.db[i] \in IncidentRows
        BY <1>1
    <2>2. e.db[i].cycles \in Nat /\ e.db[i].refires \in Nat
        BY <2>1 DEF IncidentRows
    <2> QED BY <2>2 DEF Accounts, Allowed
<1>3. ASSUME k # 0
      PROVE  /\ Allowed(e.db[k]) \in Nat /\ Allowed(b.db[k]) \in Nat
             /\ Allowed(e.db[k]) <= Allowed(b.db[k])
             /\ p = 1 /\ q = 0 => Allowed(b.db[k]) = Allowed(e.db[k]) + 1
             /\ p = 0 /\ q = 1 /\ e.db[k].refires < LoopBreakerK =>
                    Allowed(b.db[k]) = Allowed(e.db[k]) + 1
    <2>1. /\ b.db[k].cycles = e.db[k].cycles + p /\ b.db[k].refires = e.db[k].refires + q
          /\ e.db[k].cycles \in Nat /\ e.db[k].refires \in Nat
        BY <1>1, <1>2, <1>3 DEF Accounts
    <2> QED BY <2>1, BoundAssumption DEF Allowed, Least
<1>4. k \in Ids \ {0} => e.fired[k] \in Nat
    BY <1>1
<1>5. \A i \in Ids \ {0} : i <= Len(e.db) => i \in 1..Len(e.db)
    BY <1>1, BoundAssumption DEF Ids
<1>6. ASSUME Tally(e) PROVE Tally(b)
    <2>1. ASSUME NEW i \in Ids \ {0}
          PROVE  IF i <= Len(b.db)
                 THEN /\ b.db[i].cycles <= ZoneConfig.maxRetriggerCycles
                      /\ b.fired[i] <= Allowed(b.db[i])
                 ELSE b.fired[i] = 0
        <3>1. CASE i > Len(e.db)
            <4>1. ~(i <= Len(b.db)) /\ ~(i <= Len(e.db))
                BY <1>1, <3>1, BoundAssumption DEF Accounts, Ids
            <4> QED BY <1>6, <4>1 DEF Tally, Accounts
        <3>2. CASE i <= Len(e.db) /\ i # k
            <4>1. i \in 1..Len(e.db) /\ Allowed(b.db[i]) = Allowed(e.db[i])
                  /\ b.db[i].cycles = e.db[i].cycles /\ Len(b.db) = Len(e.db)
                BY <1>2, <1>5, <3>2 DEF Accounts
            <4> QED BY <1>6, <3>2, <4>1 DEF Tally, Accounts
        <3>3. CASE i <= Len(e.db) /\ i = k
            <4>1. k # 0 /\ k \in 1..Len(e.db) /\ Len(b.db) = Len(e.db) /\ b.fired = e.fired
                  /\ b.db[k].cycles = e.db[k].cycles + p
                BY <1>1, <3>3 DEF Accounts
            <4>2. e.db[k].cycles <= ZoneConfig.maxRetriggerCycles /\ e.fired[k] <= Allowed(e.db[k])
                  /\ e.z.incident.cycles = e.db[k].cycles
                BY <1>6, <3>3, <4>1 DEF Tally
            <4>3. e.fired[k] <= Allowed(b.db[k])
                BY <1>3, <1>4, <3>3, <4>1, <4>2
            <4>4. b.db[k].cycles <= ZoneConfig.maxRetriggerCycles
                BY <1>2, <4>1, <4>2
            <4> QED BY <3>3, <4>1, <4>3, <4>4
        <3> QED BY <1>1, <3>1, <3>2, <3>3, BoundAssumption DEF Ids
    <2>2. k # 0 => /\ b.z.incident.cycles = b.db[k].cycles
                   /\ b.z.incident.refires = b.db[k].refires
        BY <1>1, <1>6 DEF Tally, Accounts
    <2>3. b.z.incident.id = k /\ b.z.timer # "pre_alarm"
        BY DEF Accounts
    <2> HIDE DEF k
    <2> QED BY <2>1, <2>2, <2>3 DEF Tally
<1>7. Owned(e) => Owned(b)
    <2>1. OpenRows(b.db) = OpenRows(e.db)
        BY DEF Accounts, OpenRows
    <2>2. IncidentId(b.z) = IncidentId(e.z)
        BY DEF Accounts, IncidentId
    <2> QED BY <2>1, <2>2 DEF Owned, Accounts
<1>8. Hushed(e) => Hushed(b) /\ Lasting(e.db, b.db)
    <2>1. Lasting(e.db, b.db)
        BY DEF Lasting, Accounts
    <2>2. Hushed(e) => Hushed(b)
        BY <1>1 DEF Hushed, Accounts
    <2> QED BY <2>1, <2>2
<1>9. Muted(e) => Muted(b)
    BY DEF Muted, Accounts
<1>10. ASSUME Tally(e), \/ p = 1 /\ q = 0
                        \/ p = 0 /\ q = 1 /\ e.z.incident.refires < LoopBreakerK
       PROVE  Room(b)
    <2>1. b.z.incident.id = k /\ b.z.timer # "pre_alarm" /\ b.fired = e.fired
        BY DEF Accounts
    <2>2. ASSUME k \in Ids \ {0}
          PROVE  e.fired[k] < Allowed(b.db[k])
        <3>1. /\ k \in 1..Len(e.db) /\ e.fired[k] <= Allowed(e.db[k])
              /\ e.z.incident.refires = e.db[k].refires
            BY <1>1, <1>10, <2>2 DEF Tally
        <3>2. Allowed(b.db[k]) = Allowed(e.db[k]) + 1 /\ Allowed(e.db[k]) \in Nat
            BY <1>3, <1>10, <2>2, <3>1
        <3> QED BY <1>4, <2>2, <3>1, <3>2
    <2> HIDE DEF k
    <2> QED BY <2>1, <2>2 DEF Room
<1>11. Unplanned(e, b)
    BY DEF Accounts, Unplanned, NoPlan
<1> QED BY <1>6, <1>7, <1>8, <1>9, <1>10, <1>11 DEF Books

LEMMA RetriggerCycleBooks ==
    ASSUME NEW e, Sane(e), e.z.state = "triggered", ~e.z.incident.silenced,
           e.z.incident.cycles < MaxCycles(e), NEW f
    PROVE  Books(e, RetriggerCycle(e, f), f)
<1> DEFINE inc == e.z.incident
           k == inc.id
           i2 == [inc EXCEPT !.cycles = @ + 1]
           z == [e.z EXCEPT !.incident = i2, !.timer = "trigger_time"]
           d == IF k = 0 THEN e.db ELSE [e.db EXCEPT ![k].cycles = @ + 1]
           b == [e EXCEPT !.z = z, !.db = d]
<1>1. /\ inc \in Incidents /\ inc # None
      /\ k # 0 => k \in 1..Len(e.db)
      /\ k <= Len(e.db)
    BY IncidentIndex DEF Sane, Linked, Stored, Typed
<1>2. e.z \in Zones /\ e.db \in Seq(IncidentRows) /\ Typed(e)
    BY DEF Sane, Stored, Typed, Engines
<1>3. d \in Seq(IncidentRows) /\ Len(d) = Len(e.db)
    BY <1>1, <1>2, RowUpdateTyped
<1>4. \A i \in 1..Len(e.db) :
          /\ d[i].open <=> e.db[i].open
          /\ d[i].silenced <=> e.db[i].silenced
          /\ d[i].cycles = IF i = k THEN e.db[i].cycles + 1 ELSE e.db[i].cycles
          /\ d[i].refires = e.db[i].refires
    <2>1. CASE k = 0
        BY <2>1
    <2>2. CASE k # 0
        <3>1. d = [e.db EXCEPT ![k].cycles = @ + 1] /\ k \in 1..Len(e.db)
            BY <1>1, <2>2
        <3> HIDE DEF d, k
        <3> QED BY <1>2, <3>1, RowFields
    <2> QED BY <2>1, <2>2
<1>5. i2 \in Incidents
    <2> HIDE DEF inc
    <2> QED BY <1>1 DEF Incidents
<1>6. /\ i2.id = k /\ i2.silenced = inc.silenced /\ i2.cycles = inc.cycles + 1
      /\ i2.refires = inc.refires /\ i2 # None
    <2>1. i2 # None
        BY <1>5, NoneAssumption
    <2> HIDE DEF inc
    <2> QED BY <1>1, <2>1 DEF Incidents
<1>7. [e.z EXCEPT !.incident.cycles = @ + 1, !.timer = "trigger_time"] = z
    BY <1>2 DEF Zones
<1>8. RetriggerCycle(e, f) = FireCycle(Persist(b, f), TRUE)
    <2> HIDE DEF z
    <2> QED BY <1>7 DEF RetriggerCycle
<1> HIDE DEF i2
<1>9. z \in Zones
    BY <1>2, <1>5 DEF Zones, TimerKinds
<1>10. z.incident = i2 /\ z.timer = "trigger_time" /\ z.silencedID = e.z.silencedID
       /\ z.rearmMode = e.z.rearmMode
    BY <1>2 DEF Zones
<1> HIDE DEF z, d
<1>11. Typed(b) /\ b.z = z /\ b.db = d /\ b.fired = e.fired /\ b.row = e.row /\ b.horn = e.horn
    BY <1>1, <1>2, <1>3, <1>6, <1>9, <1>10 DEF Typed, Engines
<1> HIDE DEF b
<1>12. /\ inc.cycles \in Nat /\ inc.refires \in Nat /\ inc.silenced \in BOOLEAN
       /\ ZoneConfig.maxRetriggerCycles \in Nat
    <2> HIDE DEF inc
    <2> QED BY <1>1, ConfigAssumption DEF Incidents, ZoneConfigs
<1>13. \A i \in 1..Len(e.db) : e.db[i].refires \in Nat
    <2> TAKE i \in 1..Len(e.db)
    <2>1. e.db[i] \in IncidentRows
        BY <1>2
    <2> QED BY <2>1 DEF IncidentRows
<1>14. Accounts(e, b, 1, 0)
    BY <1>3, <1>4, <1>6, <1>10, <1>11, <1>12, <1>13 DEF Accounts
<1>15. inc.cycles + 1 <= ZoneConfig.maxRetriggerCycles
    BY <1>12 DEF MaxCycles
<1>16. Books(e, b, f) /\ (Tally(e) => Room(b))
    BY <1>1, <1>2, <1>11, <1>14, <1>15, AccountsBooks
<1> DEFINE c == Persist(b, f)
<1>17. Typed(c) /\ c.z = b.z /\ c.db = b.db /\ c.fired = b.fired /\ Books(b, c, f)
    BY <1>11, PersistTyped, PlainPersist, PlainBooks DEF Plain
<1> HIDE DEF c
<1>18. Books(e, c, f)
    BY <1>16, <1>17, BooksTrans
<1>19. (Tally(e) => Room(c)) /\ c.z.incident # None /\ ~c.z.incident.silenced
    BY <1>6, <1>10, <1>11, <1>16, <1>17 DEF Room
<1> QED BY <1>8, <1>17, <1>18, <1>19, FireBooks DEF c

LEMMA RefireOnRestoreBooks ==
    ASSUME NEW e, Sane(e), e.z.state = "triggered", e.z.incident.id # 0,
           ~e.z.incident.silenced, e.z.timer # "pre_alarm", NEW f
    PROVE  Books(e, RefireOnRestore(e, f), f)
<1> DEFINE inc == e.z.incident
           k == inc.id
           i2 == [inc EXCEPT !.refires = @ + 1]
           z == [e.z EXCEPT !.incident = i2]
           d == [e.db EXCEPT ![k].refires = @ + 1]
           b == [e EXCEPT !.z = z, !.db = d]
<1>1. inc \in Incidents /\ inc # None /\ k \in 1..Len(e.db) /\ k <= Len(e.db)
    BY IncidentIndex DEF Sane, Linked, Stored, Typed
<1>2. e.z \in Zones /\ e.db \in Seq(IncidentRows) /\ Typed(e)
    BY DEF Sane, Stored, Typed, Engines
<1>3. d \in Seq(IncidentRows) /\ Len(d) = Len(e.db)
    BY <1>1, <1>2, RowUpdateTyped
<1>4. \A i \in 1..Len(e.db) :
          /\ d[i].open <=> e.db[i].open
          /\ d[i].silenced <=> e.db[i].silenced
          /\ d[i].cycles = e.db[i].cycles
          /\ d[i].refires = IF i = k THEN e.db[i].refires + 1 ELSE e.db[i].refires
    <2> HIDE DEF k
    <2> QED BY <1>1, <1>2, RowFields
<1>5. i2 \in Incidents /\ i2.id = k /\ i2.silenced = inc.silenced /\ i2.cycles = inc.cycles
      /\ i2.refires = inc.refires + 1
    <2> DEFINE n == inc.refires + 1
               x == [inc EXCEPT !.refires = n]
    <2>1. n \in Nat
        BY <1>1 DEF Incidents
    <2>2. i2 = x
        OBVIOUS
    <2> HIDE DEF n, inc
    <2>3. x \in Incidents /\ x.id = inc.id /\ x.silenced = inc.silenced /\ x.cycles = inc.cycles
          /\ x.refires = n
        BY <1>1, <2>1 DEF Incidents
    <2> HIDE DEF x
    <2> QED BY <2>2, <2>3 DEF n
<1>6. i2 # None
    BY <1>5, NoneAssumption
<1>7. [e EXCEPT !.z.incident.refires = @ + 1, !.db[inc.id].refires = @ + 1] = b
    BY <1>2 DEF Typed, Engines, Zones
<1>8. /\ RefireOnRestore(e, f) \in {e, b, FireCycle(b, TRUE)}
      /\ RefireOnRestore(e, f) = FireCycle(b, TRUE) \/ RefireOnRestore(e, f) \in {e, b}
      /\ inc.refires < LoopBreakerK \/ RefireOnRestore(e, f) \in {e, b}
    <2> HIDE DEF b
    <2> QED BY <1>7 DEF RefireOnRestore
<1> HIDE DEF i2
<1>9. z \in Zones
    BY <1>2, <1>5 DEF Zones
<1>10. z.incident = i2 /\ z.timer = e.z.timer /\ z.silencedID = e.z.silencedID
       /\ z.rearmMode = e.z.rearmMode
    BY <1>2 DEF Zones
<1> HIDE DEF z, d
<1>11. Typed(b) /\ b.z = z /\ b.db = d /\ b.fired = e.fired /\ b.row = e.row /\ b.horn = e.horn
    BY <1>1, <1>2, <1>3, <1>5, <1>9, <1>10 DEF Typed, Engines
<1> HIDE DEF b
<1>12. inc.cycles \in Nat /\ inc.refires \in Nat /\ inc.silenced \in BOOLEAN
    <2> HIDE DEF inc
    <2> QED BY <1>1 DEF Incidents
<1>13. \A i \in 1..Len(e.db) : e.db[i].cycles \in Nat
    <2> TAKE i \in 1..Len(e.db)
    <2>1. e.db[i] \in IncidentRows
        BY <1>2
    <2> QED BY <2>1 DEF IncidentRows
<1>14. Accounts(e, b, 0, 1)
    BY <1>3, <1>4, <1>5, <1>6, <1>10, <1>11, <1>12, <1>13 DEF Accounts
<1>15. Books(e, b, f) /\ (inc.refires < LoopBreakerK => (Tally(e) => Room(b)))
    BY <1>1, <1>2, <1>11, <1>14, AccountsBooks
<1>16. b.z.incident # None /\ ~b.z.incident.silenced
    BY <1>5, <1>6, <1>10, <1>11
<1>17. inc.refires < LoopBreakerK => Books(e, FireCycle(b, TRUE), f)
    BY <1>11, <1>15, <1>16, FireBooks
<1>18. Books(e, e, f)
    BY PlainSelf, PlainBooks
<1> QED BY <1>8, <1>15, <1>17, <1>18

LEMMA OnPreAlarmElapsedBooks ==
    ASSUME NEW e, NEW b, Sane(b), b.z.state = "triggered", NEW f, Books(e, b, f), Tally(e) => Room(b)
    PROVE  Books(e, OnPreAlarmElapsed(b, f), f)
<1> DEFINE z1 == [b.z EXCEPT !.preAlarm = FALSE]
           e1 == With(b, z1)
           z2 == [e1.z EXCEPT !.timer = "trigger_time"]
           e2 == With(e1, z2)
           e3 == Persist(e2, f)
<1>1. b.z \in Zones /\ Stored(b) /\ Typed(b) /\ b.z.incident # None
    BY DEF Sane, Linked, Stored, Typed, Engines
<1>2. z1 \in Zones
    BY <1>1 DEF Zones
<1>3. Aside(b.z, z1)
    BY <1>1 DEF Zones, Aside, Replans
<1>4. OnPreAlarmElapsed(b, f) = IF b.z.incident.silenced THEN FinishTriggered(e1, f)
                                ELSE FireCycle(e3, TRUE)
    BY DEF OnPreAlarmElapsed
<1> HIDE DEF z1
<1>5. Stored(e1) /\ Typed(e1) /\ e1.z = z1 /\ Plain(b, e1)
    BY <1>1, <1>2, <1>3, WithStored, PlainWith DEF Stored, Aside
<1> HIDE DEF e1
<1>6. Books(e, e1, f)
    BY <1>5, PlainBooks, BooksTrans
<1>7. CASE b.z.incident.silenced
    BY <1>4, <1>5, <1>6, <1>7, FinishTriggeredBooks, BooksTrans
<1>8. CASE ~b.z.incident.silenced
    <2>1. z2 \in Zones
        BY <1>2, <1>5 DEF Zones, TimerKinds
    <2>2. z2.incident = e1.z.incident /\ z2.silencedID = e1.z.silencedID
          /\ z2.timer = "trigger_time" /\ z2.rearmMode = e1.z.rearmMode
        BY <1>2, <1>5 DEF Zones
    <2> HIDE DEF z2
    <2>3. Aside(e1.z, z2)
        BY <2>2 DEF Aside, Replans
    <2>4. Typed(e2) /\ e2.z = z2 /\ Plain(e1, e2)
        BY <1>5, <2>1, <2>2, <2>3, WithTyped, PlainWith
    <2> HIDE DEF e2
    <2>5. Typed(e3) /\ e3.z = e2.z /\ Plain(e2, e3)
        BY <2>4, PersistTyped, PlainPersist
    <2> HIDE DEF e3
    <2>6. Books(e, e3, f)
        BY <1>6, <2>4, <2>5, PlainBooks, BooksTrans
    <2>7. e3.z.incident = b.z.incident /\ e3.z.timer = "trigger_time" /\ e3.db = b.db
          /\ e3.fired = b.fired
        BY <1>3, <1>5, <2>2, <2>4, <2>5 DEF Plain, Aside
    <2>8. Tally(e) => Room(e3)
        BY <2>7 DEF Room
    <2> QED BY <1>1, <1>4, <1>8, <2>5, <2>6, <2>7, <2>8, FireBooks
<1> QED BY <1>7, <1>8

LEMMA OnTriggerElapsedBooks ==
    ASSUME NEW e, Sane(e), e.z.state = "triggered", NEW f
    PROVE  Books(e, OnTriggerElapsed(e, f), f)
<1>1. Stored(e)
    BY DEF Sane
<1>2. CASE ~e.z.incident.silenced /\ e.z.incident.cycles < MaxCycles(e)
    BY <1>1, <1>2, RetriggerCycleBooks, FinishTriggeredBooks, FinishAlwaysOnBooks
       DEF OnTriggerElapsed
<1>3. CASE ~(~e.z.incident.silenced /\ e.z.incident.cycles < MaxCycles(e))
    BY <1>1, <1>3, FinishTriggeredBooks, FinishAlwaysOnBooks DEF OnTriggerElapsed
<1> QED BY <1>2, <1>3

LEMMA OnStateTimerFiredBooks ==
    ASSUME NEW e, Sane(e), NEW f
    PROVE  Books(e, OnStateTimerFired(e, f), f)
<1> DEFINE z == [e.z EXCEPT !.timer = "none"]
           e1 == With(e, z)
           c == OnStateTimerFired(e, f)
<1>0. e.z \in Zones /\ Typed(e) /\ Stored(e)
    BY DEF Sane, Stored, Typed, Engines
<1>1. z \in Zones
    BY <1>0 DEF Zones, TimerKinds
<1>2. z.incident = e.z.incident /\ z.silencedID = e.z.silencedID /\ z.timer = "none"
      /\ z.state = e.z.state /\ z.rearmMode = e.z.rearmMode
    BY <1>0 DEF Zones
<1> HIDE DEF z
<1>3. Aside(e.z, z)
    BY <1>2 DEF Aside, Replans
<1>4. Sane(e1) /\ Stored(e1) /\ e1.z = z /\ Plain(e, e1) /\ Books(e, e1, f)
    BY <1>0, <1>1, <1>2, <1>3, WithStored, PlainWith, PlainBooks DEF Sane, Linked
<1>5. e.z.pendingCause \in Sensors \cup {None}
    BY <1>0 DEF Zones
<1> SUFFICES Books(e, c, f)
    OBVIOUS
<1> HIDE DEF e1, c
<1>6. CASE e.z.timer = "exit_delay" /\ e.z.state = "arming"
    <2>1. c = CompleteArm(e1, f)
        BY <1>6 DEF OnStateTimerFired, e1, z, c
    <2> QED BY <1>4, <2>1, PlainCompleteArm, PlainBooks, BooksTrans
<1>7. CASE e.z.timer = "entry_delay" /\ e.z.state = "pending"
    <2>1. c = Trigger(e1, e.z.pendingCause, FALSE, f)
        BY <1>7 DEF OnStateTimerFired, e1, z, c
    <2> QED BY <1>4, <1>5, <2>1, TriggerBooks, BooksTrans
<1>8. CASE e.z.timer = "pre_alarm" /\ e.z.state = "triggered" /\ e.z.preAlarm
    <2>1. c = OnPreAlarmElapsed(e1, f)
        BY <1>8 DEF OnStateTimerFired, e1, z, c
    <2>2. ASSUME Tally(e) PROVE Room(e1)
        <3> DEFINE k == e.z.incident.id
        <3>1. e.z.incident # None /\ e1.z.incident = e.z.incident /\ e1.z.timer = "none"
              /\ e1.fired = e.fired /\ e1.db = e.db
            BY <1>2, <1>4, <1>8 DEF Sane, Linked, Plain
        <3>2. ASSUME k \in Ids \ {0}
              PROVE  e.fired[k] < Allowed(e.db[k])
            <4>1. k \in 1..Len(e.db) /\ e.fired[k] <= 1 /\ e.fired[k] \in Nat
                BY <1>0, <1>8, <2>2, <3>1, <3>2, IncidentIndex DEF Tally, Typed, Engines
            <4>2. e.db[k] \in IncidentRows
                BY <1>0, <4>1 DEF Typed, Engines
            <4> HIDE DEF k
            <4> QED BY <4>1, <4>2, AllowedTwo
        <3> QED BY <3>1, <3>2 DEF Room
    <2>3. e1.z.state = "triggered"
        BY <1>2, <1>4, <1>8
    <2> QED BY <1>4, <2>1, <2>2, <2>3, OnPreAlarmElapsedBooks
<1>9. CASE e.z.timer = "trigger_time" /\ e.z.state = "triggered"
    <2>1. c = OnTriggerElapsed(e1, f)
        BY <1>9 DEF OnStateTimerFired, e1, z, c
    <2>2. e1.z.state = "triggered"
        BY <1>2, <1>4, <1>9
    <2> QED BY <1>4, <2>1, <2>2, OnTriggerElapsedBooks, BooksTrans
<1>10. CASE /\ ~(e.z.timer = "exit_delay" /\ e.z.state = "arming")
            /\ ~(e.z.timer = "entry_delay" /\ e.z.state = "pending")
            /\ ~(e.z.timer = "pre_alarm" /\ e.z.state = "triggered" /\ e.z.preAlarm)
            /\ ~(e.z.timer = "trigger_time" /\ e.z.state = "triggered")
    <2>1. c = e1
        BY <1>10 DEF OnStateTimerFired, e1, z, c
    <2> QED BY <1>4, <2>1
<1> QED BY <1>6, <1>7, <1>8, <1>9, <1>10

LEMMA RouteActivationBooks ==
    ASSUME NEW e, Sane(e), NEW s \in Sensors, NEW f
    PROVE  Books(e, RouteActivation(e, s, f), f)
<1> DEFINE z == [e.z EXCEPT !.state = "pending", !.pendingCause = s, !.timer = "entry_delay"]
           b == With(e, z)
<1>0. e.z \in Zones /\ Typed(e)
    BY DEF Sane, Stored, Typed, Engines
<1>1. z \in Zones
    BY <1>0 DEF Zones, States, TimerKinds
<1>2. Aside(e.z, z)
    BY <1>0 DEF Zones, Aside, Replans
<1>3. RouteActivation(e, s, f) \in {Persist(b, f), Trigger(e, s, FALSE, f)}
    BY DEF RouteActivation
<1> HIDE DEF z
<1>4. Plain(e, b) /\ Typed(b)
    BY <1>0, <1>1, <1>2, PlainWith, WithTyped DEF Aside
<1> HIDE DEF b
<1>5. Books(e, Persist(b, f), f)
    BY <1>4, PlainPersist, PlainTrans, PlainBooks
<1> QED BY <1>3, <1>5, TriggerBooks

LEMMA DispatchBooks ==
    ASSUME NEW e, Sane(e), NEW s \in Sensors, NEW f
    PROVE  Books(e, DispatchSensorActivation(e, s, f), f)
<1>1. Books(e, e, f) /\ Books(e, RouteActivation(e, s, f), f)
      /\ Books(e, Trigger(e, s, FALSE, f), f)
    BY PlainSelf, PlainBooks, RouteActivationBooks, TriggerBooks
<1>2. DispatchSensorActivation(e, s, f) \in
        {e, RouteActivation(e, s, f), Trigger(e, s, FALSE, f)}
    BY DEF DispatchSensorActivation
<1> QED BY <1>1, <1>2

LEMMA GateCrossZoneBooks ==
    ASSUME NEW e, Sane(e), NEW s \in Sensors, NEW keep, NEW f
    PROVE  Books(e, GateCrossZone(e, s, keep, f), f)
<1> DEFINE z0 == [e.z EXCEPT !.hits = {}]
           z1 == [e.z EXCEPT !.hits = {s}]
           e0 == With(e, z0)
           e1 == With(e, z1)
<1>0. e.z \in Zones /\ Typed(e) /\ Stored(e)
    BY DEF Sane, Stored, Typed, Engines
<1>1. z0 \in Zones /\ z1 \in Zones
    BY <1>0 DEF Zones
<1>2. Aside(e.z, z0) /\ Aside(e.z, z1) /\ z0.state = e.z.state
    BY <1>0 DEF Zones, Aside, Replans
<1>3. GateCrossZone(e, s, keep, f) \in
        {DispatchSensorActivation(e, s, f), DispatchSensorActivation(e0, s, f), e1}
    BY DEF GateCrossZone
<1> HIDE DEF z0, z1
<1>4. Sane(e0) /\ Books(e, e0, f) /\ Books(e, e1, f)
    BY <1>0, <1>1, <1>2, WithStored, PlainWith, PlainBooks DEF Sane, Linked, Aside
<1> HIDE DEF e0, e1
<1>5. Books(e, DispatchSensorActivation(e, s, f), f)
      /\ Books(e, DispatchSensorActivation(e0, s, f), f)
    BY <1>4, DispatchBooks, BooksTrans
<1> QED BY <1>3, <1>4, <1>5

LEMMA ReEvaluateBooks ==
    ASSUME NEW e, Sane(e), NEW r, NEW w, NEW f
    PROVE  Books(e, ReEvaluate(e, r, w, f), f)
<1>1. CASE ~r \/ e.z.state # "armed"
    BY <1>1, PlainSelf, PlainBooks DEF ReEvaluate
<1>2. CASE r /\ e.z.state = "armed"
    <2> DEFINE e1 == RefreshSensorValues(e, r, w)
               gone == {s \in e.z.openAtArm \cap e.cfg.sensors : ~w[s]}
               z == [e1.z EXCEPT !.openAtArm = @ \ gone]
               b == With(e1, z)
               e2 == IF gone = {} THEN e1 ELSE Persist(b, f)
               opened == {s \in e.cfg.sensors : /\ w[s]
                                                /\ InMode(s, e.z.mode)
                                                /\ s \notin e.z.bypassed \cup e.z.openAtArm}
    <2>1. Stored(e1) /\ e1.z = e.z /\ Plain(e, e1)
        BY RefreshStored, PlainRefresh DEF Sane, Stored
    <2>2. opened \in SUBSET Sensors
        BY DEF Sane, Stored, Typed, Engines, Configs
    <2>3. ReEvaluate(e, r, w, f) = IF opened = {} THEN e2
                                   ELSE RouteActivation(e2, FirstOf(opened), f)
        BY <1>2 DEF ReEvaluate
    <2> HIDE DEF e1, gone, opened
    <2>4. e1.z \in Zones /\ Typed(e1)
        BY <2>1 DEF Stored, Typed, Engines
    <2>5. z \in Zones
        BY <2>4 DEF Zones
    <2>6. Aside(e1.z, z) /\ z.state = e1.z.state
        BY <2>4 DEF Zones, Aside, Replans
    <2> HIDE DEF z
    <2>7. Sane(e1) /\ Sane(b) /\ Plain(e1, b)
        BY <2>1, <2>4, <2>5, <2>6, WithStored, PlainWith DEF Sane, Linked, Aside
    <2> HIDE DEF b
    <2>8. Sane(Persist(b, f)) /\ Plain(b, Persist(b, f))
        BY <2>7, PersistSane, PlainPersist DEF Sane, Stored
    <2>9. Sane(e2) /\ Plain(e, e2)
        BY <2>1, <2>7, <2>8, PlainTrans
    <2> HIDE DEF e2
    <2>10. Books(e, e2, f)
        BY <2>9, PlainBooks
    <2>11. CASE opened = {}
        BY <2>3, <2>10, <2>11
    <2>12. CASE opened # {}
        <3>1. FirstOf(opened) \in Sensors
            BY <2>2, <2>12, FirstOfMember
        <3> QED BY <2>3, <2>9, <2>10, <2>12, <3>1, RouteActivationBooks, BooksTrans
    <2> QED BY <2>11, <2>12
<1> QED BY <1>1, <1>2

\* Every handler keeps the books.
LEMMA OutcomeBooks ==
    ASSUME EngineOK, NEW f, NEW e, NEW c, Like(e), Outcome(e, c, f)
    PROVE  Books(eng, c, f)
<1>1. Sane(e) /\ Stored(e) /\ Typed(e) /\ e.cfg \in Configs
    BY DEF Like, Sane, Stored, Typed, Engines
<1>2. Plain(eng, e)
    BY EngFields DEF Like, Alike, Plain, Aside, Replans, Unplanned, NoPlan
<1>3. SUFFICES Books(e, c, f)
    BY <1>2, PlainBooks, BooksTrans
<1>4. CASE Minor(e, c, f)
    <2>1. RowOf(c.z).silencedID = c.z.silencedID
        BY DEF RowOf
    <2>2. Aside(e.z, c.z) /\ Unplanned(e, c)
        BY <1>4 DEF Minor, Aside, Replans, Unplanned
    <2>3. Plain(e, c)
        BY <1>4, <2>1, <2>2 DEF Minor, Does, Saved, Plain
    <2> QED BY <2>3, PlainBooks
<1>5. ASSUME e.z.state \notin {"pending", "triggered"}, NEW m \in e.cfg.modes, NEW bypass,
             NEW force, NEW skip, c = BeginArm(e, m, bypass, force, skip, ready, world, trouble, f)
      PROVE  Books(e, c, f)
    <2>1. m \in Modes
        BY <1>1 DEF Configs
    <2> QED BY <1>1, <1>5, <2>1, PlainBeginArm, PlainBooks
<1>6. CASE c = DisarmLocked(e, f)
    BY <1>1, <1>6, DisarmLockedBooks
<1>7. CASE e.z.incident # None /\ c = Persist(SilenceIncident(e, f), f)
    <2> DEFINE b == SilenceIncident(e, f)
    <2>1. Stored(b) /\ Books(e, b, f)
        BY <1>1, <1>7, SilenceIncidentStored, SilenceIncidentBooks
    <2> HIDE DEF b
    <2>2. Books(b, Persist(b, f), f)
        BY <2>1, PlainPersist, PlainBooks DEF Stored
    <2> QED BY <1>7, <2>1, <2>2, BooksTrans DEF b
<1>8. ASSUME NEW cause \in Sensors \cup {None}, NEW loud \in BOOLEAN,
             c = AlwaysOnFire(e, cause, loud, f)
      PROVE  Books(e, c, f)
    BY <1>1, <1>8, AlwaysOnFireBooks
<1>9. ASSUME NEW s \in e.cfg.sensors, NEW keep, c = GateCrossZone(e, s, keep, f)
      PROVE  Books(e, c, f)
    <2>1. s \in Sensors
        BY <1>1 DEF Configs
    <2> QED BY <1>1, <1>9, <2>1, GateCrossZoneBooks
<1>10. ASSUME NEW s \in e.cfg.sensors, c = RouteActivation(e, s, f)
       PROVE  Books(e, c, f)
    <2>1. s \in Sensors
        BY <1>1 DEF Configs
    <2> QED BY <1>1, <1>10, <2>1, RouteActivationBooks
<1>11. CASE c = Trigger(e, None, FALSE, f)
    BY <1>1, <1>11, TriggerBooks
<1>12. CASE c = ReEvaluate(e, ready, world, f)
    BY <1>1, <1>12, ReEvaluateBooks
<1>13. CASE c = OnStateTimerFired(e, f)
    BY <1>1, <1>13, OnStateTimerFiredBooks
<1>14. CASE c = CompleteArm(e, f)
    BY <1>1, <1>14, PlainCompleteArm, PlainBooks
<1>15. CASE c = OnAutoRearmElapsed(e, ready, world, trouble, f)
    BY <1>1, <1>15, PlainOnAutoRearmElapsed, PlainBooks
<1> QED BY <1>4, <1>5, <1>6, <1>7, <1>8, <1>9, <1>10, <1>11, <1>12, <1>13, <1>14, <1>15
        DEF Outcome, Reaction

-----------------------------------------------------------------------------
\* The restores: each keeps the books of the loaded zone, and says when the zone
\* may come up disarmed.

LEMMA ZoneTweaks ==
    ASSUME NEW z \in Zones
    PROVE  /\ \A st \in States : [z EXCEPT !.state = st] \in Zones
           /\ \A m \in Modes \cup {Off} : [z EXCEPT !.mode = m] \in Zones
           /\ \A tk \in TimerKinds : [z EXCEPT !.timer = tk] \in Zones
           /\ [z EXCEPT !.preAlarm = FALSE] \in Zones
           /\ [z EXCEPT !.bypassed = {}] \in Zones
<1>1. ASSUME NEW st \in States PROVE [z EXCEPT !.state = st] \in Zones
    BY DEF Zones
<1>2. ASSUME NEW m \in Modes \cup {Off} PROVE [z EXCEPT !.mode = m] \in Zones
    BY DEF Zones
<1>3. ASSUME NEW tk \in TimerKinds PROVE [z EXCEPT !.timer = tk] \in Zones
    BY DEF Zones
<1>4. [z EXCEPT !.preAlarm = FALSE] \in Zones
    BY DEF Zones
<1>5. [z EXCEPT !.bypassed = {}] \in Zones
    BY DEF Zones
<1> QED BY <1>1, <1>2, <1>3, <1>4, <1>5

LEMMA ReEvaluateStays ==
    ASSUME NEW e, Sane(e), e.z.state # "disarmed", NEW r, NEW w, NEW f
    PROVE  ReEvaluate(e, r, w, f).z.state # "disarmed"
BY ReEvaluateDoes DEF Rests, Pends, Alarms

LEMMA PlainAutoRearmRestore ==
    ASSUME NEW e, Sane(e), NEW plausible, NEW elapsed, NEW r, NEW w, NEW tr, NEW f
    PROVE  Plain(e, OnAutoRearmRestore(e, plausible, elapsed, r, w, tr, f))
<1> DEFINE z1 == [e.z EXCEPT !.rearmMode = None]
           z2 == ScheduleAutoRearm(e.z, e.z.rearmMode)
<1>1. e.z \in Zones /\ Typed(e)
    BY DEF Sane, Stored, Typed, Engines
<1>2. Aside(e.z, z1)
    BY <1>1 DEF Zones, Aside, Replans
<1>3. Aside(e.z, z2)
    BY <1>1 DEF Zones, Aside, Replans, ScheduleAutoRearm
<1>4. OnAutoRearmRestore(e, plausible, elapsed, r, w, tr, f) \in
        {With(e, z1), OnAutoRearmElapsed(e, r, w, tr, f), With(e, z2)}
    BY DEF OnAutoRearmRestore
<1> HIDE DEF z1, z2
<1>5. Plain(e, With(e, z1)) /\ Plain(e, With(e, z2))
    BY <1>1, <1>2, <1>3, PlainWith
<1> QED BY <1>4, <1>5, PlainOnAutoRearmElapsed

LEMMA RestoreDisarmedBooks ==
    ASSUME NEW e, Stored(e), e.z.incident = None, e.z.timer = "none", NEW plausible,
           NEW elapsed, NEW r, NEW w, NEW tr, NEW f
    PROVE  Books(e, RestoreDisarmed(e, plausible, elapsed, r, w, tr, f), f)
<1> DEFINE x == [e.z EXCEPT !.state = "disarmed", !.mode = Off, !.preAlarm = FALSE]
           z == [x EXCEPT !.preState = None, !.preMode = None]
           y == [e.z EXCEPT !.state = "disarmed", !.mode = Off, !.preState = None,
                            !.preMode = None, !.preAlarm = FALSE]
           b == With(e, y)
           a == OnAutoRearmRestore(b, plausible, elapsed, r, w, tr, f)
<1>0. e.z \in Zones /\ Typed(e)
    BY DEF Stored, Typed, Engines
<1>1. x \in Zones
    <2> DEFINE x1 == [e.z EXCEPT !.state = "disarmed"]
               x2 == [x1 EXCEPT !.mode = Off]
    <2>1. x1 \in Zones
        BY <1>0, ZoneTweaks DEF States
    <2> HIDE DEF x1
    <2>2. x2 \in Zones
        BY <2>1, ZoneTweaks
    <2> HIDE DEF x2
    <2>3. [x2 EXCEPT !.preAlarm = FALSE] \in Zones
        BY <2>2, ZoneTweaks
    <2> QED BY <2>3 DEF x2, x1
<1>2. x.incident = None /\ x.state = "disarmed" /\ x.timer = "none"
      /\ x.silencedID = e.z.silencedID /\ x.rearmMode = e.z.rearmMode
    BY <1>0 DEF Zones
<1>3. y = z
    BY <1>0 DEF Zones
<1> HIDE DEF x, y
<1>4. z \in Zones /\ z.incident = None /\ z.state = "disarmed" /\ z.timer = "none"
    BY <1>1, <1>2, ClearPreTriggerZone
<1>5. z.silencedID = e.z.silencedID /\ z.rearmMode = e.z.rearmMode
    BY <1>1, <1>2 DEF Zones
<1> HIDE DEF z
<1>6. Aside(e.z, y) /\ y \in Zones
    BY <1>3, <1>4, <1>5 DEF Aside, Replans
<1>7. Sane(b) /\ Plain(e, b)
    BY <1>0, <1>3, <1>4, <1>6, WithStored, PlainWith DEF Sane, Linked
<1>8. RestoreDisarmed(e, plausible, elapsed, r, w, tr, f) = Persist(a, f)
    BY DEF RestoreDisarmed, b, y
<1> HIDE DEF b
<1>9. Sane(a) /\ Plain(b, a)
    BY <1>7, OnAutoRearmRestoreSane, PlainAutoRearmRestore DEF Keeps
<1> HIDE DEF a
<1>10. Plain(a, Persist(a, f))
    BY <1>9, PlainPersist DEF Sane, Stored
<1> QED BY <1>7, <1>8, <1>9, <1>10, PlainTrans, PlainBooks

LEMMA RestoreArmedBooks ==
    ASSUME NEW e, Stored(e), e.z.incident = None, NEW z \in Zones, Aside(e.z, z),
           z.state = "armed", NEW r, NEW w, NEW f
    PROVE  LET c == ReEvaluate(Persist(With(e, z), f), r, w, f)
           IN Books(e, c, f) /\ c.z.state # "disarmed"
<1> DEFINE b == With(e, z)
           p == Persist(b, f)
<1>1. Sane(b) /\ b.z = z /\ Plain(e, b)
    BY WithStored, PlainWith DEF Sane, Linked, Stored, Aside
<1> HIDE DEF b
<1>2. Sane(p) /\ p.z = b.z /\ Plain(b, p)
    BY <1>1, PersistSane, PlainPersist DEF Sane, Stored
<1> HIDE DEF p
<1>3. Books(e, p, f)
    BY <1>1, <1>2, PlainTrans, PlainBooks
<1>4. Books(p, ReEvaluate(p, r, w, f), f) /\ ReEvaluate(p, r, w, f).z.state # "disarmed"
    BY <1>1, <1>2, ReEvaluateBooks, ReEvaluateStays
<1>5. Books(e, ReEvaluate(p, r, w, f), f)
    BY <1>3, <1>4, BooksTrans
<1> QED BY <1>4, <1>5 DEF p, b

\* completeArm and the look at the sensors after it.
LEMMA CompleteArmBooks ==
    ASSUME NEW e, Stored(e), e.z.incident = None, NEW r, NEW w, NEW f
    PROVE  LET c == ReEvaluate(CompleteArm(e, f), r, w, f)
           IN Books(e, c, f) /\ c.z.state # "disarmed"
<1> DEFINE p == CompleteArm(e, f)
<1>1. Sane(p) /\ p.z.state = "armed" /\ Books(e, p, f)
    BY CompleteArmSane, PlainCompleteArm, PlainBooks
<1> HIDE DEF p
<1>2. Books(p, ReEvaluate(p, r, w, f), f) /\ ReEvaluate(p, r, w, f).z.state # "disarmed"
    BY <1>1, ReEvaluateBooks, ReEvaluateStays
<1>3. Books(e, ReEvaluate(p, r, w, f), f)
    BY <1>1, <1>2, BooksTrans
<1> QED BY <1>2, <1>3 DEF p

LEMMA RestoreArmingBooks ==
    ASSUME NEW e, Stored(e), e.z.incident = None, e.z.timer = "none", NEW plausible,
           NEW elapsed, NEW r, NEW w, NEW tr, NEW f
    PROVE  Books(e, RestoreArming(e, plausible, elapsed, r, w, tr, f), f)
<1> DEFINE z1 == [e.z EXCEPT !.state = "arming"]
           e0 == With(e, z1)
           e1 == RefreshSensorValues(e0, r, w)
           blocking == Blocking(e1, tr, z1.mode)
           bp == z1.bypassed \cup AutoBypass(blocking)
           z2 == [z1 EXCEPT !.bypassed = bp]
           e2 == With(e1, z2)
           z3 == [z1 EXCEPT !.timer = "exit_delay"]
           y == CancelTimers(e2.z)
           z4 == [y EXCEPT !.state = "disarmed", !.mode = Off, !.bypassed = {}]
           ca == CompleteArm(e2, f)
<1>0. e.z \in Zones /\ Typed(e)
    BY DEF Stored, Typed, Engines
<1>1. z1 \in Zones
    BY <1>0 DEF Zones, States
<1>2. Aside(e.z, z1)
    BY <1>0 DEF Zones, Aside, Replans
<1>3. RestoreArming(e, plausible, elapsed, r, w, tr, f) \in
        {Persist(With(e, z3), f), ReEvaluate(ca, r, w, f), Persist(With(e2, z4), f)}
    BY DEF RestoreArming
<1> HIDE DEF z1
<1>4. Stored(e0) /\ e0.z = z1 /\ Plain(e, e0)
    BY <1>0, <1>1, <1>2, WithStored, PlainWith DEF Aside
<1> HIDE DEF e0
<1>5. Stored(e1) /\ e1.z = z1 /\ Plain(e0, e1)
    BY <1>4, RefreshStored, PlainRefresh DEF Stored
<1>6. bp \in SUBSET Sensors
    BY <1>1, <1>5 DEF Stored, Typed, Engines, Zones, Configs, Blocking, AutoBypass
<1> HIDE DEF e1, bp
<1>7. z2 \in Zones
    BY <1>1, <1>6 DEF Zones
<1>8. Aside(e1.z, z2)
    BY <1>1, <1>5 DEF Zones, Aside, Replans
<1> HIDE DEF z2
<1>9. Stored(e2) /\ Typed(e2) /\ e2.z = z2 /\ Plain(e1, e2)
    BY <1>5, <1>7, <1>8, WithStored, PlainWith DEF Stored, Aside
<1>10. Books(e, e2, f) /\ e2.z.incident = None
    BY <1>2, <1>4, <1>5, <1>8, <1>9, PlainTrans, PlainBooks DEF Aside
<1> HIDE DEF e2
<1>11. Books(e, Persist(With(e, z3), f), f)
    <2>1. z3 \in Zones
        BY <1>1 DEF Zones, TimerKinds
    <2>2. z3.incident = z1.incident /\ z3.silencedID = z1.silencedID /\ z3.timer = "exit_delay"
          /\ z3.rearmMode = z1.rearmMode
        BY <1>1 DEF Zones
    <2> HIDE DEF z3
    <2>3. Plain(e, With(e, z3)) /\ Typed(With(e, z3))
        BY <1>0, <1>2, <2>1, <2>2, PlainWith, WithTyped DEF Aside, Replans
    <2> QED BY <2>3, PlainPersist, PlainTrans, PlainBooks
<1>12. Books(e, ReEvaluate(ca, r, w, f), f)
    BY <1>9, <1>10, CompleteArmBooks, BooksTrans
<1>13. Books(e, Persist(With(e2, z4), f), f)
    <2>1. y \in Zones /\ y.incident = e2.z.incident /\ y.timer = "none"
        BY <1>7, <1>9, CancelTimersZone
    <2>2. y.silencedID = e2.z.silencedID /\ y.rearmMode = e2.z.rearmMode
        BY <1>7, <1>9 DEF CancelTimers, Zones
    <2> HIDE DEF y
    <2>3. z4 \in Zones
        <3> DEFINE x1 == [y EXCEPT !.state = "disarmed"]
                   x2 == [x1 EXCEPT !.mode = Off]
        <3>1. x1 \in Zones
            BY <2>1, ZoneTweaks DEF States
        <3> HIDE DEF x1
        <3>2. x2 \in Zones
            BY <3>1, ZoneTweaks
        <3> HIDE DEF x2
        <3>3. [x2 EXCEPT !.bypassed = {}] \in Zones
            BY <3>2, ZoneTweaks
        <3> QED BY <3>3 DEF x2, x1
    <2>4. z4.incident = y.incident /\ z4.silencedID = y.silencedID /\ z4.timer = y.timer
          /\ z4.rearmMode = y.rearmMode
        BY <2>1 DEF Zones
    <2> HIDE DEF z4
    <2>5. Plain(e2, With(e2, z4)) /\ Typed(With(e2, z4))
        BY <1>9, <2>1, <2>2, <2>3, <2>4, PlainWith, WithTyped DEF Aside, Replans
    <2> QED BY <1>10, <2>5, PlainPersist, PlainTrans, PlainBooks, BooksTrans
<1> HIDE DEF z3, z4, ca
<1> QED BY <1>3, <1>11, <1>12, <1>13

LEMMA RestorePendingBooks ==
    ASSUME NEW e, Stored(e), e.z.incident = None, e.z.timer = "none", NEW plausible,
           NEW elapsed, NEW r, NEW w, NEW f
    PROVE  LET c == RestorePending(e, plausible, elapsed, r, w, f)
           IN Books(e, c, f) /\ c.z.state # "disarmed"
<1> DEFINE z1 == [e.z EXCEPT !.state = "armed", !.pendingCause = None]
           z2 == [e.z EXCEPT !.state = "armed"]
           z3 == [e.z EXCEPT !.state = "pending", !.timer = "entry_delay"]
           e1 == ReEvaluate(Persist(With(e, z1), f), r, w, f)
           b2 == With(e, z2)
           e2 == Trigger(b2, e.z.pendingCause, TRUE, f)
           b3 == With(e, z3)
           e3 == Persist(b3, f)
           c == RestorePending(e, plausible, elapsed, r, w, f)
<1>0. e.z \in Zones /\ Typed(e) /\ e.z.pendingCause \in Sensors \cup {None}
    BY DEF Stored, Typed, Engines, Zones
<1>1. z2 \in Zones
    BY <1>0 DEF Zones, States
<1>2. z1 \in Zones
    <2>1. z1 = [z2 EXCEPT !.pendingCause = None]
        BY <1>0 DEF Zones
    <2> HIDE DEF z1, z2
    <2> QED BY <1>1, <2>1 DEF Zones
<1>3. z3 \in Zones
    <2> DEFINE x1 == [e.z EXCEPT !.state = "pending"]
    <2>1. x1 \in Zones
        BY <1>0, ZoneTweaks DEF States
    <2> HIDE DEF x1
    <2>2. [x1 EXCEPT !.timer = "entry_delay"] \in Zones
        BY <2>1, ZoneTweaks DEF TimerKinds
    <2> QED BY <2>2 DEF x1
<1>4. Aside(e.z, z1) /\ Aside(e.z, z2) /\ Aside(e.z, z3) /\ z1.state = "armed"
      /\ z2.state = "armed" /\ z3.state = "pending"
    BY <1>0 DEF Zones, Aside, Replans
<1>5. c \in {e1, e2, e3}
    BY DEF RestorePending
<1> HIDE DEF z1, z2, z3
<1>6. Books(e, e1, f) /\ e1.z.state # "disarmed"
    BY <1>2, <1>4, RestoreArmedBooks
<1>7. Books(e, e2, f) /\ e2.z.state # "disarmed"
    <2>1. Sane(b2) /\ b2.z = z2 /\ Plain(e, b2)
        BY <1>0, <1>1, <1>4, WithStored, PlainWith DEF Sane, Linked, Aside
    <2> HIDE DEF b2
    <2>2. Books(b2, e2, f) /\ Alarms(b2.z, e2.z)
        BY <1>0, <1>4, <2>1, TriggerBooks, TriggerDoes DEF ArmedSide
    <2> HIDE DEF e2
    <2> QED BY <2>1, <2>2, PlainBooks, BooksTrans DEF Alarms
<1>8. Books(e, e3, f) /\ e3.z.state # "disarmed"
    <2>1. Typed(b3) /\ b3.z = z3 /\ Plain(e, b3)
        BY <1>0, <1>3, <1>4, WithTyped, PlainWith DEF Aside
    <2> HIDE DEF b3
    <2>2. Plain(b3, e3) /\ e3.z = b3.z
        BY <2>1, PlainPersist, PersistTyped
    <2> HIDE DEF e3
    <2> QED BY <1>4, <2>1, <2>2, PlainTrans, PlainBooks
<1> HIDE DEF c, e1, e2, e3
<1>9. Books(e, c, f) /\ c.z.state # "disarmed"
    BY <1>5, <1>6, <1>7, <1>8
<1> QED BY <1>9 DEF c

LEMMA FinishTriggeredOnRestoreBooks ==
    ASSUME NEW e, Stored(e), NEW r, NEW w, NEW f
    PROVE  LET c == FinishTriggeredOnRestore(e, r, w, f)
           IN /\ Books(e, c, f) /\ Muted(c)
              /\ ZoneConfig.postTrigger # "disarm" => c.z.state # "disarmed"
<1> DEFINE e1 == CloseIncident(StopAll(e), f)
           z == [e1.z EXCEPT !.preState = None, !.preMode = None]
           e2 == With(e1, z)
           c1 == DisarmAfterTrigger(e2, f)
           c2 == ReEvaluate(CompleteArm(e2, f), r, w, f)
           c == FinishTriggeredOnRestore(e, r, w, f)
<1>1. Stored(e1) /\ e1.z.incident = None /\ Books(e, e1, f) /\ Muted(e1)
    BY EndBooks
<1>2. c = IF ZoneConfig.postTrigger = "disarm" THEN c1 ELSE c2
    BY DEF FinishTriggeredOnRestore
<1> HIDE DEF e1, c
<1>3. e1.z \in Zones /\ Typed(e1)
    BY <1>1 DEF Stored, Typed, Engines
<1>4. z \in Zones /\ z.incident = e1.z.incident /\ z.timer = e1.z.timer
    BY <1>3, ClearPreTriggerZone
<1>5. z.silencedID = e1.z.silencedID /\ z.rearmMode = e1.z.rearmMode
    BY <1>3 DEF Zones
<1> HIDE DEF z
<1>6. Stored(e2) /\ e2.z.incident = None /\ Plain(e1, e2)
    BY <1>1, <1>3, <1>4, <1>5, WithStored, PlainWith DEF Aside, Replans
<1>7. Books(e, e2, f) /\ Muted(e2)
    BY <1>1, <1>6, EndThenPlain
<1> HIDE DEF e2
<1>8. Books(e2, c1, f) /\ Books(e2, c2, f) /\ c2.z.state # "disarmed"
    BY <1>6, PlainDisarmAfterTrigger, PlainBooks, CompleteArmBooks
<1> HIDE DEF c1, c2
<1>9. Books(e2, c, f)
    BY <1>2, <1>8
<1>10. Books(e, c, f) /\ Muted(c)
    BY <1>7, <1>9, BooksTrans DEF Books
<1>11. ZoneConfig.postTrigger # "disarm" => c.z.state # "disarmed"
    BY <1>2, <1>8
<1> QED BY <1>10, <1>11 DEF c

LEMMA RestoreTriggeredBooks ==
    ASSUME NEW e, Stored(e), e.z.incident # None => e.z.incident.id # 0, NEW plausible,
           NEW elapsed, NEW r, NEW w, NEW f
    PROVE  LET c == RestoreTriggered(e, plausible, elapsed, r, w, f)
           IN /\ Books(e, c, f) /\ Muted(c)
              /\ ZoneConfig.postTrigger # "disarm" /\ (e.z.preState # None => e.z.preMode \in Modes)
                    => c.z.state # "disarmed"
<1> DEFINE z1 == [e.z EXCEPT !.state = "triggered"]
           z2 == [z1 EXCEPT !.preAlarm = FALSE]
           z3 == [z2 EXCEPT !.timer = "trigger_time"]
           b1 == With(e, z1)
           b2 == With(e, z2)
           b3 == With(e, z3)
           e3 == Persist(b3, f)
           c == RestoreTriggered(e, plausible, elapsed, r, w, f)
<1>0. e.z \in Zones /\ Typed(e)
    BY DEF Stored, Typed, Engines
<1>1. z1 \in Zones
    <2>1. e.z \in Zones
        BY <1>0
    <2> QED BY <2>1 DEF Zones, States
<1>2. Aside(e.z, z1) /\ z1.state = "triggered" /\ z1.preState = e.z.preState
      /\ z1.preMode = e.z.preMode
    BY <1>0 DEF Zones, Aside, Replans
<1>3. c = IF e.z.incident = None THEN FinishTriggeredOnRestore(b1, r, w, f)
          ELSE IF plausible /\ elapsed /\ ~e.z.preAlarm
               THEN IF e.z.preState # None THEN FinishAlwaysOn(b2, f)
                    ELSE FinishTriggeredOnRestore(b2, r, w, f)
               ELSE IF e.z.incident.silenced THEN StopAll(e3)
                    ELSE IF plausible THEN RefireOnRestore(e3, f) ELSE e3
    BY DEF RestoreTriggered
<1> HIDE DEF z1
<1>4. z2 \in Zones
    BY <1>1 DEF Zones
<1>5. Aside(e.z, z2) /\ z2.state = "triggered" /\ z2.preState = e.z.preState
      /\ z2.preMode = e.z.preMode
    BY <1>1, <1>2 DEF Zones, Aside, Replans
<1> HIDE DEF z2
<1>6. z3 \in Zones
    BY <1>4 DEF Zones, TimerKinds
<1>7. Aside(e.z, z3) /\ z3.state = "triggered" /\ z3.timer = "trigger_time"
    BY <1>4, <1>5 DEF Zones, Aside, Replans
<1> HIDE DEF z3
<1> SUFFICES /\ Books(e, c, f) /\ Muted(c)
             /\ ZoneConfig.postTrigger # "disarm" /\ (e.z.preState # None => e.z.preMode \in Modes)
                    => c.z.state # "disarmed"
    OBVIOUS
<1> HIDE DEF c
<1>8. Stored(b1) /\ Plain(e, b1) /\ Stored(b2) /\ Plain(e, b2) /\ b2.z = z2
    BY <1>0, <1>1, <1>2, <1>4, <1>5, WithStored, PlainWith DEF Aside
<1>9. Stored(b3) /\ Plain(e, b3) /\ b3.z = z3
    BY <1>0, <1>6, <1>7, WithStored, PlainWith DEF Aside
<1> HIDE DEF b1, b2, b3
<1>10. Books(e, b1, f) /\ Books(e, b2, f) /\ Books(e, b3, f)
    BY <1>8, <1>9, PlainBooks
<1>11. CASE e.z.incident = None
    <2>1. c = FinishTriggeredOnRestore(b1, r, w, f)
        BY <1>3, <1>11
    <2> QED BY <1>8, <1>10, <2>1, FinishTriggeredOnRestoreBooks, BooksTrans
<1>12. CASE e.z.incident # None /\ plausible /\ elapsed /\ ~e.z.preAlarm /\ e.z.preState = None
    <2>1. c = FinishTriggeredOnRestore(b2, r, w, f)
        BY <1>3, <1>12
    <2> QED BY <1>8, <1>10, <2>1, FinishTriggeredOnRestoreBooks, BooksTrans
<1>13. CASE e.z.incident # None /\ plausible /\ elapsed /\ ~e.z.preAlarm /\ e.z.preState # None
    <2>1. c = FinishAlwaysOn(b2, f)
        BY <1>3, <1>13
    <2>2. Books(e, c, f) /\ Muted(c)
        BY <1>8, <1>10, <2>1, FinishAlwaysOnBooks, BooksTrans
    <2>3. ASSUME e.z.preMode \in Modes PROVE c.z.state # "disarmed"
        <3>1. b2.z.state = "triggered" /\ b2.z.preMode \in Modes
            BY <1>5, <1>8, <2>3
        <3>2. PICK b : c = Persist(b, f) /\ Stored(b) /\ Returns(b2.cfg, b2.z, b.z)
            BY <1>8, <2>1, <3>1, FinishAlwaysOnFields
        <3>3. c.z = b.z
            BY <3>2, PersistTyped DEF Stored
        <3> QED BY <3>2, <3>3 DEF Returns
    <2> QED BY <1>13, <2>2, <2>3
<1>14. CASE e.z.incident # None /\ ~(plausible /\ elapsed /\ ~e.z.preAlarm)
    <2>1. Sane(b3) /\ Typed(b3)
        BY <1>7, <1>9, <1>14 DEF Sane, Linked, Aside, Stored
    <2>2. Sane(e3) /\ e3.z = z3 /\ Typed(e3) /\ Plain(b3, e3)
        BY <1>9, <2>1, PersistSane, PersistTyped, PlainPersist
    <2> HIDE DEF e3
    <2>3. Books(e, e3, f)
        BY <1>10, <2>2, PlainBooks, BooksTrans
    <2>4. e3.z.incident = e.z.incident /\ e3.z.state = "triggered" /\ e3.z.timer # "pre_alarm"
        BY <1>7, <2>2 DEF Aside
    <2>5. CASE e.z.incident.silenced
        <3>1. c = StopAll(e3)
            BY <1>3, <1>14, <2>5
        <3>2. c.z = e3.z /\ Plain(e3, c) /\ Muted(c)
            BY <2>2, <3>1, PlainStopAll, StopAllTyped
        <3> QED BY <2>3, <2>4, <3>2, PlainBooks, BooksTrans
    <2>6. CASE ~e.z.incident.silenced
        <3>1. c \in {RefireOnRestore(e3, f), e3}
            BY <1>3, <1>14, <2>6
        <3>2. Books(e3, RefireOnRestore(e3, f), f) /\ Same(e3.z, RefireOnRestore(e3, f).z)
            BY <1>14, <2>2, <2>4, <2>6, RefireOnRestoreBooks, RefireOnRestoreLike
        <3>3. Books(e3, e3, f) /\ Same(e3.z, e3.z)
            BY PlainSelf, PlainBooks DEF Same
        <3>4. Books(e3, c, f) /\ Same(e3.z, c.z)
            BY <3>1, <3>2, <3>3
        <3>5. Muted(e3)
            BY <2>4, <2>6 DEF Muted
        <3>6. Muted(c)
            BY <3>4, <3>5 DEF Books
        <3> QED BY <2>3, <2>4, <3>4, <3>6, BooksTrans DEF Same
    <2> QED BY <2>5, <2>6
<1> QED BY <1>11, <1>12, <1>13, <1>14

\* A state row and the incident table behind it: the open row, if any, is the one
\* the state row names, and a triggered row names one.
Tidy(r, d) ==
    /\ OpenRows(d) = {r.incident} \ {0}
    /\ r.state = "triggered" => r.incident # 0

\* What restoreZone reads back: the counters of the incident row, its silence or
\* the state row's, and the incident the row names.
LEMMA LoadRowBooks ==
    ASSUME NEW e, Stored(e), NEW readable \in BOOLEAN, NEW f
    PROVE  LET c == LoadRow(e, readable, f)
           IN /\ Tally(e) => Tally(c)
              /\ readable /\ f = {} /\ Tidy(e.row, e.db) =>
                    Owned(c) /\ (e.row.state = "triggered" => c.z.incident # None)
              /\ "inc" \notin f /\ Hushed(e) => Hushed(c) /\ Lasting(e.db, c.db)
<1> DEFINE R == e.row
           byRow == readable /\ R.incident \in OpenRows(e.db)
           orphan == readable /\ ~byRow /\ OpenRows(e.db) # {}
           adopt == orphan /\ R.state = "triggered"
           last == Newest(OpenRows(e.db))
           id == IF byRow THEN R.incident ELSE IF adopt THEN last ELSE 0
           marked == id # 0 /\ R.silencedID = id
           rec == e.db[id]
           sil == rec.silenced \/ marked
           inc == [id |-> id, cause |-> rec.cause, silenced |-> sil,
                   cycles |-> rec.cycles, refires |-> rec.refires]
           sid == IF marked THEN id ELSE 0
           i2 == IF id = 0 THEN None ELSE inc
           x == ZoneOf(R)
           y == [x EXCEPT !.silencedID = sid, !.incident = i2]
           closed == [e.db EXCEPT ![last].open = FALSE]
           still == [e.db EXCEPT ![id].silenced = TRUE]
           d == IF orphan /\ ~adopt /\ "close" \notin f THEN closed
                ELSE IF marked /\ "inc" \notin f THEN still
                ELSE e.db
           c == LoadRow(e, readable, f)
<1>1. e.db \in Seq(IncidentRows) /\ R \in Rows /\ OpenRows(e.db) \subseteq 1..Len(e.db)
      /\ Len(e.db) \in Nat
    BY DEF Stored, Typed, Engines, OpenRows
<1>2. orphan => last \in OpenRows(e.db)
    BY <1>1, NewestMember
<1>3. id = 0 \/ id \in 1..Len(e.db)
    BY <1>1, <1>2
<1>4. c = [e EXCEPT !.z = y, !.db = d]
    BY DEF LoadRow
<1>5. Len(d) = Len(e.db)
    BY <1>1, <1>2, <1>3, RowUpdateTyped
<1>6. ASSUME NEW i \in 1..Len(e.db)
      PROVE  /\ d[i].cycles = e.db[i].cycles /\ d[i].refires = e.db[i].refires
             /\ d[i].silenced <=> e.db[i].silenced \/ (i = id /\ marked /\ "inc" \notin f)
             /\ ~orphan => (d[i].open <=> e.db[i].open)
    <2>1. CASE orphan /\ ~adopt /\ "close" \notin f
        <3>1. d = closed /\ last \in 1..Len(e.db) /\ id = 0
            BY <1>1, <1>2, <2>1
        <3>2. /\ closed[i].silenced <=> e.db[i].silenced
              /\ closed[i].cycles = e.db[i].cycles /\ closed[i].refires = e.db[i].refires
            BY <1>1, <3>1, RowFields
        <3> HIDE DEF closed, d, id, orphan
        <3> QED BY <2>1, <3>1, <3>2
    <2>2. CASE ~(orphan /\ ~adopt /\ "close" \notin f) /\ marked /\ "inc" \notin f
        <3>1. d = still /\ id \in 1..Len(e.db)
            BY <1>3, <2>2
        <3> HIDE DEF id
        <3>2. /\ still[i].open <=> e.db[i].open
              /\ still[i].silenced <=> e.db[i].silenced \/ i = id
              /\ still[i].cycles = e.db[i].cycles /\ still[i].refires = e.db[i].refires
            BY <1>1, <3>1, RowFields
        <3> HIDE DEF still, d, id, orphan, marked
        <3> QED BY <2>2, <3>1, <3>2
    <2>3. CASE ~(orphan /\ ~adopt /\ "close" \notin f) /\ ~(marked /\ "inc" \notin f)
        <3>1. d = e.db
            BY <2>3
        <3> HIDE DEF d, id, orphan, marked
        <3> QED BY <2>3, <3>1
    <2> HIDE DEF d, id, orphan, marked, adopt
    <2> QED BY <2>1, <2>2, <2>3
<1>7. R.incident \in OpenRows(e.db) /\ readable => id = R.incident /\ ~orphan
    OBVIOUS
<1>8. marked => id # 0 /\ R.silencedID = id
    OBVIOUS
<1>9. marked \in BOOLEAN
    OBVIOUS
<1>10. /\ id # 0 => i2 = inc
       /\ id = 0 => i2 = None
       /\ inc.id = id /\ inc.cycles = rec.cycles /\ inc.refires = rec.refires
       /\ inc.silenced <=> sil
    OBVIOUS
<1>11. R.incident \notin OpenRows(e.db) /\ OpenRows(e.db) = {} => ~orphan /\ id = 0
    OBVIOUS
<1>12. id # 0 => marked \/ sid = 0
    OBVIOUS
<1>13. sid \in {0, R.silencedID}
    OBVIOUS
<1>14. id # 0 => inc \in Incidents
    <2>1. SUFFICES ASSUME id \in 1..Len(e.db) PROVE inc \in Incidents
        BY <1>3
    <2>2. rec \in IncidentRows /\ sil \in BOOLEAN
        BY <1>1, <2>1
    <2> HIDE DEF rec, sil, id
    <2> QED BY <1>1, <2>1, <2>2 DEF Incidents, IncidentRows
<1> SUFFICES /\ Tally(e) => Tally(c)
             /\ readable /\ f = {} /\ Tidy(e.row, e.db) =>
                    Owned(c) /\ (e.row.state = "triggered" => c.z.incident # None)
             /\ "inc" \notin f /\ Hushed(e) => Hushed(c) /\ Lasting(e.db, c.db)
    OBVIOUS
<1>15. y.incident = i2 /\ y.silencedID = sid /\ y.timer = "none"
    <2>1. x \in Zones /\ x.timer = "none"
        BY <1>1 DEF ZoneOf, Zones, Rows, States, TimerKinds
    <2> HIDE DEF x, i2, sid
    <2> QED BY <2>1 DEF Zones
<1> HIDE DEF y
<1>16. c.z = y /\ c.db = d /\ c.row = e.row /\ c.fired = e.fired
    <2> HIDE DEF c, d
    <2> QED BY <1>4 DEF Stored, Typed, Engines
<1> HIDE DEF c, d, inc, i2, id, marked, sid, orphan, byRow, adopt, last
<1>17. Tally(e) => Tally(c)
    <2>1. SUFFICES ASSUME Tally(e) PROVE Tally(c)
        OBVIOUS
    <2>2. ASSUME NEW i \in Ids \ {0}
          PROVE  IF i <= Len(c.db)
                 THEN c.db[i].cycles <= ZoneConfig.maxRetriggerCycles
                      /\ c.fired[i] <= Allowed(c.db[i])
                 ELSE c.fired[i] = 0
        <3>1. i \in Nat /\ i # 0
            BY BoundAssumption DEF Ids
        <3> QED BY <1>1, <1>5, <1>6, <1>16, <2>1, <3>1 DEF Tally, Allowed
    <2>3. ASSUME c.z.incident # None
          PROVE  LET i == c.z.incident.id
                 IN c.z.incident.cycles = c.db[i].cycles /\ c.z.incident.refires = c.db[i].refires
        <3>1. id \in 1..Len(e.db) /\ c.z.incident = inc
            BY <1>3, <1>10, <1>15, <1>16, <2>3
        <3>2. d[id].cycles = rec.cycles /\ d[id].refires = rec.refires
            BY <1>6, <3>1
        <3> HIDE DEF rec
        <3> QED BY <1>10, <1>16, <3>1, <3>2
    <2>4. c.z.timer # "pre_alarm"
        BY <1>15, <1>16
    <2> QED BY <2>2, <2>3, <2>4 DEF Tally
<1>18. ASSUME readable, f = {}, Tidy(e.row, e.db)
       PROVE  Owned(c) /\ (e.row.state = "triggered" => c.z.incident # None)
    <2>1. R.incident = id /\ ~orphan
        <3>1. CASE R.incident = 0
            BY <1>1, <1>11, <1>18, <3>1 DEF Tidy
        <3>2. CASE R.incident # 0
            BY <1>7, <1>18, <3>2 DEF Tidy
        <3> QED BY <3>1, <3>2
    <2>2. OpenRows(d) = OpenRows(e.db)
        BY <1>1, <1>5, <1>6, <2>1 DEF OpenRows
    <2>3. id # 0 => i2 # None
        BY <1>10, <1>14, NoneAssumption
    <2>4. IncidentId(c.z) = id /\ (c.z.incident # None => c.z.incident.id # 0)
        BY <1>10, <1>15, <1>16, <2>3 DEF IncidentId
    <2> QED BY <1>15, <1>16, <1>18, <2>1, <2>2, <2>3, <2>4 DEF Tidy, Owned
<1>19. ASSUME "inc" \notin f, Hushed(e)
       PROVE  Hushed(c) /\ Lasting(e.db, c.db)
    <2>1. Lasting(e.db, c.db)
        BY <1>5, <1>6, <1>16 DEF Lasting
    <2>2. ASSUME NEW i \in {c.row.silencedID, c.z.silencedID} \ {0}
          PROVE  i \in 1..Len(c.db) /\ c.db[i].silenced
        <3>1. i \in {e.row.silencedID} \ {0}
            BY <1>13, <1>15, <1>16, <2>2
        <3> QED BY <1>19, <2>1, <3>1 DEF Hushed, Lasting
    <2>3. ASSUME c.z.incident # None
          PROVE  c.z.incident.silenced <=> c.db[c.z.incident.id].silenced
        <3>1. id \in 1..Len(e.db) /\ c.z.incident = inc
            BY <1>3, <1>10, <1>15, <1>16, <2>3
        <3>2. d[id].silenced <=> rec.silenced \/ marked
            BY <1>6, <1>19, <3>1
        <3> HIDE DEF rec
        <3> QED BY <1>10, <1>16, <3>1, <3>2
    <2> QED BY <2>1, <2>2, <2>3 DEF Hushed
<1> QED BY <1>17, <1>18, <1>19

\* What a restore of the row never does: leave the zone off, but where the row, the
\* failed exit delay, the post-trigger policy or an interrupted alarm says so.
Guarded(r, z) ==
    z.state = "disarmed" =>
        \/ r.state \in {"disarmed", "arming"}
        \/ r.state = "triggered" /\ (\/ ZoneConfig.postTrigger = "disarm"
                                     \/ r.preState # None /\ r.preMode \notin Modes)

LEMMA RestoreZoneBooks ==
    ASSUME NEW e, Stored(e), NEW readable, NEW plausible, NEW elapsed, NEW r, NEW w,
           NEW tr, NEW f
    PROVE  LET c == RestoreZone(e, readable, plausible, elapsed, r, w, tr, f)
           IN Books(LoadRow(e, readable, f), c, f) /\ Muted(c) /\ Guarded(e.row, c.z)
<1> DEFINE e1 == LoadRow(e, readable, f)
           z == [e1.z EXCEPT !.state = "armed"]
           p == Persist(With(e1, z), f)
           c == RestoreZone(e, readable, plausible, elapsed, r, w, tr, f)
<1>1. /\ Stored(e1) /\ e1.z.timer = "none"
      /\ e1.z.incident # None => e1.z.incident.id # 0
      /\ e.row.state # "triggered" => e1.z.incident = None
      /\ e1.z.preState = e.row.preState /\ e1.z.preMode = e.row.preMode
    BY LoadRowStored, LoadRowLoads DEF Loaded
<1>2. e.row.state \in States
    BY DEF Stored, Typed, Engines, Rows
<1> SUFFICES Books(e1, c, f) /\ Muted(c) /\ Guarded(e.row, c.z)
    OBVIOUS
<1>3. ASSUME e.row.state # "triggered", Books(e1, c, f) PROVE Muted(c)
    BY <1>1, <1>3 DEF Books, Muted
<1>4. CASE e.row.state = "disarmed"
    <2>1. c = RestoreDisarmed(e1, plausible, elapsed, r, w, tr, f)
        BY <1>4 DEF RestoreZone
    <2> HIDE DEF e1, c
    <2>2. Books(e1, c, f)
        BY <1>1, <1>4, <2>1, RestoreDisarmedBooks
    <2> QED BY <1>3, <1>4, <2>2 DEF Guarded
<1>5. CASE e.row.state = "armed"
    <2>1. c = ReEvaluate(p, r, w, f)
        BY <1>5 DEF RestoreZone
    <2> HIDE DEF e1, c
    <2>2. e1.z \in Zones
        BY <1>1 DEF Stored, Typed, Engines
    <2>3. z \in Zones
        BY <2>2 DEF Zones, States
    <2>4. Aside(e1.z, z) /\ z.state = "armed"
        BY <2>2 DEF Zones, Aside, Replans
    <2> HIDE DEF z
    <2>5. Books(e1, c, f) /\ c.z.state # "disarmed"
        BY <1>1, <1>5, <2>1, <2>3, <2>4, RestoreArmedBooks
    <2> QED BY <1>3, <1>5, <2>5 DEF Guarded
<1>6. CASE e.row.state = "arming"
    <2>1. c = RestoreArming(e1, plausible, elapsed, r, w, tr, f)
        BY <1>6 DEF RestoreZone
    <2> HIDE DEF e1, c
    <2>2. Books(e1, c, f)
        BY <1>1, <1>6, <2>1, RestoreArmingBooks
    <2> QED BY <1>3, <1>6, <2>2 DEF Guarded
<1>7. CASE e.row.state = "pending"
    <2>1. c = RestorePending(e1, plausible, elapsed, r, w, f)
        BY <1>7 DEF RestoreZone
    <2> HIDE DEF e1, c
    <2>2. Books(e1, c, f) /\ c.z.state # "disarmed"
        BY <1>1, <1>7, <2>1, RestorePendingBooks
    <2> QED BY <1>3, <1>7, <2>2 DEF Guarded
<1>8. CASE e.row.state = "triggered"
    <2>1. c = RestoreTriggered(e1, plausible, elapsed, r, w, f)
        BY <1>8 DEF RestoreZone
    <2> HIDE DEF e1, c
    <2>2. /\ Books(e1, c, f) /\ Muted(c)
          /\ ZoneConfig.postTrigger # "disarm" /\ (e1.z.preState # None => e1.z.preMode \in Modes)
                => c.z.state # "disarmed"
        BY <1>1, <2>1, RestoreTriggeredBooks
    <2> QED BY <1>1, <1>8, <2>2 DEF Guarded
<1> QED BY <1>2, <1>4, <1>5, <1>6, <1>7, <1>8 DEF States

\* What Start leaves of the ledger, however the store answers.
LEMMA StartBooks ==
    ASSUME EngineOK, stored \in Configs, NEW readable \in BOOLEAN, NEW plausible, NEW elapsed,
           NEW rdy, NEW f
    PROVE  LET c == StartZone(eng, readable, plausible, elapsed, rdy, f)
               b == LoadRow(Booted(rdy), readable, f)
           IN /\ Tally(eng) => Tally(c)
              /\ readable /\ f = {} /\ Tidy(row, db) =>
                    Owned(c) /\ (row.state = "triggered" => b.z.incident # None)
              /\ "inc" \notin f /\ Hushed(eng) => Hushed(c) /\ Lasting(db, c.db)
              /\ Muted(c) /\ Guarded(row, c.z) /\ Unplanned(eng, c)
<1> DEFINE e == Booted(rdy)
           b == LoadRow(e, readable, f)
           tr == [s \in Sensors |-> {}]
           c == RestoreZone(e, readable, plausible, elapsed, rdy, world, tr, f)
<1>1. StartZone(eng, readable, plausible, elapsed, rdy, f) = c
    BY DEF StartZone, Booted
<1>2. Stored(e) /\ e.row = row /\ e.db = db /\ e.fired = fired
    BY BootedFields
<1>3. e.z = zone
    <2> DEFINE e0 == [eng EXCEPT !.cfg = stored]
    <2>1. Typed(eng) /\ eng.z = zone
        BY LikeEng, EngFields
    <2>2. Typed(e0) /\ e0.z = zone
        BY <2>1 DEF Typed, Engines
    <2>3. e = RefreshSensorValues(e0, rdy, world)
        BY DEF Booted
    <2> HIDE DEF e0, e
    <2> QED BY <2>2, <2>3, RefreshFields
<1>4. eng.z = zone /\ eng.row = row /\ eng.db = db /\ eng.fired = fired
    BY DEF eng
<1> HIDE DEF e
<1>5. (Tally(eng) <=> Tally(e)) /\ (Hushed(eng) <=> Hushed(e))
    BY <1>2, <1>3, <1>4 DEF Tally, Hushed
<1>6. /\ Tally(e) => Tally(b)
      /\ readable /\ f = {} /\ Tidy(row, db) =>
            Owned(b) /\ (row.state = "triggered" => b.z.incident # None)
      /\ "inc" \notin f /\ Hushed(e) => Hushed(b) /\ Lasting(db, b.db)
    BY <1>2, LoadRowBooks
<1>7. Books(b, c, f) /\ Muted(c) /\ Guarded(row, c.z)
    BY <1>2, RestoreZoneBooks
<1>10. NoPlan(eng) => NoPlan(b)
    BY <1>2, <1>4, LoadRowLoads DEF NoPlan, Loaded
<1> HIDE DEF b, c
<1>8. Lasting(db, b.db) /\ Lasting(b.db, c.db) => Lasting(db, c.db)
    BY DEF Lasting
<1>9. /\ Tally(eng) => Tally(c)
      /\ readable /\ f = {} /\ Tidy(row, db) =>
            Owned(c) /\ (row.state = "triggered" => b.z.incident # None)
      /\ "inc" \notin f /\ Hushed(eng) => Hushed(c) /\ Lasting(db, c.db)
    BY <1>5, <1>6, <1>7, <1>8 DEF Books
<1>11. Unplanned(eng, c)
    BY <1>7, <1>10 DEF Books, Unplanned
<1> QED BY <1>1, <1>7, <1>9, <1>11 DEF b, e

LEMMA ReloadConfigBooks ==
    ASSUME NEW e, Sane(e), NEW k \in Configs, NEW r, NEW w, NEW f
    PROVE  Books(e, ReloadConfig(e, k, r, w, f), f)
<1> DEFINE e1 == [e EXCEPT !.cfg = k]
           e2 == IF e.z.mode \in Modes \ k.modes THEN DisarmLocked(e1, f) ELSE e1
           kept == e.cfg.sensors \cap k.sensors
           z == PruneSensors(e2.z, k.sensors)
           v == [s \in Sensors |-> IF s \in kept THEN e2.view[s] ELSE "unknown"]
           e3 == [e2 EXCEPT !.z = z, !.view = v]
           e4 == RefreshSensorValues(e3, r, w)
<1>1. ReloadConfig(e, k, r, w, f) = Persist(e4, f)
    BY DEF ReloadConfig
<1>2. Sane(e1) /\ Stored(e1) /\ Plain(e, e1)
    <2>1. /\ e1.z = e.z /\ e1.row = e.row /\ e1.db = e.db /\ e1.fired = e.fired
          /\ e1.horn = e.horn
        BY DEF Sane, Stored, Typed, Engines
    <2>2. Sane(e1)
        BY DEF Sane, Stored, Typed, Engines
    <2> HIDE DEF e1
    <2> QED BY <2>1, <2>2 DEF Plain, Aside, Replans, Unplanned, NoPlan, Sane
<1> HIDE DEF e1
<1>3. Sane(e2) /\ Books(e, e2, f)
    <2>1. Books(e1, DisarmLocked(e1, f), f) /\ Sane(DisarmLocked(e1, f))
        BY <1>2, DisarmLockedBooks, DisarmLockedSane
    <2>2. Books(e, e1, f) /\ Books(e, DisarmLocked(e1, f), f)
        BY <1>2, <2>1, PlainBooks, BooksTrans
    <2>3. e2 \in {e1, DisarmLocked(e1, f)}
        OBVIOUS
    <2> HIDE DEF e2
    <2> QED BY <1>2, <2>1, <2>2, <2>3
<1> HIDE DEF e2
<1>4. e2.z \in Zones /\ k.sensors \subseteq Sensors
    BY <1>3 DEF Sane, Stored, Typed, Engines, Configs
<1>5. z \in Zones
    <2> DEFINE x1 == [e2.z EXCEPT !.bypassed = @ \cap k.sensors]
               x2 == [x1 EXCEPT !.openAtArm = @ \cap k.sensors]
               p == IF x2.pendingCause \in k.sensors THEN x2.pendingCause ELSE None
    <2>1. x1 \in Zones
        BY <1>4 DEF Zones
    <2>2. z = [x2 EXCEPT !.pendingCause = p]
        BY <1>4 DEF PruneSensors, Zones
    <2> HIDE DEF x1
    <2>3. x2 \in Zones
        BY <2>1 DEF Zones
    <2> HIDE DEF x2, z
    <2>4. p \in Sensors \cup {None}
        BY <2>3 DEF Zones
    <2> HIDE DEF p
    <2> QED BY <2>2, <2>3, <2>4 DEF Zones
<1>6. Aside(e2.z, z)
    BY <1>4 DEF PruneSensors, Zones, Aside, Replans
<1>7. v \in Views
    BY <1>3 DEF Views, Sane, Stored, Typed, Engines
<1> HIDE DEF z, v
<1>8. Typed(e3) /\ Plain(e2, e3)
    <2>1. /\ e3.z = z /\ e3.row = e2.row /\ e3.db = e2.db /\ e3.fired = e2.fired
          /\ e3.horn = e2.horn
        BY <1>3 DEF Sane, Stored, Typed, Engines
    <2>2. Typed(e3)
        BY <1>3, <1>5, <1>6, <1>7 DEF Sane, Stored, Typed, Engines, Aside
    <2> HIDE DEF e3
    <2> QED BY <1>6, <2>1, <2>2 DEF Plain, Aside, Replans, Unplanned, NoPlan
<1>9. Stored(e3)
    <2>1. e3.row = e2.row
        BY <1>3 DEF Sane, Stored, Typed, Engines
    <2> HIDE DEF e3
    <2> QED BY <1>3, <1>8, <2>1 DEF Stored, Sane
<1> HIDE DEF e3
<1>10. Stored(e4) /\ Plain(e3, e4)
    BY <1>8, <1>9, RefreshStored, PlainRefresh
<1> HIDE DEF e4
<1>11. Plain(e4, Persist(e4, f))
    BY <1>10, PlainPersist DEF Stored
<1>12. Books(e2, Persist(e4, f), f)
    BY <1>8, <1>10, <1>11, PlainTrans, PlainBooks
<1> QED BY <1>1, <1>3, <1>12, BooksTrans

LEMMA StopZoneBooks ==
    ASSUME NEW e, Sane(e), NEW f
    PROVE  Books(e, StopZone(e, f), f)
<1> DEFINE p == Persist(e, f)
           y == CancelTimers(e.z)
           z == CancelAutoRearm(y)
<1>1. e.z \in Zones /\ Typed(e)
    BY DEF Sane, Stored, Typed, Engines
<1>2. Typed(p) /\ p.z = e.z /\ Plain(e, p)
    BY <1>1, PersistTyped, PlainPersist
<1>3. StopZone(e, f) = With(p, z)
    BY <1>2 DEF StopZone
<1> HIDE DEF p
<1>4. y \in Zones
    BY <1>1, CancelTimersZone
<1>5. y.incident = e.z.incident /\ y.silencedID = e.z.silencedID /\ y.timer = "none"
    BY <1>1 DEF CancelTimers, Zones
<1> HIDE DEF y
<1>6. Aside(e.z, z)
    BY <1>4, <1>5 DEF CancelAutoRearm, Zones, Aside, Replans
<1> HIDE DEF z
<1> QED BY <1>2, <1>3, <1>6, PlainWith, PlainTrans, PlainBooks

-----------------------------------------------------------------------------
\* The inductive invariant: the cycles are counted and a silenced incident does
\* not sound, whatever fails; while every write has succeeded, the incident table
\* is the one the state row describes and the modes match; while every write to the
\* incident rows has succeeded, each silence is on its incident row.

SilencesKept == faults = 0 \/ "inc" \notin FailingWrites

OnRecord(d, H) == \A i \in H : i \in 1..Len(d) /\ d[i].silenced

LedgerInv ==
    /\ ModeInv
    /\ faults <= MaxFaults
    /\ Tally(eng) /\ Muted(eng)
    /\ ZoneConfig.autoRearm \/ NoPlan(eng)
    /\ faults = 0 => Tidy(row, db) /\ Matched(zone) /\ Matched(row)
    /\ SilencesKept => Hushed(eng) /\ OnRecord(db, hushed)

\* The invariants of an engine record look at these fields only.
LEMMA LedgerFields ==
    ASSUME NEW e, NEW c, c.z = e.z, c.row = e.row, c.db = e.db, c.fired = e.fired,
           c.horn = e.horn
    PROVE  /\ Tally(e) => Tally(c)
           /\ Hushed(e) => Hushed(c)
           /\ Muted(e) => Muted(c)
           /\ NoPlan(e) => NoPlan(c)
BY DEF Tally, Hushed, Muted, NoPlan

\* Where the row is current, a tidy table is one whose open row is owned.
LEMMA TidyOwned ==
    ASSUME NEW e, Linked(e.z), Agrees(e.row, e.z)
    PROVE  Tidy(e.row, e.db) <=> Owned(e)
BY DEF Linked, Agrees, IncidentId, Tidy, Owned

\* An engine that a handler, a reload, a stop or a start leaves behind.
LEMMA BecomesLedger ==
    ASSUME LedgerInv, ModeInv', life' # "down", NEW f \in Faults, Writing(f), NEW c, Becomes(c),
           Tally(c), Muted(c), Unplanned(eng, c), faults' = 0 => Owned(c) /\ Even(c),
           "inc" \notin f /\ Hushed(eng) => Hushed(c) /\ Lasting(db, c.db)
    PROVE  LedgerInv'
<1>1. /\ zone' = c.z /\ cfg' = c.cfg /\ view' = c.view /\ row' = c.row
      /\ db' = c.db /\ horn' = c.horn /\ fired' = c.fired
    BY BecomesFields
<1>2. PICK d : d = eng'
    OBVIOUS
<1>3. d.z = c.z /\ d.row = c.row /\ d.db = c.db /\ d.fired = c.fired /\ d.horn = c.horn
    BY <1>1, <1>2 DEF eng
<1>4. Tally(eng') /\ Muted(eng')
    BY <1>2, <1>3, LedgerFields
<1>8. ZoneConfig.autoRearm \/ NoPlan(eng')
    BY <1>2, <1>3, LedgerFields DEF LedgerInv, Unplanned
<1>5. faults' <= MaxFaults
    BY BoundAssumption DEF LedgerInv, ModeInv, ControlInv, TypeOK, Writing
<1>6. ASSUME faults' = 0 PROVE Tidy(row', db') /\ Matched(zone') /\ Matched(row')
    <2>1. Linked(zone') /\ Agrees(row', zone')
        BY <1>6 DEF ModeInv, Current, ControlInv, IncidentIffTriggered, Linked
    <2>2. Tidy(c.row, c.db)
        BY <1>1, <1>6, <2>1, TidyOwned
    <2> QED BY <1>1, <1>6, <2>2 DEF Even
<1>7. ASSUME SilencesKept' PROVE Hushed(eng') /\ OnRecord(db', hushed')
    <2>1. SilencesKept /\ "inc" \notin f
        BY <1>7 DEF SilencesKept, Writing, Faults, LedgerInv, ModeInv, ControlInv, TypeOK
    <2>2. Hushed(c) /\ Lasting(db, c.db) /\ OnRecord(db, hushed)
        BY <2>1 DEF LedgerInv
    <2>3. hushed' = hushed \cup {i \in 1..Len(c.db) : c.db[i].silenced \/ c.row.silencedID = i}
        BY DEF Becomes
    <2>4. ASSUME NEW i \in hushed' PROVE i \in 1..Len(c.db) /\ c.db[i].silenced
        <3>1. CASE i \in hushed
            BY <2>2, <3>1 DEF OnRecord, Lasting
        <3>2. CASE i \notin hushed
            BY <2>2, <2>3, <2>4, <3>2 DEF Hushed
        <3> QED BY <3>1, <3>2
    <2>5. Hushed(eng')
        BY <1>2, <1>3, <2>2, LedgerFields
    <2> QED BY <1>1, <2>4, <2>5 DEF OnRecord
<1> QED BY <1>4, <1>5, <1>6, <1>7, <1>8 DEF LedgerInv

LEMMA InitLedgerInv ==
    ASSUME Init
    PROVE  LedgerInv
<1>1. /\ zone = FreshZone /\ row = RowOf(FreshZone) /\ db = <<>> /\ horn = FALSE
      /\ fired = [i \in Ids |-> 0] /\ hushed = {} /\ faults = 0
    BY DEF Init
<1>2. ModeInv
    BY InitModeInv
<1>3. zone.incident = None /\ zone.silencedID = 0 /\ row.incident = 0 /\ row.silencedID = 0
      /\ row.state = "disarmed" /\ zone.rearmMode = None /\ row.rearmMode = None
    BY <1>1 DEF FreshZone, RowOf
<1>4. eng.z = zone /\ eng.row = row /\ eng.db = db /\ eng.fired = fired
    BY DEF eng
<1>5. Tally(eng)
    <2>1. \A i \in Ids \ {0} : ~(i <= Len(db)) /\ fired[i] = 0
        BY <1>1, BoundAssumption DEF Ids
    <2> QED BY <1>3, <1>4, <2>1 DEF Tally
<1>6. Muted(eng) /\ Hushed(eng) /\ OnRecord(db, hushed) /\ NoPlan(eng)
    BY <1>1, <1>3, <1>4 DEF Muted, Hushed, OnRecord, NoPlan
<1>7. Tidy(row, db)
    BY <1>1, <1>3 DEF Tidy, OpenRows
<1> QED BY <1>1, <1>2, <1>5, <1>6, <1>7, FreshZoneSound, BoundAssumption DEF LedgerInv

\* While every write has succeeded, a running zone owns the open row.
LEMMA RunningOwned ==
    ASSUME LedgerInv, life # "down", faults = 0
    PROVE  Owned(eng) /\ Even(eng)
<1>1. eng.z = zone /\ eng.row = row /\ eng.db = db
    BY DEF eng
<1>2. Linked(zone) /\ Agrees(row, zone)
    BY DEF LedgerInv, ModeInv, Current, ControlInv, IncidentIffTriggered, Linked
<1> QED BY <1>1, <1>2, TidyOwned DEF LedgerInv, Even

LEMMA HandledLedger ==
    ASSUME LedgerInv, Handled, ModeInv'
    PROVE  LedgerInv'
<1>1. PICK f \in Faults : \E e, c : Writing(f) /\ Like(e) /\ Becomes(c) /\ Outcome(e, c, f)
    BY DEF Handled
<1>2. PICK e, c : Writing(f) /\ Like(e) /\ Becomes(c) /\ Outcome(e, c, f)
    BY <1>1
<1>3. life' # "down" /\ life # "down"
    BY DEF Handled
<1>4. ModeInv /\ EngineOK /\ (life = "up" => Clocked(zone)) /\ faults \in Nat
    BY ControlInvParts DEF LedgerInv, ModeInv, AroundOK
<1>5. Typed(eng) /\ eng.z = zone /\ eng.row = row /\ eng.cfg = cfg /\ eng.db = db
    BY <1>4, LikeEng, EngFields
<1>6. Books(eng, c, f)
    BY <1>2, <1>4, OutcomeBooks
<1>7. Does(eng, c, f)
    BY <1>2, <1>4, OutcomeDoes DEF ModeInv
<1>8. zone' = c.z /\ row' = c.row
    BY <1>2, BecomesFields
<1>9. c.z \in Zones
    BY <1>8 DEF ModeInv, ControlInv, TypeOK
<1>10. Even(eng) => Even(c)
    <2>1. Moded(eng.z) /\ Moded(eng.row)
        BY <1>4, <1>5 DEF ModeInv
    <2> QED BY <1>5, <1>7, <1>9, <2>1, DoesKeeps DEF Even
<1>11. faults' = 0 => Owned(c) /\ Even(c)
    <2>1. ASSUME faults' = 0 PROVE f = {} /\ Owned(eng) /\ Even(eng)
        BY <1>2, <1>3, <1>4, <2>1, WritingClean, RunningOwned
    <2> QED BY <1>6, <1>10, <2>1 DEF Books
<1>12. Tally(c) /\ Muted(c) /\ Unplanned(eng, c)
    BY <1>6 DEF Books, LedgerInv
<1>13. "inc" \notin f /\ Hushed(eng) => Hushed(c) /\ Lasting(db, c.db)
    BY <1>5, <1>6 DEF Books
<1> QED BY <1>2, <1>3, <1>11, <1>12, <1>13, BecomesLedger

LEMMA ReloadLedger ==
    ASSUME LedgerInv, Reload, ModeInv'
    PROVE  LedgerInv'
<1>1. PICK f \in Faults : Writing(f) /\ Becomes(ReloadConfig(eng, stored, ready, world, f))
    BY DEF Reload
<1>2. life' # "down" /\ life # "down"
    BY DEF Reload
<1>3. ModeInv /\ EngineOK /\ faults \in Nat /\ stored \in Configs
    BY ControlInvParts DEF LedgerInv, ModeInv, AroundOK
<1>4. Sane(eng) /\ Moded(eng.z) /\ Moded(eng.row) /\ eng.db = db
    BY <1>3, EngSane, EngFields DEF ModeInv
<1> DEFINE c == ReloadConfig(eng, stored, ready, world, f)
<1>5. Books(eng, c, f) /\ (Even(eng) => Even(c))
    BY <1>3, <1>4, ReloadConfigBooks, ReloadConfigSound
<1>6. Becomes(c)
    BY <1>1
<1> HIDE DEF c
<1>7. faults' = 0 => Owned(c) /\ Even(c)
    <2>1. ASSUME faults' = 0 PROVE f = {} /\ Owned(eng) /\ Even(eng)
        BY <1>1, <1>2, <1>3, <2>1, WritingClean, RunningOwned
    <2> QED BY <1>5, <2>1 DEF Books
<1>8. Tally(c) /\ Muted(c) /\ Unplanned(eng, c)
    BY <1>5 DEF Books, LedgerInv
<1>9. "inc" \notin f /\ Hushed(eng) => Hushed(c) /\ Lasting(db, c.db)
    BY <1>4, <1>5 DEF Books
<1> QED BY <1>1, <1>2, <1>6, <1>7, <1>8, <1>9, BecomesLedger

LEMMA StopLedger ==
    ASSUME LedgerInv, Stop, ModeInv'
    PROVE  LedgerInv'
<1>1. PICK f \in Faults : Writing(f) /\ Becomes(StopZone(eng, f))
    BY DEF Stop
<1>2. life' # "down" /\ life # "down"
    BY DEF Stop
<1>3. ModeInv /\ EngineOK /\ faults \in Nat
    BY ControlInvParts DEF LedgerInv, ModeInv, AroundOK
<1>4. Sane(eng) /\ Moded(eng.z) /\ Moded(eng.row) /\ eng.db = db
    BY <1>3, EngSane, EngFields DEF ModeInv
<1> DEFINE c == StopZone(eng, f)
<1>5. Books(eng, c, f) /\ (Even(eng) => Even(c))
    BY <1>4, StopZoneBooks, StopZoneSound
<1>6. Becomes(c)
    BY <1>1
<1> HIDE DEF c
<1>7. faults' = 0 => Owned(c) /\ Even(c)
    <2>1. ASSUME faults' = 0 PROVE f = {} /\ Owned(eng) /\ Even(eng)
        BY <1>1, <1>2, <1>3, <2>1, WritingClean, RunningOwned
    <2> QED BY <1>5, <2>1 DEF Books
<1>8. Tally(c) /\ Muted(c) /\ Unplanned(eng, c)
    BY <1>5 DEF Books, LedgerInv
<1>9. "inc" \notin f /\ Hushed(eng) => Hushed(c) /\ Lasting(db, c.db)
    BY <1>4, <1>5 DEF Books
<1> QED BY <1>1, <1>2, <1>6, <1>7, <1>8, <1>9, BecomesLedger

LEMMA StartLedger ==
    ASSUME LedgerInv, Start, ModeInv'
    PROVE  LedgerInv'
<1>1. PICK readable \in BOOLEAN, plausible \in BOOLEAN, elapsed \in BOOLEAN, rdy \in BOOLEAN,
           f \in Faults :
        /\ readable \/ "inc" \in f
        /\ Writing(f)
        /\ Becomes(StartZone(eng, readable, plausible, elapsed, rdy, f))
    BY DEF Start
<1>2. life' # "down"
    BY DEF Start
<1>3. ModeInv /\ EngineOK /\ faults \in Nat /\ stored \in Configs
    BY ControlInvParts DEF LedgerInv, ModeInv, AroundOK
<1> DEFINE b == LoadRow(Booted(rdy), readable, f)
           c == StartZone(eng, readable, plausible, elapsed, rdy, f)
<1>4. Restored(b, c, rdy, world, f)
    BY <1>3, StartSound DEF ModeInv
<1>5. /\ Tally(c) /\ Muted(c) /\ Unplanned(eng, c)
      /\ readable /\ f = {} /\ Tidy(row, db) =>
            Owned(c) /\ (row.state = "triggered" => b.z.incident # None)
      /\ "inc" \notin f /\ Hushed(eng) => Hushed(c) /\ Lasting(db, c.db)
    BY <1>3, StartBooks DEF LedgerInv
<1>6. b.row = row
    <2>1. Stored(Booted(rdy)) /\ Booted(rdy).row = row
        BY <1>3, BootedFields
    <2> QED BY <2>1, LoadRowLoads
<1>7. Becomes(c)
    BY <1>1
<1> HIDE DEF b, c
<1>8. faults' = 0 => Owned(c) /\ Even(c)
    <2>1. ASSUME faults' = 0 PROVE f = {} /\ readable /\ Tidy(row, db) /\ Matched(row)
        BY <1>1, <1>3, <2>1, WritingClean DEF LedgerInv
    <2> QED BY <1>4, <1>5, <1>6, <2>1 DEF Restored, Recalled
<1> QED BY <1>1, <1>2, <1>5, <1>7, <1>8, BecomesLedger

LEMMA ExitLedger ==
    ASSUME LedgerInv, Exit \/ CrashInSilence, ModeInv'
    PROVE  LedgerInv'
<1>1. /\ zone' = FreshZone /\ row' = row /\ fired' = fired /\ faults' = faults
    BY DEF Exit, CrashInSilence, Memoryless
<1>2. zone'.incident = None /\ zone'.silencedID = 0 /\ zone'.rearmMode = None
    BY <1>1 DEF FreshZone
<1>3. db \in Seq(IncidentRows) /\ Len(db) \in Nat
    BY DEF LedgerInv, ModeInv, ControlInv, TypeOK
<1>4. /\ Len(db') = Len(db)
      /\ \A i \in 1..Len(db) :
            /\ db'[i].cycles = db[i].cycles /\ db'[i].refires = db[i].refires
            /\ db'[i].open <=> db[i].open
            /\ db[i].silenced => db'[i].silenced
      /\ hushed' = hushed \/ \E i \in 1..Len(db) : hushed' = hushed \cup {i} /\ db'[i].silenced
    <2>1. CASE Exit
        BY <2>1 DEF Exit
    <2>2. CASE CrashInSilence
        <3> DEFINE k == zone.incident.id
                   d == [db EXCEPT ![k].silenced = TRUE]
        <3>1. db' = d /\ hushed' = hushed \cup {k} /\ zone.incident # None /\ k # 0
            BY <2>2 DEF CrashInSilence
        <3>2. k \in 1..Len(db)
            BY <3>1 DEF LedgerInv, ModeInv, ControlInv, TypeOK, Zones, Incidents
        <3> HIDE DEF k
        <3>3. Len(d) = Len(db)
            BY <1>3, <3>2, RowUpdateTyped
        <3>4. ASSUME NEW i \in 1..Len(db)
              PROVE  /\ d[i].cycles = db[i].cycles /\ d[i].refires = db[i].refires
                     /\ d[i].open <=> db[i].open
                     /\ d[i].silenced <=> db[i].silenced \/ i = k
            BY <1>3, <3>2, RowFields
        <3> HIDE DEF d
        <3> QED BY <3>1, <3>2, <3>3, <3>4
    <2> QED BY <2>1, <2>2
<1>5. PICK c : c = eng'
    OBVIOUS
<1>6. c.z = zone' /\ c.row = row' /\ c.db = db' /\ c.fired = fired'
    BY <1>5 DEF eng
<1>7. eng.z = zone /\ eng.row = row /\ eng.db = db /\ eng.fired = fired
    BY DEF eng
<1>8. Tally(c) /\ Muted(c)
    <2>1. ASSUME NEW i \in Ids \ {0}
          PROVE  IF i <= Len(c.db)
                 THEN c.db[i].cycles <= ZoneConfig.maxRetriggerCycles
                      /\ c.fired[i] <= Allowed(c.db[i])
                 ELSE c.fired[i] = 0
        <3>1. i \in Nat /\ i # 0
            BY BoundAssumption DEF Ids
        <3>2. IF i <= Len(db)
              THEN db[i].cycles <= ZoneConfig.maxRetriggerCycles /\ fired[i] <= Allowed(db[i])
              ELSE fired[i] = 0
            BY <1>7 DEF LedgerInv, Tally
        <3>3. i <= Len(db) => db'[i].cycles = db[i].cycles /\ db'[i].refires = db[i].refires
            BY <1>3, <1>4, <3>1
        <3> QED BY <1>1, <1>4, <1>6, <3>2, <3>3 DEF Allowed
    <2> QED BY <1>2, <1>6, <2>1 DEF Tally, Muted
<1>9. faults' = 0 => Tidy(row', db') /\ Matched(zone') /\ Matched(row')
    <2>1. OpenRows(db') = OpenRows(db)
        BY <1>4 DEF OpenRows
    <2> QED BY <1>1, <2>1, FreshZoneSound DEF LedgerInv, Tidy
<1>10. SilencesKept' => Hushed(c) /\ OnRecord(db', hushed')
    <2>1. ASSUME SilencesKept' PROVE Hushed(eng) /\ OnRecord(db, hushed)
        BY <1>1, <2>1 DEF LedgerInv, SilencesKept
    <2>2. Hushed(eng) => Hushed(c)
        BY <1>1, <1>2, <1>4, <1>6, <1>7 DEF Hushed
    <2>3. OnRecord(db, hushed) => OnRecord(db', hushed')
        BY <1>4 DEF OnRecord
    <2> QED BY <2>1, <2>2, <2>3
<1>11. faults' <= MaxFaults
    BY <1>1 DEF LedgerInv
<1>12. ZoneConfig.autoRearm \/ NoPlan(c)
    BY <1>1, <1>2, <1>6, <1>7 DEF LedgerInv, NoPlan
<1> QED BY <1>5, <1>8, <1>9, <1>10, <1>11, <1>12 DEF LedgerInv

LEMMA QuietLedger ==
    ASSUME LedgerInv, Quiet, ModeInv'
    PROVE  LedgerInv'
<1>1. PICK c : c = eng'
    OBVIOUS
<1>2. /\ c.z = zone /\ c.row = row /\ c.db = db /\ c.fired = fired /\ c.horn \in {horn, FALSE}
      /\ zone' = zone /\ row' = row /\ db' = db /\ hushed' = hushed /\ faults' = faults
    BY <1>1 DEF eng, Quiet
<1>3. Plain(eng, c)
    BY <1>2, EngFields DEF Plain, Aside, Replans, Unplanned, NoPlan
<1>4. /\ (Tally(eng) => Tally(c)) /\ (Muted(eng) => Muted(c)) /\ (Hushed(eng) => Hushed(c))
      /\ Unplanned(eng, c)
    <2>1. Books(eng, c, {})
        BY <1>3, PlainBooks
    <2> QED BY <2>1 DEF Books
<1> QED BY <1>1, <1>2, <1>4 DEF LedgerInv, SilencesKept, Unplanned

LEMMA NextLedger ==
    ASSUME LedgerInv, Next
    PROVE  LedgerInv'
<1>1. ControlInv /\ ModeInv'
    BY NextMode DEF LedgerInv, ModeInv
<1> QED BY <1>1, StepKinds, HandledLedger, ReloadLedger, StopLedger, ExitLedger, StartLedger,
           QuietLedger

LEMMA LedgerStutter ==
    ASSUME LedgerInv, UNCHANGED vars
    PROVE  LedgerInv'
<1>1. Quiet
    BY DEF Quiet, vars, engVars, countVars
<1>2. ModeInv'
    <2>1. ControlInv'
        BY DEF LedgerInv, ModeInv, ControlInv, TypeOK, IncidentIffTriggered,
                    TimerDiscipline, Unlinked, vars, engVars, sensorVars, envVars,
                    countVars
    <2> QED BY <2>1 DEF LedgerInv, ModeInv, Settled, Current, vars, engVars,
                              countVars
<1> QED BY <1>1, <1>2, QuietLedger

\* The incident ledger is kept by every handler, reload, stop, crash and restart, for
\* every configuration and every pattern of failing writes.
THEOREM LedgerInvariant == Spec => []LedgerInv
<1>1. Init => LedgerInv
    BY InitLedgerInv
<1>2. LedgerInv /\ [Next]_vars => LedgerInv'
    BY NextLedger, LedgerStutter
<1> QED BY <1>1, <1>2, PTL DEF Spec

\* S1: however often the process restarts and whichever writes fail, one incident
\* starts at most the trigger, its escalation, the configured re-trigger cycles and
\* LoopBreakerK re-fires (trigger, onPreAlarmElapsed, retriggerCycle, refireOnRestore).
THEOREM CyclesAreBounded == Spec => []CycleBound
<1>1. LedgerInv => CycleBound
    <2>1. ASSUME LedgerInv, NEW i \in 1..MaxIncidents
          PROVE  fired[i] <= 2 + ZoneConfig.maxRetriggerCycles + LoopBreakerK
        <3>1. i \in Ids \ {0} /\ i \in Nat
            BY BoundAssumption DEF Ids
        <3>2. ZoneConfig.maxRetriggerCycles \in Nat /\ LoopBreakerK \in Nat
            BY BoundAssumption, ConfigAssumption DEF ZoneConfigs
        <3>3. db \in Seq(IncidentRows) /\ Len(db) \in Nat /\ fired[i] \in Nat
            BY <2>1, <3>1 DEF LedgerInv, ModeInv, ControlInv, TypeOK
        <3>4. IF i <= Len(db)
              THEN db[i].cycles <= ZoneConfig.maxRetriggerCycles /\ fired[i] <= Allowed(db[i])
              ELSE fired[i] = 0
            BY <2>1, <3>1, EngFields DEF LedgerInv, Tally
        <3>5. CASE i <= Len(db)
            <4>1. db[i] \in IncidentRows
                BY <3>1, <3>3, <3>5
            <4>2. db[i].cycles \in Nat /\ db[i].refires \in Nat
                BY <4>1 DEF IncidentRows
            <4> QED BY <3>2, <3>3, <3>4, <3>5, <4>2 DEF Allowed, Least
        <3>6. CASE ~(i <= Len(db))
            BY <3>2, <3>4, <3>6
        <3> QED BY <3>5, <3>6
    <2> QED BY <2>1 DEF CycleBound
<1> QED BY <1>1, LedgerInvariant, PTL

\* While every write succeeds, no incident row stays open behind a zone that has moved
\* on (closeIncident, restoreZone's lookup and its close of an orphan).
THEOREM OpenRowsAreOwned == Spec => []OpenIncidentHasOwner
<1>1. LedgerInv => OpenIncidentHasOwner
    <2>1. ASSUME LedgerInv, life = "up", faults = 0 PROVE Owned(eng)
        BY <2>1, RunningOwned
    <2> QED BY <2>1, EngFields DEF OpenIncidentHasOwner, Owned, IncidentId
<1> QED BY <1>1, LedgerInvariant, PTL

\* The armed mode is set exactly in the armed-side states, and a hazard over a zone
\* that was off returns to off: while every write succeeds, before the first restart
\* whatever fails, and always under the "disarm" policy (a restart that cannot read
\* the incident of such an alarm arms the zone under "return_to_armed").
THEOREM ModesMatch == Spec => [](faults = 0 \/ Settled => ModeMatchesState)
<1>1. LedgerInv => (faults = 0 \/ Settled => ModeMatchesState)
    <2>1. ASSUME LedgerInv, faults = 0 \/ Settled PROVE Moded(zone) /\ Matched(zone)
        BY <2>1 DEF LedgerInv, ModeInv
    <2> QED BY <2>1 DEF Moded, Matched, ModeMatchesState
<1> QED BY <1>1, LedgerInvariant, PTL

\* S3: a silenced incident never sounds in memory, whatever fails; and where no write
\* to the incident rows has failed, no silence on record is lost by a crash at any
\* point or by a restart (silenceIncident, restoreZone, refireOnRestore).
THEOREM SilencesHold == Spec => [](Muted(eng) /\ (SilencesKept => SilencedNeverSounds))
<1>1. LedgerInv => Muted(eng) /\ (SilencesKept => SilencedNeverSounds)
    <2>1. ASSUME LedgerInv PROVE Muted(eng)
        BY <2>1 DEF LedgerInv
    <2>2. ASSUME LedgerInv, SilencesKept, zone.incident # None, zone.incident.id \in hushed
          PROVE  zone.incident.silenced
        <3>1. Hushed(eng) /\ OnRecord(db, hushed)
            BY <2>2 DEF LedgerInv
        <3>2. zone.incident.id \in 1..Len(db) /\ db[zone.incident.id].silenced
            BY <2>2, <3>1 DEF OnRecord
        <3>3. zone.incident.id # 0
            BY <3>2
        <3> QED BY <2>2, <3>1, <3>2, <3>3, EngFields DEF Hushed
    <2> QED BY <2>1, <2>2, EngFields DEF SilencedNeverSounds, Muted
<1> QED BY <1>1, LedgerInvariant, PTL

LEMMA StartGuarded ==
    ASSUME LedgerInv, Next, life = "down", life' = "up", zone'.state = "disarmed"
    PROVE  \/ row.state \in {"disarmed", "arming"}
           \/ row.state = "triggered" /\ (\/ ZoneConfig.postTrigger = "disarm"
                                          \/ row.preState # None /\ row.preMode \notin Modes)
<1>1. ControlInv /\ EngineOK /\ stored \in Configs
    BY ControlInvParts DEF LedgerInv, ModeInv, AroundOK
<1>2. Start
    <2>1. ~Handled /\ ~Quiet
        BY DEF Handled, Quiet
    <2>2. ~Reload /\ ~Stop
        BY DEF Reload, Stop
    <2>3. ~Exit /\ ~CrashInSilence
        BY DEF Exit, CrashInSilence
    <2> QED BY <1>1, <2>1, <2>2, <2>3, StepKinds
<1>3. PICK readable \in BOOLEAN, plausible \in BOOLEAN, elapsed \in BOOLEAN, rdy \in BOOLEAN,
           f \in Faults :
        Becomes(StartZone(eng, readable, plausible, elapsed, rdy, f))
    BY <1>2 DEF Start
<1> DEFINE c == StartZone(eng, readable, plausible, elapsed, rdy, f)
<1>4. Guarded(row, c.z) /\ zone' = c.z
    BY <1>1, <1>3, StartBooks, BecomesFields
<1> HIDE DEF c
<1> QED BY <1>4 DEF Guarded

\* A restart never brings an armed-side or triggered row up disarmed unless the policy,
\* the failed exit delay or the interrupted state says so: under the "disarm" policy
\* whatever fails, and under "return_to_armed" where the store works (restoreZone,
\* restoreTriggered, finishTriggeredOnRestore, finishAlwaysOn).
THEOREM ProtectionSurvives ==
    ASSUME MaxFaults = 0 \/ ZoneConfig.postTrigger = "disarm"
    PROVE  Spec => RestartKeepsProtection
<1> DEFINE A == life = "down" /\ life' = "up" /\ zone'.state = "disarmed" =>
                  \/ row.state \in {"disarmed", "arming"}
                  \/ row.state = "triggered" /\ (ZoneConfig.postTrigger = "disarm"
                                                 \/ row.preState = "disarmed")
<1>1. LedgerInv /\ [Next]_vars => [A]_vars
    <2>1. ASSUME LedgerInv, Next PROVE A
        <3>1. CASE ZoneConfig.postTrigger = "disarm"
            BY <2>1, <3>1, StartGuarded
        <3>2. CASE MaxFaults = 0
            <4>1. faults = 0
                BY <2>1, <3>2 DEF LedgerInv, ModeInv, ControlInv, TypeOK
            <4>2. Matched(row) /\ Moded(row) /\ row.preState \in States \cup {None}
                BY <2>1, <4>1 DEF LedgerInv, ModeInv, ControlInv, TypeOK, Rows
            <4>3. row.preState # None /\ row.preMode \notin Modes => row.preState = "disarmed"
                BY <4>2 DEF Matched, Moded, States, ArmedSide
            <4> QED BY <2>1, <4>3, StartGuarded
        <3> QED BY <3>1, <3>2
    <2> HIDE DEF A
    <2> QED BY <2>1
<1> QED BY <1>1, LedgerInvariant, PTL DEF Spec, RestartKeepsProtection

-----------------------------------------------------------------------------
\* A disarm is durable.  The invariant behind it: where nothing plans a rearm and every
\* write has succeeded, a zone the operator turned off has no mode, in memory and on
\* disk, so no countdown, alarm or restart has a mode to go back to.

KeptOff ==
    faults = 0 /\ ~ZoneConfig.autoRearm /\ off => zone.mode = Off /\ row.mode = Off

\* Of the moves, only arming gives a zone without a mode one.
LEMMA MovesOff ==
    ASSUME NEW k, NEW z \in Zones, NEW y, Moded(z), Matched(z), z.mode = Off, Moves(k, z, y),
           y.mode # Off
    PROVE  z.state = "disarmed" /\ Arms(k, z, y)
<1>1. Off \notin Modes /\ None \notin States
    BY NoneAssumption
<1>2. ~ArmedSide(z.state)
    BY <1>1 DEF Matched
<1>3. z.state \in {"disarmed", "triggered"}
    BY <1>2 DEF Zones, States, ArmedSide
<1>4. ~Returns(k, z, y)
    BY <1>1 DEF Returns, Matched
<1> QED BY <1>3, <1>4 DEF Moves, Rests, Arms, Settles, Pends, Alarms, Interrupts, Disarms

\* A handler other than that of the arm verb leaves a zone without mode and plan off.
LEMMA ReactsOff ==
    ASSUME LedgerInv, ModeInv', Reacts, ~ZoneConfig.autoRearm, faults' = 0, zone.mode = Off
    PROVE  zone'.mode = Off /\ row'.mode = Off
<1>1. PICK f \in Faults : \E e, c : Writing(f) /\ Like(e) /\ Becomes(c) /\ Reaction(e, c, f)
    BY DEF Reacts
<1>2. PICK e, c : Writing(f) /\ Like(e) /\ Becomes(c) /\ Reaction(e, c, f)
    BY <1>1
<1>3. ModeInv /\ EngineOK /\ faults \in Nat /\ zone \in Zones /\ life' # "down"
    BY ControlInvParts DEF LedgerInv, ModeInv, EngineOK, Reacts, ControlInv, TypeOK
<1>4. faults = 0 /\ Moded(zone) /\ Matched(zone) /\ zone.rearmMode = None
    BY <1>2, <1>3, WritingClean, EngFields DEF LedgerInv, ModeInv, NoPlan
<1>5. zone' = c.z /\ row' = c.row
    BY <1>2, BecomesFields
<1>6. Moves(cfg, zone, c.z)
    BY <1>2, <1>4, OutcomeDoes, EngFields DEF Outcome, Does
<1>7. SUFFICES ASSUME c.z.mode # Off PROVE FALSE
    BY <1>3, <1>5 DEF ModeInv, Current, Agrees
<1>8. zone.state = "disarmed" /\ c.z.state \in {"arming", "armed"}
    BY <1>3, <1>4, <1>6, <1>7, MovesOff DEF Arms
<1>9. c = OnAutoRearmElapsed(e, ready, world, trouble, f)
    BY <1>2, <1>4, <1>8, ReactionArms DEF ArmedSide
<1>10. e.z.rearmMode = None /\ e.z.state = "disarmed" /\ Typed(e)
    BY <1>2, <1>4, <1>8, EngFields DEF Like, Alike, Same, Sane, Stored
<1>11. e.z \in Zones /\ e.cfg.modes \subseteq Modes /\ None \notin Modes
    BY <1>10, NoneAssumption DEF Typed, Engines, Configs
<1> DEFINE z == [e.z EXCEPT !.rearm = FALSE, !.rearmMode = None]
<1>12. c = Persist(With(e, z), f)
    BY <1>9, <1>10, <1>11 DEF OnAutoRearmElapsed
<1>13. z.state = "disarmed"
    BY <1>10, <1>11 DEF Zones
<1> HIDE DEF z
<1>14. c.z.state = "disarmed"
    BY <1>10, <1>12, <1>13 DEF Persist, With, Typed, Engines
<1> QED BY <1>8, <1>14

\* Disarm leaves a running zone without mode.
LEMMA DisarmOff ==
    ASSUME LedgerInv, ModeInv', Disarm, faults' = 0
    PROVE  zone'.mode = Off /\ row'.mode = Off
<1>1. PICK f \in Faults :
        Becomes(IF zone.state # "disarmed" THEN DisarmLocked(eng, f)
                ELSE IF zone.rearm THEN Persist(With(eng, CancelAutoRearm(zone)), f)
                ELSE eng)
    BY DEF Disarm
<1>2. ModeInv /\ EngineOK /\ life' # "down"
    BY ControlInvParts DEF LedgerInv, ModeInv, Disarm
<1>3. Sane(eng) /\ Typed(eng) /\ zone \in Zones /\ eng.z = zone
    BY <1>2, LikeEng, EngSane, EngFields DEF EngineOK
<1>4. zone'.mode = Off
    <2>1. CASE zone.state # "disarmed"
        BY <1>1, <1>3, <2>1, BecomesFields, DisarmLockedDoes DEF Disarms
    <2>2. CASE zone.state = "disarmed"
        <3> DEFINE z == CancelAutoRearm(zone)
                   c == Persist(With(eng, z), f)
        <3>1. zone.mode = Off
            BY <1>2, <2>2 DEF ModeInv, Moded
        <3>2. z.mode = Off
            BY <1>3, <3>1 DEF CancelAutoRearm, Zones
        <3>3. Becomes(c) \/ Becomes(eng)
            BY <1>1, <2>2
        <3> HIDE DEF z
        <3>4. c.z = z
            BY <1>3 DEF Persist, With, Typed, Engines
        <3> HIDE DEF c
        <3> QED BY <1>3, <3>1, <3>2, <3>3, <3>4, BecomesFields
    <2> QED BY <2>1, <2>2
<1> QED BY <1>2, <1>4 DEF ModeInv, Current, Agrees

\* A restart from a row without mode and plan brings the zone up off, or in the alarm
\* that interrupted a zone that was off.
LEMMA StartKeepsOff ==
    ASSUME LedgerInv, ModeInv', Start, ~ZoneConfig.autoRearm, faults' = 0, row.mode = Off
    PROVE  zone'.mode = Off /\ row'.mode = Off
<1>1. PICK readable \in BOOLEAN, plausible \in BOOLEAN, elapsed \in BOOLEAN, rdy \in BOOLEAN,
           f \in Faults :
        /\ readable \/ "inc" \in f
        /\ Writing(f)
        /\ Becomes(StartZone(eng, readable, plausible, elapsed, rdy, f))
    BY DEF Start
<1>2. ModeInv /\ EngineOK /\ faults \in Nat /\ stored \in Configs /\ life' # "down"
    BY ControlInvParts DEF LedgerInv, ModeInv, AroundOK, Start
<1>3. f = {} /\ readable /\ faults = 0
    BY <1>1, <1>2, WritingClean
<1>4. Moded(row) /\ Matched(row) /\ Tidy(row, db) /\ row.rearmMode = None /\ row \in Rows
    BY <1>2, <1>3, EngFields DEF LedgerInv, ModeInv, NoPlan, ControlInv, TypeOK
<1> DEFINE c == StartZone(eng, readable, plausible, elapsed, rdy, f)
           b == LoadRow(Booted(rdy), readable, f)
<1>5. row.state \in {"disarmed", "triggered"}
    BY <1>4, NoneAssumption DEF Matched, Rows, States, ArmedSide
<1>6. c.z.mode = Off
    <2>1. CASE row.state = "disarmed"
        BY <1>2, <1>4, <2>1, StartOff
    <2>2. CASE row.state = "triggered"
        <3>1. /\ Stored(Booted(rdy)) /\ Booted(rdy).row = row
              /\ rdy => \A s \in Booted(rdy).cfg.sensors :
                            world[s] => Booted(rdy).view[s] = "active"
            BY <1>2, BootedFields
        <3>2. Stored(b) /\ Loaded(b) /\ b.row = row /\ b.cfg = Booted(rdy).cfg
              /\ b.view = Booted(rdy).view
            BY <3>1, LoadRowStored, LoadRowLoads
        <3>3. b.z.incident # None
            BY <1>2, <1>3, <1>4, <2>2, StartBooks
        <3>4. c = RestoreTriggered(b, plausible, elapsed, rdy, world, f)
            BY <2>2, <3>1 DEF StartZone, RestoreZone, Booted
        <3>5. b.z.incident.id # 0
            BY <3>1, <3>3, LoadRowStored
        <3> HIDE DEF b
        <3> QED BY <1>4, <2>2, <3>1, <3>2, <3>3, <3>4, <3>5, RestoreTriggeredSound
    <2> QED BY <1>5, <2>1, <2>2
<1>7. Becomes(c)
    BY <1>1
<1> HIDE DEF c
<1> QED BY <1>2, <1>6, <1>7, BecomesFields DEF ModeInv, Current, Agrees

HistoryInv == LedgerInv /\ KeptOff

\* Every step of the history keeps the zone off until the next arm verb.
LEMMA HistoryStep ==
    ASSUME HistoryInv, HistoryNext
    PROVE  HistoryInv'
<1>1. LedgerInv /\ ModeInv /\ ControlInv /\ Next
    BY DEF HistoryInv, LedgerInv, ModeInv, HistoryNext, Next
<1>2. LedgerInv' /\ ModeInv'
    BY <1>1, NextLedger DEF LedgerInv
<1>3. SUFFICES ASSUME faults' = 0, ~ZoneConfig.autoRearm, off'
               PROVE  zone'.mode = Off /\ row'.mode = Off
    BY <1>2 DEF HistoryInv, KeptOff
<1>4. CASE ArmVerb /\ off' = FALSE
    BY <1>3, <1>4
<1>5. CASE Disarm
    BY <1>1, <1>2, <1>3, <1>5, DisarmOff
<1>6. ASSUME UNCHANGED off, faults = 0 PROVE zone.mode = Off /\ row.mode = Off
    BY <1>3, <1>6 DEF HistoryInv, KeptOff
<1>7. ASSUME Reacts, UNCHANGED off PROVE zone'.mode = Off /\ row'.mode = Off
    <2>1. faults = 0
        BY <1>1, <1>3, <1>7, WritingClean DEF Reacts, ModeInv, ControlInv, TypeOK
    <2> QED BY <1>1, <1>2, <1>3, <1>6, <1>7, <2>1, ReactsOff
<1>8. ASSUME Quiet, UNCHANGED off PROVE zone'.mode = Off /\ row'.mode = Off
    BY <1>3, <1>6, <1>8 DEF Quiet
<1>9. EngineOK /\ stored \in Configs /\ faults \in Nat
    BY <1>1, ControlInvParts DEF AroundOK
<1>10. Sane(eng) /\ Moded(eng.z) /\ Moded(eng.row) /\ eng.z = zone
    BY <1>1, <1>9, EngSane, EngFields DEF ModeInv
<1>11. ASSUME Reload, UNCHANGED off PROVE zone'.mode = Off /\ row'.mode = Off
    <2>1. PICK f \in Faults : Writing(f) /\ Becomes(ReloadConfig(eng, stored, ready, world, f))
        BY <1>11 DEF Reload
    <2>2. faults = 0 /\ life' # "down"
        BY <1>3, <1>9, <1>11, <2>1, WritingClean DEF Reload
    <2>3. zone'.mode \in {zone.mode, Off}
        BY <1>9, <1>10, <2>1, ReloadConfigSound, BecomesFields
    <2> QED BY <1>2, <1>3, <1>6, <1>11, <2>2, <2>3 DEF ModeInv, Current, Agrees
<1>12. ASSUME Stop, UNCHANGED off PROVE zone'.mode = Off /\ row'.mode = Off
    <2>1. PICK f \in Faults : Writing(f) /\ Becomes(StopZone(eng, f))
        BY <1>12 DEF Stop
    <2>2. faults = 0 /\ life' # "down"
        BY <1>3, <1>9, <1>12, <2>1, WritingClean DEF Stop
    <2>3. zone'.mode = zone.mode
        BY <1>10, <2>1, StopZoneSound, BecomesFields
    <2> QED BY <1>2, <1>3, <1>6, <1>12, <2>2, <2>3 DEF ModeInv, Current, Agrees
<1>13. ASSUME Exit \/ CrashInSilence, UNCHANGED off PROVE zone'.mode = Off /\ row'.mode = Off
    <2>1. zone' = FreshZone /\ row' = row /\ faults' = faults
        BY <1>13 DEF Exit, CrashInSilence, Memoryless
    <2> QED BY <1>3, <1>6, <1>13, <2>1 DEF FreshZone
<1>14. ASSUME Start, UNCHANGED off PROVE zone'.mode = Off /\ row'.mode = Off
    <2>1. faults = 0
        BY <1>3, <1>9, <1>14, WritingClean DEF Start
    <2> QED BY <1>1, <1>2, <1>3, <1>6, <1>14, <2>1, StartKeepsOff
<1>15. CASE Environment /\ UNCHANGED off
    <2>1. Quiet
        BY <1>15 DEF Environment, SensorChanges, ModelPopulated, HornTimesOut, WriteConfig,
                     Quiet, engVars, countVars
    <2> QED BY <1>8, <1>15, <2>1
<1>16. CASE UNCHANGED off /\ (OtherVerb \/ (\E s \in Sensors : SensorEvent(s)) \/ SensorStatus
                              \/ Timer)
    <2>1. Reacts \/ Quiet
        BY <1>1, <1>16, VerbKinds, EventKinds, StatusKinds, TimerKindsOfStep
    <2> QED BY <1>7, <1>8, <1>16, <2>1
<1>17. CASE Process /\ UNCHANGED off
    BY <1>11, <1>12, <1>13, <1>14, <1>17 DEF Process
<1> QED BY <1>4, <1>5, <1>15, <1>16, <1>17 DEF HistoryNext

\* An explicit disarm is durable: while every write succeeds and no auto-rearm is
\* configured, only an arm verb turns the zone on again, through every alarm, reload,
\* stop, crash and restart (disarmIdle, disarmLocked, onAutoRearmElapsed, restoreZone).
THEOREM DisarmIsDurable ==
    HistorySpec => [](faults = 0 /\ ~ZoneConfig.autoRearm => StaysOff)
<1>1. HistoryInit => HistoryInv
    <2>1. ASSUME HistoryInit PROVE HistoryInv
        <3>1. LedgerInv
            BY <2>1, InitLedgerInv DEF HistoryInit
        <3>2. zone.mode = Off /\ row.mode = Off
            BY <2>1 DEF HistoryInit, Init, FreshZone, RowOf
        <3> QED BY <3>1, <3>2 DEF HistoryInv, KeptOff
    <2> QED BY <2>1
<1>2. HistoryInv /\ [HistoryNext]_historyVars => HistoryInv'
    <2>1. ASSUME HistoryInv, UNCHANGED historyVars PROVE HistoryInv'
        <3>1. UNCHANGED vars /\ UNCHANGED off
            BY <2>1 DEF historyVars
        <3>2. LedgerInv'
            BY <2>1, <3>1, LedgerStutter DEF HistoryInv
        <3>3. KeptOff'
            BY <2>1, <3>1 DEF HistoryInv, KeptOff, vars, engVars, countVars
        <3> QED BY <3>2, <3>3 DEF HistoryInv
    <2> QED BY <2>1, HistoryStep
<1>3. HistoryInv => (faults = 0 /\ ~ZoneConfig.autoRearm => StaysOff)
    <2>1. ASSUME HistoryInv, faults = 0, ~ZoneConfig.autoRearm, off
          PROVE  \/ zone.state = "disarmed"
                 \/ zone.state = "triggered" /\ zone.preState = "disarmed"
        <3>1. zone.mode = Off /\ Matched(zone) /\ zone \in Zones
            BY <2>1 DEF HistoryInv, KeptOff, LedgerInv, ModeInv, ControlInv, TypeOK
        <3>2. Off \notin Modes
            BY NoneAssumption
        <3> QED BY <3>1, <3>2 DEF Matched, Zones, States, ArmedSide
    <2> QED BY <2>1 DEF StaysOff
<1> QED BY <1>1, <1>2, <1>3, PTL DEF HistorySpec

=============================================================================
